-------------------------- MODULE InspectionStore --------------------------
(***************************************************************************)
(* The API's record of inspections: ingest, re-score and report, each a    *)
(* handler that writes in several awaits, running beside each other on one *)
(* database and one report directory, with failures and restarts between   *)
(* the awaits, engine upgrades, and edits made in the database by hand.    *)
(*                                                                         *)
(* A ledger is what a set of evidence rows says: `content` what they say   *)
(* now, `ids` the ledger whose ids the rows carry, `digest` the ledger the *)
(* digest in the inspection row was computed from.  A report is a function *)
(* of a ledger and an engine, so it is the pair of the two.  `rescoreOf`   *)
(* is no column: only the audit entry of a re-score names its source, and  *)
(* the row carries it here so that the properties can say it; `disguised`  *)
(* is history, kept for the same reason.                                   *)
(* One tenant; a capture without a device identifier is refused before     *)
(* anything is written and is not in Captures.                             *)
(***************************************************************************)
EXTENDS Naturals, FiniteSets

CONSTANTS
  Devices,      \* handsets, by salted hash of the UDID
  Ledgers,      \* what evidence rows can say, as collected or as edited
  Captures,     \* the ledgers of the captures a bench could submit
  DeviceOf,     \* the handset a ledger names
  SpecOf,       \* the model name and capacity a ledger reads
  RegionOf,     \* the sales region a ledger reads
  Handlers,     \* requests in service at the same time
  Ids,          \* inspection ids
  PublicIds,    \* public report ids
  MaxEngine,    \* bound on engine upgrades
  MaxCount,     \* bound on upserts of one handset
  None

Engines == 1..MaxEngine
Report == [ledger : Ledgers, engine : Engines]

VARIABLES
  submitted,    \* captures that reached ingest()
  disguised,    \* inspections whose evidence was ever edited so that no check sees it
  devices,      \* devices[d]: the device row, or None
  inspections,  \* inspections[i]: the inspection row with its evidence, or None
  files,        \* files[p]: the PDF in the report directory, or None
  reports,      \* reports[p]: the inspection the report row p names, or None
  log,          \* operational audit log
  tasks,        \* tasks[h]: what handler h holds in memory across its awaits
  engine        \* ENGINE_VERSION of the running process

vars == <<submitted, disguised, devices, inspections, files, reports, log, tasks, engine>>

DeviceRow == [spec : {SpecOf[l] : l \in Ledgers}, region : {RegionOf[l] : l \in Ledgers},
              inspectionCount : Nat]
InspectionRow == [device : Devices, ids : Ledgers, content : Ledgers, digest : Ledgers,
                  report : Report, rescoreOf : Ids \cup {None}]
AuditEntry == [action : {"inspection.created", "inspection.rescored"}, entity : Ids]
                \cup [action : {"report.generated"}, entity : PublicIds]

ASSUME ConstantsOK ==
  /\ Captures \subseteq Ledgers
  /\ DeviceOf \in [Ledgers -> Devices]
  /\ MaxEngine \in Nat \ {0} /\ MaxCount \in Nat
  /\ None \notin Ids /\ None \notin PublicIds
  /\ None \notin DeviceRow /\ None \notin InspectionRow /\ None \notin Report
  /\ None \notin [ledger : Ledgers, engine : Engines, rescoreOf : Ids \cup {None}]

\* However many, the rows and the requests can be counted.
ASSUME Countable == IsFiniteSet(Ids) /\ IsFiniteSet(Handlers)

\* The awaits of the three handlers; `subject` is the inspection worked on,
\* the one re-scored, the one just stored or the one printed.
IngestStage == {"upsert", "persist", "audit"}
ReportStage == {"write", "row", "reportAudit"}
Idle == [stage |-> "idle"]
IngestTask == [stage : IngestStage, report : Report, rescoreOf : Ids \cup {None},
               subject : Ids \cup {None}]
ReportTask == [stage : ReportStage, report : Report, subject : Ids, publicId : PublicIds]

TypeOK ==
  /\ submitted \subseteq Captures
  /\ disguised \subseteq Ids
  /\ devices \in [Devices -> DeviceRow \cup {None}]
  /\ inspections \in [Ids -> InspectionRow \cup {None}]
  /\ files \in [PublicIds -> Report \cup {None}]
  /\ reports \in [PublicIds -> Ids \cup {None}]
  /\ log \subseteq AuditEntry
  /\ tasks \in [Handlers -> IngestTask \cup ReportTask \cup {Idle}]
  /\ engine \in Engines

Init ==
  /\ submitted = {}
  /\ disguised = {}
  /\ devices = [d \in Devices |-> None]
  /\ inspections = [i \in Ids |-> None]
  /\ files = [p \in PublicIds |-> None]
  /\ reports = [p \in PublicIds |-> None]
  /\ log = {}
  /\ tasks = [h \in Handlers |-> Idle]
  /\ engine = 1

Begin(h, task) == tasks[h] = Idle /\ tasks' = [tasks EXCEPT ![h] = task]
At(h, stage) == tasks[h].stage = stage
Move(h, stage) == tasks' = [tasks EXCEPT ![h].stage = stage]
End(h) == tasks' = [tasks EXCEPT ![h] = Idle]

(***************************************************************************)
(* ingest()                                                                *)
(***************************************************************************)

\* Validate, look the organization up, and evaluate the capture.
StartIngest(h, c) ==
  /\ Begin(h, [stage |-> "upsert", report |-> [ledger |-> c, engine |-> engine],
               rescoreOf |-> None, subject |-> None])
  /\ submitted' = submitted \cup {c}
  /\ UNCHANGED <<disguised, devices, inspections, files, reports, log, engine>>

\* Faulty: the update forgets the increment.
UpsertDeviceUncounted(h) ==
  /\ At(h, "upsert")
  /\ LET l == tasks[h].report.ledger
         d == DeviceOf[l]
     IN devices' = [devices EXCEPT ![d] =
          [spec |-> SpecOf[l], region |-> RegionOf[l],
           inspectionCount |-> IF @ = None THEN 1 ELSE @.inspectionCount]]
  /\ Move(h, "persist")
  /\ UNCHANGED <<submitted, disguised, inspections, files, reports, log, engine>>

\* One atomic upsert; an existing row keeps the region it was created with.
UpsertDevice(h) ==
  /\ At(h, "upsert")
  /\ LET l == tasks[h].report.ledger
         d == DeviceOf[l]
     IN IF devices[d] = None
          THEN devices' = [devices EXCEPT ![d] =
                 [spec |-> SpecOf[l], region |-> RegionOf[l], inspectionCount |-> 1]]
          ELSE /\ devices[d].inspectionCount < MaxCount
               /\ devices' = [devices EXCEPT ![d].spec = SpecOf[l],
                                             ![d].inspectionCount = @ + 1]
  /\ Move(h, "persist")
  /\ UNCHANGED <<submitted, disguised, inspections, files, reports, log, engine>>

\* Faulty: a re-score forgets the handset.
DeviceOfTaskUnset(task) ==
  IF task.rescoreOf = None THEN DeviceOf[task.report.ledger] ELSE None

DeviceOfTask(task) ==
  IF task.rescoreOf = None THEN DeviceOf[task.report.ledger]
                           ELSE inspections[task.rescoreOf].device

\* Faulty: a re-score overwrites the inspection it started from.
PersistInPlace(h) ==
  /\ At(h, "persist")
  /\ \E i \in Ids :
       LET task == tasks[h]
           l == task.report.ledger
       IN /\ IF task.rescoreOf = None THEN inspections[i] = None ELSE i = task.rescoreOf
          /\ inspections' = [inspections EXCEPT ![i] =
               [device |-> DeviceOfTask(task), ids |-> l, content |-> l, digest |-> l,
                report |-> task.report, rescoreOf |-> None]]
          /\ tasks' = [tasks EXCEPT ![h] = [task EXCEPT !.stage = "audit", !.subject = i]]
  /\ UNCHANGED <<submitted, disguised, devices, files, reports, log, engine>>

\* persist(): the inspection, its evidence and its conclusions in one create.
Persist(h) ==
  /\ At(h, "persist")
  /\ \E i \in Ids :
       LET task == tasks[h]
           l == task.report.ledger
       IN /\ inspections[i] = None
          /\ inspections' = [inspections EXCEPT ![i] =
               [device |-> DeviceOfTask(task), ids |-> l, content |-> l, digest |-> l,
                report |-> task.report, rescoreOf |-> task.rescoreOf]]
          /\ tasks' = [tasks EXCEPT ![h] = [task EXCEPT !.stage = "audit", !.subject = i]]
  /\ UNCHANGED <<submitted, disguised, devices, files, reports, log, engine>>

\* audit.record() swallows a failed write; then the handler answers.
Audit(h) ==
  /\ At(h, "audit")
  /\ \/ log' = log \cup {[action |-> IF tasks[h].rescoreOf = None THEN "inspection.created"
                                                             ELSE "inspection.rescored",
                          entity |-> tasks[h].subject]}
     \/ UNCHANGED log
  /\ End(h)
  /\ UNCHANGED <<submitted, disguised, devices, inspections, files, reports, engine>>

(***************************************************************************)
(* rescore()                                                               *)
(***************************************************************************)

\* ledger.digest() against the stored digest, then verifyIntegrity().
DigestMatches(row) == row.digest = row.content
\* Faulty: the ids are not recomputed.
IntegrityAssumed(row) == TRUE
IntegrityHolds(row) == row.ids = row.content

\* Faulty: re-score what the rows say, unverified.
StartRescoreUnverified(h, i) ==
  /\ inspections[i] # None
  /\ Begin(h, [stage |-> "persist",
               report |-> [ledger |-> inspections[i].content, engine |-> engine],
               rescoreOf |-> i, subject |-> None])
  /\ UNCHANGED <<submitted, disguised, devices, inspections, files, reports, log, engine>>

\* Read the row with its evidence; refuse, or evaluate what the rows say.
StartRescore(h, i) ==
  /\ inspections[i] # None
  /\ DigestMatches(inspections[i])
  /\ IntegrityHolds(inspections[i])
  /\ Begin(h, [stage |-> "persist",
               report |-> [ledger |-> inspections[i].content, engine |-> engine],
               rescoreOf |-> i, subject |-> None])
  /\ UNCHANGED <<submitted, disguised, devices, inspections, files, reports, log, engine>>

(***************************************************************************)
(* generate()                                                              *)
(***************************************************************************)

\* Read the stored report and render it under a public id nobody else has.
StartReport(h, i, p) ==
  /\ inspections[i] # None
  /\ files[p] = None /\ reports[p] = None
  /\ \A g \in Handlers : tasks[g].stage \in ReportStage => tasks[g].publicId # p
  /\ Begin(h, [stage |-> "write", report |-> inspections[i].report,
               subject |-> i, publicId |-> p])
  /\ UNCHANGED <<submitted, disguised, devices, inspections, files, reports, log, engine>>

\* Faulty: audit first, the row afterwards.
WriteFileAuditFirst(h) ==
  /\ At(h, "write")
  /\ files' = [files EXCEPT ![tasks[h].publicId] = tasks[h].report]
  /\ Move(h, "reportAudit")
  /\ UNCHANGED <<submitted, disguised, devices, inspections, reports, log, engine>>

WriteFile(h) ==
  /\ At(h, "write")
  /\ files' = [files EXCEPT ![tasks[h].publicId] = tasks[h].report]
  /\ Move(h, "row")
  /\ UNCHANGED <<submitted, disguised, devices, inspections, reports, log, engine>>

CreateReport(h) ==
  /\ At(h, "row")
  /\ reports' = [reports EXCEPT ![tasks[h].publicId] = tasks[h].subject]
  /\ Move(h, "reportAudit")
  /\ UNCHANGED <<submitted, disguised, devices, inspections, files, log, engine>>

AuditReport(h) ==
  /\ At(h, "reportAudit")
  /\ \/ log' = log \cup {[action |-> "report.generated", entity |-> tasks[h].publicId]}
     \/ UNCHANGED log
  /\ End(h)
  /\ UNCHANGED <<submitted, disguised, devices, inspections, files, reports, engine>>

\* verifyPublic() reads the row the public id names: the verdict comes from the
\* inspection, the device part from the device as it is today.
VerifiedVerdict(p) == inspections[reports[p]].report
VerifiedSpec(p) == devices[inspections[reports[p]].device].spec

(***************************************************************************)
(* What happens to the handlers and to the database                        *)
(***************************************************************************)

\* A write that throws ends its handler; what it wrote before stays.
Fail(h) ==
  /\ tasks[h] # Idle
  /\ End(h)
  /\ UNCHANGED <<submitted, disguised, devices, inspections, files, reports, log, engine>>

\* The process stops, with an engine upgrade or without, and starts again.
Restart ==
  /\ tasks' = [h \in Handlers |-> Idle]
  /\ engine' \in {engine, engine + 1} \cap Engines
  /\ UNCHANGED <<submitted, disguised, devices, inspections, files, reports, log>>

\* What neither check of a re-score sees: the rows say something else than what
\* was concluded from, under matching ids and a matching digest.
Disguised(row) ==
  /\ row.content # row.report.ledger
  /\ row.ids = row.content
  /\ row.digest = row.content

\* A hand edit of evidence rows.  The ids stay behind when a value is changed;
\* they fit when rows are deleted or only a reliability or a time is changed,
\* which no id covers, or when they are computed anew.  So can be the digest.
EditEvidence(i, l) ==
  /\ inspections[i] # None
  /\ \E ids \in {inspections[i].ids, l}, digest \in {inspections[i].digest, l} :
       LET edited == [inspections[i] EXCEPT !.content = l, !.ids = ids, !.digest = digest] IN
       /\ inspections' = [inspections EXCEPT ![i] = edited]
       /\ disguised' = IF Disguised(edited) THEN disguised \cup {i} ELSE disguised
  /\ UNCHANGED <<submitted, devices, files, reports, log, tasks, engine>>

Next ==
  \/ \E h \in Handlers : \/ \E c \in Captures : StartIngest(h, c)
                         \/ UpsertDevice(h) \/ Persist(h) \/ Audit(h)
                         \/ \E i \in Ids : StartRescore(h, i)
                         \/ \E i \in Ids, p \in PublicIds : StartReport(h, i, p)
                         \/ WriteFile(h) \/ CreateReport(h) \/ AuditReport(h)
                         \/ Fail(h)
  \/ Restart
  \/ \E i \in Ids, l \in Ledgers : EditEvidence(i, l)

Spec == Init /\ [][Next]_vars

-----------------------------------------------------------------------------
(***************************************************************************)
(* Properties                                                              *)
(***************************************************************************)

\* Whatever is edited, re-scored, restarted or upgraded, in whatever order, a
\* stored conclusion is drawn from a capture some bench submitted, of the handset
\* it is filed under; a re-score stays with the handset of its source and is drawn
\* from what its source was drawn from, unless the evidence of the source had been
\* edited with its ids and its digest in line ("re-scoring tampered evidence would
\* launder an edit into a fresh, apparently authoritative verdict").  One check is
\* not enough: an edit may leave either the ids or the digest behind.
ConclusionsRestOnEvidence ==
  \A i \in Ids : inspections[i] # None =>
    LET row == inspections[i]
        source == inspections[row.rescoreOf] IN
    IF row.rescoreOf = None
      THEN /\ row.report.ledger \in submitted
           /\ row.device = DeviceOf[row.report.ledger]
      ELSE /\ source # None
           /\ row.device = source.device
           /\ row.report.ledger = source.report.ledger \/ row.rescoreOf \in disguised

\* A report that can be looked up has its PDF, and verifyPublic() answers with
\* the verdict the PDF prints, however much happened since.
VerifiedAsPrinted ==
  \A p \in PublicIds : reports[p] # None =>
    /\ files[p] # None
    /\ inspections[reports[p]] # None
    /\ files[p] = VerifiedVerdict(p)

\* The device part of verifyPublic(), which comes from the device row.
SpecVerifiedAsPrinted ==
  \A p \in PublicIds : reports[p] # None =>
    VerifiedSpec(p) = SpecOf[files[p].ledger]

\* A handset's inspection count never runs behind its inspections: it covers
\* every stored capture and every one that is about to be stored.
Ingested(d) == {i \in Ids : /\ inspections[i] # None
                            /\ inspections[i].device = d
                            /\ inspections[i].rescoreOf = None}
Persisting(d) == {h \in Handlers : /\ At(h, "persist")
                                   /\ tasks[h].rescoreOf = None
                                   /\ DeviceOf[tasks[h].report.ledger] = d}
CountCoversInspections ==
  \A d \in Devices :
    IF devices[d] = None
      THEN Ingested(d) \cup Persisting(d) = {}
      ELSE devices[d].inspectionCount >= Cardinality(Ingested(d)) + Cardinality(Persisting(d))

\* The audit log never records what did not happen: its entries name stored
\* inspections and reports, with the action that stored them.
LogIsTrue ==
  \A entry \in log :
    IF entry.action = "report.generated"
      THEN reports[entry.entity] # None
      ELSE /\ inspections[entry.entity] # None
           /\ (entry.action = "inspection.created")
                <=> (inspections[entry.entity].rescoreOf = None)

\* Together they keep the archive a buyer relies on.
Archived(row) == IF row = None THEN None
                 ELSE [ledger |-> row.report.ledger, engine |-> row.report.engine,
                       rescoreOf |-> row.rescoreOf]
Archive == INSTANCE EvidenceArchive
             WITH archive <- [i \in Ids |-> Archived(inspections[i])]
ImplementsArchive == Archive!Spec
=============================================================================
