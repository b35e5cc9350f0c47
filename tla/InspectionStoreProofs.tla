----------------------- MODULE InspectionStoreProofs -----------------------
(***************************************************************************)
(* For any number of handsets, captures, handlers, inspections, reports    *)
(* and engine upgrades: stored conclusions rest on submitted captures or   *)
(* on evidence whose edit no check can see, a report verifies as it was    *)
(* printed, the audit log is true, and the store implements                *)
(* EvidenceArchive.  The argument is that evidence that passes both checks *)
(* of a re-score is what was concluded from, or was once disguised, and    *)
(* that what a handler carries across its awaits agrees with rows nobody   *)
(* rewrites.                                                               *)
(***************************************************************************)
EXTENDS InspectionStore, FiniteSetTheorems, TLAPS

-----------------------------------------------------------------------------
(***************************************************************************)
(* The inductive invariant                                                 *)
(***************************************************************************)

\* Evidence that an edit has put out of the sight of the checks is known to be so.
DisguisesAreKnown ==
  \A i \in Ids : inspections[i] # None /\ Disguised(inspections[i]) => i \in disguised

\* What a handler is about to store would satisfy ConclusionsRestOnEvidence.
UnstoredAreSound ==
  \A h \in Handlers : tasks[h].stage \in {"upsert", "persist"} =>
    LET t == tasks[h] IN
    /\ t.rescoreOf = None => t.report.ledger \in submitted
    /\ t.rescoreOf # None =>
         /\ inspections[t.rescoreOf] # None
         /\ inspections[t.rescoreOf].report.ledger = t.report.ledger \/ t.rescoreOf \in disguised

\* A handler that audits names an inspection stored the way it is going to say.
AuditsAreTrue ==
  \A h \in Handlers : tasks[h].stage = "audit" =>
    /\ tasks[h].subject # None
    /\ inspections[tasks[h].subject] # None
    /\ inspections[tasks[h].subject].rescoreOf = None <=> tasks[h].rescoreOf = None

\* A handler that prints holds the stored report and is alone with its file.
PrintsAreStored ==
  \A h \in Handlers : tasks[h].stage \in ReportStage =>
    LET t == tasks[h] IN
    /\ inspections[t.subject] # None
    /\ inspections[t.subject].report = t.report
    /\ t.stage \in {"row", "reportAudit"} => files[t.publicId] = t.report
    /\ t.stage = "reportAudit" <=> reports[t.publicId] # None
    /\ \A g \in Handlers :
         tasks[g].stage \in ReportStage /\ tasks[g].publicId = t.publicId => g = h

IInv ==
  /\ TypeOK
  /\ ConclusionsRestOnEvidence
  /\ VerifiedAsPrinted
  /\ LogIsTrue
  /\ DisguisesAreKnown
  /\ UnstoredAreSound
  /\ AuditsAreTrue
  /\ PrintsAreStored

-----------------------------------------------------------------------------
(***************************************************************************)
(* Facts about the handlers' records                                       *)
(***************************************************************************)

\* The stage of a handler says which record it holds.
LEMMA TaskTypes ==
  ASSUME TypeOK, NEW h \in Handlers
  PROVE  /\ tasks[h].stage \in IngestStage => tasks[h] \in IngestTask
         /\ tasks[h].stage \in ReportStage => tasks[h] \in ReportTask
         /\ tasks[h] # Idle => tasks[h] \in IngestTask \cup ReportTask
BY DEF TypeOK, IngestTask, ReportTask, IngestStage, ReportStage, Idle

\* Moving a handler on changes its stage, and no other handler.
LEMMA MoveIsTyped ==
  ASSUME TypeOK, NEW h \in Handlers, NEW stage,
         \/ tasks[h] \in IngestTask /\ stage \in IngestStage
         \/ tasks[h] \in ReportTask /\ stage \in ReportStage,
         Move(h, stage)
  PROVE  /\ tasks' \in [Handlers -> IngestTask \cup ReportTask \cup {Idle}]
         /\ tasks'[h].stage = stage
         /\ tasks'[h].report = tasks[h].report
         /\ tasks[h] \in IngestTask => tasks'[h].rescoreOf = tasks[h].rescoreOf
         /\ tasks[h] \in ReportTask => tasks'[h].publicId = tasks[h].publicId
         /\ tasks'[h].subject = tasks[h].subject
         /\ \A g \in Handlers \ {h} : tasks'[g] = tasks[g]
<1>1. tasks' = [tasks EXCEPT ![h] = [tasks[h] EXCEPT !.stage = stage]]
  BY DEF Move
<1>2. CASE tasks[h] \in IngestTask /\ stage \in IngestStage
  <2>1. [tasks[h] EXCEPT !.stage = stage]
          = [stage |-> stage, report |-> tasks[h].report, rescoreOf |-> tasks[h].rescoreOf,
             subject |-> tasks[h].subject]
    BY <1>2 DEF IngestTask
  <2>2. [tasks[h] EXCEPT !.stage = stage] \in IngestTask
    BY <1>2, <2>1 DEF IngestTask
  <2>3. tasks[h] \notin ReportTask
    BY <1>2 DEF IngestTask, ReportTask, IngestStage, ReportStage
  <2>. QED
    BY <1>1, <2>1, <2>2, <2>3 DEF TypeOK
<1>3. CASE tasks[h] \in ReportTask /\ stage \in ReportStage
  <2>1. [tasks[h] EXCEPT !.stage = stage]
          = [stage |-> stage, report |-> tasks[h].report, subject |-> tasks[h].subject,
             publicId |-> tasks[h].publicId]
    BY <1>3 DEF ReportTask
  <2>2. [tasks[h] EXCEPT !.stage = stage] \in ReportTask
    BY <1>3, <2>1 DEF ReportTask
  <2>3. tasks[h] \notin IngestTask
    BY <1>3 DEF IngestTask, ReportTask, IngestStage, ReportStage
  <2>. QED
    BY <1>1, <2>1, <2>2, <2>3 DEF TypeOK
<1>. QED
  BY <1>2, <1>3

\* Handlers that end, by answering, failing or a restart, leave the rest intact.
LEMMA EndingPreserves ==
  ASSUME IInv, tasks' \in [Handlers -> IngestTask \cup ReportTask \cup {Idle}],
         \A g \in Handlers : tasks'[g] = tasks[g] \/ tasks'[g] = Idle,
         UNCHANGED <<submitted, disguised, devices, inspections, files, reports>>,
         engine' \in Engines, log' \subseteq AuditEntry, LogIsTrue'
  PROVE  IInv'
<1>. USE DEF IInv
<1>1. \A g \in Handlers : tasks'[g] = tasks[g] \/ tasks'[g].stage = "idle"
  BY DEF Idle
<1>2. TypeOK' /\ ConclusionsRestOnEvidence' /\ VerifiedAsPrinted' /\ DisguisesAreKnown'
  BY DEF TypeOK, ConclusionsRestOnEvidence, VerifiedAsPrinted, VerifiedVerdict, DisguisesAreKnown
<1>3. UnstoredAreSound' /\ AuditsAreTrue'
  BY <1>1 DEF UnstoredAreSound, AuditsAreTrue
<1>4. PrintsAreStored'
  BY <1>1 DEF PrintsAreStored, ReportStage
<1>. QED
  BY <1>2, <1>3, <1>4

-----------------------------------------------------------------------------
(***************************************************************************)
(* The inductive step                                                      *)
(***************************************************************************)

LEMMA StartIngestPreserves ==
  ASSUME IInv, NEW h \in Handlers, NEW c \in Captures, StartIngest(h, c)
  PROVE  IInv'
<1>. USE DEF IInv
<1>. DEFINE task == [stage |-> "upsert", report |-> [ledger |-> c, engine |-> engine],
                     rescoreOf |-> None, subject |-> None]
<1>1. /\ tasks' = [tasks EXCEPT ![h] = task]
      /\ submitted' = submitted \cup {c}
      /\ UNCHANGED <<disguised, devices, inspections, files, reports, log, engine>>
  BY DEF StartIngest, Begin
<1>2. task \in IngestTask
  BY ConstantsOK DEF IngestTask, IngestStage, Report, TypeOK
<1>3. tasks'[h] = task /\ \A g \in Handlers \ {h} : tasks'[g] = tasks[g]
  BY <1>1 DEF TypeOK
<1>4. TypeOK'
  BY <1>1, <1>2 DEF TypeOK
<1>5. ConclusionsRestOnEvidence' /\ VerifiedAsPrinted' /\ LogIsTrue' /\ DisguisesAreKnown'
  BY <1>1 DEF ConclusionsRestOnEvidence, VerifiedAsPrinted, VerifiedVerdict, LogIsTrue, DisguisesAreKnown
<1>6. UnstoredAreSound' /\ AuditsAreTrue'
  BY <1>1, <1>3 DEF UnstoredAreSound, AuditsAreTrue
<1>7. PrintsAreStored'
  BY <1>1, <1>3 DEF PrintsAreStored, ReportStage
<1>. QED
  BY <1>4, <1>5, <1>6, <1>7

LEMMA UpsertDevicePreserves ==
  ASSUME IInv, NEW h \in Handlers, UpsertDevice(h)
  PROVE  IInv'
<1>. USE DEF IInv
<1>1. /\ tasks[h].stage = "upsert" /\ Move(h, "persist")
      /\ UNCHANGED <<submitted, disguised, inspections, files, reports, log, engine>>
  BY DEF UpsertDevice, At
<1>2. tasks[h] \in IngestTask
  BY <1>1, TaskTypes DEF IngestStage
<1>3. /\ tasks' \in [Handlers -> IngestTask \cup ReportTask \cup {Idle}]
      /\ tasks'[h].stage = "persist" /\ tasks'[h].report = tasks[h].report
      /\ tasks'[h].rescoreOf = tasks[h].rescoreOf
      /\ \A g \in Handlers \ {h} : tasks'[g] = tasks[g]
  BY <1>1, <1>2, MoveIsTyped DEF IngestStage
<1>4. devices' \in [Devices -> DeviceRow \cup {None}]
  <2>. DEFINE l == tasks[h].report.ledger
              d == DeviceOf[l]
  <2>1. l \in Ledgers /\ d \in Devices
    BY <1>2, ConstantsOK DEF IngestTask, Report
  <2>2. CASE devices[d] = None
    <3>1. [spec |-> SpecOf[l], region |-> RegionOf[l], inspectionCount |-> 1] \in DeviceRow
      BY <2>1 DEF DeviceRow
    <3>2. devices' = [devices EXCEPT ![d] =
            [spec |-> SpecOf[l], region |-> RegionOf[l], inspectionCount |-> 1]]
      BY <2>2 DEF UpsertDevice
    <3>. QED
      BY <2>1, <3>1, <3>2 DEF TypeOK
  <2>3. CASE devices[d] # None
    <3>1. devices[d] \in DeviceRow
      BY <2>1, <2>3 DEF TypeOK
    <3>2. devices' = [devices EXCEPT ![d].spec = SpecOf[l], ![d].inspectionCount = @ + 1]
      BY <2>3 DEF UpsertDevice
    <3>3. devices' = [devices EXCEPT ![d] =
            [spec |-> SpecOf[l], region |-> devices[d].region,
             inspectionCount |-> devices[d].inspectionCount + 1]]
      BY <2>1, <3>1, <3>2 DEF TypeOK, DeviceRow
    <3>4. [spec |-> SpecOf[l], region |-> devices[d].region,
           inspectionCount |-> devices[d].inspectionCount + 1] \in DeviceRow
      BY <2>1, <3>1 DEF DeviceRow
    <3>. QED
      BY <2>1, <3>3, <3>4 DEF TypeOK
  <2>. QED
    BY <2>2, <2>3
<1>5. TypeOK'
  BY <1>1, <1>3, <1>4 DEF TypeOK
<1>6. ConclusionsRestOnEvidence' /\ VerifiedAsPrinted' /\ LogIsTrue' /\ DisguisesAreKnown'
  BY <1>1 DEF ConclusionsRestOnEvidence, VerifiedAsPrinted, VerifiedVerdict, LogIsTrue, DisguisesAreKnown
<1>7. UnstoredAreSound' /\ AuditsAreTrue'
  BY <1>1, <1>3 DEF UnstoredAreSound, AuditsAreTrue
<1>8. PrintsAreStored'
  BY <1>1, <1>3 DEF PrintsAreStored, ReportStage
<1>. QED
  BY <1>5, <1>6, <1>7, <1>8

LEMMA StartRescorePreserves ==
  ASSUME IInv, NEW h \in Handlers, NEW i \in Ids, StartRescore(h, i)
  PROVE  IInv'
<1>. USE DEF IInv
<1>. DEFINE task == [stage |-> "persist",
                     report |-> [ledger |-> inspections[i].content, engine |-> engine],
                     rescoreOf |-> i, subject |-> None]
<1>1. /\ tasks' = [tasks EXCEPT ![h] = task]
      /\ UNCHANGED <<submitted, disguised, devices, inspections, files, reports, log, engine>>
      /\ inspections[i] # None /\ inspections[i].ids = inspections[i].content
      /\ inspections[i].digest = inspections[i].content
  BY DEF StartRescore, Begin, IntegrityHolds, DigestMatches
<1>2. task \in IngestTask
  BY <1>1 DEF IngestTask, IngestStage, Report, TypeOK, InspectionRow
<1>3. tasks'[h] = task /\ \A g \in Handlers \ {h} : tasks'[g] = tasks[g]
  BY <1>1 DEF TypeOK
<1>4. inspections[i].report.ledger = inspections[i].content \/ i \in disguised
  BY <1>1 DEF DisguisesAreKnown, Disguised
<1>5. TypeOK'
  BY <1>1, <1>2 DEF TypeOK
<1>6. ConclusionsRestOnEvidence' /\ VerifiedAsPrinted' /\ LogIsTrue' /\ DisguisesAreKnown'
  BY <1>1 DEF ConclusionsRestOnEvidence, VerifiedAsPrinted, VerifiedVerdict, LogIsTrue, DisguisesAreKnown
<1>7. UnstoredAreSound'
  BY <1>1, <1>3, <1>4, ConstantsOK DEF UnstoredAreSound
<1>8. AuditsAreTrue'
  BY <1>1, <1>3 DEF AuditsAreTrue
<1>9. PrintsAreStored'
  BY <1>1, <1>3 DEF PrintsAreStored, ReportStage
<1>. QED
  BY <1>5, <1>6, <1>7, <1>8, <1>9

\* A new inspection under a fresh id leaves every stored one as it was.
LEMMA PersistPreserves ==
  ASSUME IInv, NEW h \in Handlers, Persist(h)
  PROVE  IInv'
<1>. USE DEF IInv
<1>. DEFINE task == tasks[h]
            l == task.report.ledger
            row == [device |-> DeviceOfTask(task), ids |-> l, content |-> l, digest |-> l,
                    report |-> task.report, rescoreOf |-> task.rescoreOf]
<1>1. PICK i \in Ids :
        /\ inspections[i] = None
        /\ inspections' = [inspections EXCEPT ![i] = row]
        /\ tasks' = [tasks EXCEPT ![h] = [task EXCEPT !.stage = "audit", !.subject = i]]
  BY DEF Persist
<1>2. tasks[h].stage = "persist" /\ UNCHANGED <<submitted, disguised, devices, files, reports, log, engine>>
  BY DEF Persist, At
<1>3. task \in IngestTask
  BY <1>2, TaskTypes DEF IngestStage
<1>4. [task EXCEPT !.stage = "audit", !.subject = i]
        = [stage |-> "audit", report |-> task.report, rescoreOf |-> task.rescoreOf, subject |-> i]
  <2>1. [task EXCEPT !.stage = "audit"]
          = [stage |-> "audit", report |-> task.report, rescoreOf |-> task.rescoreOf,
             subject |-> task.subject]
    BY <1>3 DEF IngestTask
  <2>2. [[stage |-> "audit", report |-> task.report, rescoreOf |-> task.rescoreOf,
          subject |-> task.subject] EXCEPT !.subject = i]
          = [stage |-> "audit", report |-> task.report, rescoreOf |-> task.rescoreOf,
             subject |-> i]
    OBVIOUS
  <2>. QED
    BY <2>1, <2>2, Zenon
<1>5. /\ tasks'[h] = [stage |-> "audit", report |-> task.report,
                      rescoreOf |-> task.rescoreOf, subject |-> i]
      /\ tasks'[h] \in IngestTask
      /\ \A g \in Handlers \ {h} : tasks'[g] = tasks[g]
      /\ tasks' \in [Handlers -> IngestTask \cup ReportTask \cup {Idle}]
  BY <1>1, <1>3, <1>4 DEF TypeOK, IngestTask, IngestStage
<1>6. /\ task.rescoreOf = None => l \in submitted
      /\ task.rescoreOf # None =>
           /\ task.rescoreOf \in Ids
           /\ inspections[task.rescoreOf] # None
           /\ inspections[task.rescoreOf].report.ledger = l \/ task.rescoreOf \in disguised
  BY <1>2, <1>3 DEF UnstoredAreSound, IngestTask
<1>7. /\ l \in Ledgers /\ DeviceOfTask(task) \in Devices
      /\ task.rescoreOf = None => DeviceOfTask(task) = DeviceOf[l]
      /\ task.rescoreOf # None => DeviceOfTask(task) = inspections[task.rescoreOf].device
  BY <1>3, <1>6, ConstantsOK DEF IngestTask, Report, DeviceOfTask, TypeOK, InspectionRow
<1>8. row \in InspectionRow
  BY <1>3, <1>7 DEF InspectionRow, IngestTask
<1>9. inspections'[i] = row /\ row # None
      /\ \A j \in Ids \ {i} : inspections'[j] = inspections[j]
  BY <1>1, <1>8, ConstantsOK DEF TypeOK
<1>10. \A j \in Ids : inspections[j] # None => inspections'[j] = inspections[j]
  BY <1>1, <1>9
<1>11. TypeOK'
  BY <1>1, <1>2, <1>5, <1>8 DEF TypeOK
<1>12. ConclusionsRestOnEvidence'
  <2>1. \A j \in Ids : inspections[j] # None => inspections[j].rescoreOf \in Ids \cup {None}
    BY DEF TypeOK, InspectionRow
  <2>. SUFFICES ASSUME NEW j \in Ids, inspections'[j] # None
                PROVE  LET new == inspections'[j]
                           source == inspections'[new.rescoreOf] IN
                       IF new.rescoreOf = None
                         THEN /\ new.report.ledger \in submitted'
                              /\ new.device = DeviceOf[new.report.ledger]
                         ELSE /\ source # None
                              /\ new.device = source.device
                              /\ \/ new.report.ledger = source.report.ledger
                                 \/ new.rescoreOf \in disguised'
    BY DEF ConclusionsRestOnEvidence
  <2>2. CASE j = i
    BY <1>2, <1>6, <1>7, <1>9, <1>10, <2>2
  <2>3. CASE j # i
    BY <1>2, <1>9, <1>10, <2>1, <2>3 DEF ConclusionsRestOnEvidence
  <2>. QED
    BY <2>2, <2>3
<1>13. VerifiedAsPrinted'
  <2>1. \A p \in PublicIds : reports[p] # None => reports[p] \in Ids
    BY DEF TypeOK
  <2>. QED
    BY <1>2, <1>10, <2>1 DEF VerifiedAsPrinted, VerifiedVerdict
<1>14. LogIsTrue'
  <2>1. \A entry \in log : entry.action # "report.generated" => entry.entity \in Ids
    BY DEF TypeOK, AuditEntry
  <2>. QED
    BY <1>2, <1>10, <2>1 DEF LogIsTrue
<1>15. DisguisesAreKnown'
  <2>1. ~ Disguised(row)
    BY DEF Disguised
  <2>. QED
    BY <1>2, <1>9, <2>1 DEF DisguisesAreKnown
<1>16. UnstoredAreSound'
  <2>1. \A g \in Handlers : tasks[g].stage \in {"upsert", "persist"} =>
          tasks[g].rescoreOf \in Ids \cup {None}
    BY TaskTypes DEF IngestStage, IngestTask
  <2>. QED
    BY <1>2, <1>5, <1>10, <2>1 DEF UnstoredAreSound
<1>17. AuditsAreTrue'
  <2>1. \A g \in Handlers : tasks[g].stage = "audit" => tasks[g].subject \in Ids \cup {None}
    BY TaskTypes DEF IngestStage, IngestTask
  <2>2. i # None
    BY ConstantsOK
  <2>. QED
    BY <1>5, <1>9, <1>10, <2>1, <2>2 DEF AuditsAreTrue
<1>18. PrintsAreStored'
  <2>1. \A g \in Handlers : tasks[g].stage \in ReportStage => tasks[g].subject \in Ids
    BY TaskTypes DEF ReportTask
  <2>2. tasks'[h].stage \notin ReportStage
    BY <1>5 DEF ReportStage
  <2>. QED
    BY <1>2, <1>5, <1>10, <2>1, <2>2 DEF PrintsAreStored
<1>. QED
  BY <1>11, <1>12, <1>13, <1>14, <1>15, <1>16, <1>17, <1>18

LEMMA StartReportPreserves ==
  ASSUME IInv, NEW h \in Handlers, NEW i \in Ids, NEW p \in PublicIds, StartReport(h, i, p)
  PROVE  IInv'
<1>. USE DEF IInv
<1>. DEFINE task == [stage |-> "write", report |-> inspections[i].report,
                     subject |-> i, publicId |-> p]
<1>1. /\ tasks' = [tasks EXCEPT ![h] = task]
      /\ UNCHANGED <<submitted, disguised, devices, inspections, files, reports, log, engine>>
      /\ inspections[i] # None /\ reports[p] = None
      /\ \A g \in Handlers : tasks[g].stage \in ReportStage => tasks[g].publicId # p
  BY DEF StartReport, Begin
<1>2. task \in ReportTask
  BY <1>1 DEF ReportTask, ReportStage, TypeOK, InspectionRow
<1>3. tasks'[h] = task /\ \A g \in Handlers \ {h} : tasks'[g] = tasks[g]
  BY <1>1 DEF TypeOK
<1>4. TypeOK'
  BY <1>1, <1>2 DEF TypeOK
<1>5. ConclusionsRestOnEvidence' /\ VerifiedAsPrinted' /\ LogIsTrue' /\ DisguisesAreKnown'
  BY <1>1 DEF ConclusionsRestOnEvidence, VerifiedAsPrinted, VerifiedVerdict, LogIsTrue, DisguisesAreKnown
<1>6. UnstoredAreSound' /\ AuditsAreTrue'
  BY <1>1, <1>3 DEF UnstoredAreSound, AuditsAreTrue
<1>7. PrintsAreStored'
  BY <1>1, <1>3 DEF PrintsAreStored, ReportStage
<1>. QED
  BY <1>4, <1>5, <1>6, <1>7

\* Nobody else prints under the same public id, and no row names the file yet.
LEMMA WriteFilePreserves ==
  ASSUME IInv, NEW h \in Handlers, WriteFile(h)
  PROVE  IInv'
<1>. USE DEF IInv
<1>. DEFINE p == tasks[h].publicId
<1>1. /\ tasks[h].stage = "write" /\ Move(h, "row")
      /\ files' = [files EXCEPT ![p] = tasks[h].report]
      /\ UNCHANGED <<submitted, disguised, devices, inspections, reports, log, engine>>
  BY DEF WriteFile, At
<1>2. tasks[h] \in ReportTask /\ tasks[h].stage \in ReportStage
  BY <1>1, TaskTypes DEF ReportStage
<1>3. /\ tasks' \in [Handlers -> IngestTask \cup ReportTask \cup {Idle}]
      /\ tasks'[h].stage = "row" /\ tasks'[h].report = tasks[h].report
      /\ tasks'[h].subject = tasks[h].subject /\ tasks'[h].publicId = p
      /\ \A g \in Handlers \ {h} : tasks'[g] = tasks[g]
  BY <1>1, <1>2, MoveIsTyped DEF ReportStage
<1>4. p \in PublicIds /\ tasks[h].report \in Report
  BY <1>2 DEF ReportTask
<1>5. reports[p] = None
  BY <1>1, <1>2 DEF PrintsAreStored
<1>6. files'[p] = tasks[h].report /\ \A q \in PublicIds : q # p => files'[q] = files[q]
  BY <1>1, <1>4 DEF TypeOK
<1>7. TypeOK'
  BY <1>1, <1>3, <1>4 DEF TypeOK
<1>8. ConclusionsRestOnEvidence' /\ LogIsTrue' /\ DisguisesAreKnown'
  BY <1>1 DEF ConclusionsRestOnEvidence, LogIsTrue, DisguisesAreKnown
<1>9. VerifiedAsPrinted'
  BY <1>1, <1>5, <1>6 DEF VerifiedAsPrinted, VerifiedVerdict
<1>10. UnstoredAreSound' /\ AuditsAreTrue'
  BY <1>1, <1>3 DEF UnstoredAreSound, AuditsAreTrue
<1>11. PrintsAreStored'
  <2>1. \A g \in Handlers \ {h} : tasks[g].stage \in ReportStage =>
          tasks[g].publicId \in PublicIds /\ tasks[g].publicId # p
    BY <1>2, TaskTypes DEF PrintsAreStored, ReportTask
  <2>2. "row" \in ReportStage /\ "row" # "reportAudit"
    BY DEF ReportStage
  <2>3. \A g \in Handlers \ {h} : tasks[g].stage \in ReportStage =>
          files'[tasks[g].publicId] = files[tasks[g].publicId]
    BY <1>6, <2>1
  <2>. SUFFICES ASSUME NEW g \in Handlers, tasks'[g].stage \in ReportStage
                PROVE  LET t == tasks'[g] IN
                       /\ inspections'[t.subject] # None
                       /\ inspections'[t.subject].report = t.report
                       /\ t.stage \in {"row", "reportAudit"} => files'[t.publicId] = t.report
                       /\ t.stage = "reportAudit" <=> reports'[t.publicId] # None
                       /\ \A k \in Handlers :
                            tasks'[k].stage \in ReportStage /\ tasks'[k].publicId = t.publicId
                              => k = g
    BY DEF PrintsAreStored
  <2>4. CASE g = h
    BY <1>1, <1>2, <1>3, <1>5, <1>6, <2>1, <2>2, <2>4 DEF PrintsAreStored
  <2>5. CASE g # h
    BY <1>1, <1>2, <1>3, <2>1, <2>3, <2>5 DEF PrintsAreStored
  <2>. QED
    BY <2>4, <2>5
<1>. QED
  BY <1>7, <1>8, <1>9, <1>10, <1>11

\* The row appears after its file, and names the inspection that was printed.
LEMMA CreateReportPreserves ==
  ASSUME IInv, NEW h \in Handlers, CreateReport(h)
  PROVE  IInv'
<1>. USE DEF IInv
<1>. DEFINE p == tasks[h].publicId
            i == tasks[h].subject
<1>1. /\ tasks[h].stage = "row" /\ Move(h, "reportAudit")
      /\ reports' = [reports EXCEPT ![p] = i]
      /\ UNCHANGED <<submitted, disguised, devices, inspections, files, log, engine>>
  BY DEF CreateReport, At
<1>2. tasks[h] \in ReportTask /\ tasks[h].stage \in ReportStage
  BY <1>1, TaskTypes DEF ReportStage
<1>3. /\ tasks' \in [Handlers -> IngestTask \cup ReportTask \cup {Idle}]
      /\ tasks'[h].stage = "reportAudit" /\ tasks'[h].report = tasks[h].report
      /\ tasks'[h].subject = i /\ tasks'[h].publicId = p
      /\ \A g \in Handlers \ {h} : tasks'[g] = tasks[g]
  BY <1>1, <1>2, MoveIsTyped DEF ReportStage
<1>4. p \in PublicIds /\ i \in Ids /\ i # None /\ tasks[h].report \in Report
  BY <1>2, ConstantsOK DEF ReportTask
<1>5. /\ inspections[i] # None /\ inspections[i].report = tasks[h].report
      /\ files[p] = tasks[h].report
  BY <1>1, <1>2 DEF PrintsAreStored
<1>6. reports'[p] = i /\ \A q \in PublicIds : q # p => reports'[q] = reports[q]
  BY <1>1, <1>4 DEF TypeOK
<1>7. TypeOK'
  BY <1>1, <1>3, <1>4 DEF TypeOK
<1>8. ConclusionsRestOnEvidence' /\ DisguisesAreKnown'
  BY <1>1 DEF ConclusionsRestOnEvidence, DisguisesAreKnown
<1>9. VerifiedAsPrinted'
  BY <1>1, <1>4, <1>5, <1>6, ConstantsOK DEF VerifiedAsPrinted, VerifiedVerdict
<1>10. LogIsTrue'
  <2>1. \A entry \in log : entry.action = "report.generated" => entry.entity \in PublicIds
    BY DEF TypeOK, AuditEntry
  <2>. QED
    BY <1>1, <1>4, <1>6, <2>1 DEF LogIsTrue
<1>11. UnstoredAreSound' /\ AuditsAreTrue'
  BY <1>1, <1>3 DEF UnstoredAreSound, AuditsAreTrue
<1>12. PrintsAreStored'
  <2>1. \A g \in Handlers \ {h} : tasks[g].stage \in ReportStage =>
          /\ tasks[g].publicId \in PublicIds /\ tasks[g].publicId # p
          /\ reports'[tasks[g].publicId] = reports[tasks[g].publicId]
    BY <1>2, <1>6, TaskTypes DEF PrintsAreStored, ReportTask
  <2>2. "reportAudit" \in ReportStage
    BY DEF ReportStage
  <2>. SUFFICES ASSUME NEW g \in Handlers, tasks'[g].stage \in ReportStage
                PROVE  LET t == tasks'[g] IN
                       /\ inspections'[t.subject] # None
                       /\ inspections'[t.subject].report = t.report
                       /\ t.stage \in {"row", "reportAudit"} => files'[t.publicId] = t.report
                       /\ t.stage = "reportAudit" <=> reports'[t.publicId] # None
                       /\ \A k \in Handlers :
                            tasks'[k].stage \in ReportStage /\ tasks'[k].publicId = t.publicId
                              => k = g
    BY DEF PrintsAreStored
  <2>3. CASE g = h
    BY <1>1, <1>2, <1>3, <1>4, <1>5, <1>6, <2>1, <2>2, <2>3 DEF PrintsAreStored
  <2>4. CASE g # h
    BY <1>1, <1>2, <1>3, <2>1, <2>4 DEF PrintsAreStored
  <2>. QED
    BY <2>3, <2>4
<1>. QED
  BY <1>7, <1>8, <1>9, <1>10, <1>11, <1>12

LEMMA AuditPreserves ==
  ASSUME IInv, NEW h \in Handlers, Audit(h) \/ AuditReport(h)
  PROVE  IInv'
<1>. USE DEF IInv
<1>1. /\ tasks' \in [Handlers -> IngestTask \cup ReportTask \cup {Idle}]
      /\ \A g \in Handlers : tasks'[g] = tasks[g] \/ tasks'[g] = Idle
      /\ UNCHANGED <<submitted, disguised, devices, inspections, files, reports, engine>>
      /\ engine' \in Engines
  BY DEF Audit, AuditReport, End, TypeOK
<1>2. log' \subseteq AuditEntry /\ LogIsTrue'
  <2>1. CASE UNCHANGED log
    BY <1>1, <2>1 DEF TypeOK, LogIsTrue
  <2>2. CASE Audit(h) /\ ~ UNCHANGED log
    <3>. DEFINE t == tasks[h]
                entry == [action |-> IF t.rescoreOf = None THEN "inspection.created"
                                                           ELSE "inspection.rescored",
                          entity |-> t.subject]
    <3>1. t.stage = "audit" /\ log' = log \cup {entry}
      BY <2>2 DEF Audit, At
    <3>2. t \in IngestTask /\ t.subject \in Ids
      BY <3>1, TaskTypes DEF IngestStage, IngestTask, AuditsAreTrue
    <3>3. entry \in AuditEntry
      BY <3>2 DEF AuditEntry
    <3>4. /\ entry.action # "report.generated"
          /\ inspections[entry.entity] # None
          /\ (entry.action = "inspection.created") <=> (inspections[entry.entity].rescoreOf = None)
      BY <3>1 DEF AuditsAreTrue
    <3>. QED
      BY <1>1, <3>1, <3>3, <3>4 DEF TypeOK, LogIsTrue
  <2>3. CASE AuditReport(h) /\ ~ UNCHANGED log
    <3>. DEFINE entry == [action |-> "report.generated", entity |-> tasks[h].publicId]
    <3>1. tasks[h].stage = "reportAudit" /\ log' = log \cup {entry}
      BY <2>3 DEF AuditReport, At
    <3>2. tasks[h].publicId \in PublicIds /\ tasks[h].stage \in ReportStage
      BY <3>1, TaskTypes DEF ReportStage, ReportTask
    <3>3. entry \in AuditEntry
      BY <3>2 DEF AuditEntry
    <3>4. reports[tasks[h].publicId] # None
      BY <3>1, <3>2 DEF PrintsAreStored
    <3>. QED
      BY <1>1, <3>1, <3>3, <3>4 DEF TypeOK, LogIsTrue
  <2>. QED
    BY <2>1, <2>2, <2>3
<1>. QED
  BY <1>1, <1>2, EndingPreserves

LEMMA StopPreserves ==
  ASSUME IInv, (\E h \in Handlers : Fail(h)) \/ Restart
  PROVE  IInv'
<1>1. /\ tasks' \in [Handlers -> IngestTask \cup ReportTask \cup {Idle}]
      /\ \A g \in Handlers : tasks'[g] = tasks[g] \/ tasks'[g] = Idle
      /\ UNCHANGED <<submitted, disguised, devices, inspections, files, reports, log>>
      /\ engine' \in Engines
  BY DEF IInv, TypeOK, Fail, Restart, End
<1>2. log' \subseteq AuditEntry /\ LogIsTrue'
  BY <1>1 DEF IInv, TypeOK, LogIsTrue
<1>. QED
  BY <1>1, <1>2, EndingPreserves

\* An edit leaves every stored conclusion as it was.
KeepsConclusions ==
  \A j \in Ids : /\ inspections'[j] # None <=> inspections[j] # None
                 /\ inspections[j] # None =>
                      /\ inspections'[j].device = inspections[j].device
                      /\ inspections'[j].report = inspections[j].report
                      /\ inspections'[j].rescoreOf = inspections[j].rescoreOf

\* An edit changes what the rows say and never what was concluded from them, and
\* one that no check will see is known.
LEMMA EditKeepsConclusions ==
  ASSUME IInv, NEW i \in Ids, NEW l \in Ledgers, EditEvidence(i, l)
  PROVE  /\ inspections' \in [Ids -> InspectionRow \cup {None}]
         /\ KeepsConclusions
         /\ disguised \subseteq disguised' /\ disguised' \subseteq disguised \cup {i}
         /\ DisguisesAreKnown'
<1>. USE DEF IInv
<1>. DEFINE row == inspections[i]
            Edited(was, d) == [row EXCEPT !.content = l, !.ids = was, !.digest = d]
<1>1. PICK ids \in {row.ids, l}, digest \in {row.digest, l} :
        /\ inspections' = [inspections EXCEPT ![i] = Edited(ids, digest)]
        /\ disguised' = IF Disguised(Edited(ids, digest)) THEN disguised \cup {i} ELSE disguised
  BY DEF EditEvidence
<1>2. row # None
  BY DEF EditEvidence
<1>3. row \in InspectionRow
  BY <1>2 DEF TypeOK
<1>. DEFINE edited == Edited(ids, digest)
<1>4. edited = [device |-> row.device, ids |-> ids, content |-> l, digest |-> digest,
                report |-> row.report, rescoreOf |-> row.rescoreOf]
  <2>. DEFINE Half(was, d) == [device |-> row.device, ids |-> was, content |-> l, digest |-> d,
                               report |-> row.report, rescoreOf |-> row.rescoreOf]
  <2>1. [row EXCEPT !.content = l] = Half(row.ids, row.digest)
    BY <1>3 DEF InspectionRow
  <2>2. [Half(row.ids, row.digest) EXCEPT !.ids = ids] = Half(ids, row.digest)
    OBVIOUS
  <2>3. [Half(ids, row.digest) EXCEPT !.digest = digest] = Half(ids, digest)
    OBVIOUS
  <2>. HIDE DEF Half
  <2>4. edited = Half(ids, digest)
    BY <2>1, <2>2, <2>3, Zenon
  <2>. QED
    BY <2>4 DEF Half
<1>5. edited \in InspectionRow
  BY <1>3, <1>4 DEF InspectionRow
<1>6. /\ edited.device = row.device /\ edited.report = row.report
      /\ edited.rescoreOf = row.rescoreOf /\ edited # None
  BY <1>4, <1>5, ConstantsOK
<1>. HIDE DEF edited
<1>7. inspections'[i] = edited /\ \A j \in Ids \ {i} : inspections'[j] = inspections[j]
  BY <1>1 DEF TypeOK, edited
<1>8. inspections' \in [Ids -> InspectionRow \cup {None}]
  BY <1>1, <1>5 DEF TypeOK, edited
<1>9. disguised \subseteq disguised' /\ disguised' \subseteq disguised \cup {i}
  BY <1>1
<1>10. DisguisesAreKnown'
  <2>1. Disguised(edited) => i \in disguised'
    BY <1>1 DEF edited
  <2>. QED
    BY <1>7, <1>9, <2>1 DEF DisguisesAreKnown, Disguised
<1>11. KeepsConclusions
  BY <1>2, <1>6, <1>7 DEF KeepsConclusions
<1>. QED
  BY <1>8, <1>9, <1>10, <1>11

LEMMA EditEvidencePreserves ==
  ASSUME IInv, NEW i \in Ids, NEW l \in Ledgers, EditEvidence(i, l)
  PROVE  IInv'
<1>. USE DEF IInv
<1>1. UNCHANGED <<submitted, devices, files, reports, log, tasks, engine>>
  BY DEF EditEvidence
<1>2. /\ inspections' \in [Ids -> InspectionRow \cup {None}]
      /\ \A j \in Ids : /\ inspections'[j] # None <=> inspections[j] # None
                        /\ inspections[j] # None =>
                             /\ inspections'[j].device = inspections[j].device
                             /\ inspections'[j].report = inspections[j].report
                             /\ inspections'[j].rescoreOf = inspections[j].rescoreOf
      /\ disguised \subseteq disguised' /\ disguised' \subseteq Ids
  BY EditKeepsConclusions DEF TypeOK, KeepsConclusions
<1>3. TypeOK'
  BY <1>1, <1>2 DEF TypeOK
<1>4. ConclusionsRestOnEvidence' /\ DisguisesAreKnown'
  <2>1. \A j \in Ids : inspections[j] # None => inspections[j].rescoreOf \in Ids \cup {None}
    BY DEF TypeOK, InspectionRow
  <2>. QED
    BY <1>1, <1>2, <2>1, EditKeepsConclusions DEF ConclusionsRestOnEvidence
<1>5. VerifiedAsPrinted'
  <2>1. \A p \in PublicIds : reports[p] # None => reports[p] \in Ids
    BY DEF TypeOK
  <2>. QED
    BY <1>1, <1>2, <2>1 DEF VerifiedAsPrinted, VerifiedVerdict
<1>6. LogIsTrue'
  <2>1. \A entry \in log : entry.action # "report.generated" => entry.entity \in Ids
    BY DEF TypeOK, AuditEntry
  <2>. QED
    BY <1>1, <1>2, <2>1 DEF LogIsTrue
<1>7. UnstoredAreSound' /\ AuditsAreTrue'
  <2>1. \A g \in Handlers : tasks[g].stage \in IngestStage =>
          tasks[g].rescoreOf \in Ids \cup {None} /\ tasks[g].subject \in Ids \cup {None}
    BY TaskTypes DEF IngestTask
  <2>. QED
    BY <1>1, <1>2, <2>1 DEF UnstoredAreSound, AuditsAreTrue, IngestStage
<1>8. PrintsAreStored'
  <2>1. \A g \in Handlers : tasks[g].stage \in ReportStage => tasks[g].subject \in Ids
    BY TaskTypes DEF ReportTask
  <2>. QED
    BY <1>1, <1>2, <2>1 DEF PrintsAreStored
<1>. QED
  BY <1>2, <1>3, <1>4, <1>5, <1>6, <1>7, <1>8

LEMMA InitEstablishes == Init => IInv
<1>. SUFFICES ASSUME Init PROVE IInv
  OBVIOUS
<1>1. TypeOK
  BY ConstantsOK DEF Init, TypeOK, Engines
<1>. QED
  BY <1>1 DEF Init, IInv, ConclusionsRestOnEvidence, VerifiedAsPrinted, VerifiedVerdict, LogIsTrue,
     DisguisesAreKnown, UnstoredAreSound, AuditsAreTrue, PrintsAreStored, Idle, ReportStage

LEMMA StutterPreserves ==
  ASSUME IInv, UNCHANGED vars
  PROVE  IInv'
BY DEF vars, IInv, TypeOK, ConclusionsRestOnEvidence, VerifiedAsPrinted, VerifiedVerdict, LogIsTrue,
       DisguisesAreKnown, UnstoredAreSound, AuditsAreTrue, PrintsAreStored

LEMMA NextPreserves ==
  ASSUME IInv, [Next]_vars
  PROVE  IInv'
BY StartIngestPreserves, UpsertDevicePreserves, PersistPreserves, AuditPreserves,
   StartRescorePreserves, StartReportPreserves, WriteFilePreserves, CreateReportPreserves,
   StopPreserves, EditEvidencePreserves, StutterPreserves DEF Next

-----------------------------------------------------------------------------
(***************************************************************************)
(* The inspection count                                                    *)
(***************************************************************************)

\* What the property counts can be counted.
LEMMA CountedAreFinite ==
  ASSUME NEW d \in Devices
  PROVE  /\ IsFiniteSet(Ingested(d)) /\ Cardinality(Ingested(d)) \in Nat
         /\ IsFiniteSet(Persisting(d)) /\ Cardinality(Persisting(d)) \in Nat
<1>1. Ingested(d) \in SUBSET Ids /\ Persisting(d) \in SUBSET Handlers
  BY DEF Ingested, Persisting
<1>. QED
  BY <1>1, Countable, FS_Subset, FS_CardinalityType

\* A set with at most one new element is at most one larger.
LEMMA OneMore ==
  ASSUME NEW S, IsFiniteSet(S), NEW x, NEW T, T \subseteq S \cup {x}
  PROVE  Cardinality(T) <= Cardinality(S) + 1 /\ Cardinality(T) \in Nat
<1>1. IsFiniteSet(S \cup {x}) /\ Cardinality(S) \in Nat
  BY FS_AddElement, FS_CardinalityType
<1>2. Cardinality(S \cup {x}) <= Cardinality(S) + 1
  BY <1>1, FS_AddElement
<1>3. IsFiniteSet(T) /\ Cardinality(T) <= Cardinality(S \cup {x})
  BY <1>1, FS_Subset
<1>4. Cardinality(T) \in Nat /\ Cardinality(S \cup {x}) \in Nat
  BY <1>1, <1>3, FS_CardinalityType
<1>. QED
  BY <1>1, <1>2, <1>3, <1>4

\* A row has a count that is a number.
LEMMA CountIsTyped ==
  ASSUME IInv, NEW d \in Devices, devices[d] # None
  PROVE  devices[d].inspectionCount \in Nat
BY DEF IInv, TypeOK, DeviceRow

\* A step that adds nothing to what is counted keeps the count ahead of it.
LEMMA NothingNewIsCovered ==
  ASSUME IInv, CountCoversInspections, UNCHANGED devices,
         \A d \in Devices : Ingested(d)' \subseteq Ingested(d),
         \A d \in Devices : Persisting(d)' \subseteq Persisting(d)
  PROVE  CountCoversInspections'
<1>. SUFFICES ASSUME NEW d \in Devices
              PROVE  IF devices[d] = None
                       THEN Ingested(d)' \cup Persisting(d)' = {}
                       ELSE devices[d].inspectionCount
                              >= Cardinality(Ingested(d)') + Cardinality(Persisting(d)')
  BY DEF CountCoversInspections
<1>1. /\ Cardinality(Ingested(d)') <= Cardinality(Ingested(d))
      /\ Cardinality(Persisting(d)') <= Cardinality(Persisting(d))
      /\ Cardinality(Ingested(d)') \in Nat /\ Cardinality(Persisting(d)') \in Nat
  BY CountedAreFinite, FS_Subset, FS_CardinalityType
<1>2. CASE devices[d] = None
  BY <1>2 DEF CountCoversInspections
<1>3. CASE devices[d] # None
  BY <1>1, <1>3, CountedAreFinite, CountIsTyped DEF CountCoversInspections
<1>. QED
  BY <1>2, <1>3

\* The upsert counts the inspection before it is stored.
LEMMA UpsertCounts ==
  ASSUME IInv, CountCoversInspections, NEW h \in Handlers, UpsertDevice(h)
  PROVE  CountCoversInspections'
<1>. USE DEF IInv
<1>. DEFINE l == tasks[h].report.ledger
            e == DeviceOf[l]
<1>1. tasks[h].stage = "upsert" /\ Move(h, "persist") /\ UNCHANGED inspections
  BY DEF UpsertDevice, At
<1>2. tasks[h] \in IngestTask
  BY <1>1, TaskTypes DEF IngestStage
<1>3. e \in Devices
  BY <1>2, ConstantsOK DEF IngestTask, Report
<1>4. tasks'[h].report = tasks[h].report /\ \A g \in Handlers \ {h} : tasks'[g] = tasks[g]
  BY <1>1, <1>2, MoveIsTyped DEF IngestStage
<1>. SUFFICES ASSUME NEW d \in Devices
              PROVE  IF devices'[d] = None
                       THEN Ingested(d)' \cup Persisting(d)' = {}
                       ELSE devices'[d].inspectionCount
                              >= Cardinality(Ingested(d)') + Cardinality(Persisting(d)')
  BY DEF CountCoversInspections
<1>5. Ingested(d)' = Ingested(d)
  BY <1>1 DEF Ingested
<1>6. CASE d # e
  <2>1. devices'[d] = devices[d]
    BY <1>6 DEF UpsertDevice, TypeOK
  <2>2. Persisting(d)' \subseteq Persisting(d)
    BY <1>4, <1>6 DEF Persisting, At
  <2>3. Cardinality(Persisting(d)') <= Cardinality(Persisting(d))
        /\ Cardinality(Persisting(d)') \in Nat
    BY <2>2, CountedAreFinite, FS_Subset, FS_CardinalityType
  <2>4. CASE devices[d] = None
    BY <1>5, <2>1, <2>2, <2>4 DEF CountCoversInspections
  <2>5. CASE devices[d] # None
    BY <1>5, <2>1, <2>3, <2>5, CountedAreFinite, CountIsTyped DEF CountCoversInspections
  <2>. QED
    BY <2>4, <2>5
<1>7. CASE d = e
  <2>1. Persisting(d)' \subseteq Persisting(d) \cup {h}
    BY <1>4 DEF Persisting, At
  <2>2. Cardinality(Persisting(d)') <= Cardinality(Persisting(d)) + 1
        /\ Cardinality(Persisting(d)') \in Nat
    BY <2>1, CountedAreFinite, OneMore
  <2>3. CASE devices[d] = None
    <3>. DEFINE row == [spec |-> SpecOf[l], region |-> RegionOf[l], inspectionCount |-> 1]
    <3>1. devices'[d] = row
      BY <1>7, <2>3 DEF UpsertDevice, TypeOK
    <3>2. row \in DeviceRow
      BY <1>2 DEF DeviceRow, IngestTask, Report
    <3>3. row # None
      BY <3>2, ConstantsOK
    <3>4. Cardinality(Ingested(d)) = 0 /\ Cardinality(Persisting(d)) = 0
      BY <2>3, FS_EmptySet DEF CountCoversInspections
    <3>. QED
      BY <1>5, <2>2, <3>1, <3>3, <3>4
  <2>4. CASE devices[d] # None
    <3>1. devices[d] \in DeviceRow
      BY <2>4 DEF TypeOK
    <3>. DEFINE row == [spec |-> SpecOf[l], region |-> devices[d].region,
                        inspectionCount |-> devices[d].inspectionCount + 1]
    <3>2. devices' = [devices EXCEPT ![e].spec = SpecOf[l], ![e].inspectionCount = @ + 1]
      BY <1>7, <2>4 DEF UpsertDevice
    <3>3. devices'[d] = row
      BY <1>7, <3>1, <3>2 DEF TypeOK, DeviceRow
    <3>4. row \in DeviceRow
      BY <1>2, <3>1 DEF DeviceRow, IngestTask, Report
    <3>5. row # None
      BY <3>4, ConstantsOK
    <3>. QED
      BY <1>5, <2>2, <2>4, <3>3, <3>5, CountedAreFinite, CountIsTyped
         DEF CountCoversInspections
  <2>. QED
    BY <2>3, <2>4
<1>. QED
  BY <1>6, <1>7

\* Storing an inspection moves it from the one side of the sum to the other; a
\* re-score stands on neither.
LEMMA PersistIsCovered ==
  ASSUME IInv, CountCoversInspections, NEW h \in Handlers, Persist(h)
  PROVE  CountCoversInspections'
<1>. USE DEF IInv
<1>. DEFINE task == tasks[h]
            l == task.report.ledger
            row == [device |-> DeviceOfTask(task), ids |-> l, content |-> l, digest |-> l,
                    report |-> task.report, rescoreOf |-> task.rescoreOf]
<1>1. PICK i \in Ids :
        /\ inspections[i] = None
        /\ inspections' = [inspections EXCEPT ![i] = row]
        /\ tasks' = [tasks EXCEPT ![h] = [task EXCEPT !.stage = "audit", !.subject = i]]
  BY DEF Persist
<1>2. At(h, "persist") /\ UNCHANGED devices
  BY DEF Persist
<1>3. task \in IngestTask
  BY <1>2, TaskTypes DEF IngestStage, At
<1>4. tasks'[h].stage = "audit" /\ \A g \in Handlers \ {h} : tasks'[g] = tasks[g]
  BY <1>1, <1>3 DEF TypeOK, IngestTask
<1>5. inspections'[i] = row /\ \A j \in Ids \ {i} : inspections'[j] = inspections[j]
  BY <1>1 DEF TypeOK
<1>6. \A d \in Devices : Persisting(d)' = Persisting(d) \ {h}
  BY <1>4 DEF Persisting, At
<1>7. CASE task.rescoreOf # None
  <2>1. \A d \in Devices : Ingested(d)' \subseteq Ingested(d)
    BY <1>5, <1>7 DEF Ingested
  <2>. QED
    BY <1>2, <1>6, <2>1, NothingNewIsCovered
<1>8. CASE task.rescoreOf = None
  <2>. SUFFICES ASSUME NEW d \in Devices
                PROVE  IF devices[d] = None
                         THEN Ingested(d)' \cup Persisting(d)' = {}
                         ELSE devices[d].inspectionCount
                                >= Cardinality(Ingested(d)') + Cardinality(Persisting(d)')
    BY <1>2 DEF CountCoversInspections
  <2>1. row.device = DeviceOf[l]
    BY <1>8 DEF DeviceOfTask
  <2>2. CASE d # DeviceOf[l]
    <3>1. Ingested(d)' \subseteq Ingested(d)
      BY <1>5, <2>1, <2>2 DEF Ingested
    <3>2. /\ Cardinality(Ingested(d)') <= Cardinality(Ingested(d))
          /\ Cardinality(Persisting(d)') <= Cardinality(Persisting(d))
          /\ Cardinality(Ingested(d)') \in Nat /\ Cardinality(Persisting(d)') \in Nat
      BY <1>6, <3>1, CountedAreFinite, FS_Subset, FS_CardinalityType
    <3>. QED
      BY <1>6, <3>1, <3>2, CountedAreFinite, CountIsTyped DEF CountCoversInspections
  <2>3. CASE d = DeviceOf[l]
    <3>1. h \in Persisting(d)
      BY <1>2, <1>8, <2>3 DEF Persisting
    <3>2. devices[d] # None
      BY <3>1 DEF CountCoversInspections
    <3>3. Ingested(d)' \subseteq Ingested(d) \cup {i}
      BY <1>5 DEF Ingested
    <3>4. Cardinality(Ingested(d)') <= Cardinality(Ingested(d)) + 1
          /\ Cardinality(Ingested(d)') \in Nat
      BY <3>3, CountedAreFinite, OneMore
    <3>5. Cardinality(Persisting(d)') = Cardinality(Persisting(d)) - 1
      BY <1>6, <3>1, CountedAreFinite, FS_RemoveElement
    <3>. QED
      BY <3>2, <3>4, <3>5, CountedAreFinite, CountIsTyped DEF CountCoversInspections
  <2>. QED
    BY <2>2, <2>3
<1>. QED
  BY <1>7, <1>8

\* The other handlers neither upsert nor store, and a re-score enters uncounted.
LEMMA OthersAreCovered ==
  ASSUME IInv, CountCoversInspections, NEW h \in Handlers,
         \/ \E c \in Captures : StartIngest(h, c)
         \/ \E i \in Ids : StartRescore(h, i)
         \/ \E i \in Ids, p \in PublicIds : StartReport(h, i, p)
         \/ Audit(h) \/ WriteFile(h) \/ CreateReport(h) \/ AuditReport(h) \/ Fail(h)
  PROVE  CountCoversInspections'
<1>. USE DEF IInv
<1>1. UNCHANGED <<devices, inspections>>
  BY DEF StartIngest, StartRescore, StartReport, Audit, WriteFile, CreateReport, AuditReport, Fail
<1>2. \A g \in Handlers \ {h} : tasks'[g] = tasks[g]
  BY DEF StartIngest, StartRescore, StartReport, Audit, WriteFile, CreateReport, AuditReport,
         Fail, Begin, Move, End, TypeOK
<1>3. tasks'[h].stage = "persist" => tasks'[h].rescoreOf # None
  <2>1. CASE \E i \in Ids : StartRescore(h, i)
    BY <2>1, ConstantsOK DEF StartRescore, Begin, TypeOK
  <2>2. CASE (\E c \in Captures : StartIngest(h, c))
             \/ (\E i \in Ids, p \in PublicIds : StartReport(h, i, p))
    BY <2>2 DEF StartIngest, StartReport, Begin, TypeOK
  <2>3. CASE Audit(h) \/ AuditReport(h) \/ Fail(h)
    BY <2>3 DEF Audit, AuditReport, Fail, End, Idle, TypeOK
  <2>4. CASE WriteFile(h) \/ CreateReport(h)
    <3>1. tasks[h] \in ReportTask
      BY <2>4, TaskTypes DEF WriteFile, CreateReport, At, ReportStage
    <3>2. tasks'[h].stage \in {"row", "reportAudit"}
      BY <2>4, <3>1, MoveIsTyped DEF WriteFile, CreateReport, ReportStage
    <3>. QED
      BY <3>2
  <2>. QED
    BY <2>1, <2>2, <2>3, <2>4
<1>4. \A d \in Devices : Ingested(d)' \subseteq Ingested(d)
  BY <1>1 DEF Ingested
<1>5. \A d \in Devices : Persisting(d)' \subseteq Persisting(d)
  BY <1>2, <1>3 DEF Persisting, At
<1>. QED
  BY <1>1, <1>4, <1>5, NothingNewIsCovered

LEMMA NextIsCovered ==
  ASSUME IInv, CountCoversInspections, [Next]_vars
  PROVE  CountCoversInspections'
<1>1. ASSUME Restart PROVE CountCoversInspections'
  <2>1. UNCHANGED <<devices, inspections>> /\ \A h \in Handlers : tasks'[h] = Idle
    BY <1>1 DEF Restart
  <2>2. \A d \in Devices : Ingested(d)' \subseteq Ingested(d)
                           /\ Persisting(d)' \subseteq Persisting(d)
    BY <2>1 DEF Ingested, Persisting, At, Idle
  <2>. QED
    BY <2>1, <2>2, NothingNewIsCovered
<1>2. ASSUME NEW i \in Ids, NEW l \in Ledgers, EditEvidence(i, l)
      PROVE  CountCoversInspections'
  <2>1. UNCHANGED <<devices, tasks>>
    BY <1>2 DEF EditEvidence
  <2>2. \A d \in Devices : Ingested(d)' \subseteq Ingested(d)
    BY <1>2, EditKeepsConclusions DEF Ingested, KeepsConclusions
  <2>3. \A d \in Devices : Persisting(d)' \subseteq Persisting(d)
    BY <2>1 DEF Persisting, At
  <2>. QED
    BY <2>1, <2>2, <2>3, NothingNewIsCovered
<1>3. ASSUME UNCHANGED vars PROVE CountCoversInspections'
  BY <1>3 DEF vars, CountCoversInspections, Ingested, Persisting, At
<1>. QED
  BY <1>1, <1>2, <1>3, UpsertCounts, PersistIsCovered, OthersAreCovered DEF Next

-----------------------------------------------------------------------------
(***************************************************************************)
(* The refinement                                                          *)
(***************************************************************************)

ArchivedRows == [i \in Ids |-> Archived(inspections[i])]

LEMMA InitRefines == Init => Archive!Init
BY DEF Init, Archive!Init, Archived

\* Steps that touch neither submissions nor conclusions are stutters.
LEMMA KeepingRefines ==
  ASSUME UNCHANGED <<submitted, disguised>>,
         \A i \in Ids : Archived(inspections[i])' = Archived(inspections[i])
  PROVE  [Archive!Next]_(Archive!avars)
BY DEF Archive!avars

\* An edit is a stutter, or it disguises itself.
LEMMA EditRefines ==
  ASSUME IInv, NEW i \in Ids, NEW l \in Ledgers, EditEvidence(i, l)
  PROVE  [Archive!Next]_(Archive!avars)
<1>1. UNCHANGED submitted /\ inspections[i] # None
  BY DEF EditEvidence
<1>2. \A j \in Ids : Archived(inspections[j])' = Archived(inspections[j])
  BY EditKeepsConclusions DEF Archived, KeepsConclusions
<1>3. disguised \subseteq disguised' /\ disguised' \subseteq disguised \cup {i}
  BY EditKeepsConclusions
<1>4. CASE disguised' = disguised
  BY <1>1, <1>2, <1>4, KeepingRefines
<1>5. CASE disguised' = disguised \cup {i}
  <2>1. inspections[i] \in InspectionRow
    BY <1>1 DEF IInv, TypeOK
  <2>2. Archived(inspections[i]) \in [ledger : Ledgers, engine : Engines,
                                     rescoreOf : Ids \cup {None}]
    BY <1>1, <2>1 DEF Archived, InspectionRow, Report
  <2>3. ArchivedRows[i] # None
    BY <2>2, ConstantsOK DEF ArchivedRows
  <2>4. Archive!Disguise(i)
    BY <1>1, <1>2, <1>5, <2>3 DEF Archive!Disguise, ArchivedRows
  <2>. QED
    BY <2>4 DEF Archive!Next
<1>. QED
  BY <1>3, <1>4, <1>5

LEMMA PersistRefines ==
  ASSUME IInv, NEW h \in Handlers, Persist(h)
  PROVE  Archive!Next
<1>. DEFINE task == tasks[h]
            l == task.report.ledger
            e == task.report.engine
            row == [device |-> DeviceOfTask(task), ids |-> l, content |-> l, digest |-> l,
                    report |-> task.report, rescoreOf |-> task.rescoreOf]
            entry == [ledger |-> l, engine |-> e, rescoreOf |-> task.rescoreOf]
<1>1. PICK i \in Ids : inspections[i] = None /\ inspections' = [inspections EXCEPT ![i] = row]
  BY DEF Persist
<1>2. tasks[h].stage = "persist" /\ UNCHANGED <<submitted, disguised>>
  BY DEF Persist, At
<1>3. task \in IngestTask /\ l \in Ledgers /\ e \in Engines
  BY <1>2, TaskTypes DEF IInv, IngestStage, IngestTask, Report
<1>4. /\ task.rescoreOf = None => l \in submitted
      /\ task.rescoreOf # None =>
           /\ task.rescoreOf \in Ids
           /\ inspections[task.rescoreOf] # None
           /\ inspections[task.rescoreOf].report.ledger = l \/ task.rescoreOf \in disguised
  BY <1>2, <1>3 DEF IInv, UnstoredAreSound, IngestTask
<1>5. DeviceOfTask(task) \in Devices
  BY <1>3, <1>4, ConstantsOK
     DEF IInv, DeviceOfTask, ConclusionsRestOnEvidence, TypeOK, InspectionRow
<1>6. row # None
  <2>1. row \in InspectionRow
    BY <1>3, <1>5 DEF InspectionRow, IngestTask
  <2>. QED
    BY <2>1, ConstantsOK
<1>7. Archived(row) = entry
  BY <1>6 DEF Archived
<1>8. [j \in Ids |-> Archived(inspections'[j])] = [ArchivedRows EXCEPT ![i] = entry]
  BY <1>1, <1>7 DEF ArchivedRows, IInv, TypeOK
<1>9. ArchivedRows[i] = None
  BY <1>1 DEF ArchivedRows, Archived
<1>10. CASE task.rescoreOf = None
  <2>1. Archive!Conclude(i, l, e)
    BY <1>2, <1>4, <1>8, <1>9, <1>10 DEF Archive!Conclude, ArchivedRows
  <2>2. l \in Captures
    BY <1>4, <1>10 DEF IInv, TypeOK
  <2>. QED
    BY <1>3, <2>1, <2>2 DEF Archive!Next
<1>11. CASE task.rescoreOf # None
  <2>. DEFINE j == task.rescoreOf
  <2>1. ArchivedRows[j] = [ledger |-> inspections[j].report.ledger,
                           engine |-> inspections[j].report.engine,
                           rescoreOf |-> inspections[j].rescoreOf]
    BY <1>4, <1>11 DEF ArchivedRows, Archived
  <2>2. ArchivedRows[j] # None
    <3>1. /\ inspections[j].report.ledger \in Ledgers
          /\ inspections[j].report.engine \in Engines
          /\ inspections[j].rescoreOf \in Ids \cup {None}
      BY <1>4, <1>11 DEF IInv, TypeOK, InspectionRow, Report
    <3>2. ArchivedRows[j] \in [ledger : Ledgers, engine : Engines,
                               rescoreOf : Ids \cup {None}]
      BY <2>1, <3>1
    <3>. QED
      BY <3>2, ConstantsOK
  <2>3. l = ArchivedRows[j].ledger \/ j \in disguised
    BY <1>4, <1>11, <2>1
  <2>4. Archive!ConcludeAgain(i, j, l, e)
    BY <1>2, <1>8, <1>9, <2>2, <2>3 DEF Archive!ConcludeAgain, ArchivedRows
  <2>. QED
    BY <1>3, <1>4, <1>11, <2>4 DEF Archive!Next
<1>. QED
  BY <1>10, <1>11

LEMMA NextRefines ==
  ASSUME IInv, [Next]_vars
  PROVE  [Archive!Next]_(Archive!avars)
<1>1. ASSUME UNCHANGED <<submitted, disguised, inspections>> PROVE [Archive!Next]_(Archive!avars)
  BY <1>1, KeepingRefines DEF Archived
<1>2. ASSUME NEW h \in Handlers, NEW c \in Captures, StartIngest(h, c)
      PROVE  [Archive!Next]_(Archive!avars)
  <2>1. Archive!Submit(c)
    BY <1>2 DEF StartIngest, Archive!Submit, Archived
  <2>. QED
    BY <2>1 DEF Archive!Next
<1>3. ASSUME NEW h \in Handlers, Persist(h) PROVE [Archive!Next]_(Archive!avars)
  BY <1>3, PersistRefines
<1>4. ASSUME NEW i \in Ids, NEW l \in Ledgers, EditEvidence(i, l)
      PROVE  [Archive!Next]_(Archive!avars)
  BY <1>4, EditRefines
<1>5. ASSUME \/ \E h \in Handlers : \/ UpsertDevice(h) \/ Audit(h)
                                    \/ \E i \in Ids : StartRescore(h, i)
                                    \/ \E i \in Ids, p \in PublicIds : StartReport(h, i, p)
                                    \/ WriteFile(h) \/ CreateReport(h) \/ AuditReport(h)
                                    \/ Fail(h)
             \/ Restart \/ UNCHANGED vars
      PROVE  [Archive!Next]_(Archive!avars)
  BY <1>1, <1>5 DEF UpsertDevice, Audit, StartRescore, StartReport, WriteFile, CreateReport,
     AuditReport, Fail, Restart, vars
<1>. QED
  BY <1>2, <1>3, <1>4, <1>5 DEF Next

-----------------------------------------------------------------------------
(***************************************************************************)
(* The theorems                                                            *)
(***************************************************************************)

\* The invariant holds in every reachable state of every instance.
THEOREM InductiveInvariant == Spec => []IInv
<1>1. Init => IInv
  BY InitEstablishes
<1>2. IInv /\ [Next]_vars => IInv'
  BY NextPreserves
<1>. QED
  BY <1>1, <1>2, PTL DEF Spec

\* Every variable keeps its type.
THEOREM TypeCorrect == Spec => []TypeOK
<1>1. IInv => TypeOK
  BY DEF IInv
<1>. QED
  BY <1>1, InductiveInvariant, PTL

\* Through edits, re-score chains, restarts and upgrades a conclusion rests on a
\* submitted capture of its handset, or on what its source was concluded from, or
\* its source was edited with ids and digest in line, the edit no check can see.
THEOREM ConclusionsAreSound == Spec => []ConclusionsRestOnEvidence
<1>1. IInv => ConclusionsRestOnEvidence
  BY DEF IInv
<1>. QED
  BY <1>1, InductiveInvariant, PTL

\* A report row has its file, and its verdict verifies as the file prints it.
THEOREM ReportsVerify == Spec => []VerifiedAsPrinted
<1>1. IInv => VerifiedAsPrinted
  BY DEF IInv
<1>. QED
  BY <1>1, InductiveInvariant, PTL

\* However uploads, re-scores, failures and restarts interleave, a handset's
\* count covers what is stored of it and what is about to be.
THEOREM CountNeverLags == Spec => []CountCoversInspections
<1>1. Init => CountCoversInspections
  BY DEF Init, CountCoversInspections, Ingested, Persisting, At, Idle
<1>2. IInv /\ CountCoversInspections /\ [Next]_vars => CountCoversInspections'
  BY NextIsCovered
<1>. QED
  BY <1>1, <1>2, InductiveInvariant, PTL DEF Spec

\* The audit log only names what was stored, under the action that stored it.
THEOREM LogNeverLies == Spec => []LogIsTrue
<1>1. IInv => LogIsTrue
  BY DEF IInv
<1>. QED
  BY <1>1, InductiveInvariant, PTL

\* The store, with its edits, failures and restarts, implements the archive.
THEOREM StoreImplementsArchive == Spec => ImplementsArchive
<1>1. Init => Archive!Init
  BY InitRefines
<1>2. IInv /\ [Next]_vars => [Archive!Next]_(Archive!avars)
  BY NextRefines
<1>. QED
  BY <1>1, <1>2, InductiveInvariant, PTL DEF Spec, ImplementsArchive, Archive!Spec
=============================================================================
