-------------------------- MODULE BenchInspection --------------------------
(***************************************************************************)
(* POST /inspect on the bridge: SnapshotCollector.collect tool by tool,    *)
(* the local score, the upload, the answer.  The upload is the one that    *)
(* UploadPromise describes, so what BridgeIngest implements is what is     *)
(* relied on here.                                                         *)
(*                                                                         *)
(* Each tool runs under a timeout.  A call answers, is refused (a code     *)
(* other than 0: locked, declined, unplugged, timed out) or cannot be made *)
(* at all (the tool is missing); a tool that ends with code 0 has printed  *)
(* what the handset had to tell.  Requests share nothing but the handset   *)
(* and the process: nothing keeps two of them off one handset.             *)
(***************************************************************************)
EXTENDS Naturals, Sequences, Functions

CONSTANTS
  Handsets,     \* by UDID
  Jobs,         \* one per call of POST /inspect
  Domains,      \* COLLECTED_DOMAINS, in order
  CollectAnalytics,  \* config.collectAnalytics
  MaxRefusals   \* bound on calls that are refused or cannot be made

OtherCalls == {"toolchain", "pairing", "identity",
               "battery", "applications", "services", "afc2", "analytics"}

ASSUME ConstantsOK ==
  /\ Domains \in Seq(STRING)
  /\ Range(Domains) \cap OtherCalls = {}
  /\ CollectAnalytics \in BOOLEAN
  /\ MaxRefusals \in Nat

VARIABLES
  trusted,      \* handsets that trust the workstation
  offers,       \* offers[h]: the sources from which h has something to tell
  jobs,         \* jobs[j]: the handler of request j, with its local variables
  refusals,     \* calls refused so far
  rows, outcome \* of the upload, see UploadPromise

Promise == INSTANCE UploadPromise WITH Uploads <- Jobs

bvars == <<trusted, offers, jobs, refusals, rows, outcome>>

\* The awaits of collect(), in order.  "services" and "afc2" are the two calls
\* of LibimobiledeviceAdapter.services.
Calls == <<"toolchain", "pairing", "identity">> \o Domains
           \o IF CollectAnalytics
                THEN <<"battery", "applications", "services", "afc2", "analytics">>
                ELSE <<"battery", "applications", "services", "afc2">>

\* What is read by one call in a try of collect() of its own.
Guarded == Range(Domains) \cup {"battery", "applications"}
Sources == Guarded \cup {"services"} \cup (IF CollectAnalytics THEN {"analytics"} ELSE {})

\* "notPaired" is the answer 409 and "failed" the answer 500; a job is "lost"
\* when the bridge stops under it.
State == {"free", "collecting", "uploading", "answered", "notPaired", "failed", "lost"}
Job == [state : State, handset : Handsets, at : 1..Len(Calls) + 1,
        has : SUBSET Sources, errors : SUBSET Sources, uploaded : BOOLEAN]

TypeOK ==
  /\ trusted \subseteq Handsets
  /\ offers \in [Handsets -> SUBSET Sources]
  /\ jobs \in [Jobs -> Job]
  /\ refusals \in 0..MaxRefusals
  /\ rows \in [Jobs -> 0..1]
  /\ outcome \in [Jobs -> Promise!Outcome]

Init ==
  /\ trusted \in SUBSET Handsets
  /\ offers \in [Handsets -> SUBSET Sources]
  /\ \E h \in Handsets :
       jobs = [j \in Jobs |-> [state |-> "free", handset |-> h, at |-> 1,
                               has |-> {}, errors |-> {}, uploaded |-> FALSE]]
  /\ refusals = 0
  /\ Promise!Init

-----------------------------------------------------------------------------
(***************************************************************************)
(* collect()                                                               *)
(***************************************************************************)

Collecting(j) == jobs[j].state = "collecting" /\ jobs[j].at <= Len(Calls)
Call(j) == Calls[jobs[j].at]
Offered(j, s) == {s} \cap offers[jobs[j].handset]

Answers == UNCHANGED refusals
Refused == refusals < MaxRefusals /\ refusals' = refusals + 1

\* On to the next await, with what was read and what was put on record.
Carry(j, has, errors) ==
  jobs' = [jobs EXCEPT ![j].at = @ + 1, ![j].has = @ \cup has, ![j].errors = @ \cup errors]

Abort(j, state) == jobs' = [jobs EXCEPT ![j].state = state]

Request(j, h) ==
  /\ jobs[j].state = "free"
  /\ jobs' = [jobs EXCEPT ![j].state = "collecting", ![j].handset = h]
  /\ UNCHANGED refusals

\* toolchain(): aborts when no tool at all can be run.
CheckToolchain(j) ==
  /\ Call(j) = "toolchain"
  /\ \/ Answers /\ Carry(j, {}, {})
     \/ Refused /\ Abort(j, "failed")

\* pairingStatus(): anything but "validated" aborts with NotPairedError, and a
\* tool that cannot be run aborts with an error of its own.
CheckPairing(j) ==
  /\ Call(j) = "pairing"
  /\ \/ jobs[j].handset \in trusted /\ Answers /\ Carry(j, {}, {})
     \/ jobs[j].handset \notin trusted /\ Answers /\ Abort(j, "notPaired")
     \/ Refused /\ (Abort(j, "notPaired") \/ Abort(j, "failed"))

\* info() is in no try: a refusal ends the inspection.
ReadIdentity(j) ==
  /\ Call(j) = "identity"
  /\ \/ Answers /\ Carry(j, {}, {})
     \/ Refused /\ Abort(j, "failed")

\* Faulty: the catch of one collector does not record.
ReadUnrecorded(j) ==
  /\ Call(j) \in Guarded
  /\ \/ Answers /\ Carry(j, Offered(j, Call(j)), {})
     \/ Refused /\ Carry(j, {}, {})

\* Faulty: the tool runs under no timeout, and a silent handset holds it.
ReadUntimed(j) ==
  /\ Call(j) \in Guarded
  /\ Offered(j, Call(j)) # {}
  /\ Answers
  /\ Carry(j, Offered(j, Call(j)), {})

\* domain(), ioregistry() and installedApps(), each in a try.
Read(j) ==
  /\ Call(j) \in Guarded
  /\ \/ Answers /\ Carry(j, Offered(j, Call(j)), {})
     \/ Refused /\ Carry(j, {}, {Call(j)})

\* services(): the service configuration, if it lists anything, is the answer
\* and skips the probe; any failure of it is caught on the spot.
ReadServices(j) ==
  /\ Call(j) = "services"
  /\ \/ /\ Answers
        /\ IF "services" \in offers[jobs[j].handset]
             THEN jobs' = [jobs EXCEPT ![j].at = @ + 2, ![j].has = @ \cup {"services"}]
             ELSE Carry(j, {}, {})
     \/ Refused /\ Carry(j, {}, {})

\* Faulty: the record names the probe, not the collector.
ProbeMisnamed(j) ==
  /\ Call(j) = "afc2"
  /\ \/ Answers /\ Carry(j, Offered(j, "services"), {})
     \/ Refused /\ (Carry(j, {}, {}) \/ Carry(j, {}, {"afc2"}))

\* The probe for com.apple.afc2.  A refusal is taken for "no such service";
\* only a tool that cannot be run is recorded.
ProbeAfc2(j) ==
  /\ Call(j) = "afc2"
  /\ \/ Answers /\ Carry(j, Offered(j, "services"), {})
     \/ Refused /\ (Carry(j, {}, {}) \/ Carry(j, {}, {"services"}))

\* analytics(), in a try as well: a copy of the crash reports that fails before
\* the first file is recorded; one that fails later is searched for what it has,
\* a file that cannot be read is passed over, and nothing found is no error.
ReadAnalytics(j) ==
  /\ Call(j) = "analytics"
  /\ \/ Answers /\ Carry(j, Offered(j, "analytics"), {})
     \/ Refused /\ (\/ Carry(j, {}, {"analytics"})
                    \/ Carry(j, Offered(j, "analytics"), {}) \/ Carry(j, {}, {}))

Collect(j) ==
  /\ Collecting(j)
  /\ \/ CheckToolchain(j) \/ CheckPairing(j) \/ ReadIdentity(j)
     \/ Read(j) \/ ReadServices(j) \/ ProbeAfc2(j) \/ ReadAnalytics(j)

(***************************************************************************)
(* The score, the upload and the answer                                    *)
(***************************************************************************)

Scored(j) == jobs[j].state = "collecting" /\ jobs[j].at > Len(Calls)

\* inspect(), then the upload, or the answer at once when the request did not
\* ask for one or the bridge is not paired with an account.
Score(j) ==
  /\ Scored(j)
  /\ \/ jobs' = [jobs EXCEPT ![j].state = "uploading"] /\ Promise!Send(j)
     \/ jobs' = [jobs EXCEPT ![j].state = "answered"] /\ UNCHANGED <<rows, outcome>>

Saved(j) ==
  /\ jobs[j].state = "uploading"
  /\ Promise!Confirm(j)
  /\ jobs' = [jobs EXCEPT ![j].state = "answered", ![j].uploaded = TRUE]

\* Faulty: a failed upload fails the request.
NotSavedFails(j) ==
  /\ jobs[j].state = "uploading"
  /\ Promise!GiveUp(j)
  /\ jobs' = [jobs EXCEPT ![j].state = "failed"]

\* The API rejects, fetch throws or gives up: caught, and the answer says so.
NotSaved(j) ==
  /\ jobs[j].state = "uploading"
  /\ Promise!GiveUp(j)
  /\ jobs' = [jobs EXCEPT ![j].state = "answered"]

\* The bridge process ends; what it sent may still be stored.
BridgeStops ==
  /\ \E j \in Jobs : jobs[j].state \in {"collecting", "uploading"}
  /\ jobs' = [j \in Jobs |-> IF jobs[j].state \in {"collecting", "uploading"}
                             THEN [jobs[j] EXCEPT !.state = "lost"] ELSE jobs[j]]

\* The technician taps Trust.
Trust(h) == h \notin trusted /\ trusted' = trusted \cup {h}

-----------------------------------------------------------------------------
Upload(j) == Saved(j) \/ NotSaved(j)

Next ==
  \/ \E h \in Handsets : Trust(h) /\ UNCHANGED <<offers, jobs, refusals, rows, outcome>>
  \/ \E j \in Jobs, h \in Handsets : Request(j, h) /\ UNCHANGED <<trusted, offers, rows, outcome>>
  \/ \E j \in Jobs : Collect(j) /\ UNCHANGED <<trusted, offers, rows, outcome>>
  \/ \E j \in Jobs : (Score(j) \/ Upload(j)) /\ UNCHANGED <<trusted, offers, refusals>>
  \/ \E j \in Jobs : Promise!Record(j) /\ UNCHANGED <<trusted, offers, jobs, refusals>>
  \/ BridgeStops /\ UNCHANGED <<trusted, offers, refusals, rows, outcome>>

\* Every tool runs under a timeout of execFile, and fetch gives up in the end.
Fairness ==
  \A j \in Jobs :
    /\ WF_bvars(Collect(j) /\ UNCHANGED <<trusted, offers, rows, outcome>>)
    /\ WF_bvars((Score(j) \/ Upload(j)) /\ UNCHANGED <<trusted, offers, refusals>>)

Spec == Init /\ [][Next]_bvars /\ Fairness

-----------------------------------------------------------------------------
(***************************************************************************)
(* Properties                                                              *)
(***************************************************************************)

Captured(j) == Scored(j) \/ jobs[j].state \in {"uploading", "answered"}
Gaps(j) == offers[jobs[j].handset] \ jobs[j].has

\* "A collector that cannot read something records why and carries on"
\* (collector.ts): a capture that lacks what its handset had to tell says so,
\* whatever was refused and in whatever order.  Services and analytics are apart:
\* services() and analytics() keep failures to themselves.
GapsAreNamed ==
  \A j \in Jobs : Captured(j) => Gaps(j) \ {"services", "analytics"} \subseteq jobs[j].errors

\* "Every other failure is captured as a typed CollectionError and carried into
\* the snapshot" (docs/10-device-connection.md): the same of every source.
EveryGapIsNamed == \A j \in Jobs : Captured(j) => Gaps(j) \subseteq jobs[j].errors

\* The page says "Saved to your workspace" only of an inspection that is there.
SavedIsStored == \A j \in Jobs : jobs[j].uploaded => rows[j] = 1

\* "The shop still sees a verdict when its internet connection is down"
\* (server.ts): from the score on, only the end of the bridge keeps the verdict
\* from the page; no outcome of the upload does.
VerdictOutlivesUpload ==
  [][\A j \in Jobs : Captured(j) => Captured(j)' \/ jobs'[j].state = "lost"]_bvars

\* A request does not hang on a handset that stops answering: it ends with a
\* result, with an error, or with the bridge.
EveryRequestEnds ==
  \A j \in Jobs : jobs[j].state = "collecting"
                    ~> jobs[j].state \in {"answered", "notPaired", "failed", "lost"}
=============================================================================
