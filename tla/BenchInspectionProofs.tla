----------------------- MODULE BenchInspectionProofs -----------------------
(***************************************************************************)
(* For any number of requests, handsets, domains and refusals: a capture   *)
(* that lacks what its handset had to tell names the gap (services and     *)
(* analytics apart), "uploaded" means stored, and no outcome of the upload *)
(* takes a verdict away.  The argument is that every guarded source that   *)
(* was passed has been read or put on record, and that the calls are       *)
(* passed one by one except for the probe that the service list saves.     *)
(***************************************************************************)
EXTENDS BenchInspection, SequenceTheorems, TLAPS

-----------------------------------------------------------------------------
(***************************************************************************)
(* The sequence of calls                                                   *)
(***************************************************************************)

\* What a concatenation holds, by place.
LEMMA Places ==
  ASSUME NEW S, NEW s \in Seq(S), NEW t \in Seq(S)
  PROVE  /\ s \o t \in Seq(S)
         /\ Len(s \o t) = Len(s) + Len(t)
         /\ \A i \in 1..Len(s) : (s \o t)[i] = s[i]
         /\ \A i \in 1..Len(t) : (s \o t)[Len(s) + i] = t[i]
OBVIOUS

\* The same of three sequences.
LEMMA PlacesOfThree ==
  ASSUME NEW S, NEW a \in Seq(S), NEW b \in Seq(S), NEW c \in Seq(S)
  PROVE  /\ Len(a \o b \o c) = Len(a) + Len(b) + Len(c)
         /\ \A i \in 1..Len(a) : (a \o b \o c)[i] = a[i]
         /\ \A i \in 1..Len(b) : (a \o b \o c)[Len(a) + i] = b[i]
         /\ \A i \in 1..Len(c) : (a \o b \o c)[Len(a) + Len(b) + i] = c[i]
<1>1. PICK f \in Seq(S) : f = a \o b
  BY Places
<1>2. Len(f) = Len(a) + Len(b)
  BY <1>1, Places
<1>3. Len(f \o c) = Len(a) + Len(b) + Len(c)
  <2>1. Len(f \o c) = Len(f) + Len(c)
    BY Places
  <2>. QED
    BY <1>2, <2>1
<1>4. \A i \in 1..Len(a) : (f \o c)[i] = a[i]
  BY <1>1, <1>2, Places
<1>5. \A i \in 1..Len(b) : (f \o c)[Len(a) + i] = b[i]
  BY <1>1, <1>2, Places
<1>6. \A i \in 1..Len(c) : (f \o c)[Len(a) + Len(b) + i] = c[i]
  BY <1>2, Places
<1>. QED
  BY <1>1, <1>3, <1>4, <1>5, <1>6

\* Where each call stands: the domains in the middle, analytics last if at all.
LEMMA CallsShape ==
  LET n == Len(Domains) IN
  /\ n \in Nat
  /\ Len(Calls) \in {n + 7, n + 8}
  /\ Calls[1] = "toolchain" /\ Calls[2] = "pairing" /\ Calls[3] = "identity"
  /\ \A i \in 1..n : Calls[3 + i] = Domains[i]
  /\ Calls[n + 4] = "battery" /\ Calls[n + 5] = "applications"
  /\ Calls[n + 6] = "services" /\ Calls[n + 7] = "afc2"
  /\ Len(Calls) = n + 8 => CollectAnalytics /\ Calls[n + 8] = "analytics"
<1> DEFINE Names == Range(Domains) \cup OtherCalls
           first == <<"toolchain", "pairing", "identity">>
           last == IF CollectAnalytics
                     THEN <<"battery", "applications", "services", "afc2", "analytics">>
                     ELSE <<"battery", "applications", "services", "afc2">>
<1>1. Len(Domains) \in Nat /\ DOMAIN Domains = 1..Len(Domains)
  BY ConstantsOK
<1>2. Domains \in Seq(Names)
  <2>1. Domains = [i \in 1..Len(Domains) |-> Domains[i]]
    BY ConstantsOK
  <2>2. \A i \in 1..Len(Domains) : Domains[i] \in Names
    BY <1>1 DEF Range
  <2>. HIDE DEF Names
  <2>. QED
    BY <1>1, <2>1, <2>2, SeqDef
<1>3. first \in Seq(Names) /\ last \in Seq(Names)
  <2>1. first \in Seq(Names)
    BY DEF OtherCalls
  <2>2. /\ <<"battery", "applications", "services", "afc2", "analytics">> \in Seq(Names)
        /\ <<"battery", "applications", "services", "afc2">> \in Seq(Names)
    BY DEF OtherCalls
  <2>. HIDE DEF Names
  <2>. QED
    BY <2>1, <2>2
<1>4. /\ first[1] = "toolchain" /\ first[2] = "pairing" /\ first[3] = "identity"
      /\ last[1] = "battery" /\ last[2] = "applications" /\ last[3] = "services"
      /\ last[4] = "afc2" /\ (Len(last) = 5 => CollectAnalytics /\ last[5] = "analytics")
  OBVIOUS
<1>5. Len(first) = 3 /\ Len(last) \in {4, 5}
  OBVIOUS
<1>6. Calls = first \o Domains \o last
  BY DEF Calls
<1>. HIDE DEF Names, first, last
<1>7. /\ Len(Calls) = Len(first) + Len(Domains) + Len(last)
      /\ \A i \in 1..Len(first) : Calls[i] = first[i]
      /\ \A i \in 1..Len(Domains) : Calls[Len(first) + i] = Domains[i]
      /\ \A i \in 1..Len(last) : Calls[Len(first) + Len(Domains) + i] = last[i]
  <2>1. PICK c : c = first \o Domains \o last
    OBVIOUS
  <2>2. Len(c) = Len(first) + Len(Domains) + Len(last)
    BY <1>2, <1>3, <2>1, PlacesOfThree
  <2>3. \A i \in 1..Len(first) : c[i] = first[i]
    BY <1>2, <1>3, <2>1, PlacesOfThree
  <2>4. \A i \in 1..Len(Domains) : c[Len(first) + i] = Domains[i]
    BY <1>2, <1>3, <2>1, PlacesOfThree
  <2>5. \A i \in 1..Len(last) : c[Len(first) + Len(Domains) + i] = last[i]
    BY <1>2, <1>3, <2>1, PlacesOfThree
  <2>. QED
    BY <1>6, <2>1, <2>2, <2>3, <2>4, <2>5
<1>8. Calls[1] = first[1] /\ Calls[2] = first[2] /\ Calls[3] = first[3]
  BY <1>5, <1>7
<1>9. \A i \in 1..Len(Domains) : Calls[3 + i] = Domains[i]
  BY <1>5, <1>7
<1>10. \A i \in 1..Len(last) : Calls[Len(Domains) + 3 + i] = last[i]
  BY <1>1, <1>5, <1>7
<1>11. /\ Calls[Len(Domains) + 4] = last[1] /\ Calls[Len(Domains) + 5] = last[2]
       /\ Calls[Len(Domains) + 6] = last[3] /\ Calls[Len(Domains) + 7] = last[4]
       /\ Len(last) = 5 => Calls[Len(Domains) + 8] = last[5]
  BY <1>1, <1>5, <1>10
<1>12. Len(Calls) \in {Len(Domains) + 7, Len(Domains) + 8}
  <2>1. Len(Calls) = 3 + Len(Domains) + Len(last)
    BY <1>5, <1>7
  <2>2. CASE Len(last) = 4
    BY <1>1, <2>1, <2>2
  <2>3. CASE Len(last) = 5
    BY <1>1, <2>1, <2>3
  <2>. QED
    BY <1>5, <2>2, <2>3
<1>13. /\ Calls[1] = "toolchain" /\ Calls[2] = "pairing" /\ Calls[3] = "identity"
       /\ Calls[Len(Domains) + 4] = "battery" /\ Calls[Len(Domains) + 5] = "applications"
       /\ Calls[Len(Domains) + 6] = "services" /\ Calls[Len(Domains) + 7] = "afc2"
  BY <1>4, <1>8, <1>11
<1>14. ASSUME Len(Calls) = Len(Domains) + 8
       PROVE  CollectAnalytics /\ Calls[Len(Domains) + 8] = "analytics"
  <2>1. Len(last) = 5
    BY <1>1, <1>5, <1>7, <1>14
  <2>. QED
    BY <1>4, <1>11, <2>1
<1>. QED
  BY <1>1, <1>9, <1>12, <1>13, <1>14

\* Every guarded source has its call.
LEMMA GuardedIsCalled ==
  \A s \in Guarded : \E k \in 1..Len(Calls) : Calls[k] = s
<1> SUFFICES ASSUME NEW s \in Guarded PROVE \E k \in 1..Len(Calls) : Calls[k] = s
  OBVIOUS
<1>1. CASE s \in Range(Domains)
  <2>1. PICK i \in 1..Len(Domains) : Domains[i] = s
    BY <1>1 DEF Range
  <2>. QED
    BY <2>1, CallsShape
<1>2. CASE s \in {"battery", "applications"}
  BY <1>2, CallsShape
<1>. QED
  BY <1>1, <1>2 DEF Guarded

\* The service list stands before the probe.
LEMMA ServicesThenProbe ==
  ASSUME NEW k \in 1..Len(Calls), Calls[k] = "services"
  PROVE  k + 1 \in 1..Len(Calls) /\ Calls[k + 1] = "afc2"
<1>1. \A i \in 1..Len(Domains) : Domains[i] # "services"
  <2>1. DOMAIN Domains = 1..Len(Domains) /\ Range(Domains) \cap OtherCalls = {}
    BY ConstantsOK
  <2>2. "services" \notin Range(Domains)
    BY <2>1 DEF OtherCalls
  <2>. QED
    BY <2>1, <2>2 DEF Range
<1>2. k = Len(Domains) + 6
  <2>1. k \in 1..3 \/ (k - 3) \in 1..Len(Domains) \/ k \in Len(Domains) + 4..Len(Calls)
    BY CallsShape
  <2>2. ~ k \in 1..3
    BY CallsShape
  <2>3. ~ (k - 3) \in 1..Len(Domains)
    <3>1. k = 3 + (k - 3)
      OBVIOUS
    <3>. QED
      BY CallsShape, <1>1, <3>1
  <2>. QED
    BY <2>1, <2>2, <2>3, CallsShape
<1>. QED
  BY <1>2, CallsShape

\* Analytics are called for only where they are collected.
LEMMA AnalyticsIsCollected ==
  ASSUME NEW k \in 1..Len(Calls), Calls[k] = "analytics"
  PROVE  CollectAnalytics
<1>1. \A i \in 1..Len(Domains) : Domains[i] # "analytics"
  <2>1. DOMAIN Domains = 1..Len(Domains) /\ Range(Domains) \cap OtherCalls = {}
    BY ConstantsOK
  <2>2. "analytics" \notin Range(Domains)
    BY <2>1 DEF OtherCalls
  <2>. QED
    BY <2>1, <2>2 DEF Range
<1>2. k \in 1..3 \/ (k - 3) \in 1..Len(Domains) \/ k \in Len(Domains) + 4..Len(Calls)
  BY CallsShape
<1>3. ~ k \in 1..3
  BY CallsShape
<1>4. ~ (k - 3) \in 1..Len(Domains)
  <2>1. k = 3 + (k - 3)
    OBVIOUS
  <2>. QED
    BY CallsShape, <1>1, <2>1
<1>5. k = Len(Domains) + 8
  BY <1>2, <1>3, <1>4, CallsShape
<1>. QED
  BY <1>5, CallsShape

\* The calls that have a handler of their own.
LEMMA NotGuarded ==
  /\ "services" \notin Guarded /\ "afc2" \notin Guarded /\ "identity" \notin Guarded
  /\ "analytics" \notin Guarded
  /\ "toolchain" \notin Guarded /\ "pairing" \notin Guarded
<1>1. Range(Domains) \cap OtherCalls = {}
  BY ConstantsOK
<1>. QED
  BY <1>1 DEF Guarded, OtherCalls

-----------------------------------------------------------------------------
(***************************************************************************)
(* The inductive invariant                                                 *)
(***************************************************************************)

\* What has been passed has been read or is on record.
PassedIsAccounted ==
  \A j \in Jobs : \A k \in 1..Len(Calls) :
    k < jobs[j].at /\ Calls[k] \in Guarded \cap offers[jobs[j].handset]
      => Calls[k] \in jobs[j].has \cup jobs[j].errors

\* The score comes after the last call, and a request not yet made is at the first.
ScoredAtTheEnd ==
  \A j \in Jobs : /\ jobs[j].state \in {"uploading", "answered"} => jobs[j].at > Len(Calls)
                  /\ jobs[j].state = "free" => jobs[j].at = 1

IInv == TypeOK /\ PassedIsAccounted /\ ScoredAtTheEnd /\ SavedIsStored

LEMMA InvInit == Init => IInv
<1> SUFFICES ASSUME Init PROVE IInv
  OBVIOUS
<1>1. Len(Calls) \in Nat /\ 1 \in 1..Len(Calls) + 1
  BY CallsShape
<1>. QED
  BY <1>1, ConstantsOK DEF Init, IInv, TypeOK, PassedIsAccounted, ScoredAtTheEnd, SavedIsStored, Job, State,
              Promise!Init, Promise!Outcome

-----------------------------------------------------------------------------
(***************************************************************************)
(* The steps                                                               *)
(***************************************************************************)

\* Moving on to the next await keeps the invariant if a guarded source that is
\* left behind has been read or recorded.
LEMMA CarryKeeps ==
  ASSUME IInv, NEW j \in Jobs, Collecting(j),
         NEW has \in SUBSET Sources, NEW errors \in SUBSET Sources, Carry(j, has, errors),
         Call(j) \in Guarded \cap offers[jobs[j].handset] => Call(j) \in has \cup errors,
         refusals' \in 0..MaxRefusals, UNCHANGED <<trusted, offers, rows, outcome>>
  PROVE  IInv'
<1>1. jobs[j] \in Job /\ jobs[j].at \in 1..Len(Calls) /\ Len(Calls) \in Nat
  BY CallsShape DEF IInv, TypeOK, Job, Collecting
<1>2. /\ jobs' \in [Jobs -> Job]
      /\ jobs'[j].at = jobs[j].at + 1 /\ jobs'[j].handset = jobs[j].handset
      /\ jobs'[j].has = jobs[j].has \cup has /\ jobs'[j].errors = jobs[j].errors \cup errors
      /\ jobs'[j].state = "collecting" /\ jobs'[j].uploaded = jobs[j].uploaded
      /\ \A i \in Jobs \ {j} : jobs'[i] = jobs[i]
  <2>1. /\ jobs[j].at + 1 \in 1..Len(Calls) + 1
        /\ jobs[j].has \cup has \in SUBSET Sources
        /\ jobs[j].errors \cup errors \in SUBSET Sources
    BY <1>1 DEF Job
  <2>. QED
    BY <1>1, <2>1 DEF IInv, TypeOK, Job, Carry, Collecting
<1>3. TypeOK'
  BY <1>2 DEF IInv, TypeOK
<1>4. PassedIsAccounted'
  <2>1. \A k \in 1..Len(Calls) : k < jobs'[j].at => k < jobs[j].at \/ Calls[k] = Call(j)
    BY <1>1, <1>2 DEF Call
  <2>2. \A k \in 1..Len(Calls) :
          k < jobs'[j].at /\ Calls[k] \in Guarded \cap offers[jobs[j].handset]
            => Calls[k] \in jobs'[j].has \cup jobs'[j].errors
    BY <1>2, <2>1 DEF IInv, PassedIsAccounted
  <2>. QED
    BY <1>2, <2>2 DEF IInv, PassedIsAccounted, Guarded
<1>5. ScoredAtTheEnd' /\ SavedIsStored'
  BY <1>2 DEF IInv, ScoredAtTheEnd, SavedIsStored
<1>. QED
  BY <1>3, <1>4, <1>5 DEF IInv

\* Giving up keeps it: nothing is claimed of a job that has aborted.
LEMMA AbortKeeps ==
  ASSUME IInv, NEW j \in Jobs, NEW state \in {"notPaired", "failed"}, Abort(j, state),
         refusals' \in 0..MaxRefusals, UNCHANGED <<trusted, offers, rows, outcome>>
  PROVE  IInv'
<1>1. /\ jobs' \in [Jobs -> Job]
      /\ jobs'[j].at = jobs[j].at /\ jobs'[j].handset = jobs[j].handset
      /\ jobs'[j].has = jobs[j].has /\ jobs'[j].errors = jobs[j].errors
      /\ jobs'[j].state = state /\ jobs'[j].uploaded = jobs[j].uploaded
      /\ \A i \in Jobs \ {j} : jobs'[i] = jobs[i]
  BY DEF IInv, TypeOK, Job, State, Abort
<1>. QED
  BY <1>1 DEF IInv, TypeOK, PassedIsAccounted, ScoredAtTheEnd, SavedIsStored, Guarded

\* Every tool call keeps it.
LEMMA CollectKeeps ==
  ASSUME IInv, NEW j \in Jobs, Collect(j), UNCHANGED <<trusted, offers, rows, outcome>>
  PROVE  IInv'
<1>1. Collecting(j)
  BY DEF Collect
<1>2. jobs[j].at \in 1..Len(Calls) /\ jobs[j] \in Job /\ refusals \in 0..MaxRefusals
  BY <1>1, CallsShape DEF IInv, TypeOK, Job, Collecting
<1>3. /\ Answers => refusals' \in 0..MaxRefusals
      /\ Refused => refusals' \in 0..MaxRefusals
  BY <1>2, ConstantsOK DEF Answers, Refused
<1>4. \A s \in Sources : Offered(j, s) \in SUBSET Sources /\ {s} \in SUBSET Sources
  BY DEF Offered
<1>5. {} \in SUBSET Sources /\ {"services"} \in SUBSET Sources
  BY DEF Sources
<1>6. ASSUME CheckToolchain(j) \/ CheckPairing(j) \/ ReadIdentity(j) PROVE IInv'
  <2>1. Call(j) \notin Guarded
    BY <1>6, NotGuarded DEF CheckToolchain, CheckPairing, ReadIdentity
  <2>2. /\ Answers \/ Refused
        /\ Carry(j, {}, {}) \/ Abort(j, "failed") \/ Abort(j, "notPaired")
    BY <1>6 DEF CheckToolchain, CheckPairing, ReadIdentity
  <2>3. CASE Carry(j, {}, {})
    BY <1>1, <1>3, <1>5, <2>1, <2>2, <2>3, CarryKeeps
  <2>4. CASE Abort(j, "failed")
    BY <1>3, <2>2, <2>4, AbortKeeps
  <2>5. CASE Abort(j, "notPaired")
    BY <1>3, <2>2, <2>5, AbortKeeps
  <2>. QED
    BY <2>2, <2>3, <2>4, <2>5
<1>7. ASSUME Read(j) PROVE IInv'
  <2>1. Call(j) \in Sources
    BY <1>7 DEF Read, Sources
  <2>2. CASE Answers /\ Carry(j, Offered(j, Call(j)), {})
    <3>1. Call(j) \in offers[jobs[j].handset] => Call(j) \in Offered(j, Call(j))
      BY DEF Offered
    <3>. QED
      BY <1>1, <1>3, <1>4, <1>5, <2>1, <2>2, <3>1, CarryKeeps
  <2>3. CASE Refused /\ Carry(j, {}, {Call(j)})
    BY <1>1, <1>3, <1>4, <1>5, <2>1, <2>3, CarryKeeps
  <2>. QED
    BY <1>7, <2>2, <2>3 DEF Read
<1>8. ASSUME ReadServices(j) PROVE IInv'
  <2>1. Call(j) = "services" /\ Call(j) \notin Guarded
    BY <1>8, NotGuarded DEF ReadServices
  <2>2. CASE (Answers \/ Refused) /\ Carry(j, {}, {})
    BY <1>1, <1>3, <1>5, <2>1, <2>2, CarryKeeps
  <2>3. CASE Answers /\ jobs' = [jobs EXCEPT ![j].at = @ + 2, ![j].has = @ \cup {"services"}]
    <3>1. jobs[j].at + 1 \in 1..Len(Calls) /\ Calls[jobs[j].at + 1] = "afc2"
      BY <1>2, <2>1, ServicesThenProbe DEF Call
    <3>2. jobs[j].at + 2 \in 1..Len(Calls) + 1
      <4>1. Len(Calls) \in Nat
        BY CallsShape
      <4>. QED
        BY <1>2, <3>1, <4>1
    <3>3. /\ jobs' \in [Jobs -> Job]
          /\ jobs'[j].at = jobs[j].at + 2 /\ jobs'[j].handset = jobs[j].handset
          /\ jobs'[j].has = jobs[j].has \cup {"services"} /\ jobs'[j].errors = jobs[j].errors
          /\ jobs'[j].state = "collecting" /\ jobs'[j].uploaded = jobs[j].uploaded
          /\ \A i \in Jobs \ {j} : jobs'[i] = jobs[i]
      BY <1>1, <1>2, <1>5, <2>3, <3>2 DEF IInv, TypeOK, Job, Collecting
    <3>4. \A k \in 1..Len(Calls) :
            k < jobs'[j].at => k < jobs[j].at \/ k = jobs[j].at \/ k = jobs[j].at + 1
      <4>1. Len(Calls) \in Nat
        BY CallsShape
      <4>. QED
        BY <1>2, <3>3, <4>1
    <3>5. \A k \in 1..Len(Calls) :
            k < jobs'[j].at /\ Calls[k] \in Guarded => k < jobs[j].at
      BY <2>1, <3>1, <3>4, NotGuarded DEF Call
    <3>6. PassedIsAccounted'
      BY <3>3, <3>5 DEF IInv, PassedIsAccounted, Guarded
    <3>7. TypeOK'
      BY <1>3, <2>3, <3>3 DEF IInv, TypeOK
    <3>. QED
      BY <3>3, <3>6, <3>7 DEF IInv, ScoredAtTheEnd, SavedIsStored
  <2>. QED
    BY <1>8, <2>2, <2>3 DEF ReadServices
<1>9. ASSUME ProbeAfc2(j) PROVE IInv'
  <2>1. Call(j) \notin Guarded
    BY <1>9, NotGuarded DEF ProbeAfc2
  <2>2. Offered(j, "services") \in SUBSET Sources
    BY <1>4 DEF Sources
  <2>3. CASE Answers /\ Carry(j, Offered(j, "services"), {})
    BY <1>1, <1>3, <1>5, <2>1, <2>2, <2>3, CarryKeeps
  <2>4. CASE Refused /\ Carry(j, {}, {})
    BY <1>1, <1>3, <1>5, <2>1, <2>4, CarryKeeps
  <2>5. CASE Refused /\ Carry(j, {}, {"services"})
    BY <1>1, <1>3, <1>5, <2>1, <2>5, CarryKeeps
  <2>. QED
    BY <1>9, <2>3, <2>4, <2>5 DEF ProbeAfc2
<1>10. ASSUME ReadAnalytics(j) PROVE IInv'
  <2>1. Call(j) = "analytics" /\ Call(j) \notin Guarded
    BY <1>10, NotGuarded DEF ReadAnalytics
  <2>2. "analytics" \in Sources
    BY <1>2, <2>1, AnalyticsIsCollected DEF Call, Sources
  <2>3. CASE (Answers \/ Refused) /\ Carry(j, Offered(j, "analytics"), {})
    BY <1>1, <1>3, <1>4, <1>5, <2>1, <2>2, <2>3, CarryKeeps
  <2>4. CASE Refused /\ Carry(j, {}, {"analytics"})
    BY <1>1, <1>3, <1>4, <1>5, <2>1, <2>2, <2>4, CarryKeeps
  <2>5. CASE Refused /\ Carry(j, {}, {})
    BY <1>1, <1>3, <1>5, <2>1, <2>5, CarryKeeps
  <2>. QED
    BY <1>10, <2>3, <2>4, <2>5 DEF ReadAnalytics
<1>. QED
  BY <1>6, <1>7, <1>8, <1>9, <1>10 DEF Collect

\* The score and the end of the upload keep it.
LEMMA AnswerKeeps ==
  ASSUME IInv, NEW j \in Jobs, Score(j) \/ Upload(j), UNCHANGED <<trusted, offers, refusals>>
  PROVE  IInv'
<1>1. /\ jobs[j] \in Job /\ jobs[j].at > Len(Calls)
      /\ rows' = rows /\ outcome' \in [Jobs -> Promise!Outcome]
  BY DEF IInv, TypeOK, ScoredAtTheEnd, Score, Scored, Upload, Saved, NotSaved,
         Promise!Send, Promise!Confirm, Promise!GiveUp, Promise!Outcome
<1>2. /\ jobs' \in [Jobs -> Job]
      /\ jobs'[j].at = jobs[j].at /\ jobs'[j].handset = jobs[j].handset
      /\ jobs'[j].has = jobs[j].has /\ jobs'[j].errors = jobs[j].errors
      /\ jobs'[j].state \in {"uploading", "answered"}
      /\ jobs'[j].uploaded => jobs[j].uploaded \/ rows[j] = 1
      /\ \A i \in Jobs \ {j} : jobs'[i] = jobs[i]
  <2>1. CASE Score(j)
    <3>1. PICK state \in {"uploading", "answered"} : jobs' = [jobs EXCEPT ![j].state = state]
      BY <2>1 DEF Score
    <3>. QED
      BY <1>1, <3>1 DEF IInv, TypeOK, Job, State
  <2>2. CASE NotSaved(j)
    BY <1>1, <2>2 DEF NotSaved, IInv, TypeOK, Job, State
  <2>3. CASE Saved(j)
    BY <1>1, <2>3 DEF Saved, Promise!Confirm, IInv, TypeOK, Job, State
  <2>. QED
    BY <2>1, <2>2, <2>3 DEF Upload
<1>. QED
  BY <1>1, <1>2 DEF IInv, TypeOK, PassedIsAccounted, ScoredAtTheEnd, SavedIsStored, Guarded

\* The invariant is inductive.
LEMMA InvStep == IInv /\ [Next]_bvars => IInv'
<1> SUFFICES ASSUME IInv, [Next]_bvars PROVE IInv'
  OBVIOUS
<1>1. CASE UNCHANGED bvars
  BY <1>1 DEF IInv, TypeOK, PassedIsAccounted, ScoredAtTheEnd, SavedIsStored, bvars, Guarded
<1>2. ASSUME NEW h \in Handsets, Trust(h), UNCHANGED <<offers, jobs, refusals, rows, outcome>>
      PROVE IInv'
  BY <1>2 DEF Trust, IInv, TypeOK, PassedIsAccounted, ScoredAtTheEnd, SavedIsStored, Guarded
<1>3. ASSUME NEW j \in Jobs, NEW h \in Handsets, Request(j, h),
             UNCHANGED <<trusted, offers, rows, outcome>>
      PROVE IInv'
  <2>1. /\ jobs' \in [Jobs -> Job]
        /\ jobs'[j].at = 1 /\ jobs'[j].state = "collecting"
        /\ jobs'[j].uploaded = jobs[j].uploaded
        /\ \A i \in Jobs \ {j} : jobs'[i] = jobs[i]
        /\ refusals' = refusals
    <3>1. jobs[j] \in Job /\ jobs[j].at = 1 /\ jobs \in [Jobs -> Job]
      BY <1>3 DEF Request, IInv, TypeOK, ScoredAtTheEnd
    <3>2. jobs'[j] = [jobs[j] EXCEPT !.state = "collecting", !.handset = h]
      BY <1>3, <3>1 DEF Request
    <3>3. jobs'[j] \in Job
      BY <3>1, <3>2 DEF Job, State
    <3>4. jobs' \in [Jobs -> Job] /\ \A i \in Jobs \ {j} : jobs'[i] = jobs[i]
      BY <1>3, <3>1, <3>3 DEF Request
    <3>. QED
      BY <1>3, <3>1, <3>2, <3>4 DEF Request, Job
  <2>2. \A k \in 1..Len(Calls) : ~ k < jobs'[j].at
    BY <2>1, CallsShape
  <2>3. TypeOK'
    BY <1>3, <2>1 DEF IInv, TypeOK
  <2>4. PassedIsAccounted'
    BY <1>3, <2>1, <2>2 DEF IInv, PassedIsAccounted, Guarded
  <2>5. ScoredAtTheEnd' /\ SavedIsStored'
    BY <1>3, <2>1 DEF IInv, ScoredAtTheEnd, SavedIsStored
  <2>. QED
    BY <2>3, <2>4, <2>5 DEF IInv
<1>4. ASSUME NEW j \in Jobs, Promise!Record(j), UNCHANGED <<trusted, offers, jobs, refusals>>
      PROVE IInv'
  BY <1>4 DEF Promise!Record, IInv, TypeOK, PassedIsAccounted, ScoredAtTheEnd, SavedIsStored, Guarded
<1>5. ASSUME BridgeStops, UNCHANGED <<trusted, offers, refusals, rows, outcome>> PROVE IInv'
  <2>1. /\ jobs' \in [Jobs -> Job]
        /\ \A i \in Jobs : /\ jobs'[i].at = jobs[i].at /\ jobs'[i].handset = jobs[i].handset
                           /\ jobs'[i].has = jobs[i].has /\ jobs'[i].errors = jobs[i].errors
                           /\ jobs'[i].uploaded = jobs[i].uploaded
                           /\ jobs'[i].state \in {jobs[i].state, "lost"}
    <3>1. jobs \in [Jobs -> Job]
      BY DEF IInv, TypeOK
    <3>. QED
      BY <1>5, <3>1 DEF BridgeStops, Job, State
  <2>2. TypeOK'
    BY <1>5, <2>1 DEF IInv, TypeOK
  <2>3. PassedIsAccounted'
    BY <1>5, <2>1 DEF IInv, PassedIsAccounted, Guarded
  <2>4. ScoredAtTheEnd' /\ SavedIsStored'
    BY <1>5, <2>1 DEF IInv, ScoredAtTheEnd, SavedIsStored
  <2>. QED
    BY <2>2, <2>3, <2>4 DEF IInv
<1>. QED
  BY <1>1, <1>2, <1>3, <1>4, <1>5, CollectKeeps, AnswerKeeps DEF Next

-----------------------------------------------------------------------------
(***************************************************************************)
(* Theorems                                                                *)
(***************************************************************************)

\* The invariant holds of every behaviour of the bridge, fair or not.
THEOREM InductiveInvariant == Spec => []IInv
<1>. QED
  BY InvInit, InvStep, PTL DEF Spec

\* /inspect is type correct.
THEOREM TypeCorrect == Spec => []TypeOK
<1>1. IInv => TypeOK
  BY DEF IInv
<1>. QED
  BY <1>1, InductiveInvariant, PTL

\* "Uploaded" is only answered of a stored inspection.
THEOREM SavedMeansStored == Spec => []SavedIsStored
<1>1. IInv => SavedIsStored
  BY DEF IInv
<1>. QED
  BY <1>1, InductiveInvariant, PTL

\* Whatever is refused, the capture names what it lacks; services and analytics,
\* whose handlers keep failures to themselves, apart.
THEOREM NoSilentGap == Spec => []GapsAreNamed
<1>1. IInv => GapsAreNamed
  <2> SUFFICES ASSUME IInv, NEW j \in Jobs, Captured(j), NEW s \in Gaps(j) \ {"services", "analytics"}
               PROVE s \in jobs[j].errors
    BY DEF GapsAreNamed
  <2>1. jobs[j] \in Job /\ jobs[j].at > Len(Calls) /\ Len(Calls) \in Nat
    BY CallsShape DEF IInv, TypeOK, ScoredAtTheEnd, Captured, Scored
  <2>2. s \in Guarded /\ s \in offers[jobs[j].handset] /\ s \notin jobs[j].has
    BY <2>1 DEF Gaps, IInv, TypeOK, Job, Sources
  <2>3. PICK k \in 1..Len(Calls) : Calls[k] = s
    BY <2>2, GuardedIsCalled
  <2>4. k < jobs[j].at
    BY <2>1 DEF Job
  <2>. QED
    BY <2>2, <2>3, <2>4 DEF IInv, PassedIsAccounted
<1>. QED
  BY <1>1, InductiveInvariant, PTL

\* From the score on, only the end of the bridge takes the verdict away.
THEOREM VerdictStays == Spec => VerdictOutlivesUpload
<1>1. TypeOK /\ [Next]_bvars =>
        [\A j \in Jobs : Captured(j) => Captured(j)' \/ jobs'[j].state = "lost"]_bvars
  <2> SUFFICES ASSUME TypeOK, Next, NEW j \in Jobs, Captured(j)
               PROVE Captured(j)' \/ jobs'[j].state = "lost"
    OBVIOUS
  <2>1. ASSUME NEW i \in Jobs, NEW h \in Handsets, Request(i, h) PROVE Captured(j)'
    BY <2>1 DEF Request, Captured, Scored, TypeOK, Job
  <2>2. ASSUME NEW i \in Jobs, Collect(i) PROVE Captured(j)'
    <3>1. i # j
      BY <2>2, CallsShape DEF Collect, Collecting, Captured, Scored, TypeOK, Job
    <3>2. \/ \E has, errors : Carry(i, has, errors)
          \/ \E state : Abort(i, state)
          \/ jobs' = [jobs EXCEPT ![i].at = @ + 2, ![i].has = @ \cup {"services"}]
      BY <2>2 DEF Collect, CheckToolchain, CheckPairing, ReadIdentity, Read, ReadServices, ProbeAfc2,
                   ReadAnalytics
    <3>3. jobs'[j] = jobs[j]
      BY <3>1, <3>2 DEF Carry, Abort, TypeOK
    <3>. QED
      BY <3>3 DEF Captured, Scored
  <2>3. ASSUME NEW i \in Jobs, Score(i) \/ Upload(i) PROVE Captured(j)'
    BY <2>3 DEF Score, Upload, Saved, NotSaved, Captured, Scored, TypeOK, Job
  <2>4. CASE BridgeStops
    BY <2>4 DEF BridgeStops, Captured, Scored, TypeOK, Job
  <2>5. CASE UNCHANGED jobs
    BY <2>5 DEF Captured, Scored
  <2>. QED
    BY <2>1, <2>2, <2>3, <2>4, <2>5 DEF Next
<1>. QED
  BY <1>1, TypeCorrect, PTL DEF Spec, VerdictOutlivesUpload
=============================================================================
