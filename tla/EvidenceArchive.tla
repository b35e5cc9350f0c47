-------------------------- MODULE EvidenceArchive --------------------------
(***************************************************************************)
(* What a buyer may rely on: a conclusion is drawn from a capture that a   *)
(* bench submitted, re-scoring concludes again from the same evidence as   *)
(* long as nobody disguised an edit of it, and a conclusion once archived  *)
(* never changes.  There is no digest, no id and no crash in it.           *)
(* InspectionStore implements it.                                          *)
(***************************************************************************)
CONSTANTS Ledgers, Captures, Engines, Ids, None

VARIABLES
  submitted,    \* captures that benches have submitted
  disguised,    \* conclusions whose evidence has been edited unseen
  archive       \* archive[i]: the conclusion archived under i, or None

avars == <<submitted, disguised, archive>>

Conclusion == [ledger : Ledgers, engine : Engines, rescoreOf : Ids \cup {None}]

Init ==
  /\ submitted = {}
  /\ disguised = {}
  /\ archive = [i \in Ids |-> None]

Submit(c) ==
  /\ submitted' = submitted \cup {c}
  /\ UNCHANGED <<disguised, archive>>

Conclude(i, c, e) ==
  /\ archive[i] = None
  /\ c \in submitted
  /\ archive' = [archive EXCEPT ![i] = [ledger |-> c, engine |-> e, rescoreOf |-> None]]
  /\ UNCHANGED <<submitted, disguised>>

Disguise(i) ==
  /\ archive[i] # None
  /\ disguised' = disguised \cup {i}
  /\ UNCHANGED <<submitted, archive>>

ConcludeAgain(i, j, l, e) ==
  /\ archive[i] = None
  /\ archive[j] # None
  /\ l = archive[j].ledger \/ j \in disguised
  /\ archive' = [archive EXCEPT ![i] = [ledger |-> l, engine |-> e, rescoreOf |-> j]]
  /\ UNCHANGED <<submitted, disguised>>

Next ==
  \/ \E c \in Captures : Submit(c)
  \/ \E i \in Ids : Disguise(i)
  \/ \E i \in Ids, e \in Engines : \/ \E c \in Captures : Conclude(i, c, e)
                                   \/ \E j \in Ids, l \in Ledgers : ConcludeAgain(i, j, l, e)

Spec == Init /\ [][Next]_avars
=============================================================================
