--------------------------- MODULE UploadPromise ---------------------------
(***************************************************************************)
(* What the bench and the cloud promise each other about one upload, with  *)
(* no clock, no nonce table and no network in it: an upload becomes at     *)
(* most one inspection row, and a bench that is told "uploaded" can rely   *)
(* on the row being there.  BridgeIngest implements this module.           *)
(***************************************************************************)
EXTENDS Naturals

CONSTANT Uploads      \* one per call of SnapshotUploader.upload

VARIABLES
  rows,     \* rows[u]: inspection rows stored for upload u
  outcome   \* outcome[u]: what the bench knows of u

pvars == <<rows, outcome>>

Outcome == {"unsent", "waiting", "uploaded", "notUploaded"}

Init ==
  /\ rows = [u \in Uploads |-> 0]
  /\ outcome = [u \in Uploads |-> "unsent"]

Send(u) ==
  /\ outcome[u] = "unsent"
  /\ outcome' = [outcome EXCEPT ![u] = "waiting"]
  /\ UNCHANGED rows

\* A row may appear after the bench has given up: the answer is not the row.
Record(u) ==
  /\ outcome[u] # "unsent"
  /\ rows[u] = 0
  /\ rows' = [rows EXCEPT ![u] = 1]
  /\ UNCHANGED outcome

Confirm(u) ==
  /\ outcome[u] = "waiting"
  /\ rows[u] = 1
  /\ outcome' = [outcome EXCEPT ![u] = "uploaded"]
  /\ UNCHANGED rows

GiveUp(u) ==
  /\ outcome[u] = "waiting"
  /\ outcome' = [outcome EXCEPT ![u] = "notUploaded"]
  /\ UNCHANGED rows

Next == \E u \in Uploads : Send(u) \/ Record(u) \/ Confirm(u) \/ GiveUp(u)

Spec == Init /\ [][Next]_pvars
=============================================================================
