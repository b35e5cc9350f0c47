----------------------------- MODULE MCSessions -----------------------------
(***************************************************************************)
(* Four calls by two people of shops of one name, two slugs tried.         *)
(* Everybody is invited as an OWNER: who is less may start fewer calls,    *)
(* and no property reads the role of somebody invited.                     *)
(***************************************************************************)
EXTENDS Sessions, TLC

CONSTANTS c1, c2, c3, c4, ann, bob, eve, none

MCCalls  == {c1, c2, c3, c4}
MCEmails == {ann, bob}
MCNames  == {"shop"}
MCOwners == {[email |-> eve, shop |-> <<"shop", 0>>, role |-> "OWNER"]}

Symmetric == Permutations(MCCalls) \cup Permutations(MCEmails)
=============================================================================
