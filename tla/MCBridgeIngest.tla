--------------------------- MODULE MCBridgeIngest ---------------------------
(***************************************************************************)
(* Small instances of BridgeIngest.  Two copies of a request can be in     *)
(* service together, and the clock runs past the expiry of a nonce and the *)
(* end of the window of a request stamped by a fast clock.                 *)
(***************************************************************************)
EXTENDS BridgeIngest, TLC

\* Slots differ in nothing but their name; sound for invariants only, so the
\* runs with a temporal property do not use it.
RequestSymmetry == Permutations(Requests)
=============================================================================
