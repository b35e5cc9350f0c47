------------------------- MODULE MCInspectionStore -------------------------
(***************************************************************************)
(* Small instances of InspectionStore: one handset captured in full, or a  *)
(* second time only in part, and evidence of another handset that nothing  *)
(* but an edit can put in the place of the first.                          *)
(***************************************************************************)
EXTENDS InspectionStore, TLC

CONSTANTS d1, d2, full, partial, other

MCDeviceOf == [l \in Ledgers |-> IF l = other THEN d2 ELSE d1]
\* com.apple.disk_usage was not read in the partial capture.
MCSpecOf == [l \in Ledgers |->
  CASE l = full    -> "iPhone 14 Pro, 256 GB"
    [] l = partial -> "iPhone 14 Pro"
    [] l = other   -> "iPhone 12, 64 GB"]
MCRegionOf == [l \in Ledgers |-> IF l = other THEN "Japan" ELSE "United States"]

\* Handlers and ids differ in nothing but their names.
HandlerSymmetry == Permutations(Handlers) \cup Permutations(Ids)
=============================================================================
