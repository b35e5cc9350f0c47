-------------------------- MODULE MCBenchDashboard --------------------------
(***************************************************************************)
(* A small instance of BenchDashboard: one handset, plugged or unplugged   *)
(* while the page loads or while two fetches are under way.                *)
(***************************************************************************)
EXTENDS BenchDashboard
=============================================================================
