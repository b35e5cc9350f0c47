-------------------------- MODULE MCDeviceWatcher --------------------------
(***************************************************************************)
(* Small instances of DeviceWatcher: two handsets that can be swapped      *)
(* across the bench while a poll is in flight.                             *)
(***************************************************************************)
EXTENDS DeviceWatcher
=============================================================================
