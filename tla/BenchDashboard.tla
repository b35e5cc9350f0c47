--------------------------- MODULE BenchDashboard ---------------------------
(***************************************************************************)
(* The device list of the inspect page on top of DeviceWatcher.  The page  *)
(* ignores what the frames say: a change only makes it fetch the list      *)
(* again, and fetches are not sequenced.  It fetches once when it loads    *)
(* and opens its socket when that fetch has succeeded.                     *)
(*                                                                         *)
(* The bridge stays up; a page that lost it shows the pairing form, which  *)
(* is out of this module.                                                  *)
(***************************************************************************)
EXTENDS DeviceWatcher

CONSTANTS
  Fetches,      \* calls of refresh() that can be under way together
  None

VARIABLES
  loaded,       \* `paired` of the page: some refresh() has succeeded
  fetches,      \* fetches[f]: the call of refresh() in slot f
  shown         \* the handsets on the page, or None before the first answer

dvars == <<wvars, loaded, fetches, shown>>

Free == [stage |-> "free", devices |-> {}]
Fetch == [stage : {"free", "asked", "answered"}, devices : SUBSET Handsets]

DashboardTypeOK ==
  /\ TypeOK
  /\ loaded \in BOOLEAN
  /\ fetches \in [Fetches -> Fetch]
  /\ shown \in SUBSET Handsets \cup {None}

\* refresh(): ask for /health and /devices.
Ask(f) == fetches[f] = Free /\ fetches' = [fetches EXCEPT ![f].stage = "asked"]

DashboardInit ==
  /\ Init
  /\ loaded = FALSE
  /\ \E f \in Fetches : fetches = [g \in Fetches |-> IF g = f THEN [Free EXCEPT !.stage = "asked"]
                                                              ELSE Free]
  /\ shown = None

PressRefresh ==
  /\ \E f \in Fetches : Ask(f)
  /\ UNCHANGED <<wvars, loaded, shown>>

\* The bridge answers with the list it has at that moment.
Serve(f) ==
  /\ fetches[f].stage = "asked"
  /\ fetches' = [fetches EXCEPT ![f] = [stage |-> "answered", devices |-> Listed]]
  /\ UNCHANGED <<wvars, loaded, shown>>

\* Both answers are in: setDevices(), in whatever order the calls get here.
Show(f) ==
  /\ fetches[f].stage = "answered"
  /\ shown' = fetches[f].devices
  /\ loaded' = TRUE
  /\ fetches' = [fetches EXCEPT ![f] = Free]
  /\ UNCHANGED wvars

\* The effect that depends on `paired` opens the socket.
OpenSocket ==
  /\ loaded
  /\ Subscribe
  /\ UNCHANGED <<loaded, fetches, shown>>

\* A frame: the greeting is ignored, a change calls refresh().
Receive ==
  /\ Deliver
  /\ IF Head(feed).type = "hello" THEN UNCHANGED fetches ELSE \E f \in Fetches : Ask(f)
  /\ UNCHANGED <<loaded, shown>>

DashboardNext ==
  \/ (Bus \/ Watcher) /\ UNCHANGED <<loaded, fetches, shown>>
  \/ \E f \in Fetches : Serve(f) \/ Show(f)
  \/ OpenSocket \/ Receive \/ PressRefresh

\* Requests over loopback are answered and answers are shown.
DashboardFairness ==
  /\ WF_dvars(Poll /\ UNCHANGED <<loaded, fetches, shown>>)
  /\ WF_dvars((List \/ ListFails) /\ UNCHANGED <<loaded, fetches, shown>>)
  /\ \A d \in Handsets : WF_dvars(Probe(d) /\ UNCHANGED <<loaded, fetches, shown>>)
  /\ WF_dvars(Apply /\ UNCHANGED <<loaded, fetches, shown>>)
  /\ \A f \in Fetches : WF_dvars(Serve(f)) /\ WF_dvars(Show(f))
  /\ WF_dvars(OpenSocket) /\ WF_dvars(Receive)

DashboardSpec == DashboardInit /\ [][DashboardNext]_dvars /\ DashboardFairness

-----------------------------------------------------------------------------
(***************************************************************************)
(* Properties                                                              *)
(***************************************************************************)

\* "Live device attach/detach so a technician never has to hit reload while
\* swapping handsets across the bench" (inspect-flow.tsx): once the bus is
\* quiet, the page comes to show what is attached, Refresh pressed or not.
NeverHasToReload == \A S \in SUBSET Handsets : <>[](attached = S) => <>[](shown = S)
=============================================================================
