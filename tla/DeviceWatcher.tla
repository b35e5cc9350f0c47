--------------------------- MODULE DeviceWatcher ---------------------------
(***************************************************************************)
(* The bridge's view of the USB bus: DeviceWatcher.poll with its awaits,   *)
(* the handsets that come, go and are trusted meanwhile, and the /events   *)
(* socket on which server.ts sends one dashboard a greeting and then every *)
(* change.                                                                 *)
(*                                                                         *)
(* A poll awaits idevice_id, then probes every handset it does not know    *)
(* yet, all at once, and only then touches the device list.  A handset's   *)
(* preview (name, model, iOS) is left out: it is read with the pairing and *)
(* kept as long.                                                           *)
(***************************************************************************)
EXTENDS Naturals, Sequences, FiniteSets, SequencesExt

CONSTANTS
  Handsets,     \* by UDID
  MaxFaults,    \* bound on tool invocations that fail
  MaxFeed       \* bound on frames on their way to the dashboard

\* There is room for the greeting.
ASSUME ConstantsOK == IsFiniteSet(Handsets) /\ MaxFaults \in Nat /\ MaxFeed \in Nat \ {0}

VARIABLES
  attached,     \* handsets on the bus
  trusted,      \* handsets that trust this workstation
  devices,      \* devices[d]: "absent" from the list, or as it is listed
  polling,      \* DeviceWatcher.polling
  stage,        \* the await the poll in flight is at
  found,        \* its listing
  answers,      \* answers[d]: what its probe of d said
  open,         \* the dashboard's socket is open
  feed,         \* frames on their way to the dashboard
  told,         \* the handsets the frames delivered so far amount to
  faults        \* failed tool invocations

usb == <<attached, trusted>>
wires == <<open, feed, told>>
wvars == <<attached, trusted, devices, polling, stage, found, answers, open, feed, told, faults>>

Listed == {d \in Handsets : devices[d] # "absent"}
Frame == [type : {"hello"}, devices : SUBSET Handsets]
           \cup [type : {"device-connected", "device-disconnected"}, device : Handsets]

TypeOK ==
  /\ attached \subseteq Handsets
  /\ trusted \subseteq Handsets
  /\ devices \in [Handsets -> {"absent", "paired", "unpaired"}]
  /\ polling \in BOOLEAN
  /\ stage \in {"none", "listing", "probing"}
  /\ found \subseteq Handsets
  /\ answers \in [Handsets -> {"pending", "paired", "unpaired"}]
  /\ open \in BOOLEAN
  /\ feed \in Seq(Frame) /\ Len(feed) <= MaxFeed
  /\ told \subseteq Handsets
  /\ faults \in 0..MaxFaults

Init ==
  /\ attached \in SUBSET Handsets
  /\ trusted = {}
  /\ devices = [d \in Handsets |-> "absent"]
  /\ polling = FALSE
  /\ stage = "none"
  /\ found = {}
  /\ answers = [d \in Handsets |-> "pending"]
  /\ open = FALSE
  /\ feed = <<>>
  /\ told = {}
  /\ faults = 0

(***************************************************************************)
(* The bus                                                                 *)
(***************************************************************************)

Plug(d) ==
  /\ d \notin attached
  /\ attached' = attached \cup {d}
  /\ UNCHANGED <<trusted, devices, polling, stage, found, answers, wires, faults>>

Unplug(d) ==
  /\ d \in attached
  /\ attached' = attached \ {d}
  /\ UNCHANGED <<trusted, devices, polling, stage, found, answers, wires, faults>>

\* The technician taps Trust; the pairing outlives the cable.
Trust(d) ==
  /\ d \in attached \ trusted
  /\ trusted' = trusted \cup {d}
  /\ UNCHANGED <<attached, devices, polling, stage, found, answers, wires, faults>>

(***************************************************************************)
(* poll()                                                                  *)
(***************************************************************************)

Fault == faults < MaxFaults /\ faults' = faults + 1

\* The timer fires; while a poll is in flight that does nothing.
Poll ==
  /\ ~ polling
  /\ polling' = TRUE
  /\ stage' = "listing"
  /\ UNCHANGED <<usb, devices, found, answers, wires, faults>>

\* listDevices() looks at the output of idevice_id and not at its exit code:
\* a tool that is killed or fails lists what it had printed.
List ==
  /\ stage = "listing"
  /\ \/ found' = attached /\ UNCHANGED faults
     \/ found' \in SUBSET attached /\ Fault
  /\ answers' = [d \in Handsets |-> "pending"]
  /\ stage' = "probing"
  /\ UNCHANGED <<usb, devices, polling, wires>>

\* Faulty: no finally.
ListFailsStuck ==
  /\ stage = "listing"
  /\ Fault
  /\ stage' = "none"
  /\ UNCHANGED <<usb, devices, polling, found, answers, wires>>

\* The tool cannot be run at all: the poll ends with an error event.
ListFails ==
  /\ stage = "listing"
  /\ Fault
  /\ stage' = "none"
  /\ polling' = FALSE
  /\ UNCHANGED <<usb, devices, found, answers, wires>>

\* pairingStatus() of a handset that is not in the list yet.
Probed(d) == devices[d] # "absent" \/ answers[d] # "pending"

Probe(d) ==
  /\ stage = "probing"
  /\ d \in found
  /\ ~ Probed(d)
  /\ \/ /\ answers' = [answers EXCEPT ![d] =
              IF d \in attached \cap trusted THEN "paired" ELSE "unpaired"]
        /\ UNCHANGED faults
     \/ answers' = [answers EXCEPT ![d] = "unpaired"] /\ Fault
  /\ UNCHANGED <<usb, devices, polling, stage, found, wires>>

\* The listing replaces the list; a handset that stays keeps its entry.
Connected == found \ Listed
Disconnected == Listed \ found

Merged == [d \in Handsets |-> IF d \notin found THEN "absent"
                              ELSE IF d \in Listed THEN devices[d] ELSE answers[d]]

Events ==
  LET Event(type) == [d \in Handsets |-> [type |-> type, device |-> d]]
      Each(type, ds) == LET s == SetToSeq(ds)
                        IN  [i \in 1..Cardinality(ds) |-> Event(type)[s[i]]]
  IN Each("device-connected", Connected) \o Each("device-disconnected", Disconnected)

\* broadcast(): to the sockets open now.
Broadcast == feed' = IF open THEN feed \o Events ELSE feed

\* Faulty: the list is updated before the probes have answered.
ApplyUnprobed ==
  /\ stage = "probing"
  /\ devices' = Merged
  /\ Broadcast /\ Len(feed') <= MaxFeed
  /\ stage' = "none"
  /\ polling' = FALSE
  /\ UNCHANGED <<usb, found, answers, open, told, faults>>

Apply ==
  /\ stage = "probing"
  /\ \A d \in found : Probed(d)
  /\ devices' = Merged
  /\ Broadcast /\ Len(feed') <= MaxFeed
  /\ stage' = "none"
  /\ polling' = FALSE
  /\ UNCHANGED <<usb, found, answers, open, told, faults>>

(***************************************************************************)
(* /events                                                                 *)
(***************************************************************************)

\* Faulty: no greeting.
SubscribeUngreeted ==
  /\ ~ open
  /\ open' = TRUE
  /\ feed' = <<>>
  /\ told' = {}
  /\ UNCHANGED <<usb, devices, polling, stage, found, answers, faults>>

\* The upgrade registers the socket and greets it with the list, in one turn.
Subscribe ==
  /\ ~ open
  /\ open' = TRUE
  /\ feed' = <<[type |-> "hello", devices |-> Listed]>>
  /\ told' = {}
  /\ UNCHANGED <<usb, devices, polling, stage, found, answers, faults>>

Tell(known, frame) ==
  CASE frame.type = "hello"               -> frame.devices
    [] frame.type = "device-connected"    -> known \cup {frame.device}
    [] frame.type = "device-disconnected" -> known \ {frame.device}

Deliver ==
  /\ feed # <<>>
  /\ told' = Tell(told, Head(feed))
  /\ feed' = Tail(feed)
  /\ UNCHANGED <<usb, devices, polling, stage, found, answers, open, faults>>

HangUp ==
  /\ open
  /\ open' = FALSE
  /\ feed' = <<>>
  /\ UNCHANGED <<usb, devices, polling, stage, found, answers, told, faults>>

Bus == \E d \in Handsets : Plug(d) \/ Unplug(d) \/ Trust(d)
Watcher == Poll \/ List \/ ListFails \/ (\E d \in Handsets : Probe(d)) \/ Apply

Next == Bus \/ Watcher \/ Subscribe \/ Deliver \/ HangUp

\* The timer keeps firing, every tool ends (execFile has a timeout), and TCP
\* delivers what an open socket was sent.  Nobody has to plug or to trust.
WatcherFairness ==
  /\ WF_wvars(Poll)
  /\ WF_wvars(List \/ ListFails)
  /\ \A d \in Handsets : WF_wvars(Probe(d))
  /\ WF_wvars(Apply)

Spec == Init /\ [][Next]_wvars /\ WatcherFairness /\ WF_wvars(Deliver)

-----------------------------------------------------------------------------
(***************************************************************************)
(* Properties                                                              *)
(***************************************************************************)

\* A dashboard that joins at any moment, takes the greeting and applies every
\* event after it arrives at the bridge's list: no change falls between the
\* greeting and the first event, and none is told twice.
FeedTellsTheList == open => FoldLeft(Tell, told, feed) = Listed

\* Whatever was plugged, unplugged and misread before, once the bus is quiet
\* the list comes to say what is attached and stays so: a failed poll never
\* ends the polling, and a listing that was overtaken is corrected.
ListCatchesUp == \A S \in SUBSET Handsets : <>[](attached = S) => <>[](Listed = S)
=============================================================================
