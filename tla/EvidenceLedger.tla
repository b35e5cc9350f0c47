-------------------------- MODULE EvidenceLedger --------------------------
(***************************************************************************)
(* The evidence ledger: a set of observed facts with content-addressed     *)
(* ids.  A fact is recorded once per channel, a failed attempt to read is  *)
(* a fact too but never a reading.                                         *)
(*                                                                         *)
(* Values are abstract: what a reading says relative to the catalogue      *)
(* ("expected", "foreign"), or a number for a measurement.  A channel      *)
(* stands for the triple source, method, collector of a provenance.        *)
(***************************************************************************)
EXTENDS Naturals

\* How much a channel deserves to be believed, in percent.
ChannelReliability ==
  [lockdown |-> 97, domain |-> 95, catalog |-> 95, registry |-> 92, applications |-> 90,
   probe |-> 85, analytics |-> 72, technician |-> 70, ocr |-> 60,
   capture |-> 90, vision |-> 75]

Channels == DOMAIN ChannelReliability

\* The authority a channel speaks for.
Source ==
  [lockdown |-> "DEVICE_OS", domain |-> "DEVICE_OS", applications |-> "DEVICE_OS",
   probe |-> "DEVICE_OS", catalog |-> "DEVDNA_CATALOG",
   registry |-> "DEVICE_HARDWARE_REGISTRY", analytics |-> "DEVICE_ANALYTICS",
   technician |-> "TECHNICIAN", ocr |-> "TECHNICIAN",
   capture |-> "DEVDNA_CAPTURE_PIPELINE",
   vision |-> "DEVDNA_VISION_MODEL"]

Kinds == {"READING", "SERVICE_RECORD_STATEMENT", "DIAGNOSTIC_EVENT", "COLLECTION_FAILURE"}

\* number is the value of a measurement and 0 elsewhere.
Records ==
  [kind : Kinds, subject : STRING, key : STRING, value : STRING, number : Nat,
   channel : Channels, reliability : 0..100]

\* The content and its provenance; neither the time nor the reliability is in.
evidenceId(r) == <<r.kind, r.subject, r.key, r.value, r.number, r.channel>>

Observation(kind, subject, key, value, number, channel) ==
  [kind |-> kind, subject |-> subject, key |-> key, value |-> value, number |-> number,
   channel |-> channel, reliability |-> ChannelReliability[channel]]

\* A failure tells reliably that the attempt failed.
Failure(subject, collector, reason) ==
  [kind |-> "COLLECTION_FAILURE", subject |-> subject, key |-> collector, value |-> reason,
   number |-> 0, channel |-> "probe", reliability |-> 100]

\* record() of what one collector found: the first record of an id stays.  The
\* records of one collector have different ids.
recordAll(ledger, new) ==
  ledger \cup {r \in new : \A x \in ledger : evidenceId(x) # evidenceId(r)}

forSubject(ledger, subject) == {r \in ledger : r.subject = subject}

failures(ledger, subject) ==
  {r \in forSubject(ledger, subject) : r.kind = "COLLECTION_FAILURE"}

Readings(ledger, subject, key) ==
  {r \in forSubject(ledger, subject) : r.key = key /\ r.kind # "COLLECTION_FAILURE"}

\* Faulty: sorted in the wrong order.
worst(ledger, subject, key) ==
  LET readings == Readings(ledger, subject, key)
  IN  IF readings = {} THEN {}
      ELSE {CHOOSE r \in readings : \A x \in readings : x.reliability >= r.reliability}

\* The most reliable reading, as a set of at most one.  Equally reliable ones
\* come in the order of their ids: one choice for one set of readings.
best(ledger, subject, key) ==
  LET readings == Readings(ledger, subject, key)
  IN  IF readings = {} THEN {}
      ELSE {CHOOSE r \in readings : \A x \in readings : x.reliability <= r.reliability}

Has(ledger, subject, key) == Readings(ledger, subject, key) # {}
Says(ledger, subject, key, value) == \E r \in best(ledger, subject, key) : r.value = value
=============================================================================
