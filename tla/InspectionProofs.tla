-------------------------- MODULE InspectionProofs --------------------------
(***************************************************************************)
(* The safety of an inspection, for every catalogue and everything a       *)
(* capture may hold.                                                       *)
(*                                                                         *)
(* IInv, the inductive invariant, is about the ledger: Sound gives every   *)
(* record its reliability, SingleIn and ReadBy say that the readings of    *)
(* one value are one record of one subject, Seeded that the reference data *)
(* stands beside the model, and a report is that of the final ledger.      *)
(* What a report says then follows from what it was computed of: lemmas on *)
(* the five modules, each for any sound ledger, then on the trust engine   *)
(* for any five results within their scales.                               *)
(***************************************************************************)
EXTENDS Inspection, ConfidenceProofs

-----------------------------------------------------------------------------
(***************************************************************************)
(* The ledger                                                              *)
(***************************************************************************)

\* A finite set of records, each believed as far as its channel; a failure is
\* certain, and named after what failed.
Sound(known) ==
  /\ IsFiniteSet(known)
  /\ known \subseteq Records
  /\ \A r \in known :
       \/ r.kind = "COLLECTION_FAILURE" /\ r.reliability = 100 /\ r.key \in CollectorNames
       \/ r.kind # "COLLECTION_FAILURE" /\ r.reliability = ChannelReliability[r.channel]

\* The keys that have one value in a capture.
Single == DOMAIN SoleReader \ Repeatable

\* Two records of such a key are one.
SingleIn(known) == \A x, y \in known : x.key \in Single /\ y.key = x.key => x = y

\* A key with a sole reader was recorded by it, of the subject it reads.
ReadBy(known, last) ==
  \A r \in known : r.key \in DOMAIN SoleReader =>
    /\ r.subject = SoleReader[r.key][2]
    /\ \E n \in 1..last : Order[n] = SoleReader[r.key][1]

\* A specified model has its board identifiers in the ledger.
Seeded(known) ==
  ProductType(known) \cap Specified # {} =>
    \E r \in known : /\ r.kind # "COLLECTION_FAILURE" /\ r.value = "seeded"
                     /\ r.subject = "DEVICE" /\ r.key = "ExpectedBoardIds"

IInv ==
  /\ Sound(ledger)
  /\ stage \in 1..(Len(Order) + 1)
  /\ SingleIn(ledger)
  /\ ReadBy(ledger, stage - 1)
  /\ stage > 2 => Seeded(ledger)
  /\ report \in {{}, {evaluate(ledger)}}
  /\ report # {} => stage > Len(Order)

LEMMA ChannelsAreReliable ==
  ASSUME NEW channel \in Channels
  PROVE  ChannelReliability[channel] \in 60..97
BY DEF Channels, ChannelReliability

LEMMA SoundRecords ==
  ASSUME NEW known, Sound(known), NEW r \in known
  PROVE  /\ r \in Records /\ r.reliability \in 60..100
         /\ r.kind # "COLLECTION_FAILURE" => r.reliability \in 60..97
<1>1. r \in Records /\ r.channel \in Channels
  BY DEF Sound, Records
<1>2. ChannelReliability[r.channel] \in 60..97
  BY <1>1, ChannelsAreReliable
<1>. QED
  BY <1>1, <1>2 DEF Sound

\* A record is believed as far as its id says: with the id goes the reliability.
LEMMA IdsAreUnique ==
  ASSUME NEW known, Sound(known), NEW x \in known, NEW y \in known, evidenceId(x) = evidenceId(y)
  PROVE  x = y
<1>1. x \in Records /\ y \in Records
  BY SoundRecords
<1>2. /\ x.kind = y.kind /\ x.subject = y.subject /\ x.key = y.key /\ x.value = y.value
      /\ x.number = y.number /\ x.channel = y.channel
  BY DEF evidenceId
<1>3. x.reliability = y.reliability
  BY <1>2 DEF Sound
<1>. QED
  BY <1>1, <1>2, <1>3 DEF Records

-----------------------------------------------------------------------------
(***************************************************************************)
(* The collectors                                                          *)
(***************************************************************************)

LEMMA OrderOfCollectors ==
  /\ Len(Order) = 9
  /\ Order[1] = "lockdown" /\ Order[2] = "expectations"
  /\ \A m, n \in 1..9 : Order[m] = Order[n] => m = n
BY DEF Order

LEMMA RecordAllAdds ==
  ASSUME NEW known, NEW new
  PROVE  recordAll(known, new) \subseteq known \cup new /\ known \subseteq recordAll(known, new)
BY DEF recordAll

LEMMA UnionIsSound ==
  ASSUME NEW a, Sound(a), NEW b, Sound(b)
  PROVE  Sound(a \cup b)
BY FS_Union DEF Sound

LEMMA PartIsSound ==
  ASSUME NEW a, Sound(a), NEW b \in SUBSET a
  PROVE  Sound(b)
BY FS_Subset DEF Sound

\* What a collector may append.
Batch(collector, new) ==
  /\ Sound(new)
  /\ SingleIn(new)
  /\ \A r \in new : r.key \in DOMAIN SoleReader => SoleReader[r.key] = <<collector, r.subject>>

\* Once the model is known it stays known.
LEMMA ModelIsFixed ==
  ASSUME NEW known, NEW new, \A r \in new : r.key # "ProductType"
  PROVE  ProductType(recordAll(known, new)) = ProductType(known)
<1>1. Readings(recordAll(known, new), "DEVICE", "ProductType") = Readings(known, "DEVICE", "ProductType")
  BY DEF Readings, forSubject, recordAll
<1>2. best(recordAll(known, new), "DEVICE", "ProductType") = best(known, "DEVICE", "ProductType")
  BY <1>1 DEF best
<1>. QED
  BY <1>2 DEF ProductType

LEMMA CollectedKeepsIInv ==
  ASSUME IInv, NEW collector, NEW new, Batch(collector, new), Collected(collector, new),
         stage = 2 => Seeded(ledger')
  PROVE  IInv'
<1>1. /\ stage \in 1..9 /\ Order[stage] = collector /\ stage' = stage + 1
      /\ ledger' = recordAll(ledger, new) /\ report' = report /\ report = {}
  BY OrderOfCollectors DEF Collected, IInv
<1>2. ledger' \subseteq ledger \cup new /\ ledger \subseteq ledger'
  BY <1>1, RecordAllAdds
<1>3. Sound(ledger')
  BY <1>2, UnionIsSound, PartIsSound DEF IInv, Batch
\* No record of a key this collector alone reads is in the ledger yet.
<1>4. ASSUME NEW x \in ledger, NEW y \in new, x.key \in DOMAIN SoleReader, y.key = x.key
      PROVE  FALSE
  <2>1. PICK n \in 1..(stage - 1) : Order[n] = SoleReader[x.key][1]
    BY <1>4 DEF IInv, ReadBy
  <2>2. SoleReader[y.key][1] = collector
    BY <1>4 DEF Batch
  <2>3. Order[n] = Order[stage] /\ n \in 1..9
    BY <1>1, <1>4, <2>1, <2>2
  <2>4. n = stage
    BY <1>1, <2>3, OrderOfCollectors
  <2>. QED
    BY <1>1, <2>1, <2>4
<1>5. SingleIn(ledger')
  <2>. SUFFICES ASSUME NEW x \in ledger', NEW y \in ledger', x.key \in Single, y.key = x.key
                PROVE  x = y
    BY DEF SingleIn
  <2>1. x.key \in DOMAIN SoleReader
    BY DEF Single
  <2>2. (x \in ledger /\ y \in ledger) \/ (x \in new /\ y \in new)
    BY <1>2, <1>4, <2>1
  <2>. QED
    BY <2>2 DEF IInv, Batch, SingleIn
<1>6. ReadBy(ledger', stage' - 1)
  <2>. SUFFICES ASSUME NEW r \in ledger', r.key \in DOMAIN SoleReader
                PROVE  /\ r.subject = SoleReader[r.key][2]
                       /\ \E n \in 1..stage : Order[n] = SoleReader[r.key][1]
    <3>1. stage' - 1 = stage
      BY <1>1
    <3>. QED
      BY <3>1 DEF ReadBy
  <2>1. CASE r \in ledger
    <3>1. r.subject = SoleReader[r.key][2] /\ \E n \in 1..(stage - 1) : Order[n] = SoleReader[r.key][1]
      BY <2>1 DEF IInv, ReadBy
    <3>2. 1..(stage - 1) \subseteq 1..stage
      BY <1>1
    <3>. QED
      BY <3>1, <3>2
  <2>2. CASE r \in new
    <3>1. SoleReader[r.key] = <<collector, r.subject>>
      BY <2>2 DEF Batch
    <3>2. stage \in 1..stage
      BY <1>1
    <3>. QED
      BY <1>1, <3>1, <3>2
  <2>. QED
    BY <1>2, <2>1, <2>2
<1>7. stage' > 2 => Seeded(ledger')
  <2>. SUFFICES ASSUME stage > 2 PROVE Seeded(ledger')
    BY <1>1
  <2>1. ASSUME NEW r \in new PROVE r.key # "ProductType"
    <3>. SUFFICES ASSUME r.key = "ProductType" PROVE FALSE
      OBVIOUS
    <3>1. "ProductType" \in DOMAIN SoleReader /\ SoleReader["ProductType"][1] = "lockdown"
      BY DEF SoleReader
    <3>2. collector = "lockdown"
      BY <3>1 DEF Batch
    <3>3. stage = 1
      BY <1>1, <3>2, OrderOfCollectors
    <3>. QED
      BY <3>3
  <2>2. ProductType(ledger') = ProductType(ledger)
    BY <1>1, <2>1, ModelIsFixed
  <2>3. Seeded(ledger)
    BY DEF IInv
  <2>. QED
    BY <1>2, <2>2, <2>3 DEF Seeded
<1>8. stage' \in 1..(Len(Order) + 1)
  BY <1>1, OrderOfCollectors
<1>. QED
  BY <1>1, <1>3, <1>5, <1>6, <1>7, <1>8 DEF IInv

\* What is found in a capture may be appended.
LEMMA FoundIsBatch ==
  ASSUME NEW c \in {"lockdown", "domains", "registry", "analytics", "inventory", "services",
                    "attestation"},
         NEW new \in Batches[c]
  PROVE  Batch(c, new)
<1>1. /\ new \subseteq Records /\ IsFiniteSet(new) /\ Consistent(new)
      /\ \A r \in new : Admissible(c, r)
  BY BatchesAssumption
<1>2. Sound(new)
  <2>. SUFFICES ASSUME NEW r \in new
                PROVE  r.kind # "COLLECTION_FAILURE" /\ r.reliability = ChannelReliability[r.channel]
    BY <1>1 DEF Sound
  <2>. QED
    BY <1>1 DEF Admissible, KindsOf
<1>3. SingleIn(new)
  <2>. SUFFICES ASSUME NEW x \in new, NEW y \in new, x.key \in Single, y.key = x.key
                PROVE  x = y
    BY DEF SingleIn
  <2>1. x.key \in DOMAIN SoleReader /\ x.key \notin Repeatable
    BY DEF Single
  <2>2. SoleReader[x.key] = <<c, x.subject>> /\ SoleReader[y.key] = <<c, y.subject>>
    BY <1>1, <2>1 DEF Admissible
  <2>3. x.subject = y.subject
    BY <2>2
  <2>4. c # "analytics" /\ c # "attestation"
    BY <2>1, <2>2 DEF SoleReader
  <2>5. x.kind = "READING" /\ y.kind = "READING"
    BY <1>1, <2>4 DEF Admissible, KindsOf
  <2>6. Slot(x) = Slot(y)
    BY <2>1, <2>3, <2>5 DEF Slot
  <2>. QED
    BY <1>1, <2>6 DEF Consistent
<1>. QED
  BY <1>1, <1>2, <1>3 DEF Batch, Admissible

LEMMA ObservationIsSound ==
  ASSUME NEW kind \in Kinds \ {"COLLECTION_FAILURE"}, NEW subject \in STRING, NEW key \in STRING,
         NEW value \in STRING, NEW number \in Nat, NEW channel \in Channels
  PROVE  Sound({Observation(kind, subject, key, value, number, channel)})
<1>. DEFINE r == Observation(kind, subject, key, value, number, channel)
<1>1. r.reliability \in 0..100 /\ r.kind # "COLLECTION_FAILURE"
      /\ r.reliability = ChannelReliability[r.channel]
  BY ChannelsAreReliable DEF Observation
<1>2. r \in Records
  BY <1>1 DEF Observation, Records
<1>3. IsFiniteSet({r})
  BY FS_Singleton
<1>4. Sound({r})
  <2>. HIDE DEF r
  <2>. QED
    BY <1>1, <1>2, <1>3 DEF Sound
<1>. QED
  BY <1>4

\* The count of the applications, and whether the relay answered.
LEMMA WithObservation ==
  ASSUME NEW c \in {"inventory", "services"}, NEW new, Batch(c, new),
         NEW key \in {"InstalledAppCount", "DiagnosticsRelayResponded"},
         NEW value \in STRING, NEW number \in Nat, NEW channel \in Channels
  PROVE  Batch(c, new \cup {Observation("READING", "SECURITY_STATE", key, value, number, channel)})
<1>. DEFINE r == Observation("READING", "SECURITY_STATE", key, value, number, channel)
<1>1. Sound({r})
  BY ObservationIsSound, WordsAssumption DEF Kinds
<1>2. r.key = key /\ key \notin DOMAIN SoleReader
  BY DEF Observation, SoleReader
<1>. HIDE DEF r
<1>3. Sound(new \cup {r})
  BY <1>1, UnionIsSound DEF Batch
<1>4. SingleIn(new \cup {r})
  BY <1>2 DEF Batch, SingleIn, Single
<1>5. \A x \in new \cup {r} : x.key \in DOMAIN SoleReader => SoleReader[x.key] = <<c, x.subject>>
  BY <1>2 DEF Batch
<1>. QED
  BY <1>3, <1>4, <1>5 DEF Batch, r

\* What the catalogue knows of a device has its type.
LEMMA ResolvedDevice ==
  ASSUME NEW known
  PROVE  resolveDevice(known) \in Devices
<1>1. \A modern \in BOOLEAN : Synthetic(modern) \in Devices
  BY DEF Synthetic, Devices
<1>2. ASSUME ProductType(known) \cap DOMAIN Catalogue # {}
      PROVE  (CHOOSE p \in ProductType(known) : TRUE) \in DOMAIN Catalogue
  <2>1. PICK p \in ProductType(known) : p \in DOMAIN Catalogue
    BY <1>2
  <2>2. PICK readings : best(known, "DEVICE", "ProductType") = {readings}
    BY <2>1 DEF ProductType, best
  <2>3. ProductType(known) = {p}
    BY <2>1, <2>2 DEF ProductType
  <2>. QED
    BY <2>1, <2>3
<1>. QED
  BY <1>1, <1>2, CatalogueAssumption DEF resolveDevice

LEMMA ExpectationIsSound ==
  ASSUME NEW subject \in STRING, NEW key \in STRING, NEW number \in Nat
  PROVE  /\ Sound({expectation(subject, key, number)})
         /\ expectation(subject, key, number).key = key
         /\ expectation(subject, key, number).subject = subject
         /\ expectation(subject, key, number).value = "seeded"
         /\ expectation(subject, key, number).kind = "READING"
<1>1. "catalog" \in Channels /\ "READING" \in Kinds
  BY DEF Channels, ChannelReliability, Kinds
<1>2. Sound({expectation(subject, key, number)})
  BY <1>1, ObservationIsSound, WordsAssumption DEF expectation
<1>. QED
  BY <1>2 DEF expectation, Observation

LEMMA ExpectationsAreBatch ==
  ASSUME NEW known
  PROVE  Batch("expectations", Expectations(known))
<1>. DEFINE life == resolveDevice(known).ratedCycleLife
            boards == expectation("DEVICE", "ExpectedBoardIds", 0)
            all == {expectation("DEVICE", "ExpectedBoardIds", 0)}
                   \cup {expectation("DEVICE", "ExpectedCapacitiesGb", 0)}
                   \cup {expectation("DEVICE", "ExpectedCpuArchitecture", 0)}
                   \cup {expectation("DEVICE", "ExpectedSerialFormats", 0)}
                   \cup {expectation("DEVICE", "ExpectedUdidFormat", 0)}
                   \cup {expectation("BATTERY", "ExpectedDesignCapacity", 0)}
                   \cup {expectation("BATTERY", "RatedCycleLife", life)}
                   \cup {expectation("SYSTEM_SOFTWARE", "MaxSupportedIosMajor", 0)}
                   \cup {expectation("DEVICE", "ExpectedReleaseYear", 0)}
<1>1. Expectations(known) \subseteq all
  BY DEF Expectations, SpecifiedKeys
<1>2. life \in Nat
  BY ResolvedDevice DEF Devices
<1>. HIDE DEF life
<1>3. Sound(all)
  <2>1. \A subject, key \in STRING : Sound({expectation(subject, key, 0)})
    BY ExpectationIsSound
  <2>2. Sound({expectation("BATTERY", "RatedCycleLife", life)})
    BY <1>2, ExpectationIsSound, WordsAssumption
  <2>. QED
    BY <2>1, <2>2, UnionIsSound, WordsAssumption DEF SpecifiedKeys
<1>4. \A r \in all : r = boards \/ r.key \notin DOMAIN SoleReader
  BY DEF SoleReader, expectation, Observation
<1>5. boards.key = "ExpectedBoardIds" /\ boards.subject = "DEVICE"
  BY DEF expectation, Observation
<1>. HIDE DEF all, boards
<1>6. Sound(Expectations(known))
  BY <1>1, <1>3, PartIsSound
<1>7. SingleIn(Expectations(known))
  BY <1>1, <1>4 DEF SingleIn, Single
<1>8. \A r \in all : r.key \in DOMAIN SoleReader => SoleReader[r.key] = <<"expectations", r.subject>>
  BY <1>4, <1>5 DEF SoleReader
<1>. QED
  BY <1>1, <1>6, <1>7, <1>8 DEF Batch

LEMMA FailuresAreBatch ==
  ASSUME NEW errors \in SUBSET Failing
  PROVE  Batch("failures", {Failure(COLLECTOR_SUBJECTS(e[1]), e[1], e[2]) : e \in errors})
<1>. DEFINE f == [e \in errors |-> Failure(COLLECTOR_SUBJECTS(e[1]), e[1], e[2])]
            new == {f[e] : e \in errors}
<1>1. new = {Failure(COLLECTOR_SUBJECTS(e[1]), e[1], e[2]) : e \in errors}
  OBVIOUS
<1>2. IsFiniteSet(new)
  <2>1. IsFiniteSet(errors)
    BY FailingAssumption, FS_Subset
  <2>. HIDE DEF f
  <2>. QED
    BY <2>1, ImageIsFinite
<1>3. ASSUME NEW r \in new
      PROVE  /\ r.kind = "COLLECTION_FAILURE" /\ r.reliability = 100 /\ r.key \in CollectorNames
             /\ r \in Records
  <2>1. PICK e \in errors : r = Failure(COLLECTOR_SUBJECTS(e[1]), e[1], e[2])
    OBVIOUS
  <2>2. e[1] \in CollectorNames /\ e[2] \in STRING
    BY FailingAssumption
  <2>3. e[1] \in STRING /\ COLLECTOR_SUBJECTS(e[1]) \in {"BATTERY", "SECURITY_STATE", "DEVICE"}
    <3>. DEFINE c == e[1]
    <3>1. c \in CollectorNames
      BY <2>2
    <3>. HIDE DEF c
    <3>2. c \in STRING
      BY <3>1, WordsAssumption
    <3>3. COLLECTOR_SUBJECTS(c) \in {"BATTERY", "SECURITY_STATE", "DEVICE"}
      BY DEF COLLECTOR_SUBJECTS
    <3>. QED
      BY <3>2, <3>3 DEF c
  <2>4. "COLLECTION_FAILURE" \in Kinds /\ "probe" \in Channels
    BY DEF Kinds, Channels, ChannelReliability
  <2>5. COLLECTOR_SUBJECTS(e[1]) \in STRING
    BY <2>3, WordsAssumption
  <2>6. \A s, k, v \in STRING : Failure(s, k, v) \in Records
    BY <2>4 DEF Failure, Records
  <2>7. r \in Records
    BY <2>1, <2>2, <2>3, <2>5, <2>6, Zenon
  <2>. QED
    BY <2>1, <2>2, <2>7 DEF Failure
<1>. HIDE DEF new
<1>4. \A r \in new : r.key \notin DOMAIN SoleReader
  BY <1>3 DEF CollectorNames, SoleReader
<1>. QED
  BY <1>1, <1>2, <1>3, <1>4 DEF Batch, Sound, SingleIn, Single

\* Of the batches, only the second seeds.
LEMMA BatchKeepsIInv ==
  ASSUME IInv, NEW c \in {"lockdown", "domains", "registry", "analytics", "inventory", "services",
                          "attestation", "failures"},
         NEW new, Batch(c, new), Collected(c, new)
  PROVE  IInv'
<1>1. stage # 2
  BY OrderOfCollectors DEF Collected
<1>. QED
  BY <1>1, CollectedKeepsIInv

LEMMA ExpectationsKeepIInv ==
  ASSUME IInv, collectCatalogExpectations
  PROVE  IInv'
<1>. DEFINE new == Expectations(ledger)
            boards == expectation("DEVICE", "ExpectedBoardIds", 0)
<1>1. Collected("expectations", new) /\ Batch("expectations", new)
  BY ExpectationsAreBatch DEF collectCatalogExpectations
<1>2. ledger' = recordAll(ledger, new)
  BY <1>1 DEF Collected
<1>3. stage = 2
  <2>1. stage \in 1..9 /\ Order[stage] = "expectations"
    BY <1>1, OrderOfCollectors DEF Collected, IInv
  <2>. QED
    BY <2>1, OrderOfCollectors
<1>4. \A r \in new : r.key # "ProductType"
  BY DEF Expectations, SpecifiedKeys, expectation, Observation
<1>5. ProductType(ledger') = ProductType(ledger)
  <2>. HIDE DEF new
  <2>. QED
    BY <1>2, <1>4, ModelIsFixed
<1>6. ASSUME ProductType(ledger) \cap Specified # {} PROVE boards \in ledger'
  <2>1. boards \in new
    BY <1>6 DEF Expectations, SpecifiedKeys
  <2>2. ASSUME NEW x \in ledger PROVE evidenceId(x) # evidenceId(boards)
    <3>1. boards.key = "ExpectedBoardIds" /\ boards.key \in DOMAIN SoleReader
          /\ SoleReader[boards.key][1] = "expectations"
      BY DEF expectation, Observation, SoleReader
    <3>2. SUFFICES ASSUME x.key = boards.key PROVE FALSE
      BY DEF evidenceId
    <3>3. PICK n \in 1..(stage - 1) : Order[n] = "expectations"
      BY <3>1, <3>2 DEF IInv, ReadBy
    <3>. QED
      BY <1>3, <3>3, OrderOfCollectors
  <2>. HIDE DEF new, boards
  <2>. QED
    BY <1>2, <2>1, <2>2 DEF recordAll
<1>7. Seeded(ledger')
  <2>1. boards.kind # "COLLECTION_FAILURE" /\ boards.value = "seeded"
        /\ boards.subject = "DEVICE" /\ boards.key = "ExpectedBoardIds"
    BY DEF expectation, Observation
  <2>. HIDE DEF boards
  <2>. QED
    BY <1>5, <1>6, <2>1 DEF Seeded
<1>. HIDE DEF new
<1>. QED
  BY <1>1, <1>7, CollectedKeepsIInv

LEMMA NextKeepsIInv ==
  ASSUME IInv, [Next]_vars
  PROVE  IInv'
<1>1. CASE collectLockdown
  BY <1>1, FoundIsBatch, BatchKeepsIInv DEF collectLockdown
<1>2. CASE collectCatalogExpectations
  BY <1>2, ExpectationsKeepIInv
<1>3. CASE collectDomains
  BY <1>3, FoundIsBatch, BatchKeepsIInv DEF collectDomains
<1>4. CASE collectBatteryRegistry
  BY <1>4, FoundIsBatch, BatchKeepsIInv DEF collectBatteryRegistry
<1>5. CASE collectAnalytics
  BY <1>5, FoundIsBatch, BatchKeepsIInv DEF collectAnalytics
<1>6. CASE collectSoftwareInventory
  <2>1. PICK found \in Batches["inventory"] :
          Collected("inventory",
            found \cup {Observation("READING", "SECURITY_STATE", "InstalledAppCount", "",
                                   Cardinality(found), "applications")})
    BY <1>6 DEF collectSoftwareInventory
  <2>2. Batch("inventory", found) /\ Cardinality(found) \in Nat
    BY FoundIsBatch, FS_CardinalityType DEF Batch, Sound
  <2>3. "applications" \in Channels /\ "" \in STRING
    BY WordsAssumption DEF Channels, ChannelReliability
  <2>. DEFINE new == found \cup {Observation("READING", "SECURITY_STATE", "InstalledAppCount", "",
                                            Cardinality(found), "applications")}
  <2>4. Batch("inventory", new)
    BY <2>2, <2>3, WithObservation
  <2>5. Collected("inventory", new)
    BY <2>1
  <2>. HIDE DEF new
  <2>. QED
    BY <2>4, <2>5, BatchKeepsIInv
<1>7. CASE collectServiceAvailability
  <2>1. PICK found \in Batches["services"], answered \in {"true", "false"} :
          Collected("services",
            found \cup {Observation("READING", "SECURITY_STATE", "DiagnosticsRelayResponded",
                                   answered, 0, "probe")})
    BY <1>7 DEF collectServiceAvailability
  <2>2. Batch("services", found)
    BY FoundIsBatch
  <2>3. "probe" \in Channels /\ answered \in STRING
    BY WordsAssumption DEF Channels, ChannelReliability
  <2>. DEFINE new == found \cup {Observation("READING", "SECURITY_STATE", "DiagnosticsRelayResponded",
                                            answered, 0, "probe")}
  <2>4. Batch("services", new)
    BY <2>2, <2>3, WithObservation
  <2>5. Collected("services", new)
    BY <2>1
  <2>. HIDE DEF new
  <2>. QED
    BY <2>4, <2>5, BatchKeepsIInv
<1>8. CASE collectAttestation
  BY <1>8, FoundIsBatch, BatchKeepsIInv DEF collectAttestation
<1>9. CASE collectFailures
  BY <1>9, FailuresAreBatch, BatchKeepsIInv DEF collectFailures
<1>10. CASE Evaluate
  <2>1. stage > Len(Order) /\ report' = {evaluate(ledger)} /\ UNCHANGED <<ledger, stage>>
    BY <1>10 DEF Evaluate
  <2>. QED
    BY <2>1 DEF IInv, Sound, SingleIn, ReadBy, Seeded
<1>11. CASE UNCHANGED vars
  BY <1>11 DEF vars, IInv, Sound, SingleIn, ReadBy, Seeded
<1>. QED
  BY <1>1, <1>2, <1>3, <1>4, <1>5, <1>6, <1>7, <1>8, <1>9, <1>10, <1>11 DEF Next

\* What is in the ledger, where it came from, and that a report is that of the
\* final ledger.
THEOREM Invariance == Spec => []IInv
<1>1. Init => IInv
  <2>. SUFFICES ASSUME Init PROVE IInv
    OBVIOUS
  <2>1. ledger = {} /\ stage = 1 /\ report = {}
    BY DEF Init
  <2>2. Sound(ledger)
    BY <2>1, FS_EmptySet DEF Sound
  <2>. QED
    BY <2>1, <2>2, OrderOfCollectors DEF IInv, SingleIn, ReadBy
<1>. QED
  BY <1>1, NextKeepsIInv, PTL DEF Spec

-----------------------------------------------------------------------------
(***************************************************************************)
(* What the audit asks for                                                 *)
(***************************************************************************)

\* What the rules of the modules are made of, and what they conclude.
Directions == {"SUPPORTS_POSITIVE", "SUPPORTS_NEGATIVE"}
Weights == 25..100
Strengths == 60..100
Believable == 3600..One

\* A set named by its members is finite.
LEMMA ThreeAreFinite ==
  ASSUME NEW a, NEW b, NEW c
  PROVE  IsFiniteSet({a} \cup {b} \cup {c})
BY FS_Singleton, FS_Union

LEMMA TwoMoreAreFinite ==
  ASSUME NEW S, IsFiniteSet(S), NEW a, NEW b
  PROVE  IsFiniteSet(S \cup {a} \cup {b})
BY FS_Singleton, FS_Union

LEMMA ThreeMoreAreFinite ==
  ASSUME NEW S, IsFiniteSet(S), NEW a, NEW b, NEW c
  PROVE  IsFiniteSet(S \cup {a} \cup {b} \cup {c})
<1>1. IsFiniteSet(S \cup {a} \cup {b})
  BY TwoMoreAreFinite
<1>. QED
  BY <1>1, FS_Singleton, FS_Union

LEMMA WeightIsNatural == \A w \in Weights : w \in Nat /\ 25 <= w
BY DEF Weights

LEMMA BelievableIsShare ==
  \A c \in Believable : c \in Nat /\ 3600 <= c /\ c \in 0..One /\ c # 0
<1>. SUFFICES ASSUME NEW c \in Believable
              PROVE  c \in Nat /\ 3600 <= c /\ c \in 0..One /\ c # 0
  OBVIOUS
<1>. QED
  BY OneIs DEF Believable

LEMMA PositiveIsShare == \A x \in 1..One : x \in Nat /\ x # 0 /\ x > 0 /\ x \in 0..One
<1>. SUFFICES ASSUME NEW x \in 1..One PROVE x \in Nat /\ x # 0 /\ x > 0 /\ x \in 0..One
  OBVIOUS
<1>. QED
  BY OneIs

LEMMA ShareIsPositive == \A x \in 0..One : x \in Nat /\ (3600 <= x + 4 => x \in 1..One)
BY OneIs

LEMMA FloorsInUse ==
  0 \in 0..One /\ 7500 \in 0..One /\ 2500 \in 1..One /\ 3000 \in 1..One /\ One \in Nat
BY OneIs

LEMMA WeightsInUse ==
  /\ 25 \in Weights /\ 30 \in Weights /\ 35 \in Weights /\ 40 \in Weights /\ 45 \in Weights
  /\ 50 \in Weights /\ 55 \in Weights /\ 60 \in Weights /\ 65 \in Weights /\ 70 \in Weights
  /\ 75 \in Weights /\ 80 \in Weights /\ 85 \in Weights /\ 90 \in Weights /\ 95 \in Weights
BY DEF Weights

LEMMA StrengthsInUse ==
  /\ 60 \in Strengths /\ 70 \in Strengths /\ 75 \in Strengths /\ 80 \in Strengths
  /\ 85 \in Strengths /\ 88 \in Strengths /\ 90 \in Strengths /\ 95 \in Strengths /\ 98 \in Strengths
BY DEF Strengths

LEMMA DirectionsInUse == "SUPPORTS_POSITIVE" \in Directions /\ "SUPPORTS_NEGATIVE" \in Directions
BY DEF Directions

\* An inference that cites the ledger and weighs something.
Grounded(known, i) ==
  /\ i.evidence # {} /\ i.evidence \subseteq known
  /\ i.direction \in Directions
  /\ i.weight \in Weights
  /\ i.confidence \in Believable

AllGrounded(known, inferences) ==
  IsFiniteSet(inferences) /\ \A i \in inferences : Grounded(known, i)

\* A verdict that rests on inferences of its module.
Rests(verdict, inferences) ==
  /\ verdict.confidence \in 0..One
  /\ verdict.determined => verdict.inferences # {} /\ verdict.confidence > 0
  /\ verdict.inferences \subseteq inferences
  /\ verdict.evidence = UNION {i.evidence : i \in verdict.inferences}

\* A finding that has the basis it claims.
Based(known, finding) ==
  /\ finding.evidence \subseteq known
  /\ finding.basis = "EVIDENCE" => finding.evidence # {} \/ finding.inferences # {}
  /\ finding.basis = "ABSENCE" => finding.evidence = {} /\ finding.inferences = {}

Accountable(known, result) ==
  /\ AllGrounded(known, result.inferences)
  /\ \A v \in result.verdicts : Rests(v, result.inferences)
  /\ \A f \in result.findings : Based(known, f)
  /\ result.coverage \in 0..One
  /\ result.confidence \in 0..One

\* An inference that does what its rule says with the records it cites.
Stands(known, i, direction, weight, strength, cited) ==
  /\ Grounded(known, i)
  /\ i.evidence = cited /\ i.direction = direction /\ i.weight = weight
  /\ i.confidence \in Nat /\ strength * 60 <= i.confidence
  /\ \A r \in cited : i.confidence <= strength * r.reliability

\* A rule damped by the least reliable record it cites.
LEMMA DerivedIsGrounded ==
  ASSUME NEW known, Sound(known), NEW cited \in SUBSET known, cited # {},
         NEW direction \in Directions,
         NEW weight \in Weights, NEW strength \in Strengths, NEW module, NEW subject, NEW rule
  PROVE  Stands(known, derive(module, subject, rule, direction, weight, strength, cited),
                direction, weight, strength, cited)
<1>. DEFINE i == derive(module, subject, rule, direction, weight, strength, cited)
            reliabilities == {r.reliability : r \in cited}
            least == Min0(reliabilities)
<1>1. reliabilities # {} /\ reliabilities \subseteq 60..100
  BY SoundRecords
<1>2. least = Min(reliabilities)
  BY <1>1 DEF Min0
<1>. HIDE DEF reliabilities
<1>3. least \in reliabilities /\ \A n \in reliabilities : least <= n
  <2>1. reliabilities \subseteq Nat
    BY <1>1
  <2>. HIDE DEF least
  <2>. QED
    BY <1>1, <1>2, <2>1, MinOfNaturals, Zenon
<1>4. least \in 60..100 /\ \A r \in cited : r.reliability \in 60..100 /\ least <= r.reliability
  BY <1>1, <1>3 DEF reliabilities
<1>5. /\ i.evidence = cited /\ i.direction = direction /\ i.weight = weight
      /\ i.confidence = strength * least
  BY DEF derive, reliabilities
<1>. HIDE DEF least, i
<1>6. /\ strength * least \in Nat /\ strength * 60 <= strength * least
      /\ strength * least <= strength * 100
      /\ \A n \in 60..100 : least <= n => strength * least <= strength * n
  <2>1. strength \in Nat
    BY DEF Strengths
  <2>2. \A n \in 60..100 : least <= n => strength * least <= strength * n
    BY <1>4, <2>1
  <2>3. strength * 60 <= strength * least /\ strength * least <= strength * 100
    BY <1>4, <2>1
  <2>. QED
    BY <1>4, <2>1, <2>2, <2>3
<1>7. strength * least \in Believable
  <2>. DEFINE c == strength * least
  <2>1. 3600 <= strength * 60 /\ strength * 100 <= 10000 /\ strength \in Nat
    BY DEF Strengths
  <2>2. c \in Nat /\ 3600 <= c /\ c <= 10000
    BY <1>6, <2>1
  <2>. HIDE DEF c
  <2>3. c \in Believable
    BY <2>2, OneIs DEF Believable
  <2>. QED
    BY <2>3 DEF c
<1>8. Grounded(known, i)
  BY <1>5, <1>7 DEF Grounded
<1>9. \A r \in cited : i.confidence <= strength * r.reliability
  BY <1>4, <1>5, <1>6
<1>. QED
  BY <1>5, <1>6, <1>8, <1>9 DEF Stands, i

\* Grounded inferences can be folded, and no set of them is without mass.
LEMMA GroundedIsWeighed ==
  ASSUME NEW known, NEW inferences, AllGrounded(known, inferences)
  PROVE  /\ Weighed(inferences) /\ Mass(inferences) \in Nat
         /\ inferences # {} => Mass(inferences) > 0
<1>1. Weighed(inferences)
  <2>1. ASSUME NEW i \in inferences PROVE i.confidence \in 0..One /\ i.weight \in Nat
    <3>1. i.confidence \in Believable /\ i.weight \in Weights
      BY DEF AllGrounded, Grounded
    <3>. QED
      BY <3>1, BelievableIsShare, WeightIsNatural
  <2>. QED
    BY <2>1 DEF AllGrounded, Weighed
<1>2. ASSUME NEW i \in inferences PROVE (i.weight * i.confidence) \div 100 \in Nat
                                         /\ (i.weight * i.confidence) \div 100 >= 900
  <2>. DEFINE w == i.weight
              c == i.confidence
  <2>1. w \in Weights /\ c \in Believable
    BY DEF AllGrounded, Grounded
  <2>2. w \in Nat /\ c \in Nat /\ 25 <= w /\ 3600 <= c
    BY <2>1, WeightIsNatural, BelievableIsShare
  <2>. HIDE DEF w, c
  <2>3. w * c \in Nat /\ 25 * 3600 <= w * c
    BY <2>2, ProductsGrow
  <2>. DEFINE p == w * c
  <2>4. p \in Nat /\ 25 * 3600 <= p
    BY <2>3
  <2>. HIDE DEF p
  <2>5. p \div 100 \in Nat /\ p \div 100 >= 900
    BY <2>4
  <2>. QED
    BY <2>5 DEF p, w, c
<1>3. Mass(inferences) \in Nat
  BY <1>1, MassIsNatural
<1>4. ASSUME NEW i \in inferences PROVE Mass(inferences) > 0
  <2>. DEFINE term == (i.weight * i.confidence) \div 100
              mass == Mass(inferences)
  <2>1. term <= mass
    BY <1>1, MassIsNatural
  <2>2. term \in Nat /\ term >= 900 /\ mass \in Nat
    BY <1>2, <1>3
  <2>. HIDE DEF term, mass
  <2>4. mass > 0
    BY <2>1, <2>2
  <2>. QED
    BY <2>4 DEF mass
<1>. QED
  BY <1>1, <1>3, <1>4

LEMMA PartIsGrounded ==
  ASSUME NEW known, NEW inferences, AllGrounded(known, inferences), NEW part \in SUBSET inferences
  PROVE  AllGrounded(known, part)
BY FS_Subset DEF AllGrounded

LEMMA UnionIsGrounded ==
  ASSUME NEW known, NEW a, AllGrounded(known, a), NEW b, AllGrounded(known, b)
  PROVE  AllGrounded(known, a \cup b)
BY FS_Union DEF AllGrounded

LEMMA OneIsGrounded ==
  ASSUME NEW known, NEW i, Grounded(known, i)
  PROVE  AllGrounded(known, {i})
BY FS_Singleton DEF AllGrounded

LEMMA NoneIsGrounded ==
  ASSUME NEW known
  PROVE  AllGrounded(known, {})
BY FS_EmptySet DEF AllGrounded

LEMMA SidesOfInferences ==
  ASSUME NEW inferences
  PROVE  /\ Benign(inferences) \in SUBSET inferences /\ Adverse(inferences) \in SUBSET inferences
         /\ \A known : AllGrounded(known, inferences) => inferences = Benign(inferences) \cup Adverse(inferences)
<1>1. Benign(inferences) \in SUBSET inferences /\ Adverse(inferences) \in SUBSET inferences
  BY DEF Benign, Adverse
<1>2. ASSUME NEW known, AllGrounded(known, inferences), NEW i \in inferences
      PROVE  i \in Benign(inferences) \cup Adverse(inferences)
  <2>1. i.direction \in {"SUPPORTS_POSITIVE", "SUPPORTS_NEGATIVE"}
    BY <1>2 DEF AllGrounded, Grounded, Directions
  <2>. QED
    BY <2>1 DEF Benign, Adverse
<1>. QED
  BY <1>1, <1>2

\* A settled verdict rests on what supports it.
LEMMA VerdictRests ==
  ASSUME NEW inferences, NEW supporting \in SUBSET inferences, supporting # {},
         NEW confidence \in 1..One, NEW subject, NEW value
  PROVE  Rests(Verdict(subject, value, TRUE, confidence, supporting), inferences)
<1>. DEFINE v == Verdict(subject, value, TRUE, confidence, supporting)
<1>1. AtMost(confidence, One) = confidence
  BY OneIs DEF AtMost
<1>2. /\ v.confidence = confidence
      /\ v.inferences = supporting /\ v.evidence = UNION {i.evidence : i \in supporting}
  BY <1>1 DEF Verdict
<1>. HIDE DEF v
<1>3. confidence \in 0..One /\ confidence > 0
  BY PositiveIsShare, Zenon
<1>4. Rests(v, inferences)
  BY <1>2, <1>3 DEF Rests
<1>. QED
  BY <1>4 DEF v

LEMMA AbstentionRests ==
  ASSUME NEW inferences, NEW supporting \in SUBSET inferences, NEW subject
  PROVE  LET v == Abstains(subject, supporting)
         IN  Rests(v, inferences) /\ v.value = "CANNOT_DETERMINE" /\ ~v.determined
BY FloorsInUse DEF Abstains, Verdict, Rests

LEMMA FindingIsBased ==
  ASSUME NEW known, NEW code, NEW cited \in SUBSET known, NEW inferences,
         cited # {} \/ inferences # {}
  PROVE  Based(known, Finding(code, cited, inferences))
BY DEF Finding, Based

LEMMA GapIsBased ==
  ASSUME NEW known, NEW code
  PROVE  Based(known, Gap(code))
BY DEF Gap, Based

\* The most reliable reading, if there is one, is in the ledger, and there is
\* no other.
LEMMA BestIsKnown ==
  ASSUME NEW known, Sound(known), NEW subject, NEW key
  PROVE  /\ best(known, subject, key) \subseteq Readings(known, subject, key)
         /\ Readings(known, subject, key) \subseteq known
         /\ Readings(known, subject, key) # {} <=> best(known, subject, key) # {}
         /\ best(known, subject, key) = {} \/ \E e : best(known, subject, key) = {e}
         /\ \A e \in best(known, subject, key) :
              /\ e \in known /\ e.subject = subject /\ e.key = key /\ e.kind # "COLLECTION_FAILURE"
              /\ \A x \in Readings(known, subject, key) : x.reliability <= e.reliability
<1>. DEFINE readings == Readings(known, subject, key)
            reliabilities == {r.reliability : r \in readings}
<1>1. \A r \in readings : r \in known /\ r.subject = subject /\ r.key = key /\ r.kind # "COLLECTION_FAILURE"
  BY DEF Readings, forSubject
<1>2. ASSUME readings # {}
      PROVE  \E r \in readings : \A x \in readings : x.reliability <= r.reliability
  <2>1. reliabilities # {} /\ reliabilities \subseteq 0..100
    BY <1>1, <1>2, SoundRecords
  <2>2. PICK n \in reliabilities : \A m \in reliabilities : m <= n
    <3>. HIDE DEF reliabilities
    <3>. QED
      BY <2>1, GreatestExists
  <2>. QED
    BY <2>2
<1>. DEFINE e == CHOOSE r \in readings : \A x \in readings : x.reliability <= r.reliability
<1>3. readings # {} => e \in readings /\ \A x \in readings : x.reliability <= e.reliability
  <2>. HIDE DEF readings
  <2>. QED
    BY <1>2, Zenon
<1>4. best(known, subject, key) = IF readings = {} THEN {} ELSE {e}
  BY DEF best
<1>. HIDE DEF e
<1>. QED
  BY <1>1, <1>3, <1>4

-----------------------------------------------------------------------------
(***************************************************************************)
(* Identity and hardware: tables of checks                                 *)
(***************************************************************************)

\* At most one rule, of a strength in range.
Modest(rules) ==
  rules = {} \/ \E u : /\ rules = {u}
                       /\ u.direction \in Directions
                       /\ u.weight \in Weights /\ u.confidence \in Strengths

ModestCheck(check) == \A v \in DOMAIN check.rules : Modest(check.rules[v])

ModestTable(checks) ==
  /\ IsFiniteSet(DOMAIN checks) /\ DOMAIN checks # {}
  /\ \A c \in DOMAIN checks : ModestCheck(checks[c])

LEMMA RulesAreModest ==
  /\ \A name, weight, confidence : weight \in Weights /\ confidence \in Strengths =>
       /\ Modest(For(name, weight, confidence))
       /\ Modest(Against(name, weight, confidence))
       /\ Modest(AgainstAlone(name, weight, confidence))
  /\ Modest(NoRule)
<1>1. ASSUME NEW name, NEW weight \in Weights, NEW confidence \in Strengths
      PROVE  /\ Modest(For(name, weight, confidence))
             /\ Modest(Against(name, weight, confidence))
             /\ Modest(AgainstAlone(name, weight, confidence))
  <2>1. Modest(For(name, weight, confidence))
    <3>. DEFINE u == [name |-> name, direction |-> "SUPPORTS_POSITIVE", weight |-> weight,
                      confidence |-> confidence, alone |-> FALSE]
    <3>1. u.direction \in Directions /\ u.weight \in Weights /\ u.confidence \in Strengths
      BY DirectionsInUse
    <3>2. For(name, weight, confidence) = {u}
      BY DEF For
    <3>. HIDE DEF u
    <3>. QED
      BY <3>1, <3>2 DEF Modest
  <2>2. Modest(Against(name, weight, confidence))
    <3>. DEFINE u == [name |-> name, direction |-> "SUPPORTS_NEGATIVE", weight |-> weight,
                      confidence |-> confidence, alone |-> FALSE]
    <3>1. u.direction \in Directions /\ u.weight \in Weights /\ u.confidence \in Strengths
      BY DirectionsInUse
    <3>2. Against(name, weight, confidence) = {u}
      BY DEF Against
    <3>. HIDE DEF u
    <3>. QED
      BY <3>1, <3>2 DEF Modest
  <2>3. Modest(AgainstAlone(name, weight, confidence))
    <3>. DEFINE u == [name |-> name, direction |-> "SUPPORTS_NEGATIVE", weight |-> weight,
                      confidence |-> confidence, alone |-> TRUE]
    <3>1. u.direction \in Directions /\ u.weight \in Weights /\ u.confidence \in Strengths
      BY DirectionsInUse
    <3>2. AgainstAlone(name, weight, confidence) = {u}
      BY DEF AgainstAlone
    <3>. HIDE DEF u
    <3>. QED
      BY <3>1, <3>2 DEF Modest
  <2>. QED
    BY <2>1, <2>2, <2>3
<1>2. Modest(NoRule)
  BY DEF Modest, NoRule
<1>. QED
  BY <1>1, <1>2, Zenon

LEMMA IdentityTable == ModestTable(IdentityChecks)
<1>1. DOMAIN IdentityChecks = {"imeiChecksum"} \cup {"secondaryImei"} \cup {"serialFormat"}
        \cup {"manufactureEra"} \cup {"udidFormat"} \cup {"modelNumber"} \cup {"deviceClass"} \cup {"region"}
  BY DEF IdentityChecks
<1>2. IsFiniteSet(DOMAIN IdentityChecks)
  <2>1. IsFiniteSet({"imeiChecksum"} \cup {"secondaryImei"} \cup {"serialFormat"})
    BY ThreeAreFinite, Zenon
  <2>2. IsFiniteSet({"imeiChecksum"} \cup {"secondaryImei"} \cup {"serialFormat"}
                  \cup {"manufactureEra"} \cup {"udidFormat"} \cup {"modelNumber"})
    BY <2>1, ThreeMoreAreFinite, Zenon
  <2>3. IsFiniteSet({"imeiChecksum"} \cup {"secondaryImei"} \cup {"serialFormat"}
                  \cup {"manufactureEra"} \cup {"udidFormat"} \cup {"modelNumber"}
                  \cup {"deviceClass"} \cup {"region"})
    BY <2>2, TwoMoreAreFinite, Zenon
  <2>. QED
    BY <1>1, <2>3, Zenon
<1>3. ModestCheck(IdentityChecks["imeiChecksum"]) /\ ModestCheck(IdentityChecks["secondaryImei"])
  BY RulesAreModest, WeightsInUse, StrengthsInUse DEF IdentityChecks, ModestCheck, Check
<1>4. ModestCheck(IdentityChecks["serialFormat"])
  BY RulesAreModest, WeightsInUse, StrengthsInUse DEF IdentityChecks, ModestCheck, Check
<1>5. ModestCheck(IdentityChecks["manufactureEra"]) /\ ModestCheck(IdentityChecks["udidFormat"])
  BY RulesAreModest, WeightsInUse, StrengthsInUse DEF IdentityChecks, ModestCheck, Check
<1>6. ModestCheck(IdentityChecks["modelNumber"]) /\ ModestCheck(IdentityChecks["deviceClass"])
  BY RulesAreModest, WeightsInUse, StrengthsInUse DEF IdentityChecks, ModestCheck, Check
<1>7. ModestCheck(IdentityChecks["region"])
  BY RulesAreModest, WeightsInUse, StrengthsInUse DEF IdentityChecks, ModestCheck, Check
<1>. QED
  BY <1>1, <1>2, <1>3, <1>4, <1>5, <1>6, <1>7 DEF ModestTable

LEMMA HardwareTable == ModestTable(HardwareChecks)
<1>1. DOMAIN HardwareChecks = {"boardId"} \cup {"capacityTier"} \cup {"cpuArchitecture"}
        \cup {"designCapacity"} \cup {"iosCeiling"}
  BY DEF HardwareChecks
<1>2. IsFiniteSet(DOMAIN HardwareChecks)
  <2>1. IsFiniteSet({"boardId"} \cup {"capacityTier"} \cup {"cpuArchitecture"})
    BY ThreeAreFinite, Zenon
  <2>2. IsFiniteSet({"boardId"} \cup {"capacityTier"} \cup {"cpuArchitecture"}
                  \cup {"designCapacity"} \cup {"iosCeiling"})
    BY <2>1, TwoMoreAreFinite, Zenon
  <2>. QED
    BY <1>1, <2>2, Zenon
<1>3. ModestCheck(HardwareChecks["boardId"]) /\ ModestCheck(HardwareChecks["capacityTier"])
  BY RulesAreModest, WeightsInUse, StrengthsInUse DEF HardwareChecks, ModestCheck, Check
<1>4. ModestCheck(HardwareChecks["cpuArchitecture"]) /\ ModestCheck(HardwareChecks["designCapacity"])
  BY RulesAreModest, WeightsInUse, StrengthsInUse DEF HardwareChecks, ModestCheck, Check
<1>5. ModestCheck(HardwareChecks["iosCeiling"])
  BY RulesAreModest, WeightsInUse, StrengthsInUse DEF HardwareChecks, ModestCheck, Check
<1>. QED
  BY <1>1, <1>2, <1>3, <1>4, <1>5 DEF ModestTable

\* A check fires at most one inference; it fires one when the value has a rule.
LEMMA FiredIsGrounded ==
  ASSUME NEW known, Sound(known), NEW check, ModestCheck(check), NEW module
  PROVE  /\ AllGrounded(known, Fired(known, module, check))
         /\ \A r \in Answers(known, check) : \A u \in check.rules[r.value] :
              \E i \in Fired(known, module, check) : i.direction = u.direction
<1>. DEFINE cited(r, u) == IF u.alone THEN {r} ELSE {r} \cup Compared(known, check)
            inference(r, u) == derive(module, check.subject, u.name, u.direction, u.weight,
                                      u.confidence, cited(r, u))
<1>1. Compared(known, check) \subseteq known
  <2>. SUFFICES ASSUME NEW e \in Compared(known, check) PROVE e \in known
    OBVIOUS
  <2>1. PICK n \in check.needs : e \in best(known, n.subject, n.key)
    BY DEF Compared
  <2>. QED
    BY <2>1, BestIsKnown
<1>2. ASSUME NEW r \in Answers(known, check), NEW u \in check.rules[r.value]
      PROVE  /\ check.rules[r.value] = {u}
             /\ Grounded(known, inference(r, u)) /\ inference(r, u).direction = u.direction
  <2>1. r \in known /\ r.value \in DOMAIN check.rules
    BY BestIsKnown DEF Answers
  <2>2. /\ check.rules[r.value] = {u} /\ u.direction \in Directions
        /\ u.weight \in Weights /\ u.confidence \in Strengths
    BY <2>1 DEF ModestCheck, Modest
  <2>3. cited(r, u) \in SUBSET known /\ cited(r, u) # {}
    BY <1>1, <2>1
  <2>. HIDE DEF cited
  <2>4. Stands(known, inference(r, u), u.direction, u.weight, u.confidence, cited(r, u))
    BY <2>2, <2>3, DerivedIsGrounded, Zenon
  <2>. QED
    BY <2>2, <2>4 DEF Stands
<1>3. Fired(known, module, check) =
        UNION {{inference(r, u) : u \in check.rules[r.value]} : r \in Answers(known, check)}
  BY DEF Fired
<1>. HIDE DEF inference
<1>4. Answers(known, check) = {} \/ \E r : Answers(known, check) = {r}
  BY BestIsKnown DEF Answers
<1>5. CASE Answers(known, check) = {}
  <2>1. Fired(known, module, check) = {}
    BY <1>3, <1>5
  <2>. QED
    BY <1>5, <2>1, NoneIsGrounded
<1>6. ASSUME NEW r, Answers(known, check) = {r}, check.rules[r.value] = {}
      PROVE  Fired(known, module, check) = {}
  BY <1>3, <1>6
<1>7. ASSUME NEW r, Answers(known, check) = {r}, NEW u \in check.rules[r.value]
      PROVE  Fired(known, module, check) = {inference(r, u)} /\ Grounded(known, inference(r, u))
             /\ inference(r, u).direction = u.direction
  <2>1. check.rules[r.value] = {u}
    BY <1>2, <1>7
  <2>2. Fired(known, module, check) = {inference(r, u)}
    BY <1>3, <1>7, <2>1
  <2>. QED
    BY <1>2, <1>7, <2>2
<1>. QED
  BY <1>4, <1>5, <1>6, <1>7, NoneIsGrounded, OneIsGrounded

LEMMA InferredIsGrounded ==
  ASSUME NEW known, Sound(known), NEW checks, ModestTable(checks), NEW module
  PROVE  AllGrounded(known, Inferred(known, module, checks))
<1>. DEFINE ran == performed(known, checks)
            f == [c \in ran |-> Fired(known, module, checks[c])]
<1>1. ran \subseteq DOMAIN checks /\ IsFiniteSet(ran)
  BY FS_Subset DEF ModestTable, performed
<1>2. \A c \in ran : AllGrounded(known, f[c])
  BY <1>1, FiredIsGrounded DEF ModestTable
<1>3. Inferred(known, module, checks) = UNION {f[c] : c \in ran}
  BY DEF Inferred
<1>. HIDE DEF f, ran
<1>4. IsFiniteSet({f[c] : c \in ran})
  BY <1>1, ImageIsFinite
<1>5. \A S \in {f[c] : c \in ran} : IsFiniteSet(S)
  BY <1>2 DEF AllGrounded
<1>6. IsFiniteSet(UNION {f[c] : c \in ran})
  BY <1>4, <1>5, FS_UNION
<1>. QED
  BY <1>2, <1>3, <1>6 DEF AllGrounded

\* The share of the checks that ran.
LEMMA CoverageIsShare ==
  ASSUME NEW known, NEW checks, ModestTable(checks)
  PROVE  Round3(Ratio(Cardinality(performed(known, checks)), Cardinality(DOMAIN checks))) \in 0..One
<1>. DEFINE a == Cardinality(performed(known, checks))
            b == Cardinality(DOMAIN checks)
<1>1. performed(known, checks) \in SUBSET DOMAIN checks
  BY DEF performed
<1>2. a \in Nat /\ b \in Nat /\ a <= b
  BY <1>1, FS_Subset, FS_CardinalityType DEF ModestTable
<1>3. b # 0
  BY FS_EmptySet DEF ModestTable
<1>. HIDE DEF a, b
<1>4. Ratio(a, b) \in 0..One
  BY <1>2, <1>3, RatioIsShare
<1>5. Round3(Ratio(a, b)) \in 0..One
  BY <1>4, RoundedShare
<1>. QED
  BY <1>5 DEF a, b

LEMMA FloorIsPositive ==
  ASSUME NEW x \in 0..One, NEW floor \in 1..One
  PROVE  AtLeast(x, floor) \in 1..One /\ floor <= AtLeast(x, floor)
BY OneIs DEF AtLeast

\* One contradiction makes a mismatch, and either way the verdict rests on
\* inferences.
LEMMA ConclusionRests ==
  ASSUME NEW known, NEW inferences, AllGrounded(known, inferences), NEW consistent, NEW mismatch
  PROVE  LET v == Conclusion(inferences, consistent, mismatch)
         IN  /\ Rests(v, inferences)
             /\ Adverse(inferences) # {} => v.value = mismatch
<1>. DEFINE adverse == Adverse(inferences)
            benign == Benign(inferences)
            v == Conclusion(inferences, consistent, mismatch)
<1>1. /\ adverse \in SUBSET inferences /\ benign \in SUBSET inferences
      /\ inferences = benign \cup adverse
  BY SidesOfInferences, Zenon
<1>2. /\ Weighed(adverse) /\ Mass(benign) \in Nat
      /\ Weighed(benign) /\ (benign # {} => Mass(benign) > 0)
  BY <1>1, PartIsGrounded, GroundedIsWeighed
<1>. DEFINE floored == AtLeast(verdictConfidence(adverse, Mass(benign)), 3000)
            none == Abstains("DEVICE", {})
            against == Verdict("DEVICE", mismatch, TRUE, floored, adverse)
            supported == Verdict("DEVICE", consistent, TRUE, verdictConfidence(benign, 0), benign)
<1>0. v = IF inferences = {} THEN none ELSE IF adverse # {} THEN against ELSE supported
  BY DEF Conclusion
<1>. HIDE DEF none, against, supported, floored
<1>3. CASE inferences = {}
  <2>1. v = Abstains("DEVICE", {}) /\ adverse = {}
    BY <1>0, <1>1, <1>3 DEF none
  <2>. HIDE DEF v, adverse
  <2>2. Rests(v, inferences)
    BY <2>1, AbstentionRests
  <2>. QED
    BY <2>1, <2>2 DEF v, adverse
<1>4. CASE adverse # {}
  <2>1. v = Verdict("DEVICE", mismatch, TRUE, floored, adverse)
    <3>1. inferences # {}
      BY <1>1, <1>4
    <3>. QED
      BY <1>0, <1>4, <3>1, Zenon DEF against
  <2>2. verdictConfidence(adverse, Mass(benign)) \in 0..One
    <3>. HIDE DEF adverse, benign
    <3>. QED
      BY <1>2, VerdictConfidenceIsShare
  <2>3. floored \in 1..One
    <3>. DEFINE x == verdictConfidence(adverse, Mass(benign))
    <3>1. x \in 0..One
      BY <2>2
    <3>2. 3000 \in 1..One
      BY FloorsInUse
    <3>. HIDE DEF x
    <3>3. AtLeast(x, 3000) \in 1..One
      BY <3>1, <3>2, FloorIsPositive
    <3>. QED
      BY <3>3 DEF x, floored
  <2>. HIDE DEF v, adverse
  <2>4. Rests(Verdict("DEVICE", mismatch, TRUE, floored, adverse), inferences)
    BY <1>1, <1>4, <2>3, VerdictRests, Zenon
  <2>5. v.value = mismatch
    BY <2>1 DEF Verdict
  <2>6. Rests(v, inferences)
    BY <2>1, <2>4, Zenon
  <2>. QED
    BY <2>5, <2>6 DEF v
<1>5. CASE inferences # {} /\ adverse = {}
  <2>. DEFINE c == verdictConfidence(benign, 0)
  <2>1. v = Verdict("DEVICE", consistent, TRUE, c, benign)
    BY <1>0, <1>5, Zenon DEF supported
  <2>2. benign # {}
    BY <1>1, <1>5
  <2>3. c \in 1..One
    <3>1. PICK i \in benign : TRUE
      BY <2>2
    <3>2. i.confidence \in Believable
      BY <1>1 DEF AllGrounded, Grounded
    <3>. HIDE DEF benign
    <3>3. verdictConfidence(benign, 0) \in 0..One /\ i.confidence <= verdictConfidence(benign, 0) + 4
      BY <1>2, <2>2, VerdictConfidenceIsShare
    <3>. HIDE DEF c
    <3>4. c \in 0..One /\ i.confidence <= c + 4
      BY <3>3 DEF c
    <3>5. 3600 <= i.confidence /\ i.confidence \in Nat /\ c \in Nat
      <4>1. 3600 <= i.confidence /\ i.confidence \in Nat
        BY <3>2, BelievableIsShare
      <4>2. c \in Nat
        BY <3>4, ShareIsPositive, Zenon
      <4>. QED
        BY <4>1, <4>2
    <3>6. 3600 <= c + 4
      BY <3>4, <3>5
    <3>. QED
      BY <3>4, <3>6, OneIs
  <2>. HIDE DEF c, v, benign
  <2>4. Rests(Verdict("DEVICE", consistent, TRUE, c, benign), inferences)
    BY <1>1, <2>2, <2>3, VerdictRests, Zenon
  <2>. QED
    BY <1>5, <2>1, <2>4 DEF v
<1>. QED
  BY <1>3, <1>4, <1>5, Zenon

LEMMA IdentityIsAccountable ==
  ASSUME NEW known, Sound(known)
  PROVE  Accountable(known, runIdentityEngine(known))
<1>. DEFINE inferences == Inferred(known, "IDENTITY", IdentityChecks)
            ran        == performed(known, IdentityChecks)
            verdict    == Conclusion(inferences, "IDENTITY_CONSISTENT", "IDENTITY_MISMATCH")
            coverage   == Round3(Ratio(Cardinality(ran), Cardinality(DOMAIN IdentityChecks)))
            result     == runIdentityEngine(known)
<1>1. /\ result.verdicts = {verdict} /\ result.inferences = inferences
      /\ result.coverage = coverage /\ result.confidence = dampByCoverage(verdict.confidence, coverage)
      /\ result.findings = IdentityFindings(known, verdict, ran)
  BY DEF runIdentityEngine
<1>2. AllGrounded(known, inferences)
  BY IdentityTable, InferredIsGrounded
<1>3. coverage \in 0..One
  BY IdentityTable, CoverageIsShare
<1>. HIDE DEF result, inferences
<1>4. Rests(verdict, inferences)
  BY <1>2, ConclusionRests
<1>. HIDE DEF coverage, verdict
<1>5. dampByCoverage(verdict.confidence, coverage) \in 0..One
  BY <1>3, <1>4, DampedShare DEF Rests
<1>6. ASSUME NEW finding \in IdentityFindings(known, verdict, ran)
      PROVE  Based(known, finding)
  <2>1. CASE \E code : \E r \in known : finding = Finding(code, {r}, {})
    BY <2>1, FindingIsBased
  <2>2. CASE \E code : finding = Gap(code)
    BY <2>2, GapIsBased
  <2>3. (\E code : \E r \in known : finding = Finding(code, {r}, {})) \/ (\E code : finding = Gap(code))
    <3>1. best(known, "DEVICE", "IMEI") \subseteq known /\ best(known, "DEVICE", "ModelNumber") \subseteq known
      BY BestIsKnown
    <3>. QED
      BY <3>1, Zenon DEF IdentityFindings
  <2>. QED
    BY <2>1, <2>2, <2>3
<1>. QED
  BY <1>1, <1>2, <1>3, <1>4, <1>5, <1>6 DEF Accountable, result

\* A foreign value always has a rule.
LEMMA ForeignIsChecked ==
  ASSUME NEW c \in DOMAIN HardwareChecks
  PROVE  /\ "foreign" \in DOMAIN HardwareChecks[c].rules
         /\ \E u \in HardwareChecks[c].rules["foreign"] : u.direction = "SUPPORTS_NEGATIVE"
<1>1. \A name, weight, confidence :
        \E u \in Against(name, weight, confidence) : u.direction = "SUPPORTS_NEGATIVE"
  BY DEF Against
<1>2. c \in {"boardId", "capacityTier", "cpuArchitecture", "designCapacity", "iosCeiling"}
  BY DEF HardwareChecks
<1>3. \E name, weight, confidence :
        /\ "foreign" \in DOMAIN HardwareChecks[c].rules
        /\ HardwareChecks[c].rules["foreign"] = Against(name, weight, confidence)
  <2>1. CASE c = "boardId"
    BY <2>1 DEF HardwareChecks, Check
  <2>2. CASE c = "capacityTier"
    BY <2>2 DEF HardwareChecks, Check
  <2>3. CASE c = "cpuArchitecture"
    BY <2>3 DEF HardwareChecks, Check
  <2>4. CASE c = "designCapacity"
    BY <2>4 DEF HardwareChecks, Check
  <2>5. CASE c = "iosCeiling"
    BY <2>5 DEF HardwareChecks, Check
  <2>. QED
    BY <1>2, <2>1, <2>2, <2>3, <2>4, <2>5
<1>. QED
  BY <1>1, <1>3, Zenon

LEMMA AssessedIsAccountable ==
  ASSUME NEW known, Sound(known)
  PROVE  Accountable(known, Assessed(known))
<1>. DEFINE inferences == Inferred(known, "HARDWARE_CONSISTENCY", HardwareChecks)
            ran        == performed(known, HardwareChecks)
            verdict    == Conclusion(inferences, "SPECIFICATION_MATCH", "SPECIFICATION_ANOMALY")
            coverage   == Round3(Ratio(Cardinality(ran), Cardinality(DOMAIN HardwareChecks)))
            about(c)   == Fired(known, "HARDWARE_CONSISTENCY", HardwareChecks[c])
            cited(c)   == UNION {i.evidence : i \in about(c)}
            result     == Assessed(known)
<1>1. /\ result.verdicts = {verdict} /\ result.inferences = inferences
      /\ result.coverage = coverage /\ result.confidence = dampByCoverage(verdict.confidence, coverage)
      /\ result.findings = {Finding(FindingOf[a.check], cited(a.check), about(a.check)) :
                              a \in Anomalies(known)}
  BY DEF Assessed
<1>2. AllGrounded(known, inferences)
  BY HardwareTable, InferredIsGrounded
<1>3. coverage \in 0..One
  BY HardwareTable, CoverageIsShare
<1>. HIDE DEF result, inferences
<1>4. Rests(verdict, inferences)
  BY <1>2, ConclusionRests
<1>. HIDE DEF coverage, verdict
<1>5. dampByCoverage(verdict.confidence, coverage) \in 0..One
  BY <1>3, <1>4, DampedShare DEF Rests
<1>6. ASSUME NEW a \in Anomalies(known)
      PROVE  Based(known, Finding(FindingOf[a.check], cited(a.check), about(a.check)))
  <2>. DEFINE c == a.check
              check == HardwareChecks[c]
  <2>1. c \in DOMAIN HardwareChecks /\ Says(known, check.subject, check.key, "foreign")
    BY DEF Anomalies, performed
  <2>2. ModestCheck(check)
    BY <2>1, HardwareTable DEF ModestTable
  <2>3. PICK u \in check.rules["foreign"] : TRUE
    BY <2>1, ForeignIsChecked
  <2>4. PICK r \in Answers(known, check) : r.value = "foreign"
    BY <2>1, ForeignIsChecked DEF Answers, Says
  <2>. HIDE DEF c, check
  <2>5. /\ AllGrounded(known, Fired(known, "HARDWARE_CONSISTENCY", check))
        /\ \E i \in Fired(known, "HARDWARE_CONSISTENCY", check) : i.direction = u.direction
    BY <2>2, <2>3, <2>4, FiredIsGrounded
  <2>6. AllGrounded(known, about(c)) /\ about(c) # {}
    BY <2>5 DEF check
  <2>7. cited(c) \in SUBSET known
    BY <2>6 DEF AllGrounded, Grounded
  <2>. HIDE DEF about, cited
  <2>8. Based(known, Finding(FindingOf[c], cited(c), about(c)))
    BY <2>6, <2>7, FindingIsBased
  <2>. QED
    BY <2>8 DEF c
<1>. QED
  BY <1>1, <1>2, <1>3, <1>4, <1>5, <1>6 DEF Accountable, result

LEMMA HardwareIsAccountable ==
  ASSUME NEW known, Sound(known), NEW catalogued
  PROVE  Accountable(known, runHardwareEngine(known, catalogued))
<1>1. Accountable(known, Uncatalogued)
  <2>1. /\ Uncatalogued.verdicts = {Abstains("DEVICE", {})} /\ Uncatalogued.inferences = {}
        /\ Uncatalogued.coverage = 0 /\ Uncatalogued.confidence = 0
        /\ Uncatalogued.findings = {Gap("HARDWARE_MODEL_NOT_CATALOGUED")}
    BY DEF Uncatalogued
  <2>2. Rests(Abstains("DEVICE", {}), {})
    BY AbstentionRests
  <2>3. 0 \in 0..One
    BY OneIs
  <2>. QED
    BY <2>1, <2>2, <2>3, NoneIsGrounded, GapIsBased DEF Accountable
<1>. QED
  BY <1>1, AssessedIsAccountable DEF runHardwareEngine

-----------------------------------------------------------------------------
(***************************************************************************)
(* The battery                                                             *)
(***************************************************************************)

\* The number of a reading, if there is one, is a natural number.
LEMMA ReadingsAreNumbers ==
  ASSUME NEW known, Sound(known), NEW key, Reading(known, key) # {}
  PROVE  NumberOf(Reading(known, key)) \in Nat
<1>1. PICK r \in Reading(known, key) : r = CHOOSE x \in Reading(known, key) : TRUE
  OBVIOUS
<1>2. r \in known
  BY BestIsKnown DEF Reading
<1>3. r.number \in Nat
  BY <1>2, SoundRecords DEF Records
<1>. QED
  BY <1>1, <1>3 DEF NumberOf

LEMMA HealthIsKnown ==
  ASSUME NEW known, Sound(known)
  PROVE  /\ HealthEvidence(known) \in SUBSET known
         /\ HasHealth(known) => maximumCapacityPercent(known) \in 0..100
<1>. DEFINE reported == Reading(known, "MaximumCapacityPercent")
            design   == Reading(known, "DesignCapacity")
            nominal  == Reading(known, "NominalChargeCapacity")
<1>1. reported \subseteq known /\ design \subseteq known /\ nominal \subseteq known
  BY BestIsKnown DEF Reading
<1>2. /\ reported # {} => NumberOf(reported) \in Nat
      /\ design # {} => NumberOf(design) \in Nat
      /\ nominal # {} => NumberOf(nominal) \in Nat
  BY ReadingsAreNumbers
<1>3. HealthEvidence(known) = IF reported # {} THEN reported
        ELSE IF design # {} /\ nominal # {} /\ NumberOf(design) > 0 THEN design \cup nominal ELSE {}
  BY DEF HealthEvidence
<1>. DEFINE d == NumberOf(design)
            n == NumberOf(nominal)
            p == NumberOf(reported)
<1>4. maximumCapacityPercent(known)
        = clampPercent(IF reported # {} THEN p ELSE (200 * n + d) \div (2 * d))
  BY DEF maximumCapacityPercent
<1>5. \A x \in Nat : clampPercent(x) \in 0..100
  BY DEF clampPercent, AtMost
<1>6. ASSUME HasHealth(known)
      PROVE  (IF reported # {} THEN p ELSE (200 * n + d) \div (2 * d)) \in Nat
  <2>1. CASE reported # {}
    BY <1>2, <2>1
  <2>2. CASE reported = {}
    <3>1. d \in Nat /\ n \in Nat /\ d > 0
      BY <1>2, <1>3, <1>6, <2>2 DEF HasHealth
    <3>. HIDE DEF d, n, p, reported
    <3>2. 200 * n + d \in Nat /\ 2 * d \in Nat /\ 2 * d > 0
      BY <3>1
    <3>3. (200 * n + d) \div (2 * d) \in Nat
      BY <3>2, QuotientBounds
    <3>. QED
      BY <2>2, <3>3
  <2>. QED
    BY <2>1, <2>2
<1>. HIDE DEF d, n, p, reported
<1>. QED
  BY <1>1, <1>3, <1>4, <1>5, <1>6 DEF reported

LEMMA CellRuleStands ==
  ASSUME NEW known, Sound(known), NEW cited \in SUBSET known, cited # {},
         NEW direction \in Directions, NEW weight \in Weights, NEW strength \in Strengths, NEW rule
  PROVE  Stands(known, CellRule(rule, direction, weight, strength, cited), direction, weight, strength, cited)
BY DerivedIsGrounded, Zenon DEF CellRule

\* What a capacity or a cycle count says rests on the readings it came from.
LEMMA CellRulesAreGrounded ==
  ASSUME NEW known, Sound(known), NEW device, HasHealth(known), NEW health
  PROVE  AllGrounded(known, {FromHealth(known, health)} \cup FromCycles(known, device))
<1>1. HealthEvidence(known) \in SUBSET known /\ HealthEvidence(known) # {}
  BY HealthIsKnown DEF HasHealth
<1>2. Grounded(known, FromHealth(known, health))
  <2>1. Stands(known, CellRule("health-within-threshold", "SUPPORTS_POSITIVE", 60, 90, HealthEvidence(known)),
               "SUPPORTS_POSITIVE", 60, 90, HealthEvidence(known))
    BY <1>1, WeightsInUse, StrengthsInUse, DirectionsInUse, CellRuleStands, Zenon
  <2>2. Stands(known, CellRule("health-below-threshold", "SUPPORTS_NEGATIVE", 85, 90, HealthEvidence(known)),
               "SUPPORTS_NEGATIVE", 85, 90, HealthEvidence(known))
    BY <1>1, WeightsInUse, StrengthsInUse, DirectionsInUse, CellRuleStands, Zenon
  <2>. QED
    BY <2>1, <2>2 DEF FromHealth, Stands
<1>3. AllGrounded(known, FromCycles(known, device))
  <2>. DEFINE cited == Reading(known, "CycleCount") \cup Reading(known, "RatedCycleLife")
              exceeded == CellRule("cycles-exceed-rating", "SUPPORTS_NEGATIVE", 60, 85, cited)
              within == CellRule("cycles-within-rating", "SUPPORTS_POSITIVE", 40, 85, cited)
  <2>1. FromCycles(known, device) = {} \/ (HasCycles(known) /\ FromCycles(known, device) \in {{exceeded}, {within}})
    BY DEF FromCycles
  <2>2. cited \in SUBSET known /\ (HasCycles(known) => cited # {})
    BY BestIsKnown DEF Reading, HasCycles
  <2>. HIDE DEF cited
  <2>3. HasCycles(known) => Stands(known, exceeded, "SUPPORTS_NEGATIVE", 60, 85, cited)
    BY <2>2, WeightsInUse, StrengthsInUse, DirectionsInUse, CellRuleStands, Zenon
  <2>4. HasCycles(known) => Stands(known, within, "SUPPORTS_POSITIVE", 40, 85, cited)
    BY <2>2, WeightsInUse, StrengthsInUse, DirectionsInUse, CellRuleStands, Zenon
  <2>. HIDE DEF exceeded, within
  <2>5. HasCycles(known) => Grounded(known, exceeded) /\ Grounded(known, within)
    BY <2>3, <2>4 DEF Stands
  <2>. QED
    BY <2>1, <2>5, NoneIsGrounded, OneIsGrounded
<1>. QED
  BY <1>2, <1>3, OneIsGrounded, UnionIsGrounded

LEMMA UnavailableIsBased ==
  ASSUME NEW known, NEW code
  PROVE  Based(known, Unavailable(known, code))
<1>1. failures(known, "BATTERY") \in SUBSET known
  BY DEF failures, forSubject
<1>. QED
  BY <1>1, FindingIsBased, GapIsBased DEF Unavailable

LEMMA BatteryIsAccountable ==
  ASSUME NEW known, Sound(known), NEW device
  PROVE  /\ Accountable(known, runBatteryEngine(known, device))
         /\ runBatteryEngine(known, device).health \subseteq 0..100
<1>1. /\ Accountable(known, NoHealth(known)) /\ NoHealth(known).health = {}
  <2>. DEFINE result == NoHealth(known)
  <2>1. /\ result.verdicts = {Abstains("BATTERY", {})} /\ result.inferences = {}
        /\ result.coverage = 0 /\ result.confidence = 0 /\ result.health = {}
        /\ result.findings = {Unavailable(known, "BATTERY_HEALTH_UNAVAILABLE")}
    BY DEF NoHealth
  <2>2. Rests(Abstains("BATTERY", {}), {})
    BY AbstentionRests
  <2>3. 0 \in 0..One
    BY OneIs
  <2>. HIDE DEF result
  <2>4. Accountable(known, result)
    BY <2>1, <2>2, <2>3, NoneIsGrounded, UnavailableIsBased DEF Accountable
  <2>. QED
    BY <2>1, <2>4 DEF result
<1>2. ASSUME HasHealth(known)
      PROVE  /\ Accountable(known, WithHealth(known, device))
             /\ WithHealth(known, device).health \subseteq 0..100
  <2>. DEFINE health     == maximumCapacityPercent(known)
              inferences == {FromHealth(known, health)} \cup FromCycles(known, device)
              value      == BatteryValue(health)
              agreeing   == IF value = "WITHIN_SPECIFICATION" THEN Benign(inferences) ELSE Adverse(inferences)
              supporting == IF agreeing = {} THEN inferences ELSE agreeing
              believed   == IF HasCycles(known) THEN corroborate(inferences)
                            ELSE Times(corroborate(inferences), 7500)
              belief     == Round3(believed)
              coverage   == IF HasCycles(known) THEN One ELSE 6000
              floored    == AtLeast(belief, 2500)
              verdict    == Verdict("BATTERY", value, TRUE, floored, supporting)
              confidence == Round3(Times(belief, 6000 + (40 * coverage) \div 100))
              result     == WithHealth(known, device)
  <2>1. /\ result.verdicts = {verdict} /\ result.inferences = inferences
        /\ result.coverage = coverage /\ result.confidence = confidence
        /\ result.findings = BatteryFindings(known, health, supporting)
        /\ result.health = {health}
    BY DEF WithHealth
  <2>2. health \in 0..100 /\ HealthEvidence(known) \in SUBSET known /\ HealthEvidence(known) # {}
    BY <1>2, HealthIsKnown DEF HasHealth
  <2>. HIDE DEF result, health
  <2>3. AllGrounded(known, inferences) /\ inferences # {}
    BY <1>2, CellRulesAreGrounded
  <2>. HIDE DEF inferences
  <2>4. supporting \in SUBSET inferences /\ supporting # {}
    BY <2>3, SidesOfInferences
  <2>. HIDE DEF supporting
  <2>5. corroborate(inferences) \in 0..One
    BY <2>3, GroundedIsWeighed, CorroborationIsShare
  <2>6. believed \in 0..One
    <3>1. 7500 \in 0..One
      BY OneIs
    <3>. QED
      BY <2>5, <3>1, TimesOfShares
  <2>. HIDE DEF believed
  <2>7. belief \in 0..One
    BY <2>6, RoundedShare
  <2>. HIDE DEF belief
  <2>12. floored \in 1..One
    <3>1. 2500 \in 1..One
      BY FloorsInUse
    <3>. QED
      BY <2>7, <3>1, FloorIsPositive
  <2>. HIDE DEF floored
  <2>8. coverage \in 0..One /\ 6000 + (40 * coverage) \div 100 \in 0..One
    BY OneIs
  <2>. HIDE DEF coverage
  <2>9. confidence \in 0..One
    BY <2>7, <2>8, TimesOfShares, RoundedShare
  <2>10. Rests(verdict, inferences)
    BY <2>4, <2>12, VerdictRests, Zenon
  <2>. HIDE DEF confidence, verdict
  <2>11. ASSUME NEW finding \in BatteryFindings(known, health, supporting)
         PROVE  Based(known, finding)
    <3>1. \/ \E code : finding = Finding(code, HealthEvidence(known), supporting)
          \/ \E code : finding = Unavailable(known, code)
      BY Zenon DEF BatteryFindings
    <3>2. \A code : Based(known, Finding(code, HealthEvidence(known), supporting))
      BY <2>2, FindingIsBased
    <3>. QED
      BY <3>1, <3>2, UnavailableIsBased
  <2>13. Accountable(known, result)
    BY <2>1, <2>3, <2>8, <2>9, <2>10, <2>11 DEF Accountable
  <2>. QED
    BY <2>1, <2>2, <2>13 DEF result
<1>. QED
  BY <1>1, <1>2 DEF runBatteryEngine

-----------------------------------------------------------------------------
(***************************************************************************)
(* The posture                                                             *)
(***************************************************************************)

\* One rule, when its condition holds and there is something to cite.
LEMMA PostureIsGrounded ==
  ASSUME NEW known, Sound(known), NEW cited \in SUBSET known,
         NEW direction \in Directions,
         NEW weight \in Weights, NEW strength \in Strengths, NEW rule
  PROVE  /\ cited # {} => Grounded(known, Posture(rule, direction, weight, strength, cited))
         /\ \A condition : (condition => cited # {}) =>
              AllGrounded(known, If(condition, Posture(rule, direction, weight, strength, cited)))
<1>1. cited # {} => Grounded(known, Posture(rule, direction, weight, strength, cited))
  <2>1. cited # {} => Stands(known, Posture(rule, direction, weight, strength, cited), direction, weight, strength, cited)
    BY DerivedIsGrounded, Zenon DEF Posture
  <2>. QED
    BY <2>1 DEF Stands
<1>. QED
  BY <1>1, NoneIsGrounded, OneIsGrounded DEF If

Each(rule, weight, strength, records) ==
  {Posture(rule, "SUPPORTS_NEGATIVE", weight, strength, {r}) : r \in records}

LEMMA EachIsGrounded ==
  ASSUME NEW known, Sound(known), NEW records \in SUBSET known,
         NEW weight \in Weights, NEW strength \in Strengths, NEW rule
  PROVE  AllGrounded(known, Each(rule, weight, strength, records))
<1>. DEFINE f == [r \in records |-> Posture(rule, "SUPPORTS_NEGATIVE", weight, strength, {r})]
<1>1. Each(rule, weight, strength, records) = {f[r] : r \in records}
  BY DEF Each
<1>2. \A r \in records : Grounded(known, f[r])
  <2>1. ASSUME NEW r \in records PROVE {r} \in SUBSET known /\ {r} # {}
    OBVIOUS
  <2>2. \A r \in records : Grounded(known, Posture(rule, "SUPPORTS_NEGATIVE", weight, strength, {r}))
    BY <2>1, DirectionsInUse, PostureIsGrounded, Zenon
  <2>. QED
    BY <2>2
<1>. HIDE DEF f
<1>3. IsFiniteSet({f[r] : r \in records})
  <2>1. IsFiniteSet(records)
    BY FS_Subset DEF Sound
  <2>. QED
    BY <2>1, ImageIsFinite
<1>. QED
  BY <1>1, <1>2, <1>3 DEF AllGrounded

LEMMA SecurityRecordsAreKnown ==
  ASSUME NEW known, Sound(known)
  PROVE  /\ bundleRecords(known) \in SUBSET known /\ serviceRecords(known) \in SUBSET known
         /\ lockRecord(known) \in SUBSET known /\ mdmRecord(known) \in SUBSET known
         /\ devModeRecord(known) \in SUBSET known /\ supervisedRecord(known) \in SUBSET known
         /\ activationRecord(known) \in SUBSET known
<1>1. \A key : State(known, key) \in SUBSET known
  BY BestIsKnown DEF State
<1>2. bundleRecords(known) \in SUBSET known /\ serviceRecords(known) \in SUBSET known
  BY DEF bundleRecords, serviceRecords, forSubject
<1>. QED
  BY <1>1, <1>2 DEF firstOf, lockRecord, mdmRecord, devModeRecord, supervisedRecord, activationRecord

LEMMA SecurityIsGrounded ==
  ASSUME NEW known, Sound(known)
  PROVE  AllGrounded(known, SecurityInferences(known))
<1>. DEFINE bundles   == Each("jailbreak-bundle-present", 95, 90, bundleRecords(known))
            advertised == Each("unsandboxed-service", 90, 88, serviceRecords(known))
            locked    == If(Holds(lockRecord(known)),
                            Posture("activation-lock-enabled", "SUPPORTS_NEGATIVE", 95, 90, lockRecord(known)))
            unlocked  == If(Fails(lockRecord(known)),
                            Posture("activation-lock-clear", "SUPPORTS_POSITIVE", 60, 85, lockRecord(known)))
            inactive  == If(notActivated(known),
                            Posture("not-activated", "SUPPORTS_NEGATIVE", 60, 90, activationRecord(known)))
            owned     == If(managed(known),
                            Posture("supervised-or-mdm", "SUPPORTS_NEGATIVE", 70, 85,
                                    supervisedRecord(known) \cup mdmRecord(known)))
            developing == If(Holds(devModeRecord(known)),
                            Posture("developer-mode-enabled", "SUPPORTS_NEGATIVE", 30, 85, devModeRecord(known)))
<1>1. SecurityInferences(known)
        = bundles \cup advertised \cup locked \cup unlocked \cup inactive \cup owned \cup developing
  BY DEF SecurityInferences, Each
<1>2. AllGrounded(known, bundles) /\ AllGrounded(known, advertised)
  <2>1. bundleRecords(known) \in SUBSET known /\ serviceRecords(known) \in SUBSET known
    BY SecurityRecordsAreKnown
  <2>2. AllGrounded(known, bundles)
    <3>1. 95 \in Weights /\ 90 \in Strengths
      BY WeightsInUse, StrengthsInUse
    <3>. QED
      BY <2>1, <3>1, EachIsGrounded, Zenon
  <2>3. AllGrounded(known, advertised)
    <3>1. 90 \in Weights /\ 88 \in Strengths
      BY WeightsInUse, StrengthsInUse
    <3>. QED
      BY <2>1, <3>1, EachIsGrounded, Zenon
  <2>. QED
    BY <2>2, <2>3
<1>3. AllGrounded(known, locked) /\ AllGrounded(known, unlocked)
  <2>1. /\ Holds(lockRecord(known)) => lockRecord(known) # {}
        /\ Fails(lockRecord(known)) => lockRecord(known) # {}
    BY DEF Holds, Fails
  <2>. QED
    BY <2>1, SecurityRecordsAreKnown, WeightsInUse, StrengthsInUse, DirectionsInUse,
       PostureIsGrounded, Zenon
<1>4. AllGrounded(known, inactive)
  <2>1. notActivated(known) => activationRecord(known) # {}
    BY DEF notActivated
  <2>. QED
    BY <2>1, SecurityRecordsAreKnown, WeightsInUse, StrengthsInUse, DirectionsInUse,
       PostureIsGrounded, Zenon
<1>5. AllGrounded(known, owned)
  <2>. DEFINE cited == supervisedRecord(known) \cup mdmRecord(known)
  <2>1. managed(known) => cited # {}
    BY DEF managed, Holds
  <2>2. cited \in SUBSET known
    BY SecurityRecordsAreKnown
  <2>. HIDE DEF cited
  <2>3. AllGrounded(known, If(managed(known), Posture("supervised-or-mdm", "SUPPORTS_NEGATIVE", 70, 85, cited)))
    BY <2>1, <2>2, WeightsInUse, StrengthsInUse, DirectionsInUse, PostureIsGrounded, Zenon
  <2>. QED
    BY <2>3 DEF cited
<1>6. AllGrounded(known, developing)
  <2>1. Holds(devModeRecord(known)) => devModeRecord(known) # {}
    BY DEF Holds
  <2>. QED
    BY <2>1, SecurityRecordsAreKnown, WeightsInUse, StrengthsInUse, DirectionsInUse,
       PostureIsGrounded, Zenon
<1>. HIDE DEF bundles, advertised, locked, unlocked, inactive, owned, developing
<1>. QED
  <2>1. AllGrounded(known, bundles \cup advertised \cup locked \cup unlocked)
    BY <1>2, <1>3, UnionIsGrounded
  <2>2. AllGrounded(known, inactive \cup owned \cup developing)
    BY <1>4, <1>5, <1>6, UnionIsGrounded
  <2>3. SecurityInferences(known)
          = (bundles \cup advertised \cup locked \cup unlocked) \cup (inactive \cup owned \cup developing)
    BY <1>1
  <2>. QED
    BY <2>1, <2>2, <2>3, UnionIsGrounded

LEMMA SecurityVerdictRests ==
  ASSUME NEW known, NEW inferences, AllGrounded(known, inferences)
  PROVE  Rests(SecurityVerdict(known, inferences), inferences)
<1>. DEFINE supporting == relevant(known, inferences)
            c == AtLeast(corroborate(supporting), 3000)
            none == Abstains("SECURITY_STATE", {})
            said == Verdict("SECURITY_STATE", SecurityValue(known), TRUE, c, supporting)
<1>0. SecurityVerdict(known, inferences) = IF inferences = {} THEN none ELSE said
  BY DEF SecurityVerdict
<1>. HIDE DEF none, said, c, supporting
<1>1. CASE inferences = {}
  BY <1>0, <1>1, AbstentionRests DEF none
<1>2. CASE inferences # {}
  <2>1. SecurityVerdict(known, inferences) = Verdict("SECURITY_STATE", SecurityValue(known), TRUE, c, supporting)
    BY <1>0, <1>2, Zenon DEF said
  <2>2. supporting \in SUBSET inferences /\ supporting # {}
    BY <1>2, SidesOfInferences DEF relevant, supporting
  <2>3. corroborate(supporting) \in 0..One
    BY <2>2, PartIsGrounded, GroundedIsWeighed, CorroborationIsShare
  <2>4. 3000 \in 1..One
    BY FloorsInUse
  <2>5. c \in 1..One
    BY <2>3, <2>4, FloorIsPositive DEF c
  <2>6. Rests(Verdict("SECURITY_STATE", SecurityValue(known), TRUE, c, supporting), inferences)
    BY <2>2, <2>5, VerdictRests, Zenon
  <2>. QED
    BY <2>1, <2>6, Zenon
<1>. QED
  BY <1>1, <1>2

LEMMA PostureIsScored ==
  ASSUME NEW known
  PROVE  /\ postureScore(known) \in 0..100
         /\ SecurityCoverage(known) \in 0..One
<1>1. \A condition, points : Points(condition, points) \in {points, 0}
  BY DEF Points
<1>2. postureScore(known) \in 0..100
  <2>. DEFINE a == Points(integrityCompromised(known), 55)
              b == Points(activationLockEnabled(known), 45)
              c == Points(lockRecord(known) = {}, 10)
              d == Points(notActivated(known), 20)
              e == Points(managed(known), 25)
              f == Points(Holds(devModeRecord(known)), 5)
  <2>1. a \in Nat /\ b \in Nat /\ c \in Nat /\ d \in Nat /\ e \in Nat /\ f \in Nat
    BY <1>1
  <2>2. postureScore(known) = 100 - AtMost(a + b + c + d + e + f, 100)
    BY DEF postureScore
  <2>. HIDE DEF a, b, c, d, e, f
  <2>3. AtMost(a + b + c + d + e + f, 100) \in 0..100
    BY <2>1 DEF AtMost
  <2>. QED
    BY <2>2, <2>3
<1>3. SecurityCoverage(known) \in 0..One
  <2>. DEFINE a == Points(\/ integrityCompromised(known)
                          \/ Has(known, "SECURITY_STATE", "DiagnosticsRelayResponded")
                          \/ Has(known, "SECURITY_STATE", "InstalledAppCount"), 1)
              b == Points(lockRecord(known) # {}, 1)
              c == Points(activationRecord(known) # {}, 1)
              d == Points(supervisedRecord(known) \cup mdmRecord(known) # {}, 1)
              e == Points(passcodeRecord(known) # {}, 1)
  <2>1. a \in 0..1 /\ b \in 0..1 /\ c \in 0..1 /\ d \in 0..1 /\ e \in 0..1
    <3>1. \A condition : Points(condition, 1) \in 0..1
      BY DEF Points
    <3>. QED
      BY <3>1, Zenon
  <2>2. SecurityCoverage(known) = 2000 * (a + b + c + d + e)
    BY DEF SecurityCoverage
  <2>. HIDE DEF a, b, c, d, e
  <2>3. 2000 * (a + b + c + d + e) \in 0..One
    BY <2>1, OneIs
  <2>. QED
    BY <2>2, <2>3, OneIs
<1>. QED
  BY <1>2, <1>3

LEMMA SecurityIsAccountable ==
  ASSUME NEW known, Sound(known)
  PROVE  Accountable(known, runSecurityEngine(known))
<1>. DEFINE inferences == SecurityInferences(known)
            verdict    == SecurityVerdict(known, inferences)
            coverage   == SecurityCoverage(known)
            confidence == Round3(Times(verdict.confidence, (One + coverage) \div 2))
            result     == runSecurityEngine(known)
            compromising == {i \in inferences : i.rule \in {"jailbreak-bundle-present", "unsandboxed-service"}}
            owners     == supervisedRecord(known) \cup mdmRecord(known)
            indicators == bundleRecords(known) \cup serviceRecords(known)
<1>1. /\ result.verdicts = {verdict} /\ result.inferences = inferences
      /\ result.coverage = coverage /\ result.confidence = confidence
      /\ result.findings = SecurityFindings(known, inferences)
  BY DEF runSecurityEngine
<1>2. SecurityFindings(known, inferences) =
        If(integrityCompromised(known), Finding("SECURITY_INTEGRITY_COMPROMISED", indicators, compromising))
        \cup If(activationLockEnabled(known), Finding("SECURITY_ACTIVATION_LOCK_ON", lockRecord(known), {}))
        \cup If(lockRecord(known) = {}, Gap("SECURITY_ACTIVATION_LOCK_UNKNOWN"))
        \cup If(managed(known), Finding("SECURITY_MDM_SUPERVISED", owners, {}))
  BY DEF SecurityFindings
<1>3. AllGrounded(known, inferences)
  BY SecurityIsGrounded
<1>. HIDE DEF result, inferences
<1>4. Rests(verdict, inferences)
  BY <1>3, SecurityVerdictRests
<1>. HIDE DEF verdict
<1>5. coverage \in 0..One
  BY PostureIsScored
<1>. HIDE DEF coverage
<1>6. confidence \in 0..One
  <2>1. (One + coverage) \div 2 \in 0..One
    BY <1>5, OneIs
  <2>. QED
    BY <1>4, <2>1, TimesOfShares, RoundedShare DEF Rests
<1>7. /\ owners \in SUBSET known /\ indicators \in SUBSET known /\ lockRecord(known) \in SUBSET known
      /\ managed(known) => owners # {}
      /\ integrityCompromised(known) => indicators # {}
      /\ activationLockEnabled(known) => lockRecord(known) # {}
  BY SecurityRecordsAreKnown DEF managed, integrityCompromised, activationLockEnabled, Holds
<1>. HIDE DEF owners, indicators, compromising, confidence
<1>8. ASSUME NEW finding \in SecurityFindings(known, inferences)
      PROVE  Based(known, finding)
  <2>1. /\ integrityCompromised(known) => Based(known, Finding("SECURITY_INTEGRITY_COMPROMISED", indicators, compromising))
        /\ activationLockEnabled(known) => Based(known, Finding("SECURITY_ACTIVATION_LOCK_ON", lockRecord(known), {}))
        /\ managed(known) => Based(known, Finding("SECURITY_MDM_SUPERVISED", owners, {}))
        /\ Based(known, Gap("SECURITY_ACTIVATION_LOCK_UNKNOWN"))
    BY <1>7, FindingIsBased, GapIsBased
  <2>. QED
    BY <1>2, <2>1, Zenon DEF If
<1>. QED
  BY <1>1, <1>3, <1>4, <1>5, <1>6, <1>8 DEF Accountable, result

-----------------------------------------------------------------------------
(***************************************************************************)
(* The components                                                          *)
(***************************************************************************)

\* A rule about a component, resting on some readings of the ledger.
LEMMA PartRuleIsGrounded ==
  ASSUME NEW known, Sound(known), NEW cited \in SUBSET known, cited # {},
         NEW direction \in Directions,
         NEW weight \in Weights, NEW strength \in Strengths, NEW s, NEW rule
  PROVE  Stands(known, PartRule(s, rule, direction, weight, strength, cited), direction, weight, strength, cited)
BY DerivedIsGrounded, Zenon DEF PartRule

LEMMA LabelsAreKnown ==
  ASSUME NEW known, Sound(known), NEW s
  PROVE  /\ label(known, s) \in SUBSET known
         /\ Labels(known) \in SUBSET known
         /\ SectionAbsent(known) => best(known, "DEVICE", "ServiceHistorySectionAbsent") # {}
BY BestIsKnown DEF label, Labels, SectionAbsent, Says

\* What the service screen says of a component: one inference at most, against
\* it when it is listed, for it when another is or when the screen is empty.
LEMMA HistoryIsGrounded ==
  ASSUME NEW known, Sound(known), NEW s
  PROVE  /\ AllGrounded(known, FromHistory(known, s))
         /\ label(known, s) # {} =>
              \E i : /\ FromHistory(known, s) = {i} /\ i.direction = "SUPPORTS_NEGATIVE"
                     /\ i.weight = 90 /\ i.confidence \in 5400..One
         /\ FromHistory(known, s) # {} =>
              label(known, s) # {} \/ SectionAbsent(known) \/ Labels(known) # {}
<1>. DEFINE listed == PartRule(s, "listed-in-service-history", "SUPPORTS_NEGATIVE", 90, 90, label(known, s))
            absent == PartRule(s, "no-service-history-section", "SUPPORTS_POSITIVE", 60, 75,
                               best(known, "DEVICE", "ServiceHistorySectionAbsent"))
            other  == PartRule(s, "absent-from-populated-history", "SUPPORTS_POSITIVE", 65, 80,
                               {CHOOSE r \in Labels(known) : TRUE})
<1>1. label(known, s) # {} =>
        /\ Grounded(known, listed) /\ listed.direction = "SUPPORTS_NEGATIVE"
        /\ listed.weight = 90 /\ listed.confidence \in 5400..One
  <2>. SUFFICES ASSUME label(known, s) # {}
                PROVE  /\ Grounded(known, listed) /\ listed.direction = "SUPPORTS_NEGATIVE"
                       /\ listed.weight = 90 /\ listed.confidence \in 5400..One
    OBVIOUS
  <2>. DEFINE cited == label(known, s)
  <2>0. cited \in SUBSET known /\ cited # {}
    BY LabelsAreKnown
  <2>. HIDE DEF cited
  <2>9. Stands(known, PartRule(s, "listed-in-service-history", "SUPPORTS_NEGATIVE", 90, 90, cited),
               "SUPPORTS_NEGATIVE", 90, 90, cited)
    BY <2>0, WeightsInUse, StrengthsInUse, DirectionsInUse, PartRuleIsGrounded, Zenon
  <2>1. /\ Grounded(known, listed) /\ listed.direction = "SUPPORTS_NEGATIVE" /\ listed.weight = 90
        /\ listed.confidence \in Nat /\ 90 * 60 <= listed.confidence
    BY <2>9 DEF cited, Stands
  <2>2. listed.confidence \in Believable
    BY <2>1 DEF Grounded
  <2>. DEFINE c == listed.confidence
  <2>3. c \in Believable /\ 90 * 60 <= c
    BY <2>1, <2>2
  <2>. HIDE DEF c
  <2>4. c \in 5400..One
    BY <2>3, OneIs DEF Believable
  <2>. HIDE DEF listed
  <2>. QED
    BY <2>1, <2>4 DEF c
<1>2. SectionAbsent(known) => Grounded(known, absent)
  <2>1. best(known, "DEVICE", "ServiceHistorySectionAbsent") \in SUBSET known
    BY BestIsKnown
  <2>. DEFINE cited == best(known, "DEVICE", "ServiceHistorySectionAbsent")
  <2>2. SectionAbsent(known) => cited # {}
    BY LabelsAreKnown
  <2>. HIDE DEF cited
  <2>3. SectionAbsent(known) =>
          Stands(known, PartRule(s, "no-service-history-section", "SUPPORTS_POSITIVE", 60, 75, cited),
                 "SUPPORTS_POSITIVE", 60, 75, cited)
    BY <2>1, <2>2, WeightsInUse, StrengthsInUse, DirectionsInUse, PartRuleIsGrounded, Zenon DEF cited
  <2>. QED
    BY <2>3 DEF cited, Stands
<1>3. Labels(known) # {} => Grounded(known, other)
  <2>1. Labels(known) # {} => (CHOOSE r \in Labels(known) : TRUE) \in known
    BY LabelsAreKnown
  <2>. DEFINE r == CHOOSE r \in Labels(known) : TRUE
  <2>2. Labels(known) # {} => {r} \in SUBSET known
    BY <2>1
  <2>. HIDE DEF r
  <2>3. {r} # {}
    OBVIOUS
  <2>4. Labels(known) # {} =>
          Stands(known, PartRule(s, "absent-from-populated-history", "SUPPORTS_POSITIVE", 65, 80, {r}),
                 "SUPPORTS_POSITIVE", 65, 80, {r})
    BY <2>2, <2>3, WeightsInUse, StrengthsInUse, DirectionsInUse, PartRuleIsGrounded, Zenon
  <2>. QED
    BY <2>4 DEF r, Stands
<1>4. \/ label(known, s) # {} /\ FromHistory(known, s) = {listed}
      \/ label(known, s) = {} /\ FromHistory(known, s) = {}
      \/ label(known, s) = {} /\ SectionAbsent(known) /\ FromHistory(known, s) = {absent}
      \/ label(known, s) = {} /\ Labels(known) # {} /\ FromHistory(known, s) = {other}
  BY DEF FromHistory
<1>. HIDE DEF listed, absent, other
<1>. QED
  BY <1>1, <1>2, <1>3, <1>4, NoneIsGrounded, OneIsGrounded

LEMMA DiagnosticsAreModest ==
  ASSUME NEW e \in DOMAIN DIAGNOSTIC_RULES
  PROVE  DIAGNOSTIC_RULES[e][1] \in Weights /\ DIAGNOSTIC_RULES[e][2] \in Strengths
BY WeightsInUse, StrengthsInUse DEF DIAGNOSTIC_RULES

LEMMA DiagnosticsAreGrounded ==
  ASSUME NEW known, Sound(known), NEW s
  PROVE  /\ AllGrounded(known, FromDiagnostics(known, s))
         /\ \A i \in FromDiagnostics(known, s) : i.direction = "SUPPORTS_NEGATIVE"
<1>. DEFINE events == Diagnostics(known, s)
            f == [r \in events |-> PartRule(s, r.key, "SUPPORTS_NEGATIVE", DIAGNOSTIC_RULES[r.key][1],
                                            DIAGNOSTIC_RULES[r.key][2], {r})]
<1>1. FromDiagnostics(known, s) = {f[r] : r \in events}
  BY DEF FromDiagnostics
<1>2. events \in SUBSET known /\ \A r \in events : r.key \in DOMAIN DIAGNOSTIC_RULES
  BY DEF Diagnostics, forSubject
<1>3. ASSUME NEW r \in events PROVE Grounded(known, f[r]) /\ f[r].direction = "SUPPORTS_NEGATIVE"
  <2>. DEFINE w == DIAGNOSTIC_RULES[r.key][1]
              c == DIAGNOSTIC_RULES[r.key][2]
  <2>1. w \in Weights /\ c \in Strengths
    BY <1>2, DiagnosticsAreModest
  <2>2. {r} \in SUBSET known /\ {r} # {}
    BY <1>2
  <2>3. f[r] = PartRule(s, r.key, "SUPPORTS_NEGATIVE", w, c, {r})
    OBVIOUS
  <2>. HIDE DEF w, c, f, events
  <2>4. Stands(known, PartRule(s, r.key, "SUPPORTS_NEGATIVE", w, c, {r}), "SUPPORTS_NEGATIVE", w, c, {r})
    BY <2>1, <2>2, DirectionsInUse, PartRuleIsGrounded, Zenon
  <2>. QED
    BY <2>3, <2>4 DEF Stands
<1>. HIDE DEF f, events
<1>4. IsFiniteSet({f[r] : r \in events})
  <2>1. IsFiniteSet(events)
    BY <1>2, FS_Subset DEF Sound
  <2>. QED
    BY <2>1, ImageIsFinite
<1>. QED
  BY <1>1, <1>3, <1>4 DEF AllGrounded

\* True Tone speaks for a panel once at most, and weakly.
Faint(i) == i.weight = 25 /\ i.confidence \in 0..5820

LEMMA TrueToneIsGrounded ==
  ASSUME NEW known, Sound(known), NEW device, NEW s
  PROVE  /\ AllGrounded(known, FromTrueTone(known, device, s))
         /\ \/ FromTrueTone(known, device, s) = {}
            \/ \E i : /\ FromTrueTone(known, device, s) = {i}
                      /\ i.direction = "SUPPORTS_POSITIVE" => Faint(i)
<1>. DEFINE absent(r) == PartRule(s, "true-tone-absent", "SUPPORTS_NEGATIVE", 60, 80, {r})
            present(r) == PartRule(s, "true-tone-present", "SUPPORTS_POSITIVE", 25, 60, {r})
<1>1. /\ TrueTone(known) = {} \/ \E e : TrueTone(known) = {e}
      /\ \A e \in TrueTone(known) : e \in known /\ e.kind # "COLLECTION_FAILURE"
  BY BestIsKnown DEF TrueTone, firstDefined
<1>2. ASSUME NEW r \in TrueTone(known)
      PROVE  /\ Grounded(known, absent(r)) /\ absent(r).direction = "SUPPORTS_NEGATIVE"
             /\ Grounded(known, present(r)) /\ Faint(present(r))
  <2>1. {r} \in SUBSET known /\ {r} # {} /\ r.reliability \in 60..97
    BY <1>1, SoundRecords
  <2>6. Stands(known, absent(r), "SUPPORTS_NEGATIVE", 60, 80, {r})
    BY <2>1, WeightsInUse, StrengthsInUse, DirectionsInUse, PartRuleIsGrounded, Zenon
  <2>7. Stands(known, present(r), "SUPPORTS_POSITIVE", 25, 60, {r})
    BY <2>1, WeightsInUse, StrengthsInUse, DirectionsInUse, PartRuleIsGrounded, Zenon
  <2>2. Grounded(known, absent(r)) /\ absent(r).direction = "SUPPORTS_NEGATIVE"
    BY <2>6 DEF Stands
  <2>3. /\ Grounded(known, present(r)) /\ present(r).weight = 25
        /\ present(r).confidence \in Nat /\ \A x \in {r} : present(r).confidence <= 60 * x.reliability
    BY <2>7 DEF Stands
  <2>. DEFINE c == present(r).confidence
              x == r.reliability
  <2>4. c \in Nat /\ c <= 60 * x /\ x \in 60..97
    BY <2>1, <2>3
  <2>5. c \in 0..5820
    <3>. HIDE DEF c, x
    <3>. QED
      BY <2>4
  <2>8. Faint(present(r))
    BY <2>3, <2>5 DEF Faint, c
  <2>. HIDE DEF absent, present, Faint
  <2>. QED
    BY <2>2, <2>3, <2>8
<1>3. FromTrueTone(known, device, s) =
        IF s # "DISPLAY" \/ ~device.shippedTrueTone THEN {}
        ELSE {absent(r) : r \in {x \in TrueTone(known) : x.value = "false"}}
             \cup {present(r) : r \in {x \in TrueTone(known) : x.value = "true"}}
  BY DEF FromTrueTone
<1>. HIDE DEF absent, present
<1>4. \/ FromTrueTone(known, device, s) = {}
      \/ \E r \in TrueTone(known) : FromTrueTone(known, device, s) \in {{absent(r)}, {present(r)}}
  <2>1. CASE TrueTone(known) = {}
    BY <1>3, <2>1
  <2>2. CASE \E e : TrueTone(known) = {e}
    <3>1. PICK e : TrueTone(known) = {e}
      BY <2>2
    <3>2. /\ {x \in TrueTone(known) : x.value = "false"} = IF e.value = "false" THEN {e} ELSE {}
          /\ {x \in TrueTone(known) : x.value = "true"} = IF e.value = "true" THEN {e} ELSE {}
      BY <3>1
    <3>3. e.value = "false" => e.value # "true"
      OBVIOUS
    <3>. QED
      BY <1>3, <3>1, <3>2, <3>3
  <2>. QED
    BY <1>1, <2>1, <2>2
<1>5. CASE FromTrueTone(known, device, s) = {}
  BY <1>5, NoneIsGrounded
<1>6. CASE \E r \in TrueTone(known) : FromTrueTone(known, device, s) \in {{absent(r)}, {present(r)}}
  BY <1>2, <1>6, OneIsGrounded
<1>. QED
  BY <1>4, <1>5, <1>6

LEMMA FaceIdIsGrounded ==
  ASSUME NEW known, Sound(known), NEW device, NEW s
  PROVE  /\ AllGrounded(known, FromFaceId(known, device, s))
         /\ \A i \in FromFaceId(known, device, s) : i.direction = "SUPPORTS_NEGATIVE"
<1>. DEFINE absent(r) == PartRule(s, "face-id-capability-absent", "SUPPORTS_NEGATIVE", 70, 80, {r})
            lost == {x \in FaceId(known) : x.value = "false"}
            f == [r \in lost |-> absent(r)]
<1>1. FromFaceId(known, device, s) = {} \/ FromFaceId(known, device, s) = {f[r] : r \in lost}
  BY DEF FromFaceId
<1>2. lost \in SUBSET known
  BY BestIsKnown DEF FaceId, firstDefined
<1>3. ASSUME NEW r \in lost PROVE Grounded(known, f[r]) /\ f[r].direction = "SUPPORTS_NEGATIVE"
  <2>1. {r} \in SUBSET known /\ {r} # {}
    BY <1>2
  <2>2. Grounded(known, absent(r)) /\ absent(r).direction = "SUPPORTS_NEGATIVE"
    <3>. HIDE DEF f, lost
    <3>1. Stands(known, absent(r), "SUPPORTS_NEGATIVE", 70, 80, {r})
      BY <2>1, WeightsInUse, StrengthsInUse, DirectionsInUse, PartRuleIsGrounded, Zenon
    <3>. QED
      BY <3>1 DEF Stands
  <2>. QED
    BY <2>2
<1>. HIDE DEF f, lost
<1>4. IsFiniteSet({f[r] : r \in lost})
  <2>1. IsFiniteSet(lost)
    BY <1>2, FS_Subset DEF Sound
  <2>. QED
    BY <2>1, ImageIsFinite
<1>. QED
  BY <1>1, <1>3, <1>4, NoneIsGrounded DEF AllGrounded

LEMMA AboutIsGrounded ==
  ASSUME NEW known, Sound(known), NEW device, NEW s
  PROVE  AllGrounded(known, About(known, device, s))
<1>1. /\ AllGrounded(known, FromHistory(known, s)) /\ AllGrounded(known, FromDiagnostics(known, s))
      /\ AllGrounded(known, FromTrueTone(known, device, s)) /\ AllGrounded(known, FromFaceId(known, device, s))
  BY HistoryIsGrounded, DiagnosticsAreGrounded, TrueToneIsGrounded, FaceIdIsGrounded
<1>2. AllGrounded(known, FromHistory(known, s) \cup FromDiagnostics(known, s))
  BY <1>1, UnionIsGrounded
<1>3. AllGrounded(known, FromHistory(known, s) \cup FromDiagnostics(known, s) \cup FromTrueTone(known, device, s))
  BY <1>1, <1>2, UnionIsGrounded
<1>. QED
  BY <1>1, <1>3, UnionIsGrounded DEF About

\* Unless the service screen speaks for a component, little does.
LEMMA LittleSpeaksForIt ==
  ASSUME NEW known, Sound(known), NEW device, NEW s,
         \A i \in FromHistory(known, s) : i.direction = "SUPPORTS_NEGATIVE"
  PROVE  Mass(Benign(About(known, device, s))) \in 0..1455
<1>. DEFINE benign == Benign(About(known, device, s))
<1>1. benign \subseteq FromTrueTone(known, device, s)
      /\ \A i \in benign : i.direction = "SUPPORTS_POSITIVE"
  BY DiagnosticsAreGrounded, FaceIdIsGrounded DEF Benign, About
<1>2. benign = {} \/ \E i : benign = {i} /\ Faint(i)
  BY <1>1, TrueToneIsGrounded
<1>3. Weighed(benign)
  BY AboutIsGrounded, SidesOfInferences, PartIsGrounded, GroundedIsWeighed
<1>. HIDE DEF benign
<1>4. CASE benign = {}
  BY <1>4, MassOfNone DEF benign
<1>5. ASSUME NEW i, benign = {i}, Faint(i) PROVE Mass(benign) \in 0..1455
  <2>1. Mass(benign) = (i.weight * i.confidence) \div 100
    BY <1>3, <1>5, MassIsNatural
  <2>. DEFINE c == i.confidence
  <2>2. c \in 0..5820 /\ i.weight = 25
    BY <1>5 DEF Faint
  <2>3. Mass(benign) = (25 * c) \div 100
    BY <2>1, <2>2
  <2>. HIDE DEF c
  <2>4. (25 * c) \div 100 \in 0..1455
    BY <2>2
  <2>. QED
    BY <2>3, <2>4
<1>. QED
  BY <1>2, <1>4, <1>5 DEF benign

\* A component is settled on inferences that say so, or not at all.
LEMMA ComponentRests ==
  ASSUME NEW known, NEW inferences, AllGrounded(known, inferences), NEW s
  PROVE  LET v == ConcludeComponent(s, inferences)
         IN  /\ Rests(v, inferences)
             /\ v.value \in {"CANNOT_DETERMINE", "REPLACED_LIKELY", "ORIGINAL_LIKELY"}
             /\ v.determined <=> v.value # "CANNOT_DETERMINE"
             /\ \A a, b \in Nat :
                  Mass(Adverse(inferences)) = a /\ Mass(Benign(inferences)) = b =>
                    /\ a >= 4860 /\ b <= 1455 => v.value = "REPLACED_LIKELY"
                    /\ b <= 1455 => v.value # "ORIGINAL_LIKELY"
<1>. DEFINE adverse == Adverse(inferences)
            benign == Benign(inferences)
            replaced == Mass(adverse)
            original == Mass(benign)
            total == replaced + original
            settled(value, supporting, opposing) ==
              Verdict(s, value, TRUE, AtLeast(verdictConfidence(supporting, opposing), 2500), supporting)
            abstained == Abstains(s, inferences)
            v == ConcludeComponent(s, inferences)
<1>1. v = IF total < 2500 THEN abstained
          ELSE IF 100 * replaced >= 45 * total THEN settled("REPLACED_LIKELY", adverse, original)
          ELSE IF 100 * original >= 60 * total THEN settled("ORIGINAL_LIKELY", benign, replaced)
          ELSE abstained
  BY DEF ConcludeComponent, minimumMass
<1>2. adverse \in SUBSET inferences /\ benign \in SUBSET inferences
  BY SidesOfInferences
<1>3. Weighed(adverse) /\ Weighed(benign) /\ replaced \in Nat /\ original \in Nat
  BY <1>2, PartIsGrounded, GroundedIsWeighed
<1>4. (adverse = {} => replaced = 0) /\ (benign = {} => original = 0)
  BY MassOfNone
<1>5. Rests(abstained, inferences) /\ abstained.value = "CANNOT_DETERMINE" /\ ~abstained.determined
  BY AbstentionRests
<1>6. ASSUME NEW value, NEW supporting \in SUBSET inferences, supporting # {}, Weighed(supporting),
             NEW opposing \in Nat
      PROVE  /\ Rests(settled(value, supporting, opposing), inferences)
             /\ settled(value, supporting, opposing).value = value
             /\ settled(value, supporting, opposing).determined
  <2>. DEFINE x == verdictConfidence(supporting, opposing)
  <2>1. x \in 0..One
    BY <1>6, VerdictConfidenceIsShare
  <2>. HIDE DEF x
  <2>2. 2500 \in 1..One
    BY OneIs
  <2>3. AtLeast(x, 2500) \in 1..One
    BY <2>1, <2>2, FloorIsPositive
  <2>. DEFINE c == AtLeast(x, 2500)
  <2>. HIDE DEF c
  <2>4. Rests(Verdict(s, value, TRUE, c, supporting), inferences)
    <3>1. c \in 1..One
      BY <2>3 DEF c
    <3>. HIDE DEF c
    <3>. QED
      BY <1>6, <3>1, VerdictRests, Zenon
  <2>5. settled(value, supporting, opposing) = Verdict(s, value, TRUE, c, supporting)
    BY DEF c, x
  <2>. HIDE DEF settled
  <2>6. settled(value, supporting, opposing).value = value /\ settled(value, supporting, opposing).determined
    BY <2>5 DEF Verdict
  <2>7. Rests(settled(value, supporting, opposing), inferences)
    BY <2>4, <2>5, Zenon
  <2>. QED
    BY <2>6, <2>7
<1>. HIDE DEF adverse, benign, replaced, original, settled, abstained, v
<1>7. CASE total < 2500 \/ (~(100 * replaced >= 45 * total) /\ ~(100 * original >= 60 * total))
  <2>1. v = abstained
    BY <1>1, <1>7
  <2>2. ~(replaced >= 4860 /\ original <= 1455)
    BY <1>3, <1>7
  <2>. QED
    BY <1>5, <2>1, <2>2 DEF v, adverse, benign, replaced, original
<1>8. CASE total >= 2500 /\ 100 * replaced >= 45 * total
  <2>1. v = settled("REPLACED_LIKELY", adverse, original)
    BY <1>1, <1>3, <1>8
  <2>2. adverse # {}
    BY <1>3, <1>4, <1>8
  <2>3. Rests(v, inferences) /\ v.value = "REPLACED_LIKELY" /\ v.determined
    BY <1>2, <1>3, <1>6, <2>1, <2>2
  <2>. QED
    BY <2>3 DEF v
<1>9. CASE total >= 2500 /\ ~(100 * replaced >= 45 * total) /\ 100 * original >= 60 * total
  <2>1. v = settled("ORIGINAL_LIKELY", benign, replaced)
    BY <1>1, <1>3, <1>9
  <2>2. benign # {} /\ original > 1455
    BY <1>3, <1>4, <1>9
  <2>3. Rests(v, inferences) /\ v.value = "ORIGINAL_LIKELY" /\ v.determined
    BY <1>2, <1>3, <1>6, <2>1, <2>2
  <2>. QED
    BY <1>3, <2>2, <2>3 DEF v, adverse, benign, replaced, original
<1>10. total \in Nat
  BY <1>3
<1>. QED
  BY <1>3, <1>7, <1>8, <1>9, <1>10

\* The weights of the components, and the parts a device has.
LEMMA PartsAreWeighted ==
  ASSUME NEW device
  PROVE  /\ IsFiniteSet(DOMAIN ComponentWeight)
         /\ \A s \in DOMAIN ComponentWeight : ComponentWeight[s] \in Nat /\ ComponentWeight[s] > 0
         /\ applicableComponents(device) \in SUBSET DOMAIN ComponentWeight
         /\ "DISPLAY" \in applicableComponents(device)
<1>1. DOMAIN ComponentWeight = {"DISPLAY"} \cup {"BATTERY"} \cup {"FACE_ID"} \cup {"REAR_CAMERA"}
        \cup {"LOGIC_BOARD"} \cup {"FRONT_CAMERA"} \cup {"TOUCH_ID"} \cup {"REAR_HOUSING"} \cup {"LIDAR"}
        \cup {"SPEAKER"} \cup {"MICROPHONE"} \cup {"TAPTIC_ENGINE"}
  BY DEF ComponentWeight
<1>2. IsFiniteSet(DOMAIN ComponentWeight)
  <2>1. IsFiniteSet({"DISPLAY"} \cup {"BATTERY"} \cup {"FACE_ID"})
    BY ThreeAreFinite, Zenon
  <2>2. IsFiniteSet({"DISPLAY"} \cup {"BATTERY"} \cup {"FACE_ID"} \cup {"REAR_CAMERA"}
                  \cup {"LOGIC_BOARD"} \cup {"FRONT_CAMERA"})
    BY <2>1, ThreeMoreAreFinite, Zenon
  <2>3. IsFiniteSet({"DISPLAY"} \cup {"BATTERY"} \cup {"FACE_ID"} \cup {"REAR_CAMERA"}
                  \cup {"LOGIC_BOARD"} \cup {"FRONT_CAMERA"} \cup {"TOUCH_ID"}
                  \cup {"REAR_HOUSING"} \cup {"LIDAR"})
    BY <2>2, ThreeMoreAreFinite, Zenon
  <2>4. IsFiniteSet({"DISPLAY"} \cup {"BATTERY"} \cup {"FACE_ID"} \cup {"REAR_CAMERA"}
                  \cup {"LOGIC_BOARD"} \cup {"FRONT_CAMERA"} \cup {"TOUCH_ID"}
                  \cup {"REAR_HOUSING"} \cup {"LIDAR"} \cup {"SPEAKER"} \cup {"MICROPHONE"}
                  \cup {"TAPTIC_ENGINE"})
    BY <2>3, ThreeMoreAreFinite, Zenon
  <2>. QED
    BY <1>1, <2>4, Zenon
<1>3. \A s \in DOMAIN ComponentWeight : ComponentWeight[s] \in Nat /\ ComponentWeight[s] > 0
  BY DEF ComponentWeight
<1>. QED
  BY <1>1, <1>2, <1>3 DEF applicableComponents

\* The weight of a set of components; there is some in any of them.
LEMMA WeightsAddUp ==
  ASSUME NEW parts \in SUBSET DOMAIN ComponentWeight
  PROVE  /\ IsFiniteSet(parts) /\ NaturalOn(ComponentWeight, parts) /\ WeightOf(parts) \in Nat
         /\ parts # {} => WeightOf(parts) > 0
         /\ \A some \in SUBSET parts : WeightOf(some) <= WeightOf(parts)
<1>1. IsFiniteSet(parts) /\ NaturalOn(ComponentWeight, parts)
  BY PartsAreWeighted, FS_Subset DEF NaturalOn
<1>2. SumFunctionOnSet(ComponentWeight, parts) \in Nat
  BY <1>1, SumIsNatural
<1>3. ASSUME NEW s \in parts PROVE SumFunctionOnSet(ComponentWeight, parts) > 0
  <2>1. ComponentWeight[s] <= SumFunctionOnSet(ComponentWeight, parts)
    BY <1>1, TermIsInSum
  <2>2. ComponentWeight[s] \in Nat /\ ComponentWeight[s] > 0
    BY PartsAreWeighted
  <2>. QED
    BY <1>2, <2>1, <2>2
<1>4. \A some \in SUBSET parts : SumFunctionOnSet(ComponentWeight, some) <= SumFunctionOnSet(ComponentWeight, parts)
  BY <1>1, SumOfPart
<1>. QED
  BY <1>1, <1>2, <1>3, <1>4 DEF WeightOf

\* Every part of a device has a verdict of its own.
LEMMA ComponentsOfService ==
  ASSUME NEW known, NEW device
  PROVE  LET result == runServiceEngine(known, device)
         IN  /\ DOMAIN result.components = applicableComponents(device)
             /\ \A s \in applicableComponents(device) :
                  /\ result.components[s].verdict = ConcludeComponent(s, About(known, device, s)).value
                  /\ result.components[s].authenticity = authenticity(known, device, s)
BY DEF runServiceEngine

LEMMA ServiceFindingsAreBased ==
  ASSUME NEW known, Sound(known), NEW device, NEW coverage,
         NEW finding \in ServiceFindings(known, device, coverage)
  PROVE  Based(known, finding)
<1>1. \/ \E code : finding = Gap(code)
      \/ \E code, s : finding = Finding(code, label(known, s), {}) /\ label(known, s) # {}
  BY Zenon DEF ServiceFindings
<1>2. \A s : label(known, s) \in SUBSET known
  BY LabelsAreKnown
<1>. QED
  BY <1>1, <1>2, FindingIsBased, GapIsBased

LEMMA ServiceIsAccountable ==
  ASSUME NEW known, Sound(known), NEW device
  PROVE  Accountable(known, runServiceEngine(known, device))
<1>. DEFINE parts      == applicableComponents(device)
            about      == [s \in parts |-> About(known, device, s)]
            verdict    == [s \in parts |-> ConcludeComponent(s, about[s])]
            determined == {s \in parts : verdict[s].determined}
            coverage   == Round3(Ratio(WeightOf(determined), WeightOf(parts)))
            weighted   == [s \in determined |-> verdict[s].confidence * ComponentWeight[s]]
            mean       == IF determined = {} THEN 0 ELSE SumFunction(weighted) \div WeightOf(determined)
            inferences == UNION {about[s] : s \in parts}
            result     == runServiceEngine(known, device)
<1>1. /\ result.verdicts = {verdict[s] : s \in parts} /\ result.inferences = inferences
      /\ result.coverage = coverage /\ result.confidence = dampByCoverage(mean, coverage)
      /\ result.findings = ServiceFindings(known, device, coverage)
  BY DEF runServiceEngine
<1>2. parts \in SUBSET DOMAIN ComponentWeight /\ parts # {}
  BY PartsAreWeighted
<1>3. \A s \in parts : about[s] = About(known, device, s) /\ verdict[s] = ConcludeComponent(s, about[s])
  OBVIOUS
<1>4. \A s \in parts : AllGrounded(known, about[s])
  BY AboutIsGrounded
<1>5. determined \in SUBSET parts
  OBVIOUS
<1>. HIDE DEF result, parts, about
<1>6. AllGrounded(known, inferences)
  <2>1. IsFiniteSet(parts)
    BY <1>2, WeightsAddUp
  <2>2. IsFiniteSet({about[s] : s \in parts})
    BY <2>1, ImageIsFinite
  <2>3. IsFiniteSet(UNION {about[s] : s \in parts})
    BY <1>4, <2>2, FS_UNION DEF AllGrounded
  <2>. QED
    BY <1>4, <2>3 DEF AllGrounded
<1>. HIDE DEF verdict
<1>7. ASSUME NEW s \in parts PROVE Rests(verdict[s], inferences)
  <2>1. Rests(verdict[s], about[s])
    BY <1>3, <1>4, <1>7, ComponentRests
  <2>2. about[s] \subseteq inferences
    BY <1>7
  <2>. HIDE DEF inferences
  <2>. QED
    BY <2>1, <2>2 DEF Rests
<1>. HIDE DEF determined, inferences
<1>8. coverage \in 0..One
  <2>. DEFINE a == WeightOf(determined)
              b == WeightOf(parts)
  <2>1. a \in Nat /\ b \in Nat /\ b > 0 /\ a <= b
    <3>1. determined \in SUBSET DOMAIN ComponentWeight
      BY <1>2, <1>5
    <3>2. a \in Nat
      BY <3>1, WeightsAddUp
    <3>3. b \in Nat /\ b > 0 /\ a <= b
      BY <1>2, <1>5, WeightsAddUp
    <3>. QED
      BY <3>2, <3>3
  <2>. HIDE DEF a, b
  <2>2. Round3(Ratio(a, b)) \in 0..One
    BY <2>1, RatioIsShare, RoundedShare
  <2>. QED
    BY <2>2 DEF a, b
<1>9. mean \in 0..One
  <2>1. CASE determined = {}
    BY <2>1, OneIs
  <2>2. CASE determined # {}
    <3>. DEFINE share == [s \in determined |-> verdict[s].confidence]
                mass == SumFunction(weighted)
                weight == SumFunctionOnSet(ComponentWeight, determined)
    <3>1. IsFiniteSet(determined) /\ \A s \in determined : ComponentWeight[s] \in Nat /\ ComponentWeight[s] > 0
      BY <1>2, <1>5, PartsAreWeighted, FS_Subset
    <3>2. \A s \in determined : share[s] \in 0..One
      BY <1>5, <1>7 DEF Rests
    <3>3. weighted = [s \in determined |-> share[s] * ComponentWeight[s]]
      OBVIOUS
    <3>4. One \in Nat
      BY OneIs
    <3>. HIDE DEF weighted, share
    <3>5. mass \in Nat /\ weight \in Nat /\ weight > 0 /\ mass <= One * weight
      BY <2>2, <3>1, <3>2, <3>3, <3>4, MeanIsShare
    <3>6. mean = mass \div weight
      BY <2>2 DEF WeightOf
    <3>. HIDE DEF mass, weight, mean
    <3>7. mass \div weight \in Nat /\ mass \div weight <= One
      <4>1. mass < (One + 1) * weight
        BY <3>4, <3>5
      <4>. QED
        BY <3>4, <3>5, <4>1, QuotientBounds
    <3>. QED
      BY <3>4, <3>6, <3>7
  <2>. QED
    BY <2>1, <2>2
<1>. HIDE DEF coverage, mean
<1>10. dampByCoverage(mean, coverage) \in 0..One
  BY <1>8, <1>9, DampedShare
<1>. QED
  BY <1>1, <1>6, <1>7, <1>8, <1>10, ServiceFindingsAreBased DEF Accountable, result

\* A listed part is replaced, and nothing is original by itself.
LEMMA ListedIsReplaced ==
  ASSUME NEW known, Sound(known), NEW device, NEW s, label(known, s) # {}
  PROVE  ConcludeComponent(s, About(known, device, s)).value = "REPLACED_LIKELY"
<1>. DEFINE about == About(known, device, s)
            adverse == Adverse(about)
<1>1. AllGrounded(known, about)
  BY AboutIsGrounded
<1>2. PICK i : /\ FromHistory(known, s) = {i} /\ i.direction = "SUPPORTS_NEGATIVE"
               /\ i.weight = 90 /\ i.confidence \in 5400..One
  BY HistoryIsGrounded
<1>3. Mass(Benign(about)) \in 0..1455
  BY <1>2, LittleSpeaksForIt
<1>4. i \in adverse
  BY <1>2 DEF About, Adverse
<1>5. Weighed(adverse) /\ Mass(adverse) \in Nat
  BY <1>1, SidesOfInferences, PartIsGrounded, GroundedIsWeighed
<1>. HIDE DEF adverse, about
<1>6. (i.weight * i.confidence) \div 100 <= Mass(adverse)
  BY <1>4, <1>5, MassIsNatural
<1>7. Mass(adverse) >= 4860
  <2>. DEFINE c == i.confidence
              m == Mass(adverse)
  <2>1. c \in 5400..One /\ (90 * c) \div 100 <= m /\ m \in Nat
    BY <1>2, <1>5, <1>6
  <2>. HIDE DEF c, m
  <2>2. c \in Nat /\ 5400 <= c
    BY <2>1
  <2>. DEFINE p == 90 * c
  <2>3. p \in Nat /\ 90 * 5400 <= p
    BY <2>2
  <2>4. p \div 100 <= m /\ m \in Nat
    BY <2>1
  <2>. HIDE DEF p
  <2>5. p \div 100 \in Nat /\ 4860 <= p \div 100
    BY <2>3
  <2>6. m >= 4860
    BY <2>4, <2>5
  <2>. QED
    BY <2>6 DEF m
<1>8. Mass(Benign(about)) \in Nat /\ Mass(Benign(about)) <= 1455
  BY <1>3, InRangeIsNatural
<1>. QED
  BY <1>1, <1>5, <1>7, <1>8, ComponentRests DEF adverse, about

LEMMA OriginalNeedsHistory ==
  ASSUME NEW known, Sound(known), NEW device, NEW s,
         ConcludeComponent(s, About(known, device, s)).value = "ORIGINAL_LIKELY"
  PROVE  SectionAbsent(known) \/ Labels(known) # {}
<1>. SUFFICES ASSUME ~SectionAbsent(known), Labels(known) = {} PROVE FALSE
  OBVIOUS
<1>. DEFINE about == About(known, device, s)
<1>1. AllGrounded(known, about)
  BY AboutIsGrounded
<1>2. label(known, s) = {}
  <2>1. "REPLACED_LIKELY" # "ORIGINAL_LIKELY"
    OBVIOUS
  <2>. QED
    BY <2>1, ListedIsReplaced
<1>3. FromHistory(known, s) = {}
  BY <1>2, HistoryIsGrounded
<1>4. Mass(Benign(about)) \in 0..1455
  BY <1>3, LittleSpeaksForIt
<1>5. Mass(Adverse(about)) \in Nat
  <2>1. Adverse(about) \in SUBSET about
    BY SidesOfInferences
  <2>. QED
    BY <1>1, <2>1, PartIsGrounded, GroundedIsWeighed
<1>. HIDE DEF about
<1>6. Mass(Benign(about)) \in Nat /\ Mass(Benign(about)) <= 1455
  BY <1>4, InRangeIsNatural
<1>. QED
  BY <1>1, <1>5, <1>6, ComponentRests DEF about

-----------------------------------------------------------------------------
(***************************************************************************)
(* Every claim is cited                                                    *)
(***************************************************************************)

LEMMA ModulesOfAnInspection ==
  ASSUME NEW known, NEW device
  PROVE  LET results == moduleResults(known, device)
         IN  /\ DOMAIN results = Pillars
             /\ Pillars = {"identity", "hardware", "service", "battery", "security"}
             /\ results["identity"] = runIdentityEngine(known)
             /\ results["hardware"] = runHardwareEngine(known, Specified)
             /\ results["service"] = runServiceEngine(known, device)
             /\ results["battery"] = runBatteryEngine(known, device)
             /\ results["security"] = runSecurityEngine(known)
BY DEF moduleResults, Pillars, PILLAR_WEIGHTS

LEMMA ModulesAreAccountable ==
  ASSUME NEW known, Sound(known), NEW device, NEW m \in Pillars
  PROVE  Accountable(known, moduleResults(known, device)[m])
BY ModulesOfAnInspection, IdentityIsAccountable, HardwareIsAccountable, ServiceIsAccountable,
   BatteryIsAccountable, SecurityIsAccountable

LEMMA AuditFindsNothing ==
  ASSUME NEW known, NEW modules, \A module \in modules : Accountable(known, module),
         NEW findings, \A f \in findings : Based(known, f)
  PROVE  audit(known, modules, findings) = {}
<1>. DEFINE inferences == UNION {m.inferences : m \in modules}
            verdicts   == UNION {m.verdicts : m \in modules}
<1>1. ASSUME NEW i \in inferences PROVE Grounded(known, i)
  BY DEF Accountable, AllGrounded
<1>2. ASSUME NEW v \in verdicts PROVE Rests(v, inferences)
  <2>1. PICK module \in modules : v \in module.verdicts
    OBVIOUS
  <2>2. Rests(v, module.inferences)
    BY <2>1 DEF Accountable
  <2>3. module.inferences \subseteq inferences
    OBVIOUS
  <2>. HIDE DEF inferences
  <2>. QED
    BY <2>2, <2>3 DEF Rests
<1>. HIDE DEF inferences, verdicts
<1>3. ~\E i \in inferences : i.evidence = {} \/ ~(i.evidence \subseteq known)
  BY <1>1 DEF Grounded
<1>4. ~\E x \in inferences \cup verdicts : ~InRange(x.confidence)
  <2>1. \A x \in Believable : x \in 0..One
    BY BelievableIsShare
  <2>2. \A i \in inferences : InRange(i.confidence)
    BY <1>1, <2>1 DEF Grounded, InRange
  <2>3. \A v \in verdicts : InRange(v.confidence)
    BY <1>2 DEF Rests, InRange
  <2>. QED
    BY <2>2, <2>3
<1>5. ~\E v \in verdicts : \/ v.determined /\ v.inferences = {}
                           \/ ~(v.inferences \subseteq inferences)
                           \/ v.evidence # UNION {i.evidence : i \in v.inferences}
  BY <1>2 DEF Rests
<1>6. ~\E v \in verdicts : v.determined /\ v.confidence = 0
  BY <1>2 DEF Rests
<1>7. ~\E f \in findings : \/ f.basis = "EVIDENCE" /\ ~(f.evidence # {} \/ f.inferences # {})
                           \/ ~(f.evidence \subseteq known)
  BY DEF Based
<1>8. ~\E f \in findings : f.basis = "ABSENCE" /\ (f.evidence # {} \/ f.inferences # {})
  BY DEF Based
<1>. DEFINE Broken(code, is) == IF is THEN {code} ELSE {}
<1>9. audit(known, modules, findings) =
        Broken("INFERENCE_WITHOUT_EVIDENCE", \E i \in inferences : i.evidence = {})
        \cup Broken("INFERENCE_CITES_MISSING_EVIDENCE", \E i \in inferences : ~(i.evidence \subseteq known))
        \cup Broken("CONFIDENCE_OUT_OF_RANGE", \E x \in inferences \cup verdicts : ~InRange(x.confidence))
        \cup Broken("VERDICT_WITHOUT_INFERENCE", \E v \in verdicts : v.determined /\ v.inferences = {})
        \cup Broken("DETERMINED_WITHOUT_CONFIDENCE", \E v \in verdicts : v.determined /\ v.confidence = 0)
        \cup Broken("VERDICT_CITES_MISSING_INFERENCE", \E v \in verdicts : ~(v.inferences \subseteq inferences))
        \cup Broken("VERDICT_EVIDENCE_MISMATCH",
                    \E v \in verdicts : v.evidence # UNION {i.evidence : i \in v.inferences})
        \cup Broken("FINDING_WITHOUT_SUPPORT",
                    \E f \in findings : \/ f.basis = "EVIDENCE" /\ ~(f.evidence # {} \/ f.inferences # {})
                                        \/ ~(f.evidence \subseteq known))
        \cup Broken("FINDING_BASIS_MISMATCH",
                    \E f \in findings : f.basis = "ABSENCE" /\ (f.evidence # {} \/ f.inferences # {}))
  BY DEF audit, inferences, verdicts
<1>10. \A code, is : ~is => Broken(code, is) = {}
  OBVIOUS
<1>. HIDE DEF Broken
<1>. QED
  BY <1>3, <1>4, <1>5, <1>6, <1>7, <1>8, <1>9, <1>10

\* A gate cites the inferences of a module, or claims no more than a gap.
LEMMA GateFindingIsBased ==
  ASSUME NEW known, NEW results, NEW gate
  PROVE  Based(known, GateFinding(results, gate))
BY FindingIsBased, GapIsBased DEF GateFinding

\* For every capture, the audit of the report finds nothing: no inference
\* without its evidence, no verdict without its inferences, no finding without
\* its basis.
THEOREM EveryReportIsCited == Spec => []EveryClaimIsCited
<1>1. ASSUME IInv PROVE EveryClaimIsCited
  <2>. SUFFICES ASSUME NEW r \in report PROVE r.violations = {}
    BY DEF EveryClaimIsCited
  <2>. DEFINE results == moduleResults(ledger, resolveDevice(ledger))
              trust == runTrustEngine(results)
              findings == trust.findings \cup UNION {results[m].findings : m \in DOMAIN results}
              modules == {results[m] : m \in DOMAIN results}
  <2>1. r = evaluate(ledger) /\ Sound(ledger)
    BY <1>1 DEF IInv
  <2>2. r.violations = audit(ledger, modules, findings)
    BY <2>1 DEF evaluate, assess, reportOn, InspectionReport
  <2>3. DOMAIN results = Pillars
    BY ModulesOfAnInspection
  <2>4. \A m \in Pillars : Accountable(ledger, results[m])
    BY <2>1, ModulesAreAccountable
  <2>5. \A f \in trust.findings : Based(ledger, f)
    <3>1. \A f \in trust.findings : (\E g : f = GateFinding(results, g)) \/ (\E code : f = Gap(code))
      BY DEF runTrustEngine
    <3>. HIDE DEF trust, results
    <3>. QED
      BY <3>1, GateFindingIsBased, GapIsBased
  <2>. HIDE DEF trust, results
  <2>6. \A f \in findings : Based(ledger, f)
    BY <2>3, <2>4, <2>5 DEF Accountable
  <2>7. \A module \in modules : Accountable(ledger, module)
    BY <2>3, <2>4
  <2>. HIDE DEF findings, modules
  <2>. QED
    BY <2>2, <2>6, <2>7, AuditFindsNothing
<1>. QED
  BY <1>1, Invariance, PTL
-----------------------------------------------------------------------------
(***************************************************************************)
(* The service history                                                     *)
(***************************************************************************)

LEMMA ReportOfLedger ==
  ASSUME IInv, NEW r \in report
  PROVE  /\ r.results = moduleResults(ledger, resolveDevice(ledger))
         /\ r.trust = runTrustEngine(r.results)
         /\ Sound(ledger)
<1>1. r = evaluate(ledger) /\ Sound(ledger)
  BY DEF IInv
<1>. QED
  BY <1>1 DEF evaluate, assess, reportOn, InspectionReport

\* A failure goes by the name of what failed: what has another name was read.
LEMMA NamedReadings ==
  ASSUME NEW known, Sound(known), NEW e \in known, e.key \notin CollectorNames
  PROVE  /\ e \in Readings(known, e.subject, e.key)
         /\ best(known, e.subject, e.key) # {}
<1>1. e.kind # "COLLECTION_FAILURE"
  BY DEF Sound
<1>2. e \in Readings(known, e.subject, e.key)
  BY <1>1 DEF Readings, forSubject
<1>. QED
  BY <1>2, BestIsKnown

\* Whatever speaks for a listed part: the report calls it replaced, and never
\* trusts the device without saying so.
THEOREM ListedPartsAreDisclosed == Spec => []ListedPartIsDisclosed
<1>1. ASSUME IInv PROVE ListedPartIsDisclosed
  <2>. SUFFICES ASSUME NEW r \in report, NEW e \in ledger, e.key = "ServiceHistoryLabel",
                       e.subject \in DOMAIN r.results.service.components
                PROVE  /\ r.results.service.components[e.subject].verdict = "REPLACED_LIKELY"
                       /\ r.trust.verdict # "TRUSTED"
    BY DEF ListedPartIsDisclosed
  <2>. DEFINE device == resolveDevice(ledger)
              service == runServiceEngine(ledger, device)
              s == e.subject
  <2>1. /\ r.results = moduleResults(ledger, device) /\ r.trust = runTrustEngine(r.results)
        /\ Sound(ledger)
    BY <1>1, ReportOfLedger
  <2>2. r.results.service = service
    BY <2>1 DEF moduleResults
  <2>3. label(ledger, s) # {}
    <3>1. e.key \notin CollectorNames
      BY DEF CollectorNames
    <3>. QED
      BY <2>1, <3>1, NamedReadings DEF label
  <2>4. s \in applicableComponents(device) /\ service.components[s].verdict = ConcludeComponent(s, About(ledger, device, s)).value
    BY <2>2, ComponentsOfService
  <2>. HIDE DEF device, service, s
  <2>5. service.components[s].verdict = "REPLACED_LIKELY"
    BY <2>1, <2>3, <2>4, ListedIsReplaced
  <2>6. s \in Replaced(r.results.service)
    BY <2>2, <2>5 DEF Replaced, s
  <2>7. \E v : r.trust.verdict = disclosed(v, r.results.service)
    BY <2>1 DEF runTrustEngine
  <2>8. r.trust.verdict # "TRUSTED"
    BY <2>6, <2>7 DEF disclosed
  <2>. QED
    BY <2>2, <2>5, <2>8 DEF s
<1>. QED
  BY <1>1, Invariance, PTL

\* What a device says of itself never makes a part original: it takes an
\* attested screen that does not list the part.
THEOREM OriginalsAreEarned == Spec => []OriginalIsEarned
<1>1. ASSUME IInv PROVE OriginalIsEarned
  <2>. SUFFICES ASSUME NEW r \in report, NEW s \in DOMAIN r.results.service.components,
                       r.results.service.components[s].verdict = "ORIGINAL_LIKELY"
                PROVE  /\ \E e \in ledger : e.key \in {"ServiceHistorySectionAbsent", "ServiceHistoryLabel"}
                       /\ ~\E e \in ledger : e.key = "ServiceHistoryLabel" /\ e.subject = s
    BY DEF OriginalIsEarned
  <2>. DEFINE device == resolveDevice(ledger)
              service == runServiceEngine(ledger, device)
  <2>1. r.results = moduleResults(ledger, device) /\ Sound(ledger)
    BY <1>1, ReportOfLedger
  <2>2. r.results.service = service
    BY <2>1 DEF moduleResults
  <2>3. ConcludeComponent(s, About(ledger, device, s)).value = "ORIGINAL_LIKELY"
    BY <2>2, ComponentsOfService
  <2>. HIDE DEF device, service
  <2>4. SectionAbsent(ledger) \/ Labels(ledger) # {}
    BY <2>1, <2>3, OriginalNeedsHistory
  <2>5. SectionAbsent(ledger) => \E e \in ledger : e.key = "ServiceHistorySectionAbsent"
    BY <2>1, LabelsAreKnown, BestIsKnown
  <2>6. Labels(ledger) # {} => \E e \in ledger : e.key = "ServiceHistoryLabel"
    BY DEF Labels
  <2>7. ASSUME NEW e \in ledger, e.key = "ServiceHistoryLabel", e.subject = s PROVE FALSE
    <3>1. e.key \notin CollectorNames
      BY <2>7 DEF CollectorNames
    <3>2. label(ledger, s) # {}
      BY <2>1, <2>7, <3>1, NamedReadings DEF label
    <3>3. ConcludeComponent(s, About(ledger, device, s)).value = "REPLACED_LIKELY"
      BY <2>1, <3>2, ListedIsReplaced
    <3>. QED
      BY <2>3, <3>3
  <2>. QED
    BY <2>4, <2>5, <2>6, <2>7
<1>. QED
  BY <1>1, Invariance, PTL

-----------------------------------------------------------------------------
(***************************************************************************)
(* The more reliable channel decides                                       *)
(***************************************************************************)

\* Every record came out of a lookup.
LookedUp(known, cited) == \A e \in cited : \E s, k : e \in best(known, s, k)

LEMMA FiredCitesLookups ==
  ASSUME NEW known, NEW module, NEW check, NEW i \in Fired(known, module, check)
  PROVE  LookedUp(known, i.evidence)
<1>1. PICK r \in Answers(known, check) : \E u \in check.rules[r.value] :
        i = derive(module, check.subject, u.name, u.direction, u.weight, u.confidence,
                   IF u.alone THEN {r} ELSE {r} \cup Compared(known, check))
  BY Zenon DEF Fired
<1>2. i.evidence = {r} \/ i.evidence = {r} \cup Compared(known, check)
  BY <1>1 DEF derive
<1>3. r \in best(known, check.subject, check.key)
  BY Zenon DEF Answers
<1>4. LookedUp(known, Compared(known, check))
  BY Zenon DEF LookedUp, Compared
<1>. QED
  BY <1>2, <1>3, <1>4, Zenon DEF LookedUp

LEMMA InferredCitesLookups ==
  ASSUME NEW known, NEW module, NEW checks, NEW i \in Inferred(known, module, checks)
  PROVE  LookedUp(known, i.evidence)
<1>1. PICK c \in performed(known, checks) : i \in Fired(known, module, checks[c])
  BY Zenon DEF Inferred
<1>. QED
  BY <1>1, FiredCitesLookups

LEMMA IdentityCitesLookups ==
  ASSUME NEW known, NEW i \in runIdentityEngine(known).inferences
  PROVE  LookedUp(known, i.evidence)
<1>1. runIdentityEngine(known).inferences = Inferred(known, "IDENTITY", IdentityChecks)
  BY DEF runIdentityEngine
<1>. QED
  BY <1>1, InferredCitesLookups

LEMMA HardwareCitesLookups ==
  ASSUME NEW known, NEW catalogued, NEW i \in runHardwareEngine(known, catalogued).inferences
  PROVE  LookedUp(known, i.evidence)
<1>1. Assessed(known).inferences = Inferred(known, "HARDWARE_CONSISTENCY", HardwareChecks)
  BY DEF Assessed
<1>2. Uncatalogued.inferences = {}
  BY DEF Uncatalogued
<1>3. i \in Assessed(known).inferences
  BY <1>2, Zenon DEF runHardwareEngine
<1>. QED
  BY <1>1, <1>3, InferredCitesLookups

LEMMA BatteryCitesLookups ==
  ASSUME NEW known, NEW device, NEW i \in runBatteryEngine(known, device).inferences
  PROVE  LookedUp(known, i.evidence)
<1>0. LookedUp(known, HealthEvidence(known))
  BY Zenon DEF LookedUp, HealthEvidence, Reading
<1>1. NoHealth(known).inferences = {}
  BY DEF NoHealth
<1>2. WithHealth(known, device).inferences
        = {FromHealth(known, maximumCapacityPercent(known))} \cup FromCycles(known, device)
  BY DEF WithHealth
<1>3. i = FromHealth(known, maximumCapacityPercent(known)) \/ i \in FromCycles(known, device)
  BY <1>1, <1>2, Zenon DEF runBatteryEngine
<1>4. CASE i = FromHealth(known, maximumCapacityPercent(known))
  <2>1. i.evidence = HealthEvidence(known)
    BY <1>4 DEF FromHealth, CellRule, derive
  <2>. QED
    BY <1>0, <2>1
<1>5. CASE i \in FromCycles(known, device)
  <2>1. i.evidence = Reading(known, "CycleCount") \cup Reading(known, "RatedCycleLife")
    BY <1>5 DEF FromCycles, CellRule, derive
  <2>. QED
    BY <2>1, Zenon DEF LookedUp, Reading
<1>. QED
  BY <1>3, <1>4, <1>5

\* What is looked up outranks the other readings of its subject and key.
LEMMA LookupsAreMostReliable ==
  ASSUME NEW known, Sound(known), NEW cited, LookedUp(known, cited), NEW e \in cited,
         NEW x \in Readings(known, e.subject, e.key)
  PROVE  x.reliability <= e.reliability
<1>1. PICK s, k : e \in best(known, s, k)
  BY Zenon DEF LookedUp
<1>2. e.subject = s /\ e.key = k
  BY <1>1, BestIsKnown
<1>. QED
  BY <1>1, <1>2, BestIsKnown

\* Whatever the catalogue and the capture, no conclusion of identity, hardware or
\* battery cites a reading that a more reliable channel contradicts.
THEOREM TheMoreReliableChannelDecides == Spec => []CitesTheMostReliable
<1>1. ASSUME IInv PROVE CitesTheMostReliable
  <2>. SUFFICES ASSUME NEW r \in report, NEW m \in {"identity", "hardware", "battery"},
                       NEW i \in r.results[m].inferences, NEW e \in i.evidence,
                       NEW x \in Readings(ledger, e.subject, e.key)
                PROVE  x.reliability <= e.reliability
    BY DEF CitesTheMostReliable
  <2>1. r.results = moduleResults(ledger, resolveDevice(ledger)) /\ Sound(ledger)
    BY <1>1, ReportOfLedger
  <2>2. /\ r.results["identity"] = runIdentityEngine(ledger)
        /\ r.results["hardware"] = runHardwareEngine(ledger, Specified)
        /\ r.results["battery"] = runBatteryEngine(ledger, resolveDevice(ledger))
    BY <2>1 DEF moduleResults
  <2>3. LookedUp(ledger, i.evidence)
    BY <2>2, IdentityCitesLookups, HardwareCitesLookups, BatteryCitesLookups
  <2>. QED
    BY <2>1, <2>3, LookupsAreMostReliable
<1>. QED
  BY <1>1, Invariance, PTL

-----------------------------------------------------------------------------
(***************************************************************************)
(* The score                                                               *)
(***************************************************************************)

\* The weights of the modules add up to a hundred percent.
LEMMA PillarsAddUp ==
  /\ IsFiniteSet(Pillars) /\ NaturalOn(PILLAR_WEIGHTS, Pillars)
  /\ SumFunctionOnSet(PILLAR_WEIGHTS, Pillars) = 100
<1>. DEFINE W(S) == SumFunctionOnSet(PILLAR_WEIGHTS, S)
<1>1. Pillars = {"identity"} \cup {"hardware"} \cup {"service"} \cup {"battery"} \cup {"security"}
  BY DEF Pillars, PILLAR_WEIGHTS
<1>2. IsFiniteSet(Pillars)
  <2>1. IsFiniteSet({"identity"} \cup {"hardware"} \cup {"service"})
    BY ThreeAreFinite, Zenon
  <2>. QED
    BY <1>1, <2>1, TwoMoreAreFinite, Zenon
<1>3. NaturalOn(PILLAR_WEIGHTS, Pillars)
  BY DEF NaturalOn, Pillars, PILLAR_WEIGHTS
<1>4. \A S \in SUBSET Pillars : \A x \in S : W(S) = PILLAR_WEIGHTS[x] + W(S \ {x})
  BY <1>2, <1>3, PartsOfFinite, SumTakes
<1>5. W({}) = 0
  BY SumOfNone
<1>. HIDE DEF W
<1>6. W({"security"}) = 20
  <2>1. W({"security"}) = PILLAR_WEIGHTS["security"] + W({"security"} \ {"security"})
    BY <1>1, <1>4
  <2>2. {"security"} \ {"security"} = {}
    OBVIOUS
  <2>. QED
    BY <1>5, <2>1, <2>2 DEF PILLAR_WEIGHTS
<1>7. W({"battery", "security"}) = 30
  <2>1. W({"battery", "security"}) = PILLAR_WEIGHTS["battery"] + W({"battery", "security"} \ {"battery"})
    BY <1>1, <1>4
  <2>2. {"battery", "security"} \ {"battery"} = {"security"}
    OBVIOUS
  <2>. QED
    BY <1>6, <2>1, <2>2 DEF PILLAR_WEIGHTS
<1>8. W({"service", "battery", "security"}) = 60
  <2>1. W({"service", "battery", "security"})
          = PILLAR_WEIGHTS["service"] + W({"service", "battery", "security"} \ {"service"})
    BY <1>1, <1>4
  <2>2. {"service", "battery", "security"} \ {"service"} = {"battery", "security"}
    OBVIOUS
  <2>. QED
    BY <1>7, <2>1, <2>2 DEF PILLAR_WEIGHTS
<1>9. W({"hardware", "service", "battery", "security"}) = 80
  <2>1. W({"hardware", "service", "battery", "security"})
          = PILLAR_WEIGHTS["hardware"] + W({"hardware", "service", "battery", "security"} \ {"hardware"})
    BY <1>1, <1>4
  <2>2. {"hardware", "service", "battery", "security"} \ {"hardware"} = {"service", "battery", "security"}
    OBVIOUS
  <2>. QED
    BY <1>8, <2>1, <2>2 DEF PILLAR_WEIGHTS
<1>10. W(Pillars) = 100
  <2>1. W(Pillars) = PILLAR_WEIGHTS["identity"] + W(Pillars \ {"identity"})
    BY <1>1, <1>4
  <2>2. Pillars \ {"identity"} = {"hardware", "service", "battery", "security"}
    BY <1>1
  <2>. QED
    BY <1>9, <2>1, <2>2 DEF PILLAR_WEIGHTS
<1>. QED
  BY <1>2, <1>3, <1>10 DEF W

\* A module scores once, out of a hundred, or not at all.
ScoredOnce(scores) == scores = {} \/ \E n \in 0..100 : scores = {n}

LEMMA IdentityScores ==
  ASSUME NEW result
  PROVE  ScoredOnce(identityScore(result))
<1>1. 100 \in 0..100 /\ 10 \in 0..100
  OBVIOUS
<1>. QED
  BY <1>1 DEF ScoredOnce, identityScore

\* However many anomalies: between ten and a hundred.
LEMMA HardwareScores ==
  ASSUME NEW result, IsFiniteSet(result.anomalies)
  PROVE  ScoredOnce(hardwareScore(result))
<1>. DEFINE high == {a \in result.anomalies : a.severity = "HIGH"}
            m == Cardinality(high)
            n == Cardinality(result.anomalies \ high)
            penalty == 40 * m + 20 * n
            points == AtLeast(100 - AtMost(penalty, 100), 10)
<1>1. m \in Nat /\ n \in Nat
  <2>1. IsFiniteSet(high) /\ IsFiniteSet(result.anomalies \ high)
    BY FS_Subset
  <2>. QED
    BY <2>1, FS_CardinalityType
<1>2. hardwareScore(result) = {} \/ hardwareScore(result) = {100} \/ hardwareScore(result) = {points}
  BY DEF hardwareScore
<1>. HIDE DEF m, n, high
<1>3. points \in 0..100
  <2>1. penalty \in Nat
    BY <1>1
  <2>. HIDE DEF penalty
  <2>. QED
    BY <2>1 DEF AtLeast, AtMost
<1>4. 100 \in 0..100
  OBVIOUS
<1>. HIDE DEF points
<1>. QED
  BY <1>2, <1>3, <1>4 DEF ScoredOnce

LEMMA AnomaliesAreFinite ==
  ASSUME NEW known, NEW catalogued
  PROVE  IsFiniteSet(runHardwareEngine(known, catalogued).anomalies)
<1>1. Uncatalogued.anomalies = {}
  BY DEF Uncatalogued
<1>2. Assessed(known).anomalies = Anomalies(known)
  BY DEF Assessed
<1>3. IsFiniteSet(Anomalies(known))
  <2>. DEFINE foreign == {x \in performed(known, HardwareChecks) :
                 Says(known, HardwareChecks[x].subject, HardwareChecks[x].key, "foreign")}
              f == [c \in foreign |-> [check |-> c, severity |-> IF c = "designCapacity" THEN "MEDIUM" ELSE "HIGH"]]
  <2>1. foreign \in SUBSET DOMAIN HardwareChecks
    BY DEF performed
  <2>2. IsFiniteSet(foreign)
    BY <2>1, HardwareTable, FS_Subset DEF ModestTable
  <2>3. Anomalies(known) = {f[c] : c \in foreign}
    BY DEF Anomalies
  <2>. HIDE DEF foreign, f
  <2>. QED
    BY <2>2, <2>3, ImageIsFinite
<1>4. IsFiniteSet({})
  BY FS_EmptySet
<1>. QED
  BY <1>1, <1>2, <1>3, <1>4 DEF runHardwareEngine

\* What is known of a part's authenticity has a score.
LEMMA AuthenticityIsScored ==
  ASSUME NEW known, Sound(known), NEW device, NEW s
  PROVE  authenticity(known, device, s) \in DOMAIN AUTHENTICITY_SCORE
<1>1. \A w \in DOMAIN LABEL_AUTHENTICITY : LABEL_AUTHENTICITY[w] \in DOMAIN AUTHENTICITY_SCORE
  BY DEF LABEL_AUTHENTICITY, AUTHENTICITY_SCORE
<1>2. "NOT_VERIFIED" \in DOMAIN AUTHENTICITY_SCORE /\ "UNKNOWN" \in DOMAIN AUTHENTICITY_SCORE
  BY DEF AUTHENTICITY_SCORE
<1>3. ASSUME NEW r \in label(known, s), r.value \in DOMAIN LABEL_AUTHENTICITY
      PROVE  (CHOOSE x \in label(known, s) : TRUE).value \in DOMAIN LABEL_AUTHENTICITY
  <2>1. PICK e : label(known, s) = {e}
    BY <1>3, BestIsKnown DEF label
  <2>2. (CHOOSE x \in label(known, s) : TRUE) = e /\ r = e
    BY <2>1
  <2>. QED
    BY <1>3, <2>2
<1>. QED
  BY <1>1, <1>2, <1>3 DEF authenticity

LEMMA ServiceScores ==
  ASSUME NEW result, DOMAIN result.components \in SUBSET DOMAIN ComponentWeight,
         \A s \in DOMAIN result.components :
           result.components[s].authenticity \in DOMAIN AUTHENTICITY_SCORE
  PROVE  ScoredOnce(serviceScore(result))
<1>. DEFINE scored == {s \in DOMAIN result.components : result.components[s].verdict # "CANNOT_DETERMINE"}
            value(s) == IF result.components[s].verdict = "ORIGINAL_LIKELY" THEN 100
                        ELSE AUTHENTICITY_SCORE[result.components[s].authenticity]
            share == [s \in scored |-> value(s)]
            weighted == [s \in scored |-> share[s] * ComponentWeight[s]]
            mass == SumFunction(weighted)
            weight == SumFunctionOnSet(ComponentWeight, scored)
            mean == (2 * mass + weight) \div (2 * weight)
<1>1. serviceScore(result) = IF scored = {} THEN {} ELSE {mean}
  <2>1. weighted = [s \in scored |-> value(s) * ComponentWeight[s]]
    OBVIOUS
  <2>. QED
    BY <2>1 DEF serviceScore, WeightOf
<1>2. CASE scored = {}
  BY <1>1, <1>2 DEF ScoredOnce
<1>3. CASE scored # {}
  <2>1. scored \in SUBSET DOMAIN result.components
    OBVIOUS
  <2>2. \A w \in DOMAIN AUTHENTICITY_SCORE : AUTHENTICITY_SCORE[w] \in 0..100
    BY DEF AUTHENTICITY_SCORE
  <2>3. \A s \in scored : share[s] \in 0..100
    BY <2>1, <2>2
  <2>4. IsFiniteSet(scored) /\ \A s \in scored : ComponentWeight[s] \in Nat /\ ComponentWeight[s] > 0
    BY <2>1, PartsAreWeighted, FS_Subset
  <2>5. weighted = [s \in scored |-> share[s] * ComponentWeight[s]]
    OBVIOUS
  <2>. HIDE DEF scored, share, weighted
  <2>6. mass \in Nat /\ weight \in Nat /\ weight > 0 /\ mass <= 100 * weight
    BY <1>3, <2>3, <2>4, <2>5, MeanIsShare
  <2>. HIDE DEF mass, weight
  <2>7. mean \in 0..100
    <3>. DEFINE a == 2 * mass + weight
                b == 2 * weight
    <3>1. a \in Nat /\ b \in Nat /\ b > 0 /\ a < (100 + 1) * b
      BY <2>6
    <3>. HIDE DEF a, b
    <3>2. a \div b \in Nat /\ a \div b <= 100
      BY <3>1, QuotientBounds
    <3>3. a \div b \in 0..100
      BY <3>2
    <3>. QED
      BY <3>3 DEF a, b
  <2>. HIDE DEF mean
  <2>. QED
    BY <1>1, <1>3, <2>7 DEF ScoredOnce
<1>. QED
  BY <1>2, <1>3

LEMMA CurveIsBounded ==
  ASSUME NEW health \in 0..100
  PROVE  batteryCurve(health) \in 0..100
<1>1. CASE health >= 100
  BY <1>1 DEF batteryCurve
<1>2. CASE health >= 90 /\ health < 100
  <2>1. batteryCurve(health) = 88 + (12 * (health - 90) + 5) \div 10
    BY <1>2 DEF batteryCurve
  <2>. QED
    BY <1>2, <2>1
<1>3. CASE health >= 80 /\ health < 90
  <2>1. batteryCurve(health) = 60 + (28 * (health - 80) + 5) \div 10
    BY <1>3 DEF batteryCurve
  <2>. QED
    BY <1>3, <2>1
<1>4. CASE health >= 70 /\ health < 80
  <2>1. batteryCurve(health) = 30 + 3 * (health - 70)
    BY <1>4 DEF batteryCurve
  <2>. QED
    BY <1>4, <2>1
<1>5. CASE health >= 50 /\ health < 70
  <2>1. batteryCurve(health) = (15 * (health - 50) + 5) \div 10
    BY <1>5 DEF batteryCurve
  <2>. QED
    BY <1>5, <2>1
<1>6. CASE health < 50
  BY <1>6 DEF batteryCurve
<1>. QED
  BY <1>1, <1>2, <1>3, <1>4, <1>5, <1>6

LEMMA BatteryScores ==
  ASSUME NEW result, result.health = {} \/ \E h \in 0..100 : result.health = {h}
  PROVE  ScoredOnce(batteryScore(result))
<1>1. CASE result.health = {} \/ ~Determined(result)
  BY <1>1 DEF ScoredOnce, batteryScore
<1>2. CASE result.health # {} /\ Determined(result)
  <2>1. PICK h \in 0..100 : result.health = {h}
    BY <1>2
  <2>2. batteryScore(result) = {batteryCurve(h)}
    BY <1>2, <2>1 DEF batteryScore
  <2>. QED
    BY <2>2, CurveIsBounded DEF ScoredOnce
<1>. QED
  BY <1>1, <1>2

\* Whatever a capture holds, every module scores once or not at all.
LEMMA ModulesScoreOnce ==
  ASSUME NEW known, Sound(known), NEW device, NEW p \in Pillars
  PROVE  ScoredOnce(pillar(moduleResults(known, device))[p])
<1>. DEFINE results == moduleResults(known, device)
<1>1. ScoredOnce(identityScore(results.identity))
  BY IdentityScores
<1>2. ScoredOnce(hardwareScore(results.hardware))
  BY AnomaliesAreFinite, HardwareScores DEF moduleResults
<1>3. ScoredOnce(serviceScore(results.service))
  <2>1. results.service = runServiceEngine(known, device)
    BY DEF moduleResults
  <2>. HIDE DEF results
  <2>2. DOMAIN results.service.components = applicableComponents(device)
    BY <2>1, ComponentsOfService
  <2>3. \A s \in applicableComponents(device) :
          results.service.components[s].authenticity = authenticity(known, device, s)
    BY <2>1, ComponentsOfService
  <2>. QED
    BY <2>2, <2>3, PartsAreWeighted, AuthenticityIsScored, ServiceScores
<1>4. ScoredOnce(batteryScore(results.battery))
  <2>1. results.battery = runBatteryEngine(known, device)
    BY DEF moduleResults
  <2>2. results.battery.health = {} \/ results.battery.health = {maximumCapacityPercent(known)}
    BY <2>1 DEF runBatteryEngine, NoHealth, WithHealth
  <2>3. results.battery.health \subseteq 0..100
    BY <2>1, BatteryIsAccountable
  <2>. HIDE DEF results
  <2>. QED
    BY <2>2, <2>3, BatteryScores
<1>5. ScoredOnce(securityScore(results.security))
  <2>1. results.security.posture = postureScore(known)
    BY DEF moduleResults, runSecurityEngine
  <2>. HIDE DEF results
  <2>. QED
    BY <2>1, PostureIsScored DEF securityScore, ScoredOnce
<1>6. p \in {"identity", "hardware", "service", "battery", "security"}
  BY ModulesOfAnInspection
<1>. HIDE DEF results
<1>7. /\ pillar(results)["identity"] = identityScore(results.identity)
      /\ pillar(results)["hardware"] = hardwareScore(results.hardware)
      /\ pillar(results)["service"] = serviceScore(results.service)
      /\ pillar(results)["battery"] = batteryScore(results.battery)
      /\ pillar(results)["security"] = securityScore(results.security)
  BY DEF pillar
<1>. QED
  BY <1>1, <1>2, <1>3, <1>4, <1>5, <1>6, <1>7 DEF results

\* What the modules that scored add to the picture is a share of it: as much as
\* they weigh, at most.
LEMMA ShareOfThePicture ==
  ASSUME NEW S \in SUBSET Pillars, NEW f, DOMAIN f = S,
         NEW share, \A p \in S : share[p] \in 0..One /\ f[p] = share[p] * PILLAR_WEIGHTS[p]
  PROVE  /\ SumFunction(f) \in Nat
         /\ SumFunctionOnSet(PILLAR_WEIGHTS, S) \in Nat
         /\ SumFunction(f) <= One * SumFunctionOnSet(PILLAR_WEIGHTS, S)
         /\ Round3(SumFunction(f) \div 100) \in 0..One
<1>. DEFINE sum == SumFunctionOnSet(f, S)
            weight == SumFunctionOnSet(PILLAR_WEIGHTS, S)
<1>1. SumFunction(f) = sum
  BY DEF SumFunction
<1>2. IsFiniteSet(S) /\ NaturalOn(PILLAR_WEIGHTS, S) /\ weight \in Nat /\ weight <= 100
  BY PillarsAddUp, PartsOfFinite, SumOfPart
<1>3. One \in Nat
  BY OneIs
<1>4. ASSUME NEW p \in S PROVE f[p] \in Nat /\ f[p] <= One * PILLAR_WEIGHTS[p]
  <2>. DEFINE a == share[p]
              w == PILLAR_WEIGHTS[p]
  <2>1. a \in Nat /\ a <= One /\ w \in Nat /\ f[p] = a * w
    BY <1>2, <1>3 DEF NaturalOn
  <2>. HIDE DEF a, w
  <2>2. a * w \in Nat /\ a * w <= One * w
    BY <1>3, <2>1, ProductsGrow
  <2>. QED
    BY <2>1, <2>2 DEF w
<1>5. NaturalOn(f, S)
  BY <1>4 DEF NaturalOn
<1>6. sum \in Nat /\ sum <= One * weight
  BY <1>2, <1>3, <1>4, <1>5, SumIsNatural, SumScaled
<1>. HIDE DEF sum, weight
<1>7. sum \div 100 \in 0..One
  <2>1. One * weight <= One * 100
    BY <1>2, <1>3, ProductsGrow
  <2>2. sum < (One + 1) * 100
    BY <1>2, <1>6, <2>1, OneIs
  <2>3. sum \div 100 \in Nat /\ sum \div 100 <= One
    BY <1>3, <1>6, <2>2, QuotientBounds
  <2>. QED
    BY <1>3, <2>3
<1>8. Round3(sum \div 100) \in 0..One
  BY <1>7, RoundedShare
<1>. QED
  BY <1>1, <1>2, <1>6, <1>8 DEF weight

\* What a trust engine is handed: five modules, each with its figures.
Measured(results) ==
  \A p \in Pillars : results[p].confidence \in 0..One /\ results[p].coverage \in 0..One
ScoresOf(score) == \A p \in Pillars : ScoredOnce(score[p])

LEMMA ConfidenceIsAShare ==
  ASSUME NEW results, Measured(results), NEW score
  PROVE  /\ Reported(results, score) \in Nat
         /\ SumFunctionOnSet(PILLAR_WEIGHTS, Scoring(score)) \in Nat
         /\ Reported(results, score) <= One * SumFunctionOnSet(PILLAR_WEIGHTS, Scoring(score))
         /\ TrustConfidence(results, score) \in 0..One
<1>. DEFINE S == Scoring(score)
            share == [p \in S |-> results[p].confidence]
            f == [p \in S |-> results[p].confidence * PILLAR_WEIGHTS[p]]
<1>1. S \in SUBSET Pillars
  BY DEF Scoring
<1>2. DOMAIN f = S /\ \A p \in S : share[p] \in 0..One /\ f[p] = share[p] * PILLAR_WEIGHTS[p]
  BY <1>1 DEF Measured
<1>3. Reported(results, score) = SumFunction(f)
  BY DEF Reported
<1>. HIDE DEF S, f, share
<1>4. /\ SumFunction(f) \in Nat
      /\ SumFunctionOnSet(PILLAR_WEIGHTS, S) \in Nat
      /\ SumFunction(f) <= One * SumFunctionOnSet(PILLAR_WEIGHTS, S)
      /\ Round3(SumFunction(f) \div 100) \in 0..One
  BY <1>1, <1>2, ShareOfThePicture
<1>. QED
  BY <1>3, <1>4 DEF TrustConfidence, S

LEMMA CoverageIsAShare ==
  ASSUME NEW results, Measured(results), NEW score
  PROVE  TrustCoverage(results, score) \in 0..One
<1>. DEFINE S == Scoring(score)
            share == [p \in S |-> results[p].coverage]
            f == [p \in S |-> results[p].coverage * PILLAR_WEIGHTS[p]]
<1>1. S \in SUBSET Pillars
  BY DEF Scoring
<1>2. DOMAIN f = S /\ \A p \in S : share[p] \in 0..One /\ f[p] = share[p] * PILLAR_WEIGHTS[p]
  BY <1>1 DEF Measured
<1>3. Covered(results, score) = SumFunction(f)
  BY DEF Covered
<1>. HIDE DEF S, f, share
<1>4. Round3(SumFunction(f) \div 100) \in 0..One
  BY <1>1, <1>2, ShareOfThePicture
<1>. QED
  BY <1>3, <1>4 DEF TrustCoverage

\* Damping leaves every module some weight.
LEMMA DampedWeightIsPositive ==
  ASSUME NEW p \in Pillars, NEW confidence \in 0..One
  PROVE  dampWeight(PILLAR_WEIGHTS[p], confidence) \in Nat /\ dampWeight(PILLAR_WEIGHTS[p], confidence) > 0
<1>. DEFINE w == PILLAR_WEIGHTS[p]
            c == (60 * confidence) \div 100
<1>1. w \in Nat /\ w >= 1
  BY DEF Pillars, PILLAR_WEIGHTS
<1>2. c \in Nat
  <2>1. confidence \in Nat
    BY OneIs
  <2>2. 60 * confidence \in Nat
    BY <2>1
  <2>. QED
    BY <2>2, QuotientBounds
<1>3. dampWeight(w, confidence) = w * (4000 + c)
  BY DEF dampWeight
<1>. HIDE DEF w, c
<1>4. 4000 + c \in Nat /\ 1 <= 4000 + c
  BY <1>2
<1>5. w * (4000 + c) \in Nat /\ 1 * 1 <= w * (4000 + c)
  BY <1>1, <1>4, ProductsGrow
<1>. QED
  BY <1>3, <1>5 DEF w

LEMMA RawIsAScore ==
  ASSUME NEW results, Measured(results), NEW score, ScoresOf(score)
  PROVE  rawScore(results, score) \in 0..100
<1>. DEFINE S == Scoring(score)
            damped == [p \in S |-> dampWeight(PILLAR_WEIGHTS[p], results[p].confidence)]
            total  == SumFunction(damped)
            effectiveWeight(p) == (2000 * damped[p] + total) \div (2 * total)
            terms == [p \in S |-> Max(score[p]) * effectiveWeight(p)]
            weighted == SumFunction(terms)
            points == (weighted + 500) \div 1000
<1>1. rawScore(results, score) = IF S = {} THEN 0 ELSE AtMost(points, 100)
  BY DEF rawScore
<1>2. S \in SUBSET Pillars /\ \A p \in S : score[p] # {}
  BY DEF Scoring
<1>3. CASE S # {}
  <2>1. IsFiniteSet(S)
    BY <1>2, PillarsAddUp, PartsOfFinite
  <2>2. ASSUME NEW p \in S PROVE damped[p] \in Nat /\ damped[p] > 0
    <3>1. results[p].confidence \in 0..One
      BY <1>2 DEF Measured
    <3>. QED
      BY <1>2, <3>1, DampedWeightIsPositive
  <2>3. total = SumFunctionOnSet(damped, S)
    BY DEF SumFunction
  <2>4. NaturalOn(damped, S)
    BY <2>2 DEF NaturalOn
  <2>5. PICK q \in S : TRUE
    BY <1>3
  <2>. HIDE DEF damped
  <2>6. total \in Nat /\ total > 0
    <3>1. SumFunctionOnSet(damped, S) \in Nat /\ damped[q] <= SumFunctionOnSet(damped, S)
      BY <2>1, <2>4, SumIsNatural, TermIsInSum
    <3>. QED
      BY <2>2, <2>3, <3>1
  <2>. HIDE DEF total
  <2>7. ASSUME NEW p \in S PROVE effectiveWeight(p) \in Nat
    <3>. DEFINE a == 2000 * damped[p] + total
                b == 2 * total
    <3>1. a \in Nat /\ b \in Nat /\ b > 0
      BY <2>2, <2>6
    <3>. HIDE DEF a, b
    <3>2. a \div b \in Nat
      BY <3>1, QuotientBounds
    <3>. QED
      BY <3>2 DEF a, b
  <2>8. ASSUME NEW p \in S PROVE Max(score[p]) \in Nat
    <3>1. PICK n \in 0..100 : score[p] = {n}
      BY <1>2 DEF ScoresOf, ScoredOnce
    <3>2. Max({n}) \in {n}
      BY MaxOfBounded
    <3>. QED
      BY <3>1, <3>2
  <2>9. ASSUME NEW p \in S PROVE terms[p] \in Nat
    BY <2>7, <2>8
  <2>10. weighted = SumFunctionOnSet(terms, S)
    BY DEF SumFunction
  <2>. HIDE DEF terms, effectiveWeight
  <2>11. weighted \in Nat
    BY <2>1, <2>9, <2>10, SumIsNatural DEF NaturalOn
  <2>. HIDE DEF weighted
  <2>12. points \in Nat
    <3>1. weighted + 500 \in Nat
      BY <2>11
    <3>. QED
      BY <3>1, QuotientBounds
  <2>. HIDE DEF points
  <2>. QED
    BY <1>1, <1>3, <2>12 DEF AtMost
<1>4. CASE S = {}
  BY <1>1, <1>4
<1>. QED
  BY <1>3, <1>4

\* A gate that applies caps the score, and nothing raises it.
LEMMA GatesCap ==
  ASSUME NEW raw \in 0..100, NEW gates, \A g \in gates : g.cap \in Nat
  PROVE  /\ Capped(raw, gates) \in 0..100
         /\ \A g \in gates : Capped(raw, gates) <= g.cap
<1>. DEFINE numbers == {raw} \cup {g.cap : g \in gates}
<1>1. numbers # {} /\ numbers \subseteq Nat
  OBVIOUS
<1>2. raw \in numbers /\ \A g \in gates : g.cap \in numbers
  OBVIOUS
<1>3. Capped(raw, gates) = Min(numbers)
  BY DEF Capped
<1>. HIDE DEF numbers
<1>4. Min(numbers) \in Nat /\ \A n \in numbers : Min(numbers) <= n
  BY <1>1, MinOfNaturals
<1>5. Min(numbers) <= raw /\ \A g \in gates : Min(numbers) <= g.cap
  BY <1>2, <1>4
<1>. QED
  BY <1>3, <1>4, <1>5

\* Every gate there is, by its code, its cap and what it takes.
LEMMA GatesOfResults ==
  ASSUME NEW results, NEW coverage
  PROVE  LET gates == evaluateGates(results, coverage)
         IN  /\ \A g \in gates : g.cap \in Nat
             /\ Concludes(results.identity, "IDENTITY_MISMATCH") => \E g \in gates : g.cap = 30
             /\ results.security.compromised => \E g \in gates : g.cap = 35
             /\ results.security.locked => \E g \in gates : g.cap = 35
             /\ (\E a \in results.hardware.anomalies : a.severity = "HIGH") =>
                  \E g \in gates : g.cap = 50
             /\ (\E s \in Unverified(results.service) : isCritical(s)) => \E g \in gates : g.cap = 45
<1>. DEFINE gates == evaluateGates(results, coverage)
<1>1. \A g \in gates : g.cap \in {30, 35, 70, 50, 45, 68, 82, 78, 95, 97}
  BY DEF evaluateGates, Gate
<1>2. ASSUME Concludes(results.identity, "IDENTITY_MISMATCH")
      PROVE  [code |-> "IDENTITY_MISMATCH", cap |-> 30, module |-> "identity"] \in gates
  BY <1>2 DEF evaluateGates, Gate
<1>3. ASSUME results.security.compromised
      PROVE  [code |-> "INTEGRITY_COMPROMISED", cap |-> 35, module |-> "security"] \in gates
  BY <1>3 DEF evaluateGates, Gate
<1>4. ASSUME results.security.locked
      PROVE  [code |-> "ACTIVATION_LOCK_ON", cap |-> 35, module |-> "security"] \in gates
  BY <1>4 DEF evaluateGates, Gate
<1>5. ASSUME \E a \in results.hardware.anomalies : a.severity = "HIGH"
      PROVE  [code |-> "HARDWARE_ANOMALY", cap |-> 50, module |-> "hardware"] \in gates
  BY <1>5 DEF evaluateGates, Gate
<1>6. ASSUME \E s \in Unverified(results.service) : isCritical(s)
      PROVE  [code |-> "CRITICAL_PART_UNVERIFIED", cap |-> 45, module |-> "service"] \in gates
  BY <1>6 DEF evaluateGates, Gate
<1>. HIDE DEF gates
<1>7. \A g \in gates : g.cap \in Nat
  BY <1>1
<1>. QED
  BY <1>2, <1>3, <1>4, <1>5, <1>6, <1>7 DEF gates

\* The five modules hand on shares and scores.
LEMMA ModulesAreMeasured ==
  ASSUME NEW known, Sound(known), NEW device
  PROVE  /\ Measured(moduleResults(known, device))
         /\ ScoresOf(pillar(moduleResults(known, device)))
<1>1. \A p \in Pillars : Accountable(known, moduleResults(known, device)[p])
  BY ModulesAreAccountable
<1>2. \A p \in Pillars : ScoredOnce(pillar(moduleResults(known, device))[p])
  BY ModulesScoreOnce
<1>3. Measured(moduleResults(known, device))
  BY <1>1 DEF Measured, Accountable
<1>. QED
  BY <1>2, <1>3 DEF ScoresOf

\* What the trust engine makes of the modules.
LEMMA TrustOfResults ==
  ASSUME NEW results
  PROVE  LET trust == runTrustEngine(results)
             score == pillar(results)
             confidence == TrustConfidence(results, score)
             gates == evaluateGates(results, TrustCoverage(results, score))
             raw == rawScore(results, score)
         IN  /\ trust.raw = raw /\ trust.score = Capped(raw, gates)
             /\ trust.confidence = confidence /\ trust.coverage = TrustCoverage(results, score)
             /\ trust.scoring = Scoring(score)
             /\ confidence < MinimumReportable => trust.verdict = "INSUFFICIENT_EVIDENCE"
<1>. DEFINE score == pillar(results)
            confidence == TrustConfidence(results, score)
            coverage == TrustCoverage(results, score)
            gates == evaluateGates(results, coverage)
            raw == rawScore(results, score)
            trust == runTrustEngine(results)
<1>1. /\ trust.raw = raw /\ trust.score = Capped(raw, gates)
      /\ trust.confidence = confidence /\ trust.coverage = coverage
      /\ trust.scoring = Scoring(score)
      /\ trust.verdict = disclosed(banded(Capped(raw, gates), confidence), results.service)
  BY DEF runTrustEngine
<1>. HIDE DEF trust, confidence
<1>2. ASSUME confidence < MinimumReportable PROVE trust.verdict = "INSUFFICIENT_EVIDENCE"
  <2>1. banded(Capped(raw, gates), confidence) = "INSUFFICIENT_EVIDENCE"
    BY <1>2 DEF banded
  <2>. QED
    BY <1>1, <2>1 DEF disclosed
<1>. QED
  BY <1>1, <1>2 DEF trust, confidence

\* The ledger holds records with ids of their own; a report is one, its scores
\* are out of a hundred and its confidence and coverage are shares.
THEOREM TypeCorrectness == Spec => []TypeOK
<1>1. ASSUME IInv PROVE TypeOK
  <2>1. ledger \subseteq Records /\ Sound(ledger) /\ stage \in 1..(Len(Order) + 1)
    BY <1>1 DEF IInv, Sound
  <2>2. \A x, y \in ledger : evidenceId(x) = evidenceId(y) => x = y
    BY <2>1, IdsAreUnique
  <2>3. Cardinality(report) <= 1
    <3>. DEFINE made == evaluate(ledger)
    <3>1. report = {} \/ report = {made}
      BY <1>1 DEF IInv
    <3>. HIDE DEF made
    <3>2. Cardinality({made}) = 1 /\ Cardinality({}) = 0
      BY FS_Singleton, FS_EmptySet
    <3>. QED
      BY <3>1, <3>2
  <2>4. ASSUME NEW r \in report
        PROVE  /\ r.trust.score \in 0..100 /\ r.trust.raw \in 0..100
               /\ InRange(r.trust.confidence) /\ InRange(r.trust.coverage)
    <3>. DEFINE results == r.results
                score == pillar(results)
                coverage == TrustCoverage(results, score)
                gates == evaluateGates(results, coverage)
                raw == rawScore(results, score)
    <3>1. Measured(results) /\ ScoresOf(score)
      BY <1>1, ReportOfLedger, ModulesAreMeasured
    <3>2. r.trust = runTrustEngine(results)
      BY <1>1, ReportOfLedger
    <3>. HIDE DEF results
    <3>3. /\ r.trust.raw = raw /\ r.trust.score = Capped(raw, gates)
          /\ r.trust.confidence = TrustConfidence(results, score) /\ r.trust.coverage = coverage
      BY <3>2, TrustOfResults
    <3>4. \A g \in gates : g.cap \in Nat
      BY GatesOfResults
    <3>. HIDE DEF score
    <3>5. raw \in 0..100
      BY <3>1, RawIsAScore
    <3>6. coverage \in 0..One /\ TrustConfidence(results, score) \in 0..One
      BY <3>1, CoverageIsAShare, ConfidenceIsAShare
    <3>. HIDE DEF gates, raw, coverage
    <3>7. Capped(raw, gates) \in 0..100
      BY <3>4, <3>5, GatesCap
    <3>. QED
      BY <3>3, <3>5, <3>6, <3>7 DEF InRange
  <2>. QED
    BY <2>1, <2>2, <2>3, <2>4 DEF TypeOK
<1>. QED
  BY <1>1, Invariance, PTL

\* Whatever was read and however sure the modules are: less than 45 % of the
\* intended picture never makes a verdict.
THEOREM VerdictsNeedThePicture == Spec => []VerdictNeedsThePicture
<1>1. ASSUME IInv PROVE VerdictNeedsThePicture
  <2>. SUFFICES ASSUME NEW r \in report, r.trust.verdict # "INSUFFICIENT_EVIDENCE"
                PROVE  SumFunctionOnSet(PILLAR_WEIGHTS, r.trust.scoring) >= 45
    BY DEF VerdictNeedsThePicture
  <2>. DEFINE results == r.results
              score == pillar(results)
              reported == Reported(results, score)
              weight == SumFunctionOnSet(PILLAR_WEIGHTS, Scoring(score))
              share == reported \div 100
  <2>1. Measured(results)
    BY <1>1, ReportOfLedger, ModulesAreMeasured
  <2>2. r.trust = runTrustEngine(results)
    BY <1>1, ReportOfLedger
  <2>. HIDE DEF results
  <2>3. ~(TrustConfidence(results, score) < MinimumReportable) /\ r.trust.scoring = Scoring(score)
    BY <2>2, TrustOfResults
  <2>. HIDE DEF score
  <2>4. /\ reported \in Nat /\ weight \in Nat /\ reported <= One * weight
        /\ TrustConfidence(results, score) \in 0..One
    BY <2>1, ConfidenceIsAShare
  <2>5. TrustConfidence(results, score) = Round3(share)
    BY DEF TrustConfidence
  <2>. HIDE DEF reported, weight
  <2>6. weight >= 45
    <3>1. share \in Nat /\ (\A k \in Nat : reported < (k + 1) * 100 => share <= k)
      BY <2>4, QuotientBounds
    <3>. SUFFICES ASSUME weight <= 44 PROVE FALSE
      BY <2>4
    <3>2. reported < (4400 + 1) * 100
      BY <2>4, OneIs
    <3>3. share <= 4400
      BY <3>1, <3>2
    <3>. HIDE DEF share
    <3>4. Round3(share) <= 4405
      BY <3>1, <3>3 DEF Round3
    <3>5. Round3(share) \in Nat
      BY <3>1 DEF Round3
    <3>. QED
      BY <2>3, <2>5, <3>4, <3>5 DEF MinimumReportable
  <2>. QED
    BY <2>3, <2>6 DEF weight
<1>. QED
  BY <1>1, Invariance, PTL

LEMMA OneIsBest ==
  ASSUME NEW known, Sound(known), NEW subject, NEW key, best(known, subject, key) # {}
  PROVE  \E b : best(known, subject, key) = {b}
BY Zenon DEF best

\* A reading that has one value in a capture is the one a lookup finds.
LEMMA SingleReadings ==
  ASSUME NEW known, Sound(known), SingleIn(known), ReadBy(known, 9),
         NEW e \in known, e.key \in Single, e.kind # "COLLECTION_FAILURE"
  PROVE  best(known, SoleReader[e.key][2], e.key) = {e}
<1>1. e.subject = SoleReader[e.key][2]
  BY DEF ReadBy, Single
<1>2. e \in Readings(known, e.subject, e.key)
  BY DEF Readings, forSubject
<1>3. PICK b : best(known, e.subject, e.key) = {b}
  <2>1. best(known, e.subject, e.key) # {}
    BY <1>2, BestIsKnown
  <2>. QED
    BY <2>1, OneIsBest
<1>4. b \in known /\ b.key = e.key
  BY <1>3, BestIsKnown
<1>5. b = e
  BY <1>4, Zenon DEF SingleIn
<1>. QED
  BY <1>1, <1>3, <1>5

LEMMA ReadKeys ==
  /\ {"IMEI", "HardwareModel", "IsAssociated", "ExpectedBoardIds"} \subseteq Single
  /\ SoleReader["IMEI"][2] = "DEVICE" /\ SoleReader["HardwareModel"][2] = "DEVICE"
  /\ SoleReader["ExpectedBoardIds"][2] = "DEVICE"
  /\ SoleReader["IsAssociated"][2] = "SECURITY_STATE"
  /\ {"JailbreakBundlePresent", "UnsandboxedServiceAdvertised"} \subseteq DOMAIN SoleReader
  /\ SoleReader["JailbreakBundlePresent"][2] = "SECURITY_STATE"
  /\ SoleReader["UnsandboxedServiceAdvertised"][2] = "SECURITY_STATE"
  /\ {"IMEI", "HardwareModel", "IsAssociated"} \cap CollectorNames = {}
BY DEF Single, SoleReader, Repeatable, CollectorNames

\* A check that has its reading and the readings it needs fires the rule of what
\* the reading says.
LEMMA AgainstIsAdverse ==
  ASSUME NEW known, Sound(known), NEW checks, ModestTable(checks), NEW module,
         NEW c \in DOMAIN checks, NEW e \in Answers(known, checks[c]),
         \A n \in checks[c].needs : \E r \in best(known, n.subject, n.key) : r.value \in n.values,
         NEW u \in checks[c].rules[e.value], u.direction = "SUPPORTS_NEGATIVE"
  PROVE  /\ c \in performed(known, checks)
         /\ Adverse(Inferred(known, module, checks)) # {}
<1>1. c \in performed(known, checks)
  BY DEF performed, CanRun
<1>2. ModestCheck(checks[c])
  BY DEF ModestTable
<1>3. PICK i \in Fired(known, module, checks[c]) : i.direction = u.direction
  BY <1>2, FiredIsGrounded
<1>4. i \in Inferred(known, module, checks)
  BY <1>1, <1>3, Zenon DEF Inferred
<1>5. i \in Adverse(Inferred(known, module, checks))
  BY <1>3, <1>4 DEF Adverse
<1>. QED
  BY <1>1, <1>5

LEMMA BadImeiIsAMismatch ==
  ASSUME NEW known, Sound(known), NEW e, best(known, "DEVICE", "IMEI") = {e},
         e.value \in {"malformed", "badCheckDigit"}
  PROVE  Concludes(runIdentityEngine(known), "IDENTITY_MISMATCH")
<1>. DEFINE check == IdentityChecks["imeiChecksum"]
            inferences == Inferred(known, "IDENTITY", IdentityChecks)
            verdict == Conclusion(inferences, "IDENTITY_CONSISTENT", "IDENTITY_MISMATCH")
<1>1. /\ "imeiChecksum" \in DOMAIN IdentityChecks
      /\ check.subject = "DEVICE" /\ check.key = "IMEI" /\ check.needs = {}
      /\ {"malformed", "badCheckDigit"} \subseteq DOMAIN check.rules
      /\ check.rules["malformed"] = Against("imei-malformed", 80, 95)
      /\ check.rules["badCheckDigit"] = Against("imei-checksum-invalid", 95, 98)
  BY DEF IdentityChecks, Check
<1>. HIDE DEF check
<1>2. e \in Answers(known, check)
  BY <1>1 DEF Answers
<1>3. PICK u \in check.rules[e.value] : u.direction = "SUPPORTS_NEGATIVE"
  <2>1. \A name, weight, confidence :
          \E u \in Against(name, weight, confidence) : u.direction = "SUPPORTS_NEGATIVE"
    BY DEF Against
  <2>. QED
    BY <1>1, <2>1
<1>4. Adverse(inferences) # {}
  BY <1>1, <1>2, <1>3, IdentityTable, AgainstIsAdverse DEF check
<1>5. AllGrounded(known, inferences)
  BY IdentityTable, InferredIsGrounded
<1>. HIDE DEF inferences
<1>6. verdict.value = "IDENTITY_MISMATCH"
  BY <1>4, <1>5, ConclusionRests
<1>7. runIdentityEngine(known).verdicts = {verdict}
  BY DEF runIdentityEngine, inferences
<1>. HIDE DEF verdict
<1>. QED
  BY <1>6, <1>7 DEF Concludes

LEMMA ForeignBoardIsAnAnomaly ==
  ASSUME NEW known, Sound(known), NEW e, best(known, "DEVICE", "HardwareModel") = {e},
         e.value = "foreign",
         NEW seed, best(known, "DEVICE", "ExpectedBoardIds") = {seed}, seed.value = "seeded",
         NEW catalogued, ProductType(known) \cap catalogued # {}
  PROVE  \E a \in runHardwareEngine(known, catalogued).anomalies : a.severity = "HIGH"
<1>. DEFINE check == HardwareChecks["boardId"]
<1>1. /\ "boardId" \in DOMAIN HardwareChecks
      /\ check.subject = "DEVICE" /\ check.key = "HardwareModel"
      /\ check.needs = {Expects("DEVICE", "ExpectedBoardIds")}
  BY DEF HardwareChecks, Check
<1>2. /\ Expects("DEVICE", "ExpectedBoardIds").subject = "DEVICE"
      /\ Expects("DEVICE", "ExpectedBoardIds").key = "ExpectedBoardIds"
      /\ Expects("DEVICE", "ExpectedBoardIds").values = {"seeded"}
  BY DEF Expects, Need
<1>3. "foreign" \in DOMAIN check.rules
  BY <1>1, ForeignIsChecked
<1>. HIDE DEF check
<1>4. e \in Answers(known, check)
  BY <1>1, <1>3 DEF Answers
<1>5. \A n \in check.needs : \E r \in best(known, n.subject, n.key) : r.value \in n.values
  BY <1>1, <1>2
<1>6. "boardId" \in performed(known, HardwareChecks)
  BY <1>1, <1>4, <1>5 DEF performed, CanRun, check
<1>7. Says(known, check.subject, check.key, "foreign")
  BY <1>1 DEF Says
<1>8. [check |-> "boardId", severity |-> "HIGH"] \in Anomalies(known)
  <2>1. "boardId" \in {x \in performed(known, HardwareChecks) :
              Says(known, HardwareChecks[x].subject, HardwareChecks[x].key, "foreign")}
    BY <1>6, <1>7 DEF check
  <2>2. "boardId" # "designCapacity"
    OBVIOUS
  <2>. QED
    BY <2>1, <2>2 DEF Anomalies
<1>9. runHardwareEngine(known, catalogued) = Assessed(known)
  BY DEF runHardwareEngine, ProductType
<1>10. Assessed(known).anomalies = Anomalies(known)
  BY DEF Assessed
<1>. QED
  BY <1>8, <1>9, <1>10

LEMMA UnverifiedLabelIsUnverified ==
  ASSUME NEW known, Sound(known), NEW device, NEW s \in applicableComponents(device),
         NEW e \in label(known, s), e.value \in {"unknownPart", "unableToVerify"}
  PROVE  s \in Unverified(runServiceEngine(known, device))
<1>. DEFINE service == runServiceEngine(known, device)
<1>1. PICK b : label(known, s) = {b}
  BY BestIsKnown DEF label
<1>2. b = e /\ (CHOOSE x \in label(known, s) : TRUE) = e
  BY <1>1
<1>3. e.value \in DOMAIN LABEL_AUTHENTICITY /\ LABEL_AUTHENTICITY[e.value] = "NOT_VERIFIED"
  BY DEF LABEL_AUTHENTICITY
<1>4. authenticity(known, device, s) = "NOT_VERIFIED"
  BY <1>1, <1>2, <1>3 DEF authenticity
<1>5. ConcludeComponent(s, About(known, device, s)).value = "REPLACED_LIKELY"
  BY <1>1, ListedIsReplaced
<1>6. /\ DOMAIN service.components = applicableComponents(device)
      /\ service.components[s].verdict = "REPLACED_LIKELY"
      /\ service.components[s].authenticity = "NOT_VERIFIED"
  BY <1>4, <1>5, ComponentsOfService
<1>. HIDE DEF service
<1>. QED
  BY <1>6 DEF Unverified, service

\* What a gate watches for caps the score.
LEMMA AdverseResultsCap ==
  ASSUME NEW results, Measured(results), ScoresOf(pillar(results))
  PROVE  /\ Concludes(results.identity, "IDENTITY_MISMATCH") => runTrustEngine(results).score <= 30
         /\ results.security.compromised \/ results.security.locked =>
              runTrustEngine(results).score <= 35
         /\ (\E a \in results.hardware.anomalies : a.severity = "HIGH") =>
              runTrustEngine(results).score <= 50
         /\ (\E s \in Unverified(results.service) : isCritical(s)) =>
              runTrustEngine(results).score <= 45
<1>. DEFINE score == pillar(results)
            gates == evaluateGates(results, TrustCoverage(results, score))
            raw == rawScore(results, score)
<1>1. runTrustEngine(results).score = Capped(raw, gates)
  BY TrustOfResults
<1>2. raw \in 0..100
  BY RawIsAScore
<1>3. \A g \in gates : g.cap \in Nat
  BY GatesOfResults
<1>4. \A g \in gates : Capped(raw, gates) <= g.cap
  <2>. HIDE DEF raw, gates
  <2>. QED
    BY <1>2, <1>3, GatesCap
<1>5. /\ Concludes(results.identity, "IDENTITY_MISMATCH") => \E g \in gates : g.cap = 30
      /\ results.security.compromised => \E g \in gates : g.cap = 35
      /\ results.security.locked => \E g \in gates : g.cap = 35
      /\ (\E a \in results.hardware.anomalies : a.severity = "HIGH") => \E g \in gates : g.cap = 50
      /\ (\E s \in Unverified(results.service) : isCritical(s)) => \E g \in gates : g.cap = 45
  BY GatesOfResults, Zenon
<1>. HIDE DEF raw, gates
<1>. QED
  BY <1>1, <1>4, <1>5

\* Whatever else was read, in any number and from any channel: a contradicted
\* identifier, a jailbreak indicator, an activation lock, a foreign board and an
\* unverified display each keep the score below their cap.
THEOREM AdverseFactsAlwaysCap == Spec => []AdverseFactsCap
<1>1. ASSUME IInv PROVE AdverseFactsCap
  <2>. SUFFICES ASSUME NEW r \in report
                PROVE  /\ Recorded({"IMEI"}, {"malformed", "badCheckDigit"}) => r.trust.score <= 30
                       /\ (\E e \in ledger : e.key \in {"JailbreakBundlePresent", "UnsandboxedServiceAdvertised"})
                            => r.trust.score <= 35
                       /\ Recorded({"IsAssociated"}, {"true"}) => r.trust.score <= 35
                       /\ Recorded({"HardwareModel"}, {"foreign"}) /\ ProductType(ledger) \cap Specified # {}
                            => r.trust.score <= 50
                       /\ (\E e \in label(ledger, "DISPLAY") : e.value \in {"unknownPart", "unableToVerify"})
                            => r.trust.score <= 45
    BY DEF AdverseFactsCap
  <2>. DEFINE device == resolveDevice(ledger)
              results == moduleResults(ledger, device)
              score == r.trust.score
  <2>1. Sound(ledger) /\ SingleIn(ledger) /\ ReadBy(ledger, 9) /\ Seeded(ledger)
    <3>1. stage = 10
      BY <1>1, OrderOfCollectors DEF IInv
    <3>. QED
      BY <1>1, <3>1 DEF IInv
  <2>2. r.trust = runTrustEngine(results)
    BY <1>1, ReportOfLedger
  <2>3. Measured(results) /\ ScoresOf(pillar(results))
    BY <2>1, ModulesAreMeasured
  <2>4. /\ results.identity = runIdentityEngine(ledger)
        /\ results.hardware = runHardwareEngine(ledger, Specified)
        /\ results.service = runServiceEngine(ledger, device)
        /\ results.security.compromised = integrityCompromised(ledger)
        /\ results.security.locked = activationLockEnabled(ledger)
    BY DEF moduleResults, runSecurityEngine
  <2>. HIDE DEF results, device
  <2>5. /\ Concludes(results.identity, "IDENTITY_MISMATCH") => score <= 30
        /\ results.security.compromised \/ results.security.locked => score <= 35
        /\ (\E a \in results.hardware.anomalies : a.severity = "HIGH") => score <= 50
        /\ (\E s \in Unverified(results.service) : isCritical(s)) => score <= 45
    BY <2>2, <2>3, AdverseResultsCap
  <2>. HIDE DEF score
  <2>6. ASSUME NEW e \in ledger, e.key \in {"IMEI", "HardwareModel", "IsAssociated"}
        PROVE  best(ledger, SoleReader[e.key][2], e.key) = {e}
    <3>1. e.kind # "COLLECTION_FAILURE"
      BY <2>1, <2>6, ReadKeys DEF Sound
    <3>. QED
      BY <2>1, <2>6, <3>1, ReadKeys, SingleReadings
  <2>7. ASSUME Recorded({"IMEI"}, {"malformed", "badCheckDigit"}) PROVE score <= 30
    <3>1. PICK e \in ledger : e.key = "IMEI" /\ e.value \in {"malformed", "badCheckDigit"}
      BY <2>7 DEF Recorded
    <3>2. best(ledger, "DEVICE", "IMEI") = {e}
      BY <2>6, <3>1, ReadKeys
    <3>. QED
      BY <2>1, <2>4, <2>5, <3>1, <3>2, BadImeiIsAMismatch
  <2>8. ASSUME NEW e \in ledger, e.key \in {"JailbreakBundlePresent", "UnsandboxedServiceAdvertised"}
        PROVE  score <= 35
    <3>1. e.subject = "SECURITY_STATE"
      BY <2>1, <2>8, ReadKeys DEF ReadBy
    <3>2. integrityCompromised(ledger)
      BY <2>8, <3>1 DEF integrityCompromised, bundleRecords, serviceRecords, forSubject
    <3>. QED
      BY <2>4, <2>5, <3>2
  <2>9. ASSUME Recorded({"IsAssociated"}, {"true"}) PROVE score <= 35
    <3>1. PICK e \in ledger : e.key = "IsAssociated" /\ e.value = "true"
      BY <2>9 DEF Recorded
    <3>2. State(ledger, "IsAssociated") = {e}
      BY <2>6, <3>1, ReadKeys DEF State
    <3>3. activationLockEnabled(ledger)
      BY <3>1, <3>2 DEF activationLockEnabled, Holds, lockRecord, firstOf
    <3>. QED
      BY <2>4, <2>5, <3>3
  <2>10. ASSUME Recorded({"HardwareModel"}, {"foreign"}), ProductType(ledger) \cap Specified # {}
         PROVE  score <= 50
    <3>1. PICK e \in ledger : e.key = "HardwareModel" /\ e.value = "foreign"
      BY <2>10 DEF Recorded
    <3>2. best(ledger, "DEVICE", "HardwareModel") = {e}
      BY <2>6, <3>1, ReadKeys
    <3>3. PICK seed \in ledger : /\ seed.kind # "COLLECTION_FAILURE" /\ seed.value = "seeded"
                                 /\ seed.key = "ExpectedBoardIds"
      BY <2>1, <2>10 DEF Seeded
    <3>4. best(ledger, "DEVICE", "ExpectedBoardIds") = {seed}
      BY <2>1, <3>3, ReadKeys, SingleReadings
    <3>. QED
      BY <2>1, <2>4, <2>5, <2>10, <3>1, <3>2, <3>3, <3>4, ForeignBoardIsAnAnomaly
  <2>11. ASSUME NEW e \in label(ledger, "DISPLAY"), e.value \in {"unknownPart", "unableToVerify"}
         PROVE  score <= 45
    <3>1. "DISPLAY" \in applicableComponents(device)
      BY PartsAreWeighted
    <3>2. "DISPLAY" \in Unverified(results.service)
      BY <2>1, <2>4, <2>11, <3>1, UnverifiedLabelIsUnverified
    <3>3. isCritical("DISPLAY")
      BY DEF isCritical
    <3>. QED
      BY <2>5, <3>2, <3>3
  <2>. QED
    BY <2>7, <2>8, <2>9, <2>10, <2>11 DEF score
<1>. QED
  BY <1>1, Invariance, PTL
=============================================================================
