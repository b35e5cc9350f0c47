----------------------------- MODULE Inspection -----------------------------
(***************************************************************************)
(* One inspection, from a capture to a report.  Nine collectors run in a   *)
(* fixed order and append to the ledger; then the five modules and the     *)
(* trust engine reason over the ledger alone.                              *)
(*                                                                         *)
(* What the capture holds is revealed collector by collector: Batches[c]   *)
(* is what collector c may find in it.                                     *)
(***************************************************************************)
EXTENDS IdentityEngine, HardwareEngine, BatteryEngine, SecurityEngine, TrustEngine,
        ProvenanceAudit

CONSTANTS Batches,    \* collector -> the sets of records it may append
          Failing,    \* <<collector, reason>> pairs a capture may report
          Catalogue,  \* product type -> what the device catalogue knows
          Specified,  \* the product types with a hardware specification
          Newer       \* product types newer than the catalogue

VARIABLES ledger, stage, report

vars == <<ledger, stage, report>>

Order == <<"lockdown", "expectations", "domains", "registry", "analytics", "inventory",
           "services", "attestation", "failures">>

\* Several applications may be installed, and a part may be listed twice under
\* two of its names; every other key has one value in a capture.  A screen
\* without a service section lists no part.
Repeatable == {"JailbreakBundlePresent", "UnsandboxedServiceAdvertised", "ServiceHistoryLabel"}
Slot(r) == <<r.kind, r.subject, r.key, IF r.key \in Repeatable THEN r.value ELSE "">>

Consistent(batch) ==
  /\ \A x, y \in batch : Slot(x) = Slot(y) => x = y
  /\ (\E r \in batch : r.key = "ServiceHistorySectionAbsent") => Cardinality(batch) = 1

\* What a single collector records, and of which subject.
SoleReader ==
  [ProductType                  |-> <<"lockdown", "DEVICE">>,
   HardwareModel                |-> <<"lockdown", "DEVICE">>,
   IMEI                         |-> <<"lockdown", "DEVICE">>,
   ExpectedBoardIds             |-> <<"expectations", "DEVICE">>,
   IsAssociated                 |-> <<"domains", "SECURITY_STATE">>,
   JailbreakBundlePresent       |-> <<"inventory", "SECURITY_STATE">>,
   UnsandboxedServiceAdvertised |-> <<"services", "SECURITY_STATE">>]

KindsOf(collector) ==
  CASE collector = "analytics" -> {"READING", "DIAGNOSTIC_EVENT"}
    [] collector = "attestation" -> {"SERVICE_RECORD_STATEMENT"}
    [] OTHER -> {"READING"}

\* What a collector reads is believed as far as its channel.
Admissible(collector, r) ==
  /\ r.kind \in KindsOf(collector)
  /\ r.reliability = ChannelReliability[r.channel]
  /\ r.key \in DOMAIN SoleReader => SoleReader[r.key] = <<collector, r.subject>>

ASSUME BatchesAssumption ==
  \A c \in {"lockdown", "domains", "registry", "analytics", "inventory", "services", "attestation"} :
    \A batch \in Batches[c] :
      /\ batch \subseteq Records /\ IsFiniteSet(batch) /\ Consistent(batch)
      /\ \A r \in batch : Admissible(c, r)

\* The names under which a capture reports a refusal.
CollectorNames ==
  {"lockdown.com.apple.disk_usage", "lockdown.com.apple.mobile.battery",
   "lockdown.com.apple.mobile.mobilegestalt", "lockdown.com.apple.fmip",
   "lockdown.com.apple.mobile.cloud_configuration", "battery.ioregistry",
   "ioregistry.AppleSmartBattery", "installation_proxy", "service_discovery", "analytics.crashreport"}

ASSUME FailingAssumption == IsFiniteSet(Failing) /\ Failing \subseteq CollectorNames \X STRING

Devices ==
  [recognised : BOOLEAN, biometrics : {"FACE_ID", "TOUCH_ID", "NONE"}, hasLidar : BOOLEAN,
   shippedTrueTone : BOOLEAN, ratedCycleLife : Nat]

ASSUME CatalogueAssumption == \A p \in DOMAIN Catalogue : Catalogue[p] \in Devices

-----------------------------------------------------------------------------
(* The catalogue. *)

Synthetic(modern) ==
  [recognised |-> FALSE, biometrics |-> IF modern THEN "FACE_ID" ELSE "NONE", hasLidar |-> FALSE,
   shippedTrueTone |-> FALSE, ratedCycleLife |-> IF modern THEN 1000 ELSE 500]

ProductType(known) == {r.value : r \in best(known, "DEVICE", "ProductType")}

resolveDevice(known) ==
  IF ProductType(known) \cap DOMAIN Catalogue # {}
  THEN Catalogue[CHOOSE p \in ProductType(known) : TRUE]
  ELSE Synthetic(ProductType(known) \cap Newer # {})

expectation(subject, key, number) ==
  Observation("READING", subject, key, "seeded", number, "catalog")

SpecifiedKeys ==
  {"ExpectedBoardIds", "ExpectedCapacitiesGb", "ExpectedCpuArchitecture",
   "ExpectedSerialFormats", "ExpectedUdidFormat"}

\* Reference data enters the ledger as evidence, before any module runs.
Expectations(known) ==
  {r \in {expectation("DEVICE", k, 0) : k \in SpecifiedKeys}
         \cup {expectation("BATTERY", "ExpectedDesignCapacity", 0)} :
     ProductType(known) \cap Specified # {}}
  \cup {r \in {expectation("BATTERY", "RatedCycleLife", resolveDevice(known).ratedCycleLife),
               expectation("SYSTEM_SOFTWARE", "MaxSupportedIosMajor", 0),
               expectation("DEVICE", "ExpectedReleaseYear", 0)} : resolveDevice(known).recognised}

COLLECTOR_SUBJECTS(collector) ==
  CASE collector = "battery.ioregistry" -> "BATTERY"
    [] collector \in {"installation_proxy", "service_discovery"} -> "SECURITY_STATE"
    [] OTHER -> "DEVICE"

\* The words the collectors put in of their own are strings: TLC knows, the
\* provers have to be told.
ASSUME WordsAssumption ==
  /\ CollectorNames \cup SpecifiedKeys \subseteq STRING
  /\ {"DEVICE", "BATTERY", "SYSTEM_SOFTWARE", "SECURITY_STATE"} \subseteq STRING
  /\ {"ExpectedDesignCapacity", "RatedCycleLife", "MaxSupportedIosMajor", "ExpectedReleaseYear",
      "InstalledAppCount", "DiagnosticsRelayResponded"} \subseteq STRING
  /\ {"seeded", "true", "false", ""} \subseteq STRING

-----------------------------------------------------------------------------
(* The collectors. *)

Init == ledger = {} /\ stage = 1 /\ report = {}

Collected(collector, new) ==
  /\ stage <= Len(Order) /\ Order[stage] = collector
  /\ ledger' = recordAll(ledger, new)
  /\ stage' = stage + 1
  /\ UNCHANGED report

collectLockdown == \E found \in Batches["lockdown"] : Collected("lockdown", found)
collectCatalogExpectations == Collected("expectations", Expectations(ledger))
collectDomains == \E found \in Batches["domains"] : Collected("domains", found)
collectBatteryRegistry == \E found \in Batches["registry"] : Collected("registry", found)
collectAnalytics == \E found \in Batches["analytics"] : Collected("analytics", found)

\* Counts the applications even when the list could not be read.
collectSoftwareInventory ==
  \E found \in Batches["inventory"] :
    Collected("inventory", found \cup {Observation("READING", "SECURITY_STATE", "InstalledAppCount",
                                                "", Cardinality(found), "applications")})

\* Records whether the diagnostics relay answered: it did if a record is its, and
\* may have where none is, with a table that held nothing known.
collectServiceAvailability ==
  \E found \in Batches["services"], answered \in {"true", "false"} :
    /\ (\E r \in ledger : r.channel = "registry") => answered = "true"
    /\ Collected("services", found \cup {Observation("READING", "SECURITY_STATE",
                                         "DiagnosticsRelayResponded", answered, 0, "probe")})

collectAttestation == \E found \in Batches["attestation"] : Collected("attestation", found)

collectFailures ==
  \E errors \in SUBSET Failing :
    Collected("failures", {Failure(COLLECTOR_SUBJECTS(e[1]), e[1], e[2]) : e \in errors})

-----------------------------------------------------------------------------
(* The report. *)

moduleResults(known, device) ==
  [identity |-> runIdentityEngine(known),
   hardware |-> runHardwareEngine(known, Specified),
   service  |-> runServiceEngine(known, device),
   battery  |-> runBatteryEngine(known, device),
   security |-> runSecurityEngine(known)]

InspectionReport(known, results, trust, findings) ==
  [results |-> results, trust |-> trust, findings |-> findings,
   violations |-> audit(known, {results[m] : m \in DOMAIN results}, findings)]

reportOn(known, results, trust) ==
  InspectionReport(known, results, trust,
                   trust.findings \cup UNION {results[m].findings : m \in DOMAIN results})

assess(known, results) == reportOn(known, results, runTrustEngine(results))

evaluate(known) == assess(known, moduleResults(known, resolveDevice(known)))

Evaluate ==
  /\ stage > Len(Order) /\ report = {}
  /\ report' = {evaluate(ledger)}
  /\ UNCHANGED <<ledger, stage>>

Next ==
  \/ collectLockdown \/ collectCatalogExpectations \/ collectDomains \/ collectBatteryRegistry
  \/ collectAnalytics \/ collectSoftwareInventory \/ collectServiceAvailability
  \/ collectAttestation \/ collectFailures
  \/ Evaluate

Spec == Init /\ [][Next]_vars

-----------------------------------------------------------------------------
(* Properties. *)

\* Nothing but well-formed records with different ids is in the ledger, and a
\* report's figures are within their scales.
TypeOK ==
  /\ ledger \subseteq Records
  /\ \A x, y \in ledger : evidenceId(x) = evidenceId(y) => x = y
  /\ stage \in 1..(Len(Order) + 1)
  /\ Cardinality(report) <= 1
  /\ \A r \in report : /\ r.trust.score \in 0..100 /\ r.trust.raw \in 0..100
                       /\ InRange(r.trust.confidence) /\ InRange(r.trust.coverage)

\* The post-hoc audit of inspect() finds nothing: every inference cites records
\* of the ledger, every determined verdict an inference with a confidence, its
\* evidence is that of its inferences, and every finding has its basis.
EveryClaimIsCited == \A r \in report : r.violations = {}

Recorded(keys, values) == \E e \in ledger : e.key \in keys /\ e.value \in values

\* Gates cap: whatever else was read, and however many readings agree, one
\* contradiction of the identifiers, one jailbreak indicator, an activation
\* lock, a foreign board or an unverified display keep the score down (of two
\* equally reliable labels of one part the engine looks at one).
AdverseFactsCap ==
  \A r \in report :
    /\ Recorded({"IMEI"}, {"malformed", "badCheckDigit"}) => r.trust.score <= 30
    /\ (\E e \in ledger : e.key \in {"JailbreakBundlePresent", "UnsandboxedServiceAdvertised"})
         => r.trust.score <= 35
    /\ Recorded({"IsAssociated"}, {"true"}) => r.trust.score <= 35
    /\ Recorded({"HardwareModel"}, {"foreign"}) /\ ProductType(ledger) \cap Specified # {}
         => r.trust.score <= 50
    /\ (\E e \in label(ledger, "DISPLAY") : e.value \in {"unknownPart", "unableToVerify"})
         => r.trust.score <= 45

\* Confidence is measured over the whole intended picture: no verdict is given
\* on modules that make up less than 45 % of it.
VerdictNeedsThePicture ==
  \A r \in report :
    r.trust.verdict # "INSUFFICIENT_EVIDENCE" => SumFunctionOnSet(PILLAR_WEIGHTS, r.trust.scoring) >= 45

\* A part that the service history lists is taken for replaced, whatever speaks
\* for it, and such a device is never trusted without notes.
ListedPartIsDisclosed ==
  \A r \in report, e \in ledger :
    e.key = "ServiceHistoryLabel" /\ e.subject \in DOMAIN r.results.service.components
      => /\ r.results.service.components[e.subject].verdict = "REPLACED_LIKELY"
         /\ r.trust.verdict # "TRUSTED"

\* A part is called original only on an attested service screen that does not
\* list it: what the device says of itself is not enough.
OriginalIsEarned ==
  \A r \in report : \A s \in DOMAIN r.results.service.components :
    r.results.service.components[s].verdict = "ORIGINAL_LIKELY"
      => /\ \E e \in ledger : e.key \in {"ServiceHistorySectionAbsent", "ServiceHistoryLabel"}
         /\ ~\E e \in ledger : e.key = "ServiceHistoryLabel" /\ e.subject = s

\* Two channels may disagree on one reading: what identity, hardware and battery
\* conclude rests on the more reliable one.
CitesTheMostReliable ==
  \A r \in report, m \in {"identity", "hardware", "battery"} :
    \A i \in r.results[m].inferences : \A e \in i.evidence :
      \A x \in Readings(ledger, e.subject, e.key) : x.reliability <= e.reliability

\* A verdict rests on an inference that supports it: a clean posture on one
\* that speaks for the device.
CleanIsSupported ==
  \A r \in report : \A v \in r.results.security.verdicts :
    v.value = "POSTURE_CLEAN" => Benign(v.inferences) # {}
=============================================================================
