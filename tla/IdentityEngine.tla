-------------------------- MODULE IdentityEngine --------------------------
(***************************************************************************)
(* Module 1: do the identifiers agree with each other and with themselves? *)
(* The values of the readings are what the decoders of identifiers.ts make *)
(* of them: "badCheckDigit" is an IMEI that fails Luhn, "predates" a       *)
(* legacy serial made before the model was released, "replacement" a model *)
(* number of a unit that was replaced, refurbished or for demonstration,   *)
(* "suffixed" one that names its region.                                   *)
(***************************************************************************)
EXTENDS Checks

IdentityChecks ==
  [imeiChecksum |-> Check("DEVICE", "IMEI", {},
     [malformed     |-> Against("imei-malformed", 80, 95),
      badCheckDigit |-> Against("imei-checksum-invalid", 95, 98),
      valid         |-> For("imei-checksum-valid", 50, 90)]),
   secondaryImei |-> Check("DEVICE", "IMEI2",
     {Need("DEVICE", "IMEI", {"valid", "badCheckDigit"})},
     [otherTac  |-> Against("imei-tac-divergent", 70, 85),
      sameTac   |-> For("imei-tac-consistent", 35, 80),
      malformed |-> NoRule]),
   serialFormat |-> Check("DEVICE", "SerialNumber", {Expects("DEVICE", "ExpectedSerialFormats")},
     [unrecognised  |-> AgainstAlone("serial-format-unrecognised", 60, 85),
      otherEra      |-> Against("serial-format-era-mismatch", 65, 80),
      otherEraDated |-> Against("serial-format-era-mismatch", 65, 80),
      otherEraPredates |-> Against("serial-format-era-mismatch", 65, 80),
      fits          |-> For("serial-format-consistent", 40, 85),
      fitsDated     |-> For("serial-format-consistent", 40, 85),
      predates      |-> For("serial-format-consistent", 40, 85)]),
   manufactureEra |-> Check("DEVICE", "SerialNumber", {Expects("DEVICE", "ExpectedReleaseYear")},
     [predates      |-> Against("serial-predates-model", 70, 75),
      otherEraPredates |-> Against("serial-predates-model", 70, 75),
      fitsDated     |-> For("serial-era-plausible", 30, 70),
      otherEraDated |-> For("serial-era-plausible", 30, 70)]),
   udidFormat |-> Check("DEVICE", "UniqueDeviceID", {Expects("DEVICE", "ExpectedUdidFormat")},
     [unrecognised |-> AgainstAlone("udid-format-unrecognised", 60, 85),
      otherEra     |-> Against("udid-format-era-mismatch", 60, 80),
      fits         |-> For("udid-format-consistent", 35, 85)]),
   modelNumber |-> Check("DEVICE", "ModelNumber", {},
     [malformed   |-> Against("model-number-malformed", 50, 80),
      retail      |-> For("model-number-wellformed", 30, 85),
      suffixed    |-> For("model-number-wellformed", 30, 85),
      replacement |-> For("model-number-wellformed", 30, 85),
      replacementSuffixed |-> For("model-number-wellformed", 30, 85)]),
   deviceClass |-> Check("DEVICE", "DeviceClass", {},
     [other  |-> Against("device-class-unexpected", 50, 90),
      iPhone |-> For("device-class-expected", 25, 90)]),
   region |-> Check("DEVICE", "RegionInfo",
     {Need("DEVICE", "ModelNumber", {"suffixed", "replacementSuffixed"})},
     [differs |-> Against("region-mismatch", 55, 80),
      agrees  |-> For("region-consistent", 30, 80)])]

\* An invalid IMEI is surfaced; a replacement unit has a perfectly valid
\* identity and is surfaced all the same.
IdentityFindings(ledger, verdict, ran) ==
  {Finding("IDENTITY_IMEI_INVALID", {r}, {}) :
     r \in {x \in best(ledger, "DEVICE", "IMEI") : x.value = "badCheckDigit"}}
  \cup {Finding("IDENTITY_UNIT_SERVICE_REPLACEMENT", {r}, {}) :
     r \in {x \in best(ledger, "DEVICE", "ModelNumber") :
             x.value \in {"replacement", "replacementSuffixed"}}}
  \cup {Gap("IDENTITY_PARTIAL_COVERAGE") :
     c \in IF verdict.value = "IDENTITY_MISMATCH" THEN {} ELSE DOMAIN IdentityChecks \ ran}

runIdentityEngine(ledger) ==
  LET inferences == Inferred(ledger, "IDENTITY", IdentityChecks)
      ran        == performed(ledger, IdentityChecks)
      verdict    == Conclusion(inferences, "IDENTITY_CONSISTENT", "IDENTITY_MISMATCH")
      coverage   == Round3(Ratio(Cardinality(ran), Cardinality(DOMAIN IdentityChecks)))
  IN  [verdicts   |-> {verdict},
       inferences |-> inferences,
       coverage   |-> coverage,
       confidence |-> dampByCoverage(verdict.confidence, coverage),
       findings   |-> IdentityFindings(ledger, verdict, ran)]
=============================================================================
