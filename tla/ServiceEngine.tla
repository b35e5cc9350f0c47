--------------------------- MODULE ServiceEngine ---------------------------
(***************************************************************************)
(* Module 3: is there evidence that a component was replaced?  iOS lists a *)
(* component in Parts and Service History only when it has a service       *)
(* record of it: the listing is the evidence, the label says only whether  *)
(* the part that was fitted is authentic.                                  *)
(***************************************************************************)
EXTENDS Confidence

ComponentWeight ==
  [DISPLAY |-> 24, BATTERY |-> 18, FACE_ID |-> 14, REAR_CAMERA |-> 13, LOGIC_BOARD |-> 10,
   FRONT_CAMERA |-> 9, TOUCH_ID |-> 6, REAR_HOUSING |-> 5, LIDAR |-> 3, SPEAKER |-> 3,
   MICROPHONE |-> 3, TAPTIC_ENGINE |-> 2]

WeightOf(subjects) == SumFunctionOnSet(ComponentWeight, subjects)

isCritical(subject) == subject \in {"DISPLAY", "LOGIC_BOARD", "FACE_ID"}

SERVICE_HISTORY_TRACKED ==
  {"DISPLAY", "BATTERY", "REAR_CAMERA", "FRONT_CAMERA", "FACE_ID", "TOUCH_ID"}

applicableComponents(device) ==
  (DOMAIN ComponentWeight \ {"FACE_ID", "TOUCH_ID", "LIDAR"})
    \cup ({device.biometrics} \cap {"FACE_ID", "TOUCH_ID"})
    \cup {s \in {"LIDAR"} : device.hasLidar}

\* What each diagnostic event weighs, and whether it also says that the part
\* is not authentic.
DIAGNOSTIC_RULES ==
  [AppleSmartBatteryUnknownPart |-> <<80, 85, TRUE>>,
   BatteryUnknownPart           |-> <<75, 80, TRUE>>,
   NonGenuineBattery            |-> <<80, 85, TRUE>>,
   DisplaySerialMismatch        |-> <<75, 85, FALSE>>,
   AppleDisplayPipeAuthFailure  |-> <<70, 80, TRUE>>,
   MultitouchCalibrationFailure |-> <<50, 70, FALSE>>,
   TrueToneDisabled             |-> <<45, 70, FALSE>>,
   FaceIDPairingFailure         |-> <<80, 85, TRUE>>,
   PearlNotPaired               |-> <<80, 85, TRUE>>,
   CameraPairingFailure         |-> <<70, 80, TRUE>>,
   ServiceHistoryRecord         |-> <<40, 70, FALSE>>]

LABEL_AUTHENTICITY ==
  [genuineApplePart |-> "GENUINE_APPLE", usedApplePart |-> "GENUINE_TRANSPLANTED",
   unknownPart |-> "NOT_VERIFIED", unableToVerify |-> "NOT_VERIFIED"]

\* The service history screen, as it was attested.
label(ledger, s) == best(ledger, s, "ServiceHistoryLabel")
SectionAbsent(ledger) == Says(ledger, "DEVICE", "ServiceHistorySectionAbsent", "true")
Labels(ledger) ==
  {r \in ledger : r.kind = "SERVICE_RECORD_STATEMENT" /\ r.key = "ServiceHistoryLabel"}

Diagnostics(ledger, s) ==
  {r \in forSubject(ledger, s) : r.kind = "DIAGNOSTIC_EVENT" /\ r.key \in DOMAIN DIAGNOSTIC_RULES}

firstDefined(first, second) == IF first # {} THEN first ELSE second
TrueTone(ledger) ==
  firstDefined(best(ledger, "DISPLAY", "DisplaySupportsTrueTone"),
               best(ledger, "DISPLAY", "TrueToneSupported"))
FaceId(ledger) ==
  firstDefined(best(ledger, "FACE_ID", "SupportsFaceID"), best(ledger, "FACE_ID", "FaceIDCapability"))

PartRule(s, rule, direction, weight, confidence, cited) ==
  derive("SERVICE_EVIDENCE", s, rule, direction, weight, confidence, cited)

\* Listed, or the screen is empty, or it lists others and not this one.
FromHistory(ledger, s) ==
  IF label(ledger, s) # {}
  THEN {PartRule(s, "listed-in-service-history", "SUPPORTS_NEGATIVE", 90, 90, label(ledger, s))}
  ELSE IF s \notin SERVICE_HISTORY_TRACKED THEN {}
  ELSE IF SectionAbsent(ledger)
  THEN {PartRule(s, "no-service-history-section", "SUPPORTS_POSITIVE", 60, 75,
             best(ledger, "DEVICE", "ServiceHistorySectionAbsent"))}
  ELSE {PartRule(s, "absent-from-populated-history", "SUPPORTS_POSITIVE", 65, 80,
             {CHOOSE r \in Labels(ledger) : TRUE}) : x \in {y \in {s} : Labels(ledger) # {}}}

FromDiagnostics(ledger, s) ==
  {PartRule(s, r.key, "SUPPORTS_NEGATIVE",
        DIAGNOSTIC_RULES[r.key][1], DIAGNOSTIC_RULES[r.key][2], {r}) : r \in Diagnostics(ledger, s)}

\* True Tone needs the panel's own calibration; its presence says little.
FromTrueTone(ledger, device, s) ==
  IF s # "DISPLAY" \/ ~device.shippedTrueTone THEN {}
  ELSE {PartRule(s, "true-tone-absent", "SUPPORTS_NEGATIVE", 60, 80, {r}) :
          r \in {x \in TrueTone(ledger) : x.value = "false"}}
       \cup {PartRule(s, "true-tone-present", "SUPPORTS_POSITIVE", 25, 60, {r}) :
          r \in {x \in TrueTone(ledger) : x.value = "true"}}

FromFaceId(ledger, device, s) ==
  IF s # "FACE_ID" \/ device.biometrics # "FACE_ID" THEN {}
  ELSE {PartRule(s, "face-id-capability-absent", "SUPPORTS_NEGATIVE", 70, 80, {r}) :
          r \in {x \in FaceId(ledger) : x.value = "false"}}

About(ledger, device, s) ==
  FromHistory(ledger, s) \cup FromDiagnostics(ledger, s)
    \cup FromTrueTone(ledger, device, s) \cup FromFaceId(ledger, device, s)

\* The label decides; without one, an event or a lost module that says so.
authenticity(ledger, device, s) ==
  IF \E r \in label(ledger, s) : r.value \in DOMAIN LABEL_AUTHENTICITY
  THEN LABEL_AUTHENTICITY[(CHOOSE r \in label(ledger, s) : TRUE).value]
  ELSE IF \/ \E r \in Diagnostics(ledger, s) : DIAGNOSTIC_RULES[r.key][3]
          \/ FromFaceId(ledger, device, s) # {}
       THEN "NOT_VERIFIED" ELSE "UNKNOWN"

\* Faulty: a tenth instead of a quarter.
LowMinimumMass == 1000

\* Replaced is easier to reach than original; below the minimum mass, and
\* between the two shares, nothing is concluded.
minimumMass == 2500
ConcludeComponent(s, inferences) ==
  LET replaced == Mass(Adverse(inferences))
      original == Mass(Benign(inferences))
      total    == replaced + original
      Settled(value, supporting, opposing) ==
        Verdict(s, value, TRUE, AtLeast(verdictConfidence(supporting, opposing), 2500), supporting)
  IN  IF total < minimumMass THEN Abstains(s, inferences)
      ELSE IF 100 * replaced >= 45 * total
           THEN Settled("REPLACED_LIKELY", Adverse(inferences), original)
      ELSE IF 100 * original >= 60 * total
           THEN Settled("ORIGINAL_LIKELY", Benign(inferences), replaced)
      ELSE Abstains(s, inferences)

ServiceFindings(ledger, device, coverage) ==
  {Finding("SERVICE_PART_NOT_VERIFIED_" \o s, label(ledger, s), {}) :
     s \in {x \in applicableComponents(device) :
              label(ledger, x) # {} /\ authenticity(ledger, device, x) = "NOT_VERIFIED"}}
  \cup {Finding("SERVICE_PART_TRANSPLANTED_" \o s, label(ledger, s), {}) :
     s \in {x \in applicableComponents(device) :
              label(ledger, x) # {} /\ authenticity(ledger, device, x) = "GENUINE_TRANSPLANTED"}}
  \cup {Gap(c) : c \in {x \in {"SERVICE_NO_ATTESTATION"} :
                          ~SectionAbsent(ledger) /\ Labels(ledger) = {}}}
  \cup {Gap(c) : c \in {x \in {"SERVICE_COVERAGE_LOW"} : coverage < One \div 2}}

runServiceEngine(ledger, device) ==
  LET parts      == applicableComponents(device)
      about      == [s \in parts |-> About(ledger, device, s)]
      verdict    == [s \in parts |-> ConcludeComponent(s, about[s])]
      determined == {s \in parts : verdict[s].determined}
      coverage   == Round3(Ratio(WeightOf(determined), WeightOf(parts)))
      weighted   == [s \in determined |-> verdict[s].confidence * ComponentWeight[s]]
      mean       == IF determined = {} THEN 0 ELSE SumFunction(weighted) \div WeightOf(determined)
  IN  [verdicts   |-> {verdict[s] : s \in parts},
       inferences |-> UNION {about[s] : s \in parts},
       coverage   |-> coverage,
       confidence |-> dampByCoverage(mean, coverage),
       findings   |-> ServiceFindings(ledger, device, coverage),
       components |-> [s \in parts |-> [verdict |-> verdict[s].value,
                                        authenticity |-> authenticity(ledger, device, s)]]]
=============================================================================
