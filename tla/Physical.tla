------------------------------ MODULE Physical ------------------------------
(***************************************************************************)
(* A PhysicalDNA inspection: photographs are validated, a detector looks   *)
(* at the usable ones, what it saw becomes evidence, and the evidence is   *)
(* scored - once when the detector answers, and again whenever somebody    *)
(* evaluates the stored ledger.  Both read the calibration table, which a  *)
(* benchmark job may replace at any time, also while the detector works.   *)
(***************************************************************************)
EXTENDS PhysicalScore, ProvenanceAudit

CONSTANTS Pictures,     \* image -> [view, metrics], what may be photographed
          Sightings,    \* what the detector may report of these images
          MaxSightings, \* bound: sightings in one answer of the detector
          Benchmarks    \* tables a benchmark job may publish

VARIABLES phase,     \* "idle", "detecting", "reported", "replayed"
          images,    \* the captures of the inspection
          offered,   \* what the detector answered
          table,     \* CALIBRATION_TABLE
          ledger,
          report     \* the latest report, a set of at most one

vars == <<phase, images, offered, table, ledger, report>>

Calibrations ==
  [operatingThreshold : 0..100, precision : 0..100, recall : 0..100, sampleSize : Nat,
   benchmarkVersion : STRING]

\* The detector names what it saw by class and surface; the image tells the view.
ASSUME PhysicalAssumption ==
  /\ IsFiniteSet(DOMAIN Pictures) /\ IsFiniteSet(Sightings)
  /\ \A i \in DOMAIN Pictures : Pictures[i].view \in CaptureView
  /\ \A d \in Sightings : d.image \in DOMAIN Pictures /\ d.surface \in Surface /\ d.area \in Nat
  /\ \A b \in Benchmarks : DOMAIN b \subseteq DEFECT_CLASS_IDS /\ \A c \in DOMAIN b : b[c] \in Calibrations

-----------------------------------------------------------------------------
(* Calibration. *)

Unmeasured == "unmeasured-0"
\* The provers have to be told.
ASSUME WordsAssumption == Unmeasured \in STRING

PLACEHOLDER_TABLE ==
  [c \in DEFECT_CLASS_IDS |->
     [operatingThreshold |-> 85, precision |-> 50, recall |-> 0, sampleSize |-> 0,
      benchmarkVersion |-> Unmeasured]]

isMeasured(calibration) ==
  calibration.sampleSize >= 50 /\ calibration.benchmarkVersion # Unmeasured

calibrationIsMeasured(cal) == \A c \in DEFECT_CLASS_IDS : isMeasured(cal[c])

\* Not the model's score: the precision measured for the class.
reliabilityFor(class, cal) ==
  IF isMeasured(cal[class]) THEN AtMost(99, AtLeast(cal[class].precision, 5)) ELSE 50

\* Faulty: every class at the placeholder's operating point.
PassesPlaceholder(d, cal) == d.modelScore >= 85

passesThreshold(d, cal) == d.modelScore >= cal[d.class].operatingThreshold

\* What "nothing found" is worth: the recall of the class we are worst at.
cleanRuleConfidence(surface, cal) ==
  IF \A c \in classesForSurface[surface] : isMeasured(cal[c])
  THEN Min({cal[c].recall : c \in classesForSurface[surface]})
  ELSE 35

-----------------------------------------------------------------------------
(* Evidence. *)

AcceptedImages(captures) == {i \in captures : Accepted(Pictures[i].view, Pictures[i].metrics)}

NoRaw == [class |-> "", surface |-> "", area |-> 0]

Evidence(kind, subject, key, value, channel, reliability, raw) ==
  [kind |-> kind, subject |-> subject, key |-> key, value |-> value, number |-> 0,
   channel |-> channel, reliability |-> reliability, raw |-> raw]

\* An accepted image speaks for every surface its view shows (its measurements
\* are recorded too, and read by no rule: they are left out).  Of the rejected
\* images of one view one failure is recorded: its id tells neither the image
\* nor the reason of the rejection.
CaptureRecord(i, surface, accepted) ==
  IF i \in accepted
  THEN Evidence("DEVICE_PROPERTY", SURFACE_SUBJECT[surface], <<"ViewCaptured", Pictures[i].view>>,
                <<i, "">>, "capture", ChannelReliability["capture"], NoRaw)
  ELSE Evidence("COLLECTION_FAILURE", SURFACE_SUBJECT[surface], <<"ViewCaptured", Pictures[i].view>>,
                <<"PARSE_ERROR", "">>, "capture", 100, NoRaw)

CaptureRecords(captures, accepted) ==
  UNION {{CaptureRecord(i, s, accepted) : s \in viewSpec[Pictures[i].view].surfaces} : i \in captures}

DetectorFailures(failed) ==
  UNION {{Evidence("COLLECTION_FAILURE", SURFACE_SUBJECT[s], <<"DetectionRun", i>>, <<"UNKNOWN", "">>,
                   "vision", 100, NoRaw) : s \in viewSpec[Pictures[i].view].surfaces} : i \in failed}

DefectRecord(d, cal) ==
  Evidence("VISUAL_OBSERVATION", SURFACE_SUBJECT[d.surface], <<"Defect", d.class>>, <<d.image, d.box>>,
           "vision", reliabilityFor(d.class, cal),
           [class |-> d.class, surface |-> d.surface, area |-> d.area])

\* The guards of rejectDetection, in the code's order.
Passes(d, accepted, cal) ==
  /\ d.class \in DEFECT_CLASS_IDS
  /\ d.image \in accepted
  /\ d.surface \in DEFECT_CLASSES[d.class].surfaces
  /\ d.surface \in viewSpec[Pictures[d.image].view].surfaces
  /\ passesThreshold(d, cal)

DefectRecords(found, accepted, cal) ==
  {DefectRecord(d, cal) : d \in {d \in found : Passes(d, accepted, cal)}}

\* Of the records with one id the first one stays: which one that is, the order
\* of the detector's list decides.
Deduplicated(records, kept) ==
  /\ \A r \in records : \E k \in kept : evidenceId(k) = evidenceId(r)
  /\ \A x, y \in kept : evidenceId(x) = evidenceId(y) => x = y

defectRecordsFor(known, surface) ==
  {r \in forSubject(known, SURFACE_SUBJECT[surface]) : r.kind = "VISUAL_OBSERVATION"}

captureRecordsFor(known, surface) ==
  {r \in forSubject(known, SURFACE_SUBJECT[surface]) : r.key[1] = "ViewCaptured"}

failedCaptures(known, surface) ==
  {r \in captureRecordsFor(known, surface) : r.kind = "COLLECTION_FAILURE"}

\* Faulty: any view of the part will do.
UsableOfThePart(known, surface) ==
  {r \in captureRecordsFor(known, surface) : r.kind # "COLLECTION_FAILURE"}

\* Only views that can show the surface count.
UsableCaptures(known, surface) ==
  {r \in captureRecordsFor(known, surface) :
     r.kind # "COLLECTION_FAILURE" /\ r.key[2] \in VIEWS_FOR_SURFACE[surface]}

-----------------------------------------------------------------------------
(* The condition module: one surface. *)

Inference(subject, rule, direction, weight, ruleConfidence, cited) ==
  derive("physical", subject, rule, direction, weight, ruleConfidence, cited)

\* Faulty: a stored detection is believed as far as the table says today.
DefectInferenceByTable(r, cal) ==
  Inference(r.subject, r.raw.class, "SUPPORTS_NEGATIVE", effect(r.raw.class, r.raw.area) \div 100, 95,
            {[r EXCEPT !.reliability = reliabilityFor(r.raw.class, cal)]})

DefectInference(r, cal) ==
  Inference(r.subject, r.raw.class, "SUPPORTS_NEGATIVE", effect(r.raw.class, r.raw.area) \div 100, 95, {r})

\* All failures of the part are cited, whichever of its surfaces they are of.
ViewUnusable(subject, failed) ==
  {Inference(subject, "view-unusable", "REDUCES_DETERMINACY", 100, 100, failed) : f \in failed}

PhotographedClean(surface, usable, cal) ==
  Inference(SURFACE_SUBJECT[surface], "surface-photographed-clean", "SUPPORTS_POSITIVE", 90,
            cleanRuleConfidence(surface, cal), usable)

ConditionVerdict(score) ==
  CASE score >= 95 -> "SURFACE_UNDAMAGED" [] score >= 75 -> "SURFACE_LIGHT_WEAR"
    [] score >= 40 -> "SURFACE_DAMAGED"   [] OTHER -> "SURFACE_SEVERELY_DAMAGED"

Unjudged(subject, inferences, verdict) ==
  [assessable |-> FALSE, score |-> 0, defects |-> {}, wear |-> {}, confidence |-> 0,
   inferences |-> inferences, verdict |-> verdict]

\* Faulty: concludes on a surface nobody saw.
ConcludedUnseen(subject, inferences) ==
  Unjudged(subject, inferences, Verdict(subject, "CANNOT_DETERMINE", TRUE, 0, inferences))

NotAssessed(subject, inferences) == Unjudged(subject, inferences, Abstains(subject, inferences))

Assessed(subject, score, records, confidence, inferences) ==
  [assessable |-> TRUE, score |-> score, defects |-> {r \in records : ~isWearClass(r.raw.class)},
   wear |-> {r \in records : isWearClass(r.raw.class)}, confidence |-> confidence,
   inferences |-> inferences,
   verdict |-> Verdict(subject, ConditionVerdict(score), TRUE, confidence, inferences)]

Floored(inferences) == AtLeast(verdictConfidence(inferences, 0), 2000)

Judged(surface, records, inferences) ==
  Assessed(SURFACE_SUBJECT[surface], surfaceScore({r \in records : ~isWearClass(r.raw.class)}), records,
           Floored(inferences), inferences)

\* Faulty: front glass and active area are charged with each other's defects.
DefectsOfThePart(known, surface) == defectRecordsFor(known, surface)

DefectsOn(known, surface) == {r \in defectRecordsFor(known, surface) : r.raw.surface = surface}

AssessSurface(surface, usable, failed, records, cal) ==
  IF usable = {} THEN NotAssessed(SURFACE_SUBJECT[surface], ViewUnusable(SURFACE_SUBJECT[surface], failed))
  ELSE Judged(surface, records,
              IF records = {} THEN {PhotographedClean(surface, usable, cal)}
              ELSE {DefectInference(r, cal) : r \in records})

Assessments(known, cal) ==
  [s \in Surface |-> AssessSurface(s, UsableCaptures(known, s), failedCaptures(known, s),
                                   DefectsOn(known, s), cal)]

-----------------------------------------------------------------------------
(* The condition module and the report. *)

unassessed(surfaces) == {s \in Surface : ~surfaces[s].assessable}
ChargedDefects(surfaces) == UNION {surfaces[s].defects \cup surfaces[s].wear : s \in Surface}

PhysicalFindings(surfaces, detectorCalibrated) ==
  {Finding(r.raw.class, {r}, {}) : r \in {r \in ChargedDefects(surfaces) : DEFECT_CLASSES[r.raw.class].reported}}
  \cup {Gap("PHYSICAL_SURFACES_NOT_ASSESSED") : s \in unassessed(surfaces)}
  \cup IF detectorCalibrated THEN {} ELSE {Gap("PHYSICAL_DETECTOR_UNCALIBRATED")}

runPhysicalModule(surfaces) ==
  LET determined == Surface \ unassessed(surfaces)
      confidenceOf == [s \in determined |-> surfaces[s].confidence]
  IN  [verdicts |-> {surfaces[s].verdict : s \in Surface},
       inferences |-> UNION {surfaces[s].inferences : s \in Surface},
       coverage |-> Share(Cardinality(determined), Cardinality(Surface)),
       confidence |-> IF determined = {} THEN 0
                      ELSE 10 * Rounded(SumFunction(confidenceOf), 10 * Cardinality(determined)),
       repairIndicators |-> {r \in ChargedDefects(surfaces) : DEFECT_CLASSES[r.raw.class].trustRelevant}]

explainDefects(known) == {r \in known : r.kind = "VISUAL_OBSERVATION"}

missingRequired(known) ==
  {v \in REQUIRED_VIEWS : ~\E r \in known : r.key = <<"ViewCaptured", v>> /\ r.kind # "COLLECTION_FAILURE"}

PhysicalReport(known, surfaces, module, findings, detectorCalibrated) ==
  [surfaces |-> surfaces, module |-> module, findings |-> findings,
   notAssessed |-> unassessed(surfaces), detectorCalibrated |-> detectorCalibrated,
   score |-> computePhysicalScore(surfaces, detectorCalibrated),
   explained |-> explainDefects(known), missingRequiredViews |-> missingRequired(known),
   violations |-> audit(known, {module}, findings)]

reportOn(known, surfaces, detectorCalibrated) ==
  PhysicalReport(known, surfaces, runPhysicalModule(surfaces),
                 PhysicalFindings(surfaces, detectorCalibrated), detectorCalibrated)

evaluatePhysical(known, cal) == reportOn(known, Assessments(known, cal), calibrationIsMeasured(cal))

\* What the report prints: no score without a grade, a line per surface or defect.
reportSection(r) ==
  [physicalDnaScore |-> IF r.score.grade = "INSUFFICIENT_EVIDENCE" THEN {} ELSE {r.score.score},
   clean |-> {s \in Surface \ r.notAssessed : r.surfaces[s].defects \cup r.surfaces[s].wear = {}},
   damaged |-> {s \in Surface \ r.notAssessed : r.surfaces[s].defects \cup r.surfaces[s].wear # {}},
   notAssessed |-> r.notAssessed]

-----------------------------------------------------------------------------
(* The inspection. *)

Init ==
  /\ phase = "idle" /\ images = {} /\ offered = {} /\ ledger = {} /\ report = {}
  /\ table = PLACEHOLDER_TABLE

\* Validates what was photographed and asks the detector.
StartInspection ==
  /\ phase = "idle"
  /\ images' \in SUBSET DOMAIN Pictures
  /\ phase' = "detecting"
  /\ UNCHANGED <<offered, table, ledger, report>>

\* The detector answers; evidence and report follow without a further await.
Detected ==
  /\ phase = "detecting"
  /\ LET usable == AcceptedImages(images)
     IN  \E failed \in SUBSET usable :
         \E found \in SUBSET {d \in Sightings : d.image \in usable \ failed} :
           /\ Cardinality(found) <= MaxSightings
           /\ LET records == DefectRecords(found, usable, table)
              IN  \E kept \in SUBSET records :
                    /\ Deduplicated(records, kept)
                    /\ ledger' = CaptureRecords(images, usable) \cup DetectorFailures(failed) \cup kept
           /\ offered' = found
  /\ report' = {evaluatePhysical(ledger', table)}
  /\ phase' = "reported"
  /\ UNCHANGED <<images, table>>

\* The detector rejects, and with it the inspection.
DetectorUnavailable ==
  /\ phase = "detecting"
  /\ phase' = "idle" /\ images' = {}
  /\ UNCHANGED <<offered, table, ledger, report>>

\* Somebody evaluates the stored ledger again.
Reevaluate ==
  /\ phase \in {"reported", "replayed"}
  /\ report' = {evaluatePhysical(ledger, table)}
  /\ phase' = "replayed"
  /\ UNCHANGED <<images, offered, table, ledger>>

loadCalibration ==
  /\ \E b \in Benchmarks :
       table' = [c \in DEFECT_CLASS_IDS |-> IF c \in DOMAIN b THEN b[c] ELSE table[c]]
  /\ UNCHANGED <<phase, images, offered, ledger, report>>

resetCalibration ==
  /\ table' = PLACEHOLDER_TABLE
  /\ UNCHANGED <<phase, images, offered, ledger, report>>

Next ==
  \/ StartInspection \/ Detected \/ DetectorUnavailable \/ Reevaluate
  \/ loadCalibration \/ resetCalibration

Spec == Init /\ [][Next]_vars

-----------------------------------------------------------------------------
(* Properties. *)

\* The figures of a report are within their scales, and the audit that every
\* report goes through finds nothing: each verdict and finding has its support.
TypeOK ==
  /\ phase \in {"idle", "detecting", "reported", "replayed"}
  /\ images \subseteq DOMAIN Pictures /\ offered \subseteq Sightings
  /\ table \in [DEFECT_CLASS_IDS -> Calibrations]
  /\ \A x, y \in ledger : evidenceId(x) = evidenceId(y) => x = y
  /\ Cardinality(report) <= 1
  /\ \A r \in report : /\ r.score.score \in 0..100 /\ r.score.rawScore \in 0..100
                       /\ r.score.confidence \in 0..One /\ r.score.coverage \in 0..One
                       /\ r.violations = {}

Shows(i, s) == s \in viewSpec[Pictures[i].view].surfaces

\* A surface is judged when, and only when, an accepted picture shows it, though
\* the front glass and the active area share their evidence; one that was tried
\* in vain is named and cites a failed attempt at it.
JudgedWasSeen ==
  \A r \in report : \A s \in Surface :
    LET seen  == \E i \in AcceptedImages(images) : Shows(i, s)
        tried == {<<"ViewCaptured", Pictures[i].view>> : i \in {i \in images : Shows(i, s)}}
    IN  /\ s \in reportSection(r).notAssessed <=> ~seen
        /\ ~seen => /\ r.surfaces[s].confidence = 0
                    /\ \A k \in tried : \E i \in r.surfaces[s].inferences : k \in {e.key : e \in i.evidence}

\* Every defect the report explains is priced on exactly one surface, one on
\* which its class can occur, as damage or as wear, and no other is priced.
PricedOnce ==
  \A r \in report :
    /\ ChargedDefects(r.surfaces) = r.explained
    /\ \A e \in r.explained :
         /\ {s \in Surface : e \in r.surfaces[s].defects \cup r.surfaces[s].wear} = {e.raw.surface}
         /\ e.raw.surface \in DEFECT_CLASSES[e.raw.class].surfaces
         /\ e \notin r.surfaces[e.raw.surface].defects \cap r.surfaces[e.raw.surface].wear
         /\ e.raw.surface \in reportSection(r).damaged

\* The points a defect would leave its surface if it were the only one there.
LeftBy(e) == Rounded(One - effect(e.raw.class, e.raw.area), 100)

\* No averaging dilutes a destroyed surface: one defect that leaves its surface
\* fewer than 20 points of 100 caps the score at 40, one that leaves it fewer than
\* 40 at 55, whatever else is seen.  A structural crack, which takes 80 % at most,
\* leaves 20 and caps it at 55; a defect that takes 60 % caps nothing by itself.
DestroyedSurfaceDecides ==
  \A r \in report : \A e \in r.explained :
    ~isWearClass(e.raw.class) =>
      /\ LeftBy(e) < 20 => r.score.score <= 40
      /\ LeftBy(e) < 40 => r.score.score <= 55

\* Whatever the detector saw at or above the operating point of the class, in
\* the table of the moment its answer is taken in, is priced: at that place of
\* that picture, on that part.
NothingSeenIsLost ==
  [][phase = "detecting" /\ phase' = "reported" =>
       \A d \in offered' :
         /\ d.class \in DEFECT_CLASS_IDS
         /\ d.surface \in DEFECT_CLASSES[d.class].surfaces /\ Shows(d.image, d.surface)
         /\ d.modelScore >= table[d.class].operatingThreshold
         => \A r \in report' : \E e \in ChargedDefects(r.surfaces) :
              /\ e.raw.class = d.class /\ e.value = <<d.image, d.box>>
              /\ e.subject = SURFACE_SUBJECT[d.surface]]_vars

\* A top grade takes a detector of which every class has been measured when the
\* grade is given, and the best one a handset seen all round but for the front
\* camera or the charge port.
TopGradeNeedsMeasurement ==
  [][\A r \in report' \ report :
       /\ r.score.grade \in {"PRISTINE", "EXCELLENT"} => \A c \in DEFECT_CLASS_IDS : table[c].sampleSize >= 50
       /\ r.score.grade = "PRISTINE" =>
            \E s \in {"FRONT_CAMERA", "CHARGE_PORT"} : r.notAssessed \subseteq {s}]_vars

\* What was found is priced and believed the same under every later table; only
\* what was not found is worth more or less.
DamageOutlivesTheTable ==
  [][phase' = "replayed" =>
       \A old \in report, new \in report' : \A s \in Surface :
         LET x == old.surfaces[s]
             y == new.surfaces[s]
         IN  IF s \in reportSection(old).clean
             THEN /\ x.assessable = y.assessable /\ x.score = y.score /\ x.verdict.value = y.verdict.value
                  /\ x.defects = y.defects /\ x.wear = y.wear
             ELSE x = y]_vars
=============================================================================
