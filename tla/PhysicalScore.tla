--------------------------- MODULE PhysicalScore ---------------------------
(***************************************************************************)
(* The PhysicalDNA score: seven assessed surfaces to five pillars, one     *)
(* score, its gates and its grade.  Damage and wear are scored apart, a    *)
(* surface nobody could see is left out, gates cap.                        *)
(*                                                                         *)
(* An assessment is [assessable, score, defects, wear, confidence]; a      *)
(* defect is a record of the ledger whose raw payload has its class and    *)
(* its area, in ten-thousandths of the frame.                              *)
(***************************************************************************)
EXTENDS Taxonomy, Confidence

PILLAR_WEIGHTS == [DISPLAY |-> 30, FRAME |-> 20, CAMERA |-> 20, REAR_GLASS |-> 15, BODY_WEAR |-> 15]
PhysicalPillar == DOMAIN PILLAR_WEIGHTS

PILLAR_SURFACES ==
  [DISPLAY |-> [DISPLAY_ACTIVE_AREA |-> 60, FRONT_GLASS |-> 40],
   FRAME |-> [FRAME |-> 80, CHARGE_PORT |-> 20],
   CAMERA |-> [REAR_CAMERA |-> 85, FRONT_CAMERA |-> 15],
   REAR_GLASS |-> [REAR_GLASS |-> 100]]

BODY_WEAR_SURFACES == {"FRONT_GLASS", "REAR_GLASS", "FRAME"}

Rounded(a, b) == (2 * a + b) \div (2 * b)
\* a / b rounded to three decimals, in ten-thousandths.
Share(a, b) == 10 * Rounded(1000 * a, b)

REFERENCE_AREA == 600

\* The floor keeps a small defect from rounding away; beyond six percent of
\* the frame a defect is charged in full.
extentFactor(area) == 3500 + (6500 * AtMost(area, REFERENCE_AREA)) \div REFERENCE_AREA

effect(class, area) ==
  AtMost(One, (DEFECT_CLASSES[class].severity * extentFactor(area)) \div 100)

surfacePenalty(defects) ==
  One - FoldFunction(Times, One, [d \in defects |-> One - effect(d.raw.class, d.raw.area)])

surfaceScore(defects) == Rounded(One - surfacePenalty(defects), 100)

-----------------------------------------------------------------------------
(* Pillars. *)

NoPillar == [scored |-> FALSE, score |-> 0, confidence |-> 0, coverage |-> 0]

damagePillar(pillar, surfaces) ==
  LET weightOf == PILLAR_SURFACES[pillar]
      assessed == {s \in DOMAIN weightOf : surfaces[s].assessable}
      weighedScore == [s \in assessed |-> surfaceScore(surfaces[s].defects) * weightOf[s]]
      weighedConfidence == [s \in assessed |-> surfaces[s].confidence * weightOf[s]]
      weight == SumFunctionOnSet(weightOf, assessed)
  IN  IF assessed = {} THEN NoPillar
      ELSE [scored |-> TRUE,
            score |-> Rounded(SumFunction(weighedScore), weight),
            confidence |-> 10 * Rounded(SumFunction(weighedConfidence), 10 * weight),
            coverage |-> Share(weight, SumFunction(weightOf))]

\* Assembled from the wear on three surfaces the other pillars cover.
bodyWearPillar(surfaces) ==
  LET contributing == {s \in BODY_WEAR_SURFACES : surfaces[s].assessable}
      confidenceOf == [s \in contributing |-> surfaces[s].confidence]
  IN  IF contributing = {} THEN NoPillar
      ELSE [scored |-> TRUE,
            score |-> surfaceScore(UNION {surfaces[s].wear : s \in contributing}),
            confidence |-> 10 * Rounded(SumFunction(confidenceOf), 10 * Cardinality(contributing)),
            coverage |-> Share(Cardinality(contributing), Cardinality(BODY_WEAR_SURFACES))]

Pillars(surfaces) ==
  [p \in PhysicalPillar |->
     IF p = "BODY_WEAR" THEN bodyWearPillar(surfaces) ELSE damagePillar(p, surfaces)]

\* Weights damped by confidence and renormalised over the pillars that scored.
RawScore(pillars) ==
  LET scoring == {p \in PhysicalPillar : pillars[p].scored}
      damped  == [p \in scoring |-> dampWeight(PILLAR_WEIGHTS[p], pillars[p].confidence)]
      total   == SumFunction(damped)
      share   == [p \in scoring |-> pillars[p].score * Share(damped[p], total)]
  IN  Rounded(SumFunction(share), One)

\* Over the whole intended picture: a pillar that abstained counts zero.
OverPicture(value) ==
  10 * Rounded(SumFunction([p \in PhysicalPillar |-> value[p] * PILLAR_WEIGHTS[p]]), 1000)

-----------------------------------------------------------------------------
(* Gates and grade. *)

\* A gate is its cap.
Gate(cap, fires) == IF fires THEN {cap} ELSE {}
SevereDamage(q, seen) == Gate(40, seen /\ q.score < 20) \cup Gate(55, seen /\ q.score \in 20..39)

\* Faulty: a severe defect is averaged away within its pillar.
PillarGates(surfaces) ==
  LET pillars == Pillars(surfaces)
  IN  UNION {SevereDamage(pillars[p], pillars[p].scored) : p \in PhysicalPillar}

\* On the surface, not on the pillar.
SurfaceGates(surfaces) ==
  UNION {SevereDamage(surfaces[s], surfaces[s].assessable) : s \in Surface}

CoverageGates(coverage) ==
  Gate(70, coverage < 4000) \cup Gate(90, coverage \in 4000..6999) \cup Gate(96, coverage \in 7000..9499)

\* Faulty: one too many.
CalibrationGateAtExcellent(detectorCalibrated) == Gate(85, ~detectorCalibrated)

CalibrationGate(detectorCalibrated) == Gate(84, ~detectorCalibrated)

Caps(surfaces, coverage, detectorCalibrated) ==
  CalibrationGate(detectorCalibrated) \cup SurfaceGates(surfaces) \cup CoverageGates(coverage)

gradeFor(score) ==
  CASE score >= 97 -> "PRISTINE" [] score >= 85 -> "EXCELLENT" [] score >= 70 -> "GOOD"
    [] score >= 50 -> "FAIR"     [] score >= 25 -> "POOR"      [] OTHER -> "HEAVILY_DAMAGED"

Scored(surfaces, pillars, raw, confidence, coverage, detectorCalibrated) ==
  LET score == AtMost(raw, Min({100} \cup Caps(surfaces, coverage, detectorCalibrated)))
  IN  [score |-> score, rawScore |-> raw, confidence |-> confidence, coverage |-> coverage,
       pillars |-> pillars,
       grade |-> IF coverage = 0 \/ confidence < MinimumReportable
                 THEN "INSUFFICIENT_EVIDENCE" ELSE gradeFor(score)]

ScoreOfPillars(surfaces, pillars, detectorCalibrated) ==
  LET confidence == OverPicture([p \in PhysicalPillar |-> pillars[p].confidence])
      coverage   == OverPicture([p \in PhysicalPillar |-> pillars[p].coverage])
  IN  Scored(surfaces, pillars, RawScore(pillars), confidence, coverage, detectorCalibrated)

computePhysicalScore(surfaces, detectorCalibrated) ==
  ScoreOfPillars(surfaces, Pillars(surfaces), detectorCalibrated)
=============================================================================
