---------------------------- MODULE TrustEngine ----------------------------
(***************************************************************************)
(* Module 7: one score and one verdict from the five modules.  A module    *)
(* that abstained is left out of the mean and counts as no confidence;     *)
(* gates cap the score and never subtract from it; too little confidence   *)
(* outranks any score.                                                     *)
(*                                                                         *)
(* "results" is a record of the five modules' results.  A score is a set   *)
(* of at most one number: empty when the module abstained.                 *)
(***************************************************************************)
EXTENDS ServiceEngine

PILLAR_WEIGHTS == [service |-> 30, hardware |-> 20, identity |-> 20, security |-> 20, battery |-> 10]
Pillars == DOMAIN PILLAR_WEIGHTS

Determined(result) == \E v \in result.verdicts : v.determined
Concludes(result, value) == \E v \in result.verdicts : v.value = value

identityScore(result) ==
  IF ~Determined(result) THEN {}
  ELSE {IF Concludes(result, "IDENTITY_CONSISTENT") THEN 100 ELSE 10}

hardwareScore(result) ==
  LET high == {a \in result.anomalies : a.severity = "HIGH"}
      penalty == 40 * Cardinality(high) + 20 * Cardinality(result.anomalies \ high)
  IN  IF ~Determined(result) THEN {}
      ELSE IF Concludes(result, "SPECIFICATION_MATCH") THEN {100}
      ELSE {AtLeast(100 - AtMost(penalty, 100), 10)}

\* Replacement is no fault: what counts is whether the part is authentic.
AUTHENTICITY_SCORE ==
  [GENUINE_APPLE |-> 82, GENUINE_TRANSPLANTED |-> 68, NOT_VERIFIED |-> 12, UNKNOWN |-> 55]

serviceScore(result) ==
  LET scored == {s \in DOMAIN result.components : result.components[s].verdict # "CANNOT_DETERMINE"}
      value(s) == IF result.components[s].verdict = "ORIGINAL_LIKELY" THEN 100
                  ELSE AUTHENTICITY_SCORE[result.components[s].authenticity]
      weighted == SumFunction([s \in scored |-> value(s) * ComponentWeight[s]])
      weight   == WeightOf(scored)
  IN  IF scored = {} THEN {} ELSE {(2 * weighted + weight) \div (2 * weight)}

batteryCurve(health) ==
  CASE health >= 100 -> 100
    [] health >= 90 /\ health < 100 -> 88 + (12 * (health - 90) + 5) \div 10
    [] health >= 80 /\ health < 90 -> 60 + (28 * (health - 80) + 5) \div 10
    [] health >= 70 /\ health < 80 -> 30 + 3 * (health - 70)
    [] health >= 50 /\ health < 70 -> (15 * (health - 50) + 5) \div 10
    [] OTHER -> 0
batteryScore(result) ==
  IF Determined(result) THEN {batteryCurve(h) : h \in result.health} ELSE {}

securityScore(result) == IF Determined(result) THEN {result.posture} ELSE {}

pillar(results) ==
  [identity |-> identityScore(results.identity), hardware |-> hardwareScore(results.hardware),
   service |-> serviceScore(results.service), battery |-> batteryScore(results.battery),
   security |-> securityScore(results.security)]

Scoring(score) == {p \in Pillars : score[p] # {}}

\* Weights damped by confidence and renormalised, per mille.
rawScore(results, score) ==
  LET damped == [p \in Scoring(score) |-> dampWeight(PILLAR_WEIGHTS[p], results[p].confidence)]
      total  == SumFunction(damped)
      effectiveWeight(p) == (2000 * damped[p] + total) \div (2 * total)
      weighted == SumFunction([p \in Scoring(score) |-> Max(score[p]) * effectiveWeight(p)])
  IN  IF Scoring(score) = {} THEN 0 ELSE AtMost((weighted + 500) \div 1000, 100)

\* What the modules that scored report, by their weights.
Reported(results, score) ==
  SumFunction([p \in Scoring(score) |-> results[p].confidence * PILLAR_WEIGHTS[p]])
Covered(results, score) ==
  SumFunction([p \in Scoring(score) |-> results[p].coverage * PILLAR_WEIGHTS[p]])

\* Faulty: measured over the modules that scored.
ConfidenceOfTheScored(results, score) ==
  IF Scoring(score) = {} THEN 0
  ELSE Round3(Reported(results, score) \div SumFunctionOnSet(PILLAR_WEIGHTS, Scoring(score)))

\* Both are shares of the whole intended picture.
TrustConfidence(results, score) == Round3(Reported(results, score) \div 100)

\* Faulty: coverages added up without their weights.
CoverageSum(results, score) ==
  Round3(SumFunction([p \in Scoring(score) |-> results[p].coverage]))

TrustCoverage(results, score) == Round3(Covered(results, score) \div 100)

Gate(code, cap, module, applies) ==
  IF applies THEN {[code |-> code, cap |-> cap, module |-> module]} ELSE {}

Unverified(result) ==
  {s \in DOMAIN result.components : /\ result.components[s].verdict = "REPLACED_LIKELY"
                                    /\ result.components[s].authenticity = "NOT_VERIFIED"}

evaluateGates(results, coverage) ==
  LET unverified == Unverified(results.service)
      critical   == {s \in unverified : isCritical(s)}
  IN  Gate("IDENTITY_MISMATCH", 30, "identity", Concludes(results.identity, "IDENTITY_MISMATCH"))
      \cup Gate("INTEGRITY_COMPROMISED", 35, "security", results.security.compromised)
      \cup Gate("ACTIVATION_LOCK_ON", 35, "security", results.security.locked)
      \cup Gate("MDM_SUPERVISED", 70, "security", results.security.managed)
      \cup Gate("HARDWARE_ANOMALY", 50, "hardware",
                \E a \in results.hardware.anomalies : a.severity = "HIGH")
      \cup Gate("CRITICAL_PART_UNVERIFIED", 45, "service", critical # {})
      \cup Gate("PART_UNVERIFIED", 68, "service", critical = {} /\ unverified # {})
      \cup Gate("BATTERY_BELOW_THRESHOLD", 82, "battery", \E h \in results.battery.health : h < 80)
      \cup Gate("COVERAGE_INSUFFICIENT", 78, "trust", coverage < 3500)
      \cup Gate("COVERAGE_PARTIAL", 95, "trust", coverage >= 3500 /\ coverage < 7000)
      \cup Gate("COVERAGE_NOT_TOTAL", 97, "trust", coverage >= 7000 /\ coverage < 9000)

Capped(raw, gates) == Min({raw} \cup {g.cap : g \in gates})

\* A gate cites the inferences of the verdicts it came from, if any.
gateInferences(results, gate) ==
  IF gate.module = "trust" THEN {} ELSE UNION {v.inferences : v \in results[gate.module].verdicts}
GateFinding(results, gate) ==
  LET cited == gateInferences(results, gate)
  IN  IF cited = {} THEN Gap(gate.code) ELSE Finding(gate.code, {}, cited)

banded(score, confidence) ==
  IF confidence < MinimumReportable THEN "INSUFFICIENT_EVIDENCE"
  ELSE IF score >= 85 THEN "TRUSTED"
  ELSE IF score >= 70 THEN "TRUSTED_WITH_NOTES"
  ELSE IF score >= 50 THEN "CAUTION" ELSE "UNTRUSTED"

Replaced(result) ==
  {s \in DOMAIN result.components : result.components[s].verdict = "REPLACED_LIKELY"}

\* Faulty: only a part that is not genuine has to be disclosed.
DisclosedIfNotGenuine(verdict, result) ==
  IF verdict = "TRUSTED" /\ Unverified(result) # {} THEN "TRUSTED_WITH_NOTES" ELSE verdict

\* An established replacement has to be disclosed, whatever the score.
disclosed(verdict, result) ==
  IF verdict = "TRUSTED" /\ Replaced(result) # {} THEN "TRUSTED_WITH_NOTES" ELSE verdict

runTrustEngine(results) ==
  LET score      == pillar(results)
      confidence == TrustConfidence(results, score)
      coverage   == TrustCoverage(results, score)
      gates      == evaluateGates(results, coverage)
      raw        == rawScore(results, score)
      capped     == Capped(raw, gates)
      verdict    == disclosed(banded(capped, confidence), results.service)
  IN  [score      |-> capped,
       raw        |-> raw,
       pillars    |-> score,
       verdict    |-> verdict,
       confidence |-> confidence,
       coverage   |-> coverage,
       scoring    |-> Scoring(score),
       gates      |-> gates,
       findings   |-> {GateFinding(results, g) : g \in gates}
                        \cup {Gap("TRUST_" \o v) : v \in {verdict} \cap {"INSUFFICIENT_EVIDENCE"}}]
=============================================================================
