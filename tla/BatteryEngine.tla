--------------------------- MODULE BatteryEngine ---------------------------
(***************************************************************************)
(* Module 4: how worn is the cell, and will it need replacing within a     *)
(* year?  Without a capacity the module abstains and says whether it was   *)
(* refused or merely told nothing.                                         *)
(***************************************************************************)
EXTENDS Confidence

SERVICE_THRESHOLD_PERCENT == 80
ASSUMED_CYCLES_PER_YEAR == 300

Reading(ledger, key) == best(ledger, "BATTERY", key)
NumberOf(records) == (CHOOSE r \in records : TRUE).number
clampPercent(x) == AtMost(x, 100)

\* The reported figure, or what the two capacities make of it.
HealthEvidence(ledger) ==
  LET reported == Reading(ledger, "MaximumCapacityPercent")
      design   == Reading(ledger, "DesignCapacity")
      nominal  == Reading(ledger, "NominalChargeCapacity")
  IN  IF reported # {} THEN reported
      ELSE IF design # {} /\ nominal # {} /\ NumberOf(design) > 0 THEN design \cup nominal
      ELSE {}

maximumCapacityPercent(ledger) ==
  LET reported == Reading(ledger, "MaximumCapacityPercent")
      design   == NumberOf(Reading(ledger, "DesignCapacity"))
      nominal  == NumberOf(Reading(ledger, "NominalChargeCapacity"))
  IN  clampPercent(IF reported # {} THEN NumberOf(reported)
                   ELSE (200 * nominal + design) \div (2 * design))

HasHealth(ledger) == HealthEvidence(ledger) # {}
HasCycles(ledger) == Reading(ledger, "CycleCount") # {}
cycleCount(ledger) == NumberOf(Reading(ledger, "CycleCount"))

CellRule(rule, direction, weight, confidence, cited) ==
  derive("BATTERY_INTELLIGENCE", "BATTERY", rule, direction, weight, confidence, cited)

FromHealth(ledger, health) ==
  IF health >= SERVICE_THRESHOLD_PERCENT
  THEN CellRule("health-within-threshold", "SUPPORTS_POSITIVE", 60, 90, HealthEvidence(ledger))
  ELSE CellRule("health-below-threshold", "SUPPORTS_NEGATIVE", 85, 90, HealthEvidence(ledger))

\* Needs the rating from the catalogue beside the count.
FromCycles(ledger, device) ==
  LET cited == Reading(ledger, "CycleCount") \cup Reading(ledger, "RatedCycleLife")
  IN  IF ~HasCycles(ledger) \/ Reading(ledger, "RatedCycleLife") = {} THEN {}
      ELSE IF cycleCount(ledger) > device.ratedCycleLife
      THEN {CellRule("cycles-exceed-rating", "SUPPORTS_NEGATIVE", 60, 85, cited)}
      ELSE {CellRule("cycles-within-rating", "SUPPORTS_POSITIVE", 40, 85, cited)}

Grades == <<"A", "B", "C", "D", "E">>

\* Capacity is a lagging indicator: past its rated life a cell drops a grade.
gradeWear(health, cycles, rated) ==
  LET grade == CASE health >= 95 -> 1 [] health >= 88 -> 2 [] health >= 80 -> 3
                 [] health >= 70 -> 4 [] OTHER -> 5
  IN  Grades[IF cycles > rated /\ grade < 5 THEN grade + 1 ELSE grade]

\* The logistic of the margin left after a year, at least one half: the margin
\* health - lost * 300 / cycles - 80 is at most 0.05 when rounded to two places.
ReplacementProjected(health, cycles) ==
  /\ health >= SERVICE_THRESHOLD_PERCENT
  /\ cycles >= 25
  /\ 20 * (cycles * (health - SERVICE_THRESHOLD_PERCENT)
             - ASSUMED_CYCLES_PER_YEAR * (100 - health)) <= cycles

BatteryValue(health) ==
  CASE health < 70 -> "DEGRADED"
    [] health >= 70 /\ health < SERVICE_THRESHOLD_PERCENT -> "SERVICE_RECOMMENDED"
    [] OTHER -> "WITHIN_SPECIFICATION"

\* Faulty: silence is reported as a refusal.
AlwaysRefused(ledger, code) == Finding(code, failures(ledger, "BATTERY"), {})

\* A refusal is evidence; a device that says nothing leaves a plain gap.
Unavailable(ledger, code) ==
  LET refusals == failures(ledger, "BATTERY")
  IN  IF refusals # {} THEN Finding(code, refusals, {}) ELSE Gap(code)

BatteryFindings(ledger, health, supporting) ==
  {Finding(code, HealthEvidence(ledger), supporting) :
     code \in {c \in {"BATTERY_SERVICE_RECOMMENDED"} : BatteryValue(health) = "SERVICE_RECOMMENDED"}
         \cup {c \in {"BATTERY_DEGRADED"} : BatteryValue(health) = "DEGRADED"}
         \cup {c \in {"BATTERY_REPLACEMENT_PROJECTED"} :
                 HasCycles(ledger) /\ ReplacementProjected(health, cycleCount(ledger))}}
  \cup {Unavailable(ledger, c) : c \in {x \in {"BATTERY_CYCLES_UNAVAILABLE"} : ~HasCycles(ledger)}}

NoHealth(ledger) ==
  [verdicts |-> {Abstains("BATTERY", {})}, inferences |-> {}, coverage |-> 0, confidence |-> 0,
   findings |-> {Unavailable(ledger, "BATTERY_HEALTH_UNAVAILABLE")},
   health |-> {}, wearGrade |-> "UNGRADED"]

WithHealth(ledger, device) ==
  LET health     == maximumCapacityPercent(ledger)
      inferences == {FromHealth(ledger, health)} \cup FromCycles(ledger, device)
      value      == BatteryValue(health)
      agreeing   == IF value = "WITHIN_SPECIFICATION" THEN Benign(inferences) ELSE Adverse(inferences)
      supporting == IF agreeing = {} THEN inferences ELSE agreeing
      belief     == Round3(IF HasCycles(ledger) THEN corroborate(inferences)
                           ELSE Times(corroborate(inferences), 7500))
      coverage   == IF HasCycles(ledger) THEN One ELSE 6000
      cycles     == IF HasCycles(ledger) THEN cycleCount(ledger) ELSE 0
  IN  [verdicts   |-> {Verdict("BATTERY", value, TRUE, AtLeast(belief, 2500), supporting)},
       inferences |-> inferences,
       coverage   |-> coverage,
       confidence |-> Round3(Times(belief, 6000 + (40 * coverage) \div 100)),
       findings   |-> BatteryFindings(ledger, health, supporting),
       health     |-> {health},
       wearGrade  |-> gradeWear(health, cycles, device.ratedCycleLife)]

runBatteryEngine(ledger, device) ==
  IF HasHealth(ledger) THEN WithHealth(ledger, device) ELSE NoHealth(ledger)
=============================================================================
