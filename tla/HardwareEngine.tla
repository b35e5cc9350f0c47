-------------------------- MODULE HardwareEngine --------------------------
(***************************************************************************)
(* Module 2: does what the device reports about itself fit what its model  *)
(* is known to be?  A reading says "expected" or "foreign" relative to the *)
(* catalogue entry; without an entry the engine abstains.                  *)
(***************************************************************************)
EXTENDS Checks

HardwareChecks ==
  [boardId |-> Check("DEVICE", "HardwareModel", {Expects("DEVICE", "ExpectedBoardIds")},
     [expected |-> For("board-id-expected", 60, 90),
      foreign  |-> Against("board-id-unexpected", 85, 90)]),
   capacityTier |-> Check("DEVICE", "TotalDiskCapacity", {Expects("DEVICE", "ExpectedCapacitiesGb")},
     [expected |-> For("capacity-tier-expected", 40, 85),
      foreign  |-> Against("capacity-tier-unexpected", 70, 80)]),
   cpuArchitecture |-> Check("DEVICE", "CPUArchitecture", {Expects("DEVICE", "ExpectedCpuArchitecture")},
     [expected |-> For("cpu-architecture-expected", 45, 90),
      foreign  |-> Against("cpu-architecture-unexpected", 80, 90)]),
   designCapacity |-> Check("BATTERY", "DesignCapacity", {Expects("BATTERY", "ExpectedDesignCapacity")},
     [expected |-> For("design-capacity-expected", 50, 85),
      foreign  |-> Against("design-capacity-deviation", 65, 80)]),
   iosCeiling |-> Check("SYSTEM_SOFTWARE", "ProductVersion",
                        {Expects("SYSTEM_SOFTWARE", "MaxSupportedIosMajor")},
     [expected   |-> For("ios-within-ceiling", 30, 85),
      foreign    |-> Against("ios-above-ceiling", 75, 85),
      unreadable |-> NoRule])]

FindingOf ==
  [boardId |-> "HARDWARE_BOARD_ID_MISMATCH", capacityTier |-> "HARDWARE_CAPACITY_NOT_OFFERED",
   cpuArchitecture |-> "HARDWARE_CPU_MISMATCH", iosCeiling |-> "HARDWARE_IOS_ABOVE_CEILING",
   designCapacity |-> "HARDWARE_DESIGN_CAPACITY_DEVIATION"]

\* A deviating cell is an anomaly of medium severity, every other one is high.
Anomalies(ledger) ==
  {[check |-> c, severity |-> IF c = "designCapacity" THEN "MEDIUM" ELSE "HIGH"] :
     c \in {x \in performed(ledger, HardwareChecks) :
              Says(ledger, HardwareChecks[x].subject, HardwareChecks[x].key, "foreign")}}

Uncatalogued ==
  [verdicts |-> {Abstains("DEVICE", {})}, inferences |-> {}, coverage |-> 0, confidence |-> 0,
   findings |-> {Gap("HARDWARE_MODEL_NOT_CATALOGUED")}, anomalies |-> {}]

Assessed(ledger) ==
  LET inferences == Inferred(ledger, "HARDWARE_CONSISTENCY", HardwareChecks)
      verdict    == Conclusion(inferences, "SPECIFICATION_MATCH", "SPECIFICATION_ANOMALY")
      coverage   == Round3(Ratio(Cardinality(performed(ledger, HardwareChecks)),
                                 Cardinality(DOMAIN HardwareChecks)))
      anomalies  == Anomalies(ledger)
      about(c)   == Fired(ledger, "HARDWARE_CONSISTENCY", HardwareChecks[c])
  IN  [verdicts   |-> {verdict},
       inferences |-> inferences,
       coverage   |-> coverage,
       confidence |-> dampByCoverage(verdict.confidence, coverage),
       findings   |-> {Finding(FindingOf[a.check], UNION {i.evidence : i \in about(a.check)},
                               about(a.check)) : a \in anomalies},
       anomalies  |-> anomalies]

\* Catalogued: the product types the hardware catalogue has an entry for.
runHardwareEngine(ledger, Catalogued) ==
  IF \E r \in best(ledger, "DEVICE", "ProductType") : r.value \in Catalogued
  THEN Assessed(ledger) ELSE Uncatalogued
=============================================================================
