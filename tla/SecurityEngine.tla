--------------------------- MODULE SecurityEngine ---------------------------
(***************************************************************************)
(* Module 5: is the operating system intact, and which locks does a buyer  *)
(* inherit?  A positive integrity finding undermines every other reading,  *)
(* for they all come from that operating system.                           *)
(***************************************************************************)
EXTENDS Confidence

State(ledger, key) == best(ledger, "SECURITY_STATE", key)
firstOf(a, b, c) == IF a # {} THEN a ELSE IF b # {} THEN b ELSE c
Holds(records) == \E r \in records : r.value # "false"
Fails(records) == \E r \in records : r.value = "false"

bundleRecords(ledger) ==
  {r \in forSubject(ledger, "SECURITY_STATE") : r.key = "JailbreakBundlePresent"}
serviceRecords(ledger) ==
  {r \in forSubject(ledger, "SECURITY_STATE") : r.key = "UnsandboxedServiceAdvertised"}

\* The first key of each list that was read at all decides.
lockRecord(ledger) ==
  firstOf(State(ledger, "IsAssociated"), State(ledger, "FMiPAccountExists"),
          State(ledger, "ActivationLockEnabled"))
mdmRecord(ledger) ==
  firstOf(State(ledger, "IsMDMUnremovable"), State(ledger, "ConfigurationURL"),
          State(ledger, "OrganizationName"))
devModeRecord(ledger) ==
  firstOf(State(ledger, "DeveloperModeStatus"), State(ledger, "DeveloperMode"), {})
supervisedRecord(ledger) == State(ledger, "IsSupervised")
activationRecord(ledger) == State(ledger, "ActivationState")
passcodeRecord(ledger) == State(ledger, "PasswordProtected")

integrityCompromised(ledger) == bundleRecords(ledger) \cup serviceRecords(ledger) # {}
activationLockEnabled(ledger) == Holds(lockRecord(ledger))
managed(ledger) == Holds(supervisedRecord(ledger)) \/ Holds(mdmRecord(ledger))
notActivated(ledger) == \E r \in activationRecord(ledger) : r.value # "Activated"

Posture(rule, direction, weight, confidence, cited) ==
  derive("SECURITY_DNA", "SECURITY_STATE", rule, direction, weight, confidence, cited)
If(condition, inference) == IF condition THEN {inference} ELSE {}

SecurityInferences(ledger) ==
  {Posture("jailbreak-bundle-present", "SUPPORTS_NEGATIVE", 95, 90, {r}) : r \in bundleRecords(ledger)}
  \cup {Posture("unsandboxed-service", "SUPPORTS_NEGATIVE", 90, 88, {r}) : r \in serviceRecords(ledger)}
  \cup If(Holds(lockRecord(ledger)),
          Posture("activation-lock-enabled", "SUPPORTS_NEGATIVE", 95, 90, lockRecord(ledger)))
  \cup If(Fails(lockRecord(ledger)),
          Posture("activation-lock-clear", "SUPPORTS_POSITIVE", 60, 85, lockRecord(ledger)))
  \cup If(notActivated(ledger),
          Posture("not-activated", "SUPPORTS_NEGATIVE", 60, 90, activationRecord(ledger)))
  \cup If(managed(ledger),
          Posture("supervised-or-mdm", "SUPPORTS_NEGATIVE", 70, 85,
                  supervisedRecord(ledger) \cup mdmRecord(ledger)))
  \cup If(Holds(devModeRecord(ledger)),
          Posture("developer-mode-enabled", "SUPPORTS_NEGATIVE", 30, 85, devModeRecord(ledger)))

Points(condition, points) == IF condition THEN points ELSE 0

postureScore(ledger) ==
  LET deducted == Points(integrityCompromised(ledger), 55)
                  + Points(activationLockEnabled(ledger), 45)
                  + Points(lockRecord(ledger) = {}, 10)
                  + Points(notActivated(ledger), 20)
                  + Points(managed(ledger), 25)
                  + Points(Holds(devModeRecord(ledger)), 5)
  IN  100 - AtMost(deducted, 100)

SecurityValue(ledger) ==
  IF integrityCompromised(ledger) THEN "POSTURE_COMPROMISED"
  ELSE IF postureScore(ledger) >= 85 THEN "POSTURE_CLEAN" ELSE "POSTURE_ATTENTION"

\* A verdict no inference argues for cites whatever there is.
relevant(ledger, inferences) ==
  LET agreeing == IF SecurityValue(ledger) = "POSTURE_CLEAN"
                  THEN Benign(inferences) ELSE Adverse(inferences)
  IN  IF agreeing = {} THEN inferences ELSE agreeing

SecurityVerdict(ledger, inferences) ==
  IF inferences = {} THEN Abstains("SECURITY_STATE", {})
  ELSE Verdict("SECURITY_STATE", SecurityValue(ledger), TRUE,
               AtLeast(corroborate(relevant(ledger, inferences)), 3000),
               relevant(ledger, inferences))

\* The five facts the module sets out to establish.
SecurityCoverage(ledger) ==
  2000 * (Points(\/ integrityCompromised(ledger)
                 \/ Has(ledger, "SECURITY_STATE", "DiagnosticsRelayResponded")
                 \/ Has(ledger, "SECURITY_STATE", "InstalledAppCount"), 1)
          + Points(lockRecord(ledger) # {}, 1)
          + Points(activationRecord(ledger) # {}, 1)
          + Points(supervisedRecord(ledger) \cup mdmRecord(ledger) # {}, 1)
          + Points(passcodeRecord(ledger) # {}, 1))

SecurityFindings(ledger, inferences) ==
  If(integrityCompromised(ledger),
     Finding("SECURITY_INTEGRITY_COMPROMISED", bundleRecords(ledger) \cup serviceRecords(ledger),
             {i \in inferences : i.rule \in {"jailbreak-bundle-present", "unsandboxed-service"}}))
  \cup If(activationLockEnabled(ledger),
          Finding("SECURITY_ACTIVATION_LOCK_ON", lockRecord(ledger), {}))
  \cup If(lockRecord(ledger) = {}, Gap("SECURITY_ACTIVATION_LOCK_UNKNOWN"))
  \cup If(managed(ledger),
          Finding("SECURITY_MDM_SUPERVISED", supervisedRecord(ledger) \cup mdmRecord(ledger), {}))

runSecurityEngine(ledger) ==
  LET inferences == SecurityInferences(ledger)
      verdict    == SecurityVerdict(ledger, inferences)
      coverage   == SecurityCoverage(ledger)
  IN  [verdicts   |-> {verdict},
       inferences |-> inferences,
       coverage   |-> coverage,
       confidence |-> Round3(Times(verdict.confidence, (One + coverage) \div 2)),
       findings   |-> SecurityFindings(ledger, inferences),
       posture    |-> postureScore(ledger),
       compromised |-> integrityCompromised(ledger),
       locked     |-> activationLockEnabled(ledger),
       managed    |-> managed(ledger)]
=============================================================================
