------------------------------ MODULE Checks ------------------------------
(***************************************************************************)
(* The shape the identity and the hardware engine share: a table of        *)
(* checks.  A check looks at one reading, needs others to compare it with, *)
(* and maps what the reading says to the rule it fires, if any.            *)
(***************************************************************************)
EXTENDS Confidence

\* A rule and the direction it pushes; "alone" cites the reading and not what
\* it was compared with.
For(name, weight, confidence) ==
  {[name |-> name, direction |-> "SUPPORTS_POSITIVE", weight |-> weight,
    confidence |-> confidence, alone |-> FALSE]}
Against(name, weight, confidence) ==
  {[name |-> name, direction |-> "SUPPORTS_NEGATIVE", weight |-> weight,
    confidence |-> confidence, alone |-> FALSE]}
AgainstAlone(name, weight, confidence) ==
  {[name |-> name, direction |-> "SUPPORTS_NEGATIVE", weight |-> weight,
    confidence |-> confidence, alone |-> TRUE]}
NoRule == {}

\* needs: for each reading to compare with, its subject and the values that do.
Check(subject, key, needs, rules) ==
  [subject |-> subject, key |-> key, needs |-> needs, rules |-> rules]
Need(subject, key, values) == [subject |-> subject, key |-> key, values |-> values]
Expects(subject, key) == Need(subject, key, {"seeded"})

Compared(ledger, check) ==
  UNION {{r \in best(ledger, n.subject, n.key) : r.value \in n.values} : n \in check.needs}

Answers(ledger, check) ==
  {r \in best(ledger, check.subject, check.key) : r.value \in DOMAIN check.rules}

CanRun(ledger, check) ==
  /\ Answers(ledger, check) # {}
  /\ \A n \in check.needs : \E r \in best(ledger, n.subject, n.key) : r.value \in n.values

performed(ledger, checks) == {c \in DOMAIN checks : CanRun(ledger, checks[c])}

Fired(ledger, module, check) ==
  UNION {{derive(module, check.subject, u.name, u.direction, u.weight, u.confidence,
                 IF u.alone THEN {r} ELSE {r} \cup Compared(ledger, check))
            : u \in check.rules[r.value]} : r \in Answers(ledger, check)}

Inferred(ledger, module, checks) ==
  UNION {Fired(ledger, module, checks[c]) : c \in performed(ledger, checks)}

\* Faulty: the greater mass wins.
MajorityConclusion(inferences, consistent, mismatch) ==
  IF inferences = {} THEN Abstains("DEVICE", {})
  ELSE IF Mass(Adverse(inferences)) > Mass(Benign(inferences))
       THEN Verdict("DEVICE", mismatch, TRUE,
                    verdictConfidence(Adverse(inferences), Mass(Benign(inferences))),
                    Adverse(inferences))
       ELSE Verdict("DEVICE", consistent, TRUE,
                    verdictConfidence(Benign(inferences), Mass(Adverse(inferences))),
                    Benign(inferences))

\* One contradiction outweighs any number of agreements; nothing read, nothing said.
Conclusion(inferences, consistent, mismatch) ==
  IF inferences = {} THEN Abstains("DEVICE", {})
  ELSE IF Adverse(inferences) # {}
       THEN Verdict("DEVICE", mismatch, TRUE,
                    AtLeast(verdictConfidence(Adverse(inferences), Mass(Benign(inferences))), 3000),
                    Adverse(inferences))
       ELSE Verdict("DEVICE", consistent, TRUE,
                    verdictConfidence(Benign(inferences), 0), Benign(inferences))
=============================================================================
