---------------------------- MODULE Confidence ----------------------------
(***************************************************************************)
(* The confidence model.  Weights and reliabilities are percentages, a     *)
(* confidence or a coverage is counted in ten-thousandths: a rule's        *)
(* confidence times a reliability is then exact, and the roundings to      *)
(* three decimals fall where the code has them.                            *)
(***************************************************************************)
EXTENDS EvidenceLedger, Sequences, FiniteSetsExt

One == 10000

Times(a, b) == (a * b + One \div 2) \div One
Ratio(a, b) == (a * One + b \div 2) \div b
Round3(x) == ((x + 5) \div 10) * 10
AtLeast(x, y) == IF x < y THEN y ELSE x
AtMost(x, y) == IF x < y THEN x ELSE y

Min0(S) == IF S = {} THEN 0 ELSE Min(S)

\* What one rule concludes from the records it cites: its own strength, damped
\* by the least reliable of them.
derive(module, subject, rule, direction, weight, ruleConfidence, cited) ==
  [module |-> module, subject |-> subject, rule |-> rule, direction |-> direction,
   weight |-> weight, evidence |-> cited,
   confidence |-> ruleConfidence * Min0({r.reliability : r \in cited})]

Benign(inferences) == {i \in inferences : i.direction = "SUPPORTS_POSITIVE"}
Adverse(inferences) == {i \in inferences : i.direction = "SUPPORTS_NEGATIVE"}

\* weight * confidence, summed: in ten-thousandths.
Mass(inferences) == SumFunction([i \in inferences |-> i.weight * i.confidence]) \div 100

SourcesOf(inference) == {Source[r.channel] : r \in inference.evidence}

\* Within one set of sources the strongest counts, across them noisy-or.
corroborate(inferences) ==
  LET groups == {SourcesOf(i) : i \in inferences}
      strongest(g) == Max({i.confidence : i \in {j \in inferences : SourcesOf(j) = g}})
  IN  One - FoldFunction(Times, One, [g \in groups |-> One - strongest(g)])

agreement(winning, opposing) ==
  IF winning + opposing = 0 THEN 0 ELSE Ratio(winning, winning + opposing)

verdictConfidence(supporting, opposingMass) ==
  Round3(Times(corroborate(supporting), agreement(Mass(supporting), opposingMass)))

dampByCoverage(confidence, coverage) ==
  Round3(Times(confidence, 3500 + (65 * coverage) \div 100))

\* baseWeight in percent; the result only ever enters ratios.
dampWeight(baseWeight, confidence) == baseWeight * (4000 + (60 * confidence) \div 100)

MinimumReportable == 4500

\* What a module hands on.
Verdict(subject, value, determined, confidence, supporting) ==
  [subject |-> subject, value |-> value, determined |-> determined,
   confidence |-> IF determined THEN AtMost(confidence, One) ELSE 0,
   inferences |-> supporting, evidence |-> UNION {i.evidence : i \in supporting}]

Abstains(subject, inferences) == Verdict(subject, "CANNOT_DETERMINE", FALSE, 0, inferences)

\* basis EVIDENCE names its support, basis ABSENCE claims that there is none.
Finding(code, cited, inferences) ==
  [code |-> code, basis |-> "EVIDENCE", evidence |-> cited, inferences |-> inferences]
Gap(code) == [code |-> code, basis |-> "ABSENCE", evidence |-> {}, inferences |-> {}]
=============================================================================
