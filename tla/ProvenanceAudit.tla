-------------------------- MODULE ProvenanceAudit --------------------------
(***************************************************************************)
(* The audit of a finished report: what its verdicts and findings must be  *)
(* able to show for themselves.                                            *)
(***************************************************************************)
EXTENDS Confidence

InRange(x) == x \in 0..One

audit(known, modules, findings) ==
  LET inferences == UNION {m.inferences : m \in modules}
      verdicts   == UNION {m.verdicts : m \in modules}
      Broken(code, is) == IF is THEN {code} ELSE {}
      supported(f) == f.evidence # {} \/ f.inferences # {}
  IN  Broken("INFERENCE_WITHOUT_EVIDENCE", \E i \in inferences : i.evidence = {})
      \cup Broken("INFERENCE_CITES_MISSING_EVIDENCE", \E i \in inferences : ~(i.evidence \subseteq known))
      \cup Broken("CONFIDENCE_OUT_OF_RANGE", \E x \in inferences \cup verdicts : ~InRange(x.confidence))
      \cup Broken("VERDICT_WITHOUT_INFERENCE", \E v \in verdicts : v.determined /\ v.inferences = {})
      \cup Broken("DETERMINED_WITHOUT_CONFIDENCE",
                  \E v \in verdicts : v.determined /\ v.confidence = 0)
      \cup Broken("VERDICT_CITES_MISSING_INFERENCE",
                  \E v \in verdicts : ~(v.inferences \subseteq inferences))
      \cup Broken("VERDICT_EVIDENCE_MISMATCH",
                  \E v \in verdicts : v.evidence # UNION {i.evidence : i \in v.inferences})
      \cup Broken("FINDING_WITHOUT_SUPPORT",
                  \E f \in findings : \/ f.basis = "EVIDENCE" /\ ~supported(f)
                                      \/ ~(f.evidence \subseteq known))
      \cup Broken("FINDING_BASIS_MISMATCH", \E f \in findings : f.basis = "ABSENCE" /\ supported(f))
=============================================================================
