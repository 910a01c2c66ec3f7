---------------------------- MODULE MCRcsFilter -----------------------------
(* Instances of RcsFilter for TLC.                                           *)
EXTENDS RcsFilter

CONSTANTS l1, l2, q1, q2, r0, r1, r2

Audit(q, action) == [kind |-> "Audit", quota |-> q, onTimeout |-> action]
Pass == [kind |-> "Allow", quota |-> q1, onTimeout |-> "Deny"]
Refuse == [kind |-> "Deny", quota |-> q1, onTimeout |-> "Deny"]

\* One audit rule set that fails open, over executions with one kind of log.
OneRule == [r \in {r0, r1} |-> [l \in {l1} |->
    IF r = r0 THEN Pass ELSE Audit(q1, "Allow")]]

\* Two audit rule sets that disagree on the quota of an execution, on the
\* fallback and on which executions they refuse.
TwoRules == [r \in {r0, r1, r2} |-> [l \in {l1, l2} |->
    CASE r = r0 -> Pass
      [] r = r1 -> Audit(IF l = l1 THEN q1 ELSE q2, "Deny")
      [] r = r2 -> IF l = l1 THEN Audit(q2, "Allow") ELSE Refuse]]
=============================================================================
