------------------------------ MODULE Approval ------------------------------
(***************************************************************************)
(* internal/approval: what a manual gate says, given the effective policy  *)
(* and the decisions recorded in spec.approval.gates.                      *)
(***************************************************************************)
EXTENDS Naturals, Sequences

Gate == {"Drain", "Uncordon"}
Decision == {"None", "Approved", "Rejected"}
ApprovalPolicy == {"AutoApprove", "ManualBeforeDrain", "ManualBeforeUncordon",
                   "ManualBeforeBoth"}

Gated == [ AutoApprove          |-> {},
           ManualBeforeDrain    |-> {"Drain"},
           ManualBeforeUncordon |-> {"Uncordon"},
           ManualBeforeBoth     |-> {"Drain", "Uncordon"} ]

RequiresGate(policy, gate) == gate \in Gated[policy]

\* The request's own policy when it names one, else the cluster default, else
\* automatic approval. "" is the unset string.
EffectivePolicy(own, default) ==
  IF own # "" THEN own ELSE IF default # "" THEN default ELSE "AutoApprove"

\* decided[gate] is the decision that DecisionFor finds, "None" when no entry
\* names the gate (or its value is not recognised).
Evaluate(policy, decided, gate) ==
  IF ~RequiresGate(policy, gate) THEN "NotRequired"
  ELSE IF decided[gate] = "None" THEN "Pending" ELSE decided[gate]

-----------------------------------------------------------------------------
(***************************************************************************)
(* DecisionFor over the recorded list. An entry is a record of its gate,   *)
(* its decision and its time; time 0 is the unset timestamp. The scan      *)
(* keeps the earlier entry unless a later one carries a strictly later     *)
(* set time.                                                               *)
(***************************************************************************)
Later(g, found) == g.time # 0 /\ (found.time = 0 \/ g.time > found.time)

\* scan[i] is the index of the entry found after looking at the first i
\* entries, 0 when none of them is for the gate.
ScanFor(gates, gate) ==
  LET scan[i \in 0 .. Len(gates)] ==
        IF i = 0 THEN 0
        ELSE IF gates[i].gate # gate THEN scan[i - 1]
        ELSE IF scan[i - 1] = 0 \/ Later(gates[i], gates[scan[i - 1]])
             THEN i ELSE scan[i - 1]
  IN  scan[Len(gates)]

DecisionFor(gates, gate) ==
  LET i == ScanFor(gates, gate)
  IN  IF i = 0 THEN "None" ELSE gates[i].decision
=============================================================================
