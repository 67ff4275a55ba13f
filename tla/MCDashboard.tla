----------------------------- MODULE MCDashboard -----------------------------
(***************************************************************************)
(* Small instances of Dashboard for TLC.                                   *)
(***************************************************************************)
EXTENDS Dashboard

By(gate, decision, time) == [gate |-> gate, decision |-> decision, by |-> "kubectl", time |-> time]

NoStart == {<<>>}

\* Nothing recorded, or a list written by hand that names a gate twice.
HandMade == {<<>>,
             <<By("Drain", "Rejected", 0), By("Drain", "Approved", 1)>>,
             <<By("Drain", "Approved", 1), By("Uncordon", "Approved", 0),
               By("Drain", "Rejected", 0)>>}
=============================================================================
