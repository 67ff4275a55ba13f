------------------------------ MODULE Lifecycle ------------------------------
(***************************************************************************)
(* What a MaintenanceRequest promises to those who watch its status: it    *)
(* moves along the phase table, it never leaves a terminal phase, and no   *)
(* node is begun before the drain gate has been open. How the controller   *)
(* gets there (cache, copies, conflicts, restarts) is left to Reconciler,  *)
(* which implements this.                                                  *)
(***************************************************************************)
EXTENDS Phases

VARIABLES
  phase,    \* the persisted phase
  begun,    \* some node has been begun
  cleared   \* the drain gate has been open: approved, or not required

vars == <<phase, begun, cleared>>

TypeOK == phase \in Phase /\ begun \in BOOLEAN /\ cleared \in BOOLEAN

Init == phase = "New" /\ begun = FALSE /\ cleared \in BOOLEAN

\* Validating may be passed through in memory: a request in Pending may be seen
\* next wherever Validating leads.
MayMove(from, to) ==
  CanTransition(from, to) \/ (from = "Pending" /\ CanTransition("Validating", to))

Move ==
  /\ \E to \in Phase :
       /\ MayMove(phase, to)
       /\ to = "Executing" => cleared
       /\ phase' = to
  /\ UNCHANGED <<begun, cleared>>

Begin ==
  /\ phase = "Executing" /\ cleared
  /\ begun' = TRUE
  /\ UNCHANGED <<phase, cleared>>

Clear == cleared' = TRUE /\ UNCHANGED <<phase, begun>>

Next == Move \/ Begin \/ Clear

Spec == Init /\ [][Next]_vars
=============================================================================
