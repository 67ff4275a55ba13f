------------------------------- MODULE Phases -------------------------------
(***************************************************************************)
(* The two phase machines of a MaintenanceRequest: the request-level table *)
(* of internal/statemachine, and the node-level phases of the executor     *)
(* with the predicates internal/controller/execute.go asks of them.        *)
(* Constant-level definitions only.                                        *)
(***************************************************************************)
EXTENDS Naturals, FiniteSets

Terminal == {"Completed", "Failed", "Cancelled"}

\* "New" is the empty status.phase of an object nobody has reconciled yet.
Phase == {"New", "Pending", "Validating", "AwaitingApproval", "Planned",
          "Executing", "Paused", "Blocked"} \cup Terminal

InitialPhase == "Pending"

Transitions ==
  [ New              |-> {"Pending", "Validating"},
    Pending          |-> {"Validating", "Cancelled", "Failed"},
    Validating       |-> {"AwaitingApproval", "Planned", "Blocked"} \cup Terminal,
    AwaitingApproval |-> {"Planned", "Executing", "Paused", "Cancelled", "Failed"},
    Planned          |-> {"Executing", "Paused", "Blocked"} \cup Terminal,
    Executing        |-> {"AwaitingApproval", "Paused", "Blocked"} \cup Terminal,
    Paused           |-> {"Executing", "Planned", "Validating", "AwaitingApproval",
                          "Cancelled", "Failed"},
    Blocked          |-> {"Validating", "Planned", "Executing", "Paused"} \cup Terminal,
    Completed        |-> {},
    Failed           |-> {},
    Cancelled        |-> {} ]

CanTransition(from, to) == from = to \/ to \in Transitions[from]

IsActive(p) == p \notin Terminal \cup {"New"}

\* Mutant of Pausable: any live phase can be paused.
PausableAny == Phase \ (Terminal \cup {"New"})

\* Phases from which spec.pause takes effect.
Pausable == {"Planned", "Executing", "Blocked", "AwaitingApproval"}

-----------------------------------------------------------------------------
InFlightPhases == {"Cordoning", "Draining", "PostCheck", "Uncordoning",
                   "Replacing", "AwaitingReplacement"}

NodeTerminal == {"Completed", "Blocked", "Failed", "Skipped"}

NodePhase == {"Pending"} \cup InFlightPhases \cup NodeTerminal

\* Mutant of Releasable: a blocked node is taken for finished.
ReleasableInFlight == {"Cordoning", "Draining", "PostCheck", "Uncordoning"}

\* Phases in which an abort assumes that this request cordoned the node.
Releasable == {"Cordoning", "Draining", "PostCheck", "Uncordoning", "Blocked"}

\* A node of the model that status.nodes does not list.
Unlisted == "Unlisted"
=============================================================================
