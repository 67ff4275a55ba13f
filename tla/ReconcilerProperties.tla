------------------------ MODULE ReconcilerProperties ------------------------
(***************************************************************************)
(* What the reconciler of one MaintenanceRequest promises, over every      *)
(* interleaving with the user, the watch, the cluster and restarts.        *)
(***************************************************************************)
EXTENDS Reconciler

Persisted(phases) == InPhase(status, phases)

\* Nodes the request has begun to work on, whatever became of them.
Begun == (InFlightPhases \cup NodeTerminal) \ {"Skipped"}

-----------------------------------------------------------------------------
(***************************************************************************)
(* Approval gates.                                                         *)
(***************************************************************************)
\* No node is begun unless the drain gate was open (approved, or not asked
\* for) at some moment: neither pause and resume, nor a re-validation, nor a
\* restart gets a request past a gate still waiting for its decision
\* (reconcileValidating, reconcileAwaitingApproval, resumePhase).
DrainGateRespected == Persisted(Begun) # {} => hist.drainCleared

\* A status waiting at the drain gate lists no node, and one waiting at the
\* uncordon gate has a drained node to hand back: so the phase a decision or a
\* resume leads to (nextPhaseAfterGate, resumePhase) is the one it left.
GateMatchesProgress ==
  /\ status.gate = "Drain" => status.node = NoNodes
  /\ status.gate = "Uncordon" => Persisted({"PostCheck"}) # {}
  /\ status.phase = "AwaitingApproval" => status.gate # ""

\* On the normal path a node is handed back only if the uncordon gate was open
\* at some moment. (A user's cancel, or a failure, hands nodes back without
\* asking the gate.)
UncordonGateRespected ==
  UncordonAfter /\ ~ReplaceNodes /\ Persisted({"Uncordoning", "Completed"}) # {}
    => hist.uncordonCleared

-----------------------------------------------------------------------------
(***************************************************************************)
(* Batches and slots.                                                      *)
(***************************************************************************)
Begins(n) == /\ status.node[n] \in {"Pending", Unlisted}
             /\ status'.node[n] \in Begun

\* A node is begun only when every node of a lower batch is finished
\* (currentBatch), across pauses, retries of blocked nodes and restarts.
BatchesInOrder ==
  [][\A n \in Node : Begins(n) =>
       \A m \in Node : Batch[m] < Batch[n] =>
         status'.node[m] \in NodeTerminal \cup {Unlisted}]_vars

\* A node is begun only into a free slot: counting it, no more nodes are in
\* flight than the concurrency allows (the guard in stepNode, the counter the
\* loop carries).
StartsWithinSlots ==
  [][\A n \in Node : Begins(n) => CountInFlight(status') <= MaxConcurrent]_vars

\* The counter the loop increments and decrements by hand is the number of
\* nodes in flight in the copy it is about to write.
InFlightAgrees ==
  worker.pc = "step" => worker.inFlight = CountInFlight(worker.status)

-----------------------------------------------------------------------------
(***************************************************************************)
(* Cordons.                                                                *)
(***************************************************************************)
\* A node this request cordoned is always found again: the persisted status
\* names it in a phase that an abort releases, whenever the manager dies and
\* whichever write is refused. (Cordoning is persisted one pass before Cordon is
\* called; Completed is set only after Uncordon.)
OwnedCordonIsTracked ==
  UncordonAfter /\ ~ReplaceNodes /\ status.phase \notin Terminal
    => hist.ours \subseteq Persisted(Releasable)

\* A request that fails or is cancelled leaves cordoned only the nodes whose
\* release was tried and refused, unless it was cancelled at the uncordon gate,
\* where a rejection asks for the nodes to stay cordoned.
AbortReturnsNodes ==
  /\ UncordonAfter /\ ~ReplaceNodes
  /\ status.phase = "Failed" \/ (status.phase = "Cancelled" /\ status.gate # "Uncordon")
  => hist.ours \subseteq hist.releaseFailed

\* Completed means that every listed node is done and that none is left
\* cordoned by the request.
CompletedMeansDone ==
  status.phase = "Completed" =>
    /\ Persisted(NodePhase) = Persisted({"Completed", "Skipped"})
    /\ UncordonAfter /\ ~ReplaceNodes => hist.ours = {}

\* Pods are asked to leave only a node that accepts no new ones, over crashes,
\* refused writes and stale copies. (Where an abort can be taken back: its
\* releases may be done and its write refused, and the execution goes on with
\* nodes that it no longer holds.)
EvictsOnlyCordoned == [][~TransientAborts => evicting' \ evicting \subseteq cordoned]_vars

\* The plan puts each node in a batch of its own (strategy Serial).
OwnBatches == \A m, n \in Node : Batch[m] = Batch[n] => m = n

\* As many replacements joined as nodes are reported replaced, where the plan
\* puts each node in a batch of its own: the count of Ready nodes has to grow
\* past the baseline (AwaitNode), over timeouts, retries and restarts. Nodes of
\* one batch may share a baseline, and then one replacement completes them all.
EachReplacementJoined ==
  OwnBatches /\ ReplaceNodes /\ TargetVersionSet
    => Cardinality(Persisted({"Completed"})) <= ready

\* A Machine is deleted only once its node is drained.
DeletesOnlyDrained ==
  [][\A n \in Node : machine'[n] = "Deleting" => n \notin busy]_vars

-----------------------------------------------------------------------------
(***************************************************************************)
(* The request as a whole.                                                 *)
(***************************************************************************)
\* Nothing is written over a terminal status, by a late or a stale pass.
TerminalIsFinal == [][status.phase \in Terminal => UNCHANGED status]_vars

\* The terminal outcome is counted and audited at most once, and only when it
\* is the outcome that was persisted.
AuditedOnce == hist.audits <= 1 /\ (hist.audits = 1 => status.phase \in Terminal)

\* No lost wake-up: a live request with no pass in progress is in the queue.
NoLostWakeup == worker.pc = "idle" /\ status.phase \notin Terminal => queued

\* An execution that is Blocked has a node to retry: it does not requeue itself
\* unchanged until the global timeout.
BlockedIsRetryable ==
  status.phase = "Blocked" /\ status.node # NoNodes => Persisted({"Blocked"}) # {}

\* The reconciler implements the abstract life of a request: phases move along
\* the table, terminal ones are left by nobody, and no node is begun before the
\* drain gate has been open.
Abstract == INSTANCE Lifecycle WITH phase <- status.phase,
                                    begun <- Persisted(Begun) # {},
                                    cleared <- hist.drainCleared

ImplementsLifecycle == Abstract!Spec

\* Once the global timeout has elapsed an execution ends, or somebody is
\* holding it: the pause of a user or a gate that awaits its decision.
TimedOutEnds ==
  (late /\ status.phase \in {"Executing", "Blocked"})
    ~> (status.phase \in Terminal \cup {"Paused", "AwaitingApproval"})

-----------------------------------------------------------------------------
(***************************************************************************)
(* What the code says of itself and does not do: a run expects TLC to      *)
(* refute it.                                                              *)
(***************************************************************************)
\* "No Machine backs this node": a node is failed only when that is so.
BackedNodesAreReplaced ==
  ReplaceNodes => Persisted({"Failed"}) \cap Backed = {}
=============================================================================
