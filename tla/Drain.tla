-------------------------------- MODULE Drain --------------------------------
(***************************************************************************)
(* The drain of one node, pod by pod (internal/executor, and the Draining  *)
(* step of the controller). Reconciler takes a round of evictions as one   *)
(* step; here a round lists the pods from the informer cache, asks the API *)
(* server for the removal of each, and only then classifies what came back *)
(* and decides whether the node is drained, blocked or still draining.     *)
(* Pods, budgets, the clock and the two force switches move in between.    *)
(*                                                                         *)
(* A request that is paused, aborted or deleted runs no more rounds: that  *)
(* is Reconciler's business. So are replacement and uncordoning.           *)
(***************************************************************************)
EXTENDS Integers, FiniteSets

CONSTANTS
  Pod,           \* pods that may be bound to the node
  Exempted,      \* those of a DaemonSet, and the mirrors of static pods
  Protected,     \* pods that the PodDisruptionBudget selects
  DefaultGrace,  \* terminationGracePeriodSeconds of the pods, in ticks
  StuckSlack,    \* stuckGraceSlack, in ticks
  DrainTimeout,  \* spec.drainTimeout, in ticks
  MaxAllowed,    \* most disruptions the budget ever allows
  MaxFaults,     \* bound on failed reads, lost status writes and restarts
  MaxFlips       \* bound on changes of force, of the policy and of the budget

ASSUME PodAssumption == IsFiniteSet(Pod) /\ Exempted \subseteq Pod /\ Protected \subseteq Pod
ASSUME TimeAssumption == {DefaultGrace, StuckSlack, DrainTimeout} \subseteq Nat
ASSUME LimitAssumption == {MaxAllowed, MaxFaults, MaxFlips} \subseteq Nat

VARIABLES
  pod,         \* each pod, as the API server holds it
  cached,      \* each pod, as the informer last showed it
  age,         \* ticks since the pod's removal was requested
  grace,       \* deletionGracePeriodSeconds the pod was given
  allowed,     \* disruptionsAllowed of the budget
  force,       \* spec.force, as the controller's cache shows it
  permitted,   \* policy.allowForceEviction, as the cache shows it
  cordoned,    \* the node is unschedulable
  node,        \* phase and blockReason of the node's status
  elapsed,     \* ticks since the node's status.startTime
  round,       \* the round of evictions under way
  faults,      \* faults so far
  flips        \* changes so far

pods == <<pod, cached, age, grace>>
user == <<force, permitted, flips>>
vars == <<pods, allowed, user, cordoned, node, elapsed, round, faults>>

PodState == {"None", "Running", "Terminating", "Finished", "Gone"}
Occupying == {"Running", "Terminating"}
BlockReason == {"PDB", "EvictionError", "StuckTermination", "Timeout"}
NodeStatus == [phase : {"Cordoning", "Draining", "PostCheck"}, reason : {""}]
              \cup [phase : {"Blocked"}, reason : BlockReason]
MaxAge == 2 * DefaultGrace + StuckSlack + 1

\* todo: pods the loop still has to visit. Only the properties read listed (the
\* pods the cache knew), overdue (those past their grace period and the slack) and
\* granted (both switches were on at some moment of the round).
RoundRecord == [active : BOOLEAN, forced : BOOLEAN, blocking : SUBSET Pod, stuck : SUBSET Pod,
                todo : SUBSET Pod, denied : SUBSET Pod, failed : SUBSET Pod,
                listed : SUBSET Pod, overdue : SUBSET Pod, granted : BOOLEAN]

NoRound == [active |-> FALSE, forced |-> FALSE, blocking |-> {}, stuck |-> {},
            todo |-> {}, denied |-> {}, failed |-> {},
            listed |-> {}, overdue |-> {}, granted |-> FALSE]

TypeOK ==
  /\ pod \in [Pod -> PodState] /\ cached \in [Pod -> PodState]
  /\ age \in [Pod -> 0 .. MaxAge] /\ grace \in [Pod -> {0, DefaultGrace}]
  /\ allowed \in 0 .. MaxAllowed
  /\ {force, permitted, cordoned} \subseteq BOOLEAN
  /\ node \in NodeStatus
  /\ elapsed \in 0 .. DrainTimeout + 1
  /\ round \in RoundRecord
  /\ faults \in 0 .. MaxFaults /\ flips \in 0 .. MaxFlips

-----------------------------------------------------------------------------
(***************************************************************************)
(* What a round makes of the list it was given.                            *)
(***************************************************************************)
\* Mutants of IsDrainBlocking: pods that are leaving count as gone already; pods
\* that have run to completion count as if they did not.
IsEvictable(list, p) == p \notin Exempted /\ list[p] = "Running"
IsListed(list, p) == p \notin Exempted /\ list[p] \in Occupying \cup {"Finished"}

IsDrainBlocking(list, p) == p \notin Exempted /\ list[p] \in Occupying

\* The stuck test of the code. deletionTimestamp is the time of the request
\* plus the grace period, and the code adds the grace period once more.
TerminatingTooLong(p) == age[p] > (grace[p] + grace[p]) + StuckSlack

\* Mutant of ForceAllowed: either switch is enough.
EitherForces(requested, byPolicy) == requested \/ byPolicy

ForceAllowed(requested, byPolicy) == requested /\ byPolicy

\* Mutant of Classify: stuck pods are looked at first.
ClassifyStuckFirst(r) ==
  IF r.stuck # {} THEN "StuckTermination"
  ELSE IF r.denied # {} THEN "PDB" ELSE IF r.failed # {} THEN "EvictionError" ELSE ""

\* Only asked while some pod blocks. Waiting and progress both give no reason.
Classify(r) ==
  IF r.denied # {} THEN "PDB"
  ELSE IF r.failed # {} THEN "EvictionError"
  ELSE IF r.stuck # {} THEN "StuckTermination"
  ELSE ""

\* Mutant of DrainTimedOut: a denial is something to retry, not to time out.
TimedOutUnlessDenied(r) == elapsed > DrainTimeout /\ r.denied = {}

DrainTimedOut(r) == elapsed > DrainTimeout

-----------------------------------------------------------------------------
(***************************************************************************)
(* The API server, asked to remove a pod. A denied or failed request        *)
(* changes nothing; a request about a pod that is gone is NotFound, which   *)
(* the code takes for progress. Eviction checks the budget for running pods *)
(* only; deletion with a zero grace period never does, and removes the pod  *)
(* at once unless a finalizer holds it.                                    *)
(***************************************************************************)
Leaves(p, to, period) ==
  /\ pod' = [pod EXCEPT ![p] = to]
  /\ grace' = [grace EXCEPT ![p] = period]
  /\ age' = IF pod[p] = "Running" THEN [age EXCEPT ![p] = 0] ELSE age

Keeps == UNCHANGED <<pod, grace, age>>

Evict(p) ==
  IF pod[p] = "Running"
  THEN /\ p \in Protected => allowed > 0
       /\ allowed' = IF p \in Protected THEN allowed - 1 ELSE allowed
       /\ Leaves(p, "Terminating", DefaultGrace)
  ELSE Keeps /\ UNCHANGED allowed

Delete(p) ==
  /\ IF pod[p] \in Occupying THEN \E to \in {"Terminating", "Gone"} : Leaves(p, to, 0) ELSE Keeps
  /\ UNCHANGED allowed

\* The server refuses the eviction with 429.
BudgetDenies(p) == pod[p] = "Running" /\ p \in Protected /\ allowed = 0

-----------------------------------------------------------------------------
(***************************************************************************)
(* The controller.                                                         *)
(***************************************************************************)
\* The node is made unschedulable; the write of the phase may be lost.
Cordon ==
  /\ node.phase = "Cordoning"
  /\ cordoned' = TRUE
  /\ \/ node' = [node EXCEPT !.phase = "Draining"] /\ UNCHANGED faults
     \/ faults < MaxFaults /\ faults' = faults + 1 /\ UNCHANGED node
  /\ UNCHANGED <<pods, allowed, user, elapsed, round>>

\* EvictOnce starts: the list comes from the cache, the clock is read once.
BeginRound ==
  LET blocking == {p \in Pod : IsDrainBlocking(cached, p)}
      leaving  == {p \in blocking : cached[p] = "Terminating"}
  IN  /\ node.phase = "Draining" /\ ~round.active
      /\ round' = [NoRound EXCEPT !.active = TRUE, !.forced = ForceAllowed(force, permitted),
                                  !.blocking = blocking,
                                  !.stuck = {p \in leaving : TerminatingTooLong(p)},
                                  !.todo = blocking \ leaving,
                                  !.listed = {p \in Pod : cached[p] # "None"},
                                  !.overdue = {p \in leaving : age[p] > grace[p] + StuckSlack},
                                  !.granted = force /\ permitted]
      /\ UNCHANGED <<pods, allowed, user, cordoned, node, elapsed, faults>>

\* The loop is done with one pod.
Visited(p) == [round EXCEPT !.todo = @ \ {p}]

\* removePod, for a pod the server lets go or no longer knows: that is progress.
Remove(p) ==
  /\ p \in round.todo
  /\ IF round.forced THEN Delete(p) ELSE Evict(p)
  /\ round' = Visited(p)
  /\ UNCHANGED <<cached, user, cordoned, node, elapsed, faults>>

\* removePod, denied by the budget.
Denied(p) ==
  /\ p \in round.todo /\ ~round.forced /\ BudgetDenies(p)
  /\ round' = [Visited(p) EXCEPT !.denied = @ \cup {p}]
  /\ UNCHANGED <<pods, allowed, user, cordoned, node, elapsed, faults>>

\* removePod, failed in any other way: a webhook, the server down, or an answer
\* that never came although the server had done what was asked.
Failed(p) ==
  /\ p \in round.todo /\ faults < MaxFaults
  /\ \/ Keeps /\ UNCHANGED allowed
     \/ IF round.forced THEN Delete(p) ELSE Evict(p)
  /\ round' = [Visited(p) EXCEPT !.failed = @ \cup {p}]
  /\ faults' = faults + 1
  /\ UNCHANGED <<cached, user, cordoned, node, elapsed>>

\* Mutant of BlockedFor: no reason is put in when the round gives none.
AsClassified(r) == Classify(r)

BlockedFor(r) == IF Classify(r) = "" THEN "Timeout" ELSE Classify(r)

\* What the Draining step makes of the round, once its status is written.
EndRound ==
  /\ round.active /\ round.todo = {}
  /\ node' = IF round.blocking = {} THEN [node EXCEPT !.phase = "PostCheck"]
             ELSE IF DrainTimedOut(round)
             THEN [phase |-> "Blocked", reason |-> BlockedFor(round)]
             ELSE node
  /\ round' = NoRound
  /\ UNCHANGED <<pods, allowed, user, cordoned, elapsed, faults>>

\* The round comes to nothing: the pods could not be listed, the manager died
\* on the way, or the status could not be written. What was evicted stays so.
Abandon ==
  /\ round.active /\ faults < MaxFaults
  /\ round' = NoRound
  /\ faults' = faults + 1
  /\ UNCHANGED <<pods, allowed, user, cordoned, node, elapsed>>

\* reconcileBlocked, for this node.
Retry ==
  /\ node.phase = "Blocked"
  /\ node' = [phase |-> "Draining", reason |-> ""]
  /\ elapsed' = 0
  /\ UNCHANGED <<pods, allowed, user, cordoned, round, faults>>

-----------------------------------------------------------------------------
(***************************************************************************)
(* The cluster, the users and the clock.                                   *)
(***************************************************************************)
Saturating(n, max) == IF n < max THEN n + 1 ELSE n

Tick ==
  /\ age' = [p \in Pod |-> IF "Terminating" \in {pod[p], cached[p]}
                           THEN Saturating(age[p], MaxAge) ELSE 0]
  /\ elapsed' = Saturating(elapsed, DrainTimeout + 1)
  /\ UNCHANGED <<pod, cached, grace, allowed, user, cordoned, node, round, faults>>

\* The scheduler binds a pod while the node still takes pods.
Bind(p) ==
  /\ ~cordoned /\ pod[p] = "None"
  /\ pod' = [pod EXCEPT ![p] = "Running"]
  /\ UNCHANGED <<cached, age, grace, allowed, user, cordoned, node, elapsed, round, faults>>

\* The containers of a Job's pod, or of a pod told to stop, have exited.
Finish(p) ==
  /\ p \notin Exempted /\ pod[p] \in Occupying
  /\ pod' = [pod EXCEPT ![p] = "Finished"]
  /\ UNCHANGED <<cached, age, grace, allowed, user, cordoned, node, elapsed, round, faults>>

\* The kubelet is done with a pod that was told to leave. It may never be.
Terminate(p) ==
  /\ pod[p] = "Terminating"
  /\ pod' = [pod EXCEPT ![p] = "Gone"]
  /\ UNCHANGED <<cached, age, grace, allowed, user, cordoned, node, elapsed, round, faults>>

Deliver(p) ==
  /\ cached[p] # pod[p]
  /\ cached' = [cached EXCEPT ![p] = pod[p]]
  /\ UNCHANGED <<pod, age, grace, allowed, user, cordoned, node, elapsed, round, faults>>

Flip ==
  /\ flips < MaxFlips /\ flips' = flips + 1
  /\ \/ force' = ~force /\ UNCHANGED <<permitted, allowed>>
     \/ permitted' = ~permitted /\ UNCHANGED <<force, allowed>>
     \/ allowed' \in 0 .. MaxAllowed /\ UNCHANGED <<force, permitted>>
  /\ round' = [round EXCEPT !.granted = round.active /\ (round.granted \/ (force' /\ permitted'))]
  /\ UNCHANGED <<pods, cordoned, node, elapsed, faults>>

-----------------------------------------------------------------------------
\* The node was just told to start: its clock runs while it is being cordoned.
\* Its daemons have been there for long.
Init ==
  /\ pod \in [Pod -> {"None", "Running"}] /\ cached \in [Pod -> {"None", "Running"}]
  /\ \A p \in Pod : cached[p] = "Running" => pod[p] = "Running"
  /\ \A p \in Exempted : cached[p] = "Running"
  /\ age = [p \in Pod |-> 0] /\ grace = [p \in Pod |-> 0]
  /\ allowed \in 0 .. MaxAllowed
  /\ force \in BOOLEAN /\ permitted \in BOOLEAN
  /\ cordoned = FALSE
  /\ node = [phase |-> "Cordoning", reason |-> ""]
  /\ elapsed = 0 /\ round = NoRound /\ faults = 0 /\ flips = 0

Step == Cordon \/ BeginRound \/ EndRound \/ \E p \in Pod : Remove(p) \/ Denied(p) \/ Failed(p)

\* Once the node is drained, what its pods do matters no more.
Environment ==
  /\ node.phase # "PostCheck"
  /\ \/ Tick \/ Flip
     \/ \E p \in Pod : Bind(p) \/ Finish(p) \/ Terminate(p) \/ Deliver(p)

Next == Step \/ Abandon \/ Retry \/ Environment

\* The manager keeps reconciling, blocked nodes included, and time passes.
\* Nothing is asked of pods, budgets, informer or users.
Spec == Init /\ [][Next]_vars /\ WF_vars(Step) /\ WF_vars(Retry) /\ WF_vars(Tick)

-----------------------------------------------------------------------------
(***************************************************************************)
(* Properties.                                                             *)
(***************************************************************************)
Blocks == node.phase = "Draining" /\ node'.phase = "Blocked"

\* A node is declared drained (PostCheck) over a pod that still occupies it
\* only when the list of the round did not show that pod at all: however stale
\* the list and whatever happened since, a pod that is slow to leave, or whose
\* eviction was only just accepted, is never overlooked.
DrainedOverUnseenOnly ==
  [][node.phase = "Draining" /\ node'.phase = "PostCheck"
       => \A p \in Pod \ Exempted : pod[p] \in Occupying => p \notin round.listed]_vars

\* The disruption budget is exceeded only in a round during which spec.force and
\* policy.allowForceEviction were both on at one time: neither alone is enough,
\* nor is one after the other, and withdrawing one spares the next round's pods.
OverBudgetOnlyWhenForced ==
  [][\A p \in Protected :
       /\ pod[p] = "Running" /\ pod'[p] \in {"Terminating", "Gone"}
       /\ allowed = 0
       => round.granted]_vars

\* A node blocked for any reason but a refusal (PDB, EvictionError) has no pod
\* left, of those it was blocked on, that has not been told to leave: an
\* operator who reads StuckTermination or Timeout need not look for a budget.
LeavingUnlessRefused ==
  [][Blocks /\ node'.reason \notin {"PDB", "EvictionError"}
       => \A p \in round.blocking : pod[p] # "Running"]_vars

\* A drain comes to an end, whatever pods, budget and informer do: at the latest
\* the timeout blocks the node.
DrainEnds == (node.phase = "Draining") ~> (node.phase # "Draining")

\* A drain succeeds in the end when the cluster lets it: if from some time on
\* the budget denies no pod, no pod lingers in termination and the informer is
\* up to date, then the rounds and the retries of a blocked node drain it.
ClusterRelents ==
  \A p \in Pod : ~BudgetDenies(p) /\ pod[p] # "Terminating" /\ cached[p] = pod[p]

DrainSucceeds == <>[]ClusterRelents => <>(node.phase = "PostCheck")

\* What the comment on stuckGraceSlack says: a pod that has outlived its grace
\* period plus the slack when a round looks at it counts as stuck, so a node
\* blocked on one and on nothing worse is blocked for StuckTermination.
StuckReported == [][Blocks /\ node'.reason = "Timeout" => round.overdue = {}]_vars
=============================================================================
