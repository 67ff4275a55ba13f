----------------------------- MODULE Reconciler -----------------------------
(***************************************************************************)
(* One MaintenanceRequest and the MaintenanceRequestReconciler that drives *)
(* it (internal/controller). controller-runtime never reconciles one key   *)
(* twice at the same time, so one worker is enough; what interleaves with  *)
(* it is the user editing the spec, the API server's watch, the cluster    *)
(* (pods, Machines, timers) and the death of the manager.                  *)
(*                                                                         *)
(* A reconcile is a sequence of steps, one per API call: read the request  *)
(* from the informer cache, change the private copy and the cluster, write *)
(* the copy back. The write is optimistic: it succeeds only when the copy  *)
(* still carries the server's resourceVersion.                             *)
(***************************************************************************)
EXTENDS Integers, Phases, Approval

CONSTANTS
  NumNodes,          \* nodes the plan may cover, in the order of status.nodes
  Batch,             \* plan batch of each node
  MaxConcurrent,     \* Effective.Concurrency(spec.maxConcurrent)
  Budgets,           \* what maxConcurrentDrains minus other requests' drains may be
  FailureThreshold,  \* policy.failureThreshold, raised to 1
  UncordonAfter,     \* spec.uncordonAfter
  ReplaceNodes,      \* spec.upgrade asks for replacement
  TargetVersionSet,  \* spec.upgrade.targetKubeletVersion # ""
  Exempt,            \* nodes run by the MCO, or already at the target version
  Backed,            \* nodes backed by a Machine
  Modes,             \* modes the request may be given
  Policies,          \* effective approval policies the request may be given
  Targets,           \* sets of nodes that spec.target may be found to select
  Removals,          \* BOOLEAN: somebody else may delete a node
  TransientAborts,   \* BOOLEAN: policy errors pass, and cancel can be withdrawn
  MaxEdits,          \* bound on the user's spec patches
  MaxCrashes         \* bound on restarts of the manager

Node == 1 .. NumNodes

ASSUME SizeAssumption == NumNodes \in Nat \ {0}
ASSUME PlanAssumption == /\ Batch \in [Node -> Nat] /\ Targets \subseteq SUBSET Node
                         /\ Exempt \subseteq Node /\ Backed \subseteq Node
ASSUME LimitAssumption == /\ MaxConcurrent \in Nat \ {0}
                          /\ Budgets \subseteq Int /\ Budgets # {}
                          /\ FailureThreshold \in Nat \ {0}
ASSUME SpecAssumption == /\ {UncordonAfter, ReplaceNodes, TargetVersionSet} \subseteq BOOLEAN
                         /\ {Removals, TransientAborts} \subseteq BOOLEAN
                         /\ Modes \subseteq {"DryRun", "Advisory", "Execute"}
                         /\ Policies \subseteq ApprovalPolicy
ASSUME BoundAssumption == MaxEdits \in Nat /\ MaxCrashes \in Nat

VARIABLES
  spec,      \* the request's spec, as the API server holds it
  status,    \* the request's status, as the API server holds it
  cache,     \* the informer's copy of both
  synced,    \* the informer has seen the server's resourceVersion
  queued,    \* the work queue holds the request's key
  worker,    \* the reconcile in progress
  cordoned,  \* nodes that are unschedulable
  busy,      \* nodes with drain-blocking pods
  evicting,  \* nodes whose pods were asked to leave
  machine,   \* the Machine, and Node object, behind each node
  ready,     \* Ready nodes at the target version that joined as replacements
  late,      \* the global timeout has elapsed since status.startTime
  edits,     \* spec patches so far
  crashes,   \* restarts so far
  hist       \* history, read by the properties only

request == <<spec, status, cache, synced, queued>>
cluster == <<cordoned, busy, evicting, machine, ready>>
bounds  == <<edits, crashes>>
vars    == <<request, worker, cluster, late, bounds, hist>>

-----------------------------------------------------------------------------
(***************************************************************************)
(* Types.                                                                  *)
(***************************************************************************)
SpecRecord == [mode : {"DryRun", "Advisory", "Execute"}, pause : BOOLEAN, cancel : BOOLEAN,
          policy : ApprovalPolicy, decided : [Gate -> Decision]]

StatusRecord == [phase : Phase, gate : Gate \cup {""}, plan : BOOLEAN, started : BOOLEAN,
            node : [Node -> NodePhase \cup {Unlisted}], baseline : [Node -> Nat]]

\* todo: nodes the loop (or the release) still has to visit. slots: the
\* concurrency that starting a node must respect, 0 outside the window.
WorkerRecord == [pc : {"idle", "step", "release", "write", "audit"}, status : StatusRecord,
            fresh : BOOLEAN, todo : SUBSET Node, slots : Int, inFlight : Int,
            open : BOOLEAN]

HistRecord == [drainCleared : BOOLEAN, uncordonCleared : BOOLEAN, ours : SUBSET Node,
          releaseFailed : SUBSET Node, audits : Nat]

TypeOK ==
  /\ spec \in SpecRecord /\ status \in StatusRecord
  /\ cache \in [spec : SpecRecord, status : StatusRecord]
  /\ synced \in BOOLEAN /\ queued \in BOOLEAN
  /\ worker \in WorkerRecord
  /\ cordoned \subseteq Node /\ busy \subseteq Node /\ evicting \subseteq Node
  /\ machine \in [Node -> {"Running", "Deleting", "Gone"}]
  /\ ready \in Nat /\ late \in BOOLEAN
  /\ edits \in Nat /\ crashes \in Nat
  /\ hist \in HistRecord

-----------------------------------------------------------------------------
(***************************************************************************)
(* What the code asks of a status.                                         *)
(***************************************************************************)
NoNodes == [n \in Node |-> Unlisted]

InPhase(s, phases) == {n \in Node : s.node[n] \in phases}

CountInFlight(s) == Cardinality(InPhase(s, InFlightPhases))

Unfinished(s) == {n \in Node : s.node[n] \notin NodeTerminal \cup {Unlisted}}

\* Mutant of CurrentBatch: batches are ignored.
AnyBatch(s) == Unfinished(s)

\* Unfinished nodes of the lowest batch that has any: empty when the code's
\* currentBatch is -1.
CurrentBatch(s) == {n \in Unfinished(s) : \A m \in Unfinished(s) : Batch[n] <= Batch[m]}

NodesToRelease(s) ==
  IF UncordonAfter /\ ~ReplaceNodes THEN InPhase(s, Releasable) ELSE {}

\* Mutants of ResumePhase: the gate is forgotten; a request without a plan is too.
ResumePastGate(s) ==
  IF ~s.plan THEN "Validating" ELSE IF s.node = NoNodes THEN "Planned" ELSE "Executing"

ResumeUnset(s) ==
  IF s.gate # "" THEN s.gate ELSE IF s.node = NoNodes THEN "Planned" ELSE "Executing"

ResumePhase(s) ==
  IF s.gate # "" THEN "AwaitingApproval"
  ELSE IF ~s.plan THEN "Validating"
  ELSE IF s.node = NoNodes THEN "Planned" ELSE "Executing"

NextPhaseAfterGate(gate) == IF gate = "Uncordon" THEN "Executing" ELSE "Planned"

InitNodeStatuses(nodes) ==
  [n \in Node |-> IF n \in nodes THEN "Pending" ELSE Unlisted]

\* Mutant of UncordonOpen: the drain decision is read.
DrainOpen(sp) ==
  ReplaceNodes \/ Evaluate(sp.policy, sp.decided, "Drain") \in {"NotRequired", "Approved"}

\* A PostCheck node may be uncordoned: the gate is off, or decided.
UncordonOpen(sp) ==
  ReplaceNodes \/ Evaluate(sp.policy, sp.decided, "Uncordon") \in {"NotRequired", "Approved"}

\* Mutant of GlobalTimedOut: only a blocked request is bounded.
BlockedTimedOut(s) == s.started /\ late /\ s.phase = "Blocked"

GlobalTimedOut(s) == s.started /\ late

\* Advisory never gets past Planned.
StaysPlanned(sp) == sp.mode = "Advisory"

-----------------------------------------------------------------------------
EmptyStatus == [phase |-> "New", gate |-> "", plan |-> FALSE, started |-> FALSE,
                node |-> NoNodes, baseline |-> [n \in Node |-> 0]]

Idle == [pc |-> "idle", status |-> EmptyStatus, fresh |-> FALSE, todo |-> {},
         slots |-> 0, inFlight |-> 0, open |-> FALSE]

Cleared(sp, gate) == Evaluate(sp.policy, sp.decided, gate) \in {"NotRequired", "Approved"}

Init ==
  /\ spec \in {[mode |-> m, pause |-> FALSE, cancel |-> FALSE, policy |-> p,
                decided |-> [g \in Gate |-> "None"]] : m \in Modes, p \in Policies}
  /\ status = EmptyStatus
  /\ cache = [spec |-> spec, status |-> status]
  /\ synced = TRUE /\ queued = TRUE
  /\ worker = Idle
  /\ cordoned = {} /\ busy = Node /\ evicting = {}
  /\ machine = [n \in Node |-> "Running"] /\ ready = 0
  /\ late = FALSE /\ edits = 0 /\ crashes = 0
  /\ hist = [drainCleared |-> Cleared(spec, "Drain"),
             uncordonCleared |-> Cleared(spec, "Uncordon"),
             ours |-> {}, releaseFailed |-> {}, audits |-> 0]

-----------------------------------------------------------------------------
(***************************************************************************)
(* Outcomes of a handler: each says what the worker does next with the     *)
(* copy s it has built.                                                    *)
(***************************************************************************)
Holding(pc, s) ==
  [Idle EXCEPT !.pc = pc, !.status = s,
               !.fresh = IF worker.pc = "idle" THEN synced ELSE worker.fresh]

\* updateStatus, then requeue.
Save(s) == worker' = Holding("write", s)

\* fail, cancel and complete: release the nodes in todo, then write.
Finish(s, phase, todo) ==
  worker' = [Holding(IF todo = {} THEN "write" ELSE "release", [s EXCEPT !.phase = phase])
               EXCEPT !.todo = todo]

Fail(s)            == Finish(s, "Failed", NodesToRelease(s))
Cancel(s, release) == Finish(s, "Cancelled", IF release THEN NodesToRelease(s) ELSE {})
Complete(s)        == Finish(s, "Completed", {})

\* Mutant of CompleteExecution: blocked nodes do not count.
CompleteUnlessFailed(s) ==
  \/ InPhase(s, {"Failed"}) # {} /\ Fail(s)
  \/ InPhase(s, {"Failed"}) = {} /\ Complete(s)

CompleteExecution(s) ==
  \/ InPhase(s, {"Failed"}) # {} /\ Fail(s)
  \/ InPhase(s, {"Failed"}) = {} /\ InPhase(s, {"Blocked"}) # {}
     /\ Save([s EXCEPT !.phase = "Blocked"])
  \/ InPhase(s, {"Failed", "Blocked"}) = {} /\ Complete(s)

-----------------------------------------------------------------------------
(***************************************************************************)
(* Reconcile, up to the first write or the first call on the cluster. `seen` *)
(* is what Get returns: the cached object. A pass that reads, decides nothing *)
(* and asks to be requeued (a pending gate, a paused request, a preflight  *)
(* or planner error) leaves no trace; Poll stands for all of them.         *)
(***************************************************************************)
seen == cache.status

Reading(phases) ==
  /\ worker.pc = "idle" /\ queued
  /\ seen.phase \in phases
  /\ queued' = FALSE
  /\ UNCHANGED <<spec, status, cache, synced, cluster, late, bounds>>

\* The phase switch is reached: no cancel, no pause to honour, a policy.
Dispatched(phase) ==
  /\ Reading({phase})
  /\ ~cache.spec.cancel
  /\ ~(cache.spec.pause /\ phase \in Pausable)

Accept == Reading({"New"}) /\ Save([seen EXCEPT !.phase = InitialPhase]) /\ UNCHANGED hist

ObserveTerminal == Reading(Terminal) /\ UNCHANGED <<worker, hist>>

Live == Phase \ (Terminal \cup {"New"})

UserCancel == Reading(Live) /\ cache.spec.cancel /\ Cancel(seen, TRUE) /\ UNCHANGED hist

Pause ==
  /\ Reading(Pausable)
  /\ ~cache.spec.cancel /\ cache.spec.pause
  /\ Save([seen EXCEPT !.phase = "Paused"])
  /\ UNCHANGED hist

\* policy.Resolve failed, for whatever reason.
PolicyUnresolved ==
  /\ TransientAborts
  /\ \E p \in Live : Dispatched(p)
  /\ Fail(seen)
  /\ UNCHANGED hist

\* reconcileValidating. Preflight may pass or not.
Validated == [seen EXCEPT !.plan = TRUE]

Validating ==
  /\ \E p \in {"Pending", "Validating"} : Dispatched(p)
  /\ LET verdict == Evaluate(cache.spec.policy, cache.spec.decided, "Drain")
     IN  \/ Fail(seen)                                   \* resolveTarget fails
         \/ {} \in Targets /\ Complete(seen)
         \/ Save([seen EXCEPT !.phase = "Blocked"])      \* preflight fails
         \/ cache.spec.mode = "DryRun" /\ Complete(Validated)
         \/ /\ cache.spec.mode # "DryRun"
            /\ \/ verdict = "Rejected" /\ Cancel(Validated, FALSE)
               \/ verdict = "Pending"
                  /\ Save([Validated EXCEPT !.gate = "Drain", !.phase = "AwaitingApproval"])
               \/ verdict \in {"Approved", "NotRequired"}
                  /\ Save([Validated EXCEPT !.phase = "Planned"])
  /\ UNCHANGED hist

\* Mutant of PassGate: the gate stays in the status.
KeepGate(s, gate) == [s EXCEPT !.phase = NextPhaseAfterGate(gate)]

\* What a decided gate leaves in the status.
PassGate(s, gate) == [s EXCEPT !.gate = "", !.phase = NextPhaseAfterGate(gate)]

\* reconcileAwaitingApproval.
AwaitingApproval ==
  /\ Dispatched("AwaitingApproval")
  /\ LET gate    == IF seen.gate = "" THEN "Drain" ELSE seen.gate
         verdict == Evaluate(cache.spec.policy, cache.spec.decided, gate)
     IN  \/ verdict \in {"Approved", "NotRequired"}
            /\ Save(PassGate(seen, gate))
         \/ verdict = "Rejected" /\ Cancel(seen, FALSE)
  /\ UNCHANGED hist

\* reconcilePlanned: the target is resolved and the plan built afresh.
Planned ==
  LET planned == [seen EXCEPT !.plan = TRUE] IN
  /\ Dispatched("Planned")
  /\ \/ Fail(seen)                                       \* resolveTarget fails
     \/ StaysPlanned(cache.spec) /\ Save(planned)
     \/ ~StaysPlanned(cache.spec) /\ {} \in Targets /\ Complete(planned)
     \/ \E target \in Targets \ {{}} :
        /\ ~StaysPlanned(cache.spec)
        /\ \/ Fail(planned)                           \* a window does not parse
           \/ Save(planned)                           \* the window is closed
           \/ Save([planned EXCEPT !.phase = "Executing", !.started = TRUE,
                      !.node = IF @ = NoNodes THEN InitNodeStatuses(target) ELSE @])
  /\ UNCHANGED hist

Resume ==
  /\ Dispatched("Paused") /\ ~cache.spec.pause
  /\ Save([seen EXCEPT !.phase = ResumePhase(seen)])
  /\ UNCHANGED hist

\* Mutant of Retry: the request stays Blocked.
RetryInPlace(s) ==
  [s EXCEPT !.node = [n \in Node |-> IF @[n] = "Blocked" THEN "Draining" ELSE @[n]]]

\* Every Blocked node is sent back to Draining at once.
Retry(s) ==
  [s EXCEPT !.phase = "Executing",
            !.node = [n \in Node |-> IF @[n] = "Blocked" THEN "Draining" ELSE @[n]]]

\* reconcileBlocked.
RetryBlocked ==
  /\ Dispatched("Blocked")
  /\ \/ GlobalTimedOut(seen) /\ Fail(seen)
     \/ /\ ~GlobalTimedOut(seen) /\ InPhase(seen, {"Blocked"}) # {}
        /\ Save(Retry(seen))
     \/ /\ ~GlobalTimedOut(seen) /\ ~(seen.plan /\ seen.node # NoNodes)
        /\ Save([seen EXCEPT !.phase = "Validating"])
  /\ UNCHANGED hist

\* reconcileExecuting down to the loop over the current batch, in the order of
\* its early returns.
Halted ==
  \/ GlobalTimedOut(seen)
  \/ ~seen.plan
  \/ Cardinality(InPhase(seen, {"Failed"})) >= FailureThreshold

HeldByUncordonGate == ~UncordonOpen(cache.spec) /\ InPhase(seen, {"PostCheck"}) # {}

Executing ==
  /\ Dispatched("Executing")
  /\ \/ Halted /\ Fail(seen)
     \/ ~Halted /\ HeldByUncordonGate
        /\ Save([seen EXCEPT !.gate = "Uncordon", !.phase = "AwaitingApproval"])
     \/ ~Halted /\ ~HeldByUncordonGate /\ CurrentBatch(seen) = {} /\ CompleteExecution(seen)
     \/ /\ ~Halted /\ ~HeldByUncordonGate /\ CurrentBatch(seen) # {}
        /\ \E windowOpen \in BOOLEAN, budget \in Budgets :
             worker' = [Holding("step", seen) EXCEPT
                          !.todo = CurrentBatch(seen), !.inFlight = CountInFlight(seen),
                          !.slots = IF ~windowOpen THEN 0
                                    ELSE IF budget < MaxConcurrent THEN budget
                                    ELSE MaxConcurrent,
                          !.open = UncordonOpen(cache.spec)]
  /\ UNCHANGED hist

Poll ==
  /\ worker.pc = "idle" /\ queued /\ seen.phase \in Live
  /\ UNCHANGED vars

Reconcile ==
  \/ Accept \/ ObserveTerminal \/ UserCancel \/ Pause \/ PolicyUnresolved
  \/ Validating \/ AwaitingApproval \/ Planned \/ Resume \/ RetryBlocked
  \/ Executing

-----------------------------------------------------------------------------
(***************************************************************************)
(* stepNode, one action per node phase. The loop visits the nodes in the   *)
(* order of status.nodes.                                                  *)
(***************************************************************************)
Visiting(n, phase) ==
  /\ worker.pc = "step" /\ worker.status.node[n] = phase
  /\ n \in worker.todo /\ \A m \in worker.todo : n <= m
  /\ UNCHANGED <<request, late, bounds>>

\* The copy s goes on to the next node, or past the loop: completeExecution
\* when no batch remains, otherwise save and poll.
Continue(n, s, inFlight) ==
  \/ /\ worker.todo # {n}
     /\ worker' = [worker EXCEPT !.status = s, !.inFlight = inFlight, !.todo = @ \ {n}]
  \/ worker.todo = {n} /\ CurrentBatch(s) = {} /\ CompleteExecution(s)
  \/ worker.todo = {n} /\ CurrentBatch(s) # {} /\ Save(s)

\* Mutant of Becomes: a blocked node keeps its slot.
BecomesBlockedInFlight(n, phase) ==
  Continue(n, [worker.status EXCEPT !.node[n] = phase],
           worker.inFlight + (IF phase \in InFlightPhases \cup {"Blocked"} THEN 1 ELSE 0)
             - (IF worker.status.node[n] \in InFlightPhases THEN 1 ELSE 0))

Becomes(n, phase) ==
  Continue(n, [worker.status EXCEPT !.node[n] = phase],
           worker.inFlight + (IF phase \in InFlightPhases THEN 1 ELSE 0)
             - (IF worker.status.node[n] \in InFlightPhases THEN 1 ELSE 0))

Stays(n) == Continue(n, worker.status, worker.inFlight)

\* A call on the cluster failed: what earlier nodes did is saved, later nodes
\* wait for the retry.
NodeError(n) ==
  /\ \/ Visiting(n, "Pending") /\ worker.inFlight < worker.slots
     \/ \E p \in InFlightPhases \ {"PostCheck"} : Visiting(n, p)
  /\ Save(worker.status)
  /\ UNCHANGED <<cordoned, busy, evicting, machine, ready, hist>>

\* Mutants of StartNode: one slot too many; the node is cordoned in the same
\* pass, before its phase is persisted.
StartOneMore(n) ==
  /\ Visiting(n, "Pending")
  /\ IF worker.inFlight > worker.slots THEN Stays(n) ELSE Becomes(n, "Cordoning")
  /\ UNCHANGED <<cordoned, busy, evicting, machine, ready, hist>>

StartCordoned(n) ==
  /\ Visiting(n, "Pending")
  /\ \/ worker.inFlight >= worker.slots /\ Stays(n) /\ UNCHANGED <<cordoned, hist>>
     \/ /\ worker.inFlight < worker.slots /\ Becomes(n, "Draining")
        /\ cordoned' = cordoned \cup {n} /\ hist' = [hist EXCEPT !.ours = @ \cup {n}]
  /\ UNCHANGED <<busy, evicting, machine, ready>>

StartNode(n) ==
  /\ Visiting(n, "Pending")
  /\ \/ worker.inFlight >= worker.slots /\ Stays(n)
     \/ /\ worker.inFlight < worker.slots
        /\ IF machine[n] = "Gone" \/ n \in Exempt
           THEN Becomes(n, "Skipped") ELSE Becomes(n, "Cordoning")
  /\ UNCHANGED <<cordoned, busy, evicting, machine, ready, hist>>

\* Mutant of CordonNode: a failed Cordon is taken for done.
CordonLenient(n) ==
  /\ Visiting(n, "Cordoning")
  /\ cordoned' \in {cordoned, cordoned \cup {n}}
  /\ Becomes(n, "Draining")
  /\ UNCHANGED <<busy, evicting, machine, ready, hist>>

\* A node that is gone is an error here: NodeError.
CordonNode(n) ==
  /\ Visiting(n, "Cordoning") /\ machine[n] # "Gone"
  /\ cordoned' = cordoned \cup {n}
  /\ hist' = [hist EXCEPT !.ours = @ \cup {n}]
  /\ Becomes(n, "Draining")
  /\ UNCHANGED <<busy, evicting, machine, ready>>

\* Mutant of DrainNode: a drain that times out is taken for done.
DrainOrGiveUp(n) ==
  /\ Visiting(n, "Draining")
  /\ \/ Becomes(n, "PostCheck") /\ UNCHANGED evicting
     \/ n \in busy /\ evicting' \in {evicting, evicting \cup {n}} /\ Stays(n)
  /\ UNCHANGED <<cordoned, busy, machine, ready, hist>>

\* EvictOnce asks every evictable pod to leave; a PodDisruptionBudget or an API
\* error may keep it from asking.
DrainNode(n) ==
  /\ Visiting(n, "Draining")
  /\ \/ n \notin busy /\ Becomes(n, "PostCheck") /\ UNCHANGED evicting
     \/ /\ n \in busy
        /\ evicting' \in {evicting, evicting \cup {n}}
        /\ Stays(n) \/ Becomes(n, "Blocked")            \* drainTimedOut
  /\ UNCHANGED <<cordoned, busy, machine, ready, hist>>

CheckNode(n) ==
  /\ Visiting(n, "PostCheck")
  /\ \/ ReplaceNodes /\ Becomes(n, "Replacing")
     \/ ~ReplaceNodes /\ ~UncordonAfter /\ Becomes(n, "Completed")
     \/ ~ReplaceNodes /\ UncordonAfter /\ ~worker.open /\ Stays(n)
     \/ ~ReplaceNodes /\ UncordonAfter /\ worker.open /\ Becomes(n, "Uncordoning")
  /\ UNCHANGED <<cordoned, busy, evicting, machine, ready, hist>>

UncordonNode(n) ==
  /\ Visiting(n, "Uncordoning")
  /\ cordoned' = cordoned \ {n}
  /\ hist' = [hist EXCEPT !.ours = @ \ {n}]
  /\ Becomes(n, "Completed")
  /\ UNCHANGED <<busy, evicting, machine, ready>>

\* The baseline is taken before the Machine is deleted.
WithBaseline(n, s) ==
  IF TargetVersionSet THEN [s EXCEPT !.baseline[n] = ready] ELSE s

ReplaceNode(n) ==
  LET based == WithBaseline(n, worker.status) IN
  /\ Visiting(n, "Replacing")
  /\ \/ /\ machine[n] # "Gone" /\ n \in Backed
        /\ machine' = [machine EXCEPT ![n] = "Deleting"]
        /\ Continue(n, [based EXCEPT !.node[n] = "AwaitingReplacement"], worker.inFlight)
     \/ /\ machine[n] = "Gone" \/ n \notin Backed
        /\ UNCHANGED machine
        /\ Continue(n, [based EXCEPT !.node[n] = "Failed"], worker.inFlight - 1)
     \/ UNCHANGED machine /\ Save(based)               \* Replace returns an error
  /\ UNCHANGED <<cordoned, busy, evicting, ready, hist>>

\* Mutant of Joined: off by one.
JoinedOrEqual(n) == TargetVersionSet => ready >= worker.status.baseline[n]

Joined(n) == TargetVersionSet => ready > worker.status.baseline[n]

AwaitNode(n) ==
  /\ Visiting(n, "AwaitingReplacement")
  /\ \/ machine[n] = "Gone" /\ Joined(n) /\ Becomes(n, "Completed")
     \/ /\ ~(machine[n] = "Gone" /\ Joined(n))
        /\ Stays(n) \/ Becomes(n, "Blocked")            \* replacementTimedOut
  /\ UNCHANGED <<cordoned, busy, evicting, machine, ready, hist>>

StepNode == \E n \in Node :
  \/ StartNode(n) \/ CordonNode(n) \/ DrainNode(n) \/ CheckNode(n)
  \/ UncordonNode(n) \/ ReplaceNode(n) \/ AwaitNode(n) \/ NodeError(n)

-----------------------------------------------------------------------------
(***************************************************************************)
(* The rest of a pass: best-effort releases, then the write.               *)
(***************************************************************************)
ReleaseNode(n) ==
  /\ worker.pc = "release" /\ n \in worker.todo /\ \A m \in worker.todo : n <= m
  /\ worker' = [worker EXCEPT !.todo = @ \ {n},
                              !.pc = IF worker.todo = {n} THEN "write" ELSE @]
  /\ \/ /\ cordoned' = cordoned \ {n}
        /\ hist' = [hist EXCEPT !.ours = @ \ {n}, !.releaseFailed = @ \ {n}]
     \/ /\ UNCHANGED cordoned
        /\ hist' = [hist EXCEPT !.releaseFailed = @ \cup {n}]
  /\ UNCHANGED <<request, busy, evicting, machine, ready, late, bounds>>

\* Mutant of Accepted: a patch instead of an update, with no resourceVersion.
AnyVersion == TRUE

Accepted == worker.fresh

\* Mutant of Requeues: a paused request waits for an event.
RequeuesUnlessPaused(s) == s.phase \notin Terminal \cup {"Paused"}

\* Every pass that leaves the request live asks to be called again.
Requeues(s) == s.phase \notin Terminal

\* Terminal states are counted and audited after they are persisted.
Write ==
  /\ worker.pc = "write" /\ Accepted
  /\ status' = worker.status
  /\ synced' = FALSE
  /\ \/ /\ worker.status.phase \in Terminal
        /\ worker' = [Idle EXCEPT !.pc = "audit"] /\ UNCHANGED queued
     \/ /\ worker.status.phase \notin Terminal
        /\ worker' = Idle /\ queued' = (queued \/ Requeues(worker.status))
  /\ UNCHANGED <<spec, cache, cluster, late, bounds, hist>>

\* Mutant of Conflict: the outcome was audited before it was written.
ConflictAudited ==
  /\ worker.pc = "write" /\ ~Accepted
  /\ worker' = Idle /\ queued' = TRUE
  /\ hist' = [hist EXCEPT !.audits = IF worker.status.phase \in Terminal THEN @ + 1 ELSE @]
  /\ UNCHANGED <<spec, status, cache, synced, cluster, late, bounds>>

\* The copy is out of date: the error requeues the key.
Conflict ==
  /\ worker.pc = "write" /\ ~Accepted
  /\ worker' = Idle /\ queued' = TRUE
  /\ UNCHANGED <<spec, status, cache, synced, cluster, late, bounds, hist>>

AuditTerminal ==
  /\ worker.pc = "audit"
  /\ worker' = Idle
  /\ hist' = [hist EXCEPT !.audits = @ + 1]
  /\ UNCHANGED <<request, cluster, late, bounds>>

\* The manager dies and is replaced: the copy is lost, a fresh cache is listed,
\* and listing it enqueues every request.
Crash ==
  /\ crashes < MaxCrashes /\ crashes' = crashes + 1
  /\ worker' = Idle
  /\ cache' = [spec |-> spec, status |-> status]
  /\ synced' = TRUE /\ queued' = TRUE
  /\ UNCHANGED <<spec, status, cluster, late, edits, hist>>

\* The watch delivers the latest object. Only a change of generation, which is
\* a change of spec, enqueues the key.
Deliver ==
  /\ ~synced
  /\ cache' = [spec |-> spec, status |-> status]
  /\ synced' = TRUE
  /\ queued' = (queued \/ cache.spec # spec)
  /\ UNCHANGED <<spec, status, worker, cluster, late, bounds, hist>>

-----------------------------------------------------------------------------
(***************************************************************************)
(* The user: kubectl or the dashboard patches spec.                        *)
(***************************************************************************)
Edit(sp) ==
  /\ edits < MaxEdits /\ edits' = edits + 1
  /\ sp # spec /\ spec' = sp
  /\ synced' = FALSE
  /\ worker' = [worker EXCEPT !.fresh = FALSE]
  /\ hist' = [hist EXCEPT !.drainCleared = @ \/ Cleared(sp, "Drain"),
                          !.uncordonCleared = @ \/ Cleared(sp, "Uncordon")]
  /\ UNCHANGED <<status, cache, queued, cluster, late, crashes>>

TogglePause == Edit([spec EXCEPT !.pause = ~@])

ToggleCancel == /\ spec.cancel => TransientAborts
                /\ Edit([spec EXCEPT !.cancel = ~@])

ChangeMode == \E m \in Modes : Edit([spec EXCEPT !.mode = m])

ChangePolicy == \E p \in Policies : Edit([spec EXCEPT !.policy = p])

\* The list of decisions is patched whole: a decision on one gate may take the
\* other gate's away (see Dashboard).
Decide == \E g \in Gate, d \in {"Approved", "Rejected"} :
            /\ \E p \in Policies : RequiresGate(p, g)
            /\ \/ Edit([spec EXCEPT !.decided[g] = d])
               \/ Edit([spec EXCEPT !.decided = [h \in Gate |-> IF h = g THEN d ELSE "None"]])

User == TogglePause \/ ToggleCancel \/ ChangeMode \/ ChangePolicy \/ Decide

-----------------------------------------------------------------------------
(***************************************************************************)
(* The cluster and the clock.                                              *)
(***************************************************************************)
EnvironmentUnchanged == UNCHANGED <<request, worker, bounds, hist>>

PodsLeave(n) ==
  /\ n \in evicting
  /\ evicting' = evicting \ {n} /\ busy' = busy \ {n}
  /\ EnvironmentUnchanged /\ UNCHANGED <<cordoned, machine, ready, late>>

\* The scheduler fills a node that accepts pods.
Schedule(n) ==
  /\ n \notin cordoned /\ n \notin busy /\ machine[n] = "Running"
  /\ busy' = busy \cup {n}
  /\ EnvironmentUnchanged /\ UNCHANGED <<cordoned, evicting, machine, ready, late>>

\* A deleted Machine takes its node, and the node's pods, away; somebody else
\* may delete a node too.
NodeGoes(n) ==
  /\ machine[n] = "Deleting" \/ (Removals /\ machine[n] = "Running")
  /\ machine' = [machine EXCEPT ![n] = "Gone"]
  /\ busy' = busy \ {n} /\ evicting' = evicting \ {n} /\ cordoned' = cordoned \ {n}
  /\ hist' = [hist EXCEPT !.ours = @ \ {n}]
  /\ UNCHANGED <<request, worker, bounds, ready, late>>

\* The MachineSet brings up one node for each Machine deleted.
Join ==
  /\ ready < Cardinality({n \in Node : machine[n] # "Running"})
  /\ ready' = ready + 1
  /\ EnvironmentUnchanged
  /\ UNCHANGED <<cordoned, busy, evicting, machine, late>>

GlobalTimeout ==
  /\ status.started /\ ~late /\ late' = TRUE
  /\ EnvironmentUnchanged /\ UNCHANGED cluster

Environment ==
  \/ \E n \in Node : PodsLeave(n) \/ Schedule(n) \/ NodeGoes(n)
  \/ Join \/ GlobalTimeout

Pass == Reconcile \/ StepNode \/ (\E n \in Node : ReleaseNode(n))
        \/ Write \/ Conflict \/ AuditTerminal

Next == Pass \/ Poll \/ Deliver \/ Crash \/ User \/ Environment

Spec == Init /\ [][Next]_vars

\* The work queue keeps serving a queued key and a pass runs to its end; the
\* watch delivers; time passes. Users, pods and Machines owe nothing.
FairSpec == Spec /\ WF_vars(Pass) /\ WF_vars(Deliver) /\ WF_vars(GlobalTimeout)

=============================================================================
