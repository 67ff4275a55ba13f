# maintenance-orchestrator in TLA+

The maintenance-orchestrator is a Kubernetes operator. A `MaintenanceRequest`
names some nodes; the operator checks the request against a
`MaintenancePolicy`, plans batches, waits for approvals and for a maintenance
window, then cordons, drains and uncordons (or replaces) the nodes, and keeps
all its progress in the request's `status`. This directory holds the models of
it, the TLC runs that check them, and proofs that TLAPS checks.

    tlc -config Core.cfg MCReconciler       # a run: cfg and module are in PROJECT.json
    tlapm ReconcilerProofs.tla              # also Node-, Lifecycle-, Drain-, Fleet-, Dashboard-
                                            # and AdmissionProofs, and DataLemmas

All paths below are relative to the repository's root.

## 1. Inventory

| component | state it keeps | operations | what makes it correct |
|---|---|---|---|
| Reconcile loop (`internal/controller/maintenancerequest_controller.go`, `phases.go`) | `status` of the request, on the API server; an informer's copy; one private copy for each pass | a handler for each phase, `fail`, `cancel`, `complete`, `pause`, `updateStatus` | no gate passed undecided; terminal is final and audited once; a live request is always requeued; an abort hands nodes back |
| Node execution (`execute.go`) | `status.nodes`, the loop's in-flight count | `stepNode` for each node phase, `completeExecution`, `releaseCordonedNodes` | batches in order, no more nodes than slots, every cordon remembered, eviction only of cordoned nodes, one replacement for each node replaced |
| Transition table (`internal/statemachine`) | none | `CanTransition`, `IsActive` | the persisted phase moves along it |
| Approval (`internal/approval`) | `spec.approval.gates` | `DecisionFor`, `Evaluate` | the latest decision of a gate counts |
| Targets (`controller/targets.go`) | none | by name, by selector, by pool | - |
| Policy (`internal/policy`) | `MaintenancePolicy` objects | `Resolve`, `WithDefaults`, limits | the most restrictive limit wins; a named policy must exist |
| Preflight (`internal/preflight`) | `status.preflight` | `Run` and its checks, `truncate` | a failure always blocks; the peak it computes bounds what can be held at once |
| Planner (`internal/planner`) | `status.plan` | `BuildBatches`, `Score` | the batches share out the target |
| Windows (`internal/window`) | none | `parseCron`, `IsOpen`, `NextOpen`, `AnyOpen` | open exactly within a duration of a firing |
| Executor, kube (`internal/executor`, `internal/kube`) | the cluster's nodes, pods, Machines; informer copies of nodes and pods | cordon, evict, replace, list | no pod that blocks a drain is overlooked; the disruption budget is exceeded only by force; a blocked node says why |
| Several requests at once (`execute.go`: the cluster-wide budget; `nodes.go`) | every request's `status`, the nodes they share | `globalDrainsInFlightExcept`, `Cordon`, `Uncordon`, deletion | the cap holds as far as the copies are current; every cordon is accounted for; nobody starves |
| Dashboard (`internal/ui`) | its replica's cache | create, approve, reject, pause, resume, cancel | a click changes what it says and nothing else |
| Policy controller (`maintenancepolicy_controller.go`) | the policy's `Valid` condition | `Reconcile`, `validatePolicy` | what is reported valid does not fail a request later |
| Audit, metrics, config, `cmd/manager` | - | - | not modelled, or only where a terminal outcome is recorded (section 7) |

**How they interact.** The user (kubectl, or the dashboard, which runs on every
replica) patches `spec`. The watch brings the object into the informer's cache
and, when the *generation* changed, puts the request's key in the work queue. A
worker takes the key, reads the object *from the cache*, changes a private copy
and the cluster, and writes `status` back with the `resourceVersion` it has
read, so a stale copy is refused. Status writes enqueue nothing; a pass asks to
be requeued. Only the elected leader reconciles, and never one key twice at a
time.

**What is hard.** The cached read, with side effects on the cluster before the
write that may be refused; a restart at any point of that; spec patches between
the read and the write; a pass cut short by an error; decisions, pauses and
re-validations in any order; counts kept by hand along the loop; baselines and
targets that are older than their use; timers that race with progress; merge
patches of lists; arithmetic of limits, batches and calendars. `PROJECT.json`
lists each hazard with its line and the properties that cover it.

## 2. Modules

| module | models | used by |
|---|---|---|
| `Phases` | phases of requests and nodes, the transition table, which phases may be paused, are in flight, are released | all |
| `Approval` | gates, `EffectivePolicy`, `RequiresGate`, `DecisionFor`, `Evaluate` | `Reconciler`, `Dashboard` |
| `Drain` | the drain of one node, pod by pod: the informer's list, each call of a round, budgets, force, lingering pods | `MCDrain`, `DrainProofs` |
| `Fleet` | several requests in execution, on nodes they may share: workers, the cluster-wide cap, the cached node, deletion | `MCFleet`, `FleetProofs` |
| `Reconciler` | one request, its controller, the user, the watch, the cluster, the clock, restarts | `ReconcilerProperties`, `ReconcilerProofs` |
| `ReconcilerProperties` | what it promises; the abstract specification instantiated | `MCReconciler` |
| `Lifecycle` | abstract: phases along the table, terminal is final, no node begun before the drain gate has been open | refined by `Reconciler` |
| `Window`, `Planner`, `Guardrails` | pure: cron windows; batches; policy limits and preflight | `Admission` |
| `Admission` | a request from creation to the start of execution, with all of that computed | `MCAdmission`, `AdmissionProofs` |
| `Dashboard` | the buttons of several dashboards, their caches, merge patches | `MCDashboard`, `DashboardProofs` |
| `ReconcilerProofs` | theorems about `Reconciler`: types, the end of a request, the drain gate, how a status agrees with itself | `NodeProofs`, `LifecycleProofs` |
| `NodeProofs` | theorems about the nodes of `Reconciler`: counts, cordons, batches, the uncordon gate, deletions, replacements, evictions | - |
| `LifecycleProofs` | the refinement of `Lifecycle` | - |
| `DrainProofs`, `FleetProofs`, `DashboardProofs`, `AdmissionProofs` | theorems about the module each is named for | - |
| `DataLemmas` | numbers, sets, sequences: least members, division, joined lists | `AdmissionProofs` |
| `MC*` | small instances for TLC | runs |

### Reconciler

`spec` and `status` are the API server's object. `cache` is the informer's copy,
`synced` says whether it has caught up. `worker` is the pass in progress: `pc`
is where it stands (`step` in the loop over the batch, `release` in
`releaseCordonedNodes`, `write` before `Status().Update`, `audit` after a
terminal write), `status` its private copy, `fresh` whether that copy still
carries the server's resourceVersion (a write of anyone, or a read of a stale
cache, makes it false), `todo` the nodes still to visit, `slots` and `inFlight`
the loop's locals, `open` its `uncordonGated`. `cordoned`, `busy` (drain-blocking
pods), `evicting`, `machine` and `ready` are the cluster. `hist` is read by
properties only.

A handler (`Validating`, `Planned`, `Executing` ...) is one action up to its
first write or its first call on a node. From there each call on the cluster is
an action (`CordonNode`, `DrainNode`, `ReplaceNode`, `ReleaseNode` ...) and the
write is one (`Write`, or `Conflict`), because that is where the user, the
watch, the timers and `Crash` come in between. `Continue` and the outcomes
`Save`, `Fail`, `Cancel`, `Complete` carry the rest of a handler, so that no part
of one can be skipped. A pass that decides nothing is `Poll`.

Left open, as choices: whether preflight passes, what a target selects
(`Targets`), whether a window is open, how many drains other requests leave
(`Budgets`), whether a call fails, whether a drain or replacement has timed out.
`Admission` computes the first three, `Drain` opens up the step `DrainNode`, and
`Fleet` says where the number of other drains comes from.

### Drain

`pod` is what the API server holds of each pod, `cached` what the informer shows;
`age` and `grace` stand for `deletionTimestamp` and the grace period of a pod that
was told to leave. `node` is the phase and `blockReason` in the request's status,
`elapsed` the time since its `startTime`. `round` is `EvictOnce` in progress:
`BeginRound` lists the pods and sorts out those that already leave (`todo` is the
rest), `Remove`, `Denied` and `Failed` are the three outcomes of one call of
`removePod`, `EndRound` is `classify` with what the Draining step of `stepNode` does
about it, and `Abandon` a round whose result is lost. `Retry` is `reconcileBlocked`.
`Evict` and `Delete` are the API server, modelled from the calls the code makes. A
pod may exit, linger for ever, or be bound while the node is not yet cordoned.

### Fleet

`status`, `cache` and `pass` are those of `Reconciler`, one for each request;
`late` are the requests whose global timeout has elapsed; `nodeCache` is the
informer's view of `cordoned`. `Begin` is the head of a pass (`fail` on the timeout,
`reconcileBlocked`, or `reconcileExecuting` down to the loop, with the budget reckoned
from `cache`); each node step and each release is an action, and so is `Write`.
`Cordons` and `Uncordons` do nothing when the cached node already looks as wanted,
as `nodes.go:42-59` does. At most `Workers` passes run at once. `left` is read by the
properties only.

### Admission

`Report` is the whole of the policy controller, `EditPolicy` an edit that makes its
last report stale. `Validate` is `reconcileValidating`, `Revalidate` the second half of
`reconcileBlocked`, `Start` is `reconcilePlanned`, `Unresolved` is `fail` on a
policy or target that cannot be resolved. Nodes join, leave, and are cordoned by
others between passes; the clock ticks by seconds. The request is of mode
Execute under AutoApprove: modes and gates are in `Reconciler`. Names are
numbers, ordered as the strings would be. A target by name is a sequence and may
repeat a name; a selector or a pool gives a set. The calendar has 2-second minutes, 2-minute hours,
2-hour days, 3-day months, 2-month years and 2-day weeks, so that a year is 48
seconds and every field, range and step of a cron expression matters in it. The lengths
are constants, and the theorems hold for any; `NodeAssumption`, `RequestAssumption`,
`PolicyAssumption` and `TimeAssumption` say of the other constants that they are of their
types, that the nodes are finitely many, and that a clock starts a year in.
`SortedNames` is defined by ranks and `Truncate` by what it keeps: the code's sort and
filter loops are the library's `SortSeq` and `SelectSeq`, which the prover cannot open.

### Dashboard

`HandleAction` is the part of `mutate` up to the patch (the copy comes from the
replica's cache), `Patch` is its application by the API server: fields the copy
did not change are kept, a list is replaced whole.

## 3. Properties and runs

Passing runs:

| run | instance | shows |
|---|---|---|
| `Core` | 2 nodes, one batch, 2 edits, 1 restart | `OwnedCordonIsTracked`, `AbortReturnsNodes`, `CompletedMeansDone`, `EvictsOnlyCordoned`, `TerminalIsFinal`, `AuditedOnce`, `NoLostWakeup` |
| `Gates` | 1 node, two approval policies, 3 edits, policy errors and withdrawn cancels | `TypeOK`, `DrainGateRespected`, `UncordonGateRespected`, `GateMatchesProgress`, `BlockedIsRetryable`, `ImplementsLifecycle` |
| `Batches` | 4 nodes (three, then one), one exempt, all modes, any target, budgets 1 and 2 | `BatchesInOrder`, `StartsWithinSlots`, `InFlightAgrees` |
| `Replace` | 2 nodes in two batches, replacement to a version, 1 restart, nodes removed by others | `EachReplacementJoined`, `DeletesOnlyDrained`, `TimedOutEnds` |
| `Dashboard` | 2 dashboards, kubectl, 3 clicks, 2 seconds | `ControlsKept`, `NoDuplicateGates`, `ClickDecides` |
| `Admission` | 10 requests, 3 sets of policies, 5 nodes, one change, a year of time | `OpenWithinDuration`, `OpensWhenAnnounced`, `BeginsInsideWindows`, `PlannedIsVetted`, `PlannedWithinLimit`, `PlanSharesOutTarget`, `ReportedValidNeverErrs`, `TypeOK` |
| `Drain` | 2 pods (one under a budget) and a daemon, 1 fault, 1 change of force, policy or budget | `DrainedOverUnseenOnly`, `OverBudgetOnlyWhenForced`, `LeavingUnlessRefused`, `DrainEnds`, `DrainSucceeds`, `TypeOK` |
| `Fleet` | 2 requests with a node each, a cap of 1, 2 workers, 1 fault, 1 deletion or timeout | `CordonsAccountedFor`, `CapHeldWhenCurrent`, `EvictsCordonedUnlessShared`, `NeverStarved` |

Runs that refute what the repository says (`findings` in `PROJECT.json` has the
quotations):

- `StuckLate`: `terminatingTooLong` (`executor.go:235`) adds the grace period to
  `deletionTimestamp`, which the API server has already set to the time of the
  request plus the grace period. A pod that has outlived its grace period and the slack
  is not counted as stuck until it has outlived another grace period, and the node is
  blocked for `Timeout` instead.
- `ReplaceRestart`: the Machine is deleted, its object goes, and the write that
  says so is lost; the next pass finds no Machine and fails the node.
- `ControlPlaneLate`: the target is resolved again when execution starts and is not
  checked again; a control-plane node that has joined a selector's nodes is
  drained under a policy that protects it.
- `LostDecision`: two dashboards decide two gates from equally old copies; the
  later merge patch removes the earlier decision.

Seen on the way, and not given a run:

- `fail` and `cancel` uncordon first and persist afterwards. If the write is refused
  and the reason has gone when the pass is repeated (a cancel withdrawn, a policy
  back again), the node is still Draining in the status, and is evicted from while
  schedulable. `TransientAborts` says whether an abort can be taken back, and
  `EvictsOnlyCordoned` is stated for where it cannot: `Core`, with it FALSE, checks the
  property, and `Gates`, with it TRUE, the gates.
- Two nodes of one batch take the same baseline of Ready nodes, and one replacement
  completes both. With one node to a batch (`OwnBatches`, as in `Replace` and in the default
  strategy, Serial) each replacement counts once, and `EachReplacementJoined` is stated for that.
- A node that blocks gives up its slot but not its cordon, so the peak that preflight
  compares with the limit can be exceeded. A retry sends every Blocked node back to
  Draining at once, whatever `maxConcurrent` or the cluster-wide cap say
  (`phases.go:238`).
- The cluster-wide cap is described as strict when `reconcileConcurrency` is 1
  (`maintenancepolicy_types.go:24-25`, `execute.go:85-86`). It is not: a pass reckons from
  the informer's copies of the other requests, which may be behind however few
  workers there are, and retries ignore it. `CapHeldWhenCurrent` says when it does hold.
- Of two requests that share a node, one uncordons it (or completes it) while the
  other drains it: `EvictsCordonedUnlessShared` is about nodes that only one plans.
- `Cordon` and `Uncordon` do nothing when the cached node seems as wanted
  (`nodes.go:42-59`): a node cordoned and released faster than the watch stays
  cordoned. Deleting a request in flight strands its cordons, for it has no finalizer.
  `CordonsAccountedFor` lists these ways and says that there is no other.
- The drain timeout is not looked at in a round whose list of pods fails.
- A cancel or a failure at the uncordon gate uncordons without asking the gate.
- The persisted phase goes from Pending to where Validating leads, which the table
  does not list, and nothing calls the table's `Validate`.
- The global timeout is not looked at while a request is paused or awaits a decision.
- A DryRun whose preflight fails becomes Blocked and is validated for ever; a request
  switched from Execute or Advisory to DryRun once it is planned is executed.
- A name repeated in `nodeNames` counts twice in the total of the percentage limit and
  twice in the plan; `NextOpen` has no caller in the controller, which polls.

### Bounds, and why they are enough

- Nodes: order between batches needs two batches, order in the loop and a counter
  carried along it need two or three nodes to a batch; `Batches` has both. The
  hazards of aborts need one node that is drained and one that is not (`Core`).
  Gates concern the request, so `Gates` has one node and more edits.
- Edits: the longest story of a gate is approve, pause, reject (or withdraw); three
  edits cover it. Two edits cover pause and resume, or pause and cancel, in `Core`.
- Restarts: a restart forgets the private copy and nothing else, so a second one
  starts from the same kinds of states as the first.
- Policies and their limits: `Sets` has none at all, a default one with a
  percentage, windows and reserved nodes, and a named one with an absolute limit, headroom
  and an invalid window.
- Drain: one pod under the budget and one beside it give every combination that
  `classify` tells apart, with the daemon as a pod that must not count; one fault is a
  failed call, a lost answer, a lost round or a lost write at any point of it, and
  one change switches force on or off, or moves the budget, in the middle of a round.
  The periods are the shortest that keep their order (`StuckLate` has a grace period of
  its own). Its theorems hold for all of them.
- Fleet: two requests are enough for one to count against the other, and two workers
  for their passes to interleave. A node that both plan was checked in a larger
  instance, `Plan <- OneShared`, with one worker, a fault and an end (3.8 million states) and
  with two workers, an end and no fault (6.5 million); the theorems hold for any sharing.
- Time: `Admission` starts in the second year, as a window looks back into the one
  before, and runs through a year and into the next.
- No symmetry is used: nodes are ordered in the code, by name.

### Fairness

Safety needs none. `TimedOutEnds` is checked under `FairSpec`: weak fairness of
a pass (controller-runtime serves a queued key and a handler runs to its end),
of the watch's delivery, and of the timer. Users, pods, Machines and the success
of calls are owed nothing: a call may fail for ever, and the property holds
because the timeout is the first thing `reconcileExecuting` looks at. It allows
that a user's pause, or a gate waiting for a decision, holds the request.

`DrainEnds` and `DrainSucceeds` need that the manager keeps reconciling (weak fairness
of the steps of a round and of the retry of a blocked node: a pass that leaves the
request live requeues itself) and that time passes. Pods, budget, informer
and users owe nothing; that the cluster relents is the premise of `DrainSucceeds`.

`NeverStarved` needs that a pass once begun goes on, that the informer catches up, and
strong fairness of `Begin`: the work queue is first in, first out, so a request gets
a worker in its turn although others may be busy whenever one looks.

## 4. What is proved

For every value of the constants, from the named assumptions of the modules alone
(types of the constants; finitely many nodes and requests; at least one slot, one
failure and a cap that is not zero).

About one request (`Reconciler`):

- `TypeCorrect`: `Spec => []TypeOK`. One lemma for each kind of step: the
  handlers (`ReconcileTyped`), the node steps (`StepNodeTyped`), the
  environment, the rest; below them, that the outcomes `Save`, `Finish`,
  `Continue` keep a well typed copy well typed. `CountIsNat` is where finiteness of
  the nodes is needed.
- `DrainGateHolds`: no node is begun before the drain gate was open. The property is
  not inductive: a stale cache or an old private copy may be about to write.
  `GateInv` says of all three copies (server, cache, worker) that, as long as the gate
  has never been open, they are `BeforeGate`: no node listed, and in a phase from which
  no handler plans without asking the gate. `Paused` is the delicate case: the
  copy must keep what `resumePhase` needs to go back before the gate.
- `WakeupNeverLost`, `AuditNeverTwice`, `TerminalNeverOverwritten`: all from
  `EndInv`: the cache shows no end that has not been reached, a copy that can
  still be written was not read from an ended request, and an audit in progress is
  the first. The last theorem is the action property `TerminalIsFinal`.
- `GateAgrees`, `BlockedCanRetry`: `ProgressInv` says that the fields of a status agree
  (`Coherent`), of every copy, since any of them may be the one a pass resumes from.
- `CounterAgrees`: `CountNext` follows the hand-kept counter through each kind of
  step; `MoveCount` is the cardinality argument for one node.
- `CordonsTracked`, `AbortHandsBack`, `CompletionIsEarned`: from `CordonInv`. The
  difficulty is that a pass on a stale copy has side effects although its write will
  be refused: it may cordon a node. The invariant says how stale a copy can be: the
  informer's is one write behind at most (`CacheLags`), so a node that it shows as
  Cordoning is Cordoning or Draining in truth, and an abort finds it (`LoopLags`,
  `CordonsAreKnown`). `WriteKeepsCordons` is about the copy that can still be written:
  it names every cordon, or has released it.
- `BatchesHold`, `SlotsHold`: from `StartInv`, about the nodes that a fresh copy begins
  and that the server's status does not know of yet. That the current batch is empty
  only when nothing is left to do rests on the well-foundedness of the
  batches' numbers (`SomeBatch`), as there may be any number of them.
- `UncordonGateHolds`: from `UncordonInv`, which also covers what the pass remembers of
  the gate it read (`worker.open`) when a decision is withdrawn under it.
- `DeletionsAreDrained`: from `EmptyInv`. While nodes are replaced none is uncordoned, so
  a node once cordoned, or whose Machine is gone, stays closed to new pods; what any
  copy, however old, shows past its drain is therefore empty still.
- `ReplacementsJoined`: from `JoinInv`, about every copy. No more nodes are replaced than
  have joined, and a node that waits has a baseline at least as high as the number
  replaced so far: with a batch to each node only one waits at a time (it is in the
  current batch), so the Ready node that takes the count past the baseline is a new one.
- `EvictionsAreCordoned`: from `EvictInv`. A node that a copy shows as drained or being
  drained is cordoned, or gone, or the request is `Abandoned`: every later pass ends it.
  Two things take a cordon away. An abort, whose write may be refused; as
  it is not taken back, no pass that follows comes to the loop. And `Uncordon`, which runs
  one write after the copy showed the node as due for it (`HandedBackInOrder`), so
  that no copy which a pass may yet read would drain it again. This rests on what such a copy
  can mean: an execution is dated, so the timeout stays elapsed, and only a replacement
  can fail, so on the path that hands back no failure count ends the loop in between.
- `ReconcilerImplementsLifecycle`: `Spec => ImplementsLifecycle`, the refinement of
  `Lifecycle`. `LifeInv` says of a copy that can be written that its phase is one step
  of the table from the server's, and that if it begins the first node the request
  stays Executing (`FirstBegins`): one write is then one abstract step. The
  gate's part is `GateInv`.

About the drain of a node (`Drain`), for any pods, periods and budgets:
`DrainTypeCorrect`; `DrainedOnlyOverUnseen`, `BlockedOnLeavingPods` and
`BudgetKeptUnlessForced` from `DrainInv`. Its parts: a round knows of the pods only what its
list showed (`KnowsInv`), the informer shows a pod as it is or was (`CacheInv`), and pods
only ever go forth, from running to leaving to gone, so what a list has shown
of a pod bounds what it can be. `DrainTypes` is the type invariant by itself.

About several requests (`Fleet`), for any requests, plans, sharing and number of workers:
`FleetTypeCorrect`; `CapHeldAlone` from `AloneInv`: a pass on current copies that no other
has followed counts its own nodes rightly, and its slots leave room for what the others
hold, which meanwhile can only shrink; `CordonsAreAccountedFor` and `OwnNodesEvictedCordoned`, from an
invariant that carries the one-write lag of `NodeProofs` over to many passes and to
deletion: a pass can only write a copy that is current, so the cordon it leaves is
either in the status it writes or in one that another pass is led to.

About the dashboard (`Dashboard`), for any replicas, clicks and times: `DashboardCorrect`, the
invariant `DashboardInv`. Lists of gates, on the server, in every cache and in every patch, name
a gate once or as often as at the start (`Tame`) and are dated no later than now (`Dated`); a
patch under way changes only what its click says, and its list decides what its click
decided (`Honest`). From it follow `GatesStayUnique`, `ControlsAreKept` and `ClicksDecide`.

About admission (`Admission`), for any nodes, requests, policies and calendar:
`AdmissionCorrect` and `AdmissionTypeCorrect`. The state machine is simple here; what
is proved is what its computations return.

- `PlansShareOut`: that sorting by rank keeps each name as often as it occurs
  (`SortedInOrders`), that batches of a size cut a list without gap or overlap, by division with
  remainder, and that groups split it by key.
- `OpenForItsDuration`, `OpensAsAnnounced`, `BeginsInside`, `ReportKept`: `LookBack` is the
  argument that whole minutes back from now, one more than the duration has, reach every
  opening that has not run out and none that has; `NextOpen` reads the same minutes ahead.
- `PlannedVetted`: each check's failure is a result, joining keeps it and so does the
  truncation; hence a list without a failure vouches for every node.
- `PlannedLimited`: the peak that the checks compute bounds every choice of nodes
  that the plan lets be held at once, and a peak within `MaxUnavailable` is within both
  caps, the percentage being rounded down, or is 1.

Joining lists of any number and least members of sets need an induction. Where one is
needed, it is made over a set: a set of numbers with 0 and with the successor of each
of its members has them all (`Induction` in `DataLemmas`), which needs no operator
as a parameter.

Every invariant and every action property of a passing run is the statement of a theorem.
Each is also checked by its run, and a mutant of the code shown to break it.

**Only model-checked:** the liveness properties `TimedOutEnds`, `DrainEnds`, `DrainSucceeds`
and `NeverStarved`, as liveness under fairness and ENABLED are beyond the prover; and
what the four violation runs find, which concerns single behaviours.

## 5. Abstractions and assumptions

- `Reconciler` has one request; others appear as `Budgets`, the slots they leave.
  `Fleet` has several, in the part of their life where they meet: each
  executing its only batch, handing its nodes back, without gates.
- `Deliver` brings the latest object and enqueues it in one step; intermediate
  versions are skipped, as a watch that lags may. A restart lists the current object. No two
  leaders overlap.
- In `Reconciler` and `Fleet` a drain is one round with any outcome: pods asked or not,
  timed out or not. `Drain` is that round, pod by pod, for one node.
- The cached Node object is apart from the node in `Fleet` only; elsewhere `Cordon` and
  `Uncordon` do what they say.
- The API server's side of an eviction (`Evict`, `Delete`: budget, grace period,
  finalizers) is external, modelled from the calls and errors the code handles.
- The decisions are those `DecisionFor` reads; the list behind them is in
  `Dashboard`, where a single clock times them.
- Months have one length, and there are no time zones or leap days.
- Wording, conditions, events, metrics, and the risk score are left out.

## 6. Plan

Done: `Phases`, `Approval`, `Reconciler`, its properties, `Lifecycle`; `Dashboard`;
`Window`, `Planner`, `Guardrails`, `Admission` with the policy controller; `Drain`;
`Fleet`; the theorems of section 4.

Left, in this order:

1. An executing request of `Fleet` as a refinement of `Reconciler`, which needs `Reconciler`
   with a cached node; or of an abstract one, of the nodes and their cordons alone.
2. That a node drained in `Drain` is what `DrainNode` of `Reconciler` takes for granted: `Drain` as a
   refinement of one node's part of it.
3. `WithDefaults` and `Resolve`: that an edit of a policy only ever tightens what a
   request was let through with, or where it does not.

## 7. Not modelled

Audit format and export, metrics, configuration, start-up, rendering and the form of the
dashboard, the same-origin check, capacity arithmetic over pod requests (its result
is an arbitrary percentage), the resolution of workloads and of Machine APIs.
