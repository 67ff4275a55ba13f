--------------------------- MODULE ReconcilerProofs ---------------------------
(***************************************************************************)
(* Theorems about Reconciler, for every number of nodes, plan, policy and  *)
(* bound: TLC checks the same properties on the instances of MCReconciler. *)
(* Here those about the request as a whole: its type, its end, the drain   *)
(* gate, and how its phase, its gate and its nodes agree.                  *)
(***************************************************************************)
EXTENDS ReconcilerProperties, FiniteSetTheorems, TLAPS

-----------------------------------------------------------------------------
(***************************************************************************)
(* Type correctness.                                                       *)
(***************************************************************************)
\* The counts that the loop keeps are numbers: there are finitely many nodes.
LEMMA CountIsNat == \A s : CountInFlight(s) \in Nat
<1> TAKE s
<1>1. IsFiniteSet(Node)
  BY SizeAssumption, FS_Interval DEF Node
<1>2. InPhase(s, InFlightPhases) \subseteq Node
  BY DEF InPhase
<1>3. QED
  BY <1>1, <1>2, FS_Subset, FS_CardinalityType DEF CountInFlight

\* The status of a new request, and a worker with nothing to do, are well typed.
LEMMA EmptyTyped == EmptyStatus \in StatusRecord /\ Idle \in WorkerRecord
<1>1. EmptyStatus \in StatusRecord
  BY DEF EmptyStatus, StatusRecord, NoNodes, Phase
<1>2. QED
  BY <1>1 DEF Idle, WorkerRecord

\* What a handler hands to the write, or to the release, is well typed when the
\* copy it built is.
LEMMA HoldingTyped ==
  ASSUME TypeOK, NEW pc \in {"idle", "step", "release", "write", "audit"},
         NEW s \in StatusRecord
  PROVE  Holding(pc, s) \in WorkerRecord
BY EmptyTyped DEF Holding, TypeOK, WorkerRecord

\* A handler that hands its copy to updateStatus leaves a well typed worker.
LEMMA SaveTyped ==
  ASSUME TypeOK, NEW s \in StatusRecord, Save(s)
  PROVE  worker' \in WorkerRecord
BY HoldingTyped DEF Save

\* So does one that begins the release of nodes or a terminal write.
LEMMA FinishTyped ==
  ASSUME TypeOK, NEW s \in StatusRecord, NEW phase \in Phase,
         NEW todo \in SUBSET Node, Finish(s, phase, todo)
  PROVE  worker' \in WorkerRecord
<1> DEFINE t == [s EXCEPT !.phase = phase]
           pc == IF todo = {} THEN "write" ELSE "release"
<1>1. t \in StatusRecord
  BY DEF StatusRecord
<1>2. Holding(pc, t) \in WorkerRecord
  BY <1>1, HoldingTyped
<1> HIDE DEF t, pc
<1>3. [Holding(pc, t) EXCEPT !.todo = todo] \in WorkerRecord
  BY <1>2 DEF WorkerRecord
<1>4. QED
  BY <1>3 DEF Finish, t, pc

\* fail, cancel and complete build a well typed copy.
LEMMA EndTyped ==
  ASSUME TypeOK, NEW s \in StatusRecord,
         Fail(s) \/ Complete(s) \/ CompleteExecution(s) \/ (\E r \in BOOLEAN : Cancel(s, r))
  PROVE  worker' \in WorkerRecord
<1>1. NodesToRelease(s) \in SUBSET Node /\ {} \in SUBSET Node
  BY DEF NodesToRelease, InPhase
<1>2. {"Failed", "Completed", "Cancelled", "Blocked"} \subseteq Phase
  BY DEF Phase, Terminal
<1>3. CASE Fail(s)
  BY <1>1, <1>2, <1>3, FinishTyped DEF Fail
<1>4. CASE Complete(s)
  BY <1>1, <1>2, <1>4, FinishTyped DEF Complete
<1>5. CASE \E r \in BOOLEAN : Cancel(s, r)
  BY <1>1, <1>2, <1>5, FinishTyped DEF Cancel
<1>6. CASE Save([s EXCEPT !.phase = "Blocked"])
  <2>1. [s EXCEPT !.phase = "Blocked"] \in StatusRecord
    BY <1>2 DEF StatusRecord
  <2>2. QED
    BY <1>6, <2>1, SaveTyped
<1>7. QED
  BY <1>3, <1>4, <1>5, <1>6 DEF CompleteExecution

\* Whether the loop goes on or ends, the copy it carries stays well typed.
LEMMA ContinueTyped ==
  ASSUME TypeOK, NEW n \in Node, NEW s \in StatusRecord, NEW k \in Int, Continue(n, s, k)
  PROVE  worker' \in WorkerRecord
<1>1. CASE worker.todo # {n} /\
           worker' = [worker EXCEPT !.status = s, !.inFlight = k, !.todo = @ \ {n}]
  BY <1>1 DEF TypeOK, WorkerRecord
<1>2. CASE CompleteExecution(s)
  BY <1>2, EndTyped
<1>3. CASE Save(s)
  BY <1>3, SaveTyped
<1>4. QED
  BY <1>1, <1>2, <1>3 DEF Continue

\* A pass that only reads the request changes the worker, the queue and history.
LEMMA ReadingTyped ==
  ASSUME TypeOK, NEW phases, Reading(phases), worker' \in WorkerRecord, hist' \in HistRecord
  PROVE  TypeOK'
BY DEF Reading, TypeOK, cluster, bounds

\* What a pass reads from the cache is a status and a spec.
LEMMA SeenTyped == TypeOK => seen \in StatusRecord /\ cache.spec \in SpecRecord
BY DEF TypeOK, seen

\* The phases that the handlers compute are phases of a request.
LEMMA PhasesTyped ==
  /\ Terminal \cup Live \cup Pausable \cup {"New", InitialPhase} \subseteq Phase
  /\ \A gate : NextPhaseAfterGate(gate) \in Phase
  /\ \A s : ResumePhase(s) \in Phase
BY DEF Terminal, Live, Pausable, InitialPhase, Phase, NextPhaseAfterGate, ResumePhase

\* Changing one field of a well typed status leaves it well typed.
LEMMA StatusTyped ==
  ASSUME NEW s \in StatusRecord
  PROVE  /\ \A p \in Phase : [s EXCEPT !.phase = p] \in StatusRecord
         /\ [s EXCEPT !.plan = TRUE] \in StatusRecord
         /\ \A p \in Phase, g \in Gate \cup {""} :
              [s EXCEPT !.gate = g, !.phase = p] \in StatusRecord
BY DEF StatusRecord

\* So does changing the phase of one node.
LEMMA NodeTyped ==
  ASSUME NEW s \in StatusRecord
  PROVE  /\ \A n \in Node, p \in NodePhase : [s EXCEPT !.node[n] = p] \in StatusRecord
         /\ \A f \in [Node -> NodePhase \cup {Unlisted}] : [s EXCEPT !.node = f] \in StatusRecord
BY DEF StatusRecord

\* Every handler that Reconcile may call keeps the types.
LEMMA ReconcileTyped ==
  ASSUME TypeOK, Reconcile
  PROVE  TypeOK'
<1>0. seen \in StatusRecord /\ hist \in HistRecord /\ worker \in WorkerRecord
  BY SeenTyped DEF TypeOK
<1>1. CASE Accept
  BY <1>0, <1>1, PhasesTyped, StatusTyped, SaveTyped, ReadingTyped DEF Accept
<1>2. CASE ObserveTerminal
  BY <1>0, <1>2, ReadingTyped DEF ObserveTerminal
<1>3. CASE UserCancel
  BY <1>0, <1>3, EndTyped, ReadingTyped DEF UserCancel
<1>4. CASE Pause
  BY <1>0, <1>4, PhasesTyped, StatusTyped, SaveTyped, ReadingTyped DEF Pause, Phase
<1>5. CASE PolicyUnresolved
  BY <1>0, <1>5, EndTyped, ReadingTyped DEF PolicyUnresolved, Dispatched
<1>6. CASE Validating
  <2>1. Validated \in StatusRecord
    BY <1>0, StatusTyped DEF Validated
  <2>2. hist' \in HistRecord
    BY <1>0, <1>6 DEF Validating, HistRecord, TypeOK
  <2>3. {"Blocked", "Planned", "AwaitingApproval"} \subseteq Phase /\ "Drain" \in Gate
    BY DEF Phase, Gate
  <2>4. worker' \in WorkerRecord
    <3>1. CASE Fail(seen) \/ Complete(seen) \/ Complete(Validated) \/ Cancel(Validated, FALSE)
      BY <1>0, <2>1, <3>1, EndTyped
    <3>2. CASE Save([seen EXCEPT !.phase = "Blocked"])
      BY <1>0, <2>3, <3>2, StatusTyped, SaveTyped
    <3>3. CASE Save([Validated EXCEPT !.gate = "Drain", !.phase = "AwaitingApproval"])
      BY <2>1, <2>3, <3>3, StatusTyped, SaveTyped
    <3>4. CASE Save([Validated EXCEPT !.phase = "Planned"])
      BY <2>1, <2>3, <3>4, StatusTyped, SaveTyped
    <3>5. QED
      BY <1>6, <3>1, <3>2, <3>3, <3>4 DEF Validating
  <2>5. QED
    BY <1>6, <2>2, <2>4, ReadingTyped DEF Validating, Dispatched
<1>7. CASE AwaitingApproval
  <2>1. \A gate : PassGate(seen, gate) \in StatusRecord
    BY <1>0, PhasesTyped, StatusTyped DEF PassGate
  <2>2. worker' \in WorkerRecord
    BY <1>0, <1>7, <2>1, SaveTyped, EndTyped DEF AwaitingApproval
  <2>3. QED
    BY <1>0, <1>7, <2>2, ReadingTyped DEF AwaitingApproval, Dispatched
<1>8. CASE Planned
  <2> DEFINE planned == [seen EXCEPT !.plan = TRUE]
             started(target) == [planned EXCEPT !.phase = "Executing", !.started = TRUE,
                          !.node = IF @ = NoNodes THEN InitNodeStatuses(target) ELSE @]
  <2>1. planned \in StatusRecord
    BY <1>0, StatusTyped
  <2>2. \A target : InitNodeStatuses(target) \in [Node -> NodePhase \cup {Unlisted}]
    BY DEF InitNodeStatuses, NodePhase
  <2>3. \A target : started(target) \in StatusRecord
    <3> HIDE DEF planned
    <3>1. QED
      BY <2>1, <2>2 DEF StatusRecord, Phase
  <2>4. worker' \in WorkerRecord
    <3> HIDE DEF planned, started
    <3>1. \/ Fail(seen) \/ Save(planned) \/ Complete(planned) \/ Fail(planned)
          \/ \E target : Save(started(target))
      BY <1>8 DEF Planned, planned, started
    <3>2. QED
      BY <1>0, <2>1, <2>3, <3>1, SaveTyped, EndTyped
  <2>5. QED
    BY <1>0, <1>8, <2>4, ReadingTyped DEF Planned, Dispatched
<1>9. CASE Resume
  BY <1>0, <1>9, PhasesTyped, StatusTyped, SaveTyped, ReadingTyped DEF Resume, Dispatched
<1>10. CASE RetryBlocked
  <2>1. Retry(seen) \in StatusRecord
    BY <1>0 DEF Retry, StatusRecord, Phase, NodePhase, InFlightPhases
  <2>2. worker' \in WorkerRecord
    BY <1>0, <1>10, <2>1, StatusTyped, SaveTyped, EndTyped DEF RetryBlocked, Phase
  <2>3. QED
    BY <1>0, <1>10, <2>2, ReadingTyped DEF RetryBlocked, Dispatched
<1>11. CASE Executing
  <2> DEFINE gated == [seen EXCEPT !.gate = "Uncordon", !.phase = "AwaitingApproval"]
  <2>1. gated \in StatusRecord
    BY <1>0, StatusTyped DEF Gate, Phase
  <2>2. ASSUME NEW windowOpen \in BOOLEAN, NEW budget \in Budgets,
               worker' = [Holding("step", seen) EXCEPT
                          !.todo = CurrentBatch(seen), !.inFlight = CountInFlight(seen),
                          !.slots = IF ~windowOpen THEN 0
                                    ELSE IF budget < MaxConcurrent THEN budget
                                    ELSE MaxConcurrent,
                          !.open = UncordonOpen(cache.spec)]
        PROVE  worker' \in WorkerRecord
    <3>1. Holding("step", seen) \in WorkerRecord
      BY <1>0, HoldingTyped
    <3>2. CurrentBatch(seen) \subseteq Node /\ CountInFlight(seen) \in Int
      BY CountIsNat DEF CurrentBatch, Unfinished
    <3>3. UncordonOpen(cache.spec) \in BOOLEAN
      BY SpecAssumption DEF UncordonOpen
    <3>4. (IF ~windowOpen THEN 0 ELSE IF budget < MaxConcurrent THEN budget
           ELSE MaxConcurrent) \in Int
      BY LimitAssumption
    <3>5. QED
      BY <2>2, <3>1, <3>2, <3>3, <3>4 DEF WorkerRecord
  <2>3. worker' \in WorkerRecord
    <3> HIDE DEF gated
    <3>1. CASE Fail(seen) \/ CompleteExecution(seen)
      BY <1>0, <3>1, EndTyped
    <3>2. CASE Save(gated)
      BY <2>1, <3>2, SaveTyped
    <3>3. QED
      BY <1>11, <2>2, <3>1, <3>2 DEF Executing, gated
  <2>4. QED
    BY <1>0, <1>11, <2>3, ReadingTyped DEF Executing, Dispatched
<1>12. QED
  BY <1>1, <1>2, <1>3, <1>4, <1>5, <1>6, <1>7, <1>8, <1>9, <1>10, <1>11 DEF Reconcile

\* A node step changes the worker, the cluster and the owned cordons.
LEMMA VisitingTyped ==
  ASSUME TypeOK, NEW n \in Node, NEW phase, Visiting(n, phase), worker' \in WorkerRecord,
         cordoned' \subseteq Node, busy' = busy, evicting' \subseteq Node,
         machine' \in [Node -> {"Running", "Deleting", "Gone"}], ready' = ready,
         hist' = hist \/ (\E o \in SUBSET Node : hist' = [hist EXCEPT !.ours = o])
  PROVE  TypeOK'
<1>1. hist' \in HistRecord
  BY DEF TypeOK, HistRecord
<1>2. QED
  BY <1>1 DEF Visiting, TypeOK, request, bounds

\* A node that reaches its last phase (setNodeTerminal) keeps them.
LEMMA BecomesTyped ==
  ASSUME TypeOK, NEW n \in Node,
         Stays(n) \/ (\E p \in NodePhase : Becomes(n, p)) \/ Save(worker.status)
  PROVE  worker' \in WorkerRecord
<1>1. worker.status \in StatusRecord /\ worker.inFlight \in Int
  BY DEF TypeOK, WorkerRecord
<1>2. CASE Stays(n)
  BY <1>1, <1>2, ContinueTyped DEF Stays
<1>3. ASSUME NEW p \in NodePhase, Becomes(n, p)
      PROVE  worker' \in WorkerRecord
  <2>1. [worker.status EXCEPT !.node[n] = p] \in StatusRecord
    BY <1>1, NodeTyped
  <2>2. worker.inFlight + (IF p \in InFlightPhases THEN 1 ELSE 0)
          - (IF worker.status.node[n] \in InFlightPhases THEN 1 ELSE 0) \in Int
    BY <1>1
  <2>3. QED
    BY <1>3, <2>1, <2>2, ContinueTyped DEF Becomes
<1>4. CASE Save(worker.status)
  BY <1>1, <1>4, SaveTyped
<1>5. QED
  BY <1>2, <1>3, <1>4

\* So does each step of stepNode, one case for every node phase.
LEMMA StepNodeTyped ==
  ASSUME TypeOK, StepNode
  PROVE  TypeOK'
<1> PICK n \in Node : \/ StartNode(n) \/ CordonNode(n) \/ DrainNode(n) \/ CheckNode(n)
                      \/ UncordonNode(n) \/ ReplaceNode(n) \/ AwaitNode(n) \/ NodeError(n)
  BY DEF StepNode
<1>0. /\ cordoned \subseteq Node /\ evicting \subseteq Node /\ hist \in HistRecord
      /\ machine \in [Node -> {"Running", "Deleting", "Gone"}]
      /\ worker.status \in StatusRecord /\ worker.inFlight \in Int
  BY DEF TypeOK, WorkerRecord
<1>p. {"Cordoning", "Draining", "PostCheck", "Uncordoning", "Replacing",
       "AwaitingReplacement", "Completed", "Blocked", "Failed", "Skipped"} \subseteq NodePhase
  BY DEF NodePhase, InFlightPhases, NodeTerminal
<1>o. hist.ours \cup {n} \subseteq Node /\ hist.ours \ {n} \subseteq Node
  BY <1>0 DEF HistRecord
<1>1. CASE StartNode(n)
  BY <1>0, <1>p, <1>1, BecomesTyped, VisitingTyped DEF StartNode
<1>2. CASE CordonNode(n)
  BY <1>0, <1>p, <1>o, <1>2, BecomesTyped, VisitingTyped DEF CordonNode
<1>3. CASE DrainNode(n)
  BY <1>0, <1>p, <1>3, BecomesTyped, VisitingTyped DEF DrainNode
<1>4. CASE CheckNode(n)
  BY <1>0, <1>p, <1>4, BecomesTyped, VisitingTyped DEF CheckNode
<1>5. CASE UncordonNode(n)
  BY <1>0, <1>p, <1>o, <1>5, BecomesTyped, VisitingTyped DEF UncordonNode
<1>6. CASE ReplaceNode(n)
  <2> DEFINE based == WithBaseline(n, worker.status)
  <2>1. based \in StatusRecord
    BY <1>0 DEF WithBaseline, StatusRecord, TypeOK
  <2>2. /\ [based EXCEPT !.node[n] = "AwaitingReplacement"] \in StatusRecord
        /\ [based EXCEPT !.node[n] = "Failed"] \in StatusRecord
    BY <1>p, <2>1, NodeTyped
  <2>3. worker' \in WorkerRecord
    <3> HIDE DEF based
    <3>1. \/ Continue(n, [based EXCEPT !.node[n] = "AwaitingReplacement"], worker.inFlight)
          \/ Continue(n, [based EXCEPT !.node[n] = "Failed"], worker.inFlight - 1)
          \/ Save(based)
      BY <1>6 DEF ReplaceNode, based
    <3>2. worker.inFlight - 1 \in Int
      BY <1>0
    <3>3. QED
      BY <1>0, <2>1, <2>2, <3>1, <3>2, SaveTyped, ContinueTyped
  <2>4. machine' \in [Node -> {"Running", "Deleting", "Gone"}]
    BY <1>0, <1>6 DEF ReplaceNode
  <2>5. QED
    BY <1>0, <1>6, <2>3, <2>4, VisitingTyped DEF ReplaceNode
<1>7. CASE AwaitNode(n)
  BY <1>0, <1>p, <1>7, BecomesTyped, VisitingTyped DEF AwaitNode
<1>8. CASE NodeError(n)
  BY <1>0, <1>8, BecomesTyped, VisitingTyped DEF NodeError
<1>9. QED
  BY <1>1, <1>2, <1>3, <1>4, <1>5, <1>6, <1>7, <1>8

\* A user's patch, of whichever field, leaves a well typed spec.
LEMMA EditTyped ==
  ASSUME TypeOK, User
  PROVE  TypeOK'
<1>1. ASSUME NEW sp \in SpecRecord, Edit(sp)
      PROVE  TypeOK'
  <2>1. worker' \in WorkerRecord
    BY <1>1 DEF Edit, TypeOK, WorkerRecord
  <2>2. hist' \in HistRecord
    <3>1. hist \in HistRecord /\ \A gate : Cleared(sp, gate) \in BOOLEAN
      BY DEF TypeOK, Cleared
    <3>2. QED
      BY <1>1, <3>1 DEF Edit, HistRecord
  <2>3. edits' \in Nat
    BY <1>1 DEF Edit, TypeOK
  <2>4. QED
    BY <1>1, <2>1, <2>2, <2>3 DEF Edit, TypeOK, cluster
<1>2. \/ Edit([spec EXCEPT !.pause = ~@]) \/ Edit([spec EXCEPT !.cancel = ~@])
      \/ \E m \in Modes : Edit([spec EXCEPT !.mode = m])
      \/ \E p \in Policies : Edit([spec EXCEPT !.policy = p])
      \/ \E g \in Gate, d \in {"Approved", "Rejected"} :
           \/ Edit([spec EXCEPT !.decided[g] = d])
           \/ Edit([spec EXCEPT !.decided = [h \in Gate |-> IF h = g THEN d ELSE "None"]])
  BY DEF User, TogglePause, ToggleCancel, ChangeMode, ChangePolicy, Decide
<1>3. spec \in SpecRecord
  BY DEF TypeOK
<1>4. /\ [spec EXCEPT !.pause = ~@] \in SpecRecord
      /\ [spec EXCEPT !.cancel = ~@] \in SpecRecord
      /\ \A m \in Modes : [spec EXCEPT !.mode = m] \in SpecRecord
      /\ \A p \in Policies : [spec EXCEPT !.policy = p] \in SpecRecord
      /\ \A g \in Gate, d \in {"Approved", "Rejected"} :
           /\ [spec EXCEPT !.decided[g] = d] \in SpecRecord
           /\ [spec EXCEPT !.decided = [h \in Gate |-> IF h = g THEN d ELSE "None"]] \in SpecRecord
  BY <1>3, SpecAssumption DEF SpecRecord, Decision
<1>5. QED
  BY <1>1, <1>2, <1>4

\* Pods, Machines, timers and the watch keep the types.
LEMMA EnvironmentTyped ==
  ASSUME TypeOK, Environment
  PROVE  TypeOK'
<1>1. ASSUME NEW n \in Node, PodsLeave(n) \/ Schedule(n)
      PROVE  TypeOK'
  BY <1>1 DEF PodsLeave, Schedule, EnvironmentUnchanged, TypeOK, request, bounds
<1>2. ASSUME NEW n \in Node, NodeGoes(n)
      PROVE  TypeOK'
  <2>1. hist' \in HistRecord
    BY <1>2 DEF NodeGoes, TypeOK, HistRecord
  <2>2. QED
    BY <1>2, <2>1 DEF NodeGoes, TypeOK, request, bounds
<1>3. CASE Join
  <2>1. ready' \in Nat
    BY <1>3 DEF Join, TypeOK
  <2>2. QED
    BY <1>3, <2>1 DEF Join, EnvironmentUnchanged, TypeOK, request, bounds
<1>4. CASE GlobalTimeout
  BY <1>4 DEF GlobalTimeout, EnvironmentUnchanged, TypeOK, request, bounds, cluster
<1>5. QED
  BY <1>1, <1>2, <1>3, <1>4 DEF Environment

\* So do the writes, the release of nodes, the audit and a restart.
LEMMA RestTyped ==
  ASSUME TypeOK,
         \/ \E n \in Node : ReleaseNode(n)
         \/ Write \/ Conflict \/ AuditTerminal \/ Deliver \/ Crash
  PROVE  TypeOK'
<1>0. worker \in WorkerRecord /\ hist \in HistRecord /\ Idle \in WorkerRecord
  BY EmptyTyped DEF TypeOK
<1>1. ASSUME NEW n \in Node, ReleaseNode(n)
      PROVE  TypeOK'
  <2>1. worker' \in WorkerRecord
    BY <1>0, <1>1 DEF ReleaseNode, WorkerRecord
  <2>2. hist' \in HistRecord
    <3>1. /\ hist.ours \ {n} \in SUBSET Node
          /\ hist.releaseFailed \ {n} \in SUBSET Node
          /\ hist.releaseFailed \cup {n} \in SUBSET Node
      BY <1>0 DEF HistRecord
    <3>2. [hist EXCEPT !.ours = @ \ {n}, !.releaseFailed = @ \ {n}] \in HistRecord
      BY <1>0, <3>1 DEF HistRecord
    <3>3. [hist EXCEPT !.releaseFailed = @ \cup {n}] \in HistRecord
      BY <1>0, <3>1 DEF HistRecord
    <3>4. QED
      BY <1>1, <3>2, <3>3 DEF ReleaseNode
  <2>3. cordoned' \subseteq Node
    BY <1>1 DEF ReleaseNode, TypeOK
  <2>4. QED
    BY <1>1, <2>1, <2>2, <2>3 DEF ReleaseNode, TypeOK, request, bounds
<1>2. CASE Write
  <2>1. worker' \in WorkerRecord /\ status' \in StatusRecord /\ queued' \in BOOLEAN
    BY <1>0, <1>2 DEF Write, WorkerRecord, TypeOK, Requeues
  <2>2. QED
    BY <1>2, <2>1 DEF Write, TypeOK, cluster, bounds
<1>3. CASE Conflict
  BY <1>0, <1>3 DEF Conflict, TypeOK, cluster, bounds
<1>4. CASE AuditTerminal
  <2>1. hist' \in HistRecord
    BY <1>0, <1>4 DEF AuditTerminal, HistRecord
  <2>2. QED
    BY <1>0, <1>4, <2>1 DEF AuditTerminal, TypeOK, request, cluster, bounds
<1>5. CASE Deliver
  BY <1>5 DEF Deliver, TypeOK, cluster, bounds
<1>6. CASE Crash
  BY <1>0, <1>6 DEF Crash, TypeOK, cluster
<1>7. QED
  BY <1>1, <1>2, <1>3, <1>4, <1>5, <1>6

\* The initial states are well typed.
LEMMA TypeInit == Init => TypeOK
<1> SUFFICES ASSUME Init PROVE TypeOK
  OBVIOUS
<1>1. spec \in SpecRecord
  <2>1. PICK m \in Modes, p \in Policies :
          spec = [mode |-> m, pause |-> FALSE, cancel |-> FALSE, policy |-> p,
                  decided |-> [g \in Gate |-> "None"]]
    BY DEF Init
  <2>2. [g \in Gate |-> "None"] \in [Gate -> Decision]
    BY DEF Decision
  <2>3. QED
    BY <2>1, <2>2, SpecAssumption DEF SpecRecord
<1>2. status \in StatusRecord /\ worker \in WorkerRecord
  BY EmptyTyped DEF Init
<1>3. hist \in HistRecord
  BY DEF Init, HistRecord, Cleared
<1>4. QED
  BY <1>1, <1>2, <1>3 DEF Init, TypeOK

\* Every step, or none, keeps the types.
LEMMA TypeNext == TypeOK /\ [Next]_vars => TypeOK'
<1> SUFFICES ASSUME TypeOK, [Next]_vars PROVE TypeOK'
  OBVIOUS
<1>1. CASE Reconcile
  BY <1>1, ReconcileTyped
<1>2. CASE StepNode
  BY <1>2, StepNodeTyped
<1>3. CASE (\E n \in Node : ReleaseNode(n)) \/ Write \/ Conflict \/ AuditTerminal
           \/ Deliver \/ Crash
  BY <1>3, RestTyped
<1>4. CASE User
  BY <1>4, EditTyped
<1>5. CASE Environment
  BY <1>5, EnvironmentTyped
<1>6. CASE UNCHANGED vars
  BY <1>6 DEF vars, request, cluster, bounds, TypeOK
<1>7. QED
  BY <1>1, <1>2, <1>3, <1>4, <1>5, <1>6 DEF Next, Pass, Poll

\* Every variable keeps its type, whatever the plan, the policies and the bounds:
\* in particular a copy built by any handler is a status the API can hold.
THEOREM TypeCorrect == Spec => []TypeOK
<1>1. QED
  BY TypeInit, TypeNext, PTL DEF Spec

-----------------------------------------------------------------------------
(***************************************************************************)
(* The end of a request, for every value of the constants: a terminal      *)
(* status is final, it is audited at most once, and until it is reached    *)
(* the request is never forgotten by the queue.                            *)
(***************************************************************************)
\* A pass is under way, and owns a copy that it will try to write.
Working == {"step", "release", "write"}

\* The informer's copy is the server's object once it has caught up.
SyncedAgrees == synced => cache.spec = spec /\ cache.status = status

\* The informer never shows an end that has not been reached.
CachedEndIsReal == cache.status.phase \in Terminal => status.phase \in Terminal

\* A copy that can still be written was not read from an ended request.
FreshIsLive == worker.pc \in Working /\ worker.fresh => status.phase \notin Terminal

AuditsAnEnd == worker.pc = "audit" => status.phase \in Terminal /\ hist.audits = 0

\* The inductive invariant: AuditedOnce and NoLostWakeup need the rest because a
\* pass may read a stale cache.
EndInv == SyncedAgrees /\ CachedEndIsReal /\ FreshIsLive /\ AuditsAnEnd
            /\ AuditedOnce /\ NoLostWakeup

-----------------------------------------------------------------------------
\* Where a handler leaves the worker.
LEMMA HoldingShape ==
  ASSUME TypeOK, NEW pc \in Working, NEW s, NEW t,
         worker' = Holding(pc, s) \/ worker' = [Holding(pc, s) EXCEPT !.todo = t]
  PROVE  /\ worker'.pc = pc
         /\ worker'.fresh = (IF worker.pc = "idle" THEN synced ELSE worker.fresh)
BY EmptyTyped DEF Holding, WorkerRecord, Working

\* Where saving, ending and continuing leave the worker and its copy.
LEMMA OutcomeShape ==
  ASSUME TypeOK, NEW s,
         \/ Save(s) \/ Fail(s) \/ Complete(s) \/ CompleteExecution(s)
         \/ \E r \in BOOLEAN : Cancel(s, r)
  PROVE  /\ worker'.pc \in Working
         /\ worker'.fresh = (IF worker.pc = "idle" THEN synced ELSE worker.fresh)
<1>1. ASSUME NEW r, Save(r)
      PROVE  /\ worker'.pc \in Working
             /\ worker'.fresh = (IF worker.pc = "idle" THEN synced ELSE worker.fresh)
  BY <1>1, HoldingShape DEF Save, Working
<1>2. ASSUME NEW phase, NEW todo, Finish(s, phase, todo)
      PROVE  /\ worker'.pc \in Working
             /\ worker'.fresh = (IF worker.pc = "idle" THEN synced ELSE worker.fresh)
  BY <1>2, HoldingShape DEF Finish, Working
<1>3. QED
  BY <1>1, <1>2 DEF Fail, Complete, CompleteExecution, Cancel

\* Every handler but ObserveTerminal reads a request that has not ended and
\* takes the worker through a write.
LEMMA ReconcileShape ==
  ASSUME TypeOK, Reconcile, ~ObserveTerminal
  PROVE  /\ worker.pc = "idle" /\ queued /\ seen.phase \notin Terminal
         /\ worker'.pc \in Working /\ worker'.fresh = synced
         /\ UNCHANGED <<spec, status, cache, synced>> /\ hist'.audits = hist.audits
<1>1. PICK p \in Live \cup {"New"} : Reading({p})
  <2>1. Pausable \subseteq Live /\ {"Pending", "Validating", "AwaitingApproval", "Planned",
          "Paused", "Blocked", "Executing"} \subseteq Live
    BY DEF Pausable, Live, Phase, Terminal
  <2>2. ASSUME NEW phases, phases \subseteq Live \cup {"New"}, Reading(phases)
        PROVE  \E p \in Live \cup {"New"} : Reading({p})
    BY <2>2 DEF Reading
  <2>3. QED
    BY <2>1, <2>2 DEF Reconcile, Accept, UserCancel, Pause, PolicyUnresolved, Validating,
       AwaitingApproval, Planned, Resume, RetryBlocked, Executing, Dispatched
<1>2. worker.pc = "idle" /\ queued /\ UNCHANGED <<spec, status, cache, synced>>
  BY <1>1 DEF Reading
<1>3. seen.phase \notin Terminal
  BY <1>1 DEF Reading, Live, Terminal
<1>4. hist'.audits = hist.audits
  BY DEF Reconcile, Accept, UserCancel, Pause, PolicyUnresolved, Validating, AwaitingApproval,
     Planned, Resume, RetryBlocked, Executing, TypeOK, HistRecord
<1>5. worker'.pc \in Working /\ worker'.fresh = synced
  <2>1. CASE \E s : \/ Save(s) \/ Fail(s) \/ Complete(s) \/ CompleteExecution(s)
                    \/ \E r \in BOOLEAN : Cancel(s, r)
    BY <1>2, <2>1, OutcomeShape
  <2>2. ASSUME NEW todo, NEW k, NEW slots, NEW o,
               worker' = [Holding("step", seen) EXCEPT !.todo = todo, !.inFlight = k,
                             !.slots = slots, !.open = o]
        PROVE  worker'.pc \in Working /\ worker'.fresh = synced
    BY <1>2, <2>2, EmptyTyped DEF Holding, WorkerRecord, Working
  <2>3. CASE Executing
    BY <2>1, <2>2, <2>3 DEF Executing
  <2>4. CASE Validating \/ AwaitingApproval
    BY <2>1, <2>4 DEF Validating, AwaitingApproval
  <2>5. CASE Accept \/ UserCancel \/ Pause \/ PolicyUnresolved
    BY <2>1, <2>5 DEF Accept, UserCancel, Pause, PolicyUnresolved
  <2>6. CASE Planned \/ Resume \/ RetryBlocked
    BY <2>1, <2>6 DEF Planned, Resume, RetryBlocked
  <2>7. QED
    BY <2>3, <2>4, <2>5, <2>6 DEF Reconcile
<1>6. QED
  BY <1>2, <1>3, <1>4, <1>5

\* A step of stepNode leaves the worker in the loop or before a write.
LEMMA StepNodeShape ==
  ASSUME TypeOK, StepNode
  PROVE  /\ worker.pc = "step"
         /\ worker'.pc \in Working /\ worker'.fresh = worker.fresh
         /\ UNCHANGED <<spec, status, cache, synced, queued>> /\ hist'.audits = hist.audits
<1> PICK n \in Node : \/ StartNode(n) \/ CordonNode(n) \/ DrainNode(n) \/ CheckNode(n)
                      \/ UncordonNode(n) \/ ReplaceNode(n) \/ AwaitNode(n) \/ NodeError(n)
  BY DEF StepNode
<1>1. \E p : Visiting(n, p)
  BY DEF StartNode, CordonNode, DrainNode, CheckNode, UncordonNode, ReplaceNode, AwaitNode,
     NodeError
<1>2. worker.pc = "step" /\ UNCHANGED <<spec, status, cache, synced, queued>>
  BY <1>1 DEF Visiting, request
<1>3. hist'.audits = hist.audits
  BY DEF StartNode, CordonNode, DrainNode, CheckNode, UncordonNode, ReplaceNode, AwaitNode,
     NodeError, TypeOK, HistRecord
<1>4. ASSUME NEW s, NEW k, Continue(n, s, k)
      PROVE  worker'.pc \in Working /\ worker'.fresh = worker.fresh
  <2>1. CASE worker' = [worker EXCEPT !.status = s, !.inFlight = k, !.todo = @ \ {n}]
    BY <1>2, <2>1 DEF TypeOK, WorkerRecord, Working
  <2>2. CASE CompleteExecution(s) \/ Save(s)
    BY <1>2, <2>2, OutcomeShape
  <2>3. QED
    BY <1>4, <2>1, <2>2 DEF Continue
<1>5. ASSUME NEW s, Save(s)
      PROVE  worker'.pc \in Working /\ worker'.fresh = worker.fresh
  BY <1>2, <1>5, OutcomeShape
<1>6. (\E s, k : Continue(n, s, k)) \/ (\E s : Save(s))
  BY DEF StartNode, CordonNode, DrainNode, CheckNode, UncordonNode, ReplaceNode, AwaitNode,
     NodeError, Becomes, Stays
<1>7. QED
  BY <1>2, <1>3, <1>4, <1>5, <1>6

-----------------------------------------------------------------------------
\* Users and the cluster leave the status alone; an edit makes the copy in
\* progress stale.
LEMMA OutsideShape ==
  ASSUME TypeOK, User \/ Environment \/ UNCHANGED vars
  PROVE  /\ UNCHANGED <<status, cache, queued>> /\ worker'.pc = worker.pc
         /\ hist'.audits = hist.audits
         /\ worker'.fresh => worker.fresh
         /\ synced' => synced /\ spec' = spec
<1>1. ASSUME NEW sp, Edit(sp)
      PROVE  /\ UNCHANGED <<status, cache, queued>> /\ worker'.pc = worker.pc
             /\ hist'.audits = hist.audits /\ ~worker'.fresh /\ ~synced'
  BY <1>1 DEF Edit, TypeOK, WorkerRecord, HistRecord
<1>2. CASE User
  BY <1>1, <1>2 DEF User, TogglePause, ToggleCancel, ChangeMode, ChangePolicy, Decide
<1>3. CASE Environment \/ UNCHANGED vars
  BY <1>3 DEF Environment, PodsLeave, Schedule, NodeGoes, Join, GlobalTimeout,
     EnvironmentUnchanged, request, vars, TypeOK, HistRecord
<1>4. QED
  BY <1>2, <1>3

\* The release of one node leaves the copy and the plan of the write alone.
LEMMA ReleaseShape ==
  ASSUME TypeOK, NEW n \in Node, ReleaseNode(n)
  PROVE  /\ worker.pc \in Working /\ worker'.pc \in Working /\ worker'.fresh = worker.fresh
         /\ UNCHANGED <<spec, status, cache, synced, queued>> /\ hist'.audits = hist.audits
BY DEF ReleaseNode, TypeOK, WorkerRecord, HistRecord, request, Working

\* The invariant holds before the manager has read anything.
LEMMA EndInit == Init => EndInv
<1> SUFFICES ASSUME Init PROVE EndInv
  OBVIOUS
<1>1. worker.pc = "idle" /\ status.phase = "New" /\ hist.audits = 0
  BY DEF Init, Idle, EmptyStatus
<1>2. QED
  BY <1>1 DEF Init, EndInv, SyncedAgrees, CachedEndIsReal, FreshIsLive, AuditsAnEnd,
     AuditedOnce, NoLostWakeup, Working, Terminal

\* Every step, or none, keeps the invariant.
LEMMA EndNext == TypeOK /\ EndInv /\ [Next]_vars => EndInv'
<1> SUFFICES ASSUME TypeOK, EndInv, [Next]_vars PROVE EndInv'
  OBVIOUS
<1> USE DEF EndInv, SyncedAgrees, CachedEndIsReal, FreshIsLive, AuditsAnEnd, AuditedOnce,
        NoLostWakeup, Working
<1>1. CASE Reconcile /\ ~ObserveTerminal
  BY <1>1, ReconcileShape DEF seen
<1>2. CASE ObserveTerminal
  BY <1>2 DEF ObserveTerminal, Reading, seen
<1>3. CASE StepNode
  BY <1>3, StepNodeShape
<1>4. CASE \E n \in Node : ReleaseNode(n)
  BY <1>4, ReleaseShape
<1>5. CASE Write
  <2>1. status.phase \notin Terminal /\ hist.audits = 0
    BY <1>5 DEF Write, Accepted, TypeOK, HistRecord
  <2>2. hist' = hist /\ cache' = cache /\ ~synced' /\ status' = worker.status
    BY <1>5 DEF Write
  <2>3. CASE worker.status.phase \in Terminal
    <3>1. worker'.pc = "audit"
      BY <1>5, <2>3, EmptyTyped DEF Write, WorkerRecord
    <3>2. QED
      BY <2>1, <2>2, <2>3, <3>1
  <2>4. CASE worker.status.phase \notin Terminal
    <3>1. worker'.pc = "idle"
      BY <1>5, <2>4 DEF Write, Idle
    <3>2. queued'
      <4>1. queued' = (queued \/ Requeues(worker.status))
        BY ONLY <1>5, <2>4, Zenon DEF Write
      <4>2. Requeues(worker.status)
        BY <2>4 DEF Requeues
      <4>3. QED
        BY ONLY <4>1, <4>2, Zenon
    <3>3. QED
      BY <2>1, <2>2, <2>4, <3>1, <3>2
  <2>5. QED
    BY <2>3, <2>4
<1>6. CASE Conflict
  <2>1. worker'.pc = "idle"
    BY <1>6 DEF Conflict, Idle
  <2>2. QED
    BY <1>6, <2>1 DEF Conflict
<1>7. CASE AuditTerminal
  <2>1. worker'.pc = "idle" /\ hist'.audits = 1
    BY <1>7 DEF AuditTerminal, Idle, TypeOK, HistRecord
  <2>2. QED
    BY <1>7, <2>1 DEF AuditTerminal, request
<1>8. CASE Deliver
  BY <1>8 DEF Deliver
<1>9. CASE Crash
  <2>1. worker'.pc = "idle"
    BY <1>9 DEF Crash, Idle
  <2>2. QED
    BY <1>9, <2>1 DEF Crash
<1>10. CASE User \/ Environment \/ UNCHANGED vars
  BY <1>10, OutsideShape
<1>11. QED
  BY <1>1, <1>2, <1>3, <1>4, <1>5, <1>6, <1>7, <1>8, <1>9, <1>10
  DEF Next, Pass, Poll, Reconcile

\* The invariant that the three theorems below rest on holds in every reachable
\* state.
THEOREM EndCorrect == Spec => [](TypeOK /\ EndInv)
BY TypeInit, TypeNext, EndInit, EndNext, PTL DEF Spec

\* A live request that no pass is working on is in the work queue, so that no
\* wake-up is lost however writes, conflicts, restarts and stale reads interleave.
THEOREM WakeupNeverLost == Spec => []NoLostWakeup
<1>1. EndInv => NoLostWakeup
  BY DEF EndInv
<1>2. QED
  BY <1>1, EndCorrect, PTL

\* The terminal outcome is audited at most once, and only after it is persisted.
THEOREM AuditNeverTwice == Spec => []AuditedOnce
<1>1. EndInv => AuditedOnce
  BY DEF EndInv
<1>2. QED
  BY <1>1, EndCorrect, PTL

\* No pass, however late or stale the copy it works on, writes over a terminal
\* status: the only write there is needs a copy of the current object, and such a
\* copy is read only from a request that has not ended.
THEOREM TerminalNeverOverwritten == Spec => TerminalIsFinal
<1>1. TypeOK /\ EndInv /\ [Next]_vars => (status.phase \in Terminal => UNCHANGED status)
  <2> SUFFICES ASSUME TypeOK, EndInv, [Next]_vars, status.phase \in Terminal
               PROVE  UNCHANGED status
    OBVIOUS
  <2>1. ~Write
    BY DEF Write, Accepted, EndInv, FreshIsLive, Working
  <2>2. CASE Reconcile
    BY <2>2, ReconcileShape DEF ObserveTerminal, Reading
  <2>3. CASE StepNode \/ (\E n \in Node : ReleaseNode(n))
    BY <2>3, StepNodeShape, ReleaseShape
  <2>4. CASE Conflict \/ AuditTerminal \/ Deliver \/ Crash
    BY <2>4 DEF Conflict, AuditTerminal, Deliver, Crash, request
  <2>5. CASE User \/ Environment \/ UNCHANGED vars
    BY <2>5, OutsideShape
  <2>6. QED
    BY <2>1, <2>2, <2>3, <2>4, <2>5 DEF Next, Pass, Poll
<1>2. QED
  BY <1>1, EndCorrect, PTL DEF Spec, TerminalIsFinal

-----------------------------------------------------------------------------
(***************************************************************************)
(* The drain gate, for every value of the constants: no node is begun      *)
(* before the gate has been open.                                          *)
(***************************************************************************)
\* What a status looks like while the drain gate has never been open: no node is
\* listed, and the request has not been planned past the gate. Paused keeps what
\* ResumePhase needs to return before the gate.
BeforeGate(s) ==
  /\ s.node = NoNodes
  /\ \/ s.phase \in Terminal
     \/ /\ s.gate = "" /\ ~s.plan
        /\ s.phase \in {"New", "Pending", "Validating", "Blocked", "Paused"}
     \/ s.gate = "Drain" /\ s.phase \in {"AwaitingApproval", "Paused"}

HeldAtGate(s) == hist.drainCleared \/ BeforeGate(s)

\* The inductive invariant: the persisted status, the informer's and the copy in
\* progress are all before the gate until a spec that opens it has been written.
GateInv ==
  /\ HeldAtGate(status) /\ HeldAtGate(cache.status) /\ HeldAtGate(worker.status)
  /\ Cleared(spec, "Drain") \/ Cleared(cache.spec, "Drain") => hist.drainCleared

-----------------------------------------------------------------------------
\* A status that lists no node has no node in any phase.
LEMMA NoNodesHasNone ==
  ASSUME NEW s, s.node = NoNodes
  PROVE  \A n \in Node : s.node[n] = Unlisted
BY DEF NoNodes

\* A copy that a handler saves or ends with is the copy the worker holds.
LEMMA OutcomeStatus ==
  ASSUME TypeOK, NEW s \in StatusRecord
  PROVE  /\ Save(s) => worker'.status = s
         /\ \A p : p \in Terminal => \A todo :
              Finish(s, p, todo) => /\ worker'.status.phase = p
                                    /\ worker'.status.node = s.node
<1>1. Save(s) => worker'.status = s
  BY EmptyTyped DEF Save, Holding, WorkerRecord
<1>2. ASSUME NEW p \in Terminal, NEW todo, Finish(s, p, todo)
      PROVE  worker'.status.phase = p /\ worker'.status.node = s.node
  <2>1. worker'.status = [s EXCEPT !.phase = p]
    BY <1>2, EmptyTyped DEF Finish, Holding, WorkerRecord
  <2>2. QED
    BY <2>1 DEF StatusRecord
<1>3. QED
  BY <1>1, <1>2

\* A pass that ends the request begins no node.
LEMMA EndHeld ==
  ASSUME TypeOK, NEW s \in StatusRecord, BeforeGate(s),
         Fail(s) \/ Complete(s) \/ (\E r \in BOOLEAN : Cancel(s, r))
  PROVE  BeforeGate(worker'.status)
<1>1. \E p \in Terminal : \E todo : Finish(s, p, todo)
  BY DEF Fail, Complete, Cancel, Terminal
<1>2. PICK p \in Terminal : worker'.status.phase = p /\ worker'.status.node = s.node
  BY <1>1, OutcomeStatus
<1>3. QED
  BY <1>2 DEF BeforeGate

\* A handler that runs before the gate stays before it, unless the spec it read
\* opens the gate.
LEMMA ReconcileHeld ==
  ASSUME TypeOK, Reconcile, BeforeGate(seen), ~Cleared(cache.spec, "Drain"),
         BeforeGate(worker.status)
  PROVE  BeforeGate(worker'.status)
<1>0. seen \in StatusRecord /\ cache.spec \in SpecRecord
  BY SeenTyped
<1>1. CASE Accept
  <2>1. seen.phase = "New"
    BY <1>1 DEF Accept, Reading
  <2>2. [seen EXCEPT !.phase = InitialPhase] \in StatusRecord
    BY <1>0, PhasesTyped, StatusTyped
  <2>3. worker'.status = [seen EXCEPT !.phase = InitialPhase]
    BY <1>1, <2>2, OutcomeStatus DEF Accept
  <2>4. QED
    BY <1>0, <2>1, <2>3 DEF BeforeGate, InitialPhase, Terminal, StatusRecord
<1>2. CASE ObserveTerminal
  BY <1>2 DEF ObserveTerminal
<1>3. CASE UserCancel \/ PolicyUnresolved
  BY <1>0, <1>3, EndHeld DEF UserCancel, PolicyUnresolved
<1>4. CASE Pause
  <2>1. seen.phase \in Pausable /\ Save([seen EXCEPT !.phase = "Paused"])
    BY <1>4 DEF Pause, Reading
  <2>2. [seen EXCEPT !.phase = "Paused"] \in StatusRecord
    BY <1>0, StatusTyped DEF Phase
  <2>3. QED
    BY <1>0, <2>1, <2>2, OutcomeStatus DEF BeforeGate, Pausable, Terminal, StatusRecord
<1>5. CASE Validating
  <2>1. seen.phase \in {"Pending", "Validating"}
    BY <1>5 DEF Validating, Dispatched, Reading
  <2>2. seen.gate = "" /\ ~seen.plan /\ seen.node = NoNodes
    BY <2>1 DEF BeforeGate, Terminal
  <2>3. Validated \in StatusRecord /\ Validated.node = NoNodes
    BY <1>0, <2>2, StatusTyped DEF Validated, StatusRecord
  <2>4. \/ Fail(seen) \/ Complete(seen)
        \/ Complete(Validated) \/ Cancel(Validated, FALSE)
        \/ Save([seen EXCEPT !.phase = "Blocked"])
        \/ Save([Validated EXCEPT !.gate = "Drain", !.phase = "AwaitingApproval"])
    BY <1>5 DEF Validating, Cleared
  <2>5. CASE Fail(seen) \/ Complete(seen)
    BY <1>0, <2>5, EndHeld
  <2>6. CASE Complete(Validated) \/ Cancel(Validated, FALSE)
    <3>1. \E p \in Terminal : \E todo : Finish(Validated, p, todo)
      BY <2>6 DEF Complete, Cancel, Terminal
    <3>2. worker'.status.phase \in Terminal /\ worker'.status.node = NoNodes
      BY <2>3, <3>1, OutcomeStatus
    <3>3. QED
      BY <3>2 DEF BeforeGate
  <2>7. CASE Save([seen EXCEPT !.phase = "Blocked"])
    <3>1. [seen EXCEPT !.phase = "Blocked"] \in StatusRecord
      BY <1>0, StatusTyped DEF Phase
    <3>2. QED
      BY <1>0, <2>2, <2>7, <3>1, OutcomeStatus DEF BeforeGate, StatusRecord
  <2>8. CASE Save([Validated EXCEPT !.gate = "Drain", !.phase = "AwaitingApproval"])
    <3>1. [Validated EXCEPT !.gate = "Drain", !.phase = "AwaitingApproval"] \in StatusRecord
      BY <2>3, StatusTyped DEF Phase, Gate
    <3>2. QED
      BY <2>3, <2>8, <3>1, OutcomeStatus DEF BeforeGate, StatusRecord
  <2>9. QED
    BY <2>4, <2>5, <2>6, <2>7, <2>8
<1>6. CASE AwaitingApproval
  <2>1. seen.phase = "AwaitingApproval" /\ seen.gate = "Drain"
    BY <1>6 DEF AwaitingApproval, Dispatched, Reading, BeforeGate, Terminal
  <2>2. Cancel(seen, FALSE)
    BY <1>6, <2>1 DEF AwaitingApproval, Cleared
  <2>3. QED
    BY <1>0, <2>2, EndHeld
<1>7. CASE Planned \/ Executing
  BY <1>7 DEF Planned, Executing, Dispatched, Reading, BeforeGate, Terminal
<1>8. CASE Resume
  <2>1. seen.phase = "Paused"
    BY <1>8 DEF Resume, Dispatched, Reading
  <2>2. [seen EXCEPT !.phase = ResumePhase(seen)] \in StatusRecord
    BY <1>0, PhasesTyped, StatusTyped
  <2>3. worker'.status = [seen EXCEPT !.phase = ResumePhase(seen)]
    BY <1>8, <2>2, OutcomeStatus DEF Resume
  <2>4. QED
    BY <1>0, <2>1, <2>3 DEF BeforeGate, ResumePhase, Terminal, StatusRecord
<1>9. CASE RetryBlocked
  <2>1. seen.phase = "Blocked" /\ seen.gate = "" /\ ~seen.plan /\ seen.node = NoNodes
    BY <1>9 DEF RetryBlocked, Dispatched, Reading, BeforeGate, Terminal
  <2>2. InPhase(seen, {"Blocked"}) = {}
    BY <2>1, NoNodesHasNone DEF InPhase, Unlisted
  <2>3. CASE Fail(seen)
    BY <1>0, <2>3, EndHeld
  <2>4. CASE Save([seen EXCEPT !.phase = "Validating"])
    <3>1. [seen EXCEPT !.phase = "Validating"] \in StatusRecord
      BY <1>0, StatusTyped DEF Phase
    <3>2. QED
      BY <1>0, <2>1, <2>4, <3>1, OutcomeStatus DEF BeforeGate, StatusRecord
  <2>5. QED
    BY <1>9, <2>2, <2>3, <2>4 DEF RetryBlocked
<1>10. QED
  BY <1>1, <1>2, <1>3, <1>4, <1>5, <1>6, <1>7, <1>8, <1>9 DEF Reconcile

\* The loop over the nodes runs only past the gate: a copy before it lists none.
LEMMA StepNodePastGate ==
  ASSUME TypeOK, StepNode
  PROVE  ~BeforeGate(worker.status)
<1> PICK n \in Node : \/ StartNode(n) \/ CordonNode(n) \/ DrainNode(n) \/ CheckNode(n)
                      \/ UncordonNode(n) \/ ReplaceNode(n) \/ AwaitNode(n) \/ NodeError(n)
  BY DEF StepNode
<1>1. worker.status.node[n] # Unlisted
  BY DEF StartNode, CordonNode, DrainNode, CheckNode, UncordonNode, ReplaceNode, AwaitNode,
     NodeError, Visiting, InFlightPhases, Unlisted
<1>2. QED
  BY <1>1, NoNodesHasNone DEF BeforeGate

-----------------------------------------------------------------------------
\* The gate, once open, has been open.
LEMMA PassKeepsCleared ==
  ASSUME TypeOK, Pass
  PROVE  hist'.drainCleared = hist.drainCleared
<1>0. hist \in HistRecord
  BY DEF TypeOK
<1>1. CASE Reconcile
  BY <1>0, <1>1 DEF Reconcile, Accept, ObserveTerminal, UserCancel, Pause, PolicyUnresolved,
     Validating, AwaitingApproval, Planned, Resume, RetryBlocked, Executing, HistRecord
<1>2. CASE StepNode
  BY <1>0, <1>2 DEF StepNode, StartNode, CordonNode, DrainNode, CheckNode, UncordonNode,
     ReplaceNode, AwaitNode, NodeError, HistRecord
<1>3. CASE (\E n \in Node : ReleaseNode(n)) \/ Write \/ Conflict \/ AuditTerminal
  BY <1>0, <1>3 DEF ReleaseNode, Write, Conflict, AuditTerminal, HistRecord
<1>4. QED
  BY <1>1, <1>2, <1>3 DEF Pass

\* A new request, and a worker with nothing to do, are before the gate.
LEMMA EmptyHeld == BeforeGate(EmptyStatus) /\ Idle.status = EmptyStatus
BY DEF BeforeGate, EmptyStatus, Idle

\* The invariant holds initially.
LEMMA GateInit == Init => GateInv
<1> SUFFICES ASSUME Init PROVE GateInv
  OBVIOUS
<1>1. status = EmptyStatus /\ cache.status = EmptyStatus /\ worker.status = EmptyStatus
  BY EmptyHeld DEF Init
<1>2. cache.spec = spec /\ hist.drainCleared = Cleared(spec, "Drain")
  BY DEF Init
<1>3. QED
  BY <1>1, <1>2, EmptyHeld DEF GateInv, HeldAtGate

\* Every step, or none, keeps the invariant.
LEMMA GateNext == TypeOK /\ GateInv /\ [Next]_vars => GateInv'
<1> SUFFICES ASSUME TypeOK, GateInv, [Next]_vars PROVE GateInv'
  OBVIOUS
<1>1. CASE Reconcile
  <2>1. UNCHANGED <<spec, status, cache>> /\ hist'.drainCleared = hist.drainCleared
    <3>1. hist'.drainCleared = hist.drainCleared
      BY <1>1, PassKeepsCleared DEF Pass
    <3>2. UNCHANGED <<spec, status, cache>>
      BY <1>1 DEF Reconcile, Accept, ObserveTerminal, UserCancel, Pause, PolicyUnresolved,
         Validating, AwaitingApproval, Planned, Resume, RetryBlocked, Executing, Dispatched,
         Reading
    <3>3. QED
      BY <3>1, <3>2
  <2>2. HeldAtGate(worker.status)'
    <3>1. CASE hist.drainCleared
      BY <2>1, <3>1 DEF HeldAtGate
    <3>2. CASE ~hist.drainCleared
      BY <1>1, <3>2, ReconcileHeld DEF GateInv, HeldAtGate, seen, BeforeGate
    <3>3. QED
      BY <3>1, <3>2
  <2>3. QED
    BY <2>1, <2>2 DEF GateInv, HeldAtGate, Cleared, Evaluate, BeforeGate
<1>2. CASE StepNode
  <2>1. hist.drainCleared
    BY <1>2, StepNodePastGate DEF GateInv, HeldAtGate
  <2>2. hist'.drainCleared
    BY <1>2, <2>1, PassKeepsCleared DEF Pass
  <2>3. QED
    BY <2>2 DEF GateInv, HeldAtGate
<1>3. CASE \E n \in Node : ReleaseNode(n)
  <2>1. hist'.drainCleared = hist.drainCleared
    BY <1>3, PassKeepsCleared DEF Pass
  <2>2. UNCHANGED <<spec, status, cache>> /\ worker'.status = worker.status
    BY <1>3 DEF ReleaseNode, request, TypeOK, WorkerRecord
  <2>3. QED
    BY <2>1, <2>2 DEF GateInv, HeldAtGate, BeforeGate, Cleared, Evaluate
<1>4. CASE Write
  <2>1. status' = worker.status /\ UNCHANGED <<spec, cache, hist>>
    BY <1>4 DEF Write
  <2>2. worker'.status = EmptyStatus
    BY <1>4, EmptyTyped DEF Write, Idle, WorkerRecord
  <2>3. QED
    BY <2>1, <2>2, EmptyHeld DEF GateInv, HeldAtGate, BeforeGate, Cleared, Evaluate
<1>5. CASE Conflict \/ AuditTerminal
  <2>1. hist'.drainCleared = hist.drainCleared
    BY <1>5, PassKeepsCleared DEF Pass
  <2>2. UNCHANGED <<spec, status, cache>> /\ worker'.status = EmptyStatus
    BY <1>5, EmptyHeld DEF Conflict, AuditTerminal, request
  <2>3. QED
    BY <2>1, <2>2, EmptyHeld DEF GateInv, HeldAtGate, BeforeGate, Cleared, Evaluate
<1>6. CASE Deliver
  BY <1>6 DEF Deliver, GateInv, HeldAtGate, BeforeGate, Cleared, Evaluate
<1>7. CASE Crash
  <2>1. worker'.status = EmptyStatus
    BY <1>7, EmptyHeld DEF Crash
  <2>2. QED
    BY <1>7, <2>1, EmptyHeld DEF Crash, GateInv, HeldAtGate, BeforeGate, Cleared, Evaluate
<1>8. ASSUME NEW sp, Edit(sp)
      PROVE  GateInv'
  <2>1. spec' = sp /\ UNCHANGED <<status, cache>>
    BY <1>8 DEF Edit
  <2>2. worker'.status = worker.status
    BY <1>8 DEF Edit, TypeOK, WorkerRecord
  <2>3. hist'.drainCleared = (hist.drainCleared \/ Cleared(sp, "Drain"))
    BY <1>8 DEF Edit, TypeOK, HistRecord
  <2>4. QED
    BY <2>1, <2>2, <2>3 DEF GateInv, HeldAtGate, BeforeGate, Cleared, Evaluate
<1>9. CASE Environment \/ UNCHANGED vars
  <2>1. UNCHANGED <<spec, status, cache, worker>> /\ hist'.drainCleared = hist.drainCleared
    BY <1>9 DEF Environment, PodsLeave, Schedule, NodeGoes, Join, GlobalTimeout,
       EnvironmentUnchanged, request, vars, TypeOK, HistRecord
  <2>2. QED
    BY <2>1 DEF GateInv, HeldAtGate, BeforeGate, Cleared, Evaluate
<1>10. QED
  BY <1>1, <1>2, <1>3, <1>4, <1>5, <1>6, <1>7, <1>8, <1>9
  DEF Next, Pass, Poll, User, TogglePause, ToggleCancel, ChangeMode, ChangePolicy, Decide

\* No node is begun before the drain gate has been open, in whatever order the
\* user pauses, resumes, decides and edits, however stale the informer's copy is,
\* and wherever the manager dies.
THEOREM DrainGateHolds == Spec => []DrainGateRespected
<1>1. GateInv => DrainGateRespected
  <2> SUFFICES ASSUME BeforeGate(status) PROVE Persisted(Begun) = {}
    BY DEF GateInv, HeldAtGate, DrainGateRespected
  <2>1. \A n \in Node : status.node[n] = Unlisted
    BY NoNodesHasNone DEF BeforeGate
  <2>2. QED
    BY <2>1 DEF Persisted, InPhase, Begun, InFlightPhases, NodeTerminal, Unlisted
<1>2. QED
  BY <1>1, TypeInit, TypeNext, GateInit, GateNext, PTL DEF Spec

-----------------------------------------------------------------------------
(***************************************************************************)
(* The phase, the gate and the nodes of a status agree, for every value of *)
(* the constants: a request that waits at a gate, or is blocked, can go on *)
(* from where it is, by whatever detour it has come there.                 *)
(***************************************************************************)
\* What the fields of a status say of each other. Every copy of it agrees, the
\* stale ones and the one in progress included: any of them may be resumed from.
Coherent(s) ==
  /\ s.gate = "Drain" => s.node = NoNodes
  /\ s.gate = "Uncordon" => \E n \in Node : s.node[n] = "PostCheck"
  /\ s.gate # "" => s.phase \in {"AwaitingApproval", "Paused"} \cup Terminal
  /\ s.phase = "AwaitingApproval" => s.gate # ""
  /\ s.phase \in {"New", "Pending", "Validating", "Planned"} => s.node = NoNodes
  /\ s.node # NoNodes => s.plan
  /\ s.phase = "Blocked" /\ s.node # NoNodes => \E n \in Node : s.node[n] = "Blocked"

\* The loop over the nodes works on a copy that is Executing.
StepsExecuting == worker.pc = "step" => worker.status.phase = "Executing"

\* The inductive invariant.
ProgressInv ==
  /\ Coherent(status) /\ Coherent(cache.status) /\ Coherent(worker.status)
  /\ StepsExecuting

-----------------------------------------------------------------------------
\* The copy that a handler saves, or ends with, and where that leaves the worker.
LEMMA OutcomeCopy ==
  ASSUME TypeOK, NEW s
  PROVE  /\ Save(s) => worker'.status = s /\ worker'.pc = "write"
         /\ \A p : \A todo : Finish(s, p, todo) =>
              /\ worker'.status = [s EXCEPT !.phase = p]
              /\ worker'.pc \in {"write", "release"}
<1>1. Save(s) => worker'.status = s /\ worker'.pc = "write"
  BY EmptyTyped DEF Save, Holding, WorkerRecord
<1>2. ASSUME NEW p, NEW todo, Finish(s, p, todo)
      PROVE  /\ worker'.status = [s EXCEPT !.phase = p]
             /\ worker'.pc \in {"write", "release"}
  <2> DEFINE t == [s EXCEPT !.phase = p]
  <2>1. worker' = [Holding(IF todo = {} THEN "write" ELSE "release", t) EXCEPT !.todo = todo]
    BY <1>2 DEF Finish
  <2> HIDE DEF t
  <2>2. worker'.status = t /\ worker'.pc \in {"write", "release"}
    BY <2>1, EmptyTyped DEF Holding, WorkerRecord
  <2>3. QED
    BY <2>2 DEF t
<1>3. QED
  BY <1>1, <1>2

\* A request that ends keeps its fields, but for the phase.
LEMMA EndCoherent ==
  ASSUME TypeOK, NEW s \in StatusRecord, Coherent(s),
         Fail(s) \/ Complete(s) \/ (\E r \in BOOLEAN : Cancel(s, r))
  PROVE  Coherent(worker'.status) /\ worker'.pc # "step"
<1>1. \E p \in Terminal : \E todo : Finish(s, p, todo)
  BY DEF Fail, Complete, Cancel, Terminal
<1>2. PICK p \in Terminal : worker'.status = [s EXCEPT !.phase = p] /\ worker'.pc # "step"
  BY <1>1, OutcomeCopy
<1>3. QED
  BY <1>2 DEF Coherent, StatusRecord, Terminal

\* completeExecution calls a request Blocked only over a blocked node.
LEMMA CompleteExecutionCoherent ==
  ASSUME TypeOK, NEW s \in StatusRecord, Coherent(s), s.phase = "Executing",
         CompleteExecution(s)
  PROVE  Coherent(worker'.status) /\ worker'.pc # "step"
<1>1. CASE Fail(s) \/ Complete(s)
  BY <1>1, EndCoherent
<1>2. CASE InPhase(s, {"Blocked"}) # {} /\ Save([s EXCEPT !.phase = "Blocked"])
  <2>1. worker'.status = [s EXCEPT !.phase = "Blocked"] /\ worker'.pc = "write"
    BY <1>2, OutcomeCopy
  <2>2. \E n \in Node : s.node[n] = "Blocked"
    BY <1>2 DEF InPhase
  <2>3. s.gate = ""
    BY DEF Coherent, Terminal
  <2>4. QED
    BY <2>1, <2>2, <2>3 DEF Coherent, StatusRecord
<1>3. QED
  BY <1>1, <1>2 DEF CompleteExecution

\* A list that names a node is not the empty one.
LEMMA ListedIsSome ==
  ASSUME NEW s, NEW n \in Node, s.node[n] # Unlisted
  PROVE  s.node # NoNodes
BY DEF NoNodes
\* Every handler leaves a coherent copy when it has read one.
LEMMA ReconcileCoherent ==
  ASSUME TypeOK, Reconcile, ~ObserveTerminal, Coherent(seen)
  PROVE  Coherent(worker'.status) /\ (worker'.pc = "step" => worker'.status.phase = "Executing")
<1>0. seen \in StatusRecord
  BY SeenTyped
<1>1. CASE Accept
  <2>1. seen.phase = "New" /\ worker'.status = [seen EXCEPT !.phase = "Pending"]
        /\ worker'.pc = "write"
    BY <1>1, OutcomeCopy DEF Accept, Reading, InitialPhase
  <2>2. QED
    BY <1>0, <2>1 DEF Coherent, StatusRecord, Terminal
<1>2. CASE UserCancel \/ PolicyUnresolved
  BY <1>0, <1>2, EndCoherent DEF UserCancel, PolicyUnresolved
<1>3. CASE Pause
  <2>1. seen.phase \in Pausable /\ worker'.status = [seen EXCEPT !.phase = "Paused"]
        /\ worker'.pc = "write"
    BY <1>3, OutcomeCopy DEF Pause, Reading
  <2>2. QED
    BY <1>0, <2>1 DEF Coherent, StatusRecord, Terminal
<1>4. CASE Validating
  <2>1. seen.phase \in {"Pending", "Validating"}
    BY <1>4 DEF Validating, Dispatched, Reading
  <2>2. seen.node = NoNodes /\ seen.gate = ""
    BY <2>1 DEF Coherent, Terminal
  <2>3. Validated \in StatusRecord /\ Coherent(Validated)
    BY <1>0, <2>1, <2>2, StatusTyped DEF Validated, StatusRecord, Coherent
  <2>4. Validated.node = NoNodes /\ Validated.gate = "" /\ Validated.plan
    BY <1>0, <2>2 DEF Validated, StatusRecord
  <2>5. CASE Fail(seen) \/ Complete(seen)
    BY <1>0, <2>5, EndCoherent
  <2>6. CASE Complete(Validated) \/ Cancel(Validated, FALSE)
    BY <2>3, <2>6, EndCoherent
  <2>7. CASE Save([seen EXCEPT !.phase = "Blocked"])
    <3>1. worker'.status = [seen EXCEPT !.phase = "Blocked"] /\ worker'.pc = "write"
      BY <2>7, OutcomeCopy
    <3>2. QED
      BY <1>0, <2>2, <3>1 DEF Coherent, StatusRecord
  <2>8. CASE Save([Validated EXCEPT !.gate = "Drain", !.phase = "AwaitingApproval"])
    <3>1. /\ worker'.status = [Validated EXCEPT !.gate = "Drain", !.phase = "AwaitingApproval"]
          /\ worker'.pc = "write"
      BY <2>8, OutcomeCopy
    <3>2. QED
      BY <2>3, <2>4, <3>1 DEF Coherent, StatusRecord
  <2>9. CASE Save([Validated EXCEPT !.phase = "Planned"])
    <3>1. worker'.status = [Validated EXCEPT !.phase = "Planned"] /\ worker'.pc = "write"
      BY <2>9, OutcomeCopy
    <3>2. QED
      BY <2>3, <2>4, <3>1 DEF Coherent, StatusRecord
  <2>10. QED
    BY <1>4, <2>5, <2>6, <2>7, <2>8, <2>9 DEF Validating
<1>5. CASE AwaitingApproval
  <2>1. seen.phase = "AwaitingApproval" /\ seen.gate # ""
    BY <1>5 DEF AwaitingApproval, Dispatched, Reading, Coherent
  <2>2. CASE Cancel(seen, FALSE)
    BY <1>0, <2>2, EndCoherent
  <2>3. CASE Save(PassGate(seen, seen.gate))
    <3>1. /\ worker'.status = [seen EXCEPT !.gate = "", !.phase = NextPhaseAfterGate(seen.gate)]
          /\ worker'.pc = "write"
      BY <2>3, OutcomeCopy DEF PassGate
    <3>2. CASE seen.gate = "Uncordon"
      BY <1>0, <3>1, <3>2 DEF Coherent, StatusRecord, NextPhaseAfterGate
    <3>3. CASE seen.gate = "Drain"
      BY <1>0, <3>1, <3>3 DEF Coherent, StatusRecord, NextPhaseAfterGate
    <3>4. QED
      BY <1>0, <2>1, <3>2, <3>3 DEF StatusRecord, Gate
  <2>4. QED
    BY <1>5, <2>1, <2>2, <2>3 DEF AwaitingApproval
<1>6. CASE Planned
  <2> DEFINE planned == [seen EXCEPT !.plan = TRUE]
             started(target) == [planned EXCEPT !.phase = "Executing", !.started = TRUE,
                          !.node = IF @ = NoNodes THEN InitNodeStatuses(target) ELSE @]
  <2>1. seen.phase = "Planned" /\ seen.node = NoNodes /\ seen.gate = ""
    BY <1>6 DEF Planned, Dispatched, Reading, Coherent, Terminal
  <2>2. /\ planned \in StatusRecord /\ planned.phase = "Planned" /\ planned.node = NoNodes
        /\ planned.gate = "" /\ planned.plan
    BY <1>0, <2>1 DEF StatusRecord
  <2> HIDE DEF planned
  <2>3. Coherent(planned)
    BY <2>2 DEF Coherent
  <2>4. ASSUME NEW target, Save(started(target))
        PROVE  Coherent(worker'.status) /\ worker'.pc = "write"
    <3>1. worker'.status = started(target) /\ worker'.pc = "write"
      BY <2>4, OutcomeCopy
    <3>2. /\ started(target).phase = "Executing" /\ started(target).gate = ""
          /\ started(target).plan
      BY <2>2 DEF StatusRecord
    <3>3. QED
      BY <3>1, <3>2 DEF Coherent, Terminal
  <2>5. CASE Save(planned)
    BY <2>3, <2>5, OutcomeCopy
  <2>6. CASE Fail(seen) \/ Fail(planned) \/ Complete(planned)
    BY <1>0, <2>2, <2>3, <2>6, EndCoherent
  <2>7. QED
    <3>1. \/ Fail(seen) \/ Fail(planned) \/ Complete(planned) \/ Save(planned)
          \/ \E target : Save(started(target))
      BY <1>6 DEF Planned, planned
    <3>2. QED
      BY <2>4, <2>5, <2>6, <3>1
<1>7. CASE Resume
  <2>1. /\ seen.phase = "Paused" /\ worker'.pc = "write"
        /\ worker'.status = [seen EXCEPT !.phase = ResumePhase(seen)]
    BY <1>7, OutcomeCopy DEF Resume, Dispatched, Reading
  <2>2. QED
    BY <1>0, <2>1 DEF Coherent, ResumePhase, StatusRecord, Terminal
<1>8. CASE RetryBlocked
  <2>1. seen.phase = "Blocked" /\ seen.gate = ""
    BY <1>8 DEF RetryBlocked, Dispatched, Reading, Coherent, Terminal
  <2>2. CASE Fail(seen)
    BY <1>0, <2>2, EndCoherent
  <2>3. CASE InPhase(seen, {"Blocked"}) # {} /\ Save(Retry(seen))
    <3>1. worker'.status = Retry(seen) /\ worker'.pc = "write"
      BY <2>3, OutcomeCopy
    <3>2. PICK n \in Node : seen.node[n] = "Blocked"
      BY <2>3 DEF InPhase
    <3>3. seen.plan
      BY <3>2, ListedIsSome DEF Coherent, Unlisted
    <3>4. Retry(seen).phase = "Executing" /\ Retry(seen).gate = "" /\ Retry(seen).plan
      BY <1>0, <2>1, <3>3 DEF Retry, StatusRecord
    <3>5. QED
      BY <3>1, <3>4 DEF Coherent, Terminal
  <2>4. CASE ~(seen.plan /\ seen.node # NoNodes) /\ Save([seen EXCEPT !.phase = "Validating"])
    <3>1. worker'.status = [seen EXCEPT !.phase = "Validating"] /\ worker'.pc = "write"
      BY <2>4, OutcomeCopy
    <3>2. seen.node = NoNodes
      BY <2>4 DEF Coherent
    <3>3. QED
      BY <1>0, <2>1, <3>1, <3>2 DEF Coherent, StatusRecord
  <2>5. QED
    BY <1>8, <2>2, <2>3, <2>4 DEF RetryBlocked
<1>9. CASE Executing
  <2>1. seen.phase = "Executing" /\ seen.gate = ""
    BY <1>9 DEF Executing, Dispatched, Reading, Coherent, Terminal
  <2>2. CASE Fail(seen) \/ CompleteExecution(seen)
    BY <1>0, <2>1, <2>2, EndCoherent, CompleteExecutionCoherent
  <2>3. CASE HeldByUncordonGate
             /\ Save([seen EXCEPT !.gate = "Uncordon", !.phase = "AwaitingApproval"])
    <3>1. /\ worker'.status = [seen EXCEPT !.gate = "Uncordon", !.phase = "AwaitingApproval"]
          /\ worker'.pc = "write"
      BY <2>3, OutcomeCopy
    <3>2. \E n \in Node : seen.node[n] = "PostCheck"
      BY <2>3 DEF HeldByUncordonGate, InPhase
    <3>3. seen.plan
      BY <3>2, ListedIsSome DEF Coherent, Unlisted
    <3>4. QED
      BY <1>0, <3>1, <3>2, <3>3 DEF Coherent, StatusRecord
  <2>4. ASSUME NEW todo, NEW k, NEW slots, NEW o,
               worker' = [Holding("step", seen) EXCEPT !.todo = todo, !.inFlight = k,
                             !.slots = slots, !.open = o]
        PROVE  worker'.status = seen
    BY <2>4, EmptyTyped DEF Holding, WorkerRecord
  <2>5. CASE \E todo, k, slots, o :
               worker' = [Holding("step", seen) EXCEPT !.todo = todo, !.inFlight = k,
                             !.slots = slots, !.open = o]
    <3>1. worker'.status = seen
      <4>1. PICK todo, k, slots, o :
              worker' = [Holding("step", seen) EXCEPT !.todo = todo, !.inFlight = k,
                            !.slots = slots, !.open = o]
        BY <2>5
      <4>2. QED
        BY <4>1, <2>4
    <3>2. Coherent(worker'.status)
      BY <1>0, <3>1
    <3>3. QED
      BY <2>1, <3>1, <3>2
  <2>6. \/ Fail(seen) \/ CompleteExecution(seen)
        \/ HeldByUncordonGate
           /\ Save([seen EXCEPT !.gate = "Uncordon", !.phase = "AwaitingApproval"])
        \/ \E todo, k, slots, o :
              worker' = [Holding("step", seen) EXCEPT !.todo = todo, !.inFlight = k,
                            !.slots = slots, !.open = o]
    BY <1>9 DEF Executing
  <2>7. QED
    BY <2>2, <2>3, <2>5, <2>6
<1>10. QED
  BY <1>1, <1>2, <1>3, <1>4, <1>5, <1>6, <1>7, <1>8, <1>9 DEF Reconcile

\* So does every step of the loop, whether it goes on or ends.
LEMMA ContinueCoherent ==
  ASSUME TypeOK, NEW n \in Node, NEW s \in StatusRecord, NEW k,
         Coherent(s), s.phase = "Executing", worker.pc = "step", Continue(n, s, k) \/ Save(s)
  PROVE  Coherent(worker'.status) /\ (worker'.pc = "step" => worker'.status.phase = "Executing")
<1>1. CASE worker' = [worker EXCEPT !.status = s, !.inFlight = k, !.todo = @ \ {n}]
  BY <1>1 DEF TypeOK, WorkerRecord
<1>2. CASE CompleteExecution(s)
  BY <1>2, CompleteExecutionCoherent
<1>3. CASE Save(s)
  BY <1>3, OutcomeCopy
<1>4. QED
  BY <1>1, <1>2, <1>3 DEF Continue

\* A round of the loop leaves a copy whose fields agree.
LEMMA StepNodeCoherent ==
  ASSUME TypeOK, StepNode, Coherent(worker.status), StepsExecuting
  PROVE  Coherent(worker'.status) /\ (worker'.pc = "step" => worker'.status.phase = "Executing")
<1> DEFINE old == worker.status
<1> PICK n \in Node : \/ StartNode(n) \/ CordonNode(n) \/ DrainNode(n) \/ CheckNode(n)
                      \/ UncordonNode(n) \/ ReplaceNode(n) \/ AwaitNode(n) \/ NodeError(n)
  BY DEF StepNode
<1>1. worker.pc = "step" /\ old.node[n] # Unlisted
  BY DEF StartNode, CordonNode, DrainNode, CheckNode, UncordonNode, ReplaceNode, AwaitNode,
     NodeError, Visiting, InFlightPhases, Unlisted
<1>2. old \in StatusRecord /\ old.phase = "Executing" /\ old.plan /\ old.gate = ""
  BY <1>1, ListedIsSome DEF TypeOK, WorkerRecord, StepsExecuting, Coherent, Terminal
<1> HIDE DEF old
<1>3. ASSUME NEW p \in NodePhase
      PROVE  LET s == [old EXCEPT !.node[n] = p]
             IN  s \in StatusRecord /\ Coherent(s) /\ s.phase = "Executing"
  <2> DEFINE s == [old EXCEPT !.node[n] = p]
  <2>1. s \in StatusRecord
    BY <1>2, NodeTyped
  <2>2. s.phase = "Executing" /\ s.plan /\ s.gate = ""
    BY <1>2 DEF StatusRecord
  <2>3. QED
    BY <2>1, <2>2 DEF Coherent, Terminal
<1>4. ASSUME NEW b \in [Node -> Nat], NEW p \in NodePhase
      PROVE  LET r == [old EXCEPT !.baseline = b]
                 s == [r EXCEPT !.node[n] = p]
             IN  /\ r \in StatusRecord /\ Coherent(r) /\ r.phase = "Executing"
                 /\ s \in StatusRecord /\ Coherent(s) /\ s.phase = "Executing"
  <2> DEFINE r == [old EXCEPT !.baseline = b]
             s == [r EXCEPT !.node[n] = p]
  <2>1. r \in StatusRecord /\ r.phase = "Executing" /\ r.plan /\ r.gate = ""
    BY <1>2 DEF StatusRecord
  <2> HIDE DEF r
  <2>2. s \in StatusRecord
    BY <2>1, NodeTyped
  <2>3. s.phase = "Executing" /\ s.plan /\ s.gate = ""
    BY <2>1 DEF StatusRecord
  <2>4. QED
    BY <2>1, <2>2, <2>3 DEF Coherent, Terminal, r
<1>5. Coherent(old)
  BY DEF old
<1>6. CASE ReplaceNode(n)
  <2>1. PICK b \in [Node -> Nat] : WithBaseline(n, old) = [old EXCEPT !.baseline = b]
    <3>1. CASE TargetVersionSet
      <4>1. [old.baseline EXCEPT ![n] = ready] \in [Node -> Nat]
        BY <1>2 DEF TypeOK, StatusRecord
      <4>2. WithBaseline(n, old) = [old EXCEPT !.baseline = [old.baseline EXCEPT ![n] = ready]]
        BY <1>2, <3>1 DEF WithBaseline, StatusRecord
      <4>3. QED
        BY <4>1, <4>2
    <3>2. CASE ~TargetVersionSet
      <4>1. WithBaseline(n, old) = [old EXCEPT !.baseline = old.baseline]
        BY <1>2, <3>2 DEF WithBaseline, StatusRecord
      <4>2. QED
        BY <1>2, <4>1 DEF StatusRecord
    <3>3. QED
      BY <3>1, <3>2
  <2> DEFINE r == [old EXCEPT !.baseline = b]
  <2>2. {"AwaitingReplacement", "Failed"} \subseteq NodePhase
    BY DEF NodePhase, InFlightPhases, NodeTerminal
  <2>3. \/ Continue(n, [r EXCEPT !.node[n] = "AwaitingReplacement"], worker.inFlight)
        \/ Continue(n, [r EXCEPT !.node[n] = "Failed"], worker.inFlight - 1)
        \/ Save(r)
    BY <1>6, <2>1 DEF ReplaceNode, old
  <2>4. /\ r \in StatusRecord /\ Coherent(r) /\ r.phase = "Executing"
        /\ \A p \in {"AwaitingReplacement", "Failed"} :
             LET s == [r EXCEPT !.node[n] = p]
             IN  s \in StatusRecord /\ Coherent(s) /\ s.phase = "Executing"
    BY <1>4, <2>2
  <2> HIDE DEF r
  <2>5. QED
    BY <1>1, <2>3, <2>4, ContinueCoherent
<1>7. CASE ~ReplaceNode(n)
  <2>1. \/ \E k : Continue(n, old, k) \/ Save(old)
        \/ \E p \in NodePhase : \E k : Continue(n, [old EXCEPT !.node[n] = p], k)
    <3>1. {"Cordoning", "Draining", "PostCheck", "Uncordoning", "Replacing",
           "Completed", "Blocked", "Skipped"} \subseteq NodePhase
      BY DEF NodePhase, InFlightPhases, NodeTerminal
    <3>2. Stays(n) \/ Save(old) \/ \E p \in NodePhase : Becomes(n, p)
      BY <1>7, <3>1 DEF StartNode, CordonNode, DrainNode, CheckNode, UncordonNode, AwaitNode,
         NodeError, old
    <3>3. QED
      BY <3>2 DEF Stays, Becomes, old
  <2>2. QED
    BY <1>1, <1>2, <1>3, <1>5, <2>1, ContinueCoherent
<1>8. QED
  BY <1>6, <1>7

-----------------------------------------------------------------------------
\* A new request agrees with itself.
LEMMA EmptyCoherent == Coherent(EmptyStatus) /\ Idle.status = EmptyStatus /\ Idle.pc = "idle"
BY DEF Coherent, EmptyStatus, Idle

\* The fields of an empty status agree.
LEMMA ProgressInit == Init => ProgressInv
<1> SUFFICES ASSUME Init PROVE ProgressInv
  OBVIOUS
<1>1. /\ status = EmptyStatus /\ cache.status = EmptyStatus
      /\ worker.status = EmptyStatus /\ worker.pc = "idle"
  BY EmptyCoherent DEF Init
<1>2. QED
  BY <1>1, EmptyCoherent DEF ProgressInv, StepsExecuting

\* Every step, or none, keeps the invariant.
LEMMA ProgressNext == TypeOK /\ ProgressInv /\ [Next]_vars => ProgressInv'
<1> SUFFICES ASSUME TypeOK, ProgressInv, [Next]_vars PROVE ProgressInv'
  OBVIOUS
<1>c. /\ Coherent(status) /\ Coherent(cache.status) /\ Coherent(worker.status)
      /\ worker.pc = "step" => worker.status.phase = "Executing"
  BY DEF ProgressInv, StepsExecuting
<1>p. ASSUME Coherent(status'), Coherent(cache'.status), Coherent(worker'.status),
             worker'.pc = "step" => worker'.status.phase = "Executing"
      PROVE  ProgressInv'
  BY <1>p DEF ProgressInv, StepsExecuting, Coherent
<1>i. /\ [Idle EXCEPT !.pc = "audit"].status = EmptyStatus
      /\ [Idle EXCEPT !.pc = "audit"].pc = "audit"
  BY EmptyTyped, EmptyCoherent DEF WorkerRecord
<1>1. CASE Reconcile /\ ~ObserveTerminal
  <2>1. Coherent(worker'.status) /\ (worker'.pc = "step" => worker'.status.phase = "Executing")
    BY <1>1, <1>c, ReconcileCoherent DEF seen
  <2>2. UNCHANGED <<status, cache>>
    BY <1>1, ReconcileShape
  <2>3. QED
    BY <2>1, <2>2, <1>c, <1>p
<1>2. CASE ObserveTerminal
  BY <1>2, <1>c, <1>p DEF ObserveTerminal, Reading
<1>3. CASE StepNode
  <2>1. Coherent(worker'.status) /\ (worker'.pc = "step" => worker'.status.phase = "Executing")
    BY <1>3, <1>c, StepNodeCoherent DEF StepsExecuting
  <2>2. UNCHANGED <<status, cache>>
    BY <1>3, StepNodeShape
  <2>3. QED
    BY <2>1, <2>2, <1>c, <1>p
<1>4. CASE \E n \in Node : ReleaseNode(n)
  <2>1. UNCHANGED <<status, cache>> /\ worker'.status = worker.status /\ worker'.pc # "step"
    BY <1>4 DEF ReleaseNode, request, TypeOK, WorkerRecord
  <2>2. Coherent(worker'.status)
    BY <2>1, <1>c
  <2>3. QED
    BY <2>1, <2>2, <1>c, <1>p
<1>5. CASE Write
  <2>1. status' = worker.status /\ cache' = cache
    BY <1>5 DEF Write
  <2>2. worker'.status = EmptyStatus /\ worker'.pc # "step"
    BY <1>5, <1>i, EmptyCoherent DEF Write
  <2>3. QED
    BY <2>1, <2>2, <1>c, <1>p, EmptyCoherent
<1>6. CASE Conflict \/ AuditTerminal
  <2>1. UNCHANGED <<status, cache>> /\ worker' = Idle
    BY <1>6 DEF Conflict, AuditTerminal, request
  <2>2. QED
    BY <2>1, <1>c, <1>p, EmptyCoherent
<1>7. CASE Deliver
  BY <1>7, <1>c, <1>p DEF Deliver
<1>8. CASE Crash
  <2>1. UNCHANGED status /\ cache'.status = status /\ worker' = Idle
    BY <1>8 DEF Crash
  <2>2. QED
    BY <2>1, <1>c, <1>p, EmptyCoherent
<1>9. CASE User \/ Environment \/ UNCHANGED vars
  <2>1. UNCHANGED <<status, cache>> /\ worker'.pc = worker.pc
    BY <1>9, OutsideShape
  <2>2. worker'.status = worker.status
    <3>1. ASSUME NEW sp, Edit(sp) PROVE worker'.status = worker.status
      BY <3>1 DEF Edit, TypeOK, WorkerRecord
    <3>2. QED
      BY <1>9, <3>1 DEF User, TogglePause, ToggleCancel, ChangeMode, ChangePolicy, Decide,
         Environment, PodsLeave, Schedule, NodeGoes, Join, GlobalTimeout,
         EnvironmentUnchanged, vars
  <2>3. QED
    BY <2>1, <2>2, <1>c, <1>p
<1>10. QED
  BY <1>1, <1>2, <1>3, <1>4, <1>5, <1>6, <1>7, <1>8, <1>9 DEF Next, Pass, Poll, Reconcile

\* The invariant holds in every reachable state.
THEOREM ProgressCorrect == Spec => [](TypeOK /\ ProgressInv)
BY TypeInit, TypeNext, ProgressInit, ProgressNext, PTL DEF Spec

\* A request waiting at the drain gate has begun nothing, one waiting at the
\* uncordon gate has a node to hand back: a decision, or a resume after a pause,
\* leads on from where the request stood, for every plan and however edits,
\* pauses, conflicts and restarts interleave.
THEOREM GateAgrees == Spec => []GateMatchesProgress
<1>1. ProgressInv => GateMatchesProgress
  BY DEF ProgressInv, Coherent, GateMatchesProgress, Persisted, InPhase
<1>2. QED
  BY <1>1, ProgressCorrect, PTL

\* A request blocked in execution always has a blocked node to retry.
THEOREM BlockedCanRetry == Spec => []BlockedIsRetryable
<1>1. ProgressInv => BlockedIsRetryable
  BY DEF ProgressInv, Coherent, BlockedIsRetryable, Persisted, InPhase
<1>2. QED
  BY <1>1, ProgressCorrect, PTL
=============================================================================
