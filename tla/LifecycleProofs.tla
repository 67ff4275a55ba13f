--------------------------- MODULE LifecycleProofs ---------------------------
(***************************************************************************)
(* The reconciler implements Lifecycle, for every value of the constants:  *)
(* the persisted phase moves along the table of internal/statemachine, and *)
(* no node is begun before the drain gate has been open.                   *)
(***************************************************************************)
EXTENDS NodeProofs

\* Abstract!MayMove, in the words of this module.
MayGo(from, to) ==
  from = to \/ to \in Transitions[from] \/ (from = "Pending" /\ to \in Transitions["Validating"])

\* A write that begins the first node leaves the request Executing, with that
\* node about to be cordoned.
FirstBegins(s) ==
  InPhase(s, Begun) # {} /\ InPhase(status, Begun) = {} =>
    /\ status.phase = "Executing" /\ s.phase = "Executing"
    /\ \E n \in Node : s.node[n] = "Cordoning" /\ (worker.pc = "step" => n \notin worker.todo)

\* The inductive invariant, over a copy that can still be written.
LifeInv ==
  worker.pc \in Working /\ worker.fresh =>
    /\ MayGo(status.phase, worker.status.phase)
    /\ worker.pc = "step" => status.phase = "Executing"
    /\ InPhase(status, Begun) \subseteq InPhase(worker.status, Begun)
    /\ FirstBegins(worker.status)

-----------------------------------------------------------------------------
\* The table of the abstraction is the table of the controller.
LEMMA MayGoIsMayMove ==
  ASSUME NEW from, NEW to, MayGo(from, to)
  PROVE  Abstract!MayMove(from, to)
<1>1. Abstract!Transitions = Transitions
  BY DEF Abstract!Transitions, Transitions, Abstract!Terminal, Terminal
<1>2. QED
  BY <1>1 DEF MayGo, Abstract!MayMove, Abstract!CanTransition

\* The rows of the table that the handlers use.
LEMMA Table ==
  /\ \A p \in Live : {"Failed", "Cancelled"} \subseteq Transitions[p]
  /\ \A p \in Pausable : "Paused" \in Transitions[p]
  /\ "Pending" \in Transitions["New"]
  /\ {"AwaitingApproval", "Planned", "Blocked", "Completed", "Failed", "Cancelled"}
       \subseteq Transitions["Validating"]
  /\ {"Planned", "Executing"} \subseteq Transitions["AwaitingApproval"]
  /\ {"Executing", "Completed"} \subseteq Transitions["Planned"]
  /\ {"AwaitingApproval", "Validating", "Planned", "Executing"} \subseteq Transitions["Paused"]
  /\ {"Executing", "Validating"} \subseteq Transitions["Blocked"]
  /\ {"AwaitingApproval", "Blocked", "Completed"} \subseteq Transitions["Executing"]
BY DEF Transitions, Terminal, Live, Phase, Pausable

\* The phase a pass ends with.
LEMMA EndPhase ==
  ASSUME TypeOK, NEW s \in StatusRecord
  PROVE  /\ Save(s) => worker'.status.phase = s.phase
         /\ Fail(s) => worker'.status.phase = "Failed"
         /\ Complete(s) => worker'.status.phase = "Completed"
         /\ \A r \in BOOLEAN : Cancel(s, r) => worker'.status.phase = "Cancelled"
<1>1. ASSUME NEW p, NEW todo, Finish(s, p, todo)
      PROVE  worker'.status.phase = p
  <2>1. worker'.status = [s EXCEPT !.phase = p]
    BY <1>1, OutcomeCopy
  <2>2. QED
    BY <2>1 DEF StatusRecord
<1>2. QED
  BY <1>1, OutcomeCopy DEF Fail, Complete, Cancel

\* Every handler moves the request along the table.
LEMMA ReconcileMoves ==
  ASSUME TypeOK, Reconcile, ~ObserveTerminal, Coherent(seen)
  PROVE  /\ MayGo(seen.phase, worker'.status.phase)
         /\ worker'.pc = "step" => seen.phase = "Executing"
<1> DEFINE to == worker'.status.phase
<1>0. seen \in StatusRecord
  BY SeenTyped
<1>p. ASSUME NEW p \in Phase
      PROVE  LET s == [seen EXCEPT !.phase = p] IN s \in StatusRecord /\ s.phase = p
  BY <1>0 DEF StatusRecord
<1>g. ASSUME NEW g, NEW p, Save([seen EXCEPT !.gate = g, !.phase = p])
      PROVE  to = p
  <2>1. worker'.status = [seen EXCEPT !.gate = g, !.phase = p]
    BY <1>g, OutcomeCopy
  <2>2. QED
    BY <1>0, <2>1 DEF StatusRecord
<1>q. {"New", "Pending", "Validating", "AwaitingApproval", "Planned", "Executing", "Paused",
       "Blocked", "Completed", "Failed", "Cancelled"} = Phase
  BY DEF Phase, Terminal
<1>s. worker'.pc = "step" => seen.phase = "Executing"
  <2>1. ASSUME NEW s, Save(s) PROVE worker'.pc # "step"
    BY <2>1, OutcomeCopy
  <2>2. ASSUME NEW s, Fail(s) \/ Complete(s) \/ (\E r \in BOOLEAN : Cancel(s, r))
        PROVE  worker'.pc # "step"
    BY <2>2, OutcomeCopy DEF Fail, Complete, Cancel
  <2>3. CASE Executing
    BY <2>3 DEF Executing, Dispatched, Reading
  <2>4. CASE Accept \/ UserCancel \/ Pause \/ PolicyUnresolved \/ Validating \/ AwaitingApproval
    BY <2>1, <2>2, <2>4 DEF Accept, UserCancel, Pause, PolicyUnresolved, Validating,
       AwaitingApproval
  <2>5. CASE Planned \/ Resume \/ RetryBlocked
    BY <2>1, <2>2, <2>5 DEF Planned, Resume, RetryBlocked
  <2>6. QED
    BY <2>3, <2>4, <2>5 DEF Reconcile
<1>1. CASE Accept
  <2>1. seen.phase = "New" /\ to = "Pending"
    BY <1>1, <1>p, <1>q, EndPhase DEF Accept, Reading, InitialPhase
  <2>2. QED
    BY <1>s, <2>1, Table DEF MayGo
<1>2. CASE UserCancel \/ PolicyUnresolved
  <2>1. seen.phase \in Live /\ to \in {"Failed", "Cancelled"}
    BY <1>0, <1>2, EndPhase DEF UserCancel, PolicyUnresolved, Dispatched, Reading
  <2>2. QED
    BY <1>s, <2>1, Table DEF MayGo
<1>3. CASE Pause
  <2>1. seen.phase \in Pausable /\ to = "Paused"
    BY <1>3, <1>p, <1>q, EndPhase DEF Pause, Reading
  <2>2. QED
    BY <1>s, <2>1, Table DEF MayGo
<1>4. CASE Validating
  <2> DEFINE waiting == [Validated EXCEPT !.gate = "Drain", !.phase = "AwaitingApproval"]
             planned == [Validated EXCEPT !.phase = "Planned"]
             blocked == [seen EXCEPT !.phase = "Blocked"]
  <2>1. seen.phase \in {"Pending", "Validating"}
    BY <1>4 DEF Validating, Dispatched, Reading
  <2>2. Validated \in StatusRecord
    BY <1>0 DEF Validated, StatusRecord
  <2>3. /\ waiting \in StatusRecord /\ waiting.phase = "AwaitingApproval"
        /\ planned \in StatusRecord /\ planned.phase = "Planned"
        /\ blocked \in StatusRecord /\ blocked.phase = "Blocked"
    BY <1>0, <1>q, <2>2 DEF StatusRecord, Gate
  <2>4. \/ Fail(seen) \/ Complete(seen) \/ Complete(Validated) \/ Cancel(Validated, FALSE)
        \/ Save(blocked) \/ Save(waiting) \/ Save(planned)
    BY <1>4 DEF Validating
  <2> HIDE DEF waiting, planned, blocked
  <2>5. to \in {"AwaitingApproval", "Planned", "Blocked", "Completed", "Failed", "Cancelled"}
    BY <1>0, <2>2, <2>3, <2>4, EndPhase
  <2>6. QED
    BY <1>s, <2>1, <2>5, Table DEF MayGo
<1>5. CASE AwaitingApproval
  <2>1. seen.phase = "AwaitingApproval" /\ seen.gate # ""
    BY <1>5 DEF AwaitingApproval, Dispatched, Reading, Coherent
  <2>2. Cancel(seen, FALSE) \/ Save(PassGate(seen, seen.gate))
    BY <1>5, <2>1 DEF AwaitingApproval
  <2>3. NextPhaseAfterGate(seen.gate) \in {"Planned", "Executing"}
    BY DEF NextPhaseAfterGate
  <2>4. to \in {"Cancelled", "Planned", "Executing"}
    BY <1>0, <1>g, <2>2, <2>3, EndPhase DEF PassGate
  <2>5. "AwaitingApproval" \in Live
    BY <1>q DEF Live, Terminal
  <2>6. QED
    BY <1>s, <2>1, <2>4, <2>5, Table DEF MayGo
<1>6. CASE Planned
  <2> DEFINE planned == [seen EXCEPT !.plan = TRUE]
             started(target) == [planned EXCEPT !.phase = "Executing", !.started = TRUE,
                          !.node = IF @ = NoNodes THEN InitNodeStatuses(target) ELSE @]
  <2>1. seen.phase = "Planned"
    BY <1>6 DEF Planned, Dispatched, Reading
  <2>2. planned \in StatusRecord /\ planned.phase = "Planned"
    BY <1>0, <2>1 DEF StatusRecord
  <2>3. \/ Fail(seen) \/ Fail(planned) \/ Complete(planned) \/ Save(planned)
        \/ \E target : Save(started(target))
    BY <1>6 DEF Planned
  <2> HIDE DEF planned
  <2>4. ASSUME NEW target, Save(started(target))
        PROVE  to = "Executing"
    <3>1. worker'.status = started(target)
      BY <2>4, OutcomeCopy
    <3>2. QED
      BY <2>2, <3>1 DEF StatusRecord
  <2>5. to \in {"Failed", "Completed", "Planned", "Executing"}
    BY <1>0, <2>2, <2>3, <2>4, EndPhase
  <2>6. "Planned" \in Live
    BY <1>q DEF Live, Terminal
  <2>7. QED
    BY <1>s, <2>1, <2>5, <2>6, Table DEF MayGo
<1>7. CASE Resume
  <2>1. seen.phase = "Paused" /\ to = ResumePhase(seen)
    BY <1>7, <1>p, PhasesTyped, EndPhase DEF Resume, Dispatched, Reading
  <2>2. QED
    BY <1>s, <2>1, Table DEF MayGo, ResumePhase
<1>8. CASE RetryBlocked
  <2>1. seen.phase = "Blocked"
    BY <1>8 DEF RetryBlocked, Dispatched, Reading
  <2>2. Retry(seen) \in StatusRecord /\ Retry(seen).phase = "Executing"
    BY <1>0, <1>q DEF Retry, StatusRecord, NodePhase, InFlightPhases
  <2>3. Fail(seen) \/ Save(Retry(seen)) \/ Save([seen EXCEPT !.phase = "Validating"])
    BY <1>8 DEF RetryBlocked
  <2>4. to \in {"Failed", "Executing", "Validating"}
    BY <1>0, <1>p, <1>q, <2>2, <2>3, EndPhase
  <2>5. "Blocked" \in Live
    BY <1>q DEF Live, Terminal
  <2>6. QED
    BY <1>s, <2>1, <2>4, <2>5, Table DEF MayGo
<1>9. CASE Executing
  <2>1. seen.phase = "Executing"
    BY <1>9 DEF Executing, Dispatched, Reading
  <2>2. CASE CurrentBatch(seen) = {} /\ CompleteExecution(seen)
    BY <1>0, <1>s, <2>1, <2>2, CompleteExecutionOutcome, Table, <1>q DEF MayGo, Live, Terminal
  <2>3. CASE Fail(seen) \/ Save([seen EXCEPT !.gate = "Uncordon", !.phase = "AwaitingApproval"])
    <3>1. to \in {"Failed", "AwaitingApproval"}
      BY <1>0, <1>g, <2>3, EndPhase
    <3>2. "Executing" \in Live
      BY <1>q DEF Live, Terminal
    <3>3. QED
      BY <1>s, <2>1, <3>1, <3>2, Table DEF MayGo
  <2>4. CASE \E todo, k, slots, o :
               worker' = [Holding("step", seen) EXCEPT !.todo = todo, !.inFlight = k,
                             !.slots = slots, !.open = o]
    <3>1. PICK todo, k, slots, o :
            worker' = [Holding("step", seen) EXCEPT !.todo = todo, !.inFlight = k,
                          !.slots = slots, !.open = o]
      BY <2>4
    <3>2. worker'.status = seen
      BY <3>1, EmptyTyped DEF Holding, WorkerRecord
    <3>3. QED
      BY <1>s, <3>2 DEF MayGo
  <2>5. \/ Fail(seen)
        \/ Save([seen EXCEPT !.gate = "Uncordon", !.phase = "AwaitingApproval"])
        \/ CurrentBatch(seen) = {} /\ CompleteExecution(seen)
        \/ \E todo, k, slots, o :
              worker' = [Holding("step", seen) EXCEPT !.todo = todo, !.inFlight = k,
                            !.slots = slots, !.open = o]
    BY <1>9 DEF Executing
  <2>6. QED
    BY <2>2, <2>3, <2>4, <2>5
<1>10. QED
  BY <1>1, <1>2, <1>3, <1>4, <1>5, <1>6, <1>7, <1>8, <1>9 DEF Reconcile

-----------------------------------------------------------------------------
\* The invariant holds before anything is read.
LEMMA LifeInit == Init => LifeInv
BY DEF Init, Idle, LifeInv, Working

\* A status just read begins nothing that was not begun.
LEMMA LifeReconcile ==
  ASSUME TypeOK, EndInv, ProgressInv, Reconcile, ~ObserveTerminal
  PROVE  LifeInv'
<1>1. worker'.fresh = synced /\ UNCHANGED <<status, cache>>
  BY ReconcileShape
<1>2. SUFFICES ASSUME synced PROVE LifeInv'
  BY <1>1 DEF LifeInv
<1>3. seen = status
  BY <1>2 DEF EndInv, SyncedAgrees, seen
<1>4. /\ MayGo(status.phase, worker'.status.phase)
      /\ worker'.pc = "step" => status.phase = "Executing"
  BY <1>3, ReconcileMoves DEF ProgressInv, seen
<1>5. \A n \in Node : status.node[n] \in Begun <=> worker'.status.node[n] \in Begun
  <2>1. ReadOutcome
    BY ReconcileOutcome DEF ProgressInv, seen
  <2>2. ASSUME NEW s, Kept(status, s), Outcome(s)
        PROVE  \A n \in Node : status.node[n] \in Begun <=> worker'.status.node[n] \in Begun
    BY <2>2 DEF Kept, Outcome, Begun, InFlightPhases, NodeTerminal, Unlisted
  <2>3. QED
    BY <1>3, <2>1, <2>2 DEF ReadOutcome, StartsLoop
<1>6. InPhase(worker'.status, Begun) = InPhase(status, Begun)
  BY <1>5 DEF InPhase
<1>7. QED
  BY <1>1, <1>4, <1>6 DEF LifeInv, FirstBegins, MayGo, InPhase

\* A round of the loop begins a node by making it Cordoning, and then the pass
\* cannot end the execution.
LEMMA LifeStep ==
  ASSUME TypeOK, ProgressInv, InFlightAgrees, CordonInv, LifeInv, StepNode
  PROVE  LifeInv'
<1>1. /\ worker.pc = "step" /\ worker'.pc \in Working /\ worker'.fresh = worker.fresh
      /\ UNCHANGED status
  BY StepNodeShape
<1>2. SUFFICES ASSUME worker.fresh PROVE LifeInv'
  BY <1>1 DEF LifeInv
<1>3. PICK n \in Node : \E s \in StatusRecord : StepResult(n, s)
  BY StepOutcome DEF ProgressInv
<1>4. PICK s \in StatusRecord : StepResult(n, s)
  BY <1>3
<1>5. /\ n \in worker.todo /\ \A m \in Node \ {n} : s.node[m] = worker.status.node[m]
      /\ MovesNode(n, worker.status.node[n], s.node[n]) /\ GoesOn(n, s)
  BY <1>4 DEF StepResult
<1>6. /\ status.phase = "Executing"
      /\ InPhase(status, Begun) \subseteq InPhase(worker.status, Begun)
      /\ FirstBegins(worker.status)
  BY <1>1, <1>2 DEF LifeInv, Working
<1>7. InPhase(status, Begun) \subseteq InPhase(s, Begun)
  <2>1. worker.status.node[n] \in Begun => s.node[n] \in Begun
    BY <1>5 DEF MovesNode, NodeMoves, Begun, InFlightPhases, NodeTerminal
  <2>2. QED
    BY <1>5, <1>6, <2>1 DEF InPhase
<1>8. ASSUME InPhase(s, Begun) # {}, InPhase(status, Begun) = {}
      PROVE  \E m \in Node : s.node[m] = "Cordoning" /\ m \notin worker.todo \ {n}
  <2>1. CASE InPhase(worker.status, Begun) # {}
    <3>1. PICK m \in Node : worker.status.node[m] = "Cordoning" /\ m \notin worker.todo
      BY <1>1, <1>6, <1>8, <2>1 DEF FirstBegins
    <3>2. QED
      BY <1>5, <3>1
  <2>2. CASE InPhase(worker.status, Begun) = {}
    <3>1. s.node[n] \in Begun /\ worker.status.node[n] \notin Begun
      BY <1>5, <1>8, <2>2 DEF InPhase
    <3>2. s.node[n] = "Cordoning"
      BY <1>5, <3>1 DEF MovesNode, NodeMoves, Begun, InFlightPhases, NodeTerminal
    <3>3. QED
      BY <3>2
  <2>3. QED
    BY <2>1, <2>2
<1>9. worker'.pc = "step" => worker'.status.phase = "Executing"
  BY StepNodeCoherent DEF ProgressInv
<1>10. CASE worker'.pc = "step" /\ worker'.status = s /\ worker'.todo = worker.todo \ {n}
  <2>1. s.phase = "Executing"
    BY <1>9, <1>10
  <2>2. FirstBegins(worker.status)'
    BY <1>1, <1>6, <1>8, <1>10, <2>1 DEF FirstBegins, InPhase
  <2>3. QED
    BY <1>1, <1>6, <1>7, <1>10, <2>1, <2>2 DEF LifeInv, MayGo, InPhase
<1>11. CASE /\ Outcome(s)
            /\ \/ worker'.status.phase = "Executing"
               \/ /\ Unfinished(s) = {}
                  /\ worker'.status.phase \in {"Failed", "Blocked", "Completed"}
  <2>1. worker'.pc # "step" /\ worker'.status.node = s.node
    BY <1>11 DEF Outcome
  <2>2. "Executing" \in Live
    BY DEF Live, Phase, Terminal
  <2>3. MayGo(status.phase, worker'.status.phase)
    BY <1>6, <1>11, <2>2, Table DEF MayGo
  <2>4. (\E m \in Node : s.node[m] = "Cordoning") => Unfinished(s) # {}
    BY DEF Unfinished, NodeTerminal, Unlisted
  <2>5. FirstBegins(worker.status)'
    BY <1>1, <1>6, <1>8, <1>11, <2>1, <2>4 DEF FirstBegins, InPhase
  <2>6. QED
    BY <1>1, <1>7, <2>1, <2>3, <2>5 DEF LifeInv, MayGo, InPhase
<1>12. QED
  BY <1>5, <1>10, <1>11 DEF GoesOn

\* Every step, or none, keeps the invariant.
LEMMA LifeNext ==
  TypeOK /\ EndInv /\ ProgressInv /\ InFlightAgrees /\ CordonInv /\ LifeInv /\ [Next]_vars
    => LifeInv'
<1> SUFFICES ASSUME TypeOK, EndInv, ProgressInv, InFlightAgrees, CordonInv, LifeInv, [Next]_vars
             PROVE  LifeInv'
  OBVIOUS
<1>i. ASSUME worker'.pc \notin Working PROVE LifeInv'
  BY <1>i DEF LifeInv
<1>k. ASSUME worker.pc \in Working, worker'.pc = worker.pc \/ worker'.pc # "step",
             worker'.status = worker.status, worker'.fresh => worker.fresh, status' = status,
             worker'.pc = "step" => worker'.todo = worker.todo
      PROVE  LifeInv'
  <2>1. SUFFICES ASSUME worker.fresh PROVE LifeInv'
    BY <1>k DEF LifeInv
  <2>2. FirstBegins(worker.status) => FirstBegins(worker.status)'
    BY <1>k DEF FirstBegins, InPhase
  <2>3. QED
    BY <1>k, <2>1, <2>2 DEF LifeInv, MayGo, InPhase
<1>1. CASE Reconcile /\ ~ObserveTerminal
  BY <1>1, LifeReconcile
<1>2. CASE ObserveTerminal
  BY <1>2, <1>i DEF ObserveTerminal, Reading, Working
<1>3. CASE StepNode
  BY <1>3, LifeStep
<1>4. ASSUME NEW n \in Node, ReleaseNode(n) PROVE LifeInv'
  <2>1. /\ worker.pc = "release" /\ worker'.pc \in {"release", "write"}
        /\ worker'.status = worker.status /\ worker'.fresh = worker.fresh /\ status' = status
    BY <1>4 DEF ReleaseNode, request, TypeOK, WorkerRecord
  <2>2. QED
    BY <1>k, <2>1 DEF Working
<1>5. CASE Write
  <2>1. worker'.pc \in {"idle", "audit"}
    BY <1>5, EmptyTyped DEF Write, WorkerRecord, Idle
  <2>2. QED
    BY <1>i, <2>1 DEF Working
<1>6. CASE Conflict \/ AuditTerminal \/ Crash
  BY <1>6, <1>i DEF Conflict, AuditTerminal, Crash, Idle, Working
<1>7. CASE Deliver
  <2>1. /\ worker'.pc = worker.pc /\ worker'.status = worker.status
        /\ worker'.todo = worker.todo /\ worker'.fresh = worker.fresh /\ status' = status
    BY <1>7 DEF Deliver
  <2>2. QED
    BY <1>i, <1>k, <2>1
<1>8. CASE User \/ Environment \/ UNCHANGED vars
  <2>1. /\ worker'.pc = worker.pc /\ worker'.status = worker.status
        /\ worker'.todo = worker.todo /\ status' = status
        /\ worker'.fresh => worker.fresh
    BY <1>8, OutsideCordons
  <2>2. QED
    BY <1>i, <1>k, <2>1
<1>9. QED
  BY <1>1, <1>2, <1>3, <1>4, <1>5, <1>6, <1>7, <1>8 DEF Next, Pass, Poll, Reconcile

-----------------------------------------------------------------------------
\* A new request is a new request of the abstraction.
LEMMA InitImplements == Init => Abstract!Init
<1> SUFFICES ASSUME Init PROVE Abstract!Init
  OBVIOUS
<1>1. status = EmptyStatus
  BY DEF Init
<1>2. status.phase = "New" /\ Persisted(Begun) = {}
  BY <1>1 DEF EmptyStatus, NoNodes, Persisted, InPhase, Begun, InFlightPhases, NodeTerminal,
     Unlisted
<1>3. hist.drainCleared \in BOOLEAN
  BY TypeInit DEF TypeOK, HistRecord
<1>4. QED
  BY <1>2, <1>3 DEF Abstract!Init

\* Every step of the reconciler is a step of the abstraction, or none: the write
\* of a pass moves the phase or begins the first node, an edit may open the gate.
LEMMA StepImplements ==
  TypeOK /\ EndInv /\ ProgressInv /\ CordonInv /\ GateInv /\ LifeInv /\ [Next]_vars
    => [Abstract!Next]_(Abstract!vars)
<1> SUFFICES ASSUME TypeOK, EndInv, ProgressInv, CordonInv, GateInv, LifeInv, [Next]_vars
             PROVE  Abstract!Next \/ UNCHANGED Abstract!vars
  OBVIOUS
<1>s. ASSUME status' = status, hist'.drainCleared = hist.drainCleared
      PROVE  UNCHANGED Abstract!vars
  BY <1>s DEF Abstract!vars, Persisted, InPhase
<1>1. CASE Write
  <2>1. /\ worker.pc = "write" /\ worker.fresh /\ status' = worker.status /\ hist' = hist
    BY <1>1 DEF Write, Accepted
  <2>2. /\ MayGo(status.phase, worker.status.phase)
        /\ InPhase(status, Begun) \subseteq InPhase(worker.status, Begun)
        /\ FirstBegins(worker.status)
    BY <2>1 DEF LifeInv, Working
  <2>3. \A s : HeldAtGate(s) /\ s.phase = "Executing" => hist.drainCleared = TRUE
    BY DEF HeldAtGate, BeforeGate, Terminal, TypeOK, HistRecord
  <2>4. Persisted(Begun) = InPhase(status, Begun)
        /\ Persisted(Begun)' = InPhase(worker.status, Begun)
    BY <2>1 DEF Persisted, InPhase
  <2>5. CASE InPhase(worker.status, Begun) # {} /\ InPhase(status, Begun) = {}
    <3>1. status.phase = "Executing" /\ status'.phase = "Executing"
      BY <2>1, <2>2, <2>5 DEF FirstBegins
    <3>2. hist.drainCleared = TRUE
      BY <2>3, <3>1 DEF GateInv
    <3>3. Abstract!Begin
      BY <2>1, <2>4, <2>5, <3>1, <3>2 DEF Abstract!Begin
    <3>4. QED
      BY <3>3 DEF Abstract!Next
  <2>6. CASE ~(InPhase(worker.status, Begun) # {} /\ InPhase(status, Begun) = {})
    <3>1. (Persisted(Begun) # {})' = (Persisted(Begun) # {})
      BY <2>2, <2>4, <2>6
    <3>2. status'.phase \in Phase
      BY <2>1 DEF TypeOK, WorkerRecord, StatusRecord
    <3>3. Abstract!MayMove(status.phase, status'.phase)
      BY <2>1, <2>2, MayGoIsMayMove
    <3>4. status'.phase = "Executing" => hist.drainCleared
      BY <2>1, <2>3 DEF GateInv
    <3>5. Abstract!Phase = Phase
      BY DEF Abstract!Phase, Abstract!Terminal, Phase, Terminal
    <3>6. Abstract!Move
      BY <2>1, <3>1, <3>2, <3>3, <3>4, <3>5 DEF Abstract!Move
    <3>7. QED
      BY <3>6 DEF Abstract!Next
  <2>7. QED
    BY <2>5, <2>6
<1>2. CASE Pass /\ ~Write
  <2>1. hist'.drainCleared = hist.drainCleared
    BY <1>2, PassKeepsCleared
  <2>2. status' = status
    <3>1. CASE Reconcile
      BY <3>1, ReconcileShape DEF ObserveTerminal, Reading
    <3>2. CASE StepNode \/ (\E n \in Node : ReleaseNode(n))
      BY <3>2, StepNodeShape, ReleaseShape
    <3>3. CASE Conflict \/ AuditTerminal
      BY <3>3 DEF Conflict, AuditTerminal, request
    <3>4. QED
      BY <1>2, <3>1, <3>2, <3>3 DEF Pass
  <2>3. QED
    BY <1>s, <2>1, <2>2
<1>3. CASE Deliver \/ Crash \/ Poll \/ UNCHANGED vars
  BY <1>3, <1>s DEF Deliver, Crash, Poll, vars, request
<1>4. ASSUME NEW sp, Edit(sp) PROVE Abstract!Next \/ UNCHANGED Abstract!vars
  <2>1. /\ status' = status
        /\ hist'.drainCleared = (hist.drainCleared \/ Cleared(sp, "Drain"))
    BY <1>4 DEF Edit, TypeOK, HistRecord
  <2>2. hist.drainCleared \in BOOLEAN /\ Cleared(sp, "Drain") \in BOOLEAN
    BY DEF TypeOK, HistRecord, Cleared
  <2>3. CASE Cleared(sp, "Drain")
    <3>1. Abstract!Clear
      BY <2>1, <2>2, <2>3 DEF Abstract!Clear, Persisted, InPhase
    <3>2. QED
      BY <3>1 DEF Abstract!Next
  <2>4. CASE ~Cleared(sp, "Drain")
    BY <1>s, <2>1, <2>2, <2>4
  <2>5. QED
    BY <2>3, <2>4
<1>5. CASE Environment
  <2>1. status' = status /\ hist'.drainCleared = hist.drainCleared
    BY <1>5 DEF Environment, PodsLeave, Schedule, NodeGoes, Join, GlobalTimeout,
       EnvironmentUnchanged, request, TypeOK, HistRecord
  <2>2. QED
    BY <1>s, <2>1
<1>6. QED
  BY <1>1, <1>2, <1>3, <1>4, <1>5 DEF Next, User, TogglePause, ToggleCancel, ChangeMode,
     ChangePolicy, Decide

\* The reconciler of one request implements the abstract life of a request: those
\* who watch its status see the phase move along the table only, no terminal
\* phase left, and no node begun before the drain gate has been open, for every
\* plan and configuration.
THEOREM ReconcilerImplementsLifecycle == Spec => ImplementsLifecycle
<1>1. /\ TypeOK /\ EndInv /\ ProgressInv /\ CordonInv
      /\ TypeOK /\ ProgressInv /\ InFlightAgrees /\ GateInv /\ LifeInv /\ [Next]_vars
      => GateInv' /\ LifeInv'
  BY GateNext, LifeNext
<1>2. QED
  BY <1>1, CordonCorrect, CountCorrect, GateInit, LifeInit, InitImplements, StepImplements, PTL
  DEF Spec, ImplementsLifecycle, Abstract!Spec
=============================================================================
