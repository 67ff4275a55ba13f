------------------------------ MODULE NodeProofs ------------------------------
(***************************************************************************)
(* The nodes of a request, for every value of the constants.               *)
(* Cordons: a node that the request cordoned is always named where an      *)
(* abort looks for it, an abort hands it back or records that it could     *)
(* not, and Completed leaves nothing undone. Starts: nodes are begun batch *)
(* by batch and into free slots only, and handed back past the uncordon    *)
(* gate only. Replacements: Machines go after the pods, and one node joins *)
(* for each that is reported replaced. Evictions: pods are asked to leave  *)
(* cordoned nodes only.                                                    *)
(***************************************************************************)
EXTENDS ReconcilerProofs, WellFoundedInduction

\* The request hands its nodes back when it is done with them.
HandsBack == UncordonAfter /\ ~ReplaceNodes

\* An end after which no node may be left cordoned.
Aborted(s) == s.phase = "Failed" \/ (s.phase = "Cancelled" /\ s.gate # "Uncordon")

\* Every listed node is done with.
AllDone(s) == \A n \in Node : s.node[n] \in {"Completed", "Skipped", Unlisted}

\* Where a node that was about to be cordoned may be one write later.
AfterCordoning(before, s) ==
  \A n \in Node : before.node[n] = "Cordoning" => s.node[n] \in {"Cordoning", "Draining"}

-----------------------------------------------------------------------------
\* A copy that can still be written was read from the server's own object, which
\* nobody has changed since.
FreshIsCurrent == worker.pc \in Working /\ worker.fresh => synced /\ ~queued

\* Once the request has ended no pass works on it, nor will one before the
\* informer shows the end.
EndIsSeen ==
  status.phase \in Terminal =>
    worker.pc \notin Working /\ (cache.status = status \/ ~queued)

\* The informer's copy is at most one write behind.
CacheLags == AfterCordoning(cache.status, status)

\* So is the copy that the loop works on, in the nodes it has yet to visit.
LoopLags ==
  worker.pc = "step" =>
    \A n \in worker.todo :
      /\ worker.status.node[n] = "Cordoning" => status.node[n] \in {"Cordoning", "Draining"}
      /\ worker.fresh => worker.status.node[n] = status.node[n]

\* What a write would do to the status: it forgets no cordon, it leaves none
\* behind an abort but those whose release failed, and Completed is earned.
WriteKeepsCordons ==
  worker.pc \in Working /\ worker.fresh =>
    /\ AfterCordoning(status, worker.status)
    /\ HandsBack => hist.ours \subseteq InPhase(worker.status, Releasable)
    /\ HandsBack /\ worker.pc # "step" /\ Aborted(worker.status)
         => hist.ours \subseteq hist.releaseFailed \cup worker.todo

WriteIsReady == worker.pc = "write" => worker.todo = {}

CompletedIsEarned ==
  /\ status.phase = "Completed" => AllDone(status)
  /\ worker.pc \in Working /\ worker.status.phase = "Completed" => AllDone(worker.status)

\* What the persisted status says of the cordons, before and after the end.
CordonsAreKnown ==
  HandsBack =>
    /\ status.phase \notin Terminal => hist.ours \subseteq InPhase(status, Releasable)
    /\ Aborted(status) => hist.ours \subseteq hist.releaseFailed
    /\ status.phase = "Completed" => hist.ours = {}

\* The inductive invariant.
CordonInv ==
  /\ FreshIsCurrent /\ EndIsSeen /\ CacheLags /\ LoopLags /\ WriteKeepsCordons
  /\ WriteIsReady /\ CompletedIsEarned /\ CordonsAreKnown

-----------------------------------------------------------------------------
\* What the end of a pass makes of the copy s.
Outcome(s) ==
  /\ worker'.pc \in {"write", "release"} /\ (worker'.pc = "write" => worker'.todo = {})
  /\ worker'.pc = "release" => HandsBack
  /\ worker'.status.node = s.node
  /\ HandsBack /\ Aborted(worker'.status) => InPhase(s, Releasable) \subseteq worker'.todo
  /\ worker'.status.phase = "Completed" => AllDone(s)

\* The nodes of b are those of a, but that the plan may have been listed, or the
\* blocked nodes sent back to Draining.
Kept(a, b) ==
  \A n \in Node : \/ b.node[n] = a.node[n]
                  \/ a.node[n] = "Blocked" /\ b.node[n] = "Draining"
                  \/ a.node[n] = Unlisted /\ b.node[n] = "Pending"

\* Saving a live copy forgets no node.
LEMMA SaveOutcome ==
  ASSUME TypeOK, NEW s, s.phase \notin Terminal, Save(s)
  PROVE  Outcome(s)
<1>1. worker'.status = s /\ worker'.pc = "write" /\ worker'.todo = {}
  BY EmptyTyped DEF Save, Holding, WorkerRecord, Idle
<1>2. QED
  BY <1>1 DEF Outcome, Aborted, Terminal

\* Where ending a request leaves the worker.
LEMMA FinishEffect ==
  ASSUME TypeOK, NEW s \in StatusRecord, NEW p \in Phase, NEW todo \in SUBSET Node,
         Finish(s, p, todo)
  PROVE  /\ worker'.pc \in {"write", "release"} /\ (worker'.pc = "write" <=> worker'.todo = {})
         /\ worker'.todo = todo
         /\ worker'.status.node = s.node /\ worker'.status.gate = s.gate
         /\ worker'.status.phase = p
<1> DEFINE t == [s EXCEPT !.phase = p]
           pc == IF todo = {} THEN "write" ELSE "release"
<1>1. t \in StatusRecord /\ t.node = s.node /\ t.gate = s.gate /\ t.phase = p
  BY DEF StatusRecord
<1> HIDE DEF t
<1>2. Holding(pc, t) \in WorkerRecord
  BY <1>1, HoldingTyped
<1>3. Holding(pc, t).pc = pc /\ Holding(pc, t).status = t
  BY EmptyTyped DEF Holding, WorkerRecord
<1>4. worker' = [Holding(pc, t) EXCEPT !.todo = todo]
  BY DEF Finish, t
<1>5. worker'.pc = pc /\ worker'.status = t /\ worker'.todo = todo
  BY <1>2, <1>3, <1>4 DEF WorkerRecord
<1>6. QED
  BY <1>1, <1>5

\* An abort that releases takes up every node that may be cordoned; one that
\* does not has none, or keeps them for a rejected uncordon gate.
LEMMA EndOutcome ==
  ASSUME TypeOK, NEW s \in StatusRecord,
         \/ Fail(s) \/ Cancel(s, TRUE)
         \/ Cancel(s, FALSE) /\ (s.gate = "Uncordon" \/ s.node = NoNodes)
         \/ Complete(s) /\ AllDone(s)
  PROVE  Outcome(s)
<1>1. {"Failed", "Cancelled", "Completed"} \subseteq Phase
  BY DEF Phase, Terminal
<1>2. NodesToRelease(s) \in SUBSET Node /\ {} \in SUBSET Node
  BY DEF NodesToRelease, InPhase
<1>3. NodesToRelease(s) = IF HandsBack THEN InPhase(s, Releasable) ELSE {}
  BY DEF HandsBack, NodesToRelease
<1>4. CASE Fail(s) \/ Cancel(s, TRUE)
  <2>1. PICK p \in {"Failed", "Cancelled"} : Finish(s, p, NodesToRelease(s))
    BY <1>4 DEF Fail, Cancel
  <2>2. QED
    BY <1>1, <1>2, <1>3, <2>1, FinishEffect DEF Outcome
<1>5. CASE Cancel(s, FALSE) /\ (s.gate = "Uncordon" \/ s.node = NoNodes)
  <2>1. Finish(s, "Cancelled", {})
    BY <1>5 DEF Cancel
  <2>2. s.node = NoNodes => InPhase(s, Releasable) = {}
    BY DEF NoNodes, InPhase, Releasable, Unlisted
  <2>3. QED
    BY <1>1, <1>2, <1>5, <2>1, <2>2, FinishEffect DEF Outcome, Aborted
<1>6. CASE Complete(s) /\ AllDone(s)
  <2>1. Finish(s, "Completed", {})
    BY <1>6 DEF Complete
  <2>2. QED
    BY <1>1, <1>2, <1>6, <2>1, FinishEffect DEF Outcome, Aborted
<1>7. QED
  BY <1>4, <1>5, <1>6

\* A plan with an unfinished node has a current batch: the numbers of batches are
\* well founded.
LEMMA SomeBatch ==
  ASSUME NEW s, CurrentBatch(s) = {}
  PROVE  Unfinished(s) = {}
<1> SUFFICES ASSUME Unfinished(s) # {} PROVE FALSE
  OBVIOUS
<1> DEFINE B == {Batch[n] : n \in Unfinished(s)}
<1>1. B \subseteq Nat /\ B # {}
  BY PlanAssumption DEF Unfinished
<1>2. IsWellFoundedOn(OpToRel(<, Nat), Nat)
  BY NatLessThanWellFounded
<1> HIDE DEF B
<1>3. \E x \in B : \A y \in B : <<y, x>> \notin OpToRel(<, Nat)
  BY <1>1, <1>2, WFMin, Zenon
<1>4. \E x \in B : \A y \in B : ~(y < x)
  BY <1>1, <1>3 DEF OpToRel
<1>5. \E x \in B : \A y \in B : x <= y
  BY <1>1, <1>4
<1>6. QED
  BY <1>5, PlanAssumption DEF B, CurrentBatch, Unfinished

\* completeExecution is called when no node is left to work on, and completes
\* only what is done.
LEMMA CompleteExecutionOutcome ==
  ASSUME TypeOK, NEW s \in StatusRecord, CurrentBatch(s) = {}, CompleteExecution(s)
  PROVE  /\ Outcome(s) /\ Unfinished(s) = {}
         /\ worker'.status.phase \in {"Failed", "Blocked", "Completed"}
         /\ worker'.pc = "release" => InPhase(s, {"Failed"}) # {}
<1>0. ASSUME NEW p \in {"Failed", "Completed"}, NEW todo, Finish(s, p, todo)
      PROVE  worker'.status.phase = p
  <2>1. worker'.status = [s EXCEPT !.phase = p]
    BY <1>0, OutcomeCopy
  <2>2. QED
    BY <2>1 DEF StatusRecord
<1>1. CASE InPhase(s, {"Failed"}) # {} /\ Fail(s)
  BY <1>0, <1>1, EndOutcome, SomeBatch DEF Fail
<1>2. CASE Save([s EXCEPT !.phase = "Blocked"])
  <2> DEFINE b == [s EXCEPT !.phase = "Blocked"]
  <2>1. b.phase = "Blocked" /\ b.node = s.node
    BY DEF StatusRecord
  <2> HIDE DEF b
  <2>2. Outcome(b)
    BY <1>2, <2>1, SaveOutcome DEF b, Terminal
  <2>3. worker'.status = b /\ worker'.pc = "write"
    BY <1>2, OutcomeCopy DEF b
  <2>4. QED
    BY <2>1, <2>2, <2>3, SomeBatch DEF Outcome, InPhase, AllDone
<1>3. CASE InPhase(s, {"Failed", "Blocked"}) = {} /\ Complete(s)
  <2>1. \A n \in Node : s.node[n] \in NodeTerminal \cup {Unlisted}
    BY SomeBatch DEF Unfinished
  <2>2. AllDone(s)
    BY <1>3, <2>1 DEF AllDone, InPhase, NodeTerminal
  <2>3. worker'.status.phase = "Completed" /\ worker'.pc = "write"
    BY <1>0, <1>3, FinishEffect DEF Complete, Phase, Terminal
  <2>4. QED
    BY <1>3, <2>2, <2>3, EndOutcome, SomeBatch
<1>4. QED
  BY <1>1, <1>2, <1>3 DEF CompleteExecution

-----------------------------------------------------------------------------
\* A handler either starts the loop on the status it read, or ends the pass on a
\* copy with the nodes it read.
StartsLoop ==
  /\ worker'.pc = "step" /\ worker'.status = seen /\ worker'.todo = CurrentBatch(seen)
  /\ worker'.inFlight = CountInFlight(seen) /\ worker'.slots <= MaxConcurrent
  /\ worker'.open = UncordonOpen(cache.spec)

ReadOutcome ==
  \/ StartsLoop
  \/ \E s \in StatusRecord : Kept(seen, s) /\ Outcome(s)

\* A status without nodes has nothing left to do, and nothing that is lost by
\* listing the plan.
LEMMA NoNodesDone ==
  ASSUME NEW s, s.node = NoNodes
  PROVE  AllDone(s)
BY DEF AllDone, NoNodes

\* Every handler ends in one of these ways.
LEMMA ReconcileOutcome ==
  ASSUME TypeOK, Reconcile, ~ObserveTerminal, Coherent(seen)
  PROVE  ReadOutcome
<1>0. seen \in StatusRecord
  BY SeenTyped
<1>k. ASSUME NEW s \in StatusRecord, s.node = seen.node, Outcome(s)
      PROVE  ReadOutcome
  BY <1>k DEF ReadOutcome, Kept
<1>s. ASSUME NEW s \in StatusRecord, s.node = seen.node, s.phase \notin Terminal, Save(s)
      PROVE  ReadOutcome
  BY <1>k, <1>s, SaveOutcome
<1>e. ASSUME NEW s \in StatusRecord, s.node = seen.node,
             \/ Fail(s) \/ Cancel(s, TRUE)
             \/ Cancel(s, FALSE) /\ (s.gate = "Uncordon" \/ s.node = NoNodes)
             \/ Complete(s) /\ AllDone(s)
      PROVE  ReadOutcome
  BY <1>k, <1>e, EndOutcome
<1>p. ASSUME NEW p \in Phase
      PROVE  LET s == [seen EXCEPT !.phase = p]
             IN  s \in StatusRecord /\ s.node = seen.node /\ s.phase = p
  BY <1>0 DEF StatusRecord
<1>g. ASSUME NEW g \in Gate \cup {""}, NEW p \in Phase
      PROVE  LET s == [seen EXCEPT !.gate = g, !.phase = p]
             IN  s \in StatusRecord /\ s.node = seen.node /\ s.phase = p
  BY <1>0 DEF StatusRecord
<1>1. CASE Accept
  <2>1. "Pending" \in Phase \ Terminal
    BY DEF Phase, Terminal
  <2>2. QED
    BY <1>1, <1>p, <1>s, <2>1 DEF Accept, InitialPhase
<1>2. CASE UserCancel \/ PolicyUnresolved
  BY <1>0, <1>2, <1>e DEF UserCancel, PolicyUnresolved
<1>3. CASE Pause
  <2>1. "Paused" \in Phase \ Terminal
    BY DEF Phase, Terminal
  <2>2. QED
    BY <1>3, <1>p, <1>s, <2>1 DEF Pause
<1>4. CASE Validating
  <2>1. seen.node = NoNodes
    BY <1>4 DEF Validating, Dispatched, Reading, Coherent
  <2> DEFINE waiting == [Validated EXCEPT !.gate = "Drain", !.phase = "AwaitingApproval"]
             planned == [Validated EXCEPT !.phase = "Planned"]
             blocked == [seen EXCEPT !.phase = "Blocked"]
  <2>2. Validated \in StatusRecord /\ Validated.node = seen.node
    BY <1>0, <2>1 DEF Validated, StatusRecord
  <2>3. waiting \in StatusRecord /\ waiting.node = seen.node /\ waiting.phase \notin Terminal
    BY <2>2 DEF StatusRecord, Gate, Phase, Terminal
  <2>4. planned \in StatusRecord /\ planned.node = seen.node /\ planned.phase \notin Terminal
    BY <2>2 DEF StatusRecord, Phase, Terminal
  <2>5. blocked \in StatusRecord /\ blocked.node = seen.node /\ blocked.phase \notin Terminal
    BY <1>0 DEF StatusRecord, Phase, Terminal
  <2>6. \/ Fail(seen) \/ Complete(seen) \/ Complete(Validated) \/ Cancel(Validated, FALSE)
        \/ Save(blocked) \/ Save(waiting) \/ Save(planned)
    BY <1>4 DEF Validating
  <2> HIDE DEF waiting, planned, blocked
  <2>7. AllDone(seen) /\ AllDone(Validated)
    BY <2>1, <2>2, NoNodesDone
  <2>8. CASE Fail(seen) \/ Complete(seen)
    BY <1>0, <1>e, <2>7, <2>8
  <2>9. CASE Complete(Validated) \/ Cancel(Validated, FALSE)
    BY <1>e, <2>1, <2>2, <2>7, <2>9
  <2>10. QED
    BY <1>s, <2>3, <2>4, <2>5, <2>6, <2>8, <2>9
<1>5. CASE AwaitingApproval
  <2>1. seen.phase = "AwaitingApproval" /\ seen.gate # ""
    BY <1>5 DEF AwaitingApproval, Dispatched, Reading, Coherent
  <2>2. seen.gate \in {"Drain", "Uncordon"}
    BY <1>0, <2>1 DEF StatusRecord, Gate
  <2>3. CASE Cancel(seen, FALSE)
    <3>1. seen.gate = "Uncordon" \/ seen.node = NoNodes
      BY <2>2 DEF Coherent
    <3>2. QED
      BY <1>0, <1>e, <2>3, <3>1
  <2>4. CASE Save(PassGate(seen, seen.gate))
    <3>1. NextPhaseAfterGate(seen.gate) \in Phase \ Terminal
      BY DEF NextPhaseAfterGate, Phase, Terminal
    <3>2. QED
      BY <1>g, <1>s, <2>4, <3>1 DEF PassGate
  <2>5. QED
    BY <1>5, <2>1, <2>3, <2>4 DEF AwaitingApproval
<1>6. CASE Planned
  <2> DEFINE planned == [seen EXCEPT !.plan = TRUE]
             started(target) == [planned EXCEPT !.phase = "Executing", !.started = TRUE,
                          !.node = IF @ = NoNodes THEN InitNodeStatuses(target) ELSE @]
  <2>1. seen.phase = "Planned" /\ seen.node = NoNodes
    BY <1>6 DEF Planned, Dispatched, Reading, Coherent
  <2>2. /\ planned \in StatusRecord /\ planned.node = seen.node
        /\ planned.phase \notin Terminal
    BY <1>0, <2>1 DEF StatusRecord, Terminal
  <2>3. \/ Fail(seen) \/ Fail(planned) \/ Complete(planned) \/ Save(planned)
        \/ \E target : Save(started(target))
    BY <1>6 DEF Planned
  <2> HIDE DEF planned
  <2>4. ASSUME NEW target, Save(started(target))
        PROVE  ReadOutcome
    <3>1. InitNodeStatuses(target) \in [Node -> NodePhase \cup {Unlisted}]
      BY DEF InitNodeStatuses, NodePhase
    <3>2. /\ started(target) \in StatusRecord /\ started(target).phase = "Executing"
          /\ started(target).node = InitNodeStatuses(target)
      BY <2>1, <2>2, <3>1 DEF StatusRecord, Phase
    <3>3. Kept(seen, started(target))
      BY <2>1, <3>2 DEF Kept, NoNodes, InitNodeStatuses
    <3>4. Outcome(started(target))
      BY <2>4, <3>2, SaveOutcome DEF Terminal
    <3>5. QED
      BY <3>2, <3>3, <3>4 DEF ReadOutcome
  <2>5. CASE Complete(planned)
    BY <1>e, <2>1, <2>2, <2>5, NoNodesDone
  <2>6. QED
    BY <1>0, <1>e, <1>s, <2>2, <2>3, <2>4, <2>5
<1>7. CASE Resume
  <2>1. ResumePhase(seen) \in Phase \ Terminal
    BY DEF ResumePhase, Phase, Terminal
  <2>2. QED
    BY <1>7, <1>p, <1>s, <2>1 DEF Resume
<1>8. CASE RetryBlocked
  <2>1. CASE Fail(seen)
    BY <1>0, <1>e, <2>1
  <2>2. CASE Save(Retry(seen))
    <3>1. /\ Retry(seen) \in StatusRecord /\ Retry(seen).phase = "Executing"
          /\ Kept(seen, Retry(seen))
      BY <1>0 DEF Retry, StatusRecord, Phase, NodePhase, InFlightPhases, Kept
    <3>2. Outcome(Retry(seen))
      BY <2>2, <3>1, SaveOutcome DEF Terminal
    <3>3. QED
      BY <3>1, <3>2 DEF ReadOutcome
  <2>3. CASE Save([seen EXCEPT !.phase = "Validating"])
    <3>1. "Validating" \in Phase \ Terminal
      BY DEF Phase, Terminal
    <3>2. QED
      BY <1>p, <1>s, <2>3, <3>1
  <2>4. QED
    BY <1>8, <2>1, <2>2, <2>3 DEF RetryBlocked
<1>9. CASE Executing
  <2>1. CASE Fail(seen)
    BY <1>0, <1>e, <2>1
  <2>2. CASE CurrentBatch(seen) = {} /\ CompleteExecution(seen)
    BY <1>0, <1>k, <2>2, CompleteExecutionOutcome
  <2>3. CASE Save([seen EXCEPT !.gate = "Uncordon", !.phase = "AwaitingApproval"])
    <3>1. "AwaitingApproval" \in Phase \ Terminal /\ "Uncordon" \in Gate
      BY DEF Phase, Terminal, Gate
    <3>2. QED
      BY <1>g, <1>s, <2>3, <3>1
  <2> DEFINE loop(slots) == [Holding("step", seen) EXCEPT
                               !.todo = CurrentBatch(seen), !.inFlight = CountInFlight(seen),
                               !.slots = slots, !.open = UncordonOpen(cache.spec)]
  <2>4. ASSUME NEW slots, slots <= MaxConcurrent, worker' = loop(slots)
        PROVE  ReadOutcome
    BY <2>4, EmptyTyped DEF Holding, WorkerRecord, ReadOutcome, StartsLoop
  <2>5. \/ Fail(seen)
        \/ CurrentBatch(seen) = {} /\ CompleteExecution(seen)
        \/ Save([seen EXCEPT !.gate = "Uncordon", !.phase = "AwaitingApproval"])
        \/ \E windowOpen \in BOOLEAN, budget \in Budgets :
              worker' = loop(IF ~windowOpen THEN 0
                             ELSE IF budget < MaxConcurrent THEN budget ELSE MaxConcurrent)
    BY <1>9 DEF Executing
  <2> HIDE DEF loop
  <2>6. CASE \E windowOpen \in BOOLEAN, budget \in Budgets :
               worker' = loop(IF ~windowOpen THEN 0
                              ELSE IF budget < MaxConcurrent THEN budget ELSE MaxConcurrent)
    <3>1. PICK windowOpen \in BOOLEAN, budget \in Budgets :
            worker' = loop(IF ~windowOpen THEN 0
                           ELSE IF budget < MaxConcurrent THEN budget ELSE MaxConcurrent)
      BY <2>6
    <3>2. (IF ~windowOpen THEN 0
           ELSE IF budget < MaxConcurrent THEN budget ELSE MaxConcurrent) <= MaxConcurrent
      BY LimitAssumption
    <3>3. QED
      BY <2>4, <3>1, <3>2
  <2>7. QED
    BY <2>1, <2>2, <2>3, <2>5, <2>6
<1>10. QED
  BY <1>1, <1>2, <1>3, <1>4, <1>5, <1>6, <1>7, <1>8, <1>9 DEF Reconcile

-----------------------------------------------------------------------------
\* The moves of a node that leave its cordon alone.
NodeMoves ==
  {<<"Pending", "Cordoning">>, <<"Pending", "Skipped">>, <<"Draining", "PostCheck">>,
   <<"Draining", "Blocked">>, <<"PostCheck", "Uncordoning">>,
   <<"Replacing", "AwaitingReplacement">>, <<"Replacing", "Failed">>,
   <<"AwaitingReplacement", "Completed">>, <<"AwaitingReplacement", "Blocked">>}
  \cup (IF HandsBack THEN {} ELSE {<<"PostCheck", "Replacing">>, <<"PostCheck", "Completed">>})

\* What one round of the loop does to the copy and to the cordons.
MovesNode(n, from, to) ==
  /\ \/ (from = to \/ <<from, to>> \in NodeMoves) /\ hist'.ours = hist.ours
     \/ from = "Cordoning" /\ to = "Draining" /\ hist'.ours = hist.ours \cup {n}
     \/ from = "Uncordoning" /\ to = "Completed" /\ hist'.ours = hist.ours \ {n}
  /\ from # to /\ to = "Cordoning" => worker.inFlight < worker.slots
  /\ from # to /\ to = "Uncordoning" => worker.open /\ HandsBack
  /\ from # to /\ to = "Replacing" => ReplaceNodes

\* What it does to the cluster.
TouchesNode(n, from, to) ==
  /\ busy' = busy
  /\ \A m \in Node : machine'[m] # machine[m] =>
                       /\ m = n /\ from = "Replacing"
                       /\ machine[m] # "Gone" /\ machine'[m] = "Deleting"
  /\ cordoned \ cordoned' \subseteq (IF from = "Uncordoning" THEN {n} ELSE {})
  /\ from = "Cordoning" /\ to # "Cordoning" => n \in cordoned'
  /\ from # to /\ to = "PostCheck" => n \notin busy

\* The copy s goes on to the next node, or the pass ends on it.
GoesOn(n, s) ==
  \/ /\ worker'.pc = "step" /\ worker'.status = s /\ worker'.todo = worker.todo \ {n}
     /\ worker'.inFlight = CountInFlight(s)
     /\ worker'.slots = worker.slots /\ worker'.open = worker.open
  \/ /\ Outcome(s)
     /\ worker'.pc = "release" => InPhase(s, {"Failed"}) # {}
     /\ \/ worker'.status.phase = "Executing"
        \/ Unfinished(s) = {} /\ worker'.status.phase \in {"Failed", "Blocked", "Completed"}

StepResult(n, s) ==
  /\ n \in worker.todo
  /\ \A m \in Node \ {n} : s.node[m] = worker.status.node[m]
  /\ MovesNode(n, worker.status.node[n], s.node[n])
  /\ TouchesNode(n, worker.status.node[n], s.node[n])
  /\ hist'.releaseFailed = hist.releaseFailed
  /\ GoesOn(n, s)

\* Moving one node leaves the rest of a status alone.
LEMMA MoveEffect ==
  ASSUME NEW s \in StatusRecord, NEW n \in Node, NEW p \in NodePhase
  PROVE  LET t == [s EXCEPT !.node[n] = p]
         IN  /\ t \in StatusRecord /\ t.phase = s.phase /\ t.node[n] = p
             /\ \A m \in Node \ {n} : t.node[m] = s.node[m]
<1> DEFINE t == [s EXCEPT !.node[n] = p]
<1>1. t \in StatusRecord
  BY NodeTyped
<1>2. t.phase = s.phase /\ t.node = [s.node EXCEPT ![n] = p]
  BY DEF StatusRecord
<1>3. s.node \in [Node -> NodePhase \cup {Unlisted}]
  BY DEF StatusRecord
<1>4. QED
  BY <1>1, <1>2, <1>3

\* The number of nodes in flight follows the move of one node.
LEMMA MoveCount ==
  ASSUME NEW s \in StatusRecord, NEW n \in Node, NEW p \in NodePhase, NEW t,
         t.node[n] = p, \A m \in Node \ {n} : t.node[m] = s.node[m]
  PROVE  CountInFlight(t) = CountInFlight(s) + (IF p \in InFlightPhases THEN 1 ELSE 0)
                              - (IF s.node[n] \in InFlightPhases THEN 1 ELSE 0)
<1> DEFINE A == InPhase(s, InFlightPhases)
           B == InPhase(t, InFlightPhases)
<1>1. IsFiniteSet(A) /\ Cardinality(A) \in Nat
  <2>1. IsFiniteSet(Node)
    BY SizeAssumption, FS_Interval DEF Node
  <2>2. A \subseteq Node
    BY DEF InPhase
  <2>3. QED
    BY <2>1, <2>2, FS_Subset, FS_CardinalityType
<1>2. n \in A <=> s.node[n] \in InFlightPhases
  BY DEF InPhase
<1>3. B = IF p \in InFlightPhases THEN A \cup {n} ELSE A \ {n}
  BY DEF InPhase
<1> HIDE DEF A, B
<1>4. Cardinality(A \cup {n}) = IF n \in A THEN Cardinality(A) ELSE Cardinality(A) + 1
  BY <1>1, FS_AddElement
<1>5. Cardinality(A \ {n}) = IF n \in A THEN Cardinality(A) - 1 ELSE Cardinality(A)
  BY <1>1, FS_RemoveElement
<1>6. CountInFlight(t) = Cardinality(B) /\ CountInFlight(s) = Cardinality(A)
  BY DEF CountInFlight, A, B
<1>7. QED
  BY <1>1, <1>2, <1>3, <1>4, <1>5, <1>6

\* So does the end of a round of the loop.
LEMMA ContinueOutcome ==
  ASSUME TypeOK, NEW n \in Node, NEW s \in StatusRecord,
         s.phase = "Executing", worker.pc = "step", Continue(n, s, CountInFlight(s)) \/ Save(s)
  PROVE  GoesOn(n, s)
<1>1. CASE worker' = [worker EXCEPT !.status = s, !.inFlight = CountInFlight(s),
                                    !.todo = @ \ {n}]
  BY <1>1 DEF TypeOK, WorkerRecord, GoesOn
<1>2. CASE CurrentBatch(s) = {} /\ CompleteExecution(s)
  BY <1>2, CompleteExecutionOutcome DEF GoesOn
<1>3. CASE Save(s)
  BY <1>3, SaveOutcome, OutcomeCopy DEF GoesOn, Terminal
<1>4. QED
  BY <1>1, <1>2, <1>3 DEF Continue

\* One round of the loop moves one node, along the phases of a node.
LEMMA StepOutcome ==
  ASSUME TypeOK, StepNode, Coherent(worker.status), StepsExecuting, InFlightAgrees
  PROVE  \E n \in Node : \E s \in StatusRecord : StepResult(n, s)
<1> DEFINE old == worker.status
<1> PICK n \in Node : \/ StartNode(n) \/ CordonNode(n) \/ DrainNode(n) \/ CheckNode(n)
                      \/ UncordonNode(n) \/ ReplaceNode(n) \/ AwaitNode(n) \/ NodeError(n)
  BY DEF StepNode
<1>1. worker.pc = "step" /\ n \in worker.todo
  BY DEF StartNode, CordonNode, DrainNode, CheckNode, UncordonNode, ReplaceNode, AwaitNode,
     NodeError, Visiting
<1>2. /\ old \in StatusRecord /\ old.phase = "Executing" /\ hist \in HistRecord
      /\ worker.inFlight = CountInFlight(old)
  BY <1>1 DEF TypeOK, WorkerRecord, StepsExecuting, InFlightAgrees
<1> HIDE DEF old
<1>3. ASSUME NEW p \in NodePhase
      PROVE  LET s == [old EXCEPT !.node[n] = p]
             IN  /\ s \in StatusRecord /\ s.phase = "Executing" /\ s.node[n] = p
                 /\ \A m \in Node \ {n} : s.node[m] = old.node[m]
  BY <1>2, MoveEffect
<1>4. {"Cordoning", "Draining", "PostCheck", "Uncordoning", "Replacing",
       "AwaitingReplacement", "Failed", "Completed", "Blocked", "Skipped"} \subseteq NodePhase
  BY DEF NodePhase, InFlightPhases, NodeTerminal
<1>5. ASSUME NEW p \in NodePhase, Becomes(n, p), MovesNode(n, old.node[n], p),
             TouchesNode(n, old.node[n], p), hist'.releaseFailed = hist.releaseFailed
      PROVE  \E s \in StatusRecord : StepResult(n, s)
  <2> DEFINE s == [old EXCEPT !.node[n] = p]
  <2>1. /\ s \in StatusRecord /\ s.phase = "Executing" /\ s.node[n] = p
        /\ \A m \in Node \ {n} : s.node[m] = old.node[m]
    BY <1>3
  <2> DEFINE k == worker.inFlight + (IF p \in InFlightPhases THEN 1 ELSE 0)
                    - (IF old.node[n] \in InFlightPhases THEN 1 ELSE 0)
  <2>2. Continue(n, s, k)
    BY <1>5 DEF Becomes, old
  <2> HIDE DEF s
  <2>3. k = CountInFlight(s)
    BY <1>2, <2>1, MoveCount
  <2> HIDE DEF k
  <2>4. GoesOn(n, s)
    BY <1>1, <2>1, <2>2, <2>3, ContinueOutcome
  <2>5. QED
    BY <1>1, <1>5, <2>1, <2>4 DEF StepResult, old
<1>6. ASSUME Stays(n) \/ Save(old), hist' = hist, UNCHANGED <<cordoned, busy, machine>>
      PROVE  \E s \in StatusRecord : StepResult(n, s)
  <2>1. GoesOn(n, old)
    BY <1>1, <1>2, <1>6, ContinueOutcome DEF Stays, old
  <2>2. QED
    BY <1>1, <1>2, <1>6, <2>1 DEF StepResult, MovesNode, TouchesNode, old
<1>7. CASE StartNode(n)
  <2>1. /\ old.node[n] = "Pending" /\ hist' = hist
        /\ UNCHANGED <<cordoned, busy, machine>>
    BY <1>7 DEF StartNode, Visiting, old
  <2>2. \/ Stays(n) \/ Becomes(n, "Skipped")
        \/ Becomes(n, "Cordoning") /\ worker.inFlight < worker.slots
    BY <1>7 DEF StartNode
  <2>3. QED
    BY <1>4, <1>5, <1>6, <2>1, <2>2 DEF MovesNode, NodeMoves, TouchesNode
<1>8. CASE CordonNode(n)
  <2>1. /\ old.node[n] = "Cordoning" /\ Becomes(n, "Draining")
        /\ cordoned' = cordoned \cup {n} /\ UNCHANGED <<busy, machine>>
        /\ hist' = [hist EXCEPT !.ours = @ \cup {n}]
    BY <1>8 DEF CordonNode, Visiting, old
  <2>2. hist'.ours = hist.ours \cup {n} /\ hist'.releaseFailed = hist.releaseFailed
    BY <1>2, <2>1 DEF HistRecord
  <2>3. MovesNode(n, old.node[n], "Draining")
    BY <2>1, <2>2 DEF MovesNode
  <2>4. TouchesNode(n, old.node[n], "Draining")
    BY <2>1 DEF TouchesNode
  <2>5. QED
    BY <1>4, <1>5, <2>1, <2>2, <2>3, <2>4
<1>9. CASE DrainNode(n)
  <2>1. /\ old.node[n] = "Draining" /\ hist' = hist
        /\ UNCHANGED <<cordoned, busy, machine>>
    BY <1>9 DEF DrainNode, Visiting, old
  <2>2. Stays(n) \/ (n \notin busy /\ Becomes(n, "PostCheck")) \/ Becomes(n, "Blocked")
    BY <1>9 DEF DrainNode
  <2>3. QED
    BY <1>4, <1>5, <1>6, <2>1, <2>2 DEF MovesNode, NodeMoves, TouchesNode
<1>10. CASE CheckNode(n)
  <2>1. /\ old.node[n] = "PostCheck" /\ hist' = hist
        /\ UNCHANGED <<cordoned, busy, machine>>
    BY <1>10 DEF CheckNode, Visiting, old
  <2>2. \/ Stays(n)
        \/ Becomes(n, "Uncordoning") /\ worker.open /\ HandsBack
        \/ ReplaceNodes /\ Becomes(n, "Replacing")
        \/ ~HandsBack /\ Becomes(n, "Completed")
    BY <1>10 DEF CheckNode, HandsBack
  <2>3. QED
    BY <1>4, <1>5, <1>6, <2>1, <2>2 DEF MovesNode, NodeMoves, TouchesNode, HandsBack
<1>11. CASE UncordonNode(n)
  <2>1. /\ old.node[n] = "Uncordoning" /\ Becomes(n, "Completed")
        /\ cordoned' = cordoned \ {n} /\ UNCHANGED <<busy, machine>>
        /\ hist' = [hist EXCEPT !.ours = @ \ {n}]
    BY <1>11 DEF UncordonNode, Visiting, old
  <2>2. hist'.ours = hist.ours \ {n} /\ hist'.releaseFailed = hist.releaseFailed
    BY <1>2, <2>1 DEF HistRecord
  <2>3. MovesNode(n, old.node[n], "Completed")
    BY <2>1, <2>2 DEF MovesNode
  <2>4. TouchesNode(n, old.node[n], "Completed")
    BY <2>1 DEF TouchesNode
  <2>5. QED
    BY <1>4, <1>5, <2>1, <2>2, <2>3, <2>4
<1>12. CASE ReplaceNode(n)
  <2> DEFINE based == WithBaseline(n, old)
             moved(p) == [based EXCEPT !.node[n] = p]
  <2>1. /\ old.node[n] = "Replacing" /\ hist' = hist /\ UNCHANGED <<cordoned, busy>>
        /\ \/ machine' = machine
           \/ machine[n] # "Gone" /\ machine' = [machine EXCEPT ![n] = "Deleting"]
    BY <1>12 DEF ReplaceNode, Visiting, old
  <2>t. ASSUME NEW p, p # "PostCheck" PROVE TouchesNode(n, old.node[n], p)
    BY <2>1, <2>t DEF TouchesNode, TypeOK
  <2>2. based \in StatusRecord /\ based.phase = "Executing" /\ based.node = old.node
    BY <1>2 DEF WithBaseline, StatusRecord, TypeOK
  <2>3. \/ Save(based)
        \/ Continue(n, moved("AwaitingReplacement"), worker.inFlight)
        \/ Continue(n, moved("Failed"), worker.inFlight - 1)
    BY <1>12 DEF ReplaceNode, old
  <2> HIDE DEF based
  <2>4. ASSUME NEW p \in {"AwaitingReplacement", "Failed"},
               Continue(n, moved(p), worker.inFlight - (IF p = "Failed" THEN 1 ELSE 0))
        PROVE  \E s \in StatusRecord : StepResult(n, s)
    <3>1. /\ moved(p) \in StatusRecord /\ moved(p).phase = "Executing" /\ moved(p).node[n] = p
          /\ \A m \in Node \ {n} : moved(p).node[m] = old.node[m]
      BY <1>4, <2>2, MoveEffect
    <3> HIDE DEF moved
    <3>2. CountInFlight(moved(p)) = worker.inFlight - (IF p = "Failed" THEN 1 ELSE 0)
      BY <1>2, <1>4, <2>1, <3>1, MoveCount, CountIsNat DEF InFlightPhases
    <3>3. GoesOn(n, moved(p))
      BY <1>1, <2>4, <3>1, <3>2, ContinueOutcome
    <3>4. QED
      BY <1>1, <2>1, <2>t, <3>1, <3>3 DEF StepResult, MovesNode, NodeMoves, old
  <2>5. CASE Save(based)
    <3>1. GoesOn(n, based)
      BY <1>1, <2>2, <2>5, ContinueOutcome
    <3>2. QED
      BY <1>1, <2>1, <2>2, <2>t, <3>1 DEF StepResult, MovesNode, old
  <2>6. worker.inFlight - 0 = worker.inFlight
    BY DEF TypeOK, WorkerRecord
  <2>7. QED
    BY <2>3, <2>4, <2>5, <2>6
<1>13. CASE AwaitNode(n)
  <2>1. /\ old.node[n] = "AwaitingReplacement" /\ hist' = hist
        /\ UNCHANGED <<cordoned, busy, machine>>
    BY <1>13 DEF AwaitNode, Visiting, old
  <2>2. Stays(n) \/ Becomes(n, "Completed") \/ Becomes(n, "Blocked")
    BY <1>13 DEF AwaitNode
  <2>3. QED
    BY <1>4, <1>5, <1>6, <2>1, <2>2 DEF MovesNode, NodeMoves, TouchesNode
<1>14. CASE NodeError(n)
  BY <1>6, <1>14 DEF NodeError, old
<1>15. QED
  BY <1>7, <1>8, <1>9, <1>10, <1>11, <1>12, <1>13, <1>14

-----------------------------------------------------------------------------
\* The counter follows the copy, from the read on.
LEMMA CountNext == TypeOK /\ ProgressInv /\ InFlightAgrees /\ [Next]_vars => InFlightAgrees'
<1> SUFFICES ASSUME TypeOK, ProgressInv, InFlightAgrees, [Next]_vars, worker'.pc = "step"
             PROVE  worker'.inFlight = CountInFlight(worker'.status)
  BY DEF InFlightAgrees, CountInFlight, InPhase
<1>1. CASE Reconcile /\ ~ObserveTerminal
  <2>1. ReadOutcome
    BY <1>1, ReconcileOutcome DEF ProgressInv, seen
  <2>2. QED
    BY <2>1 DEF ReadOutcome, StartsLoop, Outcome
<1>2. CASE StepNode
  <2>1. PICK n \in Node : \E s \in StatusRecord : StepResult(n, s)
    BY <1>2, StepOutcome DEF ProgressInv
  <2>2. QED
    BY <2>1 DEF StepResult, GoesOn, Outcome
<1>3. ASSUME worker'.pc = worker.pc, worker'.status = worker.status,
             worker'.inFlight = worker.inFlight
      PROVE  worker'.inFlight = CountInFlight(worker'.status)
  BY <1>3 DEF InFlightAgrees
<1>4. CASE ObserveTerminal \/ Deliver \/ Environment \/ UNCHANGED vars
  <2>1. worker' = worker
    BY <1>4 DEF ObserveTerminal, Deliver, Environment, PodsLeave, Schedule, NodeGoes, Join,
       GlobalTimeout, EnvironmentUnchanged, vars
  <2>2. QED
    BY <1>3, <2>1
<1>5. CASE User
  <2>1. ASSUME NEW sp, Edit(sp)
        PROVE  /\ worker'.pc = worker.pc /\ worker'.status = worker.status
               /\ worker'.inFlight = worker.inFlight
    BY <2>1 DEF Edit, TypeOK, WorkerRecord
  <2>2. QED
    BY <1>3, <1>5, <2>1 DEF User, TogglePause, ToggleCancel, ChangeMode, ChangePolicy, Decide
<1>6. ASSUME NEW n \in Node, ReleaseNode(n) PROVE FALSE
  BY <1>6 DEF ReleaseNode, TypeOK, WorkerRecord
<1>7. CASE Write
  BY <1>7, EmptyTyped DEF Write, WorkerRecord, Idle
<1>8. CASE Conflict \/ AuditTerminal \/ Crash
  BY <1>8 DEF Conflict, AuditTerminal, Crash, Idle
<1>9. QED
  BY <1>1, <1>2, <1>4, <1>5, <1>6, <1>7, <1>8 DEF Next, Pass, Poll, Reconcile

\* A worker that has read nothing counts nothing.
LEMMA CountInit == Init => InFlightAgrees
BY DEF Init, Idle, InFlightAgrees

\* The invariants behind the counter hold in every reachable state.
LEMMA CountCorrect == Spec => [](TypeOK /\ ProgressInv /\ InFlightAgrees)
BY TypeInit, TypeNext, ProgressInit, ProgressNext, CountInit, CountNext, PTL DEF Spec

\* The counter that the loop keeps by hand, adding and subtracting as each node
\* changes phase, is the number of nodes in flight in the copy.
THEOREM CounterAgrees == Spec => []InFlightAgrees
BY CountCorrect, PTL

-----------------------------------------------------------------------------
\* Users and the cluster cordon nothing for the request, and keep the copy in
\* progress as it is, or make it stale.
LEMMA OutsideCordons ==
  ASSUME TypeOK, User \/ Environment \/ UNCHANGED vars
  PROVE  /\ worker'.pc = worker.pc /\ worker'.status = worker.status
         /\ worker'.todo = worker.todo /\ worker'.slots = worker.slots
         /\ worker'.open = worker.open
         /\ UNCHANGED <<status, cache, queued>>
         /\ worker'.fresh => worker.fresh /\ synced' = synced
         /\ hist'.ours \subseteq hist.ours /\ hist'.releaseFailed = hist.releaseFailed
<1>1. ASSUME NEW sp, Edit(sp)
      PROVE  /\ worker'.pc = worker.pc /\ worker'.status = worker.status
             /\ worker'.todo = worker.todo /\ worker'.slots = worker.slots
             /\ worker'.open = worker.open /\ ~worker'.fresh
             /\ UNCHANGED <<status, cache, queued>>
             /\ hist'.ours = hist.ours /\ hist'.releaseFailed = hist.releaseFailed
  BY <1>1 DEF Edit, TypeOK, WorkerRecord, HistRecord
<1>2. CASE User
  BY <1>1, <1>2 DEF User, TogglePause, ToggleCancel, ChangeMode, ChangePolicy, Decide
<1>3. CASE Environment \/ UNCHANGED vars
  <2>1. UNCHANGED <<worker, request>>
    BY <1>3 DEF Environment, PodsLeave, Schedule, NodeGoes, Join, GlobalTimeout,
       EnvironmentUnchanged, vars
  <2>2. hist'.ours \subseteq hist.ours /\ hist'.releaseFailed = hist.releaseFailed
    BY <1>3 DEF Environment, PodsLeave, Schedule, NodeGoes, Join, GlobalTimeout,
       EnvironmentUnchanged, vars, TypeOK, HistRecord
  <2>3. QED
    BY <2>1, <2>2 DEF request
<1>4. QED
  BY <1>2, <1>3

\* The invariant holds before anything is read.
LEMMA CordonInit == Init => CordonInv
<1> SUFFICES ASSUME Init PROVE CordonInv
  OBVIOUS
<1>1. /\ worker.pc = "idle" /\ worker.todo = {} /\ status.phase = "New"
      /\ cache.status = status /\ status.node = NoNodes /\ hist.ours = {}
  BY DEF Init, Idle, EmptyStatus
<1>2. QED
  BY <1>1 DEF CordonInv, FreshIsCurrent, EndIsSeen, CacheLags, AfterCordoning, LoopLags,
     WriteKeepsCordons, WriteIsReady, CompletedIsEarned, CordonsAreKnown, Working, Terminal,
     NoNodes, Unlisted, Aborted

\* What a handler makes of a status read keeps the invariant.
LEMMA CordonReconcile ==
  ASSUME TypeOK, EndInv, ProgressInv, CordonInv, Reconcile, ~ObserveTerminal
  PROVE  CordonInv'
<1>1. /\ worker.pc = "idle" /\ queued /\ seen.phase \notin Terminal
      /\ worker'.pc \in Working /\ worker'.fresh = synced
      /\ UNCHANGED <<status, cache, synced>>
  BY ReconcileShape
<1>2. queued' = FALSE /\ hist' = hist
  BY DEF Reconcile, Accept, UserCancel, Pause, PolicyUnresolved, Validating, AwaitingApproval,
     Planned, Resume, RetryBlocked, Executing, Dispatched, Reading
<1>3. status.phase \notin Terminal
  BY <1>1 DEF CordonInv, EndIsSeen, seen
<1>4. synced => seen = status
  BY DEF EndInv, SyncedAgrees, seen
<1>5. ReadOutcome
  BY ReconcileOutcome DEF ProgressInv, seen
<1>6. worker'.todo \subseteq Node
  BY ReconcileTyped DEF TypeOK, WorkerRecord
<1>7. CASE StartsLoop
  <2>0. worker'.pc = "step" /\ worker'.status = seen
    BY <1>7 DEF StartsLoop
  <2>1. LoopLags'
    BY <1>1, <1>4, <1>6, <2>0 DEF LoopLags, CordonInv, CacheLags, AfterCordoning, seen
  <2>2. WriteKeepsCordons'
    BY <1>1, <1>2, <1>3, <1>4, <2>0 DEF WriteKeepsCordons, AfterCordoning, CordonInv,
       CordonsAreKnown, InPhase
  <2>3. QED
    BY <1>1, <1>2, <1>3, <2>0, <2>1, <2>2 DEF CordonInv, FreshIsCurrent, EndIsSeen, CacheLags,
       AfterCordoning, WriteIsReady, CompletedIsEarned, CordonsAreKnown, Terminal, AllDone,
       InPhase, Aborted
<1>8. CASE \E s \in StatusRecord : Kept(seen, s) /\ Outcome(s)
  <2> PICK s \in StatusRecord : Kept(seen, s) /\ Outcome(s)
    BY <1>8
  <2>1. worker'.pc \in {"write", "release"} /\ worker'.status.node = s.node
    BY DEF Outcome
  <2>2. LoopLags'
    BY <2>1 DEF LoopLags
  <2>3. WriteKeepsCordons'
    <3> SUFFICES ASSUME synced
                 PROVE  /\ AfterCordoning(status, worker'.status)
                        /\ HandsBack => hist.ours \subseteq InPhase(worker'.status, Releasable)
                        /\ HandsBack /\ Aborted(worker'.status)
                             => hist.ours \subseteq hist.releaseFailed \cup worker'.todo
      BY <1>1, <1>2 DEF WriteKeepsCordons, AfterCordoning, InPhase, Aborted
    <3>1. AfterCordoning(status, worker'.status)
      BY <1>4, <2>1 DEF AfterCordoning, Kept, Unlisted
    <3>2. HandsBack => hist.ours \subseteq InPhase(s, Releasable)
      BY <1>3, <1>4 DEF CordonInv, CordonsAreKnown, InPhase, Kept, Releasable, Unlisted
    <3>3. QED
      BY <2>1, <3>1, <3>2 DEF Outcome, InPhase
  <2>4. CompletedIsEarned'
    BY <1>1, <2>1 DEF CompletedIsEarned, CordonInv, Outcome, AllDone
  <2>5. WriteIsReady'
    BY DEF WriteIsReady, Outcome
  <2>6. QED
    BY <1>1, <1>2, <1>3, <2>2, <2>3, <2>4, <2>5 DEF CordonInv, FreshIsCurrent, EndIsSeen,
       CacheLags, AfterCordoning, CordonsAreKnown, InPhase, Aborted
<1>9. QED
  BY <1>5, <1>7, <1>8 DEF ReadOutcome

\* So does a round of the loop, on a fresh copy or on a stale one.
LEMMA CordonStep ==
  ASSUME TypeOK, EndInv, ProgressInv, InFlightAgrees, CordonInv, StepNode
  PROVE  CordonInv'
<1>1. /\ worker.pc = "step" /\ worker'.pc \in Working /\ worker'.fresh = worker.fresh
      /\ UNCHANGED <<status, cache, synced, queued>>
  BY StepNodeShape
<1>2. PICK n \in Node : \E s \in StatusRecord : StepResult(n, s)
  BY StepOutcome DEF ProgressInv
<1>3. PICK s \in StatusRecord : StepResult(n, s)
  BY <1>2
<1>4. status.phase \notin Terminal
  BY <1>1 DEF CordonInv, EndIsSeen, Working
<1>5. /\ n \in worker.todo /\ \A m \in Node \ {n} : s.node[m] = worker.status.node[m]
      /\ MovesNode(n, worker.status.node[n], s.node[n])
      /\ hist'.releaseFailed = hist.releaseFailed
  BY <1>3 DEF StepResult
<1>6. /\ worker.status.node[n] = "Cordoning" => status.node[n] \in {"Cordoning", "Draining"}
      /\ worker.fresh => worker.status.node[n] = status.node[n]
  BY <1>1, <1>5 DEF CordonInv, LoopLags
<1>7. HandsBack => hist'.ours \subseteq InPhase(status, Releasable)
  <2> SUFFICES ASSUME HandsBack PROVE hist'.ours \subseteq InPhase(status, Releasable)
    OBVIOUS
  <2>1. hist.ours \subseteq InPhase(status, Releasable)
    BY <1>4 DEF CordonInv, CordonsAreKnown
  <2>2. worker.status.node[n] = "Cordoning" => n \in InPhase(status, Releasable)
    BY <1>6 DEF InPhase, Releasable
  <2>3. QED
    BY <1>5, <2>1, <2>2 DEF MovesNode
<1>8. worker.fresh =>
        /\ AfterCordoning(status, s)
        /\ HandsBack => hist'.ours \subseteq InPhase(s, Releasable)
  <2> SUFFICES ASSUME worker.fresh
               PROVE  /\ AfterCordoning(status, s)
                      /\ HandsBack => hist'.ours \subseteq InPhase(s, Releasable)
    OBVIOUS
  <2>1. /\ AfterCordoning(status, worker.status)
        /\ HandsBack => hist.ours \subseteq InPhase(worker.status, Releasable)
    BY <1>1 DEF CordonInv, WriteKeepsCordons, Working
  <2>2. worker.status.node[n] = "Cordoning" => s.node[n] \in {"Cordoning", "Draining"}
    BY <1>5 DEF MovesNode, NodeMoves
  <2>3. AfterCordoning(status, s)
    BY <1>5, <1>6, <2>1, <2>2 DEF AfterCordoning
  <2>4. ASSUME HandsBack
        PROVE  hist'.ours \subseteq InPhase(s, Releasable)
    <3>1. hist'.ours \ {n} \subseteq InPhase(s, Releasable)
      BY <1>5, <2>1, <2>4 DEF MovesNode, InPhase
    <3>2. n \in hist'.ours => s.node[n] \in Releasable
      <4> SUFFICES ASSUME n \in hist'.ours PROVE s.node[n] \in Releasable
        OBVIOUS
      <4>1. CASE s.node[n] = worker.status.node[n] /\ hist'.ours = hist.ours
        BY <2>1, <2>4, <4>1 DEF InPhase
      <4>2. CASE <<worker.status.node[n], s.node[n]>> \in NodeMoves /\ hist'.ours = hist.ours
        <5>1. worker.status.node[n] \in Releasable
          BY <2>1, <2>4, <4>2 DEF InPhase
        <5>2. QED
          BY <2>4, <4>2, <5>1 DEF NodeMoves, Releasable
      <4>3. CASE s.node[n] = "Draining"
        BY <4>3 DEF Releasable
      <4>4. QED
        BY <1>5, <4>1, <4>2, <4>3 DEF MovesNode
    <3>3. QED
      BY <3>1, <3>2 DEF InPhase
  <2>5. QED
    BY <2>3, <2>4
<1>9. CordonsAreKnown' /\ FreshIsCurrent' /\ EndIsSeen' /\ CacheLags'
  BY <1>1, <1>4, <1>7 DEF CordonInv, CordonsAreKnown, FreshIsCurrent, EndIsSeen, CacheLags,
     AfterCordoning, InPhase, Aborted, Terminal, Working
<1>10. CASE worker'.pc = "step" /\ worker'.status = s /\ worker'.todo = worker.todo \ {n}
  <2>1. LoopLags'
    <3>1. worker.todo \subseteq Node
      BY DEF TypeOK, WorkerRecord
    <3>2. QED
      BY <1>1, <1>5, <1>10, <3>1 DEF LoopLags, CordonInv
  <2>2. WriteKeepsCordons'
    BY <1>1, <1>8, <1>10 DEF WriteKeepsCordons, AfterCordoning, InPhase
  <2>3. worker'.status.phase = "Executing"
    BY <1>10, StepNodeCoherent DEF ProgressInv
  <2>4. CompletedIsEarned' /\ WriteIsReady'
    BY <1>1, <1>4, <1>10, <2>3 DEF CompletedIsEarned, WriteIsReady, Terminal
  <2>5. QED
    BY <1>9, <2>1, <2>2, <2>4 DEF CordonInv
<1>11. CASE Outcome(s)
  <2>1. worker'.pc \in {"write", "release"} /\ worker'.status.node = s.node
    BY <1>11 DEF Outcome
  <2>2. LoopLags' /\ WriteIsReady'
    BY <1>11, <2>1 DEF LoopLags, WriteIsReady, Outcome
  <2>3. WriteKeepsCordons'
    <3> SUFFICES ASSUME worker.fresh
                 PROVE  /\ AfterCordoning(status, worker'.status)
                        /\ HandsBack => hist'.ours \subseteq InPhase(worker'.status, Releasable)
                        /\ HandsBack /\ Aborted(worker'.status)
                             => hist'.ours \subseteq hist'.releaseFailed \cup worker'.todo
      BY <1>1 DEF WriteKeepsCordons, AfterCordoning, InPhase, Aborted
    <3>1. QED
      BY <1>8, <1>11, <2>1 DEF Outcome, AfterCordoning, InPhase
  <2>4. CompletedIsEarned'
    BY <1>1, <1>4, <1>11, <2>1 DEF CompletedIsEarned, Outcome, AllDone, Terminal
  <2>5. QED
    BY <1>9, <2>2, <2>3, <2>4 DEF CordonInv
<1>12. QED
  BY <1>3, <1>10, <1>11 DEF StepResult, GoesOn

\* Every step, or none, keeps the invariant.
LEMMA CordonNext ==
  TypeOK /\ EndInv /\ ProgressInv /\ InFlightAgrees /\ CordonInv /\ [Next]_vars => CordonInv'
<1> SUFFICES ASSUME TypeOK, EndInv, ProgressInv, InFlightAgrees, CordonInv, [Next]_vars
             PROVE  CordonInv'
  OBVIOUS
<1>i. ASSUME worker'.pc \notin Working
      PROVE  FreshIsCurrent' /\ LoopLags' /\ WriteKeepsCordons' /\ WriteIsReady'
  BY <1>i DEF FreshIsCurrent, LoopLags, WriteKeepsCordons, WriteIsReady, Working
<1>1. CASE Reconcile /\ ~ObserveTerminal
  BY <1>1, CordonReconcile
<1>2. CASE ObserveTerminal
  <2>1. /\ worker.pc = "idle" /\ worker'.pc = "idle" /\ ~queued' /\ UNCHANGED <<status, cache>>
        /\ hist' = hist
    BY <1>2 DEF ObserveTerminal, Reading
  <2>2. QED
    BY <1>i, <2>1 DEF CordonInv, EndIsSeen, CacheLags, AfterCordoning, CompletedIsEarned,
       CordonsAreKnown, Working, AllDone, InPhase, Aborted
<1>3. CASE StepNode
  BY <1>3, CordonStep
<1>4. ASSUME NEW n \in Node, ReleaseNode(n) PROVE CordonInv'
  <2>1. /\ worker.pc = "release" /\ worker'.pc \in {"release", "write"}
        /\ worker'.pc = "write" => worker'.todo = {}
        /\ worker'.todo = worker.todo \ {n}
        /\ worker'.status = worker.status /\ worker'.fresh = worker.fresh
        /\ UNCHANGED <<status, cache, synced, queued>>
    BY <1>4 DEF ReleaseNode, request, TypeOK, WorkerRecord
  <2>2. \/ /\ hist'.ours = hist.ours \ {n}
           /\ hist'.releaseFailed = hist.releaseFailed \ {n}
        \/ /\ hist'.ours = hist.ours
           /\ hist'.releaseFailed = hist.releaseFailed \cup {n}
    BY <1>4 DEF ReleaseNode, TypeOK, HistRecord
  <2>3. status.phase \notin Terminal
    BY <2>1 DEF CordonInv, EndIsSeen, Working
  <2>4. WriteKeepsCordons'
    BY <2>1, <2>2 DEF CordonInv, WriteKeepsCordons, AfterCordoning, InPhase, Aborted, Working
  <2>5. CordonsAreKnown'
    BY <2>1, <2>2, <2>3 DEF CordonInv, CordonsAreKnown, InPhase, Aborted, Terminal
  <2>6. LoopLags' /\ WriteIsReady' /\ CompletedIsEarned'
    BY <2>1 DEF CordonInv, LoopLags, WriteIsReady, CompletedIsEarned, AllDone, Working
  <2>7. QED
    BY <2>1, <2>3, <2>4, <2>5, <2>6 DEF CordonInv, FreshIsCurrent, EndIsSeen, CacheLags,
       AfterCordoning, Working
<1>5. CASE Write
  <2>1. /\ worker.pc = "write" /\ worker.fresh /\ status' = worker.status
        /\ UNCHANGED <<cache, hist>>
    BY <1>5 DEF Write, Accepted
  <2>2. worker'.pc \in {"idle", "audit"}
    BY <1>5, EmptyTyped DEF Write, WorkerRecord, Idle
  <2>3. cache.status = status /\ ~queued
    BY <2>1 DEF CordonInv, FreshIsCurrent, EndInv, SyncedAgrees, Working
  <2>4. worker.status.phase \in Terminal => ~queued'
    BY <1>5, <2>3 DEF Write
  <2>5. /\ AfterCordoning(status, worker.status) /\ worker.todo = {}
        /\ HandsBack => hist.ours \subseteq InPhase(worker.status, Releasable)
        /\ HandsBack /\ Aborted(worker.status) => hist.ours \subseteq hist.releaseFailed
        /\ worker.status.phase = "Completed" => AllDone(worker.status)
    BY <2>1 DEF CordonInv, WriteKeepsCordons, WriteIsReady, CompletedIsEarned, Working
  <2>6. AllDone(worker.status) => InPhase(worker.status, Releasable) = {}
    BY DEF AllDone, InPhase, Releasable, Unlisted
  <2>7. CordonsAreKnown'
    BY <2>1, <2>5, <2>6 DEF CordonsAreKnown, InPhase, Aborted
  <2>8. EndIsSeen' /\ CacheLags' /\ CompletedIsEarned'
    BY <2>1, <2>2, <2>3, <2>4, <2>5 DEF EndIsSeen, CacheLags, AfterCordoning, CompletedIsEarned,
       AllDone, Working
  <2>9. QED
    BY <1>i, <2>2, <2>7, <2>8 DEF CordonInv, Working
<1>6. CASE Conflict \/ AuditTerminal
  <2>1. worker'.pc = "idle" /\ UNCHANGED <<status, cache>>
    BY <1>6 DEF Conflict, AuditTerminal, request, Idle
  <2>2. hist'.ours = hist.ours /\ hist'.releaseFailed = hist.releaseFailed
    BY <1>6 DEF Conflict, AuditTerminal, TypeOK, HistRecord
  <2>3. status.phase \in Terminal => cache.status = status \/ ~queued'
    BY <1>6 DEF Conflict, AuditTerminal, request, CordonInv, EndIsSeen, Working
  <2>4. QED
    BY <1>i, <2>1, <2>2, <2>3 DEF CordonInv, EndIsSeen, CacheLags, AfterCordoning,
       CompletedIsEarned, CordonsAreKnown, Working, AllDone, InPhase, Aborted
<1>7. CASE Deliver
  <2>1. cache'.status = status /\ UNCHANGED <<status, worker, hist>> /\ ~synced
    BY <1>7 DEF Deliver
  <2>2. QED
    BY <2>1 DEF CordonInv, FreshIsCurrent, EndIsSeen, CacheLags, LoopLags, WriteKeepsCordons,
       WriteIsReady, CompletedIsEarned, CordonsAreKnown, AfterCordoning, InPhase, Aborted, AllDone
<1>8. CASE Crash
  <2>1. worker'.pc = "idle" /\ cache'.status = status /\ UNCHANGED <<status, hist>>
    BY <1>8 DEF Crash, Idle
  <2>2. QED
    BY <1>i, <2>1 DEF CordonInv, EndIsSeen, CacheLags, AfterCordoning, CompletedIsEarned,
       CordonsAreKnown, Working, AllDone, InPhase, Aborted
<1>9. CASE User \/ Environment \/ UNCHANGED vars
  <2>1. /\ worker'.pc = worker.pc /\ worker'.status = worker.status
        /\ worker'.todo = worker.todo
        /\ UNCHANGED <<status, cache, queued>>
        /\ worker'.fresh => worker.fresh /\ synced' = synced
        /\ hist'.ours \subseteq hist.ours /\ hist'.releaseFailed = hist.releaseFailed
    BY <1>9, OutsideCordons
  <2>2. FreshIsCurrent' /\ EndIsSeen' /\ CacheLags' /\ LoopLags'
    BY <2>1 DEF CordonInv, FreshIsCurrent, EndIsSeen, CacheLags, LoopLags, AfterCordoning
  <2>3. WriteKeepsCordons' /\ WriteIsReady'
    BY <2>1 DEF CordonInv, WriteKeepsCordons, WriteIsReady, AfterCordoning, InPhase, Aborted
  <2>4. CompletedIsEarned' /\ CordonsAreKnown'
    BY <2>1 DEF CordonInv, CompletedIsEarned, CordonsAreKnown, AllDone, InPhase, Aborted
  <2>5. QED
    BY <2>2, <2>3, <2>4 DEF CordonInv
<1>10. QED
  BY <1>1, <1>2, <1>3, <1>4, <1>5, <1>6, <1>7, <1>8, <1>9 DEF Next, Pass, Poll, Reconcile

\* The invariant holds in every reachable state.
THEOREM CordonCorrect == Spec => [](TypeOK /\ EndInv /\ ProgressInv /\ CordonInv)
BY CountCorrect, EndInit, EndNext, CordonInit, CordonNext, PTL DEF Spec

\* A node that the request has cordoned is named by the persisted status in a
\* phase that an abort looks for: a pass may die, or its write be refused,
\* between any two of its calls, and a pass on a stale copy may cordon again.
THEOREM CordonsTracked == Spec => []OwnedCordonIsTracked
<1>1. CordonInv => OwnedCordonIsTracked
  BY DEF CordonInv, CordonsAreKnown, OwnedCordonIsTracked, HandsBack, Persisted
<1>2. QED
  BY <1>1, CordonCorrect, PTL

\* A request that fails or is cancelled leaves cordoned only the nodes whose
\* release was tried and refused (or that a rejected uncordon gate keeps).
THEOREM AbortHandsBack == Spec => []AbortReturnsNodes
<1>1. CordonInv => AbortReturnsNodes
  BY DEF CordonInv, CordonsAreKnown, AbortReturnsNodes, HandsBack, Aborted
<1>2. QED
  BY <1>1, CordonCorrect, PTL

\* A request is Completed only when every listed node is done with and none is
\* left cordoned by it.
THEOREM CompletionIsEarned == Spec => []CompletedMeansDone
<1>1. CordonInv => CompletedMeansDone
  <2> SUFFICES ASSUME CordonInv, status.phase = "Completed" PROVE CompletedMeansDone
    BY DEF CompletedMeansDone
  <2>1. AllDone(status)
    BY DEF CordonInv, CompletedIsEarned
  <2>2. Persisted(NodePhase) = Persisted({"Completed", "Skipped"})
    BY <2>1 DEF AllDone, Persisted, InPhase, NodePhase, NodeTerminal, InFlightPhases, Unlisted
  <2>3. UncordonAfter /\ ~ReplaceNodes => hist.ours = {}
    BY DEF CordonInv, CordonsAreKnown, HandsBack
  <2>4. QED
    BY <2>2, <2>3 DEF CompletedMeansDone
<1>2. QED
  BY <1>1, CordonCorrect, PTL

-----------------------------------------------------------------------------
(***************************************************************************)
(* Starts: batches and slots.                                              *)
(***************************************************************************)
\* The copy s begins the node n.
BeginsIn(n, s) == status.node[n] \in {"Pending", Unlisted} /\ s.node[n] \in Begun

\* Every node of a lower batch than n's is finished.
LowerDone(n, s) ==
  \A m \in Node : Batch[m] < Batch[n] => s.node[m] \in NodeTerminal \cup {Unlisted}

\* What a fresh copy may begin, while the loop is at it and when it is written.
StartInv ==
  /\ worker.pc = "step" => worker.slots <= MaxConcurrent
  /\ worker.pc = "step" /\ worker.fresh =>
       \A n \in worker.todo :
         worker.status.node[n] \notin NodeTerminal \cup {Unlisted} /\ LowerDone(n, worker.status)
  /\ worker.pc \in Working /\ worker.fresh =>
       \A n \in Node : BeginsIn(n, worker.status) =>
         LowerDone(n, worker.status) /\ CountInFlight(worker.status) <= MaxConcurrent

\* The nodes of the current batch are unfinished, and no lower one is.
LEMMA CurrentBatchIsLowest ==
  ASSUME NEW s, NEW n \in CurrentBatch(s)
  PROVE  n \in Node /\ s.node[n] \notin NodeTerminal \cup {Unlisted} /\ LowerDone(n, s)
<1>1. n \in Unfinished(s) /\ \A m \in Unfinished(s) : Batch[n] <= Batch[m]
  BY DEF CurrentBatch
<1>2. ASSUME NEW m \in Node, Batch[m] < Batch[n]
      PROVE  s.node[m] \in NodeTerminal \cup {Unlisted}
  <2>1. Batch[m] \in Nat /\ Batch[n] \in Nat
    BY <1>1, PlanAssumption DEF Unfinished
  <2>2. m \notin Unfinished(s)
    BY <1>1, <1>2, <2>1
  <2>3. QED
    BY <2>2 DEF Unfinished
<1>3. QED
  BY <1>1, <1>2 DEF LowerDone, Unfinished

\* A handler begins no node: it starts the loop, or keeps the nodes it read.
LEMMA StartReconcile ==
  ASSUME TypeOK, EndInv, ProgressInv, Reconcile, ~ObserveTerminal
  PROVE  StartInv'
<1>1. worker'.fresh = synced /\ UNCHANGED <<status, cache>>
  BY ReconcileShape
<1>2. synced => seen = status
  BY DEF EndInv, SyncedAgrees, seen
<1>3. ReadOutcome
  BY ReconcileOutcome DEF ProgressInv, seen
<1>4. CASE StartsLoop
  <2>1. \A n \in worker'.todo : worker'.status.node[n] \notin NodeTerminal \cup {Unlisted}
                               /\ LowerDone(n, worker'.status)
    BY <1>4, CurrentBatchIsLowest DEF StartsLoop
  <2>2. worker'.slots <= MaxConcurrent /\ worker'.status = seen
    BY <1>4 DEF StartsLoop
  <2>3. ASSUME synced, NEW n \in Node PROVE ~BeginsIn(n, worker.status)'
    BY <1>1, <1>2, <2>2, <2>3 DEF BeginsIn, Begun, InFlightPhases, NodeTerminal, Unlisted
  <2>4. QED
    BY <1>1, <2>1, <2>2, <2>3 DEF StartInv, LowerDone
<1>5. CASE \E s \in StatusRecord : Kept(seen, s) /\ Outcome(s)
  <2> PICK s \in StatusRecord : Kept(seen, s) /\ Outcome(s)
    BY <1>5
  <2>1. worker'.pc # "step" /\ worker'.status.node = s.node
    BY DEF Outcome
  <2>2. ASSUME synced, NEW n \in Node PROVE ~BeginsIn(n, worker.status)'
    BY <1>1, <1>2, <2>1, <2>2 DEF BeginsIn, Kept, Begun, InFlightPhases, NodeTerminal, Unlisted
  <2>3. QED
    BY <1>1, <2>1, <2>2 DEF StartInv
<1>6. QED
  BY <1>3, <1>4, <1>5 DEF ReadOutcome

\* A round of the loop begins at most the node it visits, of the current batch
\* and into a free slot.
LEMMA StartStep ==
  ASSUME TypeOK, ProgressInv, InFlightAgrees, CordonInv, StartInv, StepNode
  PROVE  StartInv'
<1>1. /\ worker.pc = "step" /\ worker'.pc \in Working /\ worker'.fresh = worker.fresh
      /\ UNCHANGED status
  BY StepNodeShape
<1>2. PICK n \in Node : \E s \in StatusRecord : StepResult(n, s)
  BY StepOutcome DEF ProgressInv
<1>3. PICK s \in StatusRecord : StepResult(n, s)
  BY <1>2
<1>4. /\ n \in worker.todo /\ \A m \in Node \ {n} : s.node[m] = worker.status.node[m]
      /\ MovesNode(n, worker.status.node[n], s.node[n]) /\ GoesOn(n, s)
  BY <1>3 DEF StepResult
<1>5. worker.slots <= MaxConcurrent
  BY <1>1 DEF StartInv
<1>6. worker.todo \subseteq Node
  BY DEF TypeOK, WorkerRecord
<1>7. worker'.pc = "step" => worker'.slots <= MaxConcurrent
  BY <1>4, <1>5 DEF GoesOn, Outcome
<1>8. CASE ~worker.fresh
  BY <1>1, <1>7, <1>8 DEF StartInv
<1>9. CASE worker.fresh
  <2>1. \A m \in worker.todo :
          /\ worker.status.node[m] \notin NodeTerminal \cup {Unlisted}
          /\ LowerDone(m, worker.status) /\ worker.status.node[m] = status.node[m]
    BY <1>1, <1>9 DEF StartInv, CordonInv, LoopLags
  <2>2. \A m \in Node : BeginsIn(m, worker.status) =>
          LowerDone(m, worker.status) /\ CountInFlight(worker.status) <= MaxConcurrent
    BY <1>1, <1>9 DEF StartInv, Working
  <2>3. \A m \in Node : LowerDone(m, worker.status) => LowerDone(m, s)
    BY <1>4, <2>1 DEF LowerDone
  <2>4. s.node[n] \in NodePhase
    <3>1. s.node \in [Node -> NodePhase \cup {Unlisted}]
      BY DEF StatusRecord
    <3>2. s.node[n] # Unlisted
      BY <1>4, <2>1 DEF MovesNode, NodeMoves, Unlisted
    <3>3. QED
      BY <3>1, <3>2
  <2>5. CountInFlight(s) = worker.inFlight + (IF s.node[n] \in InFlightPhases THEN 1 ELSE 0)
                            - (IF worker.status.node[n] \in InFlightPhases THEN 1 ELSE 0)
    <3>1. worker.status \in StatusRecord /\ worker.inFlight = CountInFlight(worker.status)
      BY <1>1 DEF TypeOK, WorkerRecord, InFlightAgrees
    <3>2. QED
      BY <1>4, <2>4, <3>1, MoveCount
  <2>6. ASSUME NEW m \in Node, BeginsIn(m, s)
        PROVE  LowerDone(m, s) /\ CountInFlight(s) <= MaxConcurrent
    <3>0. /\ worker.inFlight \in Int /\ worker.slots \in Int /\ MaxConcurrent \in Int
          /\ worker.inFlight = CountInFlight(worker.status)
      BY <1>1, LimitAssumption DEF TypeOK, WorkerRecord, InFlightAgrees
    <3>1. CASE m = n /\ ~BeginsIn(n, worker.status)
      <4>1. worker.status.node[n] = "Pending" /\ s.node[n] = "Cordoning"
        BY <1>4, <2>1, <2>6, <3>1 DEF BeginsIn, MovesNode, NodeMoves, Begun, InFlightPhases,
           NodeTerminal
      <4>2. worker.inFlight < worker.slots
        BY <1>4, <4>1 DEF MovesNode
      <4>3. CountInFlight(s) = worker.inFlight + 1
        BY <2>5, <3>0, <4>1 DEF InFlightPhases
      <4>4. CountInFlight(s) <= MaxConcurrent
        BY <1>5, <3>0, <4>2, <4>3
      <4>5. QED
        BY <1>4, <2>1, <2>3, <3>1, <4>4
    <3>2. CASE m # n \/ BeginsIn(n, worker.status)
      <4>1. m # n
        BY <1>4, <2>1, <3>2 DEF BeginsIn, Begun, InFlightPhases, NodeTerminal, Unlisted
      <4>2. BeginsIn(m, worker.status)
        BY <1>4, <2>6, <4>1 DEF BeginsIn
      <4>3. LowerDone(m, s) /\ CountInFlight(worker.status) <= MaxConcurrent
        BY <2>2, <2>3, <4>2
      <4>4. CASE worker.status.node[n] = "Pending" /\ s.node[n] = "Cordoning"
        <5>1. worker.inFlight < worker.slots
          BY <1>4, <4>4 DEF MovesNode
        <5>2. CountInFlight(s) = worker.inFlight + 1
          BY <2>5, <3>0, <4>4 DEF InFlightPhases
        <5>3. QED
          BY <1>5, <3>0, <4>3, <5>1, <5>2
      <4>5. CASE ~(worker.status.node[n] = "Pending" /\ s.node[n] = "Cordoning")
        <5>1. s.node[n] \in InFlightPhases => worker.status.node[n] \in InFlightPhases
          BY <1>4, <4>5 DEF MovesNode, NodeMoves, InFlightPhases
        <5>2. CountInFlight(s) <= worker.inFlight
          BY <2>5, <3>0, <5>1
        <5>3. CountInFlight(s) \in Nat
          BY CountIsNat
        <5>4. QED
          BY <3>0, <4>3, <5>2, <5>3
      <4>6. QED
        BY <4>4, <4>5
    <3>3. QED
      BY <3>1, <3>2
  <2>7. worker'.status.node = s.node
    BY <1>4 DEF GoesOn, Outcome
  <2>8. \A m \in Node : BeginsIn(m, worker.status)' =>
          LowerDone(m, worker.status)' /\ CountInFlight(worker.status)' <= MaxConcurrent
    BY <1>1, <2>6, <2>7 DEF BeginsIn, LowerDone, CountInFlight, InPhase
  <2>9. worker'.pc = "step" =>
          \A m \in worker'.todo : worker'.status.node[m] \notin NodeTerminal \cup {Unlisted}
                                 /\ LowerDone(m, worker.status)'
    <3> SUFFICES ASSUME worker'.pc = "step", NEW m \in worker'.todo
                 PROVE  worker'.status.node[m] \notin NodeTerminal \cup {Unlisted}
                        /\ LowerDone(m, worker.status)'
      OBVIOUS
    <3>1. m \in worker.todo /\ m # n /\ worker'.status = s
      BY <1>4 DEF GoesOn, Outcome
    <3>2. LowerDone(m, s) /\ s.node[m] = worker.status.node[m]
      BY <1>4, <1>6, <2>1, <2>3, <3>1
    <3>3. QED
      BY <2>1, <3>1, <3>2 DEF LowerDone
  <2>10. QED
    BY <1>7, <2>8, <2>9 DEF StartInv
<1>10. QED
  BY <1>8, <1>9

\* A worker that has read nothing begins nothing.
LEMMA StartInit == Init => StartInv
BY DEF Init, Idle, StartInv, Working

\* Every step, or none, keeps the invariant.
LEMMA StartNext ==
  TypeOK /\ EndInv /\ ProgressInv /\ InFlightAgrees /\ CordonInv /\ StartInv /\ [Next]_vars
    => StartInv'
<1> SUFFICES ASSUME TypeOK, EndInv, ProgressInv, InFlightAgrees, CordonInv, StartInv,
                    [Next]_vars
             PROVE  StartInv'
  OBVIOUS
<1>i. ASSUME worker'.pc \notin Working PROVE StartInv'
  BY <1>i DEF StartInv, Working
<1>k. ASSUME worker.pc \in Working, worker'.pc = worker.pc \/ worker'.pc # "step",
             worker'.status = worker.status, worker'.fresh => worker.fresh, status' = status,
             worker'.pc = "step" => worker'.todo = worker.todo /\ worker'.slots = worker.slots
      PROVE  StartInv'
  BY <1>k DEF StartInv, BeginsIn, LowerDone, CountInFlight, InPhase
<1>1. CASE Reconcile /\ ~ObserveTerminal
  BY <1>1, StartReconcile
<1>2. CASE ObserveTerminal
  BY <1>2, <1>i DEF ObserveTerminal, Reading, Working
<1>3. CASE StepNode
  BY <1>3, StartStep
<1>4. ASSUME NEW n \in Node, ReleaseNode(n) PROVE StartInv'
  <2>1. /\ worker.pc = "release" /\ worker'.pc \in {"release", "write"}
        /\ worker'.status = worker.status /\ worker'.fresh = worker.fresh /\ status' = status
    BY <1>4 DEF ReleaseNode, request, TypeOK, WorkerRecord
  <2>2. QED
    BY <1>k, <2>1 DEF Working
<1>5. CASE Write
  <2>1. worker'.pc \in {"idle", "audit"}
    BY <1>5, EmptyTyped DEF Write, WorkerRecord, Idle
  <2>2. QED
    BY <1>i, <2>1 DEF Working
<1>6. CASE Conflict \/ AuditTerminal \/ Crash
  BY <1>6, <1>i DEF Conflict, AuditTerminal, Crash, Idle, Working
<1>7. CASE Deliver
  BY <1>7, <1>i, <1>k DEF Deliver
<1>8. CASE User \/ Environment \/ UNCHANGED vars
  BY <1>8, <1>i, <1>k, OutsideCordons
<1>9. QED
  BY <1>1, <1>2, <1>3, <1>4, <1>5, <1>6, <1>7, <1>8 DEF Next, Pass, Poll, Reconcile

\* Only the write of a pass begins a node, and what it begins is in order.
LEMMA BeginsInOrder ==
  ASSUME TypeOK, StartInv, [Next]_vars, NEW n \in Node, Begins(n)
  PROVE  LowerDone(n, status') /\ CountInFlight(status') <= MaxConcurrent
<1>1. CASE Write
  <2>1. worker.pc \in Working /\ worker.fresh /\ status' = worker.status
    BY <1>1 DEF Write, Accepted, Working
  <2>2. BeginsIn(n, worker.status)
    BY <2>1 DEF Begins, BeginsIn
  <2>3. QED
    BY <2>1, <2>2 DEF StartInv
<1>2. CASE ~Write
  <2>1. status' # status
    BY DEF Begins, Begun, InFlightPhases, NodeTerminal, Unlisted
  <2>2. ASSUME Reconcile PROVE status' = status
    BY <2>2, ReconcileShape DEF ObserveTerminal, Reading
  <2>3. ASSUME StepNode \/ (\E m \in Node : ReleaseNode(m)) PROVE status' = status
    BY <2>3, StepNodeShape DEF ReleaseNode, request
  <2>4. ASSUME Conflict \/ AuditTerminal \/ Crash \/ Deliver \/ Poll PROVE status' = status
    BY <2>4 DEF Conflict, AuditTerminal, Crash, Deliver, Poll, vars, request
  <2>5. ASSUME User \/ Environment \/ UNCHANGED vars PROVE status' = status
    BY <2>5, OutsideCordons
  <2>6. QED
    BY <1>2, <2>1, <2>2, <2>3, <2>4, <2>5 DEF Next, Pass
<1>3. QED
  BY <1>1, <1>2

\* The invariant about starts holds in every reachable state.
LEMMA StartCorrect == Spec => [](TypeOK /\ StartInv)
<1>1. /\ TypeOK /\ EndInv /\ ProgressInv /\ CordonInv
      /\ TypeOK /\ ProgressInv /\ InFlightAgrees /\ StartInv /\ [Next]_vars
      => StartInv'
  BY StartNext
<1>2. QED
  BY <1>1, CordonCorrect, CountCorrect, StartInit, PTL DEF Spec

\* A node is begun only when every node of a lower batch is done with, whatever
\* the plan: across pauses, retries of blocked nodes, stale reads and restarts.
THEOREM BatchesHold == Spec => BatchesInOrder
<1>1. TypeOK /\ StartInv /\ [Next]_vars =>
        [\A n \in Node : Begins(n) =>
           \A m \in Node : Batch[m] < Batch[n] =>
             status'.node[m] \in NodeTerminal \cup {Unlisted}]_vars
  BY BeginsInOrder DEF LowerDone
<1>2. QED
  BY <1>1, StartCorrect, PTL DEF Spec, BatchesInOrder

\* A node is begun only into a free slot, counted in the status it is written to.
THEOREM SlotsHold == Spec => StartsWithinSlots
<1>1. TypeOK /\ StartInv /\ [Next]_vars =>
        [\A n \in Node : Begins(n) => CountInFlight(status') <= MaxConcurrent]_vars
  BY BeginsInOrder
<1>2. QED
  BY <1>1, StartCorrect, PTL DEF Spec, StartsWithinSlots

-----------------------------------------------------------------------------
(***************************************************************************)
(* The uncordon gate.                                                      *)
(***************************************************************************)
\* The status s has handed no node back, or had the gate open to do so.
HeldBack(s) ==
  \A n \in Node : /\ s.node[n] \notin {"Replacing", "AwaitingReplacement"}
                  /\ s.node[n] \in {"Uncordoning", "Completed"} => hist.uncordonCleared

\* The inductive invariant: what the persisted, the delivered and the held copy
\* say, and what the pass remembers of the gate it read.
UncordonInv ==
  HandsBack =>
    /\ HeldBack(status) /\ HeldBack(cache.status) /\ HeldBack(worker.status)
    /\ Cleared(spec, "Uncordon") \/ Cleared(cache.spec, "Uncordon") => hist.uncordonCleared
    /\ worker.pc = "step" /\ worker.open => hist.uncordonCleared

\* No pass opens the gate, nor does the cluster.
LEMMA PassKeepsGate ==
  ASSUME TypeOK, Pass \/ Deliver \/ Crash \/ Poll \/ Environment \/ UNCHANGED vars
  PROVE  hist'.uncordonCleared = hist.uncordonCleared
<1>0. hist \in HistRecord
  BY DEF TypeOK
<1>1. CASE Reconcile
  BY <1>0, <1>1 DEF Reconcile, Accept, ObserveTerminal, UserCancel, Pause, PolicyUnresolved,
     Validating, AwaitingApproval, Planned, Resume, RetryBlocked, Executing, HistRecord
<1>2. CASE StepNode
  BY <1>0, <1>2 DEF StepNode, StartNode, CordonNode, DrainNode, CheckNode, UncordonNode,
     ReplaceNode, AwaitNode, NodeError, HistRecord
<1>3. CASE (\E n \in Node : ReleaseNode(n)) \/ Write \/ Conflict \/ AuditTerminal
  BY <1>0, <1>3 DEF ReleaseNode, Write, Conflict, AuditTerminal, HistRecord
<1>4. CASE Deliver \/ Crash \/ Poll \/ UNCHANGED vars
  BY <1>4 DEF Deliver, Crash, Poll, vars
<1>5. CASE Environment
  BY <1>0, <1>5 DEF Environment, PodsLeave, Schedule, NodeGoes, Join, GlobalTimeout,
     EnvironmentUnchanged, HistRecord
<1>6. QED
  BY <1>1, <1>2, <1>3, <1>4, <1>5 DEF Pass

\* The empty status of a new request, or of a worker with nothing to do.
LEMMA EmptyHeldBack == HeldBack(EmptyStatus) /\ Idle.status = EmptyStatus
BY DEF HeldBack, EmptyStatus, Idle, NoNodes, Unlisted

\* The invariant holds initially.
LEMMA UncordonInit == Init => UncordonInv
<1> SUFFICES ASSUME Init PROVE UncordonInv
  OBVIOUS
<1>1. /\ status = EmptyStatus /\ cache.status = EmptyStatus /\ worker.status = EmptyStatus
      /\ worker.pc = "idle"
  BY EmptyHeldBack DEF Init, Idle
<1>2. cache.spec = spec /\ hist.uncordonCleared = Cleared(spec, "Uncordon")
  BY DEF Init
<1>3. QED
  BY <1>1, <1>2, EmptyHeldBack DEF UncordonInv

\* Every step, or none, keeps the invariant.
LEMMA UncordonNext ==
  TypeOK /\ ProgressInv /\ InFlightAgrees /\ UncordonInv /\ [Next]_vars => UncordonInv'
<1> SUFFICES ASSUME TypeOK, ProgressInv, InFlightAgrees, UncordonInv, [Next]_vars, HandsBack
             PROVE  UncordonInv'
  BY DEF UncordonInv, HandsBack
<1>0. /\ HeldBack(status) /\ HeldBack(cache.status) /\ HeldBack(worker.status)
      /\ Cleared(spec, "Uncordon") \/ Cleared(cache.spec, "Uncordon") => hist.uncordonCleared
      /\ worker.pc = "step" /\ worker.open => hist.uncordonCleared
  BY DEF UncordonInv
\* The gate stays as it was, and with it what the persisted and delivered copies say.
<1>k. ASSUME hist'.uncordonCleared = hist.uncordonCleared, UNCHANGED <<spec, status, cache>>,
             HeldBack(worker'.status),
             worker'.pc = "step" /\ worker'.open => hist.uncordonCleared
      PROVE  UncordonInv'
  BY <1>0, <1>k DEF UncordonInv, HeldBack, Cleared, Evaluate
<1>1. CASE Reconcile /\ ~ObserveTerminal
  <2>1. UNCHANGED <<spec, status, cache>> /\ hist'.uncordonCleared = hist.uncordonCleared
    <3>1. hist'.uncordonCleared = hist.uncordonCleared
      BY <1>1, PassKeepsGate DEF Pass
    <3>2. QED
      BY <1>1, <3>1 DEF Reconcile, Accept, UserCancel, Pause, PolicyUnresolved, Validating,
         AwaitingApproval, Planned, Resume, RetryBlocked, Executing, Dispatched, Reading
  <2>2. ReadOutcome
    BY <1>1, ReconcileOutcome DEF ProgressInv, seen
  <2>3. CASE StartsLoop
    <3>1. UncordonOpen(cache.spec) => hist.uncordonCleared
      BY <1>0 DEF HandsBack, UncordonOpen, Cleared
    <3>2. QED
      BY <1>0, <1>k, <2>1, <2>3, <3>1 DEF StartsLoop, seen
  <2>4. CASE \E s \in StatusRecord : Kept(seen, s) /\ Outcome(s)
    <3>1. HeldBack(worker'.status) /\ worker'.pc # "step"
      BY <1>0, <2>4 DEF Kept, Outcome, HeldBack, seen
    <3>2. QED
      BY <1>k, <2>1, <3>1
  <2>5. QED
    BY <2>2, <2>3, <2>4 DEF ReadOutcome
<1>2. CASE ObserveTerminal
  BY <1>0, <1>2, <1>k DEF ObserveTerminal, Reading
<1>3. CASE StepNode
  <2>1. hist'.uncordonCleared = hist.uncordonCleared
    BY <1>3, PassKeepsGate DEF Pass
  <2>2. worker.pc = "step" /\ UNCHANGED <<spec, status, cache>>
    BY <1>3 DEF StepNode, StartNode, CordonNode, DrainNode, CheckNode, UncordonNode,
       ReplaceNode, AwaitNode, NodeError, Visiting, request
  <2>3. PICK n \in Node : \E s \in StatusRecord : StepResult(n, s)
    BY <1>3, StepOutcome DEF ProgressInv
  <2>4. PICK s \in StatusRecord : StepResult(n, s)
    BY <2>3
  <2>5. HeldBack(s)
    <3>1. MovesNode(n, worker.status.node[n], s.node[n])
      BY <2>4 DEF StepResult
    <3>2. /\ s.node[n] \notin {"Replacing", "AwaitingReplacement"}
          /\ s.node[n] \in {"Uncordoning", "Completed"} => hist.uncordonCleared
      BY <1>0, <2>2, <3>1 DEF MovesNode, NodeMoves, HeldBack
    <3>3. QED
      BY <1>0, <2>4, <3>2 DEF StepResult, HeldBack
  <2>6. /\ worker'.status.node = s.node
        /\ worker'.pc = "step" => worker'.open = worker.open
    BY <2>4 DEF StepResult, GoesOn, Outcome
  <2>7. HeldBack(worker'.status)
    BY <2>5, <2>6 DEF HeldBack
  <2>8. QED
    BY <1>0, <1>k, <2>1, <2>2, <2>6, <2>7
<1>4. ASSUME NEW n \in Node, ReleaseNode(n) PROVE UncordonInv'
  <2>1. hist'.uncordonCleared = hist.uncordonCleared
    BY <1>4, PassKeepsGate DEF Pass
  <2>2. /\ UNCHANGED <<spec, status, cache>> /\ worker'.status = worker.status
        /\ worker'.pc # "step"
    BY <1>4 DEF ReleaseNode, request, TypeOK, WorkerRecord
  <2>3. QED
    BY <1>0, <1>k, <2>1, <2>2
<1>5. CASE Write
  <2>1. status' = worker.status /\ UNCHANGED <<spec, cache, hist>>
    BY <1>5 DEF Write
  <2>2. worker'.status = EmptyStatus /\ worker'.pc # "step"
    BY <1>5, EmptyTyped DEF Write, Idle, WorkerRecord
  <2>3. QED
    BY <1>0, <2>1, <2>2, EmptyHeldBack DEF UncordonInv, HeldBack, Cleared, Evaluate
<1>6. CASE Conflict \/ AuditTerminal
  <2>1. hist'.uncordonCleared = hist.uncordonCleared
    BY <1>6, PassKeepsGate DEF Pass
  <2>2. UNCHANGED <<spec, status, cache>> /\ worker'.status = EmptyStatus /\ worker'.pc # "step"
    BY <1>6, EmptyHeldBack DEF Conflict, AuditTerminal, request, Idle
  <2>3. QED
    BY <1>k, <2>1, <2>2, EmptyHeldBack
<1>7. CASE Deliver
  BY <1>0, <1>7 DEF Deliver, UncordonInv, HeldBack, Cleared, Evaluate
<1>8. CASE Crash
  <2>1. worker'.status = EmptyStatus /\ worker'.pc = "idle"
    BY <1>8, EmptyHeldBack DEF Crash, Idle
  <2>2. QED
    BY <1>0, <1>8, <2>1, EmptyHeldBack DEF Crash, UncordonInv, HeldBack, Cleared, Evaluate
<1>9. ASSUME NEW sp, Edit(sp)
      PROVE  UncordonInv'
  <2>1. spec' = sp /\ UNCHANGED <<status, cache>>
    BY <1>9 DEF Edit
  <2>2. worker'.status = worker.status /\ worker'.pc = worker.pc /\ worker'.open = worker.open
    BY <1>9 DEF Edit, TypeOK, WorkerRecord
  <2>3. hist'.uncordonCleared = (hist.uncordonCleared \/ Cleared(sp, "Uncordon"))
    BY <1>9 DEF Edit, TypeOK, HistRecord
  <2>4. QED
    BY <1>0, <2>1, <2>2, <2>3 DEF UncordonInv, HeldBack, Cleared, Evaluate
<1>10. CASE Environment \/ UNCHANGED vars
  <2>1. hist'.uncordonCleared = hist.uncordonCleared
    BY <1>10, PassKeepsGate
  <2>2. UNCHANGED <<spec, status, cache, worker>>
    BY <1>10 DEF Environment, PodsLeave, Schedule, NodeGoes, Join, GlobalTimeout,
       EnvironmentUnchanged, request, vars
  <2>3. QED
    BY <1>0, <1>k, <2>1, <2>2
<1>11. QED
  BY <1>1, <1>2, <1>3, <1>4, <1>5, <1>6, <1>7, <1>8, <1>9, <1>10
  DEF Next, Pass, Poll, Reconcile, User, TogglePause, ToggleCancel, ChangeMode, ChangePolicy,
      Decide

\* On the normal path a node is handed back only if the uncordon gate was open at
\* some moment, whatever the user decides, changes his mind about or edits, and
\* however old the decision is that the pass read.
THEOREM UncordonGateHolds == Spec => []UncordonGateRespected
<1>1. UncordonInv => UncordonGateRespected
  BY DEF UncordonInv, UncordonGateRespected, HandsBack, HeldBack, Persisted, InPhase
<1>2. QED
  BY <1>1, CountCorrect, UncordonInit, UncordonNext, PTL DEF Spec

-----------------------------------------------------------------------------
(***************************************************************************)
(* Replacements: the Machine goes after the pods.                          *)
(***************************************************************************)
\* No pod is scheduled to the node any more. While nodes are replaced, none is
\* ever uncordoned, and a Machine that was deleted does not come back.
Closed(n) == n \in cordoned \/ machine[n] # "Running"

\* What the phase of a node in some copy says of the node itself.
Emptied(s) ==
  \A n \in Node :
    /\ s.node[n] = "Uncordoning" => ~ReplaceNodes
    /\ s.node[n] = "Replacing" => ReplaceNodes
    /\ ReplaceNodes =>
         /\ s.node[n] \in {"Draining", "Blocked", "PostCheck", "Replacing", "AwaitingReplacement"}
              => Closed(n)
         /\ s.node[n] \in {"PostCheck", "Replacing"} => n \notin busy

\* The inductive invariant.
EmptyInv ==
  /\ Emptied(status) /\ Emptied(cache.status) /\ Emptied(worker.status)
  /\ worker.pc = "release" => ~ReplaceNodes
  /\ \A n \in Node : machine[n] = "Deleting" => n \notin busy

\* A step that opens no node and fills none that is closed.
KeepsClosed ==
  ReplaceNodes => \A n \in Node : Closed(n) => Closed(n)' /\ (n \notin busy => n \notin busy')

\* No machine is deleted but one whose node is empty.
DeletesEmpty == \A n \in Node : machine'[n] = "Deleting" => n \notin busy /\ n \notin busy'

\* The invariant holds initially.
LEMMA EmptyInit == Init => EmptyInv
<1> SUFFICES ASSUME Init PROVE EmptyInv
  OBVIOUS
<1>1. /\ status = EmptyStatus /\ cache.status = EmptyStatus /\ worker.status = EmptyStatus
      /\ worker.pc = "idle" /\ \A n \in Node : machine[n] = "Running"
  BY DEF Init, Idle
<1>2. Emptied(EmptyStatus)
  BY DEF Emptied, EmptyStatus, NoNodes, Unlisted
<1>3. Emptied(status) /\ Emptied(cache.status) /\ Emptied(worker.status)
  BY <1>1, <1>2
<1>4. QED
  BY <1>1, <1>3 DEF EmptyInv

\* Every step, or none, keeps the invariant and deletes only what is empty.
LEMMA EmptyNext ==
  TypeOK /\ ProgressInv /\ InFlightAgrees /\ EmptyInv /\ [Next]_vars
    => EmptyInv' /\ DeletesEmpty
<1> SUFFICES ASSUME TypeOK, ProgressInv, InFlightAgrees, EmptyInv, [Next]_vars
             PROVE  EmptyInv' /\ DeletesEmpty
  OBVIOUS
<1>0. /\ Emptied(status) /\ Emptied(cache.status) /\ Emptied(worker.status)
      /\ \A n \in Node : machine[n] = "Deleting" => n \notin busy
  BY DEF EmptyInv
<1>e. Emptied(EmptyStatus) /\ Emptied(EmptyStatus)'
  BY DEF Emptied, EmptyStatus, NoNodes, Unlisted
\* Most steps leave the cluster alone and pass a copy on.
<1>k. ASSUME UNCHANGED <<cordoned, busy, machine>>, worker'.pc = "release" => ~ReplaceNodes,
             status' \in {status, worker.status}, cache'.status \in {status, cache.status},
             Emptied(worker'.status)
      PROVE  EmptyInv' /\ DeletesEmpty
  <2>1. Emptied(status') /\ Emptied(cache'.status)
    BY <1>0, <1>k
  <2>2. QED
    BY <1>0, <1>k, <2>1 DEF EmptyInv, DeletesEmpty, Emptied, Closed
<1>1. CASE Reconcile /\ ~ObserveTerminal
  <2>1. UNCHANGED <<status, cache, cordoned, busy, machine>>
    BY <1>1 DEF Reconcile, Accept, UserCancel, Pause, PolicyUnresolved, Validating,
       AwaitingApproval, Planned, Resume, RetryBlocked, Executing, Dispatched, Reading, cluster
  <2>2. ReadOutcome
    BY <1>1, ReconcileOutcome DEF ProgressInv, seen
  <2>3. CASE StartsLoop
    BY <1>0, <1>k, <2>1, <2>3 DEF StartsLoop, seen
  <2>4. CASE \E s \in StatusRecord : Kept(seen, s) /\ Outcome(s)
    <3> PICK s \in StatusRecord : Kept(seen, s) /\ Outcome(s)
      BY <2>4
    <3>1. Emptied(s)
      BY <1>0 DEF Kept, Emptied, seen
    <3>2. Emptied(worker'.status) /\ (worker'.pc = "release" => ~ReplaceNodes)
      BY <3>1 DEF Emptied, Outcome, HandsBack
    <3>3. QED
      BY <1>k, <2>1, <3>2
  <2>5. QED
    BY <2>2, <2>3, <2>4 DEF ReadOutcome
<1>2. CASE ObserveTerminal
  BY <1>0, <1>2, <1>k DEF ObserveTerminal, Reading, cluster, EmptyInv
<1>3. CASE StepNode
  <2>1. worker.pc = "step" /\ UNCHANGED <<status, cache>>
    BY <1>3, StepNodeShape
  <2>2. PICK n \in Node : \E s \in StatusRecord : StepResult(n, s)
    BY <1>3, StepOutcome DEF ProgressInv
  <2>3. PICK s \in StatusRecord : StepResult(n, s)
    BY <2>2
  <2> DEFINE from == worker.status.node[n]
  <2>4. /\ \A m \in Node \ {n} : s.node[m] = worker.status.node[m]
        /\ MovesNode(n, from, s.node[n]) /\ TouchesNode(n, from, s.node[n]) /\ GoesOn(n, s)
    BY <2>3 DEF StepResult
  <2>5. DeletesEmpty
    <3> SUFFICES ASSUME NEW m \in Node, machine'[m] = "Deleting" PROVE m \notin busy
      BY <2>4 DEF DeletesEmpty, TouchesNode
    <3>1. CASE machine'[m] = machine[m]
      BY <1>0, <3>1
    <3>2. CASE machine'[m] # machine[m]
      BY <1>0, <2>4, <3>2 DEF TouchesNode, Emptied
    <3>3. QED
      BY <3>1, <3>2
  <2>6. ReplaceNodes => cordoned \subseteq cordoned'
    BY <1>0, <2>4 DEF TouchesNode, Emptied
  <2>7. KeepsClosed
    BY <2>4, <2>6 DEF KeepsClosed, Closed, TouchesNode
  <2>8. Emptied(s)'
    <3>1. ASSUME NEW m \in Node \ {n}
          PROVE  /\ s.node[m] = "Uncordoning" => ~ReplaceNodes
                 /\ s.node[m] = "Replacing" => ReplaceNodes
                 /\ ReplaceNodes =>
                      /\ s.node[m] \in {"Draining", "Blocked", "PostCheck", "Replacing",
                                        "AwaitingReplacement"} => Closed(m)'
                      /\ s.node[m] \in {"PostCheck", "Replacing"} => m \notin busy'
      BY <1>0, <2>4, <2>7 DEF Emptied, KeepsClosed
    <3>2. /\ s.node[n] = "Uncordoning" => ~ReplaceNodes
          /\ s.node[n] = "Replacing" => ReplaceNodes
      BY <1>0, <2>4 DEF MovesNode, Emptied, HandsBack
    <3>3. ASSUME ReplaceNodes
          PROVE  /\ s.node[n] \in {"Draining", "Blocked", "PostCheck", "Replacing",
                                   "AwaitingReplacement"} => Closed(n)'
                 /\ s.node[n] \in {"PostCheck", "Replacing"} => n \notin busy'
      <4>1. CASE from = s.node[n]
        BY <1>0, <2>4, <2>7, <3>3, <4>1 DEF Emptied, KeepsClosed, TouchesNode
      <4>2. CASE <<from, s.node[n]>> \in NodeMoves /\ from # s.node[n]
        <5>1. s.node[n] \in {"Draining", "Blocked", "PostCheck", "Replacing",
                             "AwaitingReplacement"} => Closed(n)'
          BY <1>0, <2>7, <3>3, <4>2 DEF Emptied, KeepsClosed, NodeMoves
        <5>2. s.node[n] \in {"PostCheck", "Replacing"} => n \notin busy'
          BY <1>0, <2>4, <3>3, <4>2 DEF Emptied, TouchesNode, NodeMoves
        <5>3. QED
          BY <5>1, <5>2
      <4>3. CASE from = "Cordoning" /\ s.node[n] = "Draining"
        BY <2>4, <4>3 DEF TouchesNode, Closed
      <4>4. CASE from = "Uncordoning"
        BY <1>0, <3>3, <4>4 DEF Emptied
      <4>5. QED
        BY <2>4, <4>1, <4>2, <4>3, <4>4 DEF MovesNode
    <3>4. QED
      BY <3>1, <3>2, <3>3 DEF Emptied
  <2>9. Emptied(worker.status)' /\ (worker'.pc = "release" => ~ReplaceNodes)
    <3>1. worker'.status.node = s.node /\ (worker'.pc = "release" => ~ReplaceNodes)
      BY <2>4 DEF GoesOn, Outcome, HandsBack
    <3>2. QED
      BY <2>8, <3>1 DEF Emptied
  <2>10. Emptied(status)' /\ Emptied(cache.status)'
    BY <1>0, <2>1, <2>7 DEF Emptied, KeepsClosed
  <2>11. QED
    BY <2>5, <2>9, <2>10 DEF EmptyInv, DeletesEmpty
<1>4. ASSUME NEW n \in Node, ReleaseNode(n) PROVE EmptyInv' /\ DeletesEmpty
  <2>1. /\ worker.pc = "release" /\ worker'.status = worker.status
        /\ UNCHANGED <<status, cache, busy, machine>>
    BY <1>4 DEF ReleaseNode, request, TypeOK, WorkerRecord
  <2>2. ~ReplaceNodes
    BY <2>1 DEF EmptyInv
  <2>3. QED
    BY <1>0, <2>1, <2>2 DEF EmptyInv, DeletesEmpty, Emptied
<1>5. CASE Write
  <2>1. worker'.status = EmptyStatus /\ worker'.pc # "release"
    BY <1>5, EmptyTyped DEF Write, Idle, WorkerRecord
  <2>2. QED
    BY <1>5, <1>e, <1>k, <2>1 DEF Write, cluster
<1>6. CASE Conflict \/ AuditTerminal \/ Crash
  <2>1. worker'.status = EmptyStatus /\ worker'.pc = "idle"
    BY <1>6, EmptyHeldBack DEF Conflict, AuditTerminal, Crash, Idle
  <2>2. UNCHANGED <<status, cordoned, busy, machine>> /\ cache'.status \in {status, cache.status}
    BY <1>6 DEF Conflict, AuditTerminal, Crash, request, cluster
  <2>3. QED
    BY <1>e, <1>k, <2>1, <2>2
<1>7. CASE Deliver
  BY <1>0, <1>7, <1>k DEF Deliver, cluster, EmptyInv
<1>8. CASE User \/ UNCHANGED vars
  <2>1. UNCHANGED <<cordoned, busy, machine>>
    BY <1>8 DEF User, TogglePause, ToggleCancel, ChangeMode, ChangePolicy, Decide, Edit, cluster,
       vars
  <2>2. worker'.pc = worker.pc /\ worker'.status = worker.status /\ UNCHANGED <<status, cache>>
    BY <1>8, OutsideCordons
  <2>3. QED
    BY <1>0, <1>k, <2>1, <2>2 DEF EmptyInv
<1>9. CASE Environment
  <2>1. worker'.pc = worker.pc /\ worker'.status = worker.status /\ UNCHANGED <<status, cache>>
    BY <1>9, OutsideCordons
  <2> DEFINE Closes ==
        KeepsClosed /\ \A n \in Node : machine'[n] = "Deleting" =>
                         machine[n] = "Deleting" /\ (n \notin busy => n \notin busy')
  <2>2. Closes
    <3>1. ASSUME NEW m \in Node, PodsLeave(m) PROVE Closes
      BY <3>1 DEF PodsLeave, KeepsClosed, Closed
    <3>2. ASSUME NEW m \in Node, Schedule(m) PROVE Closes
      BY <3>2 DEF Schedule, KeepsClosed, Closed
    <3>3. ASSUME NEW m \in Node, NodeGoes(m) PROVE Closes
      BY <3>3 DEF NodeGoes, KeepsClosed, Closed, TypeOK
    <3>4. ASSUME Join \/ GlobalTimeout PROVE Closes
      BY <3>4 DEF Join, GlobalTimeout, cluster, KeepsClosed, Closed
    <3>5. QED
      BY <1>9, <3>1, <3>2, <3>3, <3>4 DEF Environment
  <2>3. Emptied(status)' /\ Emptied(cache.status)' /\ Emptied(worker.status)'
    BY <1>0, <2>1, <2>2 DEF Emptied, KeepsClosed
  <2>4. QED
    BY <1>0, <2>1, <2>2, <2>3 DEF EmptyInv, DeletesEmpty
<1>10. QED
  BY <1>1, <1>2, <1>3, <1>4, <1>5, <1>6, <1>7, <1>8, <1>9 DEF Next, Pass, Poll, Reconcile

\* A Machine is deleted only when its node is drained: no pass, however stale its
\* copy or often repeated, deletes one whose node holds pods, and none comes to it
\* between the drain and the deletion.
THEOREM DeletionsAreDrained == Spec => DeletesOnlyDrained
<1>1. TypeOK /\ ProgressInv /\ InFlightAgrees /\ EmptyInv /\ [Next]_vars => EmptyInv'
  BY EmptyNext
<1>2. TypeOK /\ ProgressInv /\ InFlightAgrees /\ EmptyInv /\ [Next]_vars =>
        [\A n \in Node : machine'[n] = "Deleting" => n \notin busy]_vars
  BY EmptyNext DEF DeletesEmpty
<1>3. QED
  BY <1>1, <1>2, CountCorrect, EmptyInit, PTL DEF Spec, DeletesOnlyDrained

-----------------------------------------------------------------------------
(***************************************************************************)
(* Replacements: one joins for each node that is reported replaced. A node *)
(* that awaits its replacement is the only one the loop moves, so as many  *)
(* are reported replaced as when its baseline was taken; it follows it by  *)
(* one only when more have joined than the baseline counts. Every copy of  *)
(* the status says so by itself, for the count of those that joined grows. *)
(***************************************************************************)
Awaiting(s) == InPhase(s, {"AwaitingReplacement"})

Replaced(s) == Cardinality(InPhase(s, {"Completed"}))

\* What a copy of the status says of the replacements that joined.
JoinedSoFar(s) ==
  /\ Replaced(s) <= ready
  /\ \A n \in Awaiting(s) : n \in CurrentBatch(s) /\ Replaced(s) <= s.baseline[n]
  /\ s.phase = "Blocked" => Awaiting(s) = {}

\* The inductive invariant.
JoinInv ==
  /\ JoinedSoFar(status) /\ JoinedSoFar(cache.status) /\ JoinedSoFar(worker.status)
  /\ worker.pc = "step" => worker.todo \subseteq CurrentBatch(worker.status)

\* The nodes reported replaced can be counted.
LEMMA ReplacedIsNat == ASSUME NEW s PROVE Replaced(s) \in Nat
<1>1. IsFiniteSet(Node) /\ InPhase(s, {"Completed"}) \subseteq Node
  BY SizeAssumption, FS_Interval DEF Node, InPhase
<1> QED BY <1>1, FS_Subset, FS_CardinalityType DEF Replaced

\* A node that is reported replaced adds one to them.
LEMMA ReplacedGrows ==
  ASSUME NEW s, NEW t, NEW n \in Node, \A m \in Node \ {n} : t.node[m] = s.node[m],
         s.node[n] # "Completed"
  PROVE  Replaced(t) = IF t.node[n] = "Completed" THEN Replaced(s) + 1 ELSE Replaced(s)
<1> DEFINE S == InPhase(s, {"Completed"})
           T == InPhase(t, {"Completed"})
<1>1. T = IF t.node[n] = "Completed" THEN S \cup {n} ELSE S
  BY DEF InPhase
<1>2. n \notin S /\ IsFiniteSet(S)
  <2>1. IsFiniteSet(Node) /\ S \subseteq Node
    BY SizeAssumption, FS_Interval DEF Node, InPhase
  <2> QED BY <2>1, FS_Subset DEF InPhase
<1> HIDE DEF S, T
<1>3. Cardinality(S \cup {n}) = Cardinality(S) + 1
  BY <1>2, FS_AddElement
<1>4. Replaced(s) = Cardinality(S) /\ Replaced(t) = Cardinality(T)
  BY DEF Replaced, S, T
<1> QED BY <1>1, <1>3, <1>4

\* The nodes and baselines of a copy are what it says of the replacements.
LEMMA JoinedSame ==
  ASSUME NEW s, NEW t, JoinedSoFar(s), t.node = s.node, t.baseline = s.baseline,
         t.phase = "Blocked" => Awaiting(s) = {}
  PROVE  JoinedSoFar(t)
BY DEF JoinedSoFar, Awaiting, Replaced, InPhase, CurrentBatch, Unfinished

\* A copy in which no node awaits its replacement says little of them.
LEMMA JoinedNone ==
  ASSUME NEW s, NEW t, JoinedSoFar(s), Awaiting(t) = {},
         InPhase(t, {"Completed"}) = InPhase(s, {"Completed"})
  PROVE  JoinedSoFar(t)
BY DEF JoinedSoFar, Replaced

\* The handlers that end a pass on the copy s.
EndsOn(s) ==
  Save(s) \/ Fail(s) \/ Cancel(s, TRUE) \/ Cancel(s, FALSE) \/ Complete(s)

\* They keep its nodes and baselines.
LEMMA EndsOnFields ==
  ASSUME TypeOK, NEW s \in StatusRecord, EndsOn(s)
  PROVE  /\ worker'.pc # "step" /\ worker'.status.node = s.node
         /\ worker'.status.baseline = s.baseline /\ worker'.status.started = s.started
         /\ worker'.status.phase = s.phase \/ worker'.status.phase \in Terminal
<1>1. CASE Save(s)
  BY <1>1, OutcomeCopy
<1>2. ASSUME NEW p \in Terminal, NEW todo, Finish(s, p, todo)
      PROVE  /\ worker'.pc # "step" /\ worker'.status.node = s.node
             /\ worker'.status.baseline = s.baseline /\ worker'.status.started = s.started
             /\ worker'.status.phase = p
  <2>1. worker'.status = [s EXCEPT !.phase = p] /\ worker'.pc \in {"write", "release"}
    BY <1>2, OutcomeCopy
  <2> QED BY <2>1 DEF StatusRecord
<1>3. \/ Save(s) \/ \E p \in Terminal : \E todo : Finish(s, p, todo)
  BY DEF EndsOn, Fail, Cancel, Complete, Terminal
<1> QED BY <1>1, <1>2, <1>3

\* A pass that ends on the nodes it read keeps what they say.
LEMMA EndsJoined ==
  ASSUME TypeOK, NEW s \in StatusRecord, EndsOn(s), ready' = ready, JoinedSoFar(s)
  PROVE  worker'.pc # "step" /\ JoinedSoFar(worker.status)'
<1>1. /\ worker'.pc # "step" /\ worker'.status.node = s.node
      /\ worker'.status.baseline = s.baseline
      /\ worker'.status.phase = "Blocked" => s.phase = "Blocked"
  BY EndsOnFields DEF Terminal
<1>2. JoinedSoFar(worker'.status)
  BY <1>1, JoinedSame DEF JoinedSoFar
<1> QED BY <1>1, <1>2 DEF JoinedSoFar

\* So does one that is over: it is only blocked when no node is unfinished.
LEMMA CompletionJoined ==
  ASSUME TypeOK, NEW s \in StatusRecord, CompleteExecution(s), CurrentBatch(s) = {},
         ready' = ready, JoinedSoFar(s)
  PROVE  worker'.pc # "step" /\ JoinedSoFar(worker.status)'
<1>1. Awaiting(s) = {}
  BY DEF JoinedSoFar
<1>2. CASE Save([s EXCEPT !.phase = "Blocked"])
  <2> DEFINE t == [s EXCEPT !.phase = "Blocked"]
  <2>1. t \in StatusRecord /\ t.node = s.node /\ t.baseline = s.baseline
    BY DEF StatusRecord, Phase
  <2> HIDE DEF t
  <2>2. JoinedSoFar(t)
    BY <1>1, <2>1, JoinedSame
  <2> QED BY <1>2, <2>1, <2>2, EndsJoined DEF EndsOn, t
<1>3. CASE Fail(s) \/ Complete(s)
  BY <1>3, EndsJoined DEF EndsOn
<1> QED BY <1>2, <1>3 DEF CompleteExecution

\* A handler keeps what the status it read says of the replacements, and starts
\* the loop on the whole batch.
LEMMA JoinedReconcile ==
  ASSUME TypeOK, Reconcile, ~ObserveTerminal, Coherent(seen), JoinedSoFar(seen)
  PROVE  JoinedSoFar(worker.status)'
         /\ (worker'.pc = "step" => worker'.todo \subseteq CurrentBatch(worker'.status))
<1> DEFINE Goal == JoinedSoFar(worker.status)'
                   /\ (worker'.pc = "step" => worker'.todo \subseteq CurrentBatch(worker'.status))
<1>0. seen \in StatusRecord
  BY SeenTyped
<1>r. ready' = ready
  BY DEF Reconcile, Accept, UserCancel, Pause, PolicyUnresolved, Validating, AwaitingApproval,
     Planned, Resume, RetryBlocked, Executing, Dispatched, Reading, cluster, ObserveTerminal
<1>s. ASSUME NEW s \in StatusRecord, EndsOn(s), s.node = seen.node, s.baseline = seen.baseline,
             s.phase = "Blocked" => seen.phase = "Blocked" \/ Awaiting(seen) = {}
      PROVE  Goal
  <2>1. s.phase = "Blocked" => Awaiting(seen) = {}
    BY <1>s DEF JoinedSoFar
  <2>2. JoinedSoFar(s)
    BY <1>s, <2>1, JoinedSame
  <2> QED BY <1>r, <1>s, <2>2, EndsJoined
<1>n. ASSUME NEW s \in StatusRecord, EndsOn(s), Awaiting(s) = {},
             InPhase(s, {"Completed"}) = InPhase(seen, {"Completed"})
      PROVE  Goal
  <2>1. JoinedSoFar(s)
    BY <1>n, JoinedNone
  <2> QED BY <1>r, <1>n, <2>1, EndsJoined
<1>p. ASSUME NEW s \in StatusRecord, NEW p \in Phase
      PROVE  /\ [s EXCEPT !.phase = p] \in StatusRecord
             /\ [s EXCEPT !.phase = p].node = s.node
             /\ [s EXCEPT !.phase = p].baseline = s.baseline
             /\ [s EXCEPT !.phase = p].phase = p
  BY DEF StatusRecord
<1>q. [seen EXCEPT !.plan = TRUE] \in StatusRecord /\ [seen EXCEPT !.plan = TRUE].node = seen.node
      /\ [seen EXCEPT !.plan = TRUE].baseline = seen.baseline
      /\ [seen EXCEPT !.plan = TRUE].phase = seen.phase
  BY <1>0 DEF StatusRecord
<1>e. ASSUME seen.node = NoNodes PROVE Awaiting(seen) = {}
  BY <1>e DEF Awaiting, InPhase, NoNodes, Unlisted
<1>f. ASSUME Fail(seen) \/ Cancel(seen, TRUE) \/ Cancel(seen, FALSE) \/ Complete(seen) PROVE Goal
  BY <1>0, <1>s, <1>f DEF EndsOn
<1>1. CASE Accept \/ Pause \/ Resume
  <2>1. PICK p \in Phase \ {"Blocked"} : Save([seen EXCEPT !.phase = p])
    BY <1>1, PhasesTyped DEF Accept, Pause, Resume, ResumePhase, InitialPhase, Phase
  <2> DEFINE s == [seen EXCEPT !.phase = p]
  <2>2. s \in StatusRecord /\ s.node = seen.node /\ s.baseline = seen.baseline /\ s.phase = p
    BY <1>0, <1>p
  <2>3. EndsOn(s)
    BY <2>1 DEF EndsOn
  <2> HIDE DEF s
  <2> QED BY <1>s, <2>2, <2>3
<1>2. CASE UserCancel \/ PolicyUnresolved
  BY <1>2, <1>f DEF UserCancel, PolicyUnresolved
<1>3. CASE Validating
  <2>1. Awaiting(seen) = {}
    BY <1>3, <1>e DEF Validating, Dispatched, Reading, Coherent
  <2>2. CASE Fail(seen) \/ Complete(seen)
    BY <1>f, <2>2
  <2>3. CASE Save([seen EXCEPT !.phase = "Blocked"])
    BY <1>0, <1>p, <1>s, <2>1, <2>3 DEF EndsOn, Phase
  <2>4. CASE Complete(Validated) \/ Cancel(Validated, FALSE)
    BY <1>q, <1>s, <2>1, <2>4 DEF EndsOn, Validated
  <2>5. CASE Save([Validated EXCEPT !.gate = "Drain", !.phase = "AwaitingApproval"])
    <3> DEFINE s == [Validated EXCEPT !.gate = "Drain", !.phase = "AwaitingApproval"]
    <3>1. s \in StatusRecord /\ s.node = seen.node /\ s.baseline = seen.baseline
      BY <1>q DEF Validated, StatusRecord, Gate, Phase
    <3> HIDE DEF s
    <3> QED BY <1>s, <2>1, <2>5, <3>1 DEF EndsOn, s
  <2>6. CASE Save([Validated EXCEPT !.phase = "Planned"])
    <3> DEFINE s == [Validated EXCEPT !.phase = "Planned"]
    <3>1. s \in StatusRecord /\ s.node = seen.node /\ s.baseline = seen.baseline
      BY <1>q DEF Validated, StatusRecord, Phase
    <3> HIDE DEF s
    <3> QED BY <1>s, <2>1, <2>6, <3>1 DEF EndsOn, s
  <2> QED BY <1>3, <2>2, <2>3, <2>4, <2>5, <2>6 DEF Validating
<1>4. CASE AwaitingApproval
  <2>1. CASE Cancel(seen, FALSE)
    BY <1>f, <2>1
  <2>2. ASSUME NEW gate, Save(PassGate(seen, gate)) PROVE Goal
    <3> DEFINE s == PassGate(seen, gate)
    <3>1. s \in StatusRecord /\ s.node = seen.node /\ s.baseline = seen.baseline
          /\ s.phase # "Blocked"
      BY <1>0 DEF PassGate, NextPhaseAfterGate, StatusRecord, Gate, Phase
    <3> HIDE DEF s
    <3> QED BY <1>s, <2>2, <3>1 DEF EndsOn, s
  <2> QED BY <1>4, <2>1, <2>2 DEF AwaitingApproval
<1>5. CASE Planned
  <2> DEFINE planned == [seen EXCEPT !.plan = TRUE]
  <2>1. seen.node = NoNodes /\ Awaiting(seen) = {}
    BY <1>5, <1>e DEF Planned, Dispatched, Reading, Coherent
  <2>2. CASE Fail(seen)
    BY <1>f, <2>2
  <2>3. CASE Save(planned) \/ Complete(planned) \/ Fail(planned)
    BY <1>q, <1>s, <2>1, <2>3 DEF EndsOn
  <2>4. ASSUME NEW target \in Targets,
               Save([planned EXCEPT !.phase = "Executing", !.started = TRUE,
                       !.node = IF @ = NoNodes THEN InitNodeStatuses(target) ELSE @])
        PROVE  Goal
    <3> DEFINE s == [planned EXCEPT !.phase = "Executing", !.started = TRUE,
                       !.node = IF @ = NoNodes THEN InitNodeStatuses(target) ELSE @]
    <3>1. InitNodeStatuses(target) \in [Node -> NodePhase \cup {Unlisted}]
      BY DEF InitNodeStatuses, NodePhase
    <3>2. s \in StatusRecord /\ s.node = InitNodeStatuses(target)
      BY <1>q, <2>1, <3>1 DEF StatusRecord, Phase
    <3> HIDE DEF s
    <3>3. Awaiting(s) = {} /\ InPhase(s, {"Completed"}) = InPhase(seen, {"Completed"})
      BY <2>1, <3>2 DEF Awaiting, InPhase, InitNodeStatuses, NoNodes, Unlisted
    <3> QED BY <1>n, <2>4, <3>2, <3>3 DEF EndsOn, s
  <2> QED BY <1>5, <2>2, <2>3, <2>4 DEF Planned
<1>6. CASE RetryBlocked
  <2>1. Awaiting(seen) = {}
    BY <1>6 DEF RetryBlocked, Dispatched, Reading, JoinedSoFar
  <2>2. CASE Fail(seen)
    BY <1>f, <2>2
  <2>3. CASE Save(Retry(seen))
    <3> DEFINE s == Retry(seen)
    <3>1. s \in StatusRecord /\ s.node = [n \in Node |-> IF seen.node[n] = "Blocked" THEN "Draining"
                                                        ELSE seen.node[n]]
      BY <1>0 DEF Retry, StatusRecord, Phase, NodePhase, InFlightPhases
    <3> HIDE DEF s
    <3>2. Awaiting(s) = {} /\ InPhase(s, {"Completed"}) = InPhase(seen, {"Completed"})
      BY <2>1, <3>1 DEF Awaiting, InPhase
    <3> QED BY <1>n, <2>3, <3>1, <3>2 DEF EndsOn, s
  <2>4. CASE Save([seen EXCEPT !.phase = "Validating"])
    <3> DEFINE s == [seen EXCEPT !.phase = "Validating"]
    <3>1. s \in StatusRecord /\ s.node = seen.node /\ s.baseline = seen.baseline
      BY <1>0 DEF StatusRecord, Phase
    <3> HIDE DEF s
    <3> QED BY <1>s, <2>1, <2>4, <3>1 DEF EndsOn, s
  <2> QED BY <1>6, <2>2, <2>3, <2>4 DEF RetryBlocked
<1>7. CASE Executing
  <2>1. CASE Fail(seen)
    BY <1>f, <2>1
  <2>2. CASE Save([seen EXCEPT !.gate = "Uncordon", !.phase = "AwaitingApproval"])
    <3> DEFINE s == [seen EXCEPT !.gate = "Uncordon", !.phase = "AwaitingApproval"]
    <3>1. s \in StatusRecord /\ s.node = seen.node /\ s.baseline = seen.baseline
          /\ s.phase # "Blocked"
      BY <1>0 DEF StatusRecord, Gate, Phase
    <3> HIDE DEF s
    <3> QED BY <1>s, <2>2, <3>1 DEF EndsOn, s
  <2>3. CASE CurrentBatch(seen) = {} /\ CompleteExecution(seen)
    BY <1>0, <1>r, <2>3, CompletionJoined
  <2>4. ASSUME NEW k, NEW slots, NEW o,
               worker' = [Holding("step", seen) EXCEPT
                            !.todo = CurrentBatch(seen), !.inFlight = k,
                            !.slots = slots, !.open = o]
        PROVE  Goal
    <3>1. worker'.status = seen /\ worker'.todo = CurrentBatch(seen)
      BY <2>4, EmptyTyped DEF Holding, WorkerRecord
    <3> QED BY <1>r, <3>1 DEF JoinedSoFar
  <2> QED BY <1>7, <2>1, <2>2, <2>3, <2>4 DEF Executing
<1> QED
  BY <1>1, <1>2, <1>3, <1>4, <1>5, <1>6, <1>7 DEF Reconcile

\* Where each node has a batch of its own, the loop moves one node.
LEMMA OneAtATime ==
  ASSUME OwnBatches, NEW s \in StatusRecord, NEW n \in CurrentBatch(s)
  PROVE  /\ CurrentBatch(s) = {n} /\ n \in Node /\ s.node[n] \notin NodeTerminal \cup {Unlisted}
<1>1. ASSUME NEW m \in CurrentBatch(s) PROVE m = n
  <2>1. Batch[m] <= Batch[n] /\ Batch[n] <= Batch[m] /\ m \in Node /\ n \in Node
    BY <1>1 DEF CurrentBatch, Unfinished
  <2>2. Batch[m] \in Nat /\ Batch[n] \in Nat
    BY <2>1, PlanAssumption
  <2> QED BY <2>1, <2>2 DEF OwnBatches
<1> QED BY <1>1 DEF CurrentBatch, Unfinished

\* What a step of the loop hands on: the fields of the copy, but for the phase.
LEMMA ContinueFields ==
  ASSUME TypeOK, NEW n \in Node, NEW s \in StatusRecord, NEW k, Continue(n, s, k) \/ Save(s)
  PROVE  /\ worker'.status.node = s.node /\ worker'.status.baseline = s.baseline
         /\ worker'.status.started = s.started
<1>1. CASE worker' = [worker EXCEPT !.status = s, !.inFlight = k, !.todo = @ \ {n}]
  BY <1>1 DEF TypeOK, WorkerRecord
<1>2. CASE CompleteExecution(s)
  <2>1. CASE Save([s EXCEPT !.phase = "Blocked"])
    <3>1. [s EXCEPT !.phase = "Blocked"] \in StatusRecord
      BY DEF StatusRecord, Phase
    <3>2. worker'.status.node = [s EXCEPT !.phase = "Blocked"].node
          /\ worker'.status.baseline = [s EXCEPT !.phase = "Blocked"].baseline
          /\ worker'.status.started = [s EXCEPT !.phase = "Blocked"].started
      BY <2>1, <3>1, EndsOnFields DEF EndsOn
    <3> QED BY <3>2 DEF StatusRecord
  <2>2. CASE Fail(s) \/ Complete(s)
    BY <2>2, EndsOnFields DEF EndsOn
  <2> QED BY <1>2, <2>1, <2>2 DEF CompleteExecution
<1>3. CASE Save(s)
  BY <1>3, EndsOnFields DEF EndsOn
<1> QED BY <1>1, <1>2, <1>3 DEF Continue

\* What it makes of the node's own baseline: it is taken before the Machine is
\* deleted, and exceeded when the node is reported replaced.
Rebased(n, s) ==
  /\ s.node[n] = "AwaitingReplacement" =>
       s.baseline[n] = IF worker.status.node[n] = "AwaitingReplacement"
                       THEN worker.status.baseline[n] ELSE ready
  /\ s.node[n] = "Completed" /\ worker.status.node[n] \notin {"Uncordoning", "Completed"}
       => /\ worker.status.node[n] = "AwaitingReplacement"
          /\ ready > worker.status.baseline[n]

\* Every step of the loop does so.
LEMMA RebasedStep ==
  ASSUME TypeOK, StepNode, ReplaceNodes, TargetVersionSet
  PROVE  ready' = ready /\ \E n \in worker.todo : Rebased(n, worker'.status)
<1> DEFINE old == worker.status
<1> PICK n \in Node : \/ StartNode(n) \/ CordonNode(n) \/ DrainNode(n) \/ CheckNode(n)
                      \/ UncordonNode(n) \/ ReplaceNode(n) \/ AwaitNode(n) \/ NodeError(n)
  BY DEF StepNode
<1>1. ready' = ready /\ n \in worker.todo
  BY DEF StartNode, CordonNode, DrainNode, CheckNode, UncordonNode, ReplaceNode, AwaitNode,
     NodeError, Visiting
<1> SUFFICES Rebased(n, worker'.status)
  BY <1>1
<1>2. old \in StatusRecord
  BY DEF TypeOK, WorkerRecord
<1>b. ASSUME NEW p \in NodePhase \ {"AwaitingReplacement"}, Becomes(n, p),
             p = "Completed" /\ old.node[n] # "Uncordoning" =>
               old.node[n] = "AwaitingReplacement" /\ ready > old.baseline[n]
      PROVE  Rebased(n, worker'.status)
  <2> DEFINE s == [old EXCEPT !.node[n] = p]
  <2>1. s \in StatusRecord /\ s.node[n] = p
    BY <1>2, MoveEffect
  <2>2. \E k : Continue(n, s, k)
    BY <1>b, Zenon DEF Becomes
  <2> HIDE DEF s
  <2>3. worker'.status.node = s.node
    BY <2>1, <2>2, ContinueFields
  <2> QED BY <1>b, <2>1, <2>3 DEF Rebased
<1>s. ASSUME NEW s \in StatusRecord, NEW k, Continue(n, s, k) \/ Save(s),
             s.node = old.node, s.baseline = old.baseline \/ old.node[n] = "Replacing"
      PROVE  Rebased(n, worker'.status)
  <2>1. worker'.status.node = s.node /\ worker'.status.baseline = s.baseline
    BY <1>s, ContinueFields
  <2> QED BY <1>s, <2>1 DEF Rebased
<1>t. ASSUME Stays(n) \/ Save(old) PROVE Rebased(n, worker'.status)
  BY <1>2, <1>s, <1>t DEF Stays
<1>p. {"Cordoning", "Draining", "PostCheck", "Uncordoning", "Replacing",
       "Failed", "Completed", "Blocked", "Skipped"} \subseteq NodePhase \ {"AwaitingReplacement"}
  BY DEF NodePhase, InFlightPhases, NodeTerminal
<1>3. CASE StartNode(n)
  BY <1>3, <1>b, <1>t, <1>p DEF StartNode
<1>4. CASE CordonNode(n)
  BY <1>4, <1>b, <1>p DEF CordonNode
<1>5. CASE DrainNode(n)
  BY <1>5, <1>b, <1>t, <1>p DEF DrainNode
<1>6. CASE CheckNode(n)
  BY <1>6, <1>b, <1>t, <1>p DEF CheckNode, Visiting
<1>7. CASE UncordonNode(n)
  BY <1>7, <1>b, <1>p DEF UncordonNode, Visiting
<1>8. CASE ReplaceNode(n)
  <2> DEFINE based == WithBaseline(n, old)
  <2>0. old.node[n] = "Replacing"
    BY <1>8 DEF ReplaceNode, Visiting
  <2>1. based \in StatusRecord /\ based.node = old.node /\ based.baseline[n] = ready
    BY <1>2 DEF WithBaseline, StatusRecord, TypeOK
  <2> HIDE DEF based
  <2>2. ASSUME NEW k, Continue(n, [based EXCEPT !.node[n] = "AwaitingReplacement"], k)
        PROVE  Rebased(n, worker'.status)
    <3> DEFINE s == [based EXCEPT !.node[n] = "AwaitingReplacement"]
    <3>1. s \in StatusRecord /\ s.node[n] = "AwaitingReplacement" /\ s.baseline = based.baseline
      BY <2>1 DEF StatusRecord, NodePhase, InFlightPhases
    <3> HIDE DEF s
    <3>2. worker'.status.node = s.node /\ worker'.status.baseline = s.baseline
      BY <2>2, <3>1, ContinueFields DEF s
    <3> QED BY <2>0, <2>1, <3>1, <3>2 DEF Rebased
  <2>3. ASSUME NEW k, Continue(n, [based EXCEPT !.node[n] = "Failed"], k)
        PROVE  Rebased(n, worker'.status)
    <3> DEFINE s == [based EXCEPT !.node[n] = "Failed"]
    <3>1. s \in StatusRecord /\ s.node[n] = "Failed"
      BY <2>1 DEF StatusRecord, NodePhase, NodeTerminal
    <3> HIDE DEF s
    <3>2. worker'.status.node = s.node
      BY <2>3, <3>1, ContinueFields DEF s
    <3> QED BY <3>1, <3>2 DEF Rebased
  <2>4. CASE Save(based)
    BY <1>s, <2>0, <2>1, <2>4
  <2> QED BY <1>8, <2>2, <2>3, <2>4 DEF ReplaceNode, based
<1>9. CASE AwaitNode(n)
  <2>1. CASE Stays(n)
    BY <1>t, <2>1
  <2>2. CASE Becomes(n, "Blocked")
    BY <1>b, <1>p, <2>2
  <2>3. CASE Joined(n) /\ Becomes(n, "Completed")
    BY <1>9, <1>b, <1>p, <2>3 DEF Joined, AwaitNode, Visiting
  <2> QED BY <1>9, <2>1, <2>2, <2>3 DEF AwaitNode
<1>10. CASE NodeError(n)
  BY <1>10, <1>t DEF NodeError
<1> QED
  BY <1>3, <1>4, <1>5, <1>6, <1>7, <1>8, <1>9, <1>10

\* A step of the loop keeps what its copy says of the replacements.
LEMMA JoinedStep ==
  ASSUME TypeOK, StepNode, Coherent(worker.status), StepsExecuting, InFlightAgrees,
         Emptied(worker.status), JoinedSoFar(worker.status),
         worker.todo \subseteq CurrentBatch(worker.status),
         OwnBatches, ReplaceNodes, TargetVersionSet
  PROVE  JoinedSoFar(worker.status)'
         /\ (worker'.pc = "step" => worker'.todo \subseteq CurrentBatch(worker'.status))
<1> DEFINE old == worker.status
           new == worker'.status
<1>1. PICK n \in Node : \E s \in StatusRecord : StepResult(n, s)
  BY StepOutcome
<1>2. PICK s \in StatusRecord : StepResult(n, s)
  BY <1>1
<1>3. /\ old \in StatusRecord /\ ready \in Nat
      /\ old.baseline[n] \in Nat
  BY DEF TypeOK, WorkerRecord, StatusRecord
<1>4. /\ CurrentBatch(old) = {n} /\ worker.todo = {n}
      /\ old.node[n] \notin NodeTerminal \cup {Unlisted}
  BY <1>2, <1>3, OneAtATime DEF StepResult
<1>5. ready' = ready /\ Rebased(n, new)
  BY <1>4, RebasedStep
<1>6. new.node = s.node /\ \A m \in Node \ {n} : new.node[m] = old.node[m]
  BY <1>2 DEF StepResult, GoesOn, Outcome
<1>7. Awaiting(old) \subseteq {n} /\ Awaiting(new) \subseteq {n}
  <2>1. Awaiting(old) \subseteq {n}
    BY <1>4 DEF JoinedSoFar
  <2> QED BY <1>6, <2>1 DEF Awaiting, InPhase
<1>8. Replaced(old) \in Nat /\ Replaced(old) <= ready
  BY ReplacedIsNat DEF JoinedSoFar
<1>9. Replaced(new) = IF new.node[n] = "Completed" THEN Replaced(old) + 1 ELSE Replaced(old)
  BY <1>4, <1>6, ReplacedGrows DEF NodeTerminal
<1> HIDE DEF new
<1>10. old.node[n] = "AwaitingReplacement" => Replaced(old) <= old.baseline[n]
  BY <1>1 DEF JoinedSoFar, Awaiting, InPhase
<1>11. Replaced(new) <= ready
  <2>1. CASE new.node[n] = "Completed"
    <3>1. old.node[n] \notin {"Uncordoning", "Completed"}
      BY <1>4 DEF Emptied, NodeTerminal
    <3>2. Replaced(old) <= old.baseline[n] /\ ready > old.baseline[n]
      BY <1>5, <1>10, <2>1, <3>1 DEF Rebased
    <3> QED BY <1>3, <1>8, <1>9, <2>1, <3>2
  <2> QED BY <1>8, <1>9, <2>1
<1>12. ASSUME new.node[n] = "AwaitingReplacement"
       PROVE  n \in CurrentBatch(new) /\ Replaced(new) <= new.baseline[n]
  <2>1. Unfinished(new) = Unfinished(old)
    BY <1>4, <1>6, <1>12 DEF Unfinished, NodeTerminal, Unlisted
  <2>2. n \in CurrentBatch(new)
    BY <1>4, <2>1 DEF CurrentBatch
  <2>3. Replaced(new) = Replaced(old)
    BY <1>9, <1>12
  <2> QED BY <1>5, <1>8, <1>10, <1>12, <2>2, <2>3 DEF Rebased
<1>13. new.phase = "Blocked" => Awaiting(new) = {}
  <2> SUFFICES ASSUME new.phase = "Blocked" PROVE Awaiting(new) = {}
    OBVIOUS
  <2>1. worker'.pc # "step"
    BY StepNodeCoherent DEF new
  <2>2. Unfinished(s) = {}
    BY <1>2, <2>1 DEF StepResult, GoesOn, new
  <2> QED BY <1>6, <2>2 DEF Awaiting, InPhase, Unfinished, NodeTerminal, Unlisted
<1>14. worker'.pc = "step" => worker'.todo = {}
  BY <1>2, <1>4 DEF StepResult, GoesOn, Outcome
<1>15. JoinedSoFar(new)
  BY <1>7, <1>11, <1>12, <1>13 DEF JoinedSoFar, Awaiting, InPhase
<1>16. JoinedSoFar(worker.status)'
  BY <1>5, <1>15 DEF JoinedSoFar, new
<1> QED BY <1>14, <1>16

\* Nothing is replaced yet.
LEMMA JoinInit == Init => JoinInv
<1> SUFFICES ASSUME Init PROVE JoinInv
  OBVIOUS
<1>1. /\ status = EmptyStatus /\ cache.status = EmptyStatus /\ worker.status = EmptyStatus
      /\ worker.pc = "idle" /\ ready = 0
  BY DEF Init, Idle
<1>2. InPhase(EmptyStatus, {"Completed"}) = {} /\ Awaiting(EmptyStatus) = {}
  BY DEF EmptyStatus, NoNodes, InPhase, Awaiting, Unlisted
<1>3. JoinedSoFar(EmptyStatus)
  BY <1>1, <1>2, FS_EmptySet DEF JoinedSoFar, Replaced
<1> QED BY <1>1, <1>3 DEF JoinInv

\* Every step, or none, keeps what the copies say of the replacements.
LEMMA JoinNext ==
  OwnBatches /\ ReplaceNodes /\ TargetVersionSet
    => (TypeOK /\ ProgressInv /\ InFlightAgrees /\ EmptyInv /\ JoinInv /\ [Next]_vars => JoinInv')
<1> SUFFICES ASSUME OwnBatches, ReplaceNodes, TargetVersionSet,
                    TypeOK, ProgressInv, InFlightAgrees, EmptyInv, JoinInv, [Next]_vars
             PROVE  JoinInv'
  OBVIOUS
<1>0. /\ JoinedSoFar(status) /\ JoinedSoFar(cache.status) /\ JoinedSoFar(worker.status)
      /\ worker.pc = "step" => worker.todo \subseteq CurrentBatch(worker.status)
  BY DEF JoinInv
<1>t. ready \in Nat /\ ready' \in Nat
  BY TypeNext DEF TypeOK
<1>e. ASSUME ready <= ready' PROVE JoinedSoFar(EmptyStatus)'
  <2>1. InPhase(EmptyStatus, {"Completed"}) = {} /\ Awaiting(EmptyStatus) = {}
    BY DEF EmptyStatus, NoNodes, InPhase, Awaiting, Unlisted
  <2>2. Replaced(EmptyStatus) = 0
    BY <2>1, FS_EmptySet DEF Replaced
  <2> QED BY <1>t, <2>1, <2>2 DEF JoinedSoFar
\* Copies are passed on, or one is worked on.
<1>k. ASSUME ready <= ready', status' \in {status, worker.status},
             cache'.status \in {status, cache.status}, JoinedSoFar(worker.status)',
             worker'.pc = "step" => worker'.todo \subseteq CurrentBatch(worker'.status)
      PROVE  JoinInv'
  <2>1. JoinedSoFar(status') /\ JoinedSoFar(cache'.status)
    BY <1>0, <1>k
  <2>2. JoinedSoFar(status)' /\ JoinedSoFar(cache.status)'
    <3>1. ASSUME NEW s, JoinedSoFar(s) PROVE Replaced(s) <= ready'
      BY <1>k, <1>t, <3>1, ReplacedIsNat DEF JoinedSoFar
    <3> QED BY <2>1, <3>1 DEF JoinedSoFar
  <2> QED BY <1>k, <2>2 DEF JoinInv
<1>w. ASSUME ready <= ready', worker'.status = worker.status PROVE JoinedSoFar(worker.status)'
  <2>1. Replaced(worker.status) <= ready'
    BY <1>0, <1>t, <1>w, ReplacedIsNat DEF JoinedSoFar
  <2> QED BY <1>0, <1>w, <2>1 DEF JoinedSoFar
<1>1. CASE Reconcile /\ ~ObserveTerminal
  <2>1. UNCHANGED <<status, cache, ready>>
    BY <1>1 DEF Reconcile, Accept, UserCancel, Pause, PolicyUnresolved, Validating,
       AwaitingApproval, Planned, Resume, RetryBlocked, Executing, Dispatched, Reading, cluster
  <2>2. JoinedSoFar(worker.status)'
        /\ (worker'.pc = "step" => worker'.todo \subseteq CurrentBatch(worker'.status))
    BY <1>0, <1>1, JoinedReconcile DEF ProgressInv, seen
  <2> QED BY <1>k, <1>t, <2>1, <2>2
<1>2. CASE ObserveTerminal
  <2>1. UNCHANGED <<status, cache, ready, worker>>
    BY <1>2 DEF ObserveTerminal, Reading, cluster
  <2> QED BY <1>0, <1>k, <1>t, <1>w, <2>1
<1>3. CASE StepNode
  <2>1. worker.pc = "step" /\ UNCHANGED <<status, cache>>
    BY <1>3, StepNodeShape
  <2>2. ready' = ready
    BY <1>3, RebasedStep
  <2>3. JoinedSoFar(worker.status)'
        /\ (worker'.pc = "step" => worker'.todo \subseteq CurrentBatch(worker'.status))
    BY <1>0, <1>3, <2>1, JoinedStep DEF ProgressInv, EmptyInv
  <2> QED BY <1>k, <1>t, <2>1, <2>2, <2>3
<1>4. ASSUME NEW n \in Node, ReleaseNode(n) PROVE JoinInv'
  <2>1. /\ worker'.status = worker.status /\ worker'.pc # "step"
        /\ UNCHANGED <<status, cache, ready>>
    BY <1>4 DEF ReleaseNode, request, TypeOK, WorkerRecord
  <2> QED BY <1>k, <1>t, <1>w, <2>1
<1>5. CASE Write
  <2>1. worker'.status = EmptyStatus /\ worker'.pc # "step"
    BY <1>5, EmptyTyped DEF Write, Idle, WorkerRecord
  <2>2. UNCHANGED <<cache, ready>> /\ status' = worker.status
    BY <1>5 DEF Write, cluster
  <2>3. JoinedSoFar(worker.status)'
    BY <1>e, <1>t, <2>1, <2>2 DEF JoinedSoFar
  <2> QED BY <1>k, <1>t, <2>1, <2>2, <2>3
<1>6. CASE Conflict \/ AuditTerminal \/ Crash
  <2>1. worker'.status = EmptyStatus /\ worker'.pc = "idle"
    BY <1>6, EmptyHeldBack DEF Conflict, AuditTerminal, Crash, Idle
  <2>2. UNCHANGED <<status, ready>> /\ cache'.status \in {status, cache.status}
    BY <1>6 DEF Conflict, AuditTerminal, Crash, request, cluster
  <2>3. JoinedSoFar(worker.status)'
    BY <1>e, <1>t, <2>1, <2>2 DEF JoinedSoFar
  <2> QED BY <1>k, <1>t, <2>1, <2>2, <2>3
<1>7. CASE Deliver
  <2>1. UNCHANGED <<status, worker, ready>> /\ cache'.status = status
    BY <1>7 DEF Deliver, cluster
  <2> QED BY <1>0, <1>k, <1>t, <1>w, <2>1
<1>8. CASE User \/ Environment \/ UNCHANGED vars
  <2>1. worker'.pc = worker.pc /\ worker'.status = worker.status /\ worker'.todo = worker.todo
        /\ UNCHANGED <<status, cache>>
    BY <1>8 DEF User, TogglePause, ToggleCancel, ChangeMode, ChangePolicy, Decide, Edit,
       Environment, PodsLeave, Schedule, NodeGoes, Join, GlobalTimeout, EnvironmentUnchanged, request, vars,
       TypeOK, WorkerRecord
  <2>2. ready <= ready'
    <3>1. UNCHANGED ready \/ Join
      BY <1>8 DEF User, TogglePause, ToggleCancel, ChangeMode, ChangePolicy, Decide, Edit,
         Environment, PodsLeave, Schedule, NodeGoes, GlobalTimeout, cluster, vars
    <3>2. Join => ready' = ready + 1
      BY DEF Join
    <3> QED BY <1>t, <3>1, <3>2
  <2> QED BY <1>0, <1>k, <1>w, <2>1, <2>2
<1> QED
  BY <1>1, <1>2, <1>3, <1>4, <1>5, <1>6, <1>7, <1>8 DEF Next, Pass, Poll, Reconcile

\* Where each node has a batch of its own, no more nodes are ever reported
\* replaced than replacements have joined.
THEOREM ReplacementsJoined == Spec => []EachReplacementJoined
<1>1. CASE OwnBatches /\ ReplaceNodes /\ TargetVersionSet
  <2>1. TypeOK /\ ProgressInv /\ InFlightAgrees /\ EmptyInv /\ JoinInv /\ [Next]_vars => JoinInv'
    BY <1>1, JoinNext
  <2>2. TypeOK /\ ProgressInv /\ InFlightAgrees /\ EmptyInv /\ [Next]_vars => EmptyInv'
    BY EmptyNext
  <2>3. JoinInv => EachReplacementJoined
    BY DEF JoinInv, JoinedSoFar, Replaced, EachReplacementJoined, Persisted
  <2> QED BY <2>1, <2>2, <2>3, CountCorrect, EmptyInit, JoinInit, PTL DEF Spec
<1>2. CASE ~(OwnBatches /\ ReplaceNodes /\ TargetVersionSet)
  <2>1. EachReplacementJoined
    BY <1>2 DEF EachReplacementJoined
  <2> QED BY <2>1, PTL
<1> QED BY <1>1, <1>2

-----------------------------------------------------------------------------
(***************************************************************************)
(* Evictions: pods are asked to leave a cordoned node only. Nodes lose     *)
(* their cordon to an abort, or to Uncordon. An abort that is not taken    *)
(* back stops the loop for good, refused though its write may be; and a    *)
(* node is uncordoned only one write after it was seen to be due for it,   *)
(* so that no copy that can still be read has it drained again.            *)
(***************************************************************************)
\* Every pass from here on ends the request.
Abandoned == cache.spec.cancel \/ late

\* The phases in which the request counts on the cordon of a node, and those in
\* which it is on its way to give it up.
OnCordon == {"Draining", "Blocked", "PostCheck", "Replacing", "AwaitingReplacement"}

HandedBack == {"Uncordoning", "Completed"}

\* No pod is scheduled to the node.
Guarded(n) == n \in cordoned \/ machine[n] = "Gone"

\* An execution is dated, and only a replacement can fail.
Dated(s) == s.node # NoNodes => s.started

NoneFailed(s) == HandsBack => InPhase(s, {"Failed"}) = {}

Orderly == /\ Dated(status) /\ Dated(cache.status) /\ Dated(worker.status)
           /\ NoneFailed(status) /\ NoneFailed(cache.status) /\ NoneFailed(worker.status)

\* The informer's copy, then the copy in progress, then the server's object.
HandedBackInOrder ==
  \A n \in Node :
    /\ cache.status.node[n] \in HandedBack => status.node[n] \in HandedBack
    /\ worker.pc \in Working /\ worker.fresh /\ cache.status.node[n] \in HandedBack
         => worker.status.node[n] \in HandedBack
    /\ worker.pc = "step" /\ n \in worker.todo /\ worker.status.node[n] = "Uncordoning"
         => cache.status.node[n] \in HandedBack

\* The nodes that some copy takes for cordoned are, unless no pass will drain them.
CordonsStand ==
  \A n \in Node :
    /\ status.node[n] \in OnCordon \/ cache.status.node[n] \in OnCordon
         => Guarded(n) \/ Abandoned
    /\ worker.status.node[n] \in OnCordon
         => Guarded(n) \/ (worker.pc # "step" /\ Abandoned)

\* The inductive invariant.
EvictInv ==
  /\ cache.spec.cancel => spec.cancel
  /\ worker.pc = "release" => Abandoned
  /\ \A n \in Node : machine[n] = "Gone" => n \notin busy
  /\ Orderly /\ HandedBackInOrder /\ CordonsStand

\* A pass releases nodes only when it fails, or is cancelled with a release.
LEMMA ReleasesSome ==
  ASSUME TypeOK, NEW s \in StatusRecord, EndsOn(s), worker'.pc = "release"
  PROVE  NodesToRelease(s) # {} /\ (Fail(s) \/ Cancel(s, TRUE))
<1>1. ~Save(s)
  BY OutcomeCopy
<1>2. ASSUME NEW p \in Terminal, NEW todo \in SUBSET Node, Finish(s, p, todo) PROVE todo # {}
  BY <1>2, FinishEffect DEF Phase
<1>3. {} \in SUBSET Node /\ NodesToRelease(s) \in SUBSET Node
  BY DEF NodesToRelease, InPhase
<1>4. ~Complete(s) /\ ~Cancel(s, FALSE)
  BY <1>2, <1>3 DEF Complete, Cancel, Terminal
<1> QED BY <1>1, <1>2, <1>3, <1>4 DEF EndsOn, Fail, Cancel, Terminal

\* A request without nodes has none to release.
LEMMA NothingListed ==
  ASSUME NEW s, s.node = NoNodes
  PROVE  NodesToRelease(s) = {}
BY DEF NodesToRelease, InPhase, NoNodes, Releasable, Unlisted

\* A handler releases nodes for a cancelled request, or for one out of time, and
\* starts the loop for neither.
LEMMA AbandonReconcile ==
  ASSUME TypeOK, Reconcile, ~ObserveTerminal, ~TransientAborts, Coherent(seen), NoneFailed(seen)
  PROVE  /\ worker'.pc = "release" => Abandoned
         /\ worker'.pc = "step" => ~cache.spec.cancel /\ ~(seen.started /\ late)
<1> DEFINE Goal == /\ worker'.pc = "release" => Abandoned
                   /\ worker'.pc = "step" => ~cache.spec.cancel /\ ~(seen.started /\ late)
<1>0. seen \in StatusRecord
  BY SeenTyped
<1>s. ASSUME NEW s, Save(s) PROVE Goal
  BY <1>s, OutcomeCopy
<1>e. ASSUME NEW s \in StatusRecord,
             \/ s.node = NoNodes /\ Fail(s)
             \/ Complete(s) \/ Cancel(s, FALSE)
             \/ Abandoned /\ (Fail(s) \/ Cancel(s, TRUE))
      PROVE  Goal
  <2>1. EndsOn(s)
    BY <1>e DEF EndsOn
  <2>2. worker'.pc # "step"
    BY <2>1, EndsOnFields
  <2>3. ASSUME worker'.pc = "release" PROVE Abandoned
    <3>1. NodesToRelease(s) # {} /\ (Fail(s) \/ Cancel(s, TRUE))
      BY <2>1, <2>3, ReleasesSome
    <3>2. ~Complete(s) /\ ~Cancel(s, FALSE)
      <4>1. {} \in SUBSET Node /\ {"Completed", "Cancelled"} \subseteq Phase
        BY DEF Phase, Terminal
      <4>2. ASSUME NEW p \in {"Completed", "Cancelled"}, Finish(s, p, {}) PROVE FALSE
        BY <2>3, <4>1, <4>2, FinishEffect
      <4> QED BY <4>2 DEF Complete, Cancel
    <3> QED BY <1>e, <3>1, <3>2, NothingListed
  <2> QED BY <2>2, <2>3
<1>q. [seen EXCEPT !.plan = TRUE] \in StatusRecord /\ [seen EXCEPT !.plan = TRUE].node = seen.node
  BY <1>0 DEF StatusRecord
<1>1. CASE Accept \/ Pause \/ Resume
  BY <1>1, <1>s DEF Accept, Pause, Resume
<1>2. CASE UserCancel
  BY <1>0, <1>2, <1>e DEF UserCancel, Abandoned
<1>3. CASE PolicyUnresolved
  BY <1>3 DEF PolicyUnresolved
<1>4. CASE Validating
  <2>1. seen.node = NoNodes
    BY <1>4 DEF Validating, Dispatched, Reading, Coherent
  <2>2. \/ Fail(seen) \/ Complete(seen) \/ (\E s : Save(s))
        \/ Complete(Validated) \/ Cancel(Validated, FALSE)
    BY <1>4 DEF Validating
  <2> QED BY <1>0, <1>e, <1>q, <1>s, <2>1, <2>2 DEF Validated
<1>5. CASE AwaitingApproval
  BY <1>0, <1>5, <1>e, <1>s DEF AwaitingApproval
<1>6. CASE Planned
  <2> DEFINE planned == [seen EXCEPT !.plan = TRUE]
  <2>1. seen.node = NoNodes
    BY <1>6 DEF Planned, Dispatched, Reading, Coherent
  <2>2. Fail(seen) \/ Complete(planned) \/ Fail(planned) \/ (\E s : Save(s))
    BY <1>6 DEF Planned
  <2> HIDE DEF planned
  <2> QED BY <1>0, <1>e, <1>q, <1>s, <2>1, <2>2 DEF planned
<1>7. CASE RetryBlocked
  <2>1. (GlobalTimedOut(seen) /\ Fail(seen)) \/ (\E s : Save(s))
    BY <1>7 DEF RetryBlocked
  <2> QED BY <1>0, <1>e, <1>s, <2>1 DEF GlobalTimedOut, Abandoned
<1>8. CASE Executing
  <2>0. ~cache.spec.cancel
    BY <1>8 DEF Executing, Dispatched
  <2>f. InPhase(seen, {"Failed"}) # {} => NodesToRelease(seen) = {}
    BY DEF NoneFailed, HandsBack, NodesToRelease
  <2>g. ASSUME Fail(seen), InPhase(seen, {"Failed"}) # {} PROVE Goal
    <3>1. EndsOn(seen)
      BY <2>g DEF EndsOn
    <3>2. worker'.pc # "step" /\ worker'.pc # "release"
      BY <1>0, <2>f, <2>g, <3>1, EndsOnFields, ReleasesSome
    <3> QED BY <3>2
  <2>1. CASE Halted /\ Fail(seen)
    <3>1. CASE GlobalTimedOut(seen)
      BY <1>0, <1>e, <2>1, <3>1 DEF GlobalTimedOut, Abandoned
    <3>2. CASE ~seen.plan
      BY <1>0, <1>e, <2>1, <3>2 DEF Coherent
    <3>3. CASE Cardinality(InPhase(seen, {"Failed"})) >= FailureThreshold
      <4>1. FailureThreshold \in Nat \ {0}
        BY LimitAssumption
      <4>2. Cardinality({}) = 0
        BY FS_EmptySet
      <4>3. InPhase(seen, {"Failed"}) # {}
        BY <3>3, <4>1, <4>2
      <4> QED BY <2>1, <2>g, <4>3
    <3> QED BY <2>1, <3>1, <3>2, <3>3 DEF Halted
  <2>2. CASE Save([seen EXCEPT !.gate = "Uncordon", !.phase = "AwaitingApproval"])
    BY <1>s, <2>2
  <2>3. CASE CompleteExecution(seen)
    BY <1>0, <1>e, <1>s, <2>3, <2>g DEF CompleteExecution
  <2>4. CASE ~Halted /\ worker'.pc = "step"
    BY <2>0, <2>4 DEF Halted, GlobalTimedOut
  <2>5. ASSUME NEW slots, worker' = [Holding("step", seen) EXCEPT
                          !.todo = CurrentBatch(seen), !.inFlight = CountInFlight(seen),
                          !.slots = slots, !.open = UncordonOpen(cache.spec)]
        PROVE  worker'.pc = "step"
    BY <2>5, EmptyTyped DEF Holding, WorkerRecord
  <2> QED BY <1>8, <2>1, <2>2, <2>3, <2>4, <2>5 DEF Executing
<1> QED
  BY <1>1, <1>2, <1>3, <1>4, <1>5, <1>6, <1>7, <1>8 DEF Reconcile

\* A handler that lists the nodes dates the execution.
LEMMA DatedReconcile ==
  ASSUME TypeOK, Reconcile, ~ObserveTerminal, Coherent(seen), Dated(seen)
  PROVE  Dated(worker.status)'
<1>0. seen \in StatusRecord
  BY SeenTyped
<1>s. ASSUME NEW s \in StatusRecord, EndsOn(s),
             s.started \/ s.node = NoNodes
      PROVE  Dated(worker.status)'
  <2>1. worker'.status.node = s.node /\ worker'.status.started = s.started
    BY <1>s, EndsOnFields
  <2> QED BY <1>s, <2>1 DEF Dated
<1>d. seen.started \/ seen.node = NoNodes
  BY DEF Dated
<1>f. ASSUME Fail(seen) \/ Cancel(seen, TRUE) \/ Cancel(seen, FALSE) \/ Complete(seen)
      PROVE  Dated(worker.status)'
  BY <1>0, <1>d, <1>f, <1>s DEF EndsOn
<1>p. ASSUME NEW s \in StatusRecord, NEW p \in Phase, NEW g \in Gate \cup {""},
             s.started \/ s.node = NoNodes,
             Save([s EXCEPT !.phase = p]) \/ Save([s EXCEPT !.gate = g, !.phase = p])
      PROVE  Dated(worker.status)'
  <2>1. PICK t : Save(t) /\ t \in {[s EXCEPT !.phase = p], [s EXCEPT !.gate = g, !.phase = p]}
    BY <1>p
  <2>2. t \in StatusRecord /\ t.node = s.node /\ t.started = s.started
    BY <2>1 DEF StatusRecord
  <2> QED BY <1>p, <1>s, <2>1, <2>2 DEF EndsOn
<1>q. /\ [seen EXCEPT !.plan = TRUE] \in StatusRecord
      /\ [seen EXCEPT !.plan = TRUE].node = seen.node
      /\ [seen EXCEPT !.plan = TRUE].started = seen.started
  BY <1>0 DEF StatusRecord
<1>1. CASE Accept \/ Pause \/ Resume
  <2>1. PICK p \in Phase : Save([seen EXCEPT !.phase = p])
    BY <1>1, PhasesTyped DEF Accept, Pause, Resume, ResumePhase, InitialPhase, Phase
  <2> QED BY <1>0, <1>d, <1>p, <2>1
<1>2. CASE UserCancel \/ PolicyUnresolved
  BY <1>2, <1>f DEF UserCancel, PolicyUnresolved
<1>3. CASE Validating
  <2>1. Validated \in StatusRecord /\ (Validated.started \/ Validated.node = NoNodes)
    BY <1>d, <1>q DEF Validated
  <2>2. "Drain" \in Gate /\ {"Blocked", "AwaitingApproval", "Planned"} \subseteq Phase
    BY DEF Gate, Phase
  <2>3. \/ Fail(seen) \/ Complete(seen) \/ Complete(Validated) \/ Cancel(Validated, FALSE)
        \/ Save([seen EXCEPT !.phase = "Blocked"])
        \/ Save([Validated EXCEPT !.gate = "Drain", !.phase = "AwaitingApproval"])
        \/ Save([Validated EXCEPT !.phase = "Planned"])
    BY <1>3 DEF Validating
  <2> QED BY <1>0, <1>d, <1>f, <1>p, <1>s, <2>1, <2>2, <2>3 DEF EndsOn
<1>4. CASE AwaitingApproval
  <2>1. ASSUME NEW gate, Save(PassGate(seen, gate)) PROVE Dated(worker.status)'
    <3>1. NextPhaseAfterGate(gate) \in Phase
      BY DEF NextPhaseAfterGate, Phase
    <3> QED BY <1>0, <1>d, <1>p, <2>1, <3>1 DEF PassGate
  <2> QED BY <1>4, <1>f, <2>1 DEF AwaitingApproval
<1>5. CASE Planned
  <2> DEFINE planned == [seen EXCEPT !.plan = TRUE]
  <2>1. CASE Fail(seen)
    BY <1>f, <2>1
  <2>2. CASE Save(planned) \/ Complete(planned) \/ Fail(planned)
    BY <1>d, <1>q, <1>s, <2>2 DEF EndsOn
  <2>3. ASSUME NEW target \in Targets,
               Save([planned EXCEPT !.phase = "Executing", !.started = TRUE,
                       !.node = IF @ = NoNodes THEN InitNodeStatuses(target) ELSE @])
        PROVE  Dated(worker.status)'
    <3> DEFINE s == [planned EXCEPT !.phase = "Executing", !.started = TRUE,
                       !.node = IF @ = NoNodes THEN InitNodeStatuses(target) ELSE @]
    <3>1. InitNodeStatuses(target) \in [Node -> NodePhase \cup {Unlisted}]
      BY DEF InitNodeStatuses, NodePhase
    <3>2. s \in StatusRecord /\ s.started
      BY <1>q, <3>1 DEF StatusRecord, Phase
    <3> HIDE DEF s
    <3> QED BY <1>s, <2>3, <3>2 DEF EndsOn, s
  <2> QED BY <1>5, <2>1, <2>2, <2>3 DEF Planned
<1>6. CASE RetryBlocked
  <2>1. CASE Save(Retry(seen))
    <3> DEFINE s == Retry(seen)
    <3>1. s \in StatusRecord /\ s.started = seen.started
          /\ s.node = [n \in Node |-> IF seen.node[n] = "Blocked" THEN "Draining" ELSE seen.node[n]]
      BY <1>0 DEF Retry, StatusRecord, Phase, NodePhase, InFlightPhases
    <3> HIDE DEF s
    <3>2. seen.node = NoNodes => s.node = NoNodes
      BY <3>1 DEF NoNodes, Unlisted
    <3> QED BY <1>d, <1>s, <2>1, <3>1, <3>2 DEF EndsOn, s
  <2>2. "Validating" \in Phase
    BY DEF Phase
  <2> QED BY <1>0, <1>6, <1>d, <1>f, <1>p, <2>1, <2>2 DEF RetryBlocked
<1>7. CASE Executing
  <2>1. CASE Save([seen EXCEPT !.gate = "Uncordon", !.phase = "AwaitingApproval"])
    <3>1. "Uncordon" \in Gate /\ "AwaitingApproval" \in Phase
      BY DEF Gate, Phase
    <3> QED BY <1>0, <1>d, <1>p, <2>1, <3>1
  <2>2. CASE CompleteExecution(seen)
    <3>1. "Blocked" \in Phase
      BY DEF Phase
    <3> QED BY <1>0, <1>d, <1>f, <1>p, <2>2, <3>1 DEF CompleteExecution
  <2>3. ASSUME NEW k, NEW slots, NEW o,
               worker' = [Holding("step", seen) EXCEPT
                            !.todo = CurrentBatch(seen), !.inFlight = k,
                            !.slots = slots, !.open = o]
        PROVE  Dated(worker.status)'
    <3>1. worker'.status = seen
      BY <2>3, EmptyTyped DEF Holding, WorkerRecord
    <3> QED BY <3>1 DEF Dated
  <2> QED BY <1>7, <1>f, <2>1, <2>2, <2>3 DEF Executing
<1> QED
  BY <1>1, <1>2, <1>3, <1>4, <1>5, <1>6, <1>7 DEF Reconcile

\* A step of the loop works on a listed node, and keeps the date.
LEMMA DatedStep ==
  ASSUME TypeOK, StepNode
  PROVE  worker.status.node # NoNodes /\ worker'.status.started = worker.status.started
<1> DEFINE old == worker.status
<1> PICK n \in Node : \/ StartNode(n) \/ CordonNode(n) \/ DrainNode(n) \/ CheckNode(n)
                      \/ UncordonNode(n) \/ ReplaceNode(n) \/ AwaitNode(n) \/ NodeError(n)
  BY DEF StepNode
<1>1. old.node[n] # Unlisted
  BY DEF StartNode, CordonNode, DrainNode, CheckNode, UncordonNode, ReplaceNode, AwaitNode,
     NodeError, Visiting, InFlightPhases, Unlisted
<1>2. old \in StatusRecord
  BY DEF TypeOK, WorkerRecord
<1>3. old.node # NoNodes
  BY <1>1, ListedIsSome
<1> SUFFICES worker'.status.started = old.started
  BY <1>3
<1> HIDE DEF old
<1>b. ASSUME NEW p \in NodePhase, Becomes(n, p) PROVE worker'.status.started = old.started
  <2> DEFINE s == [old EXCEPT !.node[n] = p]
  <2>1. s \in StatusRecord /\ s.started = old.started
    BY <1>2 DEF StatusRecord
  <2>2. \E k : Continue(n, s, k)
    BY <1>b, Zenon DEF Becomes, old
  <2> HIDE DEF s
  <2> QED BY <2>1, <2>2, ContinueFields
<1>s. ASSUME NEW s \in StatusRecord, s.started = old.started, NEW k, Continue(n, s, k) \/ Save(s)
      PROVE  worker'.status.started = old.started
  BY <1>s, ContinueFields
<1>p. {"Cordoning", "Draining", "PostCheck", "Uncordoning", "Replacing", "AwaitingReplacement",
       "Failed", "Completed", "Blocked", "Skipped"} \subseteq NodePhase
  BY DEF NodePhase, InFlightPhases, NodeTerminal
<1>4. \/ \E p \in NodePhase : Becomes(n, p)
      \/ Stays(n) \/ Save(old) \/ ReplaceNode(n)
  BY <1>p DEF StartNode, CordonNode, DrainNode, CheckNode, UncordonNode, AwaitNode, NodeError, old
<1>5. CASE Stays(n) \/ Save(old)
  BY <1>2, <1>5, <1>s DEF Stays, old
<1>6. CASE ReplaceNode(n)
  <2> DEFINE based == WithBaseline(n, old)
             moved(p) == [based EXCEPT !.node[n] = p]
  <2>1. based \in StatusRecord /\ based.started = old.started
    BY <1>2 DEF WithBaseline, StatusRecord, TypeOK
  <2>2. Save(based) \/ \E p \in {"AwaitingReplacement", "Failed"} : \E k : Continue(n, moved(p), k)
    BY <1>6 DEF ReplaceNode, old
  <2> HIDE DEF based
  <2>3. ASSUME NEW p \in {"AwaitingReplacement", "Failed"}
        PROVE  moved(p) \in StatusRecord /\ moved(p).started = old.started
    BY <1>p, <2>1 DEF StatusRecord
  <2> HIDE DEF moved
  <2> QED BY <1>s, <2>1, <2>2, <2>3
<1> QED BY <1>3, <1>4, <1>5, <1>6, <1>b DEF old

\* What one round of the loop does to the cordons that its copy counts on, and
\* to those of the other copies.
LEMMA EvictStep ==
  ASSUME TypeOK, EndInv, ProgressInv, InFlightAgrees, CordonInv, EmptyInv, EvictInv, StepNode
  PROVE  EvictInv'
<1>1. /\ worker.pc = "step" /\ worker'.pc \in Working /\ worker'.fresh = worker.fresh
      /\ UNCHANGED <<spec, status, cache, synced, queued>>
  BY StepNodeShape
<1>2. PICK n \in Node : \E s \in StatusRecord : StepResult(n, s)
  BY StepOutcome DEF ProgressInv
<1>3. PICK s \in StatusRecord : StepResult(n, s)
  BY <1>2
<1> DEFINE from == worker.status.node[n]
           to == s.node[n]
<1>4. /\ n \in worker.todo /\ \A m \in Node \ {n} : s.node[m] = worker.status.node[m]
      /\ MovesNode(n, from, to) /\ TouchesNode(n, from, to) /\ GoesOn(n, s)
  BY <1>3 DEF StepResult
<1>5. worker'.status.node = s.node
  BY <1>4 DEF GoesOn, Outcome
<1>6. late' = late
  BY DEF StepNode, StartNode, CordonNode, DrainNode, CheckNode, UncordonNode, ReplaceNode,
     AwaitNode, NodeError, Visiting
\* How the phase of the node has moved.
<1>7. \/ from = to \/ <<from, to>> \in NodeMoves
      \/ from = "Cordoning" /\ to = "Draining"
      \/ from = "Uncordoning" /\ to = "Completed"
  BY <1>4 DEF MovesNode
<1> HIDE DEF from, to
<1>8. from \in HandedBack => to \in HandedBack
  BY <1>7 DEF NodeMoves, HandedBack
<1>9. to \in OnCordon => from \in OnCordon \/ (from = "Cordoning" /\ to = "Draining")
  BY <1>7 DEF NodeMoves, OnCordon
<1>10. to = "Failed" => from = "Failed" \/ from = "Replacing"
  BY <1>7 DEF NodeMoves
\* The node may lose its cordon; the others do not.
<1>11. \A m \in Node : Guarded(m) => Guarded(m)' \/ (m = n /\ from = "Uncordoning")
  BY <1>4 DEF TouchesNode, Guarded
<1>12. from = "Uncordoning" =>
         /\ cache.status.node[n] \in HandedBack /\ status.node[n] \in HandedBack
         /\ to \in HandedBack
  BY <1>1, <1>4, <1>8 DEF EvictInv, HandedBackInOrder, from, HandedBack
<1>13. Orderly'
  <2>1. Dated(worker.status)'
    BY DatedStep DEF EvictInv, Orderly, Dated
  <2>2. NoneFailed(worker.status)'
    <3> SUFFICES ASSUME HandsBack, NEW m \in Node, s.node[m] = "Failed" PROVE FALSE
      BY <1>5 DEF NoneFailed, InPhase
    <3>1. worker.status.node[m] # "Failed"
      BY DEF EvictInv, Orderly, NoneFailed, InPhase
    <3>2. m = n /\ from = "Replacing"
      BY <1>4, <1>10, <3>1 DEF from, to
    <3> QED BY <3>2 DEF EmptyInv, Emptied, HandsBack, from
  <2> QED BY <1>1, <2>1, <2>2 DEF EvictInv, Orderly, Dated, NoneFailed, InPhase
<1>14. worker'.pc = "release" => Abandoned'
  <2>1. ASSUME worker'.pc = "release" PROVE FALSE
    <3>1. HandsBack /\ InPhase(s, {"Failed"}) # {}
      BY <1>4, <2>1 DEF GoesOn, Outcome
    <3> QED BY <1>5, <1>13, <3>1 DEF Orderly, NoneFailed, InPhase
  <2> QED BY <2>1
<1>15. HandedBackInOrder'
  <2>1. ASSUME NEW m \in Node, worker'.fresh, cache.status.node[m] \in HandedBack
        PROVE  s.node[m] \in HandedBack
    <3>1. worker.status.node[m] \in HandedBack
      BY <1>1, <2>1 DEF EvictInv, HandedBackInOrder, Working
    <3> QED BY <1>4, <1>8, <3>1 DEF from, to
  <2>2. ASSUME NEW m \in Node, worker'.pc = "step", m \in worker'.todo, s.node[m] = "Uncordoning"
        PROVE  cache.status.node[m] \in HandedBack
    <3>1. m \in worker.todo /\ m # n
      BY <1>4, <2>2 DEF GoesOn, Outcome
    <3> QED BY <1>1, <1>4, <2>2, <3>1 DEF EvictInv, HandedBackInOrder
  <2> QED BY <1>1, <1>5, <2>1, <2>2 DEF EvictInv, HandedBackInOrder
<1>16. CordonsStand'
  <2>1. ASSUME NEW m \in Node, status.node[m] \in OnCordon \/ cache.status.node[m] \in OnCordon
        PROVE  Guarded(m)' \/ Abandoned'
    <3>1. ~(m = n /\ from = "Uncordoning")
      BY <1>12, <2>1 DEF OnCordon, HandedBack
    <3>2. Guarded(m) \/ Abandoned
      BY <2>1 DEF EvictInv, CordonsStand
    <3> QED BY <1>1, <1>6, <1>11, <3>1, <3>2 DEF Abandoned
  <2>2. ASSUME NEW m \in Node, s.node[m] \in OnCordon PROVE Guarded(m)'
    <3>1. CASE m = n /\ from = "Cordoning"
      BY <1>4, <2>2, <3>1 DEF TouchesNode, Guarded, to, OnCordon
    <3>2. CASE ~(m = n /\ from = "Cordoning")
      <4>1. worker.status.node[m] \in OnCordon
        BY <1>4, <1>9, <2>2, <3>2 DEF from, to
      <4>2. Guarded(m)
        BY <1>1, <4>1 DEF EvictInv, CordonsStand
      <4>3. ~(m = n /\ from = "Uncordoning")
        BY <4>1 DEF from, OnCordon
      <4> QED BY <1>11, <4>2, <4>3
    <3> QED BY <3>1, <3>2
  <2> QED BY <1>1, <1>5, <2>1, <2>2 DEF CordonsStand
<1>17. \A m \in Node : machine'[m] = "Gone" => m \notin busy'
  BY <1>4 DEF TouchesNode, EvictInv
<1> QED
  BY <1>1, <1>13, <1>14, <1>15, <1>16, <1>17 DEF EvictInv

\* A handler goes on from a status whose cordons stand, or does not go on.
LEMMA EvictReconcile ==
  ASSUME TypeOK, EndInv, ProgressInv, EvictInv, ~TransientAborts, Reconcile, ~ObserveTerminal
  PROVE  EvictInv'
<1>1. worker'.pc \in Working /\ UNCHANGED <<spec, status, cache>>
  BY ReconcileShape
<1>2. UNCHANGED <<cordoned, busy, machine, late>>
  BY DEF Reconcile, Accept, UserCancel, Pause, PolicyUnresolved, Validating, AwaitingApproval,
     Planned, Resume, RetryBlocked, Executing, Dispatched, Reading, cluster, ObserveTerminal
<1>3. ReadOutcome
  BY ReconcileOutcome DEF ProgressInv, seen
<1>4. /\ worker'.pc = "release" => Abandoned
      /\ worker'.pc = "step" => ~cache.spec.cancel /\ ~(seen.started /\ late)
  BY AbandonReconcile DEF ProgressInv, EvictInv, Orderly, NoneFailed, InPhase, seen
\* The nodes of the copy are those of the status read, or on their way on.
<1>5. \A n \in Node :
        \/ worker'.status.node[n] = seen.node[n]
        \/ seen.node[n] = "Blocked" /\ worker'.status.node[n] = "Draining"
        \/ seen.node[n] = Unlisted /\ worker'.status.node[n] = "Pending"
  BY <1>3 DEF ReadOutcome, StartsLoop, Outcome, Kept
<1>6. Orderly'
  <2>1. Dated(worker.status)'
    BY DatedReconcile DEF ProgressInv, EvictInv, Orderly, seen
  <2>2. NoneFailed(worker.status)'
    BY <1>5 DEF EvictInv, Orderly, NoneFailed, InPhase, seen
  <2> QED BY <1>1, <2>1, <2>2 DEF EvictInv, Orderly, Dated, NoneFailed, InPhase
<1>7. HandedBackInOrder'
  <2>1. ASSUME NEW n \in Node, cache.status.node[n] \in HandedBack
        PROVE  worker'.status.node[n] \in HandedBack
    BY <1>5, <2>1 DEF HandedBack, Unlisted, seen
  <2>2. ASSUME NEW n \in Node, worker'.status.node[n] = "Uncordoning"
        PROVE  cache.status.node[n] \in HandedBack
    BY <1>5, <2>2 DEF HandedBack, seen
  <2> QED BY <1>1, <2>1, <2>2 DEF EvictInv, HandedBackInOrder
<1>8. CordonsStand'
  <2>1. ASSUME NEW n \in Node, worker'.status.node[n] \in OnCordon
        PROVE  Guarded(n) \/ (worker'.pc # "step" /\ Abandoned)
    <3>1. seen.node[n] \in OnCordon
      BY <1>5, <2>1 DEF OnCordon
    <3>2. Guarded(n) \/ Abandoned
      BY <3>1 DEF EvictInv, CordonsStand, seen
    <3>3. seen.started
      <4>1. seen.node # NoNodes
        BY <3>1 DEF OnCordon, NoNodes, Unlisted
      <4> QED BY <4>1 DEF EvictInv, Orderly, Dated, seen
    <3> QED BY <1>4, <3>2, <3>3 DEF Abandoned
  <2> QED BY <1>1, <1>2, <2>1 DEF EvictInv, CordonsStand, Guarded, Abandoned
<1> QED
  BY <1>1, <1>2, <1>4, <1>6, <1>7, <1>8 DEF EvictInv, Abandoned

\* Nothing is drained yet.
LEMMA EvictInit == Init => EvictInv
<1> SUFFICES ASSUME Init PROVE EvictInv
  OBVIOUS
<1>1. /\ status = EmptyStatus /\ cache.status = EmptyStatus /\ worker.status = EmptyStatus
      /\ worker.pc = "idle" /\ cache.spec = spec /\ \A n \in Node : machine[n] = "Running"
  BY DEF Init, Idle
<1>2. \A n \in Node : EmptyStatus.node[n] = Unlisted
  BY DEF EmptyStatus, NoNodes
<1>3. Dated(EmptyStatus) /\ NoneFailed(EmptyStatus)
  BY <1>2 DEF Dated, NoneFailed, InPhase, EmptyStatus, Unlisted
<1> QED
  BY <1>1, <1>2, <1>3 DEF EvictInv, Orderly, HandedBackInOrder, CordonsStand, OnCordon,
     HandedBack, Unlisted, Working

\* Every step, or none, keeps the invariant.
LEMMA EvictNext ==
  ~TransientAborts
    => (TypeOK /\ EndInv /\ ProgressInv /\ InFlightAgrees /\ CordonInv /\ EmptyInv /\ EvictInv
          /\ [Next]_vars => EvictInv')
<1> SUFFICES ASSUME ~TransientAborts, TypeOK, EndInv, ProgressInv, InFlightAgrees, CordonInv,
                    EmptyInv, EvictInv, [Next]_vars
             PROVE  EvictInv'
  OBVIOUS
<1>e. /\ \A n \in Node : EmptyStatus.node[n] = Unlisted
      /\ Dated(EmptyStatus) /\ NoneFailed(EmptyStatus)
  <2>1. \A n \in Node : EmptyStatus.node[n] = Unlisted
    BY DEF EmptyStatus, NoNodes
  <2> QED BY <2>1 DEF Dated, NoneFailed, InPhase, EmptyStatus, Unlisted
<1>o. /\ cache.spec.cancel => spec.cancel
      /\ worker.pc = "release" => Abandoned
      /\ \A n \in Node : machine[n] = "Gone" => n \notin busy
      /\ Orderly /\ HandedBackInOrder /\ CordonsStand
  BY DEF EvictInv
\* Copies are passed on, and nothing is opened that was not given up.
<1>k. ASSUME \/ worker'.status = worker.status
             \/ worker'.status = EmptyStatus /\ worker'.pc \notin Working,
             status' = status, cache' = cache \/ cache' = [spec |-> spec, status |-> status],
             cache'.spec.cancel => spec'.cancel, worker'.pc = "release" => Abandoned',
             worker'.pc = "step" => worker.pc = "step" /\ worker'.todo = worker.todo,
             worker'.pc \in Working /\ worker'.fresh => worker.pc \in Working /\ worker.fresh,
             worker'.pc \in Working /\ worker'.fresh => cache' = cache,
             \A n \in Node :
               Guarded(n) => Guarded(n)' \/ (worker.pc = "release" /\ worker'.pc # "step"),
             \A n \in Node : machine'[n] = "Gone" => n \notin busy', Abandoned => Abandoned'
      PROVE  EvictInv'
  <2>0. cache'.status = cache.status \/ cache'.status = status
    BY <1>k
  <2>1. Orderly'
    BY <1>e, <1>k, <1>o, <2>0 DEF Orderly, Dated, NoneFailed, InPhase
  <2>2. HandedBackInOrder'
    BY <1>e, <1>k, <1>o, <2>0 DEF HandedBackInOrder, HandedBack, Unlisted
  <2>3. ASSUME NEW n \in Node, Guarded(n) \/ Abandoned PROVE Guarded(n)' \/ Abandoned'
    BY <1>k, <1>o, <2>3
  <2>4. ASSUME NEW n \in Node, worker'.status.node[n] \in OnCordon
        PROVE  Guarded(n)' \/ (worker'.pc # "step" /\ Abandoned')
    <3>1. worker.status.node[n] \in OnCordon
      BY <1>e, <1>k, <2>4 DEF OnCordon, Unlisted
    <3>2. Guarded(n) \/ (worker.pc # "step" /\ Abandoned)
      BY <1>o, <3>1 DEF CordonsStand
    <3> QED BY <1>k, <1>o, <3>2
  <2>5. CordonsStand'
    BY <1>k, <1>o, <2>0, <2>3, <2>4 DEF CordonsStand
  <2> QED BY <1>k, <2>1, <2>2, <2>5 DEF EvictInv
<1>1. CASE Reconcile /\ ~ObserveTerminal
  BY <1>1, EvictReconcile
<1>2. CASE ObserveTerminal
  <2>1. UNCHANGED <<spec, status, cache, worker, cordoned, busy, machine, late>>
    BY <1>2 DEF ObserveTerminal, Reading, cluster
  <2> QED BY <1>k, <1>o, <2>1 DEF Guarded, Abandoned
<1>3. CASE StepNode
  BY <1>3, EvictStep
<1>4. ASSUME NEW n \in Node, ReleaseNode(n) PROVE EvictInv'
  <2>1. /\ worker.pc = "release" /\ worker'.pc \in {"release", "write"}
        /\ worker'.status = worker.status /\ worker'.fresh = worker.fresh
        /\ UNCHANGED <<spec, status, cache, busy, machine, late>>
    BY <1>4 DEF ReleaseNode, request, TypeOK, WorkerRecord
  <2> QED BY <1>k, <1>o, <2>1 DEF Abandoned, Working
<1>5. CASE Write
  <2>1. /\ worker.pc = "write" /\ worker.fresh /\ status' = worker.status
        /\ UNCHANGED <<spec, cache, cordoned, busy, machine, late>>
    BY <1>5 DEF Write, Accepted, cluster
  <2>2. worker'.status = EmptyStatus /\ worker'.pc \in {"idle", "audit"}
    BY <1>5, EmptyTyped DEF Write, Idle, WorkerRecord
  <2>3. Orderly'
    BY <1>e, <1>o, <2>1, <2>2 DEF Orderly, Dated, NoneFailed, InPhase
  <2>4. HandedBackInOrder'
    BY <1>o, <2>1, <2>2 DEF HandedBackInOrder, Working
  <2>5. CordonsStand'
    BY <1>e, <1>o, <2>1, <2>2 DEF CordonsStand, Guarded, Abandoned, OnCordon, Unlisted
  <2> QED BY <1>o, <2>1, <2>2, <2>3, <2>4, <2>5 DEF EvictInv
<1>6. CASE Conflict \/ AuditTerminal
  <2>1. worker'.status = EmptyStatus /\ worker'.pc = "idle"
    BY <1>6, EmptyHeldBack DEF Conflict, AuditTerminal, Idle
  <2>2. UNCHANGED <<spec, status, cache, cordoned, busy, machine, late>>
    BY <1>6 DEF Conflict, AuditTerminal, request, cluster
  <2> QED BY <1>k, <1>o, <2>1, <2>2 DEF Guarded, Abandoned, Working
<1>7. CASE Crash
  <2>1. worker'.status = EmptyStatus /\ worker'.pc = "idle"
    BY <1>7, EmptyHeldBack DEF Crash, Idle
  <2>2. /\ UNCHANGED <<spec, status, cordoned, busy, machine, late>>
        /\ cache' = [spec |-> spec, status |-> status]
    BY <1>7 DEF Crash, cluster
  <2> QED BY <1>k, <1>o, <2>1, <2>2 DEF Guarded, Abandoned, Working
<1>8. CASE Deliver
  <2>1. /\ UNCHANGED <<spec, status, worker, cordoned, busy, machine, late>>
        /\ cache' = [spec |-> spec, status |-> status] /\ ~synced
    BY <1>8 DEF Deliver, cluster
  <2>2. ~(worker.pc \in Working /\ worker.fresh)
    BY <2>1 DEF CordonInv, FreshIsCurrent
  <2> QED BY <1>k, <1>o, <2>1, <2>2 DEF Guarded, Abandoned
<1>9. CASE User \/ UNCHANGED vars
  <2>1. /\ worker'.pc = worker.pc /\ worker'.status = worker.status
        /\ worker'.todo = worker.todo /\ UNCHANGED <<status, cache>>
        /\ worker'.fresh => worker.fresh
    BY <1>9, OutsideCordons
  <2>2. UNCHANGED <<cordoned, busy, machine, late>>
    BY <1>9 DEF User, TogglePause, ToggleCancel, ChangeMode, ChangePolicy, Decide, Edit, cluster,
       vars
  <2>3. spec.cancel => spec'.cancel
    <3>1. CASE ToggleCancel
      BY <3>1 DEF ToggleCancel
    <3>2. CASE User /\ ~ToggleCancel
      BY <3>2 DEF User, TogglePause, ChangeMode, ChangePolicy, Decide, Edit, TypeOK, SpecRecord
    <3>3. CASE UNCHANGED vars
      BY <3>3 DEF vars, request
    <3> QED BY <1>9, <3>1, <3>2, <3>3
  <2> QED BY <1>k, <1>o, <2>1, <2>2, <2>3 DEF Guarded, Abandoned
<1>10. CASE Environment
  <2>1. /\ worker' = worker /\ UNCHANGED <<spec, status, cache>>
    BY <1>10 DEF Environment, PodsLeave, Schedule, NodeGoes, Join, GlobalTimeout,
       EnvironmentUnchanged, request
  <2> DEFINE Stands == /\ \A n \in Node : Guarded(n) => Guarded(n)'
                       /\ \A n \in Node : machine'[n] = "Gone" => n \notin busy'
                       /\ late => late'
  <2>2. Stands
    <3>1. ASSUME NEW m \in Node, PodsLeave(m) PROVE Stands
      BY <1>o, <3>1 DEF PodsLeave, Guarded
    <3>2. ASSUME NEW m \in Node, Schedule(m) PROVE Stands
      BY <1>o, <3>2 DEF Schedule, Guarded
    <3>3. ASSUME NEW m \in Node, NodeGoes(m) PROVE Stands
      BY <1>o, <3>3 DEF NodeGoes, Guarded, TypeOK
    <3>4. ASSUME Join \/ GlobalTimeout PROVE Stands
      BY <1>o, <3>4 DEF Join, GlobalTimeout, cluster, Guarded
    <3> QED BY <1>10, <3>1, <3>2, <3>3, <3>4 DEF Environment
  <2> HIDE DEF Stands
  <2>3. Abandoned => Abandoned'
    BY <2>1, <2>2 DEF Stands, Abandoned
  <2> QED BY <1>k, <1>o, <2>1, <2>2, <2>3 DEF Stands
<1> QED
  BY <1>1, <1>2, <1>3, <1>4, <1>5, <1>6, <1>7, <1>8, <1>9, <1>10 DEF Next, Pass, Poll, Reconcile

\* Only drainNode asks pods to leave, for a node that its copy has Draining.
LEMMA EvictsOnCordon ==
  ~TransientAborts /\ TypeOK /\ EvictInv /\ [Next]_vars => evicting' \ evicting \subseteq cordoned
<1> SUFFICES ASSUME TypeOK, EvictInv, [Next]_vars, NEW n \in Node, n \in evicting' \ evicting
             PROVE  n \in cordoned
  BY TypeNext DEF TypeOK
<1>1. \E m \in Node : DrainNode(m)
  BY DEF Next, Pass, Reconcile, Accept, ObserveTerminal, UserCancel, Pause, PolicyUnresolved,
     Validating, AwaitingApproval, Planned, Resume, RetryBlocked, Executing, Dispatched, Reading,
     StepNode, StartNode, CordonNode, CheckNode, UncordonNode, ReplaceNode, AwaitNode, NodeError,
     ReleaseNode, Write, Conflict, AuditTerminal, Poll, Deliver, Crash, User, TogglePause,
     ToggleCancel, ChangeMode, ChangePolicy, Decide, Edit, Environment, PodsLeave, Schedule,
     NodeGoes, Join, GlobalTimeout, EnvironmentUnchanged, cluster, vars
<1>2. DrainNode(n) /\ n \in busy
  BY <1>1 DEF DrainNode
<1>3. Guarded(n)
  BY <1>2 DEF DrainNode, Visiting, EvictInv, CordonsStand, OnCordon
<1> QED BY <1>2, <1>3 DEF Guarded, EvictInv

\* Pods are asked to leave a cordoned node only, where an abort is not taken
\* back: not by a pass that a release or a deletion has overtaken, not by one on
\* a stale copy after the node was uncordoned, and not by a new manager.
THEOREM EvictionsAreCordoned == Spec => EvictsOnlyCordoned
<1>1. CASE ~TransientAborts
  <2>1. TypeOK /\ EndInv /\ ProgressInv /\ InFlightAgrees /\ CordonInv /\ EmptyInv /\ EvictInv
          /\ [Next]_vars => EvictInv'
    BY <1>1, EvictNext
  <2>2. TypeOK /\ ProgressInv /\ InFlightAgrees /\ EmptyInv /\ [Next]_vars => EmptyInv'
    BY EmptyNext
  <2>3. TypeOK /\ EvictInv /\ [Next]_vars =>
          [~TransientAborts => evicting' \ evicting \subseteq cordoned]_vars
    BY EvictsOnCordon
  <2> QED BY <2>1, <2>2, <2>3, CountCorrect, CordonCorrect, EmptyInit, EvictInit, PTL
          DEF Spec, EvictsOnlyCordoned
<1>2. CASE TransientAborts
  <2>1. TRUE => [~TransientAborts => evicting' \ evicting \subseteq cordoned]_vars
    BY <1>2
  <2> QED BY <2>1, PTL DEF EvictsOnlyCordoned
<1> QED BY <1>1, <1>2
=============================================================================
