----------------------------- MODULE FleetProofs -----------------------------
(***************************************************************************)
(* Proofs about several requests in execution, for any requests, plans,    *)
(* shared nodes, caps, workers and faults.                                 *)
(***************************************************************************)
EXTENDS Fleet, FiniteSetTheorems, TLAPS

USE DEF requests, cluster

-----------------------------------------------------------------------------
(***************************************************************************)
(* Types.                                                                  *)
(***************************************************************************)
\* What the loop counts is finite.
LEMMA CountTypes ==
  /\ \A s : CountInFlight(s) \in Nat
  /\ \A r \in Request : \A copies : InFlightExcept(r, copies) \in Nat
<1>1. IsFiniteSet(Node)
  BY SizeAssumption, FS_Interval DEF Node
<1>2. ASSUME NEW s PROVE CountInFlight(s) \in Nat
  <2>1. InPhase(s, InFlightPhases) \subseteq Node
    BY DEF InPhase
  <2> QED BY <1>1, <2>1, FS_Subset, FS_CardinalityType DEF CountInFlight
<1>3. ASSUME NEW r \in Request, NEW copies PROVE InFlightExcept(r, copies) \in Nat
  <2> DEFINE held == {qn \in (Request \ {r}) \X Node :
                        CountsAgainst(copies[qn[1]])
                        /\ copies[qn[1]].node[qn[2]] \in InFlightPhases}
  <2>1. IsFiniteSet(Request \ {r})
    BY SizeAssumption, FS_Subset
  <2>2. IsFiniteSet((Request \ {r}) \X Node)
    BY <1>1, <2>1, FS_Product
  <2>3. IsFiniteSet(held)
    BY <2>2, FS_Subset
  <2> QED BY <2>3, FS_CardinalityType DEF InFlightExcept
<1> QED BY <1>2, <1>3

\* A worker with nothing to do, and a request that is gone, are well typed.
LEMMA IdleType == NoStatus \in StatusRecord /\ Idle \in PassRecord
<1>1. NoStatus \in StatusRecord
  BY DEF NoStatus, StatusRecord, RequestPhase, StepPhase
<1> QED BY <1>1 DEF Idle, PassRecord

\* A pass about to write its copy is well typed, and visits no more nodes.
LEMMA WritingType ==
  ASSUME NEW p \in PassRecord, NEW s \in StatusRecord
  PROVE  /\ Writing(p, s) \in PassRecord /\ Writing(p, s).pc = "write"
         /\ Writing(p, s).todo = {} /\ Writing(p, s).status = s
         /\ Writing(p, s).fresh = p.fresh
<1>1. {} \in SUBSET Node /\ 0 \in Int /\ FALSE \in BOOLEAN
  OBVIOUS
<1>2. Writing(p, s) \in PassRecord
  BY <1>1 DEF Writing, PassRecord
<1> QED BY <1>2 DEF Writing, PassRecord

\* The parts of a pass that the proofs are about.
Kept(q) ==
  /\ pass'[q].pc = pass[q].pc /\ pass'[q].status = pass[q].status
  /\ pass'[q].fresh = pass[q].fresh /\ pass'[q].todo = pass[q].todo

\* A step of one pass keeps those of the others.
LEMMA BecomesShape ==
  ASSUME pass \in [Request -> PassRecord], NEW r \in Request, NEW p \in PassRecord, Becomes(r, p)
  PROVE  /\ pass' \in [Request -> PassRecord] /\ pass'[r] = p
         /\ \A q \in Request \ {r} : Kept(q)
<1>1. \A q \in Request : [pass[q] EXCEPT !.alone = FALSE] \in PassRecord
  BY DEF PassRecord
<1> QED BY <1>1 DEF Becomes, Kept, PassRecord

\* What a pass that begins can become.
Started(r) ==
  \/ /\ r \in late
     /\ pass'[r].pc \in {"release", "write"}
     /\ pass'[r].status.phase = "Failed" /\ pass'[r].status.node = cache[r].node
     /\ pass'[r].todo = InPhase(cache[r], Releasable)
     /\ pass'[r].pc = "write" => pass'[r].todo = {}
  \/ /\ r \notin late
     /\ pass'[r].pc = "write" /\ pass'[r].todo = {} /\ pass'[r].status = Retried(cache[r])
  \/ /\ r \notin late
     /\ pass'[r].pc = "step" /\ pass'[r].todo = Unfinished(cache[r])
     /\ pass'[r].status = cache[r] /\ cache[r].phase = "Executing"

\* A pass begins without a change to the others.
LEMMA BeginShape ==
  ASSUME TypeOK, NEW r \in Request, Begin(r)
  PROVE  /\ pass' \in [Request -> PassRecord] /\ faults' \in 0 .. MaxFaults
         /\ pass[r].pc = "idle" /\ cache[r].phase \notin Over
         /\ \A q \in Request \ {r} : Kept(q)
         /\ pass'[r].fresh = (r \in synced) /\ Started(r)
<1> USE DEF TypeOK
<1>1. faults' \in 0 .. MaxFaults /\ pass[r].pc = "idle" /\ cache[r].phase \notin Over
  <2>1. pass[r].pc = "idle" /\ cache[r].phase \notin Over
    BY Zenon DEF Begin, Over, Terminal
  <2>2. UNCHANGED faults \/ (faults < MaxFaults /\ faults' = faults + 1)
    BY Zenon DEF Begin
  <2> QED BY <2>1, <2>2, BoundAssumption
<1>2. cache[r] \in StatusRecord
  OBVIOUS
<1>3. ASSUME NEW pc \in {"step", "release", "write"}
      PROVE  /\ Reading(r, pc) \in PassRecord
             /\ Reading(r, pc).pc = pc /\ Reading(r, pc).status = cache[r]
             /\ Reading(r, pc).fresh = (r \in synced) /\ Reading(r, pc).todo = {}
  <2> DEFINE fresh == r \in synced
  <2>1. fresh \in BOOLEAN /\ Idle.todo = {}
    BY DEF Idle
  <2>2. Reading(r, pc) = [Idle EXCEPT !.pc = pc, !.status = cache[r], !.fresh = fresh]
    BY DEF Reading
  <2> HIDE DEF fresh
  <2>3. /\ Reading(r, pc) \in PassRecord
        /\ Reading(r, pc).pc = pc /\ Reading(r, pc).status = cache[r]
        /\ Reading(r, pc).fresh = fresh /\ Reading(r, pc).todo = {}
    BY <1>2, <2>1, <2>2, IdleType DEF PassRecord
  <2> QED BY <2>3 DEF fresh
<1>4. CASE r \in late /\ Fails(r)
  <2> DEFINE held == InPhase(cache[r], Releasable)
             pc == IF held = {} THEN "write" ELSE "release"
             p == [Reading(r, pc) EXCEPT !.status.phase = "Failed", !.todo = held]
  <2>1. held \subseteq Node /\ pc \in {"step", "release", "write"}
    BY DEF InPhase
  <2>2. [cache[r] EXCEPT !.phase = "Failed"] \in StatusRecord
    BY <1>2 DEF StatusRecord, RequestPhase
  <2>3. Reading(r, pc) \in PassRecord /\ Reading(r, pc).pc = pc /\ Reading(r, pc).status = cache[r]
        /\ Reading(r, pc).fresh = (r \in synced)
    BY <1>3, <2>1
  <2>4. p = [Reading(r, pc) EXCEPT !.status = [cache[r] EXCEPT !.phase = "Failed"], !.todo = held]
    BY <2>3 DEF PassRecord
  <2> HIDE DEF held
  <2>5. p \in PassRecord
    BY <2>1, <2>2, <2>3, <2>4 DEF PassRecord
  <2>6. Becomes(r, p)
    BY <1>4 DEF Fails, held
  <2>7. p.pc = pc /\ p.fresh = (r \in synced) /\ p.todo = held
        /\ p.status.phase = "Failed" /\ p.status.node = cache[r].node
    BY <1>2, <2>3, <2>4 DEF PassRecord, StatusRecord
  <2> HIDE DEF p
  <2> QED BY <1>1, <1>4, <2>5, <2>6, <2>7, BecomesShape DEF Started, held
<1>5. CASE r \notin late /\ Becomes(r, Writing(Reading(r, "write"), Retried(cache[r])))
  <2> DEFINE p == Writing(Reading(r, "write"), Retried(cache[r]))
  <2>1. Retried(cache[r]) \in StatusRecord
    BY <1>2 DEF Retried, StatusRecord, RequestPhase, StepPhase
  <2>2. /\ p \in PassRecord /\ p.pc = "write" /\ p.todo = {} /\ p.status = Retried(cache[r])
        /\ p.fresh = Reading(r, "write").fresh
    BY <1>3, <2>1, WritingType
  <2> HIDE DEF p
  <2> QED BY <1>1, <1>3, <1>5, <2>2, BecomesShape DEF Started, p
<1>6. ASSUME NEW others \in Nat, NEW listed \in BOOLEAN, r \notin late,
             cache[r].phase = "Executing", Executes(r, others, listed)
      PROVE  /\ pass' \in [Request -> PassRecord] /\ \A q \in Request \ {r} : Kept(q)
             /\ pass'[r].fresh = (r \in synced) /\ Started(r)
  <2> DEFINE p == [Reading(r, "step") EXCEPT !.todo = Unfinished(cache[r]),
                     !.inFlight = CountInFlight(cache[r]), !.slots = SlotsBeside(others),
                     !.alone = listed /\ Request \ {r} \subseteq synced /\ Running = {}]
  <2>1. CountInFlight(cache[r]) \in Int /\ SlotsBeside(others) \in Int
    BY CountTypes, CapAssumption DEF SlotsBeside, Lesser
  <2>2. Unfinished(cache[r]) \subseteq Node
    BY DEF Unfinished
  <2>3. (listed /\ Request \ {r} \subseteq synced /\ Running = {}) \in BOOLEAN
    BY Zenon
  <2>4. /\ p \in PassRecord /\ p.pc = "step" /\ p.todo = Unfinished(cache[r])
        /\ p.status = cache[r] /\ p.fresh = (r \in synced)
    BY <1>3, <2>1, <2>2, <2>3 DEF PassRecord
  <2>5. Becomes(r, p)
    BY <1>6 DEF Executes
  <2> HIDE DEF p
  <2> QED BY <1>6, <2>4, <2>5, BecomesShape DEF Started
<1> QED BY <1>1, <1>4, <1>5, <1>6, CountTypes DEF Begin

\* What a pass can become when it has visited node n in its loop: the node has
\* entered a phase, the others are as they were, and after the last one the copy
\* is handed to the write, completed when every node is.
Stepped(r, n, phase) ==
  /\ pass'[r].fresh = pass[r].fresh
  /\ pass'[r].status.node = [pass[r].status.node EXCEPT ![n] = phase]
  /\ pass'[r].todo = pass[r].todo \ {n}
  /\ \/ pass'[r].pc = "step" /\ pass'[r].status.phase = pass[r].status.phase
     \/ /\ pass'[r].pc = "write" /\ pass'[r].todo = {}
        /\ \/ pass'[r].status.phase = pass[r].status.phase
           \/ /\ Unfinished(pass'[r].status) = {}
              /\ pass'[r].status.phase \in {"Blocked", "Completed"}
              /\ pass'[r].status.phase = "Completed" => InPhase(pass'[r].status, {"Blocked"}) = {}

\* completeExecution blocks a request or completes it, and moves no node.
LEMMA CompletedType ==
  ASSUME NEW s \in StatusRecord
  PROVE  /\ Completed(s) \in StatusRecord /\ Completed(s).node = s.node
         /\ Completed(s).phase \in {"Blocked", "Completed"}
         /\ Completed(s).phase = "Completed" => InPhase(Completed(s), {"Blocked"}) = {}
         /\ Unfinished(Completed(s)) = Unfinished(s)
<1>1. Completed(s) \in StatusRecord /\ Completed(s).node = s.node
      /\ Completed(s).phase = IF InPhase(s, {"Blocked"}) # {} THEN "Blocked" ELSE "Completed"
  BY DEF Completed, StatusRecord, RequestPhase
<1> QED BY <1>1 DEF InPhase, Unfinished

\* A node that enters a phase changes its own pass only.
LEMMA EntersShape ==
  ASSUME TypeOK, NEW r \in Request, NEW n \in Node, NEW phase \in StepPhase,
         Visiting(r, n, "step"), Enters(r, n, phase)
  PROVE  /\ pass' \in [Request -> PassRecord]
         /\ \A q \in Request \ {r} : Kept(q)
         /\ Stepped(r, n, phase)
<1> DEFINE s == [pass[r].status EXCEPT !.node[n] = phase]
           k == pass[r].inFlight + (IF phase \in InFlightPhases THEN 1 ELSE 0)
                  - (IF pass[r].status.node[n] \in InFlightPhases THEN 1 ELSE 0)
           p == [pass[r] EXCEPT !.status = s, !.todo = @ \ {n}, !.inFlight = k]
<1>1. pass \in [Request -> PassRecord] /\ pass[r] \in PassRecord
  BY DEF TypeOK
<1>2. s \in StatusRecord /\ s.phase = pass[r].status.phase
      /\ s.node = [pass[r].status.node EXCEPT ![n] = phase]
  BY <1>1 DEF PassRecord, StatusRecord
<1>3. k \in Int
  BY <1>1 DEF PassRecord
<1>4. Enters(r, n, phase) =
        Becomes(r, IF pass[r].todo # {n} THEN p
                   ELSE Writing(p, IF Unfinished(s) = {} THEN Completed(s) ELSE s))
  BY DEF Enters
<1> HIDE DEF s, k
<1>5. /\ p \in PassRecord /\ p.pc = pass[r].pc /\ p.fresh = pass[r].fresh /\ p.status = s
      /\ p.todo = pass[r].todo \ {n}
  BY <1>1, <1>2, <1>3 DEF PassRecord
<1> HIDE DEF p
<1>6. pass[r].pc = "step"
  BY DEF Visiting
<1>7. CASE pass[r].todo # {n}
  <2>1. Becomes(r, p)
    BY <1>4, <1>7
  <2> QED BY <1>1, <1>2, <1>5, <1>6, <2>1, BecomesShape DEF Stepped
<1>8. CASE pass[r].todo = {n}
  <2> DEFINE t == IF Unfinished(s) = {} THEN Completed(s) ELSE s
  <2>1. t \in StatusRecord /\ t.node = s.node
    BY <1>2, CompletedType
  <2>2. \/ t.phase = s.phase
        \/ /\ Unfinished(t) = {} /\ t.phase \in {"Blocked", "Completed"}
           /\ t.phase = "Completed" => InPhase(t, {"Blocked"}) = {}
    BY <1>2, CompletedType
  <2>3. Becomes(r, Writing(p, t))
    BY <1>4, <1>8
  <2> HIDE DEF t
  <2>4. /\ pass' \in [Request -> PassRecord] /\ \A q \in Request \ {r} : Kept(q)
        /\ pass'[r] = Writing(p, t)
    BY <1>1, <1>5, <2>1, <2>3, WritingType, BecomesShape
  <2> QED BY <1>2, <1>5, <1>8, <2>1, <2>2, <2>4, WritingType DEF Stepped
<1> QED BY <1>7, <1>8

\* Where the loop can take a node from a phase.
Moves(from) ==
  CASE from = "Pending"     -> {"Pending", "Cordoning"}
    [] from = "Cordoning"   -> {"Draining"}
    [] from = "Draining"    -> {"Draining", "PostCheck", "Blocked"}
    [] from = "PostCheck"   -> {"Uncordoning"}
    [] from = "Uncordoning" -> {"Completed"}
    [] OTHER                -> {}

\* The steps of a pass over its nodes, the write left aside: a node is moved, a
\* call fails, or a node is released.
NodeStep(r, n) ==
  \/ /\ Visiting(r, n, "step") /\ UNCHANGED faults
     /\ \E phase \in Moves(pass[r].status.node[n]) : Stepped(r, n, phase)
     /\ CASE pass[r].status.node[n] = "Cordoning"   -> Cordons(r, n)
          [] pass[r].status.node[n] = "Uncordoning" -> Uncordons(n)
          [] OTHER                                  -> UNCHANGED <<cordoned, left>>
  \/ /\ Visiting(r, n, "step") /\ faults < MaxFaults /\ faults' = faults + 1
     /\ pass'[r].pc = "write" /\ pass'[r].todo = {}
     /\ pass'[r].status = pass[r].status /\ pass'[r].fresh = pass[r].fresh
     /\ UNCHANGED <<cordoned, left>>
  \/ /\ Visiting(r, n, "release")
     /\ \/ Uncordons(n) /\ UNCHANGED faults
        \/ /\ faults < MaxFaults /\ faults' = faults + 1
           /\ left' = left \cup {n} /\ UNCHANGED cordoned
     /\ pass'[r].pc = IF pass[r].todo = {n} THEN "write" ELSE "release"
     /\ pass'[r].todo = pass[r].todo \ {n}
     /\ pass'[r].status = pass[r].status /\ pass'[r].fresh = pass[r].fresh

\* So does each step of the loop, and each release.
LEMMA NodeShape ==
  ASSUME TypeOK, NEW r \in Request, NEW n \in Node,
         \/ StartNode(r, n) \/ CordonNode(r, n) \/ DrainNode(r, n) \/ CheckNode(r, n)
         \/ UncordonNode(r, n) \/ NodeError(r, n) \/ ReleaseNode(r, n)
  PROVE  /\ pass' \in [Request -> PassRecord] /\ \A q \in Request \ {r} : Kept(q)
         /\ NodeStep(r, n) /\ UNCHANGED <<requests, nodeCache, ends>>
<1>0. pass \in [Request -> PassRecord] /\ pass[r] \in PassRecord
  BY DEF TypeOK
<1> USE DEF StepFrom
<1>1. ASSUME NEW from \in StepPhase, NEW phase \in Moves(from),
             StepFrom(r, n, from), Enters(r, n, phase)
      PROVE  /\ pass' \in [Request -> PassRecord] /\ \A q \in Request \ {r} : Kept(q)
             /\ Visiting(r, n, "step") /\ Stepped(r, n, phase)
             /\ phase \in Moves(pass[r].status.node[n])
  <2>1. phase \in StepPhase
    BY <1>1 DEF Moves, StepPhase
  <2> QED BY <1>1, <2>1, EntersShape
<1>2. CASE StartNode(r, n)
  <2>1. /\ StepFrom(r, n, "Pending") /\ UNCHANGED <<cluster, faults>>
        /\ \E phase \in {"Cordoning", "Pending"} : Enters(r, n, phase)
    BY <1>2 DEF StartNode
  <2> QED BY <1>1, <2>1 DEF NodeStep, Moves, StepPhase, Visiting
<1>3. CASE CordonNode(r, n)
  BY <1>1, <1>3 DEF CordonNode, NodeStep, Moves, StepPhase, Visiting
<1>4. CASE DrainNode(r, n)
  BY <1>1, <1>4 DEF DrainNode, NodeStep, Moves, StepPhase, Visiting
<1>5. CASE CheckNode(r, n)
  BY <1>1, <1>5 DEF CheckNode, NodeStep, Moves, StepPhase, Visiting
<1>6. CASE UncordonNode(r, n)
  BY <1>1, <1>6 DEF UncordonNode, NodeStep, Moves, StepPhase, Visiting
<1>7. CASE NodeError(r, n)
  <2>1. pass[r].status \in StatusRecord
    BY <1>0 DEF PassRecord
  <2>2. /\ pass' \in [Request -> PassRecord] /\ \A q \in Request \ {r} : Kept(q)
        /\ pass'[r] = Writing(pass[r], pass[r].status)
    BY <1>0, <1>7, <2>1, WritingType, BecomesShape DEF NodeError
  <2> QED BY <1>0, <1>7, <2>1, <2>2, WritingType DEF NodeError, NodeStep, Visiting
<1>8. CASE ReleaseNode(r, n)
  <2> DEFINE p == [pass[r] EXCEPT !.todo = @ \ {n},
                                  !.pc = IF pass[r].todo = {n} THEN "write" ELSE @]
  <2>1. /\ p \in PassRecord /\ p.todo = pass[r].todo \ {n} /\ p.status = pass[r].status
        /\ p.fresh = pass[r].fresh
        /\ p.pc = IF pass[r].todo = {n} THEN "write" ELSE pass[r].pc
    BY <1>0 DEF PassRecord
  <2>2. Becomes(r, p)
    BY <1>8 DEF ReleaseNode
  <2> HIDE DEF p
  <2>3. /\ pass' \in [Request -> PassRecord] /\ \A q \in Request \ {r} : Kept(q)
        /\ pass'[r] = p
    BY <1>0, <2>1, <2>2, BecomesShape
  <2> QED BY <1>8, <2>1, <2>3 DEF ReleaseNode, NodeStep, Visiting
<1> QED BY <1>2, <1>3, <1>4, <1>5, <1>6, <1>7, <1>8

\* A write ends its pass, whether it is accepted or not.
LEMMA WriteShape ==
  ASSUME TypeOK, NEW r \in Request, Write(r)
  PROVE  /\ pass' \in [Request -> PassRecord] /\ \A q \in Request \ {r} : Kept(q)
         /\ pass'[r] = Idle
BY IdleType, BecomesShape DEF Write, TypeOK

\* Every step, or none, leaves the state well typed.
LEMMA TypeNext == TypeOK /\ [Next]_vars => TypeOK'
<1> SUFFICES ASSUME TypeOK, [Next]_vars PROVE TypeOK'
  OBVIOUS
<1> USE BoundAssumption
<1>1. ASSUME NEW r \in Request, Begin(r) PROVE TypeOK'
  BY <1>1, BeginShape DEF Begin, TypeOK
<1>2. ASSUME NEW r \in Request, NEW n \in Node,
             \/ StartNode(r, n) \/ CordonNode(r, n) \/ DrainNode(r, n) \/ CheckNode(r, n)
             \/ UncordonNode(r, n) \/ NodeError(r, n) \/ ReleaseNode(r, n)
      PROVE  TypeOK'
  <2>1. /\ pass' \in [Request -> PassRecord] /\ NodeStep(r, n)
        /\ UNCHANGED <<requests, nodeCache, ends>>
    BY <1>2, NodeShape
  <2>2. cordoned' \subseteq Node /\ left' \subseteq Node
    BY <2>1 DEF NodeStep, Cordons, Uncordons, TypeOK
  <2>3. faults' \in 0 .. MaxFaults
    BY <2>1 DEF NodeStep, TypeOK
  <2> QED BY <2>1, <2>2, <2>3 DEF TypeOK
<1>3. ASSUME NEW r \in Request, Write(r) PROVE TypeOK'
  <2>1. pass' \in [Request -> PassRecord]
    BY <1>3, WriteShape
  <2>2. status' \in [Request -> StatusRecord] /\ synced' \subseteq Request
    BY <1>3 DEF Write, TypeOK, PassRecord
  <2>3. faults' \in 0 .. MaxFaults
    BY <1>3 DEF Write, TypeOK
  <2> QED BY <1>3, <2>1, <2>2, <2>3 DEF Write, TypeOK
<1>4. CASE Crash
  BY <1>4, IdleType DEF Crash, TypeOK
<1>5. ASSUME NEW r \in Request, Deliver(r) \/ TimeOut(r) PROVE TypeOK'
  BY <1>5 DEF Deliver, TimeOut, TypeOK
<1>6. ASSUME NEW r \in Request, Delete(r) PROVE TypeOK'
  BY <1>6, IdleType DEF Delete, TypeOK, InPhase
<1>7. ASSUME NEW n \in Node, DeliverNode(n) PROVE TypeOK'
  BY <1>7 DEF DeliverNode, TypeOK
<1>8. CASE UNCHANGED vars
  BY <1>8 DEF vars, TypeOK
<1> QED
  BY <1>1, <1>2, <1>3, <1>4, <1>5, <1>6, <1>7, <1>8 DEF Next, Pass

\* The initial state is well typed.
LEMMA TypeInit == Init => TypeOK
<1> SUFFICES ASSUME Init PROVE TypeOK
  OBVIOUS
<1>1. status \in [Request -> StatusRecord]
  BY DEF Init, StatusRecord, RequestPhase, StepPhase
<1> QED BY <1>1, IdleType, BoundAssumption DEF Init, TypeOK

\* Statuses, passes and nodes keep to what the code and the API server hold.
THEOREM FleetTypeCorrect == Spec => []TypeOK
BY TypeInit, TypeNext, PTL DEF Spec

-----------------------------------------------------------------------------
(***************************************************************************)
(* What a pass may rely on although its copy can be old: a status is ahead *)
(* of the informer by one write at most, for only a pass that began on the *)
(* latest copy can write; and a request that failed is one that is late.   *)
(***************************************************************************)
Busy(r) == pass[r].pc # "idle"

PassInv(r) ==
  /\ pass[r].pc = "step" => pass[r].status.phase = "Executing"
  /\ pass[r].pc = "release" => pass[r].status.phase = "Failed"
  /\ pass[r].pc = "write" => pass[r].todo = {}
  /\ Busy(r) /\ pass[r].status.phase = "Failed" => r \in late
  /\ Busy(r) /\ pass[r].status.phase = "Completed"
       => InPhase(pass[r].status, Releasable) = {}

StatusInv(r) ==
  /\ status[r].phase = "Failed" => r \in late
  /\ status[r].phase = "Completed" => InPhase(status[r], Releasable) = {}
  /\ r \in synced => cache[r] = status[r]

\* A pass that can write has moved a node that was to be cordoned by one phase.
FreshInv(r) ==
  Busy(r) /\ pass[r].fresh /\ status[r].phase # "Deleted" =>
    /\ r \in synced
    /\ \A n \in Node : status[r].node[n] = "Cordoning" =>
         \/ pass[r].status.node[n] = "Cordoning"
         \/ pass[r].status.node[n] = "Draining" /\ (pass[r].pc = "step" => n \notin pass[r].todo)

\* A node that the informer shows as about to be cordoned is held.
LagInv(r) ==
  \A n \in Node : cache[r].node[n] = "Cordoning" =>
    status[r].phase = "Deleted" \/ status[r].node[n] \in Releasable

\* So is one that a pass, however old its copy, is about to cordon.
CordonInv(r) ==
  \A n \in pass[r].todo : pass[r].pc = "step" /\ pass[r].status.node[n] = "Cordoning" =>
    status[r].phase = "Deleted" \/ (Live(r) /\ status[r].node[n] \in Releasable)

Know(r) == PassInv(r) /\ StatusInv(r) /\ FreshInv(r) /\ LagInv(r) /\ CordonInv(r)

KnowInv == \A r \in Request : Know(r)

\* What a step does not touch, it does not invalidate.
LEMMA KnowKept ==
  ASSUME NEW q \in Request, Know(q), Kept(q),
         status'[q] = status[q], cache'[q] = cache[q],
         q \in synced' <=> q \in synced, q \in late => q \in late'
  PROVE  Know(q)'
<1> USE DEF Kept, Know
<1>1. PassInv(q)'
  BY DEF PassInv, Busy, InPhase
<1>2. StatusInv(q)'
  BY DEF StatusInv, InPhase
<1>3. FreshInv(q)'
  BY DEF FreshInv, Busy
<1>4. LagInv(q)' /\ CordonInv(q)'
  BY DEF LagInv, CordonInv, Live
<1> QED BY <1>1, <1>2, <1>3, <1>4

\* A pass knows as much of its request as the copy it has read.
LEMMA KnowBegin ==
  ASSUME TypeOK, NEW r \in Request, Know(r), Begin(r)
  PROVE  Know(r)'
<1> USE DEF Know
<1>1. /\ pass[r].pc = "idle" /\ cache[r].phase \notin Over /\ UNCHANGED requests
      /\ pass'[r].fresh = (r \in synced) /\ Started(r)
  BY BeginShape DEF Begin
<1>2. cache[r] \in StatusRecord /\ status[r] \in StatusRecord
  BY DEF TypeOK
<1>3. PassInv(r)'
  <2>1. \A s : Retried(s).phase = "Executing"
    BY DEF Retried
  <2> QED BY <1>1, <2>1 DEF Started, PassInv, Busy, Over, Terminal
<1>4. StatusInv(r)' /\ LagInv(r)'
  BY <1>1 DEF StatusInv, LagInv, InPhase
<1>5. FreshInv(r)'
  <2>1. \A n \in Node : cache[r].node[n] = "Cordoning" => pass'[r].status.node[n] = "Cordoning"
    BY <1>1 DEF Started, Retried
  <2> QED BY <1>1, <2>1 DEF FreshInv, StatusInv
<1>6. CordonInv(r)'
  <2> SUFFICES ASSUME NEW n \in Node, pass'[r].pc = "step", cache[r].node[n] = "Cordoning",
                      status[r].phase # "Deleted"
               PROVE  Live(r) /\ status[r].node[n] \in Releasable
    BY <1>1 DEF Started, CordonInv, Live, Unfinished, InPhase
  <2>1. r \notin late
    BY <1>1 DEF Started
  <2>2. status[r].node[n] \in Releasable
    BY DEF LagInv
  <2>3. status[r].phase \notin {"Failed", "Completed"}
    BY <2>1, <2>2 DEF StatusInv, InPhase
  <2> QED BY <1>2, <2>2, <2>3 DEF Live, Over, Terminal, StatusRecord, RequestPhase
<1> QED BY <1>3, <1>4, <1>5, <1>6

\* A step of the loop takes the copy on by one phase of one node.
LEMMA KnowNode ==
  ASSUME TypeOK, NEW r \in Request, Know(r), NEW n \in Node, NodeStep(r, n), UNCHANGED requests,
         pass' \in [Request -> PassRecord]
  PROVE  Know(r)'
<1> USE DEF Know
<1>1. pass[r] \in PassRecord /\ pass[r].status \in StatusRecord /\ pass'[r] \in PassRecord
  BY DEF TypeOK, PassRecord
<1>2. PassInv(r)'
  <2>1. ASSUME NEW phase \in Moves(pass[r].status.node[n]), Visiting(r, n, "step"),
               Stepped(r, n, phase)
        PROVE  PassInv(r)'
    <3>1. pass[r].pc = "step" /\ pass[r].status.phase = "Executing"
      BY <2>1 DEF Visiting, PassInv
    <3>2. ASSUME pass'[r].status.phase = "Completed"
          PROVE  InPhase(pass'[r].status, Releasable) = {}
      BY <2>1, <3>1, <3>2 DEF Stepped, InPhase, Unfinished, NodeTerminal, Releasable, Unlisted
    <3> QED BY <2>1, <3>1, <3>2 DEF Stepped, PassInv, Busy, InPhase
  <2>2. ASSUME Visiting(r, n, "step"), pass'[r].pc = "write", pass'[r].todo = {},
               pass'[r].status = pass[r].status
        PROVE  PassInv(r)'
    BY <2>2 DEF PassInv, Busy, InPhase, Visiting
  <2>3. ASSUME Visiting(r, n, "release"),
               pass'[r].pc = (IF pass[r].todo = {n} THEN "write" ELSE "release"),
               pass'[r].todo = pass[r].todo \ {n}, pass'[r].status = pass[r].status
        PROVE  PassInv(r)'
    BY <2>3 DEF PassInv, Busy, InPhase, Visiting
  <2> QED BY <2>1, <2>2, <2>3 DEF NodeStep
<1>3. StatusInv(r)' /\ LagInv(r)'
  BY DEF StatusInv, LagInv, InPhase
<1>4. FreshInv(r)'
  <2> SUFFICES ASSUME pass[r].fresh, status[r].phase # "Deleted", NEW m \in Node,
                      status[r].node[m] = "Cordoning"
               PROVE  \/ pass'[r].status.node[m] = "Cordoning"
                      \/ /\ pass'[r].status.node[m] = "Draining"
                         /\ pass'[r].pc = "step" => m \notin pass'[r].todo
    BY DEF NodeStep, Stepped, FreshInv, Busy, Visiting
  <2>1. \/ pass[r].status.node[m] = "Cordoning"
        \/ /\ pass[r].status.node[m] = "Draining"
           /\ pass[r].pc = "step" => m \notin pass[r].todo
    BY DEF FreshInv, NodeStep, Busy, Visiting
  <2> QED BY <1>1, <2>1 DEF NodeStep, Stepped, Visiting, Moves, StatusRecord
<1>5. CordonInv(r)'
  <2> SUFFICES ASSUME NEW m \in pass'[r].todo, pass'[r].pc = "step",
                      pass'[r].status.node[m] = "Cordoning"
               PROVE  status[r].phase = "Deleted" \/ (Live(r) /\ status[r].node[m] \in Releasable)
    BY DEF CordonInv, Live
  <2>1. /\ pass[r].pc = "step" /\ pass'[r].todo = pass[r].todo \ {n}
        /\ \E phase \in Moves(pass[r].status.node[n]) :
             pass'[r].status.node = [pass[r].status.node EXCEPT ![n] = phase]
    BY DEF NodeStep, Stepped, Visiting
  <2>2. m \in pass[r].todo /\ m # n /\ m \in Node
    BY <1>1, <2>1 DEF PassRecord
  <2>3. pass[r].status.node[m] = "Cordoning"
    BY <1>1, <2>1, <2>2 DEF StatusRecord
  <2> QED BY <2>1, <2>2, <2>3 DEF CordonInv
<1> QED BY <1>2, <1>3, <1>4, <1>5

\* A write that is accepted leaves the informer behind by that one write.
LEMMA KnowWrite ==
  ASSUME TypeOK, NEW r \in Request, Know(r), Write(r)
  PROVE  Know(r)'
<1> USE DEF Know
<1>1. pass[r].pc = "write" /\ pass'[r] = Idle /\ UNCHANGED <<cache, late>>
  BY WriteShape DEF Write
<1>2. PassInv(r)' /\ FreshInv(r)' /\ CordonInv(r)'
  BY <1>1 DEF PassInv, FreshInv, CordonInv, Busy, Idle
<1>3. CASE UNCHANGED <<status, synced>>
  BY <1>1, <1>2, <1>3 DEF StatusInv, LagInv, InPhase
<1>4. CASE /\ pass[r].fresh /\ status[r].phase # "Deleted"
           /\ status' = [status EXCEPT ![r] = pass[r].status]
           /\ synced' = IF status' = status THEN synced ELSE synced \ {r}
  <2>1. status'[r] = pass[r].status /\ r \in synced /\ cache[r] = status[r]
    BY <1>1, <1>4 DEF TypeOK, FreshInv, StatusInv, Busy
  <2>2. StatusInv(r)'
    BY <1>1, <1>4, <2>1 DEF StatusInv, PassInv, Busy, InPhase
  <2>3. LagInv(r)'
    BY <1>1, <1>4, <2>1 DEF LagInv, FreshInv, Busy, Releasable
  <2> QED BY <1>2, <2>2, <2>3
<1> QED BY <1>1, <1>2, <1>3, <1>4 DEF Write

\* A restart, a delivery, a timeout or a deletion takes no knowledge away.
LEMMA KnowOther ==
  ASSUME TypeOK, NEW r \in Request, Know(r),
         \/ Crash
         \/ \E q \in Request : Deliver(q) \/ TimeOut(q) \/ Delete(q)
  PROVE  Know(r)'
<1> USE DEF Know
<1>1. CASE Crash
  BY <1>1 DEF Crash, PassInv, StatusInv, FreshInv, LagInv, CordonInv, Busy, Idle, InPhase, Releasable
<1>2. ASSUME NEW q \in Request, Deliver(q) PROVE Know(r)'
  <2>1. CASE q = r
    <3>1. cache'[r] = status[r] /\ UNCHANGED <<status, late, pass>> /\ r \in synced'
      BY <1>2, <2>1 DEF Deliver, TypeOK
    <3> QED BY <3>1 DEF PassInv, StatusInv, FreshInv, LagInv, CordonInv, Busy, InPhase, Releasable,
                        Live
  <2>2. CASE q # r
    BY <1>2, <2>2, KnowKept DEF Deliver, Kept, TypeOK
  <2> QED BY <2>1, <2>2
<1>3. ASSUME NEW q \in Request, TimeOut(q) PROVE Know(r)'
  BY <1>3, KnowKept DEF TimeOut, Kept
<1>4. ASSUME NEW q \in Request, Delete(q) PROVE Know(r)'
  <2>1. CASE q = r
    <3>1. /\ status'[r] = NoStatus /\ r \notin synced' /\ UNCHANGED <<cache, late, pass>>
      BY <1>4, <2>1 DEF Delete, TypeOK
    <3> QED BY <3>1 DEF PassInv, StatusInv, FreshInv, LagInv, CordonInv, Busy, InPhase, NoStatus
  <2>2. CASE q # r
    BY <1>4, <2>2, KnowKept DEF Delete, Kept, TypeOK
  <2> QED BY <2>1, <2>2
<1> QED BY <1>1, <1>2, <1>3, <1>4

\* Every step, or none, keeps what all passes know.
LEMMA KnowNext == TypeOK /\ KnowInv /\ [Next]_vars => KnowInv'
<1> SUFFICES ASSUME TypeOK, KnowInv, [Next]_vars, NEW r \in Request PROVE Know(r)'
  BY DEF KnowInv
<1>0. Know(r)
  BY DEF KnowInv
<1>1. ASSUME NEW q \in Request, Begin(q) PROVE Know(r)'
  BY <1>0, <1>1, BeginShape, KnowBegin, KnowKept DEF Begin
<1>2. ASSUME NEW q \in Request, NEW n \in Node,
             \/ StartNode(q, n) \/ CordonNode(q, n) \/ DrainNode(q, n) \/ CheckNode(q, n)
             \/ UncordonNode(q, n) \/ NodeError(q, n) \/ ReleaseNode(q, n)
      PROVE  Know(r)'
  <2>1. /\ pass' \in [Request -> PassRecord] /\ \A p \in Request \ {q} : Kept(p)
        /\ NodeStep(q, n) /\ UNCHANGED requests
    BY <1>2, NodeShape
  <2> QED BY <1>0, <2>1, KnowNode, KnowKept
<1>3. ASSUME NEW q \in Request, Write(q) PROVE Know(r)'
  <2>1. CASE q = r
    BY <1>0, <1>3, <2>1, KnowWrite
  <2>2. CASE q # r
    BY <1>0, <1>3, <2>2, WriteShape, KnowKept DEF Write, TypeOK
  <2> QED BY <2>1, <2>2
<1>4. ASSUME NEW n \in Node, DeliverNode(n) PROVE Know(r)'
  BY <1>0, <1>4, KnowKept DEF DeliverNode, Kept
<1>5. CASE UNCHANGED vars
  BY <1>0, <1>5, KnowKept DEF vars, Kept
<1> QED
  BY <1>0, <1>1, <1>2, <1>3, <1>4, <1>5, KnowOther DEF Next, Pass

\* Nothing has been read yet.
LEMMA KnowInit == Init => KnowInv
<1> SUFFICES ASSUME Init, NEW r \in Request PROVE Know(r)
  BY DEF KnowInv
<1>1. pass[r] = Idle /\ status[r].phase = "Executing" /\ cache[r] = status[r]
      /\ \A n \in Node : status[r].node[n] # "Cordoning"
  BY DEF Init, Unlisted
<1>2. PassInv(r) /\ FreshInv(r) /\ CordonInv(r)
  BY <1>1 DEF PassInv, FreshInv, CordonInv, Busy, Idle
<1>3. StatusInv(r) /\ LagInv(r)
  BY <1>1 DEF StatusInv, LagInv
<1> QED BY <1>2, <1>3 DEF Know

-----------------------------------------------------------------------------
(***************************************************************************)
(* Every cordon is accounted for. CordonsAccountedFor alone is not         *)
(* inductive: a pass that has returned a node to service and not written   *)
(* so yet still seems to hold it. Another request may cordon the node in   *)
(* between, and then has to answer for it by itself.                       *)
(***************************************************************************)
\* A pass that may still write has given up what its request holds of n.
GivesUp(r, n) ==
  /\ Busy(r) /\ pass[r].fresh
  /\ \/ pass[r].status.node[n] \notin Releasable
     \/ pass[r].status.phase \in Over /\ n \notin pass[r].todo

Holds(r, n) == Live(r) /\ status[r].node[n] \in Releasable /\ ~GivesUp(r, n)

AccountInv == \A n \in cordoned : n \in left \/ \E r \in Request : Holds(r, n)

\* A request goes on holding what a step does not touch, and what it does not
\* return to service.
LEMMA HoldsKept ==
  ASSUME NEW q \in Request, NEW n \in Node, Holds(q, n), Kept(q), status'[q] = status[q]
  PROVE  Holds(q, n)'
BY DEF Holds, GivesUp, Busy, Kept, Live

\* To begin a pass gives up no cordon: what it releases is still to be visited.
LEMMA HoldsBegin ==
  ASSUME TypeOK, NEW r \in Request, Know(r), Begin(r), NEW n \in Node, Holds(r, n)
  PROVE  Holds(r, n)'
<1>1. /\ UNCHANGED requests /\ pass'[r].fresh = (r \in synced) /\ Started(r)
      /\ cache[r].phase \notin Over
  BY BeginShape DEF Begin
<1>2. CASE r \notin synced
  BY <1>1, <1>2 DEF Holds, GivesUp, Live
<1>3. CASE r \in synced
  <2>1. cache[r].node[n] \in Releasable
    BY <1>3 DEF Holds, Know, StatusInv
  <2>2. pass'[r].status.node[n] \in Releasable
    BY <1>1, <2>1 DEF Started, Retried, Releasable
  <2>3. pass'[r].status.phase \in Over => n \in pass'[r].todo
    BY <1>1, <2>1 DEF Started, Retried, InPhase, Over, Terminal
  <2> QED BY <1>1, <2>2, <2>3 DEF Holds, GivesUp, Live
<1> QED BY <1>2, <1>3

\* A step of the loop gives up only a node that it returns to service or leaves.
LEMMA HoldsNode ==
  ASSUME TypeOK, NEW r \in Request, Know(r), NEW n \in Node, NodeStep(r, n), UNCHANGED requests,
         pass' \in [Request -> PassRecord],
         NEW m \in Node, Holds(r, m), m \in cordoned', m \notin left'
  PROVE  Holds(r, m)'
<1>1. /\ pass[r] \in PassRecord /\ pass[r].status \in StatusRecord
      /\ pass[r].status.node \in [Node -> StepPhase]
  BY DEF TypeOK, PassRecord, StatusRecord
<1>2. Busy(r) /\ Live(r)' /\ status'[r].node[m] \in Releasable /\ pass'[r].fresh = pass[r].fresh
  BY DEF NodeStep, Stepped, Visiting, Busy, Holds, Live
<1>3. CASE ~pass[r].fresh
  BY <1>2, <1>3 DEF Holds, GivesUp
<1>4. CASE pass[r].fresh
  <2>1. /\ pass[r].status.node[m] \in Releasable
        /\ pass[r].status.phase \in Over => m \in pass[r].todo
    BY <1>2, <1>4 DEF Holds, GivesUp
  <2>2. ASSUME NEW phase \in Moves(pass[r].status.node[n]), Visiting(r, n, "step"),
               Stepped(r, n, phase),
               pass[r].status.node[n] = "Uncordoning" => Uncordons(n)
        PROVE  ~GivesUp(r, m)'
    <3>1. m = n => pass[r].status.node[n] # "Uncordoning"
      BY <2>2 DEF Uncordons
    <3>2. pass'[r].status.node[m] \in Releasable
      BY <1>1, <2>1, <2>2, <3>1 DEF Stepped, Moves, Releasable
    <3>3. pass[r].status.phase = "Executing"
      BY <2>2 DEF Visiting, Know, PassInv
    <3>4. pass'[r].status.phase \notin Over
      BY <2>2, <3>2, <3>3
         DEF Stepped, Unfinished, InPhase, NodeTerminal, Releasable, Over, Terminal, Unlisted
    <3> QED BY <3>2, <3>4 DEF GivesUp
  <2>3. ASSUME Visiting(r, n, "step"), pass'[r].status = pass[r].status
        PROVE  ~GivesUp(r, m)'
    BY <2>1, <2>3 DEF GivesUp, Visiting, Know, PassInv, Over, Terminal
  <2>4. ASSUME Visiting(r, n, "release"), Uncordons(n) \/ left' = left \cup {n},
               pass'[r].todo = pass[r].todo \ {n}, pass'[r].status = pass[r].status
        PROVE  ~GivesUp(r, m)'
    <3>1. m # n
      BY <2>4 DEF Uncordons
    <3> QED BY <2>1, <2>4, <3>1 DEF GivesUp
  <2>5. ~GivesUp(r, m)'
    <3>1. CASE Visiting(r, n, "step")
      BY <2>2, <2>3, <3>1 DEF NodeStep, Visiting
    <3>2. CASE ~Visiting(r, n, "step")
      BY <2>4, <3>2 DEF NodeStep
    <3> QED BY <3>1, <3>2
  <2> QED BY <1>2, <2>5 DEF Holds
<1> QED BY <1>3, <1>4

\* A node that a pass cordons is held by its request, or given up when the
\* request is gone.
LEMMA HoldsCordoned ==
  ASSUME TypeOK, NEW r \in Request, Know(r), NEW n \in Node, NodeStep(r, n), UNCHANGED requests,
         Visiting(r, n, "step"), pass[r].status.node[n] = "Cordoning", Cordons(r, n)
  PROVE  n \in left' \/ Holds(r, n)'
<1>1. pass[r].status \in StatusRecord
  BY DEF TypeOK, PassRecord
<1>2. n \in pass[r].todo /\ pass[r].pc = "step" /\ pass[r].status.phase = "Executing"
  BY DEF Visiting, Know, PassInv
<1>3. status[r].phase = "Deleted" \/ (Live(r) /\ status[r].node[n] \in Releasable)
  BY <1>2 DEF Know, CordonInv
<1>4. CASE status[r].phase = "Deleted"
  BY <1>4 DEF Cordons
<1>5. CASE status[r].phase # "Deleted"
  <2>1. Stepped(r, n, "Draining") \/ pass'[r].status = pass[r].status
    BY <1>2 DEF NodeStep, Moves, Visiting
  <2>2. pass'[r].status.node[n] \in Releasable
    BY <1>1, <2>1 DEF Stepped, Releasable, StatusRecord
  <2>3. pass'[r].status.phase \notin Over
    BY <1>1, <1>2, <2>1, <2>2
       DEF Stepped, Unfinished, InPhase, NodeTerminal, Releasable, Over, Terminal, Unlisted
  <2> QED BY <1>3, <1>5, <2>2, <2>3 DEF Holds, GivesUp, Live
<1> QED BY <1>4, <1>5

\* Every step, or none, keeps every cordon accounted for.
LEMMA AccountNext == TypeOK /\ KnowInv /\ AccountInv /\ [Next]_vars => AccountInv'
<1> SUFFICES ASSUME TypeOK, KnowInv, AccountInv, [Next]_vars PROVE AccountInv'
  OBVIOUS
<1> SUFFICES ASSUME NEW m \in Node, m \in cordoned', m \notin left'
             PROVE  \E r \in Request : Holds(r, m)'
  <2>1. TypeOK'
    BY TypeNext
  <2> QED BY <2>1 DEF AccountInv, TypeOK
<1>0. m \in cordoned /\ m \notin left => \E r \in Request : Holds(r, m)
  BY DEF AccountInv
<1>1. ASSUME NEW q \in Request, Begin(q) PROVE \E r \in Request : Holds(r, m)'
  <2>1. PICK r \in Request : Holds(r, m)
    BY <1>0, <1>1 DEF Begin
  <2> QED BY <1>1, <2>1, BeginShape, HoldsBegin, HoldsKept DEF Begin, KnowInv
<1>2. ASSUME NEW q \in Request, NEW n \in Node,
             \/ StartNode(q, n) \/ CordonNode(q, n) \/ DrainNode(q, n) \/ CheckNode(q, n)
             \/ UncordonNode(q, n) \/ NodeError(q, n) \/ ReleaseNode(q, n)
      PROVE  \E r \in Request : Holds(r, m)'
  <2>1. /\ pass' \in [Request -> PassRecord] /\ \A p \in Request \ {q} : Kept(p)
        /\ NodeStep(q, n) /\ UNCHANGED requests
    BY <1>2, NodeShape
  <2>2. CASE m \in cordoned /\ m \notin left
    <3>1. PICK r \in Request : Holds(r, m)
      BY <1>0, <2>2
    <3> QED BY <2>1, <3>1, HoldsNode, HoldsKept DEF KnowInv
  <2>3. CASE m \notin cordoned \/ m \in left
    <3>1. /\ m = n /\ Visiting(q, n, "step") /\ pass[q].status.node[n] = "Cordoning"
          /\ Cordons(q, n)
      BY <2>1, <2>3 DEF NodeStep, Cordons, Uncordons
    <3> QED BY <2>1, <3>1, HoldsCordoned DEF KnowInv
  <2> QED BY <2>2, <2>3
<1>3. ASSUME NEW q \in Request, Write(q) PROVE \E r \in Request : Holds(r, m)'
  <2>1. PICK r \in Request : Holds(r, m)
    BY <1>0, <1>3 DEF Write
  <2>2. CASE r # q
    BY <1>3, <2>1, <2>2, WriteShape, HoldsKept DEF Write, TypeOK
  <2>3. CASE r = q
    <3>1. pass[r].pc = "write" /\ pass[r].todo = {} /\ pass'[r] = Idle
      BY <1>3, <2>3, WriteShape DEF Write, KnowInv, Know, PassInv
    <3>2. status'[r] = status[r] \/ (status'[r] = pass[r].status /\ pass[r].fresh)
      BY <1>3, <2>3 DEF Write, TypeOK
    <3> QED BY <2>1, <3>1, <3>2 DEF Holds, GivesUp, Busy, Live, Idle
  <2> QED BY <2>2, <2>3
<1>4. CASE Crash
  <2>1. PICK r \in Request : Holds(r, m)
    BY <1>0, <1>4 DEF Crash
  <2> QED BY <1>4, <2>1 DEF Crash, Holds, GivesUp, Busy, Live, Idle
<1>5. ASSUME NEW q \in Request, Delete(q) PROVE \E r \in Request : Holds(r, m)'
  <2>1. PICK r \in Request : Holds(r, m)
    BY <1>0, <1>5 DEF Delete
  <2>2. r # q
    BY <1>5, <2>1 DEF Delete, Holds, InPhase
  <2> QED BY <1>5, <2>1, <2>2, HoldsKept DEF Delete, Kept, TypeOK
<1>6. ASSUME UNCHANGED <<status, pass, cordoned, left>> PROVE \E r \in Request : Holds(r, m)'
  BY <1>0, <1>6, HoldsKept DEF Kept
<1> QED
  BY <1>1, <1>2, <1>3, <1>4, <1>5, <1>6 DEF Next, Pass, Deliver, TimeOut, DeliverNode, vars

\* Every cordon is held by a live request that an abort would release it for, or
\* has been given up in one of the known ways, whatever requests share nodes,
\* however old the copies that passes work on, and wherever the manager dies.
THEOREM CordonsAreAccountedFor == Spec => []CordonsAccountedFor
<1>1. Init => AccountInv
  BY DEF Init, AccountInv
<1>2. TypeOK /\ AccountInv => CordonsAccountedFor
  BY DEF AccountInv, Holds, CordonsAccountedFor
<1> QED BY <1>1, <1>2, TypeInit, TypeNext, KnowInit, KnowNext, AccountNext, PTL DEF Spec

-----------------------------------------------------------------------------
(***************************************************************************)
(* Evictions from a node that no other request has in its plan. The node   *)
(* is cordoned when its phase says Draining, unless it has been returned   *)
(* to service; and that a request does only once all copies of its status, *)
(* old ones included, show the node past its drain, or once the request is *)
(* late and takes no more steps.                                           *)
(***************************************************************************)
\* Requests only touch nodes of their plans.
PlanInv(r) ==
  /\ \A n \in Node \ Plan[r] :
       Unlisted = status[r].node[n] /\ Unlisted = cache[r].node[n]
       /\ Unlisted = pass[r].status.node[n]
  /\ pass[r].pc = "release" => pass[r].todo \subseteq InPhase(pass[r].status, Releasable)

Drained == {"Uncordoning", "Completed", Unlisted}
Evicting == {"Draining", "PostCheck", "Blocked"}

\* The node is past its drain in every copy, or the request takes no more steps.
Past(r, n) ==
  \/ r \in late /\ pass[r].pc # "step"
  \/ /\ cache[r].node[n] \in Drained /\ status[r].node[n] \in Drained
     /\ Busy(r) => pass[r].status.node[n] \in Drained

\* No copy takes a node back once it is past its drain.
OrderInv(r) ==
  \A n \in Node :
    /\ cache[r].node[n] \in Drained => status[r].node[n] \in Drained
    /\ pass[r].pc = "step" /\ n \in pass[r].todo /\ pass[r].status.node[n] = "Uncordoning"
         => cache[r].node[n] \in Drained
    /\ Busy(r) /\ pass[r].fresh /\ status[r].phase # "Deleted" /\ cache[r].node[n] \in Drained
         => pass[r].status.node[n] \in Drained

EvictInv(r, n) ==
  /\ n \in nodeCache \ cordoned => Past(r, n)
  /\ \/ Past(r, n) \/ n \in cordoned
     \/ /\ status[r].node[n] \notin Evicting /\ cache[r].node[n] \notin Evicting
        /\ Busy(r) => pass[r].status.node[n] \notin Evicting

Alone(r, n) == n \in Plan[r] /\ \A q \in Request \ {r} : n \notin Plan[q]

CopyInv(r) == PlanInv(r) /\ OrderInv(r)

\* The copies of a request that a step does not touch stay in order.
LEMMA CopyKept ==
  ASSUME NEW q \in Request, CopyInv(q), Kept(q),
         status'[q] = status[q], cache'[q] = cache[q]
  PROVE  CopyInv(q)'
BY DEF CopyInv, PlanInv, OrderInv, Kept, Busy, InPhase

\* A node stays past its drain when its request is not touched.
LEMMA PastKept ==
  ASSUME NEW q \in Request, NEW n, Kept(q), status'[q] = status[q], cache'[q] = cache[q],
         q \in late => q \in late'
  PROVE  Past(q, n) => Past(q, n)'
BY DEF Past, Kept, Busy

\* A pass that begins has a copy in order, and takes no node back.
LEMMA CopyBegin ==
  ASSUME TypeOK, NEW r \in Request, CopyInv(r), Begin(r)
  PROVE  CopyInv(r)' /\ \A n \in Node : Past(r, n) => Past(r, n)'
<1>1. /\ UNCHANGED requests /\ pass[r].pc = "idle" /\ Started(r)
  BY BeginShape DEF Begin
<1>2. cache[r] \in StatusRecord
  BY DEF TypeOK
<1>3. \A n \in Node : /\ pass'[r].status.node[n] \in Drained <=> cache[r].node[n] \in Drained
                      /\ cache[r].node[n] = Unlisted => pass'[r].status.node[n] = Unlisted
  BY <1>1 DEF Started, Retried, Drained, Unlisted
<1>4. PlanInv(r)'
  BY <1>1, <1>3 DEF CopyInv, PlanInv, Started, InPhase
<1>5. OrderInv(r)'
  <2>1. pass'[r].pc = "step" => pass'[r].status = cache[r]
    BY <1>1 DEF Started
  <2> QED BY <1>1, <1>3, <2>1 DEF CopyInv, OrderInv, Drained
<1>6. ASSUME NEW n \in Node, Past(r, n) PROVE Past(r, n)'
  BY <1>1, <1>3, <1>6 DEF Past, Started, Busy
<1> QED BY <1>4, <1>5, <1>6 DEF CopyInv

\* So does a step of the loop.
LEMMA CopyNode ==
  ASSUME TypeOK, NEW r \in Request, CopyInv(r), NEW n \in Node, NodeStep(r, n), UNCHANGED requests,
         pass' \in [Request -> PassRecord]
  PROVE  CopyInv(r)' /\ \A m \in Node : Past(r, m) => Past(r, m)'
<1>1. pass[r].status \in StatusRecord /\ pass[r].todo \subseteq Node
  BY DEF TypeOK, PassRecord
<1>2. \A m \in Node : /\ pass[r].status.node[m] \in Drained => pass'[r].status.node[m] \in Drained
                      /\ pass[r].status.node[m] = Unlisted => pass'[r].status.node[m] = Unlisted
                      /\ m \in pass'[r].todo /\ pass'[r].pc = "step"
                           => /\ m \in pass[r].todo /\ pass[r].pc = "step"
                              /\ pass'[r].status.node[m] = pass[r].status.node[m]
  BY <1>1 DEF NodeStep, Stepped, Moves, Visiting, StatusRecord, Drained, Unlisted
<1>3. Busy(r) /\ pass'[r].fresh = pass[r].fresh
  BY DEF NodeStep, Stepped, Visiting, Busy
<1>4. PlanInv(r)'
  <2>1. pass'[r].pc = "release" =>
          /\ pass[r].pc = "release" /\ pass'[r].status = pass[r].status
          /\ pass'[r].todo \subseteq pass[r].todo
    BY DEF NodeStep, Stepped, Visiting
  <2> QED BY <1>2, <2>1 DEF CopyInv, PlanInv, InPhase
<1>5. OrderInv(r)'
  BY <1>2, <1>3 DEF CopyInv, OrderInv, Busy
<1>6. ASSUME NEW m \in Node, Past(r, m) PROVE Past(r, m)'
  <2>1. pass[r].pc # "step" => pass'[r].pc # "step"
    BY DEF NodeStep, Visiting, Stepped
  <2> QED BY <1>2, <1>3, <1>6, <2>1 DEF Past
<1> QED BY <1>4, <1>5, <1>6 DEF CopyInv

\* So does a write, for only a copy that is current is accepted.
LEMMA CopyWrite ==
  ASSUME TypeOK, NEW r \in Request, CopyInv(r), Write(r)
  PROVE  CopyInv(r)' /\ \A n \in Node : Past(r, n) => Past(r, n)'
<1>1. pass[r].pc = "write" /\ pass'[r] = Idle /\ UNCHANGED <<cache, late>>
  BY WriteShape DEF Write
<1>2. \/ status'[r] = status[r]
      \/ status'[r] = pass[r].status /\ pass[r].fresh /\ status[r].phase # "Deleted"
  BY DEF Write, TypeOK
<1>3. PlanInv(r)'
  BY <1>1, <1>2 DEF CopyInv, PlanInv, Idle, NoStatus
<1>4. OrderInv(r)'
  BY <1>1, <1>2 DEF CopyInv, OrderInv, Idle, Busy
<1>5. ASSUME NEW n \in Node, Past(r, n) PROVE Past(r, n)'
  BY <1>1, <1>2, <1>5 DEF Past, Idle, Busy
<1> QED BY <1>3, <1>4, <1>5 DEF CopyInv

\* So do a restart, a delivery and a deletion.
LEMMA CopyOther ==
  ASSUME TypeOK, NEW r \in Request, CopyInv(r), Know(r),
         Crash \/ Deliver(r) \/ Delete(r)
  PROVE  CopyInv(r)' /\ \A n \in Node : Past(r, n) => Past(r, n)'
<1>1. CASE Crash
  <2>1. pass'[r] = Idle /\ cache'[r] = status[r] /\ UNCHANGED <<status, late>>
    BY <1>1 DEF Crash
  <2> QED BY <2>1 DEF CopyInv, PlanInv, OrderInv, Past, Busy, Idle, NoStatus
<1>2. CASE Deliver(r)
  <2>1. r \notin synced /\ cache'[r] = status[r] /\ UNCHANGED <<status, late, pass>>
    BY <1>2 DEF Deliver, TypeOK
  <2> QED BY <2>1 DEF CopyInv, PlanInv, OrderInv, Past, Busy, Know, FreshInv, InPhase
<1>3. CASE Delete(r)
  <2>1. status'[r] = NoStatus /\ UNCHANGED <<cache, late, pass>>
    BY <1>3 DEF Delete, TypeOK
  <2> QED BY <2>1 DEF CopyInv, PlanInv, OrderInv, Past, Busy, NoStatus, Drained, InPhase
<1> QED BY <1>1, <1>2, <1>3

\* Whatever happens, copies stay in order, and what is past its drain stays so.
LEMMA CopyNext ==
  ASSUME TypeOK, KnowInv, [Next]_vars, NEW r \in Request, CopyInv(r)
  PROVE  CopyInv(r)' /\ \A n \in Node : Past(r, n) => Past(r, n)'
<1> USE DEF KnowInv
<1>1. ASSUME NEW q \in Request, Begin(q)
      PROVE  CopyInv(r)' /\ \A n \in Node : Past(r, n) => Past(r, n)'
  BY <1>1, BeginShape, CopyBegin, CopyKept, PastKept DEF Begin
<1>2. ASSUME NEW q \in Request, NEW n \in Node,
             \/ StartNode(q, n) \/ CordonNode(q, n) \/ DrainNode(q, n) \/ CheckNode(q, n)
             \/ UncordonNode(q, n) \/ NodeError(q, n) \/ ReleaseNode(q, n)
      PROVE  CopyInv(r)' /\ \A m \in Node : Past(r, m) => Past(r, m)'
  <2>1. /\ pass' \in [Request -> PassRecord] /\ \A p \in Request \ {q} : Kept(p)
        /\ NodeStep(q, n) /\ UNCHANGED requests
    BY <1>2, NodeShape
  <2> QED BY <2>1, CopyNode, CopyKept, PastKept
<1>3. ASSUME NEW q \in Request, Write(q)
      PROVE  CopyInv(r)' /\ \A n \in Node : Past(r, n) => Past(r, n)'
  BY <1>3, WriteShape, CopyWrite, CopyKept, PastKept DEF Write, TypeOK
<1>4. ASSUME NEW q \in Request, Deliver(q) \/ Delete(q)
      PROVE  CopyInv(r)' /\ \A n \in Node : Past(r, n) => Past(r, n)'
  BY <1>4, CopyOther, CopyKept, PastKept DEF Deliver, Delete, TypeOK, Kept
<1>5. ASSUME UNCHANGED <<status, cache, pass>>, late \subseteq late'
      PROVE  CopyInv(r)' /\ \A n \in Node : Past(r, n) => Past(r, n)'
  BY <1>5, CopyKept, PastKept DEF Kept
<1> QED
  BY <1>1, <1>2, <1>3, <1>4, <1>5, CopyOther DEF Next, Pass, TimeOut, DeliverNode, vars

\* A step of a pass over a node that is in no other plan: the node is only
\* returned to service when it is past its drain.
LEMMA UncordonsPast ==
  ASSUME TypeOK, NEW r \in Request, Know(r), CopyInv(r), NEW n \in Node, NodeStep(r, n),
         \/ pass[r].pc = "release"
         \/ pass[r].pc = "step" /\ pass[r].status.node[n] = "Uncordoning"
  PROVE  Past(r, n)
<1>1. CASE pass[r].pc = "release"
  BY <1>1 DEF Past, Know, PassInv, Busy
<1>2. CASE pass[r].pc = "step" /\ pass[r].status.node[n] = "Uncordoning"
  BY <1>2 DEF Past, CopyInv, OrderInv, NodeStep, Visiting, Drained
<1> QED BY <1>1, <1>2

\* The pass of one request leaves alone what is only in the plan of another.
LEMMA OthersNode ==
  ASSUME TypeOK, NEW r \in Request, NEW q \in Request \ {r}, NEW n \in Node, Alone(r, n),
         NEW m \in Node, NodeStep(q, m), CopyInv(q)
  PROVE  n \in cordoned' <=> n \in cordoned
<1>1. n = m => pass[q].status.node[m] = Unlisted
  BY DEF Alone, CopyInv, PlanInv
<1>2. CASE Visiting(q, m, "step")
  BY <1>1, <1>2 DEF NodeStep, Visiting, Moves, Cordons, Uncordons, Unlisted
<1>3. CASE Visiting(q, m, "release")
  <2>1. m # n
    BY <1>1, <1>3 DEF Visiting, CopyInv, PlanInv, InPhase, Releasable, Unlisted
  <2> QED BY <1>3, <2>1 DEF NodeStep, Visiting, Uncordons
<1> QED BY <1>2, <1>3 DEF NodeStep

\* A step that touches neither the request nor the node keeps it safe to evict.
LEMMA EvictKept ==
  ASSUME NEW r \in Request, NEW n, EvictInv(r, n), Past(r, n) => Past(r, n)',
         n \in cordoned' <=> n \in cordoned, n \in nodeCache' <=> n \in nodeCache,
         Kept(r), status'[r] = status[r], cache'[r] = cache[r]
  PROVE  EvictInv(r, n)'
BY DEF EvictInv, Kept, Busy

\* A step of the loop evicts from a node only once it has seen it cordoned.
LEMMA EvictNode ==
  ASSUME TypeOK, NEW r \in Request, Know(r), CopyInv(r), NEW m \in Node, NodeStep(r, m),
         UNCHANGED <<requests, nodeCache>>, pass' \in [Request -> PassRecord],
         NEW n \in Node, EvictInv(r, n), Past(r, n) => Past(r, n)'
  PROVE  EvictInv(r, n)'
<1>1. CASE Past(r, n)
  BY <1>1 DEF EvictInv
<1>2. CASE ~Past(r, n)
  <2>1. n \notin nodeCache \ cordoned
    BY <1>2 DEF EvictInv
  <2>2. n \in cordoned => n \in cordoned'
    BY <1>2, UncordonsPast DEF NodeStep, Visiting, Cordons, Uncordons
  <2>3. \/ n \in cordoned'
        \/ /\ status[r].node[n] \notin Evicting /\ cache[r].node[n] \notin Evicting
           /\ pass'[r].status.node[n] \notin Evicting
    <3>1. CASE n \in cordoned
      BY <2>2, <3>1
    <3>2. CASE n \notin cordoned
      <4>1. pass[r].status.node[n] \notin Evicting
            /\ status[r].node[n] \notin Evicting /\ cache[r].node[n] \notin Evicting
        BY <1>2, <3>2 DEF EvictInv, NodeStep, Visiting, Busy
      <4>2. pass[r].status \in StatusRecord
        BY DEF TypeOK, PassRecord
      <4>3. CASE n = m /\ Visiting(r, m, "step") /\ pass[r].status.node[m] = "Cordoning"
        BY <2>1, <3>2, <4>1, <4>3 DEF NodeStep, Cordons, Visiting
      <4>4. CASE ~(n = m /\ Visiting(r, m, "step") /\ pass[r].status.node[m] = "Cordoning")
        BY <4>1, <4>2, <4>4 DEF NodeStep, Stepped, Moves, Evicting, StatusRecord
      <4> QED BY <4>3, <4>4
    <3> QED BY <3>1, <3>2
  <2> QED BY <2>1, <2>2, <2>3 DEF EvictInv
<1> QED BY <1>1, <1>2

EvictedInv == \A r \in Request : CopyInv(r) /\ \A n \in Plan[r] : Alone(r, n) => EvictInv(r, n)

\* Every step, or none, keeps the nodes of only one request safe to evict.
LEMMA EvictedNext == TypeOK /\ KnowInv /\ EvictedInv /\ [Next]_vars => EvictedInv'
<1> SUFFICES ASSUME TypeOK, KnowInv, EvictedInv, [Next]_vars, NEW r \in Request
             PROVE  CopyInv(r)' /\ \A n \in Plan[r] : Alone(r, n) => EvictInv(r, n)'
  BY DEF EvictedInv, Alone
<1>0. CopyInv(r)' /\ (\A n \in Node : Past(r, n) => Past(r, n)') /\ \A q \in Request : CopyInv(q)
  BY CopyNext DEF EvictedInv
<1> SUFFICES ASSUME NEW n \in Node, Alone(r, n), EvictInv(r, n) PROVE EvictInv(r, n)'
  BY <1>0, PlanAssumption DEF EvictedInv
<1> USE DEF KnowInv
<1>1. ASSUME NEW q \in Request, Begin(q) PROVE EvictInv(r, n)'
  <2>1. CASE q = r
    <3>1. UNCHANGED <<requests, cluster>> /\ Started(r)
      BY <1>1, <2>1, BeginShape DEF Begin
    <3>2. cache[r].node[n] \notin Evicting => pass'[r].status.node[n] \notin Evicting
      BY <3>1 DEF Started, Retried, Evicting
    <3> QED BY <1>0, <3>1, <3>2 DEF EvictInv
  <2>2. CASE q # r
    BY <1>0, <1>1, <2>2, BeginShape, EvictKept DEF Begin
  <2> QED BY <2>1, <2>2
<1>2. ASSUME NEW q \in Request, NEW m \in Node,
             \/ StartNode(q, m) \/ CordonNode(q, m) \/ DrainNode(q, m) \/ CheckNode(q, m)
             \/ UncordonNode(q, m) \/ NodeError(q, m) \/ ReleaseNode(q, m)
      PROVE  EvictInv(r, n)'
  <2>1. /\ pass' \in [Request -> PassRecord] /\ \A p \in Request \ {q} : Kept(p)
        /\ NodeStep(q, m) /\ UNCHANGED <<requests, nodeCache>>
    BY <1>2, NodeShape
  <2>2. CASE q = r
    BY <1>0, <2>1, <2>2, EvictNode
  <2>3. CASE q # r
    BY <1>0, <2>1, <2>3, OthersNode, EvictKept
  <2> QED BY <2>2, <2>3
<1>3. ASSUME NEW q \in Request, Write(q) PROVE EvictInv(r, n)'
  <2>1. CASE q = r
    <3>1. pass[r].pc = "write" /\ pass'[r] = Idle /\ UNCHANGED <<cache, cordoned, nodeCache>>
      BY <1>3, <2>1, WriteShape DEF Write
    <3>2. status'[r] = status[r] \/ status'[r] = pass[r].status
      BY <1>3, <2>1 DEF Write, TypeOK
    <3> QED BY <1>0, <3>1, <3>2 DEF EvictInv, Busy, Idle
  <2>2. CASE q # r
    BY <1>0, <1>3, <2>2, WriteShape, EvictKept DEF Write, TypeOK
  <2> QED BY <2>1, <2>2
<1>4. CASE Crash
  BY <1>0, <1>4 DEF Crash, EvictInv, Busy, Idle
<1>5. ASSUME NEW q \in Request, Deliver(q) \/ Delete(q) PROVE EvictInv(r, n)'
  <2>1. /\ UNCHANGED <<pass, cordoned, nodeCache>>
        /\ cache'[r] \in {cache[r], status[r]} /\ status'[r] \in {status[r], NoStatus}
    BY <1>5 DEF Deliver, Delete, TypeOK
  <2> QED BY <1>0, <2>1 DEF EvictInv, Busy, NoStatus, Evicting, Unlisted
<1>6. ASSUME NEW m \in Node, DeliverNode(m) PROVE EvictInv(r, n)'
  <2>1. /\ UNCHANGED <<requests, pass, cordoned>>
        /\ n \in nodeCache' \ cordoned => n \in nodeCache
    BY <1>6 DEF DeliverNode
  <2> QED BY <1>0, <2>1 DEF EvictInv, Busy
<1>7. ASSUME UNCHANGED <<status, cache, pass, cordoned, nodeCache>> PROVE EvictInv(r, n)'
  BY <1>0, <1>7 DEF EvictInv, Busy
<1> QED
  BY <1>1, <1>2, <1>3, <1>4, <1>5, <1>6, <1>7 DEF Next, Pass, TimeOut, vars

\* No node is being evicted from.
LEMMA EvictedInit == Init => EvictedInv
<1> SUFFICES ASSUME Init, NEW r \in Request
             PROVE  CopyInv(r) /\ \A n \in Plan[r] : EvictInv(r, n)
  BY DEF EvictedInv
<1>1. /\ pass[r] = Idle /\ cache[r] = status[r] /\ cordoned = {} /\ nodeCache = {}
      /\ \A n \in Node : status[r].node[n] = IF n \in Plan[r] THEN "Pending" ELSE Unlisted
  BY DEF Init
<1>2. CopyInv(r)
  BY <1>1 DEF CopyInv, PlanInv, OrderInv, Idle, NoStatus, Busy
<1>3. ASSUME NEW n \in Plan[r] PROVE EvictInv(r, n)
  <2>1. n \in Node
    BY PlanAssumption
  <2> QED BY <1>1, <2>1 DEF EvictInv, Busy, Idle, Evicting, Unlisted
<1> QED BY <1>2, <1>3

\* A node that no other request plans for is evicted from only while it is
\* cordoned: old copies, retries, deletions and restarts included.
THEOREM OwnNodesEvictedCordoned == Spec => EvictsCordonedUnlessShared
<1>1. TypeOK /\ EvictedInv /\ [Next]_vars
        => [\A r \in Request : \A n \in Plan[r] :
              /\ pass[r].status.node[n] = "Draining"
              /\ pass[r].pc = "step" /\ n \in pass[r].todo /\ n \notin pass'[r].todo
              /\ \A q \in Request \ {r} : n \notin Plan[q]
              => n \in cordoned]_vars
  <2> SUFFICES ASSUME EvictedInv, NEW r \in Request, NEW n \in Plan[r],
                      pass[r].status.node[n] = "Draining", pass[r].pc = "step",
                      \A q \in Request \ {r} : n \notin Plan[q]
               PROVE  n \in cordoned
    OBVIOUS
  <2>1. EvictInv(r, n)
    BY DEF EvictedInv, Alone
  <2>2. ~Past(r, n)
    BY DEF Past, Busy, Drained, Unlisted
  <2> QED BY <2>1, <2>2 DEF EvictInv, Busy, Evicting
<1> QED
  BY <1>1, TypeInit, TypeNext, KnowInit, KnowNext, EvictedInit, EvictedNext, PTL
     DEF Spec, EvictsCordonedUnlessShared

-----------------------------------------------------------------------------
(***************************************************************************)
(* The cluster-wide cap. A pass that has read the latest copies and that   *)
(* no other has followed knows what it has in flight, and its slots leave  *)
(* room for what the others hold, which until another pass runs can only   *)
(* shrink: by the deletion of a request.                                   *)
(***************************************************************************)
\* What a pass may rely on as long as it is alone.
AloneInv(r) ==
  pass[r].alone =>
    /\ pass[r].pc = "step"
    /\ \A q \in Request \ {r} : pass[q].pc = "idle"
    /\ pass[r].inFlight = CountInFlight(pass[r].status)
    /\ pass[r].slots + Cardinality(HeldBesides(r)) <= DrainCap

\* What a pass may rely on stays so where its request is not touched, unless it
\* stops to be alone.
LEMMA AloneKept ==
  ASSUME NEW r \in Request, AloneInv(r),
         pass'[r].alone => /\ pass'[r] = pass[r]
                           /\ \A q \in Request \ {r} : pass'[q].pc = "idle"
                           /\ HeldBesides(r)' = HeldBesides(r)
  PROVE  AloneInv(r)'
BY DEF AloneInv, CountInFlight, InPhase

\* The pass that follows another leaves it alone no longer.
LEMMA AloneFollowed ==
  ASSUME TypeOK, NEW q \in Request, NEW p, Becomes(q, p), NEW r \in Request \ {q}, AloneInv(r)
  PROVE  ~pass'[r].alone
<1>1. pass'[r] = IF pass[q].pc = "idle" THEN [pass[r] EXCEPT !.alone = FALSE] ELSE pass[r]
  BY DEF Becomes
<1>2. pass[r] \in PassRecord
  BY DEF TypeOK
<1> QED BY <1>1, <1>2 DEF AloneInv, PassRecord

\* A pass that is not alone relies on nothing.
LEMMA NotAlone ==
  ASSUME NEW r \in Request, pass'[r].alone = FALSE
  PROVE  AloneInv(r)'
BY DEF AloneInv

\* What others hold is finite.
LEMMA HeldFinite ==
  ASSUME NEW r \in Request
  PROVE  IsFiniteSet(HeldBesides(r)) /\ Cardinality(HeldBesides(r)) \in Nat
<1>1. IsFiniteSet(Node) /\ IsFiniteSet(Request \ {r})
  BY SizeAssumption, FS_Interval, FS_Subset DEF Node
<1>2. IsFiniteSet((Request \ {r}) \X Node)
  BY <1>1, FS_Product
<1>3. HeldBesides(r) \subseteq (Request \ {r}) \X Node
  BY DEF HeldBesides
<1> QED BY <1>2, <1>3, FS_Subset, FS_CardinalityType

\* The up-to-date copies show what the others hold.
LEMMA HeldReckoned ==
  ASSUME KnowInv, NEW r \in Request, Request \ {r} \subseteq synced
  PROVE  InFlightExcept(r, cache) = Cardinality(HeldBesides(r))
<1>1. \A q \in Request \ {r} : cache[q] = status[q]
  BY DEF KnowInv, Know, StatusInv
<1>2. {qn \in (Request \ {r}) \X Node :
         CountsAgainst(cache[qn[1]]) /\ cache[qn[1]].node[qn[2]] \in InFlightPhases}
        = HeldBesides(r)
  BY <1>1 DEF HeldBesides, CountsAgainst, Live
<1> QED BY <1>2 DEF InFlightExcept

\* A pass begins with what it found in flight, and slots beside the others.
LEMMA AloneBegin ==
  ASSUME TypeOK, KnowInv, NEW r \in Request, Begin(r)
  PROVE  AloneInv(r)'
<1>1. UNCHANGED requests /\ cache[r] \in StatusRecord /\ pass \in [Request -> PassRecord]
  BY DEF Begin, TypeOK
<1>2. \A pc : Reading(r, pc).alone = FALSE
  BY DEF Reading, Idle
<1>3. CASE Fails(r)
  <2>1. pass'[r].alone = FALSE
    BY <1>2, <1>3 DEF Fails, Becomes, Reading, Idle
  <2> QED BY <2>1, NotAlone
<1>4. CASE Becomes(r, Writing(Reading(r, "write"), Retried(cache[r])))
  <2>1. pass'[r].alone = FALSE
    BY <1>4 DEF Becomes, Writing, Reading, Idle
  <2> QED BY <2>1, NotAlone
<1>5. ASSUME NEW others \in Nat, NEW listed \in BOOLEAN, Executes(r, others, listed),
             listed => others = InFlightExcept(r, cache)
      PROVE  AloneInv(r)'
  <2> DEFINE free == listed /\ Request \ {r} \subseteq synced /\ Running = {}
  <2>1. /\ pass'[r].alone = free /\ pass'[r].pc = "step" /\ pass'[r].status = cache[r]
        /\ pass'[r].inFlight = CountInFlight(cache[r]) /\ pass'[r].slots = SlotsBeside(others)
    BY <1>5, Zenon DEF Executes, Becomes, Reading, Idle
  <2> SUFFICES ASSUME free PROVE AloneInv(r)'
    BY <2>1 DEF AloneInv
  <2>2. \A q \in Request \ {r} : pass'[q].pc = "idle"
    BY <1>1, <1>5 DEF Executes, Becomes, Running, PassRecord
  <2>3. CountInFlight(pass'[r].status) = pass'[r].inFlight
    BY <2>1
  <2>4. HeldBesides(r)' = HeldBesides(r)
    BY <1>1 DEF HeldBesides, Live
  <2>5. others = Cardinality(HeldBesides(r))
    BY <1>5, HeldReckoned
  <2>6. SlotsBeside(others) + others <= DrainCap
    BY CapAssumption DEF SlotsBeside, Lesser
  <2> QED BY <2>1, <2>2, <2>3, <2>4, <2>5, <2>6 DEF AloneInv, CountInFlight, InPhase
<1>6. InFlightExcept(r, cache) \in Nat
  BY CountTypes
<1> QED BY <1>3, <1>4, <1>5, <1>6 DEF Begin

\* A node that changes its phase changes what is in flight accordingly.
LEMMA CountMoves ==
  ASSUME NEW s \in StatusRecord, NEW t \in StatusRecord, NEW n \in Node, NEW phase,
         t.node = [s.node EXCEPT ![n] = phase]
  PROVE  CountInFlight(t) = CountInFlight(s) + (IF phase \in InFlightPhases THEN 1 ELSE 0)
                              - (IF s.node[n] \in InFlightPhases THEN 1 ELSE 0)
<1> DEFINE S == InPhase(s, InFlightPhases)
           T == InPhase(t, InFlightPhases)
<1>1. T = IF phase \in InFlightPhases THEN S \cup {n} ELSE S \ {n}
  BY DEF InPhase, StatusRecord
<1>2. n \in S <=> s.node[n] \in InFlightPhases
  BY DEF InPhase
<1>3. IsFiniteSet(S) /\ Cardinality(S) \in Nat
  <2>1. IsFiniteSet(Node) /\ S \subseteq Node
    BY SizeAssumption, FS_Interval DEF Node, InPhase
  <2> QED BY <2>1, FS_Subset, FS_CardinalityType
<1> HIDE DEF S, T
<1>4. Cardinality(S \cup {n}) = IF n \in S THEN Cardinality(S) ELSE Cardinality(S) + 1
  BY <1>3, FS_AddElement
<1>5. Cardinality(S \ {n}) = IF n \in S THEN Cardinality(S) - 1 ELSE Cardinality(S)
  BY <1>3, FS_RemoveElement
<1>6. CountInFlight(s) = Cardinality(S) /\ CountInFlight(t) = Cardinality(T)
  BY DEF CountInFlight, S, T
<1> QED BY <1>1, <1>2, <1>3, <1>4, <1>5, <1>6

\* The loop keeps count.
LEMMA AloneEnters ==
  ASSUME TypeOK, NEW r \in Request, AloneInv(r), NEW n \in Node, NEW phase \in StepPhase,
         Visiting(r, n, "step"), Enters(r, n, phase)
  PROVE  /\ AloneInv(r)'
         /\ pass'[r].status.node = [pass[r].status.node EXCEPT ![n] = phase]
         /\ pass[r].alone => CountInFlight(pass'[r].status)
              = pass[r].inFlight + (IF phase \in InFlightPhases THEN 1 ELSE 0)
                  - (IF pass[r].status.node[n] \in InFlightPhases THEN 1 ELSE 0)
<1> DEFINE s == [pass[r].status EXCEPT !.node[n] = phase]
           k == pass[r].inFlight + (IF phase \in InFlightPhases THEN 1 ELSE 0)
                  - (IF pass[r].status.node[n] \in InFlightPhases THEN 1 ELSE 0)
           p == [pass[r] EXCEPT !.status = s, !.todo = @ \ {n}, !.inFlight = k]
           last == Writing(p, IF Unfinished(s) = {} THEN Completed(s) ELSE s)
<1>1. pass \in [Request -> PassRecord] /\ pass[r] \in PassRecord /\ pass[r].status \in StatusRecord
  BY DEF TypeOK, PassRecord
<1>2. s \in StatusRecord /\ s.node = [pass[r].status.node EXCEPT ![n] = phase]
  BY <1>1 DEF StatusRecord
<1>3. Stepped(r, n, phase) /\ pass' \in [Request -> PassRecord]
      /\ \A q \in Request \ {r} : Kept(q)
  BY EntersShape
<1>4. pass'[r].status \in StatusRecord
  BY <1>3 DEF PassRecord
<1>5. pass'[r].status.node = [pass[r].status.node EXCEPT ![n] = phase]
  BY <1>3 DEF Stepped
<1>6. CountInFlight(pass'[r].status)
        = CountInFlight(pass[r].status) + (IF phase \in InFlightPhases THEN 1 ELSE 0)
            - (IF pass[r].status.node[n] \in InFlightPhases THEN 1 ELSE 0)
  BY <1>1, <1>4, <1>5, CountMoves
<1>7. pass'[r] = IF pass[r].todo # {n} THEN p ELSE last
  BY DEF Enters, Becomes
<1>8. last.alone = FALSE
  BY <1>1 DEF Writing, PassRecord
<1>9. p.pc = pass[r].pc /\ p.alone = pass[r].alone /\ p.slots = pass[r].slots /\ p.inFlight = k
  BY <1>1 DEF PassRecord
<1>10. HeldBesides(r)' = HeldBesides(r)
  BY DEF Visiting, HeldBesides, Live
<1>11. AloneInv(r)'
  <2>1. CASE pass[r].todo # {n}
    <3>1. pass'[r].alone => pass[r].alone /\ pass'[r].inFlight = k /\ pass'[r].pc = pass[r].pc
                            /\ pass'[r].slots = pass[r].slots
      BY <1>7, <1>9, <2>1
    <3>2. pass[r].alone => k = CountInFlight(pass'[r].status)
      BY <1>6 DEF AloneInv
    <3>3. pass[r].alone => \A q \in Request \ {r} : pass'[q].pc = "idle"
      BY <1>3 DEF AloneInv, Kept
    <3> HIDE DEF k
    <3> QED BY <1>10, <3>1, <3>2, <3>3 DEF AloneInv, CountInFlight, InPhase
  <2>2. CASE pass[r].todo = {n}
    BY <1>7, <1>8, <2>2, NotAlone
  <2> QED BY <2>1, <2>2
<1> QED BY <1>5, <1>6, <1>11 DEF AloneInv

AlonesInv == \A r \in Request : AloneInv(r)

\* Every step, or none, keeps what passes that are alone rely on.
LEMMA AloneNext == TypeOK /\ KnowInv /\ AlonesInv /\ [Next]_vars => AlonesInv'
<1> SUFFICES ASSUME TypeOK, KnowInv, AlonesInv, [Next]_vars, NEW r \in Request
             PROVE  AloneInv(r)'
  BY DEF AlonesInv
<1>0. AloneInv(r) /\ pass[r] \in PassRecord
  BY DEF AlonesInv, TypeOK
<1>1. ASSUME NEW q \in Request \ {r}, NEW p, Becomes(q, p) PROVE AloneInv(r)'
  <2>1. ~pass'[r].alone
    BY <1>0, <1>1, AloneFollowed
  <2> QED BY <2>1 DEF AloneInv
<1>2. ASSUME NEW q \in Request, Begin(q) PROVE AloneInv(r)'
  <2>1. \E p : Becomes(q, p)
    BY <1>2, Zenon DEF Begin, Fails, Executes
  <2> QED BY <1>1, <1>2, <2>1, AloneBegin
<1>3. ASSUME NEW q \in Request, NEW n \in Node,
             \/ StartNode(q, n) \/ CordonNode(q, n) \/ DrainNode(q, n) \/ CheckNode(q, n)
             \/ UncordonNode(q, n)
      PROVE  AloneInv(r)'
  <2>1. Visiting(q, n, "step") /\ \E phase \in StepPhase : Enters(q, n, phase)
    BY <1>3 DEF StartNode, CordonNode, DrainNode, CheckNode, UncordonNode, StepFrom, StepPhase
  <2>2. \E p : Becomes(q, p)
    BY <2>1, Zenon DEF Enters
  <2> QED BY <1>0, <1>1, <2>1, <2>2, AloneEnters
<1>4. ASSUME NEW q \in Request, NEW n \in Node, NodeError(q, n) PROVE AloneInv(r)'
  <2>1. Becomes(q, Writing(pass[q], pass[q].status))
    BY <1>4 DEF NodeError
  <2>2. q = r => pass'[r].alone = FALSE
    BY <1>0, <2>1 DEF Becomes, Writing, PassRecord
  <2> QED BY <1>1, <2>1, <2>2, NotAlone
<1>5. ASSUME NEW q \in Request, NEW n \in Node, ReleaseNode(q, n) PROVE AloneInv(r)'
  <2>1. \E p : Becomes(q, p)
    BY <1>5, Zenon DEF ReleaseNode
  <2>2. q = r => pass'[r].alone = FALSE
    BY <1>0, <1>5 DEF ReleaseNode, Visiting, Becomes, AloneInv, PassRecord
  <2> QED BY <1>1, <2>1, <2>2, NotAlone
<1>6. ASSUME NEW q \in Request, Write(q) PROVE AloneInv(r)'
  <2>1. Becomes(q, Idle)
    BY <1>6 DEF Write
  <2>2. q = r => pass'[r].alone = FALSE
    BY <1>0, <2>1 DEF Becomes, Idle
  <2> QED BY <1>1, <2>1, <2>2, NotAlone
<1>7. CASE Crash
  BY <1>7, NotAlone DEF Crash, Idle
<1>8. ASSUME UNCHANGED <<status, pass>> PROVE AloneInv(r)'
  BY <1>0, <1>8, AloneKept DEF HeldBesides, Live, AloneInv
<1>9. ASSUME NEW q \in Request, Delete(q) PROVE AloneInv(r)'
  <2>1. pass' = pass
    BY <1>9 DEF Delete
  <2>2. HeldBesides(r)' \subseteq HeldBesides(r)
    BY <1>9 DEF Delete, HeldBesides, Live, TypeOK, NoStatus, InFlightPhases, Unlisted
  <2>3. IsFiniteSet(HeldBesides(r)) /\ Cardinality(HeldBesides(r)) \in Nat
    BY HeldFinite
  <2>4. Cardinality(HeldBesides(r)') <= Cardinality(HeldBesides(r))
        /\ Cardinality(HeldBesides(r)') \in Nat
    BY <2>2, <2>3, FS_Subset, FS_CardinalityType
  <2>5. pass[r].alone => pass[r].slots + Cardinality(HeldBesides(r)') <= DrainCap
    BY <1>0, <2>3, <2>4, CapAssumption DEF AloneInv, PassRecord
  <2> QED BY <1>0, <2>1, <2>5 DEF AloneInv, CountInFlight, InPhase
<1> QED
  BY <1>2, <1>3, <1>4, <1>5, <1>6, <1>7, <1>8, <1>9
     DEF Next, Pass, Deliver, TimeOut, DeliverNode, vars

\* No pass has begun.
LEMMA AloneInit == Init => AlonesInv
BY DEF Init, AlonesInv, AloneInv, Idle

\* Nodes are started within the cluster-wide cap by every pass that has read
\* the latest copies and has been followed by no other.
THEOREM CapHeldAlone == Spec => CapHeldWhenCurrent
<1>1. TypeOK /\ AlonesInv /\ [Next]_vars
        => [\A r \in Request, n \in Node :
              /\ pass[r].alone
              /\ pass[r].status.node[n] = "Pending" /\ pass'[r].status.node[n] = "Cordoning"
              => CountInFlight(pass'[r].status) + Cardinality(HeldBesides(r)) <= DrainCap]_vars
  <2> SUFFICES ASSUME TypeOK, AlonesInv, Next, NEW r \in Request, NEW n \in Node,
                      pass[r].alone, pass[r].status.node[n] = "Pending",
                      pass'[r].status.node[n] = "Cordoning"
               PROVE  CountInFlight(pass'[r].status) + Cardinality(HeldBesides(r)) <= DrainCap
    OBVIOUS
  <2>0. /\ pass[r] \in PassRecord /\ pass[r].status \in StatusRecord /\ pass[r].pc = "step"
        /\ AloneInv(r) /\ pass'[r] # pass[r] /\ pass'[r].status.node[n] # pass[r].status.node[n]
    BY DEF AlonesInv, AloneInv, TypeOK, PassRecord
  <2>1. ~Crash
    BY DEF Crash, Idle, NoStatus, Unlisted
  <2>2. ASSUME NEW q \in Request, Begin(q) \/ Write(q) PROVE FALSE
    BY <2>0, <2>2, BeginShape, WriteShape DEF Kept, Write
  <2>3. PICK q \in Request, m \in Node :
          \/ StartNode(q, m) \/ CordonNode(q, m) \/ DrainNode(q, m) \/ CheckNode(q, m)
          \/ UncordonNode(q, m) \/ NodeError(q, m) \/ ReleaseNode(q, m)
    BY <2>0, <2>1, <2>2, Zenon DEF Next, Pass, Deliver, TimeOut, Delete, DeliverNode
  <2>4. NodeStep(q, m) /\ q = r
    BY <2>0, <2>3, NodeShape DEF Kept
  <2>5. m = n /\ Stepped(r, n, "Cordoning")
    BY <2>0, <2>4 DEF NodeStep, Stepped, Moves, Visiting, StatusRecord
  <2>6. StartNode(r, n)
    BY <2>0, <2>3, <2>4, <2>5 DEF CordonNode, DrainNode, CheckNode, UncordonNode, NodeError,
                                  ReleaseNode, StepFrom, Visiting
  <2>7. Visiting(r, n, "step")
        /\ Enters(r, n, IF pass[r].inFlight < pass[r].slots THEN "Cordoning" ELSE "Pending")
    BY <2>6 DEF StartNode, StepFrom
  <2>8. pass[r].inFlight < pass[r].slots /\ Enters(r, n, "Cordoning")
    <3>1. CASE ~(pass[r].inFlight < pass[r].slots)
      <4>1. Enters(r, n, "Pending")
        BY <2>7, <3>1
      <4>2. pass'[r].status.node = [pass[r].status.node EXCEPT ![n] = "Pending"]
        BY <2>0, <2>7, <4>1, AloneEnters DEF StepPhase
      <4> QED BY <2>0, <4>2 DEF StatusRecord
    <3> QED BY <2>7, <3>1
  <2>9. CountInFlight(pass'[r].status) = pass[r].inFlight + 1
    <3>1. pass[r].inFlight \in Int
      BY <2>0 DEF PassRecord
    <3>2. "Cordoning" \in StepPhase /\ "Cordoning" \in InFlightPhases
          /\ "Pending" \notin InFlightPhases
      BY DEF StepPhase, InFlightPhases
    <3>3. CountInFlight(pass'[r].status)
            = pass[r].inFlight + (IF "Cordoning" \in InFlightPhases THEN 1 ELSE 0)
                - (IF pass[r].status.node[n] \in InFlightPhases THEN 1 ELSE 0)
      BY <2>0, <2>7, <2>8, <3>2, AloneEnters
    <3> QED BY <3>1, <3>2, <3>3
  <2>10. pass[r].slots + Cardinality(HeldBesides(r)) <= DrainCap
    BY <2>0 DEF AloneInv
  <2>11. pass[r].inFlight \in Int /\ pass[r].slots \in Int /\ DrainCap \in Int
         /\ Cardinality(HeldBesides(r)) \in Int
    BY <2>0, HeldFinite, CapAssumption DEF PassRecord
  <2> QED BY <2>8, <2>9, <2>10, <2>11
<1> QED
  BY <1>1, TypeInit, TypeNext, KnowInit, KnowNext, AloneInit, AloneNext, PTL
     DEF Spec, CapHeldWhenCurrent
=============================================================================
