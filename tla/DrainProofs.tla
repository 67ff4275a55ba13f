----------------------------- MODULE DrainProofs -----------------------------
(***************************************************************************)
(* Proofs about the drain of one node, for every set of pods, every budget *)
(* and all periods of time.                                                *)
(***************************************************************************)
EXTENDS Drain, TLAPS

USE DEF pods, user, PodState, Occupying

\* Clocks and counters can be reset.
LEMMA Zeros ==
  /\ 0 \in 0 .. MaxAge /\ 0 \in 0 .. DrainTimeout + 1
  /\ 0 \in 0 .. MaxFaults /\ 0 \in 0 .. MaxFlips
<1>1. /\ DefaultGrace \in Nat /\ StuckSlack \in Nat /\ DrainTimeout \in Nat
      /\ MaxFaults \in Nat /\ MaxFlips \in Nat
  BY TimeAssumption, LimitAssumption, Zenon
<1> QED BY <1>1 DEF MaxAge

-----------------------------------------------------------------------------
(***************************************************************************)
(* Types.                                                                  *)
(***************************************************************************)
\* A round is a round after every visit: the loop only takes pods from its
\* worklist and files some of them.
LEMMA VisitedType ==
  ASSUME round \in RoundRecord, NEW p \in Pod, NEW d \in SUBSET Pod, NEW f \in SUBSET Pod
  PROVE  /\ Visited(p) \in RoundRecord
         /\ [Visited(p) EXCEPT !.denied = @ \cup d] \in RoundRecord
         /\ [Visited(p) EXCEPT !.failed = @ \cup f] \in RoundRecord
BY DEF Visited, RoundRecord

\* Whatever the API server does with a pod leaves pods and budget well typed.
LEMMA RemovalType ==
  ASSUME TypeOK, NEW p \in Pod, Delete(p) \/ Evict(p) \/ (Keeps /\ UNCHANGED allowed)
  PROVE  /\ pod' \in [Pod -> PodState]
         /\ age' \in [Pod -> 0 .. MaxAge] /\ grace' \in [Pod -> {0, DefaultGrace}]
         /\ allowed' \in 0 .. MaxAllowed
<1> USE TimeAssumption, LimitAssumption DEF TypeOK
<1>1. ASSUME NEW to \in PodState, NEW period \in {0, DefaultGrace}, Leaves(p, to, period)
      PROVE  /\ pod' \in [Pod -> PodState]
             /\ age' \in [Pod -> 0 .. MaxAge] /\ grace' \in [Pod -> {0, DefaultGrace}]
  BY <1>1, Zeros DEF Leaves
<1>2. CASE Keeps /\ UNCHANGED allowed
  BY <1>2 DEF Keeps
<1>3. CASE Delete(p)
  BY <1>1, <1>3 DEF Delete, Keeps
<1>4. CASE Evict(p)
  <2>1. CASE pod[p] = "Running"
    BY <1>1, <1>4, <2>1 DEF Evict
  <2>2. CASE pod[p] # "Running"
    BY <1>4, <2>2 DEF Evict, Keeps
  <2> QED BY <2>1, <2>2
<1> QED BY <1>2, <1>3, <1>4

\* The statuses that the controller writes for the node.
LEMMA StatusTypes ==
  /\ \A phase \in {"Cordoning", "Draining", "PostCheck"} :
       [phase |-> phase, reason |-> ""] \in NodeStatus
  /\ \A why \in BlockReason : [phase |-> "Blocked", reason |-> why] \in NodeStatus
  /\ \A s \in NodeStatus, phase \in {"Cordoning", "Draining", "PostCheck"} :
       s.phase # "Blocked" => [s EXCEPT !.phase = phase] \in NodeStatus
BY DEF NodeStatus, BlockReason

\* Rounds are only run while the node is draining. The types depend on it: a
\* round that ended on a blocked node would leave PostCheck with a block reason.
RoundInv == round.active => node.phase = "Draining"

TypeInv == TypeOK /\ RoundInv

\* Every step, or none, leaves rounds to a node that is Draining.
LEMMA RoundNext == TypeInv /\ [Next]_vars => RoundInv'
<1> SUFFICES ASSUME TypeInv, [Next]_vars PROVE RoundInv'
  OBVIOUS
<1> USE DEF TypeInv, RoundInv
<1>1. round \in RoundRecord
  BY DEF TypeOK
<1>2. CASE BeginRound
  BY <1>2 DEF BeginRound
<1>3. CASE EndRound \/ Abandon
  BY <1>3 DEF EndRound, Abandon, NoRound
<1>4. ASSUME NEW p \in Pod, Remove(p) \/ Denied(p) \/ Failed(p) PROVE RoundInv'
  BY <1>1, <1>4 DEF Remove, Denied, Failed, Visited, RoundRecord
<1>5. CASE Cordon \/ Retry \/ Tick
  BY <1>5 DEF Cordon, Retry, Tick
<1>6. CASE Flip
  BY <1>1, <1>6 DEF Flip, RoundRecord
<1>7. ASSUME NEW p \in Pod, Bind(p) \/ Finish(p) \/ Terminate(p) \/ Deliver(p) PROVE RoundInv'
  BY <1>7 DEF Bind, Finish, Terminate, Deliver
<1>8. CASE UNCHANGED vars
  BY <1>8 DEF vars
<1> QED
  BY <1>2, <1>3, <1>4, <1>5, <1>6, <1>7, <1>8 DEF Next, Step, Environment

\* Every step, or none, leaves the state well typed.
LEMMA TypeNext == TypeInv /\ [Next]_vars => TypeOK'
<1> SUFFICES ASSUME TypeInv, [Next]_vars PROVE TypeOK'
  OBVIOUS
<1> USE TimeAssumption, LimitAssumption DEF TypeInv, TypeOK
<1>1. CASE Cordon
  <2>1. node' \in NodeStatus
    BY <1>1, StatusTypes DEF Cordon
  <2> QED BY <1>1, <2>1 DEF Cordon
<1>2. CASE BeginRound
  BY <1>2 DEF BeginRound, RoundRecord, NoRound, ForceAllowed, IsDrainBlocking
<1>3. ASSUME NEW p \in Pod, Remove(p) PROVE TypeOK'
  BY <1>3, VisitedType, RemovalType DEF Remove
<1>4. ASSUME NEW p \in Pod, Denied(p) PROVE TypeOK'
  BY <1>4, VisitedType DEF Denied
<1>5. ASSUME NEW p \in Pod, Failed(p) PROVE TypeOK'
  <2>1. Delete(p) \/ Evict(p) \/ (Keeps /\ UNCHANGED allowed)
    BY <1>5 DEF Failed
  <2>2. round' \in RoundRecord
    BY <1>5, VisitedType DEF Failed
  <2>3. faults' \in 0 .. MaxFaults
    BY <1>5 DEF Failed
  <2> QED BY <1>5, <2>1, <2>2, <2>3, RemovalType DEF Failed
<1>6. CASE EndRound
  <2>1. round' \in RoundRecord
    BY <1>6 DEF EndRound, RoundRecord, NoRound
  <2>2. BlockedFor(round) \in BlockReason
    BY DEF BlockedFor, Classify, BlockReason
  <2>3. node' \in NodeStatus
    <3>1. node.phase # "Blocked"
      BY <1>6 DEF EndRound, RoundInv
    <3> QED BY <1>6, <2>2, <3>1, StatusTypes DEF EndRound
  <2> QED BY <1>6, <2>1, <2>3 DEF EndRound
<1>7. CASE Abandon
  BY <1>7 DEF Abandon, RoundRecord, NoRound
<1>8. CASE Retry
  <2>1. node' \in NodeStatus
    BY <1>8, StatusTypes DEF Retry
  <2>2. elapsed' \in 0 .. DrainTimeout + 1
    BY <1>8, Zeros DEF Retry
  <2> QED BY <1>8, <2>1, <2>2 DEF Retry
<1>9. CASE Tick
  BY <1>9 DEF Tick, Saturating, MaxAge
<1>10. CASE Flip
  <2>1. round' \in RoundRecord
    BY <1>10, Zenon DEF Flip, RoundRecord
  <2>2. {force', permitted'} \subseteq BOOLEAN
    BY <1>10, Zenon DEF Flip
  <2> QED BY <1>10, <2>1, <2>2 DEF Flip
<1>11. ASSUME NEW p \in Pod, Bind(p) \/ Finish(p) \/ Terminate(p) \/ Deliver(p) PROVE TypeOK'
  BY <1>11 DEF Bind, Finish, Terminate, Deliver
<1>12. CASE UNCHANGED vars
  BY <1>12 DEF vars
<1> QED
  BY <1>1, <1>2, <1>3, <1>4, <1>5, <1>6, <1>7, <1>8, <1>9, <1>10, <1>11, <1>12
     DEF Next, Step, Environment

\* The initial states are well typed, and no round runs in them.
LEMMA TypeInit == Init => TypeInv
<1> SUFFICES ASSUME Init PROVE TypeInv
  OBVIOUS
<1>1. node \in NodeStatus
  BY StatusTypes DEF Init
<1>2. round \in RoundRecord /\ ~round.active
  BY DEF Init, RoundRecord, NoRound
<1>3. pod \in [Pod -> PodState] /\ cached \in [Pod -> PodState]
  BY DEF Init
<1>4. age \in [Pod -> 0 .. MaxAge] /\ grace \in [Pod -> {0, DefaultGrace}]
  BY Zeros DEF Init
<1>5. allowed \in 0 .. MaxAllowed /\ {force, permitted, cordoned} \subseteq BOOLEAN
  BY Zenon DEF Init
<1>6. elapsed \in 0 .. DrainTimeout + 1 /\ faults \in 0 .. MaxFaults /\ flips \in 0 .. MaxFlips
  BY Zeros DEF Init
<1> QED
  BY <1>1, <1>2, <1>3, <1>4, <1>5, <1>6 DEF TypeInv, TypeOK, RoundInv

\* Pods, statuses and rounds keep to what the code and the API server can hold,
\* and a round is only run while the node drains.
THEOREM DrainTypeCorrect == Spec => []TypeInv
BY TypeInit, TypeNext, RoundNext, PTL DEF Spec, TypeInv

\* The type invariant alone, which does not say when a round is run.
THEOREM DrainTypes == Spec => []TypeOK
BY DrainTypeCorrect, PTL DEF TypeInv

-----------------------------------------------------------------------------
(***************************************************************************)
(* What a round knows. The list comes from a cache that lags behind and is *)
(* acted upon while pods move, so what it says of a pod stays true only as *)
(* far as pods never go back: from None to Running, Terminating, Finished  *)
(* or Gone.                                                                *)
(***************************************************************************)
Ended == {"Finished", "Gone"}

\* The informer shows each pod in a state it is in or has been in.
CacheInv ==
  \A p \in Pod :
    /\ cached[p] # "None" => pod[p] # "None"
    /\ cached[p] = "Terminating" => pod[p] \notin {"None", "Running"}
    /\ cached[p] \in Ended => pod[p] \in Ended

\* A round under way: pods that it listed and found not to block it have ended;
\* those that block it existed, and are leaving unless the loop has still to
\* visit them or was refused; force means that both switches were on. Between
\* rounds no pod is visited.
KnowsInv ==
  IF round.active
  THEN /\ \A p \in Pod \ Exempted : p \in round.listed \ round.blocking => pod[p] \in Ended
       /\ \A p \in round.blocking :
            /\ pod[p] # "None"
            /\ p \notin round.todo \cup round.denied \cup round.failed => pod[p] # "Running"
       /\ round.todo \subseteq round.blocking
       /\ round.forced => round.granted
  ELSE round.todo = {}

DrainInv == TypeInv /\ CacheInv /\ KnowsInv

\* Pods never go back.
Forth(p) ==
  /\ pod[p] # "None" => pod'[p] # "None"
  /\ pod[p] \notin {"None", "Running"} => pod'[p] \notin {"None", "Running"}
  /\ pod[p] \in Ended => pod'[p] \in Ended

\* A removal that the server grants, or need not grant any more, leaves the pod
\* other than running; it never moves another pod.
LEMMA RemovalMoves ==
  ASSUME TypeOK, NEW p \in Pod, Delete(p) \/ Evict(p)
  PROVE  pod'[p] # "Running" /\ \A q \in Pod : Forth(q) /\ (q # p => pod'[q] = pod[q])
<1> USE DEF TypeOK, Forth, Ended
<1>1. CASE Delete(p)
  BY <1>1 DEF Delete, Leaves, Keeps
<1>2. CASE Evict(p)
  BY <1>2 DEF Evict, Leaves, Keeps
<1> QED BY <1>1, <1>2

\* Every step, or none, moves each pod forth or not at all.
LEMMA PodsGoForth == TypeOK /\ [Next]_vars => \A p \in Pod : Forth(p)
<1> SUFFICES ASSUME TypeOK, [Next]_vars, NEW q \in Pod PROVE Forth(q)
  OBVIOUS
<1>1. ASSUME NEW p \in Pod, Remove(p) \/ Failed(p) PROVE Forth(q)
  BY <1>1, RemovalMoves DEF Remove, Failed, Keeps, Forth
<1>2. ASSUME NEW p \in Pod, Bind(p) \/ Finish(p) \/ Terminate(p) PROVE Forth(q)
  BY <1>2 DEF Bind, Finish, Terminate, Forth, TypeOK, Ended
<1>3. ASSUME UNCHANGED pod PROVE Forth(q)
  BY <1>3 DEF Forth
<1> QED
  BY <1>1, <1>2, <1>3
     DEF Next, Step, Environment, Cordon, BeginRound, EndRound, Denied, Abandon, Retry, Tick, Flip,
         Deliver, vars

\* What the informer shows stays true of the past, as pods never go back.
LEMMA CacheNext == TypeOK /\ CacheInv /\ [Next]_vars => CacheInv'
<1> SUFFICES ASSUME TypeOK, CacheInv, [Next]_vars PROVE CacheInv'
  OBVIOUS
<1> USE DEF CacheInv, Ended
<1>1. ASSUME NEW p \in Pod, Deliver(p) PROVE CacheInv'
  BY <1>1 DEF Deliver, TypeOK
<1>2. ASSUME UNCHANGED cached PROVE CacheInv'
  BY <1>2, PodsGoForth DEF Forth
<1> QED
  BY <1>1, <1>2
     DEF Next, Step, Environment, Cordon, BeginRound, Remove, Denied, Failed, EndRound, Abandon,
         Retry, Tick, Flip, Bind, Finish, Terminate, vars

\* What a round knows stays true while other pods and switches move.
LEMMA KnowsNext == DrainInv /\ [Next]_vars => KnowsInv'
<1> SUFFICES ASSUME DrainInv, [Next]_vars PROVE KnowsInv'
  OBVIOUS
<1>0. TypeOK /\ round \in RoundRecord /\ \A p \in Pod : Forth(p)
  BY PodsGoForth DEF DrainInv, TypeInv, TypeOK
<1>1. CASE BeginRound
  BY <1>0, <1>1 DEF BeginRound, DrainInv, KnowsInv, CacheInv, NoRound, IsDrainBlocking,
                    ForceAllowed, TypeOK, Ended
<1>2. CASE EndRound \/ Abandon
  BY <1>2 DEF EndRound, Abandon, KnowsInv, NoRound
<1>3. ASSUME NEW p \in Pod, Remove(p) PROVE KnowsInv'
  BY <1>0, <1>3, RemovalMoves DEF Remove, Visited, DrainInv, KnowsInv, RoundRecord, Forth
<1>4. ASSUME NEW p \in Pod, Denied(p) PROVE KnowsInv'
  BY <1>0, <1>4 DEF Denied, Visited, DrainInv, KnowsInv, RoundRecord
<1>5. ASSUME NEW p \in Pod, Failed(p) PROVE KnowsInv'
  <2>1. \A q \in Pod : q # p => pod'[q] = pod[q]
    BY <1>0, <1>5, RemovalMoves DEF Failed, Keeps
  <2> QED BY <1>0, <1>5, <2>1 DEF Failed, Visited, DrainInv, KnowsInv, RoundRecord, Forth
<1>6. CASE Flip
  BY <1>0, <1>6 DEF Flip, DrainInv, KnowsInv, RoundRecord
<1>7. ASSUME NEW p \in Pod, Bind(p) \/ Finish(p) \/ Terminate(p) PROVE KnowsInv'
  BY <1>0, <1>7 DEF Bind, Finish, Terminate, DrainInv, KnowsInv, RoundRecord, TypeOK, Forth
<1>8. ASSUME UNCHANGED <<pod, round>> PROVE KnowsInv'
  BY <1>8 DEF DrainInv, KnowsInv
<1> QED
  BY <1>1, <1>2, <1>3, <1>4, <1>5, <1>6, <1>7, <1>8
     DEF Next, Step, Environment, Cordon, Retry, Tick, Deliver, vars

\* The invariant holds in every reachable state.
LEMMA DrainInvariant == Spec => []DrainInv
<1>1. Init => DrainInv
  <2> SUFFICES ASSUME Init PROVE DrainInv
    OBVIOUS
  <2>1. CacheInv
    BY DEF Init, CacheInv, Ended
  <2>2. KnowsInv
    BY DEF Init, KnowsInv, NoRound
  <2> QED BY <2>1, <2>2, TypeInit DEF DrainInv
<1>2. DrainInv /\ [Next]_vars => DrainInv'
  BY TypeNext, RoundNext, CacheNext, KnowsNext DEF DrainInv, TypeInv
<1> QED BY <1>1, <1>2, PTL DEF Spec

-----------------------------------------------------------------------------
(***************************************************************************)
(* What follows for the operator.                                          *)
(***************************************************************************)
\* A node is declared drained over a pod that occupies it only when the list of
\* the round did not show that pod, however stale the list was.
THEOREM DrainedOnlyOverUnseen == Spec => DrainedOverUnseenOnly
<1>1. DrainInv /\ [Next]_vars
        => [node.phase = "Draining" /\ node'.phase = "PostCheck"
              => \A p \in Pod \ Exempted : pod[p] \in Occupying => p \notin round.listed]_vars
  <2> SUFFICES ASSUME DrainInv, Next, node.phase = "Draining", node'.phase = "PostCheck",
                      NEW p \in Pod \ Exempted, pod[p] \in Occupying
               PROVE  p \notin round.listed
    OBVIOUS
  <2>1. EndRound
    BY DEF Next, Step, Environment, Cordon, BeginRound, Remove, Denied, Failed, Abandon, Retry,
           Tick, Flip, Bind, Finish, Terminate, Deliver
  <2>2. round.active /\ round.blocking = {}
    BY <2>1 DEF EndRound
  <2> QED BY <2>2 DEF DrainInv, KnowsInv, Ended
<1> QED BY <1>1, DrainInvariant, PTL DEF Spec, DrainedOverUnseenOnly

\* A node that blocks for anything but a refusal has no running pod left among
\* those that blocked it.
THEOREM BlockedOnLeavingPods == Spec => LeavingUnlessRefused
<1>1. DrainInv /\ [Next]_vars
        => [Blocks /\ node'.reason \notin {"PDB", "EvictionError"}
              => \A p \in round.blocking : pod[p] # "Running"]_vars
  <2> SUFFICES ASSUME DrainInv, Next, Blocks, node'.reason \notin {"PDB", "EvictionError"},
                      NEW p \in round.blocking
               PROVE  pod[p] # "Running"
    OBVIOUS
  <2>1. EndRound
    BY DEF Blocks, Next, Step, Environment, Cordon, BeginRound, Remove, Denied, Failed, Abandon,
           Retry, Tick, Flip, Bind, Finish, Terminate, Deliver
  <2>2. round.active /\ round.todo = {} /\ node'.reason = BlockedFor(round)
    BY <2>1 DEF EndRound, Blocks
  <2>3. round.denied = {} /\ round.failed = {}
    BY <2>2 DEF BlockedFor, Classify
  <2> QED BY <2>2, <2>3 DEF DrainInv, KnowsInv
<1> QED BY <1>1, DrainInvariant, PTL DEF Spec, LeavingUnlessRefused

\* Beyond the budget, pods are only removed in a round during which both force
\* switches were on at one time.
THEOREM BudgetKeptUnlessForced == Spec => OverBudgetOnlyWhenForced
<1>1. DrainInv /\ [Next]_vars
        => [\A p \in Protected :
              /\ pod[p] = "Running" /\ pod'[p] \in {"Terminating", "Gone"}
              /\ allowed = 0
              => round.granted]_vars
  <2> SUFFICES ASSUME DrainInv, Next, NEW p \in Protected, pod[p] = "Running",
                      pod'[p] \in {"Terminating", "Gone"}, allowed = 0
               PROVE  round.granted
    OBVIOUS
  <2>1. TypeOK /\ p \in Pod
    BY PodAssumption DEF DrainInv, TypeInv
  <2>2. PICK q \in Pod : Remove(q) \/ Failed(q)
    BY <2>1 DEF TypeOK, Next, Step, Environment, Cordon, BeginRound, EndRound, Denied, Abandon,
                Retry, Tick, Flip, Bind, Finish, Terminate, Deliver
  <2>3. q = p
    BY <2>1, <2>2, RemovalMoves DEF Remove, Failed, Keeps
  <2>4. ~Evict(p)
    BY DEF Evict
  <2>5. round.forced
    BY <2>2, <2>3, <2>4 DEF Remove, Failed, Keeps
  <2>6. round.active
    BY <2>2 DEF Remove, Failed, DrainInv, KnowsInv
  <2> QED BY <2>5, <2>6 DEF DrainInv, KnowsInv
<1> QED BY <1>1, DrainInvariant, PTL DEF Spec, OverBudgetOnlyWhenForced
=============================================================================
