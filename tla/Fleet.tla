-------------------------------- MODULE Fleet --------------------------------
(***************************************************************************)
(* Several requests in execution at once, on nodes they may share. Each is *)
(* driven by passes of its own (Reconciler says what else a pass can do);  *)
(* what joins them is the manager's pool of workers, the cluster-wide      *)
(* budget of drains, which a pass reckons from its cache of the other      *)
(* requests, and the nodes, which Cordon and Uncordon first look up in a   *)
(* cache of their own. A request may also be deleted under way.            *)
(*                                                                         *)
(* Every request is in its only batch, hands its nodes back, and needs no  *)
(* approval. Nobody else cordons these nodes.                              *)
(***************************************************************************)
EXTENDS Integers, Phases

CONSTANTS
  Request,        \* the requests that reached Executing
  NumNodes,       \* nodes of the cluster
  Plan,           \* the nodes of each request
  MaxConcurrent,  \* what each request may have in flight
  DrainCap,       \* policy.maxConcurrentDrains, over all requests
  Workers,        \* MaxConcurrentReconciles
  MaxFaults,      \* bound on failed calls, lost writes and restarts
  MaxEnds         \* bound on requests deleted or out of time

Node == 1 .. NumNodes

ASSUME SizeAssumption == NumNodes \in Nat /\ IsFiniteSet(Request)
ASSUME PlanAssumption == Plan \in [Request -> SUBSET Node]
ASSUME CapAssumption == MaxConcurrent \in Nat /\ DrainCap \in Nat \ {0} /\ Workers \in Nat
ASSUME BoundAssumption == MaxFaults \in Nat /\ MaxEnds \in Nat

VARIABLES
  status,     \* each request's status, as the API server holds it
  cache,      \* the informer's copy of it
  synced,     \* requests whose copy is up to date
  late,       \* requests whose global timeout has elapsed
  pass,       \* the reconcile under way of each request
  cordoned,   \* nodes that are unschedulable
  nodeCache,  \* nodes that the informer shows as unschedulable
  left,       \* cordons given up, for the properties: see CordonsAccountedFor
  faults,     \* faults so far
  ends        \* deletions and timeouts so far

requests == <<status, cache, synced, late>>
cluster == <<cordoned, nodeCache, left>>
vars == <<requests, pass, cluster, faults, ends>>

RequestPhase == {"Executing", "Blocked", "Completed", "Failed", "Deleted"}
Over == Terminal \cup {"Deleted"}
StepPhase == {"Pending", "Cordoning", "Draining", "PostCheck", "Uncordoning", "Completed",
              "Blocked", Unlisted}

StatusRecord == [phase : RequestPhase, node : [Node -> StepPhase]]

\* alone is for the properties: the pass read up-to-date copies of all other
\* requests, and no pass but this one has run since.
PassRecord == [pc : {"idle", "step", "release", "write"}, status : StatusRecord, fresh : BOOLEAN,
               todo : SUBSET Node, slots : Int, inFlight : Int, alone : BOOLEAN]

TypeOK ==
  /\ status \in [Request -> StatusRecord] /\ cache \in [Request -> StatusRecord]
  /\ synced \subseteq Request /\ late \subseteq Request
  /\ pass \in [Request -> PassRecord]
  /\ cordoned \subseteq Node /\ nodeCache \subseteq Node /\ left \subseteq Node
  /\ faults \in 0 .. MaxFaults /\ ends \in 0 .. MaxEnds

-----------------------------------------------------------------------------
InPhase(s, phases) == {n \in Node : s.node[n] \in phases}

CountInFlight(s) == Cardinality(InPhase(s, InFlightPhases))

Unfinished(s) == {n \in Node : s.node[n] \notin NodeTerminal \cup {Unlisted}}

\* Mutants of CountsAgainst: a request that is over keeps what it holds; a
\* request counts only once its pods are being evicted.
CountsForEver(s) == s.phase # "Deleted"
CountsIfDraining(s) == InPhase(s, {"Draining"}) # {}

\* The requests that globalDrainsInFlightExcept does not skip.
CountsAgainst(s) == s.phase \notin Over

\* globalDrainsInFlightExcept over these copies of the requests.
InFlightExcept(r, copies) ==
  Cardinality({qn \in (Request \ {r}) \X Node :
                 CountsAgainst(copies[qn[1]]) /\ copies[qn[1]].node[qn[2]] \in InFlightPhases})

Lesser(a, b) == IF a < b THEN a ELSE b

\* The concurrency of a pass that finds so many drains of other requests.
SlotsBeside(others) == Lesser(MaxConcurrent, DrainCap - others)

-----------------------------------------------------------------------------
(***************************************************************************)
(* A pass: reads, steps over the nodes, writes.                            *)
(***************************************************************************)
NoStatus == [phase |-> "Deleted", node |-> [n \in Node |-> Unlisted]]

Idle == [pc |-> "idle", status |-> NoStatus, fresh |-> FALSE, todo |-> {}, slots |-> 0,
         inFlight |-> 0, alone |-> FALSE]

Running == {r \in Request : pass[r].pc # "idle"}

\* The other passes are not alone any more.
Becomes(r, p) ==
  pass' = [q \in Request |->
             IF q = r THEN p
             ELSE IF pass[r].pc = "idle" THEN [pass[q] EXCEPT !.alone = FALSE] ELSE pass[q]]

Reading(r, pc) ==
  [Idle EXCEPT !.pc = pc, !.status = cache[r], !.fresh = r \in synced]

Writing(p, s) == [p EXCEPT !.pc = "write", !.status = s, !.todo = {}, !.slots = 0,
                           !.alone = FALSE]

\* completeExecution. No node fails here.
Completed(s) ==
  [s EXCEPT !.phase = IF InPhase(s, {"Blocked"}) # {} THEN "Blocked" ELSE "Completed"]

\* fail, for the global timeout: the nodes to release, then the write.
Fails(r) ==
  LET held == InPhase(cache[r], Releasable)
      p    == Reading(r, IF held = {} THEN "write" ELSE "release")
  IN  Becomes(r, [p EXCEPT !.status.phase = "Failed", !.todo = held])

\* reconcileBlocked: every blocked node is drained anew, whatever the budget.
Retried(s) ==
  [phase |-> "Executing",
   node  |-> [n \in Node |-> IF s.node[n] = "Blocked" THEN "Draining" ELSE s.node[n]]]

\* reconcileExecuting, down to the loop. A list that fails counts for nothing.
Executes(r, others, listed) ==
  Becomes(r, [Reading(r, "step") EXCEPT !.todo = Unfinished(cache[r]),
                !.inFlight = CountInFlight(cache[r]), !.slots = SlotsBeside(others),
                !.alone = listed /\ Request \ {r} \subseteq synced /\ Running = {}])

\* A worker takes the request up. The cached copy is all that it knows of it.
Begin(r) ==
  /\ pass[r].pc = "idle" /\ Cardinality(Running) < Workers
  /\ \/ cache[r].phase \notin Over /\ r \in late /\ Fails(r) /\ UNCHANGED faults
     \/ /\ cache[r].phase = "Blocked" /\ r \notin late
        /\ Becomes(r, Writing(Reading(r, "write"), Retried(cache[r])))
        /\ UNCHANGED faults
     \/ /\ cache[r].phase = "Executing" /\ r \notin late
        /\ \/ Executes(r, InFlightExcept(r, cache), TRUE) /\ UNCHANGED faults
           \/ faults < MaxFaults /\ faults' = faults + 1 /\ Executes(r, 0, FALSE)
  /\ UNCHANGED <<requests, cluster, ends>>

\* The loop visits the nodes in the order of status.nodes.
Visiting(r, n, pc) ==
  /\ pass[r].pc = pc /\ n \in pass[r].todo /\ \A m \in pass[r].todo : n <= m
  /\ UNCHANGED <<requests, ends>>

\* Node n of the copy enters a phase and the loop goes on, or ends.
Enters(r, n, phase) ==
  LET s == [pass[r].status EXCEPT !.node[n] = phase]
      p == [pass[r] EXCEPT !.status = s, !.todo = @ \ {n},
              !.inFlight = @ + (IF phase \in InFlightPhases THEN 1 ELSE 0)
                             - (IF pass[r].status.node[n] \in InFlightPhases THEN 1 ELSE 0)]
  IN  Becomes(r, IF pass[r].todo # {n} THEN p
                 ELSE Writing(p, IF Unfinished(s) = {} THEN Completed(s) ELSE s))

StepFrom(r, n, phase) == Visiting(r, n, "step") /\ pass[r].status.node[n] = phase

\* Cordon does nothing when the informer shows the node as cordoned. The cordon
\* of a request that was deleted meanwhile is given up at once.
Cordons(r, n) ==
  /\ cordoned' = IF n \in nodeCache THEN cordoned ELSE cordoned \cup {n}
  /\ left' = IF status[r].phase = "Deleted" THEN left \cup {n} ELSE left

\* Mutant of StartNode: the node is cordoned before its phase is persisted.
StartCordoned(r, n) ==
  /\ StepFrom(r, n, "Pending")
  /\ \/ pass[r].inFlight < pass[r].slots /\ Cordons(r, n) /\ Enters(r, n, "Draining")
     \/ pass[r].inFlight >= pass[r].slots /\ UNCHANGED <<cordoned, left>> /\ Enters(r, n, "Pending")
  /\ UNCHANGED <<nodeCache, faults>>

StartNode(r, n) ==
  /\ StepFrom(r, n, "Pending")
  /\ Enters(r, n, IF pass[r].inFlight < pass[r].slots THEN "Cordoning" ELSE "Pending")
  /\ UNCHANGED <<cluster, faults>>

CordonNode(r, n) ==
  /\ StepFrom(r, n, "Cordoning")
  /\ Cordons(r, n)
  /\ Enters(r, n, "Draining")
  /\ UNCHANGED <<nodeCache, faults>>

\* Uncordon does nothing when the informer shows the node as schedulable. That
\* leaves a cordon which the informer has yet to show.
Uncordons(n) ==
  IF n \in nodeCache
  THEN cordoned' = cordoned \ {n} /\ left' = left \ {n}
  ELSE left' = left \cup {n} /\ UNCHANGED cordoned

\* Mutant of DrainNode: a node that blocks is returned to service.
DrainOrReturn(r, n) ==
  /\ StepFrom(r, n, "Draining")
  /\ \/ \E phase \in {"Draining", "PostCheck"} : Enters(r, n, phase) /\ UNCHANGED cluster
     \/ Enters(r, n, "Blocked") /\ Uncordons(n) /\ UNCHANGED nodeCache
  /\ UNCHANGED faults

\* EvictOnce: drained, out of time, or neither.
DrainNode(r, n) ==
  /\ StepFrom(r, n, "Draining")
  /\ \E phase \in {"Draining", "PostCheck", "Blocked"} : Enters(r, n, phase)
  /\ UNCHANGED <<cluster, faults>>

CheckNode(r, n) ==
  StepFrom(r, n, "PostCheck") /\ Enters(r, n, "Uncordoning") /\ UNCHANGED <<cluster, faults>>

UncordonNode(r, n) ==
  /\ StepFrom(r, n, "Uncordoning")
  /\ Uncordons(n)
  /\ Enters(r, n, "Completed")
  /\ UNCHANGED <<nodeCache, faults>>

\* A call on the node failed: what earlier nodes did is written.
NodeError(r, n) ==
  /\ \E p \in {"Cordoning", "Draining", "Uncordoning"} : StepFrom(r, n, p)
  /\ faults < MaxFaults /\ faults' = faults + 1
  /\ Becomes(r, Writing(pass[r], pass[r].status))
  /\ UNCHANGED cluster

\* releaseCordonedNodes, whose failures are logged.
ReleaseNode(r, n) ==
  /\ Visiting(r, n, "release")
  /\ \/ Uncordons(n) /\ UNCHANGED faults
     \/ /\ faults < MaxFaults /\ faults' = faults + 1
        /\ left' = left \cup {n} /\ UNCHANGED cordoned
  /\ Becomes(r, [pass[r] EXCEPT !.todo = @ \ {n},
                                !.pc = IF pass[r].todo = {n} THEN "write" ELSE @])
  /\ UNCHANGED nodeCache

\* updateStatus: refused when the copy was not the latest, or the request is
\* gone; or the write is lost on the way.
Write(r) ==
  /\ pass[r].pc = "write"
  /\ \/ /\ pass[r].fresh /\ status[r].phase # "Deleted"
        /\ status' = [status EXCEPT ![r] = pass[r].status]
        /\ synced' = IF status' = status THEN synced ELSE synced \ {r}
        /\ UNCHANGED faults
     \/ /\ ~pass[r].fresh \/ status[r].phase = "Deleted"
        /\ UNCHANGED <<status, synced, faults>>
     \/ /\ faults < MaxFaults /\ faults' = faults + 1
        /\ UNCHANGED <<status, synced>>
  /\ Becomes(r, Idle)
  /\ UNCHANGED <<cache, late, cluster, ends>>

\* The manager dies with all its passes; its successor lists everything anew.
Crash ==
  /\ faults < MaxFaults /\ faults' = faults + 1
  /\ pass' = [r \in Request |-> Idle]
  /\ cache' = status /\ synced' = Request /\ nodeCache' = cordoned
  /\ UNCHANGED <<status, late, cordoned, left, ends>>

Pass(r) ==
  \/ Write(r)
  \/ \E n \in Node : \/ StartNode(r, n) \/ CordonNode(r, n) \/ DrainNode(r, n) \/ CheckNode(r, n)
                     \/ UncordonNode(r, n) \/ NodeError(r, n) \/ ReleaseNode(r, n)

-----------------------------------------------------------------------------
(***************************************************************************)
(* The API server's watch, the users and the clock.                        *)
(***************************************************************************)
Deliver(r) ==
  /\ r \notin synced
  /\ cache' = [cache EXCEPT ![r] = status[r]] /\ synced' = synced \cup {r}
  /\ UNCHANGED <<status, late, pass, cluster, faults, ends>>

DeliverNode(n) ==
  /\ n \in (cordoned \ nodeCache) \cup (nodeCache \ cordoned)
  /\ nodeCache' = IF n \in cordoned THEN nodeCache \cup {n} ELSE nodeCache \ {n}
  /\ UNCHANGED <<requests, pass, cordoned, left, faults, ends>>

TimeOut(r) ==
  /\ r \notin late /\ status[r].phase \notin Over
  /\ ends < MaxEnds /\ ends' = ends + 1
  /\ late' = late \cup {r}
  /\ UNCHANGED <<status, cache, synced, pass, cluster, faults>>

\* The object goes at once, for it has no finalizer. Nothing releases its nodes.
Delete(r) ==
  /\ status[r].phase # "Deleted"
  /\ ends < MaxEnds /\ ends' = ends + 1
  /\ status' = [status EXCEPT ![r] = NoStatus]
  /\ synced' = synced \ {r}
  /\ left' = left \cup InPhase(status[r], Releasable)
  /\ UNCHANGED <<cache, late, pass, cordoned, nodeCache, faults>>

-----------------------------------------------------------------------------
Init ==
  /\ status = [r \in Request |->
       [phase |-> "Executing",
        node  |-> [n \in Node |-> IF n \in Plan[r] THEN "Pending" ELSE Unlisted]]]
  /\ cache = status /\ synced = Request /\ late = {}
  /\ pass = [r \in Request |-> Idle]
  /\ cordoned = {} /\ nodeCache = {} /\ left = {}
  /\ faults = 0 /\ ends = 0

Next ==
  \/ Crash
  \/ \E r \in Request : Begin(r) \/ Pass(r) \/ Deliver(r) \/ TimeOut(r) \/ Delete(r)
  \/ \E n \in Node : DeliverNode(n)

\* A pass goes on once begun; the work queue hands every request to a worker in
\* its turn, however often the workers are busy when one looks; the informer
\* catches up. Users, drains and the clock owe nothing.
Spec ==
  /\ Init /\ [][Next]_vars
  /\ \A r \in Request : WF_vars(Pass(r)) /\ SF_vars(Begin(r)) /\ WF_vars(Deliver(r))

-----------------------------------------------------------------------------
(***************************************************************************)
(* Properties.                                                             *)
(***************************************************************************)
Live(r) == status[r].phase \notin Over

\* The nodes that requests other than r have in flight, as the API server has it.
HeldBesides(r) ==
  {qn \in (Request \ {r}) \X Node : Live(qn[1]) /\ status[qn[1]].node[qn[2]] \in InFlightPhases}

\* A node is started only within the cluster-wide cap, provided that the pass
\* has read the latest copy of every other request and that no other pass has
\* run since. (Without that provision the cap is exceeded, with one worker too:
\* see the README. So it is by the retry of blocked nodes, which start nothing.)
CapHeldWhenCurrent ==
  [][\A r \in Request, n \in Node :
       /\ pass[r].alone
       /\ pass[r].status.node[n] = "Pending" /\ pass'[r].status.node[n] = "Cordoning"
       => CountInFlight(pass'[r].status) + Cardinality(HeldBesides(r)) <= DrainCap]_vars

\* A request is not kept waiting for ever while no other live request has a node
\* in flight: what requests that failed, were deleted or are done have left in
\* their status does not count against it.
Waiting(r) ==
  /\ status[r].phase = "Executing" /\ InPhase(status[r], {"Pending"}) # {}
  /\ InPhase(status[r], InFlightPhases) = {}
  /\ HeldBesides(r) = {}

NeverStarved == \A r \in Request : []<>~Waiting(r)

\* Every cordon is either held by a live request, whose status leads to it in a
\* phase that an abort releases, or has been given up in one of three known ways:
\* the release failed, the informer still showed the node as schedulable when it
\* was to be uncordoned, or the request was deleted.
CordonsAccountedFor ==
  \A n \in cordoned :
    n \in left \/ \E r \in Request : Live(r) /\ status[r].node[n] \in Releasable

\* A node that no other request has in its plan is evicted from only while it is
\* unschedulable: not even stale copies of the request or of the node, a retry or
\* a deletion under way lead to evictions that new pods could undo.
EvictsCordonedUnlessShared ==
  [][\A r \in Request : \A n \in Plan[r] :
       /\ pass[r].status.node[n] = "Draining"
       /\ pass[r].pc = "step" /\ n \in pass[r].todo /\ n \notin pass'[r].todo
       /\ \A q \in Request \ {r} : n \notin Plan[q]
       => n \in cordoned]_vars
=============================================================================
