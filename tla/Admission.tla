------------------------------ MODULE Admission ------------------------------
(***************************************************************************)
(* The way of one request from its creation to its first pass of           *)
(* execution, with what Reconciler leaves open computed: the policy        *)
(* resolved, the target listed, the preflight checks, the batches and the  *)
(* maintenance windows, against a clock, a cluster and policies that go on *)
(* changing between two passes. The request is one of mode Execute under   *)
(* AutoApprove; Reconciler has the other modes, the gates and the edits.   *)
(* Beside it the policy controller reports which policies are valid.       *)
(***************************************************************************)
EXTENDS Guardrails, Planner, Window

CONSTANTS
  Requests, PolicySets,   \* the requests and the sets of policies to start from
  Clusters,               \* the nodes there are to start from, and those cordoned
  Starts, MaxTime,        \* when a request may appear; bound: when the clock stops
  MaxChanges,             \* bound: how often the cluster or a policy changes
  WindowEdits,            \* lists of windows that a policy may be given
  Headrooms,              \* the spare capacity left without the target, in percent
  Zone, Pool              \* the group of each node under ByZone and ByPool

RequestRecord ==
  [type : {"Node", "Selector"}, names : Seq(Nat), strategy : Strategy, batchSize : Int,
   maxConcurrent : Int, uncordonAfter : BOOLEAN, allowControlPlane : BOOLEAN,
   replace : BOOLEAN, own : Seq(WindowRecord), policyRef : STRING]

PolicyRecord ==
  [protect : BOOLEAN, maxConcurrentDrains : Int, maxUnavailableNodes : Int,
   maxUnavailablePercent : Int, minHeadroom : Int, allowReplacement : BOOLEAN,
   windows : Seq(WindowRecord), reserved : SUBSET Node]

ASSUME NodeAssumption ==
  /\ Node \subseteq Nat /\ IsFiniteSet(Node) /\ MaxResults \in Nat
  /\ ControlPlane \cup HasMachine \cup AtVersion \subseteq Node
  /\ Zone \in [Node -> Nat] /\ Pool \in [Node -> Nat]
  /\ \A c \in Clusters : c.existing \subseteq Node /\ c.cordoned \subseteq c.existing
ASSUME RequestAssumption == Requests \subseteq RequestRecord
ASSUME PolicyAssumption ==
  /\ \A o \in PolicySets : o \in [DOMAIN o -> PolicyRecord]
  /\ WindowEdits \subseteq Seq(WindowRecord)
ASSUME TimeAssumption ==
  MaxTime \in Nat /\ MaxChanges \in Nat /\ Starts \subseteq Year .. MaxTime

VARIABLES
  request, objects,   \* the request's spec, which does not change, and the policies
  report,             \* Validated of each policy, for its present generation
  phase, plan,        \* status.phase and the batches of status.plan
  existing, cordoned, \* the nodes there are, those that are unschedulable
  now,                \* the wall clock, in seconds
  changes             \* how often the cluster or a policy has changed

vars == <<request, objects, report, phase, plan, existing, cordoned, now, changes>>

TypeOK ==
  /\ request \in Requests /\ objects \in [DOMAIN objects -> PolicyRecord]
  /\ report \in [DOMAIN objects -> {"Unknown", "Valid", "Invalid"}]
  /\ phase \in {"Pending", "Validating", "Planned", "Executing", "Blocked", "Completed", "Failed"}
  /\ plan \in Seq(Seq(Node))
  /\ existing \subseteq Node /\ cordoned \subseteq existing
  /\ now \in Nat /\ changes \in 0 .. MaxChanges

Policy == Resolve(objects, request.policyRef, "default")

\* Mutant of Target: the names of the request, nodes or not.
NamesGiven == SortedNames(request.names)

\* resolveTarget: by name, in order and once for each time it is named; or
\* every node there is that the selector matches.
Target ==
  IF request.type = "Node"
  THEN SortedIn(request.names, existing)
  ELSE SortedNames(SetToSeq(existing \cap ToSet(request.names)))

Missing == IF request.type = "Node" THEN Len(request.names) - Len(Target) ELSE 0

TargetError == request.type = "Node" /\ request.names = <<>>

Batches ==
  BuildBatches(request.strategy, Target, request.batchSize,
               Concurrency(Policy, request.maxConcurrent), Zone, Pool)

Open == WindowsOpen(request.own, Policy.windows, now)

-----------------------------------------------------------------------------
Init ==
  /\ request \in Requests /\ objects \in PolicySets
  /\ report = [p \in DOMAIN objects |-> "Unknown"]
  /\ phase = "Pending" /\ plan = <<>>
  /\ \E c \in Clusters : existing = c.existing /\ cordoned = c.cordoned
  /\ now \in Starts /\ changes = 0

Pass == UNCHANGED <<request, objects, report, existing, cordoned, now, changes>>

\* fail, on what the pass could not make out.
Unresolved ==
  /\ \/ ResolveFails(objects, request.policyRef)
     \/ phase \in {"Pending", "Validating", "Planned"} /\ TargetError
  /\ phase \in {"Pending", "Validating", "Planned", "Blocked"}
  /\ phase' = "Failed"
  /\ UNCHANGED plan /\ Pass

Resolved == ~ResolveFails(objects, request.policyRef)

\* reconcileValidating.
Validate ==
  /\ phase \in {"Pending", "Validating"} /\ Resolved /\ ~TargetError
  /\ IF Target = <<>> /\ Missing = 0
     THEN phase' = "Completed" /\ UNCHANGED plan
     ELSE \E risks \in 0 .. 1, headroom \in Headrooms :
       LET results == Truncate(Checks(request, Policy, Target, Missing, cordoned,
                                      risks, headroom, Open))
       IN  IF HasFail(results)
           THEN phase' = "Blocked" /\ UNCHANGED plan
           ELSE phase' = "Planned" /\ plan' = Batches
  /\ Pass

\* reconcileBlocked, of a request that preflight blocked.
Revalidate ==
  /\ phase = "Blocked" /\ Resolved
  /\ phase' = "Validating"
  /\ UNCHANGED plan /\ Pass

\* reconcilePlanned: the target and the plan are made again, the checks are not.
Start ==
  /\ phase = "Planned" /\ Resolved /\ ~TargetError
  /\ plan' = Batches
  /\ phase' = CASE Target = <<>>   -> "Completed"
                [] Target # <<>> /\ Open = "error"  -> "Failed"
                [] Target # <<>> /\ Open = "closed" -> "Planned"
                [] Target # <<>> /\ Open = "open"   -> "Executing"
  /\ Pass

Controller == Unresolved \/ Validate \/ Revalidate \/ Start

\* Somebody else cordons a node, or returns it.
Toggle(n) ==
  /\ n \in existing /\ changes < MaxChanges
  /\ cordoned' = IF n \in cordoned THEN cordoned \ {n} ELSE cordoned \cup {n}
  /\ changes' = changes + 1
  /\ UNCHANGED <<request, objects, report, phase, plan, existing, now>>

\* A node joins the cluster (schedulable), or leaves it.
JoinOrLeave(n) ==
  /\ changes < MaxChanges
  /\ existing' = IF n \in existing THEN existing \ {n} ELSE existing \cup {n}
  /\ cordoned' = cordoned \ {n}
  /\ changes' = changes + 1
  /\ UNCHANGED <<request, objects, report, phase, plan, now>>

Tick ==
  /\ now < MaxTime /\ phase \notin {"Executing", "Completed", "Failed"}
  /\ now' = now + 1
  /\ UNCHANGED <<request, objects, report, phase, plan, existing, cordoned, changes>>

\* Somebody edits a policy. The condition it had is of an older generation.
EditPolicy(p) ==
  /\ changes < MaxChanges /\ phase \notin {"Executing", "Completed", "Failed"}
  /\ \E w \in WindowEdits \ {objects[p].windows} : objects' = [objects EXCEPT ![p].windows = w]
  /\ report' = [report EXCEPT ![p] = "Unknown"]
  /\ changes' = changes + 1
  /\ UNCHANGED <<request, phase, plan, existing, cordoned, now>>

\* Mutant of WindowsParse: the windows are asked as execution asks them.
WindowsAnswer(windows) == AnyOpen(windows, now) # "error"

WindowsParse(windows) == \A i \in DOMAIN windows : Valid(windows[i])

\* validatePolicySpec finds no problem.
PolicyValid(spec) ==
  /\ spec.maxUnavailablePercent \in 0 .. 100 /\ spec.minHeadroom \in 0 .. 100
  /\ WindowsParse(spec.windows)

\* The policy controller. Its write is refused if the policy was edited since it
\* was read, so what it reports is of the generation it names.
Report(p) ==
  /\ phase \notin {"Executing", "Completed", "Failed"}
  /\ report[p] = "Unknown"
  /\ report' = [report EXCEPT ![p] = IF PolicyValid(objects[p]) THEN "Valid" ELSE "Invalid"]
  /\ UNCHANGED <<request, objects, phase, plan, existing, cordoned, now, changes>>

Next ==
  \/ Controller \/ Tick
  \/ \E n \in Node : Toggle(n) \/ JoinOrLeave(n)
  \/ \E p \in DOMAIN objects : EditPolicy(p) \/ Report(p)

Spec == Init /\ [][Next]_vars

-----------------------------------------------------------------------------
(***************************************************************************)
(* Properties.                                                             *)
(***************************************************************************)
Windows == ToSet(request.own) \cup ToSet(Policy.windows)

\* t is one of the minutes at which w opens, and at now it has not closed.
OpenedAt(w, t) == t % MinuteLen = 0 /\ Matches(w.cron, t) /\ t <= now /\ now < t + w.duration

\* The look back over the minutes finds an opening exactly when there is one
\* that has not run out: none is missed at the edge of a long window, and none
\* outlives its duration (IsOpen's own description, window.go:146).
OpenWithinDuration ==
  \A w \in {v \in Windows : Valid(v)} :
    IsOpen(w, now) <=> \E t \in (now - w.duration) .. now : OpenedAt(w, t)

\* A window that is closed opens at the instant NextOpen gave and at no other,
\* however the two read the cron fields (IsOpen looks back, NextOpen ahead).
OpensWhenAnnounced ==
  [][\A w \in {v \in Windows : Valid(v)} :
       ~IsOpen(w, now) /\ IsOpen(w, now)' => now' = NextOpen(w, now)]_vars

\* Execution begins inside the request's own window and inside one of the
\* policy's, where they have any; an error in a window that is asked never
\* counts as open (WindowsOpen).
BeginsInsideWindows ==
  [][phase = "Planned" /\ phase' = "Executing" =>
       \A list \in {request.own, Policy.windows} :
         list # <<>> => \E w \in ToSet(list) :
           Valid(w) /\ \E t \in (now - w.duration) .. now : OpenedAt(w, t)]_vars

PolicyName == IF request.policyRef # "" THEN request.policyRef ELSE "default"

\* A request whose policy is reported valid, and whose own window is, never fails
\* for want of a window that parses, whatever the time at which it is asked and
\* at which the policy was. (The report looks at every window; what gates the
\* start stops at the first that is open.)
ReportedValidNeverErrs ==
  [][/\ phase = "Planned" /\ phase' = "Failed" /\ Resolved /\ ~TargetError
     /\ \A w \in ToSet(request.own) : Valid(w)
     => /\ PolicyName \in DOMAIN objects
        /\ report[PolicyName] # "Valid"]_vars

Vetted(n) ==
  /\ n \in ControlPlane => ~Policy.protect /\ request.allowControlPlane
  /\ n \notin Policy.reserved
  /\ request.replace => Policy.allowReplacement /\ (n \in HasMachine \/ n \in AtVersion)

\* Validation lets a request through only if each name it lists is a node and
\* each node may be touched; a failure is not lost when the results are cut to
\* what a status holds (truncate keeps the failures).
PlannedIsVetted ==
  [][phase # "Planned" /\ phase' = "Planned" =>
       Missing = 0 /\ \A n \in ToSet(Target) : Vetted(n)]_vars

\* What may be unavailable at once, "at least 1 so progress is always possible".
WithinLimit(count) ==
  \/ count <= 1
  \/ /\ Policy.maxUnavailableNodes > 0 => count <= Policy.maxUnavailableNodes
     /\ Policy.maxUnavailablePercent > 0 =>
          100 * count <= Policy.maxUnavailablePercent * Len(Target)

\* When a request is let through, no choice of nodes that it may hold cordoned
\* at one time, with those cordoned already, exceeds the policy's limits. Said
\* of targets that name no node twice: a repeated name counts as a node more in
\* the total that the percentage is taken of.
PlannedWithinLimit ==
  [][phase # "Planned" /\ phase' = "Planned" /\ IsInjective(Target) =>
       \A held \in SUBSET (ToSet(Target) \ cordoned) :
         \/ /\ request.uncordonAfter
            /\ Cardinality(held) > Concurrency(Policy, request.maxConcurrent)
         \/ held = {}
         \/ WithinLimit(Cardinality(held) + Count(Target, cordoned))]_vars

Ascending(names) == \A i, j \in DOMAIN names : i < j => names[i] <= names[j]

OneBatchEach(key, batches) ==
  \A b, c \in DOMAIN batches :
    \A m \in ToSet(batches[b]), n \in ToSet(batches[c]) : key[m] = key[n] <=> b = c

\* Where the batches have n.
Places(batches, n) ==
  UNION {{b} \X {i \in DOMAIN batches[b] : batches[b][i] = n} : b \in DOMAIN batches}

\* The batches of a plan share out the target: each node as often as it is
\* named, none empty, none larger than the batch size, neighbours in order, and
\* one group to a batch and one batch to a group where the strategy groups.
PlanSharesOutTarget ==
  [][plan' # plan =>
       /\ \A n \in Node : Cardinality(Places(plan', n)) = Count(Target, {n})
       /\ \A b \in DOMAIN plan' : plan'[b] # <<>> /\ Ascending(plan'[b])
       /\ request.strategy = "Serial" => \A b \in DOMAIN plan' : Len(plan'[b]) = 1
       /\ request.strategy \in {"Serial", "Batched"} =>
            \A b, c \in DOMAIN plan' : b < c =>
              /\ Len(plan'[b]) >= Len(plan'[c])
              /\ \A m \in ToSet(plan'[b]), n \in ToSet(plan'[c]) : m <= n
       /\ request.strategy = "Batched" /\ request.batchSize >= 1 =>
            \A b \in DOMAIN plan' : Len(plan'[b]) <= request.batchSize
       /\ request.strategy = "ByZone" => OneBatchEach(Zone, plan')
       /\ request.strategy = "ByPool" => OneBatchEach(Pool, plan')]_vars

(***************************************************************************)
(* What the repository says and the code does not keep to.                 *)
(***************************************************************************)
\* A control-plane node is drained only if the policy does not protect it and
\* the request asks for it (policy.go:121). The plan is made again, without the
\* checks, when the request starts, and takes in a node that has joined since.
ControlPlaneStaysOut ==
  phase = "Executing" =>
    \A b \in DOMAIN plan : \A n \in ToSet(plan[b]) \cap ControlPlane :
      ~ControlPlaneBlocked(Policy, request.allowControlPlane)
=============================================================================
