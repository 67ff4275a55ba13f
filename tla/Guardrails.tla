----------------------------- MODULE Guardrails ------------------------------
(***************************************************************************)
(* internal/policy and internal/preflight: the limits in force for a       *)
(* request, and the checks it must pass before any node is touched.        *)
(***************************************************************************)
EXTENDS Integers, FiniteSetsExt, SequencesExt

CONSTANTS
  Node,           \* names, as numbers
  ControlPlane,   \* nodes that carry a control-plane label
  HasMachine,     \* nodes a Machine backs
  AtVersion,      \* nodes that run the version an upgrade asks for
  MaxResults      \* how many results a status may hold

\* A limit of 0 is not set; reserved are the nodes that carry a label or a taint
\* the policy reserves.
DefaultSpec == [protect |-> TRUE, maxConcurrentDrains |-> 1, maxUnavailableNodes |-> 0,
                maxUnavailablePercent |-> 33, minHeadroom |-> 0, allowReplacement |-> FALSE,
                windows |-> <<>>, reserved |-> {}]

WithDefaults(spec) ==
  [spec EXCEPT !.maxConcurrentDrains = IF @ < 1 THEN DefaultSpec.maxConcurrentDrains ELSE @]

\* The policy a request names must exist; the controller's default may not.
\* objects maps the policies of the cluster to their specifications.
ResolveFails(objects, policyRef) == policyRef # "" /\ policyRef \notin DOMAIN objects

Resolve(objects, policyRef, defaultName) ==
  LET name == IF policyRef # "" THEN policyRef ELSE defaultName
  IN  WithDefaults(IF name \in DOMAIN objects THEN objects[name] ELSE DefaultSpec)

\* Both gates have to be open: the policy's and the request's.
ControlPlaneBlocked(policy, allowed) == policy.protect \/ ~allowed

Concurrency(policy, requested) ==
  LET c == Max({requested, 1})
  IN  IF policy.maxConcurrentDrains > 0 THEN Min({c, policy.maxConcurrentDrains}) ELSE c

MaxUnavailable(policy, total) ==
  LET caps == {total}
              \cup {c \in {policy.maxUnavailableNodes} : c > 0}
              \cup {Max({1, (total * p) \div 100}) : p \in {policy.maxUnavailablePercent} \ {0}}
  IN  Max({1, Min(caps)})

UnavailabilityCapped(policy) ==
  policy.maxUnavailableNodes > 0 \/ policy.maxUnavailablePercent > 0

-----------------------------------------------------------------------------
(***************************************************************************)
(* Preflight. A result is its status; nodes is the resolved target, a      *)
(* sequence in which a node named twice is found twice.                    *)
(***************************************************************************)
Fails(n)  == [i \in 1 .. n |-> "Fail"]
Warns(n)  == [i \in 1 .. n |-> "Warn"]
If(condition, results) == IF condition THEN results ELSE <<>>

\* The checks of one node. risks counts what checkPods only warns of.
CheckNode(n, request, policy, cordoned, risks) ==
  If(n \in cordoned, Warns(1))
  \o If(n \in ControlPlane /\ ControlPlaneBlocked(policy, request.allowControlPlane), Fails(1))
  \o If(n \in policy.reserved, Fails(1))
  \o Warns(risks)

Count(nodes, S) == Cardinality({i \in DOMAIN nodes : nodes[i] \in S})

\* Mutant of Peak: nodes already cordoned are forgotten.
PeakOnly(request, policy, nodes, cordoned) ==
  LET willAdd == Count(nodes, Node \ cordoned)
  IN  IF request.uncordonAfter
      THEN Min({willAdd, Concurrency(policy, request.maxConcurrent)}) ELSE willAdd

\* How many of the target are unavailable at the worst moment: those cordoned
\* already, and those the request will cordon at once.
Peak(request, policy, nodes, cordoned) ==
  LET willAdd == Count(nodes, Node \ cordoned)
  IN  Count(nodes, cordoned) +
      (IF request.uncordonAfter
       THEN Min({willAdd, Concurrency(policy, request.maxConcurrent)}) ELSE willAdd)

CheckUnavailability(request, policy, nodes, cordoned) ==
  If(/\ UnavailabilityCapped(policy)
     /\ Peak(request, policy, nodes, cordoned) > MaxUnavailable(policy, Len(nodes)), Fails(1))

CheckReplacement(request, policy, nodes) ==
  IF ~request.replace THEN <<>>
  ELSE IF ~policy.allowReplacement THEN Fails(1)
  ELSE FlattenSeq([i \in DOMAIN nodes |->
         IF nodes[i] \in AtVersion THEN Warns(1) ELSE If(nodes[i] \notin HasMachine, Fails(1))])

\* headroom is what is left without the target's nodes, in percent.
Checks(request, policy, nodes, missing, cordoned, risks, headroom, open) ==
  Fails(missing)
  \o FlattenSeq([i \in DOMAIN nodes |-> CheckNode(nodes[i], request, policy, cordoned, risks)])
  \o If(policy.minHeadroom > 0 /\ headroom < policy.minHeadroom, Fails(1))
  \o CheckUnavailability(request, policy, nodes, cordoned)
  \o If(open # "open", Warns(1))
  \o CheckReplacement(request, policy, nodes)

\* Mutant of Truncate: the first results are kept.
TruncatePlain(results) == SubSeq(results, 1, Min({Len(results), MaxResults}))

\* All failures, then as many of the rest as there is room for.
Truncate(results) ==
  LET fails == Count(results, {"Fail"})
  IN  IF Len(results) <= MaxResults THEN results
      ELSE Fails(fails) \o Warns(Min({Len(results) - fails, Max({0, MaxResults - fails})}))

HasFail(results) == "Fail" \in ToSet(results)
=============================================================================
