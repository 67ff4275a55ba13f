------------------------------ MODULE Dashboard ------------------------------
(***************************************************************************)
(* The web dashboard's buttons (internal/ui). A click makes a handler read *)
(* the request from its replica's informer cache, change the copy and send *)
(* a merge patch of what changed. The patch carries no resourceVersion, so *)
(* the API server applies it to whatever the object is by then.            *)
(*                                                                         *)
(* Two handlers of one replica behave as two replicas whose caches happen  *)
(* to be equally old, so each replica runs one handler at a time here.     *)
(***************************************************************************)
EXTENDS Approval, SequencesExt

CONSTANTS
  Replica,    \* dashboards: one runs on every replica of the manager
  User,       \* who clicks
  Starts,     \* gate decisions recorded before the dashboard is used
  MaxClicks,  \* bound on the clicks
  MaxTime     \* bound on the clock

Action == {"approve", "reject", "pause", "resume", "cancel"}

Entry == [gate : Gate, decision : Decision \ {"None"}, by : User \cup {"kubectl"},
          time : 0 .. MaxTime]

\* Nobody has recorded a decision of the future.
ASSUME StartsAssumption ==
  Starts \subseteq Seq(Entry) /\ \A gates \in Starts : \A i \in DOMAIN gates : gates[i].time <= 1
ASSUME BoundsAssumption == MaxClicks \in Nat /\ MaxTime \in Nat \ {0}

VARIABLES
  spec,    \* pause, cancel and approval.gates, as the API server holds them
  cache,   \* each replica's informer copy
  patch,   \* each replica's patch under way: empty, or one patch
  now,     \* the clock, in seconds: what a serialised time resolves
  clicks   \* clicks so far

vars == <<spec, cache, patch, now, clicks>>

SpecRecord == [pause : BOOLEAN, cancel : BOOLEAN, gates : Seq(Entry)]

Click == [action : Action, gate : Gate, by : User]

PatchRecord == [click : Click, changed : SUBSET {"pause", "cancel", "gates"}, to : SpecRecord]

TypeOK ==
  /\ spec \in SpecRecord
  /\ cache \in [Replica -> SpecRecord]
  /\ patch \in [Replica -> Seq(PatchRecord)] /\ \A r \in Replica : Len(patch[r]) <= 1
  /\ now \in 1 .. MaxTime /\ clicks \in 0 .. MaxClicks

-----------------------------------------------------------------------------
\* The indices of the entries for a gate.
EntriesFor(gates, gate) == {i \in DOMAIN gates : gates[i].gate = gate}

\* Mutants of SetGate: always a new entry; the last entry of the gate replaced.
AppendGate(gates, entry) == Append(gates, entry)

SetLastGate(gates, entry) ==
  LET mine == EntriesFor(gates, entry.gate)
  IN  IF mine = {} THEN Append(gates, entry) ELSE [gates EXCEPT ![Max(mine)] = entry]

\* The first entry of the gate is replaced; a gate not yet decided is appended.
SetGate(gates, entry) ==
  LET mine == EntriesFor(gates, entry.gate)
  IN  IF mine = {} THEN Append(gates, entry) ELSE [gates EXCEPT ![Min(mine)] = entry]

DecisionOf(action) == IF action = "approve" THEN "Approved" ELSE "Rejected"

Decides(click) == click.action \in {"approve", "reject"}

ApplyAction(s, click) ==
  [pause  |-> click.action = "pause" \/ (s.pause /\ click.action # "resume"),
   cancel |-> s.cancel \/ click.action = "cancel",
   gates  |-> IF ~Decides(click) THEN s.gates
              ELSE SetGate(s.gates, [gate |-> click.gate, decision |-> DecisionOf(click.action),
                                     by |-> click.by, time |-> now])]

\* Mutant of Changed: the whole copy is sent, as Update would.
Everything(old, new) == DOMAIN old

\* MergeFrom: the fields to send. A list is sent whole.
Changed(old, new) == {f \in DOMAIN old : new[f] # old[f]}

\* A patch as the API server applies it.
Merge(s, p) == [f \in DOMAIN s |-> IF f \in p.changed THEN p.to[f] ELSE s[f]]

-----------------------------------------------------------------------------
Init ==
  /\ \E gates \in Starts : spec = [pause |-> FALSE, cancel |-> FALSE, gates |-> gates]
  /\ cache = [r \in Replica |-> spec]
  /\ patch = [r \in Replica |-> <<>>]
  /\ now = 1 /\ clicks = 0

\* handleAction, mutate: the copy is read and changed.
HandleAction(r, click) ==
  /\ patch[r] = <<>> /\ clicks < MaxClicks
  /\ LET changed == ApplyAction(cache[r], click)
     IN  patch' = [patch EXCEPT ![r] =
                     <<[click |-> click, changed |-> Changed(cache[r], changed), to |-> changed]>>]
  /\ clicks' = clicks + 1
  /\ UNCHANGED <<spec, cache, now>>

\* mutate: the patch reaches the API server.
Patch(r) ==
  /\ patch[r] # <<>>
  /\ spec' = Merge(spec, patch[r][1])
  /\ patch' = [patch EXCEPT ![r] = <<>>]
  /\ UNCHANGED <<cache, now, clicks>>

Deliver(r) ==
  /\ cache[r] # spec
  /\ cache' = [cache EXCEPT ![r] = spec]
  /\ UNCHANGED <<spec, patch, now, clicks>>

\* Somebody records a decision by hand: a list of one entry, without a time.
RecordByHand(entry) ==
  /\ clicks < MaxClicks /\ clicks' = clicks + 1
  /\ spec' = [spec EXCEPT !.gates = <<entry>>]
  /\ UNCHANGED <<cache, patch, now>>

Tick == now < MaxTime /\ now' = now + 1 /\ UNCHANGED <<spec, cache, patch, clicks>>

Next ==
  \/ \E r \in Replica :
       (\E click \in Click : HandleAction(r, click)) \/ Patch(r) \/ Deliver(r)
  \/ \E g \in Gate :
       RecordByHand([gate |-> g, decision |-> "Approved", by |-> "kubectl", time |-> 0])
  \/ Tick

Spec == Init /\ [][Next]_vars

-----------------------------------------------------------------------------
(***************************************************************************)
(* Properties.                                                             *)
(***************************************************************************)
\* A control once set is unset only by the button that unsets it: no handler's
\* older copy withdraws a cancel or a pause that another one has set (mutate
\* sends a merge patch, not an update).
ControlsKept ==
  [][/\ spec.cancel => spec'.cancel
     /\ spec.pause /\ ~spec'.pause =>
          \E r \in Replica : /\ patch[r] # <<>> /\ patch'[r] = <<>>
                             /\ patch[r][1].click.action = "resume"]_vars

\* The list is not made to name a gate twice (setGate upserts): however clicks,
\* stale copies and hand-made lists interleave, a gate is named at most as often
\* as it was at the start.
NoDuplicateGates ==
  \A g \in Gate : Cardinality(EntriesFor(spec.gates, g)) <= 1
                  \/ \E start \in Starts : Cardinality(EntriesFor(spec.gates, g)) =
                                            Cardinality(EntriesFor(start, g))

\* The decision a click records is the one the controller then reads
\* (DecisionFor over what setGate leaves), even from a list that names the gate
\* twice or has an entry of the same second, and over whatever was recorded in
\* between.
ClickDecides ==
  [][\A r \in Replica :
       LET p == patch[r][1] IN
       patch[r] # <<>> /\ patch'[r] = <<>> /\ Decides(p.click) /\ "gates" \in p.changed
         => DecisionFor(spec'.gates, p.click.gate) = DecisionOf(p.click.action)]_vars

\* setGate "upserts a gate decision in spec.approval.gates": the decision taken
\* on one gate does not take away the one recorded for the other. (Refuted: the
\* list is patched whole.)
OtherGateKept ==
  [][\A r \in Replica :
       patch[r] # <<>> /\ patch'[r] = <<>> =>
         \A g \in Gate \ {patch[r][1].click.gate} :
           DecisionFor(spec'.gates, g) = DecisionFor(spec.gates, g)]_vars
=============================================================================
