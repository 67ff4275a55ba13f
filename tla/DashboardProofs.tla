--------------------------- MODULE DashboardProofs ---------------------------
(***************************************************************************)
(* The dashboard's clicks, for any number of replicas, users and clicks    *)
(* and any list of decisions to start from.                                *)
(***************************************************************************)
EXTENDS Dashboard, DataLemmas

-----------------------------------------------------------------------------
(***************************************************************************)
(* Lists of decisions.                                                     *)
(***************************************************************************)
\* The entry that SetGate replaces is the first of its gate.
LEMMA FirstEntry ==
  ASSUME NEW gates \in Seq(Entry), NEW g \in Gate, EntriesFor(gates, g) # {}
  PROVE  /\ Min(EntriesFor(gates, g)) \in EntriesFor(gates, g)
         /\ \A i \in EntriesFor(gates, g) : Min(EntriesFor(gates, g)) <= i
<1>1. EntriesFor(gates, g) \in SUBSET Nat
  BY DEF EntriesFor
<1> DEFINE S == EntriesFor(gates, g)
<1> HIDE DEF S
<1>2. \E m \in S : \A k \in S : m <= k
  BY <1>1, LeastNatural DEF S
<1>3. QED
  BY <1>2 DEF Min, S

\* SetGate leaves a list of entries, longer by at most one; what it sets, it sets in
\* the first place of the gate, or in a new last one.
LEMMA SetGateAppends ==
  ASSUME NEW gates \in Seq(Entry), NEW e \in Entry, EntriesFor(gates, e.gate) = {}
  PROVE  /\ SetGate(gates, e) \in Seq(Entry)
         /\ Len(SetGate(gates, e)) = Len(gates) + 1
         /\ SetGate(gates, e)[Len(gates) + 1] = e
         /\ \A i \in 1 .. Len(gates) : SetGate(gates, e)[i] = gates[i]
BY DEF SetGate

\* A gate that is decided already has its entry replaced.
LEMMA SetGateReplaces ==
  ASSUME NEW gates \in Seq(Entry), NEW e \in Entry, EntriesFor(gates, e.gate) # {}
  PROVE  /\ Min(EntriesFor(gates, e.gate)) \in 1 .. Len(gates)
         /\ gates[Min(EntriesFor(gates, e.gate))].gate = e.gate
         /\ SetGate(gates, e) \in Seq(Entry)
         /\ Len(SetGate(gates, e)) = Len(gates)
         /\ SetGate(gates, e)[Min(EntriesFor(gates, e.gate))] = e
         /\ \A i \in 1 .. Len(gates) :
              i # Min(EntriesFor(gates, e.gate)) => SetGate(gates, e)[i] = gates[i]
<1> DEFINE first == Min(EntriesFor(gates, e.gate))
<1>0. e.gate \in Gate
  BY DEF Entry
<1>1. first \in EntriesFor(gates, e.gate)
  BY <1>0, FirstEntry
<1>2. first \in 1 .. Len(gates) /\ gates[first].gate = e.gate
  BY <1>1 DEF EntriesFor
<1>3. SetGate(gates, e) = [gates EXCEPT ![first] = e]
  BY DEF SetGate
<1> HIDE DEF first
<1>4. QED
  BY <1>2, <1>3 DEF first

\* A list names each gate at most as often as SetGate found it named, or once.
LEMMA SetGateKeepsEntries ==
  ASSUME NEW gates \in Seq(Entry), NEW e \in Entry, NEW g \in Gate
  PROVE  \/ EntriesFor(SetGate(gates, e), g) = EntriesFor(gates, g)
         \/ \E i : EntriesFor(SetGate(gates, e), g) = {i}
<1> DEFINE set == SetGate(gates, e)
<1>1. CASE EntriesFor(gates, e.gate) = {}
  <2>1. /\ set \in Seq(Entry) /\ Len(set) = Len(gates) + 1
        /\ set[Len(gates) + 1].gate = e.gate
        /\ \A i \in 1 .. Len(gates) : set[i].gate = gates[i].gate
    BY <1>1, SetGateAppends
  <2> HIDE DEF set
  <2>2. CASE g = e.gate
    <3>1. EntriesFor(set, g) = {Len(gates) + 1}
      BY <1>1, <2>1, <2>2 DEF EntriesFor
    <3>2. QED
      BY <3>1 DEF set
  <2>3. CASE g # e.gate
    <3>1. EntriesFor(set, g) = EntriesFor(gates, g)
      BY <2>1, <2>3 DEF EntriesFor
    <3>2. QED
      BY <3>1 DEF set
  <2>4. QED
    BY <2>2, <2>3
<1>2. CASE EntriesFor(gates, e.gate) # {}
  <2> DEFINE first == Min(EntriesFor(gates, e.gate))
  <2>0. /\ set \in Seq(Entry) /\ Len(set) = Len(gates)
        /\ gates[first].gate = e.gate /\ set[first] = e
        /\ \A i \in 1 .. Len(gates) : i # first => set[i] = gates[i]
    BY <1>2, SetGateReplaces
  <2> HIDE DEF set, first
  <2>1. \A i \in 1 .. Len(gates) : set[i].gate = gates[i].gate
    BY <2>0
  <2>2. EntriesFor(set, g) = EntriesFor(gates, g)
    BY <2>0, <2>1 DEF EntriesFor
  <2>3. QED
    BY <2>2 DEF set
<1>3. QED
  BY <1>1, <1>2

-----------------------------------------------------------------------------
(***************************************************************************)
(* What DecisionFor reads.                                                 *)
(***************************************************************************)
\* f is what ScanFor scans the first n entries with.
Scans(gates, g, n, f) ==
  f = [i \in 0 .. n |->
         IF i = 0 THEN 0
         ELSE IF gates[i].gate # g THEN f[i - 1]
         ELSE IF f[i - 1] = 0 \/ Later(gates[i], gates[f[i - 1]]) THEN i ELSE f[i - 1]]

\* The scan of a list is defined, whatever its length.
LEMMA ScanDefined ==
  ASSUME NEW gates, NEW g
  PROVE  \A n \in Nat : \E f : Scans(gates, g, n, f)
<1> DEFINE S == {n \in Nat : \E f : Scans(gates, g, n, f)}
<1>1. 0 \in S
  <2>1. Scans(gates, g, 0, [i \in 0 .. 0 |-> 0])
    BY DEF Scans
  <2>2. QED
    BY <2>1
<1>2. ASSUME NEW n \in Nat, n \in S PROVE n + 1 \in S
  <2>1. PICK f : Scans(gates, g, n, f)
    BY <1>2
  <2> DEFINE last == IF gates[n + 1].gate # g THEN f[n]
                     ELSE IF f[n] = 0 \/ Later(gates[n + 1], gates[f[n]]) THEN n + 1 ELSE f[n]
             h == [i \in 0 .. n + 1 |-> IF i = n + 1 THEN last ELSE f[i]]
  <2>2. \A i \in 0 .. n : h[i] = f[i]
    OBVIOUS
  <2>3. h[n + 1] = last
    OBVIOUS
  <2> HIDE DEF last
  <2>4. ASSUME NEW i \in 0 .. n + 1
        PROVE  h[i] = IF i = 0 THEN 0
                      ELSE IF gates[i].gate # g THEN h[i - 1]
                      ELSE IF h[i - 1] = 0 \/ Later(gates[i], gates[h[i - 1]]) THEN i
                      ELSE h[i - 1]
    <3> HIDE DEF h
    <3>1. CASE i = n + 1
      BY <2>2, <2>3, <3>1 DEF last
    <3>2. CASE i # n + 1
      <4>1. i \in 0 .. n /\ (i # 0 => i - 1 \in 0 .. n)
        BY <3>2
      <4>2. QED
        BY <2>1, <2>2, <4>1 DEF Scans
    <3>3. QED
      BY <3>1, <3>2
  <2>5. Scans(gates, g, n + 1, h)
    BY <2>4 DEF Scans
  <2>6. QED
    BY <2>5
<1> HIDE DEF S
<1>3. Nat \subseteq S
  BY <1>1, <1>2, Induction
<1>4. QED
  BY <1>3 DEF S

\* ScanFor is the last value of such a scan.
LEMMA ScanForScans ==
  ASSUME NEW gates \in Seq(Entry), NEW g
  PROVE  \E f : Scans(gates, g, Len(gates), f) /\ ScanFor(gates, g) = f[Len(gates)]
<1>0. Len(gates) \in Nat
  OBVIOUS
<1>1. \E f : Scans(gates, g, Len(gates), f)
  BY <1>0, ScanDefined
<1>2. Scans(gates, g, Len(gates), CHOOSE f : Scans(gates, g, Len(gates), f))
  BY <1>1
<1>3. ScanFor(gates, g) = (CHOOSE f : Scans(gates, g, Len(gates), f))[Len(gates)]
  BY DEF ScanFor, Scans
<1>4. QED
  BY <1>2, <1>3

\* The first entry of a gate is the decision if no other is later.
LEMMA FirstDecides ==
  ASSUME NEW gates \in Seq(Entry), NEW g, NEW k \in 1 .. Len(gates),
         gates[k].gate = g, \A i \in 1 .. k - 1 : gates[i].gate # g,
         gates[k].time # 0, \A i \in 1 .. Len(gates) : gates[i].time <= gates[k].time
  PROVE  DecisionFor(gates, g) = gates[k].decision
<1>1. PICK f : Scans(gates, g, Len(gates), f) /\ ScanFor(gates, g) = f[Len(gates)]
  BY ScanForScans
<1>2. /\ f[0] = 0
      /\ \A i \in 1 .. Len(gates) :
           f[i] = IF gates[i].gate # g THEN f[i - 1]
                  ELSE IF f[i - 1] = 0 \/ Later(gates[i], gates[f[i - 1]]) THEN i ELSE f[i - 1]
  <2>1. Len(gates) \in Nat
    OBVIOUS
  <2>2. 0 \in 0 .. Len(gates)
    BY <2>1
  <2>3. f[0] = 0
    BY <1>1, <2>2 DEF Scans
  <2>4. ASSUME NEW i \in 1 .. Len(gates)
        PROVE  f[i] = IF gates[i].gate # g THEN f[i - 1]
                      ELSE IF f[i - 1] = 0 \/ Later(gates[i], gates[f[i - 1]]) THEN i ELSE f[i - 1]
    <3>1. i \in 0 .. Len(gates) /\ i # 0
      BY <2>1
    <3>2. Scans(gates, g, Len(gates), f)
      BY <1>1
    <3>3. QED
      BY <3>1, <3>2, Zenon DEF Scans
  <2>5. QED
    BY <2>3, <2>4
<1> DEFINE S == {i \in Nat : i <= Len(gates) => f[i] = IF i < k THEN 0 ELSE k}
<1>3. 0 \in S
  BY <1>2
<1>4. ASSUME NEW n \in Nat, n \in S PROVE n + 1 \in S
  <2> SUFFICES ASSUME n + 1 <= Len(gates) PROVE f[n + 1] = IF n + 1 < k THEN 0 ELSE k
    OBVIOUS
  <2>1. /\ f[n] = IF n < k THEN 0 ELSE k
        /\ f[n + 1] = IF gates[n + 1].gate # g THEN f[n]
                      ELSE IF f[n] = 0 \/ Later(gates[n + 1], gates[f[n]]) THEN n + 1 ELSE f[n]
    BY <1>2, <1>4
  <2>2. CASE n + 1 < k
    BY <2>1, <2>2
  <2>3. CASE n + 1 = k
    BY <2>1, <2>3
  <2>4. CASE n + 1 > k
    <3>0. gates[n + 1] \in Entry /\ gates[k] \in Entry /\ n + 1 \in 1 .. Len(gates)
      OBVIOUS
    <3>1. gates[n + 1].time \in Nat /\ gates[k].time \in Nat
      BY <3>0 DEF Entry
    <3>2. ~Later(gates[n + 1], gates[k])
      BY <3>0, <3>1 DEF Later
    <3>3. QED
      BY <2>1, <2>4, <3>2
  <2>5. QED
    BY <2>2, <2>3, <2>4
<1> HIDE DEF S
<1>5. Nat \subseteq S
  BY <1>3, <1>4, Induction
<1>6. f[Len(gates)] = k
  BY <1>5 DEF S
<1>7. QED
  BY <1>1, <1>6 DEF DecisionFor

\* A decision that is set is the one read, if it is dated and no other is later.
LEMMA SetGateDecides ==
  ASSUME NEW gates \in Seq(Entry), NEW e \in Entry, e.time # 0,
         \A i \in 1 .. Len(gates) : gates[i].time <= e.time
  PROVE  DecisionFor(SetGate(gates, e), e.gate) = e.decision
<1> DEFINE set == SetGate(gates, e)
<1>0. e.time \in Nat
  BY DEF Entry
<1>1. CASE EntriesFor(gates, e.gate) = {}
  <2>1. /\ set \in Seq(Entry) /\ Len(set) = Len(gates) + 1 /\ set[Len(gates) + 1] = e
        /\ \A i \in 1 .. Len(gates) : set[i] = gates[i] /\ gates[i].gate # e.gate
    BY <1>1, SetGateAppends DEF EntriesFor
  <2> HIDE DEF set
  <2>2. \A i \in 1 .. Len(set) : set[i].time <= e.time
    BY <1>0, <2>1
  <2>3. QED
    BY <2>1, <2>2, FirstDecides DEF set
<1>2. CASE EntriesFor(gates, e.gate) # {}
  <2> DEFINE first == Min(EntriesFor(gates, e.gate))
  <2>0. e.gate \in Gate
    BY DEF Entry
  <2>1. /\ set \in Seq(Entry) /\ Len(set) = Len(gates)
        /\ first \in 1 .. Len(gates) /\ set[first] = e
        /\ \A i \in 1 .. Len(gates) : i # first => set[i] = gates[i]
    BY <1>2, SetGateReplaces
  <2>2. \A i \in 1 .. Len(gates) : gates[i].gate = e.gate => first <= i
    BY <1>2, <2>0, FirstEntry DEF EntriesFor
  <2> HIDE DEF set, first
  <2>3. \A i \in 1 .. Len(set) : set[i].time <= e.time
    BY <1>0, <2>1
  <2>4. \A i \in 1 .. first - 1 : set[i].gate # e.gate
    BY <2>1, <2>2
  <2>5. QED
    BY <2>1, <2>3, <2>4, FirstDecides DEF set
<1>3. QED
  BY <1>1, <1>2

-----------------------------------------------------------------------------
(***************************************************************************)
(* The invariant.                                                          *)
(***************************************************************************)
\* No decision is later than t.
Dated(gates, t) == \A i \in DOMAIN gates : gates[i].time <= t

\* No gate is named more often than at the start.
Tame(gates) ==
  \A g \in Gate : Cardinality(EntriesFor(gates, g)) <= 1
                  \/ \E start \in Starts : Cardinality(EntriesFor(gates, g)) =
                                            Cardinality(EntriesFor(start, g))

\* What a patch under way says, whatever has become of the object since it was
\* made: it can only set a cancel, unset a pause only for "resume", and its list
\* decides what the click decided.
Honest(p, t) ==
  /\ Dated(p.to.gates, t) /\ Tame(p.to.gates)
  /\ "cancel" \in p.changed => p.to.cancel
  /\ "pause" \in p.changed /\ ~p.to.pause => p.click.action = "resume"
  /\ Decides(p.click) => DecisionFor(p.to.gates, p.click.gate) = DecisionOf(p.click.action)

\* The inductive invariant.
DashboardInv ==
  /\ TypeOK
  /\ Dated(spec.gates, now) /\ Tame(spec.gates)
  /\ \A r \in Replica : Dated(cache[r].gates, now) /\ Tame(cache[r].gates)
  /\ \A r \in Replica : patch[r] # <<>> => Honest(patch[r][1], now)

\* A list of at most one entry is tame, and so is what SetGate makes of a tame one.
LEMMA SetGateTame ==
  ASSUME NEW gates \in Seq(Entry), NEW e \in Entry, Tame(gates)
  PROVE  Tame(SetGate(gates, e))
<1> SUFFICES ASSUME NEW g \in Gate
             PROVE  \/ Cardinality(EntriesFor(SetGate(gates, e), g)) <= 1
                    \/ \E start \in Starts : Cardinality(EntriesFor(SetGate(gates, e), g)) =
                                              Cardinality(EntriesFor(start, g))
  BY DEF Tame
<1>1. CASE EntriesFor(SetGate(gates, e), g) = EntriesFor(gates, g)
  BY <1>1 DEF Tame
<1>2. CASE \E i : EntriesFor(SetGate(gates, e), g) = {i}
  <2>1. Cardinality(EntriesFor(SetGate(gates, e), g)) = 1
    BY <1>2, FS_Singleton
  <2>2. QED
    BY <2>1
<1>3. QED
  BY <1>1, <1>2, SetGateKeepsEntries

\* SetGate dates nothing later than now.
LEMMA SetGateDated ==
  ASSUME NEW gates \in Seq(Entry), NEW e \in Entry, Dated(gates, now), e.time = now, now \in Nat
  PROVE  Dated(SetGate(gates, e), now)
<1> DEFINE set == SetGate(gates, e)
<1>1. CASE EntriesFor(gates, e.gate) = {}
  <2>1. /\ set \in Seq(Entry) /\ Len(set) = Len(gates) + 1 /\ set[Len(gates) + 1] = e
        /\ \A i \in 1 .. Len(gates) : set[i] = gates[i]
    BY <1>1, SetGateAppends
  <2> HIDE DEF set
  <2>2. Dated(set, now)
    BY <2>1 DEF Dated
  <2>3. QED
    BY <2>2 DEF set
<1>2. CASE EntriesFor(gates, e.gate) # {}
  <2> DEFINE first == Min(EntriesFor(gates, e.gate))
  <2>1. /\ set \in Seq(Entry) /\ Len(set) = Len(gates)
        /\ first \in 1 .. Len(gates) /\ set[first] = e
        /\ \A i \in 1 .. Len(gates) : i # first => set[i] = gates[i]
    BY <1>2, SetGateReplaces
  <2> HIDE DEF set, first
  <2>2. Dated(set, now)
    BY <2>1 DEF Dated
  <2>3. QED
    BY <2>2 DEF set
<1>3. QED
  BY <1>1, <1>2

\* The invariant holds initially.
LEMMA DashboardInit == Init => DashboardInv
<1> SUFFICES ASSUME Init PROVE DashboardInv
  OBVIOUS
<1>1. PICK gates \in Starts : spec = [pause |-> FALSE, cancel |-> FALSE, gates |-> gates]
  BY DEF Init
<1>2. gates \in Seq(Entry) /\ \A i \in DOMAIN gates : gates[i].time <= 1
  BY StartsAssumption
<1>3. spec \in SpecRecord /\ spec.gates = gates
  BY <1>1, <1>2 DEF SpecRecord
<1>4. TypeOK
  <2>1. <<>> \in Seq(PatchRecord) /\ Len(<<>>) = 0
    OBVIOUS
  <2>2. patch \in [Replica -> Seq(PatchRecord)] /\ \A r \in Replica : Len(patch[r]) <= 1
    BY <2>1 DEF Init
  <2>3. cache \in [Replica -> SpecRecord]
    BY <1>3 DEF Init
  <2>4. now \in 1 .. MaxTime /\ clicks \in 0 .. MaxClicks
    BY BoundsAssumption DEF Init
  <2>5. QED
    BY <1>3, <2>2, <2>3, <2>4 DEF TypeOK
<1>5. Dated(gates, now) /\ Tame(gates)
  BY <1>2 DEF Dated, Tame, Init
<1>6. QED
  BY <1>3, <1>4, <1>5 DEF DashboardInv, Init

\* A click makes an honest patch of whatever copy it reads.
LEMMA ClickHonest ==
  ASSUME DashboardInv, NEW r \in Replica, NEW click \in Click,
         NEW p, p = [click |-> click, changed |-> Changed(cache[r], ApplyAction(cache[r], click)),
                     to |-> ApplyAction(cache[r], click)]
  PROVE  p \in PatchRecord /\ Honest(p, now)
<1> DEFINE s == cache[r]
           t == ApplyAction(s, click)
           e == [gate |-> click.gate, decision |-> DecisionOf(click.action), by |-> click.by,
                 time |-> now]
<1>1. s \in SpecRecord /\ s.gates \in Seq(Entry) /\ Dated(s.gates, now) /\ Tame(s.gates)
  BY DEF DashboardInv, TypeOK, SpecRecord
<1>2. now \in Nat /\ now >= 1 /\ now <= MaxTime
  BY BoundsAssumption DEF DashboardInv, TypeOK
<1>3. e \in Entry /\ e.time = now /\ e.gate = click.gate /\ e.decision = DecisionOf(click.action)
  BY <1>2, BoundsAssumption DEF Entry, Click, DecisionOf, Decision
<1>4. t.gates = IF Decides(click) THEN SetGate(s.gates, e) ELSE s.gates
  BY DEF ApplyAction
<1>5. SetGate(s.gates, e) \in Seq(Entry)
  BY <1>1, <1>3, SetGateAppends, SetGateReplaces
<1>6. t.gates \in Seq(Entry) /\ Tame(t.gates)
  BY <1>1, <1>3, <1>4, <1>5, SetGateTame
<1>7. Dated(SetGate(s.gates, e), now)
  BY <1>1, <1>2, <1>3, SetGateDated
<1>8. Decides(click) => DecisionFor(t.gates, click.gate) = DecisionOf(click.action)
  <2>1. \A i \in 1 .. Len(s.gates) : s.gates[i].time <= e.time
    BY <1>1, <1>3 DEF Dated
  <2>2. e.time # 0
    BY <1>2, <1>3
  <2> HIDE DEF e
  <2>3. DecisionFor(SetGate(s.gates, e), e.gate) = e.decision
    BY <1>1, <1>3, <2>1, <2>2, SetGateDecides
  <2>4. QED
    BY <1>3, <1>4, <2>3
<1>9. /\ t.pause = (click.action = "pause" \/ (s.pause /\ click.action # "resume"))
      /\ t.cancel = (s.cancel \/ click.action = "cancel")
  BY DEF ApplyAction
<1>10. t = [pause |-> t.pause, cancel |-> t.cancel, gates |-> t.gates]
  BY DEF ApplyAction
<1>11. t \in SpecRecord
  BY <1>1, <1>6, <1>9, <1>10 DEF SpecRecord
<1>12. /\ p.click = click /\ p.to = t
       /\ p.changed = {f \in {"pause", "cancel", "gates"} : t[f] # s[f]}
  BY <1>1 DEF Changed, SpecRecord
<1>13. p \in PatchRecord
  BY <1>11, <1>12 DEF PatchRecord, Changed
<1>14. Honest(p, now)
  BY <1>1, <1>4, <1>6, <1>7, <1>8, <1>9, <1>12 DEF Honest, SpecRecord
<1>15. QED
  BY <1>13, <1>14

\* What the API server makes of an honest patch.
LEMMA MergeHonest ==
  ASSUME DashboardInv, NEW r \in Replica, patch[r] # <<>>
  PROVE  LET merged == Merge(spec, patch[r][1]) IN
         /\ merged \in SpecRecord /\ Dated(merged.gates, now) /\ Tame(merged.gates)
         /\ spec.cancel => merged.cancel
         /\ spec.pause /\ ~merged.pause => patch[r][1].click.action = "resume"
         /\ "gates" \in patch[r][1].changed => merged.gates = patch[r][1].to.gates
<1> DEFINE p == patch[r][1]
           m == Merge(spec, p)
<1>1. p \in PatchRecord /\ Honest(p, now)
  <2>1. patch[r] \in Seq(PatchRecord) /\ patch[r] # <<>>
    BY DEF DashboardInv, TypeOK
  <2>2. p \in PatchRecord
    BY <2>1
  <2>3. QED
    BY <2>2 DEF DashboardInv
<1>2. spec \in SpecRecord
  BY DEF DashboardInv, TypeOK
<1>3. p.to \in SpecRecord
  BY <1>1 DEF PatchRecord
<1>4. DOMAIN spec = {"pause", "cancel", "gates"}
  BY <1>2 DEF SpecRecord
<1>5. m = [f \in {"pause", "cancel", "gates"} |-> IF f \in p.changed THEN p.to[f] ELSE spec[f]]
  BY <1>4 DEF Merge
<1> HIDE DEF m, p
<1>6. /\ m.pause = (IF "pause" \in p.changed THEN p.to.pause ELSE spec.pause)
      /\ m.cancel = (IF "cancel" \in p.changed THEN p.to.cancel ELSE spec.cancel)
      /\ m.gates = (IF "gates" \in p.changed THEN p.to.gates ELSE spec.gates)
  BY <1>5
<1>7. m.pause \in BOOLEAN /\ m.cancel \in BOOLEAN /\ m.gates \in Seq(Entry)
  BY <1>2, <1>3, <1>6 DEF SpecRecord
<1>8. m = [pause |-> m.pause, cancel |-> m.cancel, gates |-> m.gates]
  BY <1>5
<1>9. m \in SpecRecord
  BY <1>7, <1>8 DEF SpecRecord
<1>10. Dated(m.gates, now) /\ Tame(m.gates)
  BY <1>1, <1>6 DEF DashboardInv, Honest
<1>11. /\ spec.cancel => m.cancel
       /\ spec.pause /\ ~m.pause => p.click.action = "resume"
  BY <1>1, <1>6 DEF Honest
<1>12. QED
  BY <1>6, <1>9, <1>10, <1>11 DEF m, p

\* What a step of the specification may do to the object, and to a patch.
StepProperty ==
  /\ spec.cancel => spec'.cancel
  /\ spec.pause /\ ~spec'.pause =>
       \E r \in Replica : /\ patch[r] # <<>> /\ patch'[r] = <<>>
                          /\ patch[r][1].click.action = "resume"
  /\ \A r \in Replica :
       patch[r] # <<>> /\ patch'[r] = <<>> /\ "gates" \in patch[r][1].changed
         => spec'.gates = patch[r][1].to.gates

\* Every step, or none, keeps the invariant and has the property.
LEMMA DashboardNext == DashboardInv /\ [Next]_vars => DashboardInv' /\ StepProperty
<1> SUFFICES ASSUME DashboardInv, [Next]_vars PROVE DashboardInv' /\ StepProperty
  OBVIOUS
<1>0. /\ spec \in SpecRecord /\ cache \in [Replica -> SpecRecord]
      /\ patch \in [Replica -> Seq(PatchRecord)] /\ \A r \in Replica : Len(patch[r]) <= 1
      /\ now \in 1 .. MaxTime /\ clicks \in 0 .. MaxClicks
      /\ Dated(spec.gates, now) /\ Tame(spec.gates)
      /\ \A r \in Replica : Dated(cache[r].gates, now) /\ Tame(cache[r].gates)
      /\ \A r \in Replica : patch[r] # <<>> => Honest(patch[r][1], now)
  BY DEF DashboardInv, TypeOK
<1>1. ASSUME NEW r \in Replica, NEW click \in Click, HandleAction(r, click)
      PROVE  DashboardInv' /\ StepProperty
  <2> DEFINE t == ApplyAction(cache[r], click)
             p == [click |-> click, changed |-> Changed(cache[r], t), to |-> t]
  <2>1. p \in PatchRecord /\ Honest(p, now)
    BY ClickHonest
  <2>2. /\ patch[r] = <<>> /\ clicks' = clicks + 1 /\ clicks < MaxClicks
        /\ patch' = [patch EXCEPT ![r] = <<p>>] /\ UNCHANGED <<spec, cache, now>>
    BY <1>1 DEF HandleAction
  <2> HIDE DEF p
  <2>3. /\ patch' \in [Replica -> Seq(PatchRecord)]
        /\ \A q \in Replica :
             Len(patch'[q]) <= 1 /\ (patch'[q] # <<>> => Honest(patch'[q][1], now))
    BY <1>0, <2>1, <2>2
  <2>4. TypeOK'
    BY <1>0, <2>2, <2>3, BoundsAssumption DEF TypeOK
  <2>6. DashboardInv'
    BY <1>0, <2>2, <2>3, <2>4 DEF DashboardInv
  <2>7. StepProperty
    BY <1>0, <2>2 DEF StepProperty
  <2>8. QED
    BY <2>6, <2>7
<1>2. ASSUME NEW r \in Replica, Patch(r) PROVE DashboardInv' /\ StepProperty
  <2> DEFINE merged == Merge(spec, patch[r][1])
  <2>1. /\ merged \in SpecRecord /\ Dated(merged.gates, now) /\ Tame(merged.gates)
        /\ spec.cancel => merged.cancel
        /\ spec.pause /\ ~merged.pause => patch[r][1].click.action = "resume"
        /\ "gates" \in patch[r][1].changed => merged.gates = patch[r][1].to.gates
    BY <1>2, MergeHonest DEF Patch
  <2>2. /\ patch[r] # <<>> /\ spec' = merged /\ patch' = [patch EXCEPT ![r] = <<>>]
        /\ UNCHANGED <<cache, now, clicks>>
    BY <1>2 DEF Patch
  <2> HIDE DEF merged
  <2>3. /\ patch' \in [Replica -> Seq(PatchRecord)]
        /\ \A q \in Replica :
             Len(patch'[q]) <= 1 /\ (patch'[q] # <<>> => Honest(patch'[q][1], now))
    BY <1>0, <2>2
  <2>4. TypeOK'
    BY <1>0, <2>1, <2>2, <2>3 DEF TypeOK
  <2>6. DashboardInv'
    BY <1>0, <2>1, <2>2, <2>3, <2>4 DEF DashboardInv
  <2>7. \A q \in Replica : patch[q] # <<>> /\ patch'[q] = <<>> => q = r
    BY <1>0, <2>2
  <2>8. StepProperty
    BY <1>0, <2>1, <2>2, <2>7 DEF StepProperty
  <2>9. QED
    BY <2>6, <2>8
<1>3. ASSUME NEW r \in Replica, Deliver(r) PROVE DashboardInv' /\ StepProperty
  <2>1. cache' = [cache EXCEPT ![r] = spec] /\ UNCHANGED <<spec, patch, now, clicks>>
    BY <1>3 DEF Deliver
  <2>2. /\ cache' \in [Replica -> SpecRecord]
        /\ \A q \in Replica : Dated(cache'[q].gates, now) /\ Tame(cache'[q].gates)
    BY <1>0, <2>1
  <2>3. QED
    BY <1>0, <2>1, <2>2 DEF DashboardInv, TypeOK, StepProperty
<1>4. ASSUME NEW g \in Gate, NEW e, e = [gate |-> g, decision |-> "Approved", by |-> "kubectl", time |-> 0],
             RecordByHand(e)
      PROVE  DashboardInv' /\ StepProperty
  <2>1. /\ clicks < MaxClicks /\ clicks' = clicks + 1 /\ spec' = [spec EXCEPT !.gates = <<e>>]
        /\ UNCHANGED <<cache, patch, now>>
    BY <1>4 DEF RecordByHand
  <2>2. e \in Entry /\ e.time = 0
    BY <1>4, BoundsAssumption DEF Entry, Decision
  <2>3. /\ spec' \in SpecRecord /\ spec'.gates = <<e>>
        /\ spec'.pause = spec.pause /\ spec'.cancel = spec.cancel
    <3>1. <<e>> \in Seq(Entry)
      BY <2>2
    <3> HIDE <1>4
    <3>2. QED
      BY <1>0, <2>1, <3>1 DEF SpecRecord
  <2>4. Dated(<<e>>, now)
    BY <1>0, <2>2 DEF Dated
  <2>5. Tame(<<e>>)
    <3> SUFFICES ASSUME NEW h \in Gate PROVE Cardinality(EntriesFor(<<e>>, h)) <= 1
      BY DEF Tame
    <3>1. EntriesFor(<<e>>, h) \subseteq {1}
      BY DEF EntriesFor
    <3>2. IsFiniteSet({1}) /\ Cardinality({1}) = 1
      BY FS_Singleton
    <3>3. QED
      BY <3>1, <3>2, FS_Subset
  <2>6. TypeOK'
    BY <1>0, <2>1, <2>3, BoundsAssumption DEF TypeOK
  <2>7. DashboardInv'
    BY <1>0, <2>1, <2>3, <2>4, <2>5, <2>6 DEF DashboardInv
  <2>8. StepProperty
    BY <1>0, <2>1, <2>3 DEF StepProperty
  <2>9. QED
    BY <2>7, <2>8
<1>5. CASE Tick
  <2>1. now < MaxTime /\ now' = now + 1 /\ UNCHANGED <<spec, cache, patch, clicks>>
    BY <1>5 DEF Tick
  <2>2. ASSUME NEW gates \in Seq(Entry), Dated(gates, now) PROVE Dated(gates, now')
    <3>1. ASSUME NEW i \in DOMAIN gates PROVE gates[i].time <= now + 1
      <4>1. gates[i] \in Entry
        OBVIOUS
      <4>2. gates[i].time \in Nat
        BY <4>1 DEF Entry
      <4>3. QED
        BY <1>0, <2>2, <4>2 DEF Dated
    <3>2. QED
      BY <2>1, <3>1 DEF Dated
  <2>3. TypeOK'
    BY <1>0, <2>1, BoundsAssumption DEF TypeOK
  <2>4. /\ spec.gates \in Seq(Entry) /\ \A r \in Replica : cache[r].gates \in Seq(Entry)
        /\ \A r \in Replica : patch[r] # <<>> => patch[r][1].to.gates \in Seq(Entry)
    <3>1. \A r \in Replica : patch[r] # <<>> => patch[r][1] \in PatchRecord
      BY <1>0
    <3>2. QED
      BY <1>0, <3>1 DEF SpecRecord, PatchRecord
  <2>5. QED
    BY <1>0, <2>1, <2>2, <2>3, <2>4 DEF DashboardInv, StepProperty, Honest
<1>6. CASE UNCHANGED vars
  BY <1>0, <1>6 DEF vars, DashboardInv, TypeOK, StepProperty
<1>7. QED
  BY <1>1, <1>2, <1>3, <1>4, <1>5, <1>6 DEF Next

-----------------------------------------------------------------------------
(***************************************************************************)
(* The theorems.                                                           *)
(***************************************************************************)
\* The object, every copy and every patch are what TypeOK says, and every patch
\* under way is honest, whatever has become of the object since it was made.
THEOREM DashboardCorrect == Spec => []DashboardInv
BY DashboardInit, DashboardNext, PTL DEF Spec

\* No number of clicks on stale copies, on any number of replicas, makes a list
\* name a gate twice that it did not name twice at the start.
THEOREM GatesStayUnique == Spec => []NoDuplicateGates
<1>1. DashboardInv => NoDuplicateGates
  BY DEF DashboardInv, Tame, NoDuplicateGates
<1>2. QED
  BY <1>1, DashboardCorrect, PTL

\* A cancel is never withdrawn, and a pause only by the button that does so, by no
\* patch however old the copy it was made from.
THEOREM ControlsAreKept == Spec => ControlsKept
<1>1. DashboardInv /\ [Next]_vars =>
        [/\ spec.cancel => spec'.cancel
         /\ spec.pause /\ ~spec'.pause =>
              \E r \in Replica : /\ patch[r] # <<>> /\ patch'[r] = <<>>
                                 /\ patch[r][1].click.action = "resume"]_vars
  BY DashboardNext DEF StepProperty
<1>2. QED
  BY <1>1, DashboardCorrect, PTL DEF Spec, ControlsKept

\* The decision of a click that reaches the object is the one the controller reads
\* there, from any list, of any length, that it was made of.
THEOREM ClicksDecide == Spec => ClickDecides
<1>1. DashboardInv /\ [Next]_vars =>
        [\A r \in Replica :
           LET p == patch[r][1] IN
           patch[r] # <<>> /\ patch'[r] = <<>> /\ Decides(p.click) /\ "gates" \in p.changed
             => DecisionFor(spec'.gates, p.click.gate) = DecisionOf(p.click.action)]_vars
  BY DashboardNext DEF StepProperty, DashboardInv, Honest
<1>2. QED
  BY <1>1, DashboardCorrect, PTL DEF Spec, ClickDecides
=============================================================================
