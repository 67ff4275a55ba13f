------------------------------- MODULE Planner -------------------------------
(***************************************************************************)
(* internal/planner, BuildBatches: target nodes in ordered batches. Nodes  *)
(* and the values of labels are numbers, ordered as their names are.       *)
(***************************************************************************)
EXTENDS Integers, FiniteSetsExt, SequencesExt

Strategy == {"Serial", "Batched", "ByZone", "ByPool"}

\* The names that are in S, in order, and each as often as it is named: the k-th
\* is the one that fewer than k of them precede, and that ends at k or later.
SortedIn(names, S) ==
  LET chosen == {i \in DOMAIN names : names[i] \in S}
  IN  [k \in 1 .. Cardinality(chosen) |->
         CHOOSE n \in {names[i] : i \in chosen} :
           /\ Cardinality({i \in chosen : names[i] < n}) < k
           /\ k <= Cardinality({i \in chosen : names[i] <= n})]

SortedNames(names) == SortedIn(names, ToSet(names))

\* Mutant of Chunk: neighbouring batches overlap.
ChunkOverlapping(names, size) ==
  [b \in 1 .. (Len(names) + size - 1) \div size |->
     SubSeq(names, (b - 1) * size + 1, Min({b * size + 1, Len(names)}))]

Chunk(names, size) ==
  [b \in 1 .. (Len(names) + size - 1) \div size |->
     SubSeq(names, (b - 1) * size + 1, Min({b * size, Len(names)}))]

\* One batch for each value of key, in order.
Group(nodes, key) ==
  LET keys == SortedNames(SetToSeq({key[n] : n \in ToSet(nodes)}))
  IN  [b \in DOMAIN keys |-> SortedIn(nodes, {n \in ToSet(nodes) : key[n] = keys[b]})]

\* batchSize, or the concurrency when it is not set.
BatchSize(batchSize, concurrency) ==
  IF batchSize >= 1 THEN batchSize ELSE IF concurrency >= 1 THEN concurrency ELSE 1

\* zone and pool give each node its value, or that of "unzoned", "unpooled".
BuildBatches(strategy, nodes, batchSize, concurrency, zone, pool) ==
  CASE strategy = "Serial"  -> Chunk(SortedNames(nodes), 1)
    [] strategy = "Batched" -> Chunk(SortedNames(nodes), BatchSize(batchSize, concurrency))
    [] strategy = "ByZone"  -> Group(nodes, zone)
    [] strategy = "ByPool"  -> Group(nodes, pool)
=============================================================================
