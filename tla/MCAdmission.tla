----------------------------- MODULE MCAdmission -----------------------------
(***************************************************************************)
(* Small instances of Admission for TLC: five nodes, the first of them in  *)
(* the control plane; a year of 48 seconds.                                *)
(***************************************************************************)
EXTENDS Admission

Cron(minute, hour, dom, month, dow) ==
  [minute |-> <<minute>>, hour |-> <<hour>>, dom |-> <<dom>>, month |-> <<month>>,
   dow |-> <<dow>>]

Window(cron, duration) == [cron |-> cron, duration |-> duration]

Always == Window(Cron(Star, Star, Star, Star, Star), 1)   \* half of each minute
Noon   == Window(Cron(Value(0), Value(1), Star, Star, Star), 5)
Yearly == Window([Cron(Value(1), Value(0), Star, Star, Star) EXCEPT
                    !.month = <<Value(2), Value(2)>>, !.dom = <<Value(3)>>,
                    !.dow = <<Every(Value(1), 2)>>], 3)
Odd    == Window(Cron(Star, Star, Every(Value(1), 2), Star, Value(2)), 2)
Broken == Window(Cron(Star, Between(1, 0), Star, Star, Star), 4)

Default == [DefaultSpec EXCEPT !.maxUnavailablePercent = 0]

Sets == {
  <<>>,
  [p \in {"default"} |-> [Default EXCEPT !.maxConcurrentDrains = 2,
     !.maxUnavailablePercent = 60, !.reserved = {5}, !.windows = <<Noon, Odd>>]],
  [p \in {"default", "loose"} |-> [Default EXCEPT !.protect = FALSE,
     !.maxConcurrentDrains = 3, !.maxUnavailableNodes = 2, !.minHeadroom = 10,
     !.allowReplacement = TRUE, !.windows = <<Noon, Broken>>]]}

Plain == [type |-> "Selector", names |-> <<1, 2, 3, 4, 5>>, strategy |-> "Serial",
          batchSize |-> 0, maxConcurrent |-> 1, uncordonAfter |-> TRUE,
          allowControlPlane |-> FALSE, replace |-> FALSE, own |-> <<>>, policyRef |-> ""]

Workers == [Plain EXCEPT !.type = "Node", !.names = <<5, 2, 4, 3>>]

All == {
  Plain,
  [Plain EXCEPT !.own = <<Yearly>>],
  [Plain EXCEPT !.strategy = "ByZone", !.allowControlPlane = TRUE, !.own = <<Always>>],
  [Workers EXCEPT !.strategy = "ByPool", !.replace = TRUE],
  [Workers EXCEPT !.strategy = "Batched", !.maxConcurrent = 3],
  [Workers EXCEPT !.strategy = "Batched", !.batchSize = 3, !.names = <<4, 2, 3, 2>>],
  [Workers EXCEPT !.uncordonAfter = FALSE, !.own = <<Noon>>],
  [Workers EXCEPT !.policyRef = "loose", !.names = <<5, 3, 1>>, !.own = <<Broken>>],
  [Workers EXCEPT !.names = <<>>],
  [Workers EXCEPT !.names = <<4, 9>>]}   \* no node is called 9

Waiting == {[Plain EXCEPT !.own = <<Noon>>]}

Some == {[existing |-> e, cordoned |-> c] : e \in {1 .. 5, 2 .. 5}, c \in {{}, {5}}}

Zones == <<1, 2, 1, 2, 1>>
Pools == <<3, 1, 2, 1, 3>>
NewYear == {Year}
Edited == {<<Noon>>, <<Noon, Broken>>}
=============================================================================
