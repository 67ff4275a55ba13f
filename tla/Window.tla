------------------------------- MODULE Window --------------------------------
(***************************************************************************)
(* internal/window: a maintenance window is a cron expression that names   *)
(* the minutes at which it opens, and a duration. Time is in seconds. The  *)
(* lengths of the calendar are parameters, so that a whole year is small   *)
(* enough to check; months have one length.                                *)
(***************************************************************************)
EXTENDS Integers, FiniteSetsExt, Sequences

CONSTANTS
  MinuteLen, HourLen, DayLen,   \* seconds, minutes, hours
  WeekLen, MonthLen, YearLen    \* days, days, months

ASSUME CalendarAssumption ==
  \A len \in {MinuteLen, HourLen, DayLen, WeekLen, MonthLen, YearLen} : len \in Nat \ {0}

Minute(t)  == (t \div MinuteLen) % HourLen
Hour(t)    == (t \div (MinuteLen * HourLen)) % DayLen
DayNo(t)   == t \div (MinuteLen * HourLen * DayLen)
Weekday(t) == DayNo(t) % WeekLen
Day(t)     == (DayNo(t) % MonthLen) + 1
Month(t)   == ((DayNo(t) \div MonthLen) % YearLen) + 1

Year == MinuteLen * HourLen * DayLen * MonthLen * YearLen

-----------------------------------------------------------------------------
(***************************************************************************)
(* A field is a sequence of parts, what strings.Split leaves of it: "*",   *)
(* "lo-hi" or "lo", each perhaps followed by "/step".                      *)
(***************************************************************************)
Star        == [form |-> "star", lo |-> 0, hi |-> 0, hasStep |-> FALSE, step |-> 1]
Value(v)   == [form |-> "value", lo |-> v, hi |-> v, hasStep |-> FALSE, step |-> 1]
Between(a, b) == [form |-> "range", lo |-> a, hi |-> b, hasStep |-> FALSE, step |-> 1]
Every(part, n) == [part EXCEPT !.hasStep = TRUE, !.step = n]

Part == [form : {"star", "value", "range"}, lo : Int, hi : Int, hasStep : BOOLEAN, step : Int]

WindowRecord ==
  [cron : [minute : Seq(Part), hour : Seq(Part), dom : Seq(Part), month : Seq(Part),
           dow : Seq(Part)],
   duration : Int]

Lo(part, min) == IF part.form = "star" THEN min ELSE part.lo

\* A bare value with a step runs to the end of the field.
Hi(part, max) ==
  IF part.form = "star" \/ (part.form = "value" /\ part.hasStep) THEN max ELSE part.hi

PartParses(part, min, max) ==
  /\ part.step > 0
  /\ Lo(part, min) >= min /\ Hi(part, max) <= max /\ Lo(part, min) <= Hi(part, max)

FieldParses(field, min, max) == \A i \in DOMAIN field : PartParses(field[i], min, max)

ParseField(field, min, max) ==
  UNION {{v \in Lo(field[i], min) .. Hi(field[i], max) :
            (v - Lo(field[i], min)) % field[i].step = 0} : i \in DOMAIN field}

CronParses(cron) ==
  /\ FieldParses(cron.minute, 0, HourLen - 1) /\ FieldParses(cron.hour, 0, DayLen - 1)
  /\ FieldParses(cron.dom, 1, MonthLen) /\ FieldParses(cron.month, 1, YearLen)
  /\ FieldParses(cron.dow, 0, WeekLen)

IsStar(field) == field = <<Star>>

\* The day after the last one of the week is its first one again.
Weekdays(cron) ==
  LET dows == ParseField(cron.dow, 0, WeekLen)
  IN  dows \cup (IF WeekLen \in dows THEN {0} ELSE {})

Matches(cron, t) ==
  LET domMatch == Day(t) \in ParseField(cron.dom, 1, MonthLen)
      dowMatch == Weekday(t) \in Weekdays(cron)
  IN  /\ Minute(t) \in ParseField(cron.minute, 0, HourLen - 1)
      /\ Hour(t) \in ParseField(cron.hour, 0, DayLen - 1)
      /\ Month(t) \in ParseField(cron.month, 1, YearLen)
      /\ \/ ~IsStar(cron.dom) /\ domMatch
         \/ ~IsStar(cron.dow) /\ dowMatch
         \/ IsStar(cron.dom) /\ IsStar(cron.dow)

-----------------------------------------------------------------------------
\* What IsOpen and NextOpen return beside a result: an error.
Valid(w) == CronParses(w.cron) /\ w.duration > 0

Truncated(t) == t - (t % MinuteLen)

\* Mutant of Steps: the minutes the duration fills.
StepsShort(w) == (w.duration \div MinuteLen) - 1

\* How many minutes IsOpen looks back.
Steps(w) == (w.duration \div MinuteLen) + 1

IsOpen(w, now) ==
  \E i \in 0 .. Steps(w) :
    LET t == Truncated(now) - i * MinuteLen
    IN  Matches(w.cron, t) /\ t + w.duration > now

\* Mutant of Upcoming: the minute now is in.
UpcomingOrNow(now) == {Truncated(now) + i * MinuteLen : i \in 0 .. (Year \div MinuteLen)}

\* The minutes NextOpen looks at: a year of them, from the next one on.
Upcoming(now) == {Truncated(now) + i * MinuteLen : i \in 1 .. (Year \div MinuteLen)}

\* 0 when no opening is found.
NextOpen(w, now) ==
  LET openings == {t \in Upcoming(now) : Matches(w.cron, t)}
  IN  IF openings = {} THEN 0 ELSE Min(openings)

\* "open", "closed" or "error": windows are asked in turn until one is open or
\* is not valid; an empty list is always open.
AnyOpen(windows, now) ==
  LET decisive == {i \in DOMAIN windows : ~Valid(windows[i]) \/ IsOpen(windows[i], now)}
  IN  IF windows = <<>> THEN "open"
      ELSE IF decisive = {} THEN "closed"
      ELSE IF Valid(windows[Min(decisive)]) THEN "open" ELSE "error"

\* Mutant of WindowsOpen: the windows of both are one list.
WindowsOpenMerged(own, allowed, now) == AnyOpen(own \o allowed, now)

\* Both the request's own window (a list of at most one) and the policy's.
WindowsOpen(own, allowed, now) ==
  LET verdict == AnyOpen(own, now)
  IN  IF verdict = "open" THEN AnyOpen(allowed, now) ELSE verdict
=============================================================================
