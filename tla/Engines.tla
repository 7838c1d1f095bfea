-------------------------------- MODULE Engines --------------------------------
(***************************************************************************)
(* The calculation engines of the client: pure functions over rows that    *)
(* are already loaded (services/shiftMath.js, complianceEngine.js,         *)
(* payEngine.js).                                                          *)
(*                                                                         *)
(* An instant is a number of minutes, UTC, since the start of day 0, a     *)
(* Sunday; a date is the number of its day.  The device is in the United   *)
(* Kingdom: one hour ahead of UTC until the clocks go back on ChangeDay.   *)
(* Durations and driving are in minutes, pay in rate times minutes.        *)
(***************************************************************************)
EXTENDS Integers, Sequences, SequencesExt, FiniteSetsExt

CONSTANTS
  ChangeDay,        \* the Sunday on which the clocks go back, at 02:00
  Rules,            \* ComplianceProfile.rules
  Rates             \* RateCard.rates: Rates[category][window] = <<base, holiday-inclusive>>

ASSUME ChangeIsSunday == ChangeDay \in Nat /\ ChangeDay % 7 = 0

\* 001_init_schema.js: the only profile there is
ASSUME RulesAreOrdered ==
  /\ {Rules.reducedRestMax, Rules.extendedDrivingMax, Rules.longShiftMax} \subseteq Nat
  /\ {Rules.minRest, Rules.reducedRestUpper, Rules.cycleReset} \subseteq Nat
  /\ Rules.minRest <= Rules.reducedRestUpper /\ Rules.reducedRestUpper <= Rules.cycleReset
  /\ {Rules.absoluteMaxDaily, Rules.longShiftThreshold} \subseteq Nat
  /\ {Rules.drivingHardLimit, Rules.extendedDrivingThreshold} \subseteq Nat

ASSUME RatesAreNumbers ==
  \A cat \in {"MonThu", "Fri", "Sat", "Sun"}, win \in {"Days", "Lates", "Nights"}, col \in 1 .. 2 :
    Rates[cat][win][col] \in Int

Hour == 60
DayLength == 24 * Hour

\* The elements of a finite set, in the order that the pairs of R are in
Ordered(S, R) ==
  [k \in 1 .. Cardinality(S) |->
     CHOOSE x \in S : Cardinality({y \in S : <<y, x>> \in R}) = k - 1]
Ascending(S) == Ordered(S, {p \in S \X S : p[1] < p[2]})

\* reduce with "+"
Sum(q) == LET sum[n \in 0 .. Len(q)] == IF n = 0 THEN 0 ELSE sum[n - 1] + q[n] IN sum[Len(q)]

-------------------------------------------------------------------------------
(***************************************************************************)
(* shiftMath                                                               *)
(***************************************************************************)

\* new Date(y, m - 1, d, hh, mm): of the hour that occurs twice, the first.
ParseDateTime(date, minute) ==
  date * DayLength + minute
    - (IF date < ChangeDay \/ (date = ChangeDay /\ minute < 2 * Hour) THEN Hour ELSE 0)

\* What the local clock shows at an instant: getDay, getHours, getMinutes.
Local(t) == t + (IF t < ChangeDay * DayLength + Hour THEN Hour ELSE 0)
LocalDay(t) == Local(t) \div DayLength
MinuteOfDay(t) == Local(t) % DayLength

DayCategory(t) ==
  LET d == LocalDay(t) % 7
  IN CASE d = 0 -> "Sun" [] d = 6 -> "Sat" [] d = 5 -> "Fri" [] OTHER -> "MonThu"

WindowType(t) ==
  CASE MinuteOfDay(t) \in 6 * Hour .. 14 * Hour - 1  -> "Days"
    [] MinuteOfDay(t) \in 14 * Hour .. 22 * Hour - 1 -> "Lates"
    [] OTHER -> "Nights"

\* Mutant: only the boundaries of the day the shift begins on.
BuildBoundariesMut(start, end) ==
  LET inside == {b \in {ParseDateTime(LocalDay(start), h * Hour) : h \in {6, 14, 22}} :
                   start < b /\ b < end}
  IN Ascending({start, end} \cup inside)

BuildBoundaries(start, end) ==
  LET all == {ParseDateTime(d, h * Hour) : d \in LocalDay(start) - 1 .. LocalDay(end) + 1,
                                           h \in {6, 14, 22}}
  IN Ascending({start, end} \cup {b \in all : start < b /\ b < end})

\* A shift that does not end after it starts ends 24 hours later.  The break is
\* taken off the end.
ComputeDuration(shift) ==
  LET start == ParseDateTime(shift.date, shift.start)
      until == ParseDateTime(shift.date, shift.end)
      end   == IF until <= start THEN until + DayLength ELSE until
      paid  == Max({end - start - shift.breakMinutes, 0})
  IN [start |-> start, end |-> end, dutyMinutes |-> end - start,
      paidMinutes |-> paid, paidEnd |-> start + paid]

GetWeekStart(date) == date - (date % 7)

\* toISOString().slice(0, 10): the day in UTC
ToKey(t) == t \div DayLength

-------------------------------------------------------------------------------
(***************************************************************************)
(* complianceEngine                                                        *)
(***************************************************************************)

NoEnd == -1        \* prevEnd before the first shift

OpenCycle(prevEnd) ==
  [reducedRest |-> 0, extendedDriving |-> 0, longShift |-> 0, alerts |-> <<>>, prevEnd |-> prevEnd]

Alert(c, code, date) == [c EXCEPT !.alerts = Append(@, [code |-> code, date |-> date])]
AlertIf(c, condition, code, date) == IF condition THEN Alert(c, code, date) ELSE c

\* Mutant: the alerts of a closed cycle are kept.
AfterRestMut(c, gap, date) ==
  CASE gap >= Rules.cycleReset    -> [OpenCycle(c.prevEnd) EXCEPT !.alerts = c.alerts]
    [] gap < Rules.minRest        -> Alert(c, "restBelowMinimum", date)
    [] gap \in Rules.minRest .. Rules.reducedRestUpper - 1 ->
         AlertIf([c EXCEPT !.reducedRest = @ + 1], c.reducedRest >= Rules.reducedRestMax,
                 "reducedRestBudgetExceeded", date)
    [] OTHER -> c

\* The rest before a shift: long enough to close the cycle, too short, reduced
\* (within its budget or not), or regular.
AfterRest(c, gap, date) ==
  CASE gap >= Rules.cycleReset    -> OpenCycle(c.prevEnd)
    [] gap < Rules.minRest        -> Alert(c, "restBelowMinimum", date)
    [] gap \in Rules.minRest .. Rules.reducedRestUpper - 1 ->
         AlertIf([c EXCEPT !.reducedRest = @ + 1], c.reducedRest >= Rules.reducedRestMax,
                 "reducedRestBudgetExceeded", date)
    [] OTHER -> c

AfterDuty(c, duty, date) ==
  LET tooLong == AlertIf(c, duty > Rules.absoluteMaxDaily, "dailyDutyAbsoluteMaxExceeded", date)
  IN IF duty <= Rules.longShiftThreshold THEN tooLong
     ELSE AlertIf([Alert(tooLong, "longShiftOverThreshold", date) EXCEPT !.longShift = @ + 1],
                  c.longShift >= Rules.longShiftMax, "longShiftBudgetExceeded", date)

AfterDriving(c, driving, date) ==
  CASE driving > Rules.drivingHardLimit -> Alert(c, "drivingHardLimitExceeded", date)
    [] driving \in Rules.extendedDrivingThreshold + 1 .. Rules.drivingHardLimit ->
         AlertIf([c EXCEPT !.extendedDriving = @ + 1],
                 c.extendedDriving >= Rules.extendedDrivingMax,
                 "extendedDrivingBudgetExceeded", date)
    [] OTHER -> c

AfterShift(c, shift) ==
  LET d == ComputeDuration(shift)
      rested == IF c.prevEnd = NoEnd THEN c ELSE AfterRest(c, d.start - c.prevEnd, shift.date)
      worked == AfterDuty(rested, d.dutyMinutes, shift.date)
  IN [AfterDriving(worked, shift.driving, shift.date) EXCEPT !.prevEnd = d.end]

\* The loop of computeCompliance
CycleAfter(shiftsSorted) ==
  LET after[n \in 0 .. Len(shiftsSorted)] ==
        IF n = 0 THEN OpenCycle(NoEnd) ELSE AfterShift(after[n - 1], shiftsSorted[n])
  IN after[Len(shiftsSorted)]

\* The call without options.now
ComputeCompliance(shiftsSorted) ==
  LET c == CycleAfter(shiftsSorted)
  IN [reducedRestUsed     |-> Min({c.reducedRest, Rules.reducedRestMax}),
      extendedDrivingUsed |-> Min({c.extendedDriving, Rules.extendedDrivingMax}),
      longShiftUsed       |-> Min({c.longShift, Rules.longShiftMax}),
      alerts              |-> c.alerts]

\* The call with options.now: a rest that is still going on may close the cycle.
ComputeComplianceNow(shiftsSorted, now) ==
  IF shiftsSorted # <<>> /\ now - ComputeDuration(Last(shiftsSorted)).end >= Rules.cycleReset
    THEN ComputeCompliance(<<>>)
    ELSE ComputeCompliance(shiftsSorted)

RollingDrivingSum(shiftsSorted, days, refDate) ==
  Sum([i \in DOMAIN shiftsSorted |->
         LET d == ParseDateTime(shiftsSorted[i].date, 0)
         IN IF refDate - days * DayLength < d /\ d <= refDate THEN shiftsSorted[i].driving ELSE 0])

-------------------------------------------------------------------------------
(***************************************************************************)
(* payEngine                                                               *)
(***************************************************************************)

\* A segment is priced by where it starts, midnight not being a boundary.
Segments(start, paidEnd) ==
  LET b == BuildBoundaries(start, paidEnd)
  IN [i \in 1 .. Len(b) - 1 |->
        [cat |-> DayCategory(b[i]), win |-> WindowType(b[i]), minutes |-> b[i + 1] - b[i]]]

\* What the segments come to, column 1 of the rates without and 2 with holiday pay
Pay(segs, column) ==
  Sum([k \in DOMAIN segs |-> segs[k].minutes * Rates[segs[k].cat][segs[k].win][column]])

\* card: "none", "hourly" or "per_load"; loads: the amounts of the loads
ComputeShiftBreakdown(shift, card, loads) ==
  LET d    == ComputeDuration(shift)
      segs == IF card = "hourly" THEN Segments(d.start, d.paidEnd) ELSE <<>>
  IN [segments    |-> segs,
      dutyMinutes |-> d.dutyMinutes, paidMinutes |-> d.paidMinutes, end |-> d.end,
      basePay     |-> Pay(segs, 1),
      gross       |-> IF card = "per_load" THEN Sum(loads) ELSE Pay(segs, 2),
      priced      |-> card = "hourly" \/ (card = "per_load" /\ loads # <<>>)]

================================================================================
