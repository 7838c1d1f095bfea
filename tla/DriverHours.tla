------------------------------ MODULE DriverHours ------------------------------
(***************************************************************************)
(* One driver's book of shifts as it is logged, corrected and cut, and     *)
(* what two screens make of it: the driver's own dashboard and payslip     *)
(* check (views/driver/DriverApp.jsx) and the transport manager's roll-up  *)
(* (services/transportManagerService.js).  Both compute afresh from the    *)
(* rows; nothing derived is stored.                                        *)
(*                                                                         *)
(* How a shift is entered is in FormScreens, how it is priced over time in *)
(* PricedShifts; here its pay is computed from one rate card.              *)
(***************************************************************************)
EXTENDS Engines

CONSTANTS
  Dates, Starts, Ends, Breaks, Drivings,     \* what a shift is logged with
  Slot,             \* minutes: of a time that is entered, 1 in the form
  Instants,         \* when a screen is looked at
  MaxShifts         \* bound: shifts in the book

ASSUME HoursBounds == MaxShifts \in Nat /\ Instants \subseteq Nat /\ Instants # {}

\* Days are numbered so that no shift comes near the beginning of time; times of day
\* and breaks are multiples of Slot, which divides an hour.
ASSUME ShiftInputs ==
  /\ Slot \in Nat \ {0} /\ Hour % Slot = 0
  /\ Dates \subseteq Nat \ {0} /\ Drivings \subseteq Nat
  /\ Starts \cup Ends \subseteq 0 .. DayLength - 1 /\ Breaks \subseteq Nat
  /\ \A x \in Starts \cup Ends \cup Breaks : x % Slot = 0

VARIABLES
  shifts,   \* the driver's rows, in the order the database returns them
  now       \* new Date(), when a screen is rendered

vars == <<shifts, now>>

ShiftRows == [date : Dates, start : Starts, end : Ends, breakMinutes : Breaks,
              driving : Drivings]

TypeOK == shifts \in Seq(ShiftRows) /\ Len(shifts) <= MaxShifts /\ now \in Instants

Init == shifts = <<>> /\ now = Min(Instants)

\* createShift; nothing compares a shift with the ones already in the book.
LogShift ==
  /\ Len(shifts) < MaxShifts
  /\ \E row \in ShiftRows : shifts' = Append(shifts, row)
  /\ UNCHANGED now

\* updateShift, whatever the form changed
EditShift ==
  /\ \E i \in DOMAIN shifts, row \in ShiftRows : shifts' = [shifts EXCEPT ![i] = row]
  /\ UNCHANGED now

\* deleteShift
DeleteShift ==
  /\ \E i \in DOMAIN shifts : shifts' = RemoveAt(shifts, i)
  /\ UNCHANGED now

TimePasses ==
  /\ \E t \in Instants : now < t /\ now' = t
  /\ UNCHANGED shifts

Next == LogShift \/ EditShift \/ DeleteShift \/ TimePasses

Spec == Init /\ [][Next]_vars

-------------------------------------------------------------------------------
(***************************************************************************)
(* DriverApp: what the driver is shown of a book s at an instant t         *)
(***************************************************************************)

StartOf(shift) == ParseDateTime(shift.date, shift.start)
EndOf(shift) == ComputeDuration(shift).end

\* By start; the sort is stable.
Before(s) ==
  {p \in (DOMAIN s) \X (DOMAIN s) :
     \/ StartOf(s[p[1]]) < StartOf(s[p[2]])
     \/ StartOf(s[p[1]]) = StartOf(s[p[2]]) /\ p[1] < p[2]}

\* Of the rows, those at the places I, sorted
InOrder(s, I) ==
  LET order == Ordered(I, Before(s)) IN [k \in DOMAIN order |-> s[order[k]]]

SortedShifts(s) == InOrder(s, DOMAIN s)

\* weekShifts: the shifts of the seven days from weekStart on
WeekShifts(s, weekStart) ==
  InOrder(s, {i \in DOMAIN s : LET d == ParseDateTime(s[i].date, 0)
                               IN /\ ParseDateTime(weekStart, 0) <= d
                                  /\ d < ParseDateTime(weekStart + 7, 0)})

Compliance(s, t) == ComputeComplianceNow(SortedShifts(s), t)

NoStart == -1

LastShiftEnd(s) == Max({EndOf(s[i]) : i \in DOMAIN s})

\* Mutant: counted from the end of the shift that was entered last.
NextStartMut(s, t) ==
  IF s = <<>> THEN [normal |-> NoStart, reduced |-> NoStart, reducedLeft |-> 0]
  ELSE [normal      |-> EndOf(Last(s)) + Rules.reducedRestUpper,
        reduced     |-> EndOf(Last(s)) + Rules.minRest,
        reducedLeft |-> Rules.reducedRestMax - Compliance(s, t).reducedRestUsed]

\* nextStart: when the driver may begin again, with and without a reduced rest
NextStart(s, t) ==
  IF s = <<>> THEN [normal |-> NoStart, reduced |-> NoStart, reducedLeft |-> 0]
  ELSE [normal      |-> LastShiftEnd(s) + Rules.reducedRestUpper,
        reduced     |-> LastShiftEnd(s) + Rules.minRest,
        reducedLeft |-> Rules.reducedRestMax - Compliance(s, t).reducedRestUsed]

\* Mutant: the fortnight ends at the start of the last day.
RefDateMut(s, t) ==
  IF s = <<>> THEN t ELSE ParseDateTime(Last(SortedShifts(s)).date, 0)

\* refDate: the end of the last day worked
RefDate(s, t) ==
  IF s = <<>> THEN t ELSE ParseDateTime(Last(SortedShifts(s)).date, DayLength - 1)

Fortnight == 14

\* drivingFortnight: "Driving over 2 weeks (rolling)"
DrivingFortnight(s, t) == RollingDrivingSum(SortedShifts(s), Fortnight, RefDate(s, t))

\* weekOptions: the keys of the payslip's weeks.  A key is the day, in UTC, of
\* the local midnight a week begins with.
WeekKey(date) == ToKey(ParseDateTime(GetWeekStart(date), 0))
WeekOptions(s, t) == {WeekKey(s[i].date) : i \in DOMAIN s} \cup {WeekKey(LocalDay(t))}

\* payslipShifts: new Date(key) is midnight in UTC; a week on, by the local clock
PayslipShifts(s, key) ==
  LET from == key * DayLength
      to   == ParseDateTime(LocalDay(from) + 7, MinuteOfDay(from))
  IN InOrder(s, {i \in DOMAIN s : LET d == ParseDateTime(s[i].date, 0) IN from <= d /\ d < to})

-------------------------------------------------------------------------------
(***************************************************************************)
(* The transport manager's roll-up                                         *)
(***************************************************************************)

\* resolveDriverRollUp: all of the driver's shifts, as the database returns them
HoursStatus(s) == IF ComputeCompliance(s).alerts # <<>> THEN "problem" ELSE "ok"

-------------------------------------------------------------------------------
(***************************************************************************)
(* Properties                                                              *)
(***************************************************************************)

\* Shifts that follow one another, each with a length: nothing stops a driver from
\* logging others, and one that ends in the first hours after the day the clocks go
\* back ends too early, perhaps before it starts (ComputeDuration).
Sequential(s) ==
  LET sorted == SortedShifts(s)
  IN /\ \A i \in DOMAIN s : StartOf(s[i]) < EndOf(s[i])
     /\ \A i \in 1 .. Len(sorted) - 1 : EndOf(sorted[i]) <= StartOf(sorted[i + 1])

\* The instant t is paid as one of the day it lies in, except that the hours after
\* midnight of a shift begun before it belong to the night before.
PricedDay(t, shift) ==
  IF MinuteOfDay(t) < 6 * Hour /\ LocalDay(t) > shift.date THEN t - 7 * Hour ELSE t

RateAt(t, shift, column) == Rates[DayCategory(PricedDay(t, shift))][WindowType(t)][column]

\* What the paid time comes to, slot by slot
WorkedPay(shift, column) ==
  LET d == ComputeDuration(shift)
  IN Sum([n \in 1 .. d.paidMinutes \div Slot |->
            Slot * RateAt(d.start + Slot * (n - 1), shift, column)])

\* Every slot up to the break taken off the end is paid at the rate of the window and
\* of the day it lies in.  The segments of payEngine add up to exactly that.
PaidAsWorked ==
  \A i \in DOMAIN shifts :
    LET b == ComputeShiftBreakdown(shifts[i], "hourly", <<>>)
    IN /\ b.basePay = WorkedPay(shifts[i], 1) /\ b.gross = WorkedPay(shifts[i], 2)
       /\ Sum([k \in DOMAIN b.segments |-> b.segments[k].minutes]) = b.paidMinutes

\* What the dashboard says of the next start is what the book is judged by: a
\* shift added after the others begins before `reduced' exactly if it raises
\* restBelowMinimum, between the two exactly if it takes a reduced rest (or
\* exceeds their budget), and from `normal' on it costs nothing.  And while the cycle
\* is open, the reduced rest is shown as unavailable exactly if taking one would
\* exceed the budget.
NextStartIsHonest ==
  [][(shifts' # shifts /\ Len(shifts') > Len(shifts) /\ shifts # <<>> /\ Sequential(shifts)
      /\ StartOf(Last(shifts')) >= LastShiftEnd(shifts))
     => LET shown  == NextStart(shifts, now)
            new    == Last(shifts')
            before == ComputeCompliance(SortedShifts(shifts))
            after  == ComputeCompliance(SortedShifts(shifts'))
            raised(code) ==
              \E k \in Len(before.alerts) + 1 .. Len(after.alerts) : after.alerts[k].code = code
        IN /\ (StartOf(new) < shown.reduced) <=> raised("restBelowMinimum")
           /\ (StartOf(new) \in shown.reduced .. shown.normal - 1)
                <=> \/ after.reducedRestUsed > before.reducedRestUsed
                    \/ raised("reducedRestBudgetExceeded")
           /\ (/\ StartOf(new) \in shown.reduced .. shown.normal - 1
               /\ now - LastShiftEnd(shifts) < Rules.cycleReset)
                => (shown.reducedLeft > 0 <=> ~raised("reducedRestBudgetExceeded"))]_vars

\* A rest that is still going on closes the cycle just as it will once the next
\* shift is logged (the comment on computeCompliance's `now'): whatever that
\* shift is, it is then judged on its own, and no alert of the old cycle is left.
\* The manager's roll-up does not look at the clock: for shifts logged in order it
\* may warn of a cycle that is over, but never misses an alert the driver sees.
RestClosesTheCycle ==
  /\ \A row \in ShiftRows :
       (/\ shifts # <<>> /\ Sequential(shifts)
        /\ now - LastShiftEnd(shifts) >= Rules.cycleReset /\ StartOf(row) >= now)
       => /\ ComputeCompliance(Append(SortedShifts(shifts), row)) = ComputeCompliance(<<row>>)
          /\ Compliance(shifts, now) = ComputeCompliance(<<>>)
  /\ (shifts = SortedShifts(shifts) /\ HoursStatus(shifts) = "ok")
       => Compliance(shifts, now).alerts = <<>>

DrivingOn(s, dates) == Sum([i \in DOMAIN s |-> IF s[i].date \in dates THEN s[i].driving ELSE 0])

\* The payslip's weeks are the dashboard's, although their keys pass through UTC
\* and are a day off in summer: every shift is in exactly one of them, and it is
\* the week the dashboard counts it in.  And "Driving over 2 weeks (rolling)" is
\* the driving of the fourteen days up to the last day worked -- except that the
\* oldest is left out when the clocks go back in between.
WeeksAgree ==
  \A i \in DOMAIN shifts :
    LET week == GetWeekStart(shifts[i].date)
        last == Last(SortedShifts(shifts)).date
        first == IF ChangeDay \in last - 13 .. last THEN last - 12 ELSE last - 13
    IN /\ \A key \in WeekOptions(shifts, now) :
            (shifts[i] \in Range(PayslipShifts(shifts, key))) <=> (key = WeekKey(shifts[i].date))
       /\ PayslipShifts(shifts, WeekKey(shifts[i].date)) = WeekShifts(shifts, week)
       /\ DrivingFortnight(shifts, now) = DrivingOn(SortedShifts(shifts), first .. last)

================================================================================
