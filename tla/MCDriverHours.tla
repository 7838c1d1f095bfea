----------------------------- MODULE MCDriverHours -----------------------------
(***************************************************************************)
(* DriverHours on the days around the end of summer time.  The thresholds  *)
(* are the default profile's; every budget is one, so that three shifts    *)
(* are enough to exceed it.  Rates are those of payEngine.test.js, in      *)
(* quarters of a pound.                                                    *)
(***************************************************************************)
EXTENDS DriverHours

MCRules ==
  [cycleReset |-> 24 * Hour, minRest |-> 9 * Hour, reducedRestUpper |-> 11 * Hour,
   reducedRestMax |-> 1, absoluteMaxDaily |-> 15 * Hour, longShiftThreshold |-> 13 * Hour,
   longShiftMax |-> 1, drivingHardLimit |-> 10 * Hour, extendedDrivingThreshold |-> 9 * Hour,
   extendedDrivingMax |-> 1]

MCRates ==
  [MonThu |-> [Days |-> <<48, 56>>, Lates |-> <<50, 58>>, Nights |-> <<54, 62>>],
   Fri    |-> [Days |-> <<51, 59>>, Lates |-> <<53, 61>>, Nights |-> <<57, 65>>],
   Sat    |-> [Days |-> <<54, 62>>, Lates |-> <<56, 64>>, Nights |-> <<64, 72>>],
   Sun    |-> [Days |-> <<56, 64>>, Lates |-> <<58, 66>>, Nights |-> <<68, 76>>]]

\* A Monday thirteen days before the change, the Saturday before it and its Sunday
MCDates == {8, 20, 21}
MCStarts == {6 * Hour, 17 * Hour}
\* The clocks going back add an hour to the rest between Saturday and Sunday.  Rests
\* until 06:00 or 17:00 are of exactly nine (from 22:00), eleven (20:00) and, from
\* Saturday 07:00, twenty-four hours; of ten from 07:00 to 17:00, so that a book may take
\* two reduced ones; and too short from 03:00.
MCEnds == {3 * Hour, 7 * Hour, 20 * Hour, 22 * Hour}
\* Sunday 06:00, exactly twenty-four hours after a Saturday's 07:00 and with a shift to
\* start, and Monday 07:00: nine, eleven and twenty-four hours after ends of the Sunday
MCInstants == {21 * DayLength + 6 * Hour, 22 * DayLength + 7 * Hour}
================================================================================
