------------------------------- MODULE MCClock -------------------------------
(* The instance of the calendar clock that TLC checks. *)
EXTENDS ClockTexts

\* The years 1697 (1700 is no leap year), 1969 (the Unix epoch), 1993 and
\* 1997, each up to the January four years later: past the last day of a cycle
\* of 4 years, and of one of 400 in the year 2000.
MCStarts == {<<4, 0, 24>>, <<4, 3, 17>>, <<4, 3, 23>>, <<4, 3, 24>>}

\* midnight and 23:30:07.5
MCTimes == {0, 23 * Hour + 30 * Minute + 7 * Ns + 5}

\* 28 February 1997, 31 January and 29 February 2000.
MCMarkDays == {StartDay(<<4, 3, 24>>) + n : n \in {58, 1125, 1154}}

\* Hours and quarters of an hour, both ways
MCOffsets == {0, -5 * Hour, 5 * Hour + 45 * Minute}
=============================================================================
