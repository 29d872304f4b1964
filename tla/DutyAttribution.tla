---------------------------- MODULE DutyAttribution ----------------------------
(***************************************************************************)
(* Which report of Crew Hours counts which leg: select_rows_for_period and *)
(* _select_duty of backend/statistics/crew_hours/domain.py, over the rows  *)
(* that fetch_official_mcp_report asks LEON for.                           *)
(*                                                                         *)
(* Legs of one operating crew with short breaks between them are one duty, *)
(* and a duty belongs to the period its first leg departs in.  A report    *)
(* sees only the legs of its own period and of a few days around it, so    *)
(* the reports of two adjacent periods see one duty through two windows.   *)
(* A row without a date is in every report that sees it.                   *)
(*                                                                         *)
(* Time is counted in units of which DayLength make a day.  A leg is known *)
(* by its place in LEON's schedule: two legs may look the same.            *)
(***************************************************************************)
EXTENDS Integers, Sequences

CONSTANTS
    Crews,          \* sets of operating crew, as the code groups legs by them
    NoCrew,         \* a row without an operating crew or without its times
    NoDate,         \* a row without a date; off is the day that LEON knows it by
    DayLength,      \* units in a day
    DutyBreak,      \* CONNECTED_DUTY_BREAK in units
    ReadBuffer      \* READ_BUFFER_DAYS

\* What _optional_leg_window makes of a row: a leg that ends before it departs
\* ends on the day after, so none is as long as a day.
Leg == {l \in [crew : Crews \union {NoCrew, NoDate}, off : Int, on : Int] :
          l.off <= l.on /\ l.on < l.off + DayLength}

ASSUME CrewsAssumption ==
    NoCrew \notin Crews /\ NoDate \notin Crews /\ NoCrew # NoDate
ASSUME UnitsAssumption ==
    DayLength \in Nat \ {0} /\ DutyBreak \in Nat /\ ReadBuffer \in Nat
ASSUME BufferAssumption == DayLength + DutyBreak <= ReadBuffer * DayLength

Day(t) == t \div DayLength

-----------------------------------------------------------------------------
(* What the code does *)

\* Mutant of Fetched: the window has no buffer before the period.
FetchedAhead(legs, from, to) ==
    {i \in DOMAIN legs : Day(legs[i].off) \in from .. to + ReadBuffer}

\* The rows between buffered_query_dates.
Fetched(legs, from, to) ==
    {i \in DOMAIN legs :
        Day(legs[i].off) \in from - ReadBuffer .. to + ReadBuffer}

\* Mutant of Connected: a break of exactly the limit still connects.
ConnectedAtLimit(k, l) == l.off - k.on \in 0 .. DutyBreak

\* The break between two legs of one duty.
Connected(k, l) == l.off - k.on \in 0 .. DutyBreak - 1

\* Departure first, LEON's order where departures are equal.
Earlier(legs, i, j) ==
    legs[i].off < legs[j].off \/ (legs[i].off = legs[j].off /\ i < j)

Latest(legs, S) == CHOOSE k \in S : \A j \in S : j = k \/ Earlier(legs, j, k)

Before(legs, rows, i) ==
    {k \in rows : legs[k].crew = legs[i].crew /\ Earlier(legs, k, i)}

\* previous: the leg that the loop over the ordered legs of i's crew has just
\* visited.
Previous(legs, rows, i) == Latest(legs, Before(legs, rows, i))

\* The loop goes on with the duty of the leg before, or begins another.
Continued(legs, rows, i) ==
    /\ Before(legs, rows, i) # {}
    /\ Connected(legs[Previous(legs, rows, i)], legs[i])

\* duty[0] once the loop has visited leg i.
DutyStarts(legs, rows) ==
    LET start[i \in rows] == IF Continued(legs, rows, i)
                             THEN start[Previous(legs, rows, i)] ELSE i
    IN start

\* _select_duty takes a duty by its first leg; a row that belongs to no duty
\* goes by its own date, and without one it is always taken.
SelectRows(legs, rows, from, to) ==
    LET start == DutyStarts(legs, rows)
        departs(k) == Day(legs[k].off) \in from .. to
    IN {i \in rows : \/ legs[i].crew = NoDate
                     \/ legs[i].crew = NoCrew /\ departs(i)
                     \/ legs[i].crew \in Crews /\ departs(start[i])}

Report(legs, from, to) == SelectRows(legs, Fetched(legs, from, to), from, to)

-----------------------------------------------------------------------------
(* What it is meant to do *)

OfCrew(legs, c) == {i \in DOMAIN legs : legs[i].crew = c}

\* Leg i of the whole schedule continues a duty: the leg of the same crew right
\* before it has ended, and by less than the limit.
Continues(legs, i) ==
    \E k \in OfCrew(legs, legs[i].crew) :
        /\ Earlier(legs, k, i)
        /\ legs[k].on <= legs[i].off /\ legs[i].off < legs[k].on + DutyBreak
        /\ \A j \in OfCrew(legs, legs[i].crew) :
             ~(Earlier(legs, k, j) /\ Earlier(legs, j, i))

\* The legs up to i of its crew that begin a duty; the last of them begins i's.
Firsts(legs, i) == {k \in OfCrew(legs, legs[i].crew) :
                      /\ k = i \/ Earlier(legs, k, i)
                      /\ ~Continues(legs, k)}

\* The day on which the duty of leg i begins; a leg of no duty has its own.
DutyDay(legs, i) ==
    IF legs[i].crew \in Crews THEN Day(legs[Latest(legs, Firsts(legs, i))].off)
    ELSE Day(legs[i].off)

\* The rows whose day the code cannot see.
Undated(legs) == {i \in DOMAIN legs : legs[i].crew = NoDate}

\* What a report is to count: the legs of the duties that begin in its period, as
\* far as its window shows them, and every undated row of its window.
Due(legs, from, to) ==
    {i \in DOMAIN legs \ Undated(legs) : /\ DutyDay(legs, i) \in from .. to
                                         /\ Day(legs[i].off) <= to + ReadBuffer}
    \union {i \in Undated(legs) : Day(legs[i].off) \in from - ReadBuffer
                                                        .. to + ReadBuffer}
=============================================================================
