------------------------------ MODULE MCDutyList ------------------------------
(* Values of the constants of CrewHoursReport, DutyList and DutyAttribution  *)
(* for TLC.                                                                  *)
EXTENDS CrewHoursReport, FiniteSets

Buffered == 0 - Buffer .. 3 + Buffer
WeekDays == 0 .. 3

SomeRow == [day : Buffered, key : Keys, value : Augmentation]

\* Up to two duty rows anywhere in and around the period.
SmallWorlds == {{}} \union {{a, b} : a, b \in SomeRow}

TwoCrews == {"crew1", "crew2"}

\* Legs of four days; each ends as it departs or a unit later.
LegsOf(crews) == {[crew |-> c, off |-> t, on |-> t + d] :
                    c \in crews, t \in 0 .. 4 * DayLength - 1, d \in {0, 1}}

LatestFirst(s) == \A i, j \in DOMAIN s : i < j => s[i].off >= s[j].off

\* Up to four legs of one crew, enough for a duty that outlasts the window, or
\* two of it and one of another, of none or without a date.  LEON sends the latest
\* first; legs that depart together come in any order, and may be the same.
SmallSchedules ==
    {s \in UNION {[1 .. n -> LegsOf({"crew1"})] : n \in 0 .. 4} : LatestFirst(s)}
    \union {s \in [1 .. 3 -> LegsOf({"crew1", "crew2", NoCrew, NoDate})] :
              /\ LatestFirst(s)
              /\ Cardinality({i \in 1 .. 3 : s[i].crew = "crew1"}) = 2}

\* The first day, which a duty may outlast by more than the buffer; two days in
\* the middle; and the last day, whose window does not show the first.
SomePeriods == {<<0, 0>>, <<1, 2>>, <<3, 3>>}

\* Any duty rows and no legs, and LEON as unreliable as it likes; or any legs, a
\* few periods, and LEON answering.
SmallInit == /\ trouble \in BOOLEAN
             /\ held \in IF trouble THEN SmallWorlds ELSE {{}}
             /\ schedule \in IF trouble THEN {<<>>} ELSE SmallSchedules
             /\ \E from, to \in Days :
                  /\ trouble \/ <<from, to>> \in SomePeriods
                  /\ from <= to /\ period = [from |-> from, to |-> to]
             /\ ReportInit

SmallSpec == SmallInit /\ [][ReportNext]_reportVars /\ ReportFairness
=============================================================================
