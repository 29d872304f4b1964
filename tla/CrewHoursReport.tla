---------------------------- MODULE CrewHoursReport ----------------------------
(***************************************************************************)
(* A Crew Hours report from request to response: get_crew_hours_report of  *)
(* backend/statistics/crew_hours/service.py.  It asks LEON for three       *)
(* things, one after the other, over the same buffered period:             *)
(*                                                                         *)
(*   - the rows of the official report (mcp_report.py), of which           *)
(*     DutyAttribution selects those that count; without them there is no  *)
(*     report;                                                             *)
(*   - the augmentation index, which is DutyList;                          *)
(*   - the crew context (crew_context.py), week by week, with an optional  *)
(*     column that is given up for good once LEON has not answered with it.*)
(*                                                                         *)
(* The last two may fail: the report then says "unknown" in their place.   *)
(***************************************************************************)
EXTENDS DutyList, DutyAttribution

CONSTANT MaxContext  \* CREW_CONTEXT_CHUNK_DAYS

ASSUME ContextAssumption == MaxContext \in Nat \ {0}
ASSUME OneBuffer == ReadBuffer = Buffer

VARIABLES
    trouble,         \* LEON may refuse or fail during this report
    schedule,        \* the report rows LEON holds
    rowsOutcome,     \* "asking", then "fetched" or "failed"
    counted,         \* the rows of the report
    tries,           \* of the row or context query under way
    contextStart,    \* the first day whose flights have not been answered yet
    asksFunction,    \* include_crew_function
    withFunction,    \* the days whose flights came with the column
    without,         \* the days whose flights came without it
    contextOutcome   \* "asking", then "built" or "unavailable"

reporting == <<trouble, schedule>>
fetching == <<rowsOutcome, counted>>
context == <<contextStart, asksFunction, withFunction, without, contextOutcome>>
reportVars == <<vars, reporting, fetching, tries, context>>

-----------------------------------------------------------------------------
(* The rows *)

FetchRows ==
    /\ rowsOutcome = "asking"
    /\ counted' = Report(schedule, period.from, period.to)
    /\ rowsOutcome' = "fetched"
    /\ tries' = 1
    /\ UNCHANGED <<vars, reporting, context>>

\* 401 or 403 to the first call or the second: both are made once more.
RefuseRows ==
    /\ rowsOutcome = "asking" /\ trouble
    /\ \/ tries = 1 /\ tries' = 2 /\ UNCHANGED rowsOutcome
       \/ tries = 2 /\ rowsOutcome' = "failed" /\ UNCHANGED tries
    /\ UNCHANGED <<vars, reporting, counted, context>>

RowsFail ==
    /\ rowsOutcome = "asking" /\ trouble
    /\ rowsOutcome' = "failed"
    /\ UNCHANGED <<vars, reporting, counted, tries, context>>

-----------------------------------------------------------------------------
(* The augmentation index *)

FetchIndex ==
    /\ rowsOutcome = "fetched"
    /\ \/ AnswerChunk \/ BuildIndex
       \/ trouble /\ (RefuseToken \/ QueryFails)
    /\ UNCHANGED <<reporting, fetching, tries, context>>

-----------------------------------------------------------------------------
(* The crew context *)

InContext == /\ rowsOutcome = "fetched" /\ outcome # "asking"
             /\ contextOutcome = "asking"

AskingContext == InContext /\ contextStart <= End

ContextEnd == IF contextStart + MaxContext - 1 < End
              THEN contextStart + MaxContext - 1 ELSE End

AnswerContext ==
    /\ AskingContext
    /\ IF asksFunction
       THEN /\ withFunction' = withFunction \union contextStart .. ContextEnd
            /\ UNCHANGED without
       ELSE /\ without' = without \union contextStart .. ContextEnd
            /\ UNCHANGED withFunction
    /\ contextStart' = ContextEnd + 1
    /\ tries' = 1
    /\ UNCHANGED <<vars, reporting, fetching, asksFunction, contextOutcome>>

RefuseContextToken ==
    /\ AskingContext /\ trouble
    /\ \/ tries = 1 /\ tries' = 2 /\ UNCHANGED contextOutcome
       \/ tries = 2 /\ contextOutcome' = "unavailable" /\ UNCHANGED tries
    /\ UNCHANGED <<vars, reporting, fetching, contextStart, asksFunction,
                   withFunction, without>>

\* Mutant of RejectFunction: the chunk that was refused is not asked again.
RejectFunctionAndChunk ==
    /\ AskingContext /\ trouble
    /\ asksFunction
    /\ asksFunction' = FALSE
    /\ contextStart' = ContextEnd + 1
    /\ tries' = 1
    /\ UNCHANGED <<vars, reporting, fetching, withFunction, without,
                   contextOutcome>>

\* Any error response, on any chunk: the chunk is asked again without the
\* column, and so are the chunks after it.
RejectFunction ==
    /\ AskingContext /\ trouble
    /\ asksFunction
    /\ asksFunction' = FALSE
    /\ tries' = 1
    /\ UNCHANGED <<vars, reporting, fetching, contextStart, withFunction,
                   without, contextOutcome>>

\* A timeout or a broken connection; an error response without the column; an
\* answer that cannot be read, or flights the context cannot be built from.
ContextFails ==
    /\ InContext /\ trouble
    /\ contextOutcome' = "unavailable"
    /\ UNCHANGED <<vars, reporting, fetching, tries, contextStart, asksFunction,
                   withFunction, without>>

BuildContext ==
    /\ InContext /\ contextStart > End
    /\ contextOutcome' = "built"
    /\ UNCHANGED <<vars, reporting, fetching, tries, contextStart, asksFunction,
                   withFunction, without>>

-----------------------------------------------------------------------------
(* The report *)

ReportInit ==
    /\ Init
    /\ trouble \in BOOLEAN
    /\ schedule \in Seq(Leg)
    /\ rowsOutcome = "asking" /\ counted = {}
    /\ tries = 1
    /\ contextStart = Start /\ asksFunction = TRUE
    /\ withFunction = {} /\ without = {}
    /\ contextOutcome = "asking"

Enrich == \/ FetchIndex
          \/ AnswerContext \/ RefuseContextToken \/ RejectFunction
          \/ ContextFails \/ BuildContext

ReportNext == FetchRows \/ RefuseRows \/ RowsFail \/ Enrich

\* The request's thread goes on until it has a response: it gets the rows or
\* fails, and then asks for the rest.
RowsEnd == rowsOutcome = "asking" /\ rowsOutcome' \in {"fetched", "failed"}

ReportFairness == WF_rowsOutcome(RowsEnd) /\ WF_reportVars(Enrich)

ReportSpec == ReportInit /\ [][ReportNext]_reportVars /\ ReportFairness

-----------------------------------------------------------------------------
(* Properties *)

\* Types, of the index included; the code's attempts are counted (range(2)).
ReportTypeOK ==
    /\ TypeOK
    /\ trouble \in BOOLEAN
    /\ schedule \in Seq(Leg)
    /\ rowsOutcome \in {"asking", "fetched", "failed"}
    /\ counted \subseteq DOMAIN schedule
    /\ tries \in {1, 2}
    /\ contextStart \in Int /\ asksFunction \in BOOLEAN
    /\ withFunction \subseteq Start .. End /\ without \subseteq Start .. End
    /\ contextOutcome \in {"asking", "built", "unavailable"}

\* A report counts the legs whose duties begin in its period, as the whole
\* schedule tells, except those that depart later than its window ends, and with
\* them the rows without a date that LEON sends for the window.  That a duty begun
\* before the window is recognised rests on BufferAssumption: two connected legs
\* cannot depart farther apart than the buffer is long (domain.py:119-192).
DutiesGoByTheirFirstLeg ==
    rowsOutcome = "fetched" => counted = Due(schedule, period.from, period.to)

\* The report of the period that follows counts no leg again that has a date, and
\* every undated one that lies within the buffer of the seam, which both reports
\* read; and it misses no leg of a duty that began in either period unless the
\* duty goes on for longer than the buffer (domain.py:140-182).
LegsCountedOnce ==
    rowsOutcome = "fetched" =>
        \A to \in {d \in Days : d > period.to} :
            LET after == Report(schedule, period.to + 1, to)
            IN /\ counted \intersect after =
                    {i \in Undated(schedule) :
                       Day(schedule[i].off) \in period.to + 1 - Buffer
                                                 .. period.to + Buffer}
               /\ \A i \in DOMAIN schedule :
                    LET day == DutyDay(schedule, i)
                    IN /\ day \in period.from .. to
                       /\ Day(schedule[i].off) - day <= Buffer
                       => i \in counted \union after

\* Whatever LEON refuses on the way, a context that is built has the flights of
\* every day of the buffered period, once, and it lacks the optional column only
\* from some chunk on (crew_context.py:159-187).
ContextComplete ==
    /\ withFunction \union without = Start .. contextStart - 1
    /\ \A d \in withFunction, e \in without : d < e
    /\ contextOutcome = "built" => contextStart = End + 1

\* The request ends: with an error, or with a report in which what LEON did not
\* give is unknown (service.py:76-108).
ReportSettles == <>(rowsOutcome = "failed" \/ contextOutcome # "asking")
=============================================================================
