------------------------- MODULE CrewHoursReportProofs -------------------------
(***************************************************************************)
(* The report of CrewHoursReport for every period, every chunk length,     *)
(* every schedule and whatever LEON refuses: the chunk loop of DutyList    *)
(* skips no day and is answered for none twice; a report asks for the      *)
(* index as DutyList does, so that all of this holds in a report; it       *)
(* counts the legs that are its own; and the crew context it builds has    *)
(* every day once.                                                         *)
(***************************************************************************)
EXTENDS CrewHoursReport, DutyAttributionProofs

USE DaysAssumption, IntervalAssumption, WorldsAssumption

-----------------------------------------------------------------------------
(* The chunk loop *)

\* The queries answered so far obey LEON's limit and do not overlap.
ChunkInv == TypeOK /\ LoopInv /\ IntervalsAccepted /\ ChunksDisjoint

\* A chunk starts where the days that are not answered start, is not empty, ends
\* with the period at the latest, and is no longer than LEON allows.
LEMMA ChunkBounds ==
    ASSUME TypeOK, LoopInv, Asking
    PROVE  /\ Start \in Int /\ End \in Int /\ ChunkEnd \in Int
           /\ chunkStart <= ChunkEnd /\ ChunkEnd <= End
           /\ ChunkEnd - chunkStart < MaxInterval
BY DEF TypeOK, LoopInv, Asking, ChunkEnd, Start, End

\* Nothing is answered before the first query.
LEMMA InitChunkInv == Init => ChunkInv
<1> SUFFICES ASSUME Init PROVE ChunkInv
  OBVIOUS
<1>1. /\ period \in [from : Int, to : Int]
      /\ period.from <= period.to
  BY DEF Init
<1>2. held \subseteq DutyRow
  BY DEF Init
<1>3. TypeOK
  BY <1>1, <1>2 DEF Init, TypeOK, Start
<1>4. DutiesBetween(Start, chunkStart - 1) = {}
  BY <1>1, <1>2 DEF Init, DutiesBetween, Start, DutyRow
<1>5. LoopInv
  BY <1>1, <1>4 DEF Init, LoopInv, Start, End
<1> QED
  BY <1>3, <1>5 DEF Init, ChunkInv, IntervalsAccepted, ChunksDisjoint

\* An answer extends what has been answered by exactly the days of its chunk.
LEMMA AnswerKeepsChunkInv == ChunkInv /\ AnswerChunk => ChunkInv'
<1> SUFFICES ASSUME ChunkInv, AnswerChunk PROVE ChunkInv'
  OBVIOUS
<1> DEFINE chunk == <<chunkStart, ChunkEnd>>
<1>1. /\ Start \in Int /\ End \in Int /\ ChunkEnd \in Int
      /\ chunkStart \in Int
      /\ chunkStart <= ChunkEnd /\ ChunkEnd <= End
      /\ ChunkEnd - chunkStart < MaxInterval
  BY ChunkBounds DEF ChunkInv, AnswerChunk, TypeOK
<1>2. /\ answered' = answered \union {chunk}
      /\ chunkStart' = ChunkEnd + 1
      /\ rows' = rows \union DutiesBetween(chunkStart, ChunkEnd)
      /\ UNCHANGED <<period, held, outcome>> /\ attempt' = 1
      /\ outcome = "asking"
  BY DEF AnswerChunk, Asking
<1>3. chunk \in Int \X Int /\ chunk[1] = chunkStart /\ chunk[2] = ChunkEnd
  BY <1>1
<1>4. Start' = Start /\ End' = End
  BY <1>2 DEF Start, End
<1> HIDE DEF chunk
<1>5. TypeOK'
  BY <1>1, <1>2, <1>3 DEF ChunkInv, TypeOK, DutiesBetween
<1>6. rows' = DutiesBetween(Start, chunkStart' - 1)
  <2>1. rows = DutiesBetween(Start, chunkStart - 1) /\ Start <= chunkStart
    BY DEF ChunkInv, LoopInv
  <2>2. \A d \in Int : Start <= d /\ d <= ChunkEnd
                <=> (Start <= d /\ d <= chunkStart - 1)
                      \/ (chunkStart <= d /\ d <= ChunkEnd)
    BY <1>1, <2>1
  <2>3. \A r \in held : r.day \in Int
    BY DEF ChunkInv, TypeOK, DutyRow
  <2> QED
    BY <1>1, <1>2, <2>1, <2>2, <2>3 DEF DutiesBetween
<1>7. \A i \in answered : /\ i[1] \in Int /\ i[2] \in Int
                          /\ Start <= i[1] /\ i[1] <= i[2] /\ i[2] < chunkStart
                          /\ i[2] - i[1] < MaxInterval
  BY DEF ChunkInv, TypeOK, LoopInv, IntervalsAccepted
<1>8. LoopInv'
  <2>1. (rows = DutiesBetween(Start, chunkStart - 1))'
    BY <1>2, <1>4, <1>6 DEF DutiesBetween
  <2>2. Start <= chunkStart
    BY DEF ChunkInv, LoopInv
  <2> QED
    BY <1>1, <1>2, <1>3, <1>4, <1>7, <2>1, <2>2 DEF LoopInv
<1>9. IntervalsAccepted'
  BY <1>1, <1>2, <1>3, <1>7 DEF IntervalsAccepted
<1>10. ChunksDisjoint'
  <2>1. \A i, j \in answered : i # j => i[2] < j[1] \/ j[2] < i[1]
    BY DEF ChunkInv, ChunksDisjoint
  <2>2. \A i \in answered : i[2] < chunk[1]
    BY <1>3, <1>7
  <2> QED
    BY <1>2, <2>1, <2>2 DEF ChunksDisjoint
<1> QED
  BY <1>5, <1>8, <1>9, <1>10 DEF ChunkInv

\* Every other step leaves the answers alone, and the index is built only when
\* the last day is answered.
LEMMA StepKeepsChunkInv == ChunkInv /\ [Next]_vars => ChunkInv'
<1> SUFFICES ASSUME ChunkInv, [Next]_vars PROVE ChunkInv'
  OBVIOUS
<1>1. CASE AnswerChunk
  BY <1>1, AnswerKeepsChunkInv
<1>2. CASE RefuseToken \/ QueryFails \/ BuildIndex \/ UNCHANGED vars
  <2>1. /\ UNCHANGED asking
        /\ attempt' \in {1, 2}
        /\ outcome' \in {"asking", "built", "unavailable"}
        /\ outcome' = "built" => outcome = "built" \/ chunkStart > End
    BY <1>2 DEF RefuseToken, QueryFails, BuildIndex, vars, asking, ChunkInv, TypeOK
  <2>2. TypeOK'
    BY <2>1 DEF ChunkInv, TypeOK, asking
  <2>3. Start \in Int /\ End \in Int /\ chunkStart \in Int /\ chunkStart <= End + 1
    BY DEF ChunkInv, TypeOK, LoopInv, Start, End
  <2>4. LoopInv'
    BY <2>1, <2>3 DEF ChunkInv, LoopInv, asking, DutiesBetween, Start, End
  <2>5. IntervalsAccepted' /\ ChunksDisjoint'
    BY <2>1 DEF ChunkInv, IntervalsAccepted, ChunksDisjoint, asking
  <2> QED
    BY <2>2, <2>4, <2>5 DEF ChunkInv
<1> QED
  BY <1>1, <1>2 DEF Next

\* Every variable keeps its type: the rows are LEON's own and no query is made a
\* third time.
THEOREM DutyTypeCorrect == Spec => []TypeOK
<1>1. ChunkInv => TypeOK
  BY DEF ChunkInv
<1> QED
  BY <1>1, InitChunkInv, StepKeepsChunkInv, PTL DEF Spec

\* Whatever LEON answers or refuses, the loop's invariant holds.
THEOREM LoopInvariant == Spec => []LoopInv
<1>1. ChunkInv => LoopInv
  BY DEF ChunkInv
<1> QED
  BY <1>1, InitChunkInv, StepKeepsChunkInv, PTL DEF Spec

\* No answered query is longer than LEON's limit.
THEOREM IntervalsWithinLimit == Spec => []IntervalsAccepted
<1>1. ChunkInv => IntervalsAccepted
  BY DEF ChunkInv
<1> QED
  BY <1>1, InitChunkInv, StepKeepsChunkInv, PTL DEF Spec

\* No day is answered twice.
THEOREM EachDayOnce == Spec => []ChunksDisjoint
<1>1. ChunkInv => ChunksDisjoint
  BY DEF ChunkInv
<1> QED
  BY <1>1, InitChunkInv, StepKeepsChunkInv, PTL DEF Spec

\* The index built from the chunks is the index of the whole buffered period.
THEOREM ChunkingIsTransparent == Spec => []IndexFaithful
<1>1. ChunkInv => IndexFaithful
  <2> SUFFICES ASSUME ChunkInv, outcome = "built",
                      NEW k \in Keys, NEW v \in Augmentation \ {"unknown"}
               PROVE  Lookup(k) = v <=> Values(k, InPeriod) = {v}
    BY DEF IndexFaithful
  <2>1. chunkStart - 1 = End
    BY DEF ChunkInv, LoopInv, TypeOK, End
  <2>2. rows = InPeriod
    BY <2>1 DEF ChunkInv, LoopInv, InPeriod
  <2>3. CASE \E w \in Augmentation : Values(k, rows) = {w}
    <3>1. PICK w \in Augmentation : Values(k, rows) = {w}
      BY <2>3
    <3>2. \A u \in Augmentation : Values(k, rows) = {u} => u = w
      BY <3>1
    <3>3. Lookup(k) = w
      BY <2>3, <3>1, <3>2 DEF Lookup
    <3> QED BY <2>2, <3>1, <3>3
  <2>4. CASE ~ \E w \in Augmentation : Values(k, rows) = {w}
    BY <2>2, <2>4 DEF Lookup
  <2> QED BY <2>3, <2>4
<1> QED
  BY <1>1, InitChunkInv, StepKeepsChunkInv, PTL DEF Spec

-----------------------------------------------------------------------------
(* The augmentation index inside a report *)

\* A step of a report is one of DutyList's or leaves its variables alone.
LEMMA StepIsDutyListStep == [ReportNext]_reportVars => [Next]_vars
<1> SUFFICES ASSUME [ReportNext]_reportVars PROVE [Next]_vars
  OBVIOUS
<1>1. CASE FetchIndex
  BY <1>1 DEF FetchIndex, Next
<1>2. CASE FetchRows \/ RefuseRows \/ RowsFail
  BY <1>2 DEF FetchRows, RefuseRows, RowsFail
<1>3. CASE AnswerContext \/ RefuseContextToken \/ RejectFunction
             \/ ContextFails \/ BuildContext
  BY <1>3 DEF AnswerContext, RefuseContextToken, RejectFunction, ContextFails,
              BuildContext
<1>4. CASE UNCHANGED reportVars
  BY <1>4 DEF reportVars
<1> QED
  BY <1>1, <1>2, <1>3, <1>4 DEF ReportNext, Enrich

\* A report implements the fetch of the index, whatever happens around it.
THEOREM ReportImplementsDutyList == ReportSpec => Spec
<1>1. ReportInit => Init
  BY DEF ReportInit
<1> QED
  BY <1>1, StepIsDutyListStep, PTL DEF ReportSpec, Spec

\* The index of a report is the one a single unlimited query would give.
THEOREM ReportIndexFaithful == ReportSpec => []IndexFaithful
BY ReportImplementsDutyList, ChunkingIsTransparent, PTL

-----------------------------------------------------------------------------
(* The crew context *)

\* The days before contextStart have been answered; while the column is asked
\* for, all of them with it.
ContextInv ==
    /\ TypeOK
    /\ contextStart \in Int /\ Start <= contextStart /\ contextStart <= End + 1
    /\ asksFunction \in BOOLEAN
    /\ asksFunction => without = {}
    /\ ContextComplete

\* The days answered are those of a set of integers.
LEMMA ContextDays ==
    ASSUME ContextInv
    PROVE  /\ Start \in Int /\ End \in Int
           /\ withFunction \subseteq Int /\ without \subseteq Int
           /\ \A d \in withFunction \union without : d < contextStart
<1>1. Start \in Int /\ End \in Int /\ contextStart \in Int
  BY IntervalAssumption DEF ContextInv, TypeOK, Start, End
<1>2. withFunction \union without = Start .. contextStart - 1
  BY DEF ContextInv, ContextComplete
<1> QED
  BY <1>1, <1>2

\* Nothing has been answered before the first chunk.
LEMMA InitContextInv == ReportInit => ContextInv
<1> SUFFICES ASSUME ReportInit PROVE ContextInv
  OBVIOUS
<1>1. TypeOK
  BY InitChunkInv DEF ReportInit, ChunkInv
<1>2. Start \in Int /\ End \in Int /\ Start <= End
  BY <1>1, IntervalAssumption DEF TypeOK, Start, End
<1>3. ContextComplete
  BY <1>2 DEF ReportInit, ContextComplete
<1> QED
  BY <1>1, <1>2, <1>3 DEF ReportInit, ContextInv

\* An answer adds the days of its chunk, with the column only while every chunk
\* before it had it.
LEMMA AnswerKeepsContextInv ==
    ContextInv /\ TypeOK' /\ AnswerContext => ContextInv'
<1> SUFFICES ASSUME ContextInv, TypeOK', AnswerContext PROVE ContextInv'
  OBVIOUS
<1> DEFINE chunk == contextStart .. ContextEnd
<1>1. /\ Start \in Int /\ End \in Int /\ contextStart \in Int
      /\ withFunction \subseteq Int /\ without \subseteq Int
      /\ \A d \in withFunction \union without : d < contextStart
      /\ Start <= contextStart
  BY ContextDays DEF ContextInv
<1>2. /\ Start' = Start /\ End' = End
      /\ contextStart <= End
      /\ contextStart' = ContextEnd + 1
      /\ UNCHANGED <<asksFunction, contextOutcome>>
      /\ contextOutcome = "asking"
      /\ IF asksFunction
         THEN withFunction' = withFunction \union chunk /\ UNCHANGED without
         ELSE without' = without \union chunk /\ UNCHANGED withFunction
  BY DEF AnswerContext, AskingContext, InContext, vars, Start, End
<1>3. /\ ContextEnd \in Int /\ contextStart <= ContextEnd /\ ContextEnd <= End
  BY <1>1, <1>2, ContextAssumption DEF ContextEnd
<1>4. (withFunction \union without = Start .. contextStart - 1)'
  <2>1. Start .. ContextEnd = (Start .. contextStart - 1) \union chunk
    BY <1>1, <1>3
  <2>2. withFunction' \union without' = (withFunction \union without) \union chunk
    BY <1>2
  <2>3. withFunction \union without = Start .. contextStart - 1
    BY DEF ContextInv, ContextComplete
  <2>4. contextStart' - 1 = ContextEnd
    BY <1>2, <1>3
  <2> QED
    BY <1>2, <2>1, <2>2, <2>3, <2>4
<1>5. \A d \in withFunction', e \in without' : d < e
  <2>1. CASE asksFunction
    BY <1>2, <2>1 DEF ContextInv
  <2>2. CASE ~asksFunction
    <3>1. \A d \in withFunction, e \in chunk : d < e
      BY <1>1, <1>3
    <3> QED
      BY <1>2, <2>2, <3>1 DEF ContextInv, ContextComplete
  <2> QED
    BY <2>1, <2>2
<1>6. ContextComplete'
  BY <1>2, <1>4, <1>5 DEF ContextComplete
<1>7. asksFunction' => without' = {}
  BY <1>2 DEF ContextInv
<1> QED
  BY <1>1, <1>2, <1>3, <1>6, <1>7 DEF ContextInv

\* No other step adds days, and a context is built only when none is left.
LEMMA StepKeepsContextInv ==
    ContextInv /\ TypeOK' /\ [ReportNext]_reportVars => ContextInv'
<1> SUFFICES ASSUME ContextInv, TypeOK', [ReportNext]_reportVars
             PROVE  ContextInv'
  OBVIOUS
<1>1. Start \in Int /\ End \in Int
  BY ContextDays
<1>2. CASE AnswerContext
  BY <1>2, AnswerKeepsContextInv
<1>3. CASE FetchIndex
  <2>1. UNCHANGED context /\ UNCHANGED period
    BY <1>3 DEF FetchIndex, AnswerChunk, RefuseToken, QueryFails, BuildIndex,
                asking
  <2> QED
    BY <2>1 DEF ContextInv, ContextComplete, context, Start, End
<1>4. CASE \/ FetchRows \/ RefuseRows \/ RowsFail
           \/ UNCHANGED reportVars
  BY <1>4 DEF FetchRows, RefuseRows, RowsFail, reportVars, vars, context,
              ContextInv, ContextComplete, Start, End
<1>5. CASE RejectFunction \/ RefuseContextToken \/ ContextFails
  <2>1. /\ UNCHANGED <<period, contextStart, withFunction, without>>
        /\ asksFunction' \in BOOLEAN /\ (asksFunction' => asksFunction)
        /\ contextOutcome' # "built"
    <3>1. CASE RejectFunction
      BY <3>1 DEF RejectFunction, AskingContext, InContext, vars
    <3>2. CASE RefuseContextToken
      BY <3>2 DEF RefuseContextToken, AskingContext, InContext, vars, ContextInv
    <3>3. CASE ContextFails
      BY <3>3 DEF ContextFails, vars, ContextInv
    <3> QED
      BY <1>5, <3>1, <3>2, <3>3
  <2>2. Start' = Start /\ End' = End
    BY <2>1 DEF Start, End
  <2>3. ContextComplete'
    BY <2>1, <2>2 DEF ContextInv, ContextComplete
  <2> QED
    BY <2>1, <2>2, <2>3 DEF ContextInv
<1>6. CASE BuildContext
  <2>1. contextStart = End + 1
    BY <1>1, <1>6 DEF BuildContext, ContextInv
  <2> QED
    BY <1>6, <2>1 DEF BuildContext, vars, ContextInv, ContextComplete, Start, End
<1> QED
  BY <1>2, <1>3, <1>4, <1>5, <1>6 DEF ReportNext, Enrich

\* Whatever LEON refuses, the context has the flights of every day once, and
\* lacks the optional column only from some chunk on.
THEOREM ContextIsComplete == ReportSpec => []ContextComplete
<1>1. ReportSpec => []TypeOK
  BY ReportImplementsDutyList, DutyTypeCorrect, PTL
<1>2. ContextInv => ContextComplete
  BY DEF ContextInv
<1> QED
  BY <1>1, <1>2, InitContextInv, StepKeepsContextInv, PTL DEF ReportSpec

-----------------------------------------------------------------------------
(* The rows *)

\* The rows of a report are those that the schedule gives for its period, and
\* there are none before they are fetched.
RowsInv ==
    /\ trouble \in BOOLEAN /\ schedule \in Seq(Leg)
    /\ rowsOutcome \in {"asking", "fetched", "failed"}
    /\ tries \in {1, 2}
    /\ contextOutcome \in {"asking", "built", "unavailable"}
    /\ counted = IF rowsOutcome = "fetched"
                 THEN Report(schedule, period.from, period.to) ELSE {}

\* No step but the fetch touches the rows or what they are selected from.
LEMMA StepKeepsRowsInv == RowsInv /\ [ReportNext]_reportVars => RowsInv'
<1> SUFFICES ASSUME RowsInv, [ReportNext]_reportVars PROVE RowsInv'
  OBVIOUS
<1>1. CASE FetchRows
  BY <1>1 DEF FetchRows, RowsInv, vars, reporting, context
<1>2. CASE RefuseRows \/ RowsFail
  BY <1>2 DEF RefuseRows, RowsFail, RowsInv, vars, reporting, context
<1>3. CASE FetchIndex
  <2>1. UNCHANGED <<period, reporting, fetching, tries, context>>
    BY <1>3 DEF FetchIndex, AnswerChunk, RefuseToken, QueryFails, BuildIndex,
                asking
  <2> QED
    BY <2>1 DEF RowsInv, reporting, fetching, context
<1>4. CASE AnswerContext \/ RejectFunction \/ ContextFails \/ BuildContext
  <2>1. /\ UNCHANGED <<period, reporting, fetching>>
        /\ tries' \in {1, tries}
        /\ contextOutcome' \in {contextOutcome, "built", "unavailable"}
    BY <1>4 DEF AnswerContext, RejectFunction, ContextFails, BuildContext, vars
  <2> QED
    BY <2>1 DEF RowsInv, reporting, fetching
<1>5. CASE RefuseContextToken
  <2>1. /\ UNCHANGED <<period, reporting, fetching>>
        /\ tries' \in {2, tries}
        /\ contextOutcome' \in {contextOutcome, "unavailable"}
    BY <1>5 DEF RefuseContextToken, vars
  <2> QED
    BY <2>1 DEF RowsInv, reporting, fetching
<1>6. CASE UNCHANGED reportVars
  BY <1>6 DEF reportVars, vars, reporting, fetching, context, RowsInv
<1> QED
  BY <1>1, <1>2, <1>3, <1>4, <1>5, <1>6 DEF ReportNext, Enrich

\* Together with what the context's loop keeps.
LEMMA ReportInvariant == ReportSpec => [](RowsInv /\ ContextInv)
<1>1. ReportInit => RowsInv
  BY DEF ReportInit, RowsInv
<1>2. ReportSpec => []TypeOK
  BY ReportImplementsDutyList, DutyTypeCorrect, PTL
<1> QED
  BY <1>1, <1>2, InitContextInv, StepKeepsContextInv, StepKeepsRowsInv, PTL
     DEF ReportSpec

\* Every variable of a report keeps its type: it counts only legs it was given,
\* and repeats no request of LEON a third time.
THEOREM ReportTypeCorrect == ReportSpec => []ReportTypeOK
<1>1. RowsInv /\ ContextInv => ReportTypeOK
  <2> SUFFICES ASSUME RowsInv, ContextInv PROVE ReportTypeOK
    OBVIOUS
  <2>1. counted \subseteq DOMAIN schedule
    BY DEF RowsInv, Report, SelectRows, Fetched
  <2>2. Start \in Int /\ End \in Int /\ contextStart \in Int
    BY ContextDays DEF ContextInv
  <2>3. withFunction \union without \subseteq Start .. End
    BY <2>2 DEF ContextInv, ContextComplete
  <2> QED
    BY <2>1, <2>3 DEF RowsInv, ContextInv, ReportTypeOK
<1> QED
  BY <1>1, ReportInvariant, PTL

\* A period is one of whole days, and its report's rows are counted by duties.
LEMMA CountedByDuty ==
    ASSUME RowsInv, TypeOK
    PROVE  /\ period.from \in Int /\ period.to \in Int /\ period.from <= period.to
           /\ schedule \in Seq(Leg)
           /\ rowsOutcome = "fetched" =>
                counted = Due(schedule, period.from, period.to)
<1>1. /\ period.from \in Int /\ period.to \in Int /\ period.from <= period.to
      /\ schedule \in Seq(Leg)
  BY DEF TypeOK, RowsInv
<1> QED
  BY <1>1, ReportCountsDuties DEF RowsInv

\* A report counts a leg by where its duty begins in the whole schedule, however
\* little of the schedule its window shows; an undated row counts wherever it is
\* seen.
THEOREM DutiesAreAttributed == ReportSpec => []DutiesGoByTheirFirstLeg
<1>1. RowsInv /\ ContextInv => DutiesGoByTheirFirstLeg
  BY CountedByDuty DEF ContextInv, DutiesGoByTheirFirstLeg
<1> QED
  BY <1>1, ReportInvariant, PTL

\* Of the legs that the reports of two adjacent periods both count, none has a date;
\* an undated one is counted by both if it lies within the buffer of the seam; and
\* no leg of a duty that is over within the buffer is missed by both.
THEOREM LegsAreCountedOnce == ReportSpec => []LegsCountedOnce
<1>1. RowsInv /\ ContextInv => LegsCountedOnce
  <2> SUFFICES ASSUME RowsInv, TypeOK, rowsOutcome = "fetched",
                      NEW to \in Days, to > period.to
               PROVE  LET after == Report(schedule, period.to + 1, to)
                      IN /\ counted \intersect after =
                              {i \in Undated(schedule) :
                                 Day(schedule[i].off) \in period.to + 1 - Buffer
                                                           .. period.to + Buffer}
                         /\ \A i \in DOMAIN schedule :
                              LET day == DutyDay(schedule, i)
                              IN /\ day \in period.from .. to
                                 /\ Day(schedule[i].off) - day <= Buffer
                                 => i \in counted \union after
    BY DEF ContextInv, LegsCountedOnce
  <2> DEFINE after == Report(schedule, period.to + 1, to)
  <2>1. /\ period.from \in Int /\ period.to \in Int /\ to \in Int
        /\ period.from <= period.to /\ period.to + 1 <= to
        /\ schedule \in Seq(Leg)
    BY CountedByDuty
  <2>2. /\ counted = Due(schedule, period.from, period.to)
        /\ after = Due(schedule, period.to + 1, to)
    BY <2>1, CountedByDuty, ReportCountsDuties
  <2> HIDE DEF after
  <2>3. /\ ReadBuffer = Buffer /\ Buffer \in Nat
        /\ \A i \in DOMAIN schedule : Day(schedule[i].off) \in Int
    BY <2>1, OneBuffer, EarlierOrders, DaysPass
  <2>4. counted \intersect after =
          {i \in Undated(schedule) :
             Day(schedule[i].off) \in period.to + 1 - Buffer .. period.to + Buffer}
    <3>1. ASSUME NEW i \in Undated(schedule)
          PROVE  i \in counted /\ i \in after <=>
                   Day(schedule[i].off) \in period.to + 1 - Buffer .. period.to + Buffer
      BY <2>1, <2>2, <2>3, <3>1 DEF Due, Undated
    <3>2. ASSUME NEW i \in DOMAIN schedule \ Undated(schedule)
          PROVE  ~(i \in counted /\ i \in after)
      BY <2>1, <2>2, <3>2 DEF Due
    <3>3. /\ counted \subseteq DOMAIN schedule /\ after \subseteq DOMAIN schedule
          /\ Undated(schedule) \subseteq DOMAIN schedule
      BY <2>2 DEF Due, Undated
    <3> QED
      BY <3>1, <3>2, <3>3
  <2>5. ASSUME NEW i \in DOMAIN schedule,
               DutyDay(schedule, i) \in period.from .. to,
               Day(schedule[i].off) - DutyDay(schedule, i) <= Buffer
        PROVE  i \in counted \union after
    <3>1. CASE i \in Undated(schedule)
      <4>1. DutyDay(schedule, i) = Day(schedule[i].off)
        BY <3>1, CrewsAssumption DEF Undated, DutyDay
      <4> QED
        BY <2>1, <2>2, <2>3, <2>5, <3>1, <4>1 DEF Due
    <3>2. CASE i \notin Undated(schedule) /\ DutyDay(schedule, i) <= period.to
      BY <2>1, <2>2, <2>3, <2>5, <3>2 DEF Due
    <3>3. CASE i \notin Undated(schedule) /\ period.to + 1 <= DutyDay(schedule, i)
      BY <2>1, <2>2, <2>3, <2>5, <3>3 DEF Due
    <3> QED
      BY <2>1, <2>5, <3>1, <3>2, <3>3
  <2> QED
    BY <2>4, <2>5 DEF after
<1> QED
  BY <1>1, ReportInvariant, PTL

-----------------------------------------------------------------------------
(* What is left of a report *)

\* The requests and conclusions that each part of a report has ahead of it, at
\* most: two queries for every day that is not answered, and what the query under
\* way has left of its two attempts.
RowsLeft == IF rowsOutcome = "asking" THEN 3 - tries ELSE 0

IndexLeft == IF outcome = "asking"
             THEN 2 * (End + 1 - chunkStart) + 3 - attempt ELSE 0

ContextLeft ==
    IF contextOutcome = "asking"
    THEN 2 * (End + 1 - contextStart) + (IF asksFunction THEN 2 ELSE 0)
         + (IF rowsOutcome = "fetched" THEN 3 - tries ELSE 2)
    ELSE 0

StepsLeft == RowsLeft + IndexLeft + ContextLeft

\* At first there are four queries to every day of the buffered period, and eight
\* more.
StepsAtFirst == 4 * (End + 1 - Start) + 8

\* What the loops keep says that no part has less than nothing left, and a part
\* that still asks has something left.
LEMMA PartsLeft ==
    ASSUME RowsInv, ContextInv, LoopInv
    PROVE  /\ Start \in Int /\ End \in Int
           /\ chunkStart \in Int /\ chunkStart <= End + 1
           /\ contextStart \in Int /\ contextStart <= End + 1
           /\ attempt \in {1, 2} /\ tries \in {1, 2}
           /\ RowsLeft \in Nat /\ IndexLeft \in Nat /\ ContextLeft \in Nat
           /\ outcome = "asking" => IndexLeft > 0
           /\ contextOutcome = "asking" => ContextLeft > 0
<1>1. /\ Start \in Int /\ End \in Int
      /\ chunkStart \in Int /\ chunkStart <= End + 1
      /\ contextStart \in Int /\ contextStart <= End + 1
      /\ attempt \in {1, 2} /\ tries \in {1, 2}
  BY ContextDays DEF ContextInv, TypeOK, LoopInv, RowsInv
<1> QED
  BY <1>1 DEF RowsLeft, IndexLeft, ContextLeft

\* A sum falls with one of its parts.
LEMMA SumFalls ==
    \A r, i, c \in Int : \A q \in Int :
        /\ q < r => q + i + c \in Int /\ q + i + c < r + i + c
        /\ q < i => r + q + c \in Int /\ r + q + c < r + i + c
        /\ q < c => r + i + q \in Int /\ r + i + q < r + i + c
OBVIOUS

\* No step of a report is taken in vain.
LEMMA StepsRunOut ==
    ASSUME RowsInv, ContextInv, LoopInv, ReportNext
    PROVE  StepsLeft' \in Int /\ StepsLeft' < StepsLeft
<1>1. /\ Start \in Int /\ End \in Int
      /\ chunkStart \in Int /\ chunkStart <= End + 1
      /\ contextStart \in Int /\ contextStart <= End + 1
      /\ attempt \in {1, 2} /\ tries \in {1, 2}
      /\ RowsLeft \in Nat /\ IndexLeft \in Nat /\ ContextLeft \in Nat
      /\ outcome = "asking" => IndexLeft > 0
      /\ contextOutcome = "asking" => ContextLeft > 0
  BY PartsLeft
<1>2. /\ StepsLeft = RowsLeft + IndexLeft + ContextLeft
      /\ StepsLeft' = RowsLeft' + IndexLeft' + ContextLeft'
  BY DEF StepsLeft
<1>3. RowsLeft \in Int /\ IndexLeft \in Int /\ ContextLeft \in Int
  BY <1>1
<1>4. CASE FetchRows \/ RefuseRows \/ RowsFail
  <2>1. /\ UNCHANGED <<Start, End, chunkStart, attempt, outcome>>
        /\ UNCHANGED <<contextStart, asksFunction, contextOutcome>>
        /\ rowsOutcome = "asking"
        /\ \/ rowsOutcome' = "fetched" /\ tries' = 1
           \/ rowsOutcome' = "failed"
           \/ rowsOutcome' = "asking" /\ tries = 1 /\ tries' = 2
    BY <1>4 DEF FetchRows, RefuseRows, RowsFail, vars, context, Start, End
  <2>2. IndexLeft' = IndexLeft
    BY <2>1 DEF IndexLeft
  <2>3. ContextLeft' = ContextLeft /\ RowsLeft' \in Int /\ RowsLeft' < RowsLeft
    BY <1>1, <2>1 DEF ContextLeft, RowsLeft
  <2> QED
    BY <1>2, <1>3, <2>2, <2>3, SumFalls
<1>5. CASE FetchIndex
  <2>1. /\ UNCHANGED <<Start, End, rowsOutcome, tries>>
        /\ UNCHANGED <<contextStart, asksFunction, contextOutcome>>
        /\ outcome = "asking"
        /\ \/ AnswerChunk
           \/ UNCHANGED <<chunkStart, outcome>> /\ attempt = 1 /\ attempt' = 2
           \/ outcome' \in {"built", "unavailable"}
    BY <1>5 DEF FetchIndex, AnswerChunk, BuildIndex, RefuseToken, QueryFails,
                Asking, asking, fetching, context, Start, End
  <2>2. RowsLeft' = RowsLeft /\ ContextLeft' = ContextLeft
    BY <2>1 DEF RowsLeft, ContextLeft
  <2>3. IndexLeft' \in Int /\ IndexLeft' < IndexLeft
    <3>1. CASE AnswerChunk
      <4>1. /\ ChunkEnd \in Int /\ chunkStart <= ChunkEnd
            /\ chunkStart' = ChunkEnd + 1 /\ attempt' = 1 /\ outcome' = "asking"
        BY <2>1, <3>1, ChunkBounds DEF AnswerChunk, ContextInv
      <4> QED
        BY <1>1, <2>1, <4>1 DEF IndexLeft
    <3>2. CASE UNCHANGED <<chunkStart, outcome>> /\ attempt = 1 /\ attempt' = 2
      BY <1>1, <2>1, <3>2 DEF IndexLeft
    <3>3. CASE outcome' \in {"built", "unavailable"}
      BY <1>1, <2>1, <3>3 DEF IndexLeft
    <3> QED
      BY <2>1, <3>1, <3>2, <3>3
  <2> QED
    BY <1>2, <1>3, <2>2, <2>3, SumFalls
<1>6. CASE \/ AnswerContext \/ RefuseContextToken \/ RejectFunction
           \/ ContextFails \/ BuildContext
  <2>1. /\ UNCHANGED <<Start, End, chunkStart, attempt, outcome, rowsOutcome>>
        /\ rowsOutcome = "fetched" /\ contextOutcome = "asking"
        /\ \/ contextOutcome' \in {"built", "unavailable"}
           \/ UNCHANGED contextOutcome /\ AnswerContext
           \/ /\ UNCHANGED <<contextOutcome, contextStart, asksFunction>>
              /\ tries = 1 /\ tries' = 2
           \/ /\ UNCHANGED <<contextOutcome, contextStart>> /\ tries' = 1
              /\ asksFunction = TRUE /\ asksFunction' = FALSE
    BY <1>6 DEF AnswerContext, RefuseContextToken, RejectFunction, ContextFails,
                BuildContext, AskingContext, InContext, vars, fetching, Start,
                End, ContextInv
  <2>2. RowsLeft' = RowsLeft /\ IndexLeft' = IndexLeft
    BY <2>1 DEF RowsLeft, IndexLeft
  <2>3. ContextLeft' \in Int /\ ContextLeft' < ContextLeft
    <3>1. CASE AnswerContext
      <4>1. /\ ContextEnd \in Int /\ contextStart <= ContextEnd
            /\ contextStart' = ContextEnd + 1 /\ tries' = 1
            /\ UNCHANGED <<asksFunction, contextOutcome>>
        BY <1>1, <3>1, ContextAssumption
           DEF AnswerContext, AskingContext, ContextEnd
      <4> QED
        BY <1>1, <2>1, <4>1 DEF ContextLeft
    <3>2. CASE contextOutcome' \in {"built", "unavailable"}
      BY <1>1, <2>1, <3>2 DEF ContextLeft
    <3>3. CASE /\ UNCHANGED <<contextOutcome, contextStart, asksFunction>>
               /\ tries = 1 /\ tries' = 2
      BY <1>1, <2>1, <3>3 DEF ContextLeft
    <3>4. CASE /\ UNCHANGED <<contextOutcome, contextStart>> /\ tries' = 1
               /\ asksFunction = TRUE /\ asksFunction' = FALSE
      BY <1>1, <2>1, <3>4 DEF ContextLeft
    <3> QED
      BY <2>1, <3>1, <3>2, <3>3, <3>4
  <2> QED
    BY <1>2, <1>3, <2>2, <2>3, SumFalls
<1> QED
  BY <1>4, <1>5, <1>6 DEF ReportNext, Enrich

\* Whatever LEON refuses, and however often, every request and every conclusion
\* uses up one of a bounded number: two attempts for each day of the buffered
\* period and each of the two queries, and a few more.  A report cannot ask for
\* ever; that its thread goes on asking is the fairness ReportSettles assumes.
THEOREM ReportsAreFinite ==
    ReportSpec => /\ [](StepsLeft \in 0 .. StepsAtFirst)
                  /\ [][StepsLeft' < StepsLeft]_reportVars
<1> DEFINE Inv == RowsInv /\ ContextInv /\ LoopInv
<1>1. ReportSpec => []Inv
  <2>1. ReportSpec => []LoopInv
    BY ReportImplementsDutyList, LoopInvariant, PTL
  <2> QED
    BY <2>1, ReportInvariant, PTL
<1>2. Inv => StepsLeft \in Nat
  BY PartsLeft DEF StepsLeft
<1>3. Inv /\ ReportInit => StepsLeft <= StepsAtFirst
  <2> SUFFICES ASSUME Inv, ReportInit PROVE StepsLeft <= StepsAtFirst
    OBVIOUS
  <2>1. Start \in Int /\ End \in Int
    BY PartsLeft
  <2> QED
    BY <2>1 DEF ReportInit, Init, StepsLeft, RowsLeft, IndexLeft, ContextLeft,
                StepsAtFirst
<1>4. Inv /\ [ReportNext]_reportVars => [StepsLeft' < StepsLeft]_reportVars
  BY StepsRunOut
<1>5. Inv /\ StepsLeft <= StepsAtFirst /\ [ReportNext]_reportVars
        => (StepsLeft <= StepsAtFirst)'
  <2> SUFFICES ASSUME Inv, StepsLeft <= StepsAtFirst, [ReportNext]_reportVars
               PROVE  StepsLeft' <= StepsAtFirst'
    OBVIOUS
  <2>1. Start' = Start /\ End' = End
    <3>1. period' = period
      BY StepIsDutyListStep DEF Next, vars, AnswerChunk, RefuseToken, QueryFails,
                                BuildIndex, asking
    <3> QED
      BY <3>1 DEF Start, End
  <2>2. StepsAtFirst' = StepsAtFirst
    BY <2>1 DEF StepsAtFirst
  <2>3. StepsLeft \in Nat /\ StepsAtFirst \in Int
    BY <1>2, PartsLeft DEF StepsAtFirst
  <2>4. CASE ReportNext
    BY <2>2, <2>3, <2>4, StepsRunOut
  <2>5. CASE UNCHANGED reportVars
    <3>1. StepsLeft' = StepsLeft
      BY <2>1, <2>5 DEF reportVars, vars, fetching, context, StepsLeft, RowsLeft,
                        IndexLeft, ContextLeft
    <3> QED
      BY <2>2, <3>1
  <2> QED
    BY <2>4, <2>5
<1>6. Inv /\ StepsLeft <= StepsAtFirst => StepsLeft \in 0 .. StepsAtFirst
  <2> SUFFICES ASSUME Inv, StepsLeft <= StepsAtFirst
               PROVE  StepsLeft \in 0 .. StepsAtFirst
    OBVIOUS
  <2>1. StepsLeft \in Nat /\ StepsAtFirst \in Int
    BY <1>2, PartsLeft DEF StepsAtFirst
  <2> QED
    BY <2>1
<1> HIDE DEF Inv
<1> QED
  BY <1>1, <1>3, <1>4, <1>5, <1>6, PTL DEF ReportSpec
=============================================================================
