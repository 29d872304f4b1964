------------------------------- MODULE DutyList -------------------------------
(***************************************************************************)
(* The crew-augmentation index of a Crew Hours report:                     *)
(* fetch_augmented_index and build_augmented_index of                      *)
(* backend/statistics/crew_hours/augmented.py over execute_query of        *)
(* graphql.py.                                                             *)
(*                                                                         *)
(* LEON refuses long intervals, so the period, widened by a buffer, is     *)
(* asked for chunk by chunk.  Each chunk is one query, repeated once with  *)
(* a new access token when LEON refuses the old one.  The index keeps a    *)
(* value only where every duty row agrees, so a day that is skipped turns  *)
(* an ambiguous flight into one that looks resolved.                       *)
(***************************************************************************)
EXTENDS Integers

CONSTANTS
    Days,         \* the days a period may start or end on
    MaxInterval,  \* MAX_DUTY_LIST_INTERVAL_DAYS
    Buffer,       \* READ_BUFFER_DAYS of domain.py
    Keys,         \* a crew code and a sector
    Worlds        \* the duty rows LEON may hold

\* What _map_augmentation makes of a duty's crewAugmentation.
Augmentation == {"augmented", "normal", "unknown"}

DutyRow == [day : Int, key : Keys, value : Augmentation]

ASSUME DaysAssumption == Days \subseteq Int
ASSUME IntervalAssumption == MaxInterval \in Nat \ {0} /\ Buffer \in Nat
ASSUME WorldsAssumption == Worlds \subseteq SUBSET DutyRow

VARIABLES
    period,      \* the report's dates
    held,        \* the duty rows LEON holds
    chunkStart,  \* the first day that is not answered yet
    answered,    \* the intervals LEON has answered
    rows,        \* duty_rows
    attempt,     \* of the query under way
    outcome      \* "asking", then "built" or "unavailable"

vars == <<period, held, chunkStart, answered, rows, attempt, outcome>>
asking == <<period, held, chunkStart, answered, rows>>

\* buffered_query_dates
Start == period.from - Buffer
End == period.to + Buffer

Asking == outcome = "asking" /\ chunkStart <= End

\* Mutant of ChunkEnd: chunks a day longer than LEON accepts.
LongChunkEnd == IF chunkStart + MaxInterval < End
                THEN chunkStart + MaxInterval ELSE End

ChunkEnd == IF chunkStart + MaxInterval - 1 < End
            THEN chunkStart + MaxInterval - 1 ELSE End

DutiesBetween(first, last) == {r \in held : first <= r.day /\ r.day <= last}

-----------------------------------------------------------------------------
\* Mutant of AnswerChunk: the next chunk starts on the day after the next.
AnswerSkippingDay ==
    /\ Asking
    /\ rows' = rows \union DutiesBetween(chunkStart, ChunkEnd)
    /\ answered' = answered \union {<<chunkStart, ChunkEnd>>}
    /\ chunkStart' = ChunkEnd + 2
    /\ attempt' = 1
    /\ UNCHANGED <<period, held, outcome>>

\* Mutant of AnswerChunk: the next chunk starts on the day this one ended.
AnswerSharingDay ==
    /\ Asking
    /\ rows' = rows \union DutiesBetween(chunkStart, ChunkEnd)
    /\ answered' = answered \union {<<chunkStart, ChunkEnd>>}
    /\ chunkStart' = IF ChunkEnd = End THEN End + 1 ELSE ChunkEnd
    /\ attempt' = 1
    /\ UNCHANGED <<period, held, outcome>>

AnswerChunk ==
    /\ Asking
    /\ rows' = rows \union DutiesBetween(chunkStart, ChunkEnd)
    /\ answered' = answered \union {<<chunkStart, ChunkEnd>>}
    /\ chunkStart' = ChunkEnd + 1
    /\ attempt' = 1
    /\ UNCHANGED <<period, held, outcome>>

\* Mutant of RefuseToken: every second refusal starts the attempts anew.
RefuseTokenForever ==
    /\ Asking
    /\ attempt' = 3 - attempt
    /\ UNCHANGED <<asking, outcome>>

\* Mutant of RefuseToken: nobody counts the attempts up to the limit.
RefuseTokenUncounted ==
    /\ Asking
    /\ attempt' = attempt + 1
    /\ UNCHANGED <<asking, outcome>>

\* 401 or 403, to a cached token or a new one: forget the token and repeat the
\* query with another, once.
RefuseToken ==
    /\ Asking
    /\ \/ attempt = 1 /\ attempt' = 2 /\ UNCHANGED outcome
       \/ attempt = 2 /\ outcome' = "unavailable" /\ UNCHANGED attempt
    /\ UNCHANGED asking

\* Any other failure, of a query or of building the index from the rows: the
\* service reports the index as unavailable.
QueryFails ==
    /\ outcome = "asking"
    /\ outcome' = "unavailable"
    /\ UNCHANGED <<asking, attempt>>

BuildIndex ==
    /\ outcome = "asking" /\ chunkStart > End
    /\ outcome' = "built"
    /\ UNCHANGED <<asking, attempt>>

-----------------------------------------------------------------------------
Init ==
    /\ \E from, to \in Days : from <= to /\ period = [from |-> from, to |-> to]
    /\ held \in Worlds
    /\ chunkStart = Start
    /\ answered = {} /\ rows = {}
    /\ attempt = 1
    /\ outcome = "asking"

Next == AnswerChunk \/ RefuseToken \/ QueryFails \/ BuildIndex

Spec == Init /\ [][Next]_vars

-----------------------------------------------------------------------------
(* The index *)

Values(k, duties) == {r.value : r \in {d \in duties : d.key = k}}

\* by_crew_sector: the one value all rows of the key have, or no answer.
Lookup(k) == IF outcome = "built" /\ \E v \in Augmentation : Values(k, rows) = {v}
             THEN CHOOSE v \in Augmentation : Values(k, rows) = {v}
             ELSE "unknown"

\* What LEON holds of the buffered period, asked for in one interval.
InPeriod == DutiesBetween(Start, End)

-----------------------------------------------------------------------------
\* The rows the index is built from are LEON's own, and a query is sent at most
\* twice (execute_query's range(2)).
TypeOK ==
    /\ period \in [from : Int, to : Int] /\ period.from <= period.to
    /\ held \subseteq DutyRow
    /\ rows \subseteq held
    /\ chunkStart \in Int
    /\ answered \subseteq Int \X Int
    /\ attempt \in {1, 2}
    /\ outcome \in {"asking", "built", "unavailable"}

\* What the loop keeps: the answered days are those before chunkStart, each
\* answered once, and the rows are theirs.
LoopInv ==
    /\ Start <= chunkStart /\ chunkStart <= End + 1
    /\ rows = DutiesBetween(Start, chunkStart - 1)
    /\ \A i \in answered : Start <= i[1] /\ i[1] <= i[2] /\ i[2] < chunkStart
    /\ outcome = "built" => chunkStart = End + 1

\* "LEON rejects ftl.dutyList intervals longer than this" (augmented.py): no
\* query that is answered is longer, nor empty.
IntervalsAccepted ==
    \A i \in answered : i[1] <= i[2] /\ i[2] - i[1] < MaxInterval

\* No day is answered twice, whatever is repeated: a duty is never counted from
\* two chunks.
ChunksDisjoint ==
    \A i, j \in answered : i # j => i[2] < j[1] \/ j[2] < i[1]

\* The index is the one a single unlimited query would have given: where it has
\* an answer every duty row of the buffered period agrees with it, and where all
\* of them agree it has the answer - or there is no index at all.
IndexFaithful ==
    outcome = "built" =>
        \A k \in Keys : \A v \in Augmentation \ {"unknown"} :
            Lookup(k) = v <=> Values(k, InPeriod) = {v}
=============================================================================
