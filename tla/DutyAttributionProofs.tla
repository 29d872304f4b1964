------------------------- MODULE DutyAttributionProofs -------------------------
(***************************************************************************)
(* The attribution of legs for every schedule and every period: a report,  *)
(* which sees a window of the schedule, counts the legs whose duties begin *)
(* in its period as the whole schedule tells, and the undated rows of its  *)
(* window.                                                                 *)
(*                                                                         *)
(* The loop's duties are a recursive function of the legs.  Nothing here   *)
(* is an induction rule: a leg for which a claim fails is taken as early   *)
(* as there is one, and the leg before it gives the contradiction.         *)
(***************************************************************************)
EXTENDS DutyAttribution, WellFoundedInduction, FiniteSetTheorems, TLAPS

-----------------------------------------------------------------------------
(* The order of the legs *)

\* A set of numbers that is not empty has a least element.
LEMMA LeastElement ==
    ASSUME NEW S, S \subseteq Nat, S # {}
    PROVE  \E x \in S : \A y \in S : x <= y
<1>1. PICK x \in S : \A y \in S : ~(<<y, x>> \in OpToRel(<, Nat))
  BY WFMin, NatLessThanWellFounded
<1>2. \A y \in S : ~(y < x)
  BY <1>1 DEF OpToRel
<1> QED
  BY <1>2

\* Of finitely many things, each with those ahead of it, one has none ahead.
LEMMA SomeHasNoneAhead ==
    ASSUME NEW S, IsFiniteSet(S), S # {},
           NEW ahead \in [S -> SUBSET S],
           \A k \in S : \A j \in ahead[k] :
               ahead[j] \subseteq ahead[k] /\ j \notin ahead[j]
    PROVE  \E k \in S : ahead[k] = {}
<1> DEFINE counts == {Cardinality(ahead[k]) : k \in S}
<1>1. \A k \in S : IsFiniteSet(ahead[k]) /\ Cardinality(ahead[k]) \in Nat
  BY FS_Subset, FS_CardinalityType
<1>2. PICK n \in counts : \A m \in counts : n <= m
  <2>1. counts \subseteq Nat /\ counts # {}
    BY <1>1
  <2> HIDE DEF counts
  <2> QED
    BY <2>1, LeastElement
<1>3. PICK k \in S : n = Cardinality(ahead[k])
  BY <1>2
<1>4. \A j \in ahead[k] : FALSE
  <2> SUFFICES ASSUME NEW j \in ahead[k] PROVE FALSE
    OBVIOUS
  <2>1. j \in S /\ ahead[j] \subseteq ahead[k] /\ ahead[j] # ahead[k]
    OBVIOUS
  <2>2. Cardinality(ahead[j]) \in Nat /\ Cardinality(ahead[k]) \in Nat
    BY <1>1, <2>1
  <2>3. Cardinality(ahead[j]) < Cardinality(ahead[k])
    <3>1. /\ Cardinality(ahead[j]) <= Cardinality(ahead[k])
          /\ Cardinality(ahead[j]) = Cardinality(ahead[k]) => ahead[j] = ahead[k]
      BY <1>1, <2>1, FS_Subset, Zenon
    <3> QED
      BY <2>1, <2>2, <3>1
  <2>4. Cardinality(ahead[k]) <= Cardinality(ahead[j])
    BY <1>2, <1>3, <2>1
  <2> QED
    BY <2>2, <2>3, <2>4
<1> QED
  BY <1>4

\* Departure, then place: a strict order of the legs, and no two are equal in it.
LEMMA EarlierOrders ==
    ASSUME NEW legs \in Seq(Leg)
    PROVE  /\ \A i \in DOMAIN legs : legs[i].off \in Int /\ ~Earlier(legs, i, i)
           /\ \A i, j \in DOMAIN legs :
                /\ i = j \/ Earlier(legs, i, j) \/ Earlier(legs, j, i)
                /\ Earlier(legs, i, j) => legs[i].off <= legs[j].off
           /\ \A i, j, k \in DOMAIN legs :
                Earlier(legs, i, j) /\ Earlier(legs, j, k) => Earlier(legs, i, k)
<1>1. \A i \in DOMAIN legs : i \in Int /\ legs[i].off \in Int
  BY DEF Leg
<1> QED
  BY <1>1 DEF Earlier

\* Some leg of any of the legs is the latest, and some the first.
LEMMA LatestExists ==
    ASSUME NEW legs \in Seq(Leg), NEW S \in SUBSET DOMAIN legs, S # {}
    PROVE  \E k \in S : \A j \in S : j = k \/ Earlier(legs, j, k)
<1> DEFINE after == [k \in S |-> {j \in S : Earlier(legs, k, j)}]
<1>1. IsFiniteSet(S)
  BY FS_Interval, FS_Subset
<1>2. \A k \in S : \A j \in after[k] :
          after[j] \subseteq after[k] /\ j \notin after[j]
  BY EarlierOrders
<1>3. PICK k \in S : after[k] = {}
  BY <1>1, <1>2, SomeHasNoneAhead
<1> QED
  BY <1>3, EarlierOrders

LEMMA FirstExists ==
    ASSUME NEW legs \in Seq(Leg), NEW S \in SUBSET DOMAIN legs, S # {}
    PROVE  \E k \in S : \A j \in S : j = k \/ Earlier(legs, k, j)
<1> DEFINE ahead == [k \in S |-> {j \in S : Earlier(legs, j, k)}]
<1>1. IsFiniteSet(S)
  BY FS_Interval, FS_Subset
<1>2. \A k \in S : \A j \in ahead[k] :
          ahead[j] \subseteq ahead[k] /\ j \notin ahead[j]
  BY EarlierOrders
<1>3. PICK k \in S : ahead[k] = {}
  BY <1>1, <1>2, SomeHasNoneAhead
<1> QED
  BY <1>3, EarlierOrders

\* Latest is that leg, and no other.
LEMMA LatestIsLast ==
    ASSUME NEW legs \in Seq(Leg), NEW S \in SUBSET DOMAIN legs, S # {}
    PROVE  /\ Latest(legs, S) \in S
           /\ \A j \in S : j = Latest(legs, S) \/ Earlier(legs, j, Latest(legs, S))
BY LatestExists DEF Latest

LEMMA LastIsLatest ==
    ASSUME NEW legs \in Seq(Leg), NEW S \in SUBSET DOMAIN legs, NEW k \in S,
           \A j \in S : j = k \/ Earlier(legs, j, k)
    PROVE  Latest(legs, S) = k
BY LatestIsLast, EarlierOrders


-----------------------------------------------------------------------------
(* The loop over the legs of a crew *)

\* The legs among rows, of i's crew and no later, that begin a duty in the loop.
Begun(legs, rows, i) ==
    {k \in rows : /\ legs[k].crew = legs[i].crew
                  /\ k = i \/ Earlier(legs, k, i)
                  /\ ~Continued(legs, rows, k)}

\* The leg the loop has just visited is the latest before this one.
LEMMA PreviousIsLast ==
    ASSUME NEW legs \in Seq(Leg), NEW rows \in SUBSET DOMAIN legs,
           NEW i \in rows, Before(legs, rows, i) # {}
    PROVE  /\ Previous(legs, rows, i) \in rows
           /\ legs[Previous(legs, rows, i)].crew = legs[i].crew
           /\ Earlier(legs, Previous(legs, rows, i), i)
           /\ \A j \in Before(legs, rows, i) :
                \/ j = Previous(legs, rows, i)
                \/ Earlier(legs, j, Previous(legs, rows, i))
<1>1. Before(legs, rows, i) \in SUBSET DOMAIN legs
  BY DEF Before
<1>2. /\ Previous(legs, rows, i) \in Before(legs, rows, i)
      /\ \A j \in Before(legs, rows, i) :
           \/ j = Previous(legs, rows, i)
           \/ Earlier(legs, j, Previous(legs, rows, i))
  BY <1>1, LatestIsLast DEF Previous
<1> QED
  BY <1>2 DEF Before

\* The first leg of a crew begins a duty, so a duty has begun at every leg.
LEMMA SomeDutyBegun ==
    ASSUME NEW legs \in Seq(Leg), NEW rows \in SUBSET DOMAIN legs, NEW i \in rows
    PROVE  Begun(legs, rows, i) # {}
<1> DEFINE mates == {k \in rows : legs[k].crew = legs[i].crew}
<1>1. PICK k \in mates : \A j \in mates : j = k \/ Earlier(legs, k, j)
  BY FirstExists
<1>2. Before(legs, rows, k) = {}
  BY <1>1, EarlierOrders DEF Before
<1> QED
  BY <1>1, <1>2 DEF Begun, Continued

\* A leg that goes on with a duty has the duties begun before it.
LEMMA ContinuedHasBegun ==
    ASSUME NEW legs \in Seq(Leg), NEW rows \in SUBSET DOMAIN legs,
           NEW i \in rows, Continued(legs, rows, i)
    PROVE  Begun(legs, rows, i) = Begun(legs, rows, Previous(legs, rows, i))
<1> DEFINE p == Previous(legs, rows, i)
<1>1. /\ p \in rows /\ legs[p].crew = legs[i].crew /\ Earlier(legs, p, i)
      /\ \A j \in Before(legs, rows, i) : j = p \/ Earlier(legs, j, p)
  BY PreviousIsLast DEF Continued
<1> HIDE DEF p
<1>2. \A k \in rows : legs[k].crew = legs[i].crew /\ Earlier(legs, k, i) =>
          k = p \/ Earlier(legs, k, p)
  BY <1>1 DEF Before
<1>3. ASSUME NEW k \in rows PROVE k \in Begun(legs, rows, i) <=> k \in Begun(legs, rows, p)
  BY <1>1, <1>2, EarlierOrders DEF Begun
<1>4. \A j \in rows : Begun(legs, rows, j) \subseteq rows
  BY DEF Begun
<1> QED
  BY <1>1, <1>3, <1>4 DEF p

\* A leg that does not is the latest of them.
LEMMA BeginningIsLatest ==
    ASSUME NEW legs \in Seq(Leg), NEW rows \in SUBSET DOMAIN legs,
           NEW i \in rows, ~Continued(legs, rows, i)
    PROVE  Latest(legs, Begun(legs, rows, i)) = i
<1>1. /\ Begun(legs, rows, i) \in SUBSET DOMAIN legs
      /\ i \in Begun(legs, rows, i)
      /\ \A j \in Begun(legs, rows, i) : j = i \/ Earlier(legs, j, i)
  BY DEF Begun
<1> QED
  BY <1>1, LastIsLatest

\* The function that the loop computes is there: the latest duty begun.
LEMMA DutyStartsIsDefined ==
    ASSUME NEW legs \in Seq(Leg), NEW rows \in SUBSET DOMAIN legs
    PROVE  DutyStarts(legs, rows) =
             [i \in rows |-> IF Continued(legs, rows, i)
                             THEN DutyStarts(legs, rows)[Previous(legs, rows, i)]
                             ELSE i]
<1> DEFINE F(s) == [i \in rows |-> IF Continued(legs, rows, i)
                                   THEN s[Previous(legs, rows, i)] ELSE i]
           latest == [i \in rows |-> Latest(legs, Begun(legs, rows, i))]
<1>1. latest = F(latest)
  <2>1. ASSUME NEW i \in rows PROVE latest[i] = F(latest)[i]
    <3>1. CASE Continued(legs, rows, i)
      <4>1. Previous(legs, rows, i) \in rows
        BY <3>1, PreviousIsLast DEF Continued
      <4> QED
        BY <3>1, <4>1, ContinuedHasBegun
    <3>2. CASE ~Continued(legs, rows, i)
      BY <3>2, BeginningIsLatest
    <3> QED
      BY <3>1, <3>2
  <2> QED
    BY <2>1
<1>2. DutyStarts(legs, rows) = CHOOSE s : s = F(s)
  BY DEF DutyStarts
<1> HIDE DEF F, latest
<1>3. DutyStarts(legs, rows) = F(DutyStarts(legs, rows))
  BY <1>1, <1>2
<1> QED
  BY <1>3 DEF F

\* Every leg gets the latest duty begun: the first leg that would not could not
\* go on with the duty of the one before.
LEMMA DutyStartsIsLatestBegun ==
    ASSUME NEW legs \in Seq(Leg), NEW rows \in SUBSET DOMAIN legs
    PROVE  \A i \in rows :
             DutyStarts(legs, rows)[i] = Latest(legs, Begun(legs, rows, i))
<1> DEFINE start == DutyStarts(legs, rows)
           wrong == {i \in rows : start[i] # Latest(legs, Begun(legs, rows, i))}
<1> SUFFICES ASSUME wrong # {} PROVE FALSE
  OBVIOUS
<1>1. PICK i \in wrong : \A j \in wrong : j = i \/ Earlier(legs, i, j)
  BY FirstExists
<1>2. \A k \in rows : start[k] = IF Continued(legs, rows, k)
                                 THEN start[Previous(legs, rows, k)] ELSE k
  BY DutyStartsIsDefined
<1> HIDE DEF start
<1>3. CASE Continued(legs, rows, i)
  <2>1. /\ Previous(legs, rows, i) \in rows
        /\ Earlier(legs, Previous(legs, rows, i), i)
    BY <1>3, PreviousIsLast DEF Continued
  <2>2. Previous(legs, rows, i) \notin wrong
    BY <1>1, <2>1, EarlierOrders
  <2> QED
    BY <1>1, <1>2, <1>3, <2>1, <2>2, ContinuedHasBegun
<1>4. CASE ~Continued(legs, rows, i)
  BY <1>1, <1>2, <1>4, BeginningIsLatest
<1> QED
  BY <1>3, <1>4

\* Over the whole schedule the loop goes on where a duty does.
LEMMA LoopFollowsDuties ==
    ASSUME NEW legs \in Seq(Leg), NEW i \in DOMAIN legs
    PROVE  /\ Continued(legs, DOMAIN legs, i) <=> Continues(legs, i)
           /\ Begun(legs, DOMAIN legs, i) = Firsts(legs, i)
<1>1. ASSUME NEW l \in DOMAIN legs
      PROVE  Continued(legs, DOMAIN legs, l) <=> Continues(legs, l)
  <2> DEFINE before == Before(legs, DOMAIN legs, l)
             p == Previous(legs, DOMAIN legs, l)
  <2>1. \A k \in DOMAIN legs : legs[k].off \in Int /\ legs[k].on \in Int
    BY DEF Leg
  <2>2. \A k \in DOMAIN legs :
            Connected(legs[k], legs[l]) <=>
                /\ legs[k].on <= legs[l].off
                /\ legs[l].off < legs[k].on + DutyBreak
    BY <2>1, UnitsAssumption DEF Connected
  <2>3. before = {k \in OfCrew(legs, legs[l].crew) : Earlier(legs, k, l)}
    BY DEF Before, OfCrew
  <2>4. ASSUME Continued(legs, DOMAIN legs, l) PROVE Continues(legs, l)
    <3>1. /\ p \in before /\ p \in DOMAIN legs /\ Connected(legs[p], legs[l])
          /\ \A j \in before : j = p \/ Earlier(legs, j, p)
      BY <2>4, PreviousIsLast DEF Continued, Before
    <3> HIDE DEF p, before
    <3>2. \A j \in OfCrew(legs, legs[l].crew) :
              ~(Earlier(legs, p, j) /\ Earlier(legs, j, l))
      BY <2>3, <3>1, EarlierOrders DEF OfCrew
    <3> QED
      BY <2>2, <2>3, <3>1, <3>2 DEF Continues
  <2>5. ASSUME Continues(legs, l) PROVE Continued(legs, DOMAIN legs, l)
    <3>1. PICK k \in before :
              /\ Connected(legs[k], legs[l])
              /\ \A j \in before : ~Earlier(legs, k, j)
      BY <2>2, <2>3, <2>5 DEF Continues, OfCrew
    <3>2. before \in SUBSET DOMAIN legs
      BY <2>3 DEF OfCrew
    <3>3. p = k
      BY <3>1, <3>2, LastIsLatest, EarlierOrders DEF Previous
    <3> QED
      BY <3>1, <3>3 DEF Continued
  <2> QED
    BY <2>4, <2>5
<1> QED
  BY <1>1 DEF Begun, Firsts, OfCrew

\* The duty of a leg begins on the day of the leg that the loop, over the whole
\* schedule, begins it with.
LEMMA DutyDayIsStart ==
    ASSUME NEW legs \in Seq(Leg), NEW i \in DOMAIN legs, legs[i].crew \in Crews
    PROVE  DutyDay(legs, i) =
             Day(legs[Latest(legs, Begun(legs, DOMAIN legs, i))].off)
BY LoopFollowsDuties DEF DutyDay

-----------------------------------------------------------------------------
(* Days *)

\* A later time is not of an earlier day; less than the buffer later is at most
\* the buffer's days later.
LEMMA DaysPass ==
    ASSUME NEW t \in Int, NEW u \in Int
    PROVE  /\ Day(t) \in Int
           /\ t <= u => Day(t) <= Day(u)
           /\ u < t + ReadBuffer * DayLength => Day(u) <= Day(t) + ReadBuffer
<1> DEFINE p == Day(t)
           q == Day(u)
           d == DayLength
<1>1. /\ d \in Nat \ {0} /\ ReadBuffer \in Nat
  BY UnitsAssumption
<1>2. /\ p \in Int /\ q \in Int
      /\ t - p * d \in 0 .. d - 1 /\ u - q * d \in 0 .. d - 1
  BY <1>1 DEF Day
<1> HIDE DEF p, q, d
<1>3. ASSUME NEW b \in Nat, p + b < q PROVE t + b * d <= u
  <2>1. (p + b + 1) * d <= q * d
    BY <1>1, <1>2, <1>3
  <2>2. (p + b + 1) * d = p * d + b * d + d
    BY <1>1, <1>2
  <2>3. b * d \in Int /\ p * d \in Int /\ q * d \in Int
    BY <1>1, <1>2
  <2> QED
    BY <1>1, <1>2, <2>1, <2>2, <2>3
<1>4. ASSUME q < p PROVE u < t
  <2>1. (q + 1) * d <= p * d
    BY <1>1, <1>2, <1>4
  <2>2. (q + 1) * d = q * d + d
    BY <1>1, <1>2
  <2>3. p * d \in Int /\ q * d \in Int
    BY <1>1, <1>2
  <2> QED
    BY <1>1, <1>2, <2>1, <2>2, <2>3
<1>5. ReadBuffer * d \in Int
  BY <1>1
<1> QED
  BY <1>1, <1>2, <1>3, <1>4, <1>5 DEF p, q, d

-----------------------------------------------------------------------------
(* A duty through the window of a report *)

\* The legs of a window, by their days, and no leg between two of them missing.
LEMMA WindowOfDays ==
    ASSUME NEW legs \in Seq(Leg), NEW from \in Int, NEW to \in Int
    PROVE  LET window == Fetched(legs, from, to)
           IN /\ window \in SUBSET DOMAIN legs
              /\ \A i \in DOMAIN legs :
                   /\ Day(legs[i].off) \in Int
                   /\ i \in window <=> /\ from - ReadBuffer <= Day(legs[i].off)
                                       /\ Day(legs[i].off) <= to + ReadBuffer
              /\ \A i, j \in DOMAIN legs :
                   Earlier(legs, i, j) => Day(legs[i].off) <= Day(legs[j].off)
<1>1. \A i \in DOMAIN legs : Day(legs[i].off) \in Int
  BY EarlierOrders, DaysPass
<1>2. \A i, j \in DOMAIN legs :
          Earlier(legs, i, j) => Day(legs[i].off) <= Day(legs[j].off)
  <2> SUFFICES ASSUME NEW i \in DOMAIN legs, NEW j \in DOMAIN legs,
                      Earlier(legs, i, j)
               PROVE  Day(legs[i].off) <= Day(legs[j].off)
    OBVIOUS
  <2>1. /\ legs[i].off \in Int /\ legs[j].off \in Int
        /\ legs[i].off <= legs[j].off
    BY EarlierOrders
  <2> QED
    BY <2>1, DaysPass
<1>3. from - ReadBuffer \in Int /\ to + ReadBuffer \in Int
  BY UnitsAssumption
<1> QED
  BY <1>1, <1>2, <1>3 DEF Fetched

\* A window shows the leg right before one of its own, unless it shows none of
\* that crew before it.
LEMMA PreviousInWindow ==
    ASSUME NEW legs \in Seq(Leg), NEW from \in Int, NEW to \in Int,
           NEW k \in Fetched(legs, from, to),
           Before(legs, Fetched(legs, from, to), k) # {}
    PROVE  /\ Before(legs, DOMAIN legs, k) # {}
           /\ Previous(legs, Fetched(legs, from, to), k) =
                Previous(legs, DOMAIN legs, k)
<1> DEFINE window == Fetched(legs, from, to)
           p == Previous(legs, DOMAIN legs, k)
<1>1. window \in SUBSET DOMAIN legs
  BY WindowOfDays
<1>2. Before(legs, window, k) = Before(legs, DOMAIN legs, k) \intersect window
  BY <1>1 DEF Before
<1>3. PICK q \in Before(legs, window, k) : TRUE
  OBVIOUS
<1>4. /\ p \in Before(legs, DOMAIN legs, k) /\ p \in DOMAIN legs
      /\ Earlier(legs, p, k)
      /\ \A j \in Before(legs, DOMAIN legs, k) : j = p \/ Earlier(legs, j, p)
  <2>1. k \in DOMAIN legs /\ Before(legs, DOMAIN legs, k) # {}
    BY <1>1, <1>2, <1>3
  <2>2. /\ p \in DOMAIN legs /\ legs[p].crew = legs[k].crew
        /\ Earlier(legs, p, k)
        /\ \A j \in Before(legs, DOMAIN legs, k) : j = p \/ Earlier(legs, j, p)
    BY <2>1, PreviousIsLast
  <2>3. p \in Before(legs, DOMAIN legs, k)
    BY <2>2 DEF Before
  <2> QED
    BY <2>2, <2>3
<1> HIDE DEF p
<1>5. p \in window
  <2>1. q \in window /\ q \in DOMAIN legs /\ (q = p \/ Earlier(legs, q, p))
    BY <1>1, <1>2, <1>3, <1>4
  <2>2. /\ Day(legs[q].off) <= Day(legs[p].off)
        /\ Day(legs[p].off) <= Day(legs[k].off)
    BY <1>1, <1>4, <2>1, WindowOfDays
  <2>3. from - ReadBuffer \in Int /\ to + ReadBuffer \in Int
    BY UnitsAssumption
  <2> QED
    BY <1>1, <1>4, <2>1, <2>2, <2>3, WindowOfDays
<1>6. Before(legs, window, k) \in SUBSET DOMAIN legs
  BY <1>1 DEF Before
<1>7. Latest(legs, Before(legs, window, k)) = p
  BY <1>2, <1>4, <1>5, <1>6, LastIsLatest
<1> QED
  BY <1>2, <1>3, <1>7 DEF Previous, p

\* What goes on with a duty in a window does so in the whole schedule.
LEMMA ContinuedInWindow ==
    ASSUME NEW legs \in Seq(Leg), NEW from \in Int, NEW to \in Int,
           NEW k \in Fetched(legs, from, to),
           Continued(legs, Fetched(legs, from, to), k)
    PROVE  Continued(legs, DOMAIN legs, k)
BY PreviousInWindow DEF Continued

\* The window hides the leg that begins a duty only from legs that depart before
\* the period: a leg departs at most the buffer's days after the one it goes on
\* from.
LEMMA BufferIsWideEnough ==
    ASSUME NEW legs \in Seq(Leg), NEW from \in Int, NEW to \in Int,
           NEW k \in Fetched(legs, from, to),
           Continued(legs, DOMAIN legs, k), from <= Day(legs[k].off)
    PROVE  Continued(legs, Fetched(legs, from, to), k)
<1> DEFINE window == Fetched(legs, from, to)
           p == Previous(legs, DOMAIN legs, k)
<1>1. window \in SUBSET DOMAIN legs /\ k \in DOMAIN legs
  BY WindowOfDays
<1>2. /\ p \in DOMAIN legs /\ legs[p].crew = legs[k].crew /\ Earlier(legs, p, k)
      /\ Connected(legs[p], legs[k])
  BY <1>1, PreviousIsLast DEF Continued
<1> HIDE DEF p
<1>3. legs[k].off < legs[p].off + ReadBuffer * DayLength
  <2>1. /\ legs[p].off \in Int /\ legs[p].on \in Int /\ legs[k].off \in Int
        /\ legs[p].on < legs[p].off + DayLength
    BY <1>1, <1>2 DEF Leg
  <2>2. legs[k].off < legs[p].on + DutyBreak
    BY <1>2, <2>1, UnitsAssumption DEF Connected
  <2> DEFINE buffer == ReadBuffer * DayLength
  <2>3. buffer \in Int /\ DayLength + DutyBreak <= buffer
    BY UnitsAssumption, BufferAssumption
  <2> HIDE DEF buffer
  <2>4. legs[k].off < legs[p].off + buffer
    <3>1. DayLength \in Int /\ DutyBreak \in Int
      BY UnitsAssumption
    <3>2. \A off, on, next, length, break \in Int :
            on < off + length /\ next < on + break
              => next < off + (length + break)
      OBVIOUS
    <3>3. legs[k].off < legs[p].off + (DayLength + DutyBreak)
      BY ONLY <2>1, <2>2, <3>1, <3>2
    <3> QED
      BY <2>1, <2>3, <3>1, <3>3
  <2> QED
    BY <2>4 DEF buffer
<1>4. Day(legs[k].off) <= Day(legs[p].off) + ReadBuffer
  BY <1>1, <1>2, <1>3, EarlierOrders, DaysPass
<1>5. Day(legs[p].off) <= Day(legs[k].off)
  BY <1>1, <1>2, WindowOfDays
<1>6. p \in window
  <2>1. Day(legs[k].off) <= to + ReadBuffer
    BY <1>1, WindowOfDays
  <2>2. /\ Day(legs[p].off) \in Int /\ Day(legs[k].off) \in Int
        /\ ReadBuffer \in Int
    BY <1>1, <1>2, WindowOfDays, UnitsAssumption
  <2>3. /\ from - ReadBuffer <= Day(legs[p].off)
        /\ Day(legs[p].off) <= to + ReadBuffer
    BY <1>4, <1>5, <2>1, <2>2
  <2> QED
    BY <1>2, <2>3, WindowOfDays
<1>7. p \in Before(legs, window, k)
  BY <1>2, <1>6 DEF Before
<1>8. Previous(legs, window, k) = p
  BY <1>7, PreviousInWindow DEF p
<1> QED
  BY <1>2, <1>7, <1>8 DEF Continued

\* So a leg whose duty begins in the period, by the window or by the whole
\* schedule, has the same first leg in both.
LEMMA WindowShowsStart ==
    ASSUME NEW legs \in Seq(Leg), NEW from \in Int, NEW to \in Int,
           NEW i \in Fetched(legs, from, to), NEW k \in DOMAIN legs,
           from <= Day(legs[k].off)
    PROVE  k = Latest(legs, Begun(legs, Fetched(legs, from, to), i))
             <=> k = Latest(legs, Begun(legs, DOMAIN legs, i))
<1> DEFINE window == Fetched(legs, from, to)
           seen == Begun(legs, window, i)
           all == Begun(legs, DOMAIN legs, i)
<1>1. window \in SUBSET DOMAIN legs /\ i \in DOMAIN legs
  BY WindowOfDays
<1>2. /\ seen \in SUBSET DOMAIN legs /\ all \in SUBSET DOMAIN legs
      /\ seen # {} /\ all # {}
  BY <1>1, SomeDutyBegun DEF Begun
<1>3. ASSUME NEW j \in DOMAIN legs, j = k \/ Earlier(legs, k, j)
      PROVE  j \in seen <=> j \in all
  <2>1. from <= Day(legs[j].off) /\ Day(legs[j].off) \in Int
    BY <1>3, WindowOfDays
  <2>2. j = i \/ Earlier(legs, j, i) => j \in window
    <3>1. from - ReadBuffer <= Day(legs[j].off)
      BY <2>1, UnitsAssumption
    <3>2. Day(legs[i].off) <= to + ReadBuffer /\ Day(legs[i].off) \in Int
      BY <1>1, WindowOfDays
    <3>3. j = i \/ Earlier(legs, j, i) => Day(legs[j].off) <= Day(legs[i].off)
      BY <1>1, <2>1, WindowOfDays
    <3>4. to + ReadBuffer \in Int
      BY UnitsAssumption
    <3> QED
      BY <2>1, <3>1, <3>2, <3>3, <3>4, WindowOfDays
  <2>3. j \in window =>
          (Continued(legs, window, j) <=> Continued(legs, DOMAIN legs, j))
    BY <2>1, ContinuedInWindow, BufferIsWideEnough
  <2> QED
    BY <1>1, <2>2, <2>3 DEF Begun
<1> HIDE DEF seen, all
<1>4. /\ Latest(legs, seen) \in seen
      /\ \A j \in seen : j = Latest(legs, seen) \/ Earlier(legs, j, Latest(legs, seen))
      /\ Latest(legs, all) \in all
      /\ \A j \in all : j = Latest(legs, all) \/ Earlier(legs, j, Latest(legs, all))
  BY <1>2, LatestIsLast
<1>5. ASSUME k = Latest(legs, seen) PROVE k = Latest(legs, all)
  <2>1. \A j \in all : j = k \/ Earlier(legs, j, k)
    BY <1>2, <1>3, <1>4, <1>5, EarlierOrders
  <2> QED
    BY <1>2, <1>3, <1>4, <1>5, <2>1, LastIsLatest
<1>6. ASSUME k = Latest(legs, all) PROVE k = Latest(legs, seen)
  <2>1. \A j \in seen : j = k \/ Earlier(legs, j, k)
    BY <1>2, <1>3, <1>4, <1>6, EarlierOrders
  <2> QED
    BY <1>2, <1>3, <1>4, <1>6, <2>1, LastIsLatest
<1> QED
  BY <1>5, <1>6 DEF seen, all

\* A report counts the legs of the duties that begin in its period, unless they
\* depart after its window, and the undated rows of its window, whatever period
\* they are of.
THEOREM ReportCountsDuties ==
    ASSUME NEW legs \in Seq(Leg), NEW from \in Int, NEW to \in Int, from <= to
    PROVE  Report(legs, from, to) = Due(legs, from, to)
<1> DEFINE window == Fetched(legs, from, to)
           start == DutyStarts(legs, window)
           first(i) == Latest(legs, Begun(legs, DOMAIN legs, i))
<1>1. /\ window \in SUBSET DOMAIN legs
      /\ \A i \in window : start[i] = Latest(legs, Begun(legs, window, i))
  BY WindowOfDays, DutyStartsIsLatestBegun
<1>2. Report(legs, from, to) =
        {i \in window : \/ legs[i].crew = NoDate
                        \/ legs[i].crew = NoCrew /\ Day(legs[i].off) \in from .. to
                        \/ /\ legs[i].crew \in Crews
                           /\ Day(legs[start[i]].off) \in from .. to}
  BY DEF Report, SelectRows
<1> HIDE DEF start
<1>3. ASSUME NEW i \in DOMAIN legs,
             from <= Day(legs[i].off), Day(legs[i].off) <= to + ReadBuffer
      PROVE  i \in window
  BY <1>3, WindowOfDays, UnitsAssumption
<1>4. ASSUME NEW i \in DOMAIN legs, legs[i].crew = NoCrew
      PROVE  i \in Report(legs, from, to) <=>
               DutyDay(legs, i) \in from .. to /\ Day(legs[i].off) <= to + ReadBuffer
  BY <1>2, <1>3, <1>4, WindowOfDays, CrewsAssumption DEF DutyDay
<1>5. ASSUME NEW i \in DOMAIN legs, legs[i].crew \in Crews
      PROVE  i \in Report(legs, from, to) <=>
               DutyDay(legs, i) \in from .. to /\ Day(legs[i].off) <= to + ReadBuffer
  <2>1. DutyDay(legs, i) = Day(legs[first(i)].off)
    BY <1>5, DutyDayIsStart
  <2>2. first(i) \in DOMAIN legs /\ (first(i) = i \/ Earlier(legs, first(i), i))
    <3>1. /\ Begun(legs, DOMAIN legs, i) \in SUBSET DOMAIN legs
          /\ Begun(legs, DOMAIN legs, i) # {}
      BY SomeDutyBegun DEF Begun
    <3> QED
      BY <3>1, LatestIsLast DEF Begun
  <2>3. i \in window => start[i] \in DOMAIN legs
    <3>1. Begun(legs, window, i) \in SUBSET DOMAIN legs
      BY <1>1 DEF Begun
    <3> QED
      BY <1>1, <3>1, SomeDutyBegun, LatestIsLast
  <2> HIDE DEF first
  <2>4. ASSUME i \in Report(legs, from, to)
        PROVE  DutyDay(legs, i) \in from .. to /\ Day(legs[i].off) <= to + ReadBuffer
    <3>1. i \in window /\ Day(legs[start[i]].off) \in from .. to
      BY <1>2, <1>5, <2>4, CrewsAssumption
    <3>2. start[i] = first(i)
      BY <1>1, <2>3, <3>1, WindowShowsStart DEF first
    <3> QED
      BY <2>1, <3>1, <3>2, WindowOfDays
  <2>5. ASSUME DutyDay(legs, i) \in from .. to, Day(legs[i].off) <= to + ReadBuffer
        PROVE  i \in Report(legs, from, to)
    <3>1. from <= Day(legs[first(i)].off)
      BY <2>1, <2>5
    <3>2. from <= Day(legs[i].off)
      BY <2>2, <3>1, WindowOfDays
    <3>3. i \in window
      BY <1>3, <2>5, <3>2
    <3>4. start[i] = first(i)
      BY <1>1, <2>2, <3>1, <3>3, WindowShowsStart DEF first
    <3> QED
      BY <1>2, <1>5, <2>1, <2>5, <3>3, <3>4
  <2> QED
    BY <2>4, <2>5
<1>6. ASSUME NEW i \in DOMAIN legs, legs[i].crew = NoDate
      PROVE  i \in Report(legs, from, to) <=>
               Day(legs[i].off) \in from - ReadBuffer .. to + ReadBuffer
  BY <1>2, <1>6, WindowOfDays, UnitsAssumption
<1>7. \A i \in DOMAIN legs : legs[i].crew \in Crews \union {NoCrew, NoDate}
  BY DEF Leg
<1>8. Report(legs, from, to) \subseteq DOMAIN legs
  BY <1>1, <1>2
<1>9. \A i \in DOMAIN legs : i \in Report(legs, from, to) <=> i \in Due(legs, from, to)
  BY <1>4, <1>5, <1>6, <1>7, CrewsAssumption DEF Due, Undated
<1> QED
  BY <1>8, <1>9 DEF Due, Undated

-----------------------------------------------------------------------------
(* Two reports or one *)

\* An undated row is due in every report whose window has it.
LEMMA UndatedAreDue ==
    ASSUME NEW legs, NEW from, NEW to, NEW i \in Undated(legs)
    PROVE  i \in Due(legs, from, to)
             <=> Day(legs[i].off) \in from - ReadBuffer .. to + ReadBuffer
<1> DEFINE dated == {k \in DOMAIN legs \ Undated(legs) :
                       /\ DutyDay(legs, k) \in from .. to
                       /\ Day(legs[k].off) <= to + ReadBuffer}
           undated == {k \in Undated(legs) :
                         Day(legs[k].off) \in from - ReadBuffer .. to + ReadBuffer}
<1>1. Due(legs, from, to) = dated \union undated
  BY DEF Due
<1>2. i \notin dated
  OBVIOUS
<1>3. i \in undated
        <=> Day(legs[i].off) \in from - ReadBuffer .. to + ReadBuffer
  OBVIOUS
<1> QED
  BY <1>1, <1>2, <1>3

\* The report of a period and the reports of its two parts count the same legs,
\* except that the first part misses what a duty of its own still flies later than
\* its window: asking for two months one by one may count less than asking for
\* both.  It may count more as well: a leg with a date is in one part only, but an
\* undated row that lies within the buffer of the seam is in both.  Nothing in the
\* code says either.
THEOREM PeriodsSplit ==
    ASSUME NEW legs \in Seq(Leg),
           NEW from \in Int, NEW middle \in Int, NEW to \in Int,
           from <= middle, middle < to
    PROVE  LET whole  == Report(legs, from, to)
               first  == Report(legs, from, middle)
               second == Report(legs, middle + 1, to)
           IN /\ first \intersect second =
                   {i \in Undated(legs) : Day(legs[i].off) \in
                        (middle + 1) - ReadBuffer .. middle + ReadBuffer}
              /\ first \union second =
                   {i \in whole : \/ i \in Undated(legs)
                                  \/ middle < DutyDay(legs, i)
                                  \/ Day(legs[i].off) <= middle + ReadBuffer}
<1>1. /\ Report(legs, from, to) = Due(legs, from, to)
      /\ Report(legs, from, middle) = Due(legs, from, middle)
      /\ Report(legs, middle + 1, to) = Due(legs, middle + 1, to)
  BY ReportCountsDuties
<1>2. \A i \in DOMAIN legs : Day(legs[i].off) \in Int
  BY WindowOfDays
<1>3. \A d \in Int : /\ d \in from .. to <=> d \in from .. middle \/ d \in middle + 1 .. to
                     /\ d \in middle + 1 .. to => middle < d
                     /\ d \in from .. middle => ~(middle < d)
                     /\ d \in from .. to /\ middle < d => d \in middle + 1 .. to
  OBVIOUS
<1>4. \A d \in Int : d <= middle + ReadBuffer => d <= to + ReadBuffer
  BY UnitsAssumption
<1>5. \A d \in Int :
        LET early == d \in from - ReadBuffer .. middle + ReadBuffer
            late  == d \in (middle + 1) - ReadBuffer .. to + ReadBuffer
        IN /\ early /\ late <=> d \in (middle + 1) - ReadBuffer .. middle + ReadBuffer
           /\ early \/ late <=> d \in from - ReadBuffer .. to + ReadBuffer
  BY UnitsAssumption
<1>6. ASSUME NEW i \in Undated(legs)
      PROVE  /\ i \in Report(legs, from, middle) /\ i \in Report(legs, middle + 1, to)
                  <=> Day(legs[i].off) \in (middle + 1) - ReadBuffer .. middle + ReadBuffer
             /\ i \in Report(legs, from, middle) \/ i \in Report(legs, middle + 1, to)
                  <=> i \in Report(legs, from, to)
  <2> DEFINE d == Day(legs[i].off)
  <2>1. d \in Int /\ i \in DOMAIN legs
    BY <1>2, <1>6 DEF Undated
  <2>2. /\ i \in Report(legs, from, to) <=> d \in from - ReadBuffer .. to + ReadBuffer
        /\ i \in Report(legs, from, middle)
             <=> d \in from - ReadBuffer .. middle + ReadBuffer
        /\ i \in Report(legs, middle + 1, to)
             <=> d \in (middle + 1) - ReadBuffer .. to + ReadBuffer
    <3>1. i \in Due(legs, from, to) <=> d \in from - ReadBuffer .. to + ReadBuffer
      BY UndatedAreDue
    <3>2. i \in Due(legs, from, middle)
            <=> d \in from - ReadBuffer .. middle + ReadBuffer
      BY UndatedAreDue
    <3>3. i \in Due(legs, middle + 1, to)
            <=> d \in (middle + 1) - ReadBuffer .. to + ReadBuffer
      BY UndatedAreDue
    <3> QED
      BY <1>1, <3>1, <3>2, <3>3, Zenon
  <2> HIDE DEF d
  <2>3. /\ i \in Report(legs, from, middle) /\ i \in Report(legs, middle + 1, to)
             <=> d \in (middle + 1) - ReadBuffer .. middle + ReadBuffer
        /\ i \in Report(legs, from, middle) \/ i \in Report(legs, middle + 1, to)
             <=> i \in Report(legs, from, to)
    BY <1>5, <2>1, <2>2
  <2> QED
    BY <2>3 DEF d
<1>7. ASSUME NEW i \in DOMAIN legs \ Undated(legs)
      PROVE  /\ ~(i \in Report(legs, from, middle) /\ i \in Report(legs, middle + 1, to))
             /\ i \in Report(legs, from, middle) \/ i \in Report(legs, middle + 1, to)
                  <=> /\ i \in Report(legs, from, to)
                      /\ \/ middle < DutyDay(legs, i)
                         \/ Day(legs[i].off) <= middle + ReadBuffer
  BY <1>1, <1>2, <1>3, <1>4, <1>7 DEF Due
<1>8. /\ Report(legs, from, to) \subseteq DOMAIN legs
      /\ Report(legs, from, middle) \subseteq DOMAIN legs
      /\ Report(legs, middle + 1, to) \subseteq DOMAIN legs
      /\ Undated(legs) \subseteq DOMAIN legs
  BY <1>1 DEF Due, Undated
<1> QED
  BY <1>6, <1>7, <1>8
=============================================================================
