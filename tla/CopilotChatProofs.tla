--------------------------- MODULE CopilotChatProofs ---------------------------
(***************************************************************************)
(* The copilot's panel, transport and service for any number of questions  *)
(* and chats: types, the one request that may still speak, and the thread  *)
(* of a chat.                                                              *)
(***************************************************************************)
EXTENDS CopilotChat, SequenceTheorems, WellFoundedInduction, TLAPS

USE BoundsAssumption DEF BoundsAssumption

-----------------------------------------------------------------------------
(* Sequences of questions *)

\* One question changes, and nothing else in the list.
LEMMA UpdatedAsk ==
    ASSUME NEW s \in Seq(Ask), NEW k \in DOMAIN s, NEW a \in Ask
    PROVE  /\ [s EXCEPT ![k] = a] \in Seq(Ask)
           /\ Len([s EXCEPT ![k] = a]) = Len(s)
           /\ DOMAIN [s EXCEPT ![k] = a] = DOMAIN s
           /\ \A i \in DOMAIN s : [s EXCEPT ![k] = a][i] = IF i = k THEN a ELSE s[i]
BY ExceptSeq, LenProperties

\* One more question at the end.
LEMMA AppendedAsk ==
    ASSUME NEW s \in Seq(Ask), NEW a \in Ask
    PROVE  /\ Append(s, a) \in Seq(Ask)
           /\ Len(s) \in Nat /\ Len(Append(s, a)) = Len(s) + 1
           /\ DOMAIN s = 1 .. Len(s)
           /\ DOMAIN Append(s, a) = 1 .. Len(s) + 1
           /\ \A i \in DOMAIN s : Append(s, a)[i] = s[i]
           /\ Append(s, a)[Len(s) + 1] = a
BY LenProperties

\* b is a, aborted by now if now holds.
SameButAborted(a, b, now) ==
    /\ b.stage = a.stage /\ b.chat = a.chat
    /\ b.asked = a.asked /\ b.thread = a.thread /\ b.place = a.place
    /\ b.reply = a.reply
    /\ IF now THEN b.aborted = TRUE ELSE b.aborted = a.aborted

\* Aborting changes no more than one flag.
LEMMA AbortedAsk ==
    ASSUME NEW s \in Seq(Ask), NEW c \in DOMAIN s \union {0}
    PROVE  /\ Aborted(s, c) \in Seq(Ask)
           /\ Len(Aborted(s, c)) = Len(s)
           /\ DOMAIN Aborted(s, c) = DOMAIN s
           /\ \A i \in DOMAIN s : SameButAborted(s[i], Aborted(s, c)[i], i = c)
<1>1. DOMAIN s = 1 .. Len(s) /\ Len(s) \in Nat
  BY LenProperties
<1>2. CASE c = 0
  BY <1>1, <1>2 DEF Aborted, SameButAborted
<1>3. CASE c # 0
  <2> DEFINE a == [s[c] EXCEPT !.aborted = TRUE]
  <2>1. c \in DOMAIN s /\ s[c] \in Ask
    BY <1>1, <1>3, ElementOfSeq
  <2>2. a \in Ask /\ SameButAborted(s[c], a, TRUE)
    BY <2>1 DEF Ask, SameButAborted
  <2>3. Aborted(s, c) = [s EXCEPT ![c] = a]
    BY <1>3 DEF Aborted
  <2> HIDE DEF a
  <2>4. \A i \in DOMAIN s : Aborted(s, c)[i] = IF i = c THEN a ELSE s[i]
    BY <2>1, <2>2, <2>3, UpdatedAsk
  <2>5. /\ Aborted(s, c) \in Seq(Ask)
        /\ Len(Aborted(s, c)) = Len(s)
        /\ DOMAIN Aborted(s, c) = DOMAIN s
    BY <2>1, <2>2, <2>3, UpdatedAsk
  <2>6. ASSUME NEW i \in DOMAIN s
        PROVE  SameButAborted(s[i], Aborted(s, c)[i], i = c)
    <3>1. CASE i = c
      BY <2>2, <2>4, <3>1 DEF SameButAborted
    <3>2. CASE i # c
      BY <2>4, <3>2 DEF SameButAborted
    <3> QED BY <3>1, <3>2
  <2> QED
    BY <2>5, <2>6
<1> QED
  BY <1>2, <1>3

-----------------------------------------------------------------------------
(* The invariant *)

\* The thread a question is put into.
ThreadOf(k) == IF ask[k].asked = 0 THEN k ELSE ask[k].asked

\* Only the last question is still running, and chats follow one another.
Ordered == /\ current \in {0, Len(ask)}
           /\ \A k \in Known : ask[k].chat <= chat
           /\ \A j, k \in Known : j < k => ask[j].chat <= ask[k].chat

\* A reply brings the thread of its own question, once there is one.
ThreadsKnown ==
    \A k \in Known :
        /\ ask[k].stage = "polling" => ask[k].thread = ThreadOf(k)
        /\ ask[k].stage \in {"sent", "polling"} => ask[k].reply = NoReply
        /\ ask[k].reply.kind = "error" => ask[k].reply.thread = 0
        /\ ask[k].reply.thread \in {0, ThreadOf(k)}

\* The transport holds the thread that the answers of the chat have named.
ThreadAdopted ==
    \A j \in Known :
        /\ ask[j].chat = chat
        /\ ask[j].stage = "handled" /\ ask[j].reply.thread # 0
        => threadId = ask[j].reply.thread

ChatInv == /\ TypeOK
           /\ OneAwaitedAsk
           /\ Ordered
           /\ ThreadsKnown
           /\ ThreadAdopted
           /\ ChatKeepsItsThread

\* What the types say of the questions.
LEMMA Questions ==
    ASSUME TypeOK
    PROVE  /\ Len(ask) \in Nat /\ Known = 1 .. Len(ask)
           /\ Known \subseteq Asks /\ Len(ask) <= MaxAsks /\ MaxAsks \in Nat
           /\ ask \in Seq(Ask)
           /\ \A k \in Known : ask[k] \in Ask
BY LenProperties, ElementOfSeq DEF TypeOK, Known, Asks

\* The request that abortRef holds is one of the questions.
LEMMA CurrentIsKnown ==
    ASSUME TypeOK, OneAwaitedAsk
    PROVE  /\ current \in Known \union {0}
           /\ \A k \in Known : Awaited(k) <=> k = current
<1>1. \A k \in Known : Awaited(k) <=> k \in {current} \ {0}
  BY DEF OneAwaitedAsk
<1>2. 0 \notin Known
  BY Questions
<1>3. {current} \ {0} \subseteq Known
  BY DEF OneAwaitedAsk
<1> QED
  BY <1>1, <1>2, <1>3

\* Wingman has a newest reply in a thread in which it has replied.
LEMMA LatestIsOne ==
    ASSUME TypeOK, NEW t \in Thread, RepliesIn(t) # {}
    PROVE  /\ Latest(RepliesIn(t)) \in RepliesIn(t)
           /\ \A i \in RepliesIn(t) : ask[i].place <= ask[Latest(RepliesIn(t))].place
<1> DEFINE S == RepliesIn(t)
           T == {posts[t] - ask[k].place : k \in S}
<1>1. /\ posts[t] \in Nat
      /\ \A k \in S : ask[k].place \in Nat /\ posts[t] - ask[k].place \in Nat
  <2>1. posts[t] \in Nat /\ \A k \in Known : ask[k].place <= posts[ask[k].thread]
    BY DEF TypeOK
  <2>2. \A k \in S : k \in Known /\ ask[k].thread = t /\ ask[k] \in Ask
    BY Questions DEF RepliesIn
  <2>3. \A k \in S : ask[k].place \in Nat /\ ask[k].place <= posts[t]
    BY <2>1, <2>2 DEF Ask
  <2> QED
    BY <2>1, <2>3
<1>2. S # {}
  OBVIOUS
<1> HIDE DEF S
<1>3. T \subseteq Nat /\ T # {}
  BY <1>1, <1>2
<1>4. PICK x \in T : \A y \in T : <<y, x>> \notin OpToRel(<, Nat)
  <2>1. IsWellFoundedOn(OpToRel(<, Nat), Nat)
    BY NatLessThanWellFounded
  <2> HIDE DEF T
  <2> QED
    BY <1>3, <2>1, WFMin
<1>5. PICK j \in S : x = posts[t] - ask[j].place
  BY <1>4
<1>6. \A i \in S : ask[i].place <= ask[j].place
  <2> SUFFICES ASSUME NEW i \in S PROVE ask[i].place <= ask[j].place
    OBVIOUS
  <2>1. posts[t] - ask[i].place \in T
    OBVIOUS
  <2>2. ~(posts[t] - ask[i].place < posts[t] - ask[j].place)
    BY <1>3, <1>4, <1>5, <2>1 DEF OpToRel
  <2> QED
    BY <1>1, <2>2
<1> QED
  BY <1>5, <1>6 DEF Latest, S

\* Nothing has been asked at first.
LEMMA InitChatInv == Init => ChatInv
<1> SUFFICES ASSUME Init PROVE ChatInv
  OBVIOUS
<1>1. Known = {} /\ Len(ask) = 0 /\ ask \in Seq(Ask) /\ messages \in Seq(Message)
  BY DEF Init, Known
<1>2. /\ row \in [Asks -> {"none", "pending", "waiting", "settled"}]
      /\ posts \in [Thread -> Nat]
  BY DEF Init
<1>3. current \in Thread /\ threadId \in Thread /\ chat \in Nat /\ Len(ask) <= MaxAsks
  BY <1>1 DEF Init, Thread
<1>4. open \in BOOLEAN /\ busy \in BOOLEAN
  BY DEF Init
<1>5. TypeOK
  BY <1>1, <1>2, <1>3, <1>4 DEF TypeOK
<1> QED
  BY <1>1, <1>5 DEF Init, ChatInv, OneAwaitedAsk, Ordered, ThreadsKnown,
                    ThreadAdopted, ChatKeepsItsThread

-----------------------------------------------------------------------------
(* The steps *)

\* Opening the panel and Wingman's own steps touch neither questions nor threads.
LEMMA OutsideKeepsChatInv ==
    ASSUME ChatInv, UNCHANGED <<busy, messages, current, threadId, chat, ask, posts>>,
           open' \in BOOLEAN,
           row' \in [Asks -> {"none", "pending", "waiting", "settled"}]
    PROVE  ChatInv'
BY DEF ChatInv, TypeOK, OneAwaitedAsk, Ordered, ThreadsKnown, ThreadAdopted,
       ChatKeepsItsThread, Known, Awaited, ThreadOf

\* Closing the panel, losing it or leaving the layout aborts what is awaited.
LEMMA AbortKeepsChatInv ==
    ASSUME ChatInv, ask' = Aborted(ask, current), current' = 0, busy' = FALSE,
           open' \in BOOLEAN, messages' \in Seq(Message), UNCHANGED <<row, posts>>,
           \/ UNCHANGED <<chat, threadId>>
           \/ chat' = chat + 1 /\ threadId' = 0
    PROVE  ChatInv'
<1>1. /\ ask' \in Seq(Ask) /\ Len(ask') = Len(ask) /\ Known' = Known
      /\ \A i \in Known : SameButAborted(ask[i], ask'[i], i = current)
  BY AbortedAsk, CurrentIsKnown, Questions DEF ChatInv, Known
<1>2. \A i \in Known : ask[i] \in Ask
  BY Questions DEF ChatInv
<1>3. \A i \in Known : /\ ask'[i].stage = ask[i].stage
                       /\ ask'[i].chat = ask[i].chat
                       /\ ask'[i].asked = ask[i].asked
                       /\ ask'[i].thread = ask[i].thread
                       /\ ask'[i].place = ask[i].place
                       /\ ask'[i].reply = ask[i].reply
  BY <1>1 DEF SameButAborted
<1>4. \A i \in Known : ask[i].chat \in Nat /\ ask[i].chat <= chat
  BY <1>2 DEF Ask, ChatInv, Ordered
<1>5. chat \in Nat /\ chat' \in Nat /\ threadId' \in Thread /\ current' \in Thread
  BY DEF ChatInv, TypeOK, Thread
<1>6. TypeOK'
  BY <1>1, <1>3, <1>5 DEF ChatInv, TypeOK
<1>7. OneAwaitedAsk'
  <2>1. \A k \in Known : ~Awaited(k)'
    BY <1>1, CurrentIsKnown DEF ChatInv, Awaited, SameButAborted
  <2> QED
    BY <1>1, <2>1 DEF OneAwaitedAsk
<1>8. Ordered'
  BY <1>1, <1>3, <1>4, <1>5 DEF ChatInv, Ordered
<1>9. ThreadsKnown'
  BY <1>1, <1>3 DEF ChatInv, ThreadsKnown, ThreadOf
<1>10. ThreadAdopted'
  BY <1>1, <1>3, <1>4, <1>5 DEF ChatInv, ThreadAdopted
<1>11. ChatKeepsItsThread'
  BY <1>1, <1>3 DEF ChatInv, ChatKeepsItsThread
<1> QED
  BY <1>6, <1>7, <1>8, <1>9, <1>10, <1>11 DEF ChatInv

\* A new chat has no thread and no questions yet.
LEMMA NewChatKeepsChatInv == ChatInv /\ NewChat => ChatInv'
<1> SUFFICES ASSUME ChatInv, NewChat PROVE ChatInv'
  OBVIOUS
<1>1. /\ UNCHANGED <<open, busy, current, ask, row, posts>>
      /\ messages' = <<>> /\ threadId' = 0 /\ chat' = chat + 1
  BY DEF NewChat
<1>2. \A i \in Known : ask[i].chat \in Nat /\ ask[i].chat <= chat
  BY Questions DEF Ask, ChatInv, Ordered
<1>3. chat \in Nat /\ messages' \in Seq(Message) /\ threadId' \in Thread
  BY <1>1 DEF ChatInv, TypeOK, Thread
<1>4. TypeOK'
  BY <1>1, <1>3 DEF ChatInv, TypeOK, Known
<1>5. OneAwaitedAsk' /\ ThreadsKnown' /\ ChatKeepsItsThread'
  BY <1>1 DEF ChatInv, OneAwaitedAsk, ThreadsKnown, ChatKeepsItsThread, Known,
              Awaited, ThreadOf
<1>6. Ordered' /\ ThreadAdopted'
  BY <1>1, <1>2, <1>3 DEF ChatInv, Ordered, ThreadAdopted, Known
<1> QED
  BY <1>4, <1>5, <1>6 DEF ChatInv

\* A question aborts the one before it and is sent to the transport's thread.
LEMMA AskKeepsChatInv == ChatInv /\ AskQuestion => ChatInv'
<1> SUFFICES ASSUME ChatInv, AskQuestion PROVE ChatInv'
  OBVIOUS
<1>0. PICK k \in Nat \ {0} : k = Len(ask) + 1
  BY Questions DEF ChatInv
<1> DEFINE a == [stage |-> "sent", aborted |-> FALSE, chat |-> chat,
                 asked |-> threadId, thread |-> 0, place |-> 0,
                 reply |-> NoReply]
           s == Aborted(ask, current)
<1>1. /\ open /\ Len(ask) < MaxAsks
      /\ ask' = Append(s, a)
      /\ messages' = Append(messages, [role |-> "user", ask |-> k])
      /\ current' = k /\ busy' = TRUE
      /\ UNCHANGED <<open, threadId, chat, row, posts>>
  BY <1>0 DEF AskQuestion
<1>2. /\ Len(ask) \in Nat /\ Known = 1 .. Len(ask)
      /\ ask \in Seq(Ask)
      /\ \A i \in Known : ask[i] \in Ask
  BY Questions DEF ChatInv
<1>3. /\ threadId \in Thread /\ chat \in Nat /\ 0 \in Thread
      /\ messages \in Seq(Message)
  BY DEF ChatInv, TypeOK, Thread
<1>4. NoReply \in Reply
  BY <1>3 DEF NoReply, Reply
<1>5. a \in Ask
  BY <1>3, <1>4 DEF Ask
<1>6. /\ s \in Seq(Ask) /\ Len(s) = Len(ask) /\ DOMAIN s = Known
      /\ \A i \in Known : SameButAborted(ask[i], s[i], i = current)
  BY <1>2, AbortedAsk, CurrentIsKnown DEF ChatInv, Known
<1> HIDE DEF s
<1>7. /\ ask' \in Seq(Ask) /\ Len(ask') = k /\ Known' = 1 .. k
      /\ \A i \in Known : ask'[i] = s[i]
      /\ ask'[k] = a
  <2> HIDE DEF a
  <2> QED
    BY <1>0, <1>1, <1>2, <1>5, <1>6, AppendedAsk DEF Known
<1>8. \A i \in Known : /\ ask'[i].stage = ask[i].stage
                       /\ ask'[i].chat = ask[i].chat
                       /\ ask'[i].asked = ask[i].asked
                       /\ ask'[i].thread = ask[i].thread
                       /\ ask'[i].place = ask[i].place
                       /\ ask'[i].reply = ask[i].reply
  BY <1>6, <1>7 DEF SameButAborted
<1>9. /\ ask'[k].stage = "sent" /\ ask'[k].chat = chat /\ ask'[k].asked = threadId
      /\ ask'[k].reply = NoReply
      /\ ask'[k].reply.thread = 0 /\ ask'[k].reply.kind = "none"
      /\ ask'[k].aborted = FALSE
      /\ ask'[k].thread = 0 /\ ask'[k].place = 0
  BY <1>7 DEF NoReply
<1>10. /\ k \in Nat /\ k \notin Known /\ Known' = Known \union {k}
       /\ \A i \in Known : i \in Nat /\ i < k
  BY <1>0, <1>2, <1>7
<1> HIDE DEF a
<1>11. TypeOK'
  <2>1. k \in Asks /\ k \in Thread /\ k <= MaxAsks
    BY <1>0, <1>1, <1>2 DEF Asks, Thread
  <2>2. messages' \in Seq(Message)
    BY <1>1, <1>3, <2>1 DEF Message
  <2>3. open' \in BOOLEAN /\ busy' \in BOOLEAN
    BY <1>1 DEF ChatInv, TypeOK
  <2>4. \A i \in Known' : ask'[i].place <= posts'[ask'[i].thread]
    <3>1. posts' = posts /\ posts[0] \in Nat
      BY <1>1, <1>3 DEF ChatInv, TypeOK
    <3> QED
      BY <1>8, <1>9, <1>10, <3>1 DEF ChatInv, TypeOK
  <2> QED
    BY <1>1, <1>7, <2>1, <2>2, <2>3, <2>4 DEF ChatInv, TypeOK
<1>12. OneAwaitedAsk'
  <2>1. \A i \in Known : ~Awaited(i)'
    <3>1. \A i \in Known : SameButAborted(ask[i], ask'[i], i = current)
      BY <1>6, <1>7
    <3> QED
      BY <3>1, CurrentIsKnown DEF ChatInv, Awaited, SameButAborted
  <2>2. Awaited(k)'
    BY <1>9 DEF Awaited
  <2>3. {i \in Known' : Awaited(i)'} = {k}
    BY <1>10, <2>1, <2>2
  <2> QED
    BY <1>1, <2>3 DEF OneAwaitedAsk
<1>13. \A i \in Known : ask[i].chat \in Nat /\ ask[i].chat <= chat
  BY <1>2 DEF Ask, ChatInv, Ordered
<1>14. Ordered'
  <2>1. \A i, j \in Known : i < j => ask[i].chat <= ask[j].chat
    BY DEF ChatInv, Ordered
  <2>2. \A i \in Known' : ask'[i].chat \in Nat /\ ask'[i].chat <= chat
    BY <1>3, <1>8, <1>9, <1>10, <1>13
  <2>3. ASSUME NEW i \in Known', NEW j \in Known', i < j
        PROVE  ask'[i].chat <= ask'[j].chat
    <3>1. i \in Known
      BY <1>10, <2>3
    <3>2. CASE j = k
      BY <1>9, <2>2, <3>2
    <3>3. CASE j \in Known
      BY <1>8, <2>1, <2>3, <3>1, <3>3
    <3> QED
      BY <1>10, <3>2, <3>3
  <2> QED
    BY <1>1, <1>7, <2>2, <2>3 DEF Ordered
<1>15. ThreadsKnown'
  BY <1>8, <1>9, <1>10 DEF ChatInv, ThreadsKnown, ThreadOf
<1>16. ThreadAdopted'
  <2>1. \A i \in Known : /\ ask'[i].stage = ask[i].stage
                         /\ ask'[i].chat = ask[i].chat
                         /\ ask'[i].reply = ask[i].reply
    BY <1>8
  <2>2. UNCHANGED <<threadId, chat>> /\ ask'[k].stage # "handled"
    BY <1>1, <1>9
  <2> QED
    BY <1>10, <2>1, <2>2 DEF ChatInv, ThreadAdopted
<1>17. ChatKeepsItsThread'
  <2> SUFFICES ASSUME NEW i \in Known', NEW j \in Known', i < j,
                      ask'[i].chat = ask'[j].chat,
                      ask'[i].stage = "handled", ask'[i].reply.thread # 0
               PROVE  ask'[j].asked = ask'[i].reply.thread
    BY DEF ChatKeepsItsThread
  <2>1. i \in Known
    BY <1>9, <1>10
  <2>2. CASE j = k
    BY <1>8, <1>9, <2>1, <2>2 DEF ChatInv, ThreadAdopted
  <2>3. CASE j \in Known
    BY <1>8, <2>1, <2>3 DEF ChatInv, ChatKeepsItsThread
  <2> QED
    BY <1>10, <2>2, <2>3
<1> QED
  BY <1>11, <1>12, <1>14, <1>15, <1>16, <1>17 DEF ChatInv

\* What the service may do to a question it has not replied to.
LEMMA UpdateKeepsChatInv ==
    ASSUME ChatInv, NEW k \in Known, ask[k].stage \in {"sent", "polling"},
           NEW a \in Ask, ask' = [ask EXCEPT ![k] = a],
           a.chat = ask[k].chat, a.asked = ask[k].asked,
           a.aborted = ask[k].aborted,
           a.stage = "handled" => a.aborted /\ a.reply = ask[k].reply,
           a.stage \in {"sent", "polling"} => a.reply = ask[k].reply,
           a.stage = "polling" => a.thread = ThreadOf(k),
           a.reply.kind = "error" => a.reply.thread = 0,
           a.reply.thread \in {0, ThreadOf(k)},
           UNCHANGED <<panel, row>>,
           posts' \in [Thread -> Nat], \A t \in Thread : posts[t] <= posts'[t],
           a.place <= posts'[a.thread]
    PROVE  ChatInv'
<1>1. /\ Known = DOMAIN ask /\ ask \in Seq(Ask)
      /\ \A i \in Known : ask[i] \in Ask
  BY Questions DEF ChatInv, Known
<1>2. /\ ask' \in Seq(Ask) /\ Len(ask') = Len(ask) /\ Known' = Known
      /\ ask'[k] = a
      /\ \A i \in Known : i # k => ask'[i] = ask[i]
  BY <1>1, UpdatedAsk DEF Known
<1>3. UNCHANGED <<open, busy, messages, current, threadId, chat, row>>
  BY DEF panel
<1>4. ask[k].reply = NoReply /\ ask[k].reply.thread = 0
  BY DEF ChatInv, ThreadsKnown, NoReply
<1>5. TypeOK'
  <2>1. ASSUME NEW i \in Known PROVE ask'[i].place <= posts'[ask'[i].thread]
    <3>1. /\ ask[i].place \in Nat /\ ask[i].thread \in Thread
          /\ ask[i].place <= posts[ask[i].thread]
          /\ posts \in [Thread -> Nat]
      BY <1>1 DEF ChatInv, TypeOK, Ask
    <3>2. /\ posts[ask[i].thread] \in Nat /\ posts'[ask[i].thread] \in Nat
          /\ posts[ask[i].thread] <= posts'[ask[i].thread]
      BY <3>1
    <3> QED
      BY <1>2, <3>1, <3>2
  <2> QED
    BY <1>2, <1>3, <2>1 DEF ChatInv, TypeOK
<1>6. OneAwaitedAsk'
  <2>1. Awaited(k)' <=> Awaited(k)
    BY <1>2 DEF Awaited
  <2>2. \A i \in Known : Awaited(i)' <=> Awaited(i)
    BY <1>2, <2>1 DEF Awaited
  <2> QED
    BY <1>2, <1>3, <2>2 DEF ChatInv, OneAwaitedAsk
<1>7. \A i \in Known : ask'[i].chat = ask[i].chat /\ ask'[i].asked = ask[i].asked
  BY <1>2
<1>8. Ordered'
  BY <1>2, <1>3, <1>7 DEF ChatInv, Ordered
<1>9. ThreadsKnown'
  BY <1>2, <1>4, <1>7 DEF ChatInv, ThreadsKnown, ThreadOf
<1>10. \A i \in Known :
          ask'[i].stage = "handled" /\ ask'[i].reply.thread # 0
            => /\ ask[i].stage = "handled" /\ ask[i].reply.thread # 0
               /\ ask'[i].reply = ask[i].reply
  BY <1>2, <1>4
<1>11. ThreadAdopted'
  BY <1>2, <1>3, <1>7, <1>10 DEF ChatInv, ThreadAdopted
<1>12. ChatKeepsItsThread'
  BY <1>2, <1>7, <1>10 DEF ChatInv, ChatKeepsItsThread
<1> QED
  BY <1>5, <1>6, <1>8, <1>9, <1>11, <1>12 DEF ChatInv

\* A reply names no thread or the thread of the question.
LEMMA ReplyKeepsChatInv ==
    ASSUME ChatInv, NEW k \in Known, ask[k].stage \in {"sent", "polling"},
           NEW kind \in {"answer", "error"}, NEW of \in Thread,
           NEW thread \in {0, ThreadOf(k)}, kind = "error" => thread = 0,
           Replied(k, kind, of, thread), UNCHANGED <<panel, row, posts>>
    PROVE  ChatInv'
<1>1. ask[k] \in Ask /\ k \in Thread
  BY Questions DEF ChatInv, Thread, Asks
<1>2. thread \in Thread
  BY <1>1 DEF ThreadOf, Ask, Thread
<1>3. /\ ask[k].reply.thread = 0
      /\ ask[k].reply.kind = "error" => ask[k].reply.thread = 0
  BY DEF ChatInv, ThreadsKnown, NoReply
<1>0. /\ UNCHANGED <<panel, row>>
      /\ posts' \in [Thread -> Nat] /\ \A t \in Thread : posts[t] <= posts'[t]
      /\ ask[k].place <= posts'[ask[k].thread]
  <2>1. posts' = posts /\ posts \in [Thread -> Nat]
    BY DEF ChatInv, TypeOK
  <2>2. \A t \in Thread : posts[t] \in Nat
    BY <2>1
  <2>3. ask[k].place <= posts[ask[k].thread]
    BY DEF ChatInv, TypeOK
  <2> QED
    BY <2>1, <2>2, <2>3
<1>4. CASE ask[k].aborted
  <2> DEFINE a == [ask[k] EXCEPT !.stage = "handled"]
  <2>1. a \in Ask /\ a.stage = "handled" /\ a.reply = ask[k].reply
        /\ a.chat = ask[k].chat /\ a.asked = ask[k].asked
        /\ a.aborted = ask[k].aborted
        /\ a.thread = ask[k].thread /\ a.place = ask[k].place
    BY <1>1 DEF Ask
  <2>2. ask' = [ask EXCEPT ![k] = a]
    BY <1>4 DEF Replied
  <2> HIDE DEF a
  <2> QED
    BY <1>0, <1>3, <1>4, <2>1, <2>2, UpdateKeepsChatInv
<1>5. CASE ~ask[k].aborted
  <2> DEFINE r == [kind |-> kind, of |-> of, thread |-> thread]
             a == [ask[k] EXCEPT !.stage = "replied", !.reply = r]
  <2>1. r \in Reply
    BY <1>2 DEF Reply
  <2>2. a \in Ask /\ a.stage = "replied" /\ a.reply = r
        /\ a.chat = ask[k].chat /\ a.asked = ask[k].asked
        /\ a.aborted = ask[k].aborted
        /\ a.thread = ask[k].thread /\ a.place = ask[k].place
    BY <1>1, <2>1 DEF Ask
  <2>3. ask' = [ask EXCEPT ![k] = a]
    BY <1>5 DEF Replied
  <2>4. r.kind = kind /\ r.thread = thread
    OBVIOUS
  <2> HIDE DEF a, r
  <2> QED
    BY <1>0, <2>2, <2>3, <2>4, UpdateKeepsChatInv
<1> QED
  BY <1>4, <1>5

\* Every step of the service keeps the invariant.
LEMMA ServeKeepsChatInv ==
    ASSUME ChatInv, NEW k \in Known, Serve(k)
    PROVE  ChatInv'
<1>1. ask[k] \in Ask /\ k \in Thread /\ 0 \in Thread
  BY Questions DEF ChatInv, Thread, Asks
<1>2. CASE AnswerLocally(k)
  BY <1>1, <1>2, ReplyKeepsChatInv DEF AnswerLocally
<1>3. CASE Fail(k)
  BY <1>1, <1>3, ReplyKeepsChatInv DEF Fail
<1>4. CASE PostQuestion(k)
  <2> DEFINE t == ThreadOf(k)
             a == [ask[k] EXCEPT !.stage = "polling", !.thread = t,
                                 !.place = posts[t] + 1]
  <2>1. t \in Thread /\ posts \in [Thread -> Nat] /\ posts[t] \in Nat
    BY <1>1 DEF ThreadOf, Ask, ChatInv, TypeOK
  <2>2. a \in Ask /\ a.stage = "polling" /\ a.reply = ask[k].reply
        /\ a.chat = ask[k].chat /\ a.asked = ask[k].asked
        /\ a.aborted = ask[k].aborted /\ a.thread = t
        /\ a.place = posts[t] + 1
    <3>1. posts[t] + 1 \in Nat
      BY <2>1
    <3> HIDE DEF t
    <3> QED
      BY <1>1, <2>1, <3>1 DEF Ask
  <2>3. /\ ask' = [ask EXCEPT ![k] = a] /\ UNCHANGED <<panel, row>>
        /\ posts' = [posts EXCEPT ![t] = @ + 1]
        /\ ask[k].stage = "sent"
    BY <1>4 DEF PostQuestion, ThreadOf
  <2>4. ask[k].reply.thread = 0
    BY <2>3 DEF ChatInv, ThreadsKnown, NoReply
  <2>5. /\ posts' \in [Thread -> Nat] /\ posts'[t] = posts[t] + 1
        /\ \A th \in Thread : posts[th] <= posts'[th]
    <3>1. /\ posts' \in [Thread -> Nat] /\ posts'[t] = posts[t] + 1
          /\ \A th \in Thread : posts[th] \in Nat
          /\ \A th \in Thread \ {t} : posts'[th] = posts[th]
      BY <2>1, <2>3
    <3> QED
      BY <2>1, <3>1
  <2> HIDE DEF a
  <2>6. a.place <= posts'[a.thread]
    BY <2>1, <2>2, <2>5
  <2> QED
    BY <2>2, <2>3, <2>4, <2>5, <2>6, UpdateKeepsChatInv
<1>5. CASE Poll(k)
  <2> DEFINE t == ask[k].thread
  <2>1. /\ ask[k].stage = "polling" /\ t = ThreadOf(k) /\ t \in Thread
        /\ UNCHANGED <<panel, row, posts>>
    BY <1>1, <1>5 DEF Poll, ChatInv, ThreadsKnown, Ask
  <2>2. HasSettled(t) => Latest(RepliesIn(t)) \in Thread
    <3>1. RepliesIn(t) \subseteq Asks
      BY Questions DEF ChatInv, RepliesIn
    <3> QED
      BY <2>1, <3>1, LatestIsOne DEF ChatInv, HasSettled, Thread, Asks
  <2>3. \/ Replied(k, "answer", 0, t)
        \/ HasSettled(t) /\ Replied(k, "answer", Latest(RepliesIn(t)), t)
    BY <1>5 DEF Poll
  <2> HIDE DEF t
  <2> QED
    BY <1>1, <2>1, <2>2, <2>3, ReplyKeepsChatInv
<1> QED
  BY <1>2, <1>3, <1>4, <1>5 DEF Serve

\* The browser handles the reply to the last question: an answer's thread is the
\* chat's, since the question was sent to it if the chat had one.
LEMMA HandleKeepsChatInv ==
    ASSUME ChatInv, NEW k \in Known, Handle(k)
    PROVE  ChatInv'
<1> DEFINE a == [ask[k] EXCEPT !.stage = "handled"]
           failed == ask[k].reply.kind = "error"
           t == ask[k].reply.thread
<1>1. /\ Known = 1 .. Len(ask) /\ Len(ask) \in Nat /\ ask \in Seq(Ask)
      /\ \A i \in Known : ask[i] \in Ask
      /\ Known \subseteq Asks
  BY Questions DEF ChatInv
<1>2. /\ ask[k].stage = "replied" /\ ~ask[k].aborted
      /\ ask' = [ask EXCEPT ![k] = a]
      /\ UNCHANGED <<open, chat, row, posts>>
  BY DEF Handle
<1>3. /\ a \in Ask /\ a.stage = "handled" /\ a.reply = ask[k].reply
      /\ a.chat = ask[k].chat /\ a.asked = ask[k].asked
      /\ a.thread = ask[k].thread /\ a.place = ask[k].place
  BY <1>1 DEF Ask
<1> HIDE DEF a
<1>4. /\ ask' \in Seq(Ask) /\ Len(ask') = Len(ask) /\ Known' = Known
      /\ ask'[k] = a
      /\ \A i \in Known : i # k => ask'[i] = ask[i]
  BY <1>1, <1>2, <1>3, UpdatedAsk DEF Known
<1>5. k = current /\ k = Len(ask) /\ k # 0
  <2>1. Awaited(k)
    BY <1>2 DEF Awaited
  <2> QED
    BY <1>1, <2>1, CurrentIsKnown DEF ChatInv, Ordered
<1>6. current' = 0 /\ busy' = FALSE
  BY <1>5 DEF Handle
<1>7. threadId' = IF t = 0 THEN threadId ELSE t
  <2>1. failed => t = 0
    BY DEF ChatInv, ThreadsKnown
  <2> QED
    BY <2>1 DEF Handle, AdoptThread
<1>8. t \in Thread /\ t \in {0, ThreadOf(k)}
  BY <1>1 DEF Ask, Reply, ChatInv, ThreadsKnown
<1>9. TypeOK'
  <2>1. threadId' \in Thread /\ current' \in Thread
    BY <1>6, <1>7, <1>8 DEF ChatInv, TypeOK, Thread
  <2>2. messages' \in Seq(Message)
    <3>1. \E m \in Message : messages' = Append(messages, m)
      BY <1>1 DEF Handle, Message
    <3> QED
      BY <3>1 DEF ChatInv, TypeOK
  <2>3. open' \in BOOLEAN /\ busy' \in BOOLEAN
    BY <1>2, <1>6 DEF ChatInv, TypeOK
  <2>4. \A i \in Known : ask'[i].place <= posts'[ask'[i].thread]
    BY <1>2, <1>3, <1>4 DEF ChatInv, TypeOK
  <2> QED
    BY <1>2, <1>4, <2>1, <2>2, <2>3, <2>4 DEF ChatInv, TypeOK
<1>10. OneAwaitedAsk'
  <2>1. \A i \in Known : ~Awaited(i)'
    BY <1>3, <1>4, <1>5, CurrentIsKnown DEF ChatInv, Awaited
  <2> QED
    BY <1>4, <1>6, <2>1 DEF OneAwaitedAsk
<1>11. \A i \in Known : /\ ask'[i].chat = ask[i].chat
                        /\ ask'[i].asked = ask[i].asked
                        /\ ask'[i].reply = ask[i].reply
                        /\ ask'[i].thread = ask[i].thread
                        /\ i # k => ask'[i].stage = ask[i].stage
  BY <1>3, <1>4
<1>12. Ordered'
  BY <1>2, <1>4, <1>6, <1>11 DEF ChatInv, Ordered
<1>13. ThreadsKnown'
  <2>1. ask'[k].stage = "handled"
    BY <1>3, <1>4
  <2> QED
    BY <1>4, <1>11, <2>1 DEF ChatInv, ThreadsKnown, ThreadOf
<1>14. ThreadAdopted'
  <2> SUFFICES ASSUME NEW j \in Known, ask[j].chat = chat,
                      ask'[j].stage = "handled", ask[j].reply.thread # 0
               PROVE  threadId' = ask[j].reply.thread
    BY <1>2, <1>4, <1>11 DEF ThreadAdopted
  <2>1. CASE j = k
    BY <1>7, <2>1
  <2>2. CASE j # k
    <3>1. j < k /\ ask[j].stage = "handled"
      BY <1>1, <1>5, <1>11, <2>2
    <3>2. ask[k].chat = chat
      <4>1. ask[j].chat <= ask[k].chat /\ ask[k].chat <= chat
        BY <3>1 DEF ChatInv, Ordered
      <4> QED
        BY <1>1, <4>1 DEF Ask
    <3>3. ask[k].asked = ask[j].reply.thread
      BY <3>1, <3>2 DEF ChatInv, ChatKeepsItsThread
    <3>4. threadId = ask[j].reply.thread
      BY <3>1 DEF ChatInv, ThreadAdopted
    <3> QED
      BY <1>7, <1>8, <3>3, <3>4 DEF ThreadOf
  <2> QED
    BY <2>1, <2>2
<1>15. ChatKeepsItsThread'
  <2> SUFFICES ASSUME NEW i \in Known, NEW j \in Known, i < j,
                      ask[i].chat = ask[j].chat,
                      ask'[i].stage = "handled", ask[i].reply.thread # 0
               PROVE  ask[j].asked = ask[i].reply.thread
    BY <1>4, <1>11 DEF ChatKeepsItsThread
  <2>1. i # k
    BY <1>1, <1>5
  <2> QED
    BY <1>11, <2>1 DEF ChatInv, ChatKeepsItsThread
<1> QED
  BY <1>9, <1>10, <1>12, <1>13, <1>14, <1>15 DEF ChatInv

\* Every step keeps the invariant.
LEMMA StepKeepsChatInv == ChatInv /\ [Next]_vars => ChatInv'
<1> SUFFICES ASSUME ChatInv, [Next]_vars PROVE ChatInv'
  OBVIOUS
<1>1. /\ open \in BOOLEAN /\ messages \in Seq(Message) /\ <<>> \in Seq(Message)
      /\ row \in [Asks -> {"none", "pending", "waiting", "settled"}]
  BY EmptySeq DEF ChatInv, TypeOK
<1>2. CASE OpenPanel
  BY <1>1, <1>2, OutsideKeepsChatInv DEF OpenPanel
<1>3. CASE ClosePanel
  BY <1>1, <1>3, AbortKeepsChatInv DEF ClosePanel
<1>4. CASE Unmount
  BY <1>1, <1>4, AbortKeepsChatInv DEF Unmount
<1>5. CASE LeaveLayout
  BY <1>1, <1>5, AbortKeepsChatInv DEF LeaveLayout
<1>6. CASE NewChat
  BY <1>6, NewChatKeepsChatInv
<1>7. CASE AskQuestion
  BY <1>7, AskKeepsChatInv
<1>8. ASSUME NEW k \in Known, Serve(k) \/ Handle(k) PROVE ChatInv'
  BY <1>8, ServeKeepsChatInv, HandleKeepsChatInv
<1>9. ASSUME NEW k \in Known, Wingman(k) PROVE ChatInv'
  <2>1. /\ UNCHANGED <<open, busy, messages, current, threadId, chat, ask, posts>>
        /\ row' \in [Asks -> {"none", "pending", "waiting", "settled"}]
    BY <1>1, <1>9 DEF Wingman, Reach, Settle, RequestPermission,
                      PermissionDecided, panel
  <2> QED
    BY <1>1, <2>1, OutsideKeepsChatInv
<1>10. CASE UNCHANGED vars
  BY <1>1, <1>10, OutsideKeepsChatInv DEF vars
<1> QED
  BY <1>2, <1>3, <1>4, <1>5, <1>6, <1>7, <1>8, <1>9, <1>10 DEF Next, User

-----------------------------------------------------------------------------
(* The theorems *)

\* Types, for any number of questions: what Poll calls the newest reply exists.
THEOREM ChatTypeCorrect == Spec => []TypeOK
<1>1. ChatInv => TypeOK
  BY DEF ChatInv
<1> QED
  BY <1>1, InitChatInv, StepKeepsChatInv, PTL DEF Spec

\* At most one request can still speak to the panel, and it is the one that
\* abortRef holds.
THEOREM OneRequestSpeaks == Spec => []OneAwaitedAsk
<1>1. ChatInv => OneAwaitedAsk
  BY DEF ChatInv
<1> QED
  BY <1>1, InitChatInv, StepKeepsChatInv, PTL DEF Spec

\* A chat never changes threads, although the answer to a question of an earlier
\* chat may still arrive in it.
THEOREM ChatsKeepTheirThreads == Spec => []ChatKeepsItsThread
<1>1. ChatInv => ChatKeepsItsThread
  BY DEF ChatInv
<1> QED
  BY <1>1, InitChatInv, StepKeepsChatInv, PTL DEF Spec

-----------------------------------------------------------------------------
(* The reply a question is given *)

\* What is known of a question before Wingman has it and after.
Posted == \A k \in Known : /\ ask[k].thread = 0 => ask[k].place = 0
                           /\ ask[k].stage = "sent" => ask[k].thread = 0

\* No two questions have the same place in a thread, and a question posted after
\* one that was asked later has been aborted.
PlacesApart ==
    \A j, k \in Known :
        /\ \/ ask[k].thread = 0 \/ ask[j].thread # ask[k].thread
           \/ ask[j].place # ask[k].place \/ j = k
        /\ j < k /\ PostedBefore(k, j) => ask[j].aborted

\* Wingman has taken up none but questions it was sent, and those in order.
TakenUp ==
    \A k \in Asks : row[k] # "none" =>
        /\ k \in Known /\ ask[k].thread # 0
        /\ \A j \in Known : PostedBefore(j, k) => row[j] # "none"

PostingInv == ChatInv /\ Posted /\ PlacesApart /\ TakenUp

\* Nothing has been posted at first.
LEMMA InitPostingInv == Init => PostingInv
<1> SUFFICES ASSUME Init PROVE PostingInv
  OBVIOUS
<1>1. Known = {} /\ \A k \in Asks : row[k] = "none"
  BY DEF Init, Known
<1> QED
  BY <1>1, InitChatInv DEF PostingInv, Posted, PlacesApart, TakenUp

\* A step that neither posts a question nor comes from Wingman.
LEMMA SilentKeepsPostingInv ==
    ASSUME PostingInv, ChatInv', UNCHANGED row, Known \subseteq Known',
           \A k \in Known : /\ ask'[k].thread = ask[k].thread
                            /\ ask'[k].place = ask[k].place
                            /\ ask[k].aborted => ask'[k].aborted
                            /\ ask'[k].stage = "sent" => ask[k].stage = "sent",
           \A k \in Known' \ Known : ask'[k].thread = 0 /\ ask'[k].place = 0
    PROVE  PostingInv'
<1>1. Posted'
  BY DEF PostingInv, Posted
<1>2. \A j, k \in Known : PostedBefore(j, k)' <=> PostedBefore(j, k)
  BY DEF PostedBefore
<1>3. \A j, k \in Known' : ask'[j].thread # 0 \/ ask'[k].thread # 0
        => (PostedBefore(j, k)' => j \in Known /\ k \in Known)
  BY DEF PostedBefore
<1>4. \A j, k \in Known' : PostedBefore(j, k)' => ask'[k].thread # 0
  <2> SUFFICES ASSUME NEW j \in Known', NEW k \in Known', PostedBefore(j, k)',
                      ask'[k].thread = 0
               PROVE  FALSE
    OBVIOUS
  <2>1. ask'[j].place = 0 /\ ask'[k].place = 0
    BY <1>1 DEF Posted, PostedBefore
  <2> QED
    BY <2>1 DEF PostedBefore
<1>5. PlacesApart'
  <2>1. ASSUME NEW j \in Known', NEW k \in Known', ask'[k].thread # 0,
               ask'[j].thread = ask'[k].thread, ask'[j].place = ask'[k].place
        PROVE  j = k
    BY <2>1 DEF PostingInv, PlacesApart
  <2>2. ASSUME NEW j \in Known', NEW k \in Known', j < k, PostedBefore(k, j)'
        PROVE  ask'[j].aborted
    <3>1. j \in Known /\ k \in Known /\ PostedBefore(k, j)
      BY <1>2, <1>3, <1>4, <2>2
    <3> QED
      BY <2>2, <3>1 DEF PostingInv, PlacesApart
  <2> QED
    BY <2>1, <2>2 DEF PlacesApart
<1>6. TakenUp'
  BY <1>2, <1>3, <1>4 DEF PostingInv, TakenUp
<1> QED
  BY <1>1, <1>5, <1>6 DEF PostingInv

\* A question gets the last place of its thread; it may overtake no later one
\* unless it has been aborted.
LEMMA PostKeepsPostingInv ==
    ASSUME PostingInv, ChatInv', NEW k \in Known, PostQuestion(k)
    PROVE  PostingInv'
<1> DEFINE t == ThreadOf(k)
           a == [ask[k] EXCEPT !.stage = "polling", !.thread = t,
                               !.place = posts[t] + 1]
<1>1. /\ ask[k] \in Ask /\ k \in Nat \ {0} /\ k \in Thread
      /\ Known = 1 .. Len(ask) /\ Known = DOMAIN ask /\ Len(ask) \in Nat
      /\ \A i \in Known : ask[i] \in Ask
      /\ Known \subseteq Asks
  BY Questions DEF PostingInv, ChatInv, Thread, Asks, Known
<1>2. /\ ask[k].stage = "sent" /\ ask' = [ask EXCEPT ![k] = a]
      /\ UNCHANGED row
  BY DEF PostQuestion, ThreadOf
<1>3. t \in Thread /\ t # 0 /\ posts[t] \in Nat
  BY <1>1 DEF ThreadOf, Ask, PostingInv, ChatInv, TypeOK
<1>4. /\ a.stage = "polling" /\ a.thread = t /\ a.place = posts[t] + 1
      /\ a.aborted = ask[k].aborted
  BY <1>1 DEF Ask
<1> HIDE DEF a, t
<1>5. Known' = Known /\ ask'[k] = a /\ \A i \in Known : i # k => ask'[i] = ask[i]
  BY <1>1, <1>2 DEF Known
<1>6. ask[k].thread = 0 /\ row[k] = "none"
  BY <1>1, <1>2 DEF PostingInv, Posted, TakenUp
<1>7. \A i \in Known : /\ ask[i].place \in Nat
                       /\ ask[i].thread = t => ask[i].place <= posts[t]
  BY <1>1 DEF PostingInv, ChatInv, TypeOK, Ask
<1>8. \A i \in Known \ {k} : ~PostedBefore(k, i)' /\ ~(ask'[k].thread = ask'[i].thread
                                                      /\ ask'[k].place = ask'[i].place)
  BY <1>3, <1>4, <1>5, <1>7 DEF PostedBefore
<1>9. \A i, j \in Known \ {k} : PostedBefore(i, j)' <=> PostedBefore(i, j)
  BY <1>5 DEF PostedBefore
<1>10. ~PostedBefore(k, k)'
  BY <1>3, <1>4, <1>5 DEF PostedBefore
<1>11. Posted'
  BY <1>3, <1>4, <1>5 DEF PostingInv, Posted
<1>12. PlacesApart'
  <2>1. ASSUME NEW i \in Known, NEW j \in Known, ask'[j].thread # 0,
               ask'[i].thread = ask'[j].thread, ask'[i].place = ask'[j].place
        PROVE  i = j
    <3>1. CASE i = k \/ j = k
      BY <1>8, <2>1, <3>1
    <3>2. CASE i # k /\ j # k
      BY <1>5, <2>1, <3>2 DEF PostingInv, PlacesApart
    <3> QED
      BY <3>1, <3>2
  <2>2. ASSUME NEW i \in Known, NEW j \in Known, i < j, PostedBefore(j, i)'
        PROVE  ask'[i].aborted
    <3>1. CASE i = k
      <4>1. k # Len(ask)
        BY <1>1, <2>2, <3>1
      <4>2. k # current
        BY <1>1, <4>1 DEF PostingInv, ChatInv, Ordered
      <4>3. ~Awaited(k)
        BY <4>2, CurrentIsKnown DEF PostingInv, ChatInv
      <4>4. ask[k].aborted
        BY <1>2, <4>3 DEF Awaited
      <4> QED
        BY <1>4, <1>5, <3>1, <4>4
    <3>2. CASE i # k
      <4>1. j # k
        BY <1>8, <2>2, <3>2
      <4> QED
        BY <1>5, <1>9, <2>2, <3>2, <4>1 DEF PostingInv, PlacesApart
    <3> QED
      BY <3>1, <3>2
  <2> QED
    BY <1>5, <2>1, <2>2 DEF PlacesApart
<1>13. TakenUp'
  <2> SUFFICES ASSUME NEW i \in Asks, row[i] # "none"
               PROVE  /\ i \in Known /\ ask'[i].thread # 0
                      /\ \A j \in Known : PostedBefore(j, i)' => row[j] # "none"
    BY <1>2, <1>5 DEF TakenUp
  <2>1. i # k /\ i \in Known /\ ask[i].thread # 0
    BY <1>6 DEF PostingInv, TakenUp
  <2> QED
    BY <1>5, <1>8, <1>9, <2>1 DEF PostingInv, TakenUp
<1> QED
  BY <1>11, <1>12, <1>13 DEF PostingInv

\* Wingman takes up a question after those that were posted before it.
LEMMA WingmanKeepsPostingInv ==
    ASSUME PostingInv, ChatInv', NEW k \in Known, Wingman(k)
    PROVE  PostingInv'
<1>1. /\ UNCHANGED ask /\ k \in Asks
      /\ row \in [Asks -> {"none", "pending", "waiting", "settled"}]
  BY Questions DEF Wingman, Reach, Settle, RequestPermission, PermissionDecided,
                   PostingInv, ChatInv, TypeOK
<1>2. /\ \A i \in Asks \ {k} : row'[i] = row[i]
      /\ row'[k] # "none"
      /\ row[k] # "none" \/ Reach(k)
  BY <1>1 DEF Wingman, Reach, Settle, RequestPermission, PermissionDecided
<1>3. Known' = Known /\ Known \subseteq Asks
  BY <1>1, Questions DEF Known, PostingInv, ChatInv
<1>4. \A i, j \in Known : PostedBefore(i, j)' <=> PostedBefore(i, j)
  BY <1>1 DEF PostedBefore
<1>5. Posted' /\ PlacesApart'
  BY <1>1, <1>3, <1>4 DEF PostingInv, Posted, PlacesApart
<1>6. TakenUp'
  <2> SUFFICES ASSUME NEW i \in Asks, row'[i] # "none"
               PROVE  /\ i \in Known /\ ask[i].thread # 0
                      /\ \A j \in Known : PostedBefore(j, i) => row'[j] # "none"
    BY <1>1, <1>3, <1>4 DEF TakenUp
  <2>1. \A j \in Known : row[j] # "none" => row'[j] # "none"
    BY <1>2, <1>3
  <2>2. CASE row[i] # "none"
    BY <2>1, <2>2 DEF PostingInv, TakenUp
  <2>3. CASE row[i] = "none"
    <3>1. i = k /\ Reach(k)
      BY <1>2, <2>3
    <3> QED
      BY <2>1, <3>1 DEF Reach
  <2> QED
    BY <2>2, <2>3
<1> QED
  BY <1>5, <1>6 DEF PostingInv

\* The service replies, or the browser handles the reply.
LEMMA ReplyKeepsPostingInv ==
    ASSUME PostingInv, ChatInv', NEW k \in Known,
           AnswerLocally(k) \/ Poll(k) \/ Fail(k) \/ Handle(k)
    PROVE  PostingInv'
<1>1. /\ ask[k] \in Ask /\ Known = DOMAIN ask /\ \A i \in Known : ask[i] \in Ask
      /\ UNCHANGED row
  BY Questions DEF PostingInv, ChatInv, Known, AnswerLocally, Poll, Fail, Handle
<1>2. \/ ask' = [ask EXCEPT ![k].stage = "handled"]
      \/ \E r : ask' = [ask EXCEPT ![k].stage = "replied", ![k].reply = r]
  BY DEF AnswerLocally, Poll, Fail, Handle, Replied
<1>3. PICK a : /\ ask' = [ask EXCEPT ![k] = a]
               /\ a.thread = ask[k].thread /\ a.place = ask[k].place
               /\ a.aborted = ask[k].aborted /\ a.stage # "sent"
  <2>1. CASE ask' = [ask EXCEPT ![k].stage = "handled"]
    <3> DEFINE a == [ask[k] EXCEPT !.stage = "handled"]
    <3>1. /\ ask' = [ask EXCEPT ![k] = a]
          /\ a.thread = ask[k].thread /\ a.place = ask[k].place
          /\ a.aborted = ask[k].aborted /\ a.stage # "sent"
      BY <1>1, <2>1 DEF Ask
    <3> QED
      BY <3>1
  <2>2. CASE \E r : ask' = [ask EXCEPT ![k].stage = "replied", ![k].reply = r]
    <3>1. PICK r : ask' = [ask EXCEPT ![k].stage = "replied", ![k].reply = r]
      BY <2>2
    <3> DEFINE a == [ask[k] EXCEPT !.stage = "replied", !.reply = r]
    <3>2. /\ ask' = [ask EXCEPT ![k] = a]
          /\ a.thread = ask[k].thread /\ a.place = ask[k].place
          /\ a.aborted = ask[k].aborted /\ a.stage # "sent"
      BY <1>1, <3>1 DEF Ask
    <3> QED
      BY <3>2
  <2> QED
    BY <1>2, <2>1, <2>2
<1>4. /\ Known' = Known
      /\ \A i \in Known : /\ ask'[i].thread = ask[i].thread
                          /\ ask'[i].place = ask[i].place
                          /\ ask[i].aborted => ask'[i].aborted
                          /\ ask'[i].stage = "sent" => ask[i].stage = "sent"
  BY <1>1, <1>3 DEF Known
<1> QED
  BY <1>1, <1>4, SilentKeepsPostingInv

\* Every step keeps the order of the threads.
LEMMA StepKeepsPostingInv == PostingInv /\ [Next]_vars => PostingInv'
<1> SUFFICES ASSUME PostingInv, [Next]_vars PROVE PostingInv'
  OBVIOUS
<1>1. ChatInv'
  BY StepKeepsChatInv DEF PostingInv
<1> DEFINE s == Aborted(ask, current)
<1>2. /\ ask \in Seq(Ask) /\ Known = DOMAIN ask
      /\ s \in Seq(Ask) /\ DOMAIN s = Known
      /\ \A i \in Known : SameButAborted(ask[i], s[i], i = current)
  BY Questions, CurrentIsKnown, AbortedAsk DEF PostingInv, ChatInv, Known
<1> HIDE DEF s
<1>3. \A i \in Known : /\ s[i].thread = ask[i].thread /\ s[i].place = ask[i].place
                       /\ ask[i].aborted => s[i].aborted
                       /\ s[i].stage = ask[i].stage
  BY <1>2 DEF SameButAborted
<1>4. CASE UNCHANGED <<ask, row>>
  BY <1>1, <1>4, SilentKeepsPostingInv DEF Known
<1>5. CASE ask' = s /\ UNCHANGED row
  <2>1. Known' = Known
    BY <1>2, <1>5 DEF Known
  <2> QED
    BY <1>1, <1>3, <1>5, <2>1, SilentKeepsPostingInv
<1>6. CASE AskQuestion
  <2>1. PICK a \in Ask : ask' = Append(s, a) /\ a.thread = 0 /\ a.place = 0
    <3> DEFINE a == [stage |-> "sent", aborted |-> FALSE, chat |-> chat,
                     asked |-> threadId, thread |-> 0, place |-> 0,
                     reply |-> NoReply]
    <3>1. a \in Ask /\ a.thread = 0 /\ a.place = 0
      BY DEF PostingInv, ChatInv, TypeOK, Ask, Reply, NoReply, Thread
    <3>2. ask' = Append(s, a)
      BY <1>6 DEF AskQuestion, s
    <3> QED
      BY <3>1, <3>2
  <2>2. /\ Known \subseteq Known'
        /\ \A i \in Known : ask'[i] = s[i]
        /\ \A i \in Known' \ Known : ask'[i] = a
    BY <1>2, <2>1, AppendedAsk DEF Known
  <2>3. UNCHANGED row
    BY <1>6 DEF AskQuestion
  <2> QED
    BY <1>1, <1>3, <2>1, <2>2, <2>3, SilentKeepsPostingInv
<1>7. ASSUME NEW k \in Known, Serve(k) \/ Handle(k) \/ Wingman(k)
      PROVE  PostingInv'
  BY <1>1, <1>7, PostKeepsPostingInv, ReplyKeepsPostingInv, WingmanKeepsPostingInv
     DEF Serve
<1> QED
  BY <1>4, <1>5, <1>6, <1>7
     DEF Next, User, OpenPanel, ClosePanel, NewChat, Unmount, LeaveLayout, s, vars

\* A question that somebody waits for is the last that was asked: a reply that the
\* service finds is its own, is to a question posted before it while Wingman has
\* not taken it up, or is to an aborted one posted after it.
LEMMA LatestFits ==
    ASSUME PostingInv, NEW k \in Known, Awaited(k), ask[k].stage = "polling",
           RepliesIn(ask[k].thread) # {}
    PROVE  LET j == Latest(RepliesIn(ask[k].thread))
           IN \/ j = k
              \/ row[k] = "none" /\ PostedBefore(j, k)
              \/ ask[j].aborted /\ PostedBefore(k, j)
<1> DEFINE t == ask[k].thread
           j == Latest(RepliesIn(t))
<1>1. /\ k = Len(ask) /\ Known = 1 .. Len(ask) /\ Len(ask) \in Nat
      /\ \A i \in Known : ask[i] \in Ask
  BY Questions, CurrentIsKnown DEF PostingInv, ChatInv, Ordered
<1>2. t \in Thread /\ t # 0
  BY <1>1 DEF Ask, PostingInv, ChatInv, ThreadsKnown, ThreadOf
<1>3. j \in RepliesIn(t) /\ \A i \in RepliesIn(t) : ask[i].place <= ask[j].place
  BY <1>2, LatestIsOne DEF PostingInv, ChatInv
<1> HIDE DEF j
<1>4. j \in Known /\ ask[j].thread = t /\ ask[j].place \in Nat /\ ask[k].place \in Nat
  BY <1>1, <1>3 DEF RepliesIn, Ask
<1>5. CASE ask[j].place < ask[k].place
  <2>1. PostedBefore(j, k)
    BY <1>4, <1>5 DEF PostedBefore
  <2>2. k \notin RepliesIn(t)
    BY <1>3, <1>4, <1>5
  <2>3. row[k] = "none"
    BY <2>2 DEF RepliesIn
  <2> QED
    BY <2>1, <2>3 DEF j
<1>6. CASE ask[k].place < ask[j].place
  <2>1. PostedBefore(k, j) /\ j < k
    BY <1>1, <1>4, <1>6 DEF PostedBefore
  <2>2. ask[j].aborted
    BY <1>4, <2>1 DEF PostingInv, PlacesApart
  <2> QED
    BY <2>1, <2>2 DEF j
<1>7. CASE ask[k].place = ask[j].place
  <2>1. j = k
    BY <1>2, <1>4, <1>7 DEF PostingInv, PlacesApart
  <2> QED
    BY <2>1 DEF j
<1> QED
  BY <1>4, <1>5, <1>6, <1>7

\* The reply to k may be to question j.
MayFit(k, j) == \/ j \in {0, k}
                \/ row[k] = "none" /\ PostedBefore(j, k)
                \/ ask[j].aborted /\ PostedBefore(k, j)

\* For any number of questions, aborted and overtaking ones among them: whose
\* reply the service can take for the reply to a question that is waited for.
THEOREM RepliesAreToTheQuestion == Spec => RepliesFitTheirQuestion
<1>1. ASSUME PostingInv, [Next]_vars, NEW k \in Known,
             ask[k].stage = "polling", Awaited(k)
      PROVE  MayFit(k, ask'[k].reply.of)
  <2>1. /\ ask \in Seq(Ask) /\ \A i \in Known : ask[i] \in Ask
        /\ current \in Known \union {0} /\ Known = DOMAIN ask
        /\ ask[k].reply = NoReply /\ ask[k].reply.of = 0
    BY <1>1, Questions, CurrentIsKnown
       DEF PostingInv, ChatInv, ThreadsKnown, NoReply, Known
  <2>2. ASSUME ask'[k].reply = ask[k].reply PROVE MayFit(k, ask'[k].reply.of)
    BY <2>1, <2>2 DEF MayFit
  <2> DEFINE s == Aborted(ask, current)
  <2>3. s \in Seq(Ask) /\ k \in 1 .. Len(s) /\ s[k].reply = ask[k].reply
    <3>1. k \in DOMAIN ask /\ current \in DOMAIN ask \union {0}
      BY <2>1 DEF Known
    <3>2. /\ s \in Seq(Ask) /\ DOMAIN s = DOMAIN ask
          /\ SameButAborted(ask[k], s[k], k = current)
      BY <2>1, <3>1, AbortedAsk
    <3>3. k \in 1 .. Len(s)
      BY <3>1, <3>2, LenProperties
    <3> QED
      BY <3>2, <3>3 DEF SameButAborted
  <2>4. CASE UNCHANGED ask \/ ask' = Aborted(ask, current)
    BY <2>2, <2>3, <2>4
  <2>5. CASE AskQuestion
    <3>1. PICK a : ask' = Append(s, a)
      BY <2>5 DEF AskQuestion
    <3> HIDE DEF s
    <3>2. ask'[k] = s[k]
      BY <2>3, <3>1
    <3> QED
      BY <2>2, <2>3, <3>2
  <2>6. ASSUME NEW j \in Known, j # k, Serve(j) \/ Handle(j)
        PROVE  MayFit(k, ask'[k].reply.of)
    <3>1. \E a : ask' = [ask EXCEPT ![j] = a]
      BY <2>6 DEF Serve, AnswerLocally, PostQuestion, Poll, Fail, Replied, Handle
    <3> QED
      BY <2>1, <2>2, <2>6, <3>1
  <2>7. CASE Poll(k) \/ Fail(k)
    <3>1. PICK of : MayFit(k, of) /\ \E kind, thread : Replied(k, kind, of, thread)
      <4>1. MayFit(k, 0)
        BY DEF MayFit
      <4>2. CASE Fail(k)
        BY <4>1, <4>2 DEF Fail
      <4>3. CASE Poll(k)
        <5>1. RepliesIn(ask[k].thread) # {}
                => MayFit(k, Latest(RepliesIn(ask[k].thread)))
          BY <1>1, LatestFits DEF MayFit
        <5> QED
          BY <4>1, <4>3, <5>1 DEF Poll, HasSettled
      <4> QED
        BY <2>7, <4>2, <4>3
    <3>2. PICK kind, thread :
            ask' = [ask EXCEPT ![k].stage = "replied",
                               ![k].reply = [kind |-> kind, of |-> of,
                                             thread |-> thread]]
      BY <1>1, <3>1 DEF Replied, Awaited
    <3>3. ask'[k].reply = [kind |-> kind, of |-> of, thread |-> thread]
      BY <2>1, <3>2 DEF Ask
    <3> QED
      BY <3>1, <3>3
  <2>8. CASE Serve(k) \/ Handle(k)
    BY <1>1, <2>7, <2>8 DEF Serve, Handle, AnswerLocally, PostQuestion
  <2>9. CASE Next
    BY <2>4, <2>5, <2>6, <2>8, <2>9
       DEF Next, User, OpenPanel, ClosePanel, NewChat, Unmount, LeaveLayout,
           Wingman, Reach, Settle, RequestPermission, PermissionDecided
  <2> QED
    BY <1>1, <2>4, <2>9 DEF vars
<1> DEFINE Fit == \A k \in Known : ask[k].stage = "polling" /\ Awaited(k)
                                     => MayFit(k, ask'[k].reply.of)
<1>2. PostingInv /\ [Next]_vars => [Fit]_vars
  BY <1>1
<1>3. RepliesFitTheirQuestion <=> [][Fit]_vars
  BY DEF RepliesFitTheirQuestion, MayFit
<1> HIDE DEF Fit
<1>4. Spec => [][Fit]_vars
  BY <1>2, InitPostingInv, StepKeepsPostingInv, PTL DEF Spec
<1> QED
  BY <1>3, <1>4

-----------------------------------------------------------------------------
(* The list of messages *)

\* The question under way is the last message of its chat, and messages are about
\* questions that were asked.
PanelInv ==
    /\ ChatInv
    /\ \A i \in DOMAIN messages : messages[i].ask \in Known
    /\ current # 0 /\ ask[current].chat = chat =>
         /\ messages # <<>>
         /\ messages[Len(messages)] = [role |-> "user", ask |-> current]
    /\ AnswersFollowTheirQuestion

\* One more message: the others stay.
LEMMA AppendedMessage ==
    ASSUME NEW s \in Seq(Message), NEW m \in Message
    PROVE  /\ Len(s) \in Nat /\ Len(Append(s, m)) = Len(s) + 1
           /\ DOMAIN s = 1 .. Len(s)
           /\ DOMAIN Append(s, m) = 1 .. Len(s) + 1
           /\ \A i \in DOMAIN s : Append(s, m)[i] = s[i]
           /\ Append(s, m)[Len(s) + 1] = m
           /\ Append(s, m) # <<>>
BY LenProperties

\* A step that neither shows a message nor leaves a chat.
LEMMA SilentKeepsPanelInv ==
    ASSUME PanelInv, ChatInv', UNCHANGED <<messages, chat>>,
           current' \in {current, 0}, Known' = Known,
           \A i \in Known : ask'[i].chat = ask[i].chat
    PROVE  PanelInv'
<1>1. current # 0 => current \in Known
  BY CurrentIsKnown DEF PanelInv, ChatInv
<1>2. AnswersFollowTheirQuestion'
  BY DEF PanelInv, AnswersFollowTheirQuestion
<1> QED
  BY <1>1, <1>2 DEF PanelInv

\* A step that empties the list.
LEMMA EmptyingKeepsPanelInv ==
    ASSUME PanelInv, ChatInv', messages' = <<>>,
           \/ current' = 0
           \/ current' = current /\ ask' = ask /\ chat' = chat + 1
    PROVE  PanelInv'
<1>1. current # 0 => ask[current].chat \in Nat /\ ask[current].chat <= chat
  BY CurrentIsKnown, Questions DEF PanelInv, ChatInv, Ordered, Ask
<1>2. chat \in Nat
  BY DEF PanelInv, ChatInv, TypeOK
<1> QED
  BY <1>1, <1>2 DEF PanelInv, AnswersFollowTheirQuestion

\* A question is appended; who asks has nothing else under way.
LEMMA AskKeepsPanelInv == PanelInv /\ ChatInv' /\ AskQuestion => PanelInv'
<1> SUFFICES ASSUME PanelInv, ChatInv', AskQuestion PROVE PanelInv'
  OBVIOUS
<1> DEFINE k == Len(ask) + 1
           m == [role |-> "user", ask |-> k]
<1>1. /\ Known = 1 .. Len(ask) /\ Len(ask) \in Nat /\ k \in Asks
      /\ Len(ask) < MaxAsks /\ current \in Known \union {0}
      /\ ask \in Seq(Ask) /\ Known = DOMAIN ask
      /\ messages \in Seq(Message) /\ messages' = Append(messages, m)
      /\ current' = k /\ chat' = chat
  <2>1. /\ TypeOK /\ OneAwaitedAsk /\ messages \in Seq(Message)
    BY DEF PanelInv, ChatInv, TypeOK
  <2>2. Known = 1 .. Len(ask) /\ Len(ask) \in Nat /\ ask \in Seq(Ask)
    BY <2>1, Questions
  <2>3. /\ Len(ask) < MaxAsks /\ messages' = Append(messages, m)
        /\ current' = k /\ chat' = chat
    BY DEF AskQuestion
  <2>4. k \in Asks
    BY <2>2, <2>3 DEF Asks
  <2>5. current \in Known \union {0} /\ Known = DOMAIN ask
    BY <2>1, CurrentIsKnown DEF Known
  <2> QED
    BY <2>1, <2>2, <2>3, <2>4, <2>5
<1>2. m \in Message
  BY <1>1 DEF Message
<1>3. /\ Known' = Known \union {k}
      /\ \A i \in Known : ask'[i].chat = ask[i].chat
  <2> DEFINE s == Aborted(ask, current)
  <2>1. PICK a : ask' = Append(s, a)
    BY DEF AskQuestion
  <2>2. /\ s \in Seq(Ask) /\ Len(s) = Len(ask) /\ DOMAIN s = Known
        /\ \A i \in Known : s[i].chat = ask[i].chat
    <3>1. current \in DOMAIN ask \union {0}
      BY <1>1
    <3>2. /\ s \in Seq(Ask) /\ Len(s) = Len(ask) /\ DOMAIN s = DOMAIN ask
          /\ \A i \in DOMAIN ask : SameButAborted(ask[i], s[i], i = current)
      BY <1>1, <3>1, AbortedAsk
    <3> QED
      BY <1>1, <3>2 DEF SameButAborted
  <2> HIDE DEF s
  <2>3. /\ DOMAIN Append(s, a) = 1 .. Len(s) + 1
        /\ \A i \in 1 .. Len(s) : Append(s, a)[i] = s[i]
    BY <2>2
  <2> QED
    BY <1>1, <2>1, <2>2, <2>3 DEF Known
<1>4. messages'[Len(messages')] = m /\ messages' # <<>>
  BY <1>1, <1>2, AppendedMessage
<1>5. ASSUME NEW i \in DOMAIN messages'
      PROVE  \/ i \in DOMAIN messages /\ messages'[i] = messages[i]
                /\ (i > 1 => messages'[i - 1] = messages[i - 1])
             \/ messages'[i] = m
  BY <1>1, <1>2, AppendedMessage
<1>6. \A i \in DOMAIN messages' : messages'[i].ask \in Known'
  BY <1>3, <1>5 DEF PanelInv
<1>7. AnswersFollowTheirQuestion'
  <2> SUFFICES ASSUME NEW i \in DOMAIN messages', messages'[i].role # "user",
                      ask'[messages'[i].ask].chat = chat
               PROVE  /\ i > 1
                      /\ messages'[i - 1] = [role |-> "user",
                                             ask |-> messages'[i].ask]
    BY <1>1 DEF AnswersFollowTheirQuestion
  <2>1. /\ i \in DOMAIN messages /\ messages'[i] = messages[i]
        /\ (i > 1 => messages'[i - 1] = messages[i - 1])
    BY <1>5
  <2>2. messages[i].ask \in Known /\ ask[messages[i].ask].chat = chat
    BY <1>3, <2>1 DEF PanelInv
  <2> QED
    BY <2>1, <2>2 DEF PanelInv, AnswersFollowTheirQuestion
<1> QED
  BY <1>1, <1>4, <1>6, <1>7 DEF PanelInv

\* An answer is appended: if the chat is still its own, right under its question.
LEMMA HandleKeepsPanelInv ==
    ASSUME PanelInv, ChatInv', NEW k \in Known, Handle(k)
    PROVE  PanelInv'
<1>1. /\ Known = DOMAIN ask /\ Known \subseteq Asks
      /\ \A i \in Known : ask[i] \in Ask
      /\ messages \in Seq(Message) /\ k = current /\ current # 0
  <2>1. Awaited(k) /\ k # 0
    BY Questions DEF Handle, Awaited, PanelInv, ChatInv
  <2> QED
    BY <2>1, Questions, CurrentIsKnown DEF PanelInv, ChatInv, TypeOK, Known
<1>2. PICK m \in Message :
        m.ask = k /\ m.role # "user" /\ messages' = Append(messages, m)
  BY <1>1 DEF Handle, Message
<1>3. /\ Known' = Known /\ chat' = chat /\ current' = 0
      /\ \A i \in Known : ask'[i].chat = ask[i].chat
  <2>1. ask' = [ask EXCEPT ![k].stage = "handled"]
    BY DEF Handle
  <2> QED
    BY <1>1, <2>1 DEF Handle, Ask, Known
<1>4. ASSUME NEW i \in DOMAIN messages'
      PROVE  \/ i \in DOMAIN messages /\ messages'[i] = messages[i]
                /\ (i > 1 => messages'[i - 1] = messages[i - 1])
             \/ i = Len(messages) + 1 /\ messages'[i] = m
                /\ (i > 1 => messages'[i - 1] = messages[Len(messages)])
  BY <1>1, <1>2, AppendedMessage
<1>5. \A i \in DOMAIN messages' : messages'[i].ask \in Known'
  BY <1>2, <1>3, <1>4 DEF PanelInv
<1>6. AnswersFollowTheirQuestion'
  <2> SUFFICES ASSUME NEW i \in DOMAIN messages', messages'[i].role # "user",
                      ask'[messages'[i].ask].chat = chat
               PROVE  /\ i > 1
                      /\ messages'[i - 1] = [role |-> "user",
                                             ask |-> messages'[i].ask]
    BY <1>3 DEF AnswersFollowTheirQuestion
  <2>1. ask[messages'[i].ask].chat = chat
    BY <1>3, <1>5
  <2>2. CASE messages'[i] = messages[i] /\ i \in DOMAIN messages
             /\ (i > 1 => messages'[i - 1] = messages[i - 1])
    BY <2>1, <2>2 DEF PanelInv, AnswersFollowTheirQuestion
  <2>3. CASE i = Len(messages) + 1 /\ messages'[i] = m
             /\ (i > 1 => messages'[i - 1] = messages[Len(messages)])
    <3>1. /\ messages # <<>>
          /\ messages[Len(messages)] = [role |-> "user", ask |-> k]
      BY <1>1, <1>2, <2>1, <2>3 DEF PanelInv
    <3>2. Len(messages) \in Nat \ {0}
      BY <1>1, <3>1, EmptySeq, LenProperties
    <3> QED
      BY <1>2, <2>3, <3>1, <3>2
  <2> QED
    BY <1>4, <2>2, <2>3
<1> QED
  BY <1>3, <1>5, <1>6 DEF PanelInv

\* Every step keeps the list in order.
LEMMA StepKeepsPanelInv == PanelInv /\ [Next]_vars => PanelInv'
<1> SUFFICES ASSUME PanelInv, [Next]_vars PROVE PanelInv'
  OBVIOUS
<1>1. ChatInv'
  BY StepKeepsChatInv DEF PanelInv
<1>2. /\ ask \in Seq(Ask) /\ Known = DOMAIN ask
      /\ current \in DOMAIN ask \union {0}
      /\ \A i \in Known : ask[i] \in Ask
  BY Questions, CurrentIsKnown DEF PanelInv, ChatInv, Known
<1>3. CASE UNCHANGED <<messages, chat, current, ask>>
  BY <1>1, <1>3, SilentKeepsPanelInv DEF Known
<1>4. CASE ClosePanel
  <2>1. /\ Known' = Known
        /\ \A i \in Known : ask'[i].chat = ask[i].chat
    <3>1. /\ DOMAIN Aborted(ask, current) = DOMAIN ask
          /\ \A i \in DOMAIN ask :
                SameButAborted(ask[i], Aborted(ask, current)[i], i = current)
      BY <1>2, AbortedAsk
    <3> QED
      BY <1>2, <1>4, <3>1 DEF ClosePanel, SameButAborted, Known
  <2> QED
    BY <1>1, <1>4, <2>1, SilentKeepsPanelInv DEF ClosePanel
<1>5. CASE Unmount \/ LeaveLayout \/ NewChat
  BY <1>1, <1>5, EmptyingKeepsPanelInv DEF Unmount, LeaveLayout, NewChat
<1>6. ASSUME NEW k \in Known, Serve(k) PROVE PanelInv'
  <2>1. UNCHANGED <<messages, chat, current>>
    BY <1>6 DEF Serve, AnswerLocally, PostQuestion, Poll, Fail, panel
  <2>2. \/ \E st : ask' = [ask EXCEPT ![k].stage = st]
        \/ \E st, re : ask' = [ask EXCEPT ![k].stage = st, ![k].reply = re]
        \/ PostQuestion(k)
    BY <1>6 DEF Serve, AnswerLocally, PostQuestion, Poll, Fail, Replied
  <2>3. PICK a : ask' = [ask EXCEPT ![k] = a] /\ a.chat = ask[k].chat
    <3>1. ask[k] \in Ask
      BY <1>2
    <3>2. CASE \E st : ask' = [ask EXCEPT ![k].stage = st]
      <4>1. PICK st : ask' = [ask EXCEPT ![k] = [ask[k] EXCEPT !.stage = st]]
        BY <3>2
      <4>2. [ask[k] EXCEPT !.stage = st].chat = ask[k].chat
        BY <3>1 DEF Ask
      <4> QED
        BY <4>1, <4>2
    <3>3. CASE \E st, re : ask' = [ask EXCEPT ![k].stage = st, ![k].reply = re]
      <4>1. PICK st, re :
              ask' = [ask EXCEPT ![k] = [ask[k] EXCEPT !.stage = st,
                                                       !.reply = re]]
        BY <3>3
      <4>2. [ask[k] EXCEPT !.stage = st, !.reply = re].chat = ask[k].chat
        BY <3>1 DEF Ask
      <4> QED
        BY <4>1, <4>2
    <3>4. CASE PostQuestion(k)
      <4> DEFINE t == IF ask[k].asked = 0 THEN k ELSE ask[k].asked
                 a == [ask[k] EXCEPT !.stage = "polling", !.thread = t,
                                     !.place = posts[t] + 1]
      <4>1. ask' = [ask EXCEPT ![k] = a]
        BY <3>4 DEF PostQuestion
      <4>2. a.chat = ask[k].chat
        BY <3>1 DEF Ask
      <4> QED
        BY <4>1, <4>2
    <3> QED
      BY <2>2, <3>2, <3>3, <3>4
  <2>4. Known' = Known /\ \A i \in Known : ask'[i].chat = ask[i].chat
    BY <1>2, <2>3 DEF Known
  <2> QED
    BY <1>1, <2>1, <2>4, SilentKeepsPanelInv
<1>7. ASSUME NEW k \in Known, Wingman(k) PROVE PanelInv'
  BY <1>3, <1>7 DEF Wingman, Reach, Settle, RequestPermission,
                    PermissionDecided, panel
<1>8. CASE OpenPanel \/ UNCHANGED vars
  BY <1>3, <1>8 DEF OpenPanel, vars
<1> QED
  BY <1>1, <1>4, <1>5, <1>6, <1>7, <1>8, AskKeepsPanelInv, HandleKeepsPanelInv
     DEF Next, User

\* Answers stand under their questions, unless their chat has been left.
THEOREM AnswersAreInPlace == Spec => []AnswersFollowTheirQuestion
<1>1. Init => PanelInv
  BY InitChatInv DEF Init, PanelInv, AnswersFollowTheirQuestion
<1>2. PanelInv => AnswersFollowTheirQuestion
  BY DEF PanelInv
<1> QED
  BY <1>1, <1>2, StepKeepsPanelInv, PTL DEF Spec

-----------------------------------------------------------------------------
(* What is left of a question *)

\* The steps that a question has ahead of it, at most.
StepsLeft(a) == CASE a.stage = "sent"    -> 3
                  [] a.stage = "polling" -> 2
                  [] a.stage = "replied" -> 1
                  [] OTHER               -> 0

\* The service and the browser bring the question they serve nearer to its end
\* and leave the others alone.
LEMMA QuestionComesNearer ==
    ASSUME TypeOK, NEW k \in Known, Serve(k) \/ Handle(k)
    PROVE  /\ Known' = Known
           /\ StepsLeft(ask'[k]) < StepsLeft(ask[k])
           /\ \A j \in Known \ {k} : ask'[j] = ask[j]
<1>1. ask \in Seq(Ask) /\ ask[k] \in Ask /\ Known = DOMAIN ask
  BY Questions DEF Known
<1>2. ASSUME NEW a, ask' = [ask EXCEPT ![k] = a]
      PROVE  Known' = Known /\ ask'[k] = a /\ \A j \in Known \ {k} : ask'[j] = ask[j]
  BY <1>1, <1>2 DEF Known
<1>3. ASSUME NEW kind, NEW of, NEW thread, Replied(k, kind, of, thread)
      PROVE  \E a : ask' = [ask EXCEPT ![k] = a] /\ a.stage \in {"handled", "replied"}
  <2>1. CASE ask[k].aborted
    <3> DEFINE a == [ask[k] EXCEPT !.stage = "handled"]
    <3>1. ask' = [ask EXCEPT ![k] = a] /\ a.stage = "handled"
      BY <1>1, <1>3, <2>1 DEF Replied, Ask
    <3> QED
      BY <3>1
  <2>2. CASE ~ask[k].aborted
    <3> DEFINE a == [ask[k] EXCEPT !.stage = "replied",
                                   !.reply = [kind |-> kind, of |-> of,
                                              thread |-> thread]]
    <3>1. ask' = [ask EXCEPT ![k] = a] /\ a.stage = "replied"
      BY <1>1, <1>3, <2>2 DEF Replied, Ask
    <3> QED
      BY <3>1
  <2> QED
    BY <2>1, <2>2
<1>4. CASE AnswerLocally(k) \/ Fail(k) \/ Poll(k)
  <2>1. /\ ask[k].stage \in {"sent", "polling"}
        /\ \E kind, of, thread : Replied(k, kind, of, thread)
    BY <1>4 DEF AnswerLocally, Fail, Poll
  <2>2. PICK a : ask' = [ask EXCEPT ![k] = a] /\ a.stage \in {"handled", "replied"}
    BY <1>3, <2>1
  <2>3. StepsLeft(a) \in {0, 1} /\ StepsLeft(ask[k]) \in {2, 3}
    BY <2>1, <2>2 DEF StepsLeft
  <2>4. /\ Known' = Known /\ ask'[k] = a
        /\ \A j \in Known \ {k} : ask'[j] = ask[j]
    BY <1>2, <2>2
  <2> QED
    BY <2>3, <2>4
<1>5. CASE PostQuestion(k)
  <2> DEFINE t == IF ask[k].asked = 0 THEN k ELSE ask[k].asked
             a == [ask[k] EXCEPT !.stage = "polling", !.thread = t,
                                 !.place = posts[t] + 1]
  <2>1. ask[k].stage = "sent" /\ ask' = [ask EXCEPT ![k] = a] /\ a.stage = "polling"
    BY <1>1, <1>5 DEF PostQuestion, Ask
  <2> HIDE DEF a
  <2>2. StepsLeft(a) = 2 /\ StepsLeft(ask[k]) = 3
    BY <2>1 DEF StepsLeft
  <2>3. /\ Known' = Known /\ ask'[k] = a
        /\ \A j \in Known \ {k} : ask'[j] = ask[j]
    BY <1>2, <2>1
  <2> QED
    BY <2>2, <2>3
<1>6. CASE Handle(k)
  <2> DEFINE a == [ask[k] EXCEPT !.stage = "handled"]
  <2>1. ask[k].stage = "replied" /\ ask' = [ask EXCEPT ![k] = a] /\ a.stage = "handled"
    BY <1>1, <1>6 DEF Handle, Ask
  <2> HIDE DEF a
  <2>2. StepsLeft(a) = 0 /\ StepsLeft(ask[k]) = 1
    BY <2>1 DEF StepsLeft
  <2>3. /\ Known' = Known /\ ask'[k] = a
        /\ \A j \in Known \ {k} : ask'[j] = ask[j]
    BY <1>2, <2>1
  <2> QED
    BY <2>2, <2>3
<1> QED
  BY <1>4, <1>5, <1>6 DEF Serve

\* Whatever the user does meanwhile, no question is sent or polled for a second
\* time, and the composer is disabled only while the last question has steps left:
\* what BusyEnds needs besides the fairness of the service and the browser.
THEOREM QuestionsOnlyAdvance ==
    Spec => /\ [](busy => current \in Known /\ StepsLeft(ask[current]) > 0)
            /\ [][\A k \in Known :
                    /\ k \in Known' /\ StepsLeft(ask'[k]) <= StepsLeft(ask[k])
                    /\ Serve(k) \/ Handle(k)
                         => StepsLeft(ask'[k]) < StepsLeft(ask[k])]_vars
<1> DEFINE Left == busy => current \in Known /\ StepsLeft(ask[current]) > 0
           Advance == \A k \in Known :
                        /\ k \in Known' /\ StepsLeft(ask'[k]) <= StepsLeft(ask[k])
                        /\ Serve(k) \/ Handle(k)
                             => StepsLeft(ask'[k]) < StepsLeft(ask[k])
<1>1. ChatInv => Left
  <2> SUFFICES ASSUME ChatInv, busy PROVE current \in Known /\ StepsLeft(ask[current]) > 0
    OBVIOUS
  <2>1. current \in Known /\ Awaited(current)
    BY CurrentIsKnown DEF ChatInv, OneAwaitedAsk
  <2>2. ask[current].stage \in {"sent", "polling", "replied"}
    BY <2>1, Questions DEF ChatInv, Awaited, Ask
  <2> QED
    BY <2>1, <2>2 DEF StepsLeft
<1>2. ASSUME ChatInv, Next PROVE Advance
  <2> SUFFICES ASSUME NEW k \in Known
               PROVE  /\ k \in Known' /\ StepsLeft(ask'[k]) <= StepsLeft(ask[k])
                      /\ Serve(k) \/ Handle(k)
                           => StepsLeft(ask'[k]) < StepsLeft(ask[k])
    OBVIOUS
  <2>1. /\ TypeOK /\ ask \in Seq(Ask) /\ Known = DOMAIN ask
        /\ current \in DOMAIN ask \union {0}
    BY <1>2, Questions, CurrentIsKnown DEF ChatInv, Known
  <2>2. StepsLeft(ask[k]) \in Int
    BY DEF StepsLeft
  <2>3. ASSUME k \in Known', ask'[k].stage = ask[k].stage
        PROVE  StepsLeft(ask'[k]) <= StepsLeft(ask[k])
    BY <2>2, <2>3 DEF StepsLeft
  <2> DEFINE s == Aborted(ask, current)
  <2>4. /\ s \in Seq(Ask) /\ DOMAIN s = DOMAIN ask
        /\ k \in DOMAIN s /\ s[k].stage = ask[k].stage
    BY <2>1, AbortedAsk DEF SameButAborted, Known
  <2> HIDE DEF s
  <2>5. ASSUME NEW j \in Known, Serve(j) \/ Handle(j)
        PROVE  /\ k \in Known' /\ StepsLeft(ask'[k]) <= StepsLeft(ask[k])
               /\ j = k => StepsLeft(ask'[k]) < StepsLeft(ask[k])
    <3>1. /\ Known' = Known
          /\ StepsLeft(ask'[j]) < StepsLeft(ask[j])
          /\ \A i \in Known \ {j} : ask'[i] = ask[i]
      BY <2>1, <2>5, QuestionComesNearer
    <3>2. StepsLeft(ask'[k]) \in Int
      BY DEF StepsLeft
    <3>3. CASE j = k
      BY <2>2, <3>1, <3>2, <3>3
    <3>4. CASE j # k
      BY <2>2, <3>1, <3>4
    <3> QED
      BY <3>3, <3>4
  <2>6. CASE Serve(k) \/ Handle(k)
    BY <2>5, <2>6
  <2>7. ASSUME UNCHANGED ask
        PROVE  k \in Known' /\ StepsLeft(ask'[k]) <= StepsLeft(ask[k])
    BY <2>2, <2>3, <2>7 DEF Known
  <2>8. ASSUME ask' = s
        PROVE  k \in Known' /\ StepsLeft(ask'[k]) <= StepsLeft(ask[k])
    BY <2>1, <2>3, <2>4, <2>8 DEF Known
  <2>9. ASSUME AskQuestion
        PROVE  k \in Known' /\ StepsLeft(ask'[k]) <= StepsLeft(ask[k])
    <3>1. PICK a \in Ask : ask' = Append(s, a)
      <4> DEFINE b == [stage |-> "sent", aborted |-> FALSE, chat |-> chat,
                       asked |-> threadId, thread |-> 0, place |-> 0,
                       reply |-> NoReply]
      <4>1. b \in Ask
        BY <2>1 DEF TypeOK, Ask, Reply, NoReply, Thread
      <4>2. ask' = Append(s, b)
        BY <2>9 DEF AskQuestion, s
      <4> QED
        BY <4>1, <4>2
    <3>2. k \in DOMAIN ask' /\ ask'[k] = s[k]
      BY <2>4, <3>1, AppendedAsk
    <3> QED
      BY <2>3, <2>4, <3>2 DEF Known
  <2>10. k \in Known' /\ StepsLeft(ask'[k]) <= StepsLeft(ask[k])
    <3>1. \/ AskQuestion \/ ask' = s \/ UNCHANGED ask
          \/ \E j \in Known : Serve(j) \/ Handle(j)
      BY <1>2 DEF Next, User, OpenPanel, ClosePanel, NewChat, Unmount, LeaveLayout,
                  Wingman, Reach, Settle, RequestPermission, PermissionDecided, s
    <3> QED
      BY <2>5, <2>7, <2>8, <2>9, <3>1
  <2> QED
    BY <2>6, <2>10
<1>3. ChatInv /\ [Next]_vars => [Advance]_vars
  BY <1>2
<1> HIDE DEF Left, Advance
<1>4. Spec => []Left /\ [][Advance]_vars
  BY <1>1, <1>3, InitChatInv, StepKeepsChatInv, PTL DEF Spec
<1> QED
  BY <1>4 DEF Left, Advance
=============================================================================
