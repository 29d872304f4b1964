------------------------------ MODULE CopilotChat ------------------------------
(***************************************************************************)
(* The copilot: the panel and its transport in the browser                 *)
(* (src/components/copilot), the service that relays a question to LEON's  *)
(* Wingman chat (backend/copilot/service.py) and, as far as the service    *)
(* depends on it, Wingman itself.                                          *)
(*                                                                         *)
(* One question runs through three places that do not wait for each other: *)
(*                                                                         *)
(*   sent -> polling -> replied -> handled                                 *)
(*                                                                         *)
(* Aborting the browser's request does not reach the service, which keeps  *)
(* polling; and the user may close the panel, start a new chat or ask      *)
(* again while the answer is on its way.                                   *)
(***************************************************************************)
EXTENDS Naturals, Sequences, FiniteSets

CONSTANTS
    MaxAsks,   \* bound: questions asked
    MaxChats   \* bound: chats begun

ASSUME BoundsAssumption == /\ MaxAsks \in Nat \ {0}
                           /\ MaxChats \in Nat

Asks == 1..MaxAsks

VARIABLES
    open,      \* RedSeaCopilot: the panel is shown
    busy,      \* RedSeaCopilot: the composer is disabled, the dots move
    messages,  \* RedSeaCopilot: the rendered list
    current,   \* RedSeaCopilot: the ask whose controller abortRef holds, or 0
    threadId,  \* transport: the Wingman thread of the next question, or 0
    chat,      \* history: the number of the chat the next question belongs to
    ask,       \* the questions asked so far, in order
    row,       \* Wingman: its reply to each question
    posts      \* Wingman: how many questions each thread has been sent

vars == <<open, busy, messages, current, threadId, chat, ask, row, posts>>
panel == <<open, busy, messages, current, threadId, chat>>

-----------------------------------------------------------------------------
(* Questions and replies *)

\* A Wingman thread is named by the question that started it; 0 is no thread.
Thread == 0..MaxAsks

\* of is the question that a Wingman message replies to; it is 0 in an answer
\* from the crew report, a request for permission and the note that the
\* deadline has passed.
Reply == [kind : {"none", "answer", "error"}, of : Thread, thread : Thread]

NoReply == [kind |-> "none", of |-> 0, thread |-> 0]

\* asked is the thread_id of the request, thread the one Wingman put it in and
\* place its place in this thread.
Ask == [stage : {"sent", "polling", "replied", "handled"},
        aborted : BOOLEAN, chat : Nat, asked : Thread, thread : Thread,
        place : Nat, reply : Reply]

Message == [role : {"user", "assistant", "error"}, ask : Asks]

Known == DOMAIN ask

\* abortRef.current?.abort(): the fetch rejects, the service hears nothing.
Aborted(a, k) == IF k = 0 THEN a ELSE [a EXCEPT ![k].aborted = TRUE]

\* The browser still wants the reply to k.
Awaited(k) == ask[k].stage # "handled" /\ ~ask[k].aborted

-----------------------------------------------------------------------------
(* The user and the panel *)

OpenPanel == /\ ~open
             /\ open' = TRUE
             /\ UNCHANGED <<busy, messages, current, threadId, chat, ask, row,
                            posts>>

\* Mutant of ClosePanel: the request is left running.
CloseWithoutAbort == /\ open
                     /\ current' = 0
                     /\ busy' = FALSE
                     /\ open' = FALSE
                     /\ UNCHANGED <<messages, threadId, chat, ask, row, posts>>

\* The close button, the scrim and Escape.
ClosePanel == /\ open
              /\ ask' = Aborted(ask, current)
              /\ current' = 0
              /\ busy' = FALSE
              /\ open' = FALSE
              /\ UNCHANGED <<messages, threadId, chat, row, posts>>

\* The button under an assistant's message; it does not look at busy.
NewChat == /\ open /\ chat < MaxChats
           /\ \E i \in DOMAIN messages : messages[i].role = "assistant"
           /\ messages' = <<>>
           /\ threadId' = 0
           /\ chat' = chat + 1
           /\ UNCHANGED <<open, busy, current, ask, row, posts>>

\* The crew_hours grant goes away and comes back: the panel is unmounted with
\* its state, the transport belongs to the layout and stays.
Unmount == /\ ask' = Aborted(ask, current)
           /\ current' = 0
           /\ busy' = FALSE
           /\ open' = FALSE
           /\ messages' = <<>>
           /\ UNCHANGED <<threadId, chat, row, posts>>

\* Signing out leaves the authenticated layout: the transport goes too.
LeaveLayout == /\ chat < MaxChats
               /\ ask' = Aborted(ask, current)
               /\ current' = 0
               /\ busy' = FALSE
               /\ open' = FALSE
               /\ messages' = <<>>
               /\ threadId' = 0
               /\ chat' = chat + 1
               /\ UNCHANGED <<row, posts>>

\* Mutant of AskQuestion: an earlier request is left running.
AskWithoutAbort ==
    /\ open /\ Len(ask) < MaxAsks
    /\ messages = <<>> \/ ~busy
    /\ LET k == Len(ask) + 1
       IN /\ ask' = Append(ask,
                     [stage |-> "sent", aborted |-> FALSE, chat |-> chat,
                      asked |-> threadId, thread |-> 0, place |-> 0,
                      reply |-> NoReply])
          /\ messages' = Append(messages, [role |-> "user", ask |-> k])
          /\ current' = k
    /\ busy' = TRUE
    /\ UNCHANGED <<open, threadId, chat, row, posts>>

\* The composer and its chips refuse while busy; the cards of the empty state
\* do not.
AskQuestion ==
    /\ open /\ Len(ask) < MaxAsks
    /\ messages = <<>> \/ ~busy
    /\ LET k == Len(ask) + 1
       IN /\ ask' = Append(Aborted(ask, current),
                     [stage |-> "sent", aborted |-> FALSE, chat |-> chat,
                      asked |-> threadId, thread |-> 0, place |-> 0,
                      reply |-> NoReply])
          /\ messages' = Append(messages, [role |-> "user", ask |-> k])
          /\ current' = k
    /\ busy' = TRUE
    /\ UNCHANGED <<open, threadId, chat, row, posts>>

-----------------------------------------------------------------------------
(* The service *)

\* The service responds; nobody is there to receive what an aborted request
\* asked for.
Replied(k, kind, of, thread) ==
    ask' = IF ask[k].aborted THEN [ask EXCEPT ![k].stage = "handled"]
           ELSE [ask EXCEPT ![k].stage = "replied",
                            ![k].reply = [kind |-> kind, of |-> of,
                                          thread |-> thread]]

\* Only a question without a thread may be answered from the crew report.
AnswerLocally(k) == /\ ask[k].stage = "sent" /\ ask[k].asked = 0
                    /\ Replied(k, "answer", 0, 0)
                    /\ UNCHANGED <<panel, row, posts>>

\* start_conversation or continue_conversation.  Two requests are two threads of
\* the service: a question may be posted after the one that was asked next.
PostQuestion(k) ==
    /\ ask[k].stage = "sent"
    /\ LET t == IF ask[k].asked = 0 THEN k ELSE ask[k].asked
       IN /\ posts' = [posts EXCEPT ![t] = @ + 1]
          /\ ask' = [ask EXCEPT ![k].stage = "polling",
                                ![k].thread = t, ![k].place = posts[t] + 1]
    /\ UNCHANGED <<panel, row>>

\* The messages of a thread that are Wingman's, each known by its question.
RepliesIn(t) == {j \in Known : ask[j].thread = t /\ row[j] # "none"}

\* Mutant of Latest: the list is searched from its beginning.
Earliest(S) == CHOOSE j \in S : \A i \in S : ask[i].place >= ask[j].place

\* _latest_ai_message: the last of a list that has the replies in the order in
\* which their questions were posted.
Latest(S) == CHOOSE j \in S : \A i \in S : ask[i].place <= ask[j].place

HasSettled(t) == RepliesIn(t) # {} /\ row[Latest(RepliesIn(t))] = "settled"

\* getThreadApprovalStatus names tools.
Waits(t) == \E j \in Known : ask[j].thread = t /\ row[j] = "waiting"

\* Mutant of Poll: the loop has no deadline.
PollForever(k) ==
    /\ ask[k].stage = "polling"
    /\ LET t == ask[k].thread
       IN CASE Waits(t)      -> Replied(k, "answer", 0, t)
            [] HasSettled(t) -> Replied(k, "answer", Latest(RepliesIn(t)), t)
            [] OTHER         -> UNCHANGED ask
    /\ UNCHANGED <<panel, row, posts>>

\* The last round of the loop, which may be its first: permission comes first,
\* then the newest reply if it has settled, then the deadline.  The rounds before
\* it changed nothing.
Poll(k) ==
    /\ ask[k].stage = "polling"
    /\ LET t == ask[k].thread
       IN CASE Waits(t)      -> Replied(k, "answer", 0, t)
            [] HasSettled(t) -> Replied(k, "answer", Latest(RepliesIn(t)), t)
            [] OTHER         -> Replied(k, "answer", 0, t)
    /\ UNCHANGED <<panel, row, posts>>

\* LEON or the way to it fails; the router answers with an error status.
Fail(k) == /\ ask[k].stage \in {"sent", "polling"}
           /\ Replied(k, "error", 0, 0)
           /\ UNCHANGED <<panel, row, posts>>

Serve(k) == AnswerLocally(k) \/ PostQuestion(k) \/ Poll(k) \/ Fail(k)

-----------------------------------------------------------------------------
(* The answer reaches the browser *)

\* Mutant of AdoptThread: the transport keeps what it had.
AdoptNoThread(reply) == threadId' = threadId

AdoptThread(reply) ==
    threadId' = IF reply.thread # 0 THEN reply.thread ELSE threadId

\* transport and ask after their awaits.  An aborted request is not handled:
\* its fetch has rejected and both return without a word.
Handle(k) ==
    /\ ask[k].stage = "replied" /\ ~ask[k].aborted
    /\ ask' = [ask EXCEPT ![k].stage = "handled"]
    /\ LET failed == ask[k].reply.kind = "error"
       IN /\ messages' = Append(messages,
                [role |-> IF failed THEN "error" ELSE "assistant", ask |-> k])
          /\ IF failed THEN UNCHANGED threadId ELSE AdoptThread(ask[k].reply)
    /\ IF current = k THEN current' = 0 /\ busy' = FALSE
       ELSE UNCHANGED <<current, busy>>
    /\ UNCHANGED <<open, chat, row, posts>>

-----------------------------------------------------------------------------
(* Wingman *)

\* Two questions of one thread, in the order in which they were posted.
PostedBefore(j, k) == /\ ask[j].thread = ask[k].thread
                      /\ ask[j].place < ask[k].place

\* It takes up the questions of a thread in this order, some time later.
Reach(k) == /\ ask[k].thread # 0 /\ row[k] = "none"
            /\ \A j \in Known : PostedBefore(j, k) => row[j] # "none"
            /\ row' = [row EXCEPT ![k] = "pending"]
            /\ UNCHANGED <<panel, ask, posts>>

\* Mutant of Settle: a third outcome is_settled does not know.
SettleFailed(k) == /\ row[k] = "pending"
                   /\ row' = [row EXCEPT ![k] = "failed"]
                   /\ UNCHANGED <<panel, ask, posts>>

\* COMPLETED, CANCELED or FAILED.
Settle(k) == /\ row[k] = "pending"
             /\ row' = [row EXCEPT ![k] = "settled"]
             /\ UNCHANGED <<panel, ask, posts>>

RequestPermission(k) == /\ row[k] = "pending"
                        /\ row' = [row EXCEPT ![k] = "waiting"]
                        /\ UNCHANGED <<panel, ask, posts>>

\* Given or declined in LEON: the panel has no button for it.
PermissionDecided(k) == /\ row[k] = "waiting"
                        /\ row' = [row EXCEPT ![k] = "pending"]
                        /\ UNCHANGED <<panel, ask, posts>>

-----------------------------------------------------------------------------
(* The system *)

Init == /\ open = FALSE /\ busy = FALSE
        /\ messages = <<>>
        /\ current = 0 /\ threadId = 0 /\ chat = 0
        /\ ask = <<>>
        /\ row = [k \in Asks |-> "none"] /\ posts = [t \in Thread |-> 0]

User == \/ OpenPanel \/ ClosePanel \/ NewChat \/ Unmount \/ LeaveLayout
        \/ AskQuestion

Wingman(k) == \/ Reach(k) \/ Settle(k) \/ RequestPermission(k)
              \/ PermissionDecided(k)

Next == \/ User
        \/ \E k \in Known : Serve(k) \/ Handle(k) \/ Wingman(k)

\* The service's thread goes on and the poll has a deadline; a response that has
\* arrived is handled by the browser's event loop.  Nothing is assumed of the
\* user or of Wingman, nor that a call fails.
Fairness ==
    \A k \in Asks : /\ WF_vars(k \in Known /\ (PostQuestion(k) \/ Poll(k)))
                    /\ WF_vars(k \in Known /\ Handle(k))

Spec == Init /\ [][Next]_vars /\ Fairness

-----------------------------------------------------------------------------
(* Properties *)

\* Every variable has its type.
TypeOK == /\ open \in BOOLEAN /\ busy \in BOOLEAN
          /\ messages \in Seq(Message)
          /\ current \in Thread /\ threadId \in Thread
          /\ chat \in Nat
          /\ ask \in Seq(Ask) /\ Len(ask) <= MaxAsks
          /\ row \in [Asks -> {"none", "pending", "waiting", "settled"}]
          /\ posts \in [Thread -> Nat]
          /\ \A k \in Known : ask[k].place <= posts[ask[k].thread]

\* However the user closes, reopens, re-asks and starts over, at most one
\* request can still speak, the one abortRef holds, and the composer is disabled
\* exactly while it runs (RedSeaCopilot.tsx:60-119).
OneAwaitedAsk == /\ busy <=> current # 0
                 /\ {k \in Known : Awaited(k)} = {current} \ {0}

\* An answer or an error stands right under the question it is for, unless its
\* chat has been left for a new one meanwhile (RedSeaCopilot.tsx:86-113).
AnswersFollowTheirQuestion ==
    \A i \in DOMAIN messages :
        LET k == messages[i].ask
        IN messages[i].role # "user" /\ ask[k].chat = chat =>
             i > 1 /\ messages[i - 1] = [role |-> "user", ask |-> k]

\* Once an answer has named the thread of a chat, every later question of that
\* chat is sent to this thread (transport.ts:49-71).  A late answer may bring
\* the thread of an earlier chat in; even then the chat does not change threads.
ChatKeepsItsThread ==
    \A j, k \in Known :
        /\ j < k
        /\ ask[j].chat = ask[k].chat
        /\ ask[j].stage = "handled" /\ ask[j].reply.thread # 0
        => ask[k].asked = ask[j].reply.thread

\* The service gives a question that somebody waits for the reply to another in
\* two cases only (service.py:122-158): Wingman has not taken it up when the
\* service first looks, and a reply to a question posted before it is still the
\* newest of the thread; or a question that the user has aborted was posted after
\* it all the same, and its reply is the newest now.
RepliesFitTheirQuestion ==
    [][\A k \in Known :
         ask[k].stage = "polling" /\ Awaited(k) =>
           LET j == ask'[k].reply.of
           IN \/ j \in {0, k}
              \/ row[k] = "none" /\ PostedBefore(j, k)
              \/ ask[j].aborted /\ PostedBefore(k, j)]_vars

\* The composer never stays disabled: an answer, an error, the deadline of the
\* poll or the user ends the wait (RedSeaCopilot.tsx:114-119, service.py:136).
BusyEnds == busy ~> ~busy

\* "Drop any server-side conversation state so the next question starts clean"
\* (types.ts:55): a question is never sent to a thread of an earlier chat.
NewChatStartsClean ==
    \A k \in Known : ask[k].asked # 0 => ask[ask[k].asked].chat = ask[k].chat
=============================================================================
