----------------------------- MODULE ClientSession -----------------------------
(***************************************************************************)
(* The session of a browser: the token in local storage, which all its     *)
(* tabs share, the requests its tabs have under way and what each tab has  *)
(* cached of the user (src/lib/apiClient.ts, src/lib/auth/use-auth.ts,     *)
(* src/routes/auth.tsx, reset-password.tsx, _authenticated/route.tsx and   *)
(* profile.tsx, src/components/app/AppTopbar.tsx).                         *)
(*                                                                         *)
(* The server is what Accounts is proved to implement, SessionRegistry: it *)
(* issues tokens and closes all the sessions of a user at once.  A request *)
(* carries the token stored when it is SENT; its answer changes whatever   *)
(* is stored when it ARRIVES, in any order with the other answers.         *)
(***************************************************************************)
EXTENDS Naturals, FiniteSets

CONSTANTS
    Users,        \* accounts
    Tabs,         \* tabs of one browser
    NoUser,       \* nobody
    MaxRequests,  \* bound: requests under way at one time
    MaxTokens,    \* bound: tokens issued
    MaxFailures   \* bound: requests the network loses

ASSUME NamesAssumption == NoUser \notin Users
ASSUME TabsAssumption == Tabs # {}
ASSUME BoundsAssumption == /\ MaxRequests \in Nat
                           /\ MaxTokens \in Nat
                           /\ MaxFailures \in Nat

Slots == 1..MaxRequests

VARIABLES
    issued,    \* server: every token handed out
    live,      \* server: the tokens it accepts
    stored,    \* local storage: access_token, or NoToken
    page,      \* each tab shows a "public" page (/auth, /reset-password) or
               \* one of the "app", behind the guard
    me,        \* the query ["auth-me"] in each tab's cache
    req,       \* the requests under way
    failures,  \* requests lost so far
    refused    \* history: the tokens the browser has been told are dead

server == <<issued, live>>
vars == <<issued, live, stored, page, me, req, failures, refused>>

Registry == INSTANCE SessionRegistry

-----------------------------------------------------------------------------
(* Tokens, caches and requests *)

NoToken == [user |-> NoUser, serial |-> 0]

Token == [user : Users, serial : Nat]

\* Nothing is cached, or the null an error leaves there: nobody is known.
\* before is history: the user was asked for before the tab last signed out.
Cached == [user : Users \union {NoUser}, before : BOOLEAN]

NotCached == [user |-> NoUser, before |-> FALSE]

\* login and change are submitted by forms, guard is the check of a protected
\* route, me and poll are queries.
Request == [op : {"idle", "login", "change", "guard", "me", "poll"},
            stage : {"sent", "committed", "answered"},
            answer : {"none", "ok", "token", "refused", "failed"},
            tab : Tabs, user : Users \union {NoUser},
            token : Token \union {NoToken}, new : Token \union {NoToken},
            before : BOOLEAN, cancelled : BOOLEAN]

Reads == {"guard", "me", "poll"}

Idle == [op |-> "idle", stage |-> "sent", answer |-> "none",
         tab |-> CHOOSE t \in Tabs : TRUE,
         user |-> NoUser, token |-> NoToken, new |-> NoToken,
         before |-> FALSE, cancelled |-> FALSE]

\* fetch: the token is read now.
Sent(t, op, u) == [Idle EXCEPT !.op = op, !.tab = t, !.user = u,
                               !.token = stored]

Busy(t, ops) == \E s \in Slots : /\ req[s].op \in ops
                                 /\ req[s].tab = t
                                 /\ ~req[s].cancelled

\* The slots have no meaning: the first free one is taken.
Send(s, t, op, u) == /\ req[s].op = "idle"
                     /\ \A r \in Slots : r < s => req[r].op # "idle"
                     /\ req' = [req EXCEPT ![s] = Sent(t, op, u)]

Unanswered == {s \in Slots : /\ req[s].op \in {"login", "change"}
                             /\ req[s].stage # "answered"}

\* There is a token left for one more login or change.
TokensLeft == Cardinality(issued) + Cardinality(Unanswered) < MaxTokens

-----------------------------------------------------------------------------
(* What a tab sends *)

SubmitLogin(s, t, u) ==
    /\ page[t] = "public" /\ ~Busy(t, {"login"}) /\ TokensLeft
    /\ Send(s, t, "login", u)
    /\ UNCHANGED <<server, stored, page, me, failures, refused>>

SubmitChange(s, t) ==
    /\ ~Busy(t, {"login", "change"}) /\ TokensLeft
    /\ Send(s, t, "change", NoUser)
    /\ UNCHANGED <<server, stored, page, me, failures, refused>>

\* useAuth: on the first use and whenever the cached user has become stale.
FetchMe(s, t) ==
    /\ page[t] = "app" /\ stored # NoToken /\ ~Busy(t, {"me"})
    /\ Send(s, t, "me", NoUser)
    /\ UNCHANGED <<server, stored, page, me, failures, refused>>

\* The notifications of a known user, the jobs of a page.
PollServer(s, t) ==
    /\ page[t] = "app" /\ ~Busy(t, {"poll"})
    /\ Send(s, t, "poll", NoUser)
    /\ UNCHANGED <<server, stored, page, me, failures, refused>>

\* To a protected route, as after a login: without a token at once to /auth.
Navigate(s, t) ==
    /\ ~Busy(t, {"guard"})
    /\ IF stored = NoToken
       THEN page' = [page EXCEPT ![t] = "public"] /\ UNCHANGED req
       ELSE Send(s, t, "guard", NoUser) /\ UNCHANGED page
    /\ UNCHANGED <<server, stored, me, failures, refused>>

\* Mutant of SignOut: what is under way is not cancelled.
SignOutWithoutCancel(t) ==
    /\ page[t] = "app"
    /\ stored' = NoToken
    /\ req' = [s \in Slots |->
                 IF req[s].op \in Reads /\ req[s].tab = t
                 THEN [req[s] EXCEPT !.before = TRUE] ELSE req[s]]
    /\ me' = [me EXCEPT ![t] = NotCached]
    /\ page' = [page EXCEPT ![t] = "public"]
    /\ UNCHANGED <<server, failures, refused>>

\* Clear the token, cancel the queries under way, clear the cache, leave; the
\* router drops a navigation that was under way.
SignOut(t) ==
    /\ page[t] = "app"
    /\ stored' = NoToken
    /\ req' = [s \in Slots |->
                 IF req[s].op \in Reads /\ req[s].tab = t
                 THEN [req[s] EXCEPT !.before = TRUE, !.cancelled = TRUE]
                 ELSE req[s]]
    /\ me' = [me EXCEPT ![t] = NotCached]
    /\ page' = [page EXCEPT ![t] = "public"]
    /\ UNCHANGED <<server, failures, refused>>

-----------------------------------------------------------------------------
(* The server *)

Answered(s, answer, new) ==
    req' = [req EXCEPT ![s].stage = "answered", ![s].answer = answer,
                       ![s].new = new]

\* Mutant of Issue: a number is used again once its token is dead.
IssueAgain(s, u) ==
    LET new == [user |-> u, serial |-> Cardinality(live) + 1]
    IN /\ issued' = issued \union {new}
       /\ live' = live \union {new}
       /\ Answered(s, "token", new)

\* Mutant of Issue: a token for nobody.
IssueToNobody(s, u) ==
    LET new == [user |-> NoUser, serial |-> Cardinality(issued) + 1]
    IN /\ issued' = issued \union {new}
       /\ live' = live \union {new}
       /\ Answered(s, "token", new)

Issue(s, u) ==
    LET new == [user |-> u, serial |-> Cardinality(issued) + 1]
    IN /\ issued' = issued \union {new}
       /\ live' = live \union {new}
       /\ Answered(s, "token", new)

\* A wrong password answers 401 as well.
ServeLogin(s) ==
    /\ req[s].op = "login" /\ req[s].stage = "sent"
    /\ \/ Issue(s, req[s].user)
       \/ Answered(s, "refused", NoToken) /\ UNCHANGED server
    /\ UNCHANGED <<stored, page, me, failures, refused>>

\* A wrong current password answers 400.
ServeChange(s) ==
    /\ req[s].op = "change" /\ req[s].stage = "sent"
    /\ IF req[s].token \in live
       THEN \/ /\ Registry!Revoke(req[s].token.user)
               /\ req' = [req EXCEPT ![s].stage = "committed"]
            \/ Answered(s, "failed", NoToken) /\ UNCHANGED server
       ELSE Answered(s, "refused", NoToken) /\ UNCHANGED server
    /\ UNCHANGED <<stored, page, me, failures, refused>>

IssueReplacement(s) ==
    /\ req[s].op = "change" /\ req[s].stage = "committed"
    /\ Issue(s, req[s].token.user)
    /\ UNCHANGED <<stored, page, me, failures, refused>>

ServeRead(s) ==
    /\ req[s].op \in Reads /\ req[s].stage = "sent"
    /\ Answered(s, IF req[s].token \in live THEN "ok" ELSE "refused", NoToken)
    /\ UNCHANGED <<server, stored, page, me, failures, refused>>

\* A reset by an administrator, a change of password in another browser.
RevokeElsewhere(u) ==
    /\ \E t \in live : t.user = u
    /\ Registry!Revoke(u)
    /\ UNCHANGED <<stored, page, me, req, failures, refused>>

\* The request or its answer is lost, whatever the server has done.
Lose(s) ==
    /\ req[s].op # "idle" /\ failures < MaxFailures
    /\ req[s].answer # "failed"
    /\ Answered(s, "failed", NoToken)
    /\ failures' = failures + 1
    /\ UNCHANGED <<server, stored, page, me, refused>>

Serve(s) == \/ ServeLogin(s) \/ ServeChange(s) \/ IssueReplacement(s)
            \/ ServeRead(s)

-----------------------------------------------------------------------------
(* The answer arrives *)

Finish(s) == req' = [req EXCEPT ![s] = Idle]

\* An error that useAuth or the guard of a route sees.
SeenByAuth(q) == q.op = "guard" \/ (q.op = "me" /\ ~q.cancelled)

\* Mutant of Keeps: a poll that is refused leaves the token alone.
KeepsOnPoll(q) ==
    q.op = "poll" \/ (q.answer # "refused" /\ ~SeenByAuth(q)) \/ q.answer = "ok"

\* Mutant of Keeps: every error clears the token.
KeepsOnSuccess(q) == q.answer = "ok"

\* ApiClient clears the token on a 401, the guard and useAuth on any error.
Keeps(q) == q.answer = "ok" \/ (q.answer = "failed" /\ ~SeenByAuth(q))

\* Login and change store the token they are given, on whatever page the tab
\* is by now.
Receive(s) ==
    LET q == req[s] IN
    /\ q.op # "idle" /\ q.stage = "answered"
    /\ stored' = IF q.answer = "token" THEN q.new
                 ELSE IF Keeps(q) THEN stored ELSE NoToken
    /\ refused' = IF q.answer = "refused" /\ q.op # "login"
                  THEN refused \union ({q.token} \ {NoToken}) ELSE refused
    /\ me' = IF q.op # "me" \/ q.cancelled THEN me
             ELSE [me EXCEPT ![q.tab] =
                     IF q.answer = "ok"
                     THEN [user |-> q.token.user, before |-> q.before]
                     ELSE NotCached]
    /\ page' = IF q.op # "guard" \/ q.cancelled THEN page
               ELSE [page EXCEPT ![q.tab] =
                       IF q.answer = "ok" THEN "app" ELSE "public"]
    /\ Finish(s)
    /\ UNCHANGED <<server, failures>>

-----------------------------------------------------------------------------
(* The system *)

Init == /\ issued = {} /\ live = {}
        /\ stored = NoToken
        /\ page = [t \in Tabs |-> "public"]
        /\ me = [t \in Tabs |-> NotCached]
        /\ req = [s \in Slots |-> Idle]
        /\ failures = 0
        /\ refused = {}

Next == \/ \E s \in Slots, t \in Tabs :
              \/ \E u \in Users : SubmitLogin(s, t, u)
              \/ SubmitChange(s, t) \/ FetchMe(s, t) \/ PollServer(s, t)
              \/ Navigate(s, t)
        \/ \E t \in Tabs : SignOut(t)
        \/ \E s \in Slots : Serve(s) \/ Lose(s) \/ Receive(s)
        \/ \E u \in Users : RevokeElsewhere(u)

Bell == \E s \in Slots, t \in Tabs : me[t].user # NoUser /\ PollServer(s, t)

\* Some answer is given while one is due, some answer that has arrived is
\* handled, and the bell of a tab that knows its user polls every minute while
\* the tab is in front.
Fairness == /\ WF_vars(\E s \in Slots : Serve(s))
            /\ WF_vars(\E s \in Slots : Receive(s))
            /\ WF_vars(Bell)

Spec == Init /\ [][Next]_vars /\ Fairness

-----------------------------------------------------------------------------
(* Properties *)

\* Every variable has its type.
TypeOK == /\ issued \subseteq Token /\ live \subseteq issued
          /\ stored \in Token \union {NoToken}
          /\ page \in [Tabs -> {"public", "app"}]
          /\ me \in [Tabs -> Cached]
          /\ req \in [Slots -> Request]
          /\ failures \in Nat
          /\ refused \subseteq Token

\* Once a tab has learned that a token is dead, no tab sends it again: it is
\* not stored and no answer under way can bring it back (apiClient.ts:140-142).
RefusedTokensAreNotReused == stored \notin refused

\* What a tab shows of the user was asked for after its last sign-out: a query
\* that was under way then does not refill the cache (AppTopbar.tsx:71-76).
SignOutForgetsTheUser ==
    \A t \in Tabs : ~me[t].before

\* The bell polls: a tab shows a user.
Polled == \E t \in Tabs : page[t] = "app" /\ me[t].user # NoUser

\* A browser does not keep a revoked token: the next poll of a tab that shows a
\* user discovers it (NotificationBell.tsx:24-29, apiClient.ts:140-142).
DeadTokensAreDropped ==
    stored \notin live \union {NoToken} /\ Polled
        ~> stored \in live \union {NoToken} \/ ~Polled

\* What may take a token away that is still good: an error where the session
\* itself is looked up, a wrong password typed in another tab, and the refusal of
\* a request that carried another token, for ApiClient compares nothing.
Excused(q) == SeenByAuth(q) \/ q.op = "login" \/ q.token # stored

\* But for these a live token stays until the user signs out: neither a lost
\* poll nor a password form that fails costs the session (apiClient.ts:140-142).
LiveTokensAreKept ==
    [][(stored \in live /\ stored' = NoToken) =>
          (\/ \E t \in Tabs : SignOut(t)
           \/ \E s \in Slots : Receive(s) /\ Excused(req[s]))]_vars
=============================================================================
