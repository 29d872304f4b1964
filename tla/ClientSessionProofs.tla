-------------------------- MODULE ClientSessionProofs --------------------------
(***************************************************************************)
(* The session of a browser for any number of users, tabs, requests under  *)
(* way and tokens: a token that a tab has been told is dead is not used    *)
(* again, and a sign-out leaves nothing of the user behind.                *)
(***************************************************************************)
EXTENDS ClientSession, FiniteSetTheorems, TLAPS

USE NamesAssumption, TabsAssumption, BoundsAssumption
    DEF NamesAssumption, TabsAssumption, BoundsAssumption

-----------------------------------------------------------------------------
(* The invariant *)

\* Tokens are numbered in the order they are issued.
Numbered == /\ IsFiniteSet(issued)
            /\ \A x \in issued : 1 <= x.serial /\ x.serial <= Cardinality(issued)

\* The browser knows only tokens that were issued.
Issued == /\ refused \subseteq issued
          /\ stored \in issued \union {NoToken}
          /\ \A s \in Slots : req[s].token \in issued \union {NoToken}

\* A token on its way to the browser is nowhere in it yet.
Undelivered(s) ==
    req[s].answer = "token" =>
        /\ req[s].new \in issued
        /\ req[s].new # stored /\ req[s].new \notin refused
        /\ \A r \in Slots : req[r].token # req[s].new
        /\ \A r \in Slots \ {s} :
             req[r].answer = "token" => req[r].new # req[s].new

\* A login is for a user, and only a valid token gets as far as the commit.
Carried(s) == /\ req[s].op = "login" => req[s].user \in Users
              /\ req[s].stage = "committed" => req[s].token # NoToken

\* What was asked for before the sign-out has been cancelled.
Forgotten(s) == req[s].before => req[s].cancelled

SessionInv == /\ TypeOK
              /\ Numbered
              /\ Issued
              /\ \A s \in Slots : Undelivered(s) /\ Carried(s) /\ Forgotten(s)
              /\ RefusedTokensAreNotReused
              /\ SignOutForgetsTheUser

\* No token is the absence of one.
LEMMA NoTokenIsNoToken == NoToken \notin Token
BY DEF NoToken, Token

\* The empty slot is a request.
LEMMA IdleIsRequest ==
    /\ Idle \in Request
    /\ Idle.op = "idle" /\ Idle.stage = "sent" /\ Idle.answer = "none"
    /\ Idle.token = NoToken /\ Idle.before = FALSE /\ Idle.cancelled = FALSE
BY DEF Idle, Request, NoToken

\* A browser starts without a session.
LEMMA InitSessionInv == Init => SessionInv
<1> SUFFICES ASSUME Init PROVE SessionInv
  OBVIOUS
<1>1. TypeOK
  <2>1. req \in [Slots -> Request]
    BY IdleIsRequest DEF Init
  <2>2. me \in [Tabs -> Cached]
    BY DEF Init, Cached, NotCached
  <2>3. page \in [Tabs -> {"public", "app"}]
    BY DEF Init
  <2> QED
    BY <2>1, <2>2, <2>3 DEF Init, TypeOK
<1>2. Numbered
  BY FS_EmptySet DEF Init, Numbered
<1>3. Issued /\ \A s \in Slots : Undelivered(s) /\ Carried(s) /\ Forgotten(s)
  BY IdleIsRequest DEF Init, Issued, Undelivered, Carried, Forgotten
<1>4. RefusedTokensAreNotReused /\ SignOutForgetsTheUser
  BY DEF Init, RefusedTokensAreNotReused, SignOutForgetsTheUser, NotCached
<1> QED
  BY <1>1, <1>2, <1>3, <1>4 DEF SessionInv

-----------------------------------------------------------------------------
(* The steps *)

\* A request is sent with the token that is stored.
LEMMA SendKeepsSessionInv ==
    ASSUME SessionInv, NEW s \in Slots, NEW t \in Tabs,
           NEW op \in {"login", "change", "guard", "me", "poll"},
           NEW u \in Users \union {NoUser}, op = "login" => u \in Users,
           Send(s, t, op, u),
           UNCHANGED <<server, stored, page, me, failures, refused>>
    PROVE  SessionInv'
<1> DEFINE q == Sent(t, op, u)
<1>1. /\ stored \in Token \union {NoToken} /\ req \in [Slots -> Request]
      /\ stored \in issued \union {NoToken}
  BY DEF SessionInv, TypeOK, Issued
<1>2. /\ q \in Request /\ q.op = op /\ q.user = u /\ q.token = stored
      /\ q.stage = "sent" /\ q.answer = "none" /\ q.before = FALSE
  BY <1>1 DEF Sent, Idle, Request, NoToken
<1>3. req' = [req EXCEPT ![s] = q]
  BY DEF Send
<1> HIDE DEF q
<1>4. /\ req' \in [Slots -> Request] /\ req'[s] = q
      /\ \A r \in Slots : r # s => req'[r] = req[r]
  BY <1>1, <1>2, <1>3
<1>5. UNCHANGED <<issued, live, stored, page, me, failures, refused>>
  BY DEF server
<1>6. TypeOK' /\ Numbered' /\ RefusedTokensAreNotReused' /\ SignOutForgetsTheUser'
  BY <1>4, <1>5 DEF SessionInv, TypeOK, Numbered, RefusedTokensAreNotReused,
                    SignOutForgetsTheUser
<1>7. Issued'
  BY <1>1, <1>2, <1>4, <1>5 DEF SessionInv, Issued
<1>8. ASSUME NEW r \in Slots PROVE (Undelivered(r) /\ Carried(r) /\ Forgotten(r))'
  <2>1. CASE r = s
    BY <1>2, <1>4, <2>1 DEF Undelivered, Carried, Forgotten
  <2>2. CASE r # s
    BY <1>2, <1>4, <1>5, <2>2
       DEF SessionInv, Undelivered, Carried, Forgotten
  <2> QED
    BY <2>1, <2>2
<1> QED
  BY <1>6, <1>7, <1>8 DEF SessionInv

\* The server or the network answers: whom the request is from and what it
\* carries stay, and a token it brings is one that was not issued before.
LEMMA AnswerKeepsSessionInv ==
    ASSUME SessionInv, NEW s \in Slots, NEW q \in Request,
           req' = [req EXCEPT ![s] = q],
           q.op = req[s].op, q.user = req[s].user, q.token = req[s].token,
           q.before = req[s].before, q.cancelled = req[s].cancelled,
           q.stage = "committed" => req[s].token # NoToken,
           q.answer = "token" =>
               \/ req[s].answer = "token" /\ q.new = req[s].new
               \/ q.new \in issued' \ issued,
           issued \subseteq issued', issued' \subseteq Token,
           live' \subseteq issued', Numbered',
           UNCHANGED <<stored, page, me, refused>>, failures' \in Nat
    PROVE  SessionInv'
<1>1. req \in [Slots -> Request]
  BY DEF SessionInv, TypeOK
<1>2. /\ req' \in [Slots -> Request] /\ req'[s] = q
      /\ \A r \in Slots : r # s => req'[r] = req[r]
  BY <1>1
<1>3. TypeOK' /\ RefusedTokensAreNotReused' /\ SignOutForgetsTheUser'
  BY <1>2 DEF SessionInv, TypeOK, RefusedTokensAreNotReused,
              SignOutForgetsTheUser
<1>4. \A r \in Slots : req'[r].token = req[r].token
  BY <1>2
<1>5. Issued'
  BY <1>4 DEF SessionInv, Issued
<1>6. ASSUME NEW r \in Slots PROVE (Carried(r) /\ Forgotten(r))'
  BY <1>2 DEF SessionInv, Carried, Forgotten
<1>7. \A x \in issued' \ issued :
         /\ x # stored /\ x \notin refused
         /\ \A r \in Slots : /\ req[r].token # x
                             /\ req[r].answer = "token" => req[r].new # x
  BY NoTokenIsNoToken DEF SessionInv, Issued, Undelivered
<1>8. ASSUME NEW r \in Slots PROVE Undelivered(r)'
  <2>1. CASE r = s
    BY <1>2, <1>4, <1>7, <2>1 DEF SessionInv, Undelivered
  <2>2. CASE r # s
    <3>1. Undelivered(r)
      BY DEF SessionInv
    <3>2. req'[r] = req[r]
      BY <1>2, <2>2
    <3>3. q.answer = "token" /\ req[r].answer = "token" => req[r].new # q.new
      BY <1>7, <2>2, <3>1 DEF Undelivered
    <3> QED
      BY <1>2, <1>4, <3>1, <3>2, <3>3 DEF Undelivered
  <2> QED
    BY <2>1, <2>2
<1> QED
  BY <1>3, <1>5, <1>6, <1>8 DEF SessionInv

\* An answer without a token.
LEMMA PlainAnswerKeepsSessionInv ==
    ASSUME SessionInv, NEW s \in Slots, NEW answer \in {"ok", "refused", "failed"},
           Answered(s, answer, NoToken),
           UNCHANGED <<server, stored, page, me, refused>>, failures' \in Nat
    PROVE  SessionInv'
<1> DEFINE q == [req[s] EXCEPT !.stage = "answered", !.answer = answer,
                               !.new = NoToken]
<1>1. req[s] \in Request
  BY DEF SessionInv, TypeOK
<1>2. /\ q \in Request /\ q.stage = "answered" /\ q.answer = answer
      /\ q.op = req[s].op /\ q.user = req[s].user /\ q.token = req[s].token
      /\ q.before = req[s].before /\ q.cancelled = req[s].cancelled
  BY <1>1 DEF Request
<1>3. req' = [req EXCEPT ![s] = q]
  BY DEF Answered
<1> HIDE DEF q
<1>4. /\ UNCHANGED <<issued, live>> /\ Numbered'
      /\ live \subseteq issued /\ issued \subseteq Token
  BY DEF SessionInv, TypeOK, Numbered, server
<1> QED
  BY <1>2, <1>3, <1>4, AnswerKeepsSessionInv

\* An answer with a token: its number is one more than any before.
LEMMA IssueKeepsSessionInv ==
    ASSUME SessionInv, NEW s \in Slots, NEW u \in Users, Issue(s, u),
           UNCHANGED <<stored, page, me, failures, refused>>
    PROVE  SessionInv'
<1> DEFINE new == [user |-> u, serial |-> Cardinality(issued) + 1]
           q == [req[s] EXCEPT !.stage = "answered", !.answer = "token",
                               !.new = new]
<1>1. /\ req[s] \in Request /\ IsFiniteSet(issued)
      /\ issued \subseteq Token /\ live \subseteq issued /\ failures \in Nat
  BY DEF SessionInv, TypeOK, Numbered
<1>2. Cardinality(issued) \in Nat
  BY <1>1, FS_CardinalityType
<1>3. /\ new \in Token /\ new.serial = Cardinality(issued) + 1
  BY <1>2 DEF Token
<1>4. /\ issued' = issued \union {new} /\ live' = live \union {new}
      /\ req' = [req EXCEPT ![s] = q]
  BY DEF Issue, Answered
<1> HIDE DEF new
<1>5. /\ q \in Request /\ q.stage = "answered" /\ q.answer = "token" /\ q.new = new
      /\ q.op = req[s].op /\ q.user = req[s].user /\ q.token = req[s].token
      /\ q.before = req[s].before /\ q.cancelled = req[s].cancelled
  BY <1>1, <1>3 DEF Request
<1> HIDE DEF q
<1>6. new \notin issued
  BY <1>2, <1>3 DEF SessionInv, Numbered
<1>7. Numbered'
  <2>1. IsFiniteSet(issued') /\ Cardinality(issued') = Cardinality(issued) + 1
    BY <1>1, <1>4, <1>6, FS_AddElement
  <2>2. \A x \in issued : /\ x.serial \in Nat
                          /\ 1 <= x.serial /\ x.serial <= Cardinality(issued)
    BY <1>1 DEF Token, SessionInv, Numbered
  <2>3. \A x \in issued' : 1 <= x.serial /\ x.serial <= Cardinality(issued')
    BY <1>2, <1>3, <1>4, <2>1, <2>2
  <2> QED
    BY <2>1, <2>3 DEF Numbered
<1>8. /\ issued \subseteq issued' /\ issued' \subseteq Token
      /\ live' \subseteq issued' /\ new \in issued' \ issued
  BY <1>1, <1>3, <1>4, <1>6
<1> QED
  BY <1>1, <1>4, <1>5, <1>7, <1>8, AnswerKeepsSessionInv

\* What the server does to a request.
LEMMA ServeKeepsSessionInv ==
    ASSUME SessionInv, NEW s \in Slots, Serve(s)
    PROVE  SessionInv'
<1>1. /\ failures \in Nat /\ req[s] \in Request /\ live \subseteq issued
      /\ issued \subseteq Token
  BY DEF SessionInv, TypeOK
<1>2. CASE ServeLogin(s)
  <2>1. req[s].user \in Users
    BY <1>2 DEF ServeLogin, SessionInv, Carried
  <2>2. UNCHANGED <<stored, page, me, failures, refused>>
    BY <1>2 DEF ServeLogin
  <2>3. CASE Issue(s, req[s].user)
    BY <2>1, <2>2, <2>3, IssueKeepsSessionInv
  <2>4. CASE Answered(s, "refused", NoToken) /\ UNCHANGED server
    BY <1>1, <2>2, <2>4, PlainAnswerKeepsSessionInv
  <2> QED
    BY <1>2, <2>3, <2>4 DEF ServeLogin
<1>3. CASE ServeChange(s)
  <2>1. UNCHANGED <<stored, page, me, failures, refused>>
    BY <1>3 DEF ServeChange
  <2>2. CASE /\ req[s].token \in live
             /\ Registry!Revoke(req[s].token.user)
             /\ req' = [req EXCEPT ![s].stage = "committed"]
    <3> DEFINE q == [req[s] EXCEPT !.stage = "committed"]
    <3>1. /\ q \in Request /\ q.answer = req[s].answer /\ q.new = req[s].new
          /\ q.op = req[s].op /\ q.user = req[s].user /\ q.token = req[s].token
          /\ q.before = req[s].before /\ q.cancelled = req[s].cancelled
      BY <1>1 DEF Request
    <3>2. req' = [req EXCEPT ![s] = q]
      BY <2>2
    <3> HIDE DEF q
    <3>3. req[s].token # NoToken
      BY <1>1, <2>2, NoTokenIsNoToken
    <3>4. issued' = issued /\ live' \subseteq live /\ Numbered'
      BY <2>2 DEF Registry!Revoke, SessionInv, Numbered
    <3> QED
      BY <1>1, <2>1, <3>1, <3>2, <3>3, <3>4, AnswerKeepsSessionInv
  <2>3. CASE UNCHANGED server /\ \E answer \in {"failed", "refused"} :
                                   Answered(s, answer, NoToken)
    BY <1>1, <2>1, <2>3, PlainAnswerKeepsSessionInv
  <2> QED
    BY <1>3, <2>2, <2>3 DEF ServeChange
<1>4. CASE IssueReplacement(s)
  <2>1. req[s].token \in Token
    BY <1>1, <1>4 DEF IssueReplacement, SessionInv, Carried, Issued
  <2>2. req[s].token.user \in Users
    BY <2>1 DEF Token
  <2> QED
    BY <1>4, <2>2, IssueKeepsSessionInv DEF IssueReplacement
<1>5. CASE ServeRead(s)
  BY <1>1, <1>5, PlainAnswerKeepsSessionInv DEF ServeRead
<1> QED
  BY <1>2, <1>3, <1>4, <1>5 DEF Serve

\* A sign-out forgets the token and the user, and marks and cancels what the tab
\* had asked.
LEMMA SignOutKeepsSessionInv ==
    ASSUME SessionInv, NEW t \in Tabs, SignOut(t)
    PROVE  SessionInv'
<1>1. /\ stored' = NoToken
      /\ req' = [s \in Slots |->
                   IF req[s].op \in Reads /\ req[s].tab = t
                   THEN [req[s] EXCEPT !.before = TRUE, !.cancelled = TRUE]
                   ELSE req[s]]
      /\ me' = [me EXCEPT ![t] = NotCached]
      /\ page' = [page EXCEPT ![t] = "public"]
      /\ UNCHANGED <<issued, live, failures, refused>>
  BY DEF SignOut, server
<1>2. /\ req \in [Slots -> Request] /\ me \in [Tabs -> Cached]
      /\ page \in [Tabs -> {"public", "app"}]
      /\ issued \subseteq Token
  BY DEF SessionInv, TypeOK
<1>3. ASSUME NEW s \in Slots
      PROVE  /\ req'[s] \in Request
             /\ req'[s].op = req[s].op /\ req'[s].stage = req[s].stage
             /\ req'[s].answer = req[s].answer /\ req'[s].user = req[s].user
             /\ req'[s].token = req[s].token /\ req'[s].new = req[s].new
             /\ Forgotten(s)'
  <2>1. req[s] \in Request /\ (req[s].before => req[s].cancelled)
    BY <1>2 DEF SessionInv, Forgotten
  <2>2. CASE req[s].op \in Reads /\ req[s].tab = t
    <3>1. req'[s] = [req[s] EXCEPT !.before = TRUE, !.cancelled = TRUE]
      BY <1>1, <2>2
    <3> QED
      BY <2>1, <3>1 DEF Request, Forgotten
  <2>3. CASE ~(req[s].op \in Reads /\ req[s].tab = t)
    <3>1. req'[s] = req[s]
      BY <1>1, <2>3
    <3> QED
      BY <2>1, <3>1 DEF Forgotten
  <2> QED
    BY <2>2, <2>3
<1>4. NotCached \in Cached /\ NotCached.before = FALSE
  BY DEF NotCached, Cached
<1>5. me' \in [Tabs -> Cached] /\ page' \in [Tabs -> {"public", "app"}]
      /\ \A r \in Tabs : ~me[r].before => ~me'[r].before
  BY <1>1, <1>2, <1>4
<1>6. req' \in [Slots -> Request]
  BY <1>1, <1>3
<1>7. TypeOK' /\ Numbered'
  BY <1>1, <1>5, <1>6 DEF SessionInv, TypeOK, Numbered
<1>8. Issued' /\ RefusedTokensAreNotReused'
  BY <1>1, <1>2, <1>3, NoTokenIsNoToken
     DEF SessionInv, Issued, RefusedTokensAreNotReused
<1>9. SignOutForgetsTheUser'
  BY <1>5 DEF SessionInv, SignOutForgetsTheUser
<1>10. ASSUME NEW s \in Slots PROVE Carried(s)'
  BY <1>3 DEF SessionInv, Carried
<1>11. ASSUME NEW s \in Slots PROVE Undelivered(s)'
  <2>1. Undelivered(s)
    BY DEF SessionInv
  <2>2. req[s].answer = "token" => req[s].new # NoToken
    BY <1>2, <2>1, NoTokenIsNoToken DEF Undelivered
  <2>3. /\ stored' = NoToken /\ refused' = refused /\ issued' = issued
        /\ \A r \in Slots : /\ req'[r].answer = req[r].answer
                            /\ req'[r].token = req[r].token
                            /\ req'[r].new = req[r].new
    BY <1>1, <1>3
  <2>4. CASE req[s].answer = "token"
    BY <2>1, <2>2, <2>3, <2>4 DEF Undelivered
  <2>5. CASE req[s].answer # "token"
    BY <2>3, <2>5 DEF Undelivered
  <2> QED
    BY <2>4, <2>5
<1> QED
  BY <1>3, <1>7, <1>8, <1>9, <1>10, <1>11 DEF SessionInv

\* An answer arrives: a token it brings is stored and is no longer on its way; one
\* it refuses is forgotten.
LEMMA ReceiveKeepsSessionInv ==
    ASSUME SessionInv, NEW s \in Slots, Receive(s)
    PROVE  SessionInv'
<1> DEFINE q == req[s]
<1>1. /\ stored' = IF q.answer = "token" THEN q.new
                   ELSE IF Keeps(q) THEN stored ELSE NoToken
      /\ refused' = IF q.answer = "refused" /\ q.op # "login"
                    THEN refused \union ({q.token} \ {NoToken}) ELSE refused
      /\ req' = [req EXCEPT ![s] = Idle]
      /\ UNCHANGED <<issued, live, failures>>
  BY DEF Receive, Finish, server
<1>2. /\ req \in [Slots -> Request] /\ q \in Request
      /\ me \in [Tabs -> Cached] /\ page \in [Tabs -> {"public", "app"}]
      /\ issued \subseteq Token
  BY DEF SessionInv, TypeOK
<1>3. /\ Undelivered(s) /\ Forgotten(s)
      /\ refused \subseteq issued /\ stored \in issued \union {NoToken}
      /\ \A r \in Slots : req[r].token \in issued \union {NoToken}
      /\ stored \notin refused
  BY DEF SessionInv, Issued, RefusedTokensAreNotReused
<1>4. q.answer = "refused" => stored' = NoToken
  BY <1>1 DEF Keeps
<1>5. stored' \in issued \union {NoToken} /\ refused' \subseteq issued
  BY <1>1, <1>3 DEF Undelivered
<1>6. /\ req' \in [Slots -> Request] /\ req'[s] = Idle
      /\ \A r \in Slots : r # s => req'[r] = req[r]
  BY <1>1, <1>2, IdleIsRequest
<1>7. me' \in [Tabs -> Cached] /\ \A r \in Tabs : ~me'[r].before
  <2>1. \A r \in Tabs : ~me[r].before
    BY DEF SessionInv, SignOutForgetsTheUser
  <2>2. CASE q.op # "me" \/ q.cancelled
    <3>1. me' = me
      BY <2>2 DEF Receive
    <3> QED
      BY <1>2, <2>1, <3>1
  <2>3. CASE ~(q.op # "me" \/ q.cancelled)
    <3> DEFINE c == IF q.answer = "ok"
                    THEN [user |-> q.token.user, before |-> q.before]
                    ELSE NotCached
    <3>1. q.before = FALSE /\ q.tab \in Tabs
      BY <1>2, <1>3, <2>3 DEF Request, Forgotten
    <3>2. q.token.user \in Users \union {NoUser}
      BY <1>2 DEF Request, Token, NoToken
    <3>3. c \in Cached /\ c.before = FALSE
      BY <3>1, <3>2 DEF Cached, NotCached
    <3>4. me' = [me EXCEPT ![q.tab] = c]
      BY <2>3 DEF Receive
    <3> HIDE DEF c
    <3> QED
      BY <1>2, <2>1, <3>1, <3>3, <3>4
  <2> QED
    BY <2>2, <2>3
<1>8. page' \in [Tabs -> {"public", "app"}]
  <2>1. \/ page' = page
        \/ \E v \in {"public", "app"} : page' = [page EXCEPT ![q.tab] = v]
    BY DEF Receive
  <2> QED
    BY <1>2, <2>1
<1>9. TypeOK' /\ Numbered' /\ SignOutForgetsTheUser'
  <2>1. stored' \in Token \union {NoToken} /\ refused' \subseteq Token
    BY <1>2, <1>5
  <2> QED
    BY <1>1, <1>6, <1>7, <1>8, <2>1
       DEF SessionInv, TypeOK, Numbered, SignOutForgetsTheUser
<1>10. Issued'
  <2>1. \A r \in Slots : req'[r].token \in issued \union {NoToken}
    BY <1>3, <1>6, IdleIsRequest
  <2> QED
    BY <1>1, <1>5, <2>1 DEF Issued
<1>11. RefusedTokensAreNotReused'
  <2>1. CASE q.answer = "refused"
    BY <1>2, <1>4, <1>5, <2>1, NoTokenIsNoToken DEF RefusedTokensAreNotReused
  <2>2. CASE q.answer # "refused"
    BY <1>1, <1>2, <1>3, <2>2, NoTokenIsNoToken
       DEF Undelivered, RefusedTokensAreNotReused
  <2> QED
    BY <2>1, <2>2
<1>12. ASSUME NEW r \in Slots PROVE Undelivered(r)'
  <2>1. CASE r = s
    BY <1>6, <2>1, IdleIsRequest DEF Undelivered
  <2>2. CASE r # s
    <3> SUFFICES ASSUME req[r].answer = "token"
                 PROVE  /\ req[r].new \in issued
                        /\ req[r].new # stored' /\ req[r].new \notin refused'
                        /\ \A i \in Slots : req'[i].token # req[r].new
                        /\ \A i \in Slots \ {r} :
                             req'[i].answer = "token" => req'[i].new # req[r].new
      BY <1>1, <1>6, <2>2 DEF Undelivered
    <3>1. /\ req[r].new \in issued /\ req[r].new # NoToken
          /\ req[r].new # stored /\ req[r].new \notin refused
          /\ \A i \in Slots : req[i].token # req[r].new
          /\ \A i \in Slots \ {r} :
               req[i].answer = "token" => req[i].new # req[r].new
      BY <1>2, NoTokenIsNoToken DEF SessionInv, Undelivered
    <3>2. req[r].new # stored'
      BY <1>1, <2>2, <3>1
    <3>3. req[r].new \notin refused'
      BY <1>1, <3>1
    <3>4. \A i \in Slots : req'[i].token # req[r].new
      BY <1>6, <3>1, IdleIsRequest
    <3>5. \A i \in Slots \ {r} :
            req'[i].answer = "token" => req'[i].new # req[r].new
      BY <1>6, <3>1, IdleIsRequest
    <3> QED
      BY <3>1, <3>2, <3>3, <3>4, <3>5
  <2> QED
    BY <2>1, <2>2
<1>13. ASSUME NEW r \in Slots PROVE (Carried(r) /\ Forgotten(r))'
  <2>1. CASE r = s
    BY <1>6, <2>1, IdleIsRequest DEF Carried, Forgotten
  <2>2. CASE r # s
    BY <1>6, <2>2 DEF SessionInv, Carried, Forgotten
  <2> QED
    BY <2>1, <2>2
<1> QED
  BY <1>9, <1>10, <1>11, <1>12, <1>13 DEF SessionInv

\* Pages change, and tokens die on the server, without the browser's knowledge.
LEMMA QuietKeepsSessionInv ==
    ASSUME SessionInv, UNCHANGED <<issued, stored, me, req, failures, refused>>,
           live' \subseteq live, page' \in [Tabs -> {"public", "app"}]
    PROVE  SessionInv'
BY DEF SessionInv, TypeOK, Numbered, Issued, Undelivered, Carried, Forgotten,
       RefusedTokensAreNotReused, SignOutForgetsTheUser

\* Every step keeps the invariant.
LEMMA StepKeepsSessionInv == SessionInv /\ [Next]_vars => SessionInv'
<1> SUFFICES ASSUME SessionInv, [Next]_vars PROVE SessionInv'
  OBVIOUS
<1>1. /\ failures \in Nat /\ page \in [Tabs -> {"public", "app"}]
  BY DEF SessionInv, TypeOK
<1>2. ASSUME NEW s \in Slots, NEW t \in Tabs,
             \/ \E u \in Users : SubmitLogin(s, t, u)
             \/ SubmitChange(s, t) \/ FetchMe(s, t) \/ PollServer(s, t)
      PROVE  SessionInv'
  BY <1>2, SendKeepsSessionInv
     DEF SubmitLogin, SubmitChange, FetchMe, PollServer
<1>3. ASSUME NEW s \in Slots, NEW t \in Tabs, Navigate(s, t) PROVE SessionInv'
  <2>1. CASE stored = NoToken
    <3>1. page' \in [Tabs -> {"public", "app"}]
      BY <1>1, <1>3, <2>1 DEF Navigate
    <3> QED
      BY <1>3, <2>1, <3>1, QuietKeepsSessionInv DEF Navigate, server
  <2>2. CASE stored # NoToken
    BY <1>3, <2>2, SendKeepsSessionInv DEF Navigate
  <2> QED
    BY <2>1, <2>2
<1>4. ASSUME NEW s \in Slots, Lose(s) PROVE SessionInv'
  <2>1. failures' \in Nat
    BY <1>1, <1>4 DEF Lose
  <2> QED
    BY <1>4, <2>1, PlainAnswerKeepsSessionInv DEF Lose
<1>5. ASSUME NEW u \in Users, RevokeElsewhere(u) PROVE SessionInv'
  BY <1>1, <1>5, QuietKeepsSessionInv DEF RevokeElsewhere, Registry!Revoke
<1>6. CASE UNCHANGED vars
  BY <1>1, <1>6, QuietKeepsSessionInv DEF vars
<1> QED
  BY <1>2, <1>3, <1>4, <1>5, <1>6, SignOutKeepsSessionInv,
     ServeKeepsSessionInv, ReceiveKeepsSessionInv DEF Next

\* Seen from the registry, the server opens sessions, closes those of a user, or
\* does nothing.
LEMMA ServerStep ==
    SessionInv /\ [Next]_vars => [Registry!Next]_<<issued, live>>
<1> SUFFICES ASSUME SessionInv, [Next]_vars
             PROVE  [Registry!Next]_<<issued, live>>
  OBVIOUS
<1>1. ASSUME NEW s \in Slots, NEW u, Issue(s, u) PROVE Registry!Next
  <2> DEFINE new == [user |-> u, serial |-> Cardinality(issued) + 1]
  <2>1. Cardinality(issued) \in Nat
    BY FS_CardinalityType DEF SessionInv, Numbered
  <2>2. new.serial = Cardinality(issued) + 1
    OBVIOUS
  <2>3. issued' = issued \union {new} /\ live' = live \union {new}
    BY <1>1 DEF Issue
  <2> HIDE DEF new
  <2>4. \A x \in issued : x.serial \in Nat /\ x.serial <= Cardinality(issued)
    BY DEF SessionInv, TypeOK, Token, Numbered
  <2>5. new \notin issued
    BY <2>1, <2>2, <2>4
  <2> QED
    BY <2>3, <2>5 DEF Registry!Next, Registry!Open
<1>2. ASSUME NEW s \in Slots, Serve(s)
      PROVE  Registry!Next \/ UNCHANGED <<issued, live>>
  BY <1>1, <1>2 DEF Serve, ServeLogin, ServeChange, IssueReplacement, ServeRead,
                    server, Registry!Next
<1>3. ASSUME NEW u \in Users, RevokeElsewhere(u) PROVE Registry!Next
  BY <1>3 DEF RevokeElsewhere, Registry!Next
<1>4. ASSUME NEW s \in Slots, NEW t \in Tabs,
             \/ \E u \in Users : SubmitLogin(s, t, u)
             \/ SubmitChange(s, t) \/ FetchMe(s, t) \/ PollServer(s, t)
             \/ Navigate(s, t)
      PROVE  UNCHANGED <<issued, live>>
  BY <1>4 DEF SubmitLogin, SubmitChange, FetchMe, PollServer, Navigate, server
<1>5. ASSUME NEW t \in Tabs, SignOut(t) PROVE UNCHANGED <<issued, live>>
  BY <1>5 DEF SignOut, server
<1>6. ASSUME NEW s \in Slots, Lose(s) \/ Receive(s)
      PROVE  UNCHANGED <<issued, live>>
  BY <1>6 DEF Lose, Receive, server
<1>7. CASE UNCHANGED vars
  BY <1>7 DEF vars
<1> QED
  BY <1>2, <1>3, <1>4, <1>5, <1>6, <1>7 DEF Next

-----------------------------------------------------------------------------
(* The theorems *)

\* The server the browser talks to is the registry that Accounts implements.
THEOREM ServerIsSessionRegistry == Spec => Registry!Spec
<1>1. Init => Registry!Init
  BY DEF Init, Registry!Init
<1>2. [Registry!Next]_<<issued, live>> => [Registry!Next]_Registry!vars
  BY DEF Registry!vars
<1> QED
  BY <1>1, <1>2, InitSessionInv, StepKeepsSessionInv, ServerStep, PTL
     DEF Spec, Registry!Spec

\* So a tab that has been told that its token is dead need not ask again.
THEOREM RefusedTokensStayDead == Spec => Registry!DeadForGood
<1>1. [Registry!Next]_Registry!vars
        => [issued \ live \subseteq (issued \ live)']_Registry!vars
  BY DEF Registry!Next, Registry!Open, Registry!Revoke, Registry!vars
<1> QED
  BY <1>1, ServerIsSessionRegistry, PTL DEF Registry!Spec, Registry!DeadForGood

\* Types, for any number of tabs, requests and tokens.
THEOREM SessionTypeCorrect == Spec => []TypeOK
<1>1. SessionInv => TypeOK
  BY DEF SessionInv
<1> QED
  BY <1>1, InitSessionInv, StepKeepsSessionInv, PTL DEF Spec

\* Whatever order the answers of all tabs arrive in, a token that was refused is
\* never stored again.
THEOREM RefusedStaysRefused == Spec => []RefusedTokensAreNotReused
<1>1. SessionInv => RefusedTokensAreNotReused
  BY DEF SessionInv
<1> QED
  BY <1>1, InitSessionInv, StepKeepsSessionInv, PTL DEF Spec

\* No tab ever shows a user it asked for before its last sign-out.
THEOREM SignedOutIsForgotten == Spec => []SignOutForgetsTheUser
<1>1. SessionInv => SignOutForgetsTheUser
  BY DEF SessionInv
<1> QED
  BY <1>1, InitSessionInv, StepKeepsSessionInv, PTL DEF Spec

-----------------------------------------------------------------------------
(* Live tokens *)

\* An answer that has come says something, and only a dead token is refused, but
\* by a login, which refuses the password.
Told(s) ==
    /\ req[s].stage = "answered" => req[s].answer # "none"
    /\ req[s].answer = "refused" /\ req[s].op # "login" => req[s].token \notin live

\* What the browser holds and the server does not accept is never accepted again.
LEMMA DeadStaysDead ==
    ASSUME SessionInv, [Next]_vars, NEW x \in issued \union {NoToken}, x \notin live
    PROVE  x \notin live'
<1>1. SessionInv' /\ [Registry!Next]_<<issued, live>>
  BY StepKeepsSessionInv, ServerStep
<1>2. NoToken \notin live'
  BY <1>1, NoTokenIsNoToken DEF SessionInv, TypeOK
<1>3. x \in issued => x \notin live'
  BY <1>1 DEF Registry!Next, Registry!Open, Registry!Revoke
<1> QED
  BY <1>2, <1>3

\* What the server tells, it tells of the token that the request carries.
LEMMA ServeTells ==
    ASSUME SessionInv, NEW s \in Slots, Serve(s) \/ Lose(s)
    PROVE  /\ \A r \in Slots : r # s => req'[r] = req[r]
           /\ req'[s].op = req[s].op /\ req'[s].token = req[s].token
           /\ \/ req'[s].stage = "committed" /\ req'[s].answer = req[s].answer
              \/ req'[s].stage = "answered" /\ req'[s].answer \in {"ok", "token", "failed"}
              \/ /\ req'[s].stage = "answered" /\ req'[s].answer = "refused"
                 /\ req[s].op = "login" \/ req[s].token \notin live
<1>1. req \in [Slots -> Request] /\ req[s] \in Request
  BY DEF SessionInv, TypeOK
<1>2. CASE \E answer \in {"ok", "token", "failed", "refused"} : \E new :
             /\ Answered(s, answer, new)
             /\ answer = "refused" => req[s].op = "login" \/ req[s].token \notin live
  <2>0. PICK answer \in {"ok", "token", "failed", "refused"} :
          \E new :
             /\ Answered(s, answer, new)
             /\ answer = "refused" => req[s].op = "login" \/ req[s].token \notin live
    BY <1>2
  <2>1. PICK new :
          /\ Answered(s, answer, new)
          /\ answer = "refused" => req[s].op = "login" \/ req[s].token \notin live
    BY <2>0
  <2> DEFINE q == [req[s] EXCEPT !.stage = "answered", !.answer = answer,
                                 !.new = new]
  <2>2. /\ q.stage = "answered" /\ q.answer = answer
        /\ q.op = req[s].op /\ q.token = req[s].token
    BY <1>1 DEF Request
  <2>3. req' = [req EXCEPT ![s] = q]
    BY <2>1 DEF Answered
  <2> HIDE DEF q
  <2>4. req'[s] = q /\ \A r \in Slots : r # s => req'[r] = req[r]
    BY <1>1, <2>3
  <2> QED
    BY <2>1, <2>2, <2>4
<1>3. CASE req' = [req EXCEPT ![s].stage = "committed"]
  <2> DEFINE q == [req[s] EXCEPT !.stage = "committed"]
  <2>1. /\ q.stage = "committed" /\ q.answer = req[s].answer
        /\ q.op = req[s].op /\ q.token = req[s].token
    BY <1>1 DEF Request
  <2>2. req' = [req EXCEPT ![s] = q]
    BY <1>3
  <2> HIDE DEF q
  <2> QED
    BY <1>1, <2>1, <2>2
<1>4. Lose(s) \/ ServeLogin(s) \/ IssueReplacement(s) =>
        \E answer \in {"ok", "token", "failed", "refused"} : \E new :
             /\ Answered(s, answer, new)
             /\ answer = "refused" => req[s].op = "login" \/ req[s].token \notin live
  BY DEF Lose, ServeLogin, IssueReplacement, Issue
<1>5. ServeRead(s) =>
        \E answer \in {"ok", "token", "failed", "refused"} : \E new :
             /\ Answered(s, answer, new)
             /\ answer = "refused" => req[s].op = "login" \/ req[s].token \notin live
  BY DEF ServeRead
<1>6. ServeChange(s) =>
        \/ req' = [req EXCEPT ![s].stage = "committed"]
        \/ \E answer \in {"ok", "token", "failed", "refused"} : \E new :
             /\ Answered(s, answer, new)
             /\ answer = "refused" => req[s].op = "login" \/ req[s].token \notin live
  BY DEF ServeChange
<1> QED
  BY <1>2, <1>3, <1>4, <1>5, <1>6 DEF Serve

\* Every step keeps what the browser is told true.
LEMMA StepKeepsTold ==
    ASSUME SessionInv, [Next]_vars, \A s \in Slots : Told(s)
    PROVE  \A s \in Slots : Told(s)'
<1> SUFFICES ASSUME NEW s \in Slots PROVE Told(s)'
  OBVIOUS
<1>1. /\ req \in [Slots -> Request] /\ req[s].token \in issued \union {NoToken}
      /\ Told(s) /\ (req[s].token \notin live => req[s].token \notin live')
  BY DeadStaysDead DEF SessionInv, TypeOK, Issued
<1>2. CASE /\ req'[s].stage = req[s].stage /\ req'[s].answer = req[s].answer
           /\ req'[s].op = req[s].op /\ req'[s].token = req[s].token
  BY <1>1, <1>2 DEF Told
<1>3. CASE req'[s].stage = "sent" /\ req'[s].answer = "none"
  BY <1>3 DEF Told
<1>4. ASSUME NEW r \in Slots, Serve(r) \/ Lose(r) PROVE Told(s)'
  <2>1. CASE r = s
    <3>1. /\ req'[s].op = req[s].op /\ req'[s].token = req[s].token
          /\ \/ req'[s].stage = "committed" /\ req'[s].answer = req[s].answer
             \/ req'[s].stage = "answered" /\ req'[s].answer \in {"ok", "token", "failed"}
             \/ /\ req'[s].stage = "answered" /\ req'[s].answer = "refused"
                /\ req[s].op = "login" \/ req[s].token \notin live
      BY <1>4, <2>1, ServeTells
    <3> QED
      BY <1>1, <3>1 DEF Told
  <2>2. CASE r # s
    BY <1>2, <1>4, <2>2, ServeTells
  <2> QED
    BY <2>1, <2>2
<1>5. ASSUME NEW r \in Slots, NEW t, NEW op, NEW u, Send(r, t, op, u)
      PROVE  Told(s)'
  <2>1. req' = [req EXCEPT ![r] = Sent(t, op, u)]
    BY <1>5 DEF Send
  <2>2. Sent(t, op, u).stage = "sent" /\ Sent(t, op, u).answer = "none"
    BY DEF Sent, Idle
  <2>3. req'[s] = IF s = r THEN Sent(t, op, u) ELSE req[s]
    BY <1>1, <2>1
  <2> QED
    BY <1>2, <1>3, <2>2, <2>3
<1>6. ASSUME NEW r \in Slots, Receive(r) PROVE Told(s)'
  <2>1. req'[s] = IF s = r THEN Idle ELSE req[s]
    BY <1>1, <1>6 DEF Receive, Finish
  <2> QED
    BY <1>2, <1>3, <2>1, IdleIsRequest
<1>7. ASSUME NEW t \in Tabs, SignOut(t) PROVE Told(s)'
  <2>1. \/ req'[s] = req[s]
        \/ req'[s] = [req[s] EXCEPT !.before = TRUE, !.cancelled = TRUE]
    BY <1>7 DEF SignOut
  <2> QED
    BY <1>1, <1>2, <2>1 DEF Request
<1>8. CASE UNCHANGED req
  BY <1>2, <1>8
<1>9. ASSUME NEW r \in Slots, NEW t \in Tabs,
             \/ \E u \in Users : SubmitLogin(r, t, u)
             \/ SubmitChange(r, t) \/ FetchMe(r, t) \/ PollServer(r, t)
             \/ Navigate(r, t)
      PROVE  Told(s)'
  BY <1>5, <1>8, <1>9
     DEF SubmitLogin, SubmitChange, FetchMe, PollServer, Navigate
<1> QED
  BY <1>4, <1>6, <1>7, <1>8, <1>9 DEF Next, RevokeElsewhere, vars

\* Only what Excused names takes a live token away.
LEMMA OnlyTheExcusedClear ==
    ASSUME SessionInv, [Next]_vars, \A s \in Slots : Told(s),
           stored \in live, stored' = NoToken
    PROVE  \/ \E t \in Tabs : SignOut(t)
           \/ \E s \in Slots : Receive(s) /\ Excused(req[s])
<1>1. stored # NoToken
  BY NoTokenIsNoToken DEF SessionInv, TypeOK
<1>2. ASSUME NEW s \in Slots, Receive(s) PROVE Excused(req[s])
  <2>1. /\ req[s].answer # "token" /\ ~Keeps(req[s])
        /\ req[s].stage = "answered"
    <3>1. /\ req[s].stage = "answered"
          /\ stored' = IF req[s].answer = "token" THEN req[s].new
                       ELSE IF Keeps(req[s]) THEN stored ELSE NoToken
      BY <1>2 DEF Receive
    <3>2. req[s].answer = "token" => req[s].new # NoToken
      BY NoTokenIsNoToken DEF SessionInv, TypeOK, Undelivered
    <3> QED
      BY <1>1, <3>1, <3>2
  <2>2. req[s].answer \in {"refused", "failed"}
    BY <2>1 DEF SessionInv, TypeOK, Request, Told, Keeps
  <2> QED
    BY <2>1, <2>2 DEF Keeps, Excused, Told
<1>3. ASSUME NEW s \in Slots, NEW t \in Tabs,
             \/ \E u \in Users : SubmitLogin(s, t, u)
             \/ SubmitChange(s, t) \/ FetchMe(s, t) \/ PollServer(s, t)
             \/ Navigate(s, t)
      PROVE  UNCHANGED stored
  BY <1>3 DEF SubmitLogin, SubmitChange, FetchMe, PollServer, Navigate
<1>4. ASSUME NEW s \in Slots, Serve(s) \/ Lose(s) PROVE UNCHANGED stored
  BY <1>4 DEF Serve, ServeLogin, ServeChange, IssueReplacement, ServeRead, Lose
<1> QED
  BY <1>1, <1>2, <1>3, <1>4 DEF Next, RevokeElsewhere, vars

\* A live token stays until the user signs out, but for what Excused names.
THEOREM LiveTokensStay == Spec => LiveTokensAreKept
<1>1. Init => \A s \in Slots : Told(s)
  BY IdleIsRequest DEF Init, Told
<1>2. SessionInv /\ (\A s \in Slots : Told(s)) /\ [Next]_vars =>
        (\A s \in Slots : Told(s))'
  BY StepKeepsTold
<1>3. SessionInv /\ (\A s \in Slots : Told(s)) /\ [Next]_vars =>
        [(stored \in live /\ stored' = NoToken) =>
           (\/ \E t \in Tabs : SignOut(t)
            \/ \E s \in Slots : Receive(s) /\ Excused(req[s]))]_vars
  BY OnlyTheExcusedClear
<1> QED
  BY <1>1, <1>2, <1>3, InitSessionInv, StepKeepsSessionInv, PTL
     DEF Spec, LiveTokensAreKept
=============================================================================
