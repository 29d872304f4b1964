--------------------------- MODULE AccountsProofs ---------------------------
(***************************************************************************)
(* Theorems about Accounts for every number of users and of concurrent     *)
(* requests.  Handlers only prepare a commit, so each proof has one case   *)
(* for the steps that stage a request and one for each of the two steps    *)
(* that write: Commit and IssueToken.                                      *)
(***************************************************************************)
EXTENDS Accounts, TLAPS

\* A request that may be staged: well typed, with a target once checked, and
\* sound.
Stageable(q) == /\ q \in Request
                /\ q.stage \in {"checked", "minting"} => q.target \in Users
                /\ Sound(q)

-----------------------------------------------------------------------------
(* What handlers stage *)

LEMMA IdleStageable == Stageable(Idle)
BY DEF Stageable, Sound, Request, Change, Keep, Idle, Row, NoRow

LEMMA PreparedStageable ==
    ASSUME NEW op \in AdminOperations \union OpenOperations,
           NEW actor \in Users \union {NoUser}, NEW u \in Users,
           NEW seen \in Row, NEW change \in Change,
           change.status # "absent",
           seen.status # "absent" => Exists(u),
           change.secret = "hash" => seen.status = "absent"
    PROVE  Stageable(Prepared(op, actor, u, seen, change))
BY DEF Stageable, Sound, Request, Prepared, Row

LEMMA KeepType == ASSUME NEW row \in Row PROVE Keep(row) \in Change
BY DEF Keep, Row, Change

\* What an authorized administrator's request stages.
LEMMA AdminPrepareStages ==
    ASSUME TypeOK, AccountInv, NEW r \in Requests, NEW u \in Users,
           NEW change \in Change, NEW op \in AdminOperations,
           Authorized(r, op), AdminPrepare(r, u, change),
           change.status # "absent", change.secret # "hash"
    PROVE  \E q : Stageable(q) /\ Stage(r, q)
<1> DEFINE seen == TargetRow(req[r], u)
           q    == Prepared(req[r].op, req[r].actor, u, seen, change)
<1>1. Stage(r, q)
  BY DEF AdminPrepare
<1>2. seen \in Row
  BY DEF TargetRow, TypeOK, Request
<1>3. seen.status # "absent" => Exists(u)
  BY DEF TargetRow, AccountInv, Sound, Authorized, Exists
<1>4. /\ req[r].op \in AdminOperations \union OpenOperations
      /\ req[r].actor \in Users \union {NoUser}
  BY DEF Authorized, TypeOK, Request
<1>5. Stageable(q)
  BY <1>2, <1>3, <1>4, PreparedStageable
<1> QED BY <1>1, <1>5

LEMMA UnchangedType ==
    ASSUME TypeOK, NEW r \in Requests, NEW u \in Users
    PROVE  /\ Unchanged(r, u) \in Change
           /\ Unchanged(r, u).status = TargetRow(req[r], u).status
           /\ Unchanged(r, u).secret = "keep"
<1>1. TargetRow(req[r], u) \in Row
  BY DEF TargetRow, TypeOK, Request
<1> QED BY <1>1, KeepType DEF Unchanged, Keep

LEMMA SelfServiceStages ==
    ASSUME TypeOK, AccountInv, NEW r \in Requests, SelfService(r)
    PROVE  \E q : Stageable(q) /\ Stage(r, q)
<1>1. ASSUME NEW u \in Users, LoginFailure(r, u)
      PROVE  \E q : Stageable(q) /\ Stage(r, q)
  <2> DEFINE seen    == account[u]
             counted == seen.status \in LoginStatuses
             failed  == IF counted THEN seen.failed + 1 ELSE seen.failed
             status  == IF counted /\ failed >= MaxFailedLogins
                        THEN "locked" ELSE Keep(seen).status
             change  == [Keep(seen) EXCEPT !.failed = failed, !.status = status]
  <2>1. seen \in Row
    BY DEF TypeOK
  <2>2. change \in Change
    <3>1. failed \in Nat
      BY <2>1 DEF Row
    <3>2. status \in Status \union {"absent"}
      BY <2>1, KeepType DEF Change, Status
    <3> HIDE DEF failed, status
    <3> QED BY <2>1, <3>1, <3>2, KeepType DEF Change
  <2>3. Stage(r, Prepared("login_failure", NoUser, u, seen, change))
    BY <1>1 DEF LoginFailure
  <2>4. change.status # "absent" /\ change.secret # "hash" /\ Exists(u)
    BY <1>1 DEF LoginFailure, Exists, Keep
  <2> QED
    BY <2>1, <2>2, <2>3, <2>4, PreparedStageable DEF OpenOperations
<1>2. ASSUME NEW u \in Users, LoginSuccess(r, u)
      PROVE  \E q : Stageable(q) /\ Stage(r, q)
  <2> DEFINE seen   == account[u]
             change == [Keep(seen) EXCEPT !.failed = 0]
  <2>1. seen \in Row
    BY DEF TypeOK
  <2>2. change \in Change
    BY <2>1, KeepType DEF Change
  <2>3. Stage(r, Prepared("login_success", u, u, seen, change))
    BY <1>2 DEF LoginSuccess
  <2>4. change.status # "absent" /\ change.secret # "hash" /\ Exists(u)
    BY <1>2 DEF LoginSuccess, Exists, Keep, LoginStatuses
  <2> QED
    BY <2>1, <2>2, <2>3, <2>4, PreparedStageable DEF OpenOperations
<1>3. ASSUME NEW u \in Users, RegisterUser(r, u)
      PROVE  \E q : Stageable(q) /\ Stage(r, q)
  <2> DEFINE seen   == account[u]
             change == [Keep(seen) EXCEPT !.status = "pending_approval",
                                          !.secret = "hash"]
  <2>1. seen \in Row
    BY DEF TypeOK
  <2>2. change \in Change
    BY <2>1, KeepType DEF Change, Status
  <2>3. Stage(r, Prepared("register_user", NoUser, u, seen, change))
    BY <1>3 DEF RegisterUser
  <2>4. change.status # "absent" /\ seen.status = "absent"
    BY <1>3 DEF RegisterUser, Exists, Keep
  <2> QED
    BY <2>1, <2>2, <2>3, <2>4, PreparedStageable DEF OpenOperations
<1>4. ASSUME NEW u \in Users, BootstrapAdmin(r, u)
      PROVE  \E q : Stageable(q) /\ Stage(r, q)
  <2> DEFINE seen   == account[u]
             change == [Keep(seen) EXCEPT !.status = "active",
                                          !.secret = "hash",
                                          !.roles = {"super_admin"}]
  <2>1. seen \in Row
    BY DEF TypeOK
  <2>2. change \in Change
    BY <2>1, KeepType DEF Change, Status, Role
  <2>3. Stage(r, Prepared("bootstrap_admin", NoUser, u, seen, change))
    BY <1>4 DEF BootstrapAdmin
  <2>4. change.status # "absent" /\ seen.status = "absent"
    BY <1>4 DEF BootstrapAdmin, Exists, Keep
  <2> QED
    BY <2>1, <2>2, <2>3, <2>4, PreparedStageable DEF OpenOperations
<1>5. ASSUME NEW t \in tokens, ChangePassword(r, t)
      PROVE  \E q : Stageable(q) /\ Stage(r, q)
  <2> DEFINE seen   == account[t.user]
             change == [Keep(seen) EXCEPT
                          !.failed = 0,
                          !.status = IF @ = "password_change_required"
                                     THEN "active" ELSE @,
                          !.secret = "hash_and_stamp"]
  <2>1. t.user \in Users /\ seen \in Row
    BY DEF TypeOK, Token
  <2>2. change \in Change
    BY <2>1, KeepType DEF Change, Status
  <2>3. Stage(r, Prepared("change_password", t.user, t.user, seen, change))
    BY <1>5 DEF ChangePassword
  <2>4. Exists(t.user)
    BY <1>5 DEF ChangePassword, Exists, Accepted, LoginStatuses
  <2>5. change.status # "absent" /\ change.secret # "hash"
    BY <2>4 DEF Exists, Keep
  <2> QED
    BY <2>1, <2>2, <2>3, <2>4, <2>5, PreparedStageable DEF OpenOperations
<1> QED
  BY <1>1, <1>2, <1>3, <1>4, <1>5 DEF SelfService

LEMMA AdministerStages ==
    ASSUME TypeOK, AccountInv, NEW r \in Requests, Administer(r)
    PROVE  \E q : Stageable(q) /\ Stage(r, q)
<1>1. ASSUME NEW t \in tokens, NEW op \in AdminOperations, Authorize(r, t, op)
      PROVE  \E q : Stageable(q) /\ Stage(r, q)
  <2> DEFINE q == [Idle EXCEPT !.stage = "authorized", !.op = op,
                               !.actor = t.user, !.seen = account[t.user]]
  <2>1. t.user \in Users /\ account[t.user] \in Row
    BY DEF TypeOK, Token
  <2>2. Stageable(q)
    <3>1. account[t.user].status = "active"
      BY <1>1 DEF Authorize, Accepted
    <3> QED BY <2>1, <3>1, IdleStageable DEF Stageable, Sound, Exists, Request, Idle
  <2>3. Stage(r, q)
    BY <1>1 DEF Authorize
  <2> QED BY <2>2, <2>3
<1>2. ASSUME NEW u \in Users, NEW new \in Status, UpdateUserStatus(r, u, new)
      PROVE  \E q : Stageable(q) /\ Stage(r, q)
  <2> DEFINE change == [Unchanged(r, u) EXCEPT !.status = new]
  <2>1. change \in Change /\ change.status # "absent" /\ change.secret = "keep"
    BY UnchangedType DEF Change, Status
  <2> QED
    BY <1>2, <2>1, AdminPrepareStages DEF UpdateUserStatus, AdminOperations
<1>3. ASSUME NEW u \in Users, NEW new \in RolePayloads,
             \/ UpdateUserRoles(r, u, new)
             \/ ApproveUser(r, u, new)
             \/ CreateAdminUser(r, u, new)
      PROVE  \E q : Stageable(q) /\ Stage(r, q)
  <2>1. new \in SUBSET Role
    BY ChoicesAssumption
  <2>2. CASE UpdateUserRoles(r, u, new)
    <3> DEFINE change == [Unchanged(r, u) EXCEPT !.roles = new]
    <3>0. TargetRow(req[r], u).status # "absent"
      BY <2>2 DEF UpdateUserRoles, Authorized, TargetRow, Exists, AccountInv, Sound
    <3>1. change \in Change /\ change.status # "absent" /\ change.secret = "keep"
      BY <2>1, <3>0, UnchangedType DEF Change
    <3> QED
      BY <2>2, <3>1, AdminPrepareStages DEF UpdateUserRoles, AdminOperations
  <2>3. CASE ApproveUser(r, u, new)
    <3> DEFINE change == [Unchanged(r, u) EXCEPT !.status = "active",
                                                 !.roles = new]
    <3>1. change \in Change /\ change.status # "absent" /\ change.secret = "keep"
      BY <2>1, UnchangedType DEF Change, Status
    <3> QED
      BY <2>3, <3>1, AdminPrepareStages DEF ApproveUser, AdminOperations
  <2>4. CASE CreateAdminUser(r, u, new)
    <3> DEFINE change == [Unchanged(r, u) EXCEPT
                            !.status = "password_change_required",
                            !.secret = "hash_and_stamp",
                            !.roles = new]
    <3>1. change \in Change /\ change.status # "absent" /\ change.secret # "hash"
      BY <2>1, UnchangedType DEF Change, Status
    <3> QED
      BY <2>4, <3>1, AdminPrepareStages DEF CreateAdminUser, AdminOperations
  <2> QED BY <1>3, <2>2, <2>3, <2>4
<1>4. ASSUME NEW u \in Users, UnlockUser(r, u)
      PROVE  \E q : Stageable(q) /\ Stage(r, q)
  <2> DEFINE change == [Unchanged(r, u) EXCEPT !.status = "active",
                                               !.failed = 0]
  <2>1. change \in Change /\ change.status # "absent" /\ change.secret = "keep"
    BY UnchangedType DEF Change, Status
  <2> QED
    BY <1>4, <2>1, AdminPrepareStages DEF UnlockUser, AdminOperations
<1>5. ASSUME NEW u \in Users, ResetUserPassword(r, u)
      PROVE  \E q : Stageable(q) /\ Stage(r, q)
  <2> DEFINE change == [Unchanged(r, u) EXCEPT
                          !.status = "password_change_required",
                          !.failed = 0,
                          !.secret = "hash_and_stamp"]
  <2>1. change \in Change /\ change.status # "absent" /\ change.secret # "hash"
    BY UnchangedType DEF Change, Status
  <2> QED
    BY <1>5, <2>1, AdminPrepareStages DEF ResetUserPassword, AdminOperations
<1>6. ASSUME NEW u \in Users, RejectUser(r, u)
      PROVE  \E q : Stageable(q) /\ Stage(r, q)
  <2> DEFINE change == [Unchanged(r, u) EXCEPT !.status = "rejected"]
  <2>1. change \in Change /\ change.status # "absent" /\ change.secret = "keep"
    BY UnchangedType DEF Change, Status
  <2> QED
    BY <1>6, <2>1, AdminPrepareStages DEF RejectUser, AdminOperations
<1> QED
  BY <1>1, <1>2, <1>3, <1>4, <1>5, <1>6 DEF Administer

\* Every step either stages a request, leaving everything durable alone, or is
\* one of the two that write.
LEMMA StepCases ==
    ASSUME TypeOK, AccountInv, Next
    PROVE  \E r \in Requests : \/ \E q : Stageable(q) /\ Stage(r, q)
                               \/ Commit(r)
                               \/ IssueToken(r)
<1>1. ASSUME NEW r \in Requests, Fail(r)
      PROVE  \E q : Stageable(q) /\ Stage(r, q)
  BY <1>1, IdleStageable DEF Fail
<1> QED
  BY <1>1, SelfServiceStages, AdministerStages DEF Next, Finish

-----------------------------------------------------------------------------
(* Type correctness *)

LEMMA StagePreservesType ==
    ASSUME TypeOK, NEW r \in Requests, NEW q, Stageable(q), Stage(r, q)
    PROVE  TypeOK'
BY DEF TypeOK, Stageable, Stage, durable

\* The row a commit leaves is a row, and its stamp is of a password that
\* exists: the one it had, or the one the commit creates.
LEMMA WrittenType ==
    ASSUME NEW row \in Row, NEW q \in Request, NEW secret \in Nat,
           row.stamp <= secret
    PROVE  /\ Written(row, q, secret) \in Row
           /\ Written(row, q, secret).stamp <= secret
<1>1. Column(row.status, q.seen.status, q.change.status) \in Status \union {"absent"}
  BY DEF Column, Row, Request, Change
<1>2. Column(row.failed, q.seen.failed, q.change.failed) \in Nat
  BY DEF Column, Row, Request, Change
<1> QED
  BY <1>1, <1>2 DEF Written, Row

LEMMA CommittedStageable ==
    ASSUME NEW q \in Request, q.target \in Users, NEW secret \in Nat
    PROVE  Stageable(Committed(q, secret))
<1>1. CASE q.op \in {"login_success", "change_password"}
  <2>1. (IF q.op = "change_password" THEN secret ELSE q.proof) \in Nat
    BY DEF Request
  <2> QED
    BY <1>1, <2>1, IdleStageable
    DEF Committed, Stageable, Sound, Request, Idle
<1>2. CASE q.op \notin {"login_success", "change_password"}
  BY <1>2, IdleStageable DEF Committed
<1> QED BY <1>1, <1>2

LEMMA CommitPreservesType ==
    ASSUME TypeOK, NEW r \in Requests, Commit(r)
    PROVE  TypeOK'
<1> DEFINE q == req[r]
           secret == lastSecret + 1
<1>1. /\ q \in Request /\ q.target \in Users /\ q.change \in Change
      /\ secret \in Nat /\ lastSecret <= secret
  BY DEF TypeOK, Commit, Request
<1>2. /\ Written(account[q.target], q, secret) \in Row
      /\ Written(account[q.target], q, secret).stamp
           <= (IF q.change.secret = "keep" THEN lastSecret ELSE secret)
  <2>1. Written(account[q.target], q, secret) \in Row
    BY <1>1, WrittenType DEF TypeOK, Row
  <2>2. account[q.target].stamp <= lastSecret /\ account[q.target].stamp \in Nat
    BY <1>1 DEF TypeOK, Row
  <2> QED BY <1>1, <2>1, <2>2 DEF Written, TypeOK
<1>3. account' = [account EXCEPT ![q.target] = Written(account[q.target], q, secret)]
  BY DEF Commit
<1>4. account' \in [Users -> Row]
  BY <1>1, <1>2, <1>3 DEF TypeOK
<1>5. /\ lastSecret' \in Nat /\ lastSecret <= lastSecret'
      /\ \A u \in Users : account'[u].stamp <= lastSecret'
  <2>1. lastSecret' = IF q.change.secret = "keep" THEN lastSecret ELSE secret
    BY DEF Commit
  <2>2. lastSecret' \in Nat /\ lastSecret <= lastSecret'
    BY <1>1, <2>1 DEF TypeOK
  <2>3. ASSUME NEW u \in Users PROVE account'[u].stamp <= lastSecret'
    <3>1. CASE u = q.target
      <4>1. account'[u] = Written(account[q.target], q, secret)
        BY <1>1, <1>3, <3>1 DEF TypeOK
      <4> QED BY <1>2, <2>1, <4>1
    <3>2. CASE u # q.target
      BY <1>1, <1>3, <2>2, <3>2 DEF TypeOK, Row
    <3> QED BY <3>1, <3>2
  <2> QED BY <2>2, <2>3
<1>6. roles' \in [Users -> SUBSET Role]
  BY <1>1 DEF Commit, TypeOK, Change
<1>7. /\ req' \in [Requests -> Request]
      /\ \A s \in Requests : req'[s].stage \in {"checked", "minting"}
                              => req'[s].target \in Users
  <2>1. req' = [req EXCEPT ![r] = Committed(q, secret)]
    BY DEF Commit
  <2>2. Stageable(Committed(q, secret))
    BY <1>1, CommittedStageable
  <2> HIDE DEF q, secret
  <2> QED BY <2>1, <2>2 DEF Stageable, TypeOK
<1>8. temporary' \subseteq Nat
  BY <1>1 DEF Commit, TypeOK
<1>9. tokens' = tokens /\ \A t \in tokens : t.stamp <= lastSecret'
  BY <1>5 DEF Commit, TypeOK, Token
<1> QED
  BY <1>4, <1>5, <1>6, <1>7, <1>8, <1>9 DEF TypeOK

LEMMA IssueTokenPreservesType ==
    ASSUME TypeOK, NEW r \in Requests, IssueToken(r)
    PROVE  TypeOK'
<1> DEFINE t == [user |-> req[r].target, stamp |-> account[req[r].target].stamp,
                 proof |-> req[r].proof]
<1>1. req[r].target \in Users /\ req[r].proof \in Nat
  BY DEF IssueToken, TypeOK, Request
<1>2. t \in Token /\ t.stamp <= lastSecret
  BY <1>1 DEF Token, TypeOK, Row
<1>3. tokens' = tokens \union {t} /\ req' = [req EXCEPT ![r] = Idle]
      /\ UNCHANGED <<account, roles, lastSecret, temporary>>
  BY DEF IssueToken
<1> HIDE DEF t
<1> QED
  BY <1>2, <1>3, IdleStageable DEF TypeOK, Stageable

-----------------------------------------------------------------------------
(* The inductive invariant *)

LEMMA StagePreservesInv ==
    ASSUME TypeOK, AccountInv, NEW r \in Requests, NEW q,
           Stageable(q), Stage(r, q)
    PROVE  AccountInv'
<1>1. UNCHANGED <<account, roles, lastSecret>> /\ req' = [req EXCEPT ![r] = q]
  BY DEF Stage, durable
<1>2. ASSUME NEW s \in Requests PROVE Sound(req[s])'
  <2>1. Sound(req'[s])
    BY <1>1 DEF Stageable, AccountInv, TypeOK
  <2> QED BY <1>1, <2>1 DEF Sound, Exists
<1> QED BY <1>1, <1>2 DEF AccountInv, Exists

\* A commit leaves its account in the table and erases no other.
LEMMA CommitKeepsAccounts ==
    ASSUME TypeOK, AccountInv, NEW r \in Requests, Commit(r)
    PROVE  \A u \in Users : Exists(u) \/ u = req[r].target => Exists(u)'
<1> DEFINE q == req[r]
<1>1. /\ account' = [account EXCEPT ![q.target] =
                       Written(account[q.target], q, lastSecret + 1)]
      /\ q.stage = "checked" /\ q.target \in Users
  BY DEF Commit, TypeOK
<1>2. /\ q.change.status # "absent"
      /\ q.seen.status # "absent" => Exists(q.target)
  BY <1>1 DEF AccountInv, Sound
<1>3. Written(account[q.target], q, lastSecret + 1).status # "absent"
  BY <1>2 DEF Written, Column, Exists
<1> QED BY <1>1, <1>3 DEF Exists, TypeOK

LEMMA CommitPreservesInv ==
    ASSUME TypeOK, AccountInv, NEW r \in Requests, Commit(r)
    PROVE  AccountInv'
<1> DEFINE q == req[r]
           secret == lastSecret + 1
<1>1. /\ account' = [account EXCEPT ![q.target] = Written(account[q.target], q, secret)]
      /\ req' = [req EXCEPT ![r] = Committed(q, secret)]
      /\ q.target \in Users
      /\ lastSecret' = IF q.change.secret = "keep" THEN lastSecret ELSE secret
  BY DEF Commit, TypeOK
<1>2. ASSUME NEW s \in Requests PROVE Sound(req[s])'
  <2>1. CASE s = r
    BY <1>1, <2>1 DEF Sound, Committed, Idle, TypeOK
  <2>2. CASE s # r
    <3>1. req'[s] = req[s] /\ Sound(req[s])
      BY <1>1, <2>2 DEF TypeOK, AccountInv
    <3>2. req[s].stage = "checked" => req[s].target \in Users
      BY DEF TypeOK
    <3> QED BY <3>1, <3>2, CommitKeepsAccounts DEF Sound
  <2> QED BY <2>1, <2>2
<1>3. ASSUME NEW u \in Users PROVE account'[u].hash <= lastSecret'
  <2>1. account[u].hash <= lastSecret /\ account[u].hash \in Nat /\ lastSecret \in Nat
    BY DEF AccountInv, TypeOK, Row
  <2>2. CASE u # q.target
    BY <1>1, <2>1, <2>2 DEF TypeOK
  <2>3. CASE u = q.target
    <3>1. account'[u].hash
            = IF q.change.secret = "keep" THEN account[u].hash ELSE secret
      BY <1>1, <2>3 DEF TypeOK, Written
    <3> QED BY <1>1, <2>1, <3>1
  <2> QED BY <2>2, <2>3
<1>4. ASSUME NEW u \in Users, roles'[u] # {} PROVE Exists(u)'
  <2>1. CASE u = q.target
    BY <2>1, CommitKeepsAccounts
  <2>2. CASE u # q.target
    <3>1. roles'[u] = roles[u]
      BY <1>1, <2>2 DEF Commit, TypeOK
    <3> QED BY <1>4, <3>1, CommitKeepsAccounts DEF AccountInv
  <2> QED BY <2>1, <2>2
<1> QED BY <1>2, <1>3, <1>4 DEF AccountInv

LEMMA IssueTokenPreservesInv ==
    ASSUME TypeOK, AccountInv, NEW r \in Requests, IssueToken(r)
    PROVE  AccountInv'
<1>1. /\ req' = [req EXCEPT ![r] = Idle]
      /\ UNCHANGED <<account, roles, lastSecret>>
  BY DEF IssueToken
<1>2. ASSUME NEW s \in Requests PROVE Sound(req[s])'
  <2>1. Sound(req'[s])
    BY <1>1, IdleStageable DEF TypeOK, AccountInv, Stageable
  <2> QED BY <1>1, <2>1 DEF Sound, Exists
<1> QED BY <1>1, <1>2 DEF AccountInv, Exists

-----------------------------------------------------------------------------
(* Theorems *)

LEMMA InitInv == Init => TypeOK /\ AccountInv
<1>1. Init => TypeOK
  BY IdleStageable DEF Init, TypeOK, Row, NoRow, Token, Stageable, Idle
<1>2. Init => AccountInv
  BY DEF Init, AccountInv, Sound, NoRow, Idle
<1> QED BY <1>1, <1>2

LEMMA NextInv == TypeOK /\ AccountInv /\ [Next]_vars => TypeOK' /\ AccountInv'
<1> SUFFICES ASSUME TypeOK, AccountInv, [Next]_vars PROVE TypeOK' /\ AccountInv'
  OBVIOUS
<1>1. CASE Next
  <2>1. PICK r \in Requests : \/ \E q : Stageable(q) /\ Stage(r, q)
                             \/ Commit(r)
                             \/ IssueToken(r)
    BY <1>1, StepCases
  <2>2. CASE \E q : Stageable(q) /\ Stage(r, q)
    BY <2>2, StagePreservesType, StagePreservesInv
  <2>3. CASE Commit(r)
    BY <2>3, CommitPreservesType, CommitPreservesInv
  <2>4. CASE IssueToken(r)
    BY <2>4, IssueTokenPreservesType, IssueTokenPreservesInv
  <2> QED BY <2>1, <2>2, <2>3, <2>4
<1>2. CASE UNCHANGED vars
  BY <1>2 DEF vars, TypeOK, AccountInv, Sound, Exists
<1> QED BY <1>1, <1>2

\* Type correctness: whatever requests interleave, rows stay rows, tokens stay
\* tokens, and no stamp names a password that has not been set yet.
THEOREM TypeCorrect == Spec => []TypeOK
<1>1. TypeOK /\ AccountInv => TypeOK
  OBVIOUS
<1> QED BY InitInv, NextInv, <1>1, PTL DEF Spec

\* Requests in flight stay sound while others commit: the inductive invariant
\* of the theorems below.
THEOREM AccountInvariant == Spec => [](TypeOK /\ AccountInv)
BY InitInv, NextInv, PTL DEF Spec

\* Any number of requests in flight: password_changed_at changes exactly when
\* the password of an existing account does.
THEOREM StampExact == Spec => StampTracksPassword
<1> DEFINE Exact == \A u \in Users : Exists(u) =>
                      (account'[u].hash # account[u].hash
                         <=> account'[u].stamp # account[u].stamp)
<1>1. TypeOK /\ AccountInv /\ [Next]_vars => [Exact]_vars
  <2> SUFFICES ASSUME TypeOK, AccountInv, [Next]_vars PROVE [Exact]_vars
    OBVIOUS
  <2>1. CASE Next
    <3>1. PICK r \in Requests : \/ \E q : Stageable(q) /\ Stage(r, q)
                               \/ Commit(r)
                               \/ IssueToken(r)
      BY <2>1, StepCases
    <3>2. CASE account' = account
      BY <3>2
    <3>3. CASE Commit(r)
      <4> SUFFICES ASSUME NEW u \in Users, Exists(u)
                   PROVE  account'[u].hash # account[u].hash
                            <=> account'[u].stamp # account[u].stamp
        OBVIOUS
      <4> DEFINE q == req[r]
      <4>1. /\ account' = [account EXCEPT ![q.target] =
                             Written(account[q.target], q, lastSecret + 1)]
            /\ q.stage = "checked" /\ q.target \in Users
            /\ q.seen.status = "absent" => ~Exists(q.target)
        BY <3>3 DEF Commit, TypeOK
      <4>2. /\ account[u].hash \in Nat /\ account[u].hash <= lastSecret
            /\ account[u].stamp \in Nat /\ account[u].stamp <= lastSecret
            /\ lastSecret \in Nat
        BY DEF AccountInv, TypeOK, Row
      <4>3. CASE u = q.target
        <5>1. q.change.secret \in {"keep", "hash_and_stamp"}
          BY <4>1, <4>3 DEF AccountInv, Sound, TypeOK, Request, Change
        <5>2. account'[u] = Written(account[u], q, lastSecret + 1)
          BY <4>1, <4>3 DEF TypeOK
        <5> QED BY <4>2, <5>1, <5>2 DEF Written
      <4>4. CASE u # q.target
        BY <4>1, <4>4 DEF TypeOK
      <4> QED BY <4>3, <4>4
    <3> QED BY <3>1, <3>2, <3>3 DEF Stage, durable, IssueToken
  <2> QED BY <2>1
<1> QED BY <1>1, AccountInvariant, PTL DEF Spec, StampTracksPassword

\* After a commit the live tokens are those of before, less all of the target's
\* when the password and its stamp were written.
LEMMA CommitLive ==
    ASSUME TypeOK, NEW r \in Requests, Commit(r)
    PROVE  LET live == {t \in tokens : Live(t)}
           IN  {t \in tokens : Live(t)}' =
                 IF req[r].change.secret = "hash_and_stamp"
                 THEN {t \in live : t.user # req[r].target} ELSE live
<1> DEFINE q == req[r]
           secret == lastSecret + 1
<1>1. /\ account' = [account EXCEPT ![q.target] = Written(account[q.target], q, secret)]
      /\ tokens' = tokens /\ q.target \in Users
  BY DEF Commit, TypeOK
<1>2. ASSUME NEW t \in tokens
      PROVE  Live(t)' <=> /\ Live(t)
                          /\ q.change.secret = "hash_and_stamp" => t.user # q.target
  <2>1. /\ t.user \in Users /\ t.stamp \in Nat /\ t.stamp <= lastSecret
        /\ lastSecret \in Nat
    BY DEF TypeOK, Token
  <2>2. CASE t.user # q.target
    <3>1. account'[t.user] = account[t.user]
      BY <1>1, <2>1, <2>2 DEF TypeOK
    <3> QED BY <2>2, <3>1 DEF Live
  <2>3. CASE t.user = q.target
    <3>1. account'[t.user].stamp = IF q.change.secret = "hash_and_stamp"
                                   THEN secret ELSE account[t.user].stamp
      BY <1>1, <2>1, <2>3 DEF TypeOK, Written
    <3> QED BY <2>1, <2>3, <3>1 DEF Live
  <2> QED BY <2>2, <2>3
<1>3. {t \in tokens : Live(t)}' = {t \in tokens : Live(t)'}
  BY <1>1
<1> HIDE DEF q
<1>4. CASE q.change.secret = "hash_and_stamp"
  <2>1. {t \in tokens : Live(t)'}
          = {t \in {x \in tokens : Live(x)} : t.user # q.target}
    BY <1>2, <1>4
  <2> QED BY <1>3, <1>4, <2>1 DEF q
<1>5. CASE q.change.secret # "hash_and_stamp"
  <2>1. {t \in tokens : Live(t)'} = {t \in tokens : Live(t)}
    BY <1>2, <1>5
  <2> QED BY <1>3, <1>5, <2>1 DEF q
<1> QED BY <1>4, <1>5

\* Any number of users and of requests in flight: stamped tokens implement the
\* session registry.  A new password ends every session of its user and only
\* those, and no session that ended is ever accepted again.
THEOREM StampsImplementSessions == Spec => ImplementsSessionRegistry
<1> DEFINE live == {t \in tokens : Live(t)}
<1>1. Init => Sessions!Init
  BY DEF Init, Sessions!Init
<1>2. TypeOK /\ AccountInv /\ [Next]_vars => [Sessions!Next]_(Sessions!vars)
  <2> SUFFICES ASSUME TypeOK, AccountInv, [Next]_vars
               PROVE  [Sessions!Next]_(Sessions!vars)
    OBVIOUS
  <2>1. ASSUME UNCHANGED <<account, tokens>> PROVE UNCHANGED Sessions!vars
    BY <2>1 DEF Sessions!vars, Live
  <2>2. ASSUME NEW r \in Requests, Commit(r)
        PROVE  [Sessions!Next]_(Sessions!vars)
    <3>1. tokens' = tokens
      BY <2>2 DEF Commit
    <3>2. CASE live' = live
      BY <3>1, <3>2 DEF Sessions!vars
    <3>3. CASE live' = {t \in live : t.user # req[r].target}
      <4>1. CASE \E t \in live : t.user = req[r].target
        <5>1. PICK t \in live : t.user = req[r].target
          BY <4>1
        <5>2. live' = {x \in live : x.user # t.user}
          BY <3>3, <5>1
        <5>3. Sessions!Revoke(t.user)
          BY <3>1, <5>2 DEF Sessions!Revoke
        <5> QED BY <5>1, <5>3 DEF Sessions!Next
      <4>2. CASE ~\E t \in live : t.user = req[r].target
        <5>1. live' = live
          BY <3>3, <4>2
        <5> QED BY <3>2, <5>1
      <4> QED BY <4>1, <4>2
    <3> QED BY <2>2, <3>2, <3>3, CommitLive
  <2>3. ASSUME NEW r \in Requests, IssueToken(r)
        PROVE  [Sessions!Next]_(Sessions!vars)
    <3> DEFINE t == [user |-> req[r].target, stamp |-> account[req[r].target].stamp,
                     proof |-> req[r].proof]
    <3>1. tokens' = tokens \union {t} /\ account' = account /\ Live(t)
      BY <2>3 DEF IssueToken, Live
    <3> HIDE DEF t
    <3>2. live' = live \union {t} /\ t \notin tokens \ live /\ t \in tokens'
      BY <3>1 DEF Live
    <3>3. Sessions!Open
      BY <3>1, <3>2 DEF Sessions!Open
    <3> QED BY <3>3 DEF Sessions!Next
  <2>4. CASE Next
    <3>1. PICK r \in Requests : \/ \E q : Stageable(q) /\ Stage(r, q)
                               \/ Commit(r)
                               \/ IssueToken(r)
      BY <2>4, StepCases
    <3> QED BY <2>1, <2>2, <2>3, <3>1 DEF Stage, durable
  <2>5. CASE UNCHANGED vars
    BY <2>1, <2>5 DEF vars
  <2> QED BY <2>4, <2>5
<1> QED
  BY <1>1, <1>2, AccountInvariant, PTL
  DEF Spec, ImplementsSessionRegistry, Sessions!Spec

\* A token that is refused once is refused for good: no password that is set later
\* brings the session back to life.
THEOREM DeadSessionsStayDead == Spec => Sessions!DeadForGood
<1>1. [Sessions!Next]_(Sessions!vars)
        => [tokens \ {t \in tokens : Live(t)}
              \subseteq (tokens \ {t \in tokens : Live(t)})']_(Sessions!vars)
  <2> DEFINE live == {t \in tokens : Live(t)}
  <2>1. live \subseteq tokens
    OBVIOUS
  <2>2. ASSUME Sessions!Open PROVE tokens \ live \subseteq (tokens \ live)'
    BY <2>2 DEF Sessions!Open
  <2>3. ASSUME NEW u, Sessions!Revoke(u)
        PROVE  tokens \ live \subseteq (tokens \ live)'
    BY <2>3 DEF Sessions!Revoke
  <2> QED
    BY <2>2, <2>3 DEF Sessions!Next, Sessions!vars
<1> QED
  BY <1>1, StampsImplementSessions, PTL
     DEF ImplementsSessionRegistry, Sessions!Spec, Sessions!DeadForGood

-----------------------------------------------------------------------------
(* Requests served one at a time *)

LEMMA SelfServiceGuarded ==
    ASSUME TypeOK, NEW r \in Requests, SelfService(r)
    PROVE  Guarded(req'[r])
<1> USE DEF Stage, Prepared, Guarded, RoleWriters, TypeOK
<1>1. ASSUME NEW u \in Users, LoginFailure(r, u) PROVE Guarded(req'[r])
  BY <1>1 DEF LoginFailure
<1>2. ASSUME NEW u \in Users, LoginSuccess(r, u) PROVE Guarded(req'[r])
  BY <1>2 DEF LoginSuccess
<1>3. ASSUME NEW u \in Users, RegisterUser(r, u) PROVE Guarded(req'[r])
  BY <1>3 DEF RegisterUser
<1>4. ASSUME NEW u \in Users, BootstrapAdmin(r, u) PROVE Guarded(req'[r])
  BY <1>4 DEF BootstrapAdmin
<1>5. ASSUME NEW t \in tokens, ChangePassword(r, t) PROVE Guarded(req'[r])
  BY <1>5 DEF ChangePassword
<1> QED BY <1>1, <1>2, <1>3, <1>4, <1>5 DEF SelfService

\* The checks of the four endpoints that write role rows; the others do not.
LEMMA AdministerGuarded ==
    ASSUME TypeOK, AccountInv, NEW r \in Requests, Administer(r)
    PROVE  Guarded(req'[r])
<1>1. ASSUME NEW t \in tokens, NEW op \in AdminOperations, Authorize(r, t, op)
      PROVE  Guarded(req'[r])
  BY <1>1 DEF Authorize, Stage, Idle, Guarded, TypeOK
<1>2. ASSUME NEW u \in Users, NEW change, AdminPrepare(r, u, change),
             \/ req[r].op \notin RoleWriters
             \/ u \in SuperAdmins /\ "super_admin" \notin change.roles
                  => SuperAdmins \ {u} # {}
      PROVE  Guarded(req'[r])
  BY <1>2 DEF AdminPrepare, Stage, Prepared, Guarded, TypeOK
<1>3. ASSUME NEW u \in Users, NEW new \in RolePayloads, UpdateUserRoles(r, u, new)
      PROVE  Guarded(req'[r])
  <2> DEFINE change == [Unchanged(r, u) EXCEPT !.roles = new]
  <2>1. change.roles = new
    BY UnchangedType DEF Change
  <2>2. AdminPrepare(r, u, change)
    BY <1>3 DEF UpdateUserRoles
  <2> QED BY <1>2, <1>3, <2>1, <2>2 DEF UpdateUserRoles, SuperAdminChangeAllowed
<1>4. ASSUME NEW u \in Users, NEW new \in RolePayloads, ApproveUser(r, u, new)
      PROVE  Guarded(req'[r])
  <2> DEFINE change == [Unchanged(r, u) EXCEPT !.status = "active", !.roles = new]
  <2>1. change.roles = new
    BY UnchangedType DEF Change
  <2>2. AdminPrepare(r, u, change)
    BY <1>4 DEF ApproveUser
  <2> QED BY <1>2, <1>4, <2>1, <2>2 DEF ApproveUser, SuperAdminChangeAllowed
<1>5. ASSUME NEW u \in Users, NEW new \in RolePayloads, CreateAdminUser(r, u, new)
      PROVE  Guarded(req'[r])
  <2> DEFINE change == [Unchanged(r, u) EXCEPT
                          !.status = "password_change_required",
                          !.secret = "hash_and_stamp",
                          !.roles = new]
  <2>1. AdminPrepare(r, u, change)
    BY <1>5 DEF CreateAdminUser
  <2>2. u \notin SuperAdmins
    BY <1>5 DEF CreateAdminUser, AccountInv, SuperAdmins
  <2> QED BY <1>2, <2>1, <2>2
<1>6. ASSUME NEW u \in Users, NEW new \in Status, UpdateUserStatus(r, u, new)
      PROVE  Guarded(req'[r])
  BY <1>2, <1>6 DEF UpdateUserStatus, Authorized, RoleWriters
<1>7. ASSUME NEW u \in Users, UnlockUser(r, u) PROVE Guarded(req'[r])
  BY <1>2, <1>7 DEF UnlockUser, Authorized, RoleWriters
<1>8. ASSUME NEW u \in Users, ResetUserPassword(r, u) PROVE Guarded(req'[r])
  BY <1>2, <1>8 DEF ResetUserPassword, Authorized, RoleWriters
<1>9. ASSUME NEW u \in Users, RejectUser(r, u) PROVE Guarded(req'[r])
  BY <1>2, <1>9 DEF RejectUser, Authorized, RoleWriters
<1> QED
  BY <1>1, <1>3, <1>4, <1>5, <1>6, <1>7, <1>8, <1>9 DEF Administer

\* With one worker, however many users: from the moment the bootstrap tool has
\* made a super-admin there always is one.
THEOREM SerialSuperAdminRemains ==
    ASSUME NEW w, Requests = {w}
    PROVE  Spec => SuperAdminRemains
<1> DEFINE Kept == SuperAdmins # {} => SuperAdmins' # {}
<1>1. Init => RemovalsGuarded
  BY DEF Init, RemovalsGuarded, Guarded, Idle
<1>2. TypeOK /\ AccountInv /\ RemovalsGuarded /\ [Next]_vars
        => RemovalsGuarded' /\ [Kept]_vars
  <2> SUFFICES ASSUME TypeOK, AccountInv, RemovalsGuarded, [Next]_vars
               PROVE  RemovalsGuarded' /\ [Kept]_vars
    OBVIOUS
  <2>1. ASSUME UNCHANGED roles, Guarded(req'[w])
        PROVE  RemovalsGuarded' /\ Kept
    BY <2>1 DEF RemovalsGuarded, Guarded, SuperAdmins
  <2>2. CASE SelfService(w)
    BY <2>1, <2>2, SelfServiceGuarded, SelfServiceStages DEF Stage, durable
  <2>3. CASE Administer(w)
    BY <2>1, <2>3, AdministerGuarded, AdministerStages DEF Stage, durable
  <2>4. CASE Commit(w)
    <3> DEFINE q == req[w]
    <3>1. /\ q.target \in Users /\ q.stage = "checked"
          /\ req'[w] = Committed(q, lastSecret + 1)
          /\ roles' = IF q.op \in RoleWriters
                      THEN [roles EXCEPT ![q.target] = q.change.roles] ELSE roles
      BY <2>4 DEF Commit, TypeOK
    <3>2. RemovalsGuarded'
      <4>1. req'[w].stage # "checked"
        BY <3>1 DEF Committed, Idle
      <4>2. Guarded(req'[w])
        BY <4>1 DEF Guarded
      <4>3. (\A r \in Requests : Guarded(req[r]))'
        <5> SUFFICES ASSUME NEW r \in Requests PROVE Guarded(req[r])'
          OBVIOUS
        <5>1. r = w
          OBVIOUS
        <5> QED BY <4>1, <5>1 DEF Guarded
      <4> QED BY <4>3 DEF RemovalsGuarded
    <3>3. Kept
      <4>1. CASE q.op \notin RoleWriters
        BY <3>1, <4>1 DEF SuperAdmins
      <4>2. CASE "super_admin" \in q.change.roles /\ q.op \in RoleWriters
        BY <3>1, <4>2 DEF SuperAdmins, TypeOK
      <4>3. CASE "super_admin" \notin q.change.roles /\ q.op \in RoleWriters
        <5> SUFFICES ASSUME SuperAdmins # {} PROVE SuperAdmins' # {}
          OBVIOUS
        <5>1. PICK u \in SuperAdmins : u # q.target
          BY <3>1, <4>3 DEF RemovalsGuarded, Guarded
        <5>2. u \in SuperAdmins'
          BY <3>1, <4>3, <5>1 DEF SuperAdmins, TypeOK
        <5> QED BY <5>2
      <4> QED BY <4>1, <4>2, <4>3
    <3> QED BY <3>2, <3>3
  <2>5. CASE IssueToken(w) \/ Fail(w)
    <3>1. req'[w] = Idle /\ UNCHANGED roles
      BY <2>5 DEF IssueToken, Fail, Stage, durable, TypeOK
    <3>2. Guarded(req'[w])
      BY <3>1 DEF Guarded, Idle
    <3> QED BY <2>1, <3>1, <3>2
  <2>6. CASE UNCHANGED vars
    BY <2>6 DEF vars, RemovalsGuarded, Guarded, SuperAdmins
  <2> QED BY <2>2, <2>3, <2>4, <2>5, <2>6 DEF Next, Finish
<1> QED
  BY <1>1, <1>2, AccountInvariant, PTL DEF Spec, SuperAdminRemains
=============================================================================
