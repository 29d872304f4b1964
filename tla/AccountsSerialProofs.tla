------------------------ MODULE AccountsSerialProofs ------------------------
(***************************************************************************)
(* Theorems about Accounts with one worker, for every number of users: the *)
(* properties of requests served one at a time.  All of them follow from   *)
(* one invariant: what a request has read is still there when it commits,  *)
(* so that its commit does to the tables what its handler has checked.     *)
(***************************************************************************)
EXTENDS AccountsProofs

\* What the handler of op makes of the row old it has read: the columns new.
RowChecked(op, old, new) ==
    /\ op \notin AdminOperations /\ old.status \notin LoginStatuses \union {"absent"}
         => new.status = old.status
    /\ /\ op \notin {"update_user_status", "approve_user"}
       /\ new.status \in LoginStatuses /\ new.failed >= MaxFailedLogins
       => old.status \in LoginStatuses /\ old.failed >= MaxFailedLogins
    /\ /\ op \notin {"update_user_status", "approve_user", "unlock_user"}
       /\ new.status = "active" /\ new.secret = "keep"
       => old.status = "active"
    /\ op \in {"create_admin_user", "reset_user_password"}
         => new.status # "active" /\ new.secret # "keep"
    /\ op = "login_success" => new.secret = "keep" /\ old.status # "absent"
    /\ op = "change_password" => /\ new.secret = "hash_and_stamp"
                                 /\ old.status # "absent"

\* What it has made sure of the super-admins: one that is active stays or is
\* not the last, and whoever gives or takes the role has it.
RolesChecked(op, actor, u, new) ==
    /\ op \notin {"reset_user_password", "login_failure"} /\ u \in ActiveSuperAdmins
         => \/ /\ new.status = "active"
               /\ op \in RoleWriters => "super_admin" \in new.roles
            \/ ActiveSuperAdmins \ {u} # {}
    /\ /\ op \in RoleWriters \ {"bootstrap_admin"}
       /\ ("super_admin" \in new.roles) # (u \in SuperAdmins)
       => actor \in SuperAdmins

\* The tables are as the request has read them.
Current(q) ==
    /\ q.stage = "authorized" => q.seen = account[q.actor]
    /\ q.stage = "checked" => /\ q.seen = account[q.target]
                              /\ q.proof = q.seen.hash
                              /\ RowChecked(q.op, q.seen, q.change)
                              /\ RolesChecked(q.op, q.actor, q.target, q.change)
    /\ q.stage = "minting" => /\ Exists(q.target)
                              /\ q.proof = account[q.target].hash

\* An account that does not exist has no row and no token, and temporary
\* passwords have been set.
TablesInv ==
    /\ \A u \in Users : ~Exists(u) => account[u] = NoRow
    /\ \A t \in tokens : Exists(t.user)
    /\ \A n \in temporary : n <= lastSecret
    /\ LiveTokenProvesPassword

SerialInv == TablesInv /\ \A r \in Requests : Current(req[r])

-----------------------------------------------------------------------------
(* What handlers check *)

\* A request that is staged to commit has checked what it has read.
LEMMA PreparedCurrent ==
    ASSUME TypeOK, NEW r \in Requests, NEW op, NEW actor, NEW u \in Users,
           NEW change, RowChecked(op, account[u], change),
           RolesChecked(op, actor, u, change),
           Stage(r, Prepared(op, actor, u, account[u], change))
    PROVE  Current(req'[r])
<1> DEFINE q == Prepared(op, actor, u, account[u], change)
<1>1. /\ q.stage = "checked" /\ q.op = op /\ q.actor = actor /\ q.target = u
      /\ q.seen = account[u] /\ q.change = change /\ q.proof = q.seen.hash
  BY DEF Prepared
<1>2. req'[r] = q
  BY DEF Stage, TypeOK
<1> HIDE DEF q
<1> QED
  BY <1>1, <1>2 DEF Current

LEMMA SelfServiceCurrent ==
    ASSUME TypeOK, AccountInv, TablesInv, NEW r \in Requests, SelfService(r)
    PROVE  Current(req'[r])
<1>1. ASSUME NEW u \in Users, LoginFailure(r, u) PROVE Current(req'[r])
  <2> DEFINE seen    == account[u]
             counted == seen.status \in LoginStatuses
             failed  == IF counted THEN seen.failed + 1 ELSE seen.failed
             status  == IF counted /\ failed >= MaxFailedLogins
                        THEN "locked" ELSE seen.status
             change  == [Keep(seen) EXCEPT !.failed = failed, !.status = status]
  <2>1. Stage(r, Prepared("login_failure", NoUser, u, seen, change))
    BY <1>1 DEF LoginFailure, Keep
  <2>2. change.status = status /\ change.failed = failed /\ change.secret = "keep"
    BY DEF Keep
  <2> HIDE DEF change
  <2>3. RowChecked("login_failure", seen, change)
    BY <2>2 DEF RowChecked, LoginStatuses, AdminOperations
  <2>4. RolesChecked("login_failure", NoUser, u, change)
    BY DEF RolesChecked, RoleWriters
  <2> QED
    BY <2>1, <2>3, <2>4, PreparedCurrent
<1>2. ASSUME NEW u \in Users, LoginSuccess(r, u) PROVE Current(req'[r])
  <2> DEFINE seen   == account[u]
             change == [Keep(seen) EXCEPT !.failed = 0]
  <2>1. Stage(r, Prepared("login_success", u, u, seen, change))
    BY <1>2 DEF LoginSuccess
  <2>2. /\ change.status = seen.status /\ change.failed = 0
        /\ change.secret = "keep" /\ seen.status \in LoginStatuses
    BY <1>2 DEF LoginSuccess, Keep
  <2> HIDE DEF change
  <2>3. RowChecked("login_success", seen, change)
    BY <2>2, LimitsAssumption DEF RowChecked, LoginStatuses, AdminOperations
  <2>4. RolesChecked("login_success", u, u, change)
    BY <2>2 DEF RolesChecked, RoleWriters, ActiveSuperAdmins
  <2> QED
    BY <2>1, <2>3, <2>4, PreparedCurrent
<1>3. ASSUME NEW u \in Users, RegisterUser(r, u) PROVE Current(req'[r])
  <2> DEFINE seen   == account[u]
             change == [Keep(seen) EXCEPT !.status = "pending_approval",
                                          !.secret = "hash"]
  <2>1. Stage(r, Prepared("register_user", NoUser, u, seen, change))
    BY <1>3 DEF RegisterUser
  <2>2. change.status = "pending_approval" /\ seen.status = "absent"
    BY <1>3 DEF RegisterUser, Exists, Keep
  <2> HIDE DEF change
  <2>3. RowChecked("register_user", seen, change)
    BY <2>2 DEF RowChecked, LoginStatuses, AdminOperations
  <2>4. RolesChecked("register_user", NoUser, u, change)
    BY <2>2 DEF RolesChecked, RoleWriters, ActiveSuperAdmins
  <2> QED
    BY <2>1, <2>3, <2>4, PreparedCurrent
<1>4. ASSUME NEW u \in Users, BootstrapAdmin(r, u) PROVE Current(req'[r])
  <2> DEFINE seen   == account[u]
             change == [Keep(seen) EXCEPT !.status = "active",
                                          !.secret = "hash",
                                          !.roles = {"super_admin"}]
  <2>1. Stage(r, Prepared("bootstrap_admin", NoUser, u, seen, change))
    BY <1>4 DEF BootstrapAdmin
  <2>2. /\ change.status = "active" /\ change.failed = 0
        /\ change.secret = "hash" /\ seen.status = "absent"
    BY <1>4 DEF BootstrapAdmin, Exists, Keep, TablesInv, NoRow
  <2> HIDE DEF change
  <2>3. RowChecked("bootstrap_admin", seen, change)
    BY <2>2, LimitsAssumption DEF RowChecked, LoginStatuses, AdminOperations
  <2>4. RolesChecked("bootstrap_admin", NoUser, u, change)
    BY <2>2 DEF RolesChecked, RoleWriters, ActiveSuperAdmins
  <2> QED
    BY <2>1, <2>3, <2>4, PreparedCurrent
<1>5. ASSUME NEW t \in tokens, ChangePassword(r, t) PROVE Current(req'[r])
  <2> DEFINE u      == t.user
             seen   == account[u]
             status == IF seen.status = "password_change_required"
                       THEN "active" ELSE seen.status
             change == [Keep(seen) EXCEPT !.failed = 0, !.status = status,
                                          !.secret = "hash_and_stamp"]
  <2>1. u \in Users
    BY DEF TypeOK, Token
  <2>2. Stage(r, Prepared("change_password", u, u, seen, change))
    BY <1>5 DEF ChangePassword, Keep
  <2>3. /\ change.status = status /\ change.failed = 0
        /\ change.secret = "hash_and_stamp" /\ seen.status \in LoginStatuses
    BY <1>5 DEF ChangePassword, Accepted, Keep
  <2> HIDE DEF change, u
  <2>4. RowChecked("change_password", seen, change)
    BY <2>3, LimitsAssumption DEF RowChecked, LoginStatuses, AdminOperations
  <2>5. RolesChecked("change_password", u, u, change)
    BY <2>3 DEF RolesChecked, RoleWriters, ActiveSuperAdmins
  <2> QED
    BY <2>1, <2>2, <2>4, <2>5, PreparedCurrent
<1> QED
  BY <1>1, <1>2, <1>3, <1>4, <1>5 DEF SelfService

\* An authorized administrator is still there, active and, if the check asked
\* for it, a super-admin.
LEMMA ActorCurrent ==
    ASSUME TypeOK, AccountInv, NEW r \in Requests, Current(req[r]),
           NEW op, Authorized(r, op), NEW u \in Users, NEW change,
           AdminPrepare(r, u, change)
    PROVE  /\ TargetRow(req[r], u) = account[u]
           /\ Unchanged(r, u) = Keep(account[u])
           /\ req[r].actor \in Users /\ account[req[r].actor].status = "active"
           /\ Stage(r, Prepared(op, req[r].actor, u, account[u], change))
<1>1. /\ req[r].seen = account[req[r].actor] /\ req[r].actor \in Users
      /\ req[r].seen.status = "active" /\ req[r].op = op
  BY DEF Authorized, Current, AccountInv, Sound
<1>2. TargetRow(req[r], u) = account[u]
  BY <1>1 DEF TargetRow
<1> QED
  BY <1>1, <1>2 DEF Unchanged, AdminPrepare

LEMMA AdministerCurrent ==
    ASSUME TypeOK, AccountInv, TablesInv, NEW r \in Requests, Current(req[r]),
           Administer(r)
    PROVE  Current(req'[r])
<1> DEFINE actor == req[r].actor
<1>1. ASSUME NEW t \in tokens, NEW op \in AdminOperations, Authorize(r, t, op)
      PROVE  Current(req'[r])
  <2> DEFINE q == [Idle EXCEPT !.stage = "authorized", !.op = op,
                               !.actor = t.user, !.seen = account[t.user]]
  <2>1. q.stage = "authorized" /\ q.seen = account[q.actor]
    BY DEF Idle
  <2>2. req'[r] = q
    BY <1>1 DEF Authorize, Stage, TypeOK
  <2> HIDE DEF q
  <2> QED
    BY <2>1, <2>2 DEF Current
<1>2. ASSUME NEW u \in Users, NEW new \in Status, UpdateUserStatus(r, u, new)
      PROVE  Current(req'[r])
  <2> DEFINE change == [Keep(account[u]) EXCEPT !.status = new]
             asked  == [Unchanged(r, u) EXCEPT !.status = new]
  <2>1. AdminPrepare(r, u, asked) /\ Authorized(r, "update_user_status")
    BY <1>2 DEF UpdateUserStatus
  <2>2. /\ asked = change
        /\ Stage(r, Prepared("update_user_status", actor, u, account[u], asked))
    BY <2>1, ActorCurrent
  <2>3. change.status = new /\ change.secret = "keep"
    BY DEF Keep
  <2> HIDE DEF change, asked
  <2>4. RowChecked("update_user_status", account[u], change)
    BY <2>3 DEF RowChecked, AdminOperations
  <2>5. RolesChecked("update_user_status", actor, u, change)
    BY <1>2, <2>3 DEF RolesChecked, RoleWriters, UpdateUserStatus, ActiveSuperAdmins
  <2> QED
    BY <2>2, <2>4, <2>5, PreparedCurrent
<1>3. ASSUME NEW u \in Users, NEW new \in RolePayloads, UpdateUserRoles(r, u, new)
      PROVE  Current(req'[r])
  <2> DEFINE change == [Keep(account[u]) EXCEPT !.roles = new]
             asked  == [Unchanged(r, u) EXCEPT !.roles = new]
  <2>1. AdminPrepare(r, u, asked) /\ Authorized(r, "update_user_roles")
    BY <1>3 DEF UpdateUserRoles
  <2>2. /\ asked = change
        /\ Stage(r, Prepared("update_user_roles", actor, u, account[u], asked))
        /\ actor \in Users /\ account[actor].status = "active"
    BY <2>1, ActorCurrent
  <2>3. /\ change.status = account[u].status /\ change.failed = account[u].failed
        /\ change.secret = "keep" /\ change.roles = new
    BY DEF Keep
  <2> HIDE DEF change, asked
  <2>4. RowChecked("update_user_roles", account[u], change)
    BY <2>3 DEF RowChecked, AdminOperations
  <2>5. (u \in SuperAdmins) # ("super_admin" \in new) => actor \in SuperAdmins
    BY <1>3, <2>2 DEF UpdateUserRoles, SuperAdminChangeAllowed,
                      MayManageSuperAdmins, SuperAdmins
  <2>6. u \in SuperAdmins /\ "super_admin" \notin new => u # actor
    BY <1>3 DEF UpdateUserRoles
  <2>7. RolesChecked("update_user_roles", actor, u, change)
    BY <2>2, <2>3, <2>5, <2>6 DEF RolesChecked, ActiveSuperAdmins
  <2> QED
    BY <2>2, <2>4, <2>7, PreparedCurrent
<1>4. ASSUME NEW u \in Users, NEW new \in RolePayloads, ApproveUser(r, u, new)
      PROVE  Current(req'[r])
  <2> DEFINE change == [Keep(account[u]) EXCEPT !.status = "active", !.roles = new]
             asked  == [Unchanged(r, u) EXCEPT !.status = "active", !.roles = new]
  <2>1. AdminPrepare(r, u, asked) /\ Authorized(r, "approve_user")
    BY <1>4 DEF ApproveUser
  <2>2. /\ asked = change
        /\ Stage(r, Prepared("approve_user", actor, u, account[u], asked))
        /\ actor \in Users /\ TargetRow(req[r], u) = account[u]
    BY <2>1, ActorCurrent
  <2>3. /\ change.secret = "keep" /\ change.roles = new
        /\ account[u].status = "pending_approval"
    BY <1>4, <2>2 DEF Keep, ApproveUser
  <2> HIDE DEF change, asked
  <2>4. RowChecked("approve_user", account[u], change)
    BY <2>3 DEF RowChecked, AdminOperations
  <2>5. (u \in SuperAdmins) # ("super_admin" \in new) => actor \in SuperAdmins
    BY <1>4, <2>2 DEF ApproveUser, SuperAdminChangeAllowed,
                      MayManageSuperAdmins, SuperAdmins
  <2>6. RolesChecked("approve_user", actor, u, change)
    BY <2>3, <2>5 DEF RolesChecked, ActiveSuperAdmins
  <2> QED
    BY <2>2, <2>4, <2>6, PreparedCurrent
<1>5. ASSUME NEW u \in Users, NEW new \in RolePayloads, CreateAdminUser(r, u, new)
      PROVE  Current(req'[r])
  <2> DEFINE change == [Keep(account[u]) EXCEPT
                          !.status = "password_change_required",
                          !.secret = "hash_and_stamp", !.roles = new]
             asked  == [Unchanged(r, u) EXCEPT
                          !.status = "password_change_required",
                          !.secret = "hash_and_stamp", !.roles = new]
  <2>1. AdminPrepare(r, u, asked) /\ Authorized(r, "create_admin_user")
    BY <1>5 DEF CreateAdminUser
  <2>2. /\ asked = change /\ actor \in Users
        /\ Stage(r, Prepared("create_admin_user", actor, u, account[u], asked))
    BY <2>1, ActorCurrent
  <2>3. /\ change.status = "password_change_required" /\ change.failed = 0
        /\ change.secret = "hash_and_stamp" /\ change.roles = new
        /\ account[u].status = "absent" /\ u \notin SuperAdmins
    BY <1>5 DEF Keep, CreateAdminUser, Exists, TablesInv, NoRow, AccountInv,
                SuperAdmins
  <2> HIDE DEF change, asked
  <2>4. RowChecked("create_admin_user", account[u], change)
    BY <2>3, LimitsAssumption DEF RowChecked, AdminOperations
  <2>5. "super_admin" \in new => actor \in SuperAdmins
    BY <1>5, <2>2 DEF CreateAdminUser, MayManageSuperAdmins, SuperAdmins
  <2>6. RolesChecked("create_admin_user", actor, u, change)
    BY <2>3, <2>5 DEF RolesChecked, ActiveSuperAdmins
  <2> QED
    BY <2>2, <2>4, <2>6, PreparedCurrent
<1>6. ASSUME NEW u \in Users, UnlockUser(r, u) PROVE Current(req'[r])
  <2> DEFINE change == [Keep(account[u]) EXCEPT !.status = "active", !.failed = 0]
             asked  == [Unchanged(r, u) EXCEPT !.status = "active", !.failed = 0]
  <2>1. AdminPrepare(r, u, asked) /\ Authorized(r, "unlock_user")
    BY <1>6 DEF UnlockUser
  <2>2. /\ asked = change /\ TargetRow(req[r], u) = account[u]
        /\ Stage(r, Prepared("unlock_user", actor, u, account[u], asked))
    BY <2>1, ActorCurrent
  <2>3. /\ change.status = "active" /\ change.failed = 0
        /\ change.secret = "keep" /\ account[u].status = "locked"
    BY <1>6, <2>2 DEF Keep, UnlockUser
  <2> HIDE DEF change, asked
  <2>4. RowChecked("unlock_user", account[u], change)
    BY <2>3, LimitsAssumption DEF RowChecked, AdminOperations
  <2>5. RolesChecked("unlock_user", actor, u, change)
    BY <2>3 DEF RolesChecked, ActiveSuperAdmins, RoleWriters
  <2> QED
    BY <2>2, <2>4, <2>5, PreparedCurrent
<1>7. ASSUME NEW u \in Users, ResetUserPassword(r, u) PROVE Current(req'[r])
  <2> DEFINE change == [Keep(account[u]) EXCEPT
                          !.status = "password_change_required",
                          !.failed = 0, !.secret = "hash_and_stamp"]
             asked  == [Unchanged(r, u) EXCEPT
                          !.status = "password_change_required",
                          !.failed = 0, !.secret = "hash_and_stamp"]
  <2>1. AdminPrepare(r, u, asked) /\ Authorized(r, "reset_user_password")
    BY <1>7 DEF ResetUserPassword
  <2>2. /\ asked = change
        /\ Stage(r, Prepared("reset_user_password", actor, u, account[u], asked))
    BY <2>1, ActorCurrent
  <2>3. /\ change.status = "password_change_required" /\ change.failed = 0
        /\ change.secret = "hash_and_stamp"
    BY DEF Keep
  <2> HIDE DEF change, asked
  <2>4. RowChecked("reset_user_password", account[u], change)
    BY <2>3, LimitsAssumption DEF RowChecked, AdminOperations
  <2>5. RolesChecked("reset_user_password", actor, u, change)
    BY DEF RolesChecked, RoleWriters
  <2> QED
    BY <2>2, <2>4, <2>5, PreparedCurrent
<1>8. ASSUME NEW u \in Users, RejectUser(r, u) PROVE Current(req'[r])
  <2> DEFINE change == [Keep(account[u]) EXCEPT !.status = "rejected"]
             asked  == [Unchanged(r, u) EXCEPT !.status = "rejected"]
  <2>1. AdminPrepare(r, u, asked) /\ Authorized(r, "reject_user")
    BY <1>8 DEF RejectUser
  <2>2. /\ asked = change /\ TargetRow(req[r], u) = account[u]
        /\ Stage(r, Prepared("reject_user", actor, u, account[u], asked))
    BY <2>1, ActorCurrent
  <2>3. /\ change.status = "rejected" /\ change.secret = "keep"
        /\ account[u].status = "pending_approval"
    BY <1>8, <2>2 DEF Keep, RejectUser
  <2> HIDE DEF change, asked
  <2>4. RowChecked("reject_user", account[u], change)
    BY <2>3 DEF RowChecked, AdminOperations, LoginStatuses
  <2>5. RolesChecked("reject_user", actor, u, change)
    BY <2>3 DEF RolesChecked, ActiveSuperAdmins, RoleWriters
  <2> QED
    BY <2>2, <2>4, <2>5, PreparedCurrent
<1> QED
  BY <1>1, <1>2, <1>3, <1>4, <1>5, <1>6, <1>7, <1>8 DEF Administer

-----------------------------------------------------------------------------
(* The invariant *)

\* What the commit of a request that is current does: nobody has written in
\* between, so the row becomes what the handler has prepared.
LEMMA CommitWrites ==
    ASSUME TypeOK, AccountInv, NEW r \in Requests, Current(req[r]), Commit(r)
    PROVE  LET q == req[r]
               u == q.target
               secret == lastSecret + 1
           IN /\ q.stage = "checked" /\ u \in Users /\ q.seen = account[u]
              /\ q.change.secret \in {"keep", "hash", "hash_and_stamp"}
              /\ account'[u].status = q.change.status
              /\ account'[u].failed = q.change.failed
              /\ account'[u].hash = IF q.change.secret = "keep"
                                    THEN account[u].hash ELSE secret
              /\ account'[u].stamp = IF q.change.secret = "hash_and_stamp"
                                     THEN secret ELSE account[u].stamp
              /\ \A x \in Users : x # u => account'[x] = account[x]
              /\ req'[r] = Committed(q, secret) /\ req'[r].stage # "checked"
<1> DEFINE q == req[r]
           secret == lastSecret + 1
           row == account[q.target]
<1>1. /\ q.stage = "checked" /\ q.target \in Users /\ q.change \in Change
      /\ account' = [account EXCEPT ![q.target] = Written(row, q, secret)]
      /\ req'[r] = Committed(q, secret)
  BY DEF Commit, TypeOK, Request
<1>2. q.seen = row
  BY <1>1 DEF Current
<1>3. /\ Written(row, q, secret).status = q.change.status
      /\ Written(row, q, secret).failed = q.change.failed
      /\ Written(row, q, secret).hash = IF q.change.secret = "keep"
                                        THEN row.hash ELSE secret
      /\ Written(row, q, secret).stamp = IF q.change.secret = "hash_and_stamp"
                                         THEN secret ELSE row.stamp
  BY <1>2 DEF Written, Column
<1>4. /\ account'[q.target] = Written(row, q, secret)
      /\ \A x \in Users : x # q.target => account'[x] = account[x]
  BY <1>1 DEF TypeOK
<1>5. Committed(q, secret).stage # "checked"
  BY DEF Committed, Idle
<1> QED
  BY <1>1, <1>2, <1>3, <1>4, <1>5 DEF Change

LEMMA CommitKeepsTables ==
    ASSUME TypeOK, AccountInv, TablesInv, NEW r \in Requests, Current(req[r]),
           Commit(r)
    PROVE  TablesInv' /\ Current(req[r])'
<1> DEFINE q == req[r]
           u == q.target
           secret == lastSecret + 1
<1>1. /\ u \in Users /\ q.stage = "checked" /\ q.seen = account[u]
      /\ q.change.secret \in {"keep", "hash", "hash_and_stamp"}
      /\ account'[u].status = q.change.status
      /\ account'[u].hash = IF q.change.secret = "keep"
                            THEN account[u].hash ELSE secret
      /\ account'[u].stamp = IF q.change.secret = "hash_and_stamp"
                             THEN secret ELSE account[u].stamp
      /\ \A x \in Users : x # u => account'[x] = account[x]
      /\ req'[r] = Committed(q, secret)
  BY CommitWrites
<1>2. /\ account'[u].status # "absent"
      /\ q.change.secret = "hash" => account[u].status = "absent"
      /\ q.proof = account[u].hash
      /\ RowChecked(q.op, q.seen, q.change)
  BY <1>1 DEF AccountInv, Sound, Current
<1>3. /\ tokens' = tokens /\ lastSecret \in Nat
      /\ \A n \in temporary' : n <= lastSecret'
  <2>1. /\ tokens' = tokens /\ lastSecret \in Nat
        /\ lastSecret' = IF q.change.secret = "keep" THEN lastSecret ELSE secret
        /\ temporary' = IF q.op \in {"create_admin_user", "reset_user_password"}
                        THEN temporary \union {secret} ELSE temporary
    BY DEF Commit, TypeOK
  <2>2. \A n \in temporary : n \in Nat /\ n <= lastSecret
    BY DEF TypeOK, TablesInv
  <2>3. q.op \in {"create_admin_user", "reset_user_password"}
          => q.change.secret # "keep"
    BY <1>2 DEF RowChecked
  <2> HIDE DEF q
  <2> QED
    BY <2>1, <2>2, <2>3
<1> HIDE DEF q, u
<1>4. \A x \in Users : ~Exists(x)' => account'[x] = NoRow
  BY <1>1, <1>2 DEF Exists, TablesInv
<1>5. \A t \in tokens' : Exists(t.user)'
  BY <1>1, <1>2, <1>3 DEF Exists, TablesInv, TypeOK, Token
<1>6. ASSUME NEW t \in tokens, account'[t.user].stamp = t.stamp
      PROVE  t.proof = account'[t.user].hash
  <2>1. /\ t.user \in Users /\ t.stamp \in Nat /\ t.stamp <= lastSecret
        /\ account[t.user].status # "absent"
        /\ account[t.user].stamp = t.stamp => t.proof = account[t.user].hash
    BY DEF TypeOK, Token, TablesInv, Exists, LiveTokenProvesPassword, Live
  <2>2. CASE t.user # u
    BY <1>1, <1>6, <2>1, <2>2
  <2>3. CASE t.user = u
    <3>1. q.change.secret # "hash_and_stamp"
      BY <1>1, <1>3, <1>6, <2>1, <2>3
    <3> QED
      BY <1>1, <1>2, <1>6, <2>1, <2>3, <3>1
  <2> QED
    BY <2>2, <2>3
<1>7. LiveTokenProvesPassword'
  BY <1>3, <1>6 DEF LiveTokenProvesPassword, Live
<1>8. Current(req[r])'
  <2>1. CASE q.op \notin {"login_success", "change_password"}
    BY <1>1, <2>1 DEF Committed, Current, Idle
  <2>2. CASE q.op \in {"login_success", "change_password"}
    <3>1. /\ req'[r].stage = "minting" /\ req'[r].target = u
          /\ req'[r].proof = IF q.op = "change_password" THEN secret ELSE q.proof
      BY <1>1, <2>2 DEF Committed, Idle, u
    <3>2. req'[r].proof = account'[u].hash
      BY <1>1, <1>2, <2>2, <3>1 DEF RowChecked
    <3> QED
      BY <1>2, <3>1, <3>2 DEF Current, Exists
  <2> QED
    BY <2>1, <2>2
<1> QED
  BY <1>3, <1>4, <1>5, <1>7, <1>8 DEF TablesInv

LEMMA IssueKeepsTables ==
    ASSUME TypeOK, AccountInv, TablesInv, NEW r \in Requests, Current(req[r]),
           IssueToken(r)
    PROVE  TablesInv' /\ Current(req[r])'
<1> DEFINE new == [user |-> req[r].target, stamp |-> account[req[r].target].stamp,
                   proof |-> req[r].proof]
<1>1. /\ tokens' = tokens \union {new} /\ req'[r] = Idle
      /\ UNCHANGED <<account, lastSecret, temporary>>
  BY DEF IssueToken, TypeOK
<1>2. Exists(new.user) /\ new.proof = account[new.user].hash
  BY DEF IssueToken, Current
<1> HIDE DEF new
<1>3. Current(req[r])'
  BY <1>1 DEF Current, Idle
<1>4. (\A t \in tokens : Exists(t.user))'
  BY <1>1, <1>2 DEF TablesInv, Exists
<1>5. LiveTokenProvesPassword'
  BY <1>1, <1>2 DEF TablesInv, LiveTokenProvesPassword, Live
<1> QED
  BY <1>1, <1>3, <1>4, <1>5 DEF TablesInv, Exists

\* A step that stages a request leaves the tables as the request has read them.
LEMMA StagingKeepsTables ==
    ASSUME TablesInv, UNCHANGED durable, NEW r \in Requests, Current(req'[r])
    PROVE  TablesInv' /\ Current(req[r])'
<1>1. TablesInv'
  BY DEF durable, TablesInv, Exists, LiveTokenProvesPassword, Live
<1>2. Current(req[r])'
  BY DEF durable, Current, Exists, RolesChecked, ActiveSuperAdmins, SuperAdmins
<1> QED
  BY <1>1, <1>2

LEMMA NextKeepsSerialInv ==
    ASSUME NEW w, Requests = {w}, TypeOK, AccountInv, SerialInv, [Next]_vars
    PROVE  SerialInv'
<1>1. w \in Requests /\ TablesInv /\ Current(req[w])
  BY DEF SerialInv
<1>2. ASSUME TablesInv' /\ Current(req[w])' PROVE SerialInv'
  BY <1>2 DEF SerialInv
<1>3. CASE SelfService(w)
  <2>1. UNCHANGED durable
    BY <1>1, <1>3, SelfServiceStages DEF Stage
  <2> QED
    BY <1>1, <1>2, <1>3, <2>1, SelfServiceCurrent, StagingKeepsTables
<1>4. CASE Administer(w)
  <2>1. UNCHANGED durable
    BY <1>1, <1>4, AdministerStages DEF Stage
  <2> QED
    BY <1>1, <1>2, <1>4, <2>1, AdministerCurrent, StagingKeepsTables
<1>5. CASE Commit(w)
  BY <1>1, <1>2, <1>5, CommitKeepsTables
<1>6. CASE IssueToken(w)
  BY <1>1, <1>2, <1>6, IssueKeepsTables
<1>7. CASE Fail(w)
  <2>1. UNCHANGED durable /\ req'[w] = Idle
    BY <1>1, <1>7 DEF Fail, Stage, TypeOK
  <2>2. Current(req'[w])
    BY <2>1 DEF Current, Idle
  <2> QED
    BY <1>1, <1>2, <2>1, <2>2, StagingKeepsTables
<1>8. CASE UNCHANGED vars
  <2>1. UNCHANGED durable /\ req' = req
    BY <1>8 DEF vars, durable
  <2> QED
    BY <1>1, <1>2, <2>1, StagingKeepsTables
<1> QED
  BY <1>3, <1>4, <1>5, <1>6, <1>7, <1>8 DEF Next, Finish

LEMMA SerialInvariant ==
    ASSUME NEW w, Requests = {w}
    PROVE  Spec => [](TypeOK /\ AccountInv /\ SerialInv)
<1>1. Init => SerialInv
  BY DEF Init, SerialInv, TablesInv, Exists, NoRow, LiveTokenProvesPassword,
         Current, Idle
<1>2. TypeOK /\ AccountInv /\ SerialInv /\ [Next]_vars => SerialInv'
  BY NextKeepsSerialInv
<1> QED
  BY <1>1, <1>2, AccountInvariant, PTL DEF Spec

\* With one worker, however many users: a live token belongs to somebody who
\* presented the password that the account has.
THEOREM SerialTokensProvePasswords ==
    ASSUME NEW w, Requests = {w}
    PROVE  Spec => []LiveTokenProvesPassword
<1>1. TypeOK /\ AccountInv /\ SerialInv => LiveTokenProvesPassword
  BY DEF SerialInv, TablesInv
<1> QED
  BY <1>1, SerialInvariant, PTL

-----------------------------------------------------------------------------
(* What a step may do *)

\* With one worker every step but a commit leaves accounts and roles alone.
LEMMA SerialStep ==
    ASSUME NEW w, Requests = {w}, TypeOK, AccountInv, [Next]_vars
    PROVE  Commit(w) \/ UNCHANGED <<account, roles, temporary>>
<1>1. CASE SelfService(w)
  BY <1>1, SelfServiceStages DEF Stage, durable
<1>2. CASE Administer(w)
  BY <1>2, AdministerStages DEF Stage, durable
<1>3. CASE IssueToken(w) \/ Fail(w) \/ UNCHANGED vars
  BY <1>3 DEF IssueToken, Fail, Stage, durable, vars
<1> QED
  BY <1>1, <1>2, <1>3 DEF Next, Finish

\* The step that commits w's request is by its operation.
LEMMA CommitIsBy ==
    ASSUME TypeOK, AccountInv, NEW r \in Requests, Current(req[r]), Commit(r),
           NEW ops, req[r].op \in ops
    PROVE  By(ops)
BY CommitWrites DEF By

LEMMA CommitClosed ==
    ASSUME TypeOK, AccountInv, NEW r \in Requests, Current(req[r]), Commit(r),
           NEW u \in Users, Exists(u), account[u].status \notin LoginStatuses,
           account'[u].status # account[u].status
    PROVE  By(AdminOperations)
<1> DEFINE q == req[r]
<1>1. /\ q.stage = "checked" /\ q.seen = account[q.target] /\ u = q.target
      /\ account'[u].status = q.change.status
      /\ RowChecked(q.op, q.seen, q.change)
  BY CommitWrites DEF Current
<1>2. q.op \in AdminOperations
  BY <1>1 DEF RowChecked, Exists
<1> QED
  BY <1>2, CommitIsBy

LEMMA CommitLocks ==
    ASSUME TypeOK, AccountInv, NEW r \in Requests, Current(req[r]), Commit(r),
           NEW u \in Users, OverTheLimit(u)', ~OverTheLimit(u)
    PROVE  By({"update_user_status", "approve_user"})
<1> DEFINE q == req[r]
<1>1. /\ q.stage = "checked" /\ q.seen = account[q.target]
      /\ account'[q.target].status = q.change.status
      /\ account'[q.target].failed = q.change.failed
      /\ u # q.target => account'[u] = account[u]
      /\ RowChecked(q.op, q.seen, q.change)
  BY CommitWrites DEF Current
<1>2. u = q.target
  BY <1>1 DEF OverTheLimit
<1>3. q.op \in {"update_user_status", "approve_user"}
  BY <1>1, <1>2 DEF RowChecked, OverTheLimit
<1> QED
  BY <1>3, CommitIsBy

LEMMA CommitForces ==
    ASSUME TypeOK, AccountInv, TablesInv, NEW r \in Requests, Current(req[r]),
           Commit(r), NEW u \in Users, OpenedByTemporary(u)', ~OpenedByTemporary(u)
    PROVE  By({"update_user_status", "approve_user", "unlock_user"})
<1> DEFINE q == req[r]
           secret == lastSecret + 1
<1>1. /\ q.stage = "checked" /\ q.seen = account[q.target]
      /\ account'[q.target].status = q.change.status
      /\ account'[q.target].hash = IF q.change.secret = "keep"
                                   THEN account[q.target].hash ELSE secret
      /\ u # q.target => account'[u] = account[u]
      /\ RowChecked(q.op, q.seen, q.change)
  BY CommitWrites DEF Current
<1>2. /\ temporary' = IF q.op \in {"create_admin_user", "reset_user_password"}
                      THEN temporary \union {secret} ELSE temporary
      /\ secret \notin temporary /\ account[u].hash # secret
  <2>1. account[u].hash \in Nat /\ account[u].hash <= lastSecret /\ lastSecret \in Nat
    BY DEF TypeOK, AccountInv, Row
  <2>2. \A n \in temporary : n \in Nat /\ n <= lastSecret
    BY DEF TypeOK, TablesInv
  <2> QED
    BY <2>1, <2>2 DEF Commit
<1> HIDE DEF secret, q
<1>3. u = q.target
  BY <1>1, <1>2 DEF OpenedByTemporary
<1>4. q.op \in {"update_user_status", "approve_user", "unlock_user"}
  BY <1>1, <1>2, <1>3 DEF RowChecked, OpenedByTemporary
<1> QED
  BY <1>4, CommitIsBy DEF q

\* The role rows a commit leaves.
LEMMA CommitRoles ==
    ASSUME TypeOK, AccountInv, NEW r \in Requests, Current(req[r]), Commit(r)
    PROVE  LET q == req[r]
           IN \A x \in Users :
                x \in SuperAdmins' <=>
                  IF x = q.target /\ q.op \in RoleWriters
                  THEN "super_admin" \in q.change.roles ELSE x \in SuperAdmins
<1> DEFINE q == req[r]
<1>1. /\ q.target \in Users
      /\ roles' = IF q.op \in RoleWriters
                  THEN [roles EXCEPT ![q.target] = q.change.roles] ELSE roles
  BY CommitWrites DEF Commit
<1> HIDE DEF q
<1>2. \A x \in Users : roles'[x] = IF x = q.target /\ q.op \in RoleWriters
                                  THEN q.change.roles ELSE roles[x]
  BY <1>1 DEF TypeOK
<1> QED
  BY <1>2 DEF SuperAdmins, q

LEMMA CommitChooses ==
    ASSUME TypeOK, AccountInv, NEW r \in Requests, Current(req[r]), Commit(r),
           SuperAdmins' # SuperAdmins
    PROVE  /\ req[r].stage = "checked" /\ req'[r].stage = "idle"
           /\ req[r].op = "bootstrap_admin" \/ req[r].actor \in SuperAdmins
<1> DEFINE q == req[r]
<1>1. /\ q.stage = "checked" /\ req'[r] = Committed(q, lastSecret + 1)
      /\ RolesChecked(q.op, q.actor, q.target, q.change)
  BY CommitWrites DEF Current
<1>2. /\ q.op \in RoleWriters
      /\ ("super_admin" \in q.change.roles) # (q.target \in SuperAdmins)
  <2>1. SuperAdmins \subseteq Users /\ SuperAdmins' \subseteq Users
    BY DEF SuperAdmins
  <2>2. PICK x \in Users : (x \in SuperAdmins') # (x \in SuperAdmins)
    BY <2>1
  <2> QED
    BY <2>2, CommitRoles
<1>3. req'[r].stage = "idle"
  BY <1>1, <1>2 DEF Committed, RoleWriters, Idle
<1> QED
  BY <1>1, <1>2, <1>3 DEF RolesChecked

LEMMA CommitSpares ==
    ASSUME TypeOK, AccountInv, NEW r \in Requests, Current(req[r]), Commit(r),
           ActiveSuperAdmins # {}, ActiveSuperAdmins' = {}
    PROVE  By({"reset_user_password", "login_failure"})
<1> DEFINE q == req[r]
<1>1. /\ q.target \in Users /\ account'[q.target].status = q.change.status
      /\ \A x \in Users : x # q.target => account'[x] = account[x]
      /\ RolesChecked(q.op, q.actor, q.target, q.change)
  BY CommitWrites DEF Current
<1>2. \A x \in Users :
         x \in SuperAdmins' <=> IF x = q.target /\ q.op \in RoleWriters
                               THEN "super_admin" \in q.change.roles
                               ELSE x \in SuperAdmins
  BY CommitRoles
<1> HIDE DEF q
<1>3. ActiveSuperAdmins \ {q.target} = {}
  <2>1. ASSUME NEW x \in ActiveSuperAdmins, x # q.target PROVE FALSE
    <3>1. x \in Users /\ x \in SuperAdmins /\ account[x].status = "active"
      BY <2>1 DEF ActiveSuperAdmins, SuperAdmins
    <3>2. x \in ActiveSuperAdmins'
      BY <1>1, <1>2, <2>1, <3>1 DEF ActiveSuperAdmins
    <3> QED
      BY <3>2
  <2> QED
    BY <2>1
<1>4. q.target \in ActiveSuperAdmins
  BY <1>3
<1>5. ~ /\ q.change.status = "active"
        /\ q.op \in RoleWriters => "super_admin" \in q.change.roles
  BY <1>1, <1>2, <1>4 DEF ActiveSuperAdmins
<1>6. q.op \in {"reset_user_password", "login_failure"}
  BY <1>1, <1>3, <1>4, <1>5 DEF RolesChecked
<1> QED
  BY <1>6, CommitIsBy DEF q

\* With one worker: logins and password changes never reopen a closed account.
THEOREM SerialClosedStayClosed ==
    ASSUME NEW w, Requests = {w}
    PROVE  Spec => ClosedAccountsStayClosed
<1> DEFINE Closed == \A u \in Users :
                       /\ Exists(u) /\ account[u].status \notin LoginStatuses
                       /\ account'[u].status # account[u].status
                       => By(AdminOperations)
<1>1. TypeOK /\ AccountInv /\ SerialInv /\ [Next]_vars => [Closed]_vars
  BY SerialStep, CommitClosed DEF SerialInv
<1> QED
  BY <1>1, SerialInvariant, PTL DEF Spec, ClosedAccountsStayClosed

\* With one worker: the failure that reaches the limit locks the account.
THEOREM SerialLockedAtTheLimit ==
    ASSUME NEW w, Requests = {w}
    PROVE  Spec => LockedAtTheLimit
<1> DEFINE Locked == \A u \in Users : OverTheLimit(u)' /\ ~OverTheLimit(u)
                       => By({"update_user_status", "approve_user"})
<1>1. TypeOK /\ AccountInv /\ SerialInv /\ [Next]_vars => [Locked]_vars
  BY SerialStep, CommitLocks DEF SerialInv, OverTheLimit
<1> QED
  BY <1>1, SerialInvariant, PTL DEF Spec, LockedAtTheLimit

\* With one worker: no temporary password opens an active account unless an
\* administrator has opened the account.
THEOREM SerialTemporaryForced ==
    ASSUME NEW w, Requests = {w}
    PROVE  Spec => TemporaryPasswordsAreForced
<1> DEFINE Forced == \A u \in Users : OpenedByTemporary(u)' /\ ~OpenedByTemporary(u)
                       => By({"update_user_status", "approve_user", "unlock_user"})
<1>1. TypeOK /\ AccountInv /\ SerialInv /\ [Next]_vars => [Forced]_vars
  BY SerialStep, CommitForces DEF SerialInv, OpenedByTemporary
<1> QED
  BY <1>1, SerialInvariant, PTL DEF Spec, TemporaryPasswordsAreForced

\* With one worker: only a super-admin or the bootstrap tool decides who is one.
THEOREM SerialSuperAdminsChoose ==
    ASSUME NEW w, Requests = {w}
    PROVE  Spec => SuperAdminsChooseSuperAdmins
<1> DEFINE Chosen == SuperAdmins' # SuperAdmins =>
                       \E r \in Requests : /\ req[r].stage = "checked"
                                           /\ req'[r].stage = "idle"
                                           /\ \/ req[r].op = "bootstrap_admin"
                                              \/ req[r].actor \in SuperAdmins
<1>1. TypeOK /\ AccountInv /\ SerialInv /\ [Next]_vars => [Chosen]_vars
  BY SerialStep, CommitChooses DEF SerialInv, SuperAdmins
<1> QED
  BY <1>1, SerialInvariant, PTL DEF Spec, SuperAdminsChooseSuperAdmins

\* With one worker: only a reset of their password or a lockout takes the last
\* active super-admin away.
THEOREM SerialActiveSuperAdmin ==
    ASSUME NEW w, Requests = {w}
    PROVE  Spec => ActiveSuperAdminRemains
<1> DEFINE Spared == ActiveSuperAdmins # {} /\ ActiveSuperAdmins' = {}
                       => By({"reset_user_password", "login_failure"})
<1>1. TypeOK /\ AccountInv /\ SerialInv /\ [Next]_vars => [Spared]_vars
  BY SerialStep, CommitSpares DEF SerialInv, SuperAdmins, ActiveSuperAdmins
<1> QED
  BY <1>1, SerialInvariant, PTL DEF Spec, ActiveSuperAdminRemains
=============================================================================
