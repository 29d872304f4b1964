------------------------------- MODULE Accounts -------------------------------
(***************************************************************************)
(* Accounts, roles and sessions of the API: backend/auth.py,               *)
(* backend/admin_routes.py and backend/tools/bootstrap_admin.py.           *)
(*                                                                         *)
(* Every handler is a synchronous function run in a thread pool over its   *)
(* own database session.  It reads rows, spends a long time in bcrypt, and *)
(* commits; nothing locks the rows it read.  A request is therefore a      *)
(* sequence of steps that interleave with the steps of other requests:     *)
(*                                                                         *)
(*   idle -> (authorized ->) checked -> committed (-> minting) -> idle     *)
(*                                                                         *)
(* and the commit writes what SQLAlchemy's unit of work writes: the        *)
(* columns whose new value differs from the value the request READ, over   *)
(* whatever the row has become in the meantime.                            *)
(***************************************************************************)
EXTENDS Naturals

CONSTANTS
    Users,            \* e-mail addresses: an account exists or is "absent"
    Requests,         \* worker threads: requests in flight at one time
    NoUser,           \* the actor of a request nobody has authenticated
    MaxFailedLogins,  \* MAX_FAILED_LOGINS of auth.py
    RolePayloads,     \* the role lists an administrator submits
    Operations,       \* the endpoints that are called
    MaxSecret,        \* bound: passwords ever set
    FailedBound       \* bound: failed_login_count

Role == {"super_admin", "admin", "viewer"}

Status == {"pending_approval", "active", "disabled", "locked", "rejected",
           "password_change_required"}

LoginStatuses == {"active", "password_change_required"}

\* Endpoints behind require_permission(...).
AdminOperations == {"update_user_status", "update_user_roles", "approve_user",
                    "create_admin_user", "unlock_user", "reset_user_password",
                    "reject_user"}

\* Endpoints anybody reaches, the two outcomes of a login apart.
OpenOperations == {"login_failure", "login_success", "change_password",
                   "register_user", "bootstrap_admin"}

RoleWriters == {"update_user_roles", "approve_user", "create_admin_user",
                "bootstrap_admin"}

ASSUME UsersAssumption == NoUser \notin Users
ASSUME LimitsAssumption ==
    /\ MaxFailedLogins \in Nat \ {0}
    /\ MaxSecret \in Nat
    /\ FailedBound \in Nat
ASSUME ChoicesAssumption ==
    /\ RolePayloads \subseteq SUBSET Role
    /\ Operations \subseteq AdminOperations \union OpenOperations

VARIABLES
    account,     \* the users table: one row per e-mail
    roles,       \* the user_roles table
    tokens,      \* tokens handed to clients
    req,         \* requests in flight
    lastSecret,  \* passwords set so far: each new one is a fresh number
    temporary    \* history: the passwords generate_temporary_password made

vars == <<account, roles, tokens, req, lastSecret, temporary>>
durable == <<account, roles, tokens, lastSecret, temporary>>

-----------------------------------------------------------------------------
(* Rows, tokens and requests *)

\* hash stands for hashed_password and stamp for password_changed_at, 0 being
\* NULL; both name the password that was set when they were written.
Row == [status : Status \union {"absent"}, failed : Nat,
        hash : Nat, stamp : Nat]

NoRow == [status |-> "absent", failed |-> 0, hash |-> 0, stamp |-> 0]

\* proof is history: the password the holder presented to obtain the token.
Token == [user : Users, stamp : Nat, proof : Nat]

\* What a request will write: status and failed, a fresh password or not
\* ("hash" leaves password_changed_at NULL), and the role rows of RoleWriters.
Change == [status : Status \union {"absent"}, failed : Nat,
           secret : {"keep", "hash", "hash_and_stamp"}, roles : SUBSET Role]

Keep(row) == [status |-> row.status, failed |-> row.failed,
              secret |-> "keep", roles |-> {}]

Request == [stage : {"idle", "authorized", "checked", "minting"},
            op : AdminOperations \union OpenOperations \union {"none"},
            actor : Users \union {NoUser},
            target : Users \union {NoUser},
            seen : Row,
            change : Change,
            proof : Nat]

Idle == [stage |-> "idle", op |-> "none", actor |-> NoUser, target |-> NoUser,
         seen |-> NoRow, change |-> Keep(NoRow), proof |-> 0]

\* A request about to commit change on u, having read the row seen.
Prepared(op, actor, u, seen, change) ==
    [stage |-> "checked", op |-> op, actor |-> actor, target |-> u,
     seen |-> seen, change |-> change, proof |-> seen.hash]

Exists(u) == account[u].status # "absent"

SuperAdmins == {u \in Users : "super_admin" \in roles[u]}

ActiveSuperAdmins == {u \in SuperAdmins : account[u].status = "active"}

\* The registry grants admin.users.manage and admin.roles.manage to both
\* administrator roles and admin.roles.manage_super_admin to super_admin alone.
MayAdminister(u) == roles[u] \intersect {"super_admin", "admin"} # {}
MayManageSuperAdmins(u) == "super_admin" \in roles[u]

\* Mutant of Live: a session is live as long as its account is not locked.
LiveUnlessLocked(t) == account[t.user].status # "locked"

\* The stamp comparison every authenticated request makes.
Live(t) == account[t.user].stamp = t.stamp

\* Mutant of Accepted: no look at the account's status.
AcceptedWhateverStatus(t, statuses) == Live(t)

Accepted(t, statuses) == Live(t) /\ account[t.user].status \in statuses

\* r's handler has read and checked; it waits to commit (or to check) as q.
Stage(r, q) == req' = [req EXCEPT ![r] = q] /\ UNCHANGED durable

FreshSecret == lastSecret < MaxSecret

-----------------------------------------------------------------------------
(* Handlers that need no administrator *)

\* Mutant of LoginFailure: every failure counts, whatever the status.
LoginFailureAlwaysCounts(r, u) ==
    /\ req[r].stage = "idle" /\ "login_failure" \in Operations
    /\ Exists(u) /\ account[u].failed < FailedBound
    /\ LET seen   == account[u]
           failed == seen.failed + 1
       IN Stage(r, Prepared("login_failure", NoUser, u, seen,
                    [Keep(seen) EXCEPT
                       !.failed = failed,
                       !.status = IF failed >= MaxFailedLogins
                                  THEN "locked" ELSE @]))

LoginFailure(r, u) ==
    /\ req[r].stage = "idle" /\ "login_failure" \in Operations
    /\ Exists(u)
    /\ account[u].status \in LoginStatuses => account[u].failed < FailedBound
    /\ LET seen    == account[u]
           counted == seen.status \in LoginStatuses
           failed  == IF counted THEN seen.failed + 1 ELSE seen.failed
       IN Stage(r, Prepared("login_failure", NoUser, u, seen,
                    [Keep(seen) EXCEPT
                       !.failed = failed,
                       !.status = IF counted /\ failed >= MaxFailedLogins
                                  THEN "locked" ELSE @]))

LoginSuccess(r, u) ==
    /\ req[r].stage = "idle" /\ "login_success" \in Operations
    /\ account[u].status \in LoginStatuses
    /\ LET seen == account[u]
       IN Stage(r, Prepared("login_success", u, u, seen,
                            [Keep(seen) EXCEPT !.failed = 0]))

ChangePassword(r, t) ==
    /\ req[r].stage = "idle" /\ "change_password" \in Operations
    /\ Accepted(t, LoginStatuses) /\ FreshSecret
    /\ LET seen == account[t.user]
       IN Stage(r, Prepared("change_password", t.user, t.user, seen,
                    [Keep(seen) EXCEPT
                       !.failed = 0,
                       !.status = IF @ = "password_change_required"
                                  THEN "active" ELSE @,
                       !.secret = "hash_and_stamp"]))

RegisterUser(r, u) ==
    /\ req[r].stage = "idle" /\ "register_user" \in Operations
    /\ ~Exists(u) /\ FreshSecret
    /\ LET seen == account[u]
       IN Stage(r, Prepared("register_user", NoUser, u, seen,
                    [Keep(seen) EXCEPT !.status = "pending_approval",
                                       !.secret = "hash"]))

BootstrapAdmin(r, u) ==
    /\ req[r].stage = "idle" /\ "bootstrap_admin" \in Operations
    /\ SuperAdmins = {} /\ ~Exists(u) /\ FreshSecret
    /\ LET seen == account[u]
       IN Stage(r, Prepared("bootstrap_admin", NoUser, u, seen,
                    [Keep(seen) EXCEPT !.status = "active",
                                       !.secret = "hash",
                                       !.roles = {"super_admin"}]))

-----------------------------------------------------------------------------
(* Administrator handlers: authenticate, check the target, commit *)

\* The route's dependencies: get_current_user, then the permission.
Authorize(r, t, op) ==
    /\ req[r].stage = "idle"
    /\ op \in Operations \intersect AdminOperations
    /\ Accepted(t, {"active"}) /\ MayAdminister(t.user)
    /\ Stage(r, [Idle EXCEPT !.stage = "authorized", !.op = op,
                             !.actor = t.user, !.seen = account[t.user]])

Authorized(r, op) == req[r].stage = "authorized" /\ req[r].op = op

\* The session's identity map: the actor's own row is not read again.
TargetRow(q, u) == IF u = q.actor THEN q.seen ELSE account[u]

Unchanged(r, u) == Keep(TargetRow(req[r], u))

AdminPrepare(r, u, change) ==
    Stage(r, Prepared(req[r].op, req[r].actor, u, TargetRow(req[r], u), change))

\* Mutant of UpdateUserStatus: the active super-admins are not counted.
UpdateUserStatusUncounted(r, u, new) ==
    /\ Authorized(r, "update_user_status") /\ Exists(u)
    /\ ~(u = req[r].actor /\ new \in {"disabled", "locked", "rejected"})
    /\ AdminPrepare(r, u, [Unchanged(r, u) EXCEPT !.status = new])

UpdateUserStatus(r, u, new) ==
    /\ Authorized(r, "update_user_status") /\ Exists(u)
    /\ ~(u = req[r].actor /\ new \in {"disabled", "locked", "rejected"})
    /\ u \in SuperAdmins /\ new # "active" => ActiveSuperAdmins \ {u} # {}
    /\ AdminPrepare(r, u, [Unchanged(r, u) EXCEPT !.status = new])

\* Mutant of SuperAdminChangeAllowed: nobody asks.
AnyChangeAllowed(actor, u, new) == TRUE

\* _require_super_admin_role_permission, and the count of the assignments
\* that are left when super_admin is taken away.
SuperAdminChangeAllowed(actor, u, new) ==
    /\ (u \in SuperAdmins) # ("super_admin" \in new)
         => MayManageSuperAdmins(actor)
    /\ u \in SuperAdmins /\ "super_admin" \notin new
         => SuperAdmins \ {u} # {}

UpdateUserRoles(r, u, new) ==
    /\ Authorized(r, "update_user_roles") /\ Exists(u)
    /\ SuperAdminChangeAllowed(req[r].actor, u, new)
    /\ u \in SuperAdmins /\ "super_admin" \notin new => u # req[r].actor
    /\ AdminPrepare(r, u, [Unchanged(r, u) EXCEPT !.roles = new])

ApproveUser(r, u, new) ==
    /\ Authorized(r, "approve_user") /\ new # {}
    /\ TargetRow(req[r], u).status = "pending_approval"
    /\ SuperAdminChangeAllowed(req[r].actor, u, new)
    /\ AdminPrepare(r, u, [Unchanged(r, u) EXCEPT !.status = "active",
                                                  !.roles = new])

\* Mutant of CreateAdminUser: the new account is active at once.
CreateActiveUser(r, u, new) ==
    /\ Authorized(r, "create_admin_user") /\ new # {}
    /\ ~Exists(u) /\ FreshSecret
    /\ "super_admin" \in new => MayManageSuperAdmins(req[r].actor)
    /\ AdminPrepare(r, u, [Unchanged(r, u) EXCEPT !.status = "active",
                                                  !.secret = "hash_and_stamp",
                                                  !.roles = new])

CreateAdminUser(r, u, new) ==
    /\ Authorized(r, "create_admin_user") /\ new # {}
    /\ ~Exists(u) /\ FreshSecret
    /\ "super_admin" \in new => MayManageSuperAdmins(req[r].actor)
    /\ AdminPrepare(r, u, [Unchanged(r, u) EXCEPT
                             !.status = "password_change_required",
                             !.secret = "hash_and_stamp",
                             !.roles = new])

\* Mutant of UnlockUser: the failures are not forgotten.
UnlockKeepsFailures(r, u) ==
    /\ Authorized(r, "unlock_user")
    /\ TargetRow(req[r], u).status = "locked"
    /\ AdminPrepare(r, u, [Unchanged(r, u) EXCEPT !.status = "active"])

UnlockUser(r, u) ==
    /\ Authorized(r, "unlock_user")
    /\ TargetRow(req[r], u).status = "locked"
    /\ AdminPrepare(r, u, [Unchanged(r, u) EXCEPT !.status = "active",
                                                  !.failed = 0])

ResetUserPassword(r, u) ==
    /\ Authorized(r, "reset_user_password") /\ Exists(u) /\ FreshSecret
    /\ u \in SuperAdmins => MayManageSuperAdmins(req[r].actor)
    /\ TargetRow(req[r], u).status \notin {"rejected", "pending_approval"}
    /\ AdminPrepare(r, u, [Unchanged(r, u) EXCEPT
                             !.status = "password_change_required",
                             !.failed = 0,
                             !.secret = "hash_and_stamp"])

RejectUser(r, u) ==
    /\ Authorized(r, "reject_user")
    /\ TargetRow(req[r], u).status = "pending_approval"
    /\ AdminPrepare(r, u, [Unchanged(r, u) EXCEPT !.status = "rejected"])

-----------------------------------------------------------------------------
(* Commit, token, failure *)

\* An UPDATE names a column only when its value differs from the one read.
Column(current, seen, new) == IF new = seen THEN current ELSE new

\* Mutant of Written: password_changed_at is forgotten.
WrittenWithoutStamp(row, q, secret) ==
    [status |-> Column(row.status, q.seen.status, q.change.status),
     failed |-> Column(row.failed, q.seen.failed, q.change.failed),
     hash   |-> IF q.change.secret = "keep" THEN row.hash ELSE secret,
     stamp  |-> row.stamp]

\* The row after q's commit, a new password being the number secret.
Written(row, q, secret) ==
    [status |-> Column(row.status, q.seen.status, q.change.status),
     failed |-> Column(row.failed, q.seen.failed, q.change.failed),
     hash   |-> IF q.change.secret = "keep" THEN row.hash ELSE secret,
     stamp  |-> IF q.change.secret = "hash_and_stamp" THEN secret
                ELSE row.stamp]

\* Mutant of Committed: the request forgets for whom it mints.
CommittedForNobody(q, secret) ==
    IF q.op \in {"login_success", "change_password"}
    THEN [Idle EXCEPT !.stage = "minting", !.op = q.op] ELSE Idle

\* Where the request goes once it has committed: login and change-password
\* still have to mint a token, for whoever presented q.proof.
Committed(q, secret) ==
    IF q.op \in {"login_success", "change_password"}
    THEN [Idle EXCEPT !.stage = "minting", !.op = q.op,
                      !.actor = q.actor, !.target = q.target,
                      !.proof = IF q.op = "change_password"
                                THEN secret ELSE q.proof]
    ELSE Idle

Commit(r) ==
    LET q      == req[r]
        secret == lastSecret + 1
    IN
    /\ q.stage = "checked"
    \* An INSERT meets the unique index on users.email.
    /\ q.seen.status = "absent" => ~Exists(q.target)
    /\ q.change.secret # "keep" => FreshSecret
    /\ account' = [account EXCEPT ![q.target] = Written(@, q, secret)]
    /\ roles' = IF q.op \in RoleWriters
                THEN [roles EXCEPT ![q.target] = q.change.roles] ELSE roles
    /\ lastSecret' = IF q.change.secret = "keep" THEN lastSecret ELSE secret
    /\ temporary' = IF q.op \in {"create_admin_user", "reset_user_password"}
                    THEN temporary \union {secret} ELSE temporary
    /\ req' = [req EXCEPT ![r] = Committed(q, secret)]
    /\ UNCHANGED tokens

\* issue_user_token reads the row again: the commit expired it.
IssueToken(r) ==
    LET q == req[r] IN
    /\ q.stage = "minting"
    /\ tokens' = tokens \union
                   {[user  |-> q.target, stamp |-> account[q.target].stamp,
                     proof |-> q.proof]}
    /\ req' = [req EXCEPT ![r] = Idle]
    /\ UNCHANGED <<account, roles, lastSecret, temporary>>

\* A refusal, a failed flush or commit, a lost response: get_db rolls back.
Fail(r) ==
    /\ req[r].stage # "idle"
    /\ Stage(r, Idle)

-----------------------------------------------------------------------------
Init ==
    /\ account = [u \in Users |-> NoRow]
    /\ roles = [u \in Users |-> {}]
    /\ tokens = {}
    /\ req = [r \in Requests |-> Idle]
    /\ lastSecret = 0
    /\ temporary = {}

SelfService(r) ==
    \/ \E u \in Users : \/ LoginFailure(r, u)
                        \/ LoginSuccess(r, u)
                        \/ RegisterUser(r, u)
                        \/ BootstrapAdmin(r, u)
    \/ \E t \in tokens : ChangePassword(r, t)

Administer(r) ==
    \/ \E t \in tokens, op \in AdminOperations : Authorize(r, t, op)
    \/ \E u \in Users : \/ \E new \in Status : UpdateUserStatus(r, u, new)
                        \/ \E new \in RolePayloads :
                             \/ UpdateUserRoles(r, u, new)
                             \/ ApproveUser(r, u, new)
                             \/ CreateAdminUser(r, u, new)
                        \/ UnlockUser(r, u)
                        \/ ResetUserPassword(r, u)
                        \/ RejectUser(r, u)

Finish(r) == Commit(r) \/ IssueToken(r) \/ Fail(r)

Next == \E r \in Requests : SelfService(r) \/ Administer(r) \/ Finish(r)

Spec == Init /\ [][Next]_vars

-----------------------------------------------------------------------------
(* Properties of every interleaving *)

\* Rows, tokens and requests keep their shapes, and no number is used as a
\* password stamp before the password exists.
TypeOK ==
    /\ account \in [Users -> Row]
    /\ roles \in [Users -> SUBSET Role]
    /\ tokens \subseteq Token
    /\ req \in [Requests -> Request]
    /\ \A r \in Requests : req[r].stage \in {"checked", "minting"}
                             => req[r].target \in Users
    /\ lastSecret \in Nat
    /\ temporary \subseteq Nat
    /\ \A u \in Users : account[u].stamp <= lastSecret
    /\ \A t \in tokens : t.stamp <= lastSecret

\* What a request carries from one step to the next stays true of the tables
\* while others commit: a session that read an account finds it still there, no
\* request erases an account, and a password without a stamp is only ever
\* written by the INSERT that creates its account.
Sound(q) ==
    /\ q.stage = "authorized" => /\ q.actor \in Users /\ Exists(q.actor)
                                 /\ q.seen.status = "active"
    /\ q.stage = "checked" => /\ q.change.status # "absent"
                              /\ q.seen.status # "absent" => Exists(q.target)
                              /\ q.change.secret = "hash"
                                   => q.seen.status = "absent"

\* The inductive invariant behind StampTracksPassword and SuperAdminRemains:
\* requests are sound, every password in use has been set, and role rows belong
\* to accounts.
AccountInv ==
    /\ \A r \in Requests : Sound(req[r])
    /\ \A u \in Users : account[u].hash <= lastSecret
    /\ \A u \in Users : roles[u] # {} => Exists(u)

\* "A value that changes exactly when the user's password changes"
\* (auth.py, _password_stamp): of an existing account no step writes the hash
\* without the stamp, or the stamp without the hash.
StampTracksPassword ==
    [][\A u \in Users : Exists(u) =>
          (account'[u].hash # account[u].hash
             <=> account'[u].stamp # account[u].stamp)]_vars

\* The stamp check implements the session registry: whatever requests
\* interleave, a new password ends every session of its user and only those,
\* and no session that ended is ever accepted again.
Sessions == INSTANCE SessionRegistry
                WITH issued <- tokens, live <- {t \in tokens : Live(t)}
ImplementsSessionRegistry == Sessions!Spec

-----------------------------------------------------------------------------
(* Properties of requests served one at a time *)

\* A live token belongs to somebody who presented the current password: a
\* reset or a change shuts out whoever knew only the password before it.
LiveTokenProvesPassword ==
    \A t \in tokens : Live(t) => t.proof = account[t.user].hash

\* "The last super-admin role cannot be removed" (update_user_roles): no
\* sequence of approvals, role changes and removals ends with no super-admin.
SuperAdminRemains == [][SuperAdmins # {} => SuperAdmins' # {}]_vars

\* Why it holds: while nobody else commits, a request about to take super_admin
\* away from its target still leaves another super-admin behind.
Guarded(q) ==
    /\ q.stage = "checked" /\ q.op \in RoleWriters
    /\ q.target \in SuperAdmins /\ "super_admin" \notin q.change.roles
    => SuperAdmins \ {q.target} # {}
RemovalsGuarded == \A r \in Requests : Guarded(req[r])

\* The step is the commit of one of these operations.
By(ops) == \E r \in Requests : /\ req[r].stage = "checked" /\ req[r].op \in ops
                              /\ req'[r].stage # "checked"

\* "The last active super-admin cannot be deactivated" (update_user_status):
\* the last one is taken away by nothing but a reset of their password, which
\* sends them through change_password, or by the lockout of failed logins.
ActiveSuperAdminRemains ==
    [][ActiveSuperAdmins # {} /\ ActiveSuperAdmins' = {}
         => By({"reset_user_password", "login_failure"})]_vars

\* Nobody becomes or stops being a super-admin but by the bootstrap tool or by
\* the request of a super-admin, through whichever endpoint writes role rows.
SuperAdminsChooseSuperAdmins ==
    [][SuperAdmins' # SuperAdmins =>
          \E r \in Requests : /\ req[r].stage = "checked"
                              /\ req'[r].stage = "idle"
                              /\ \/ req[r].op = "bootstrap_admin"
                                 \/ req[r].actor \in SuperAdmins]_vars

\* Logins and password changes never bring a disabled, rejected or locked
\* account, or one waiting for approval, into another status.
ClosedAccountsStayClosed ==
    [][\A u \in Users :
          /\ Exists(u) /\ account[u].status \notin LoginStatuses
          /\ account'[u].status # account[u].status
          => By(AdminOperations)]_vars

\* An account that may log in although it has failed as often as the limit.
OverTheLimit(u) == /\ account[u].status \in LoginStatuses
                   /\ account[u].failed >= MaxFailedLogins

\* The failure that reaches MAX_FAILED_LOGINS locks the account, and what
\* reopens it forgets the failures, but for the administrator who sets the
\* status by hand, or sets it back to pending and approves the account again.
LockedAtTheLimit ==
    [][\A u \in Users : OverTheLimit(u)' /\ ~OverTheLimit(u)
          => By({"update_user_status", "approve_user"})]_vars

\* An active account whose password an administrator's create or reset made up.
OpenedByTemporary(u) == /\ account[u].status = "active"
                        /\ account[u].hash \in temporary

\* A temporary password opens an active account only where an administrator
\* opened the account as it was, by setting its status, approving or unlocking
\* it: nothing its user does, and neither create nor reset, leads around the
\* forced change.
TemporaryPasswordsAreForced ==
    [][\A u \in Users : OpenedByTemporary(u)' /\ ~OpenedByTemporary(u)
          => By({"update_user_status", "approve_user", "unlock_user"})]_vars

\* "Admin reset/create issue one-time temporary passwords and force
\* password_change_required" (ARCHITECTURE.md:51-52).
TemporaryPasswordMustBeChanged == \A u \in Users : ~OpenedByTemporary(u)
=============================================================================
