------------------------------ MODULE MCAccounts ------------------------------
(* Values of the constants of Accounts for TLC. *)
EXTENDS Accounts, TLC

\* E-mail addresses and worker threads are interchangeable.
Symmetry == Permutations(Users) \union Permutations(Requests)

AllOperations == AdminOperations \union OpenOperations

\* One list per privilege, the empty list, and a list that loses no privilege.
AllPayloads == {{}, {"viewer"}, {"admin"}, {"super_admin"}}
PrivilegedPayloads == {{"admin"}, {"super_admin"}}
AdminPayloads == {{"admin"}}

\* Logins, password changes and resets: what the session of a user is made of.
SessionOperations == {"bootstrap_admin", "create_admin_user", "login_success",
                      "change_password", "reset_user_password",
                      "login_failure"}
\* What it takes to have two super-admins and then to change their roles.
RoleOperations == {"bootstrap_admin", "create_admin_user", "login_success",
                   "change_password", "update_user_roles"}
\* What it takes to lock an account and to unlock it.
UnlockOperations == {"bootstrap_admin", "create_admin_user", "login_success",
                     "login_failure", "unlock_user"}
=============================================================================
