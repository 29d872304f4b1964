---------------------------- MODULE SessionRegistry ----------------------------
(***************************************************************************)
(* What the API promises about sessions (backend/auth.py:70-75), without   *)
(* stamps, rows or requests: a session is opened, and a password change    *)
(* closes every session of its user at once and for good.                  *)
(***************************************************************************)
VARIABLES
    issued,  \* every token ever handed out
    live     \* the tokens a request may still present

vars == <<issued, live>>

Init == issued = {} /\ live = {}

\* A new token is live; one that is dead is never handed out again.
Open == \E t \in issued' :
            /\ t \notin issued \ live
            /\ issued' = issued \union {t}
            /\ live' = live \union {t}

\* All the sessions of one user end together; nobody else's does.
Revoke(u) == /\ live' = {t \in live : t.user # u}
             /\ UNCHANGED issued

Next == Open \/ \E t \in live : Revoke(t.user)

Spec == Init /\ [][Next]_vars

\* A token that died stays dead: no later step makes it acceptable again.
DeadForGood == [][issued \ live \subseteq (issued \ live)']_vars
=============================================================================
