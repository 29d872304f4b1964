---------------------------- MODULE JobLifecycle ----------------------------
(***************************************************************************)
(* What the jobs table promises the clients that poll it: a job is         *)
(* accepted as queued, runs at most once, ends as done or as failed and    *)
(* stays that way; what it publishes, it publishes when it is done, and    *)
(* what is published can be downloaded from then on.                       *)
(***************************************************************************)
CONSTANTS Jobs, Artifacts

VARIABLES
    status,    \* of each job; "none" before it exists, "gone" once removed
    results,   \* what each job published
    available  \* the outputs that can be downloaded

vars == <<status, results, available>>

Init ==
    /\ status = [j \in Jobs |-> "none"]
    /\ results = [j \in Jobs |-> {}]
    /\ available = {}

Becomes(j, from, to) == status[j] = from /\ status' = [status EXCEPT ![j] = to]

Accept(j) == Becomes(j, "none", "queued") /\ UNCHANGED <<results, available>>
Run(j)    == Becomes(j, "queued", "running") /\ UNCHANGED <<results, available>>
Break(j)  == Becomes(j, "running", "failed") /\ UNCHANGED <<results, available>>

Publish(j) ==
    /\ Becomes(j, "running", "done")
    /\ \E refs \in SUBSET available :
          /\ \A k \in Jobs : results[k] \intersect refs = {}
          /\ results' = [results EXCEPT ![j] = refs]
    /\ UNCHANGED available

\* Files are written before they are published, and never removed.
Produce ==
    /\ \E a \in Artifacts \ available : available' = available \union {a}
    /\ UNCHANGED <<status, results>>

\* Somebody removes the row by hand.
Remove(j) ==
    /\ status[j] \notin {"none", "gone"}
    /\ status' = [status EXCEPT ![j] = "gone"]
    /\ results' = [results EXCEPT ![j] = {}]
    /\ UNCHANGED available

Next == \/ \E j \in Jobs : \/ Accept(j) \/ Run(j) \/ Break(j)
                           \/ Publish(j) \/ Remove(j)
        \/ Produce

Spec == Init /\ [][Next]_vars

-----------------------------------------------------------------------------
(* What clients may conclude *)

\* Results come with the end, are there, and are one job's alone.
ResultsAreOneJobs ==
    /\ \A j \in Jobs : /\ results[j] # {} => status[j] = "done"
                       /\ results[j] \subseteq available
    /\ \A j, k \in Jobs : j # k => results[j] \intersect results[k] = {}

\* A job that has ended is not run again and its results stay what they were,
\* until somebody removes it.
Ended(j) == status[j] \in {"done", "failed"}

StaysEnded(j) == \/ status'[j] = status[j] /\ results'[j] = results[j]
                 \/ status'[j] = "gone"

EndsAreFinal == [][\A j \in Jobs : Ended(j) => StaysEnded(j)]_vars
=============================================================================
