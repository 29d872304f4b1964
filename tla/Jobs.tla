--------------------------------- MODULE Jobs ---------------------------------
(***************************************************************************)
(* Jobs over uploaded files: create_job and run_job_background of          *)
(* backend/main.py over persist_output_artifact of backend/storage.py.     *)
(*                                                                         *)
(* create_job checks, commits a queued row, reads it back and leaves a     *)
(* task in the process's memory; the task commits "running", checks again, calls the   *)
(* module's handler, copies the files it returned into OUTPUT_DIR and      *)
(* commits the result in a session of its own.  Uploads are added and      *)
(* deleted, permissions granted and revoked and rows removed by hand       *)
(* between any two of these steps.                                         *)
(***************************************************************************)
EXTENDS Uploads

CONSTANTS
    Jobs,       \* job ids
    Outputs,    \* generated storage names of outputs
    InputLists, \* the sets of uploads that are submitted
    MaxOutputs  \* bound: files a handler returns

JobFaults == {"commit",   \* a commit of create_job or of the task's checks
                          \* fails, or the handler raises
              "readback", \* create_job cannot read the committed row back
              "start",    \* the commit of "running" fails
              "persist",  \* an output cannot be copied
              "publish",  \* the commit of the result fails
              "record",   \* the commit of the failure fails
              "cleanup"}  \* a job's row is removed by hand

ASSUME OutputsAssumption ==
    MaxOutputs \in Nat /\ InputLists \subseteq SUBSET Files

VARIABLES
    permitted,  \* the users the job's module is visible to
    job,        \* the jobs table
    outputs,    \* OUTPUT_DIR
    task,       \* what create_job, then run_job_background holds in memory
    barred      \* history: jobs that were not allowed to run when they
                \* started and have not been allowed since

jobVars == <<permitted, job, outputs, task, barred>>
vars == <<uploadVars, jobVars>>

Job == [status : {"none", "queued", "running", "done", "failed", "gone"},
        user : Users \union {Nobody}, inputs : SUBSET Files,
        db : BOOLEAN, refs : SUBSET Outputs]

NoJob == [status |-> "none", user |-> Nobody, inputs |-> {}, db |-> FALSE,
          refs |-> {}]

Task == [stage : {"none", "submitted", "committed", "unscheduled",
                  "waiting", "authorizing", "reading", "handling", "persisting",
                  "failing", "ended", "lost"},
         todo : 0 .. MaxOutputs,
         produced : SUBSET Outputs]

NoTask == [stage |-> "none", todo |-> 0, produced |-> {}]

Doing(j, stage) == task[j].stage = stage
Do(j, stage) == task' = [task EXCEPT ![j].stage = stage]

\* Mutant of Update: nobody looks whether the row is still there.
UpdateBlindly(j, row) == job' = [job EXCEPT ![j] = row]

\* UPDATE of a job's row, if it is still there.
Update(j, row) ==
    job' = IF job[j].status = "gone" THEN job ELSE [job EXCEPT ![j] = row]

\* Mutant of Owned: any upload will do.
Uploaded(u, fs) == \A f \in fs : owner[f] # Nobody

Owned(u, fs) == \A f \in fs : owner[f] = u

MayRun(j) == job[j].user \in permitted /\ Owned(job[j].user, job[j].inputs)

-----------------------------------------------------------------------------
(* create_job *)

SubmitJob(j, u, fs, db) ==
    /\ Doing(j, "none")
    /\ u \in permitted /\ Owned(u, fs)
    /\ job' = [job EXCEPT ![j] = [NoJob EXCEPT !.user = u, !.inputs = fs,
                                               !.db = db]]
    /\ Do(j, "submitted")
    /\ UNCHANGED <<permitted, outputs, barred>>

CreateJob(j) ==
    /\ Doing(j, "submitted")
    /\ job' = [job EXCEPT ![j].status = "queued"]
    /\ Do(j, "committed")
    /\ UNCHANGED <<permitted, outputs, barred>>

\* db.refresh finds the row, then background_tasks.add_task.
ScheduleJob(j) ==
    /\ Doing(j, "committed") /\ job[j].status # "gone"
    /\ Do(j, "waiting")
    /\ UNCHANGED <<permitted, job, outputs, barred>>

\* db.refresh raises and the request with it: the row is committed, and no task
\* will ever look at it.
RefreshFails(j) ==
    /\ Doing(j, "committed")
    /\ "readback" \in Faults \/ job[j].status = "gone"
    /\ Do(j, "unscheduled")
    /\ UNCHANGED <<permitted, job, outputs, barred>>

SubmitFails(j) ==
    /\ Doing(j, "submitted") /\ "commit" \in Faults
    /\ Do(j, "ended")
    /\ UNCHANGED <<permitted, job, outputs, barred>>

-----------------------------------------------------------------------------
(* run_job_background *)

StartJob(j) ==
    /\ Doing(j, "waiting")
    /\ IF job[j].status = "gone"
       THEN Do(j, "ended") /\ UNCHANGED <<job, barred>>
       ELSE /\ job' = [job EXCEPT ![j].status = "running"]
            /\ Do(j, "authorizing")
            /\ barred' = IF MayRun(j) THEN barred ELSE barred \union {j}
    /\ UNCHANGED <<permitted, outputs>>

\* Outside the try: the task dies and the row stays queued.
StartFails(j) ==
    /\ Doing(j, "waiting") /\ "start" \in Faults
    /\ Do(j, "lost")
    /\ UNCHANGED <<permitted, job, outputs, barred>>

\* Mutant of AuthorizeJob: create_job's check is trusted.
AuthorizeAnyJob(j) ==
    /\ Doing(j, "authorizing")
    /\ Do(j, IF job[j].status # "gone" THEN "reading" ELSE "failing")
    /\ UNCHANGED <<permitted, job, outputs, barred>>

\* The module is visible to the owner; reading the row of a job that is gone
\* raises.
AuthorizeJob(j) ==
    /\ Doing(j, "authorizing")
    /\ Do(j, IF job[j].status # "gone" /\ job[j].user \in permitted
             THEN "reading" ELSE "failing")
    /\ UNCHANGED <<permitted, job, outputs, barred>>

\* Every input is still the owner's upload, and there is one unless the
\* module reads the database; the job's own row was read before.
ReadInputs(j) ==
    /\ Doing(j, "reading")
    /\ Do(j, IF /\ Owned(job[j].user, job[j].inputs)
                /\ job[j].inputs # {} \/ job[j].db
             THEN "handling" ELSE "failing")
    /\ UNCHANGED <<permitted, job, outputs, barred>>

\* The handler returns n paths.
Handle(j, n) ==
    /\ Doing(j, "handling")
    /\ task' = [task EXCEPT ![j].stage = "persisting", ![j].todo = n]
    /\ UNCHANGED <<permitted, job, outputs, barred>>

\* Mutant of PersistOutput: a path that does not exist is published too.
PersistMissingOutput(j) ==
    /\ Doing(j, "persisting") /\ task[j].todo > 0
    /\ \E o \in Outputs \ outputs :
          task' = [task EXCEPT ![j].todo = @ - 1,
                               ![j].produced = @ \union {o}]
    /\ UNCHANGED <<permitted, job, outputs, barred>>

\* persist_output_artifact copies the next path to a name nobody has used; a
\* path that does not exist is skipped.
PersistOutput(j) ==
    /\ Doing(j, "persisting") /\ task[j].todo > 0
    /\ \/ \E o \in Outputs \ outputs :
             /\ outputs' = outputs \union {o}
             /\ task' = [task EXCEPT ![j].todo = @ - 1,
                                     ![j].produced = @ \union {o}]
       \/ /\ task' = [task EXCEPT ![j].todo = @ - 1]
          /\ UNCHANGED outputs
    /\ UNCHANGED <<permitted, job, barred>>

PublishJob(j) ==
    /\ Doing(j, "persisting") /\ task[j].todo = 0
    /\ Update(j, [job[j] EXCEPT !.status = "done", !.refs = task[j].produced])
    /\ Do(j, "ended")
    /\ UNCHANGED <<permitted, outputs, barred>>

\* Mutant of TaskRaises: the exception ends the task.
TaskDies(j) ==
    /\ "persist" \in Faults /\ Doing(j, "persisting") /\ task[j].todo > 0
    /\ Do(j, "ended")
    /\ UNCHANGED <<permitted, job, outputs, barred>>

\* An exception anywhere in the try, what was copied staying in OUTPUT_DIR.
TaskRaises(j) ==
    /\ \/ "commit" \in Faults /\ task[j].stage \in {"authorizing", "reading",
                                                    "handling"}
       \/ "persist" \in Faults /\ Doing(j, "persisting") /\ task[j].todo > 0
       \/ "publish" \in Faults /\ Doing(j, "persisting") /\ task[j].todo = 0
    /\ Do(j, "failing")
    /\ UNCHANGED <<permitted, job, outputs, barred>>

RecordFailure(j) ==
    /\ Doing(j, "failing")
    /\ Update(j, [job[j] EXCEPT !.status = "failed"])
    /\ Do(j, "ended")
    /\ UNCHANGED <<permitted, outputs, barred>>

RecordFails(j) ==
    /\ Doing(j, "failing") /\ "record" \in Faults
    /\ Do(j, "lost")
    /\ UNCHANGED <<permitted, job, outputs, barred>>

-----------------------------------------------------------------------------
(* Everybody else *)

\* Roles, the module's row or the user's module access change.
Permit(u) ==
    /\ permitted' = IF u \in permitted THEN permitted \ {u}
                    ELSE permitted \union {u}
    /\ barred' = {j \in barred : job[j].user # u
                                 \/ u \in permitted
                                 \/ ~Owned(u, job[j].inputs)}
    /\ UNCHANGED <<job, outputs, task>>

RemoveJob(j) ==
    /\ "cleanup" \in Faults /\ job[j].status \notin {"none", "gone"}
    /\ job' = [job EXCEPT ![j].status = "gone", ![j].refs = {}]
    /\ UNCHANGED <<permitted, outputs, task, barred>>

CrashJobs ==
    /\ task' = [j \in Jobs |->
                  IF task[j].stage \in {"none", "unscheduled", "ended"}
                  THEN task[j]
                  ELSE [task[j] EXCEPT !.stage = "lost"]]
    /\ UNCHANGED <<permitted, job, outputs, barred>>

Crash == CrashUploads /\ CrashJobs

-----------------------------------------------------------------------------
Init ==
    /\ InitUploads
    /\ permitted = Users
    /\ job = [j \in Jobs |-> NoJob]
    /\ outputs = {}
    /\ task = [j \in Jobs |-> NoTask]
    /\ barred = {}

Submit(j) ==
    \/ \E u \in Users, fs \in InputLists, db \in BOOLEAN : SubmitJob(j, u, fs, db)
    \/ CreateJob(j) \/ SubmitFails(j)

\* What create_job has left to do once the row is committed.
Schedule(j) == ScheduleJob(j) \/ RefreshFails(j)

\* The steps of a background task.
RunJob(j) ==
    \/ StartJob(j) \/ StartFails(j) \/ AuthorizeJob(j) \/ ReadInputs(j)
    \/ \E n \in 0 .. MaxOutputs : Handle(j, n)
    \/ PersistOutput(j) \/ PublishJob(j)
    \/ TaskRaises(j) \/ RecordFailure(j) \/ RecordFails(j)

JobStep == \/ \E j \in Jobs : \/ Submit(j) \/ Schedule(j)
                               \/ RunJob(j) \/ RemoveJob(j)
           \/ \E u \in Users : Permit(u)

Next == \/ UploadStep /\ UNCHANGED jobVars
        \/ JobStep /\ UNCHANGED uploadVars
        \/ Crash

Spec == Init /\ [][Next]_vars

\* The thread pool finishes the requests it runs and runs every task it was
\* given, and handlers return: nothing in the code bounds their time.
FairSpec == Spec /\ \A j \in Jobs :
                       WF_vars((Schedule(j) \/ RunJob(j)) /\ UNCHANGED uploadVars)

-----------------------------------------------------------------------------
\* Jobs and tasks keep their shapes, a task knows the job it works for, and an
\* output in a task's or a job's hands is in OUTPUT_DIR.
TypeOK ==
    /\ TypeOKUploads
    /\ permitted \subseteq Users
    /\ job \in [Jobs -> Job]
    /\ outputs \subseteq Outputs
    /\ task \in [Jobs -> Task]
    /\ barred \subseteq Jobs
    /\ \A j \in Jobs : /\ ~Doing(j, "none") => job[j].user \in Users
                       /\ task[j].produced \subseteq outputs
                       /\ job[j].refs \subseteq outputs

\* Polling clients see the lifecycle of JobLifecycle whatever else happens:
\* one run, one end, results with the end, and results that can be downloaded
\* and belong to one job only, so that the download's authorization, which
\* looks the name up in the requester's own jobs, cannot be another's.
Lifecycle == INSTANCE JobLifecycle
                 WITH Artifacts <- Outputs, available <- outputs,
                      status  <- [j \in Jobs |-> job[j].status],
                      results <- [j \in Jobs |-> job[j].refs]
ImplementsJobLifecycle == Lifecycle!Spec

\* A job whose owner had lost the module, or whose inputs had been deleted, by
\* the time its task started never reaches the handler (test_job_module_
\* authorization.py, "revoked permission fails queued job before handler
\* execution"): the task's checks do not rely on those of create_job.
BarredJobsNeverRun ==
    \A j \in barred : task[j].stage \notin {"handling", "persisting"}
                      /\ job[j].status # "done"

\* No job reads, and none is done with, an upload of somebody else.
JobsUseOwnUploads ==
    \A j \in Jobs : job[j].status \in {"queued", "running", "done"} =>
        \A f \in job[j].inputs : owner[f] \in {job[j].user, Nobody}

\* A queued job ends, but for those without a task: create_job could not read the
\* row back and scheduled none, or the task was lost to the end of the process or
\* to a failed commit of "running" or of the failure itself, the two that
\* run_job_background cannot record.
JobsEnd ==
    \A j \in Jobs : job[j].status = "queued"
                      ~> \/ job[j].status \in {"done", "failed", "gone"}
                         \/ Doing(j, "lost") \/ Doing(j, "unscheduled")
=============================================================================
