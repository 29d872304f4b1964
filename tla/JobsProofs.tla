------------------------------ MODULE JobsProofs ------------------------------
(***************************************************************************)
(* Jobs over uploads for any number of users, files, requests, jobs and    *)
(* outputs, under any selection of faults: what was proved of the uploads  *)
(* holds beside the jobs, a job that may not run does not run, no job uses *)
(* another's upload, and polling clients see the lifecycle they are        *)
(* promised.                                                               *)
(***************************************************************************)
EXTENDS Jobs, UploadsProofs

USE OwnersAssumption, BatchAssumption, OutputsAssumption
    DEF OwnersAssumption, BatchAssumption, OutputsAssumption

-----------------------------------------------------------------------------
(* Uploads beside jobs *)

\* Jobs do not touch uploads, and a crash is one for both.
LEMMA StepIsUploadStep == [Next]_vars => [NextUploads]_uploadVars
BY DEF Next, vars, Crash, NextUploads

\* The uploads of Jobs are those of Uploads.
THEOREM JobsKeepUploads == Spec => SpecUploads
<1>1. Init => InitUploads
  BY DEF Init
<1> QED
  BY <1>1, StepIsUploadStep, PTL DEF Spec, SpecUploads

\* A file that has or had a row: nobody will give it one again.
Settled(f) ==
    /\ f \in used
    /\ \A r \in Requests : request[r].stage \in {"writing", "inserting"} =>
                             request[r].file # f

\* An owned file is settled, since the rows of uploads come last.
LEMMA OwnedIsSettled ==
    ASSUME UploadInv, NEW f \in Files, owner[f] # Nobody
    PROVE  Settled(f)
BY DEF UploadInv, TypeOKUploads, Work, Settled

\* A settled file stays settled, and its owner stays or is gone.
LEMMA SettledStays ==
    ASSUME UploadInv, [NextUploads]_uploadVars, NEW f \in Files, Settled(f)
    PROVE  Settled(f)' /\ owner'[f] \in {owner[f], Nobody}
<1>1. /\ request \in [Requests -> UploadRequest]
      /\ owner \in [Files -> Users \union {Nobody}]
  BY DEF UploadInv, TypeOKUploads
<1>2. CASE CrashUploads
  BY <1>2 DEF CrashUploads, Settled, IdleRequest
<1>3. CASE UNCHANGED uploadVars
  BY <1>3 DEF uploadVars, Settled
<1>4. ASSUME NEW r \in Requests, Upload(r) \/ Delete(r)
      PROVE  Settled(f)' /\ owner'[f] \in {owner[f], Nobody}
  <2>1. PICK n : request' = [request EXCEPT ![r] = n]
    BY <1>4 DEF Upload, Delete, BeginUpload, CreateFile, WriteFile, RefuseFile,
                PrepareFails, InsertRow, Stored, UndoUpload, BeginDelete, DeleteFile,
                RemoveRow, RemoveFails, Goto
  <2>2. /\ request'[r] = n
        /\ \A i \in Requests \ {r} : request'[i] = request[i]
    BY <1>1, <2>1
  <2>3. CASE InsertRow(r)
    <3>1. /\ owner' = [owner EXCEPT ![request[r].file] = request[r].user]
          /\ request[r].stage = "inserting" /\ used' = used
          /\ request'[r].stage = "refreshing"
      BY <1>1, <2>3 DEF InsertRow, At, Goto, UploadRequest
    <3>2. owner'[f] = owner[f]
      BY <1>1, <3>1 DEF Settled
    <3> QED
      BY <2>2, <3>1, <3>2 DEF Settled
  <2>4. CASE \E g \in Files : CreateFile(r, g)
    <3>1. PICK g \in Files : CreateFile(r, g)
      BY <2>4
    <3>2. /\ g # f /\ request'[r].file = g /\ owner' = owner
          /\ used' = used \union {g}
      BY <1>1, <3>1 DEF CreateFile, Goto, Settled, UploadRequest
    <3> QED
      BY <2>2, <3>2 DEF Settled
  <2>5. CASE WriteFile(r)
    <3>1. /\ request[r].stage = "writing" /\ request'[r].file = request[r].file
          /\ owner' = owner /\ used' = used
      BY <1>1, <2>5 DEF WriteFile, At, Goto, UploadRequest
    <3> QED
      BY <2>2, <3>1 DEF Settled
  <2>6. CASE \/ \E u \in Users, k \in 1 .. MaxFiles : BeginUpload(r, u, k)
             \/ RefuseFile(r) \/ PrepareFails(r) \/ UndoUpload(r)
             \/ \E u \in Users, g \in Files : BeginDelete(r, u, g)
             \/ DeleteFile(r) \/ RemoveFails(r)
    <3>1. /\ request'[r].stage \notin {"writing", "inserting"}
          /\ owner' = owner /\ used' = used
      BY <1>1, <2>6 DEF BeginUpload, RefuseFile, PrepareFails, UndoUpload, BeginDelete,
                        DeleteFile, RemoveFails, Goto, IdleRequest, UploadRequest
    <3> QED
      BY <2>2, <3>1 DEF Settled
  <2>7. CASE Stored(r)
    <3>1. /\ request'[r].stage \notin {"writing", "inserting"}
          /\ owner' = owner /\ used' = used
      <4>1. CASE request[r].left = 1
        BY <1>1, <2>7, <4>1 DEF Stored, Goto, IdleRequest
      <4>2. CASE request[r].left # 1
        BY <1>1, <2>7, <4>2 DEF Stored, Goto, UploadRequest
      <4> QED
        BY <4>1, <4>2
    <3> QED
      BY <2>2, <3>1 DEF Settled
  <2>8. CASE RemoveRow(r)
    <3>1. /\ request'[r].stage \notin {"writing", "inserting"}
          /\ owner' = [owner EXCEPT ![request[r].file] = Nobody] /\ used' = used
      BY <1>1, <2>8 DEF RemoveRow, Goto, IdleRequest
    <3>2. owner'[f] \in {owner[f], Nobody}
      BY <1>1, <3>1
    <3> QED
      BY <2>2, <3>1, <3>2 DEF Settled
  <2> QED
    BY <1>4, <2>3, <2>4, <2>5, <2>6, <2>7, <2>8 DEF Upload, Delete
<1> QED
  BY <1>2, <1>3, <1>4 DEF NextUploads, UploadStep

-----------------------------------------------------------------------------
(* The invariant *)

\* What the row of a job may be while its task is where it is; results come with
\* the end, from what the task has produced.
Progress(j) ==
    /\ task[j].stage = "none" => job[j] = NoJob
    /\ task[j].stage # "none" => job[j].user \in Users
    /\ task[j].stage = "submitted" => job[j].status = "none"
    /\ task[j].stage \in {"committed", "unscheduled", "waiting"} =>
         job[j].status \in {"queued", "gone"}
    /\ task[j].stage \in {"authorizing", "reading", "handling", "persisting",
                          "failing"} => job[j].status \in {"running", "gone"}
    /\ job[j].status # "done" => job[j].refs = {}
    /\ job[j].refs \subseteq task[j].produced
    /\ task[j].produced \subseteq outputs

\* A job's inputs were its owner's.
Inputs(j) ==
    \A f \in job[j].inputs : Settled(f) /\ owner[f] \in {job[j].user, Nobody}

\* The checks that are still ahead of a barred job stop it.
Stopped(j) ==
    j \in barred =>
        /\ task[j].stage \in {"authorizing", "reading", "failing", "ended", "lost"}
        /\ job[j].status # "done"
        /\ task[j].stage = "authorizing" => ~MayRun(j)
        /\ task[j].stage = "reading" => ~Owned(job[j].user, job[j].inputs)

\* Tasks never produce the same output.
Distinct ==
    \A j, k \in Jobs : j # k => task[j].produced \intersect task[k].produced = {}

JobInv ==
    /\ UploadInv
    /\ permitted \subseteq Users /\ outputs \subseteq Outputs /\ barred \subseteq Jobs
    /\ job \in [Jobs -> Job] /\ task \in [Jobs -> Task]
    /\ \A j \in Jobs : Progress(j) /\ Inputs(j) /\ Stopped(j)
    /\ Distinct

\* At first there are no jobs.
LEMMA InitJobInv == Init => JobInv
<1> SUFFICES ASSUME Init PROVE JobInv
  OBVIOUS
<1>1. /\ NoJob \in Job /\ NoJob.status = "none" /\ NoJob.refs = {}
      /\ NoJob.inputs = {}
      /\ NoTask \in Task /\ NoTask.stage = "none" /\ NoTask.produced = {}
  BY DEF NoJob, NoTask, Job, Task
<1>2. /\ job = [j \in Jobs |-> NoJob] /\ task = [j \in Jobs |-> NoTask]
      /\ permitted = Users /\ outputs = {} /\ barred = {}
  BY DEF Init
<1>3. UploadInv
  BY InitUploadInv DEF Init
<1>4. \A j \in Jobs : Progress(j) /\ Inputs(j) /\ Stopped(j)
  BY <1>1, <1>2 DEF Progress, Inputs, Stopped
<1>5. Distinct
  BY <1>1, <1>2 DEF Distinct
<1>6. job \in [Jobs -> Job] /\ task \in [Jobs -> Task]
  BY <1>1, <1>2
<1> QED
  BY <1>2, <1>3, <1>4, <1>5, <1>6 DEF JobInv

-----------------------------------------------------------------------------
(* The steps *)

\* Uploads and deletes may take a job's inputs away but not give them to others.
LEMMA UploadsKeepJobInv ==
    ASSUME JobInv, [NextUploads]_uploadVars, UNCHANGED jobVars
    PROVE  JobInv'
<1>1. UNCHANGED <<permitted, job, outputs, task, barred>>
  BY DEF jobVars
<1>2. UploadInv'
  BY StepKeepsUploadInv DEF JobInv
<1>3. ASSUME NEW j \in Jobs PROVE Inputs(j)'
  <2> SUFFICES ASSUME NEW f \in job[j].inputs
               PROVE  Settled(f)' /\ owner'[f] \in {job[j].user, Nobody}
    BY <1>1 DEF Inputs
  <2>1. Settled(f) /\ owner[f] \in {job[j].user, Nobody}
    BY DEF JobInv, Inputs
  <2>2. f \in Files
    BY DEF JobInv, Job
  <2> QED
    BY <2>1, <2>2, SettledStays DEF JobInv
<1>4. ASSUME NEW j \in Jobs, ~Owned(job[j].user, job[j].inputs),
             job[j].user \in Users
      PROVE  (~Owned(job[j].user, job[j].inputs))'
  <2>1. PICK f \in job[j].inputs : owner[f] # job[j].user
    BY <1>4 DEF Owned
  <2>2. f \in Files /\ Settled(f) /\ owner[f] = Nobody
    BY <2>1 DEF JobInv, Inputs, Job
  <2>3. owner'[f] = Nobody
    BY <2>2, SettledStays DEF JobInv
  <2> QED
    BY <1>1, <1>4, <2>3 DEF Owned
<1>5. ASSUME NEW j \in Jobs PROVE Stopped(j)'
  <2>1. CASE j \notin barred
    BY <1>1, <2>1 DEF Stopped
  <2>2. CASE j \in barred
    <3>1. Stopped(j) /\ job[j].user \in Users
      BY <2>2 DEF JobInv, Stopped, Progress
    <3> QED
      BY <1>1, <1>4, <2>2, <3>1 DEF Stopped, MayRun
  <2> QED
    BY <2>1, <2>2
<1>6. \A j \in Jobs : Progress(j)'
  BY <1>1 DEF JobInv, Progress
<1>7. Distinct'
  BY <1>1 DEF JobInv, Distinct
<1> QED
  BY <1>1, <1>2, <1>3, <1>5, <1>6, <1>7 DEF JobInv

\* A step of one job leaves the others as they are; what it produces is new.
LEMMA JobLocalStep ==
    ASSUME JobInv, NEW j \in Jobs,
           UNCHANGED <<uploadVars, permitted>>,
           job' \in [Jobs -> Job], task' \in [Jobs -> Task],
           outputs \subseteq outputs', outputs' \subseteq Outputs,
           barred' \subseteq Jobs,
           \A k \in Jobs \ {j} : /\ job'[k] = job[k] /\ task'[k] = task[k]
                                 /\ k \in barred' <=> k \in barred,
           task'[j].produced \ task[j].produced \subseteq outputs' \ outputs,
           Progress(j)', Inputs(j)', Stopped(j)'
    PROVE  JobInv'
<1>1. UNCHANGED <<owner, disk, request, used, stored, dropped, stuck>>
  BY DEF uploadVars
<1>2. UploadInv'
  BY StepKeepsUploadInv DEF JobInv
<1>3. ASSUME NEW k \in Jobs \ {j} PROVE Progress(k)' /\ Inputs(k)' /\ Stopped(k)'
  BY <1>1 DEF JobInv, Progress, Inputs, Stopped, Settled, MayRun, Owned
<1>4. ASSUME NEW k \in Jobs \ {j}
      PROVE  task'[j].produced \intersect task'[k].produced = {}
  <2>1. /\ task[j].produced \intersect task[k].produced = {}
        /\ task[k].produced \subseteq outputs
    BY DEF JobInv, Distinct, Progress
  <2> QED
    BY <2>1
<1>5. Distinct'
  <2> SUFFICES ASSUME NEW i \in Jobs, NEW k \in Jobs, i # k
               PROVE  task'[i].produced \intersect task'[k].produced = {}
    BY DEF Distinct
  <2>1. CASE i # j /\ k # j
    BY <2>1 DEF JobInv, Distinct
  <2>2. CASE i = j \/ k = j
    BY <1>4, <2>2
  <2> QED
    BY <2>1, <2>2
<1> QED
  BY <1>2, <1>3, <1>5 DEF JobInv

\* What the types say of a job and its task.
LEMMA AtJob ==
    ASSUME JobInv, NEW j \in Jobs
    PROVE  /\ job[j] \in Job /\ task[j] \in Task /\ NoJob \in Job
           /\ NoJob.status = "none" /\ NoJob.refs = {}
           /\ job \in [Jobs -> Job] /\ task \in [Jobs -> Task]
           /\ outputs \subseteq Outputs /\ barred \subseteq Jobs
           /\ permitted \subseteq Users
           /\ Progress(j) /\ Inputs(j) /\ Stopped(j) /\ UploadInv
BY DEF JobInv, NoJob, Job

\* A step of the task alone.
LEMMA TaskStep ==
    ASSUME JobInv, NEW j \in Jobs, NEW t \in Task,
           task' = [task EXCEPT ![j] = t],
           UNCHANGED <<uploadVars, permitted, job, outputs, barred>>,
           t.produced = task[j].produced,
           t.stage # "none", job[j].user \in Users,
           t.stage = "submitted" => job[j].status = "none",
           t.stage \in {"committed", "unscheduled", "waiting"} =>
             job[j].status \in {"queued", "gone"},
           t.stage \in {"authorizing", "reading", "handling", "persisting",
                       "failing"} => job[j].status \in {"running", "gone"},
           j \in barred =>
             \/ t.stage \in {"failing", "ended", "lost"}
             \/ t.stage = "reading" /\ ~Owned(job[j].user, job[j].inputs)
    PROVE  JobInv'
<1>1. /\ task' \in [Jobs -> Task] /\ task'[j] = t
      /\ \A k \in Jobs \ {j} : task'[k] = task[k]
  BY AtJob
<1>2. UNCHANGED <<owner, disk, request, used, stored, dropped, stuck>>
  BY DEF uploadVars
<1>3. Progress(j)'
  BY <1>1, AtJob DEF Progress
<1>4. Inputs(j)'
  BY <1>2, AtJob DEF Inputs, Settled
<1>5. Stopped(j)'
  BY <1>1, <1>2, AtJob DEF Stopped, Owned, MayRun
<1> QED
  BY <1>1, <1>3, <1>4, <1>5, AtJob, JobLocalStep

\* create_job: the inputs are the submitter's when the job is accepted.
LEMMA SubmitKeepsJobInv ==
    ASSUME JobInv, NEW j \in Jobs, Submit(j) \/ Schedule(j), UNCHANGED uploadVars
    PROVE  JobInv'
<1>1. UNCHANGED <<owner, disk, request, used, stored, dropped, stuck>>
  BY DEF uploadVars
<1>2. ASSUME NEW u \in Users, NEW fs \in InputLists, NEW db \in BOOLEAN,
             SubmitJob(j, u, fs, db)
      PROVE  JobInv'
  <2> DEFINE row == [NoJob EXCEPT !.user = u, !.inputs = fs, !.db = db]
             t == [task[j] EXCEPT !.stage = "submitted"]
  <2>1. /\ task[j].stage = "none" /\ u \in permitted /\ Owned(u, fs)
        /\ job' = [job EXCEPT ![j] = row] /\ task' = [task EXCEPT ![j] = t]
        /\ UNCHANGED <<permitted, outputs, barred>>
    BY <1>2 DEF SubmitJob, Doing, Do
  <2>2. /\ row \in Job /\ row.status = "none" /\ row.refs = {} /\ row.user = u
        /\ row.inputs = fs
    BY DEF NoJob, Job
  <2>3. /\ t \in Task /\ t.stage = "submitted" /\ t.produced = task[j].produced
    BY AtJob DEF Task
  <2> HIDE DEF row, t
  <2>4. /\ job' \in [Jobs -> Job] /\ task' \in [Jobs -> Task]
        /\ job'[j] = row /\ task'[j] = t
        /\ \A k \in Jobs \ {j} : job'[k] = job[k] /\ task'[k] = task[k]
    BY <2>1, <2>2, <2>3, AtJob
  <2>5. Progress(j)'
    BY <2>1, <2>2, <2>3, <2>4, AtJob DEF Progress
  <2>6. Inputs(j)'
    <3>1. \A f \in fs : f \in Files /\ owner[f] = u /\ owner[f] # Nobody
      BY <2>1 DEF Owned
    <3>2. \A f \in fs : Settled(f)
      BY <3>1, AtJob, OwnedIsSettled
    <3> QED
      BY <1>1, <2>2, <2>4, <3>1, <3>2 DEF Inputs, Settled
  <2>7. Stopped(j)'
    BY <2>1, AtJob DEF Stopped
  <2> QED
    BY <2>1, <2>3, <2>4, <2>5, <2>6, <2>7, AtJob, JobLocalStep
<1>3. CASE CreateJob(j)
  <2> DEFINE row == [job[j] EXCEPT !.status = "queued"]
             t == [task[j] EXCEPT !.stage = "committed"]
  <2>1. /\ task[j].stage = "submitted"
        /\ job' = [job EXCEPT ![j] = row] /\ task' = [task EXCEPT ![j] = t]
        /\ UNCHANGED <<permitted, outputs, barred>>
    BY <1>3 DEF CreateJob, Doing, Do
  <2>2. /\ row \in Job /\ row.status = "queued" /\ row.refs = job[j].refs
        /\ row.user = job[j].user /\ row.inputs = job[j].inputs
    BY AtJob DEF Job
  <2>3. /\ t \in Task /\ t.stage = "committed" /\ t.produced = task[j].produced
    BY AtJob DEF Task
  <2> HIDE DEF row, t
  <2>4. /\ job' \in [Jobs -> Job] /\ task' \in [Jobs -> Task]
        /\ job'[j] = row /\ task'[j] = t
        /\ \A k \in Jobs \ {j} : job'[k] = job[k] /\ task'[k] = task[k]
    BY <2>1, <2>2, <2>3, AtJob
  <2>5. Progress(j)'
    BY <2>1, <2>2, <2>3, <2>4, AtJob DEF Progress
  <2>6. Inputs(j)'
    BY <1>1, <2>2, <2>4, AtJob DEF Inputs, Settled
  <2>7. Stopped(j)'
    BY <2>1, AtJob DEF Stopped
  <2> QED
    BY <2>1, <2>3, <2>4, <2>5, <2>6, <2>7, AtJob, JobLocalStep
<1>4. CASE SubmitFails(j)
  <2> DEFINE t == [task[j] EXCEPT !.stage = "ended"]
  <2>1. /\ task[j].stage = "submitted" /\ task' = [task EXCEPT ![j] = t]
        /\ UNCHANGED <<permitted, job, outputs, barred>>
    BY <1>4 DEF SubmitFails, Doing, Do
  <2>2. t \in Task /\ t.stage = "ended" /\ t.produced = task[j].produced
    BY AtJob DEF Task
  <2>3. job[j].user \in Users
    BY <2>1, AtJob DEF Progress
  <2> HIDE DEF t
  <2> QED
    BY <2>1, <2>2, <2>3, TaskStep
<1>5. CASE Schedule(j)
  <2>1. PICK s \in {"waiting", "unscheduled"} :
          task' = [task EXCEPT ![j] = [task[j] EXCEPT !.stage = s]]
    BY <1>5 DEF Schedule, ScheduleJob, RefreshFails, Do
  <2>2. /\ task[j].stage = "committed"
        /\ UNCHANGED <<permitted, job, outputs, barred>>
    BY <1>5 DEF Schedule, ScheduleJob, RefreshFails, Doing
  <2> DEFINE t == [task[j] EXCEPT !.stage = s]
  <2>3. /\ t \in Task /\ t.stage = s /\ t.produced = task[j].produced
        /\ task' = [task EXCEPT ![j] = t]
    BY <2>1, AtJob DEF Task
  <2>4. /\ job[j].user \in Users /\ job[j].status \in {"queued", "gone"}
        /\ j \notin barred
    BY <2>2, AtJob DEF Progress, Stopped
  <2> HIDE DEF t
  <2> QED
    BY <2>2, <2>3, <2>4, TaskStep
<1> QED
  BY <1>2, <1>3, <1>4, <1>5 DEF Submit

\* The task starts: a job that may not run now is barred.
LEMMA StartKeepsJobInv ==
    ASSUME JobInv, NEW j \in Jobs, StartJob(j), UNCHANGED uploadVars
    PROVE  JobInv'
<1>1. UNCHANGED <<owner, disk, request, used, stored, dropped, stuck>>
  BY DEF uploadVars
<1>2. task[j].stage = "waiting" /\ job[j].user \in Users /\ j \notin barred
  BY AtJob DEF StartJob, Doing, Progress, Stopped
<1>3. CASE job[j].status = "gone"
  <2> DEFINE t == [task[j] EXCEPT !.stage = "ended"]
  <2>1. /\ task' = [task EXCEPT ![j] = t]
        /\ UNCHANGED <<permitted, job, outputs, barred>>
    BY <1>3 DEF StartJob, Do
  <2>2. t \in Task /\ t.stage = "ended" /\ t.produced = task[j].produced
    BY AtJob DEF Task
  <2> HIDE DEF t
  <2> QED
    BY <1>2, <2>1, <2>2, TaskStep
<1>4. CASE job[j].status # "gone"
  <2> DEFINE row == [job[j] EXCEPT !.status = "running"]
             t == [task[j] EXCEPT !.stage = "authorizing"]
  <2>1. /\ job' = [job EXCEPT ![j] = row] /\ task' = [task EXCEPT ![j] = t]
        /\ barred' = IF MayRun(j) THEN barred ELSE barred \union {j}
        /\ UNCHANGED <<permitted, outputs>>
    BY <1>4 DEF StartJob, Do
  <2>2. /\ row \in Job /\ row.status = "running" /\ row.refs = job[j].refs
        /\ row.user = job[j].user /\ row.inputs = job[j].inputs
    BY AtJob DEF Job
  <2>3. /\ t \in Task /\ t.stage = "authorizing" /\ t.produced = task[j].produced
    BY AtJob DEF Task
  <2> HIDE DEF row, t
  <2>4. /\ job' \in [Jobs -> Job] /\ task' \in [Jobs -> Task]
        /\ job'[j] = row /\ task'[j] = t
        /\ \A k \in Jobs \ {j} : job'[k] = job[k] /\ task'[k] = task[k]
    BY <2>1, <2>2, <2>3, AtJob
  <2>5. Progress(j)'
    BY <1>2, <2>1, <2>2, <2>3, <2>4, AtJob DEF Progress
  <2>6. Inputs(j)'
    BY <1>1, <2>2, <2>4, AtJob DEF Inputs, Settled
  <2>7. Stopped(j)'
    BY <1>1, <1>2, <2>1, <2>2, <2>3, <2>4 DEF Stopped, MayRun, Owned
  <2> QED
    BY <2>1, <2>3, <2>4, <2>5, <2>6, <2>7, AtJob, JobLocalStep
<1> QED
  BY <1>3, <1>4

\* The steps of a task that touch neither row nor outputs; the two checks stop a
\* barred job.
LEMMA ChecksKeepJobInv ==
    ASSUME JobInv, NEW j \in Jobs, UNCHANGED uploadVars,
           \/ StartFails(j) \/ AuthorizeJob(j) \/ ReadInputs(j)
           \/ \E n \in 0 .. MaxOutputs : Handle(j, n)
           \/ TaskRaises(j) \/ RecordFails(j)
    PROVE  JobInv'
<1>1. /\ task[j] \in Task /\ UNCHANGED <<permitted, job, outputs, barred>>
      /\ Progress(j) /\ Stopped(j)
  BY AtJob DEF StartFails, AuthorizeJob, ReadInputs, Handle, TaskRaises, RecordFails
<1>2. job[j].user \in Users
  BY <1>1 DEF StartFails, AuthorizeJob, ReadInputs, Handle, TaskRaises,
              RecordFails, Doing, Progress
<1>3. CASE StartFails(j) \/ RecordFails(j)
  <2> DEFINE t == [task[j] EXCEPT !.stage = "lost"]
  <2>1. task' = [task EXCEPT ![j] = t]
    BY <1>3 DEF StartFails, RecordFails, Do
  <2>2. t \in Task /\ t.stage = "lost" /\ t.produced = task[j].produced
    BY <1>1 DEF Task
  <2> HIDE DEF t
  <2> QED
    BY <1>1, <1>2, <2>1, <2>2, TaskStep
<1>4. CASE TaskRaises(j)
  <2> DEFINE t == [task[j] EXCEPT !.stage = "failing"]
  <2>1. /\ task' = [task EXCEPT ![j] = t]
        /\ task[j].stage \in {"authorizing", "reading", "handling", "persisting"}
    BY <1>4 DEF TaskRaises, Do, Doing
  <2>2. t \in Task /\ t.stage = "failing" /\ t.produced = task[j].produced
    BY <1>1 DEF Task
  <2>3. job[j].status \in {"running", "gone"}
    BY <1>1, <2>1 DEF Progress
  <2> HIDE DEF t
  <2> QED
    BY <1>1, <1>2, <2>1, <2>2, <2>3, TaskStep
<1>5. CASE AuthorizeJob(j)
  <2>1. PICK s \in {"reading", "failing"} :
          /\ task' = [task EXCEPT ![j] = [task[j] EXCEPT !.stage = s]]
          /\ s = "reading" => job[j].user \in permitted
    BY <1>5 DEF AuthorizeJob, Do
  <2> DEFINE t == [task[j] EXCEPT !.stage = s]
  <2>2. t \in Task /\ t.stage = s /\ t.produced = task[j].produced
    BY <1>1 DEF Task
  <2>3. job[j].status \in {"running", "gone"} /\ task[j].stage = "authorizing"
    BY <1>1, <1>5 DEF AuthorizeJob, Doing, Progress
  <2>4. j \in barred /\ s = "reading" => ~Owned(job[j].user, job[j].inputs)
    BY <1>1, <2>1, <2>3 DEF Stopped, MayRun
  <2>5. task' = [task EXCEPT ![j] = t]
    BY <2>1
  <2> HIDE DEF t
  <2> QED
    BY <1>1, <1>2, <2>1, <2>2, <2>3, <2>4, <2>5, TaskStep
<1>6. CASE ReadInputs(j)
  <2>1. PICK s \in {"handling", "failing"} :
          /\ task' = [task EXCEPT ![j] = [task[j] EXCEPT !.stage = s]]
          /\ s = "handling" => Owned(job[j].user, job[j].inputs)
    BY <1>6 DEF ReadInputs, Do
  <2> DEFINE t == [task[j] EXCEPT !.stage = s]
  <2>2. t \in Task /\ t.stage = s /\ t.produced = task[j].produced
    BY <1>1 DEF Task
  <2>3. job[j].status \in {"running", "gone"} /\ task[j].stage = "reading"
    BY <1>1, <1>6 DEF ReadInputs, Doing, Progress
  <2>4. j \in barred => s = "failing"
    BY <1>1, <2>1, <2>3 DEF Stopped
  <2>5. task' = [task EXCEPT ![j] = t]
    BY <2>1
  <2> HIDE DEF t
  <2> QED
    BY <1>1, <1>2, <2>1, <2>2, <2>3, <2>4, <2>5, TaskStep
<1>7. ASSUME NEW n \in 0 .. MaxOutputs, Handle(j, n) PROVE JobInv'
  <2> DEFINE t == [task[j] EXCEPT !.stage = "persisting", !.todo = n]
  <2>1. task' = [task EXCEPT ![j] = t] /\ task[j].stage = "handling"
    <3>1. task \in [Jobs -> Task] /\ task[j].stage = "handling"
      BY <1>7, AtJob DEF Handle, Doing
    <3>2. task' = [task EXCEPT ![j].stage = "persisting", ![j].todo = n]
      BY <1>7 DEF Handle
    <3> QED
      BY <3>1, <3>2 DEF Task
  <2>2. t \in Task /\ t.stage = "persisting" /\ t.produced = task[j].produced
    BY <1>1 DEF Task
  <2>3. job[j].status \in {"running", "gone"} /\ j \notin barred
    BY <1>1, <2>1 DEF Progress, Stopped
  <2> HIDE DEF t
  <2> QED
    BY <1>1, <1>2, <2>1, <2>2, <2>3, TaskStep
<1> QED
  BY <1>3, <1>4, <1>5, <1>6, <1>7

\* An output that is copied bears a name no other task has produced.
LEMMA PersistKeepsJobInv ==
    ASSUME JobInv, NEW j \in Jobs, PersistOutput(j), UNCHANGED uploadVars
    PROVE  JobInv'
<1>1. UNCHANGED <<owner, disk, request, used, stored, dropped, stuck>>
  BY DEF uploadVars
<1>2. /\ task[j].stage = "persisting" /\ task[j].todo > 0
      /\ task[j].todo - 1 \in 0 .. MaxOutputs /\ j \notin barred
      /\ UNCHANGED <<permitted, job, barred>>
  BY AtJob DEF PersistOutput, Doing, Task, Stopped
<1>3. PICK new \in SUBSET (Outputs \ outputs) :
        /\ outputs' = outputs \union new
        /\ task' = [task EXCEPT
                      ![j] = [task[j] EXCEPT !.todo = task[j].todo - 1,
                                             !.produced = task[j].produced \union new]]
  <2>1. task \in [Jobs -> Task]
    BY AtJob
  <2>2. CASE \E o \in Outputs \ outputs :
               /\ outputs' = outputs \union {o}
               /\ task' = [task EXCEPT ![j].todo = @ - 1,
                                       ![j].produced = @ \union {o}]
    <3>1. PICK o \in Outputs \ outputs :
            /\ outputs' = outputs \union {o}
            /\ task' = [task EXCEPT ![j].todo = @ - 1,
                                    ![j].produced = @ \union {o}]
      BY <2>2
    <3>2. task' = [task EXCEPT
                     ![j] = [task[j] EXCEPT !.todo = task[j].todo - 1,
                                            !.produced = task[j].produced \union {o}]]
      BY <2>1, <3>1 DEF Task
    <3> QED
      BY <3>1, <3>2
  <2>3. CASE task' = [task EXCEPT ![j].todo = @ - 1] /\ UNCHANGED outputs
    <3>1. task' = [task EXCEPT
                     ![j] = [task[j] EXCEPT !.todo = task[j].todo - 1,
                                            !.produced = task[j].produced \union {}]]
      <4>1. task[j].produced \union {} = task[j].produced
        OBVIOUS
      <4>2. [task[j] EXCEPT !.todo = task[j].todo - 1,
                            !.produced = task[j].produced]
              = [task[j] EXCEPT !.todo = task[j].todo - 1]
        BY AtJob DEF Task
      <4> QED
        BY <2>3, <4>1, <4>2
    <3> QED
      BY <2>3, <3>1
  <2> QED
    BY <2>2, <2>3 DEF PersistOutput
<1> DEFINE t == [task[j] EXCEPT !.todo = task[j].todo - 1,
                                !.produced = task[j].produced \union new]
<1>4. /\ t \in Task /\ t.stage = "persisting"
      /\ t.produced = task[j].produced \union new
  BY <1>2, AtJob DEF Task
<1>5. task' = [task EXCEPT ![j] = t]
  BY <1>3
<1> HIDE DEF t
<1>6. /\ task' \in [Jobs -> Task] /\ task'[j] = t
      /\ \A k \in Jobs \ {j} : task'[k] = task[k]
  BY <1>4, <1>5, AtJob
<1>7. Progress(j)'
  BY <1>2, <1>3, <1>4, <1>6, AtJob DEF Progress
<1>8. Inputs(j)'
  BY <1>1, <1>2, AtJob DEF Inputs, Settled
<1>9. Stopped(j)'
  BY <1>2 DEF Stopped
<1>10. /\ outputs \subseteq outputs' /\ outputs' \subseteq Outputs
       /\ task'[j].produced \ task[j].produced \subseteq outputs' \ outputs
  BY <1>3, <1>4, <1>6, AtJob
<1> QED
  BY <1>2, <1>6, <1>7, <1>8, <1>9, <1>10, AtJob, JobLocalStep

\* The task ends with the commit of its result or of its failure, which finds the
\* row or does not.
LEMMA EndKeepsJobInv ==
    ASSUME JobInv, NEW j \in Jobs, PublishJob(j) \/ RecordFailure(j),
           UNCHANGED uploadVars
    PROVE  JobInv'
<1>1. UNCHANGED <<owner, disk, request, used, stored, dropped, stuck>>
  BY DEF uploadVars
<1> DEFINE t == [task[j] EXCEPT !.stage = "ended"]
<1>2. /\ task' = [task EXCEPT ![j] = t]
      /\ task[j].stage \in {"persisting", "failing"}
      /\ task[j].stage = "persisting" => j \notin barred
      /\ job[j].status \in {"running", "gone"} /\ job[j].user \in Users
      /\ job[j].refs = {} /\ task[j].produced \subseteq outputs
      /\ outputs \subseteq Outputs
      /\ UNCHANGED <<permitted, outputs, barred>>
  BY AtJob DEF PublishJob, RecordFailure, Doing, Do, Progress, Stopped
<1>3. t \in Task /\ t.stage = "ended" /\ t.produced = task[j].produced
  BY AtJob DEF Task
<1> HIDE DEF t
<1>4. CASE job[j].status = "gone"
  <2>1. UNCHANGED job
    BY <1>4 DEF PublishJob, RecordFailure, Update
  <2> QED
    BY <1>2, <1>3, <2>1, TaskStep
<1>5. CASE job[j].status # "gone"
  <2>1. PICK row \in Job :
          /\ job' = [job EXCEPT ![j] = row]
          /\ row.user = job[j].user /\ row.inputs = job[j].inputs
          /\ \/ row.status = "done" /\ row.refs = task[j].produced
                /\ j \notin barred
             \/ row.status = "failed" /\ row.refs = {}
    <3>1. CASE PublishJob(j)
      <4> DEFINE row == [job[j] EXCEPT !.status = "done", !.refs = task[j].produced]
      <4>1. job' = [job EXCEPT ![j] = row] /\ j \notin barred
        BY <1>2, <1>5, <3>1 DEF PublishJob, Update, Doing
      <4>2. job[j] \in Job /\ task[j].produced \in SUBSET Outputs
        BY <1>2, AtJob
      <4>3. /\ row \in Job /\ row.user = job[j].user /\ row.inputs = job[j].inputs
            /\ row.status = "done" /\ row.refs = task[j].produced
        BY <4>2 DEF Job
      <4> QED
        BY <4>1, <4>3
    <3>2. CASE RecordFailure(j)
      <4> DEFINE row == [job[j] EXCEPT !.status = "failed"]
      <4>1. job' = [job EXCEPT ![j] = row]
        BY <1>5, <3>2 DEF RecordFailure, Update
      <4>2. /\ row \in Job /\ row.user = job[j].user /\ row.inputs = job[j].inputs
            /\ row.status = "failed" /\ row.refs = {}
        BY <1>2, AtJob DEF Job
      <4> QED
        BY <4>1, <4>2
    <3> QED
      BY <3>1, <3>2
  <2>2. /\ job' \in [Jobs -> Job] /\ task' \in [Jobs -> Task]
        /\ job'[j] = row /\ task'[j] = t
        /\ \A k \in Jobs \ {j} : job'[k] = job[k] /\ task'[k] = task[k]
    BY <1>2, <1>3, <2>1, AtJob
  <2>3. Progress(j)'
    BY <1>2, <1>3, <2>1, <2>2 DEF Progress
  <2>4. Inputs(j)'
    BY <1>1, <2>1, <2>2, AtJob DEF Inputs, Settled
  <2>5. Stopped(j)'
    BY <1>2, <1>3, <2>1, <2>2 DEF Stopped
  <2> QED
    BY <1>2, <1>3, <2>2, <2>3, <2>4, <2>5, AtJob, JobLocalStep
<1> QED
  BY <1>4, <1>5

\* Removing a row by hand takes the results with it.
LEMMA RemoveKeepsJobInv ==
    ASSUME JobInv, NEW j \in Jobs, RemoveJob(j), UNCHANGED uploadVars
    PROVE  JobInv'
<1>1. UNCHANGED <<owner, disk, request, used, stored, dropped, stuck>>
  BY DEF uploadVars
<1> DEFINE row == [job[j] EXCEPT !.status = "gone", !.refs = {}]
<1>2. /\ job[j].status # "none" /\ job' = [job EXCEPT ![j] = row]
      /\ UNCHANGED <<permitted, outputs, task, barred>>
  <2>1. job \in [Jobs -> Job]
    BY AtJob
  <2> QED
    BY <2>1 DEF RemoveJob, Job
<1>3. /\ row \in Job /\ row.status = "gone" /\ row.refs = {}
      /\ row.user = job[j].user /\ row.inputs = job[j].inputs
  BY AtJob DEF Job
<1> HIDE DEF row
<1>4. /\ job' \in [Jobs -> Job] /\ job'[j] = row
      /\ \A k \in Jobs \ {j} : job'[k] = job[k]
  BY <1>2, <1>3, AtJob
<1>5. task[j].stage \notin {"none", "submitted"}
  BY <1>2, AtJob DEF Progress
<1>6. Progress(j)'
  BY <1>2, <1>3, <1>4, <1>5, AtJob DEF Progress
<1>7. Inputs(j)'
  BY <1>1, <1>3, <1>4, AtJob DEF Inputs, Settled
<1>8. Stopped(j)'
  BY <1>1, <1>2, <1>3, <1>4, AtJob DEF Stopped, MayRun, Owned
<1> QED
  BY <1>2, <1>4, <1>6, <1>7, <1>8, AtJob, JobLocalStep

\* A permission that is taken away stops no fewer jobs, and one that is granted
\* lifts the bar from the jobs it lets run.
LEMMA PermitKeepsJobInv ==
    ASSUME JobInv, NEW u \in Users, Permit(u), UNCHANGED uploadVars
    PROVE  JobInv'
<1>1. /\ UNCHANGED <<owner, disk, request, used, stored, dropped, stuck>>
      /\ UNCHANGED <<job, outputs, task>>
      /\ permitted' = IF u \in permitted THEN permitted \ {u}
                      ELSE permitted \union {u}
      /\ barred' = {j \in barred : \/ job[j].user # u
                                   \/ u \in permitted
                                   \/ ~Owned(u, job[j].inputs)}
  BY DEF uploadVars, Permit
<1>2. UploadInv'
  BY StepKeepsUploadInv DEF JobInv
<1>3. ASSUME NEW j \in Jobs PROVE Progress(j)' /\ Inputs(j)' /\ Stopped(j)'
  <2>1. Progress(j)' /\ Inputs(j)'
    BY <1>1, AtJob DEF Progress, Inputs, Settled
  <2>2. j \in barred' => /\ j \in barred
                         /\ ~MayRun(j) => ~MayRun(j)'
    BY <1>1 DEF MayRun, Owned
  <2> QED
    BY <1>1, <2>1, <2>2, AtJob DEF Stopped, Owned
<1>4. Distinct'
  BY <1>1 DEF JobInv, Distinct
<1> QED
  BY <1>1, <1>2, <1>3, <1>4 DEF JobInv

\* A crash loses the tasks and no row.
LEMMA CrashKeepsJobInv ==
    ASSUME JobInv, Crash
    PROVE  JobInv'
<1>1. /\ CrashUploads /\ [NextUploads]_uploadVars
      /\ task' = [j \in Jobs |->
                    IF task[j].stage \in {"none", "unscheduled", "ended"} THEN task[j]
                    ELSE [task[j] EXCEPT !.stage = "lost"]]
      /\ UNCHANGED <<permitted, job, outputs, barred>>
  BY DEF Crash, CrashJobs, NextUploads
<1>2. UploadInv' /\ UNCHANGED owner
  BY <1>1, StepKeepsUploadInv DEF JobInv, CrashUploads
<1>3. ASSUME NEW j \in Jobs
      PROVE  /\ task'[j] \in Task /\ task'[j].produced = task[j].produced
             /\ \/ /\ task'[j] = task[j]
                   /\ task[j].stage \in {"none", "unscheduled", "ended"}
                \/ task'[j].stage = "lost" /\ task[j].stage # "none"
  <2>1. task'[j] = IF task[j].stage \in {"none", "unscheduled", "ended"} THEN task[j]
                   ELSE [task[j] EXCEPT !.stage = "lost"]
    BY <1>1
  <2> QED
    BY <2>1, AtJob DEF Task
<1>4. ASSUME NEW j \in Jobs PROVE Progress(j)' /\ Inputs(j)' /\ Stopped(j)'
  <2>1. Progress(j)'
    BY <1>1, <1>3, AtJob DEF Progress
  <2>2. Inputs(j)'
    <3>1. \A f \in job[j].inputs : f \in Files /\ Settled(f)
      BY AtJob DEF Inputs, Job
    <3>2. \A f \in job[j].inputs : Settled(f)'
      BY <1>1, <3>1, SettledStays DEF JobInv
    <3> QED
      BY <1>1, <1>2, <3>2, AtJob DEF Inputs
  <2>3. Stopped(j)'
    BY <1>1, <1>3, AtJob DEF Stopped
  <2> QED
    BY <2>1, <2>2, <2>3
<1>5. Distinct'
  BY <1>3 DEF JobInv, Distinct
<1>6. task' \in [Jobs -> Task]
  BY <1>1, <1>3
<1> QED
  BY <1>1, <1>2, <1>4, <1>5, <1>6 DEF JobInv

\* Every step keeps the invariant.
LEMMA StepKeepsJobInv == JobInv /\ [Next]_vars => JobInv'
<1> SUFFICES ASSUME JobInv, [Next]_vars PROVE JobInv'
  OBVIOUS
<1>1. CASE UploadStep /\ UNCHANGED jobVars
  BY <1>1, UploadsKeepJobInv DEF NextUploads
<1>2. CASE UNCHANGED vars
  BY <1>2, UploadsKeepJobInv DEF vars
<1>3. ASSUME NEW j \in Jobs, RunJob(j), UNCHANGED uploadVars PROVE JobInv'
  BY <1>3, StartKeepsJobInv, ChecksKeepJobInv, PersistKeepsJobInv,
     EndKeepsJobInv DEF RunJob
<1>4. CASE JobStep /\ UNCHANGED uploadVars
  BY <1>3, <1>4, SubmitKeepsJobInv, RemoveKeepsJobInv, PermitKeepsJobInv
     DEF JobStep
<1> QED
  BY <1>1, <1>2, <1>4, CrashKeepsJobInv DEF Next

-----------------------------------------------------------------------------
(* The theorems *)

\* Jobs, tasks and outputs keep their types, and outputs in the hands of a task
\* or a job are in OUTPUT_DIR.
THEOREM JobsTypeCorrect == Spec => []TypeOK
<1>1. JobInv => TypeOK
  BY DEF JobInv, UploadInv, TypeOK, Progress, Doing
<1> QED
  BY <1>1, InitJobInv, StepKeepsJobInv, PTL DEF Spec

\* A job that may not run when its task starts does not reach the handler, unless
\* it is allowed to before the checks.
THEOREM BarredJobsStop == Spec => []BarredJobsNeverRun
<1>1. JobInv => BarredJobsNeverRun
  BY DEF JobInv, Stopped, BarredJobsNeverRun
<1> QED
  BY <1>1, InitJobInv, StepKeepsJobInv, PTL DEF Spec

\* The inputs of a job are its owner's, or nobody's any more.
THEOREM InputsAreTheOwners == Spec => []JobsUseOwnUploads
<1>1. JobInv => JobsUseOwnUploads
  BY DEF JobInv, Inputs, JobsUseOwnUploads
<1> QED
  BY <1>1, InitJobInv, StepKeepsJobInv, PTL DEF Spec

-----------------------------------------------------------------------------
(* The lifecycle that clients are promised *)

\* The mapped status and results of a step that changes one row only.
LEMMA MappedRow ==
    ASSUME JobInv, NEW j \in Jobs, NEW row \in Job, job' = [job EXCEPT ![j] = row]
    PROVE  /\ [k \in Jobs |-> job[k].status]'
                = [[k \in Jobs |-> job[k].status] EXCEPT ![j] = row.status]
           /\ [k \in Jobs |-> job[k].refs]'
                = [[k \in Jobs |-> job[k].refs] EXCEPT ![j] = row.refs]
           /\ row.refs = job[j].refs => [k \in Jobs |-> job[k].refs]'
                                          = [k \in Jobs |-> job[k].refs]
BY AtJob

\* What clients do not see.
LEMMA HiddenStep ==
    ASSUME UNCHANGED <<job, outputs>>
    PROVE  UNCHANGED Lifecycle!vars
BY DEF Lifecycle!vars

\* Accepting and starting a job, and what becomes of it.
LEMMA SubmitIsLifecycleStep ==
    ASSUME JobInv, NEW j \in Jobs, Submit(j) \/ Schedule(j)
    PROVE  [Lifecycle!Next]_Lifecycle!vars
<1>1. CASE CreateJob(j)
  <2> DEFINE row == [job[j] EXCEPT !.status = "queued"]
  <2>1. /\ job[j].status = "none" /\ UNCHANGED outputs
        /\ job' = [job EXCEPT ![j] = row]
    BY <1>1, AtJob DEF CreateJob, Doing, Progress
  <2>2. row \in Job /\ row.status = "queued" /\ row.refs = job[j].refs
    BY AtJob DEF Job
  <2> HIDE DEF row
  <2>3. Lifecycle!Accept(j)
    BY <2>1, <2>2, MappedRow DEF Lifecycle!Accept, Lifecycle!Becomes
  <2> QED
    BY <2>3 DEF Lifecycle!Next
<1>2. ASSUME NEW u \in Users, NEW fs \in InputLists, NEW db \in BOOLEAN,
             SubmitJob(j, u, fs, db)
      PROVE  UNCHANGED Lifecycle!vars
  <2> DEFINE row == [NoJob EXCEPT !.user = u, !.inputs = fs, !.db = db]
  <2>1. /\ job[j] = NoJob /\ UNCHANGED outputs
        /\ job' = [job EXCEPT ![j] = row]
    BY <1>2, AtJob DEF SubmitJob, Doing, Progress
  <2>2. row \in Job /\ row.status = job[j].status /\ row.refs = job[j].refs
    BY <2>1 DEF Job, NoJob
  <2> HIDE DEF row
  <2> QED
    BY <2>1, <2>2, MappedRow DEF Lifecycle!vars
<1>3. CASE SubmitFails(j) \/ Schedule(j)
  BY <1>3, HiddenStep DEF SubmitFails, Schedule, ScheduleJob, RefreshFails
<1> QED
  BY <1>1, <1>2, <1>3 DEF Submit

LEMMA TaskIsLifecycleStep ==
    ASSUME JobInv, NEW j \in Jobs, RunJob(j) \/ RemoveJob(j)
    PROVE  [Lifecycle!Next]_Lifecycle!vars
<1>1. CASE StartJob(j)
  <2>1. CASE job[j].status = "gone"
    BY <1>1, <2>1, HiddenStep DEF StartJob
  <2>2. CASE job[j].status # "gone"
    <3> DEFINE row == [job[j] EXCEPT !.status = "running"]
    <3>1. /\ job[j].status = "queued" /\ UNCHANGED outputs
          /\ job' = [job EXCEPT ![j] = row]
      BY <1>1, <2>2, AtJob DEF StartJob, Doing, Progress
    <3>2. row \in Job /\ row.status = "running" /\ row.refs = job[j].refs
      BY AtJob DEF Job
    <3> HIDE DEF row
    <3>3. Lifecycle!Run(j)
      BY <3>1, <3>2, MappedRow DEF Lifecycle!Run, Lifecycle!Becomes
    <3> QED
      BY <3>3 DEF Lifecycle!Next
  <2> QED
    BY <2>1, <2>2
<1>2. CASE RecordFailure(j)
  <2>1. CASE job[j].status = "gone"
    BY <1>2, <2>1, HiddenStep DEF RecordFailure, Update
  <2>2. CASE job[j].status # "gone"
    <3> DEFINE row == [job[j] EXCEPT !.status = "failed"]
    <3>1. /\ job[j].status = "running" /\ UNCHANGED outputs
          /\ job' = [job EXCEPT ![j] = row]
      BY <1>2, <2>2, AtJob DEF RecordFailure, Update, Doing, Progress
    <3>2. row \in Job /\ row.status = "failed" /\ row.refs = job[j].refs
      BY AtJob DEF Job
    <3> HIDE DEF row
    <3>3. Lifecycle!Break(j)
      BY <3>1, <3>2, MappedRow DEF Lifecycle!Break, Lifecycle!Becomes
    <3> QED
      BY <3>3 DEF Lifecycle!Next
  <2> QED
    BY <2>1, <2>2
<1>3. CASE PublishJob(j)
  <2>1. CASE job[j].status = "gone"
    BY <1>3, <2>1, HiddenStep DEF PublishJob, Update
  <2>2. CASE job[j].status # "gone"
    <3> DEFINE row == [job[j] EXCEPT !.status = "done", !.refs = task[j].produced]
    <3>1. /\ job[j].status = "running" /\ job[j].refs = {} /\ UNCHANGED outputs
          /\ job' = [job EXCEPT ![j] = row]
      BY <1>3, <2>2, AtJob DEF PublishJob, Update, Doing, Progress
    <3>2. job[j] \in Job /\ task[j].produced \in SUBSET Outputs
          /\ task[j].produced \subseteq outputs
      BY AtJob DEF Progress
    <3>3. row \in Job /\ row.status = "done" /\ row.refs = task[j].produced
      BY <3>2 DEF Job
    <3> HIDE DEF row
    <3>4. \A k \in Jobs : job[k].refs \intersect task[j].produced = {}
      <4> SUFFICES ASSUME NEW k \in Jobs, k # j
                   PROVE  job[k].refs \intersect task[j].produced = {}
        BY <3>1
      <4>1. job[k].refs \subseteq task[k].produced
        BY AtJob DEF Progress
      <4> QED
        BY <4>1 DEF JobInv, Distinct
    <3>5. Lifecycle!Publish(j)
      BY <3>1, <3>2, <3>3, <3>4, MappedRow
         DEF Lifecycle!Publish, Lifecycle!Becomes
    <3> QED
      BY <3>5 DEF Lifecycle!Next
  <2> QED
    BY <2>1, <2>2
<1>4. CASE RemoveJob(j)
  <2> DEFINE row == [job[j] EXCEPT !.status = "gone", !.refs = {}]
  <2>1. job \in [Jobs -> Job]
    BY AtJob
  <2>2. /\ job[j].status \notin {"none", "gone"} /\ UNCHANGED outputs
        /\ job' = [job EXCEPT ![j] = row]
    BY <1>4, <2>1 DEF RemoveJob, Job
  <2>3. row \in Job /\ row.status = "gone" /\ row.refs = {}
    BY AtJob DEF Job
  <2> HIDE DEF row
  <2>4. Lifecycle!Remove(j)
    BY <2>2, <2>3, MappedRow DEF Lifecycle!Remove
  <2> QED
    BY <2>4 DEF Lifecycle!Next
<1>5. CASE PersistOutput(j)
  <2>1. CASE UNCHANGED outputs
    BY <1>5, <2>1, HiddenStep DEF PersistOutput
  <2>2. CASE \E o \in Outputs \ outputs : outputs' = outputs \union {o}
    <3>1. UNCHANGED job
      BY <1>5 DEF PersistOutput
    <3>2. Lifecycle!Produce
      BY <2>2, <3>1 DEF Lifecycle!Produce
    <3> QED
      BY <3>2 DEF Lifecycle!Next
  <2> QED
    BY <1>5, <2>1, <2>2 DEF PersistOutput
<1>6. CASE \/ StartFails(j) \/ AuthorizeJob(j) \/ ReadInputs(j)
           \/ \E n \in 0 .. MaxOutputs : Handle(j, n)
           \/ TaskRaises(j) \/ RecordFails(j)
  BY <1>6, HiddenStep DEF StartFails, AuthorizeJob, ReadInputs, Handle,
                          TaskRaises, RecordFails
<1> QED
  BY <1>1, <1>2, <1>3, <1>4, <1>5, <1>6 DEF RunJob

\* Whatever fails and whoever removes rows or crashes the process: one run, one
\* end, and results that are there and are one job's alone.
THEOREM JobsImplementTheirLifecycle == Spec => ImplementsJobLifecycle
<1>1. Init => Lifecycle!Init
  BY DEF Init, Lifecycle!Init, NoJob
<1>2. JobInv /\ [Next]_vars => [Lifecycle!Next]_Lifecycle!vars
  <2> SUFFICES ASSUME JobInv, [Next]_vars
               PROVE  [Lifecycle!Next]_Lifecycle!vars
    OBVIOUS
  <2>1. CASE \/ UploadStep /\ UNCHANGED jobVars
             \/ Crash \/ UNCHANGED vars
             \/ \E u \in Users : Permit(u)
    BY <2>1, HiddenStep DEF jobVars, vars, Crash, CrashJobs, Permit
  <2> QED
    BY <2>1, SubmitIsLifecycleStep, TaskIsLifecycleStep DEF Next, JobStep
<1> QED
  BY <1>1, <1>2, InitJobInv, StepKeepsJobInv, PTL
     DEF Spec, ImplementsJobLifecycle, Lifecycle!Spec

\* The lifecycle's own promise about results, kept by every step of it.
LEMMA LifecycleKeepsResults ==
    Lifecycle!Spec => []Lifecycle!ResultsAreOneJobs
<1>1. Lifecycle!Init => Lifecycle!ResultsAreOneJobs
  BY DEF Lifecycle!Init, Lifecycle!ResultsAreOneJobs
<1>2. Lifecycle!ResultsAreOneJobs /\ [Lifecycle!Next]_Lifecycle!vars
        => Lifecycle!ResultsAreOneJobs'
  <2> SUFFICES ASSUME Lifecycle!ResultsAreOneJobs, [Lifecycle!Next]_Lifecycle!vars
               PROVE  Lifecycle!ResultsAreOneJobs'
    OBVIOUS
  <2>1. ASSUME NEW j \in Jobs, Lifecycle!Accept(j) \/ Lifecycle!Run(j) \/ Lifecycle!Break(j)
        PROVE  Lifecycle!ResultsAreOneJobs'
    BY <2>1 DEF Lifecycle!Accept, Lifecycle!Run, Lifecycle!Break, Lifecycle!Becomes,
                Lifecycle!ResultsAreOneJobs
  <2>2. ASSUME NEW j \in Jobs, Lifecycle!Publish(j)
        PROVE  Lifecycle!ResultsAreOneJobs'
    <3>1. PICK refs \in SUBSET outputs :
              /\ \A k \in Jobs : job[k].refs \intersect refs = {}
              /\ \A k \in Jobs : job'[k].refs = IF k = j THEN refs ELSE job[k].refs
      BY <2>2 DEF Lifecycle!Publish
    <3>2. /\ outputs' = outputs
          /\ \A k \in Jobs :
               job'[k].status = IF k = j THEN "done" ELSE job[k].status
      BY <2>2 DEF Lifecycle!Publish, Lifecycle!Becomes
    <3> QED
      BY <3>1, <3>2 DEF Lifecycle!ResultsAreOneJobs
  <2>3. ASSUME NEW j \in Jobs, Lifecycle!Remove(j)
        PROVE  Lifecycle!ResultsAreOneJobs'
    BY <2>3 DEF Lifecycle!Remove, Lifecycle!ResultsAreOneJobs
  <2>4. CASE Lifecycle!Produce \/ UNCHANGED Lifecycle!vars
    BY <2>4 DEF Lifecycle!Produce, Lifecycle!vars, Lifecycle!ResultsAreOneJobs
  <2> QED
    BY <2>1, <2>2, <2>3, <2>4 DEF Lifecycle!Next
<1> QED
  BY <1>1, <1>2, PTL DEF Lifecycle!Spec

\* So the name of an output that some job lists belongs to that job alone, which
\* is done: a download may be authorized by looking the name up in the
\* requester's own jobs (main.py, download).
THEOREM ResultsHaveOneJob == Spec => []Lifecycle!ResultsAreOneJobs
BY JobsImplementTheirLifecycle, LifecycleKeepsResults, PTL
   DEF ImplementsJobLifecycle

\* And a job that has ended is neither run again nor given other results.
THEOREM EndedJobsStayEnded == Spec => Lifecycle!EndsAreFinal
<1>1. [Lifecycle!Next]_Lifecycle!vars =>
        \A j \in Jobs : Lifecycle!Ended(j) => Lifecycle!StaysEnded(j)
  BY DEF Lifecycle!Next, Lifecycle!vars, Lifecycle!Accept, Lifecycle!Run,
         Lifecycle!Break, Lifecycle!Publish, Lifecycle!Produce, Lifecycle!Remove,
         Lifecycle!Becomes, Lifecycle!Ended, Lifecycle!StaysEnded
<1> QED
  BY <1>1, JobsImplementTheirLifecycle, PTL
     DEF ImplementsJobLifecycle, Lifecycle!Spec, Lifecycle!EndsAreFinal

-----------------------------------------------------------------------------
(* What is left of the way to the end of a job *)

\* The steps that a task has ahead of it, at most.
StepsLeft(t) ==
    CASE t.stage = "none"        -> MaxOutputs + 9
      [] t.stage = "submitted"   -> MaxOutputs + 8
      [] t.stage = "committed"   -> MaxOutputs + 7
      [] t.stage = "waiting"     -> MaxOutputs + 6
      [] t.stage = "authorizing" -> MaxOutputs + 5
      [] t.stage = "reading"     -> MaxOutputs + 4
      [] t.stage = "handling"    -> MaxOutputs + 3
      [] t.stage = "persisting"  -> t.todo + 2
      [] t.stage = "failing"     -> 1
      [] OTHER                   -> 0

\* A step of j's task, which leaves the other tasks alone, brings it nearer to
\* its end: no check, output or failure is gone through a second time.
LEMMA TaskComesNearer ==
    ASSUME JobInv, NEW j \in Jobs, Submit(j) \/ Schedule(j) \/ RunJob(j)
    PROVE  /\ StepsLeft(task'[j]) < StepsLeft(task[j])
           /\ \A k \in Jobs \ {j} : task'[k] = task[k]
<1> DEFINE Nearer == /\ StepsLeft(task'[j]) < StepsLeft(task[j])
                     /\ \A k \in Jobs \ {j} : task'[k] = task[k]
<1>1. task \in [Jobs -> Task] /\ task[j] \in Task /\ MaxOutputs \in Nat
  BY AtJob
<1>2. /\ task[j].todo \in Nat /\ task[j].todo <= MaxOutputs
  BY <1>1 DEF Task
<1>3. ASSUME NEW s, Do(j, s)
      PROVE  /\ task'[j].stage = s /\ task'[j].todo = task[j].todo
             /\ \A k \in Jobs \ {j} : task'[k] = task[k]
  BY <1>1, <1>3 DEF Do, Task
<1>4. CASE Submit(j) \/ Schedule(j)
  <2>1. \/ Doing(j, "none") /\ Do(j, "submitted")
        \/ Doing(j, "submitted") /\ (Do(j, "committed") \/ Do(j, "ended"))
        \/ Doing(j, "committed") /\ (Do(j, "waiting") \/ Do(j, "unscheduled"))
    BY <1>4 DEF Submit, SubmitJob, CreateJob, SubmitFails, Schedule, ScheduleJob,
                RefreshFails
  <2> QED
    BY <1>1, <1>3, <2>1 DEF Doing, StepsLeft
<1>5. CASE StartJob(j) \/ StartFails(j)
  <2>1. /\ Doing(j, "waiting")
        /\ Do(j, "authorizing") \/ Do(j, "ended") \/ Do(j, "lost")
    BY <1>5 DEF StartJob, StartFails
  <2> QED
    BY <1>1, <1>3, <2>1 DEF Doing, StepsLeft
<1>6. CASE AuthorizeJob(j) \/ ReadInputs(j)
  <2>1. \/ Doing(j, "authorizing") /\ (Do(j, "reading") \/ Do(j, "failing"))
        \/ Doing(j, "reading") /\ (Do(j, "handling") \/ Do(j, "failing"))
    BY <1>6 DEF AuthorizeJob, ReadInputs
  <2> QED
    BY <1>1, <1>3, <2>1 DEF Doing, StepsLeft
<1>7. CASE \E n \in 0 .. MaxOutputs : Handle(j, n)
  <2>1. PICK n \in 0 .. MaxOutputs : Handle(j, n)
    BY <1>7
  <2>2. /\ task[j].stage = "handling"
        /\ task'[j].stage = "persisting" /\ task'[j].todo = n
        /\ \A k \in Jobs \ {j} : task'[k] = task[k]
    BY <1>1, <2>1 DEF Handle, Doing, Task
  <2> QED
    BY <1>1, <2>2 DEF StepsLeft
<1>8. CASE PersistOutput(j)
  <2>1. /\ task[j].stage = "persisting"
        /\ task'[j].stage = "persisting" /\ task'[j].todo = task[j].todo - 1
        /\ \A k \in Jobs \ {j} : task'[k] = task[k]
    BY <1>1, <1>8 DEF PersistOutput, Doing, Task
  <2> QED
    BY <1>2, <2>1 DEF StepsLeft
<1>9. CASE PublishJob(j) \/ TaskRaises(j)
  <2>1. /\ task[j].stage \in {"authorizing", "reading", "handling", "persisting"}
        /\ Do(j, "ended") \/ Do(j, "failing")
    BY <1>9 DEF PublishJob, TaskRaises, Doing
  <2> QED
    BY <1>1, <1>2, <1>3, <2>1 DEF StepsLeft
<1>10. CASE RecordFailure(j) \/ RecordFails(j)
  <2>1. Doing(j, "failing") /\ (Do(j, "ended") \/ Do(j, "lost"))
    BY <1>10 DEF RecordFailure, RecordFails
  <2> QED
    BY <1>3, <2>1 DEF Doing, StepsLeft
<1> QED
  BY <1>4, <1>5, <1>6, <1>7, <1>8, <1>9, <1>10 DEF RunJob

\* Whatever fails and whoever interferes, a task only ever comes nearer to its
\* end, with every step of its own and with every step of others that touches it:
\* what JobsEnd needs besides the fairness of the thread pool.
THEOREM TasksOnlyAdvance ==
    Spec => [][\A j \in Jobs :
                 /\ \/ task'[j] = task[j]
                    \/ StepsLeft(task'[j]) < StepsLeft(task[j])
                 /\ RunJob(j) => StepsLeft(task'[j]) < StepsLeft(task[j])]_vars
<1>1. ASSUME JobInv, Next, NEW j \in Jobs
      PROVE  task'[j] = task[j] \/ StepsLeft(task'[j]) < StepsLeft(task[j])
  <2>1. CASE JobStep
    <3>1. CASE \E k \in Jobs : Submit(k) \/ Schedule(k) \/ RunJob(k)
      BY <1>1, <3>1, TaskComesNearer
    <3>2. CASE \/ \E k \in Jobs : RemoveJob(k)
               \/ \E u \in Users : Permit(u)
      BY <3>2 DEF RemoveJob, Permit
    <3> QED
      BY <2>1, <3>1, <3>2 DEF JobStep
  <2>2. CASE UNCHANGED jobVars
    BY <2>2 DEF jobVars
  <2>3. CASE CrashJobs
    <3>1. task[j] \in Task /\ MaxOutputs \in Nat
      BY <1>1, AtJob
    <3>2. CASE task[j].stage \in {"none", "unscheduled", "ended"}
      BY <2>3, <3>2 DEF CrashJobs
    <3>3. CASE task[j].stage = "lost"
      BY <2>3, <3>1, <3>3 DEF CrashJobs, Task
    <3>4. CASE task[j].stage \notin {"none", "unscheduled", "ended", "lost"}
      <4>1. task'[j].stage = "lost"
        BY <2>3, <3>1, <3>4 DEF CrashJobs, Task
      <4>2. StepsLeft(task'[j]) = 0
        BY <4>1 DEF StepsLeft
      <4>3. StepsLeft(task[j]) > 0
        BY <3>1, <3>4 DEF StepsLeft, Task
      <4> QED
        BY <4>2, <4>3
    <3> QED
      BY <3>2, <3>3, <3>4
  <2> QED
    BY <1>1, <2>1, <2>2, <2>3 DEF Next, Crash
<1>2. JobInv /\ [Next]_vars =>
        [\A j \in Jobs :
           /\ \/ task'[j] = task[j]
              \/ StepsLeft(task'[j]) < StepsLeft(task[j])
           /\ RunJob(j) => StepsLeft(task'[j]) < StepsLeft(task[j])]_vars
  BY <1>1, TaskComesNearer
<1> QED
  BY <1>2, InitJobInv, StepKeepsJobInv, PTL DEF Spec

\* A job that its row calls queued or running has a task that is still to work on
\* it or a request that is about to schedule one, or its task was lost or never
\* scheduled.
Attended(j) ==
    /\ job[j].status = "queued" =>
         task[j].stage \in {"committed", "waiting", "lost", "unscheduled"}
    /\ job[j].status = "running" =>
         task[j].stage \in {"authorizing", "reading", "handling", "persisting",
                            "failing", "lost"}

\* The task's own steps: a task that ends writes the end to the row first.
LEMMA TaskKeepsAttended ==
    ASSUME JobInv, NEW j \in Jobs, Attended(j),
           Submit(j) \/ Schedule(j) \/ RunJob(j)
    PROVE  /\ Attended(j)'
           /\ \A k \in Jobs \ {j} : job'[k] = job[k] /\ task'[k] = task[k]
<1>1. /\ job \in [Jobs -> Job] /\ task \in [Jobs -> Task]
      /\ task[j] \in Task /\ job[j] \in Job /\ Progress(j)
  BY AtJob
<1>2. ASSUME NEW s, Do(j, s) PROVE task'[j].stage = s
  BY <1>1, <1>2 DEF Do, Task
<1>3. \A k \in Jobs \ {j} : job'[k] = job[k] /\ task'[k] = task[k]
  <2>1. \A k \in Jobs \ {j} : task'[k] = task[k]
    BY TaskComesNearer
  <2>2. \A k \in Jobs \ {j} : job'[k] = job[k]
    BY <1>1 DEF Submit, RunJob, SubmitJob, CreateJob, SubmitFails, Schedule,
                ScheduleJob, RefreshFails, StartJob, StartFails, AuthorizeJob, ReadInputs, Handle, PersistOutput,
                PublishJob, TaskRaises, RecordFailure, RecordFails, Update
  <2> QED
    BY <2>1, <2>2
<1> SUFFICES Attended(j)'
  BY <1>3
<1>4. CASE Submit(j)
  <2>1. ASSUME NEW u \in Users, NEW fs \in InputLists, NEW db \in BOOLEAN,
               SubmitJob(j, u, fs, db)
        PROVE  job'[j].status = "none"
    BY <1>1, <2>1 DEF SubmitJob, NoJob
  <2>2. CASE CreateJob(j)
    BY <1>1, <1>2, <2>2 DEF CreateJob, Job, Attended
  <2>3. CASE SubmitFails(j)
    BY <1>1, <2>3 DEF SubmitFails, Doing, Progress, Attended
  <2> QED
    BY <1>4, <2>1, <2>2, <2>3 DEF Submit, Attended
<1>5. CASE Schedule(j)
  <2>1. /\ UNCHANGED job
        /\ job[j].status \in {"queued", "gone"}
        /\ Do(j, "waiting") \/ Do(j, "unscheduled")
    BY <1>1, <1>5 DEF Schedule, ScheduleJob, RefreshFails, Doing, Progress
  <2> QED
    BY <1>2, <2>1 DEF Attended
<1>6. CASE StartJob(j)
  <2>1. CASE job[j].status = "gone"
    BY <1>6, <2>1 DEF StartJob, Attended
  <2>2. CASE job[j].status # "gone"
    <3>1. job'[j].status = "running" /\ Do(j, "authorizing")
      BY <1>1, <1>6, <2>2 DEF StartJob, Job
    <3> QED
      BY <1>2, <3>1 DEF Attended
  <2> QED
    BY <2>1, <2>2
<1>7. CASE StartFails(j) \/ RecordFails(j)
  <2>1. Do(j, "lost") /\ UNCHANGED job
    BY <1>7 DEF StartFails, RecordFails
  <2> QED
    BY <1>2, <2>1 DEF Attended
<1>8. CASE AuthorizeJob(j) \/ ReadInputs(j) \/ TaskRaises(j)
  <2>1. /\ UNCHANGED job
        /\ job[j].status \in {"running", "gone"}
        /\ Do(j, "reading") \/ Do(j, "handling") \/ Do(j, "failing")
    BY <1>1, <1>8 DEF AuthorizeJob, ReadInputs, TaskRaises, Doing, Progress
  <2> QED
    BY <1>2, <2>1 DEF Attended
<1>9. CASE (\E n \in 0 .. MaxOutputs : Handle(j, n)) \/ PersistOutput(j)
  <2>1. /\ UNCHANGED job
        /\ job[j].status \in {"running", "gone"}
        /\ task'[j].stage = "persisting"
    BY <1>1, <1>9 DEF Handle, PersistOutput, Doing, Progress, Task
  <2> QED
    BY <2>1 DEF Attended
<1>10. CASE PublishJob(j)
  <2> DEFINE row == [job[j] EXCEPT !.status = "done", !.refs = task[j].produced]
  <2>1. job'[j].status \in {"done", "gone"}
    <3>1. row.status = "done" /\ Update(j, row)
      BY <1>1, <1>10 DEF PublishJob, Job
    <3>2. job'[j].status \in {row.status, "gone"}
      BY <1>1, <3>1 DEF Update
    <3> QED
      BY <3>1, <3>2
  <2> QED
    BY <2>1 DEF Attended
<1>11. CASE RecordFailure(j)
  <2>1. job'[j].status \in {"failed", "gone"}
    BY <1>1, <1>11 DEF RecordFailure, Update, Job
  <2> QED
    BY <2>1 DEF Attended
<1> QED
  BY <1>3, <1>4, <1>5, <1>6, <1>7, <1>8, <1>9, <1>10,
     <1>11 DEF RunJob

\* No job is left as queued or running by a task that has ended: what a client
\* still waits for is worked on, but for tasks lost to the end of the process or to
\* a commit that failed outside the try (main.py, run_job_background), and for the
\* jobs that create_job committed and could not read back, which never had one.
THEOREM WaitedForJobsAreAttended == Spec => [](\A j \in Jobs : Attended(j))
<1>1. Init => \A j \in Jobs : Attended(j)
  BY DEF Init, NoJob, Attended
<1>2. JobInv /\ (\A j \in Jobs : Attended(j)) /\ [Next]_vars
        => (\A j \in Jobs : Attended(j))'
  <2> SUFFICES ASSUME JobInv, \A j \in Jobs : Attended(j), [Next]_vars,
                      NEW j \in Jobs
               PROVE  Attended(j)'
    OBVIOUS
  <2>1. CASE \E k \in Jobs : Submit(k) \/ Schedule(k) \/ RunJob(k)
    BY <2>1, TaskKeepsAttended DEF Attended
  <2>2. CASE \E k \in Jobs : RemoveJob(k)
    <3>1. PICK k \in Jobs : RemoveJob(k)
      BY <2>2
    <3>2. /\ task' = task
          /\ job'[j].status \in {job[j].status, "gone"}
      BY <3>1, AtJob DEF RemoveJob, Job
    <3> QED
      BY <3>2 DEF Attended
  <2>3. CASE (\E u \in Users : Permit(u)) \/ UNCHANGED jobVars \/ UNCHANGED vars
    BY <2>3 DEF Permit, jobVars, vars, Attended
  <2>4. CASE CrashJobs
    <3>1. task[j] \in Task
      BY AtJob
    <3>2. job' = job /\ (task'[j].stage = "lost" \/ task'[j] = task[j])
      BY <2>4, <3>1 DEF CrashJobs, Task
    <3> QED
      BY <3>2 DEF Attended
  <2> QED
    BY <2>1, <2>2, <2>3, <2>4 DEF Next, JobStep, Crash
<1> QED
  BY <1>1, <1>2, InitJobInv, StepKeepsJobInv, PTL DEF Spec
=============================================================================
