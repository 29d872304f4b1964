# AccessForge Cloud in TLA+

AccessForge Cloud is an internal portal: a FastAPI backend over SQL Server (or
SQLite in development), a TanStack/React client, and a set of document-processing
modules that run as background jobs. This directory holds TLA+ models of the
parts whose correctness depends on the order of things, the TLC configurations
that check them on small instances, and theorems TLAPS has checked for instances
of any size.

Paths below are relative to `src/accessforge-cloud-main/accessforge-cloud-main/`.
`PROJECT.json` maps every definition to the lines it models.

    tlc -workers 2 -config accounts_sessions.cfg MCAccounts.tla
    tlapm AccountsProofs.tla

## 1. The system

| component | state | operations | talks to |
|---|---|---|---|
| Accounts, sessions, roles (`backend/auth.py`, `admin_routes.py`, `rbac/`, `tools/bootstrap_admin.py`) | `users`, `user_roles`, JWTs held by clients | login, register, change password, bootstrap, set status, set roles, approve, create, unlock, reset, reject | every route, through `get_current_user` and `require_permission` |
| Login limiter (`auth.py`) | a dictionary in the process's memory | check, prune, reset | login, change password |
| Uploads and storage (`main.py`, `storage.py`) | `uploads` rows, files in `UPLOAD_DIR` | upload a batch, delete, download | jobs read the files |
| Jobs (`main.py`) | `jobs` rows, tasks in memory, files in `OUTPUT_DIR` | create, run in the background, poll, download | uploads, handlers, module permissions |
| Module handlers (`worker/`) | none that outlives a call | process inputs into output files | called by a job |
| Crew Hours (`backend/statistics/crew_hours/`) | none that outlives a request | fetch flights, context and duties from LEON, attribute, total, export | LEON's GraphQL and OAuth APIs |
| Copilot (`src/components/copilot/`, `backend/copilot/`) | the panel's messages, the request under way, the transport's thread id; Wingman's threads, which are external | open, close, ask, new chat; post, poll, answer | Wingman, Crew Hours |
| Registry projection (`rbac/registry.py`, `tools/sync_registry.py`) | `modules`, `permissions`, role defaults | synchronise at startup | permissions |
| Database tools (`tools/db_bootstrap.py`, `db_adopt.py`, ...) | schema, Alembic version, backups | create, adopt, verify | the database |
| Projects, invitations, notifications, audit log | one row each | create, read, update | - |
| Browser client (`src/lib/`, `src/routes/`, `src/components/app/`) | a token in local storage for all tabs, a query cache and a page per tab | sign in and out, change password, navigate, call, poll | the API |
| Landing page background (`src/components/FlightPathBackground/`) | a WebGL scene over generated flight data | draw | nothing |

Components meet in three places: the database, which every request reads and
writes in a transaction of its own at READ COMMITTED; the file system, which no
transaction spans; and the memory of the one server process, which holds the
background tasks and the login limiter.

### What is hard, and what makes each part correct

*Accounts.* Handlers are synchronous functions in a thread pool. They read rows,
hash a password for a few hundred milliseconds and commit; nothing locks what
they read. Correct means: a password change ends the user's sessions for good,
and no session of somebody who only knew the old password survives it; some
super-admin, and some active one, always remains; only super-admins make
super-admins; closed accounts are opened by administrators only; the failed-login
limit locks; a temporary password has to be changed.

*Uploads.* A file and its row live in two stores. An upload writes the file and
commits the row, a delete removes the file and commits the row's removal, and
every step may fail or be the last before a crash. Correct means: rows never refer
to half-written files, an upload reported as stored keeps its file, and what a
failure leaves behind is known.

*Jobs.* A job is checked when it is submitted and again when its task starts;
uploads, permissions and the row itself change in between, the task may raise
anywhere, and a restart forgets it. Correct means: one run, one end, results
published with the end and downloadable from then on; a job that has lost its
module or its inputs does not run; every queued job that has a task ends.

*Crew Hours.* LEON limits the interval of a query, so a period is asked for in chunks,
with a refresh of the token in the middle. A duty of several legs belongs to the period
of its first leg, but a report sees only a window of the schedule. Correct means: no day
is skipped or asked for twice and the result is that of one unlimited query; the reports
of adjacent periods count every dated leg once; optional data degrade to "unknown",
never to a wrong answer; the request ends.

*Copilot.* A question runs through the browser, the service and Wingman, none of which
waits for the others; aborting the browser's request does not reach the service;
Wingman's thread still holds the previous answer when the next question is posted, and
an aborted question may be posted after the next one. Correct means: one request at a
time may speak, answers stand under their questions, no reply but those of two known
cases is passed off as the reply to another question, a chat keeps its thread, a new
chat starts clean, and the composer never stays disabled.

*Browser client.* Tabs share one token. A request carries the token that was stored
when it was sent, and its answer changes what is stored when it arrives: after a
sign-out, after a password change, after the answers of other tabs. Correct means:
a token known to be dead is not sent again, a dead one is found out, a live one is
kept, and nothing of a user survives the sign-out in a tab's cache.

*The rest.* The limiter's dictionary is shared by the thread pool without a lock.
Several processes may synchronise the registry at once. Adoption of a database can
stop between its backup and its stamp.

## 2. The modules

| module | what it is |
|---|---|
| `Accounts` | accounts, roles, tokens and the requests in flight |
| `SessionRegistry` | abstract: sessions open, and close together and for good |
| `AccountsProofs` | theorems about `Accounts` |
| `AccountsSerialProofs` | theorems about `Accounts` with one worker |
| `Uploads` | upload and delete requests over files and rows |
| `UploadsProofs` | theorems about `Uploads` |
| `JobLifecycle` | abstract: what clients that poll a job may see |
| `Jobs` | extends `Uploads` with submission and execution |
| `JobsProofs` | theorems about `Jobs`, over those about `Uploads` |
| `DutyList` | the chunked fetch and the augmentation index built from it |
| `DutyAttribution` | which report counts which leg: the code's loop as a function of the legs, and what it is meant to do |
| `DutyAttributionProofs` | theorem that the loop does what it is meant to, with the lemmas for it |
| `CrewHoursReport` | extends both with the rest of a report's request |
| `CrewHoursReportProofs` | theorems about `DutyList` and `CrewHoursReport` |
| `CopilotChat` | panel, transport, service and Wingman |
| `CopilotChatProofs` | theorems about `CopilotChat` |
| `ClientSession` | a browser's tabs, with `SessionRegistry` as the server |
| `ClientSessionProofs` | theorems about `ClientSession` |
| `MCAccounts`, `MCUploads`, `MCJobs`, `MCDutyList`, `MCCopilotChat`, `MCClientSession` | values and symmetry for TLC |

The modules meet in two places. `Jobs` is composed with `Uploads` by extension: a
step is one of the uploads, one of the jobs or a crash of both. `ClientSession`
instantiates `SessionRegistry`, the abstract specification that `Accounts` is shown
to implement, as its server: what is checked of the browser rests on what is proved
of the backend and not on its details.

Each property has a mutant, an operator in the component's module headed "Mutant
of ...": the definition with a plausible bug. It is used by no action and shows
that the property can fail.

### Accounts

`account[u]` is the row of the e-mail `u`: its status, its failure count, and two
numbers for `hashed_password` and `password_changed_at`. Each new password is a
fresh number, so equal numbers mean the same password; a stamp is the number of
the password it was written with, and 0 is NULL (a registered or bootstrapped
account has no stamp until its first change). `roles` is the `user_roles` table.
A token carries the stamp its `pwd` claim carries and, as history, the password
its holder had presented (`proof`).

A request goes through stages: `Authorize` is `get_current_user` and the
permission dependency; the handler's own action reads, checks and prepares the
commit; `Commit` writes; `IssueToken` is `issue_user_token`, which for login and
change-password runs after the commit and reads the row again because SQLAlchemy
expires it. `Fail` is any refusal, error or lost response. Requests interleave
between all of these steps. Two facts about SQLAlchemy matter and are modelled:
the UPDATE writes only the columns whose value differs from the one that was read
(`Column`), and an administrator who acts on their own row acts on the copy the
authentication read (`TargetRow`).

`engineer` and `guest` are folded into `viewer`: none has an administrative
permission. Profile fields, module access and the audit row each handler adds to
its own transaction are left out. The permission checks read the same tables as
the handler and happen in the handler's action.

### Uploads

`owner[f]` is the row of the storage name `f`, `disk[f]` its file: none, partial or
whole. An upload request draws a name (`CreateFile`), writes the file (`WriteFile`),
commits the row (`InsertRow`), reads it back (`Stored`) and goes on with the next file
of its batch; `RefuseFile` and `UndoUpload` are the two `except` clauses. `PrepareFails`
is a failure between them (`main.py:289-300`): the file is there, the `try` with its
clean-up has not begun, and the scan or the read of `current_user`, which the commit for
an earlier file of the batch has expired, raises. A delete unlinks (`DeleteFile`, a
failure is only noted) and commits (`RemoveRow`). `Faults` says which failures happen;
`CrashUploads` drops all requests. Storage names are UUIDs: `used` keeps them distinct.

### Jobs

`Jobs` adds the `jobs` table, `OUTPUT_DIR` and one task per job. `create_job` checks
(`SubmitJob`), commits the row (`CreateJob`), and reads it back and adds the task
(`ScheduleJob`); `RefreshFails` is a failure of the second, which leaves a committed row
that no task was scheduled for. The task commits
"running" (outside the `try`), authorizes, reads its inputs, calls the handler,
persists outputs one by one, and commits the result in a new session; an exception
leads to `RecordFailure`. `permitted` stands for what `_module_is_visible`
computes, and changes at any moment; `RemoveJob` is the manual clean-up of rows
that `Update` (the code's `if job is not None`) exists for. `barred` is history:
the jobs that were not allowed to run when they started.

### DutyList, DutyAttribution and CrewHoursReport

`DutyList` is the loop behind the augmentation index: `period` is widened by
`READ_BUFFER_DAYS`; `AnswerChunk` asks for the next interval of at most
`MAX_DUTY_LIST_INTERVAL_DAYS`; `RefuseToken` is the one repetition after a 401 or
403; `QueryFails` is any other error, of a query or of building the index once all
chunks are there, which makes the index unavailable. LEON's duty
rows (`held`) do not change during the fetch. `Lookup` is the value on which all rows
of a crew member and sector agree.

`DutyAttribution` has no state. A leg is a crew, a departure and an arrival, in units
of which `DayLength` make a day; it is known by its place in LEON's schedule, since two
legs may be the same in everything else. `Fetched` is the window LEON is asked for.
`DutyStarts` is the code's loop over the ordered legs of a crew, as a recursive function
that gives each leg the first leg of the duty the loop puts it in (`duty[0]`): a leg
goes on with the duty of the leg visited before it (`Previous`) or begins another.
`SelectRows` takes the legs whose first leg departs in the period, the rows of no duty
that depart in it (`NoCrew`), and every row without a date (`NoDate`,
`domain.py:149-155`), whose `off` is then only the day for which LEON sends it. Beside it
stands the reference: `Continues` says when a leg continues a duty, `DutyDay` on which day
its duty begins, over the whole schedule, with no window and no loop, and `Due` what a
report is to count.

`CrewHoursReport` is `get_crew_hours_report`: the rows (`FetchRows`, which counts with
`Report`), then the index (`FetchIndex`, the actions of `DutyList`), then the crew
context in weeks (`AnswerContext`). `RejectFunction` gives up the optional column from
the chunk on that LEON answered with an error; `tries` counts the attempts of the row
and context queries; `ContextFails` may come from a query or from building the context at
the end. A failure of the rows fails the request, a failure of the others
leaves "unknown". `trouble` says whether LEON may refuse or fail during this report.

### CopilotChat

`open`, `busy`, `messages` and `current` are the state of `RedSeaCopilot.tsx` (`current`
is the request whose controller `abortRef` holds), `threadId` is the closure variable of
`transport.ts`, `ask[k]` the `k`-th question on its way through the service (`sent`,
`polling`, `replied`, `handled`), `row[k]` Wingman's reply to it. `ask[k].place` is the
place of a question in its Wingman thread: `PostQuestion` gives it when the service
posts, and two requests are two threads of the service, so that a question whose request
was aborted may get a later place than the one asked after it. `Poll` is the last round
of the service's loop: a permission first, then the newest reply of the thread if it has
settled, then the deadline; rounds before it change nothing, and the first comes at
once, before any sleep. The newest reply is the one to the question with the last place
(`Latest`). `Handle` is what the transport and the panel do after their awaits, and it
is one step because nothing else runs between them. Wingman takes up a thread's
questions in the order of their places, some time later (`Reach`). `Unmount` is the loss
of the panel with the grant, `LeaveLayout` the loss of the transport with the sign-out.
What an answer says is left out; of what it is made of, only which question Wingman was
replying to.

### ClientSession

`stored` is `access_token` in local storage, `me[t]` and `page[t]` the cache and the
page of tab `t`, `req[s]` the requests under way with the token each was sent with.
The server's actions open and close sessions by `SessionRegistry`; `RevokeElsewhere` is
a reset by an administrator or a change in another browser. `IssueReplacement` is
apart from the commit of a change of password, as in `Accounts`. `Receive` is the
arrival of an answer: `Keeps` is the combination of `ApiClient`, which clears the
token on any 401, and of `useAuth` and the route guard, which clear it on any error.
`Lose` is a network failure, before or after the server has acted. `before` is
history: the user was asked for before the tab signed out.

## 3. The runs

| run | question | bounds |
|---|---|---|
| `accounts_sessions` | Do stamps change exactly with passwords and end sessions for good, whatever interleaves? Also checks the proofs' invariant. | 2 users, 2 requests, 3 passwords, the session endpoints |
| `accounts_serial` | Served one at a time, does any sequence of the twelve endpoints lose the last super-admin or the last active one, let an admin make one, open a closed account, forget the failed-login limit or a forced change, or keep a session over a change? | 2 users, 3 passwords, limit 2, 3 failures |
| `uploads_faults` | Do rows, files and stored uploads stay together under every failure and crash, and what is left behind? | 3 files, batches of 2, 2 requests |
| `jobs_lifecycle` | Does every job keep to `JobLifecycle` under every failure? | 2 jobs, 2 outputs each, 1 upload |
| `jobs_guards` | Can a job run that may not, or on another's upload? Does every queued job end? | 2 users, 1 upload, 1 job, 2 outputs |
| `duty_list` | Is asking in chunks the same as asking once? Do the reports of adjacent periods count each dated leg once, by the first leg of its duty, and which rows do both count? Is the context complete whatever LEON refuses? Does the request end? | periods in four days, index chunks of 2, context chunks of 3, buffer 2, days of 2 units; any 2 duty rows, or any 4 legs |
| `copilot_chat` | Can two requests speak, an answer stand under the wrong question, a chat change its thread, the composer stay disabled? When is another question's reply returned? | 3 questions, 1 new chat |
| `client_session` | Can a dead token be sent again or stay unnoticed, a live one be lost, or a signed-out user come back? | 2 tabs, 2 requests, 2 tokens, 1 lost request |

Four more runs (`race_reset_login`, `race_last_super_role`, `unlock_temporary`,
`copilot_new_chat`) each end in a counterexample and belong to the findings of
section 5.

*Why the bounds are enough.* The races on accounts need two requests and two
users: the one who acts and the one acted upon. Three passwords let a user get
one, change it and have it reset. A limit of two separates "one failure" from "the
failure that locks", and a count of three lies beyond it. Two requests with batches
of two, over three names, let an upload fail after an earlier file of the batch was
stored while another request deletes that file. Two jobs with two outputs each
compete for names; what stops one job depends on its owner, its inputs and its
module, so one job and two users are enough for the guards. In `duty_list` the
buffered periods are five to eight days long, so they are cut into three or four chunks
of the index and two or three of the context, the last of them short or full. Its
initial states are of two kinds, to keep the product small: any two duty rows around
any period, with LEON refusing and failing at will; or any schedule of up to four legs
of one crew, equal ones included, or two of one and one of another, of none or without a
date, with LEON answering and a report of the first day, of the two in the middle or of
the last day: the second and third find duties begun before the period, and before the
window. With
two units to a day and a break of less than two, legs within a day, across midnight and
exactly at the limit all occur, and four connected legs outlast the window of a
one-day period, which is when the buffer matters. In `copilot_chat` three questions are
an answer on its way, the next question that meets it, and one that inherits what it
left, or an answer, an aborted question and the next one, which
overtakes it; one new chat
separates two chats. In `client_session` two tabs and two requests
are enough for an answer to arrive after a sign-out, a replacement or another answer;
two tokens are one that dies and its replacement. One user suffices there, since the
properties are about tokens of one browser and the second token plays the newcomer's.
Symmetry is used only in runs without liveness and over interchangeable values.

Three properties of `accounts_serial` name the operations that are meant to override
them, or do so by an omission this README reports, and say that nothing else does:
`ActiveSuperAdminRemains` excuses resets and lockouts; `LockedAtTheLimit` excuses an
administrator who sets the status by hand (or sets it back to pending and approves the
account again); `TemporaryPasswordsAreForced` excuses administrators who open the
account as it is.

Five properties of the other runs name their exceptions too. `NoFileIsForgotten` names
the files in `stuck`: those of a failed unlink, of a crash and of `PrepareFails`.
`JobsEnd` names the jobs without a task, see below. `LegsCountedOnce` says that two
adjacent reports share exactly the undated rows within the buffer of the seam.
`LiveTokensAreKept` excuses the sign-out and, in `Excused`, an error where the session
itself is looked up, a wrong password typed in a login form, and the refusal of a
request that carried another token; the last is reported in section 5.
`RepliesFitTheirQuestion` names the two cases in which the service returns the reply to
another question: the reply to one posted before, while Wingman has not taken this one
up, and the reply to an aborted one posted after; also in section 5.

*Deadlock* is checked everywhere but in `duty_list`, where the fetch ends and nothing
follows.

*Fairness.* `jobs_guards` assumes weak fairness of each background task: the thread pool
runs every task it was given, and handlers return. Nothing in the code bounds their
time, so this is an assumption about handlers. No fairness is assumed of clients. A task
that is lost to the end of the process, to a failed commit of "running" (which is
outside the `try`) or to a failed commit of the failure leaves its row as it is, and so
does a refresh that fails between `create_job`'s commit and the scheduling of the task;
`JobsEnd` excuses exactly these, and `ARCHITECTURE.md:72-76` documents the first. The
thread of `create_job` is assumed to go on once the row is committed. `duty_list`
assumes that the request's thread goes on: it gets the rows or fails, and asks for the
rest. `copilot_chat` assumes that the service's thread goes on (its poll has a deadline
in rounds) and that the browser's event loop handles a response that has arrived;
nothing of the user or of Wingman. `client_session` assumes that some due answer is
given, that some answer that has arrived is handled, and that the bell of a tab that
knows its user polls (`NotificationBell.tsx` does so every minute while the tab is in
front). It does not assume that a given request is answered.

*A commit* either happens and is known to have happened or does not happen; an
acknowledgement that is lost after the commit is modelled only as the failure of a later
step of the handler (`refresh` in `Uploads` and in `Jobs`). Timestamps of two password
changes of one user are distinct.

## 4. What is proved

`AccountsProofs`, for any sets of users, concurrent requests, role lists and
endpoints:

- `TypeCorrect` and `AccountInvariant`: `TypeOK /\ AccountInv` is inductive. Types
  alone are not: the proof that a stamp is written with its password needs to know
  that only the INSERT of a new account leaves the stamp out, which is a fact about
  what requests carry between their steps. `Sound` states it for each stage, and
  must survive what other requests commit in between (no request erases an account).
- `StampExact`: of an existing account, the stamp changes in exactly the steps that
  change the password.
- `StampsImplementSessions`: `Accounts` implements `SessionRegistry`, with
  `issued <- tokens` and `live <-` the tokens whose stamp is the row's. A commit
  with a new stamp closes exactly the user's sessions, since the new number is above
  every stamp ever issued (the last conjuncts of `TypeOK`). `DeadSessionsStayDead`
  follows: a token that is refused once is refused for good.
- `SerialSuperAdminRemains`: with one worker, no step takes away the last super-admin
  role. The strengthening is `RemovalsGuarded`: a request about to remove the role
  still leaves somebody else behind. With two workers it is not invariant, which is
  the finding `race_last_super_role`.

The proofs have one case for the steps that only stage a request and one for each
step that writes. They rest on the three named assumptions of `Accounts`.

`AccountsSerialProofs`, for one worker and any users, passwords, role lists and limit:

- `SerialTokensProvePasswords`, `SerialClosedStayClosed`, `SerialLockedAtTheLimit`,
  `SerialTemporaryForced`, `SerialSuperAdminsChoose` and `SerialActiveSuperAdmin`: the
  other six properties of `accounts_serial`. They follow from one invariant,
  `SerialInv`. `Current` says that the row a request has read is still the one in the
  table and that the request has checked, of this row and of the roles as they are, what
  its operation promises (`RowChecked`, `RolesChecked`); `CommitWrites` then says that
  the commit writes exactly what was prepared. `TablesInv` adds that an account which
  does not exist has no row and no token. `Current` is what a second worker breaks,
  which the findings `race_reset_login` and `race_last_super_role` show.

`UploadsProofs`, for any sets of users, files and requests, any batch size and any
selection of faults:

- `UploadsTypeCorrect`, `RowsHaveWholeFiles`, `StoredUploadsStay` and
  `FilesAreAccountedFor`: the four properties of `uploads_faults`. None is inductive.
  `Work` says what each request may still rely on at each stage (the file it is writing
  is partial and nobody's, the one it inserts is whole, the one it removes is gone or
  stuck), and `Apart` that an upload shares its file with nobody, except with deletes
  once its row is there, which is what makes the clean-up after a failure safe.

`JobsProofs`, over these, for any jobs, outputs and input lists as well:

- `JobsKeepUploads`: a step of `Jobs` is one of `Uploads` or leaves them alone, so the
  four theorems above hold beside the jobs.
- `JobsTypeCorrect`, `BarredJobsStop` and `InputsAreTheOwners`. `Stopped` says which
  check is still ahead of a barred job and that it will fail: only a permission or
  nothing can lift it, since an input that is gone stays gone. That in turn needs
  `Settled`, which is about uploads: once a name has had a row nobody gives it one
  again (`SettledStays`).
- `JobsImplementTheirLifecycle`: `Jobs` implements `JobLifecycle`. `Progress` ties the
  row to the stage of its task, with "gone" possible everywhere, and `Distinct` says
  that no two tasks produce the same output, from which the abstract `Publish` gets
  results that belong to one job.
- `ResultsHaveOneJob` and `EndedJobsStayEnded` say what clients may conclude from the
  lifecycle, and so of `Jobs`: a result on somebody's list is on no other list, which is
  why a download may look its name up in the requester's own jobs; and an end is final.
- `TasksOnlyAdvance`: `StepsLeft` falls with every step of a task and never rises, not
  even in a crash. `WaitedForJobsAreAttended`: a row that says queued or running is about
  to be given a task or has one behind it, unless the task was lost or never scheduled. A
  task writes the end to the row before it ends.

`DutyAttributionProofs`, for any schedule, period, crews, length of a day, limit of a
break and buffer that is as long as a leg and a break together:

- `ReportCountsDuties`: what the loop selects from a report's window are the legs whose
  duty begins in the period as the whole schedule tells, except those that depart after
  the window, and the undated rows of the window. `DutyStartsIsDefined` shows that the
  recursive function exists, by naming it (the latest leg at or before this one at which
  the loop begins a duty), and `DutyStartsIsLatestBegun` that it is no other: of the
  legs that got another value take the earliest. `PreviousInWindow` and
  `BufferIsWideEnough` say what the window may hide: the leg before is hidden only from
  legs that depart before the period, since two connected legs depart at most the buffer
  apart (`DaysPass`). So a leg whose duty begins in the period has the same first leg in
  both views (`WindowShowsStart`).
- `PeriodsSplit`: the reports of the two parts of a period count the legs of its whole
  report, less those of a duty of the first part that depart after the first part's
  window; what both count are exactly the undated rows within the buffer of the seam. So
  two months asked for one by one may count less than both at once, and count such a row
  twice.

`CrewHoursReportProofs`, for any periods, limit above zero, buffer, rows held by LEON,
and any schedule:

- `DutyTypeCorrect` and `LoopInvariant`: the days before `chunkStart`, and no others,
  have been answered, each once, and `rows` are theirs.
- `IntervalsWithinLimit`, `EachDayOnce`, `ChunkingIsTransparent`: no query is longer
  than LEON accepts, no day is asked for twice with an answer, and the index is the
  one a single unlimited query would give.

- `ReportImplementsDutyList`: a report is a behaviour of `DutyList`, so that
  `ReportIndexFaithful` follows from the theorem above.
- `ContextIsComplete`: a context that is built has every day once, and lacks the
  optional column only from some chunk on. The strengthening keeps, beside the
  property, that no day has come without the column while it is still asked for, and
  that `contextStart` does not run past the end by more than one.
- `ReportTypeCorrect`, `DutiesAreAttributed` and `LegsAreCountedOnce`. `RowsInv` keeps
  what was counted equal to what the schedule gives for the period, and the rest is
  `ReportCountsDuties`, applied to the period of the report and to the one after it.
- `ReportsAreFinite`: every step of a report uses up one of `StepsLeft`, of which there
  are at most four for each day of the buffered period and eight more. Here a chunk is
  paid for by its days, and giving up the optional column pays for asking again.

`CopilotChatProofs`, for any number of questions and new chats:

- `ChatTypeCorrect`, `OneRequestSpeaks` and `ChatsKeepTheirThreads`. The invariant adds
  that only the last question is still running and that chats follow one another
  (`Ordered`), that a reply brings the thread of its own question (`ThreadsKnown`), and
  that the transport holds the thread the answers of the chat have named
  (`ThreadAdopted`). It holds although a late answer may bring in the thread of an
  earlier chat: by then no answer of the new chat has named one.
- `RepliesAreToTheQuestion`: whose reply the service may take for that of a question
  that is waited for. `PostingInv` says that Wingman takes up none but posted questions,
  in the order of their places (`TakenUp`), that places in a thread differ, and that a
  question posted after one that was asked later has been aborted (`PlacesApart`), since
  only the last question is still running. `LatestFits` compares the newest reply's place
  with the question's: smaller, and Wingman has not taken the question up; larger, and the
  other question is an aborted one that was posted late.
- `AnswersAreInPlace`, with the invariant `PanelInv`: the question under way is the last
  message on the panel as long as its chat is the one shown.
- `QuestionsOnlyAdvance`: no question is sent or polled for a second time, and the
  composer is disabled only while the last question has steps left.

`ClientSessionProofs`, for any tabs, users, requests, tokens and failures:

- `ServerIsSessionRegistry`: the server's side is `SessionRegistry`, which
  `StampsImplementSessions` proves `Accounts` to implement. This is what composes
  the two. `RefusedTokensStayDead` follows.
- `SessionTypeCorrect`, `RefusedStaysRefused` and `SignedOutIsForgotten`. A refused
  token cannot come back because an answer that is still to bring a token brings one
  that is neither stored, nor refused, nor carried by any request (`Undelivered`), and
  serial numbers are never used again (`Numbered`). `Forgotten` says that a query from
  before a sign-out is cancelled.
- `LiveTokensStay`: a live token is dropped only by a sign-out or an answer that
  `Excused` names. The strengthening is `Told`: only a dead token is refused, except by
  a login, and dead tokens stay dead.

All proofs rest on the named assumptions of the modules only, which TLC evaluates.

*Only model-checked*: liveness (`JobsEnd`, `ReportSettles`, `BusyEnds`,
`DeadTokensAreDropped`), since fairness is outside what the prover handles. For the
first three the half that does not need fairness is proved: `TasksOnlyAdvance`,
`ReportsAreFinite` and `QuestionsOnlyAdvance` bound how often their steps can be taken,
so that nothing they wait for goes round in a circle. What TLC adds on small instances
is that some step can always be taken until the end is reached, and is, under the
fairness named in section 3. `DeadTokensAreDropped` has no such bound: a tab may poll
for ever.

## 5. Findings

- `race_reset_login`: login verifies the password it read, commits, and then mints
  the token from the row it reads again. A reset that commits in between gives the
  token the new stamp, so who knew only the old password holds a live session.
- `race_last_super_role`: the count behind "the last super-admin role cannot be
  removed" is read without a lock, and two super-admins who demote each other at one
  time both pass. The count of `update_user_status` is read in the same way.
- `unlock_temporary`: an account that is locked before its temporary password was
  changed comes back from `unlock_user` as active, and the temporary password needs
  no change any more.

- `copilot_new_chat`: "new chat" clears the messages and the transport's thread but
  does not abort the request under way. Its answer appears in the emptied list, stores
  the old thread again, and the next question goes there.

Seen while modelling, without a run of their own:

- A reset moves the last active super-admin to `password_change_required` with no count
  (`ActiveSuperAdminRemains` has to excuse it). They can still log in and change the
  password.
- `ApiClient` clears the token on a 401 without comparing it with the one the request
  carried: a late 401 to a request sent before a password change takes the replacement
  away, and the user has to sign in again (the last case of `Excused`).
- The service polls at once after posting and sleeps only at the end of a round
  (`service.py:125-149`). If Wingman has not taken the new question up by then, the newest
  settled reply is the previous question's, and is returned as the answer.
- A question whose request is aborted before the service has posted it may be posted
  after the next question of its thread. Its reply is then the newest and may be returned
  as the next question's answer. It takes three questions of one chat to get there.
- A failure between `store_upload` and the `try` behind it (`main.py:289-300`) leaves the
  whole file with no row and no clean-up. From the second file of a batch on, the read of
  `current_user.id` is a query of its own there.
- A `db.refresh` that fails in `create_job` (`main.py:657`) answers with an error and
  leaves a queued row for which no task was scheduled. `ARCHITECTURE.md:72-76` speaks only
  of the tasks that a restart loses.
- A row without a date is counted by every report whose window LEON returns it for
  (`domain.py:154`), so the reports of two adjacent months may both count it.
- The answer of a change of password that arrives after a sign-out stores a token
  again.
- After an error `useAuth` caches "nobody" as a fresh value, so that for up to five
  minutes after the next sign-in a tab may show no user. Time is not modelled.

## 6. Not modelled, and why

- *Login limiter* (`auth.py:143-170`): counts attempts in a window of real time. What
  could go wrong is the loss of an entry between two list operations of one process,
  below the level of a statement.
- *Registry projection* (`rbac/registry.py`, `tools/sync_registry.py`): an idempotent
  upsert of constants; between two processes the primary keys decide, and
  `startup_db_seed` (`main.py:59-81`) logs the loser's conflict and goes on if a projection exists. *Database tools*: run by hand,
  one at a time; their steps are reflection over a schema and calls of Alembic.
- *Heavy rules* (`heavy.py`, `cabin_heavy.py`, `unknown_resolver.py`): decision tables
  over one flight, which the repository's tests cover row by row. *Totals and export*:
  arithmetic over the selected rows, filters, formatting.
- *LEON access token*: a provider lives in one request, so its lock is never contended.
  `DutyList` models the refusal and the retry.
- *The copilot's approve endpoint*: no caller in the browser. *Local answers*: wording
  over a report; `AnswerLocally` is the step.
- *Projects, invitations, notifications, audit log*: single-row writes with no state
  shared between requests beyond the row.
- *User interface*: rendering, and forms of one request each. *Module handlers*: to a
  job they return paths or raise. *Migrations and fixtures*.
- *Landing page background*: a decorative scene with about 343,000 generated lines of
  flight data, nine tenths of the repository's TypeScript. It has no state the portal
  reads. Counted by lines this data dwarfs everything else here.

What could be added next: two requests at a time over `ActiveSuperAdminRemains` and
`TemporaryPasswordsAreForced`, both checked for requests served one at a time; the
limiter, if the thread pool is ever replaced by something that interleaves more
coarsely; the two Heavy resolvers as operators against a table of their documentation.
