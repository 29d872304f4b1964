------------------------------- MODULE Uploads -------------------------------
(***************************************************************************)
(* Uploaded files and their rows: upload_files and delete_upload of        *)
(* backend/main.py over store_upload and delete_artifact_file of           *)
(* backend/storage.py.                                                     *)
(*                                                                         *)
(* A file and its row live in two stores that no transaction spans.  An    *)
(* upload writes the file, then commits the row, one file of the batch     *)
(* after the other; a delete unlinks the file, then commits the row's      *)
(* removal.  Requests interleave between any two of these steps, and each  *)
(* step may fail or be the last one before the process dies.               *)
(***************************************************************************)
EXTENDS Naturals

CONSTANTS
    Users,
    Files,     \* generated storage names, each with the row it may get
    Requests,  \* upload and delete requests in flight at one time
    Nobody,    \* the owner of a file without a row
    NoFile,    \* the file of a request that holds none
    MaxFiles,  \* MAX_FILES_PER_UPLOAD of main.py
    Faults     \* which failures happen

UploadFaults == {"write",     \* the stream is refused, or writing it fails
                 "prepare",   \* the row of a stored file cannot be made up
                 "database",  \* a commit fails
                 "refresh",   \* the commit succeeds, reading the row back fails
                 "unlink",    \* a file cannot be removed
                 "crash"}     \* the process dies

ASSUME OwnersAssumption == Nobody \notin Users /\ NoFile \notin Files
ASSUME BatchAssumption == MaxFiles \in Nat \ {0}

VARIABLES
    owner,   \* the uploads table: who owns the row of a file
    disk,    \* UPLOAD_DIR
    request, \* upload and delete requests in flight
    used,    \* history: storage names generated so far
    stored,  \* history: uploads reported as stored
    dropped, \* history: uploads somebody asked to delete
    stuck    \* history: files that a failed unlink, a failure with no clean-up
             \* or a crash left behind

uploadVars == <<owner, disk, request, used, stored, dropped, stuck>>

UploadRequest == [stage : {"idle", "storing", "writing", "inserting",
                           "refreshing", "deleting", "removing"},
                  user : Users \union {Nobody},
                  file : Files \union {NoFile},
                  left : 0 .. MaxFiles]

IdleRequest == [stage |-> "idle", user |-> Nobody, file |-> NoFile, left |-> 0]

Goto(r, q) == request' = [request EXCEPT ![r] = q]

At(r, stage) == request[r].stage = stage

\* unlink() succeeds or, under the fault, leaves the file as it is.
Unlink(f) == \/ disk' = [disk EXCEPT ![f] = "none"] /\ UNCHANGED stuck
             \/ /\ "unlink" \in Faults
                /\ stuck' = stuck \union {f} /\ UNCHANGED disk

-----------------------------------------------------------------------------
(* upload_files *)

\* Mutant of BeginUpload: one file more than the limit gets through.
BeginLongUpload(r, u, n) ==
    /\ At(r, "idle")
    /\ Goto(r, [stage |-> "storing", user |-> u, file |-> NoFile,
                left |-> n + 1])
    /\ UNCHANGED <<owner, disk, used, stored, dropped, stuck>>

BeginUpload(r, u, n) ==
    /\ At(r, "idle")
    /\ Goto(r, [stage |-> "storing", user |-> u, file |-> NoFile, left |-> n])
    /\ UNCHANGED <<owner, disk, used, stored, dropped, stuck>>

\* Mutant of CreateFile: open("wb") over whatever bears the name.
CreateFileOver(r, f) ==
    /\ At(r, "storing")
    /\ Goto(r, [request[r] EXCEPT !.stage = "writing", !.file = f])
    /\ disk' = [disk EXCEPT ![f] = "partial"]
    /\ used' = used \union {f}
    /\ UNCHANGED <<owner, stored, dropped, stuck>>

\* _new_storage_path and open("xb"): a name nobody has used.
CreateFile(r, f) ==
    /\ At(r, "storing") /\ f \notin used
    /\ Goto(r, [request[r] EXCEPT !.stage = "writing", !.file = f])
    /\ disk' = [disk EXCEPT ![f] = "partial"]
    /\ used' = used \union {f}
    /\ UNCHANGED <<owner, stored, dropped, stuck>>

WriteFile(r) ==
    /\ At(r, "writing")
    /\ Goto(r, [request[r] EXCEPT !.stage = "inserting"])
    /\ disk' = [disk EXCEPT ![request[r].file] = "whole"]
    /\ UNCHANGED <<owner, used, stored, dropped, stuck>>

\* Too large, not what its name says, not UTF-8, or an OSError: a partial file
\* is removed and the request ends, files stored before it staying.
RefuseFile(r) ==
    /\ "write" \in Faults
    /\ \/ At(r, "storing") /\ UNCHANGED <<disk, stuck>>
       \/ At(r, "writing") /\ Unlink(request[r].file)
    /\ Goto(r, IdleRequest)
    /\ UNCHANGED <<owner, used, stored, dropped>>

\* Mutant of InsertRow: the row is committed while the file is written.
InsertRowEarly(r) ==
    /\ At(r, "inserting") \/ At(r, "writing")
    /\ owner' = [owner EXCEPT ![request[r].file] = request[r].user]
    /\ Goto(r, [request[r] EXCEPT !.stage = "refreshing"])
    /\ UNCHANGED <<disk, used, stored, dropped, stuck>>

InsertRow(r) ==
    /\ At(r, "inserting")
    /\ owner' = [owner EXCEPT ![request[r].file] = request[r].user]
    /\ Goto(r, [request[r] EXCEPT !.stage = "refreshing"])
    /\ UNCHANGED <<disk, used, stored, dropped, stuck>>

\* What lies between the file and the try raises: the scan, the expiry date, or
\* the read of current_user, which the commit for the file before has expired.
\* Nothing removes the file.
PrepareFails(r) ==
    /\ At(r, "inserting") /\ "prepare" \in Faults
    /\ Goto(r, IdleRequest)
    /\ stuck' = stuck \union {request[r].file}
    /\ UNCHANGED <<owner, disk, used, stored, dropped>>

\* db.refresh finds the row, and the loop goes on or the response is sent.
Stored(r) ==
    /\ At(r, "refreshing") /\ owner[request[r].file] # Nobody
    /\ stored' = stored \union {request[r].file}
    /\ Goto(r, IF request[r].left = 1 THEN IdleRequest
               ELSE [request[r] EXCEPT !.stage = "storing", !.file = NoFile,
                                       !.left = @ - 1])
    /\ UNCHANGED <<owner, disk, used, dropped, stuck>>

\* Mutant of UndoUpload: the file of the failed insert stays.
UndoRowOnly(r) ==
    /\ At(r, "inserting") /\ "database" \in Faults
    /\ Goto(r, IdleRequest)
    /\ UNCHANGED <<owner, disk, used, stored, dropped, stuck>>

\* The handler's except clause: roll back what is not committed, remove the
\* file, end the request.
UndoUpload(r) ==
    /\ \/ At(r, "inserting") /\ "database" \in Faults
       \/ At(r, "refreshing") /\ "refresh" \in Faults
       \/ At(r, "refreshing") /\ owner[request[r].file] = Nobody
    /\ Unlink(request[r].file)
    /\ Goto(r, IdleRequest)
    /\ UNCHANGED <<owner, used, stored, dropped>>

-----------------------------------------------------------------------------
(* delete_upload *)

BeginDelete(r, u, f) ==
    /\ At(r, "idle") /\ owner[f] = u
    /\ Goto(r, [stage |-> "deleting", user |-> u, file |-> f, left |-> 0])
    /\ dropped' = dropped \union {f}
    /\ UNCHANGED <<owner, disk, used, stored, stuck>>

\* A failure to unlink, the file being gone included, is only noted.
DeleteFile(r) ==
    /\ At(r, "deleting")
    /\ Unlink(request[r].file)
    /\ Goto(r, [request[r] EXCEPT !.stage = "removing"])
    /\ UNCHANGED <<owner, used, stored, dropped>>

RemoveRow(r) ==
    /\ At(r, "removing")
    /\ owner' = [owner EXCEPT ![request[r].file] = Nobody]
    /\ Goto(r, IdleRequest)
    /\ UNCHANGED <<disk, used, stored, dropped, stuck>>

RemoveFails(r) ==
    /\ At(r, "removing") /\ "database" \in Faults
    /\ Goto(r, IdleRequest)
    /\ UNCHANGED <<owner, disk, used, stored, dropped, stuck>>

-----------------------------------------------------------------------------
\* The process dies: what its requests held in memory is gone.
CrashUploads ==
    /\ "crash" \in Faults
    /\ request' = [r \in Requests |-> IdleRequest]
    /\ stuck' = stuck \union ({request[r].file : r \in Requests} \ {NoFile})
    /\ UNCHANGED <<owner, disk, used, stored, dropped>>

InitUploads ==
    /\ owner = [f \in Files |-> Nobody]
    /\ disk = [f \in Files |-> "none"]
    /\ request = [r \in Requests |-> IdleRequest]
    /\ used = {} /\ stored = {} /\ dropped = {} /\ stuck = {}

Upload(r) ==
    \/ \E u \in Users, n \in 1 .. MaxFiles : BeginUpload(r, u, n)
    \/ \E f \in Files : CreateFile(r, f)
    \/ WriteFile(r) \/ RefuseFile(r)
    \/ PrepareFails(r) \/ InsertRow(r) \/ Stored(r) \/ UndoUpload(r)

Delete(r) ==
    \/ \E u \in Users, f \in Files : BeginDelete(r, u, f)
    \/ DeleteFile(r) \/ RemoveRow(r) \/ RemoveFails(r)

UploadStep == \E r \in Requests : Upload(r) \/ Delete(r)

NextUploads == UploadStep \/ CrashUploads

SpecUploads == InitUploads /\ [][NextUploads]_uploadVars

-----------------------------------------------------------------------------
\* Rows, files and requests keep their shapes, and a name is drawn only once:
\* whatever exists, or is in a request's hands, has been drawn.
TypeOKUploads ==
    /\ owner \in [Files -> Users \union {Nobody}]
    /\ disk \in [Files -> {"none", "partial", "whole"}]
    /\ request \in [Requests -> UploadRequest]
    /\ used \subseteq Files
    /\ stored \union dropped \union stuck \subseteq used
    /\ \A f \in Files : owner[f] # Nobody \/ disk[f] # "none" => f \in used
    /\ \A r \in Requests : request[r].file \in used \union {NoFile}

\* No row, and so no job, ever reaches a file that is still being written or
\* that a crash left half written: rows come after whole files.
RowsNeverSeePartialFiles ==
    \A f \in Files : owner[f] # Nobody => disk[f] # "partial"

\* A row whose upload was reported as stored, and which nobody has asked to
\* delete, has its file, whatever other requests fail to do or the process's
\* crashes interrupt: the clean-up after a failure removes its own file only.
StoredUploadsKeepTheirFile ==
    \A f \in stored \ dropped : owner[f] # Nobody /\ disk[f] = "whole"

\* The uploader that is still at work on f.
Holds(r, f) == request[r].file = f

\* The only files that are left without a row, and without a request that will
\* give them one or remove them, are those of a failed unlink, of a crash, or of
\* a failure between store_upload and the try that has the clean-up: the
\* failures of the stream and those of the try itself, a row that somebody else
\* removed before the refresh included, take the file with them (upload_files,
\* store_upload).
NoFileIsForgotten ==
    \A f \in Files \ stuck : disk[f] # "none" /\ owner[f] = Nobody
                              => \E r \in Requests : Holds(r, f)
=============================================================================
