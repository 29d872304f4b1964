----------------------------- MODULE UploadsProofs -----------------------------
(***************************************************************************)
(* Uploaded files and their rows for any number of users, files, requests  *)
(* and files per batch, under any selection of faults: rows come after     *)
(* whole files, what was reported as stored stays, and only a failed       *)
(* unlink, a failure before the try or a crash leaves a file behind.       *)
(***************************************************************************)
EXTENDS Uploads, TLAPS

USE OwnersAssumption, BatchAssumption DEF OwnersAssumption, BatchAssumption

-----------------------------------------------------------------------------
(* The invariant *)

\* What a request has made of its file, and what it may still rely on.
Work(r) ==
    LET q == request[r] IN
    /\ q.stage \in {"idle", "storing"} => q.file = NoFile
    /\ q.stage \notin {"idle", "storing"} => q.file \in used
    /\ q.stage \in {"storing", "writing", "inserting", "refreshing"} =>
         q.left >= 1 /\ q.user \in Users
    /\ q.stage = "writing" => disk[q.file] = "partial"
    /\ q.stage = "inserting" => disk[q.file] = "whole"
    /\ q.stage \in {"writing", "inserting"} =>
         owner[q.file] = Nobody /\ q.file \notin dropped
    /\ q.stage \in {"writing", "inserting", "refreshing"} => q.file \notin stored
    /\ q.stage = "refreshing" =>
         q.file \in dropped \/ (owner[q.file] # Nobody /\ disk[q.file] = "whole")
    /\ q.stage \in {"deleting", "removing"} => q.file \in dropped
    /\ q.stage = "removing" => disk[q.file] = "none" \/ q.file \in stuck

\* An upload shares its file with nobody, but for deletes once its row is there.
Apart(r, i) ==
    /\ r # i
    /\ request[r].stage \in {"writing", "inserting", "refreshing"}
    /\ request[i].file = request[r].file
    => /\ request[r].stage = "refreshing"
       /\ request[i].stage \in {"deleting", "removing"}

UploadInv ==
    /\ TypeOKUploads
    /\ \A r \in Requests : Work(r)
    /\ \A r, i \in Requests : Apart(r, i)
    /\ RowsNeverSeePartialFiles
    /\ StoredUploadsKeepTheirFile
    /\ NoFileIsForgotten

\* At first there is neither file nor row nor request.
LEMMA InitUploadInv == InitUploads => UploadInv
<1> SUFFICES ASSUME InitUploads PROVE UploadInv
  OBVIOUS
<1>1. IdleRequest \in UploadRequest /\ IdleRequest.stage = "idle"
      /\ IdleRequest.file = NoFile
  BY DEF IdleRequest, UploadRequest
<1>2. TypeOKUploads
  BY <1>1 DEF InitUploads, TypeOKUploads
<1>3. \A r \in Requests : request[r] = IdleRequest
  BY DEF InitUploads
<1>4. \A r \in Requests : Work(r)
  BY <1>1, <1>3 DEF Work
<1>5. \A r, i \in Requests : Apart(r, i)
  BY <1>1, <1>3 DEF Apart
<1> QED
  BY <1>2, <1>4, <1>5 DEF InitUploads, UploadInv, RowsNeverSeePartialFiles,
                          StoredUploadsKeepTheirFile, NoFileIsForgotten

-----------------------------------------------------------------------------
(* One request and one file *)

\* A step of request r that touches no file but f.
Touches(r, f, n) ==
    /\ request' = [request EXCEPT ![r] = n]
    /\ owner' \in [Files -> Users \union {Nobody}]
    /\ disk' \in [Files -> {"none", "partial", "whole"}]
    /\ \A g \in Files \ {f} : /\ owner'[g] = owner[g] /\ disk'[g] = disk[g]
                              /\ g \in used' <=> g \in used
                              /\ g \in stored' <=> g \in stored
                              /\ g \in dropped' <=> g \in dropped
                              /\ g \in stuck' <=> g \in stuck

\* Such a step keeps the invariant if it keeps what concerns r and f.
LEMMA LocalStep ==
    ASSUME UploadInv, NEW r \in Requests, NEW f \in Files, NEW n \in UploadRequest,
           Touches(r, f, n),
           used' \subseteq Files, stored' \union dropped' \union stuck' \subseteq used',
           used \subseteq used',
           request[r].file \in {f, NoFile}, n.file \in {f, NoFile} \intersect (used' \union {NoFile}),
           owner'[f] # Nobody \/ disk'[f] # "none" => f \in used',
           Work(r)',
           \A i \in Requests \ {r} :
             request[i].file = f => Work(i)' /\ Apart(r, i)' /\ Apart(i, r)',
           owner'[f] # Nobody => disk'[f] # "partial",
           f \in stored' \ dropped' => owner'[f] # Nobody /\ disk'[f] = "whole",
           disk'[f] # "none" /\ owner'[f] = Nobody =>
             \/ f \in stuck' \/ n.file = f
             \/ \E i \in Requests \ {r} : request[i].file = f
    PROVE  UploadInv'
<1>1. /\ request \in [Requests -> UploadRequest]
      /\ \A i \in Requests : request[i].file \in used \union {NoFile}
      /\ used \subseteq Files
  BY DEF UploadInv, TypeOKUploads
<1>2. /\ request' \in [Requests -> UploadRequest] /\ request'[r] = n
      /\ \A i \in Requests \ {r} : request'[i] = request[i]
  BY <1>1 DEF Touches
<1>3. \A g \in Files \ {f} : owner'[g] # Nobody \/ disk'[g] # "none" => g \in used'
  BY DEF Touches, UploadInv, TypeOKUploads
<1>4. \A i \in Requests : request'[i].file \in used' \union {NoFile}
  BY <1>1, <1>2
<1>5. TypeOKUploads'
  BY <1>2, <1>3, <1>4 DEF Touches, TypeOKUploads
<1>6. ASSUME NEW i \in Requests PROVE Work(i)'
  <2>1. CASE i = r
    BY <2>1
  <2>2. CASE i # r /\ request[i].file = f
    BY <2>2
  <2>3. CASE i # r /\ request[i].file # f /\ request[i].file # NoFile
    <3>1. request'[i] = request[i] /\ Work(i) /\ request[i].file \in Files \ {f}
      BY <1>1, <1>2, <2>3 DEF UploadInv
    <3> QED
      BY <3>1 DEF Touches, Work
  <2>4. CASE i # r /\ request[i].file = NoFile
    <3>1. request'[i] = request[i] /\ Work(i) /\ NoFile \notin used
      BY <1>1, <1>2, <2>4 DEF UploadInv
    <3> QED
      BY <2>4, <3>1 DEF Work
  <2> QED
    BY <2>1, <2>2, <2>3, <2>4
<1>7. ASSUME NEW i \in Requests, NEW j \in Requests PROVE Apart(i, j)'
  <2>1. CASE i # r /\ j # r
    BY <1>2, <2>1 DEF UploadInv, Apart
  <2>2. CASE i = r /\ j # r
    <3>1. CASE request[j].file = f
      BY <2>2, <3>1
    <3>2. CASE request[j].file # f
      <4>1. n.stage \in {"writing", "inserting", "refreshing"} => n.file = f
        BY <1>2 DEF Work
      <4> QED
        BY <1>2, <2>2, <3>2, <4>1 DEF Apart
    <3> QED
      BY <3>1, <3>2
  <2>3. CASE i # r /\ j = r
    <3>1. CASE request[i].file = f
      BY <2>3, <3>1
    <3>2. CASE request[i].file # f
      <4>1. Work(i)
        BY DEF UploadInv
      <4>2. request[i].stage \in {"writing", "inserting", "refreshing"} =>
              request[i].file # NoFile
        BY <1>1, <4>1 DEF Work
      <4> QED
        BY <1>2, <2>3, <3>2, <4>2 DEF Apart
    <3> QED
      BY <3>1, <3>2
  <2>4. CASE i = j
    BY <2>4 DEF Apart
  <2> QED
    BY <2>1, <2>2, <2>3, <2>4
<1>8. RowsNeverSeePartialFiles' /\ StoredUploadsKeepTheirFile'
  BY <1>1 DEF UploadInv, TypeOKUploads, Touches, RowsNeverSeePartialFiles,
              StoredUploadsKeepTheirFile
<1>9. NoFileIsForgotten'
  <2> SUFFICES ASSUME NEW g \in Files, g \notin stuck', disk'[g] # "none",
                      owner'[g] = Nobody
               PROVE  \E i \in Requests : request'[i].file = g
    BY DEF NoFileIsForgotten, Holds
  <2>1. CASE g = f
    BY <1>2, <2>1
  <2>2. CASE g # f
    <3>1. PICK i \in Requests : request[i].file = g
      BY <2>2 DEF Touches, UploadInv, NoFileIsForgotten, Holds
    <3>2. i # r
      BY <2>2, <3>1
    <3> QED
      BY <1>2, <3>1, <3>2
  <2> QED
    BY <2>1, <2>2
<1> QED
  BY <1>5, <1>6, <1>7, <1>8, <1>9 DEF UploadInv

\* A step that takes a request without a file to another such stage.
LEMMA EmptyHanded ==
    ASSUME UploadInv, NEW r \in Requests, NEW n \in UploadRequest, Goto(r, n),
           request[r].file = NoFile, n.file = NoFile,
           n.stage \in {"idle", "storing"},
           n.stage = "storing" => n.left >= 1 /\ n.user \in Users,
           UNCHANGED <<owner, disk, used, stored, dropped, stuck>>
    PROVE  UploadInv'
<1>1. /\ request \in [Requests -> UploadRequest] /\ used \subseteq Files
      /\ \A i \in Requests : request[i].file \in used \union {NoFile}
  BY DEF UploadInv, TypeOKUploads
<1>2. /\ request' \in [Requests -> UploadRequest] /\ request'[r] = n
      /\ \A i \in Requests \ {r} : request'[i] = request[i]
      /\ \A i \in Requests : request'[i].file = request[i].file
  BY <1>1 DEF Goto
<1>3. TypeOKUploads'
  BY <1>1, <1>2 DEF UploadInv, TypeOKUploads
<1>4. ASSUME NEW i \in Requests PROVE Work(i)'
  <2>1. CASE i = r
    BY <1>2, <2>1 DEF Work
  <2>2. CASE i # r
    BY <1>2, <2>2 DEF UploadInv, Work
  <2> QED
    BY <2>1, <2>2
<1>5. ASSUME NEW i \in Requests, NEW j \in Requests PROVE Apart(i, j)'
  <2>1. CASE i = r
    BY <1>2, <2>1 DEF Apart
  <2>2. CASE i # r /\ j # r
    BY <1>2, <2>2 DEF UploadInv, Apart
  <2>3. CASE i # r /\ j = r
    <3>1. request[i].stage \in {"writing", "inserting", "refreshing"} =>
            request[i].file # NoFile
      BY <1>1 DEF UploadInv, Work
    <3> QED
      BY <1>2, <2>3, <3>1 DEF Apart
  <2> QED
    BY <2>1, <2>2, <2>3
<1>6. RowsNeverSeePartialFiles' /\ StoredUploadsKeepTheirFile' /\ NoFileIsForgotten'
  BY <1>2 DEF UploadInv, RowsNeverSeePartialFiles, StoredUploadsKeepTheirFile,
              NoFileIsForgotten, Holds
<1> QED
  BY <1>3, <1>4, <1>5, <1>6 DEF UploadInv

\* What the types say of the request and the file of a step.
LEMMA AtWork ==
    ASSUME UploadInv, NEW r \in Requests
    PROVE  /\ request[r] \in UploadRequest /\ used \subseteq Files
           /\ request[r].stage \notin {"idle", "storing"} =>
                request[r].file \in used /\ request[r].file \in Files
           /\ owner \in [Files -> Users \union {Nobody}]
           /\ disk \in [Files -> {"none", "partial", "whole"}]
           /\ stored \union dropped \union stuck \subseteq used
           /\ \A f \in Files : owner[f] # Nobody \/ disk[f] # "none" => f \in used
           /\ \A i \in Requests : request[i].file \in used \union {NoFile}
           /\ IdleRequest \in UploadRequest /\ IdleRequest.stage = "idle"
           /\ IdleRequest.file = NoFile
           /\ Work(r)
           /\ \A i \in Requests : Work(i) /\ Apart(r, i) /\ Apart(i, r)
BY DEF UploadInv, TypeOKUploads, Work, IdleRequest, UploadRequest

-----------------------------------------------------------------------------
(* The steps of an upload *)

\* A file is created under a name that nobody knows.
LEMMA CreateKeepsUploadInv ==
    ASSUME UploadInv, NEW r \in Requests, NEW f \in Files, CreateFile(r, f)
    PROVE  UploadInv'
<1> DEFINE n == [request[r] EXCEPT !.stage = "writing", !.file = f]
<1>1. /\ request[r].stage = "storing" /\ f \notin used /\ f # NoFile
      /\ request' = [request EXCEPT ![r] = n]
      /\ disk' = [disk EXCEPT ![f] = "partial"]
      /\ used' = used \union {f}
      /\ UNCHANGED <<owner, stored, dropped, stuck>>
  BY DEF CreateFile, At, Goto
<1>2. /\ n \in UploadRequest /\ n.stage = "writing" /\ n.file = f
      /\ n.left = request[r].left /\ n.user = request[r].user
  BY AtWork DEF UploadRequest
<1> HIDE DEF n
<1>3. /\ request'[r] = n /\ disk'[f] = "partial" /\ owner[f] = Nobody
      /\ f \notin stored /\ f \notin dropped /\ request[r].file = NoFile
      /\ request[r].left >= 1 /\ request[r].user \in Users
      /\ \A i \in Requests : request[i].file # f
  BY <1>1, AtWork DEF UploadInv, TypeOKUploads, Work
<1>4. Touches(r, f, n)
  BY <1>1, AtWork DEF Touches
<1>5. Work(r)'
  BY <1>1, <1>2, <1>3 DEF Work
<1>6. /\ used' \subseteq Files /\ used \subseteq used' /\ f \in used'
      /\ stored' \union dropped' \union stuck' \subseteq used'
  BY <1>1, AtWork
<1> QED
  BY <1>1, <1>2, <1>3, <1>4, <1>5, <1>6, LocalStep

\* The file is written while nobody else knows of it.
LEMMA WriteKeepsUploadInv ==
    ASSUME UploadInv, NEW r \in Requests, WriteFile(r)
    PROVE  UploadInv'
<1> DEFINE f == request[r].file
           n == [request[r] EXCEPT !.stage = "inserting"]
<1>1. /\ request[r].stage = "writing"
      /\ request' = [request EXCEPT ![r] = n]
      /\ disk' = [disk EXCEPT ![f] = "whole"]
      /\ UNCHANGED <<owner, used, stored, dropped, stuck>>
  BY DEF WriteFile, At, Goto
<1>2. /\ n \in UploadRequest /\ n.stage = "inserting" /\ n.file = f
      /\ n.left = request[r].left /\ n.user = request[r].user
  BY AtWork DEF UploadRequest
<1>3. PICK g \in Files : g = f
  BY <1>1, AtWork
<1> HIDE DEF n, f
<1>4. /\ request'[r] = n /\ disk'[g] = "whole" /\ owner[g] = Nobody
      /\ g \notin stored /\ g \notin dropped /\ g \in used
      /\ request[r].left >= 1 /\ request[r].user \in Users
      /\ \A i \in Requests \ {r} : request[i].file # g
  BY <1>1, <1>3, AtWork DEF UploadInv, TypeOKUploads, Work, Apart, f
<1>5. Touches(r, g, n)
  BY <1>1, <1>3, AtWork DEF Touches
<1>6. Work(r)'
  BY <1>1, <1>2, <1>3, <1>4 DEF Work
<1>7. /\ used' \subseteq Files /\ used \subseteq used' /\ request[r].file = g
      /\ stored' \union dropped' \union stuck' \subseteq used'
  BY <1>1, <1>3, AtWork DEF f
<1> QED
  BY <1>1, <1>2, <1>3, <1>4, <1>5, <1>6, <1>7, LocalStep

\* An upload that ends removes the file it was at work on, or leaves it stuck:
\* because the file cannot be removed, or because nobody tries.
LEMMA GiveUpKeepsUploadInv ==
    ASSUME UploadInv, NEW r \in Requests,
           request[r].stage \in {"writing", "inserting", "refreshing"},
           \/ Unlink(request[r].file)
           \/ stuck' = stuck \union {request[r].file} /\ UNCHANGED disk,
           Goto(r, IdleRequest),
           UNCHANGED <<owner, used, stored, dropped>>
    PROVE  UploadInv'
<1> DEFINE f == request[r].file
<1>1. PICK g \in Files : g = f
  BY AtWork
<1>2. /\ request' = [request EXCEPT ![r] = IdleRequest]
      /\ \/ disk' = [disk EXCEPT ![g] = "none"] /\ UNCHANGED stuck
         \/ stuck' = stuck \union {g} /\ UNCHANGED disk
      /\ UNCHANGED <<owner, used, stored, dropped>>
  BY <1>1 DEF Unlink, Goto
<1> HIDE DEF f
<1>3. /\ request'[r] = IdleRequest /\ g \in used /\ g \notin stored
      /\ request[r].file = g
      /\ \A i \in Requests \ {r} :
            request[i].file = g => request[i].stage \in {"deleting", "removing"}
  BY <1>1, <1>2, AtWork DEF UploadInv, TypeOKUploads, Work, Apart, f
<1>4. /\ Touches(r, g, IdleRequest)
      /\ disk'[g] = "none" \/ g \in stuck'
      /\ disk'[g] = "none" \/ disk'[g] = disk[g]
      /\ g \in stuck => g \in stuck'
  BY <1>2, <1>3, AtWork DEF Touches
<1>5. Work(r)'
  BY <1>3, AtWork DEF Work
<1>6. ASSUME NEW i \in Requests \ {r}, request[i].file = g
      PROVE  Work(i)' /\ Apart(r, i)' /\ Apart(i, r)'
  <2>1. request'[i] = request[i] /\ request[i].stage \in {"deleting", "removing"}
    BY <1>2, <1>3, <1>6
  <2>2. Work(i)
    BY AtWork
  <2> QED
    BY <1>2, <1>3, <1>4, <1>6, <2>1, <2>2, AtWork DEF Work, Apart
<1>7. /\ used' \subseteq Files /\ used \subseteq used'
      /\ stored' \union dropped' \union stuck' \subseteq used'
  BY <1>2, <1>3, AtWork
<1>8. owner'[g] # Nobody => disk'[g] # "partial"
  BY <1>2, <1>4 DEF UploadInv, RowsNeverSeePartialFiles
<1> QED
  BY <1>2, <1>3, <1>4, <1>5, <1>6, <1>7, <1>8, AtWork, LocalStep

\* The row is committed when the file is whole and still nobody's.
LEMMA InsertKeepsUploadInv ==
    ASSUME UploadInv, NEW r \in Requests, InsertRow(r)
    PROVE  UploadInv'
<1> DEFINE f == request[r].file
           n == [request[r] EXCEPT !.stage = "refreshing"]
<1>1. /\ request[r].stage = "inserting"
      /\ request' = [request EXCEPT ![r] = n]
      /\ owner' = [owner EXCEPT ![f] = request[r].user]
      /\ UNCHANGED <<disk, used, stored, dropped, stuck>>
  BY DEF InsertRow, At, Goto
<1>2. /\ n \in UploadRequest /\ n.stage = "refreshing" /\ n.file = f
      /\ n.left = request[r].left /\ n.user = request[r].user
  BY AtWork DEF UploadRequest
<1>3. PICK g \in Files : g = f
  BY <1>1, AtWork
<1> HIDE DEF n, f
<1>4. /\ request'[r] = n /\ disk[g] = "whole"
      /\ g \notin stored /\ g \notin dropped /\ g \in used
      /\ request[r].left >= 1 /\ request[r].user \in Users
      /\ \A i \in Requests \ {r} : request[i].file # g
  BY <1>1, <1>3, AtWork DEF UploadInv, TypeOKUploads, Work, Apart, f
<1>5. Touches(r, g, n) /\ owner'[g] # Nobody
  BY <1>1, <1>3, <1>4, AtWork DEF Touches
<1>6. Work(r)'
  BY <1>1, <1>2, <1>3, <1>4, <1>5 DEF Work
<1>7. /\ used' \subseteq Files /\ used \subseteq used' /\ request[r].file = g
      /\ stored' \union dropped' \union stuck' \subseteq used'
  BY <1>1, <1>3, AtWork DEF f
<1> QED
  BY <1>1, <1>2, <1>3, <1>4, <1>5, <1>6, <1>7, LocalStep

\* An upload is reported as stored when its row is read back.
LEMMA StoredKeepsUploadInv ==
    ASSUME UploadInv, NEW r \in Requests, Stored(r)
    PROVE  UploadInv'
<1> DEFINE f == request[r].file
           n == IF request[r].left = 1 THEN IdleRequest
                ELSE [request[r] EXCEPT !.stage = "storing", !.file = NoFile,
                                        !.left = @ - 1]
<1>1. /\ request[r].stage = "refreshing" /\ owner[f] # Nobody
      /\ request' = [request EXCEPT ![r] = n]
      /\ stored' = stored \union {f}
      /\ UNCHANGED <<owner, disk, used, dropped, stuck>>
  BY DEF Stored, At, Goto
<1>2. /\ request[r].left \in 1 .. MaxFiles /\ request[r].user \in Users
  BY <1>1, AtWork DEF UploadRequest, Work
<1>3. /\ n \in UploadRequest /\ n.stage \in {"idle", "storing"}
      /\ n.file = NoFile
      /\ n.stage = "storing" => n.left >= 1 /\ n.user \in Users
  <2>1. CASE request[r].left = 1
    BY <2>1, AtWork
  <2>2. CASE request[r].left # 1
    <3>1. n = [request[r] EXCEPT !.stage = "storing", !.file = NoFile,
                                 !.left = request[r].left - 1]
      BY <2>2, AtWork DEF UploadRequest
    <3>2. /\ request[r].left - 1 \in 0 .. MaxFiles /\ request[r].left - 1 >= 1
      BY <1>2, <2>2
    <3> QED
      BY <1>2, <3>1, <3>2, AtWork DEF UploadRequest
  <2> QED
    BY <2>1, <2>2
<1>4. PICK g \in Files : g = f
  BY <1>1, AtWork
<1> HIDE DEF n, f
<1>5. /\ request'[r] = n /\ (g \in dropped \/ disk[g] = "whole")
      /\ g \in used /\ request[r].file = g
      /\ \A i \in Requests \ {r} :
            request[i].file = g => request[i].stage \in {"deleting", "removing"}
  BY <1>1, <1>4, AtWork DEF UploadInv, TypeOKUploads, Work, Apart, f
<1>6. Touches(r, g, n)
  BY <1>1, <1>4, AtWork DEF Touches
<1>7. request'[r] = n
  BY <1>1, AtWork DEF UploadInv, TypeOKUploads
<1>8. Work(r)'
  BY <1>3, <1>7 DEF Work
<1>9. ASSUME NEW i \in Requests \ {r}, request[i].file = g
      PROVE  Work(i)' /\ Apart(r, i)' /\ Apart(i, r)'
  <2>1. request'[i] = request[i] /\ request[i].stage \in {"deleting", "removing"}
    BY <1>1, <1>5, <1>9
  <2>2. Work(i)
    BY AtWork
  <2> QED
    BY <1>1, <1>3, <1>7, <2>1, <2>2 DEF Work, Apart
<1>10. /\ used' \subseteq Files /\ used \subseteq used'
       /\ stored' \union dropped' \union stuck' \subseteq used'
  BY <1>1, <1>4, <1>5, AtWork
<1>11. owner'[g] # Nobody /\ disk'[g] # "partial"
  BY <1>1, <1>4 DEF UploadInv, RowsNeverSeePartialFiles
<1>12. g \in stored' \ dropped' => disk'[g] = "whole"
  BY <1>1, <1>5
<1>13. owner'[g] # Nobody \/ disk'[g] # "none" => g \in used'
  BY <1>1, <1>5
<1> QED
  BY <1>3, <1>5, <1>6, <1>8, <1>9, <1>10, <1>11, <1>12, <1>13, LocalStep

-----------------------------------------------------------------------------
(* The steps of a delete, and a crash *)

\* Deleting begins with the row, so with a file that no upload can yet undo
\* without its row.
LEMMA BeginDeleteKeepsUploadInv ==
    ASSUME UploadInv, NEW r \in Requests, NEW u \in Users, NEW f \in Files,
           BeginDelete(r, u, f)
    PROVE  UploadInv'
<1> DEFINE n == [stage |-> "deleting", user |-> u, file |-> f, left |-> 0]
<1>1. /\ request[r].stage = "idle" /\ owner[f] = u
      /\ request' = [request EXCEPT ![r] = n]
      /\ dropped' = dropped \union {f}
      /\ UNCHANGED <<owner, disk, used, stored, stuck>>
  BY DEF BeginDelete, At, Goto
<1>2. n \in UploadRequest /\ n.stage = "deleting" /\ n.file = f
  BY DEF UploadRequest
<1> HIDE DEF n
<1>3. /\ request'[r] = n /\ request[r].file = NoFile
      /\ owner[f] # Nobody /\ f \in used
      /\ used' \subseteq Files /\ used \subseteq used'
      /\ stored' \union dropped' \union stuck' \subseteq used'
  BY <1>1, AtWork DEF UploadInv, TypeOKUploads, Work
<1>4. Touches(r, f, n)
  BY <1>1, AtWork DEF Touches
<1>5. Work(r)'
  BY <1>1, <1>2, <1>3 DEF Work
<1>6. ASSUME NEW i \in Requests \ {r}, request[i].file = f
      PROVE  Work(i)' /\ Apart(r, i)' /\ Apart(i, r)'
  <2>1. request'[i] = request[i] /\ Work(i)
    BY <1>1, AtWork
  <2>2. request[i].stage \notin {"writing", "inserting"}
    BY <1>3, <1>6, <2>1 DEF Work
  <2>3. Work(i)'
    BY <1>1, <2>1, <2>2 DEF Work
  <2>4. Apart(r, i)' /\ Apart(i, r)'
    BY <1>2, <1>3, <2>1, <2>2 DEF Apart
  <2> QED
    BY <2>3, <2>4
<1>7. disk[f] # "partial"
  BY <1>3 DEF UploadInv, RowsNeverSeePartialFiles
<1> QED
  BY <1>1, <1>2, <1>3, <1>4, <1>5, <1>6, <1>7, LocalStep

\* The file of a delete disappears or is stuck; its row is still there or not.
LEMMA DeleteFileKeepsUploadInv ==
    ASSUME UploadInv, NEW r \in Requests, DeleteFile(r)
    PROVE  UploadInv'
<1> DEFINE f == request[r].file
           n == [request[r] EXCEPT !.stage = "removing"]
<1>1. /\ request[r].stage = "deleting" /\ Unlink(f)
      /\ request' = [request EXCEPT ![r] = n]
      /\ UNCHANGED <<owner, used, stored, dropped>>
  BY DEF DeleteFile, At, Goto
<1>2. /\ n \in UploadRequest /\ n.stage = "removing" /\ n.file = f
  BY AtWork DEF UploadRequest
<1>3. PICK g \in Files : g = f
  BY <1>1, AtWork
<1>4. \/ disk' = [disk EXCEPT ![g] = "none"] /\ UNCHANGED stuck
      \/ stuck' = stuck \union {g} /\ UNCHANGED disk
  BY <1>1, <1>3 DEF Unlink
<1> HIDE DEF n, f
<1>5. /\ request'[r] = n /\ g \in dropped /\ g \in used /\ request[r].file = g
      /\ \A i \in Requests \ {r} : request[i].file = g =>
            request[i].stage \notin {"writing", "inserting"}
  <2>1. Work(r)
    BY AtWork
  <2>2. request'[r] = n
    BY <1>1, AtWork DEF UploadInv, TypeOKUploads
  <2>3. g \in dropped /\ g \in used /\ request[r].file = g
    BY <1>1, <1>3, <2>1 DEF Work, f
  <2> QED
    BY <2>2, <2>3, AtWork DEF Work
<1>6. /\ Touches(r, g, n)
      /\ disk'[g] = "none" \/ g \in stuck'
      /\ disk'[g] = "none" \/ disk'[g] = disk[g]
      /\ g \in stuck => g \in stuck'
  BY <1>1, <1>3, <1>4, AtWork DEF Touches
<1>7. Work(r)'
  BY <1>1, <1>2, <1>3, <1>5, <1>6 DEF Work
<1>8. ASSUME NEW i \in Requests \ {r}, request[i].file = g
      PROVE  Work(i)' /\ Apart(r, i)' /\ Apart(i, r)'
  <2>1. /\ request'[i] = request[i] /\ Work(i)
        /\ request[i].stage \notin {"writing", "inserting"}
    BY <1>1, <1>5, <1>8, AtWork
  <2>2. Work(i)'
    BY <1>1, <1>5, <1>6, <1>8, <2>1 DEF Work
  <2>3. Apart(r, i)' /\ Apart(i, r)'
    BY <1>2, <1>5, <2>1 DEF Apart
  <2> QED
    BY <2>2, <2>3
<1>9. /\ used' \subseteq Files /\ used \subseteq used'
      /\ stored' \union dropped' \union stuck' \subseteq used'
  BY <1>1, <1>4, <1>5, AtWork
<1>10. owner'[g] # Nobody => disk'[g] # "partial"
  BY <1>1, <1>6 DEF UploadInv, RowsNeverSeePartialFiles
<1> QED
  BY <1>1, <1>2, <1>3, <1>5, <1>6, <1>7, <1>8, <1>9, <1>10, LocalStep DEF f

\* The row goes, or stays if the commit fails, after the file.
LEMMA EndDeleteKeepsUploadInv ==
    ASSUME UploadInv, NEW r \in Requests, RemoveRow(r) \/ RemoveFails(r)
    PROVE  UploadInv'
<1>1. PICK g \in Files : g = request[r].file
  BY AtWork DEF RemoveRow, RemoveFails, At
<1>2. /\ request[r].stage = "removing"
      /\ request' = [request EXCEPT ![r] = IdleRequest]
      /\ owner' = [owner EXCEPT ![g] = Nobody] \/ UNCHANGED owner
      /\ UNCHANGED <<disk, used, stored, dropped, stuck>>
  BY <1>1 DEF RemoveRow, RemoveFails, At, Goto
<1>3. /\ g \in dropped /\ g \in used /\ request[r].file = g
      /\ disk[g] = "none" \/ g \in stuck
  <2>1. Work(r)
    BY AtWork
  <2> QED
    BY <1>1, <1>2, <2>1 DEF Work
<1>4. request'[r] = IdleRequest
  BY <1>2, AtWork DEF UploadInv, TypeOKUploads
<1>5. Touches(r, g, IdleRequest)
  BY <1>2, <1>3, AtWork DEF Touches
<1>6. Work(r)'
  BY <1>4, AtWork DEF Work
<1>7. ASSUME NEW i \in Requests \ {r}, request[i].file = g
      PROVE  Work(i)' /\ Apart(r, i)' /\ Apart(i, r)'
  <2>1. /\ request'[i] = request[i] /\ Work(i)
    BY <1>2, AtWork
  <2>2. request[i].stage \notin {"writing", "inserting"}
    BY <1>3, <1>7, <2>1 DEF Work
  <2>3. Work(i)'
    BY <1>2, <1>3, <1>7, <2>1, <2>2 DEF Work
  <2>4. Apart(r, i)' /\ Apart(i, r)'
    BY <1>3, <1>4, <1>7, <2>1, AtWork DEF Apart
  <2> QED
    BY <2>3, <2>4
<1>8. /\ used' \subseteq Files /\ used \subseteq used'
      /\ stored' \union dropped' \union stuck' \subseteq used'
  BY <1>2, AtWork
<1>9. owner'[g] # Nobody => disk'[g] # "partial"
  BY <1>2, <1>3, AtWork DEF UploadInv, RowsNeverSeePartialFiles
<1> QED
  BY <1>2, <1>3, <1>5, <1>6, <1>7, <1>8, <1>9, AtWork, LocalStep

\* A crash ends all requests and counts what they held as stuck.
LEMMA CrashKeepsUploadInv == UploadInv /\ CrashUploads => UploadInv'
<1> SUFFICES ASSUME UploadInv, CrashUploads PROVE UploadInv'
  OBVIOUS
<1>1. IdleRequest \in UploadRequest /\ IdleRequest.stage = "idle"
      /\ IdleRequest.file = NoFile
  BY DEF IdleRequest, UploadRequest
<1>2. /\ request' = [r \in Requests |-> IdleRequest]
      /\ stuck' = stuck \union ({request[r].file : r \in Requests} \ {NoFile})
      /\ UNCHANGED <<owner, disk, used, stored, dropped>>
  BY DEF CrashUploads
<1>3. \A r \in Requests : request[r].file \in used \union {NoFile}
  BY DEF UploadInv, TypeOKUploads
<1>4. stuck' \subseteq used
  BY <1>2, <1>3 DEF UploadInv, TypeOKUploads
<1>5. TypeOKUploads'
  BY <1>1, <1>2, <1>4 DEF UploadInv, TypeOKUploads
<1>6. \A r \in Requests : Work(r)'
  BY <1>1, <1>2 DEF Work
<1>7. \A r, i \in Requests : Apart(r, i)'
  BY <1>1, <1>2 DEF Apart
<1>8. NoFileIsForgotten'
  BY <1>2 DEF UploadInv, NoFileIsForgotten, Holds
<1> QED
  BY <1>2, <1>5, <1>6, <1>7, <1>8
     DEF UploadInv, RowsNeverSeePartialFiles, StoredUploadsKeepTheirFile

-----------------------------------------------------------------------------
\* Every step keeps the invariant.
LEMMA StepKeepsUploadInv == UploadInv /\ [NextUploads]_uploadVars => UploadInv'
<1> SUFFICES ASSUME UploadInv, [NextUploads]_uploadVars PROVE UploadInv'
  OBVIOUS
<1>1. ASSUME NEW r \in Requests, NEW u \in Users, NEW k \in 1 .. MaxFiles,
             BeginUpload(r, u, k)
      PROVE  UploadInv'
  <2> DEFINE n == [stage |-> "storing", user |-> u, file |-> NoFile, left |-> k]
  <2>1. /\ n \in UploadRequest /\ n.stage = "storing" /\ n.file = NoFile
        /\ n.left >= 1 /\ n.user \in Users
    BY DEF UploadRequest
  <2>2. Goto(r, n)
    BY <1>1 DEF BeginUpload
  <2> HIDE DEF n
  <2>3. request[r].file = NoFile
    BY <1>1, AtWork DEF BeginUpload, At, Work
  <2> QED
    BY <1>1, <2>1, <2>2, <2>3, EmptyHanded DEF BeginUpload
<1>2. ASSUME NEW r \in Requests, RefuseFile(r) PROVE UploadInv'
  <2>1. CASE At(r, "storing") /\ UNCHANGED <<disk, stuck>>
    <3>1. request[r].file = NoFile
      BY <2>1, AtWork DEF At, Work
    <3> QED
      BY <1>2, <2>1, <3>1, AtWork, EmptyHanded DEF RefuseFile
  <2>2. CASE At(r, "writing") /\ Unlink(request[r].file)
    BY <1>2, <2>2, GiveUpKeepsUploadInv DEF RefuseFile, At
  <2> QED
    BY <1>2, <2>1, <2>2 DEF RefuseFile
<1>3. ASSUME NEW r \in Requests, UndoUpload(r) PROVE UploadInv'
  BY <1>3, GiveUpKeepsUploadInv DEF UndoUpload, At
<1>4. ASSUME NEW r \in Requests, PrepareFails(r) PROVE UploadInv'
  BY <1>4, GiveUpKeepsUploadInv DEF PrepareFails, At
<1>5. ASSUME NEW r \in Requests, Upload(r) PROVE UploadInv'
  BY <1>1, <1>2, <1>3, <1>4, <1>5, CreateKeepsUploadInv, WriteKeepsUploadInv,
     InsertKeepsUploadInv, StoredKeepsUploadInv DEF Upload
<1>6. ASSUME NEW r \in Requests, Delete(r) PROVE UploadInv'
  BY <1>6, BeginDeleteKeepsUploadInv, DeleteFileKeepsUploadInv,
     EndDeleteKeepsUploadInv DEF Delete
<1>7. CASE UNCHANGED uploadVars
  BY <1>7 DEF uploadVars, UploadInv, TypeOKUploads, Work, Apart,
              RowsNeverSeePartialFiles, StoredUploadsKeepTheirFile,
              NoFileIsForgotten, Holds
<1> QED
  BY <1>5, <1>6, <1>7, CrashKeepsUploadInv DEF NextUploads, UploadStep

-----------------------------------------------------------------------------
(* The theorems *)

\* Rows, files and requests keep their types, and names are drawn once.
THEOREM UploadsTypeCorrect == SpecUploads => []TypeOKUploads
<1>1. UploadInv => TypeOKUploads
  BY DEF UploadInv
<1> QED
  BY <1>1, InitUploadInv, StepKeepsUploadInv, PTL DEF SpecUploads

\* No row refers to a half-written file.
THEOREM RowsHaveWholeFiles == SpecUploads => []RowsNeverSeePartialFiles
<1>1. UploadInv => RowsNeverSeePartialFiles
  BY DEF UploadInv
<1> QED
  BY <1>1, InitUploadInv, StepKeepsUploadInv, PTL DEF SpecUploads

\* An upload that was reported as stored keeps row and file until somebody asks
\* to delete it.
THEOREM StoredUploadsStay == SpecUploads => []StoredUploadsKeepTheirFile
<1>1. UploadInv => StoredUploadsKeepTheirFile
  BY DEF UploadInv
<1> QED
  BY <1>1, InitUploadInv, StepKeepsUploadInv, PTL DEF SpecUploads

\* Every file without a row is in a request's hands, or was left by a failed
\* unlink, by a failure between store_upload and the try, or by a crash.
THEOREM FilesAreAccountedFor == SpecUploads => []NoFileIsForgotten
<1>1. UploadInv => NoFileIsForgotten
  BY DEF UploadInv
<1> QED
  BY <1>1, InitUploadInv, StepKeepsUploadInv, PTL DEF SpecUploads
=============================================================================
