------------------------------- MODULE Files -------------------------------
(***************************************************************************)
(* FilesService, LocalFileStore and the MIME policy (core/files): an       *)
(* upload is checked, its bytes are stored under a path made of the day    *)
(* and their sha256, and a row with the unique sha256 is created.  The two *)
(* stores share no transaction.  Contents stand for their sha256; of an    *)
(* SVG they say how many passes of the sanitizer would leave it clean.     *)
(***************************************************************************)
EXTENDS Naturals, FiniteSets, PlatformFaults

CONSTANTS
  Users, Admins,   \* Admins have admin:read:any_file
  Uploads,         \* requests that upload
  Days,            \* the days of the paths, 1 .. n
  Claims, Purposes \* the types and purposes an instance looks at

VARIABLES
  disk,       \* whole files: their content, extension and day
  temps,      \* uploads that left a file in temp/
  files,      \* the row of a content, or None
  today,
  upload,     \* what an upload brings, or None
  storedPath,     \* the path that put computed for an upload, or None
  uploadAt    \* where an upload is

fileVars == <<disk, temps, files, today, upload, storedPath, uploadAt, faults>>

\* "refuse": a store refuses or the process dies; "shared": two users upload the same
\* content; "midnight": the day changes; "removal": files are soft-deleted;
\* "retype": a content is uploaded under two types; "nested": an SVG is uploaded whose
\* markup one pass of the sanitizer does not clean.
FileFaults == {"refuse", "shared", "midnight", "removal", "retype", "nested"}

Kinds == {"png", "svg", "text", "exe"}

\* passes: 0 of what the sanitizer leaves as it is, 1 of what it cleans, 2 of markup that
\* closes around what it takes out.
Contents == [kind : {"png", "text", "exe"}, passes : {0}] \cup [kind : {"svg"}, passes : 0 .. 2]

MIME_ALLOWLIST_BY_PURPOSE ==
  [avatar |-> {"image/png"}, document |-> {"application/pdf"},
   image |-> {"image/png", "image/svg+xml"}, text |-> {"text/plain"}]

Body == [owner : Users, content : Contents, claim : Claims, purpose : Purposes]
File == [content : Contents, type : Claims, day : Days]
FileRow == [owner : Users, type : Claims, path : File, deleted : BOOLEAN]

ASSUME FilesAssumption ==
  /\ None \notin Body \cup File \cup FileRow
  /\ 1 \in Days
  /\ Purposes \subseteq DOMAIN MIME_ALLOWLIST_BY_PURPOSE

FilesTypeOK ==
  /\ disk \subseteq File
  /\ temps \subseteq Uploads
  /\ files \in [Contents -> FileRow \cup {None}]
  /\ today \in Days
  /\ upload \in [Uploads -> Body \cup {None}]
  /\ uploadAt \in [Uploads -> 
                      {"idle", "stat", "temp", "rename", "insert", "done", "failed"}]
  /\ storedPath \in [Uploads -> File \cup {None}]
  /\ faults \in FaultSets

FilesInit ==
  /\ disk = {}
  /\ temps = {}
  /\ files = [c \in Contents |-> None]
  /\ today = 1
  /\ upload = [u \in Uploads |-> None]
  /\ storedPath = [u \in Uploads |-> None]
  /\ uploadAt = [u \in Uploads |-> "idle"]
  /\ faults \in FaultSets
-----------------------------------------------------------------------------
(* The checks of upload *)

\* fallbackMimeFromContent: a textual claim is believed of bytes that look textual,
\* and of an SVG only if they look like one.
fallbackMimeFromContent(content, claim) ==
  IF \/ claim = "text/plain" /\ content.kind \in {"text", "svg"}
     \/ claim = "image/svg+xml" /\ content.kind = "svg"
  THEN claim ELSE "application/octet-stream"

\* fileTypeFromBuffer knows the signatures of binary formats only.
SniffedMime(content, claim) ==
  CASE content.kind = "png" -> "image/png"
    [] content.kind = "exe" -> "application/x-msdownload"
    [] OTHER -> fallbackMimeFromContent(content, claim)

Accepts(body) ==
  /\ SniffedMime(body.content, body.claim) = body.claim
  /\ body.claim \in MIME_ALLOWLIST_BY_PURPOSE[body.purpose]

\* sanitizeSvg, when it does not refuse: each pattern is replaced once, from left to right.
sanitizeSvg(content) == [content EXCEPT !.passes = IF @ = 0 THEN 0 ELSE @ - 1]

BytesToStore(body) ==
  IF body.claim = "image/svg+xml" THEN sanitizeSvg(body.content) ELSE body.content

ToUpload(u, step) == uploadAt' = [uploadAt EXCEPT ![u] = step]

\* Contents that meet although the instance does not look at such meetings.
Clashes(body) ==
  \E u \in Uploads : upload[u] # None /\ BytesToStore(upload[u]) = BytesToStore(body) /\
    \/ "shared" \notin faults /\ upload[u].owner # body.owner
    \/ "retype" \notin faults /\ upload[u].claim # body.claim

\* The checks of upload; one that fails them changes nothing.  An SVG that loses a
\* tenth of its text to the sanitizer is refused as well, another one is not.
BeginUpload(u, body) ==
  /\ uploadAt[u] = "idle"
  /\ Accepts(body)
  /\ ~Clashes(body)
  /\ "nested" \in faults \/ body.content.passes < 2
  /\ upload' = [upload EXCEPT ![u] = body]
  /\ ToUpload(u, "stat")
  /\ UNCHANGED <<disk, temps, files, today, storedPath, faults>>
-----------------------------------------------------------------------------
(* LocalFileStore.put, and the row *)

buildStoragePath(u) ==
  [content |-> BytesToStore(upload[u]), type |-> upload[u].claim, day |-> today]

\* The path is made here; the file that may be there already is not written again.
Stat(u) ==
  /\ uploadAt[u] = "stat"
  /\ storedPath' = [storedPath EXCEPT ![u] = buildStoragePath(u)]
  /\ ToUpload(u, IF buildStoragePath(u) \in disk THEN "insert" ELSE "temp")
  /\ UNCHANGED <<disk, temps, files, today, upload, faults>>

WriteTemp(u) ==
  /\ uploadAt[u] = "temp"
  /\ temps' = temps \cup {u}
  /\ ToUpload(u, "rename")
  /\ UNCHANGED <<disk, files, today, upload, storedPath, faults>>

\* The rename makes the whole file appear at once.
Rename(u) ==
  /\ uploadAt[u] = "rename"
  /\ temps' = temps \ {u}
  /\ disk' = disk \cup {storedPath[u]}
  /\ ToUpload(u, "insert")
  /\ UNCHANGED <<files, today, upload, storedPath, faults>>

\* A rename that fails takes the temporary file away.
RenameFails(u) ==
  /\ "refuse" \in faults
  /\ uploadAt[u] = "rename"
  /\ temps' = temps \ {u}
  /\ ToUpload(u, "failed")
  /\ UNCHANGED <<disk, files, today, upload, storedPath, faults>>

NewFileRow(u) ==
  [owner |-> upload[u].owner, type |-> upload[u].claim, path |-> storedPath[u], deleted |-> FALSE]

\* Mutation of CreateRow: a second upload of a content takes its row over.
TakeRowOver(u) ==
  /\ uploadAt[u] = "insert"
  /\ files' = [files EXCEPT ![storedPath[u].content] = NewFileRow(u)]
  /\ ToUpload(u, "done")
  /\ UNCHANGED <<disk, temps, today, upload, storedPath, faults>>

\* The row, or (P2002) the row that has the sha256 already, whoever owns it and
\* deleted or not.
CreateRow(u) ==
  /\ uploadAt[u] = "insert"
  /\ files' = IF files[storedPath[u].content] = None
              THEN [files EXCEPT ![storedPath[u].content] = NewFileRow(u)] ELSE files
  /\ ToUpload(u, "done")
  /\ UNCHANGED <<disk, temps, today, upload, storedPath, faults>>

\* The disk or the database refuses, or the process dies: nothing is cleaned up.
UploadDies(u) ==
  /\ "refuse" \in faults
  /\ uploadAt[u] \in {"stat", "temp", "rename", "insert"}
  /\ ToUpload(u, "failed")
  /\ UNCHANGED <<disk, temps, files, today, upload, storedPath, faults>>
-----------------------------------------------------------------------------
(* Deletion, reading, and the clock *)

\* findById and softDelete: the owner alone; the bytes stay.
softDelete(c, user) ==
  /\ "removal" \in faults
  /\ files[c] # None
  /\ files[c].owner = user
  /\ ~files[c].deleted
  /\ files' = [files EXCEPT ![c].deleted = TRUE]
  /\ UNCHANGED <<disk, temps, today, upload, storedPath, uploadAt, faults>>

\* A stranger is told NOT_FOUND of a deleted file too.
findReadableById(c, user) ==
  IF files[c] = None \/ user \notin {files[c].owner} \cup Admins THEN "NOT_FOUND"
  ELSE IF files[c].deleted THEN "GONE" ELSE "OK"

streamForDownload(c, user) ==
  IF findReadableById(c, user) = "OK" /\ files[c].path \notin disk
  THEN "NOT_FOUND" ELSE findReadableById(c, user)

Midnight ==
  /\ "midnight" \in faults
  /\ today + 1 \in Days
  /\ today' = today + 1
  /\ UNCHANGED <<disk, temps, files, upload, storedPath, uploadAt, faults>>

FilesDone ==
  /\ \A u \in Uploads : uploadAt[u] \in {"done", "failed"}
  /\ UNCHANGED fileVars

FilesNext ==
  \/ \E u \in Uploads :
       \/ \E body \in Body : BeginUpload(u, body)
       \/ Stat(u) \/ WriteTemp(u) \/ Rename(u) \/ RenameFails(u) \/ CreateRow(u) \/ UploadDies(u)
  \/ \E c \in Contents, user \in Users : softDelete(c, user)
  \/ Midnight
  \/ FilesDone

FilesSpec == FilesInit /\ [][FilesNext]_fileVars
-----------------------------------------------------------------------------
(* Properties *)

\* Whatever fails between the store and the database, and whichever day it is, the
\* path of a row leads to a whole file with its content (files.service.ts, "5. Hand
\* to the FileStore", before "6. Persist a row").
RowHasBytes ==
  \A c \in Contents : files[c] # None =>
    files[c].path \in disk /\ files[c].path.content = c /\ files[c].path.type = files[c].type

\* What is served as SVG is always what the sanitizer made of an upload, although the
\* same bytes may have been stored before under another type; and the sanitizer would
\* leave it as it is, unless nested markup was uploaded (sanitizeSvg).
NoRawSvg ==
  \A c \in Contents : files[c] # None /\ files[c].type = "image/svg+xml" =>
    /\ \E u \in Uploads : /\ uploadAt[u] = "done" /\ upload[u].claim = "image/svg+xml"
                          /\ sanitizeSvg(upload[u].content) = c
    /\ "nested" \in faults \/ sanitizeSvg(c) = c

\* A type that is not textual is that of the signature in the bytes, whatever the
\* client claims (the check against the sniffed type).
NoDisguise ==
  \A c \in Contents : files[c] # None =>
    \/ c.kind = "png" /\ files[c].type = "image/png"
    \/ c.kind \in {"text", "svg"} /\ files[c].type \in {"text/plain", "image/svg+xml"}

\* An answered upload can be read back by who made it, unless the row of its content
\* was another user's or is deleted: for those the code answers 200 with a file that
\* reads as NOT_FOUND or GONE (files.service.ts, the P2002 branch).
AnswerIsReadable ==
  \A u \in Uploads : uploadAt[u] = "done" /\ faults \cap {"shared", "removal"} = {} =>
    streamForDownload(storedPath[u].content, upload[u].owner) = "OK"

\* A row never changes hands: once a content belongs to a user, uploads of the same
\* content by others do not move, retype or revive it.
RowsAreCanonical ==
  [][\A c \in Contents : files[c] # None =>
       /\ files'[c].owner = files[c].owner
       /\ files'[c].type = files[c].type
       /\ files'[c].path = files[c].path
       /\ files[c].deleted => files'[c].deleted]_fileVars

\* A file without a row, or one in temp/, is the trace of an upload that failed or is
\* under way, of a content stored on two days, or of one stored under two types.
OrphansHaveCause ==
  /\ \A f \in disk :
       \/ files[f.content] # None /\ files[f.content].path = f
       \/ faults \cap {"refuse", "midnight", "retype"} # {}
       \/ \E u \in Uploads : uploadAt[u] = "insert" /\ storedPath[u] = f
  /\ \A u \in temps : "refuse" \in faults \/ uploadAt[u] = "rename"

\* (core/files/files.service.ts, local-file-store.ts) Whatever fails between the two stores
\* and however uploads of one content race: a row has its bytes and keeps its owner, path
\* and type, bytes are served as what they are, an SVG only as the sanitizer left it, and
\* files without a row have a cause.
FilesAgree ==
  /\ [](FilesTypeOK /\ RowHasBytes /\ OrphansHaveCause /\ AnswerIsReadable)
  /\ [](NoRawSvg /\ NoDisguise)
  /\ RowsAreCanonical
=============================================================================
