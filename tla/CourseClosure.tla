---------------------------- MODULE CourseClosure ----------------------------
(***************************************************************************)
(* Permanent deletion and privacy archive of a course (course_deletion.py, *)
(* course_privacy_archive.py, course_deletion_files.py and the two file    *)
(* guards), against the writers of course files.                           *)
(*                                                                         *)
(* SQLite and the file system cannot commit together.  Files move to a     *)
(* staging folder before the database commits; whether the folder is put   *)
(* back or erased is decided by the row the commit would have written.     *)
(* Materials are written inside a database transaction without a guard,    *)
(* checkpoints under the course guard without a row, bundles under the     *)
(* privacy guard with their row committed afterwards.                      *)
(***************************************************************************)
EXTENDS Integers, FiniteSets

CONSTANTS
    Courses,
    Materials, Checkpoints, Bundles,  \* the files a course may hold, by kind
    CourseOf,       \* the course of each material and checkpoint; a bundle has
                    \* none: it is named by its content and may be shared
    Administrators, \* threads that close courses
    Uploaders,      \* threads that store one file each
    MaxJobs,        \* bound: deletions and archives started
    MaxUploads,     \* bound: uploads started
    MaxCrashes,     \* bound: server crashes
    MaxWorkers,     \* bound: identities of the learning worker (one per root)
    None

Files == Materials \cup Checkpoints \cup Bundles
Workers == 1 .. MaxWorkers
Jobs == 1 .. MaxJobs
Closings == {"deletion", "privacy_archive"}
JournalRows == [job : Jobs, status : {"pending", "complete"}, context : Workers \cup {None}]
Manifests == [course : Courses, purpose : Closings, staged : SUBSET Files]

\* The kinds of files lie in directories of their own.
ASSUME ClosureAssumption ==
    /\ CourseOf \in [Materials \cup Checkpoints -> Courses]
    /\ (Materials \cup Checkpoints) \cap Bundles = {} /\ Materials \cap Checkpoints = {}
    /\ {MaxJobs, MaxUploads, MaxCrashes} \subseteq Nat /\ MaxWorkers \in Nat \ {0}
    /\ None \notin Courses \cup Files \cup Workers \cup JournalRows \cup Manifests

VARIABLES
    status,     \* admin_courses.status; "gone" when the row is deleted
    rows,       \* pairs <<course, file>>: database rows that name a file
    files,      \* files in their place under the data root
    folders,    \* .course-deletions: for each job, None or its manifest and
                \* the entries that are in the folder now
    archives,   \* admin_course_privacy_archives: None or a journal row
    deletions,  \* admin_course_deletions: None or a journal row
    marked,     \* courses with a .deleted marker
    worker,     \* the identity of the learning worker that answers
    spaces,     \* pairs <<worker, course>>: live learning spaces
    fence,      \* pairs <<worker, course>>: deleted_courses of each worker
    wire,       \* create requests the worker has not handled yet
    learning,   \* the course of the learning request in progress
    activating, \* courses whose activation passed its first check
    closing,    \* what each administrator's thread is doing
    upload,     \* what each uploader's thread is doing
    server,     \* "up", or the step of its start-up
    todo,       \* pending journals the start-up has still to visit
    occupied,   \* history: jobs whose rollback found a new file in the place
    jobs, uploads, crashes

dbVars == <<status, rows, archives, deletions>>
fileVars == <<files, folders, marked, occupied>>
workerVars == <<worker, spaces, fence, wire, learning>>
serverVars == <<server, todo>>
countVars == <<jobs, uploads, crashes>>
closureVars == <<status, rows, files, folders, archives, deletions, marked, worker,
          spaces, fence, wire, learning, activating, closing, upload, server,
          todo, occupied, jobs, uploads, crashes>>

Idle == [at |-> "idle"]

ClosureInit ==
    /\ status \in [Courses -> {"preparation", "active"}]
    /\ rows = {} /\ files = {} /\ marked = {} /\ occupied = {}
    /\ folders = [j \in Jobs |-> None]
    /\ archives = [c \in Courses |-> None]
    /\ deletions = [c \in Courses |-> None]
    /\ worker = 1 /\ spaces = {} /\ fence = {} /\ wire = {} /\ learning = None
    /\ activating = {}
    /\ closing = [a \in Administrators |-> Idle]
    /\ upload = [u \in Uploaders |-> Idle]
    /\ server = "up" /\ todo = {}
    /\ jobs = 0 /\ uploads = 0 /\ crashes = 0

---------------------------------------------------------------------------
(* Locks.  Each is held exactly in some steps of a thread.                 *)

\* SQLite's write lock, over a transaction that also touches files.
WriteLocked ==
    \/ \E a \in Administrators : closing[a].at \in {"reviewed", "moving"}
    \/ \E u \in Uploaders : upload[u].at = "stored" /\ upload[u].file \in Materials

\* Holders of the course guard (and, nested in it, of the privacy guard).
Clears(a, c) == closing[a].at \in {"moving", "undoing", "remote", "purging"}
                /\ closing[a].guarded /\ closing[a].course = c
Saves(u, c) == upload[u].at # "idle" /\ upload[u].file \in Checkpoints /\ upload[u].course = c

\* Holders of the privacy guard: an archive holds it alone, the others share it.
Archives(a) == closing[a].at # "idle" /\ closing[a].purpose = "privacy_archive"
Shares ==
    \/ learning # None
    \/ \E a \in Administrators, c \in Courses : Clears(a, c)
    \/ \E u \in Uploaders : upload[u].at # "idle" /\ upload[u].file \notin Materials
PrivacyAlone == \E a \in Administrators : Archives(a)

MayShare == ~PrivacyAlone
MayEnter(c) == MayShare /\ \A a \in Administrators : ~Clears(a, c)
NobodySaves(c) == \A u \in Uploaders : ~Saves(u, c)

CourseIsClosed(c) == archives[c] # None \/ deletions[c] # None

---------------------------------------------------------------------------
(* Writers of files.                                                       *)

\* The course accepts the upload: a material needs a course that is not
\* archived, the others a student of an active course.
Accepts(c, f) == status[c] \in IF f \in Materials THEN {"preparation", "active"} ELSE {"active"}

\* What must be free before the file is written.
MayStoreUnguarded(c, f) == f \in Materials => ~WriteLocked
MayStore(c, f) ==
    CASE f \in Materials   -> ~WriteLocked
      [] f \in Checkpoints -> MayEnter(c) /\ c \notin marked
      [] f \in Bundles     -> MayShare


StartUpload(u, c, f) ==
    /\ server = "up" /\ upload[u] = Idle /\ uploads < MaxUploads
    /\ f \notin Bundles => CourseOf[f] = c
    /\ Accepts(c, f) /\ MayStore(c, f)
    /\ upload' = [upload EXCEPT ![u] = [at |-> "stored", course |-> c, file |-> f]]
    /\ files' = IF f \in Checkpoints THEN files ELSE files \cup {f}
    /\ uploads' = uploads + 1
    /\ UNCHANGED <<dbVars, folders, marked, occupied, workerVars, serverVars,
                   activating, closing, jobs, crashes>>

\* A material's transaction commits; a bundle's admission checks the course
\* again inside its transaction; a checkpoint becomes visible in its index.
Store(u) ==
    LET c == upload[u].course  f == upload[u].file IN
    /\ server = "up" /\ upload[u].at = "stored"
    /\ f \in Bundles => ~WriteLocked /\ Accepts(c, f)
    /\ rows' = IF f \in Checkpoints THEN rows ELSE rows \cup {<<c, f>>}
    /\ files' = IF f \in Checkpoints THEN files \cup {f} ELSE files
    /\ upload' = [upload EXCEPT ![u] = Idle]
    /\ UNCHANGED <<status, archives, deletions, folders, marked, occupied, workerVars,
                   serverVars, activating, closing, countVars>>

\* The request fails after its file was written: the file stays without a row.
FailUpload(u) ==
    /\ server = "up" /\ upload[u].at = "stored"
    /\ upload' = [upload EXCEPT ![u] = Idle]
    /\ UNCHANGED <<dbVars, fileVars, workerVars, serverVars, activating, closing, countVars>>

---------------------------------------------------------------------------
(* Learning spaces on the worker.                                          *)

\* The request is authorized under the shared guard and sent to the worker.
AskSpace(c) ==
    /\ server = "up" /\ learning = None /\ MayShare /\ status[c] = "active"
    /\ learning' = c
    /\ wire' = wire \cup {<<worker, c>>}
    /\ UNCHANGED <<dbVars, fileVars, worker, spaces, fence, serverVars, activating,
                   closing, upload, countVars>>

\* The worker handles a request, perhaps long after its sender gave up.
Admits(s) == s \notin fence

CreateSpace(s) ==
    /\ s \in wire
    /\ wire' = wire \ {s}
    /\ spaces' = IF Admits(s) THEN spaces \cup {s} ELSE spaces
    /\ UNCHANGED <<dbVars, fileVars, worker, fence, learning, serverVars, activating,
                   closing, upload, countVars>>

\* The request ends: answered, refused or timed out.  It checks the student
\* again and cancels what it created; the worker may not answer.
EndSpace ==
    /\ server = "up" /\ learning # None
    /\ learning' = None
    /\ \/ UNCHANGED <<spaces, wire>>
       \/ /\ status[learning] # "active"
          /\ spaces' = spaces \ {<<worker, learning>>}
          /\ wire' = wire \ {<<worker, learning>>}
    /\ UNCHANGED <<dbVars, fileVars, worker, fence, serverVars, activating, closing,
                   upload, countVars>>

\* The worker is replaced by one with an empty root.
ReplaceWorker ==
    /\ worker < MaxWorkers
    /\ worker' = worker + 1
    /\ wire' = {}
    /\ UNCHANGED <<dbVars, fileVars, spaces, fence, learning, serverVars, activating,
                   closing, upload, countVars>>

\* cancel_course, bound to the worker the journal names.
MayCancel(context) == context = worker

Cancelled(c) ==
    /\ fence' = fence \cup {<<worker, c>>}
    /\ spaces' = spaces \ {<<worker, c>>}
    /\ UNCHANGED <<worker, wire, learning>>

---------------------------------------------------------------------------
(* Closing a course.                                                       *)

\* A material's files are found by name through the row of the material, which
\* an upload requires to exist (student_materials.py:418): the file of a failed
\* upload is found as well.  The copies of a failed create_revision, whose
\* material has no row, are found by nobody; they are not among the Materials.
Owned(c) == {f \in files : f \notin Bundles /\ CourseOf[f] = c}

\* plan_course_files keeps every content-addressed bundle; plan_privacy_files
\* takes those no other course's row names.
Unreferenced(c) == {f \in files \cap Bundles : ~\E d \in Courses \ {c} : <<d, f>> \in rows}

Planned(purpose, c) == Owned(c) \cup IF purpose = "deletion" THEN {} ELSE Unreferenced(c)

\* A deletion waits for the archive's cleanup: it erases the archive's journal.
NoCleanupNeeded(c) == TRUE
NoCleanupLeft(c) == archives[c] # None => archives[c].status = "complete"

\* The review under BEGIN IMMEDIATE finds what the preview showed.  The
\* worker's identity was asked first and may be unknown.
Review(a, c, purpose, context) ==
    /\ server = "up" /\ closing[a] = Idle /\ jobs < MaxJobs
    /\ status[c] # "gone" /\ ~WriteLocked
    /\ purpose = "privacy_archive" => archives[c] = None /\ ~Shares /\ ~PrivacyAlone
    /\ purpose = "deletion" => NoCleanupLeft(c)
    /\ jobs' = jobs + 1
    /\ closing' = [closing EXCEPT ![a] =
           [at |-> "reviewed", course |-> c, purpose |-> purpose, job |-> jobs + 1,
            plan |-> Planned(purpose, c), context |-> context, guarded |-> FALSE,
            failed |-> FALSE, retried |-> FALSE]]
    /\ UNCHANGED <<dbVars, fileVars, workerVars, serverVars, activating, upload,
                   uploads, crashes>>

\* stage(): the guards are taken without waiting, the plan is made again and
\* the manifest is durable before the first file moves.
PlannedAlways(op) == TRUE
StillPlanned(op) == Planned(op.purpose, op.course) = op.plan

Stage(a) ==
    LET op == closing[a]
        free == NobodySaves(op.course) /\ (op.purpose = "deletion" => MayEnter(op.course))
    IN
    /\ server = "up" /\ op.at = "reviewed"
    /\ free /\ StillPlanned(op)
    /\ folders' = [folders EXCEPT ![op.job] =
           [course |-> op.course, purpose |-> op.purpose, staged |-> {}]]
    /\ closing' = [closing EXCEPT ![a].at = "moving", ![a].guarded = TRUE]
    /\ UNCHANGED <<dbVars, files, marked, occupied, workerVars, serverVars, activating,
                   upload, countVars>>

\* One os.replace into the folder.
MoveFile(a, f) ==
    LET op == closing[a] IN
    /\ server = "up" /\ op.at = "moving" /\ f \in op.plan \cap files
    /\ files' = files \ {f}
    /\ folders' = [folders EXCEPT ![op.job].staged = @ \cup {f}]
    /\ UNCHANGED <<dbVars, marked, occupied, workerVars, serverVars, activating, closing,
                   upload, countVars>>

\* The transaction commits: rows and journal in one step.
Commit(a) ==
    LET op == closing[a]  c == op.course
        entry == [job |-> op.job, status |-> "pending", context |-> op.context]
    IN
    /\ server = "up" /\ op.at = "moving" /\ op.plan \cap files = {}
    /\ rows' = {r \in rows : r[1] # c}
    /\ IF op.purpose = "deletion"
         THEN /\ status' = [status EXCEPT ![c] = "gone"]
              /\ deletions' = [deletions EXCEPT ![c] = entry]
              /\ archives' = [archives EXCEPT ![c] = None]
         ELSE /\ status' = [status EXCEPT ![c] = "archived"]
              /\ archives' = [archives EXCEPT ![c] = entry]
              /\ UNCHANGED deletions
    /\ closing' = [closing EXCEPT ![a].at = "remote"]
    /\ UNCHANGED <<fileVars, workerVars, serverVars, activating, upload, countVars>>

\* Any step before the commit fails: a changed plan, a busy guard, a refused
\* administrator, an I/O error.  The transaction ends before the files return.
Abort(a) ==
    /\ server = "up" /\ closing[a].at \in {"reviewed", "moving"}
    /\ closing' = [closing EXCEPT ![a].at = "undoing"]
    /\ UNCHANGED <<dbVars, fileVars, workerVars, serverVars, activating, upload, countVars>>

---------------------------------------------------------------------------
(* Settling a folder: the journal decides whether its files are erased or  *)
(* return to their place.                                                  *)

Journal(purpose) == IF purpose = "deletion" THEN deletions ELSE archives
Committed(j) == \E c \in Courses : LET entry == Journal(folders[j].purpose)[c] IN
                                   entry # None /\ entry.job = j

Vacant(f) == f \notin files

\* One file of the folder; a marker precedes the first erasure of a deletion.
SettleFile(j, f) ==
    /\ folders[j] # None /\ f \in folders[j].staged
    /\ folders' = [folders EXCEPT ![j].staged = @ \ {f}]
    /\ IF Committed(j)
         THEN /\ marked' = IF folders[j].purpose = "deletion"
                             THEN marked \cup {folders[j].course} ELSE marked
              /\ UNCHANGED files
         ELSE /\ Vacant(f)
              /\ files' = files \cup {f}
              /\ UNCHANGED marked
    /\ UNCHANGED occupied

\* The emptied folder is removed.
DropFolder(j) ==
    /\ folders[j] # None /\ folders[j].staged = {}
    /\ folders' = [folders EXCEPT ![j] = None]
    /\ marked' = IF Committed(j) /\ folders[j].purpose = "deletion"
                   THEN marked \cup {folders[j].course} ELSE marked
    /\ UNCHANGED <<files, occupied>>

Settle(work) == \E j \in work : DropFolder(j) \/ \E f \in Files : SettleFile(j, f)
Gone(work) == \A j \in work : folders[j] = None

\* rollback(), after the transaction ended without its journal row.
Undo(a) ==
    LET op == closing[a] IN
    /\ server = "up" /\ op.at = "undoing"
    /\ \/ Settle({op.job}) /\ UNCHANGED closing
       \/ /\ Gone({op.job})
          /\ closing' = [closing EXCEPT ![a] = Idle]
          /\ UNCHANGED fileVars
       \/ /\ ~Gone({op.job}) /\ \E f \in folders[op.job].staged : ~Vacant(f)
          /\ occupied' = occupied \cup {op.job}
          /\ closing' = [closing EXCEPT ![a] = Idle]
          /\ UNCHANGED <<files, folders, marked>>
    /\ UNCHANGED <<dbVars, workerVars, serverVars, activating, upload, countVars>>

---------------------------------------------------------------------------
(* Cleanup after the commit.  What fails is left to the journal.           *)

\* archive() of a course that is archived already repeats its cleanup.
RetryArchive(a, c) ==
    /\ server = "up" /\ closing[a] = Idle /\ jobs < MaxJobs
    /\ archives[c] # None /\ ~Shares /\ ~PrivacyAlone
    /\ jobs' = jobs + 1
    /\ closing' = [closing EXCEPT ![a] =
           [at |-> "remote", course |-> c, purpose |-> "privacy_archive",
            job |-> archives[c].job, plan |-> {}, context |-> archives[c].context,
            guarded |-> FALSE, failed |-> FALSE, retried |-> TRUE]]
    /\ UNCHANGED <<dbVars, fileVars, workerVars, serverVars, activating, upload,
                   uploads, crashes>>

CancelRemote(a) ==
    LET op == closing[a] IN
    /\ server = "up" /\ op.at = "remote"
    /\ \/ /\ MayCancel(op.context) /\ Cancelled(op.course)
          /\ closing' = [closing EXCEPT ![a].at = "purging"]
       \/ /\ closing' = [closing EXCEPT ![a].at = "purging", ![a].failed = TRUE]
          /\ UNCHANGED workerVars
    /\ UNCHANGED <<dbVars, fileVars, serverVars, activating, upload, countVars>>

\* purge() of the own folder, or recover_course_files() over all of them.
Purge(a) ==
    LET op == closing[a]
        work == IF op.retried THEN Jobs ELSE {op.job}
    IN
    /\ server = "up" /\ op.at = "purging"
    /\ \/ Settle(work) /\ UNCHANGED closing
       \/ /\ closing' = [closing EXCEPT ![a].at = "recording", ![a].failed = @ \/ ~Gone(work)]
          /\ UNCHANGED fileVars
    /\ UNCHANGED <<dbVars, workerVars, serverVars, activating, upload, countVars>>

\* The journal is complete when nothing failed; an archive has more tasks (the
\* rubric ledger, the content history, the WAL) that may also fail.
Record(a) ==
    LET op == closing[a] IN
    /\ server = "up" /\ op.at = "recording" /\ ~WriteLocked
    /\ closing' = [closing EXCEPT ![a] = Idle]
    /\ IF op.purpose = "deletion"
         THEN /\ deletions' = IF op.failed THEN deletions
                              ELSE [deletions EXCEPT ![op.course].status = "complete"]
              /\ UNCHANGED archives
         ELSE /\ \E result \in IF op.failed THEN {"pending"} ELSE {"pending", "complete"} :
                     archives' = [archives EXCEPT ![op.course].status = result]
              /\ UNCHANGED deletions
    /\ UNCHANGED <<status, rows, fileVars, workerVars, serverVars, activating, upload, countVars>>

---------------------------------------------------------------------------
(* Activation: checked first, written in a later transaction, where a      *)
(* trigger refuses a course whose personal data was erased.                *)

CheckActivation(c) ==
    /\ server = "up" /\ status[c] = "preparation" /\ archives[c] = None
    /\ activating' = activating \cup {c}
    /\ UNCHANGED <<dbVars, fileVars, workerVars, serverVars, closing, upload, countVars>>

Reactivable(c) == archives[c] = None

Activate(c) ==
    /\ server = "up" /\ c \in activating /\ ~WriteLocked
    /\ activating' = activating \ {c}
    /\ status' = IF status[c] # "gone" /\ Reactivable(c)
                   THEN [status EXCEPT ![c] = "active"] ELSE status
    /\ UNCHANGED <<rows, archives, deletions, fileVars, workerVars, serverVars, closing,
                   upload, countVars>>

---------------------------------------------------------------------------
(* Crash and start-up (configure_course_deletion).                         *)

Crash ==
    /\ server # "down" /\ crashes < MaxCrashes
    /\ crashes' = crashes + 1
    /\ server' = "down" /\ todo' = {}
    /\ learning' = None /\ activating' = {}
    /\ closing' = [a \in Administrators |-> Idle]
    /\ upload' = [u \in Uploaders |-> Idle]
    /\ UNCHANGED <<dbVars, fileVars, worker, spaces, fence, wire, jobs, uploads>>

Start ==
    /\ server = "down"
    /\ server' = "files"
    /\ UNCHANGED <<dbVars, fileVars, workerVars, todo, activating, closing, upload, countVars>>

\* Every folder is settled first; one that cannot be stops the start-up.
Recover ==
    /\ server = "files"
    /\ \/ Settle(Jobs) /\ UNCHANGED serverVars
       \/ /\ Gone(Jobs)
          /\ server' = "journals"
          /\ todo' = {w \in Closings \X Courses : LET entry == Journal(w[1])[w[2]] IN
                          entry # None /\ entry.status = "pending"}
          /\ UNCHANGED fileVars
    /\ UNCHANGED <<dbVars, workerVars, activating, closing, upload, countVars>>

\* Each pending journal is tried once, archives before deletions.
FinishJournal(p, c) ==
    LET context == Journal(p)[c].context IN
    /\ server = "journals" /\ <<p, c>> \in todo
    /\ p = "deletion" => ~\E d \in Courses : <<"privacy_archive", d>> \in todo
    /\ todo' = todo \ {<<p, c>>}
    /\ \E remote, rest \in BOOLEAN :
           /\ IF remote THEN MayCancel(context) /\ Cancelled(c) ELSE UNCHANGED workerVars
           /\ IF remote /\ rest
                THEN IF p = "deletion"
                       THEN deletions' = [deletions EXCEPT ![c].status = "complete"] /\ UNCHANGED archives
                       ELSE archives' = [archives EXCEPT ![c].status = "complete"] /\ UNCHANGED deletions
                ELSE UNCHANGED <<archives, deletions>>
    /\ UNCHANGED <<status, rows, fileVars, server, activating, closing, upload, countVars>>

Serve ==
    /\ server = "journals" /\ todo = {}
    /\ server' = "up"
    /\ UNCHANGED <<dbVars, fileVars, workerVars, todo, activating, closing, upload, countVars>>

---------------------------------------------------------------------------
Writer ==
    \/ \E u \in Uploaders :
           \/ Store(u) \/ FailUpload(u)
           \/ \E c \in Courses, f \in Files : StartUpload(u, c, f)
    \/ \E c \in Courses : AskSpace(c) \/ CheckActivation(c) \/ Activate(c)
    \/ \E s \in wire : CreateSpace(s)
    \/ EndSpace \/ ReplaceWorker

Closer ==
    \E a \in Administrators :
        \/ \E c \in Courses :
               \/ RetryArchive(a, c)
               \/ \E p \in Closings, context \in {worker, None} :
                      Review(a, c, p, context)
        \/ Stage(a) \/ Commit(a) \/ Abort(a) \/ Undo(a)
        \/ \E f \in Files : MoveFile(a, f)
        \/ CancelRemote(a) \/ Purge(a) \/ Record(a)

Server ==
    \/ Crash \/ Start \/ Recover \/ Serve
    \/ \E p \in Closings, c \in Courses : FinishJournal(p, c)

ClosureNext == Writer \/ Closer \/ Server
ClosureSpec == ClosureInit /\ [][ClosureNext]_closureVars

---------------------------------------------------------------------------
(* Properties.                                                             *)

\* When the server is up and no course is being closed, an uncommitted job has
\* put every file back, and each row finds its file.  The exception is a
\* rollback that found its place taken by a material uploaded again between
\* the end of the transaction and the return of the files: nothing guards
\* that window (course_deletion.py:202-205).
RowsFindTheirFiles ==
    (server = "up" /\ \A a \in Administrators : closing[a] = Idle) =>
        /\ \A j \in Jobs : folders[j] # None => Committed(j) \/ j \in occupied
        /\ \A r \in rows : r[2] \in files \/ \E j \in occupied :
                               folders[j] # None /\ r[2] \in folders[j].staged

\* After the commit nothing brings the course back: no row, no file of its own
\* (by a late upload, a recovery or a second administrator) and no activation.
Closes(c) ==
    CourseIsClosed(c) =>
        /\ status'[c] \in {"archived", "gone"}
        /\ CourseIsClosed(c)'
        /\ \A r \in rows' \ rows : r[1] # c
        /\ occupied = {} => \A f \in files' \ files : f \in Bundles \/ CourseOf[f] # c

ClosedStaysClosed == [][\A c \in Courses : Closes(c)]_closureVars

\* A journal reads complete only when the course has no folder, no file and no
\* live space left on the worker it was closed against, and it stays so.
Clean(c, entry) ==
    /\ folders[entry.job] = None
    /\ occupied = {} => Owned(c) = {}
    /\ <<entry.context, c>> \notin spaces

CompleteMeansClean ==
    \A c \in Courses, p \in Closings :
        (Journal(p)[c] # None /\ Journal(p)[c].status = "complete") => Clean(c, Journal(p)[c])

\* Files and rows agree again once a closing is undone, and a finished one left none.
FilesFollowRows == RowsFindTheirFiles /\ CompleteMeansClean
=============================================================================
