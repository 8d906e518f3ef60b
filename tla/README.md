# A verification of the course service autograde

autograde is a course service.  Students sign in from an editor, download an
assignment bundle, edit it, and upload it; or they push a commit and submit its
hash; or a schedule collects their repositories.  A pool runs the instructor's
code on what came in, in a sandbox, and publishes the grade when the policy of the
assignment says so.  Around this stand the accounts and passwords, the authoring of
assignments, requests of an instructor to the editors of a class, learning spaces
that run on a second machine, and the closing of a course.

This directory holds TLA+ specifications of the parts whose state changes under
concurrency, failure and retries, TLC configurations that check them on small
instances, and TLAPS proofs that their most important properties hold for every
size of course.

Source paths are relative to the repository's package: `platform_*.py` and the other
Python files are in `src/autograde/`, the client is in `extensions/vscode/src/`.

## 1. The system

| component | state it keeps | operations | talks to | what makes it correct |
|---|---|---|---|---|
| **Bundle submission tables** (`platform_state.py`, bundle half) | releases with deadlines and availability; requests, receipts, idempotency keys, daily counters, results | admit, transition, record a grade, publish, extend a deadline, hide, archive, delete, restore | every component below; each call is one `BEGIN IMMEDIATE` transaction | a key names one submission; limits hold under concurrency; grades match states; nothing is disclosed before the current deadline and nothing received after a disclosure |
| **Bundle grading pool** (`platform_bundle_worker.py`) | a bounded queue, `_enqueued`, `_stopping`, each thread's position | start (recovery first), notify, periodic recovery, process, stop | tables, grader, upload threads | at most one execution per submission across crashes; every accepted submission settles; held-back results are published eventually |
| **Bundle upload** (`submissionAttempt.ts`, `extension.ts`, `api.ts`; `platform_service.submit_bundle`) | the client's pending attempt and known submissions; the service's submission lock | submit, send, retry, give up; admit or replay | tables, pool (notify after the commit) | no admission is lost to its author, no lost answer costs a second attempt |
| **Course service lifecycle** (`platform_cli.py`) | an exclusive file lock per course | serve, stop, `submission process`, `submission publish` | pool, tables | one process grades a course |
| **Authentication** (`platform_state.py`, `platform_service.py`, `api.ts`) | device authorizations, codes, claims, passwords with a lockout, sessions, refresh-token families, an in-memory refresh flight | start, approve, consume, log in, rotate, revoke, change a password | every authorized call | a code is spent once; reuse of a rotated token revokes its family, a repeated answer does not; revocation leaves nothing; guessing is stopped |
| **Assignment authoring** (`assignment_admin.py`, `assignment_admin_operations.py`) | drafts, validation jobs, releases, batches | save, validate (a durable job), publish, archive, delete, restore, `bundle-check` | tables | a release is what was validated; an interrupted job is settled |
| **Git exact-SHA submissions** (`gitops.py`, `artifact_gc.py`, `platform_worker.py`, Git half of `platform_state.py`) | a cache per repository, preserved refs and archives; requests, receipts, results | fetch, preserve, collect garbage, submit, grade, publish | Git host, tables | a label means one commit for ever; a receipt keeps its archive; and what the bundle pipeline promises |
| **Scheduled polling** (`service.py`, `state.py`, `cli.py`, `scheduler.py`) | runs, collection and grade jobs, snapshots, the schedule's cursor | run a slot, resume, catch up, edit | Git collector | a collection is of its slot and final; the cursor skips nothing silently |
| **Classroom requests** (`classroom_*.py`, `classroomCommands.ts`) | command rows, client identities; what each window remembers | ask, poll, announce, run, report, expire | editor windows | a request runs at most once, in time, and its history is true |
| **Course membership** (`student_registration.py`, `student_accounts.py` and others) | accounts, identities, enrollments, lists of admissible numbers, course passwords, rosters | register, prove, list, match, change or recover a password | authentication | exactly the right students are matched; a replaced password opens nothing |
| **Course closure** (`course_deletion*.py`, `course_privacy_archive.py`, the file guards) | course status, journals, staged folders, fences, markers | delete, archive, recover at start-up | files, tables, learning worker | files and rows agree; what is closed stays closed |
| **Learning runtime** (`learning_runtime*.py`, `learning_checkpoints.py`) | spaces, containers, tombstones; saved versions | create, run, cancel, lapse, reap; save, replay, reclaim | client, Docker, course closure | nothing runs that nobody wants; a save is kept or erased |
| **Graders** (`platform_grader.py`) | sandboxes by name | create, start, wait, remove, reconcile | pool, container runtime | nothing runs unattended; grades are deserved |
| **The rest**: HTTP front end, portals, materials, exam papers, gradebook, rubrics, operations reports, backups | projections and files | mostly reads, atomic renames | | |

Hard behaviours (with their lines in `hazards` of `PROJECT.json`): times and rows
read before a lock and used after it; recovery that lists, then notifies, while
threads grade; crashes between "the instructor's code started" and "its result is
recorded"; a queue that drops notifications; files that move before the database
commits and are erased after it; a container command that is carried out after its
client gave up; answers that come late to a client that has moved on; a garbage
collector that looks before it takes the lock; two runners of one schedule.

## 2. The modules

    SubmissionLedger  <-implements-  BundlePool --EXTENDS--> BundleStore <--EXTENDS-- BundleUploads
          ^                                                       ^
          |                                                       +-- BundleStore_proofs <-- Bundle_proofs
          +---------implements---------  GitSubmissions <-- GitSubmissions_proofs
                                            | EXTENDS
                        PreservedJobs --> GitArtifacts

    SourceLabels  <-implements-  GitCache                     SharedCalls_proofs
          ^ used by (INSTANCE)
    CollectionRuns <--EXTENDS-- SchedulePolling <-- Polling_proofs

    SessionRefresh --> TokenFamilies <-- Credentials          SharedCalls_proofs
    Memberships, CourseClosure                                Courses_proofs
    AssignmentJobs, ClassroomRequests, GraderSandboxes        InstructorDesk_proofs
    LearningSpaces, LearningCheckpoints                       Learning_proofs

An `MC` module puts small instances of specifications side by side.  Where it takes
several that share no variable (`MCCourses`, `MCInstructorDesk`, `MCLearning`,
`MCSharedCalls`), a constant variable `part` says which of them moves in a
behaviour, so the state space is the sum and not the product of theirs.  Where one
specification is large, `part` or the `CONSTRAINT Focus` names the shapes of
behaviour a run follows; section 3 lists them.

Two abstract specifications stand above the detailed ones.  `SubmissionLedger` is
what either grading pipeline promises of a submission: accepted, executed at most
once, judged only after exactly one execution or failed, disclosed.  `SourceLabels`
is what the Git collector promises its users: a label is held and pinned at most at
one commit, which was the tip of the branch, and neither ever moves.

### Submissions of bundles

**BundleStore.**  One action per store method; each method is a single `BEGIN
IMMEDIATE` transaction, so an action is atomic and what interleaves are the callers.
The store has no clock: a caller hands over the time it read before it waited for
the lock (`at`), and `StoreNext` allows any time, however stale or premature, so a
theorem about `StoreSpec` assumes nothing about clocks.

| variable | column or table |
|---|---|
| `due`, `release` | `bundle_assignment_releases.due_at`; `active`, `ready` and the deletion list folded into hidden / public / archived / deleted |
| `signedIn` | students whose session, identity and enrolment pass `_active_bundle_session_row` |
| `state`, `request`, `receipt` | `bundle_submission_requests`, `bundle_submission_receipts` |
| `attempts` | `bundle_submission_admission_counters` |
| `results`, `publishedAt` | `bundle_submission_results` |

`Admit` is the whole of `create_accepted_bundle_submission` behind its checks: key
lookup, window, outstanding limit, daily limit, then the row, its receipt and the
counter.  Its replay and refusals change nothing in the tables and appear in
`BundleUploads`, where their answers matter.  `Contents` stands for the request hash.

**BundlePool.**  Worker threads with a program counter.  Each database call and each
use of the pool's lock is one step, so crashes, other threads, extensions and manual
publications come between any two.

| label of `pc` | code |
|---|---|
| `idle` | `queue.get` in `_run`, or the empty queue's recovery (`Take`, `Recover`) |
| `listPublishable`, `notify` | the second list and the loop of `recover` |
| `read` | `process` reads the row and its assignment |
| `queue`, `start` | the transitions to queued and running |
| `prepare`, `grading` | `workspace_builder.prepare`, `grader.grade`: `executions` counts each start of instructor code |
| `record`, `decide`, `publish` | the grade, the re-read assignment, the publication |
| `interrupt`, `fail` | the two uses of `_fail` |
| `done` | the `finally` clause that forgets the id |

`Main` is the main thread of whoever holds the course lock: a service in `start()`
or one `submission process`.  `Boot`, `Stop`, `Exit`, `Crash`, `ManualStart`,
`FinishManual` are the processes' lives; `ProcessGone` forgets all memory.  `Upload`
commits a row, and a separate `NotifyUpload` reaches the queue, finds it full or
finds the process dead; that also covers the shared multi-course worker of
`course_runtime.py`, which is never notified and lives on recovery.  `Raise` is an
exception that leaves `process()`, `RecoveryRaises` one that leaves a recovery.
`process` reads a submission and then its assignment in the one step `Read`: the
deadline matters only for a graded row, which `publish` checks again inside its
transaction.

**BundleUploads.**  The client uploads to an assignment the service listed, which it
does from `opens_at` on.  It keeps one pending attempt (content and idempotency
key) per assignment, sends the same body up to `SUBMISSION_MAX_ATTEMPTS` times,
clears the attempt on an answer it understands and keeps it when it gives up.  A
request it gave up may still be on the wire, wait for the submission lock, or commit
(`arriving`, `serving`).  `Enter`, `Replay`, `Decline`, `Create`, `Unavailable` are
`submit_bundle` in the order of the code: availability before and behind the lock,
then the key, and only then window and limits.  What the answers mean for the client
follows `isRetryableApiError`.

### Sessions

**TokenFamilies** holds the tables `platform_sessions`, `platform_token_families`
and `platform_refresh_tokens`.  A family belongs to exactly one session, so both
carry the session's name; the verifiers of a family are numbered in the order of
their rotations.  Its operators are the store methods, whole (`Rotate` with reuse
detection, limits, expiry; revocation; pruning).

**SessionRefresh** is one student's client (`TokenManager` of the VS Code extension
or, `cautious`, the Visual Studio client that forgets its tokens when an answer is
lost), the service threads that coalesce overlapping refreshes of one token
(`_refresh_flights`), and the durable rotation.  A login, a sign-out or a lost
answer may come between any two steps.

**Credentials** is how a student comes to a session: device authorizations,
activation codes, assignment claims, passwords with a lockout, and the password checks
that the service runs between two transactions.  Each `Form` in progress keeps the row
it read in `checks`, so that two equal guesses are two checks; the row is read before a
verification slot is awaited, so any number of forms hold one, and a slot only delays
a form or turns it away.  `guesses` is history: the wrong guesses answered since the
account was last locked or opened.
`Recent` are the times a caller may hold: at most `MaxWait` old.

### Memberships and the closing of a course

**Memberships** follows one student number: account, identity, enrollments, course
passwords, lists, codes and rosters.  `calls` are requests that carry the account or
the credential they were authenticated with and the password hashed before the
transaction; `papers` are list reviews and roster previews not yet applied.  A
verifier is a number, and `retired` are the ones the account had before.

**CourseClosure** is deletion and privacy archive with their journals, the staged
folders with their manifests, start-up recovery, the fence of the learning worker,
activation, and the three kinds of writers: materials inside a database transaction
without a guard, checkpoints under the course guard without a row, bundles under the
privacy guard with their row committed later.  `closing`, `upload` and `server` hold
program counters; a crash forgets them and keeps files, rows, folders and journals.

### What an instructor sets in motion

**AssignmentJobs**: drafts and revisions, the durable validation job whose claim,
check and finish are separate transactions, publish, hide, archive, delete, restore,
copies, confirmed batches, the operator's `bundle-check`, activation and archiving of
the course, shutdown and crash of the worker between any two.

**ClassroomRequests**: rows of the command table, the editor windows with the call
each waits for, calls given up that the server may still handle (`strays`), and a
clock that windows and server share.  A window polls, asks the student, announces
"accepted", acts once and reports.

**GraderSandboxes**: assessor threads, the service process that boots, reconciles,
drains and closes, a `bundle-check` beside it, and a runtime that may carry out a
create, start or remove after its client is gone (`stranded`).

### The learning runtime

**LearningSpaces**: the broker's requests and cancellations, which arrive late and
out of order (`inbox`), the worker's spaces under one lock, the container of each run
and the thread that starts it outside of the lock, tombstones, the fence of a deleted
course, leases that lapse, Docker failures with and without effect, and the worker's
death and restart.

**LearningCheckpoints**: one owner's index file, archives, Git references, loose and
packed objects, and the marker of a pending reclamation.  A save is the step sequence
of the code; it may fail or die after each step.

### Commits

**GitCache** is the collector `gitops.py`: processes that fetch into a bare cache and
preserve commits as archives and refs, under an `flock` per repository and one for
the quota of the store.  A snapshot's measurement and publication are two steps under
the second lock (a preserved archive is published by one rename).

**CollectionRuns** and **SchedulePolling** are the scheduled collection.  A run is
named by its key and executed under an `flock` by any number of callers; it pins
roster and inputs once, collects every repository with `SourceLabels`, and ends with a
verdict; grade jobs follow.  `SchedulePolling` adds the runner processes with their
event queue and worker threads, the catch-up policies and the durable cursor.

**GitArtifacts** are the archives, refs and workspaces with their age, and the
garbage collector `artifact_gc.py`, which lists without a lock and decides under it.
**GitSubmissions** is `platform_service.submit` with its threads, the grading worker,
the operator's commands and the collector on the same store: a request passes
`preflight`, `check`, `collect`, `publish`, `pin`, `stamp`, `admit` and `notify`, each
one transaction, one file operation or one reading of the clock, and the worker one
step per database call or grader run.  `day` of a row is a history variable, the day
its attempt was counted on.  **PreservedJobs** is the scheduled collection on the
same store.  Both assume what the comment of `artifact_gc.py` states:
the grace period outlasts the time a live process spends between a pin and its record.

## 3. What TLC checks

| run | instance | shows |
|---|---|---|
| `pool_safety` | two threads and the main thread, a queue of one, two submissions for assignments of two policies, times 0..1, two upsets (a crash, a stop, a manual run or an exception each) | `LiveGradingOwnsRow`, `EnqueuedIsWaitingOrBusy`; the refinement `ImplementsLedger` |
| `pool_liveness` | one thread, a queue of one, two submissions, times 0..2 with an extension, one upset | `EverySubmissionSettles`, `DueResultsArePublished` |
| `uploads` | `part` "uploads": one student, two keys, two bundles, three sends of a request, five in all or four once the deadline is extended, two tries of a call, and hiding or expiring requests; archived assignments and failed assessments are left to the tables. `part` "tables": every store method in any order with any time, two assignments, three submissions | `ResultsMatchStates`, `DisclosureIsFair`, `OneSubmissionPerKey`, `AdmissionLimits`, `NoUploadIsLost` |
| `command_expired` | the first part alone | violates `KnownOrPending` (finding 1) |
| `credentials` | one student; two sessions, devices, activation codes and passwords; one claim; times 0..2. `Focus`: devices and rotations alone; or activation codes; or passwords with claims, and two forms at once while there is no device or claim | `AccessIsSound`, `RevocationIsComplete`, `GuessesAreCounted`, `LockStands` |
| `shared_calls` | `part` "sessions": three refresh calls, two sessions, two rotations, two mishaps. `part` "sources": two processes, two labels of two repositories, two commits, a store of two units, three calls, one push, one crash | `ClientHoldsItsSession`, `ExchangedOnce`, `EveryRefreshAnswered`; `StoreIsKept`, `ImplementsLabels`, `CallsEnd` |
| `polling` | each catch-up policy, two runners with two threads, two repositories, an interval of two, a queue of one, times 0..4, one edit, one mishap. `Focus`: many events over sources that rest (two runners only until the first mishap), or one slot while sources, roster and configuration move | `PollingIsHonest`, `DecisionsStay`, `CursorIsHonest` |
| `learning` | `part` "versions": two keys, three archives of two contents, an index of two versions and one key, three saves, a repack. `part` "spaces": one owner, one space, one run, three requests with a trouble or a crash, two with both | `SavesAreKeptOrErased`; `NothingRunsUnwanted`, `EverySpaceEnds` |
| `git_submissions` | two assignments with a repository each, two commits, labels, keys and requests, a limit of one outstanding and two a day. `part` "requests": both request threads; "worker": grading, crashes, operator, recovery; "artifacts": the garbage collector against request and worker, the first request for the assignment that publishes at once | `ReceiptsAreKept`, `AdmissionIsHonest`, `ImplementsGitLedger`, `EverySourceSettles` |
| `preserved_jobs` | one collection job, one crash, one pass of the collector | violates `SnapshotsAreKept` (finding 2) |
| `courses` | `part` "members": one student number, two courses, three passwords, two calls and two papers under way. `part` "closure": two courses that may share a bundle, two administrators, one uploader, two closings, two uploads, one crash, two worker identities; with spaces, a crash or an activation meets one closing | `MatchingIsExact`, `OldPasswordsAreDead`; `FilesFollowRows`, `ClosedStaysClosed` |
| `instructor_desk` | `part` "jobs": two drafts, two jobs, two revisions, two checks of a release, one crash (with one draft). "classroom": two keys, two windows, two commands that live two ticks, three ticks, two troubles (fewer the later it is). "sandboxes": two assessors and a `bundle-check`, two sandboxes with two mishaps or three with one, two service processes | `ReleasesAreSound`, `ValidationIsHonest`; `RequestsRunOnce`, `NothingStartsLate`; `NothingRunsUnattended`, `GradesAreDeserved` |

**Why the bounds are enough.**  Each bound is the smallest at which the case the
property is about happens, and one more where two of a kind can meet.  A queue of one
with two submissions drops a notification; two threads and a recovery race for one
row; two upsets crash a process and then meet its leftover.  Times 0..2 hold "before",
"at" and "after" a deadline and an extension of it, and two UTC days.  Two sessions
are the least that can confuse a client, three refresh calls the least with a leader,
a waiter and a late repetition.  Two closings are an archive followed by a deletion;
one crash falls between any two of their steps and, by the restart, into the recovery.
Three sandboxes are one of the dead service, one of the living and one of the check.
Five uploads are two keys with a retry each, and one retry more.  Two guesses at once
are the least of which one can overwrite the count of the other.

**`Focus`, `VIEW` and `SYMMETRY`.**  `CONSTRAINT Focus` (in `MCGitSubmissions`,
`MCBundleUploads` and `MCLearning` a condition on the next state) keeps dimensions
from multiplying, for example two revisions with two drafts and two checks, or a
crash with two drafts; it is written and explained in each MC module.  Under fairness
the conditions stop only steps the specification does not owe: calls, crashes,
failures.  A run takes a minute or two with two workers.  `VIEW` in `courses` replaces a
password verifier by what it equals (the member's, an earlier one, another) and a
request of an account that has changed by nothing, because it will be refused; in
`credentials` it forgets which form a check belongs to and keeps how many are alike.
Symmetry is used only for sets whose members the specification does not tell apart,
and never in a run with a liveness property.

Deadlock checking is off everywhere: the bounds end every behaviour (clocks stop,
keys and ids run out).

Every action and every disjunct of the next-state relations fires in some passing
run.  Each property of a passing run has a mutant in `PROJECT.json`: a definition of
the code, changed as a plausible mistake would change it, makes TLC refute the
property.  The mutated forms stand before their originals in the modules.

**Fairness.**
- *Bundle pool* (`FairSpec`): each worker's own steps, the manual run's end, the start
  of a stopped or crashed service, the exit of a stopping process and the clock.
  Threads are scheduled by the operating system, `grade` has a time limit in every
  grader, `stop()` joins with a timeout, and a supervisor restarts the service.  Nobody
  need upload, notify, extend or publish by hand, and a notification may never come:
  liveness rests on recovery alone, as the code intends.
- *Git submissions*: the worker's thread and the start of the service, as above.
- *Refreshes and collector calls*: the threads of the server run, and a git command
  ends or is stopped by its timeout.  Clients owe nothing.
- *Learning spaces*: a lease passes, the reaper runs twice a second, and the service
  manager restarts the worker (`docs/operations/remote-learning-runtime.md:78`).
  Nothing is assumed of clients, brokers and programs.

Failures are bounded (`MaxUpsets`, `MaxMishaps`, `MaxTroubles`): a database that fails
for ever settles nothing, in the model as in the code.

## 4. What is proved

The theorems hold for every value of the constants that satisfies the `ASSUME` of the
module they are about: bounds and limits are natural numbers (positive where the code
insists), some sets of ids are finite, and the names for "nothing" are not data.  TLC
evaluates each assumption in a run.  The inductive invariants were themselves checked
by TLC on the small instances before they were proved.

**The tables of bundle submissions** (`BundleStore_proofs`).  `Inv` is inductive:
types, `RowsComplete` (request, receipt and state appear together),
`ResultsMatchStates`, `ReceivedInWindow`, `DueKept` (deadlines only move later) and
`DisclosedAfterDeadline`.  The last is not inductive by itself: that an extension
cannot slip behind a disclosure needs the relation of states to `publishedAt`.  From
`Inv` follow `StoreTypeCorrect`, `GradesMatch`, `DisclosureRespectsDeadline` and
`NoUploadAfterDisclosure`, together `FairDisclosure`: an upload came before the
deadline of its receipt, that deadline is at most the current one, and the disclosure
is not before the current one.  This holds for arbitrarily stale times.
`KeysAreIdempotent`, `OutstandingLimited` and `DailyLimited` (together
`AdmissionLimited`) add inductions of their own, which count with cardinalities.

**The pool** (`Bundle_proofs`).  `PoolInv` gives types, says that a worker holds a
submission exactly while it processes (`JobsHeld`), and relates lock, phase and
program counters (`Shape`).  The pool changes the tables only by their own operations
(the lemma `PoolUsesStore`), so all theorems about the tables hold of the running
system (`PoolKeepsPromises`); `_enqueued` is exactly what waits or is processed, each once
(`EnqueuedExact`); hence no two workers, the manual processor included, hold one
submission, and `Claims` is inductive: what each label implies about the row and
about the number of executions.  `GradingIsExclusive` and `PoolImplementsLedger`
follow: at most one execution, whatever crashes, restarts and exceptions interleave.

**Uploads** (`Bundle_proofs`).  `NoUploadIsLost` says where an upload that the client
drew a key for may have gone; the induction needs the place of *every* key.
`UploadInv` says that keys are drawn in order, that the pending key of a slot is its
newest (`PendingIsNewest`), that a call of the client uses the pending key of its slot
(`CallHoldsKey`), that requests on the wire and behind the lock carry keys that were
drawn (`RequestsAreMade`), and that a row is what its key was drawn for
(`RowsAreMade`).  Unless a release was hidden or extended or a command expired, every
key is pending, replaced by the student, known by its receipt, or turned away for good:
no row, the deadline passed, and nothing still behind the lock that read the clock
before it (`TurnedAway`).  `UploadsAreKept` follows.  `UploadsKeepLimits` carries the
theorems about keys and limits over to requests that are repeated, delayed and served
side by side.

**Git submissions** (`GitSubmissions_proofs`).  `GitInv` has three parts.
- `SourcesInv`: a label is drawn once and belongs to the request that drew it until it
  has a row; what a request pinned is there and young until it is admitted; a row has
  archive and ref; and a candidate of the collector belongs to no request.  The last
  needs the grace period (what is in hand is not old), and it is what lets the collector
  scan without a lock: a candidate without a row at the scan can never get one, and
  those with a row are known once the database has been read again (`ReceiptsStayKept`).
- `AdmissionInv`: keys are bound to rows of their assignment, answers stay true, one
  row per commit has not failed, and, the strengthening, the rows of a day *together
  with the requests in flight that were counted on it* are at most the attempts of the
  day.  So a request that was counted before midnight may be admitted after it and the
  daily limit still holds (`AdmissionStaysHonest`).
- `WorkInv`: what each step of the grading thread implies about its row and the number
  of executions.  It survives `submission publish` at any moment, because that touches a
  graded row only, and `artifacts gc`, because what is graded is running and not
  terminal.  With it every step is a step or a stutter of `SubmissionLedger`
  (`GitImplementsLedger`).

**Scheduled collections on the same store** (`GitSubmissions_proofs`).  Finding 2 shows
that a job interrupted between its fetch and its row may lose its archive.
`WholeJobsStayKept` shows that nothing else loses one: with any number of jobs, pushes,
crashes of other jobs and passes of the collector, a recorded snapshot whose job was
never interrupted (`interrupted`, a history variable) keeps archive and ref.  `JobsInv`
says that the files of such a job are young until it is recorded, so that the collector
finds old only what is recorded or was interrupted.  The theorem assumes that there is
a repository.

**Sessions** (`SharedCalls_proofs`).  `FamilyInv` relates a session, its family and its
tokens (a session is open exactly while its family is not revoked, tokens before the
current rotation are used, the daily counter counts the sessions of a day).
`RefreshInv` adds what client and server know of each other: a spent token never comes
back, and a client presents one twice only with an excuse (a lost answer).  From it
`ClientStaysWithItsSession` and `TokensAreExchangedOnce`.  `CredentialInv` says where
every code, claim and check came from; a step either grants something, and then its
guard shows that the chain of trust is whole, or is quiet and only takes away
(`AccessStaysSound`, `RevocationStaysComplete`).  `GuessingIsStopped`: the failures of
an account that was not locked since are exactly the wrong guesses answered, so however
many are verified at once, fewer than `MaxFailures` precede the lock.  `LocksStand` is the action property that no check, however early it read
the row, earns a claim under a lock or lifts it.

**Courses** (`Courses_proofs`).  `MembershipInv`: an enrollment that is not active
keeps no verifier, a course in preparation has no request, an unbound account gave its
verifier to no course (`StudentsAreMatched`, `ReplacedPasswordsAreDead`).  `ClosureInv`:
who holds which lock, that every folder that has not committed is attended by a
thread, a journal or the start-up, that closed courses have no files, that every row is
backed by a file or by a folder that will be put back, and that completion means
cleaned and fenced (`FilesStayWithRows`, and the action property
`ClosedCoursesStayClosed`).

**The instructor's desk** (`InstructorDesk_proofs`).  `JobInv` joins the properties
with who owns a row: a release exists only once its job ran and keeps the key of its
draft, the worker's job is running, a check under way is one of its release
(`ReleasesStaySound`, `ValidationStaysHonest`).  `ClassroomInv` follows three relations
of a window to a request (it may still begin it, it may still report its end, it runs
it) and shows that no request is both pursued and ended (`RequestsStayTrue`, and the
action property `NothingBeginsTooLate`).  `SandboxInv` says which late commands can
still exist for a name and who knows the name (`NothingIsUnattended`,
`GradesStayDeserved`).  An orderly stop closes the grader while nobody holds its lock, so
what it removes is all that is registered, and it leaves nothing running; only a crash
or a removal that failed does (`lost`).

**The learning runtime** (`Learning_proofs`).  `SpaceInv`: a container that runs, or
that a thread may still start, is named by its space, so whoever ends the space removes
it; one that Docker creates late is started by nobody (`NothingUnwantedRuns`).
`CheckpointInv`: the index is the only ledger; a save works on a copy that the disk
backs before it is published, its number is new, and packed objects without a reference
find the marker set (`SavesStayKeptOrErased`).

**The Git collector** (`SharedCalls_proofs`).  One call per repository is inside its
flock, so what it read of a label nobody changes; and nothing is added to the store
while a process that measured it holds the quota's flock.  The size of the store is the
cardinality of a set of units, so the quota is provable for any archive sizes
(`StoreStaysKept`).  `CollectorImplementsLabels` is the refinement of `SourceLabels`
that the scheduled collection builds on.

**Scheduled collection** (`Polling_proofs`).  `CollectInv` says of a run what its rows and
labels say of each other and what a caller, and each thread of it, may conclude while it
holds the run's flock; `CollectionsMove` shows of every step that it keeps this and
changes nothing that was decided (`DecidedStaysDecided`).  `PollInv` adds the runners: the
queue holds the last events in order, only the event whose turn it is is handled, and
every earlier one has its verdict unless the runner failed or the schedule was edited.
With the arithmetic of the slots (an event is never due before its slot, and a time on
the grid that the events have passed is the slot of one of them) follow
`CollectionsStayHonest` and the action property `CursorStaysHonest`.  They assume that
an edit leaves the cursor on the grid of the slots (`MaxTime % Interval = 0`): with a
cursor off the grid the moments between two slots are nobody's slot.

**Only model-checked.**  The liveness properties (`EverySubmissionSettles`,
`DueResultsArePublished`, `EveryRefreshAnswered`, `CallsEnd`, `EverySpaceEnds`,
`EverySourceSettles`): liveness under fairness is beyond the prover.
Every other property of a passing run, invariant, action property or refinement, is
the statement of a theorem.

## 5. Findings

1. **An expiring classroom command loses the receipt** (`command_expired`).  The
   comment at `extension.ts:1297` wants the receipt preserved, but
   `assertRequestCurrent()` throws inside the same `try`, whose `catch` clears the
   attempt before anything was remembered.
2. **A resumed collection may lose its archive** (`preserved_jobs`).  The label of a
   collection job is its key, so a run resumed after a crash finds the archive of the
   first attempt, which may be older than the grace period; the collector may remove it
   between pin and record, which `artifact_gc.py:4-7` says cannot happen.  Jobs that were not
   interrupted are safe (section 4).

Disagreements between code and documents met while modelling, without a run of their
own: the same content under a new key is a new submission on purpose
(`platform_state.py:6551`), while `docs/operations/student-platform-mvp.md:461` still
promises a merge; availability is asked before the key (`platform_service.py:1052`), so
a retry is refused once the assignment is hidden, while
`docs/requirements/student-platform.md:116` promises the existing receipt; a booting
service removes every sandbox with its label, also one of a `bundle-check` that is
running, while `docs/operations/student-platform-mvp.md:490` speaks of orphans only; a
directory of a learning space may stay unrecorded when the worker dies between staging
and saving, while the docstring of `learning_runtime.py` (about line 64) says it cannot.
A `student add` (`platform_cli.py:640`) that races with `_match_course` can change the
kind of an identity.

## 6. What is not modelled

- **Bundles**: a client that restarts or signs out (attempts are in memory and go),
  rotation of the access token that names the submission lock, the privacy fence
  around an upload, the 500 answer when the read after a committed admission fails,
  receipts removed by hand, the limit of 1000 rows per recovery, daemon threads that
  outlive the course lock for a moment at shutdown (`Exit` ends lock and process in one
  step), the round robin over courses of `course_runtime.py`.
- **Authentication**: the verification page, rate limits per address, GitHub OAuth
  cookies and CSRF values, audit rows.
- **Authoring**: file contents, templates, schedules, the documents shown to students.
- **Git**: pull request mode, which no service configuration reaches
  (`platform_cli.py:1392`), rows of earlier schema versions; in `GitArtifacts` the
  quota's lock is part of the one step that publishes an archive.
- **Polling**: schema migration, dry runs, several schedules at once, the same slot's
  key after a change of assignment; an edit between queued events excuses the cursor
  (`Edited`); time stands still while a policy is applied at a start.
- **Classroom**: one student and one active course, the hourly limit, heartbeats, the
  monitoring stream; the server's time is the tick.
- **Membership**: archived courses, accounts' `active` (never cleared in the source),
  `set_student_active` (no caller), texts of CSV files.
- **Closure**: which rows belong to a course, I/O failures during a rollback, an empty
  folder without a manifest, the idle check beyond a refusal; a material stored in the
  rollback window of `course_deletion.py:202` is excused by `occupied`: the code leaves
  the window open, and all that is shown is that the row's file is then in place or in
  the folder that stays.  A material's own row (which exists before a file is uploaded
  to it) is what the plan goes by; the copies of a failed `create_revision`
  (`student_materials.py:272`) belong to a material without a row, so no closing
  finds or erases them, and `CompleteMeansClean` does not speak of them.
- **Learning**: downloads and listings, limits of staged files, the reference log, the
  expiry of tombstones after four hours, the graceful stop.
- **Graders**: contents of bundles and results; process groups of a pilot host that
  survive a crash are never reaped by the code and excused by `lost`.
- **Without a module**: the HTTP front end and portals, content, materials and exam
  papers, gradebook, rubrics, operations reports, backups, the editors' user interface.

## 7. What is left

No safety property that a run checks is left without a theorem.  What could be added:
- that what `PoolImplementsLedger` and `GitImplementsLedger` say of each pipeline holds
  of a course that uses both: they share no row, so the composition is a product;
- the front end: which handler of `platform_http.py` may call which of the operations
  above, and with what session.
