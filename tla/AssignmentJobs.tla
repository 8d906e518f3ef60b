--------------------------- MODULE AssignmentJobs ---------------------------
(***************************************************************************)
(* Assignment drafts of one course, their validation jobs and the releases *)
(* these register (assignment_admin.py, assignment_admin_operations.py and *)
(* the release half of platform_state.py): the instructor's pages, one     *)
(* validation worker that is stopped, killed and started again, the        *)
(* operator's bundle commands, and the archiving of the course.            *)
(*                                                                         *)
(* Every job registers a release of its own, so a release has the number   *)
(* of its job.  Jobs are numbered in the order of their rows.  Titles,     *)
(* files, tests and schedules are left out, except whether the materials   *)
(* of a revision are complete.                                             *)
(***************************************************************************)
EXTENDS Integers, FiniteSets, Sequences

CONSTANTS
    Drafts,        \* draft ids new_public_id("draft") may hand out
    MaxJobs,       \* bound: jobs (instructor_assignment_jobs holds 1000)
    MaxRevision,   \* bound: revisions of a draft
    MaxTries,   \* bound: checks of one release
    MaxQueued,     \* MAX_QUEUED
    MaxDrafts,     \* the limit of _draft_capacity_full
    MaxCrashes,    \* bound: shutdowns and crashes of the portal process
    Nothing

ASSUME JobAssumption ==
    /\ {MaxJobs, MaxRevision, MaxTries, MaxQueued, MaxDrafts} \subseteq Nat \ {0}
    /\ MaxCrashes \in Nat
    /\ Nothing \notin Drafts \cup Nat \cup {"pending", "passed", "failed"}
    /\ IsFiniteSet(Drafts)

Jobs == 1..MaxJobs

VARIABLES
    course,    \* admin_courses.status
    draft,     \* instructor_assignment_drafts, with the key of its releases
    job,       \* instructor_assignment_jobs
    release,   \* bundle_assignment_releases, instructor_assignment_deletions
    attempts,  \* bundle_release_checks of each release, in order of id
    worker,    \* the thread of _run: where it is, its job and its check
    stopping,  \* _stop
    operator,  \* the release a `bundle-check` command validates, its check
    confirmed, \* the last preview_release_batch: its releases as they were
    crashes

deskVars == <<course, draft, confirmed>>
jobVars == <<course, draft, job, release, attempts, worker, stopping, operator,
          confirmed, crashes>>

NoDraft == [state |-> "absent", revision |-> 0, complete |-> FALSE,
            published |-> Nothing, key |-> Nothing]
NoJob == [status |-> "absent", draft |-> Nothing, revision |-> 0, saved |-> FALSE]
NoRelease == [state |-> "absent", ready |-> FALSE, deleted |-> FALSE,
              accepted |-> FALSE, key |-> Nothing]
Resting == [at |-> "idle", job |-> Nothing, check |-> 0, good |-> FALSE]
Dead == [Resting EXCEPT !.at = "off"]

JobInit ==
    /\ course = "preparation"
    /\ draft = [d \in Drafts |-> NoDraft]
    /\ job = [j \in Jobs |-> NoJob]
    /\ release = [j \in Jobs |-> NoRelease]
    /\ attempts = [j \in Jobs |-> <<>>]
    /\ worker = Dead
    /\ stopping = FALSE
    /\ operator = Nothing
    /\ confirmed = Nothing
    /\ crashes = 0

-----------------------------------------------------------------------------
(* Drafts.                                                                 *)

Unfinished == {j \in Jobs : job[j].status \in {"queued", "running"}}
Pending(d) == \E j \in Unfinished : job[j].draft = d

\* A draft whose published release is deleted does not count.
Counted == {d \in Drafts : /\ draft[d].state = "open"
                           /\ draft[d].published # Nothing =>
                                 ~release[draft[d].published].deleted}

HasRoom == Cardinality(Counted) < MaxDrafts

NewDraft(key, complete) ==
    [NoDraft EXCEPT !.state = "open", !.revision = 1, !.key = key,
                    !.complete = complete]

\* create_draft: template mode is complete, direct mode is not.
CreateDraft(d, complete) ==
    /\ course # "archived"
    /\ draft[d].state = "absent" /\ HasRoom
    /\ draft' = [draft EXCEPT ![d] = NewDraft(d, complete)]
    /\ UNCHANGED <<course, job, release, attempts, worker, stopping, operator,
                   confirmed, crashes>>

Editable(d) == /\ draft[d].state = "open"
               /\ draft[d].published = Nothing
               /\ ~Pending(d)

\* update_draft, upload_zip, import_grading_template: one more revision, whose
\* materials may be complete or not.
EditDraft(d, complete) ==
    /\ course # "archived"
    /\ Editable(d)
    /\ draft[d].revision < MaxRevision
    /\ draft' = [draft EXCEPT ![d].revision = @ + 1, ![d].complete = complete]
    /\ UNCHANGED <<course, job, release, attempts, worker, stopping, operator,
                   confirmed, crashes>>

DeleteDraft(d) ==
    /\ course # "archived"
    /\ Editable(d)
    /\ draft' = [draft EXCEPT ![d].state = "deleted", ![d].revision = @ + 1]
    /\ UNCHANGED <<course, job, release, attempts, worker, stopping, operator,
                   confirmed, crashes>>

NextJob == Cardinality({j \in Jobs : job[j].status # "absent"}) + 1

\* queue_check: a job of this revision that is queued, running or succeeded is
\* returned instead of a second one.
QueueCheck(d) ==
    /\ course # "archived"
    /\ draft[d].state = "open" /\ draft[d].published = Nothing
    /\ draft[d].complete
    /\ ~\E j \in Jobs : /\ job[j].draft = d /\ job[j].revision = draft[d].revision
                        /\ job[j].status \in {"queued", "running", "succeeded"}
    /\ Cardinality({j \in Jobs : job[j].status = "queued"}) < MaxQueued
    /\ NextJob \in Jobs
    /\ job' = [job EXCEPT ![NextJob] =
                  [status |-> "queued", draft |-> d,
                   revision |-> draft[d].revision, saved |-> FALSE]]
    /\ UNCHANGED <<course, draft, release, attempts, worker, stopping, operator,
                   confirmed, crashes>>

-----------------------------------------------------------------------------
(* Releases.                                                               *)

Latest(j) == IF attempts[j] = <<>> THEN Nothing ELSE attempts[j][Len(attempts[j])]
PendingCheck(j) == \E i \in DOMAIN attempts[j] : attempts[j][i] = "pending"

Public(j) == release[j].ready /\ release[j].state = "active"

MayShow(j) == /\ release[j].state = "active" /\ ~release[j].deleted
              /\ Latest(j) = "passed"
              /\ ~\E k \in Jobs \ {j} : Public(k) /\ release[k].key = release[j].key

LastJob(d, revision) ==
    {j \in Jobs : /\ job[j].draft = d /\ job[j].revision = revision
                  /\ \A k \in Jobs : job[k].draft = d /\ job[k].revision = revision
                                     => k <= j}

\* Mutant of Validated: the success of any revision will do.
ValidatedOnce(d) == {j \in Jobs : job[j].draft = d /\ job[j].status = "succeeded"}

Validated(d) == {j \in LastJob(d, draft[d].revision) :
                    job[j].status = "succeeded" /\ job[j].saved}

\* publish; a draft already published is only looked up.
Publish(d) ==
    /\ course = "active"
    /\ draft[d].state = "open" /\ draft[d].published = Nothing
    /\ \E j \in Validated(d) :
          /\ MayShow(j)
          /\ release' = [release EXCEPT ![j].ready = TRUE]
          /\ draft' = [draft EXCEPT ![d].published = j]
    /\ UNCHANGED <<course, job, attempts, worker, stopping, operator, confirmed,
                   crashes>>

\* copy_release: the key stays, everything else is new.
CopyRelease(j, d) ==
    /\ course # "archived"
    /\ release[j].state # "absent" /\ ~release[j].deleted
    /\ draft[d].state = "absent" /\ HasRoom
    /\ \E source \in Drafts :
          /\ draft[source].published = j
          /\ draft' = [draft EXCEPT ![d] =
                          NewDraft(release[j].key, draft[source].complete)]
    /\ UNCHANGED <<course, job, release, attempts, worker, stopping, operator,
                   confirmed, crashes>>

Manageable(j) == course # "archived" /\ release[j].state # "absent"
ReleaseStep(new) ==
    /\ release' = new
    /\ UNCHANGED <<course, draft, job, attempts, worker, stopping, operator,
                   confirmed, crashes>>

HideRelease(j) ==
    /\ Manageable(j) /\ ~release[j].deleted /\ ~release[j].accepted
    /\ ReleaseStep([release EXCEPT ![j].ready = FALSE])

Archived(row) == [row EXCEPT !.state = "inactive", !.ready = FALSE]

ArchiveRelease(j) ==
    /\ Manageable(j) /\ ~release[j].deleted
    /\ ReleaseStep([release EXCEPT ![j] = Archived(@)])

MayDelete(j) == /\ release[j].state = "inactive" /\ ~release[j].ready
                /\ ~PendingCheck(j)

DeleteRelease(j) ==
    /\ Manageable(j) /\ MayDelete(j)
    /\ ReleaseStep([release EXCEPT ![j].deleted = TRUE])

\* restore_release gives no access back.
RestoreRelease(j) ==
    /\ Manageable(j) /\ release[j].deleted
    /\ (\E d \in Drafts : draft[d].published = j /\ draft[d].state = "open") => HasRoom
    /\ ReleaseStep([release EXCEPT ![j].deleted = FALSE])

\* What the fingerprint of a batch covers.
Snapshot(S) == [j \in S |->
    [row |-> release[j], check |-> Latest(j),
     draft |-> {<<d, draft[d].revision>> : d \in {e \in Drafts :
                   draft[e].published = j /\ draft[e].state = "open"}}]]

Selectable(action, j) ==
    /\ Manageable(j) /\ ~release[j].deleted
    /\ \E d \in Drafts : draft[d].published = j /\ draft[d].state = "open"
    /\ ~PendingCheck(j) /\ j \notin Unfinished
    /\ ~\E k \in Unfinished : draft[job[k].draft].published = j
    /\ action = "delete" => release[j].state = "inactive" /\ ~release[j].ready

PreviewBatch(action, S) ==
    /\ \A j \in S : Selectable(action, j)
    /\ confirmed' = [action |-> action, seen |-> Snapshot(S)]
    /\ UNCHANGED <<course, draft, job, release, attempts, worker, stopping,
                   operator, crashes>>

\* apply_release_batch: all of them, as they were confirmed, or none.
ApplyBatch ==
    /\ confirmed # Nothing
    /\ LET S == DOMAIN confirmed.seen
       IN  /\ \A j \in S : Selectable(confirmed.action, j)
           /\ Snapshot(S) = confirmed.seen
           /\ release' = [j \in Jobs |->
                 IF j \notin S THEN release[j]
                 ELSE IF confirmed.action = "archive" THEN Archived(release[j])
                 ELSE [release[j] EXCEPT !.deleted = TRUE]]
    /\ confirmed' = Nothing
    /\ UNCHANGED <<course, draft, job, attempts, worker, stopping, operator,
                   crashes>>

\* A student accepts the assignment or submits to it.
Accept(j) ==
    /\ course = "active" /\ Public(j) /\ ~release[j].accepted
    /\ ReleaseStep([release EXCEPT ![j].accepted = TRUE])

-----------------------------------------------------------------------------
(* The operator's command line, in another process.                        *)

Began(j) == [attempts EXCEPT ![j] = Append(@, "pending")]

\* Mutant of MayCheck: begin_bundle_release_check takes a public release.
MayCheckPublic(j) == release[j].state # "absent" /\ ~release[j].deleted
MayCheck(j) == /\ release[j].state # "absent" /\ ~release[j].deleted
               /\ ~release[j].ready

BeginOperatorCheck(j) ==
    /\ operator = Nothing
    /\ MayCheck(j) /\ Len(attempts[j]) < MaxTries
    /\ attempts' = Began(j)
    /\ operator' = <<j, Len(attempts[j]) + 1>>
    /\ UNCHANGED <<deskVars, job, release, worker, stopping, crashes>>

\* finish_bundle_release_check: a check that is no longer pending stays.
Finished(j, i, passed) ==
    IF attempts[j][i] = "pending"
    THEN [attempts EXCEPT ![j][i] = IF passed THEN "passed" ELSE "failed"]
    ELSE attempts

EndOperatorCheck(passed) ==
    /\ operator # Nothing
    /\ attempts' = Finished(operator[1], operator[2], passed)
    /\ operator' = Nothing
    /\ UNCHANGED <<deskVars, job, release, worker, stopping, crashes>>

\* bundle-ready and bundle-hide.
OperatorShows(j) ==
    /\ release[j].state # "absent" /\ MayShow(j)
    /\ ReleaseStep([release EXCEPT ![j].ready = TRUE])

OperatorHides(j) ==
    /\ release[j].state # "absent" /\ ~release[j].deleted
    /\ ReleaseStep([release EXCEPT ![j].ready = FALSE])

-----------------------------------------------------------------------------
(* The validation worker.                                                  *)

\* Mutant of Interrupted: running jobs are left as they are.
InterruptedNone == job
Interrupted == [j \in Jobs |-> IF job[j].status = "running"
                               THEN [job[j] EXCEPT !.status = "interrupted"]
                               ELSE job[j]]

\* start(): what the last worker left is closed in one transaction.
Start ==
    /\ worker.at = "off"
    /\ attempts' = [j \in Jobs |->
          IF job[j].status = "running" /\ job[j].saved
          THEN [i \in DOMAIN attempts[j] |->
                   IF attempts[j][i] = "pending" THEN "failed" ELSE attempts[j][i]]
          ELSE attempts[j]]
    /\ job' = Interrupted
    /\ worker' = Resting
    /\ stopping' = FALSE
    /\ UNCHANGED <<deskVars, release, operator, crashes>>

\* run_one: the oldest queued job.
Claim ==
    /\ worker.at = "idle" /\ ~stopping
    /\ \E j \in Jobs :
          /\ job[j].status = "queued"
          /\ \A k \in 1..(j - 1) : job[k].status # "queued"
          /\ job' = [job EXCEPT ![j].status = "running"]
          /\ worker' = [Resting EXCEPT !.at = "claimed", !.job = j]
    /\ UNCHANGED <<deskVars, release, attempts, stopping, operator, crashes>>

\* _validate up to register_bundle_assignment_release.
Register ==
    LET j == worker.job
        d == job[j].draft
    IN  /\ worker.at = "claimed"
        /\ course # "archived" /\ draft[d].state = "open"
        /\ draft[d].revision = job[j].revision
        /\ release' = [release EXCEPT ![j] =
                          [NoRelease EXCEPT !.state = "active", !.key = draft[d].key]]
        /\ worker' = [worker EXCEPT !.at = "registered"]
        /\ UNCHANGED <<deskVars, job, attempts, stopping, operator, crashes>>

SaveRelease ==
    /\ worker.at = "registered"
    /\ job' = [job EXCEPT ![worker.job].saved = TRUE]
    /\ worker' = [worker EXCEPT !.at = "saved"]
    /\ UNCHANGED <<deskVars, release, attempts, stopping, operator, crashes>>

BeginCheck ==
    LET j == worker.job
    IN  /\ worker.at = "saved" /\ ~stopping
        /\ MayCheck(j) /\ Len(attempts[j]) < MaxTries
        /\ attempts' = Began(j)
        /\ worker' = [worker EXCEPT !.at = "checking", !.check = Len(attempts[j]) + 1]
        /\ UNCHANGED <<deskVars, job, release, stopping, operator, crashes>>

\* Both graders ran, or one of them did not (a wrong score, an error, stop()).
EndCheck(passed) ==
    /\ worker.at = "checking"
    /\ attempts' = Finished(worker.job, worker.check, passed)
    /\ worker' = [worker EXCEPT !.at = "finishing",
                     !.good = passed /\ attempts[worker.job][worker.check] = "pending"]
    /\ UNCHANGED <<deskVars, job, release, stopping, operator, crashes>>

\* Any earlier step raises.
FailValidation ==
    /\ worker.at \in {"claimed", "registered", "saved"}
    /\ worker' = [worker EXCEPT !.at = "finishing", !.good = FALSE]
    /\ UNCHANGED <<deskVars, job, release, attempts, stopping, operator, crashes>>

FinishJob ==
    /\ worker.at = "finishing"
    /\ job' = [job EXCEPT ![worker.job].status =
                  IF stopping THEN "interrupted"
                  ELSE IF worker.good THEN "succeeded" ELSE "failed"]
    /\ worker' = Resting
    /\ UNCHANGED <<deskVars, release, attempts, stopping, operator, crashes>>

Stop ==
    /\ worker.at # "off" /\ ~stopping
    /\ crashes < MaxCrashes
    /\ crashes' = crashes + 1
    /\ stopping' = TRUE
    /\ UNCHANGED <<deskVars, job, release, attempts, worker, operator>>

LeaveLoop ==
    /\ worker.at = "idle" /\ stopping
    /\ worker' = Dead
    /\ UNCHANGED <<deskVars, job, release, attempts, stopping, operator, crashes>>

\* The process is killed, or exits with its daemon thread still at work.
Die ==
    /\ worker.at # "off"
    /\ IF stopping THEN UNCHANGED crashes
       ELSE crashes < MaxCrashes /\ crashes' = crashes + 1
    /\ worker' = Dead
    /\ UNCHANGED <<deskVars, job, release, attempts, stopping, operator>>

-----------------------------------------------------------------------------
(* The course.                                                             *)

Activate ==
    /\ course = "preparation"
    /\ course' = "active"
    /\ UNCHANGED <<draft, job, release, attempts, worker, stopping, operator,
                   confirmed, crashes>>

\* _require_idle, inside the transaction of the archiving.
Idle == Unfinished = {} /\ \A j \in Jobs : ~PendingCheck(j)

ArchiveCourse ==
    /\ course = "active"
    /\ Idle
    /\ course' = "archived"
    /\ UNCHANGED <<draft, job, release, attempts, worker, stopping, operator,
                   confirmed, crashes>>

DeskNext ==
    \/ \E d \in Drafts, complete \in BOOLEAN :
          CreateDraft(d, complete) \/ EditDraft(d, complete)
    \/ \E d \in Drafts : DeleteDraft(d) \/ QueueCheck(d) \/ Publish(d)
    \/ \E j \in Jobs, d \in Drafts : CopyRelease(j, d)
    \/ \E j \in Jobs : HideRelease(j) \/ ArchiveRelease(j) \/ DeleteRelease(j)
                       \/ RestoreRelease(j) \/ Accept(j)
    \/ \E action \in {"archive", "delete"}, S \in SUBSET Jobs \ {{}} :
          PreviewBatch(action, S)
    \/ ApplyBatch
    \/ Activate
    \/ ArchiveCourse

OperatorNext ==
    \/ \E j \in Jobs : BeginOperatorCheck(j) \/ OperatorShows(j) \/ OperatorHides(j)
    \/ \E passed \in BOOLEAN : EndOperatorCheck(passed)

WorkerStep ==
    \/ Claim \/ Register \/ SaveRelease \/ BeginCheck \/ FailValidation
    \/ FinishJob \/ LeaveLoop
    \/ \E passed \in BOOLEAN : EndCheck(passed)

JobNext == DeskNext \/ OperatorNext \/ Start \/ WorkerStep \/ Stop \/ Die

JobSpec == JobInit /\ [][JobNext]_jobVars

-----------------------------------------------------------------------------
(* Properties.                                                             *)

\* The shape of the tables.
JobTypeOK ==
    /\ course \in {"preparation", "active", "archived"}
    /\ draft \in [Drafts -> [state : {"absent", "open", "deleted"},
                             revision : 0..(MaxRevision + 1), complete : BOOLEAN,
                             published : Jobs \cup {Nothing},
                             key : Drafts \cup {Nothing}]]
    /\ job \in [Jobs -> [status : {"absent", "queued", "running", "succeeded",
                                   "failed", "interrupted"},
                         draft : Drafts \cup {Nothing}, revision : 0..MaxRevision,
                         saved : BOOLEAN]]
    /\ release \in [Jobs -> [state : {"absent", "active", "inactive"},
                             ready : BOOLEAN, deleted : BOOLEAN,
                             accepted : BOOLEAN, key : Drafts \cup {Nothing}]]
    /\ \A j \in Jobs : /\ Len(attempts[j]) \in 0..MaxTries
                       /\ \A i \in DOMAIN attempts[j] :
                             attempts[j][i] \in {"pending", "passed", "failed"}
    /\ worker \in [at : {"off", "idle", "claimed", "registered", "saved",
                         "checking", "finishing"},
                   job : Jobs \cup {Nothing}, check : 0..MaxTries,
                   good : BOOLEAN]
    /\ stopping \in BOOLEAN
    /\ crashes \in 0..MaxCrashes

\* What students see passed its last validation and is not in the deleted
\* list, whatever checks, publications and deletions ran beside each other.
PublicIsValidated ==
    \A j \in Jobs : release[j].ready =>
        /\ release[j].state = "active" /\ ~release[j].deleted
        /\ Latest(j) = "passed"

\* At most one version of an assignment is public, through the web and through
\* the command line.
OnePublicVersion ==
    \A j, k \in Jobs :
        Public(j) /\ Public(k) /\ release[j].key = release[k].key => j = k

\* A published draft is the revision its release was validated from.
PublishedAsValidated ==
    \A d \in Drafts : draft[d].published # Nothing =>
        LET j == draft[d].published
        IN  /\ draft[d].state = "open"
            /\ job[j].draft = d /\ job[j].revision = draft[d].revision
            /\ job[j].status = "succeeded"
            /\ release[j].key = draft[d].key

\* A draft does not change under its validation, and has one at a time.
FrozenUnderValidation ==
    \A j \in Unfinished :
        /\ draft[job[j].draft].state = "open"
        /\ draft[job[j].draft].revision = job[j].revision
        /\ \A k \in Unfinished : job[k].draft = job[j].draft => k = j

\* A running job is the worker's, or was left by one that died and waits for
\* the next start().
RunningHasWorker ==
    \A j \in Jobs : job[j].status = "running" =>
        worker.at = "off" \/ worker.job = j

\* A deleted release is closed and no validation of it goes on.
DeletedIsClosed ==
    \A j \in Jobs : release[j].deleted =>
        ~release[j].ready /\ release[j].state = "inactive" /\ ~PendingCheck(j)

\* An archived course has no validation left to run (_require_idle and the
\* course check inside every transaction that would start one).
ArchivedIsQuiet == course = "archived" => Unfinished = {}

\* What students see is good and one version of it, and what was deleted stays away.
ReleasesAreSound == PublicIsValidated /\ OnePublicVersion /\ DeletedIsClosed

\* What is published is what was validated, and no validation runs that nobody runs.
ValidationIsHonest ==
    /\ JobTypeOK /\ PublishedAsValidated /\ FrozenUnderValidation
    /\ RunningHasWorker /\ ArchivedIsQuiet
=============================================================================
