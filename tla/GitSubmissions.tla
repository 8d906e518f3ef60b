--------------------------- MODULE GitSubmissions ---------------------------
(***************************************************************************)
(* Submissions by commit: platform_service.submit pins the pushed tip of   *)
(* the student's branch as an archive and a ref (GitArtifacts), admits it  *)
(* in the submission tables of platform_state.py, and the worker of        *)
(* platform_worker.py grades it.  The service and the operator's           *)
(* `submission process` exclude each other by the course lock; pushes, the *)
(* garbage collector and `submission publish` go on under both.            *)
(*                                                                         *)
(* One student; assignments have a repository each.  A label is the id of  *)
(* a submission, new for every attempt.  A request body is an assignment   *)
(* and a commit.  Only branch mode: the operator commands register no      *)
(* other (platform_cli.py:1392).                                           *)
(***************************************************************************)
EXTENDS GitArtifacts, Sequences, FiniteSetsExt

CONSTANTS
    Assignments,
    RepoOf,          \* the repository of an assignment
    Policy,          \* its result policy
    Keys,            \* idempotency keys
    Requests,        \* request threads of the service
    MaxOutstanding, MaxDaily, QueueSize,
    MaxDay,          \* bound: days, from 0
    MaxRequests,     \* bound: requests
    MaxMishaps       \* bound: crashes and failing calls

ASSUME SubmissionAssumption ==
    /\ Labels = 1 .. Cardinality(Labels)
    /\ RepoOf \in [Assignments -> Repos]
    /\ Policy \in [Assignments -> {"immediate", "after_deadline", "manual"}]
    /\ {MaxOutstanding, MaxDaily, QueueSize} \subseteq Nat \ {0}
    /\ {MaxDay, MaxRequests, MaxMishaps} \subseteq Nat
    /\ None \notin Labels \cup Keys \cup Assignments \cup Requests
    /\ "gc" \notin Requests \cup {None}
    /\ IsFiniteSet(Requests)

VARIABLES
    open,      \* assignments whose deadline has not passed
    session,   \* the student's session, enrolment and assignments are active
    day,
    sub,       \* submission_requests with their receipts; history: the attempt's day
    idem,      \* submission_idempotency_keys
    attempts,  \* submission_admission_counters by day
    issued,    \* how many labels have been made
    request,   \* the request threads
    stripe,    \* the service's lock of a repository
    owner,     \* who holds the course lock
    worker,    \* the grading thread, or the operator's processor
    queue, enqueued,
    executions,   \* history: how often instructor code was started
    told,         \* history: what requests were answered
    requests, mishaps

tableVars == <<sub, idem, attempts>>
courseVars == <<open, session, day>>
deskVars == <<issued, request, stripe, told, requests>>
workVars == <<owner, worker, queue, enqueued, executions>>
vars == <<remote, archive, ref, workspace, repoLock, gc, pushes, passes,
          open, session, day, sub, idem, attempts, issued, request, stripe, owner,
          worker, queue, enqueued, executions, told, requests, mishaps>>

NoRow == [state |-> "none", asg |-> None, commit |-> None, day |-> 0]
Waiting == [at |-> "free", asg |-> None, key |-> None, commit |-> None, label |-> None,
            day |-> 0, inTime |-> FALSE, notify |-> None]
Off == [at |-> "off", job |-> None, listed |-> {}, first |-> FALSE]

Init ==
    /\ ArtifactInit
    /\ open = Assignments /\ session = TRUE /\ day = 0
    /\ sub = [l \in Labels |-> NoRow]
    /\ idem = [a \in Assignments |-> [k \in Keys |-> None]]
    /\ attempts = [d \in 0 .. MaxDay |-> 0]
    /\ issued = 0
    /\ request = [q \in Requests |-> Waiting]
    /\ stripe = [r \in Repos |-> None]
    /\ owner = "none" /\ worker = Off
    /\ queue = <<>> /\ enqueued = {}
    /\ executions = [l \in Labels |-> 0]
    /\ told = {} /\ requests = 0 /\ mishaps = 0

Mishap == mishaps < MaxMishaps /\ mishaps' = mishaps + 1

-----------------------------------------------------------------------------
(* The submission tables.                                                  *)

Active == {"accepted", "queued", "running"}
Ended == {"published", "failed"}
Rows == {l \in Labels : sub[l].state # "none"}
Outstanding == {l \in Rows : sub[l].state \in Active}
Terminal == {l \in Rows : sub[l].state \in Ended}

\* An earlier submission of the same commit that has not failed.
Semantic(a, c) ==
    {l \in Rows : sub[l].asg = a /\ sub[l].commit = c /\ sub[l].state # "failed"}

\* The earlier submission that answers a request, and a key used for another body.
Replay(a, k, c) ==
    IF idem[a][k] # None THEN idem[a][k]
    ELSE IF Semantic(a, c) # {} THEN Min(Semantic(a, c)) ELSE None
Conflict(a, k, c) == idem[a][k] # None /\ sub[idem[a][k]].commit # c

Bound(a, k, l) == [idem EXCEPT ![a][k] = l]

\* transition_submission
Allowed(from, to) ==
    \/ from = "accepted" /\ to = "queued"
    \/ from = "queued" /\ to \in {"running", "failed"}
    \/ from = "running" /\ to = "failed"
Moved(l, to) == sub' = [sub EXCEPT ![l].state = to]

-----------------------------------------------------------------------------
(* A request thread: submit and _submit_unlocked.                          *)

Ready(q, at) == request[q].at = at
Step(q, at) == request' = [request EXCEPT ![q].at = at]
RepoOfRequest(q) == RepoOf[request[q].asg]

\* The request leaves the lock; a new submission is still to be notified.
Answered(q, answer, new) == LET x == request[q] IN
    /\ told' = told \cup {[asg |-> x.asg, key |-> x.key, commit |-> x.commit, sub |-> answer]}
    /\ stripe' = [stripe EXCEPT ![RepoOfRequest(q)] = None]
    /\ request' = [request EXCEPT ![q] =
         IF new THEN [Waiting EXCEPT !.at = "notify", !.notify = answer] ELSE Waiting]

Refused(q) ==
    /\ request' = [request EXCEPT ![q] = Waiting]
    /\ stripe' = [stripe EXCEPT ![RepoOfRequest(q)] = None]
    /\ UNCHANGED told

\* The lock is striped by repository: requests about one repository take turns.
Submit(q, a, k, c) ==
    /\ owner = "service" /\ ~worker.first
    /\ Ready(q, "free") /\ requests < MaxRequests /\ requests' = requests + 1
    /\ stripe[RepoOf[a]] = None
    /\ stripe' = [stripe EXCEPT ![RepoOf[a]] = q]
    /\ request' = [request EXCEPT ![q] =
         [Waiting EXCEPT !.at = "preflight", !.asg = a, !.key = k, !.commit = c]]
    /\ UNCHANGED <<storeVars, courseVars, tableVars, issued, told, workVars, mishaps>>

HasRoom == Cardinality(Outstanding) < MaxOutstanding

\* find_submission_replay: one transaction that answers a replay or counts an attempt.
Preflight(q) == LET x == request[q] reply == Replay(x.asg, x.key, x.commit) IN
    /\ Ready(q, "preflight")
    /\ IF ~session \/ Conflict(x.asg, x.key, x.commit)
       THEN Refused(q) /\ UNCHANGED tableVars
       ELSE IF reply # None
       THEN Answered(q, reply, FALSE) /\ idem' = Bound(x.asg, x.key, reply)
            /\ UNCHANGED <<sub, attempts>>
       ELSE IF ~HasRoom \/ attempts[day] >= MaxDaily
       THEN Refused(q) /\ UNCHANGED tableVars
       ELSE /\ attempts' = [attempts EXCEPT ![day] = @ + 1]
            /\ request' = [request EXCEPT ![q].at = "check", ![q].day = day]
            /\ UNCHANGED <<sub, idem, stripe, told>>
    /\ UNCHANGED <<storeVars, courseVars, issued, workVars, requests, mishaps>>

\* The deadline before any network work, and a new submission id.
Check(q) ==
    /\ Ready(q, "check")
    /\ IF request[q].asg \in open
       THEN /\ issued < Cardinality(Labels) /\ issued' = issued + 1
            /\ request' = [request EXCEPT ![q].at = "collect", ![q].label = issued + 1]
            /\ UNCHANGED <<stripe, told>>
       ELSE Refused(q) /\ UNCHANGED issued
    /\ UNCHANGED <<storeVars, courseVars, tableVars, workVars, requests, mishaps>>

\* collect_exact takes the flock of the repository, fetches and compares.
Collect(q) == LET r == RepoOfRequest(q) IN
    /\ Ready(q, "collect")
    /\ repoLock[r] = None
    /\ IF remote[r] = request[q].commit
       THEN /\ Lock(q, r)
            /\ Step(q, "publish")
            /\ UNCHANGED <<stripe, told>>
       ELSE Refused(q) /\ UNCHANGED repoLock
    /\ UNCHANGED <<remote, artifactVars, gcVars, pushes, courseVars, tableVars, issued,
                   workVars, requests, mishaps>>

PublishSource(q) == LET x == request[q] IN
    /\ Ready(q, "publish")
    /\ Publish(x.label, RepoOfRequest(q), x.commit)
    /\ Step(q, "pin")
    /\ UNCHANGED <<repoLock, courseVars, tableVars, issued, stripe, told, workVars,
                   requests, mishaps>>

PinSource(q) == LET x == request[q] IN
    /\ Ready(q, "pin")
    /\ PinRef(x.label, RepoOfRequest(q), x.commit)
    /\ Unlock(RepoOfRequest(q))
    /\ Step(q, "stamp")
    /\ UNCHANGED <<courseVars, tableVars, issued, stripe, told, workVars, requests, mishaps>>

\* The tree is refused, git or the store fails: what was made stays, except
\* that _snapshot_locked removes the archive it made for a ref that failed.
CollectFails(q) == LET r == RepoOfRequest(q) IN
    /\ request[q].at \in {"publish", "pin"}
    /\ Mishap
    /\ archive' = IF Ready(q, "pin") THEN [archive EXCEPT ![request[q].label] = None]
                  ELSE archive
    /\ Unlock(r)
    /\ Refused(q)
    /\ UNCHANGED <<remote, ref, workspace, gcVars, pushes, courseVars, tableVars, issued,
                   workVars, requests>>

\* accepted_at is read before the transaction waits for the write lock.
Stamp(q) ==
    /\ Ready(q, "stamp")
    /\ request' = [request EXCEPT ![q].at = "admit", ![q].inTime = request[q].asg \in open]
    /\ UNCHANGED <<storeVars, courseVars, tableVars, issued, stripe, told, workVars,
                   requests, mishaps>>

\* Mutant of AdmitRoom: the limit is checked by the preflight alone.
AdmitRoomAlways == TRUE
AdmitRoom == HasRoom

\* create_accepted_submission: everything again, in the transaction that writes
\* the request, its receipt and its key.
Admit(q) == LET x == request[q] reply == Replay(x.asg, x.key, x.commit) IN
    /\ Ready(q, "admit")
    /\ IF ~session \/ Conflict(x.asg, x.key, x.commit) THEN Refused(q) /\ UNCHANGED tableVars
       ELSE IF idem[x.asg][x.key] # None THEN Answered(q, reply, FALSE) /\ UNCHANGED tableVars
       ELSE IF ~x.inTime THEN Refused(q) /\ UNCHANGED tableVars
       ELSE IF reply # None
       THEN Answered(q, reply, FALSE) /\ idem' = Bound(x.asg, x.key, reply)
            /\ UNCHANGED <<sub, attempts>>
       ELSE IF ~AdmitRoom \/ attempts[x.day] = 0 THEN Refused(q) /\ UNCHANGED tableVars
       ELSE /\ sub' = [sub EXCEPT ![x.label] =
                [state |-> "accepted", asg |-> x.asg, commit |-> x.commit, day |-> x.day]]
            /\ idem' = Bound(x.asg, x.key, x.label)
            /\ Answered(q, x.label, TRUE)
            /\ UNCHANGED attempts
    /\ UNCHANGED <<storeVars, courseVars, issued, workVars, requests, mishaps>>

\* A database call of the request fails.
RequestFails(q) ==
    /\ request[q].at \in {"preflight", "admit"}
    /\ Mishap
    /\ Refused(q)
    /\ UNCHANGED <<storeVars, courseVars, tableVars, issued, workVars, requests>>

-----------------------------------------------------------------------------
(* SubmissionWorker: one thread over a bounded queue.                      *)

\* Mutant of Notified: an id that finds the queue full is remembered.
NotifiedLeaks(l) ==
    /\ enqueued' = enqueued \cup {l}
    /\ queue' = IF l \notin enqueued /\ Len(queue) < QueueSize THEN Append(queue, l) ELSE queue

\* notify
Notified(l) ==
    IF l \notin enqueued /\ Len(queue) < QueueSize
    THEN queue' = Append(queue, l) /\ enqueued' = enqueued \cup {l}
    ELSE UNCHANGED <<queue, enqueued>>

NotifyRequest(q) ==
    /\ Ready(q, "notify")
    /\ Notified(request[q].notify)
    /\ request' = [request EXCEPT ![q] = Waiting]
    /\ UNCHANGED <<storeVars, courseVars, tableVars, issued, stripe, told, requests, owner,
                   worker, executions, mishaps>>

Goes(at) == worker' = [worker EXCEPT !.at = at]
At(at) == worker.at = at
WorkerOnly == UNCHANGED <<storeVars, courseVars, tableVars, deskVars, owner, mishaps>>

ShouldPublish(a) ==
    \/ Policy[a] = "immediate"
    \/ Policy[a] = "after_deadline" /\ a \notin open

\* list_submissions_for_processing, list_publishable_graded_submissions
Listed ==
    Outstanding \cup {l \in Rows : sub[l].state = "graded" /\ ShouldPublish(sub[l].asg)}

\* The queue stayed empty for the interval, or the worker starts.
Recover ==
    /\ At("recover") \/ (At("idle") /\ queue = <<>>)
    /\ worker' = [worker EXCEPT !.at = "listing", !.listed = Listed]
    /\ WorkerOnly /\ UNCHANGED <<queue, enqueued, executions>>

NotifyListed ==
    /\ At("listing")
    /\ IF worker.listed = {}
       THEN /\ worker' = [worker EXCEPT !.at = "idle", !.first = FALSE]
            /\ UNCHANGED <<queue, enqueued>>
       ELSE \E l \in worker.listed :
            /\ \A m \in worker.listed : l <= m
            /\ Notified(l)
            /\ worker' = [worker EXCEPT !.listed = @ \ {l}]
    /\ WorkerOnly /\ UNCHANGED executions

Take ==
    /\ At("idle") /\ queue # <<>>
    /\ worker' = [worker EXCEPT !.at = "read", !.job = Head(queue)]
    /\ queue' = Tail(queue)
    /\ WorkerOnly /\ UNCHANGED <<enqueued, executions>>

Job == worker.job
State == sub[Job].state

\* Mutant of Resumed: an interrupted grading is taken up at the grader.
ResumedAgain(state) ==
    CASE state = "running" -> "grade"
      [] state = "accepted" -> "queue"
      [] state = "queued" -> "start"
      [] OTHER -> "done"

\* SubmissionProcessor.process: the row decides.  Instructor code that was
\* interrupted is not run again.
Resumed(state) ==
    CASE state = "running" -> "fail"
      [] state = "accepted" -> "queue"
      [] state = "queued" -> "start"
      [] OTHER -> "done"

Process ==
    /\ At("read")
    /\ Goes(IF State = "graded" /\ ShouldPublish(sub[Job].asg) THEN "publish" ELSE Resumed(State))
    /\ WorkerOnly /\ UNCHANGED <<queue, enqueued, executions>>

\* A transaction of the worker on the submission it processes.
Transact(at, next) ==
    /\ At(at) /\ Goes(next)
    /\ UNCHANGED <<storeVars, courseVars, idem, attempts, deskVars, owner, queue, enqueued,
                   mishaps>>

Queue == Transact("queue", "start") /\ Moved(Job, "queued") /\ UNCHANGED executions
StartRunning == Transact("start", "prepare") /\ Moved(Job, "running") /\ UNCHANGED executions

\* WorkspaceBuilder.prepare renames the finished workspace into place; it needs
\* the archive of the receipt and refuses a key that has a workspace.
Prepare ==
    /\ At("prepare")
    /\ IF archive[Job] # None /\ workspace[Job] = None
       THEN /\ workspace' = [workspace EXCEPT ![Job] = Young(RepoOf[sub[Job].asg], sub[Job].commit)]
            /\ Goes("grade")
       ELSE UNCHANGED workspace /\ Goes("fail")
    /\ UNCHANGED <<remote, archive, ref, repoLock, gcVars, pushes, courseVars, tableVars,
                   deskVars, owner, queue, enqueued, executions, mishaps>>

\* The grader runs; its inputs, the container or the assessment may fail.
Grade(outcome) ==
    /\ At("grade")
    /\ outcome \in {"record", "fail"}
    /\ executions' = [executions EXCEPT ![Job] = @ + 1]
    /\ Goes(outcome)
    /\ WorkerOnly /\ UNCHANGED <<queue, enqueued>>

Record ==
    /\ Transact("record", "decide") /\ State = "running" /\ Moved(Job, "graded") /\ UNCHANGED executions

Decide ==
    /\ At("decide")
    /\ Goes(IF ShouldPublish(sub[Job].asg) THEN "publish" ELSE "done")
    /\ WorkerOnly /\ UNCHANGED <<queue, enqueued, executions>>

\* publish_result refuses what the operator published meanwhile.
PublishResult ==
    /\ Transact("publish", "done")
    /\ IF State = "graded" THEN Moved(Job, "published") ELSE UNCHANGED sub
    /\ UNCHANGED executions

\* _fail keeps what the row became.
Fail ==
    /\ Transact("fail", "done")
    /\ IF Allowed(State, "failed") THEN Moved(Job, "failed") ELSE UNCHANGED sub
    /\ UNCHANGED executions

\* A database call or the preparation raises.
WorkerTrouble ==
    /\ worker.at \in {"read", "queue", "start", "prepare", "record", "publish", "fail"}
    /\ Mishap
    /\ Goes(IF At("prepare") THEN "fail" ELSE "done")
    /\ UNCHANGED <<storeVars, courseVars, tableVars, deskVars, owner, queue, enqueued,
                   executions>>

\* The thread forgets the id; the operator's process ends.
Done ==
    /\ At("done")
    /\ enqueued' = enqueued \ {Job}
    /\ IF owner = "manual"
       THEN worker' = Off /\ owner' = "none"
       ELSE worker' = [worker EXCEPT !.at = "idle", !.job = None] /\ UNCHANGED owner
    /\ UNCHANGED <<storeVars, courseVars, tableVars, deskVars, queue, executions, mishaps>>

WorkerStep ==
    \/ Recover \/ NotifyListed \/ Take \/ Process \/ Queue \/ StartRunning \/ Prepare
    \/ \E outcome \in {"record", "fail"} : Grade(outcome)
    \/ Record \/ Decide \/ PublishResult \/ Fail \/ Done

-----------------------------------------------------------------------------
(* The processes, the operator, students and time.                         *)

\* serve: the worker recovers before requests are answered.
StartService ==
    /\ owner = "none"
    /\ owner' = "service"
    /\ worker' = [Off EXCEPT !.at = "recover", !.first = TRUE]
    /\ UNCHANGED <<storeVars, courseVars, tableVars, deskVars, queue, enqueued, executions,
                   mishaps>>

\* `submission process` under the course lock.
ProcessByHand(l) ==
    /\ owner = "none" /\ l \in Rows /\ Mishap
    /\ owner' = "manual"
    /\ worker' = [Off EXCEPT !.at = "read", !.job = l]
    /\ UNCHANGED <<storeVars, courseVars, tableVars, deskVars, queue, enqueued, executions>>

\* The process that holds the course lock ends or is killed: its threads and
\* memory are gone, the flocks are free, the files and the tables stay.
Stop ==
    /\ owner # "none" /\ Mishap
    /\ owner' = "none" /\ worker' = Off
    /\ queue' = <<>> /\ enqueued' = {}
    /\ request' = [q \in Requests |-> Waiting]
    /\ stripe' = [r \in Repos |-> None]
    /\ repoLock' = [r \in Repos |-> IF repoLock[r] \in Requests THEN None ELSE repoLock[r]]
    /\ UNCHANGED <<remote, artifactVars, gcVars, pushes, courseVars, tableVars, issued, told,
                   requests, executions>>

\* `submission publish`: publish_result at any time.
PublishByHand(l) ==
    /\ sub[l].state = "graded"
    /\ Moved(l, "published")
    /\ UNCHANGED <<storeVars, courseVars, idem, attempts, deskVars, workVars, mishaps>>

\* A deadline passes; a session is revoked; a day ends.
Close(a) == a \in open /\ open' = open \ {a} /\ UNCHANGED <<session, day>>
Revoke == session /\ session' = FALSE /\ UNCHANGED <<open, day>>
Midnight == day < MaxDay /\ day' = day + 1 /\ UNCHANGED <<open, session>>

CourseStep ==
    /\ (\E a \in Assignments : Close(a)) \/ Revoke \/ Midnight
    /\ UNCHANGED <<storeVars, tableVars, deskVars, workVars, mishaps>>

\* The grace period outlasts the time between a pin and its record.
InHand == {request[q].label : q \in Requests} \cup {worker.job}
Grace(l) ==
    /\ l \notin InHand
    /\ archive[l] # None \/ ref[l] # None \/ workspace[l] # None
    /\ Age(l)
    /\ UNCHANGED <<courseVars, tableVars, deskVars, workVars, mishaps>>

Collector ==
    /\ GCNext(Rows, Terminal)
    /\ UNCHANGED <<courseVars, tableVars, deskVars, workVars, mishaps>>

RequestStep(q) ==
    \/ Preflight(q) \/ Check(q) \/ Collect(q) \/ PublishSource(q) \/ PinSource(q)
    \/ CollectFails(q) \/ Stamp(q) \/ Admit(q) \/ RequestFails(q) \/ NotifyRequest(q)

Arrive == \E q \in Requests, a \in Assignments, k \in Keys, c \in Commits : Submit(q, a, k, c)
PushStep ==
    /\ \E r \in Repos, c \in Commits : Push(r, c)
    /\ UNCHANGED <<courseVars, tableVars, deskVars, workVars, mishaps>>

Next ==
    \/ Arrive \/ (\E q \in Requests : RequestStep(q))
    \/ WorkerStep \/ WorkerTrouble \/ StartService \/ Stop
    \/ (\E l \in Labels : ProcessByHand(l) \/ PublishByHand(l) \/ Grace(l))
    \/ CourseStep \/ PushStep \/ Collector

\* The worker's thread runs, and the service manager starts a service that ended.
Spec == Init /\ [][Next]_vars /\ WF_vars(WorkerStep) /\ WF_vars(StartService)

-----------------------------------------------------------------------------
(* Properties.                                                             *)

\* A receipt is evidence: the archive and the ref of every accepted submission
\* exist and hold the commit that was submitted, whatever the garbage collector
\* removes meanwhile; and what is being graded keeps its workspace.
ReceiptsAreKept ==
    /\ \A l \in Rows : LET r == RepoOf[sub[l].asg] IN
         Has(archive, l, r, sub[l].commit) /\ Has(ref, l, r, sub[l].commit)
    /\ At("grade") => workspace[Job] # None

\* One source is graded once: of one commit at most one submission has not
\* failed; an idempotency key was answered with one submission, the one of its
\* body, on every retry before and after a crash; admissions of requests in
\* flight for different repositories stay within the limits together, and no
\* submission is admitted without an attempt of its own, counted on its day.
AdmissionIsHonest ==
    /\ \A l, m \in Rows : sub[l].asg = sub[m].asg /\ sub[l].commit = sub[m].commit
         => l = m \/ "failed" \in {sub[l].state, sub[m].state}
    /\ \A t \in told : t.sub \in Rows /\ idem[t.asg][t.key] = t.sub
         /\ sub[t.sub].asg = t.asg /\ sub[t.sub].commit = t.commit
    /\ Cardinality(Outstanding) <= MaxOutstanding
    /\ \A d \in 0 .. MaxDay :
         /\ attempts[d] <= MaxDaily
         /\ Cardinality({l \in Rows : sub[l].day = d}) <= attempts[d]

Status(s) ==
    CASE s \in {"accepted", "queued"} -> "waiting"
      [] s = "running" -> "executing"
      [] s = "graded" -> "judged"
      [] s = "published" -> "public"
      [] OTHER -> s

Ledger == INSTANCE SubmissionLedger WITH
    Submissions <- Labels, status <- [l \in Labels |-> Status(sub[l].state)]

\* The older pipeline keeps the promises of the bundle pipeline: instructor code
\* runs at most once for a submission, an interrupted run fails and is not
\* repeated, and a verdict stays.
ImplementsGitLedger == Ledger!LedgerSpec

Settled(l) ==
    \/ sub[l].state \in Ended
    \/ sub[l].state = "graded" /\ ~ShouldPublish(sub[l].asg)

\* An accepted submission is graded and published, or fails.
SourceSettles(l) == sub[l].state # "none" ~> Settled(l)
=============================================================================
