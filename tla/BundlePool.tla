----------------------------- MODULE BundlePool -----------------------------
(***************************************************************************)
(* The bundle grading pool of one course (platform_bundle_worker.py) over  *)
(* the submission tables of BundleStore.                                   *)
(*                                                                         *)
(* One service process at a time holds the course lifecycle lock           *)
(* (platform_cli._exclusive_course_service_lock) and runs Threads over a   *)
(* bounded in-memory queue; between two service processes an operator may  *)
(* run `submission process`, which holds the same lock and processes one   *)
(* submission in its main thread.  Main is the main thread of whichever    *)
(* process lives.  A worker's local variables are its program counter, the *)
(* submission it processes, the list a recovery read and the time it read  *)
(* last; every database call and every use of the pool lock is one step.   *)
(*                                                                         *)
(* The operator's `submission publish`, deadline extensions and uploads    *)
(* need no lock and happen at any step.                                    *)
(***************************************************************************)
EXTENDS BundleStore, Sequences

CONSTANTS
    Threads,      \* the worker_count threads of the pool
    Main,         \* the main thread of the process that holds the lock
    NoJob,        \* a worker that processes nothing
    QueueSize,    \* max_queue_size
    MaxUpsets     \* bound: crashes, stops, manual runs and exceptions

Workers == Threads \cup {Main}

ASSUME PoolAssumption ==
    /\ Main \notin Threads
    /\ NoJob \notin Submissions
    /\ IsFiniteSet(Threads)
    /\ QueueSize \in Nat \ {0}
    /\ MaxUpsets \in Nat

VARIABLES
    clock,        \* wall clock
    owner,        \* who holds the lifecycle lock: "none", "service", "manual"
    phase,        \* service: "down", "recovering", "running", "stopping"
    queue,        \* BundleSubmissionWorker._queue
    enqueued,     \* BundleSubmissionWorker._enqueued
    unnotified,   \* uploads whose request thread has still to call notify
    pc,           \* what each worker does next
    job,          \* the submission it processes
    listed,       \* what its recovery has read and not yet notified
    readAt,       \* the time it read before it publishes
    executions,   \* how often the grader was started for each submission
    upsets

queueVars == <<queue, enqueued, unnotified>>
localVars == <<pc, job, listed, readAt>>
processVars == <<clock, owner, phase, upsets>>
poolVars == <<processVars, queueVars, localVars, executions>>
vars == <<storeVars, poolVars>>

Labels == {"off", "idle", "listPublishable", "notify", "read", "queue", "start",
           "prepare", "grading", "record", "decide", "publish", "interrupt",
           "fail", "done"}

Init ==
    /\ StoreInit
    /\ release = [a \in Assignments |-> "public"]
    /\ clock = 0
    /\ owner = "none"
    /\ phase = "down"
    /\ queue = <<>>
    /\ enqueued = {}
    /\ unnotified = {}
    /\ pc = [w \in Workers |-> "off"]
    /\ job = [w \in Workers |-> NoJob]
    /\ listed = [w \in Workers |-> {}]
    /\ readAt = [w \in Workers |-> 0]
    /\ executions = [s \in Submissions |-> 0]
    /\ upsets = 0

-----------------------------------------------------------------------------
(* Operators of the steps below.                                           *)

\* A thread at the end of an iteration looks at _stopping before it waits.
NextIteration == IF phase = "stopping" THEN "off" ELSE "idle"

Upset == upsets < MaxUpsets /\ upsets' = upsets + 1

\* A step that changes only what worker w does next.
Goto(w, label) ==
    /\ pc' = [pc EXCEPT ![w] = label]
    /\ UNCHANGED <<job, listed, readAt>>

\* BundleSubmissionProcessor._should_publish on the assignment row just read.
ShouldPublish(a, at) ==
    \/ Policy[a] \in {"immediate", "score_only"}
    \/ Policy[a] = "after_deadline" /\ due[a] # NoTime /\ due[a] <= at

\* Mutant of ForProcessing: recovery forgets what a worker had claimed.
ForProcessingUnclaimed == {s \in Submissions : state[s] = "accepted"}

\* Mutant of Publishable: recovery forgets the results a deadline holds back.
PublishableAtOnce(at) ==
    {s \in Submissions : /\ state[s] = "graded"
                         /\ Policy[request[s].assignment] \in {"immediate", "score_only"}}

\* list_bundle_submissions_for_processing and list_publishable_bundle_submissions
ForProcessing == {s \in Submissions : state[s] \in {"accepted", "queued", "running"}}
Publishable(at) ==
    {s \in Submissions : state[s] = "graded" /\ ShouldPublish(request[s].assignment, at)}

\* Mutant of NotifyOf: no deduplication.
NotifyTwice(s) ==
    IF Len(queue) < QueueSize
    THEN queue' = Append(queue, s) /\ enqueued' = enqueued \cup {s}
    ELSE UNCHANGED <<queue, enqueued>>

\* Mutant of NotifyOf: the id is remembered even when the queue is full.
NotifyLeaks(s) ==
    /\ enqueued' = enqueued \cup {s}
    /\ queue' = IF s \notin enqueued /\ Len(queue) < QueueSize
                THEN Append(queue, s) ELSE queue

\* BundleSubmissionWorker.notify
NotifyOf(s) ==
    IF s \notin enqueued /\ Len(queue) < QueueSize
    THEN queue' = Append(queue, s) /\ enqueued' = enqueued \cup {s}
    ELSE UNCHANGED <<queue, enqueued>>

-----------------------------------------------------------------------------
(* The process: start, stop, crash, the operator's manual processor.       *)

Boot ==
    /\ owner = "none"
    /\ owner' = "service"
    /\ phase' = "recovering"
    /\ Goto(Main, "idle")
    /\ UNCHANGED <<storeVars, queueVars, clock, upsets, executions>>

\* start(): recovery ran in the main thread; now every pool thread may run.
StartThreads ==
    /\ phase' = "running"
    /\ pc' = [w \in Workers |-> IF w = Main THEN "off" ELSE "idle"]
    /\ UNCHANGED <<job, readAt>>

ManualStart(s) ==
    /\ owner = "none"
    /\ state[s] # "absent"
    /\ Upset
    /\ owner' = "manual"
    /\ pc' = [pc EXCEPT ![Main] = "read"]
    /\ job' = [job EXCEPT ![Main] = s]
    /\ UNCHANGED <<storeVars, queueVars, clock, phase, listed, readAt, executions>>

ProcessGone ==
    /\ owner' = "none"
    /\ phase' = "down"
    /\ queue' = <<>>
    /\ enqueued' = {}
    /\ unnotified' = {}
    /\ pc' = [w \in Workers |-> "off"]
    /\ job' = [w \in Workers |-> NoJob]
    /\ listed' = [w \in Workers |-> {}]
    /\ readAt' = [w \in Workers |-> 0]
    /\ UNCHANGED <<storeVars, clock, executions>>

Crash ==
    /\ owner # "none"
    /\ Upset
    /\ ProcessGone

Stop ==
    /\ phase = "running"
    /\ Upset
    /\ phase' = "stopping"
    /\ UNCHANGED <<storeVars, queueVars, localVars, clock, owner, executions>>

\* An idle thread waits in queue.get or is about to look at _stopping.
LeaveLoop(t) ==
    /\ phase = "stopping"
    /\ pc[t] = "idle"
    /\ Goto(t, "off")
    /\ UNCHANGED <<storeVars, queueVars, processVars, executions>>

\* stop() joined the threads or its timeout passed; the threads are daemons.
Exit ==
    /\ phase = "stopping"
    /\ ProcessGone
    /\ UNCHANGED upsets

-----------------------------------------------------------------------------
(* A pool thread between two submissions; the main thread in start().      *)

Take(t) ==
    /\ pc[t] = "idle"
    /\ t # Main
    /\ queue # <<>>
    /\ job' = [job EXCEPT ![t] = Head(queue)]
    /\ queue' = Tail(queue)
    /\ pc' = [pc EXCEPT ![t] = "read"]
    /\ UNCHANGED <<storeVars, processVars, enqueued, unnotified, listed, readAt,
                   executions>>

Recover(w) ==
    /\ pc[w] = "idle"
    /\ w = Main \/ queue = <<>>
    /\ listed' = [listed EXCEPT ![w] = ForProcessing]
    /\ pc' = [pc EXCEPT ![w] = "listPublishable"]
    /\ UNCHANGED <<storeVars, processVars, queueVars, job, readAt, executions>>

ListPublishable(w) ==
    /\ pc[w] = "listPublishable"
    /\ listed' = [listed EXCEPT ![w] = @ \cup Publishable(clock)]
    /\ pc' = [pc EXCEPT ![w] = "notify"]
    /\ UNCHANGED <<storeVars, processVars, queueVars, job, readAt, executions>>

NotifyNext(w) ==
    /\ pc[w] = "notify"
    /\ \E s \in listed[w] :
          /\ NotifyOf(s)
          /\ listed' = [listed EXCEPT ![w] = @ \ {s}]
    /\ UNCHANGED <<storeVars, processVars, unnotified, pc, job, readAt, executions>>

Recovered(w) ==
    /\ pc[w] = "notify"
    /\ listed[w] = {}
    /\ IF w = Main
       THEN StartThreads /\ UNCHANGED <<listed, clock, owner, upsets>>
       ELSE Goto(w, NextIteration) /\ UNCHANGED processVars
    /\ UNCHANGED <<storeVars, queueVars, executions>>

\* A database call of a thread's recovery raises: the loop forgets the list.
RecoveryRaises(t) ==
    /\ pc[t] = "listPublishable"
    /\ t # Main
    /\ Upset
    /\ listed' = [listed EXCEPT ![t] = {}]
    /\ pc' = [pc EXCEPT ![t] = NextIteration]
    /\ UNCHANGED <<storeVars, queueVars, clock, owner, phase, job, readAt, executions>>

-----------------------------------------------------------------------------
(* BundleSubmissionProcessor.process on job[w].                            *)

\* Mutant of AfterRead: an interrupted grading is run again.
AfterReadRunsAgain(s) ==
    CASE state[s] = "running" -> "prepare"
      [] state[s] = "accepted" -> "queue"
      [] state[s] = "queued" -> "start"
      [] OTHER -> "done"

AfterRead(s) ==
    CASE state[s] = "running" -> "interrupt"
      [] state[s] = "accepted" -> "queue"
      [] state[s] = "queued" -> "start"
      [] state[s] = "graded" /\ ShouldPublish(request[s].assignment, clock) -> "publish"
      [] OTHER -> "done"

\* Continue at a label; only a publication still needs the time just read.
ReadTimeAndGoto(w, label) ==
    /\ pc' = [pc EXCEPT ![w] = label]
    /\ readAt' = [readAt EXCEPT ![w] = IF label = "publish" THEN clock ELSE 0]
    /\ UNCHANGED <<job, listed>>

Read(w) ==
    /\ pc[w] = "read"
    /\ ReadTimeAndGoto(w, AfterRead(job[w]))
    /\ UNCHANGED <<storeVars, processVars, queueVars, executions>>

\* The transition may be refused: PlatformInvalidTransition leaves process().
MoveOn(w, to, label) ==
    /\ IF <<state[job[w]], to>> \in AllowedTransitions
       THEN Transition(job[w], to) /\ Goto(w, label)
       ELSE Goto(w, "done") /\ UNCHANGED storeVars
    /\ UNCHANGED <<processVars, queueVars, executions>>

ToQueued(w) == pc[w] = "queue" /\ MoveOn(w, "queued", "start")

ToRunning(w) == pc[w] = "start" /\ MoveOn(w, "running", "prepare")

\* workspace_builder.prepare, then grader.grade starts the instructor's code.
Prepare(w) ==
    /\ pc[w] = "prepare"
    /\ \/ Goto(w, "fail") /\ UNCHANGED executions
       \/ /\ Goto(w, "grading")
          /\ executions' = [executions EXCEPT ![job[w]] = @ + 1]
    /\ UNCHANGED <<storeVars, processVars, queueVars>>

GraderReturns(w) ==
    /\ pc[w] = "grading"
    /\ \E label \in {"record", "fail"} : Goto(w, label)
    /\ UNCHANGED <<storeVars, processVars, queueVars, executions>>

Record(w) ==
    /\ pc[w] = "record"
    /\ IF state[job[w]] = "running"
       THEN RecordResult(job[w]) /\ Goto(w, "decide")
       ELSE Goto(w, "done") /\ UNCHANGED storeVars
    /\ UNCHANGED <<processVars, queueVars, executions>>

Decide(w) ==
    /\ pc[w] = "decide"
    /\ ReadTimeAndGoto(w, IF ShouldPublish(request[job[w]].assignment, clock)
                          THEN "publish" ELSE "done")
    /\ UNCHANGED <<storeVars, processVars, queueVars, executions>>

\* publish_bundle_result re-checks policy and deadline; a refusal raises.
PublishRefused(s, at) ==
    state[s] # "graded" \/ ~MayDisclose(request[s].assignment, at)

Publish(w) ==
    /\ pc[w] = "publish"
    /\ \E at \in readAt[w]..clock :
          \/ PublishResult(job[w], at)
          \/ PublishRefused(job[w], at) /\ UNCHANGED storeVars
    /\ ReadTimeAndGoto(w, "done")
    /\ UNCHANGED <<processVars, queueVars, executions>>

\* _fail: a refused transition returns the durable row instead.
FailTo(w, to) ==
    /\ IF <<state[job[w]], to>> \in AllowedTransitions
       THEN Transition(job[w], to)
       ELSE UNCHANGED storeVars
    /\ Goto(w, "done")
    /\ UNCHANGED <<processVars, queueVars, executions>>

Interrupt(w) == pc[w] = "interrupt" /\ FailTo(w, "infra_failed")

Fail(w) ==
    /\ pc[w] = "fail"
    /\ \E to \in {"infra_failed", "assessment_failed"} : FailTo(w, to)

\* process() raises: a database call gave up on the write lock, the store
\* refused the grade, or the preparation failed in a way _grade does not name.
Raise(w) ==
    /\ pc[w] \in {"read", "queue", "start", "prepare", "record", "decide", "publish",
                  "interrupt", "fail"}
    /\ Upset
    /\ ReadTimeAndGoto(w, "done")
    /\ UNCHANGED <<storeVars, queueVars, clock, owner, phase, executions>>

\* The loop's finally clause; the manual processor exits instead.
FinishThread(t) ==
    /\ pc[t] = "done"
    /\ t # Main
    /\ enqueued' = enqueued \ {job[t]}
    /\ job' = [job EXCEPT ![t] = NoJob]
    /\ pc' = [pc EXCEPT ![t] = NextIteration]
    /\ UNCHANGED <<storeVars, processVars, queue, unnotified, listed, readAt,
                   executions>>

FinishManual ==
    /\ pc[Main] = "done"
    /\ ProcessGone
    /\ UNCHANGED upsets

-----------------------------------------------------------------------------
(* Everybody else.                                                         *)

Tick ==
    /\ clock < MaxTime
    /\ clock' = clock + 1
    /\ UNCHANGED <<storeVars, queueVars, localVars, owner, phase, executions, upsets>>

\* StudentPlatformService.submit_bundle: the row commits first, the request
\* thread notifies the pool afterwards.
Upload ==
    /\ phase \in {"running", "stopping"}
    /\ \E s \in Submissions, st \in Students, a \in Assignments, k \in Keys,
          c \in Contents, at \in 0..clock :
          /\ Admit(s, st, a, k, c, at)
          /\ unnotified' = unnotified \cup {s}
    /\ UNCHANGED <<processVars, queue, enqueued, localVars, executions>>

NotifyUpload ==
    /\ \E s \in unnotified :
          /\ NotifyOf(s)
          /\ unnotified' = unnotified \ {s}
    /\ UNCHANGED <<storeVars, processVars, localVars, executions>>

OperatorPublish ==
    /\ \E s \in Submissions, at \in 0..clock : PublishResult(s, at)
    /\ UNCHANGED poolVars

InstructorExtends ==
    /\ \E a \in Assignments, d \in Times, at \in 0..clock : ExtendDeadline(a, d, at)
    /\ UNCHANGED poolVars

-----------------------------------------------------------------------------

WorkerStep(w) ==
    \/ Take(w) \/ Recover(w) \/ ListPublishable(w) \/ NotifyNext(w) \/ Recovered(w)
    \/ Read(w) \/ ToQueued(w) \/ ToRunning(w) \/ Prepare(w) \/ GraderReturns(w)
    \/ Record(w) \/ Decide(w) \/ Publish(w) \/ Interrupt(w) \/ Fail(w)
    \/ FinishThread(w)

Next ==
    \/ \E w \in Workers : WorkerStep(w) \/ Raise(w) \/ RecoveryRaises(w) \/ LeaveLoop(w)
    \/ FinishManual
    \/ Boot \/ Crash \/ Stop \/ Exit
    \/ \E s \in Submissions : ManualStart(s)
    \/ Tick \/ Upload \/ NotifyUpload \/ OperatorPublish \/ InstructorExtends

Spec == Init /\ [][Next]_vars

\* Threads are scheduled, a stopped or crashed service is started again, and
\* time passes.  Nobody has to upload, notify, extend or publish by hand.
Fairness ==
    /\ \A w \in Workers : WF_vars(WorkerStep(w))
    /\ WF_vars(FinishManual)
    /\ WF_vars(Boot)
    /\ WF_vars(Exit)
    /\ WF_vars(Tick)

FairSpec == Spec /\ Fairness

-----------------------------------------------------------------------------
(* Properties.                                                             *)

TypeOK ==
    /\ StoreTypeOK
    /\ clock \in Times
    /\ owner \in {"none", "service", "manual"}
    /\ phase \in {"down", "recovering", "running", "stopping"}
    /\ queue \in Seq(Submissions)
    /\ enqueued \subseteq Submissions
    /\ unnotified \subseteq Submissions
    /\ pc \in [Workers -> Labels]
    /\ job \in [Workers -> Submissions \cup {NoJob}]
    /\ listed \in [Workers -> SUBSET Submissions]
    /\ readAt \in [Workers -> Times]
    /\ executions \in [Submissions -> Nat]
    /\ upsets \in 0..MaxUpsets

\* While a worker grades a submission, its row says "running" and no other
\* worker touches the submission: neither the recovery's stale list, nor a
\* late notify, nor the operator's manual processor can take a live grading
\* for an interrupted one (_enqueued and the lifecycle lock).
Grading == {"prepare", "grading", "record", "fail"}

LiveGradingOwnsRow ==
    \A w \in Workers :
        pc[w] \in Grading =>
            /\ state[job[w]] = "running"
            /\ \A v \in Workers : job[v] = job[w] => v = w

\* _enqueued names exactly the submissions waiting in the queue, once each,
\* or being processed by a thread: an id left behind would be deduplicated
\* away for ever, an id missing would be graded by two threads.
Busy == {t \in Threads : job[t] # NoJob}

EnqueuedIsWaitingOrBusy ==
    /\ enqueued = {queue[i] : i \in DOMAIN queue} \cup {job[t] : t \in Busy}
    /\ \A i, j \in DOMAIN queue : queue[i] = queue[j] => i = j
    /\ \A t \in Busy, i \in DOMAIN queue : queue[i] # job[t]
    /\ \A t, u \in Busy : job[t] = job[u] => t = u

\* The pool implements the ledger: one execution per submission at most,
\* across crashes, restarts, manual runs and exceptions.
StatusOf(st) ==
    CASE st = "absent" -> "none"
      [] st \in {"accepted", "queued"} -> "waiting"
      [] st = "running" -> "executing"
      [] st = "graded" -> "judged"
      [] st = "published" -> "public"
      [] OTHER -> "failed"

Ledger == INSTANCE SubmissionLedger WITH
    status <- [s \in Submissions |-> StatusOf(state[s])],
    executions <- executions

ImplementsLedger == Ledger!LedgerSpec

\* Every accepted submission is eventually graded or failed, whatever part of
\* the process crashes in between: the durable recovery finds it again.
Settled == {"graded", "published", "infra_failed", "assessment_failed"}

EverySubmissionSettles ==
    \A s \in Submissions : (state[s] = "accepted") ~> (state[s] \in Settled)

\* A grade the policy wants public becomes public once the deadline, however
\* extended, has passed, even if the publishing worker was refused or died.
DueResultsArePublished ==
    \A s \in Submissions :
        (state[s] = "graded" /\ Policy[request[s].assignment] # "manual")
            ~> (state[s] = "published")

=============================================================================
