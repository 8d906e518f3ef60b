---------------------------- MODULE Bundle_proofs ----------------------------
(***************************************************************************)
(* Proofs about the two specifications that use the tables of BundleStore. *)
(* Every step of either is a step the tables allow, so the theorems of     *)
(* BundleStore_proofs hold of both.                                        *)
(*                                                                         *)
(* BundlePool: Shape relates the lock, the phase and the program counters, *)
(* and Exclusive says that no submission is in two hands.                  *)
(*                                                                         *)
(* BundleUploads, for any number of students, assignments, keys, sends and *)
(* retries: no upload is lost.  UploadInv adds where each key stands       *)
(* between the client that drew it and the row it may have.                *)
(***************************************************************************)
EXTENDS BundlePool, BundleUploads, BundleStore_proofs, SequenceTheorems

-----------------------------------------------------------------------------
(* BundlePool.                                                             *)

\* What a worker does with the submission it holds.
Processing == {"read", "queue", "start", "prepare", "grading", "record", "decide",
               "publish", "interrupt", "fail", "done"}

\* What a worker does while it recovers.
Recovering == {"idle", "listPublishable", "notify"}

PoolTypes ==
    /\ clock \in Times
    /\ owner \in {"none", "service", "manual"}
    /\ phase \in {"down", "recovering", "running", "stopping"}
    /\ queue \in Seq(Submissions)
    /\ enqueued \subseteq Submissions
    /\ unnotified \subseteq Submissions
    /\ pc \in [Workers -> Labels]
    /\ job \in [Workers -> Submissions \cup {NoJob}]
    /\ listed \in [Workers -> SUBSET Submissions]
    /\ readAt \in [Workers -> Times]
    /\ executions \in [Submissions -> Nat]
    /\ upsets \in 0..MaxUpsets

JobsHeld ==
    \A w \in Workers : (pc[w] \in Processing) <=> (job[w] # NoJob)

\* The lock has one owner: a service recovering in its main thread, a service
\* running its threads, or one manual run.
Shape ==
    /\ owner = "none" => phase = "down" /\ pc[Main] = "off"
    /\ owner = "manual" => phase = "down" /\ pc[Main] \in Processing
    /\ owner = "service" => phase # "down"
    /\ phase \in {"down", "recovering"} => \A t \in Threads : pc[t] = "off"
    /\ phase = "recovering" => owner = "service" /\ pc[Main] \in Recovering
    /\ phase \in {"running", "stopping"} => owner = "service" /\ pc[Main] = "off"

PoolInv == PoolTypes /\ JobsHeld /\ Shape

-----------------------------------------------------------------------------

LEMMA PoolInit == Init => PoolInv
<1> SUFFICES ASSUME Init PROVE PoolInv
  OBVIOUS
<1> USE PoolAssumption, StoreAssumption DEF Init
<1>1. PoolTypes
  BY DEF PoolTypes, Times, Labels
<1>2. JobsHeld
  BY DEF JobsHeld, Processing
<1>3. Shape
  BY DEF Shape, Workers
<1> QED
  BY <1>1, <1>2, <1>3 DEF PoolInv

\* Notifying a submission keeps the queue and the set it is remembered in typed.
LEMMA NotifyTypes ==
    ASSUME PoolTypes, NEW s \in Submissions, NotifyOf(s)
    PROVE  queue' \in Seq(Submissions) /\ enqueued' \subseteq Submissions
<1>1. queue \in Seq(Submissions) /\ enqueued \subseteq Submissions
  BY DEF PoolTypes
<1>2. CASE queue' = Append(queue, s) /\ enqueued' = enqueued \cup {s}
  BY <1>1, <1>2, AppendProperties
<1>3. CASE queue' = queue /\ enqueued' = enqueued
  BY <1>1, <1>3
<1> QED
  BY <1>2, <1>3 DEF NotifyOf

\* The steps that only move worker w on, before or after it holds a submission.
LEMMA LocalStep ==
    ASSUME PoolInv, NEW w \in Workers, NEW label \in Labels,
           UNCHANGED <<queueVars, job, clock, owner, phase>>,
           pc' = [pc EXCEPT ![w] = label],
           \/ pc[w] \in Processing /\ label \in Processing
           \/ pc[w] \in Recovering /\ label \in Recovering
           \/ w # Main /\ pc[w] \in Recovering /\ label = "off",
           listed' \in [Workers -> SUBSET Submissions],
           readAt' \in [Workers -> Times],
           executions' \in [Submissions -> Nat],
           upsets' \in 0..MaxUpsets
    PROVE  PoolInv'
<1>1. PoolTypes'
  BY DEF PoolInv, PoolTypes, queueVars
<1>2. JobsHeld'
  BY DEF PoolInv, PoolTypes, JobsHeld, Processing, Recovering
<1>3. Shape'
  <2>1. Main \in Workers /\ Main \notin Threads /\ Threads \subseteq Workers
    BY PoolAssumption DEF Workers
  <2>2. pc[w] # "off" /\ pc'[w] = label /\ \A v \in Workers : v # w => pc'[v] = pc[v]
    BY DEF PoolInv, PoolTypes, Processing, Recovering
  <2>3. \A t \in Threads : pc[t] = "off" => pc'[t] = "off"
    BY <2>1, <2>2
  <2>4. /\ pc[Main] \in Processing => pc'[Main] \in Processing
        /\ pc[Main] \in Recovering => pc'[Main] \in Recovering
        /\ pc[Main] = "off" => pc'[Main] = "off"
    BY <2>1, <2>2 DEF Processing, Recovering
  <2> QED
    BY <2>3, <2>4 DEF PoolInv, Shape
<1> QED
  BY <1>1, <1>2, <1>3 DEF PoolInv

\* The process ends: back to the state before a boot.
LEMMA ProcessGoneStep ==
    ASSUME PoolInv, ProcessGone, upsets' \in 0..MaxUpsets
    PROVE  PoolInv'
<1>1. PoolTypes'
  BY StoreAssumption DEF ProcessGone, PoolInv, PoolTypes, Labels, Times
<1>2. JobsHeld'
  BY DEF ProcessGone, JobsHeld, Processing
<1>3. Shape'
  BY DEF ProcessGone, Shape, Workers
<1> QED
  BY <1>1, <1>2, <1>3 DEF PoolInv

\* The steps of process() after the queue was read and before the job is dropped.
LEMMA ProcessStep ==
    ASSUME PoolInv, NEW w \in Workers,
           \/ Read(w) \/ ToQueued(w) \/ ToRunning(w) \/ Prepare(w) \/ GraderReturns(w)
           \/ Record(w) \/ Decide(w) \/ Publish(w) \/ Interrupt(w) \/ Fail(w) \/ Raise(w)
    PROVE  PoolInv'
<1>1. /\ pc \in [Workers -> Labels] /\ listed \in [Workers -> SUBSET Submissions]
      /\ readAt \in [Workers -> Times] /\ executions \in [Submissions -> Nat]
      /\ upsets \in 0..MaxUpsets /\ clock \in Times /\ 0 \in Times
      /\ pc[w] \in Processing => job[w] \in Submissions
  BY StoreAssumption DEF PoolInv, PoolTypes, JobsHeld, Times
<1>2. Processing \subseteq Labels
  BY DEF Processing, Labels
<1> DEFINE Moves(label) ==
        /\ pc[w] \in Processing /\ label \in Processing
        /\ pc' = [pc EXCEPT ![w] = label]
        /\ UNCHANGED <<queueVars, job, listed, clock, owner, phase>>
        /\ readAt' \in [Workers -> Times]
        /\ executions' \in [Submissions -> Nat]
        /\ upsets' \in 0..MaxUpsets
<1>3. ASSUME NEW label, Moves(label) PROVE PoolInv'
  BY <1>1, <1>2, <1>3, LocalStep
<1> USE <1>1 DEF Processing, Goto, ReadTimeAndGoto, processVars
<1>4. CASE Read(w)
  <2>1. AfterRead(job[w]) \in Processing
    BY DEF AfterRead
  <2> QED
    BY <1>4, <2>1, <1>3 DEF Read
<1>5. CASE ToQueued(w) \/ ToRunning(w)
  <2>1. PICK label \in {"start", "prepare", "done"} : Moves(label)
    BY <1>5 DEF ToQueued, ToRunning, MoveOn
  <2> QED
    BY <2>1, <1>3
<1>6. CASE Prepare(w)
  <2>1. CASE Goto(w, "fail") /\ UNCHANGED executions
    BY <1>6, <2>1, <1>3 DEF Prepare
  <2>2. CASE Goto(w, "grading") /\ executions' = [executions EXCEPT ![job[w]] = @ + 1]
    <3>1. executions' \in [Submissions -> Nat]
      BY <1>6, <2>2 DEF Prepare
    <3> QED
      BY <1>6, <2>2, <3>1, <1>3 DEF Prepare
  <2> QED
    BY <1>6, <2>1, <2>2 DEF Prepare
<1>7. CASE GraderReturns(w)
  BY <1>7, <1>3 DEF GraderReturns
<1>8. CASE Record(w)
  <2>1. PICK label \in {"decide", "done"} : Moves(label)
    BY <1>8 DEF Record
  <2> QED
    BY <2>1, <1>3
<1>9. CASE Decide(w)
  <2>1. PICK label \in {"publish", "done"} : Moves(label)
    BY <1>9 DEF Decide
  <2> QED
    BY <2>1, <1>3
<1>10. CASE Publish(w)
  BY <1>10, <1>3 DEF Publish
<1>11. CASE Interrupt(w) \/ Fail(w)
  BY <1>11, <1>3 DEF Interrupt, Fail, FailTo
<1>12. CASE Raise(w)
  <2>1. upsets' \in 0..MaxUpsets
    BY <1>12, PoolAssumption DEF Raise, Upset
  <2>2. readAt' \in [Workers -> Times]
    BY <1>12 DEF Raise
  <2>3. Moves("done")
    BY <1>12, <2>1, <2>2 DEF Raise
  <2> QED
    BY <2>3, <1>3
<1> QED
  BY <1>4, <1>5, <1>6, <1>7, <1>8, <1>9, <1>10, <1>11, <1>12

\* The steps of a recovery, and a thread that leaves its loop.
LEMMA RecoveryStep ==
    ASSUME PoolInv, NEW w \in Workers,
           \/ Recover(w) \/ ListPublishable(w) \/ NotifyNext(w)
           \/ w # Main /\ Recovered(w)
           \/ RecoveryRaises(w) \/ LeaveLoop(w)
    PROVE  PoolInv'
<1>1. /\ pc \in [Workers -> Labels] /\ listed \in [Workers -> SUBSET Submissions]
      /\ readAt \in [Workers -> Times] /\ executions \in [Submissions -> Nat]
      /\ upsets \in 0..MaxUpsets
  BY DEF PoolInv, PoolTypes
<1>2. Recovering \cup {"off"} \subseteq Labels
  BY DEF Recovering, Labels
<1> USE <1>1, <1>2 DEF Recovering, Goto, processVars
<1>3. CASE Recover(w)
  BY <1>3, LocalStep DEF Recover, ForProcessing
<1>4. CASE ListPublishable(w)
  BY <1>4, LocalStep DEF ListPublishable, Publishable
<1>5. CASE NotifyNext(w)
  <2>1. PICK s \in listed[w] :
           NotifyOf(s) /\ listed' = [listed EXCEPT ![w] = @ \ {s}]
    BY <1>5 DEF NotifyNext
  <2>2. queue' \in Seq(Submissions) /\ enqueued' \subseteq Submissions
    BY <2>1, NotifyTypes DEF PoolInv
  <2>3. /\ listed' \in [Workers -> SUBSET Submissions]
        /\ UNCHANGED <<clock, owner, phase, upsets, unnotified, pc, job, readAt, executions>>
    BY <1>5, <2>1 DEF NotifyNext
  <2> QED
    BY <2>2, <2>3 DEF PoolInv, PoolTypes, JobsHeld, Shape
<1>6. CASE w # Main /\ Recovered(w)
  <2>1. PICK label \in {"idle", "off"} : pc' = [pc EXCEPT ![w] = label]
    BY <1>6 DEF Recovered, NextIteration
  <2> QED
    BY <1>6, <2>1, LocalStep DEF Recovered
<1>7. CASE RecoveryRaises(w)
  <2>1. PICK label \in {"idle", "off"} : pc' = [pc EXCEPT ![w] = label]
    BY <1>7 DEF RecoveryRaises, NextIteration
  <2>2. upsets' \in 0..MaxUpsets
    BY <1>7, PoolAssumption DEF RecoveryRaises, Upset
  <2> QED
    BY <1>7, <2>1, <2>2, LocalStep DEF RecoveryRaises
<1>8. CASE LeaveLoop(w)
  <2>1. w # Main
    BY <1>8 DEF LeaveLoop, PoolInv, Shape
  <2> QED
    BY <1>8, <2>1, LocalStep DEF LeaveLoop
<1> QED
  BY <1>3, <1>4, <1>5, <1>6, <1>7, <1>8

\* Everything else that happens to the pool keeps its types and its shape.
LEMMA PoolStep == PoolInv /\ [Next]_vars => PoolInv'
<1> SUFFICES ASSUME PoolInv, [Next]_vars PROVE PoolInv'
  OBVIOUS
<1>1. CASE UNCHANGED vars
  BY <1>1 DEF vars, poolVars, processVars, queueVars, localVars, PoolInv, PoolTypes,
              JobsHeld, Shape
<1>2. ASSUME NEW t \in Workers, Take(t) PROVE PoolInv'
  <2>1. t # Main /\ t \in Threads /\ pc[t] = "idle" /\ queue \in Seq(Submissions)
    BY <1>2 DEF Take, PoolInv, PoolTypes, Workers
  <2>2. Head(queue) \in Submissions /\ Tail(queue) \in Seq(Submissions)
    BY <1>2, <2>1, HeadTailProperties DEF Take
  <2>3. PoolTypes'
    BY <1>2, <2>2 DEF Take, PoolInv, PoolTypes, processVars, Labels
  <2>4. JobsHeld'
    BY <1>2, <2>2, PoolAssumption DEF Take, PoolInv, PoolTypes, JobsHeld, Processing
  <2>5. Shape'
    BY <1>2, <2>1, PoolAssumption DEF Take, PoolInv, PoolTypes, Shape, processVars, Workers
  <2> QED
    BY <2>3, <2>4, <2>5 DEF PoolInv
<1>3. CASE Recovered(Main)
  <2>1. pc[Main] = "notify" /\ owner = "service" /\ phase = "recovering" /\ Main \in Workers
    BY <1>3 DEF Recovered, PoolInv, PoolTypes, Shape, Workers, Processing
  <2>2. \A w \in Workers : job[w] = NoJob
    BY <2>1 DEF PoolInv, JobsHeld, Shape, Processing, Workers
  <2>3. PoolTypes'
    BY <1>3 DEF Recovered, StartThreads, PoolInv, PoolTypes, queueVars, Labels
  <2>4. JobsHeld'
    BY <1>3, <2>2 DEF Recovered, StartThreads, JobsHeld, Processing
  <2>5. Shape'
    BY <1>3, <2>1 DEF Recovered, StartThreads, Shape
  <2> QED
    BY <2>3, <2>4, <2>5 DEF PoolInv
<1>4. ASSUME NEW t \in Workers, FinishThread(t) PROVE PoolInv'
  <2>1. t # Main /\ t \in Threads /\ pc[t] = "done"
    BY <1>4 DEF FinishThread, Workers
  <2>2. PoolTypes'
    BY <1>4 DEF FinishThread, NextIteration, PoolInv, PoolTypes, processVars, Labels
  <2>3. JobsHeld'
    BY <1>4 DEF FinishThread, NextIteration, PoolInv, PoolTypes, JobsHeld, Processing
  <2>4. Shape'
    BY <1>4, <2>1, PoolAssumption DEF FinishThread, PoolInv, PoolTypes, Shape, processVars,
       Workers
  <2> QED
    BY <2>2, <2>3, <2>4 DEF PoolInv
<1>5. CASE Boot
  <2>1. phase = "down" /\ pc[Main] = "off" /\ Main \in Workers
    BY <1>5 DEF Boot, PoolInv, Shape, Workers
  <2>2. PoolTypes'
    BY <1>5 DEF Boot, Goto, PoolInv, PoolTypes, queueVars, Labels
  <2>3. JobsHeld'
    BY <1>5, <2>1 DEF Boot, Goto, PoolInv, PoolTypes, JobsHeld, Processing
  <2>4. Shape'
    <3>1. /\ owner' = "service" /\ phase' = "recovering"
          /\ pc' = [pc EXCEPT ![Main] = "idle"] /\ pc \in [Workers -> Labels]
      BY <1>5 DEF Boot, Goto, PoolInv, PoolTypes
    <3>2. \A t \in Threads : pc[t] = "off" /\ t # Main /\ t \in Workers
      BY <2>1, PoolAssumption DEF PoolInv, Shape, Workers
    <3>3. pc'[Main] = "idle" /\ \A t \in Threads : pc'[t] = "off"
      BY <2>1, <3>1, <3>2
    <3> QED
      BY <3>1, <3>3 DEF Shape, Recovering
  <2> QED
    BY <2>2, <2>3, <2>4 DEF PoolInv
<1>6. ASSUME NEW s \in Submissions, ManualStart(s) PROVE PoolInv'
  <2>1. phase = "down" /\ pc[Main] = "off" /\ Main \in Workers
    BY <1>6 DEF ManualStart, PoolInv, Shape, Workers
  <2>2. PoolTypes'
    <3>1. upsets' \in 0..MaxUpsets
      BY <1>6, PoolAssumption DEF ManualStart, Upset, PoolInv, PoolTypes
    <3>2. /\ pc' \in [Workers -> Labels]
          /\ job' \in [Workers -> Submissions \cup {NoJob}]
      BY <1>6 DEF ManualStart, PoolInv, PoolTypes, Labels
    <3> QED
      BY <1>6, <3>1, <3>2 DEF ManualStart, PoolInv, PoolTypes, queueVars
  <2>3. JobsHeld'
    BY <1>6, <2>1, PoolAssumption DEF ManualStart, PoolInv, PoolTypes, JobsHeld, Processing
  <2>4. Shape'
    BY <1>6, <2>1, PoolAssumption DEF ManualStart, PoolInv, PoolTypes, Shape, Processing,
       Workers
  <2> QED
    BY <2>2, <2>3, <2>4 DEF PoolInv
<1>7. CASE Crash \/ Exit \/ FinishManual
  <2>1. ProcessGone /\ upsets' \in 0..MaxUpsets
    BY <1>7, PoolAssumption DEF Crash, Exit, FinishManual, Upset, PoolInv, PoolTypes
  <2> QED
    BY <2>1, ProcessGoneStep
<1>8. CASE Stop
  <2>1. PoolTypes'
    BY <1>8, PoolAssumption DEF Stop, Upset, PoolInv, PoolTypes, queueVars, localVars
  <2> QED
    BY <1>8, <2>1 DEF Stop, PoolInv, JobsHeld, Shape, localVars
<1>9. CASE Tick
  <2>1. clock' \in Times
    BY <1>9, StoreAssumption DEF Tick, PoolInv, PoolTypes, Times
  <2> QED
    BY <1>9, <2>1 DEF Tick, PoolInv, PoolTypes, JobsHeld, Shape, queueVars, localVars
<1>10. CASE Upload
  BY <1>10 DEF Upload, PoolInv, PoolTypes, JobsHeld, Shape, processVars, localVars
<1>11. CASE NotifyUpload
  <2>1. PICK s \in unnotified : NotifyOf(s) /\ unnotified' = unnotified \ {s}
    BY <1>11 DEF NotifyUpload
  <2>2. queue' \in Seq(Submissions) /\ enqueued' \subseteq Submissions
    BY <2>1, NotifyTypes DEF PoolInv, PoolTypes
  <2> QED
    BY <1>11, <2>1, <2>2 DEF NotifyUpload, PoolInv, PoolTypes, JobsHeld, Shape,
       processVars, localVars
<1>12. CASE OperatorPublish \/ InstructorExtends
  BY <1>12 DEF OperatorPublish, InstructorExtends, poolVars, processVars, queueVars,
               localVars, PoolInv, PoolTypes, JobsHeld, Shape
<1> QED
  BY <1>1, <1>2, <1>3, <1>4, <1>5, <1>6, <1>7, <1>8, <1>9, <1>10, <1>11, <1>12,
     RecoveryStep, ProcessStep DEF Next, WorkerStep

LEMMA PoolInvAlways == Spec => []PoolInv
  BY PoolInit, PoolStep, PTL DEF Spec

-----------------------------------------------------------------------------

\* A worker's step is a step of the store, or leaves the tables alone.
LEMMA WorkerStoreStep ==
    ASSUME PoolInv, NEW w \in Workers,
           WorkerStep(w) \/ Raise(w) \/ RecoveryRaises(w) \/ LeaveLoop(w)
    PROVE  [StoreNext]_storeVars
<1>1. pc[w] \in Processing => job[w] \in Submissions
  BY DEF PoolInv, PoolTypes, JobsHeld
<1>2. CASE ToQueued(w) \/ ToRunning(w)
  <2>1. CASE UNCHANGED storeVars
    BY <2>1
  <2>2. CASE \E to \in {"queued", "running"} : Transition(job[w], to)
    BY <1>1, <1>2, <2>2 DEF ToQueued, ToRunning, Processing, StoreNext, TransitionAny, States
  <2> QED
    BY <1>2, <2>1, <2>2 DEF ToQueued, ToRunning, MoveOn
<1>3. CASE Record(w)
  BY <1>1, <1>3 DEF Record, Processing, StoreNext, RecordAny
<1>4. CASE Publish(w)
  <2>1. readAt[w]..clock \subseteq Times
    BY StoreAssumption DEF PoolInv, PoolTypes, Times
  <2> QED
    BY <1>1, <1>4, <2>1 DEF Publish, Processing, StoreNext, PublishAny
<1>5. CASE Interrupt(w) \/ Fail(w)
  BY <1>1, <1>5 DEF Interrupt, Fail, FailTo, Processing, StoreNext, TransitionAny, States
<1>6. CASE ~(\/ ToQueued(w) \/ ToRunning(w) \/ Record(w) \/ Publish(w)
             \/ Interrupt(w) \/ Fail(w))
  BY <1>6 DEF WorkerStep, Take, Recover, ListPublishable, NotifyNext, Recovered,
              RecoveryRaises, LeaveLoop, Read, Prepare, GraderReturns, Decide,
              FinishThread, Raise
<1> QED
  BY <1>2, <1>3, <1>4, <1>5, <1>6

\* Every step of the system is a step the store allows, at a time the clock
\* has already shown.
LEMMA StoreStep == PoolInv /\ [Next]_vars => [StoreNext]_storeVars
<1> SUFFICES ASSUME PoolInv, [Next]_vars PROVE [StoreNext]_storeVars
  OBVIOUS
<1>1. 0..clock \subseteq Times
  BY StoreAssumption DEF PoolInv, PoolTypes, Times
<1>2. CASE Upload
  BY <1>1, <1>2 DEF Upload, StoreNext, AdmitAny
<1>3. CASE OperatorPublish
  BY <1>1, <1>3 DEF OperatorPublish, StoreNext, PublishAny
<1>4. CASE InstructorExtends
  BY <1>1, <1>4 DEF InstructorExtends, StoreNext, ExtendAny
<1>5. CASE UNCHANGED vars
  BY <1>5 DEF vars
<1>6. CASE \/ Boot \/ Crash \/ Stop \/ Exit \/ FinishManual \/ Tick \/ NotifyUpload
           \/ \E s \in Submissions : ManualStart(s)
  BY <1>6 DEF Boot, Crash, Stop, Exit, FinishManual, Tick, NotifyUpload, ManualStart,
              ProcessGone
<1> QED
  BY <1>2, <1>3, <1>4, <1>5, <1>6, WorkerStoreStep DEF Next

\* The pool changes the tables by their methods alone, with times the clock has
\* shown, so that what BundleStore_proofs proves may be cited below.
LEMMA PoolUsesStore == Spec => StoreSpec
  BY PoolInvAlways, StoreStep, PTL DEF Spec, Init, StoreSpec

\* The pool's variables keep their types.
THEOREM PoolTypeCorrect == Spec => []TypeOK
<1>1. Spec => []StoreTypeOK
  BY PoolUsesStore, StoreTypeCorrect
<1>2. PoolInv /\ StoreTypeOK => TypeOK
  BY DEF PoolInv, PoolTypes, TypeOK
<1> QED
  BY <1>1, <1>2, PoolInvAlways, PTL

\* What the tables promise, they promise while the pool runs.
THEOREM PoolKeepsPromises ==
    Spec => [](/\ ResultsMatchStates
               /\ DisclosedAfterDeadline
               /\ NothingReceivedAfterDisclosure
               /\ OneSubmissionPerKey
               /\ OutstandingBounded
               /\ DailyBounded)
  BY PoolUsesStore, GradesMatch, DisclosureRespectsDeadline, NoUploadAfterDisclosure,
     KeysAreIdempotent, OutstandingLimited, DailyLimited, PTL

-----------------------------------------------------------------------------
(* No submission is in two hands.                                          *)

\* notify() puts an id into the queue only together with remembering it.
LEMMA NotifyExclusive ==
    ASSUME PoolTypes, EnqueuedIsWaitingOrBusy, NEW s \in Submissions, NotifyOf(s),
           UNCHANGED job
    PROVE  EnqueuedIsWaitingOrBusy'
<1>1. queue \in Seq(Submissions) /\ Len(queue) \in Nat /\ DOMAIN queue = 1..Len(queue)
  BY LenProperties DEF PoolTypes
<1>2. CASE UNCHANGED <<queue, enqueued>>
  BY <1>2 DEF EnqueuedIsWaitingOrBusy, Busy
<1>3. CASE s \notin enqueued /\ queue' = Append(queue, s) /\ enqueued' = enqueued \cup {s}
  <2>1. /\ DOMAIN queue' = 1..(Len(queue) + 1)
        /\ \A i \in 1..Len(queue) : queue'[i] = queue[i]
        /\ queue'[Len(queue) + 1] = s
    BY <1>1, <1>3, AppendProperties
  <2>2. DOMAIN queue' = DOMAIN queue \cup {Len(queue) + 1}
    BY <1>1, <2>1
  <2>3. {queue'[i] : i \in DOMAIN queue'} = {queue[i] : i \in DOMAIN queue} \cup {s}
    BY <1>1, <2>1, <2>2
  <2>4. (\A i \in DOMAIN queue : queue[i] # s) /\ (\A t \in Busy : job[t] # s) /\ Busy' = Busy
    BY <1>3 DEF EnqueuedIsWaitingOrBusy, Busy
  <2>5. \A i \in DOMAIN queue' : (i \in DOMAIN queue /\ queue'[i] = queue[i])
                               \/ (i = Len(queue) + 1 /\ queue'[i] = s)
    BY <1>1, <2>1, <2>2
  <2>6. enqueued' = {queue'[i] : i \in DOMAIN queue'} \cup {job'[t] : t \in Busy'}
    BY <1>3, <2>3, <2>4 DEF EnqueuedIsWaitingOrBusy
  <2>7. \A i, j \in DOMAIN queue' : queue'[i] = queue'[j] => i = j
    BY <2>4, <2>5 DEF EnqueuedIsWaitingOrBusy
  <2>8. \A t \in Busy', i \in DOMAIN queue' : queue'[i] # job'[t]
    BY <2>4, <2>5 DEF EnqueuedIsWaitingOrBusy
  <2>9. \A t, u \in Busy' : job'[t] = job'[u] => t = u
    BY <2>4 DEF EnqueuedIsWaitingOrBusy
  <2> QED
    BY <2>6, <2>7, <2>8, <2>9 DEF EnqueuedIsWaitingOrBusy
<1> QED
  BY <1>2, <1>3 DEF NotifyOf

\* A thread that takes the head of the queue holds what was waiting there.
LEMMA TakeExclusive ==
    ASSUME PoolInv, EnqueuedIsWaitingOrBusy, NEW t \in Workers, Take(t)
    PROVE  EnqueuedIsWaitingOrBusy'
<1>1. t \in Threads /\ job[t] = NoJob /\ queue # <<>> /\ queue \in Seq(Submissions)
  BY DEF Take, PoolInv, PoolTypes, JobsHeld, Processing, Workers
<1>2. /\ Len(queue) \in Nat /\ Len(queue) > 0 /\ DOMAIN queue = 1..Len(queue)
      /\ Head(queue) = queue[1] /\ Head(queue) \in Submissions
      /\ DOMAIN Tail(queue) = 1..(Len(queue) - 1)
      /\ \A i \in 1..(Len(queue) - 1) : Tail(queue)[i] = queue[i + 1]
  BY <1>1, HeadTailProperties, LenProperties, EmptySeq
<1>3. /\ queue' = Tail(queue) /\ UNCHANGED enqueued
      /\ job'[t] = queue[1] /\ job'[t] # NoJob
      /\ \A u \in Workers : u # t => job'[u] = job[u]
  BY <1>2, PoolAssumption DEF Take, PoolInv, PoolTypes
<1>4. Busy' = Busy \cup {t} /\ t \notin Busy /\ Busy \subseteq Workers
  BY <1>1, <1>3 DEF Busy, Workers
<1>5. {queue[i] : i \in DOMAIN queue} = {queue'[i] : i \in DOMAIN queue'} \cup {queue[1]}
  <2>1. ASSUME NEW i \in DOMAIN queue, i # 1
        PROVE  i - 1 \in DOMAIN queue' /\ queue'[i - 1] = queue[i]
    BY <1>2, <1>3, <2>1
  <2>2. ASSUME NEW i \in DOMAIN queue'
        PROVE  i + 1 \in DOMAIN queue /\ queue'[i] = queue[i + 1]
    BY <1>2, <1>3, <2>2
  <2>3. 1 \in DOMAIN queue
    BY <1>2
  <2> QED
    BY <2>1, <2>2, <2>3
<1>6. {job'[u] : u \in Busy'} = {job[u] : u \in Busy} \cup {queue[1]}
  BY <1>3, <1>4
<1>7. enqueued' = {queue'[i] : i \in DOMAIN queue'} \cup {job'[u] : u \in Busy'}
  BY <1>3, <1>5, <1>6 DEF EnqueuedIsWaitingOrBusy
<1>8. ASSUME NEW i \in DOMAIN queue'
      PROVE  i + 1 \in DOMAIN queue /\ 1 \in DOMAIN queue /\ i + 1 # 1 /\ i \in Int
             /\ queue'[i] = queue[i + 1]
  BY <1>2, <1>3, <1>8
<1>9. \A i, j \in DOMAIN queue' : queue'[i] = queue'[j] => i = j
  <2> SUFFICES ASSUME NEW i \in DOMAIN queue', NEW j \in DOMAIN queue',
                      queue'[i] = queue'[j]
               PROVE  i = j
    OBVIOUS
  <2>1. i + 1 = j + 1
    BY <1>8 DEF EnqueuedIsWaitingOrBusy
  <2> QED
    BY <2>1, <1>8
<1>10. \A u \in Busy', i \in DOMAIN queue' : queue'[i] # job'[u]
  BY <1>3, <1>4, <1>8 DEF EnqueuedIsWaitingOrBusy
<1>11. \A u, v \in Busy' : job'[u] = job'[v] => u = v
  BY <1>2, <1>3, <1>4 DEF EnqueuedIsWaitingOrBusy
<1> QED
  BY <1>7, <1>9, <1>10, <1>11 DEF EnqueuedIsWaitingOrBusy

\* A thread that is done forgets the id nobody else holds.
LEMMA FinishExclusive ==
    ASSUME PoolInv, EnqueuedIsWaitingOrBusy, NEW t \in Workers, FinishThread(t)
    PROVE  EnqueuedIsWaitingOrBusy'
<1>1. t \in Threads /\ job[t] # NoJob
  BY DEF FinishThread, PoolInv, JobsHeld, Processing, Workers
<1>2. /\ UNCHANGED queue /\ enqueued' = enqueued \ {job[t]} /\ job'[t] = NoJob
      /\ \A u \in Workers : u # t => job'[u] = job[u]
  BY DEF FinishThread, PoolInv, PoolTypes
<1>3. Busy' = Busy \ {t} /\ t \in Busy /\ Busy \subseteq Workers
  BY <1>1, <1>2 DEF Busy, Workers
<1> QED
  BY <1>2, <1>3 DEF EnqueuedIsWaitingOrBusy

\* What the threads hold and what waits is all that decides the property.
LEMMA SameHandsExclusive ==
    ASSUME PoolInv, EnqueuedIsWaitingOrBusy, UNCHANGED <<queue, enqueued>>,
           \A t \in Threads : job'[t] = job[t]
    PROVE  EnqueuedIsWaitingOrBusy'
<1>1. Busy' = Busy /\ \A t \in Busy : job'[t] = job[t]
  BY DEF Busy
<1> QED
  BY <1>1 DEF EnqueuedIsWaitingOrBusy

LEMMA ExclusiveStep ==
    PoolInv /\ PoolInv' /\ EnqueuedIsWaitingOrBusy /\ [Next]_vars => EnqueuedIsWaitingOrBusy'
<1> SUFFICES ASSUME PoolInv, PoolInv', EnqueuedIsWaitingOrBusy, [Next]_vars
             PROVE  EnqueuedIsWaitingOrBusy'
  OBVIOUS
<1>1. CASE \E w \in Workers : Take(w) \/ FinishThread(w)
  BY <1>1, TakeExclusive, FinishExclusive
<1>2. CASE \E w \in Workers : NotifyNext(w)
  <2>1. PICK s \in Submissions : NotifyOf(s) /\ UNCHANGED job
    BY <1>2 DEF NotifyNext, PoolInv, PoolTypes
  <2> QED
    BY <2>1, NotifyExclusive DEF PoolInv
<1>3. CASE NotifyUpload
  <2>1. PICK s \in Submissions : NotifyOf(s) /\ UNCHANGED job
    BY <1>3 DEF NotifyUpload, localVars, PoolInv, PoolTypes
  <2> QED
    BY <2>1, NotifyExclusive DEF PoolInv
<1>4. CASE Crash \/ Exit \/ FinishManual
  <2>1. queue' = <<>> /\ enqueued' = {} /\ Busy' = {}
    BY <1>4 DEF Crash, Exit, FinishManual, ProcessGone, Busy, Workers
  <2> QED
    BY <2>1 DEF EnqueuedIsWaitingOrBusy
<1>5. CASE \E s \in Submissions : ManualStart(s)
  <2>1. UNCHANGED <<queue, enqueued>> /\ \A t \in Threads : job'[t] = job[t]
    BY <1>5, PoolAssumption DEF ManualStart, queueVars, PoolInv, PoolTypes, Workers
  <2> QED
    BY <2>1, SameHandsExclusive
<1>6. CASE ~(\/ \E w \in Workers : Take(w) \/ FinishThread(w) \/ NotifyNext(w)
             \/ NotifyUpload \/ Crash \/ Exit \/ FinishManual
             \/ \E s \in Submissions : ManualStart(s))
  <2>1. CASE \/ \E w \in Workers : WorkerStep(w) \/ Raise(w) \/ RecoveryRaises(w) \/ LeaveLoop(w)
             \/ UNCHANGED vars
    <3>1. UNCHANGED <<queue, enqueued, job>>
      BY <1>6, <2>1
         DEF WorkerStep, Recover, ListPublishable, Recovered, StartThreads, RecoveryRaises,
             LeaveLoop, Read, ToQueued, ToRunning, MoveOn, Prepare, GraderReturns, Record,
             Decide, Publish, Interrupt, Fail, FailTo, Raise, Goto, ReadTimeAndGoto,
             queueVars, vars, poolVars, localVars
    <3> QED
      BY <3>1, SameHandsExclusive
  <2>2. CASE Boot \/ Stop \/ Tick \/ Upload \/ OperatorPublish \/ InstructorExtends
    <3>1. UNCHANGED <<queue, enqueued, job>>
      BY <2>2 DEF Boot, Stop, Tick, Upload, OperatorPublish, InstructorExtends, Goto,
                  queueVars, poolVars, localVars
    <3> QED
      BY <3>1, SameHandsExclusive
  <2> QED
    BY <1>6, <2>1, <2>2 DEF Next
<1> QED
  BY <1>1, <1>2, <1>3, <1>4, <1>5, <1>6

\* notify(), recover() and the loop's finally clause keep _enqueued equal to
\* what waits or is being processed, each submission once.
THEOREM EnqueuedExact == Spec => []EnqueuedIsWaitingOrBusy
<1>1. Init => EnqueuedIsWaitingOrBusy
  BY DEF Init, EnqueuedIsWaitingOrBusy, Busy, Workers
<1> QED
  BY <1>1, ExclusiveStep, PoolInvAlways, PTL DEF Spec

\* With the lifecycle lock this holds of all workers, the main thread included.
JobsDistinct ==
    \A v, w \in Workers : job[v] # NoJob /\ job[v] = job[w] => v = w

LEMMA NobodyElse == PoolInv /\ EnqueuedIsWaitingOrBusy => JobsDistinct
<1> SUFFICES ASSUME PoolInv, EnqueuedIsWaitingOrBusy, NEW v \in Workers, NEW w \in Workers,
                    job[v] # NoJob, job[v] = job[w]
             PROVE  v = w
  BY DEF JobsDistinct
<1>1. ASSUME NEW t \in Threads PROVE ~(job[Main] # NoJob /\ job[t] # NoJob)
  BY <1>1 DEF PoolInv, PoolTypes, JobsHeld, Shape, Processing, Recovering, Workers
<1>2. v \in Threads \cup {Main} /\ w \in Threads \cup {Main}
  BY DEF Workers
<1>3. CASE v \in Threads /\ w \in Threads
  BY <1>3 DEF EnqueuedIsWaitingOrBusy, Busy
<1> QED
  BY <1>1, <1>2, <1>3

-----------------------------------------------------------------------------
(* At most one execution.                                                  *)

\* What a worker at each label knows of its row and of the executions.
Claim(w) ==
    /\ pc[w] \in Grading \cup {"interrupt"} => state[job[w]] = "running"
    /\ pc[w] = "prepare" => executions[job[w]] = 0
    /\ pc[w] \in {"grading", "record"} => executions[job[w]] = 1

Claims == \A w \in Workers : Claim(w)

NotStarted ==
    \A s \in Submissions :
        state[s] \in {"absent", "received", "accepted", "queued"} => executions[s] = 0

LedgerInv ==
    /\ PoolInv
    /\ StoreTypeOK
    /\ EnqueuedIsWaitingOrBusy
    /\ Claims
    /\ NotStarted

\* What a worker does to its own submission no other worker's claim is about.
LEMMA OthersKeepClaims ==
    ASSUME LedgerInv, NEW w \in Workers, job[w] # NoJob, UNCHANGED job,
           \A v \in Workers : v # w => pc'[v] = pc[v],
           \A s \in Submissions : s # job[w] =>
               state'[s] = state[s] /\ executions'[s] = executions[s],
           NEW v \in Workers, v # w
    PROVE  Claim(v)'
<1>1. CASE job[v] # NoJob
  <2>1. job[v] # job[w]
    BY <1>1, NobodyElse DEF JobsDistinct, LedgerInv
  <2>2. job[v] \in Submissions
    BY <1>1 DEF LedgerInv, PoolInv, PoolTypes
  <2> QED
    BY <2>1, <2>2 DEF Claim, Claims, LedgerInv
<1>2. CASE job[v] = NoJob
  <2>1. pc'[v] \notin Processing
    BY <1>2 DEF LedgerInv, PoolInv, JobsHeld
  <2> QED
    BY <2>1 DEF Claim, Processing, Grading
<1> QED
  BY <1>1, <1>2

\* A step that only moves workers to labels without a claim, or changes rows
\* nobody can be grading.
LEMMA QuietStep ==
    ASSUME LedgerInv, UNCHANGED executions,
           \A w \in Workers : \/ pc'[w] = pc[w] /\ job'[w] = job[w]
                              \/ pc'[w] \notin Grading \cup {"interrupt"},
           \A s \in Submissions : \/ state'[s] = state[s]
                                  \/ state[s] = "absent" /\ state'[s] = "accepted"
                                  \/ state[s] = "graded" /\ state'[s] = "published"
    PROVE  Claims' /\ NotStarted'
<1>1. ASSUME NEW w \in Workers PROVE Claim(w)'
  <2>1. CASE pc'[w] \notin Grading \cup {"interrupt"}
    BY <2>1 DEF Claim, Grading
  <2>2. CASE pc'[w] \in Grading \cup {"interrupt"}
    <3>1. pc'[w] = pc[w] /\ job'[w] = job[w] /\ state[job[w]] = "running"
      BY <2>2 DEF LedgerInv, Claims, Claim
    <3>2. job[w] \in Submissions
      BY <2>2, <3>1 DEF LedgerInv, PoolInv, PoolTypes, JobsHeld, Processing, Grading
    <3>3. state'[job[w]] = "running"
      BY <3>1, <3>2
    <3> QED
      BY <3>1, <3>3 DEF LedgerInv, Claims, Claim
  <2> QED
    BY <2>1, <2>2
<1>2. NotStarted'
  BY DEF LedgerInv, NotStarted
<1> QED
  BY <1>1, <1>2 DEF Claims

\* The steps of a worker on the submission it holds that are not quiet.
LEMMA ClaimsWorker ==
    ASSUME LedgerInv, NEW w \in Workers,
           \/ Read(w) \/ ToQueued(w) \/ ToRunning(w) \/ Prepare(w) \/ GraderReturns(w)
           \/ Record(w) \/ Interrupt(w) \/ Fail(w)
    PROVE  Claims' /\ NotStarted'
<1>1. /\ pc \in [Workers -> Labels] /\ executions \in [Submissions -> Nat]
      /\ state \in [Submissions -> States]
  BY DEF LedgerInv, PoolInv, PoolTypes, StoreTypeOK
<1>2. pc[w] \in Processing
  BY DEF Read, ToQueued, ToRunning, Prepare, GraderReturns, Record, Interrupt, Fail,
         Processing
<1>3. job[w] \in Submissions /\ job[w] # NoJob
  BY <1>2, PoolAssumption DEF LedgerInv, PoolInv, PoolTypes, JobsHeld
<1>4. /\ UNCHANGED job
      /\ \A v \in Workers : v # w => pc'[v] = pc[v]
      /\ \A s \in Submissions : s # job[w] =>
             state'[s] = state[s] /\ executions'[s] = executions[s]
  BY <1>1, <1>3
     DEF Read, ToQueued, ToRunning, MoveOn, Transition, Prepare, GraderReturns, Record,
         RecordResult, Interrupt, Fail, FailTo, Goto, ReadTimeAndGoto, storeVars
<1>5. ASSUME NEW v \in Workers, v # w PROVE Claim(v)'
  BY <1>3, <1>4, <1>5, OthersKeepClaims
<1>6. ASSUME NEW s \in Submissions, s # job[w]
      PROVE  state'[s] \in {"absent", "received", "accepted", "queued"}
                => executions'[s] = 0
  BY <1>4, <1>6 DEF LedgerInv, NotStarted
<1> DEFINE Mine == Claim(w)'
           Started == state'[job[w]] \in {"absent", "received", "accepted", "queued"}
                         => executions'[job[w]] = 0
<1>7. SUFFICES Mine /\ Started
  BY <1>5, <1>6, <1>7 DEF Claims, NotStarted
<1>8. Claim(w) /\ (state[job[w]] \in {"absent", "received", "accepted", "queued"}
                      => executions[job[w]] = 0)
  BY <1>3 DEF LedgerInv, Claims, NotStarted
<1> USE <1>1, <1>3 DEF Claim, Grading, Goto, ReadTimeAndGoto
<1>9. CASE Read(w)
  <2>1. pc'[w] = AfterRead(job[w]) /\ UNCHANGED <<job, state, executions>>
    BY <1>9 DEF Read, storeVars
  <2> QED
    BY <1>8, <2>1 DEF AfterRead
<1>10. CASE ToQueued(w)
  <2>1. CASE state[job[w]] = "accepted"
    BY <1>8, <1>10, <2>1 DEF ToQueued, MoveOn, AllowedTransitions, Transition
  <2>2. CASE state[job[w]] # "accepted"
    BY <1>8, <1>10, <2>2 DEF ToQueued, MoveOn, AllowedTransitions, storeVars
  <2> QED
    BY <2>1, <2>2
<1>11. CASE ToRunning(w)
  <2>1. CASE state[job[w]] = "queued"
    BY <1>8, <1>11, <2>1 DEF ToRunning, MoveOn, AllowedTransitions, Transition
  <2>2. CASE state[job[w]] # "queued"
    BY <1>8, <1>11, <2>2 DEF ToRunning, MoveOn, AllowedTransitions, storeVars
  <2> QED
    BY <2>1, <2>2
<1>12. CASE Prepare(w)
  BY <1>8, <1>12 DEF Prepare, storeVars
<1>13. CASE GraderReturns(w)
  BY <1>8, <1>13 DEF GraderReturns, storeVars
<1>14. CASE Record(w)
  BY <1>8, <1>14 DEF Record, RecordResult, storeVars
<1>15. CASE Interrupt(w) \/ Fail(w)
  <2>1. PICK to \in {"infra_failed", "assessment_failed"} : FailTo(w, to)
    BY <1>15 DEF Interrupt, Fail
  <2>2. pc'[w] = "done" /\ UNCHANGED executions
    BY <2>1 DEF FailTo
  <2>3. state'[job[w]] \in {to, state[job[w]]}
    BY <2>1 DEF FailTo, Transition, storeVars
  <2> QED
    BY <1>4, <1>8, <2>2, <2>3
<1> QED
  BY <1>9, <1>10, <1>11, <1>12, <1>13, <1>14, <1>15

\* An upload gives one new row the state "accepted".
LEMMA UploadAdmits ==
    ASSUME Upload
    PROVE  \E s \in Submissions :
               state[s] = "absent" /\ state' = [state EXCEPT ![s] = "accepted"]
<1>1. PICK s \in Submissions, st \in Students, a \in Assignments, k \in Keys,
           c \in Contents, at \in 0..clock : Admit(s, st, a, k, c, at)
  BY DEF Upload
<1> QED
  BY <1>1 DEF Admit

\* No step of the system breaks what the workers know of their rows.
LEMMA ClaimsStep == LedgerInv /\ PoolInv' /\ [Next]_vars => Claims' /\ NotStarted'
<1> SUFFICES ASSUME LedgerInv, PoolInv', [Next]_vars PROVE Claims' /\ NotStarted'
  OBVIOUS
<1>1. /\ pc \in [Workers -> Labels] /\ job \in [Workers -> Submissions \cup {NoJob}]
      /\ state \in [Submissions -> States]
  BY DEF LedgerInv, PoolInv, PoolTypes, StoreTypeOK
<1> USE <1>1 DEF Grading
<1>2. ASSUME NEW w \in Workers,
             \/ Recover(w) \/ ListPublishable(w) \/ NotifyNext(w) \/ Recovered(w)
             \/ RecoveryRaises(w) \/ LeaveLoop(w) \/ Take(w) \/ FinishThread(w)
             \/ Decide(w) \/ Raise(w)
      PROVE  Claims' /\ NotStarted'
  <2>1. UNCHANGED <<state, executions>>
    BY <1>2 DEF Recover, ListPublishable, NotifyNext, Recovered, RecoveryRaises, LeaveLoop,
                Take, FinishThread, Decide, Raise, storeVars
  <2>2. \A v \in Workers : \/ pc'[v] = pc[v] /\ job'[v] = job[v]
                           \/ pc'[v] \notin Grading \cup {"interrupt"}
    <3>1. CASE Recovered(w)
      BY <3>1 DEF Recovered, StartThreads, Goto, NextIteration
    <3>2. CASE Take(w) \/ FinishThread(w) \/ RecoveryRaises(w) \/ LeaveLoop(w)
      BY <3>2 DEF Take, FinishThread, RecoveryRaises, LeaveLoop, NextIteration, Goto
    <3>3. CASE Recover(w) \/ ListPublishable(w) \/ NotifyNext(w) \/ Decide(w) \/ Raise(w)
      BY <3>3 DEF Recover, ListPublishable, NotifyNext, Decide, Raise, ReadTimeAndGoto
    <3> QED
      BY <1>2, <3>1, <3>2, <3>3
  <2> QED
    BY <2>1, <2>2, QuietStep
<1>3. ASSUME NEW w \in Workers, Publish(w) PROVE Claims' /\ NotStarted'
  <2>1. pc' = [pc EXCEPT ![w] = "done"] /\ UNCHANGED <<job, executions>>
    BY <1>3 DEF Publish, ReadTimeAndGoto
  <2>2. UNCHANGED state \/ (state[job[w]] = "graded" /\ state' = [state EXCEPT ![job[w]] = "published"])
    BY <1>3 DEF Publish, PublishResult, storeVars
  <2> QED
    BY <2>1, <2>2, QuietStep
<1>4. CASE Upload
  <2>1. PICK s \in Submissions : state[s] = "absent" /\ state' = [state EXCEPT ![s] = "accepted"]
    BY <1>4, UploadAdmits
  <2>2. UNCHANGED <<pc, job, executions>>
    BY <1>4 DEF Upload, localVars
  <2> QED
    BY <2>1, <2>2, QuietStep
<1>5. CASE OperatorPublish
  <2>1. PICK s \in Submissions : state[s] = "graded" /\ state' = [state EXCEPT ![s] = "published"]
    BY <1>5 DEF OperatorPublish, PublishResult
  <2>2. UNCHANGED <<pc, job, executions>>
    BY <1>5 DEF OperatorPublish, poolVars, localVars
  <2> QED
    BY <2>1, <2>2, QuietStep
<1>6. CASE Crash \/ Exit \/ FinishManual
  <2>1. UNCHANGED <<state, executions>> /\ pc' = [w \in Workers |-> "off"]
    BY <1>6 DEF Crash, Exit, FinishManual, ProcessGone, storeVars
  <2> QED
    BY <2>1, QuietStep
<1>7. CASE Boot \/ \E s \in Submissions : ManualStart(s)
  <2>1. UNCHANGED <<state, executions>>
    BY <1>7 DEF Boot, ManualStart, storeVars
  <2>2. \A v \in Workers : \/ pc'[v] = pc[v] /\ job'[v] = job[v]
                           \/ pc'[v] \notin Grading \cup {"interrupt"}
    <3>1. Main \in Workers
      BY DEF Workers
    <3>2. CASE Boot
      BY <3>1, <3>2 DEF Boot, Goto
    <3>3. CASE \E s \in Submissions : ManualStart(s)
      BY <3>1, <3>3 DEF ManualStart
    <3> QED
      BY <1>7, <3>2, <3>3
  <2> QED
    BY <2>1, <2>2, QuietStep
<1>8. CASE Stop \/ Tick \/ NotifyUpload \/ InstructorExtends \/ UNCHANGED vars
  <2>1. UNCHANGED <<state, executions, pc, job>>
    BY <1>8 DEF Stop, Tick, NotifyUpload, InstructorExtends, ExtendDeadline, vars, storeVars,
                poolVars, localVars
  <2> QED
    BY <2>1, QuietStep
<1> QED
  BY <1>2, <1>3, <1>4, <1>5, <1>6, <1>7, <1>8, ClaimsWorker DEF Next, WorkerStep

LEMMA LedgerInvAlways == Spec => []LedgerInv
<1>1. Init => Claims /\ NotStarted
  BY DEF Init, Claims, Claim, Grading, NotStarted
<1>2. Spec => []StoreTypeOK
  BY PoolUsesStore, StoreTypeCorrect
<1>3. PoolInv /\ StoreTypeOK /\ EnqueuedIsWaitingOrBusy /\ Claims /\ NotStarted <=> LedgerInv
  BY DEF LedgerInv
<1> QED
  BY <1>1, <1>2, <1>3, ClaimsStep, PoolInvAlways, EnqueuedExact, PTL DEF Spec

\* While a worker grades a submission its row says "running" and it is in no
\* other hands: not those of a recovery, a late notification or an operator.
THEOREM GradingIsExclusive == Spec => []LiveGradingOwnsRow
<1>1. LedgerInv => LiveGradingOwnsRow
  <2> SUFFICES ASSUME LedgerInv, NEW w \in Workers, pc[w] \in Grading
               PROVE  /\ state[job[w]] = "running"
                      /\ \A v \in Workers : job[v] = job[w] => v = w
    BY DEF LiveGradingOwnsRow
  <2>1. state[job[w]] = "running"
    BY DEF LedgerInv, Claims, Claim
  <2>2. job[w] # NoJob
    BY DEF LedgerInv, PoolInv, JobsHeld, Grading, Processing
  <2> QED
    BY <2>1, <2>2, NobodyElse DEF LedgerInv, JobsDistinct
<1> QED
  BY <1>1, LedgerInvAlways, PTL

-----------------------------------------------------------------------------
(* The ledger.                                                             *)

\* A row's change of state is the change of status it maps to.
LEMMA LedgerMove ==
    ASSUME state \in [Submissions -> States], NEW s \in Submissions, NEW to \in States,
           state' = [state EXCEPT ![s] = to], UNCHANGED executions
    PROVE  Ledger!Move(s, StatusOf(state[s]), StatusOf(to))
  BY DEF Ledger!Move

\* A step of the tables' states within one status is a stutter.
LEMMA LedgerStutter ==
    ASSUME UNCHANGED executions, \A s \in Submissions : StatusOf(state'[s]) = StatusOf(state[s])
    PROVE  UNCHANGED Ledger!ledgerVars
  BY DEF Ledger!ledgerVars

\* Each change of a row by a worker is one action of the ledger or none.
LEMMA LedgerWorker ==
    ASSUME LedgerInv, NEW w \in Workers,
           \/ ToQueued(w) \/ ToRunning(w) \/ Prepare(w) \/ Record(w) \/ Publish(w)
           \/ Interrupt(w) \/ Fail(w)
    PROVE  [Ledger!LedgerNext]_(Ledger!ledgerVars)
<1>1. /\ state \in [Submissions -> States] /\ executions \in [Submissions -> Nat]
      /\ Claim(w)
  BY DEF LedgerInv, PoolInv, PoolTypes, StoreTypeOK, Claims
<1>2. job[w] \in Submissions
  BY DEF ToQueued, ToRunning, Prepare, Record, Publish, Interrupt, Fail, Processing,
         LedgerInv, PoolInv, PoolTypes, JobsHeld
<1>3. ASSUME UNCHANGED <<state, executions>> PROVE UNCHANGED Ledger!ledgerVars
  BY <1>3, LedgerStutter
<1>4. CASE ToQueued(w)
  <2>1. CASE state[job[w]] = "accepted" /\ state' = [state EXCEPT ![job[w]] = "queued"]
    <3>1. \A s \in Submissions : StatusOf(state'[s]) = StatusOf(state[s])
      BY <1>1, <1>2, <2>1 DEF StatusOf
    <3> QED
      BY <1>4, <3>1, LedgerStutter DEF ToQueued, MoveOn
  <2> QED
    BY <1>3, <1>4, <2>1 DEF ToQueued, MoveOn, AllowedTransitions, Transition, storeVars
<1>5. CASE ToRunning(w)
  <2>1. CASE state[job[w]] = "queued" /\ state' = [state EXCEPT ![job[w]] = "running"]
    <3>1. Ledger!Move(job[w], StatusOf("queued"), StatusOf("running"))
      BY <1>1, <1>2, <1>5, <2>1, LedgerMove DEF ToRunning, MoveOn, States
    <3>2. Ledger!Claim(job[w])
      BY <3>1 DEF Ledger!Claim, StatusOf
    <3> QED
      BY <1>2, <3>2 DEF Ledger!LedgerNext
  <2> QED
    BY <1>3, <1>5, <2>1 DEF ToRunning, MoveOn, AllowedTransitions, Transition, storeVars
<1>6. CASE Prepare(w)
  <2>1. CASE executions' = [executions EXCEPT ![job[w]] = @ + 1]
    <3>0. state[job[w]] = "running" /\ executions[job[w]] = 0 /\ UNCHANGED state
      BY <1>1, <1>6 DEF Prepare, Claim, Grading, storeVars
    <3>1. executions' = [executions EXCEPT ![job[w]] = 1] /\ executions[job[w]] = 0
          /\ state[job[w]] = "running" /\ UNCHANGED state
      BY <1>1, <1>2, <2>1, <3>0
    <3>2. Ledger!Execute(job[w])
      BY <1>2, <3>1 DEF Ledger!Execute, StatusOf
    <3> QED
      BY <1>2, <3>2 DEF Ledger!LedgerNext
  <2> QED
    BY <1>3, <1>6, <2>1 DEF Prepare, storeVars
<1>7. CASE Record(w)
  <2>1. CASE state[job[w]] = "running" /\ state' = [state EXCEPT ![job[w]] = "graded"]
    <3>1. Ledger!Move(job[w], StatusOf("running"), StatusOf("graded"))
      BY <1>1, <1>2, <1>7, <2>1, LedgerMove DEF Record, States
    <3>2. Ledger!Judge(job[w])
      BY <1>1, <1>7, <3>1 DEF Ledger!Judge, StatusOf, Record, Claim
    <3> QED
      BY <1>2, <3>2 DEF Ledger!LedgerNext
  <2> QED
    BY <1>3, <1>7, <2>1 DEF Record, RecordResult, storeVars
<1>8. CASE Publish(w)
  <2>1. CASE state[job[w]] = "graded" /\ state' = [state EXCEPT ![job[w]] = "published"]
    <3>1. Ledger!Move(job[w], StatusOf("graded"), StatusOf("published"))
      BY <1>1, <1>2, <1>8, <2>1, LedgerMove DEF Publish, States
    <3>2. Ledger!Disclose(job[w])
      BY <3>1 DEF Ledger!Disclose, StatusOf
    <3> QED
      BY <1>2, <3>2 DEF Ledger!LedgerNext
  <2> QED
    BY <1>3, <1>8, <2>1 DEF Publish, PublishResult, storeVars
<1>9. CASE Interrupt(w) \/ Fail(w)
  <2>1. PICK to \in {"infra_failed", "assessment_failed"} : FailTo(w, to)
    BY <1>9 DEF Interrupt, Fail
  <2>2. state[job[w]] = "running"
    BY <1>1, <1>9 DEF Interrupt, Fail, Claim, Grading
  <2>3. state' = [state EXCEPT ![job[w]] = to] /\ UNCHANGED executions
    BY <2>1, <2>2 DEF FailTo, AllowedTransitions, Transition
  <2>4. Ledger!Move(job[w], StatusOf("running"), StatusOf(to))
    BY <1>1, <1>2, <2>2, <2>3, LedgerMove DEF States
  <2>5. Ledger!GiveUp(job[w])
    BY <2>4 DEF Ledger!GiveUp, StatusOf
  <2> QED
    BY <1>2, <2>5 DEF Ledger!LedgerNext
<1> QED
  BY <1>4, <1>5, <1>6, <1>7, <1>8, <1>9

LEMMA LedgerStep == LedgerInv /\ [Next]_vars => [Ledger!LedgerNext]_(Ledger!ledgerVars)
<1> SUFFICES ASSUME LedgerInv, [Next]_vars
             PROVE  [Ledger!LedgerNext]_(Ledger!ledgerVars)
  OBVIOUS
<1>1. state \in [Submissions -> States]
  BY DEF LedgerInv, StoreTypeOK
<1>2. ASSUME UNCHANGED <<state, executions>> PROVE UNCHANGED Ledger!ledgerVars
  BY <1>2, LedgerStutter
<1>3. CASE Upload
  <2>1. PICK s \in Submissions : state[s] = "absent" /\ state' = [state EXCEPT ![s] = "accepted"]
    BY <1>3, UploadAdmits
  <2>2. Ledger!Move(s, StatusOf("absent"), StatusOf("accepted"))
    BY <1>1, <1>3, <2>1, LedgerMove DEF Upload, States
  <2>3. Ledger!Accept(s)
    BY <2>2 DEF Ledger!Accept, StatusOf
  <2> QED
    BY <2>3 DEF Ledger!LedgerNext
<1>4. CASE OperatorPublish
  <2>1. PICK s \in Submissions : state[s] = "graded" /\ state' = [state EXCEPT ![s] = "published"]
    BY <1>4 DEF OperatorPublish, PublishResult
  <2>2. Ledger!Move(s, StatusOf("graded"), StatusOf("published"))
    BY <1>1, <1>4, <2>1, LedgerMove DEF OperatorPublish, poolVars, States
  <2>3. Ledger!Disclose(s)
    BY <2>2 DEF Ledger!Disclose, StatusOf
  <2> QED
    BY <2>3 DEF Ledger!LedgerNext
<1>5. ASSUME NEW w \in Workers,
             \/ Recover(w) \/ ListPublishable(w) \/ NotifyNext(w) \/ Recovered(w)
             \/ RecoveryRaises(w) \/ LeaveLoop(w) \/ Take(w) \/ FinishThread(w)
             \/ Decide(w) \/ Raise(w) \/ Read(w) \/ GraderReturns(w)
      PROVE  UNCHANGED <<state, executions>>
  BY <1>5 DEF Recover, ListPublishable, NotifyNext, Recovered, RecoveryRaises, LeaveLoop,
              Take, FinishThread, Decide, Raise, Read, GraderReturns, storeVars
<1>6. CASE \/ Boot \/ Crash \/ Stop \/ Exit \/ FinishManual \/ Tick \/ NotifyUpload
           \/ InstructorExtends \/ UNCHANGED vars \/ \E s \in Submissions : ManualStart(s)
  <2>1. UNCHANGED <<state, executions>>
    BY <1>6 DEF Boot, Crash, Stop, Exit, FinishManual, ProcessGone, Tick, NotifyUpload,
                InstructorExtends, ExtendDeadline, ManualStart, vars, storeVars, poolVars
  <2> QED
    BY <1>2, <2>1
<1> QED
  BY <1>2, <1>3, <1>4, <1>5, <1>6, LedgerWorker DEF Next, WorkerStep

\* The pool implements the ledger: whatever crashes, restarts, manual runs and
\* exceptions interleave, a submission's instructor code runs at most once, a
\* grade comes from that run, an interrupted run is not repeated and a verdict
\* stays.
THEOREM PoolImplementsLedger == Spec => ImplementsLedger
<1>1. Init => Ledger!LedgerInit
  BY DEF Init, StoreInit, Ledger!LedgerInit, StatusOf
<1> QED
  BY <1>1, LedgerStep, LedgerInvAlways, PTL DEF Spec, ImplementsLedger, Ledger!LedgerSpec

-----------------------------------------------------------------------------
(* BundleUploads.                                                          *)

\* The idempotency key was drawn for an upload to this slot.
MadeFor(k, st, a) == made[k] # NoRow /\ made[k].student = st /\ made[k].assignment = a

\* Keys are drawn in order.
KeysInOrder ==
    \A k, f \in Keys : made[k] # NoRow /\ made[f] = NoRow => k < f

\* The pending key of a slot is the newest of the slot.
PendingIsNewest ==
    \A st \in Students, a \in Assignments :
        pending[st][a] # NoKey =>
            /\ MadeFor(pending[st][a], st, a)
            /\ \A j \in Keys : MadeFor(j, st, a) => j <= pending[st][a]

\* A call uses a key of its student, the pending one of its slot.
CallHoldsKey ==
    \A st \in Students :
        /\ using[st] # NoKey =>
              /\ made[using[st]] # NoRow /\ made[using[st]].student = st
              /\ pending[st][made[using[st]].assignment] = using[st]
        /\ call[st] # "idle" => using[st] # NoKey
        /\ call[st] = "send" => tries[st] < MaxTries
        /\ reply[st] # NoReply => call[st] = "wait"
        /\ reply[st].outcome = "submission" => reply[st].submission \in Submissions

\* Requests carry keys that were drawn, and the one that holds the lock of a
\* slot was drawn for it.
RequestsAreMade ==
    /\ \A w \in arriving : made[w[1]] # NoRow
    /\ \A st \in Students, a \in Assignments :
          serving[st][a] # NoRow =>
              /\ MadeFor(serving[st][a].key, st, a)
              /\ Opens[a] <= serving[st][a].since

\* A row is what its key was drawn for.
RowsAreMade ==
    \A s \in Submissions :
        request[s] # NoRow =>
            made[request[s].key] = [student |-> request[s].student,
                assignment |-> request[s].assignment, content |-> request[s].content]

\* No upload of the slot is admitted any more.
Shut(st, a) ==
    /\ due[a] # NoTime /\ due[a] <= wall
    /\ serving[st][a] # NoRow => due[a] <= serving[st][a].since

Known(k) == \E s \in remembered : request[s] # NoRow /\ request[s].key = k

\* The key was refused for good before it had a row.
TurnedAway(k) ==
    /\ Shut(made[k].student, made[k].assignment)
    /\ \A s \in Submissions : request[s] # NoRow => request[s].key # k

\* Where every key that was drawn stands.
Accounted(k) ==
    \/ pending[made[k].student][made[k].assignment] = k
    \/ Superseded(k) \/ Known(k) \/ TurnedAway(k)

\* What holds while no release is hidden or extended and no command expires.
Undisturbed ==
    /\ signedIn = Students
    /\ \A a \in Assignments : release[a] = "public"
    /\ \A k \in Keys : made[k] # NoRow => Opens[made[k].assignment] <= wall /\ Accounted(k)
    /\ \A st \in Students : reply[st].outcome = "refused" => TurnedAway(using[st])

UploadInv ==
    /\ Inv /\ OneSubmissionPerKey /\ UploadTypeOK
    /\ KeysInOrder /\ PendingIsNewest /\ CallHoldsKey /\ RequestsAreMade /\ RowsAreMade
    /\ AnswerIsOwnUpload
    /\ ~upset => Undisturbed

UploadRest ==
    /\ UploadTypeOK
    /\ KeysInOrder /\ PendingIsNewest /\ CallHoldsKey /\ RequestsAreMade /\ RowsAreMade
    /\ AnswerIsOwnUpload
    /\ ~upset => Undisturbed

-----------------------------------------------------------------------------
(* The tables.                                                             *)

\* Every step of the uploads is a step of the tables or leaves them alone.
LEMMA UploadsStoreStep ==
    ASSUME UploadTypeOK, RequestsAreMade, [UploadNext]_uploadVars
    PROVE  [StoreNext]_storeVars
<1>1. CASE \E st \in Students : ClientStep(st)
  BY <1>1 DEF ClientStep, Submit, Send, Timeout, ReceiveRetryable, RetryOrGiveUp, ReceiveRefusal,
              ReceiveSubmission, CommandExpired
<1>2. ASSUME NEW st \in Students, NEW a \in Assignments, Create(st, a)
      PROVE  StoreNext
  <2>1. serving[st][a] # NoRow /\ serving[st][a] \in Serving
    BY <1>2 DEF Create, UploadTypeOK
  <2>2. made[serving[st][a].key] \in Attempt /\ wall \in Times
    BY <2>1 DEF UploadTypeOK, RequestsAreMade, MadeFor, Serving
  <2>3. /\ serving[st][a].key \in Keys /\ made[serving[st][a].key].content \in Contents
        /\ \A at \in serving[st][a].since .. wall : at \in Times
    BY <2>1, <2>2, StoreAssumption DEF Serving, Attempt, Times
  <2> QED
    BY <1>2, <2>3 DEF Create, AdmitAny, StoreNext
<1>3. ASSUME NEW st \in Students, NEW a \in Assignments,
             Unavailable(st, a) \/ Replay(st, a) \/ Decline(st, a)
      PROVE  UNCHANGED storeVars
  BY <1>3 DEF Unavailable, Replay, Decline
<1>4. ASSUME NEW k \in Keys, NEW n \in 1..MaxSends, RefuseEarly(k, n) \/ Enter(k, n)
      PROVE  UNCHANGED storeVars
  BY <1>4 DEF RefuseEarly, Enter
<1>5. CASE UploadTick
  BY <1>5 DEF UploadTick
<1>6. CASE Others
  BY <1>6 DEF Others, StoreNext
<1>7. CASE UNCHANGED uploadVars
  BY <1>7 DEF uploadVars, storeVars
<1> QED
  BY <1>1, <1>2, <1>3, <1>4, <1>5, <1>6, <1>7 DEF UploadNext, ServiceStep

-----------------------------------------------------------------------------
(* The client.                                                             *)

\* A key kept for a call is the slot's and holds its upload; a new one is newer
\* than every key drawn before, and the slot's key held other content.
LEMMA DrawnKey ==
    ASSUME UploadInv, NEW st \in Students, NEW a \in Assignments, NEW c \in Contents,
           NEW k \in KeyFor(st, a, c)
    PROVE  /\ k \in Keys
           /\ \/ /\ k = pending[st][a]
                 /\ made[k] = [student |-> st, assignment |-> a, content |-> c]
              \/ /\ made[k] = NoRow
                 /\ \A f \in Keys : made[f] = NoRow => k <= f
                 /\ pending[st][a] # NoKey => made[pending[st][a]].content # c
<1>1. UploadTypeOK /\ PendingIsNewest
  BY DEF UploadInv
<1>2. CASE pending[st][a] # NoKey /\ made[pending[st][a]].content = c
  <2>1. k = pending[st][a] /\ k \in Keys
    BY <1>1, <1>2 DEF KeyFor, UploadTypeOK
  <2>2. made[k] \in Attempt /\ made[k].student = st /\ made[k].assignment = a /\ made[k].content = c
    BY <1>1, <1>2, <2>1 DEF PendingIsNewest, MadeFor, UploadTypeOK
  <2> QED
    BY <2>1, <2>2 DEF Attempt
<1>3. CASE ~(pending[st][a] # NoKey /\ made[pending[st][a]].content = c)
  BY <1>3 DEF KeyFor, Fresh
<1> QED
  BY <1>2, <1>3

\* Where a key stands depends on the slots' keys, the rows and the window only.
LEMMA AccountedKept ==
    ASSUME NEW k, Accounted(k),
           UNCHANGED <<made, pending, remembered, request, due, wall, serving>>
    PROVE  Accounted(k)'
  BY DEF Accounted, Superseded, Known, TurnedAway, Shut

\* A call begins with the slot's own key or a new one.
LEMMA SubmitKeeps ==
    ASSUME UploadInv, NEW st \in Students, NEW a \in Assignments, NEW c \in Contents,
           NEW command \in BOOLEAN, Submit(st, a, c, command)
    PROVE  UploadRest'
<1> PICK k \in KeyFor(st, a, c) :
          /\ made' = [made EXCEPT ![k] = [student |-> st, assignment |-> a, content |-> c]]
          /\ pending' = [pending EXCEPT ![st][a] = k]
          /\ using' = [using EXCEPT ![st] = k]
  BY DEF Submit
<1> DEFINE row == [student |-> st, assignment |-> a, content |-> c]
<1>1. /\ UploadTypeOK /\ KeysInOrder /\ PendingIsNewest /\ CallHoldsKey /\ RequestsAreMade /\ RowsAreMade
      /\ AnswerIsOwnUpload /\ (~upset => Undisturbed)
  BY DEF UploadInv
<1>2. /\ k \in Keys
      /\ \/ k = pending[st][a] /\ made[k] = row
         \/ /\ made[k] = NoRow
            /\ \A f \in Keys : made[f] = NoRow => k <= f
            /\ pending[st][a] # NoKey => made[pending[st][a]].content # c
  BY DrawnKey
<1>3. row \in Attempt /\ row # NoRow /\ row.student = st /\ row.assignment = a /\ row.content = c
  BY UploadsAssumption DEF Attempt
<1>4. /\ call[st] = "idle" /\ Opens[a] <= wall
      /\ call' = [call EXCEPT ![st] = "send"]
      /\ byCommand' = [byCommand EXCEPT ![st] = command]
      /\ tries' = [tries EXCEPT ![st] = 0]
      /\ UNCHANGED <<due, release, signedIn, state, request, receipt, attempts, results, publishedAt,
                     upset, wall, remembered, sends, arriving, serving, reply>>
  BY DEF Submit, storeVars, wireVars
<1>5. made' = [made EXCEPT ![k] = row]
  OBVIOUS
<1> HIDE DEF row
<1>6. /\ made'[k] = row /\ \A j \in Keys : made[j] # NoRow => made'[j] = made[j] /\ (j # k => j < k \/ made[k] # NoRow)
      /\ \A j \in Keys : j # k => made'[j] = made[j]
      /\ pending'[st][a] = k
      /\ \A u \in Students, b \in Assignments : ~(u = st /\ b = a) => pending'[u][b] = pending[u][b]
      /\ using'[st] = k /\ \A u \in Students : u # st => using'[u] = using[u]
      /\ call'[st] = "send" /\ \A u \in Students : u # st => call'[u] = call[u]
      /\ tries'[st] = 0 /\ \A u \in Students : u # st => tries'[u] = tries[u]
  <2>1. /\ made'[k] = row /\ \A j \in Keys : j # k => made'[j] = made[j]
        /\ \A j \in Keys : made[j] # NoRow => made'[j] = made[j]
    BY <1>1, <1>2, <1>5 DEF UploadTypeOK
  <2>2. \A j \in Keys : made[j] # NoRow /\ j # k => j < k \/ made[k] # NoRow
    BY <1>1, <1>2 DEF KeysInOrder
  <2> QED
    BY <1>1, <1>2, <1>4, <2>1, <2>2 DEF UploadTypeOK
<1>7. reply[st] = NoReply
  BY <1>1, <1>4 DEF CallHoldsKey
<1>8. UploadTypeOK'
  <2>1. tries' \in [Students -> 0..MaxTries]
    BY <1>1, <1>4, UploadsAssumption DEF UploadTypeOK
  <2>2. pending' \in [Students -> [Assignments -> Keys \cup {NoKey}]]
    BY <1>1, <1>2 DEF UploadTypeOK
  <2>3. made' \in [Keys -> Attempt \cup {NoRow}] /\ using' \in [Students -> Keys \cup {NoKey}]
    BY <1>1, <1>2, <1>3, <1>5 DEF UploadTypeOK
  <2> QED
    BY <1>1, <1>4, <2>1, <2>2, <2>3 DEF UploadTypeOK, StoreTypeOK
<1>9. KeysInOrder'
  <2> SUFFICES ASSUME NEW i \in Keys, NEW f \in Keys, made'[i] # NoRow, made'[f] = NoRow
               PROVE  i < f
    BY DEF KeysInOrder
  <2>1. f # k /\ made[f] = NoRow
    BY <1>3, <1>6
  <2>2. CASE i # k
    BY <1>1, <1>6, <2>1, <2>2 DEF KeysInOrder
  <2>3. CASE i = k /\ made[k] = NoRow
    BY <1>2, <1>3, <2>1, <2>3, UploadsAssumption
  <2>4. CASE i = k /\ made[k] # NoRow
    BY <1>1, <2>1, <2>4 DEF KeysInOrder
  <2> QED
    BY <2>2, <2>3, <2>4
<1>10. PendingIsNewest'
  <2> SUFFICES ASSUME NEW u \in Students, NEW b \in Assignments, pending'[u][b] # NoKey
               PROVE  /\ MadeFor(pending[u][b], u, b)'
                      /\ \A j \in Keys : MadeFor(j, u, b)' => j <= pending'[u][b]
    BY DEF PendingIsNewest
  <2>1. CASE u = st /\ b = a
    <3>1. MadeFor(pending[u][b], u, b)'
      BY <1>3, <1>6, <2>1 DEF MadeFor
    <3>2. ASSUME NEW j \in Keys, MadeFor(j, u, b)' PROVE j <= k
      <4>1. CASE j = k
        BY <1>2, <4>1, UploadsAssumption
      <4>2. CASE j # k /\ made[k] = NoRow
        BY <1>2, <1>6, <3>2, <4>2, UploadsAssumption DEF MadeFor
      <4>3. CASE j # k /\ made[k] # NoRow
        <5>1. k = pending[st][a] /\ k # NoKey /\ MadeFor(j, st, a)
          BY <1>2, <1>6, <2>1, <3>2, <4>3, UploadsAssumption DEF MadeFor
        <5> QED
          BY <1>1, <5>1 DEF PendingIsNewest
      <4> QED
        BY <4>1, <4>2, <4>3
    <3> QED
      BY <1>6, <2>1, <3>1, <3>2
  <2>2. CASE ~(u = st /\ b = a)
    <3>1. pending'[u][b] = pending[u][b] /\ pending[u][b] \in Keys /\ MadeFor(pending[u][b], u, b)
      BY <1>1, <1>6, <2>2 DEF UploadTypeOK, PendingIsNewest
    <3>2. MadeFor(pending[u][b], u, b)'
      BY <1>6, <3>1 DEF MadeFor
    <3>3. ASSUME NEW j \in Keys, MadeFor(j, u, b)' PROVE MadeFor(j, u, b)
      BY <1>3, <1>6, <2>2, <3>3 DEF MadeFor
    <3> QED
      BY <1>1, <3>1, <3>2, <3>3 DEF PendingIsNewest
  <2> QED
    BY <2>1, <2>2
<1>11. CallHoldsKey'
  <2> SUFFICES ASSUME NEW u \in Students
               PROVE  /\ using'[u] # NoKey =>
                            /\ made'[using'[u]] # NoRow /\ made'[using'[u]].student = u
                            /\ pending'[u][made'[using'[u]].assignment] = using'[u]
                      /\ call'[u] # "idle" => using'[u] # NoKey
                      /\ call'[u] = "send" => tries'[u] < MaxTries
                      /\ reply'[u] # NoReply => call'[u] = "wait"
                      /\ reply'[u].outcome = "submission" => reply'[u].submission \in Submissions
    BY DEF CallHoldsKey
  <2>1. CASE u = st
    BY <1>2, <1>3, <1>4, <1>6, <1>7, <2>1, UploadsAssumption DEF NoReply
  <2>2. CASE u # st
    <3>1. using[u] # NoKey => using[u] \in Keys /\ made[using[u]] # NoRow /\ made'[using[u]] = made[using[u]]
      BY <1>1, <1>6 DEF UploadTypeOK, CallHoldsKey
    <3>2. using[u] # NoKey => made[using[u]].assignment \in Assignments
      BY <1>1, <3>1 DEF UploadTypeOK, Attempt
    <3> QED
      BY <1>1, <1>4, <1>6, <2>2, <3>1, <3>2 DEF CallHoldsKey
  <2> QED
    BY <2>1, <2>2
<1>12. RequestsAreMade'
  <2>1. \A w \in arriving' : made'[w[1]] # NoRow
    <3> SUFFICES ASSUME NEW w \in arriving PROVE made'[w[1]] # NoRow
      BY <1>4
    <3>1. w[1] \in Keys /\ made[w[1]] # NoRow
      BY <1>1 DEF UploadTypeOK, RequestsAreMade
    <3> QED
      BY <1>6, <3>1
  <2>2. ASSUME NEW u \in Students, NEW b \in Assignments, serving'[u][b] # NoRow
        PROVE  MadeFor(serving[u][b].key, u, b)' /\ Opens[b] <= serving'[u][b].since
    <3>1. serving[u][b].key \in Keys /\ MadeFor(serving[u][b].key, u, b) /\ Opens[b] <= serving[u][b].since
      BY <1>1, <1>4, <2>2 DEF UploadTypeOK, RequestsAreMade, Serving
    <3> QED
      BY <1>4, <1>6, <3>1 DEF MadeFor
  <2> QED
    BY <2>1, <2>2 DEF RequestsAreMade
<1>13. ASSUME NEW s \in Submissions, request[s] # NoRow
       PROVE  made[request[s].key] # NoRow /\ request[s].key \in Keys
  <2>1. request[s] \in Request
    BY <1>1, <1>13 DEF UploadTypeOK, StoreTypeOK
  <2>2. [student |-> request[s].student, assignment |-> request[s].assignment,
         content |-> request[s].content] \in Attempt
    BY <2>1 DEF Request, Attempt
  <2> QED
    BY <1>1, <1>13, <2>1, <2>2, UploadsAssumption DEF RowsAreMade, Request
<1>14. RowsAreMade'
  BY <1>1, <1>4, <1>6, <1>13 DEF RowsAreMade
<1>15. AnswerIsOwnUpload'
  <2> SUFFICES ASSUME NEW u \in Students, reply[u].outcome = "submission"
               PROVE  using'[u] = using[u] /\ made'[using'[u]] = made[using[u]]
    BY <1>1, <1>4 DEF AnswerIsOwnUpload
  <2>1. u # st
    BY <1>7 DEF NoReply
  <2>2. using[u] \in Keys /\ made[using[u]] # NoRow
    <3>1. reply[u] # NoReply
      BY DEF NoReply
    <3> QED
      BY <1>1, <3>1 DEF UploadTypeOK, CallHoldsKey
  <2> QED
    BY <1>6, <2>1, <2>2
<1>16. ASSUME ~upset PROVE Undisturbed'
  <2>1. Undisturbed
    BY <1>1, <1>16
  <2>2. ASSUME NEW i \in Keys, made'[i] # NoRow
        PROVE  Opens[made'[i].assignment] <= wall /\ Accounted(i)'
    <3>1. CASE i = k
      BY <1>3, <1>4, <1>6, <3>1 DEF Accounted
    <3>2. CASE i # k
      <4>1. made'[i] = made[i] /\ made[i] # NoRow /\ made[i] \in Attempt
        BY <1>1, <1>6, <2>2, <3>2 DEF UploadTypeOK
      <4>2. Opens[made[i].assignment] <= wall /\ Accounted(i)
        BY <2>1, <4>1 DEF Undisturbed
      <4>3. CASE /\ pending[made[i].student][made[i].assignment] = i
                 /\ made[i].student = st /\ made[i].assignment = a
        <5>1. i = pending[st][a] /\ i # NoKey /\ k # pending[st][a]
          BY <3>2, <4>3, UploadsAssumption
        <5>2. made[k] = NoRow /\ made[i].content # c /\ i < k
          BY <1>1, <1>2, <4>1, <5>1 DEF KeysInOrder
        <5>3. /\ k > i /\ made'[k] # NoRow /\ made'[k].student = made'[i].student
              /\ made'[k].assignment = made'[i].assignment /\ made'[k].content # made'[i].content
          BY <1>2, <1>3, <1>6, <4>1, <4>3, <5>2, UploadsAssumption
        <5>4. Superseded(i)'
          BY <1>2, <5>3 DEF Superseded
        <5> QED
          BY <4>1, <4>2, <5>4 DEF Accounted
      <4>4. CASE /\ pending[made[i].student][made[i].assignment] = i
                 /\ ~(made[i].student = st /\ made[i].assignment = a)
        <5>1. made[i].student \in Students /\ made[i].assignment \in Assignments
          BY <4>1 DEF Attempt
        <5>2. pending'[made'[i].student][made'[i].assignment] = i
          BY <1>6, <4>1, <4>4, <5>1
        <5> QED
          BY <4>1, <4>2, <5>2 DEF Accounted
      <4>5. CASE Superseded(i)
        <5>1. PICK j \in Keys : /\ j > i /\ made[j] # NoRow /\ made[j].student = made[i].student
                                /\ made[j].assignment = made[i].assignment
                                /\ made[j].content # made[i].content
          BY <4>5 DEF Superseded
        <5>2. made'[j] = made[j]
          BY <1>6, <5>1
        <5>3. Superseded(i)'
          BY <4>1, <5>1, <5>2 DEF Superseded
        <5> QED
          BY <4>1, <4>2, <5>3 DEF Accounted
      <4>6. CASE Known(i) \/ TurnedAway(i)
        BY <1>4, <4>1, <4>2, <4>6 DEF Accounted, Known, TurnedAway, Shut
      <4> QED
        BY <4>2, <4>3, <4>4, <4>5, <4>6 DEF Accounted
    <3> QED
      BY <3>1, <3>2
  <2>3. ASSUME NEW u \in Students, reply'[u].outcome = "refused"
        PROVE  TurnedAway(using[u])'
    <3>1. u # st /\ reply[u] # NoReply
      BY <1>4, <1>7, <2>3 DEF NoReply
    <3>2. using'[u] = using[u] /\ using[u] \in Keys /\ made[using[u]] # NoRow
      BY <1>1, <1>6, <3>1 DEF UploadTypeOK, CallHoldsKey
    <3>3. made'[using[u]] = made[using[u]] /\ TurnedAway(using[u])
      BY <1>4, <1>6, <2>1, <2>3, <3>2 DEF Undisturbed
    <3> QED
      BY <1>4, <3>2, <3>3 DEF TurnedAway, Shut
  <2> QED
    BY <1>4, <2>1, <2>2, <2>3 DEF Undisturbed
<1> QED
  BY <1>4, <1>8, <1>9, <1>10, <1>11, <1>12, <1>14, <1>15, <1>16 DEF UploadRest

\* What a step on the call of one student leaves alone.
CallFrame(st) ==
    /\ UNCHANGED <<storeVars, wall, made, byCommand, arriving, serving>>
    /\ \A u \in Students : u # st => /\ call'[u] = call[u] /\ using'[u] = using[u]
                                     /\ tries'[u] = tries[u] /\ reply'[u] = reply[u]

\* The conjuncts that a step on a call does not touch.
LEMMA CallKeeps ==
    ASSUME UploadInv, NEW st \in Students, CallFrame(st), using'[st] \in {using[st], NoKey},
           reply'[st] \in {reply[st], NoReply}, reply'[st] # NoReply => using'[st] = using[st]
    PROVE  KeysInOrder' /\ RequestsAreMade' /\ RowsAreMade' /\ AnswerIsOwnUpload'
<1>1. UNCHANGED <<made, arriving, serving, request>>
  BY DEF CallFrame, storeVars
<1>2. KeysInOrder' /\ RequestsAreMade' /\ RowsAreMade'
  BY <1>1 DEF UploadInv, KeysInOrder, RequestsAreMade, RowsAreMade, MadeFor
<1>3. ASSUME NEW u \in Students, reply'[u].outcome = "submission"
      PROVE  reply'[u] = reply[u] /\ using'[u] = using[u]
  <2>1. reply'[u] # NoReply
    BY <1>3 DEF NoReply
  <2> QED
    BY <2>1 DEF CallFrame
<1> QED
  BY <1>1, <1>2, <1>3 DEF UploadInv, AnswerIsOwnUpload

LEMMA SendKeeps ==
    ASSUME UploadInv, NEW st \in Students, Send(st)
    PROVE  UploadRest'
<1> DEFINE k == using[st]
<1>1. /\ UploadTypeOK /\ CallHoldsKey /\ PendingIsNewest /\ RequestsAreMade /\ RowsAreMade /\ KeysInOrder
      /\ AnswerIsOwnUpload /\ (~upset => Undisturbed)
  BY DEF UploadInv
<1>2. /\ call[st] = "send" /\ sends[k] < MaxSends
      /\ sends' = [sends EXCEPT ![k] = @ + 1]
      /\ arriving' = arriving \cup {<<k, sends[k] + 1>>}
      /\ tries' = [tries EXCEPT ![st] = @ + 1]
      /\ call' = [call EXCEPT ![st] = "wait"]
      /\ UNCHANGED <<due, release, signedIn, state, request, receipt, attempts, results, publishedAt,
                     upset, wall, made, pending, remembered, using, byCommand, serving, reply>>
  BY DEF Send, storeVars
<1>3. k \in Keys /\ made[k] # NoRow /\ tries[st] < MaxTries /\ reply[st] = NoReply
  BY <1>1, <1>2 DEF CallHoldsKey, UploadTypeOK
<1> HIDE DEF k
<1>4. UploadTypeOK'
  <2>1. sends[k] + 1 \in 1..MaxSends /\ tries[st] + 1 \in 0..MaxTries
    BY <1>1, <1>2, <1>3, UploadsAssumption DEF UploadTypeOK
  <2>2. sends' \in [Keys -> 0..MaxSends] /\ tries' \in [Students -> 0..MaxTries]
    BY <1>1, <1>2, <1>3, <2>1, UploadsAssumption DEF UploadTypeOK
  <2>3. arriving' \subseteq Keys \X (1..MaxSends)
    BY <1>1, <1>2, <1>3, <2>1 DEF UploadTypeOK
  <2> QED
    BY <1>1, <1>2, <2>2, <2>3 DEF UploadTypeOK, StoreTypeOK
<1>5. CallHoldsKey'
  BY <1>1, <1>2, <1>3 DEF CallHoldsKey, UploadTypeOK
<1>6. RequestsAreMade'
  BY <1>1, <1>2, <1>3 DEF RequestsAreMade, MadeFor
<1>7. KeysInOrder' /\ PendingIsNewest' /\ RowsAreMade' /\ AnswerIsOwnUpload'
  BY <1>1, <1>2 DEF KeysInOrder, PendingIsNewest, RowsAreMade, AnswerIsOwnUpload, MadeFor
<1>8. (~upset => Undisturbed)'
  BY <1>1, <1>2 DEF Undisturbed, Accounted, Superseded, Known, TurnedAway, Shut
<1> QED
  BY <1>4, <1>5, <1>6, <1>7, <1>8 DEF UploadRest

\* A call that is retried or given up keeps the key of its slot.
LEMMA RetryKeeps ==
    ASSUME UploadInv, NEW st \in Students, call[st] = "wait", RetryOrGiveUp(st)
    PROVE  UploadRest'
<1>1. /\ UploadTypeOK /\ CallHoldsKey /\ PendingIsNewest /\ (~upset => Undisturbed)
  BY DEF UploadInv
<1>2. UNCHANGED <<due, release, signedIn, state, request, receipt, attempts, results, publishedAt,
                  upset, wall, made, pending, remembered, byCommand, tries, sends, arriving, serving>>
  BY DEF RetryOrGiveUp, storeVars
<1>3. /\ reply' = [reply EXCEPT ![st] = NoReply]
      /\ \/ tries[st] < MaxTries /\ call' = [call EXCEPT ![st] = "send"] /\ UNCHANGED using
         \/ call' = [call EXCEPT ![st] = "idle"] /\ using' = [using EXCEPT ![st] = NoKey]
  BY DEF RetryOrGiveUp, EndCall
<1>4. NoReply \in Replies
  BY DEF NoReply, Replies
<1>5. UploadTypeOK'
  BY <1>1, <1>2, <1>3, <1>4 DEF UploadTypeOK, StoreTypeOK
<1>6. /\ \A u \in Students : u # st => call'[u] = call[u] /\ using'[u] = using[u] /\ reply'[u] = reply[u]
      /\ reply'[st] = NoReply /\ using'[st] \in {using[st], NoKey}
  BY <1>1, <1>3 DEF UploadTypeOK
<1>7. KeysInOrder' /\ RequestsAreMade' /\ RowsAreMade' /\ AnswerIsOwnUpload'
  <2>1. CallFrame(st)
    BY <1>2, <1>6 DEF CallFrame, storeVars
  <2> QED
    BY <1>6, <2>1, CallKeeps
<1>8. CallHoldsKey'
  BY <1>1, <1>2, <1>3, <1>6 DEF CallHoldsKey, UploadTypeOK, NoReply
<1>9. PendingIsNewest'
  BY <1>1, <1>2 DEF PendingIsNewest, MadeFor
<1>10. ASSUME ~upset' PROVE Undisturbed'
  <2>1. Undisturbed
    BY <1>1, <1>2, <1>10
  <2>2. ASSUME NEW u \in Students, reply'[u].outcome = "refused" PROVE TurnedAway(using[u])'
    <3>1. u # st
      BY <1>6, <2>2 DEF NoReply
    <3>2. using'[u] = using[u] /\ TurnedAway(using[u])
      BY <1>6, <2>1, <2>2, <3>1 DEF Undisturbed
    <3> QED
      BY <1>2, <3>2 DEF TurnedAway, Shut
  <2>3. \A k \in Keys : made'[k] # NoRow => Opens[made'[k].assignment] <= wall' /\ Accounted(k)'
    BY <1>2, <2>1, AccountedKept DEF Undisturbed
  <2> QED
    BY <1>2, <2>1, <2>2, <2>3 DEF Undisturbed
<1> QED
  BY <1>5, <1>7, <1>8, <1>9, <1>10 DEF UploadRest

\* A call that ends with an answer clears its own slot, and only that; the key
\* it held is accounted for by the answer.
LEMMA AnsweredKeeps ==
    ASSUME UploadInv, NEW st \in Students, NEW k, k = using[st],
           call[st] = "wait", ClearAttempt(st), EndCall(st),
           remembered' \subseteq Submissions, remembered \subseteq remembered',
           UNCHANGED <<storeVars, wall, made, byCommand, tries, sends, arriving, serving>>,
           upset \in BOOLEAN, upset' \in BOOLEAN, upset => upset',
           ~upset' => Known(k)' \/ TurnedAway(k)
    PROVE  UploadRest'
<1>1. /\ UploadTypeOK /\ CallHoldsKey /\ PendingIsNewest /\ RowsAreMade /\ (~upset => Undisturbed)
  BY DEF UploadInv
<1>2. UNCHANGED <<due, release, signedIn, state, request, receipt, attempts, results, publishedAt>>
  BY DEF storeVars
<1>3. /\ reply' = [reply EXCEPT ![st] = NoReply] /\ call' = [call EXCEPT ![st] = "idle"]
      /\ using' = [using EXCEPT ![st] = NoKey]
  BY DEF EndCall
<1>4. k \in Keys /\ made[k] # NoRow /\ made[k].student = st /\ pending[st][made[k].assignment] = k
  BY <1>1 DEF CallHoldsKey, UploadTypeOK
<1>5. /\ \A u \in Students : u # st => pending'[u] = pending[u]
      /\ \A b \in Assignments : pending'[st][b] = IF pending[st][b] = k THEN NoKey ELSE pending[st][b]
      /\ pending' \in [Students -> [Assignments -> Keys \cup {NoKey}]]
  BY <1>1 DEF ClearAttempt, UploadTypeOK
<1>6. /\ \A u \in Students : u # st => call'[u] = call[u] /\ using'[u] = using[u] /\ reply'[u] = reply[u]
      /\ reply'[st] = NoReply /\ using'[st] = NoKey /\ call'[st] = "idle"
  BY <1>1, <1>3 DEF UploadTypeOK
<1>7. UploadTypeOK'
  <2>1. NoReply \in Replies
    BY DEF NoReply, Replies
  <2> QED
    BY <1>1, <1>2, <1>3, <1>5, <2>1 DEF UploadTypeOK, StoreTypeOK
<1>8. KeysInOrder' /\ RequestsAreMade' /\ RowsAreMade' /\ AnswerIsOwnUpload'
  <2>1. CallFrame(st)
    BY <1>2, <1>6 DEF CallFrame, storeVars
  <2> QED
    BY <1>6, <2>1, CallKeeps
<1>9. CallHoldsKey'
  BY <1>1, <1>5, <1>6 DEF CallHoldsKey, NoReply
<1>10. PendingIsNewest'
  BY <1>1, <1>5 DEF PendingIsNewest, MadeFor
<1>11. ASSUME ~upset' PROVE Undisturbed'
  <2>1. Undisturbed
    BY <1>1, <1>11
  <2>2. ASSUME NEW u \in Students, reply'[u].outcome = "refused" PROVE TurnedAway(using[u])'
    <3>1. u # st
      BY <1>6, <2>2 DEF NoReply
    <3>2. using'[u] = using[u] /\ TurnedAway(using[u])
      BY <1>6, <2>1, <2>2, <3>1 DEF Undisturbed
    <3> QED
      BY <1>2, <3>2 DEF TurnedAway, Shut
  <2>3. ASSUME NEW i \in Keys, made'[i] # NoRow
        PROVE  Opens[made'[i].assignment] <= wall' /\ Accounted(i)'
    <3>1. Opens[made[i].assignment] <= wall /\ Accounted(i) /\ made[i] \in Attempt
      BY <1>1, <2>1, <2>3 DEF Undisturbed, UploadTypeOK
    <3>2. CASE i = k
      BY <1>2, <1>11, <3>1, <3>2 DEF Accounted, TurnedAway, Shut
    <3>3. CASE i # k
      <4>1. CASE pending[made[i].student][made[i].assignment] = i
        <5>1. made[i].student \in Students /\ made[i].assignment \in Assignments
          BY <3>1 DEF Attempt
        <5>2. pending'[made[i].student][made[i].assignment] = i
          BY <1>5, <3>3, <4>1, <5>1
        <5> QED
          BY <3>1, <5>2 DEF Accounted
      <4>2. CASE Superseded(i) \/ TurnedAway(i)
        BY <1>2, <3>1, <4>2 DEF Accounted, Superseded, TurnedAway, Shut
      <4>3. CASE Known(i)
        BY <1>2, <3>1, <4>3 DEF Accounted, Known
      <4> QED
        BY <3>1, <4>1, <4>2, <4>3 DEF Accounted
    <3> QED
      BY <3>2, <3>3
  <2> QED
    BY <1>2, <2>1, <2>2, <2>3 DEF Undisturbed
<1> QED
  BY <1>7, <1>8, <1>9, <1>10, <1>11 DEF UploadRest

\* The three ways a call is answered for good.
LEMMA EndKeeps ==
    ASSUME UploadInv, NEW st \in Students,
           ReceiveRefusal(st) \/ ReceiveSubmission(st) \/ CommandExpired(st)
    PROVE  UploadRest'
<1> PICK k : k = using[st]
  OBVIOUS
<1>1. UploadTypeOK /\ AnswerIsOwnUpload /\ (~upset => Undisturbed)
  BY DEF UploadInv
<1>2. CASE ReceiveRefusal(st)
  <2>1. ~upset => TurnedAway(k)
    BY <1>1, <1>2 DEF ReceiveRefusal, Undisturbed
  <2> QED
    BY <1>1, <1>2, <2>1, AnsweredKeeps DEF ReceiveRefusal, UploadTypeOK
<1>3. CASE ReceiveSubmission(st)
  <2>1. /\ request[reply[st].submission] # NoRow
        /\ request[reply[st].submission].key = using[st]
    BY <1>1, <1>3 DEF ReceiveSubmission, AnswerIsOwnUpload
  <2>2. reply[st].submission \in Submissions
    BY <1>3 DEF UploadInv, CallHoldsKey, ReceiveSubmission
  <2>3. Known(k)'
    BY <1>3, <2>1 DEF Known, ReceiveSubmission, storeVars
  <2> QED
    BY <1>1, <1>3, <2>2, <2>3, AnsweredKeeps DEF ReceiveSubmission, UploadTypeOK
<1>4. CASE CommandExpired(st)
  BY <1>1, <1>4, AnsweredKeeps DEF CommandExpired, UploadTypeOK
<1> QED
  BY <1>2, <1>3, <1>4

-----------------------------------------------------------------------------
(* The service.                                                            *)

\* An answer reaches only a call that waits with the answered key.
LEMMA AnswerMeans ==
    ASSUME UploadTypeOK, NEW k \in Keys, made[k] # NoRow, NEW n,
           NEW outcome \in {"submission", "retryable", "refused"}, NEW s \in Submissions \cup {NoRow},
           Answer(k, n, outcome, s)
    PROVE  /\ reply' \in [Students -> Replies]
           /\ \A u \in Students :
                 \/ reply'[u] = reply[u]
                 \/ /\ call[u] = "wait" /\ using[u] = k
                    /\ reply'[u].outcome = outcome /\ reply'[u].submission = s
<1>1. [outcome |-> outcome, submission |-> s] \in Replies
  BY DEF Replies
<1>2. made[k].student \in Students
  BY DEF UploadTypeOK, Attempt
<1> QED
  BY <1>1, <1>2 DEF Answer, UploadTypeOK

\* The request that holds the lock of a slot.
LEMMA ServedKey ==
    ASSUME UploadTypeOK, RequestsAreMade, NEW st \in Students, NEW a \in Assignments, serving[st][a] # NoRow
    PROVE  /\ serving[st][a].key \in Keys /\ serving[st][a].send \in 1..MaxSends
           /\ serving[st][a].since \in Times /\ Opens[a] <= serving[st][a].since
           /\ MadeFor(serving[st][a].key, st, a)
           /\ made[serving[st][a].key].content \in Contents
           /\ made[serving[st][a].key] =
                [student |-> st, assignment |-> a, content |-> made[serving[st][a].key].content]
<1>1. serving[st][a] \in Serving /\ MadeFor(serving[st][a].key, st, a)
  BY DEF UploadTypeOK, RequestsAreMade
<1>2. made[serving[st][a].key] \in Attempt
  BY <1>1 DEF UploadTypeOK, MadeFor, Serving
<1> QED
  BY <1>1, <1>2 DEF RequestsAreMade, MadeFor, Serving, Attempt

\* So the answer of the request that holds the lock of a slot.
LEMMA LeaveAnswers ==
    ASSUME UploadTypeOK, RequestsAreMade, NEW st \in Students, NEW a \in Assignments,
           serving[st][a] # NoRow,
           NEW outcome \in {"submission", "retryable", "refused"}, NEW s \in Submissions \cup {NoRow},
           Leave(st, a, outcome, s)
    PROVE  /\ reply' \in [Students -> Replies]
           /\ \A u \in Students :
                 \/ reply'[u] = reply[u]
                 \/ /\ call[u] = "wait" /\ using[u] = serving[st][a].key
                    /\ reply'[u].outcome = outcome /\ reply'[u].submission = s
<1> PICK k, n : k = serving[st][a].key /\ n = serving[st][a].send
  OBVIOUS
<1>1. Answer(k, n, outcome, s)
  BY DEF Leave
<1>2. k \in Keys /\ MadeFor(k, st, a)
  BY ServedKey
<1>3. made[k] # NoRow
  BY <1>2 DEF MadeFor
<1> QED
  BY <1>1, <1>2, <1>3, AnswerMeans

\* While a request that holds the lock of its slot is answered, the other slots
\* and what the client knows stay as they are.
LEMMA LeaveKeeps ==
    ASSUME UploadInv, NEW st \in Students, NEW a \in Assignments, serving[st][a] # NoRow,
           NEW outcome \in {"submission", "retryable", "refused"}, NEW s \in Submissions \cup {NoRow},
           Leave(st, a, outcome, s), StoreTypeOK', UNCHANGED releaseVars,
           \A t \in Submissions : request[t] # NoRow => request'[t] = request[t],
           \A t \in Submissions : request'[t] # NoRow => request[t] # NoRow \/
               made[request'[t].key] = [student |-> request'[t].student,
                   assignment |-> request'[t].assignment, content |-> request'[t].content],
           outcome = "submission" => s \in Submissions /\ request'[s] # NoRow
               /\ request'[s].key = serving[st][a].key /\ request'[s].student = st,
           outcome = "refused" /\ ~upset => due[a] # NoTime /\ due[a] <= wall /\
               \A t \in Submissions : request'[t] # NoRow => request'[t].key # serving[st][a].key,
           ~upset => \A i \in Keys : made[i] # NoRow /\ TurnedAway(i) =>
               \A t \in Submissions : request'[t] # NoRow => request'[t].key # i
    PROVE  UploadRest'
<1> PICK k : k = serving[st][a].key
  OBVIOUS
<1>1. /\ UploadTypeOK /\ KeysInOrder /\ PendingIsNewest /\ CallHoldsKey /\ RequestsAreMade /\ RowsAreMade
      /\ AnswerIsOwnUpload /\ (~upset => Undisturbed)
  BY DEF UploadInv
<1>2. k \in Keys /\ MadeFor(k, st, a) /\ made[k] # NoRow
  <2>1. serving[st][a].key \in Keys /\ MadeFor(serving[st][a].key, st, a)
    BY <1>1, ServedKey
  <2> QED
    BY <2>1 DEF MadeFor
<1>3. /\ serving' = [serving EXCEPT ![st][a] = NoRow]
      /\ UNCHANGED <<upset, wall, made, pending, remembered, call, using, byCommand, tries, sends,
                     arriving, due, release, signedIn>>
  BY DEF Leave, clientVars, releaseVars
<1>4. /\ reply' \in [Students -> Replies]
      /\ \A u \in Students :
            \/ reply'[u] = reply[u]
            \/ /\ call[u] = "wait" /\ using[u] = k
               /\ reply'[u].outcome = outcome /\ reply'[u].submission = s
  BY <1>1, LeaveAnswers
<1>5. UploadTypeOK'
  <2>1. serving' \in [Students -> [Assignments -> Serving \cup {NoRow}]]
    BY <1>1, <1>3 DEF UploadTypeOK
  <2>2. reply' \in [Students -> Replies]
    BY <1>4
  <2>3. /\ wall' \in Times /\ upset' \in BOOLEAN /\ made' \in [Keys -> Attempt \cup {NoRow}]
        /\ pending' \in [Students -> [Assignments -> Keys \cup {NoKey}]]
        /\ remembered' \subseteq Submissions /\ call' \in [Students -> {"idle", "send", "wait"}]
        /\ using' \in [Students -> Keys \cup {NoKey}] /\ byCommand' \in [Students -> BOOLEAN]
    BY <1>1, <1>3 DEF UploadTypeOK
  <2>4. /\ tries' \in [Students -> 0..MaxTries] /\ sends' \in [Keys -> 0..MaxSends]
        /\ arriving' \subseteq Keys \X (1..MaxSends)
    BY <1>1, <1>3 DEF UploadTypeOK
  <2> QED
    BY <2>1, <2>2, <2>3, <2>4 DEF UploadTypeOK
<1>6. KeysInOrder' /\ PendingIsNewest'
  BY <1>1, <1>3 DEF KeysInOrder, PendingIsNewest, MadeFor
<1>7. CallHoldsKey'
  BY <1>1, <1>3, <1>4 DEF CallHoldsKey
<1>8. RequestsAreMade'
  BY <1>1, <1>3 DEF RequestsAreMade, MadeFor, UploadTypeOK
<1>9. RowsAreMade'
  BY <1>1, <1>3 DEF RowsAreMade
<1>10. AnswerIsOwnUpload'
  <2> SUFFICES ASSUME NEW u \in Students, reply'[u].outcome = "submission"
               PROVE  LET r == request'[reply'[u].submission] IN
                      /\ r # NoRow /\ r.key = using[u]
                      /\ [student |-> u, assignment |-> r.assignment, content |-> r.content] = made[using[u]]
    BY <1>3 DEF AnswerIsOwnUpload
  <2>1. CASE reply'[u] = reply[u]
    <3>1. reply[u].submission \in Submissions /\ request[reply[u].submission] # NoRow
      BY <1>1, <2>1 DEF CallHoldsKey, AnswerIsOwnUpload
    <3>2. request'[reply'[u].submission] = request[reply[u].submission]
      BY <2>1, <3>1
    <3> QED
      BY <1>1, <2>1, <3>1, <3>2 DEF AnswerIsOwnUpload
  <2>2. CASE using[u] = k /\ reply'[u].outcome = outcome /\ reply'[u].submission = s
    <3>1. made[k].student = u
      BY <1>1, <1>2, <2>2, UploadsAssumption DEF CallHoldsKey
    <3>2. s \in Submissions /\ request'[s] # NoRow /\ request'[s].key = k /\ request'[s].student = st /\ u = st
      BY <1>2, <2>2, <3>1 DEF MadeFor
    <3>3. made[k] = [student |-> request'[s].student,
                     assignment |-> request'[s].assignment, content |-> request'[s].content]
      BY <1>1, <3>2 DEF RowsAreMade
    <3> QED
      BY <2>2, <3>2, <3>3
  <2> QED
    BY <1>4, <2>1, <2>2
<1>11. ASSUME ~upset PROVE Undisturbed'
  <2>1. Undisturbed
    BY <1>1, <1>11
  <2>2. ASSUME NEW i \in Keys, made[i] # NoRow, TurnedAway(i)
        PROVE  TurnedAway(i)'
    <3>1. made[i].student \in Students /\ made[i].assignment \in Assignments
      BY <1>1, <2>2 DEF UploadTypeOK, Attempt
    <3>2. Shut(made[i].student, made[i].assignment)
      BY <2>2 DEF TurnedAway
    <3>3. Shut(made[i].student, made[i].assignment)'
      BY <1>1, <1>3, <3>1, <3>2 DEF Shut, UploadTypeOK
    <3> QED
      BY <1>3, <1>11, <2>2, <3>3 DEF TurnedAway
  <2>3. ASSUME NEW i \in Keys, made'[i] # NoRow
        PROVE  Opens[made'[i].assignment] <= wall' /\ Accounted(i)'
    <3>1. made[i] # NoRow /\ Accounted(i) /\ Opens[made[i].assignment] <= wall
      BY <1>3, <2>1, <2>3 DEF Undisturbed
    <3>2. Known(i) => Known(i)'
      BY <1>1, <1>3 DEF Known, UploadTypeOK
    <3>3. Superseded(i) => Superseded(i)'
      BY <1>3 DEF Superseded
    <3> QED
      BY <1>3, <2>2, <3>1, <3>2, <3>3 DEF Accounted
  <2>4. ASSUME NEW u \in Students, reply'[u].outcome = "refused"
        PROVE  TurnedAway(using[u])'
    <3>1. PICK i : i = using[u]
      OBVIOUS
    <3>2. CASE reply'[u] = reply[u]
      <4>1. TurnedAway(i) /\ i \in Keys /\ made[i] # NoRow
        <5>1. reply[u] # NoReply
          BY <2>4, <3>2 DEF NoReply
        <5> QED
          BY <1>1, <2>1, <2>4, <3>1, <3>2, <5>1 DEF Undisturbed, CallHoldsKey, UploadTypeOK
      <4>2. TurnedAway(i)'
        BY <2>2, <4>1
      <4> QED
        BY <1>3, <3>1, <4>2
    <3>3. CASE using[u] = k /\ reply'[u].outcome = outcome
      <4>1. /\ due[a] # NoTime /\ due[a] <= wall
            /\ \A t \in Submissions : request'[t] # NoRow => request'[t].key # k
        BY <1>11, <2>4, <3>3
      <4>2. Shut(st, a)'
        BY <1>1, <1>3, <4>1 DEF Shut, UploadTypeOK
      <4>3. TurnedAway(k)'
        BY <1>2, <1>3, <4>1, <4>2 DEF TurnedAway, MadeFor
      <4> QED
        BY <1>3, <3>3, <4>3
    <3> QED
      BY <1>4, <3>2, <3>3
  <2> QED
    BY <1>3, <2>1, <2>3, <2>4 DEF Undisturbed
<1> QED
  BY <1>3, <1>5, <1>6, <1>7, <1>8, <1>9, <1>10, <1>11 DEF UploadRest

\* Behind the lock of its slot a request is refused for good, or the tables are
\* not available: no row changes.
LEMMA QuietKeeps ==
    ASSUME UploadInv, NEW st \in Students, NEW a \in Assignments,
           Unavailable(st, a) \/ Replay(st, a) \/ Decline(st, a)
    PROVE  UploadRest'
<1> PICK k : k = serving[st][a].key
  OBVIOUS
<1>1. UploadTypeOK /\ RequestsAreMade /\ RowsAreMade /\ (~upset => Undisturbed)
  BY DEF UploadInv
<1>2. serving[st][a] # NoRow /\ UNCHANGED storeVars
  BY DEF Unavailable, Replay, Decline
<1>3. UNCHANGED <<releaseVars, request>> /\ StoreTypeOK'
  BY <1>1, <1>2 DEF storeVars, releaseVars, UploadTypeOK, StoreTypeOK
<1>4. /\ k \in Keys /\ MadeFor(k, st, a) /\ Opens[a] <= serving[st][a].since
      /\ serving[st][a].since \in Times /\ wall \in Times
      /\ made[k] = [student |-> st, assignment |-> a, content |-> made[k].content]
  BY <1>1, <1>2, ServedKey DEF UploadTypeOK
<1>5. ASSUME NEW outcome \in {"submission", "retryable", "refused"}, NEW s \in Submissions \cup {NoRow},
             Leave(st, a, outcome, s),
             outcome = "submission" => s \in SameKey(st, a, k),
             outcome = "refused" /\ ~upset => due[a] # NoTime /\ due[a] <= wall /\ SameKey(st, a, k) = {}
      PROVE  UploadRest'
  <2>1. ASSUME outcome = "refused", ~upset, NEW t \in Submissions, request[t] # NoRow
        PROVE  request[t].key # k
    <3>1. SUFFICES ASSUME request[t].key = k PROVE FALSE
      OBVIOUS
    <3>2. made[k].student = request[t].student /\ made[k].assignment = request[t].assignment
      <4>1. made[k] = [student |-> request[t].student, assignment |-> request[t].assignment,
                       content |-> request[t].content]
        BY <1>1, <2>1, <3>1 DEF RowsAreMade
      <4> QED
        BY <4>1
    <3>3. t \in SameKey(st, a, k)
      BY <1>4, <2>1, <3>1, <3>2 DEF SameKey, MadeFor
    <3> QED
      BY <1>5, <2>1, <3>3
  <2>2. outcome = "submission" => s \in Submissions /\ request[s] # NoRow
                                  /\ request[s].key = k /\ request[s].student = st
    BY <1>5 DEF SameKey
  <2>3. ~upset => \A i \in Keys : made[i] # NoRow /\ TurnedAway(i) =>
               \A t \in Submissions : request[t] # NoRow => request[t].key # i
    BY DEF TurnedAway
  <2> QED
    BY <1>2, <1>3, <1>5, <2>1, <2>2, <2>3, LeaveKeeps
<1>6. CASE Unavailable(st, a)
  BY <1>5, <1>6 DEF Unavailable
<1>7. CASE Replay(st, a)
  <2>1. PICK s \in SameKey(st, a, k) :
           IF request[s].content = made[k].content
           THEN Leave(st, a, "submission", s) ELSE Leave(st, a, "refused", NoRow)
    BY <1>7 DEF Replay
  <2>2. s \in Submissions /\ request[s] # NoRow /\ request[s].key = k
    BY <2>1 DEF SameKey
  <2>3. request[s].content = made[k].content
    <3>1. made[k] = [student |-> request[s].student, assignment |-> request[s].assignment,
                     content |-> request[s].content]
      BY <1>1, <2>2 DEF RowsAreMade
    <3> QED
      BY <3>1
  <2> QED
    BY <1>5, <2>1, <2>2, <2>3
<1>8. CASE Decline(st, a)
  <2>1. SameKey(st, a, k) = {}
    BY <1>8 DEF Decline
  <2>2. PICK at \in serving[st][a].since .. wall :
          \/ ~Accepts(a, at) /\ Leave(st, a, "refused", NoRow)
          \/ /\ Accepts(a, at)
             /\ ~HasOutstandingRoom(st) \/ ~HasDailyRoom(st, at)
             /\ Leave(st, a, "retryable", NoRow)
    BY <1>8 DEF Decline
  <2>3. CASE Leave(st, a, "retryable", NoRow)
    BY <1>5, <2>3
  <2>4. CASE ~Accepts(a, at) /\ Leave(st, a, "refused", NoRow)
    <3>1. ASSUME ~upset PROVE due[a] # NoTime /\ due[a] <= wall
      <4>1. release[a] = "public" /\ Opens[a] \in Int /\ at \in Int /\ due[a] \in Int
        BY <1>1, <1>4, <3>1, StoreAssumption DEF Undisturbed, UploadTypeOK, StoreTypeOK, Times, NoTime
      <4>2. due[a] # NoTime /\ ~(at < due[a])
        BY <1>4, <2>4, <4>1 DEF Accepts, Times
      <4> QED
        BY <1>4, <4>1, <4>2 DEF Times
    <3> QED
      BY <1>5, <2>1, <2>4, <3>1
  <2> QED
    BY <2>2, <2>3, <2>4
<1> QED
  BY <1>6, <1>7, <1>8

\* An admission gives the key of its slot a row; a shut slot admits none.
LEMMA CreateKeeps ==
    ASSUME UploadInv, NEW st \in Students, NEW a \in Assignments, Create(st, a), StoreTypeOK'
    PROVE  UploadRest'
<1> PICK k : k = serving[st][a].key
  OBVIOUS
<1>1. UploadTypeOK /\ RequestsAreMade /\ RowsAreMade /\ RowsComplete
  BY DEF UploadInv, Inv
<1>2. serving[st][a] # NoRow
  BY DEF Create
<1>3. PICK s \in Submissions, at \in serving[st][a].since .. wall :
          Admit(s, st, a, k, made[k].content, at) /\ Leave(st, a, "submission", s)
  BY DEF Create
<1>4. /\ k \in Keys /\ MadeFor(k, st, a)
      /\ serving[st][a].since \in Times /\ wall \in Times
      /\ made[k] = [student |-> st, assignment |-> a, content |-> made[k].content]
  BY <1>1, <1>2, ServedKey DEF UploadTypeOK
<1> PICK row : row = [student |-> st, assignment |-> a, key |-> k, content |-> made[k].content,
                      receivedAt |-> at]
  OBVIOUS
<1>5. /\ request' = [request EXCEPT ![s] = row]
      /\ UNCHANGED releaseVars /\ state[s] = "absent" /\ Accepts(a, at)
  BY <1>3 DEF Admit
<1>6. request[s] = NoRow /\ request'[s] = row /\ row # NoRow
  <2>1. at \in Times
    BY <1>3, <1>4, StoreAssumption DEF Times
  <2>2. row \in Request
    <3>1. made[k].content \in Contents
      BY <1>1, <1>2, ServedKey
    <3> QED
      BY <1>4, <2>1, <3>1 DEF Request
  <2> QED
    BY <1>1, <1>5, <2>2, StoreAssumption DEF RowsComplete, UploadTypeOK, StoreTypeOK
<1>7. /\ \A t \in Submissions : request[t] # NoRow => request'[t] = request[t]
      /\ \A t \in Submissions : request'[t] # NoRow => request[t] # NoRow \/ t = s
  BY <1>1, <1>5, <1>6 DEF UploadTypeOK, StoreTypeOK
<1>8. ASSUME NEW i \in Keys, made[i] # NoRow, TurnedAway(i), NEW t \in Submissions, request'[t] # NoRow
      PROVE  request'[t].key # i
  <2>1. CASE request[t] # NoRow
    BY <1>7, <1>8, <2>1 DEF TurnedAway
  <2>2. CASE t = s
    <3>1. ~Shut(st, a)
      <4>1. due[a] \in Int /\ at \in Int /\ serving[st][a].since <= at
        BY <1>1, <1>4 DEF UploadTypeOK, StoreTypeOK, Times, NoTime
      <4> QED
        BY <1>2, <1>4, <1>5, <4>1 DEF Shut, Accepts, Times
    <3> QED
      BY <1>4, <1>6, <1>8, <2>2, <3>1 DEF TurnedAway, MadeFor
  <2> QED
    BY <1>7, <1>8, <2>1, <2>2
<1>9. \A t \in Submissions : request'[t] # NoRow => request[t] # NoRow \/
               made[request'[t].key] = [student |-> request'[t].student,
                   assignment |-> request'[t].assignment, content |-> request'[t].content]
  BY <1>4, <1>6, <1>7
<1>10. request'[s] # NoRow /\ request'[s].key = k /\ request'[s].student = st
  BY <1>6
<1> QED
  BY <1>2, <1>3, <1>5, <1>7, <1>8, <1>9, <1>10, LeaveKeeps

\* A request gets the lock of its slot, or is refused before it does: that
\* happens only to a client that was disturbed.
LEMMA ArrivalKeeps ==
    ASSUME UploadInv, NEW k \in Keys, NEW n \in 1..MaxSends, RefuseEarly(k, n) \/ Enter(k, n)
    PROVE  UploadRest'
<1> PICK st, a : st = made[k].student /\ a = made[k].assignment
  OBVIOUS
<1>1. /\ UploadTypeOK /\ KeysInOrder /\ PendingIsNewest /\ CallHoldsKey /\ RequestsAreMade /\ RowsAreMade
      /\ AnswerIsOwnUpload /\ (~upset => Undisturbed)
  BY DEF UploadInv
<1>2. <<k, n>> \in arriving /\ arriving' = arriving \ {<<k, n>>}
  BY DEF RefuseEarly, Enter
<1>3. made[k] # NoRow /\ MadeFor(k, st, a) /\ st \in Students /\ a \in Assignments
  BY <1>1, <1>2 DEF RequestsAreMade, MadeFor, UploadTypeOK, Attempt
<1>4. UNCHANGED <<due, release, signedIn, state, request, receipt, attempts, results, publishedAt,
                  upset, wall, made, pending, remembered, call, using, byCommand, tries, sends>>
  BY DEF RefuseEarly, Enter, storeVars, clientVars
<1>5. KeysInOrder' /\ PendingIsNewest' /\ RowsAreMade'
  BY <1>1, <1>4 DEF KeysInOrder, PendingIsNewest, RowsAreMade, MadeFor
<1>6. CASE RefuseEarly(k, n)
  <2>1. /\ reply' \in [Students -> Replies] /\ UNCHANGED serving
        /\ \A u \in Students :
              reply'[u] = reply[u] \/ (call[u] = "wait" /\ reply'[u].outcome = "refused")
    BY <1>1, <1>3, <1>6, AnswerMeans DEF RefuseEarly
  <2>2. upset
    BY <1>1, <1>3, <1>6 DEF RefuseEarly, MayUpload, Undisturbed
  <2>3. UploadTypeOK'
    BY <1>1, <1>2, <1>4, <2>1 DEF UploadTypeOK, StoreTypeOK
  <2>4. CallHoldsKey'
    BY <1>1, <1>4, <2>1 DEF CallHoldsKey
  <2>5. RequestsAreMade'
    BY <1>1, <1>2, <1>4, <2>1 DEF RequestsAreMade, MadeFor
  <2>6. AnswerIsOwnUpload'
    BY <1>1, <1>4, <2>1 DEF AnswerIsOwnUpload
  <2> QED
    BY <1>4, <1>5, <2>2, <2>3, <2>4, <2>5, <2>6 DEF UploadRest
<1>7. CASE Enter(k, n)
  <2> PICK served : served = [key |-> k, send |-> n, since |-> wall]
    OBVIOUS
  <2>1. served \in Serving /\ served.key = k /\ served.since = wall /\ wall \in Times
    BY <1>1 DEF Serving, UploadTypeOK
  <2>2. /\ serving' = [serving EXCEPT ![st][a] = served] /\ UNCHANGED reply
        /\ Opens[a] <= wall
    BY <1>7 DEF Enter, MayUpload
  <2>3. UploadTypeOK'
    BY <1>1, <1>2, <1>4, <2>1, <2>2 DEF UploadTypeOK, StoreTypeOK
  <2>4. /\ serving'[st][a] = served
        /\ \A u \in Students, b \in Assignments : ~(u = st /\ b = a) => serving'[u][b] = serving[u][b]
    BY <1>1, <1>3, <2>2 DEF UploadTypeOK
  <2>5. CallHoldsKey' /\ AnswerIsOwnUpload'
    BY <1>1, <1>4, <2>2 DEF CallHoldsKey, AnswerIsOwnUpload
  <2>6. RequestsAreMade'
    <3> SUFFICES ASSUME NEW u \in Students, NEW b \in Assignments, serving'[u][b] # NoRow
                 PROVE  MadeFor(serving'[u][b].key, u, b) /\ Opens[b] <= serving'[u][b].since
      BY <1>1, <1>2, <1>4 DEF RequestsAreMade, MadeFor
    <3> QED
      BY <1>1, <1>3, <2>1, <2>2, <2>4 DEF RequestsAreMade
  <2>7. ASSUME NEW i, Shut(made[i].student, made[i].assignment), made[i] \in Attempt
        PROVE  Shut(made[i].student, made[i].assignment)'
    <3>1. PICK u, b : u = made[i].student /\ b = made[i].assignment
      OBVIOUS
    <3>2. Shut(u, b) /\ u \in Students /\ b \in Assignments
      BY <2>7, <3>1 DEF Attempt
    <3>3. Shut(u, b)'
      BY <1>4, <2>1, <2>4, <3>2 DEF Shut
    <3> QED
      BY <1>4, <3>1, <3>3
  <2>8. ASSUME ~upset PROVE Undisturbed'
    <3>1. Undisturbed
      BY <1>1, <2>8
    <3>2. ASSUME NEW i \in Keys, made[i] # NoRow, TurnedAway(i) PROVE TurnedAway(i)'
      BY <1>1, <1>4, <2>7, <3>2 DEF TurnedAway, UploadTypeOK
    <3>3. ASSUME NEW i \in Keys, made'[i] # NoRow
          PROVE  Opens[made'[i].assignment] <= wall' /\ Accounted(i)'
      BY <1>4, <3>1, <3>2, <3>3 DEF Undisturbed, Accounted, Known, Superseded
    <3>4. ASSUME NEW u \in Students, reply'[u].outcome = "refused" PROVE TurnedAway(using[u])'
      <4>1. PICK i : i = using[u]
        OBVIOUS
      <4>2. reply[u] # NoReply /\ TurnedAway(i)
        BY <2>2, <3>1, <3>4, <4>1 DEF Undisturbed, NoReply
      <4>3. i \in Keys /\ made[i] # NoRow
        BY <1>1, <4>1, <4>2 DEF CallHoldsKey, UploadTypeOK
      <4>4. TurnedAway(i)'
        BY <3>2, <4>2, <4>3
      <4> QED
        BY <1>4, <4>1, <4>4
    <3> QED
      BY <1>4, <3>1, <3>3, <3>4 DEF Undisturbed
  <2> QED
    BY <1>4, <1>5, <2>3, <2>5, <2>6, <2>8 DEF UploadRest
<1> QED
  BY <1>6, <1>7

-----------------------------------------------------------------------------
(* Time, grading and the instructor.                                       *)

LEMMA TickKeeps ==
    ASSUME UploadInv, UploadTick
    PROVE  UploadRest'
<1>1. /\ UploadTypeOK /\ KeysInOrder /\ PendingIsNewest /\ CallHoldsKey /\ RequestsAreMade /\ RowsAreMade
      /\ AnswerIsOwnUpload /\ (~upset => Undisturbed)
  BY DEF UploadInv
<1>2. /\ wall' = wall + 1 /\ wall < MaxTime
      /\ UNCHANGED <<due, release, signedIn, state, request, receipt, attempts, results, publishedAt,
                     made, pending, remembered, call, using, byCommand, tries, sends, arriving,
                     serving, reply, upset>>
  BY DEF UploadTick, storeVars, clientVars, wireVars
<1>3. wall' \in Times /\ wall \in Int /\ wall' = wall + 1
  BY <1>1, <1>2, StoreAssumption DEF UploadTypeOK, Times
<1>4. UploadTypeOK'
  BY <1>1, <1>2, <1>3 DEF UploadTypeOK, StoreTypeOK
<1>5. KeysInOrder' /\ PendingIsNewest' /\ CallHoldsKey' /\ RequestsAreMade' /\ RowsAreMade'
      /\ AnswerIsOwnUpload'
  BY <1>1, <1>2 DEF KeysInOrder, PendingIsNewest, CallHoldsKey, RequestsAreMade, RowsAreMade,
                    AnswerIsOwnUpload, MadeFor
<1>6. ASSUME NEW k \in Keys, made[k] # NoRow, TurnedAway(k) PROVE TurnedAway(k)'
  <2>1. due[made[k].assignment] \in Int
    BY <1>1, <1>6 DEF UploadTypeOK, StoreTypeOK, Attempt, Times, NoTime
  <2> QED
    BY <1>2, <1>3, <1>6, <2>1 DEF TurnedAway, Shut
<1>7. ASSUME ~upset PROVE Undisturbed'
  <2>1. Undisturbed
    BY <1>1, <1>7
  <2>2. ASSUME NEW k \in Keys, made'[k] # NoRow
        PROVE  Opens[made'[k].assignment] <= wall' /\ Accounted(k)'
    <3>1. made[k] # NoRow /\ Opens[made[k].assignment] <= wall /\ Accounted(k)
      BY <1>2, <2>1, <2>2 DEF Undisturbed
    <3>2. Opens[made[k].assignment] \in Int
      BY <1>1, <3>1, StoreAssumption DEF UploadTypeOK, Attempt, Times
    <3> QED
      BY <1>2, <1>3, <1>6, <3>1, <3>2 DEF Accounted, Known, Superseded
  <2>3. ASSUME NEW u \in Students, reply'[u].outcome = "refused" PROVE TurnedAway(using[u])'
    <3>1. PICK i : i = using[u]
      OBVIOUS
    <3>2. reply[u] # NoReply /\ TurnedAway(i)
      BY <1>2, <2>1, <2>3, <3>1 DEF Undisturbed, NoReply
    <3>3. i \in Keys /\ made[i] # NoRow
      BY <1>1, <3>1, <3>2 DEF CallHoldsKey, UploadTypeOK
    <3>4. TurnedAway(i)'
      BY <1>6, <3>2, <3>3
    <3> QED
      BY <1>2, <3>1, <3>4
  <2> QED
    BY <1>2, <2>1, <2>2, <2>3 DEF Undisturbed
<1> QED
  BY <1>2, <1>4, <1>5, <1>7 DEF UploadRest

\* Grading, a hidden release and a moved deadline change no request row.
LEMMA OthersKeep ==
    ASSUME UploadInv, StoreTypeOK', Others
    PROVE  UploadRest'
<1>1. /\ UploadTypeOK /\ KeysInOrder /\ PendingIsNewest /\ CallHoldsKey /\ RequestsAreMade /\ RowsAreMade
      /\ AnswerIsOwnUpload /\ (~upset => Undisturbed)
  BY DEF UploadInv
<1>2. /\ UNCHANGED <<wall, made, pending, remembered, call, using, byCommand, tries, sends, arriving,
                     serving, reply>>
      /\ UNCHANGED request
      /\ upset' = TRUE \/ (upset' = upset /\ UNCHANGED releaseVars)
  BY DEF Others, TransitionAny, Transition, RecordAny, RecordResult, ReleaseAny, SetAvailability,
         DeleteRelease, RestoreRelease, ExtendAny, ExtendDeadline, rowVars, clientVars, wireVars
<1>3. UploadTypeOK'
  BY <1>1, <1>2 DEF UploadTypeOK
<1>4. KeysInOrder' /\ PendingIsNewest' /\ CallHoldsKey' /\ RequestsAreMade' /\ RowsAreMade'
      /\ AnswerIsOwnUpload'
  BY <1>1, <1>2 DEF KeysInOrder, PendingIsNewest, CallHoldsKey, RequestsAreMade, RowsAreMade,
                    AnswerIsOwnUpload, MadeFor
<1>5. ASSUME ~upset' PROVE Undisturbed'
  <2>1. Undisturbed /\ UNCHANGED <<due, release, signedIn>>
    BY <1>1, <1>2, <1>5 DEF releaseVars
  <2> QED
    BY <1>2, <2>1 DEF Undisturbed, Accounted, Known, Superseded, TurnedAway, Shut
<1> QED
  BY <1>3, <1>4, <1>5 DEF UploadRest

-----------------------------------------------------------------------------

LEMMA UploadsInit == UploadInit => UploadInv
<1> SUFFICES ASSUME UploadInit PROVE UploadInv
  OBVIOUS
<1>1. StoreInit /\ Inv /\ OneSubmissionPerKey
  BY InvInit DEF UploadInit, StoreInit, OneSubmissionPerKey
<1>2. /\ \A k \in Keys : made[k] = NoRow
      /\ \A st \in Students : /\ call[st] = "idle" /\ using[st] = NoKey /\ reply[st] = NoReply
                              /\ \A a \in Assignments : pending[st][a] = NoKey /\ serving[st][a] = NoRow
      /\ \A s \in Submissions : request[s] = NoRow
      /\ arriving = {} /\ signedIn = Students /\ \A a \in Assignments : release[a] = "public"
  BY DEF UploadInit, StoreInit
<1>3. UploadTypeOK
  <2>1. NoReply \in Replies /\ 0 \in Times /\ 0 \in 0..MaxTries /\ 0 \in 0..MaxSends
    BY StoreAssumption, UploadsAssumption DEF NoReply, Replies, Times
  <2> QED
    BY <1>1, <2>1 DEF UploadInit, UploadTypeOK, Inv
<1>4. KeysInOrder /\ PendingIsNewest /\ CallHoldsKey /\ RequestsAreMade /\ RowsAreMade /\ AnswerIsOwnUpload
  BY <1>2 DEF KeysInOrder, PendingIsNewest, CallHoldsKey, RequestsAreMade, RowsAreMade,
              AnswerIsOwnUpload, NoReply
<1>5. Undisturbed
  BY <1>2 DEF Undisturbed, NoReply
<1> QED
  BY <1>1, <1>3, <1>4, <1>5 DEF UploadInv

LEMMA UploadsStep == UploadInv /\ [UploadNext]_uploadVars => UploadInv'
<1> SUFFICES ASSUME UploadInv, [UploadNext]_uploadVars PROVE UploadInv'
  OBVIOUS
<1>1. [StoreNext]_storeVars
  BY UploadsStoreStep DEF UploadInv
<1>2. Inv' /\ OneSubmissionPerKey'
  BY <1>1, InvStep, OneKeyStep DEF UploadInv
<1>3. StoreTypeOK'
  BY <1>2 DEF Inv
<1>4. UploadRest'
  <2>1. ASSUME NEW st \in Students, ClientStep(st) PROVE UploadRest'
    <3>1. CASE Timeout(st) \/ ReceiveRetryable(st)
      BY <3>1, RetryKeeps DEF Timeout, ReceiveRetryable
    <3> QED
      BY <2>1, <3>1, SubmitKeeps, SendKeeps, EndKeeps DEF ClientStep
  <2>2. ASSUME NEW st \in Students, NEW a \in Assignments,
               Unavailable(st, a) \/ Replay(st, a) \/ Decline(st, a) \/ Create(st, a)
        PROVE  UploadRest'
    BY <1>3, <2>2, QuietKeeps, CreateKeeps
  <2>3. CASE UNCHANGED uploadVars
    <3>1. UNCHANGED <<due, release, signedIn, state, request, receipt, attempts, results, publishedAt,
                      wall, made, pending, remembered, call, using, byCommand, tries, sends, arriving,
                      serving, reply, upset>>
      BY <2>3 DEF uploadVars, storeVars, clientVars, wireVars
    <3>2. UploadTypeOK'
      BY <3>1 DEF UploadInv, UploadTypeOK, StoreTypeOK
    <3>3. KeysInOrder' /\ PendingIsNewest' /\ CallHoldsKey' /\ RequestsAreMade' /\ RowsAreMade'
          /\ AnswerIsOwnUpload'
      BY <3>1 DEF UploadInv, KeysInOrder, PendingIsNewest, CallHoldsKey, RequestsAreMade, RowsAreMade,
                  AnswerIsOwnUpload, MadeFor
    <3>4. (~upset => Undisturbed)'
      BY <3>1 DEF UploadInv, Undisturbed, Accounted, Known, Superseded, TurnedAway, Shut
    <3> QED
      BY <3>2, <3>3, <3>4 DEF UploadRest
  <2>4. CASE ServiceStep
    BY <2>2, <2>4, ArrivalKeeps DEF ServiceStep
  <2> QED
    BY <1>3, <2>1, <2>3, <2>4, TickKeeps, OthersKeep DEF UploadNext
<1> QED
  BY <1>2, <1>4 DEF UploadRest, UploadInv

\* Where every key stands, at all times.
THEOREM UploadsAreAccounted == UploadSpec => []UploadInv
  BY UploadsInit, UploadsStep, PTL DEF UploadSpec

\* The service changes the tables by their methods alone, so that what
\* BundleStore_proofs proves may be cited below.
LEMMA UploadsUseStore == UploadSpec => StoreSpec
<1>1. UploadInit => StoreInit
  BY DEF UploadInit
<1>2. UploadInv /\ [UploadNext]_uploadVars => [StoreNext]_storeVars
  BY UploadsStoreStep DEF UploadInv
<1> QED
  BY <1>1, <1>2, UploadsAreAccounted, PTL DEF UploadSpec, StoreSpec

\* Requests that are repeated, given up by the client and handled late, with the
\* time read before the lock, neither admit a key twice nor pass a limit.
THEOREM UploadsKeepLimits == UploadSpec => [](OneSubmissionPerKey /\ AdmissionLimits)
  BY UploadsUseStore, KeysAreIdempotent, AdmissionLimited, PTL

\* What the keys' accounts say of an admitted upload.
LEMMA AccountedIsKnown ==
    ASSUME UploadInv, ~upset, NEW s \in Submissions, request[s] # NoRow
    PROVE  /\ request[s].key \in Keys /\ request[s].student \in Students /\ request[s].assignment \in Assignments
           /\ MadeFor(request[s].key, request[s].student, request[s].assignment)
           /\ \/ pending[request[s].student][request[s].assignment] = request[s].key
              \/ Superseded(request[s].key)
              \/ s \in remembered
<1> PICK k, st, a : k = request[s].key /\ st = request[s].student /\ a = request[s].assignment
  OBVIOUS
<1>1. request[s] \in Request
  BY DEF UploadInv, UploadTypeOK, StoreTypeOK
<1>2. made[k] = [student |-> st, assignment |-> a, content |-> request[s].content]
  BY DEF UploadInv, RowsAreMade
<1>3. k \in Keys /\ st \in Students /\ a \in Assignments /\ MadeFor(k, st, a)
  <2>1. made[k] \in Attempt
    BY <1>1, <1>2 DEF Request, Attempt
  <2> QED
    BY <1>1, <1>2, <2>1, UploadsAssumption DEF MadeFor, Request
<1>4. Accounted(k)
  BY <1>3 DEF UploadInv, Undisturbed, MadeFor
<1>5. ASSUME Known(k) PROVE s \in remembered
  <2>1. PICK t \in remembered : request[t] # NoRow /\ request[t].key = k
    BY <1>5 DEF Known
  <2>2. t \in Submissions
    BY DEF UploadInv, UploadTypeOK
  <2>3. made[k] = [student |-> request[t].student, assignment |-> request[t].assignment,
                   content |-> request[t].content]
    BY <2>1, <2>2 DEF UploadInv, RowsAreMade
  <2>4. request[t].student = st /\ request[t].assignment = a
    BY <1>2, <2>3
  <2>5. OneSubmissionPerKey
    BY DEF UploadInv
  <2>6. s = t
    BY <2>1, <2>2, <2>4, <2>5 DEF OneSubmissionPerKey
  <2> QED
    BY <2>6
<1>6. ~TurnedAway(k)
  BY DEF TurnedAway
<1> QED
  BY <1>3, <1>4, <1>5, <1>6 DEF Accounted, MadeFor

\* A lost request or answer costs the student neither the submission nor an
\* attempt (getOrCreateSubmissionAttempt and clearSubmissionAttempt of the
\* client, the replay before every limit of submit_bundle).
THEOREM UploadsAreKept == UploadSpec => []NoUploadIsLost
<1>1. ASSUME UploadInv PROVE NoUploadIsLost
  <2>1. KnownUnlessUpset
    BY <1>1, AccountedIsKnown DEF KnownUnlessUpset, KnownOrPending
  <2>2. ASSUME ~upset, NEW s \in Submissions, NEW t \in Submissions,
               request[s] # NoRow, request[t] # NoRow,
               request[s].student = request[t].student,
               request[s].assignment = request[t].assignment,
               request[s].key < request[t].key, ~Superseded(request[s].key)
        PROVE  s \in remembered
    <3> PICK st, a : st = request[s].student /\ a = request[s].assignment
      OBVIOUS
    <3>1. /\ st \in Students /\ a \in Assignments /\ request[s].key \in Keys /\ request[t].key \in Keys
          /\ MadeFor(request[t].key, st, a)
          /\ pending[st][a] = request[s].key \/ s \in remembered
      BY <1>1, <2>2, AccountedIsKnown
    <3>2. request[s].key # NoKey /\ ~(request[t].key <= request[s].key)
      BY <2>2, <3>1, UploadsAssumption
    <3> QED
      BY <1>1, <3>1, <3>2 DEF UploadInv, PendingIsNewest
  <2>3. AnswerIsOwnUpload
    BY <1>1 DEF UploadInv
  <2> QED
    BY <2>1, <2>2, <2>3 DEF NoUploadIsLost, LostReplyIsNoSecondAttempt
<1> QED
  BY <1>1, UploadsAreAccounted, PTL
=============================================================================
