---------------------------- MODULE BundleStore ----------------------------
(***************************************************************************)
(* The submission tables of the platform database, as platform_state.py    *)
(* keeps them.  Every store method runs in one BEGIN IMMEDIATE transaction *)
(* (PlatformStateStore._write), so every action below is atomic; what      *)
(* interleaves are the callers.  Each method receives the time its caller  *)
(* read BEFORE it waited for the write lock: the parameter `at`.  The      *)
(* store keeps no clock, and StoreNext lets `at` be any time at all, so that    *)
(* what is proved here holds for callers whose time is arbitrarily stale.  *)
(*                                                                         *)
(* One course, not archived.  Files, digests of the instructor's inputs,   *)
(* scores and audit rows are left out; the grading inputs of a release     *)
(* never change (trg_bundle_assignment_release_immutable).                 *)
(***************************************************************************)
EXTENDS Integers, FiniteSets

CONSTANTS
    Students,         \* enrolled students of the course
    Assignments,      \* assignment releases of the course
    Submissions,      \* public ids new_public_id("bsub") may hand out
    Keys,             \* Idempotency-Key values clients choose
    Contents,         \* request hashes: what a client uploads
    Policy,           \* result_policy of each release
    Opens,            \* opens_at of each release (0: none)
    FirstDue,         \* due_at each release is registered with
    MaxOutstanding,   \* SubmissionPolicy.max_outstanding_per_student
    MaxDaily,         \* SubmissionPolicy.max_daily_per_student
    DayLength,        \* time units in one UTC day
    MaxTime,          \* bound: no time of the model is later
    NoRow             \* what a SELECT of an absent row returns

NoTime == -1          \* a NULL time column
Times == 0..MaxTime

Policies == {"immediate", "score_only", "after_deadline", "manual"}

States == {"absent", "received", "accepted", "queued", "running", "graded",
           "published", "rejected", "infra_failed", "assessment_failed"}

\* public: active and ready; hidden: active; archived: neither; deleted: in the
\* recoverable deleted list, neither.
Availabilities == {"hidden", "public", "archived"}
Releases == Availabilities \cup {"deleted"}

Request == [student : Students, assignment : Assignments, key : Keys,
            content : Contents, receivedAt : Times]

Receipt == [content : Contents, due : Times \cup {NoTime}]

Day(t) == t \div DayLength
Days == 0..MaxTime

\* register_bundle_assignment_release: after_deadline needs a due_at, and
\* due_at is later than opens_at.
ASSUME StoreAssumption ==
    /\ Policy \in [Assignments -> Policies]
    /\ Opens \in [Assignments -> Times]
    /\ FirstDue \in [Assignments -> Times \cup {NoTime}]
    /\ \A a \in Assignments :
          /\ Policy[a] = "after_deadline" => FirstDue[a] # NoTime
          /\ FirstDue[a] # NoTime => Opens[a] < FirstDue[a]
    /\ MaxOutstanding \in Nat \ {0}
    /\ MaxDaily \in Nat \ {0}
    /\ DayLength \in Nat \ {0}
    /\ MaxTime \in Nat
    /\ IsFiniteSet(Submissions)
    /\ NoRow \notin Request
    /\ NoRow \notin Receipt

VARIABLES
    due,          \* bundle_assignment_releases.due_at
    release,      \* one of Releases: the columns active and ready, deletions
    signedIn,     \* students whose session, identity and enrollment are live
    state,        \* bundle_submission_requests.state
    request,      \* the other columns of that row
    receipt,      \* bundle_submission_receipts
    attempts,     \* bundle_submission_admission_counters
    results,      \* ids with a row in bundle_submission_results
    publishedAt   \* published_at of that row

releaseVars == <<due, release, signedIn>>
rowVars == <<request, receipt, attempts>>
resultVars == <<results, publishedAt>>
storeVars == <<due, release, signedIn, state, request, receipt, attempts,
               results, publishedAt>>

StoreInit ==
    /\ due = FirstDue
    /\ release \in [Assignments -> {"hidden", "public"}]
    /\ signedIn = Students
    /\ state = [s \in Submissions |-> "absent"]
    /\ request = [s \in Submissions |-> NoRow]
    /\ receipt = [s \in Submissions |-> NoRow]
    /\ attempts = [st \in Students |-> [d \in Days |-> 0]]
    /\ results = {}
    /\ publishedAt = [s \in Submissions |-> NoTime]

-----------------------------------------------------------------------------
(* Releases and sessions: the part of the other components' work that the  *)
(* submission tables can observe.                                          *)

SetAvailability(a, to) ==
    /\ release[a] # "deleted"
    /\ release' = [release EXCEPT ![a] = to]
    /\ UNCHANGED <<due, signedIn, state, rowVars, resultVars>>

DeleteRelease(a) ==
    /\ release[a] = "archived"
    /\ release' = [release EXCEPT ![a] = "deleted"]
    /\ UNCHANGED <<due, signedIn, state, rowVars, resultVars>>

RestoreRelease(a) ==
    /\ release[a] = "deleted"
    /\ release' = [release EXCEPT ![a] = "archived"]
    /\ UNCHANGED <<due, signedIn, state, rowVars, resultVars>>

RevokeSession(st) ==
    /\ signedIn' = signedIn \ {st}
    /\ UNCHANGED <<due, release, state, rowVars, resultVars>>

Reconnect(st) ==
    /\ signedIn' = signedIn \cup {st}
    /\ UNCHANGED <<due, release, state, rowVars, resultVars>>

-----------------------------------------------------------------------------
(* Admission: create_accepted_bundle_submission.                           *)

OutstandingStates == {"received", "accepted", "queued", "running"}

Outstanding(st) ==
    {s \in Submissions : /\ request[s] # NoRow
                         /\ request[s].student = st
                         /\ state[s] \in OutstandingStates}

\* Mutant of SameKey: the lookup finds only submissions in progress.
SameKeyInProgress(st, a, k) ==
    {s \in Outstanding(st) : request[s].assignment = a /\ request[s].key = k}

\* The row this idempotency key already belongs to, if any.
SameKey(st, a, k) ==
    {s \in Submissions : /\ request[s] # NoRow
                         /\ request[s].student = st
                         /\ request[s].assignment = a
                         /\ request[s].key = k}

Accepts(a, at) ==
    /\ release[a] = "public"
    /\ Opens[a] <= at
    /\ due[a] = NoTime \/ at < due[a]

HasOutstandingRoom(st) == Cardinality(Outstanding(st)) < MaxOutstanding

\* Mutant of HasDailyRoom: one too many.
HasDailyRoomInclusive(st, at) == attempts[st][Day(at)] <= MaxDaily

HasDailyRoom(st, at) == attempts[st][Day(at)] < MaxDaily

Admit(s, st, a, k, c, at) ==
    /\ state[s] = "absent"
    /\ st \in signedIn
    /\ SameKey(st, a, k) = {}
    /\ Accepts(a, at)
    /\ HasOutstandingRoom(st)
    /\ HasDailyRoom(st, at)
    /\ state' = [state EXCEPT ![s] = "accepted"]
    /\ request' = [request EXCEPT ![s] =
          [student |-> st, assignment |-> a, key |-> k, content |-> c,
           receivedAt |-> at]]
    /\ receipt' = [receipt EXCEPT ![s] = [content |-> c, due |-> due[a]]]
    /\ attempts' = [attempts EXCEPT ![st][Day(at)] = @ + 1]
    /\ UNCHANGED <<releaseVars, resultVars>>

-----------------------------------------------------------------------------
(* The life of an admitted row.                                            *)

\* Mutant of AllowedTransitions: a failure may follow a recorded grade.
TransitionsAfterGrading ==
    {<<"accepted", "queued">>, <<"queued", "running">>, <<"running", "infra_failed">>,
     <<"graded", "infra_failed">>}

AllowedTransitions ==
    {<<"received", "accepted">>, <<"received", "rejected">>,
     <<"received", "infra_failed">>, <<"accepted", "queued">>,
     <<"queued", "running">>, <<"queued", "infra_failed">>,
     <<"running", "infra_failed">>, <<"running", "assessment_failed">>}

Transition(s, to) ==
    /\ <<state[s], to>> \in AllowedTransitions
    /\ state' = [state EXCEPT ![s] = to]
    /\ UNCHANGED <<releaseVars, rowVars, resultVars>>

RecordResult(s) ==
    /\ state[s] = "running"
    /\ s \notin results
    /\ results' = results \cup {s}
    /\ state' = [state EXCEPT ![s] = "graded"]
    /\ UNCHANGED <<releaseVars, rowVars, publishedAt>>

\* The policy check publish_bundle_result repeats inside its transaction.
MayDisclose(a, at) == ~(Policy[a] = "after_deadline" /\ due[a] > at)

PublishResult(s, at) ==
    /\ state[s] = "graded"
    /\ MayDisclose(request[s].assignment, at)
    /\ s \in results
    /\ publishedAt[s] = NoTime
    /\ publishedAt' = [publishedAt EXCEPT ![s] = at]
    /\ state' = [state EXCEPT ![s] = "published"]
    /\ UNCHANGED <<releaseVars, rowVars, results>>

Disclosed(a) ==
    \E s \in Submissions : /\ state[s] = "published"
                           /\ request[s].assignment = a

\* Mutant of MayExtend: disclosed results are not looked at.
ExtendAlways(a) == TRUE

MayExtend(a) == ~(Policy[a] = "after_deadline" /\ Disclosed(a))

ExtendDeadline(a, newDue, at) ==
    /\ release[a] # "deleted"
    /\ due[a] # NoTime
    /\ newDue > due[a]
    /\ newDue > at
    /\ MayExtend(a)
    /\ due' = [due EXCEPT ![a] = newDue]
    /\ UNCHANGED <<release, signedIn, state, rowVars, resultVars>>

-----------------------------------------------------------------------------
(* Any caller, in any order, with any time.                                *)

AdmitAny ==
    \E s \in Submissions, st \in Students, a \in Assignments, k \in Keys,
       c \in Contents, at \in Times : Admit(s, st, a, k, c, at)

TransitionAny == \E s \in Submissions, to \in States : Transition(s, to)

RecordAny == \E s \in Submissions : RecordResult(s)

PublishAny == \E s \in Submissions, at \in Times : PublishResult(s, at)

ExtendAny ==
    \E a \in Assignments, d \in Times, at \in Times : ExtendDeadline(a, d, at)

ReleaseAny ==
    \E a \in Assignments :
        \/ \E to \in Availabilities : SetAvailability(a, to)
        \/ DeleteRelease(a)
        \/ RestoreRelease(a)

SessionAny == \E st \in Students : RevokeSession(st) \/ Reconnect(st)

StoreNext ==
    \/ AdmitAny
    \/ TransitionAny
    \/ RecordAny
    \/ PublishAny
    \/ ExtendAny
    \/ ReleaseAny
    \/ SessionAny

StoreSpec == StoreInit /\ [][StoreNext]_storeVars

-----------------------------------------------------------------------------
(* Properties.                                                             *)

StoreTypeOK ==
    /\ due \in [Assignments -> Times \cup {NoTime}]
    /\ release \in [Assignments -> Releases]
    /\ signedIn \subseteq Students
    /\ state \in [Submissions -> States]
    /\ request \in [Submissions -> Request \cup {NoRow}]
    /\ receipt \in [Submissions -> Receipt \cup {NoRow}]
    /\ attempts \in [Students -> [Days -> Nat]]
    /\ results \subseteq Submissions
    /\ publishedAt \in [Submissions -> Times \cup {NoTime}]

\* A request row, its receipt and its state appear together, and the receipt
\* preserves what the request announced (admission writes all three or none).
RowsComplete ==
    \A s \in Submissions :
        /\ (state[s] = "absent") <=> (request[s] = NoRow)
        /\ (request[s] = NoRow) <=> (receipt[s] = NoRow)
        /\ request[s] # NoRow => receipt[s].content = request[s].content

\* A grade exists exactly for the submissions whose grading was recorded, and
\* it is visible exactly for the published ones: a failure never carries a
\* grade and a grade is never lost (record_bundle_graded_result,
\* publish_bundle_result, transition_bundle_submission).
ResultsMatchStates ==
    \A s \in Submissions :
        /\ s \in results <=> state[s] \in {"graded", "published"}
        /\ publishedAt[s] # NoTime <=> state[s] = "published"

\* Every admitted upload arrived before the deadline its receipt quotes, and
\* deadlines only move away from it (create_accepted_bundle_submission,
\* extend_bundle_deadline).
ReceivedInWindow ==
    \A s \in Submissions :
        request[s] # NoRow =>
            LET a == request[s].assignment IN
            /\ Opens[a] <= request[s].receivedAt
            /\ receipt[s].due = NoTime <=> due[a] = NoTime
            /\ due[a] # NoTime => /\ request[s].receivedAt < receipt[s].due
                                  /\ receipt[s].due <= due[a]

\* A result of an after_deadline assignment is public only from its CURRENT
\* deadline on: no later extension slips behind a disclosed result
\* (publish_bundle_result against extend_bundle_deadline).
DisclosedAfterDeadline ==
    \A s \in Submissions :
        state[s] = "published" =>
            LET a == request[s].assignment IN
            Policy[a] = "after_deadline" => due[a] <= publishedAt[s]

\* Nobody's upload to an after_deadline assignment is received at or after
\* the moment some result of that assignment was disclosed, whoever's it is.
NothingReceivedAfterDisclosure ==
    \A s, t \in Submissions :
        /\ state[s] = "published"
        /\ request[t] # NoRow
        /\ request[t].assignment = request[s].assignment
        /\ Policy[request[s].assignment] = "after_deadline"
        => request[t].receivedAt < publishedAt[s]

\* Nobody submits knowing a result of an after_deadline assignment, and nobody
\* sees one before the deadline that counts in the end.
DisclosureIsFair == DisclosedAfterDeadline /\ NothingReceivedAfterDisclosure

\* An idempotency key names at most one submission: a retried upload never
\* becomes a second attempt.
OneSubmissionPerKey ==
    \A s, t \in Submissions :
        /\ request[s] # NoRow
        /\ request[t] # NoRow
        /\ request[s].student = request[t].student
        /\ request[s].assignment = request[t].assignment
        /\ request[s].key = request[t].key
        => s = t

\* However uploads, gradings and failures interleave, a student never has
\* more than the allowed number of unfinished submissions.
OutstandingBounded ==
    \A st \in Students : Cardinality(Outstanding(st)) <= MaxOutstanding

ReceivedOn(st, d) ==
    {s \in Submissions : /\ request[s] # NoRow
                         /\ request[s].student = st
                         /\ Day(request[s].receivedAt) = d}

\* The admission counter of a day counts exactly the submissions received on
\* that day, and so their number respects the daily limit.
DailyBounded ==
    \A st \in Students, d \in Days :
        /\ attempts[st][d] = Cardinality(ReceivedOn(st, d))
        /\ attempts[st][d] <= MaxDaily

\* Both limits of an admission hold at all times.
AdmissionLimits == OutstandingBounded /\ DailyBounded

=============================================================================
