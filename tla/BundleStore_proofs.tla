------------------------- MODULE BundleStore_proofs -------------------------
(***************************************************************************)
(* Proofs about BundleStore.  Inv is inductive: what the properties of     *)
(* BundleStore say, and the two facts about rows and deadlines they lean   *)
(* on.  Each action gets a lemma; the theorems at the end follow.          *)
(***************************************************************************)
EXTENDS BundleStore, FiniteSetTheorems, TLAPS

\* A deadline set at registration is only ever moved later.
DueKept ==
    \A a \in Assignments :
        /\ (due[a] = NoTime) <=> (FirstDue[a] = NoTime)
        /\ FirstDue[a] <= due[a]

Inv ==
    /\ StoreTypeOK
    /\ DueKept
    /\ RowsComplete
    /\ ResultsMatchStates
    /\ ReceivedInWindow
    /\ DisclosedAfterDeadline

-----------------------------------------------------------------------------

\* Day maps the model's times to the days the counters are kept for.
LEMMA DayInDays ==
    ASSUME NEW t \in Times
    PROVE  Day(t) \in Days
  BY StoreAssumption, SMT DEF Day, Days, Times

\* The initial state satisfies the inductive invariant.
LEMMA InvInit == StoreInit => Inv
<1> SUFFICES ASSUME StoreInit PROVE Inv
  OBVIOUS
<1> USE StoreAssumption DEF StoreInit
<1>1. StoreTypeOK
  BY DEF StoreTypeOK, States, Days, Times, Releases, Availabilities
<1>2. DueKept
  BY DEF DueKept, Times, NoTime
<1>3. RowsComplete /\ ResultsMatchStates /\ ReceivedInWindow /\ DisclosedAfterDeadline
  BY DEF RowsComplete, ResultsMatchStates, ReceivedInWindow, DisclosedAfterDeadline
<1> QED
  BY <1>1, <1>2, <1>3 DEF Inv

\* A stuttering step changes none of the variables Inv speaks of.
LEMMA InvStutter == Inv /\ UNCHANGED storeVars => Inv'
  BY DEF Inv, storeVars, StoreTypeOK, DueKept, RowsComplete, ResultsMatchStates,
         ReceivedInWindow, DisclosedAfterDeadline

\* Steps on releases and sessions leave every submission row alone.
LEMMA InvRelease == Inv /\ (ReleaseAny \/ SessionAny) => Inv'
<1> SUFFICES ASSUME Inv, ReleaseAny \/ SessionAny PROVE Inv'
  OBVIOUS
<1>1. /\ UNCHANGED <<due, state, request, receipt, attempts, results, publishedAt>>
      /\ release' \in [Assignments -> Releases]
      /\ signedIn' \subseteq Students
  <2>1. CASE ReleaseAny
    BY <2>1 DEF ReleaseAny, SetAvailability, DeleteRelease, RestoreRelease, rowVars,
                resultVars, Inv, StoreTypeOK, Releases, Availabilities
  <2>2. CASE SessionAny
    BY <2>2 DEF SessionAny, RevokeSession, Reconnect, rowVars, resultVars, Inv,
                StoreTypeOK
  <2> QED
    BY <2>1, <2>2
<1> QED
  BY <1>1 DEF Inv, StoreTypeOK, DueKept, RowsComplete, ResultsMatchStates,
              ReceivedInWindow, DisclosedAfterDeadline

\* An admission completes a row of its own and touches no other.
LEMMA InvAdmit ==
    ASSUME Inv, NEW s \in Submissions, NEW st \in Students, NEW a \in Assignments,
           NEW k \in Keys, NEW c \in Contents, NEW at \in Times, Admit(s, st, a, k, c, at)
    PROVE  Inv'
<1> DEFINE row == [student |-> st, assignment |-> a, key |-> k, content |-> c,
                   receivedAt |-> at]
           promise == [content |-> c, due |-> due[a]]
<1>1. StoreTypeOK
  BY DEF Inv
<1>2. row \in Request /\ promise \in Receipt /\ row # NoRow /\ promise # NoRow
  BY <1>1, StoreAssumption DEF Request, Receipt, StoreTypeOK
<1>3. /\ state' = [state EXCEPT ![s] = "accepted"]
      /\ request' = [request EXCEPT ![s] = row]
      /\ receipt' = [receipt EXCEPT ![s] = promise]
      /\ UNCHANGED <<due, release, signedIn, results, publishedAt>>
  BY DEF Admit, releaseVars, resultVars
<1>4. StoreTypeOK'
  <2>1. attempts' \in [Students -> [Days -> Nat]]
    BY <1>1, DayInDays, SMT DEF Admit, StoreTypeOK
  <2> QED
    BY <1>1, <1>2, <1>3, <2>1 DEF StoreTypeOK, States
<1>5. DueKept'
  BY <1>3 DEF Inv, DueKept
<1>6. RowsComplete'
  BY <1>1, <1>2, <1>3 DEF Inv, RowsComplete, StoreTypeOK
<1>7. ResultsMatchStates'
  BY <1>1, <1>3 DEF Inv, ResultsMatchStates, StoreTypeOK, Admit
<1>8. ReceivedInWindow'
  <2> SUFFICES ASSUME NEW t \in Submissions, request'[t] # NoRow
               PROVE  LET b == request'[t].assignment IN
                      /\ Opens[b] <= request'[t].receivedAt
                      /\ receipt'[t].due = NoTime <=> due'[b] = NoTime
                      /\ due'[b] # NoTime => /\ request'[t].receivedAt < receipt'[t].due
                                             /\ receipt'[t].due <= due'[b]
    BY DEF ReceivedInWindow
  <2>1. CASE t = s
    <3>1. request'[t] = row /\ receipt'[t] = promise
      BY <1>1, <1>3, <2>1 DEF StoreTypeOK
    <3>2. Accepts(a, at) /\ due[a] \in Int
      BY <1>1 DEF Admit, StoreTypeOK, Times, NoTime
    <3> QED
      BY <1>3, <3>1, <3>2 DEF Accepts
  <2>2. CASE t # s
    BY <1>1, <1>3, <2>2 DEF Inv, ReceivedInWindow, StoreTypeOK
  <2> QED
    BY <2>1, <2>2
<1>9. DisclosedAfterDeadline'
  BY <1>1, <1>3 DEF Inv, DisclosedAfterDeadline, StoreTypeOK
<1> QED
  BY <1>4, <1>5, <1>6, <1>7, <1>8, <1>9 DEF Inv

\* A transition moves one existing row between states without a result.
LEMMA InvTransition ==
    ASSUME Inv, NEW s \in Submissions, NEW to \in States, Transition(s, to)
    PROVE  Inv'
<1>1. StoreTypeOK
  BY DEF Inv
<1>2. /\ state' = [state EXCEPT ![s] = to]
      /\ UNCHANGED <<due, release, signedIn, request, receipt, attempts, results,
                     publishedAt>>
  BY DEF Transition, releaseVars, rowVars, resultVars
<1>3. /\ state[s] \notin {"absent", "graded", "published"}
      /\ to \notin {"absent", "graded", "published"}
  BY DEF Transition, AllowedTransitions
<1>4. StoreTypeOK' /\ DueKept' /\ ReceivedInWindow'
  BY <1>1, <1>2 DEF Inv, StoreTypeOK, DueKept, ReceivedInWindow
<1>5. RowsComplete' /\ ResultsMatchStates' /\ DisclosedAfterDeadline'
  BY <1>1, <1>2, <1>3 DEF Inv, StoreTypeOK, RowsComplete, ResultsMatchStates,
                          DisclosedAfterDeadline
<1> QED
  BY <1>4, <1>5 DEF Inv

\* Recording a result and grading a row are one step.
LEMMA InvRecord ==
    ASSUME Inv, NEW s \in Submissions, RecordResult(s)
    PROVE  Inv'
<1>1. StoreTypeOK
  BY DEF Inv
<1>2. /\ state[s] = "running"
      /\ state' = [state EXCEPT ![s] = "graded"]
      /\ results' = results \cup {s}
      /\ UNCHANGED <<due, release, signedIn, request, receipt, attempts, publishedAt>>
  BY DEF RecordResult, releaseVars, rowVars
<1>3. StoreTypeOK' /\ DueKept' /\ ReceivedInWindow'
  BY <1>1, <1>2 DEF Inv, StoreTypeOK, DueKept, ReceivedInWindow, States
<1>4. RowsComplete' /\ ResultsMatchStates' /\ DisclosedAfterDeadline'
  BY <1>1, <1>2 DEF Inv, StoreTypeOK, RowsComplete, ResultsMatchStates,
                    DisclosedAfterDeadline
<1> QED
  BY <1>3, <1>4 DEF Inv

\* A publication repeats the policy check, so it is never before the deadline.
LEMMA InvPublish ==
    ASSUME Inv, NEW s \in Submissions, NEW at \in Times, PublishResult(s, at)
    PROVE  Inv'
<1>1. StoreTypeOK
  BY DEF Inv
<1>2. /\ state[s] = "graded"
      /\ state' = [state EXCEPT ![s] = "published"]
      /\ publishedAt' = [publishedAt EXCEPT ![s] = at]
      /\ UNCHANGED <<due, release, signedIn, request, receipt, attempts, results>>
  BY DEF PublishResult, releaseVars, rowVars
<1>3. at # NoTime
  BY SMT DEF Times, NoTime
<1>4. StoreTypeOK' /\ DueKept' /\ ReceivedInWindow'
  BY <1>1, <1>2 DEF Inv, StoreTypeOK, DueKept, ReceivedInWindow, States
<1>5. RowsComplete' /\ ResultsMatchStates'
  BY <1>1, <1>2, <1>3 DEF Inv, StoreTypeOK, RowsComplete, ResultsMatchStates
<1>6. DisclosedAfterDeadline'
  <2> SUFFICES ASSUME NEW t \in Submissions, state'[t] = "published",
                      Policy[request[t].assignment] = "after_deadline"
               PROVE  due[request[t].assignment] <= publishedAt'[t]
    BY <1>2 DEF DisclosedAfterDeadline
  <2>1. CASE t = s
    <3>1. request[s] \in Request
      BY <1>1, <1>2 DEF Inv, RowsComplete, StoreTypeOK
    <3>2. due[request[s].assignment] \in Int
      BY <1>1, <3>1 DEF StoreTypeOK, Request, Times, NoTime
    <3>3. ~(due[request[s].assignment] > at)
      BY <2>1 DEF PublishResult, MayDisclose
    <3> QED
      BY <1>1, <1>2, <2>1, <3>2, <3>3 DEF StoreTypeOK, Times
  <2>2. CASE t # s
    BY <1>1, <1>2, <2>2 DEF Inv, StoreTypeOK, DisclosedAfterDeadline
  <2> QED
    BY <2>1, <2>2
<1> QED
  BY <1>4, <1>5, <1>6 DEF Inv

\* An extension moves a deadline later, and not behind a disclosed result.
LEMMA InvExtend ==
    ASSUME Inv, NEW a \in Assignments, NEW d \in Times, NEW at \in Times,
           ExtendDeadline(a, d, at)
    PROVE  Inv'
<1>1. StoreTypeOK /\ due[a] \in Int
  BY DEF Inv, StoreTypeOK, Times, NoTime
<1>2. /\ due[a] # NoTime
      /\ d > due[a]
      /\ due' = [due EXCEPT ![a] = d]
      /\ UNCHANGED <<release, signedIn, state, request, receipt, attempts, results,
                     publishedAt>>
  BY DEF ExtendDeadline, rowVars, resultVars
<1>3. d \in Int /\ d # NoTime
  BY SMT DEF Times, NoTime
<1>4. StoreTypeOK' /\ RowsComplete' /\ ResultsMatchStates'
  BY <1>1, <1>2 DEF Inv, StoreTypeOK, RowsComplete, ResultsMatchStates
<1>5. DueKept'
  <2>1. FirstDue[a] \in Int
    BY StoreAssumption DEF Times, NoTime
  <2> QED
    BY <1>1, <1>2, <1>3, <2>1 DEF Inv, DueKept, StoreTypeOK
<1>6. ReceivedInWindow'
  <2> SUFFICES ASSUME NEW t \in Submissions, request[t] # NoRow
               PROVE  LET b == request[t].assignment IN
                      /\ Opens[b] <= request[t].receivedAt
                      /\ receipt[t].due = NoTime <=> due'[b] = NoTime
                      /\ due'[b] # NoTime => /\ request[t].receivedAt < receipt[t].due
                                             /\ receipt[t].due <= due'[b]
    BY <1>2 DEF ReceivedInWindow
  <2>1. request[t] \in Request /\ receipt[t] \in Receipt
    BY <1>1 DEF Inv, StoreTypeOK, RowsComplete
  <2>2. receipt[t].due \in Int
    BY <2>1 DEF Receipt, Times, NoTime
  <2> QED
    BY <1>1, <1>2, <1>3, <2>1, <2>2 DEF Inv, ReceivedInWindow, StoreTypeOK, Request
<1>7. DisclosedAfterDeadline'
  BY <1>1, <1>2 DEF Inv, DisclosedAfterDeadline, StoreTypeOK, ExtendDeadline,
                    MayExtend, Disclosed
<1> QED
  BY <1>4, <1>5, <1>6, <1>7 DEF Inv

\* Every step of the store preserves the inductive invariant.
LEMMA InvStep == Inv /\ [StoreNext]_storeVars => Inv'
<1> SUFFICES ASSUME Inv, [StoreNext]_storeVars PROVE Inv'
  OBVIOUS
<1>1. CASE AdmitAny
  BY <1>1, InvAdmit DEF AdmitAny
<1>2. CASE TransitionAny
  BY <1>2, InvTransition DEF TransitionAny
<1>3. CASE RecordAny
  BY <1>3, InvRecord DEF RecordAny
<1>4. CASE PublishAny
  BY <1>4, InvPublish DEF PublishAny
<1>5. CASE ExtendAny
  BY <1>5, InvExtend DEF ExtendAny
<1>6. CASE ReleaseAny \/ SessionAny
  BY <1>6, InvRelease
<1>7. CASE UNCHANGED storeVars
  BY <1>7, InvStutter
<1> QED
  BY <1>1, <1>2, <1>3, <1>4, <1>5, <1>6, <1>7 DEF StoreNext

\* The inductive invariant holds in every behaviour of the store.
THEOREM InvAlways == StoreSpec => []Inv
  BY InvInit, InvStep, PTL DEF StoreSpec

-----------------------------------------------------------------------------

\* The columns of the submission tables keep their types, whatever the callers
\* of PlatformStateStore do.
THEOREM StoreTypeCorrect == StoreSpec => []StoreTypeOK
<1>1. Inv => StoreTypeOK
  BY DEF Inv
<1> QED
  BY InvAlways, <1>1, PTL

\* A grade exists exactly for graded and published submissions, and is visible
\* exactly for published ones (record_bundle_graded_result and its neighbours).
THEOREM GradesMatch == StoreSpec => []ResultsMatchStates
<1>1. Inv => ResultsMatchStates
  BY DEF Inv
<1> QED
  BY InvAlways, <1>1, PTL

\* No result of an after_deadline assignment is public before its deadline, even
\* the one an extension sets later (publish_bundle_result, extend_bundle_deadline).
THEOREM DisclosureRespectsDeadline == StoreSpec => []DisclosedAfterDeadline
<1>1. Inv => DisclosedAfterDeadline
  BY DEF Inv
<1> QED
  BY InvAlways, <1>1, PTL

\* Once one result of an after_deadline assignment is disclosed, no upload to it
\* carries a receipt time as late as that disclosure, though admission,
\* publication and extension each work with a time they read earlier.
THEOREM NoUploadAfterDisclosure == StoreSpec => []NothingReceivedAfterDisclosure
<1>1. Inv => NothingReceivedAfterDisclosure
  <2> SUFFICES ASSUME Inv,
                      NEW s \in Submissions, NEW t \in Submissions,
                      state[s] = "published",
                      request[t] # NoRow,
                      request[t].assignment = request[s].assignment,
                      Policy[request[s].assignment] = "after_deadline"
               PROVE  request[t].receivedAt < publishedAt[s]
    BY DEF NothingReceivedAfterDisclosure
  <2> DEFINE a == request[s].assignment
  <2>1. request[s] \in Request /\ request[t] \in Request /\ receipt[t] \in Receipt
    BY DEF Inv, StoreTypeOK, RowsComplete
  <2>2. /\ a \in Assignments
        /\ due[a] \in Int
        /\ request[t].receivedAt \in Int
        /\ receipt[t].due \in Int
        /\ publishedAt[s] \in Int
    BY <2>1 DEF Inv, StoreTypeOK, Request, Receipt, Times, NoTime
  <2>3. due[a] # NoTime
    BY <2>2, StoreAssumption DEF Inv, DueKept
  <2>4. request[t].receivedAt < receipt[t].due /\ receipt[t].due <= due[a]
    BY <2>3 DEF Inv, ReceivedInWindow
  <2>5. due[a] <= publishedAt[s]
    BY DEF Inv, DisclosedAfterDeadline
  <2> QED
    BY <2>2, <2>4, <2>5
<1> QED
  BY InvAlways, <1>1, PTL

-----------------------------------------------------------------------------

\* Only an admission changes the request rows; it needs an unused key.
LEMMA OneKeyStep ==
    ASSUME Inv, OneSubmissionPerKey, [StoreNext]_storeVars
    PROVE  OneSubmissionPerKey'
<1>1. StoreTypeOK
  BY DEF Inv
<1>2. CASE AdmitAny
  <2> PICK s \in Submissions, st \in Students, a \in Assignments, k \in Keys,
           c \in Contents, at \in Times : Admit(s, st, a, k, c, at)
    BY <1>2 DEF AdmitAny
  <2> DEFINE row == [student |-> st, assignment |-> a, key |-> k, content |-> c,
                     receivedAt |-> at]
  <2>1. request' = [request EXCEPT ![s] = row] /\ SameKey(st, a, k) = {}
    BY DEF Admit
  <2>2. ASSUME NEW t \in Submissions, request[t] # NoRow
        PROVE  ~(request[t].student = st /\ request[t].assignment = a /\ request[t].key = k)
    BY <2>1, <2>2 DEF SameKey
  <2>3. row.student = st /\ row.assignment = a /\ row.key = k
    OBVIOUS
  <2> HIDE DEF row
  <2> QED
    BY <1>1, <2>1, <2>2, <2>3 DEF OneSubmissionPerKey, StoreTypeOK
<1>3. CASE ~AdmitAny
  <2>1. UNCHANGED request
    BY <1>3 DEF StoreNext, TransitionAny, Transition, RecordAny, RecordResult,
                PublishAny, PublishResult, ExtendAny, ExtendDeadline, ReleaseAny,
                SetAvailability, DeleteRelease, RestoreRelease, SessionAny,
                RevokeSession, Reconnect, storeVars, rowVars
  <2> QED
    BY <2>1 DEF OneSubmissionPerKey
<1> QED
  BY <1>2, <1>3

\* A retried upload never becomes a second attempt: an idempotency key names at
\* most one submission of a student and an assignment.
THEOREM KeysAreIdempotent == StoreSpec => []OneSubmissionPerKey
<1>1. StoreInit => OneSubmissionPerKey
  BY DEF StoreInit, OneSubmissionPerKey
<1> QED
  BY <1>1, InvAlways, OneKeyStep, PTL DEF StoreSpec

-----------------------------------------------------------------------------

\* The unfinished submissions of a student are a finite set.
LEMMA OutstandingFinite ==
    ASSUME NEW st \in Students
    PROVE  IsFiniteSet(Outstanding(st)) /\ Cardinality(Outstanding(st)) \in Nat
<1>1. Outstanding(st) \subseteq Submissions
  BY DEF Outstanding
<1> QED
  BY <1>1, StoreAssumption, FS_Subset, FS_CardinalityType

\* An admission adds one submission to its student's, which had room, and none to
\* another's.
LEMMA OutstandingAdmit ==
    ASSUME Inv, OutstandingBounded, AdmitAny
    PROVE  OutstandingBounded'
<1> PICK s \in Submissions, st \in Students, a \in Assignments, k \in Keys,
         c \in Contents, at \in Times : Admit(s, st, a, k, c, at)
  BY DEF AdmitAny
<1> SUFFICES ASSUME NEW u \in Students
             PROVE  Cardinality(Outstanding(u)') <= MaxOutstanding
  BY DEF OutstandingBounded
<1> DEFINE row == [student |-> st, assignment |-> a, key |-> k, content |-> c,
                   receivedAt |-> at]
<1>1. StoreTypeOK /\ row # NoRow
  BY StoreAssumption DEF Inv, StoreTypeOK, Request
<1>2. /\ state' = [state EXCEPT ![s] = "accepted"]
      /\ request' = [request EXCEPT ![s] = row]
      /\ state[s] = "absent"
  BY DEF Admit
<1>3. row.student = st
  OBVIOUS
<1> HIDE DEF row
<1>4. s \notin Outstanding(u)
  BY <1>2 DEF Outstanding, OutstandingStates
<1>5. CASE u = st
  <2>1. Outstanding(u)' = Outstanding(u) \cup {s}
    BY <1>1, <1>2, <1>3, <1>5 DEF Outstanding, OutstandingStates, StoreTypeOK
  <2>2. Cardinality(Outstanding(u)') = Cardinality(Outstanding(u)) + 1
    BY <1>4, <2>1, OutstandingFinite, FS_AddElement
  <2>3. Cardinality(Outstanding(u)) < MaxOutstanding
    BY <1>5 DEF Admit, HasOutstandingRoom
  <2> QED
    BY <2>2, <2>3, OutstandingFinite, StoreAssumption
<1>6. CASE u # st
  <2>1. Outstanding(u)' = Outstanding(u)
    BY <1>1, <1>2, <1>3, <1>4, <1>6 DEF Outstanding, StoreTypeOK
  <2> QED
    BY <2>1 DEF OutstandingBounded
<1> QED
  BY <1>5, <1>6

\* Every other step only lets submissions leave the unfinished ones.
LEMMA OutstandingOther ==
    ASSUME Inv, OutstandingBounded, [StoreNext]_storeVars, ~AdmitAny
    PROVE  OutstandingBounded'
<1> SUFFICES ASSUME NEW u \in Students
             PROVE  Cardinality(Outstanding(u)') <= MaxOutstanding
  BY DEF OutstandingBounded
<1>1. StoreTypeOK
  BY DEF Inv
<1>2. UNCHANGED request
  BY DEF StoreNext, TransitionAny, Transition, RecordAny, RecordResult, PublishAny,
         PublishResult, ExtendAny, ExtendDeadline, ReleaseAny, SetAvailability,
         DeleteRelease, RestoreRelease, SessionAny, RevokeSession, Reconnect,
         storeVars, rowVars
<1>3. \A s \in Submissions :
          state'[s] \in OutstandingStates => state[s] \in OutstandingStates
  <2>1. CASE TransitionAny
    BY <1>1, <2>1 DEF TransitionAny, Transition, AllowedTransitions, OutstandingStates,
                      StoreTypeOK
  <2>2. CASE RecordAny \/ PublishAny
    BY <1>1, <2>2 DEF RecordAny, RecordResult, PublishAny, PublishResult,
                      OutstandingStates, StoreTypeOK
  <2>3. CASE ExtendAny \/ ReleaseAny \/ SessionAny \/ UNCHANGED storeVars
    BY <2>3 DEF ExtendAny, ExtendDeadline, ReleaseAny, SetAvailability, DeleteRelease,
                RestoreRelease, SessionAny, RevokeSession, Reconnect, storeVars
  <2> QED
    BY <2>1, <2>2, <2>3 DEF StoreNext
<1>4. Outstanding(u)' \subseteq Outstanding(u)
  BY <1>2, <1>3 DEF Outstanding
<1>5. Cardinality(Outstanding(u)') \in Nat
      /\ Cardinality(Outstanding(u)') <= Cardinality(Outstanding(u))
  BY <1>4, OutstandingFinite, FS_Subset, FS_CardinalityType
<1> QED
  BY <1>5, OutstandingFinite, StoreAssumption DEF OutstandingBounded

\* However uploads, gradings and failures interleave, no student exceeds the
\* limit of unfinished submissions that admission checks.
THEOREM OutstandingLimited == StoreSpec => []OutstandingBounded
<1>1. StoreInit => OutstandingBounded
  <2> SUFFICES ASSUME StoreInit, NEW u \in Students
               PROVE  Cardinality(Outstanding(u)) <= MaxOutstanding
    BY DEF OutstandingBounded
  <2>1. Outstanding(u) = {}
    BY DEF StoreInit, Outstanding
  <2> QED
    BY <2>1, FS_EmptySet, StoreAssumption
<1>2. Inv /\ OutstandingBounded /\ [StoreNext]_storeVars => OutstandingBounded'
  BY OutstandingAdmit, OutstandingOther
<1> QED
  BY <1>1, <1>2, InvAlways, PTL DEF StoreSpec

-----------------------------------------------------------------------------

\* The submissions a student's day counter stands for are a finite set.
LEMMA ReceivedOnFinite ==
    ASSUME NEW st \in Students, NEW d \in Days
    PROVE  IsFiniteSet(ReceivedOn(st, d)) /\ Cardinality(ReceivedOn(st, d)) \in Nat
<1>1. ReceivedOn(st, d) \subseteq Submissions
  BY DEF ReceivedOn
<1> QED
  BY <1>1, StoreAssumption, FS_Subset, FS_CardinalityType

\* An admission counts one more for its student and day, and it is one more.
LEMMA DailyAdmit ==
    ASSUME Inv, DailyBounded, AdmitAny
    PROVE  DailyBounded'
<1> PICK s \in Submissions, st \in Students, a \in Assignments, k \in Keys,
         c \in Contents, at \in Times : Admit(s, st, a, k, c, at)
  BY DEF AdmitAny
<1> SUFFICES ASSUME NEW u \in Students, NEW d \in Days
             PROVE  /\ attempts'[u][d] = Cardinality(ReceivedOn(u, d)')
                    /\ attempts'[u][d] <= MaxDaily
  BY DEF DailyBounded
<1> DEFINE row == [student |-> st, assignment |-> a, key |-> k, content |-> c,
                   receivedAt |-> at]
<1>1. StoreTypeOK /\ StoreTypeOK' /\ row # NoRow
  BY InvAdmit, StoreAssumption DEF Inv, StoreTypeOK, Request
<1>2. /\ request' = [request EXCEPT ![s] = row]
      /\ attempts' = [attempts EXCEPT ![st][Day(at)] = @ + 1]
      /\ request[s] = NoRow
  BY DEF Admit, Inv, RowsComplete
<1>3. row.student = st /\ row.receivedAt = at
  OBVIOUS
<1> HIDE DEF row
<1>4. s \notin ReceivedOn(u, d)
  BY <1>2 DEF ReceivedOn
<1>5. CASE u = st /\ d = Day(at)
  <2>1. ReceivedOn(u, d)' = ReceivedOn(u, d) \cup {s}
    BY <1>1, <1>2, <1>3, <1>5 DEF ReceivedOn, StoreTypeOK
  <2>2. Cardinality(ReceivedOn(u, d)') = Cardinality(ReceivedOn(u, d)) + 1
    BY <1>4, <2>1, ReceivedOnFinite, FS_AddElement
  <2>3. attempts'[u][d] = attempts[u][d] + 1
    BY <1>1, <1>2, <1>5 DEF StoreTypeOK
  <2>4. attempts[u][d] = Cardinality(ReceivedOn(u, d)) /\ attempts[u][d] < MaxDaily
    BY <1>5 DEF DailyBounded, Admit, HasDailyRoom
  <2> QED
    BY <2>2, <2>3, <2>4, ReceivedOnFinite, StoreAssumption
<1>6. CASE ~(u = st /\ d = Day(at))
  <2>1. ReceivedOn(u, d)' = ReceivedOn(u, d)
    BY <1>1, <1>2, <1>3, <1>4, <1>6 DEF ReceivedOn, StoreTypeOK
  <2>2. attempts'[u][d] = attempts[u][d]
    BY <1>1, <1>2, <1>6, DayInDays DEF StoreTypeOK
  <2> QED
    BY <2>1, <2>2 DEF DailyBounded
<1> QED
  BY <1>5, <1>6

\* The admission counter counts exactly what was received on its day, so a day's
\* submissions respect the daily limit.
THEOREM DailyLimited == StoreSpec => []DailyBounded
<1>1. StoreInit => DailyBounded
  <2> SUFFICES ASSUME StoreInit, NEW u \in Students, NEW d \in Days
               PROVE  /\ attempts[u][d] = Cardinality(ReceivedOn(u, d))
                      /\ attempts[u][d] <= MaxDaily
    BY DEF DailyBounded
  <2>1. ReceivedOn(u, d) = {} /\ attempts[u][d] = 0
    BY DEF StoreInit, ReceivedOn
  <2> QED
    BY <2>1, FS_EmptySet, StoreAssumption
<1>2. ASSUME Inv, DailyBounded, [StoreNext]_storeVars
      PROVE  DailyBounded'
  <2>1. CASE AdmitAny
    BY <1>2, <2>1, DailyAdmit
  <2>2. CASE ~AdmitAny
    <3>1. UNCHANGED <<request, attempts>>
      BY <1>2, <2>2 DEF StoreNext, TransitionAny, Transition, RecordAny, RecordResult,
                  PublishAny, PublishResult, ExtendAny, ExtendDeadline, ReleaseAny,
                  SetAvailability, DeleteRelease, RestoreRelease, SessionAny,
                  RevokeSession, Reconnect, storeVars, rowVars
    <3> QED
      BY <1>2, <3>1 DEF DailyBounded, ReceivedOn
  <2> QED
    BY <2>1, <2>2
<1> QED
  BY <1>1, <1>2, InvAlways, PTL DEF StoreSpec


-----------------------------------------------------------------------------

\* Disclosure is fair: the two theorems on deadlines and receipts together
\* (publish_bundle_result, extend_bundle_deadline, the admission).
THEOREM FairDisclosure == StoreSpec => []DisclosureIsFair
  BY DisclosureRespectsDeadline, NoUploadAfterDisclosure, PTL DEF DisclosureIsFair

\* The admission keeps both of its limits (create_accepted_bundle_submission).
THEOREM AdmissionLimited == StoreSpec => []AdmissionLimits
  BY OutstandingLimited, DailyLimited, PTL DEF AdmissionLimits
=============================================================================
