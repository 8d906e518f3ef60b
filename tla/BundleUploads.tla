---------------------------- MODULE BundleUploads ----------------------------
(***************************************************************************)
(* Uploading a bundle: the VS Code client (extension.ts submitCurrentBundle,*)
(* submissionAttempt.ts, api.ts submitBundle) against the HTTP service     *)
(* (platform_service.submit_bundle) over the tables of BundleStore.        *)
(*                                                                         *)
(* A client keeps one pending attempt per assignment, with the idempotency *)
(* key it sends; it gives a request up after a timeout, but the request    *)
(* may still arrive, wait for the submission lock, and commit.  A client   *)
(* runs one submission at a time (`submitting`).  Restarting the editor or *)
(* signing out forgets everything the client knows and is left out, as is  *)
(* the rotation of access tokens, which name the submission lock.          *)
(***************************************************************************)
EXTENDS BundleStore

CONSTANTS
    MaxTries,     \* SUBMISSION_MAX_ATTEMPTS
    MaxSends,     \* bound: how often the body of one key is sent
    Mishaps,      \* what may happen besides: "hide", "extend", "expire"
    NoKey         \* no idempotency key

Attempt == [student : Students, assignment : Assignments, content : Contents]
Serving == [key : Keys, send : 1..MaxSends, since : Times]

ASSUME UploadsAssumption ==
    /\ Keys \subseteq Nat
    /\ NoKey \notin Keys
    /\ MaxTries \in Nat \ {0}
    /\ MaxSends \in Nat \ {0}
    /\ Mishaps \subseteq {"hide", "extend", "expire"}
    /\ NoRow \notin Attempt
    /\ NoRow \notin Serving

VARIABLES
    wall,        \* wall clock of the service
    made,         \* what each key was created for; keys are drawn in order
    pending,      \* PENDING_SUBMISSIONS_KEY: the pending attempt of a slot
    remembered,   \* submissions the client knows by id (rememberSubmission)
    call,         \* what submitCurrentBundle does next
    using,        \* attempt.idempotencyKey of the running call
    byCommand,    \* the call serves an instructor's classroom command
    tries,        \* requests the call has made
    sends,        \* requests made for each key, in any call
    arriving,     \* requests on the wire or waiting for the submission lock
    serving,      \* the request that holds the submission lock of a slot
    reply,        \* the answer on its way to the waiting call
    upset         \* history: a release was hidden or extended, a command expired

clientVars == <<made, pending, remembered, call, using, byCommand, tries>>
wireVars == <<sends, arriving, serving, reply>>
uploadVars == <<storeVars, wall, clientVars, wireVars, upset>>

Replies == [outcome : {"none", "submission", "retryable", "refused"},
            submission : Submissions \cup {NoRow}]
NoReply == [outcome |-> "none", submission |-> NoRow]

UploadInit ==
    /\ StoreInit
    /\ release = [a \in Assignments |-> "public"]
    /\ wall = 0
    /\ made = [k \in Keys |-> NoRow]
    /\ pending = [st \in Students |-> [a \in Assignments |-> NoKey]]
    /\ remembered = {}
    /\ call = [st \in Students |-> "idle"]
    /\ using = [st \in Students |-> NoKey]
    /\ byCommand = [st \in Students |-> FALSE]
    /\ tries = [st \in Students |-> 0]
    /\ sends = [k \in Keys |-> 0]
    /\ arriving = {}
    /\ serving = [st \in Students |-> [a \in Assignments |-> NoRow]]
    /\ reply = [st \in Students |-> NoReply]
    /\ upset = FALSE

-----------------------------------------------------------------------------
(* The client.                                                             *)

Fresh == {k \in Keys : made[k] = NoRow}

\* Mutant of KeyFor: every call draws a new key.
FreshKeyFor(st, a, c) == {f \in Fresh : \A g \in Fresh : f <= g}

\* getOrCreateSubmissionAttempt keeps the key of the slot for the same bundle.
KeyFor(st, a, c) ==
    LET k == pending[st][a] IN
    IF k # NoKey /\ made[k].content = c
    THEN {k} ELSE {f \in Fresh : \A g \in Fresh : f <= g}

\* Only an assignment the service listed, which it does from opens_at on.
Submit(st, a, c, command) ==
    /\ call[st] = "idle"
    /\ Opens[a] <= wall
    /\ \E k \in KeyFor(st, a, c) :
          /\ made' = [made EXCEPT ![k] = [student |-> st, assignment |-> a, content |-> c]]
          /\ pending' = [pending EXCEPT ![st][a] = k]
          /\ using' = [using EXCEPT ![st] = k]
    /\ call' = [call EXCEPT ![st] = "send"]
    /\ byCommand' = [byCommand EXCEPT ![st] = command]
    /\ tries' = [tries EXCEPT ![st] = 0]
    /\ UNCHANGED <<storeVars, upset, wall, remembered, wireVars>>

Send(st) ==
    LET k == using[st] IN
    /\ call[st] = "send"
    /\ sends[k] < MaxSends
    /\ sends' = [sends EXCEPT ![k] = @ + 1]
    /\ arriving' = arriving \cup {<<k, sends[k] + 1>>}
    /\ tries' = [tries EXCEPT ![st] = @ + 1]
    /\ call' = [call EXCEPT ![st] = "wait"]
    /\ UNCHANGED <<storeVars, upset, wall, made, pending, remembered, using, byCommand,
                   serving, reply>>

\* The call ends without an answer it can use; the attempt stays pending.
EndCall(st) ==
    /\ call' = [call EXCEPT ![st] = "idle"]
    /\ using' = [using EXCEPT ![st] = NoKey]
    /\ reply' = [reply EXCEPT ![st] = NoReply]

RetryOrGiveUp(st) ==
    /\ IF tries[st] < MaxTries
       THEN /\ call' = [call EXCEPT ![st] = "send"]
            /\ reply' = [reply EXCEPT ![st] = NoReply]
            /\ UNCHANGED using
       ELSE EndCall(st)
    /\ UNCHANGED <<storeVars, upset, wall, made, pending, remembered, byCommand, tries,
                   sends, arriving, serving>>

\* The request or its reply is too late or lost; a reply on its way is dropped.
Timeout(st) == call[st] = "wait" /\ RetryOrGiveUp(st)

ReceiveRetryable(st) ==
    /\ call[st] = "wait"
    /\ reply[st].outcome = "retryable"
    /\ RetryOrGiveUp(st)

\* clearSubmissionAttempt: only the slot that still holds the call's key.
ClearAttempt(st) ==
    pending' = [pending EXCEPT ![st] =
        [a \in Assignments |-> IF @[a] = using[st] THEN NoKey ELSE @[a]]]

ReceiveRefusal(st) ==
    /\ call[st] = "wait"
    /\ reply[st].outcome = "refused"
    /\ ClearAttempt(st)
    /\ EndCall(st)
    /\ UNCHANGED <<storeVars, upset, wall, made, remembered, byCommand, tries, sends,
                   arriving, serving>>

\* The answer names the submission: remember it, then clear the attempt.
ReceiveSubmission(st) ==
    /\ call[st] = "wait"
    /\ reply[st].outcome = "submission"
    /\ remembered' = remembered \cup {reply[st].submission}
    /\ ClearAttempt(st)
    /\ EndCall(st)
    /\ UNCHANGED <<storeVars, upset, wall, made, byCommand, tries, sends, arriving, serving>>

\* The classroom command expired while the upload ran: assertRequestCurrent
\* throws behind submitBundle, and the catch clears the attempt.
CommandExpired(st) ==
    /\ "expire" \in Mishaps
    /\ byCommand[st]
    /\ call[st] = "wait"
    /\ reply[st].outcome = "submission"
    /\ ClearAttempt(st)
    /\ EndCall(st)
    /\ upset' = TRUE
    /\ UNCHANGED <<storeVars, wall, made, remembered, byCommand, tries, sends,
                   arriving, serving>>

-----------------------------------------------------------------------------
(* The service.                                                            *)

\* An answer reaches the call that still waits for this very request.
Answer(k, n, outcome, s) == LET st == made[k].student IN
    reply' = IF call[st] = "wait" /\ using[st] = k /\ sends[k] = n
             THEN [reply EXCEPT ![st] = [outcome |-> outcome, submission |-> s]]
             ELSE reply

\* _owned_bundle_assignment with require_available: the deadline is not asked.
MayUpload(st, a) == st \in signedIn /\ release[a] = "public" /\ Opens[a] <= wall

\* Before the lock or right behind it.
RefuseEarly(k, n) ==
    /\ <<k, n>> \in arriving
    /\ ~MayUpload(made[k].student, made[k].assignment)
    /\ Answer(k, n, "refused", NoRow)
    /\ arriving' = arriving \ {<<k, n>>}
    /\ UNCHANGED <<storeVars, upset, wall, clientVars, sends, serving>>

Enter(k, n) ==
    LET st == made[k].student
        a == made[k].assignment IN
    /\ <<k, n>> \in arriving
    /\ MayUpload(st, a)
    /\ serving[st][a] = NoRow
    /\ serving' = [serving EXCEPT ![st][a] = [key |-> k, send |-> n, since |-> wall]]
    /\ arriving' = arriving \ {<<k, n>>}
    /\ UNCHANGED <<storeVars, upset, wall, clientVars, sends, reply>>

\* The store's transaction ends the request of a slot with an outcome.
Leave(st, a, outcome, s) ==
    /\ Answer(serving[st][a].key, serving[st][a].send, outcome, s)
    /\ serving' = [serving EXCEPT ![st][a] = NoRow]
    /\ UNCHANGED <<upset, wall, clientVars, sends, arriving>>

\* The bundle store or the database is unavailable: 503.
Unavailable(st, a) ==
    /\ serving[st][a] # NoRow
    /\ Leave(st, a, "retryable", NoRow)
    /\ UNCHANGED storeVars

\* The key belongs to a submission already: replay it, or refuse other content.
Replay(st, a) ==
    /\ serving[st][a] # NoRow
    /\ \E s \in SameKey(st, a, serving[st][a].key) :
          IF request[s].content = made[serving[st][a].key].content
          THEN Leave(st, a, "submission", s)
          ELSE Leave(st, a, "refused", NoRow)
    /\ UNCHANGED storeVars

\* Mutant of Decline: window and limits are looked at before the key.
DeclineFirst(st, a) ==
    /\ serving[st][a] # NoRow
    /\ ~Accepts(a, wall)
    /\ Leave(st, a, "refused", NoRow)
    /\ UNCHANGED storeVars

\* Only then does create_accepted_bundle_submission look at the window and
\* the limits; 429 asks the client to come back, 403 does not.
Decline(st, a) ==
    /\ serving[st][a] # NoRow
    /\ SameKey(st, a, serving[st][a].key) = {}
    /\ \E at \in serving[st][a].since .. wall :
          \/ ~Accepts(a, at) /\ Leave(st, a, "refused", NoRow)
          \/ /\ Accepts(a, at)
             /\ ~HasOutstandingRoom(st) \/ ~HasDailyRoom(st, at)
             /\ Leave(st, a, "retryable", NoRow)
    /\ UNCHANGED storeVars

Create(st, a) ==
    /\ serving[st][a] # NoRow
    /\ \E s \in Submissions, at \in serving[st][a].since .. wall :
          LET k == serving[st][a].key IN
          /\ Admit(s, st, a, k, made[k].content, at)
          /\ Leave(st, a, "submission", s)

-----------------------------------------------------------------------------

UploadTick ==
    /\ wall < MaxTime
    /\ wall' = wall + 1
    /\ UNCHANGED <<storeVars, clientVars, wireVars, upset>>

\* Grading goes on; the instructor may hide or extend, where Mishaps lets them.
Others ==
    /\ \/ (TransitionAny \/ RecordAny) /\ UNCHANGED upset
       \/ "hide" \in Mishaps /\ ReleaseAny /\ upset' = TRUE
       \/ "extend" \in Mishaps /\ ExtendAny /\ upset' = TRUE
    /\ UNCHANGED <<wall, clientVars, wireVars>>

ClientStep(st) ==
    \/ \E a \in Assignments, c \in Contents, command \in BOOLEAN : Submit(st, a, c, command)
    \/ Send(st) \/ Timeout(st) \/ ReceiveRetryable(st) \/ ReceiveRefusal(st)
    \/ ReceiveSubmission(st) \/ CommandExpired(st)

ServiceStep ==
    \/ \E k \in Keys, n \in 1..MaxSends : RefuseEarly(k, n) \/ Enter(k, n)
    \/ \E st \in Students, a \in Assignments :
          Unavailable(st, a) \/ Replay(st, a) \/ Decline(st, a) \/ Create(st, a)

UploadNext == (\E st \in Students : ClientStep(st)) \/ ServiceStep \/ UploadTick \/ Others

UploadSpec == UploadInit /\ [][UploadNext]_uploadVars

-----------------------------------------------------------------------------
(* Properties.                                                             *)

UploadTypeOK ==
    /\ StoreTypeOK
    /\ wall \in Times /\ upset \in BOOLEAN
    /\ made \in [Keys -> Attempt \cup {NoRow}]
    /\ pending \in [Students -> [Assignments -> Keys \cup {NoKey}]]
    /\ remembered \subseteq Submissions
    /\ call \in [Students -> {"idle", "send", "wait"}]
    /\ using \in [Students -> Keys \cup {NoKey}]
    /\ byCommand \in [Students -> BOOLEAN]
    /\ tries \in [Students -> 0..MaxTries]
    /\ sends \in [Keys -> 0..MaxSends]
    /\ arriving \subseteq Keys \X (1..MaxSends)
    /\ serving \in [Students -> [Assignments -> Serving \cup {NoRow}]]
    /\ reply \in [Students -> Replies]

\* The student prepared other content for the slot after this key was drawn.
Superseded(k) ==
    \E j \in Keys : /\ j > k
                    /\ made[j] # NoRow
                    /\ made[j].student = made[k].student
                    /\ made[j].assignment = made[k].assignment
                    /\ made[j].content # made[k].content

\* No admission is lost to its author: whatever is lost, delayed or answered
\* twice, the client knows the submission, or still holds the key that will
\* replay it, or has moved on to other content (submit_bundle's replay before
\* every limit, clearSubmissionAttempt after an answer only).
KnownOrPending ==
    \A s \in Submissions :
        request[s] # NoRow =>
            LET k == request[s].key
                st == request[s].student IN
            \/ s \in remembered
            \/ using[st] = k
            \/ pending[st][request[s].assignment] = k
            \/ Superseded(k)

\* The same as long as no release was hidden or extended under the upload and
\* no classroom command expired.
KnownUnlessUpset == ~upset => KnownOrPending

\* The submission a call is answered with is its own upload, under its own
\* key: never another attempt's, however old requests, other calls and their
\* answers interleave.
AnswerIsOwnUpload ==
    \A st \in Students :
        reply[st].outcome = "submission" =>
            LET r == request[reply[st].submission] IN
            /\ r # NoRow
            /\ r.key = using[st]
            /\ [student |-> st, assignment |-> r.assignment, content |-> r.content]
                  = made[using[st]]

\* A lost answer never costs a second attempt: the same content is admitted
\* twice in a row only if the client knew of the first admission; and what a
\* call is answered with is its own upload.
LostReplyIsNoSecondAttempt ==
    /\ AnswerIsOwnUpload
    /\ ~upset => \A s, t \in Submissions :
        /\ request[s] # NoRow
        /\ request[t] # NoRow
        /\ request[s].student = request[t].student
        /\ request[s].assignment = request[t].assignment
        /\ request[s].content = request[t].content
        /\ request[s].key < request[t].key
        /\ ~Superseded(request[s].key)
        => s \in remembered

\* A lost answer costs the student neither the submission nor an attempt.
NoUploadIsLost == KnownUnlessUpset /\ LostReplyIsNoSecondAttempt
=============================================================================
