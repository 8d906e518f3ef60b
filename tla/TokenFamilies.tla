---------------------------- MODULE TokenFamilies ----------------------------
(***************************************************************************)
(* Sessions, token families and refresh tokens of one course: the tables   *)
(* platform_sessions, platform_token_families and platform_refresh_tokens, *)
(* and the store methods that write them.  A family belongs to exactly one *)
(* session (UNIQUE token_family_id), so both are named by the session id.  *)
(* Each operator below is one BEGIN IMMEDIATE transaction or a part of     *)
(* one; `at` is the time its caller read before it waited for the lock.    *)
(*                                                                         *)
(* The verifiers of a family are numbered in the order they are issued:    *)
(* refresh token n and access token n come from the same rotation.         *)
(***************************************************************************)
EXTENDS Integers, FiniteSets

CONSTANTS
    Students,       \* students of the course
    Sessions,       \* session ids new_public_id("ses") may hand out
    Devices,        \* device authorization ids a session may come from
    MaxRotations,   \* TokenPolicy.max_refresh_rotations
    MaxDaily,       \* TokenPolicy.max_daily_session_issuances
    MaxRetained,    \* TokenPolicy.max_retained_sessions
    AccessLife,     \* TokenPolicy.access_lifetime_seconds
    RefreshLife,    \* TokenPolicy.refresh_lifetime_seconds
    Retention,      \* TokenPolicy.auth_history_retention_seconds
    DayLength,      \* time units in one UTC day
    MaxTime,        \* bound: no time a caller reads is later
    Nobody          \* student_id IS NULL, device IS NULL

Times == 0..MaxTime
Expiries == 0..(MaxTime + RefreshLife)
Day(t) == t \div DayLength
Days == 0..MaxTime
Generations == 0..MaxRotations

\* TokenPolicy.__post_init__.
ASSUME FamilyAssumption ==
    /\ {MaxRotations, MaxDaily, MaxRetained, AccessLife, Retention, DayLength}
            \subseteq Nat \ {0}
    /\ RefreshLife \in Nat /\ RefreshLife > AccessLife
    /\ MaxTime \in Nat
    /\ Nobody \notin Students \cup Devices
    /\ IsFiniteSet(Sessions)

\* pruned: a row _prune_auth_history deleted; its id is never handed out again.
SessionStatus == {"absent", "open", "revoked", "pruned"}
TokenStates == {"absent", "active", "used", "revoked"}

VARIABLES
    session,     \* platform_sessions; status "revoked": revoked_at is set
    family,      \* platform_token_families
    token,       \* platform_refresh_tokens
    issuances,   \* platform_session_issuance_counters
    referenced   \* sessions some submission or download names

familyVars == <<session, family, token, issuances, referenced>>

SessionRow ==
    [status : SessionStatus, student : Students \cup {Nobody},
     device : Devices \cup {Nobody}, created : Times, expires : Expiries,
     accessExpires : Expiries, updated : Times]

NoSession == [status |-> "absent", student |-> Nobody, device |-> Nobody,
              created |-> 0, expires |-> 0, accessExpires |-> 0, updated |-> 0]

FamilyRow == [revoked : BOOLEAN, compromised : BOOLEAN, rotations : Generations]

FamilyInit ==
    /\ session = [s \in Sessions |-> NoSession]
    /\ family = [s \in Sessions |->
                    [revoked |-> FALSE, compromised |-> FALSE, rotations |-> 0]]
    /\ token = [s \in Sessions |->
                    [n \in Generations |-> [state |-> "absent", expires |-> 0]]]
    /\ issuances = [st \in Students |-> [d \in Days |-> 0]]
    /\ referenced = {}

-----------------------------------------------------------------------------
Earlier(t, u) == IF t <= u THEN t ELSE u

Rows(st) == {s \in Sessions : /\ session[s].status \in {"open", "revoked"}
                              /\ session[s].student = st}

\* What authorize_access_token and rotate_refresh_token ask of a family.
Live(s) ==
    /\ session[s].status = "open"
    /\ ~family[s].revoked
    /\ ~family[s].compromised

\* The revocation every method shares: sessions and families are marked, the
\* active refresh token becomes revoked, used ones stay used.
WithoutAccess(tokens) ==
    [n \in Generations |->
        IF tokens[n].state = "active" THEN [tokens[n] EXCEPT !.state = "revoked"]
        ELSE tokens[n]]

Closed(row, at) == [row EXCEPT !.status = "revoked", !.updated = at]

\* revoke_session, revoke_student_sessions, _revoke_course_credentials and
\* _revoke_student_credentials over the rows S.
RevokeRows(S, at) ==
    /\ session' = [s \in Sessions |->
                      IF s \in S THEN Closed(session[s], at) ELSE session[s]]
    /\ family' = [s \in Sessions |->
                      IF s \in S THEN [family[s] EXCEPT !.revoked = TRUE]
                      ELSE family[s]]
    /\ token' = [s \in Sessions |->
                      IF s \in S THEN WithoutAccess(token[s]) ELSE token[s]]
    /\ UNCHANGED <<issuances, referenced>>

RevokeSession(s, at) ==
    /\ session[s].status \in {"open", "revoked"}
    /\ RevokeRows({s}, at)

\* revoke_student_sessions touches only rows that are not revoked yet.
RevokeStudentSessions(st, at) ==
    RevokeRows({s \in Rows(st) : session[s].status = "open"}, at)

\* _revoke_course_credentials rewrites updated_at of every row it finds.
RevokeCredentials(st, at) == RevokeRows(Rows(st), at)

-----------------------------------------------------------------------------
(* Issuance: the session half of consume_device_authorization.             *)

\* _prune_auth_history: old, terminal, unreferenced.  At this point of the
\* transaction every earlier row of the student is revoked.
Forgettable(rows, st, at) ==
    {s \in Sessions :
        /\ rows[s].status = "revoked"
        /\ rows[s].student = st
        /\ rows[s].updated <= at - Retention
        /\ s \notin referenced}

\* The rows of st after the supersession and the pruning of one issuance.
Superseded(st, at) ==
    LET closed == [s \in Sessions |->
                      IF s \in Rows(st) /\ session[s].status = "open"
                      THEN Closed(session[s], at) ELSE session[s]]
    IN  [s \in Sessions |-> IF s \in Forgettable(closed, st, at)
                            THEN [closed[s] EXCEPT !.status = "pruned"]
                            ELSE closed[s]]

Retained(rows, st) ==
    Cardinality({s \in Sessions : /\ rows[s].status \in {"open", "revoked"}
                                  /\ rows[s].student = st})

\* Counters of days before the retention are deleted.
CountersAfter(at) ==
    [st \in Students |-> [d \in Days |->
        IF d < Day(at - Retention) THEN 0 ELSE issuances[st][d]]]

\* Mutant of HasDailyRoom: one too many.
HasDailyRoomInclusive(st, at) == CountersAfter(at)[st][Day(at)] <= MaxDaily

HasDailyRoom(st, at) == CountersAfter(at)[st][Day(at)] < MaxDaily

HasRetainedRoom(st, at) == Retained(Superseded(st, at), st) < MaxRetained

\* The families a new login revokes: every one of the student not yet revoked.
Superseding(st) == {s \in Sessions : /\ session[s].student = st
                                     /\ session[s].status # "pruned"}

NewSession(st, dev, at) ==
    [status |-> "open", student |-> st, device |-> dev, created |-> at,
     expires |-> at + RefreshLife, accessExpires |-> at + AccessLife,
     updated |-> at]

\* The active-session quota that precedes the two counters in the code can
\* never refuse: every earlier session was revoked a few statements before.
IssueSession(s, st, dev, at) ==
    /\ session[s].status = "absent"
    /\ HasRetainedRoom(st, at)
    /\ HasDailyRoom(st, at)
    /\ session' = [u \in Sessions |->
                      IF u = s THEN NewSession(st, dev, at)
                      ELSE IF u \in Superseding(st) THEN Superseded(st, at)[u]
                      ELSE session[u]]
    /\ family' = [u \in Sessions |->
                      IF u \in Superseding(st)
                      THEN [family[u] EXCEPT !.revoked = TRUE] ELSE family[u]]
    /\ token' = [u \in Sessions |->
                    IF u = s
                    THEN [token[s] EXCEPT ![0] =
                             [state |-> "active", expires |-> at + RefreshLife]]
                    ELSE IF u \in Superseding(st) THEN WithoutAccess(token[u])
                    ELSE token[u]]
    /\ issuances' = [CountersAfter(at) EXCEPT ![st][Day(at)] = @ + 1]
    /\ UNCHANGED referenced

-----------------------------------------------------------------------------
(* Use and rotation.                                                       *)

\* authorize_access_token, for the access token of generation n.
Authorizes(s, n, enrolled, at) ==
    /\ Live(s)
    /\ n = family[s].rotations
    /\ session[s].accessExpires > at
    /\ session[s].student \in enrolled

\* An authorized request touches its session; a submission or a download also
\* keeps a row that names it.
Use(s, n, enrolled, keeps, at) ==
    /\ Authorizes(s, n, enrolled, at)
    /\ session' = [session EXCEPT ![s].updated = at]
    /\ referenced' = IF keeps THEN referenced \cup {s} ELSE referenced
    /\ UNCHANGED <<family, token, issuances>>

\* rotate_refresh_token, one operator per way out.  Refresh token n of s.
IsReuse(s, n) == /\ session[s].status \in {"open", "revoked"}
                 /\ token[s][n].state = "used"

MayRotate(s, n, enrolled, at) ==
    /\ ~IsReuse(s, n)
    /\ token[s][n].state = "active"
    /\ Live(s)
    /\ token[s][n].expires > at
    /\ session[s].student \in enrolled

ReuseDetected(s, n, at) ==
    /\ IsReuse(s, n)
    /\ session' = [session EXCEPT ![s] = Closed(@, at)]
    /\ family' = [family EXCEPT ![s].compromised = TRUE, ![s].revoked = TRUE]
    /\ token' = [token EXCEPT ![s] = WithoutAccess(@)]
    /\ UNCHANGED <<issuances, referenced>>

RotationLimit(s, n, enrolled, at) ==
    /\ MayRotate(s, n, enrolled, at)
    /\ family[s].rotations >= MaxRotations
    /\ RevokeRows({s}, at)

\* Mutant of NewExpiry: every rotation starts the lifetime again.
NewExpirySliding(s, at) == at + RefreshLife

\* Rotation may shorten the absolute deadline of the login, never move it.
NewExpiry(s, at) == Earlier(at + RefreshLife, session[s].expires)

Consumed(tokens, n) == [tokens EXCEPT ![n].state = "used"]

Rotate(s, n, enrolled, at) ==
    /\ MayRotate(s, n, enrolled, at)
    /\ family[s].rotations < MaxRotations
    /\ LET next == family[s].rotations + 1
       IN  /\ family' = [family EXCEPT ![s].rotations = next]
           /\ token' = [token EXCEPT ![s] =
                 [Consumed(@, n) EXCEPT ![next] =
                     [state |-> "active", expires |-> NewExpiry(s, at)]]]
    /\ session' = [session EXCEPT
                      ![s].accessExpires = Earlier(at + AccessLife, NewExpiry(s, at)),
                      ![s].updated = at]
    /\ UNCHANGED <<issuances, referenced>>

\* The refusals change nothing.
RotationDenied(s, n, enrolled, at) ==
    ~IsReuse(s, n) /\ ~MayRotate(s, n, enrolled, at)

-----------------------------------------------------------------------------
(* Properties.                                                             *)

\* The shape of the tables.
FamilyTypeOK ==
    /\ session \in [Sessions -> SessionRow]
    /\ family \in [Sessions -> FamilyRow]
    /\ token \in [Sessions -> [Generations -> [state : TokenStates,
                                               expires : Expiries]]]
    /\ issuances \in [Students -> [Days -> 0..MaxDaily]]
    /\ referenced \subseteq Sessions

\* The three tables agree whatever sequence of logins, rotations, reuses and
\* revocations wrote them: an open session has a family that is neither
\* revoked nor compromised and exactly one active refresh token, the latest;
\* a closed one has none; and everything before the latest is used.
TablesAgree ==
    \A s \in Sessions : session[s].status \in {"open", "revoked"} =>
        /\ session[s].status = "open" <=> ~family[s].revoked
        /\ family[s].compromised => family[s].revoked
        /\ \A n \in Generations :
              /\ n < family[s].rotations => token[s][n].state = "used"
              /\ n = family[s].rotations =>
                    token[s][n].state = IF session[s].status = "open"
                                        THEN "active" ELSE "revoked"
              /\ n > family[s].rotations => token[s][n].state = "absent"

\* The latest login replaces the others (consume_device_authorization): a
\* student never holds two sessions that can still be used.
OneLiveSession ==
    \A s, u \in Sessions :
        Live(s) /\ Live(u) /\ session[s].student = session[u].student => s = u

\* The absolute deadline of a login: no token of a session outlives it.
DeadlineIsAbsolute ==
    \A s \in Sessions : session[s].status \in {"open", "revoked"} =>
        /\ session[s].expires = session[s].created + RefreshLife
        /\ session[s].accessExpires <= session[s].expires
        /\ \A n \in Generations : token[s][n].expires <= session[s].expires

\* A session that a submission or a download names is audit evidence and is
\* never deleted.
EvidenceKept == \A s \in referenced : session[s].status \in {"open", "revoked"}

\* The daily cap counts logins, those since revoked or pruned included.
DailyLoginsBounded ==
    \A st \in Students, d \in Days :
        Cardinality({s \in Sessions : /\ session[s].status # "absent"
                                      /\ session[s].student = st
                                      /\ Day(session[s].created) = d}) <= MaxDaily

\* What every login, rotation, reuse and clean-up leaves behind.
FamiliesSound ==
    /\ FamilyTypeOK
    /\ TablesAgree
    /\ OneLiveSession
    /\ DeadlineIsAbsolute
    /\ EvidenceKept
    /\ DailyLoginsBounded
=============================================================================
