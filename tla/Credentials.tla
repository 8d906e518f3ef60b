----------------------------- MODULE Credentials -----------------------------
(***************************************************************************)
(* How a student of one course comes to a session: the roster, passwords   *)
(* with a lockout, activation codes, assignment claims and device          *)
(* authorizations (platform_state.py), and the password check that the     *)
(* service runs between two transactions.  Every store method is atomic;   *)
(* its `at` was read before the write lock, at most MaxWait earlier (the   *)
(* busy timeout of the connection).                                        *)
(*                                                                         *)
(* A student is "enrolled" when both the student and the enrollment are    *)
(* active; both ways of ending it revoke the same credentials.  Identity   *)
(* changes, GitHub OAuth cookies and CSRF values are left out.             *)
(***************************************************************************)
EXTENDS TokenFamilies

CONSTANTS
    Activations,      \* activation codes the operator may issue
    Claims,           \* assignment claim codes the portal may issue
    Assignments,
    Passwords,        \* password verifiers (two hashes of one text differ)
    MaxAttempts,      \* TokenPolicy.max_activation_attempts
    MaxFailures,      \* TokenPolicy.max_password_attempts
    Forms,            \* password forms the service may have in hand at once
    Lockout,          \* TokenPolicy.password_lockout_seconds
    CodeLife,         \* lifetime of devices, activation codes and claims
    DeviceRetention,  \* expired_retention_seconds
    MaxPending,       \* max_outstanding of create_device_authorization
    MaxWait,          \* longest wait for the write lock
    NoPassword        \* no row in platform_student_passwords

ASSUME CredentialAssumption ==
    /\ {MaxAttempts, MaxFailures, Lockout, CodeLife,
        DeviceRetention, MaxPending} \subseteq Nat \ {0}
    /\ MaxWait \in 0..Retention
    /\ NoPassword \notin Passwords

DeviceStates == {"absent", "pending", "approved", "consumed", "denied",
                 "expired", "pruned"}
CodeStates == {"absent", "issued", "consumed", "revoked", "expired"}

VARIABLES
    now,         \* the wall clock
    enrolled,    \* students whose student row and enrollment are active
    open,        \* assignments _available_assignment_delivery_mode finds
    password,    \* platform_student_passwords: hash, failures, locked until
    device,      \* device_authorizations
    activation,  \* platform_student_activations
    claim,       \* platform_assignment_grants
    accepted,    \* platform_assignment_acceptances, by device
    checks       \* password verifications under way in the service

rosterVars == <<enrolled, open>>
pairVars == <<device, activation, claim, accepted>>
credentialVars == <<familyVars, now, enrolled, open, password, device, activation,
          claim, accepted, checks>>

CodeExpiries == 0..(MaxTime + CodeLife)

DeviceRow == [state : DeviceStates, student : Students \cup {Nobody},
              expires : CodeExpiries, attempts : 0..MaxAttempts,
              updated : Times]
NoDevice == [state |-> "absent", student |-> Nobody, expires |-> 0,
             attempts |-> 0, updated |-> 0]

ActivationRow == [state : CodeStates, student : Students \cup {Nobody},
                  expires : CodeExpiries, device : Devices \cup {Nobody}]
NoActivation == [state |-> "absent", student |-> Nobody, expires |-> 0,
                 device |-> Nobody]

\* `under` is history: the password verifier that was checked for the claim.
ClaimRow == [state : CodeStates, student : Students \cup {Nobody},
             assignment : Assignments \cup {Nobody}, expires : CodeExpiries,
             device : Devices \cup {Nobody},
             under : Passwords \cup {NoPassword}]
NoClaim == [state |-> "absent", student |-> Nobody, assignment |-> Nobody,
            expires |-> 0, device |-> Nobody, under |-> NoPassword]

\* `guesses` is history: the wrong guesses at this verifier that were answered
\* since the account was opened with it or locked.
PasswordRow == [hash : Passwords \cup {NoPassword}, failures : 0..MaxFailures,
                lockedUntil : -1..(MaxTime + Lockout), guesses : Nat]
Fresh(hash) == [hash |-> hash, failures |-> 0, lockedUntil |-> -1, guesses |-> 0]

\* The check of one form works on the row it read; `matches` is what scrypt will
\* say.
Check == [form : Forms, student : Students, read : PasswordRow, matches : BOOLEAN]

CredentialInit ==
    /\ FamilyInit
    /\ now = 0
    /\ enrolled = Students
    /\ open = Assignments
    /\ password \in [Students -> {Fresh(h) : h \in Passwords \cup {NoPassword}}]
    /\ device = [d \in Devices |-> NoDevice]
    /\ activation = [c \in Activations |-> NoActivation]
    /\ claim = [g \in Claims |-> NoClaim]
    /\ accepted = [d \in Devices |-> Nobody]
    /\ checks = {}

Recent == {t \in Times : t <= now /\ now - t <= MaxWait}

-----------------------------------------------------------------------------
(* Revocations.                                                            *)

DenyApproved(st, at) ==
    [d \in Devices |->
        IF device[d].state = "approved" /\ device[d].student = st
        THEN [device[d] EXCEPT !.state = "denied", !.updated = at]
        ELSE device[d]]

WithdrawnCodes(codes, st) ==
    [c \in DOMAIN codes |->
        IF codes[c].state = "issued" /\ codes[c].student = st
        THEN [codes[c] EXCEPT !.state = "revoked"] ELSE codes[c]]

\* _revoke_course_credentials, _revoke_student_credentials.
RevokeEverything(st, at) ==
    /\ RevokeCredentials(st, at)
    /\ device' = DenyApproved(st, at)
    /\ activation' = WithdrawnCodes(activation, st)
    /\ claim' = WithdrawnCodes(claim, st)

\* upsert_enrollment, set_student_active, upsert_student and the roster import.
Deactivate(st, at) ==
    /\ enrolled' = enrolled \ {st}
    /\ RevokeEverything(st, at)
    /\ password' = [password EXCEPT ![st] = Fresh(NoPassword)]
    /\ UNCHANGED <<now, open, accepted, checks>>

Reactivate(st) ==
    /\ st \notin enrolled
    /\ enrolled' = enrolled \cup {st}
    /\ UNCHANGED <<familyVars, now, open, password, pairVars, checks>>

\* _set_student_password_hash_in_connection: a different verifier revokes.
SetPassword(st, hash, at) ==
    /\ st \in enrolled
    /\ password' = [password EXCEPT ![st] = Fresh(hash)]
    /\ IF password[st].hash \in Passwords \ {hash} THEN RevokeEverything(st, at)
       ELSE UNCHANGED <<familyVars, device, activation, claim>>
    /\ UNCHANGED <<now, rosterVars, accepted, checks>>

\* An assignment opens, closes, is hidden or published.
ToggleAssignment(a) ==
    /\ open' = IF a \in open THEN open \ {a} ELSE open \cup {a}
    /\ UNCHANGED <<familyVars, now, enrolled, password, pairVars, checks>>

-----------------------------------------------------------------------------
(* Passwords and claims: authenticate_student_password reads the row,      *)
(* verifies outside every transaction and then counts a failure or issues. *)

\* The row is read before a verification slot is awaited: any number of forms
\* hold a row.  The slots only delay a form, or end it (RejectCheck).  A student
\* without a verifier is checked against a dummy and changes nothing.
ReadPassword(f, st, matches) ==
    /\ password[st].hash # NoPassword
    /\ st \in enrolled
    /\ \A chk \in checks : chk.form # f
    /\ checks' = checks \cup {[form |-> f, student |-> st, read |-> password[st],
                               matches |-> matches]}
    /\ UNCHANGED <<familyVars, now, rosterVars, password, pairVars>>

\* Mutant of CountedBefore: the count the check read, outside the transaction.
CountedThen(chk) == chk.read.failures
CountedBefore(chk) == password[chk.student].failures

\* record_student_password_failure: only for the verifier that was checked,
\* and not while locked.
Failed(chk, at) ==
    LET row == password[chk.student]
        failures == IF row.lockedUntil # -1 THEN 1 ELSE CountedBefore(chk) + 1
        locks == failures >= MaxFailures
    IN  [row EXCEPT !.failures = Earlier(failures, MaxFailures),
                    !.lockedUntil = IF locks THEN at + Lockout ELSE -1,
                    !.guesses = IF locks THEN 0 ELSE @ + 1]

CountFailure(chk, at) ==
    /\ chk \in checks /\ ~chk.matches
    /\ checks' = checks \ {chk}
    /\ password' = IF /\ password[chk.student].hash = chk.read.hash
                      /\ password[chk.student].lockedUntil <= at
                   THEN [password EXCEPT ![chk.student] = Failed(chk, at)]
                   ELSE password
    /\ UNCHANGED <<familyVars, now, rosterVars, pairVars>>

\* No slot came free in time (503), the row was locked when it was read, or the
\* transaction refused.
RejectCheck(chk) ==
    /\ chk \in checks
    /\ checks' = checks \ {chk}
    /\ UNCHANGED <<familyVars, now, rosterVars, password, pairVars>>

\* Mutant of StillVerified: the verifier that was checked is trusted.
StillVerifiedThen(chk, at) ==
    /\ chk.student \in enrolled
    /\ password[chk.student].lockedUntil <= at

\* Mutant of StillVerified: the lock is the one that was read.
StillVerifiedLocked(chk, at) ==
    /\ chk.student \in enrolled
    /\ password[chk.student].hash = chk.read.hash

\* issue_assignment_grant asks again for everything the check relied on.
StillVerified(chk, at) ==
    /\ chk.student \in enrolled
    /\ password[chk.student].hash = chk.read.hash
    /\ password[chk.student].lockedUntil <= at

\* Earlier claims of the same assignment expire or are revoked.
Replaced(st, a, at) ==
    [g \in Claims |->
        IF /\ claim[g].state = "issued" /\ claim[g].student = st
           /\ claim[g].assignment = a
        THEN [claim[g] EXCEPT
                !.state = IF claim[g].expires <= at THEN "expired" ELSE "revoked"]
        ELSE claim[g]]

IssueClaim(chk, g, a, at) ==
    /\ chk \in checks /\ chk.matches
    /\ chk.read.lockedUntil <= at
    /\ StillVerified(chk, at)
    /\ a \in open
    /\ claim[g].state = "absent"
    /\ checks' = checks \ {chk}
    /\ password' = [password EXCEPT ![chk.student] = Fresh(@.hash)]
    /\ claim' = [Replaced(chk.student, a, at) EXCEPT ![g] =
                    [state |-> "issued", student |-> chk.student,
                     assignment |-> a, expires |-> at + CodeLife,
                     device |-> Nobody, under |-> chk.read.hash]]
    /\ UNCHANGED <<familyVars, now, rosterVars, device, activation, accepted>>

-----------------------------------------------------------------------------
(* Activation codes.                                                       *)

\* issue_student_activation; its retained-history limit is left out.
IssueActivation(c, st, at) ==
    /\ activation[c].state = "absent"
    /\ st \in enrolled
    /\ activation' =
          [e \in Activations |->
              IF e = c
              THEN [state |-> "issued", student |-> st,
                    expires |-> at + CodeLife, device |-> Nobody]
              ELSE IF activation[e].state = "issued" /\ activation[e].student = st
              THEN [activation[e] EXCEPT
                       !.state = IF activation[e].expires <= at
                                 THEN "expired" ELSE "revoked"]
              ELSE activation[e]]
    /\ UNCHANGED <<familyVars, now, rosterVars, password, device, claim,
                   accepted, checks>>

\* revoke_student_activation_by_id; revoke_student_activations does the same
\* to the one issued code of the student.
RevokeActivation(c) ==
    /\ activation[c].state = "issued"
    /\ activation' = [activation EXCEPT ![c].state = "revoked"]
    /\ UNCHANGED <<familyVars, now, rosterVars, password, device, claim,
                   accepted, checks>>

-----------------------------------------------------------------------------
(* Device authorizations.                                                  *)

Refer(d) ==
    \/ \E s \in Sessions : /\ session[s].status \in {"open", "revoked"}
                           /\ session[s].device = d
    \/ \E c \in Activations : activation[c].device = d
    \/ \E g \in Claims : claim[g].device = d
    \/ accepted[d] # Nobody

\* What create_device_authorization finds after its own housekeeping.
Housekept(at) ==
    LET expired == [d \in Devices |->
            IF device[d].state \in {"pending", "approved"} /\ device[d].expires <= at
            THEN [device[d] EXCEPT !.state = "expired", !.updated = at]
            ELSE device[d]]
    IN  [d \in Devices |->
            IF /\ expired[d].state \in {"consumed", "denied", "expired"}
               /\ expired[d].updated <= at - DeviceRetention
               /\ ~Refer(d)
            THEN [expired[d] EXCEPT !.state = "pruned"] ELSE expired[d]]

Outstanding(rows) ==
    Cardinality({d \in Devices : rows[d].state \in {"pending", "approved"}})

CreateDevice(d, at) ==
    /\ device[d].state = "absent"
    /\ Outstanding(Housekept(at)) < MaxPending
    /\ device' = [Housekept(at) EXCEPT ![d] =
                     [NoDevice EXCEPT !.state = "pending", !.updated = at,
                                      !.expires = at + CodeLife]]
    /\ UNCHANGED <<familyVars, now, rosterVars, password, activation, claim,
                   accepted, checks>>

Approved(d, st, at) ==
    [device[d] EXCEPT !.state = "approved", !.student = st, !.updated = at]

\* An expired row met by any method is marked, and the call refused.
ExpireDevice(d, at) ==
    /\ device[d].state \in {"pending", "approved"}
    /\ device[d].expires <= at
    /\ device' = [device EXCEPT ![d].state = "expired", ![d].updated = at]
    /\ UNCHANGED <<familyVars, now, rosterVars, password, activation, claim,
                   accepted, checks>>

\* approve_device_authorization, after a GitHub sign-in or by the operator.
ApproveDevice(d, st, at) ==
    /\ device[d].state = "pending"
    /\ device[d].expires > at
    /\ st \in enrolled
    /\ device' = [device EXCEPT ![d] = Approved(d, st, at)]
    /\ UNCHANGED <<familyVars, now, rosterVars, password, activation, claim,
                   accepted, checks>>

\* redeem_student_activation with a code that is good: code and device change
\* together.
RedeemActivation(d, c, at) ==
    /\ device[d].state = "pending"
    /\ device[d].expires > at
    /\ device[d].attempts < MaxAttempts
    /\ activation[c].state = "issued"
    /\ activation[c].expires > at
    /\ activation[c].student \in enrolled
    /\ device' = [device EXCEPT ![d] = Approved(d, activation[c].student, at)]
    /\ activation' = [activation EXCEPT ![c].state = "consumed",
                                        ![c].device = d]
    /\ UNCHANGED <<familyVars, now, rosterVars, password, claim, accepted,
                   checks>>

Mistaken(row, at) ==
    [row EXCEPT !.attempts = @ + 1, !.updated = at,
                !.state = IF row.attempts + 1 >= MaxAttempts THEN "denied" ELSE @]

\* The same with a code that is not: unknown, spent (nothing but the count),
\* or issued and out of date.
MistypeActivation(d, at) ==
    /\ device[d].state = "pending"
    /\ device[d].expires > at
    /\ device' = [device EXCEPT ![d] = Mistaken(@, at)]
    /\ \/ UNCHANGED activation
       \/ \E c \in Activations :
             /\ activation[c].state = "issued"
             /\ \/ activation[c].expires <= at
                \/ activation[c].student \notin enrolled
             /\ activation' = [activation EXCEPT ![c].state =
                   IF activation[c].expires <= at THEN "expired" ELSE "revoked"]
    /\ UNCHANGED <<familyVars, now, rosterVars, password, claim, accepted,
                   checks>>

\* redeem_assignment_claim: claim, device and acceptance change together.
ClaimIsGood(g, at) ==
    /\ claim[g].state = "issued"
    /\ claim[g].expires > at
    /\ claim[g].student \in enrolled
    /\ claim[g].assignment \in open

RedeemClaim(d, g, at) ==
    /\ device[d].state = "pending"
    /\ device[d].expires > at
    /\ ClaimIsGood(g, at)
    /\ device' = [device EXCEPT ![d] = Approved(d, claim[g].student, at)]
    /\ claim' = [claim EXCEPT ![g].state = "consumed", ![g].device = d]
    /\ accepted' = [accepted EXCEPT ![d] = claim[g].assignment]
    /\ UNCHANGED <<familyVars, now, rosterVars, password, activation, checks>>

\* A claim that is out of date, or whose assignment closed, is spent by the
\* attempt; the device is marked only if it has expired.
SpoilClaim(d, g, at) ==
    /\ claim[g].state = "issued"
    /\ ~ClaimIsGood(g, at)
    /\ claim' = [claim EXCEPT ![g].state =
                    IF claim[g].expires <= at THEN "expired" ELSE "revoked"]
    /\ device' = IF device[d].state = "pending" /\ device[d].expires <= at
                 THEN [device EXCEPT ![d].state = "expired", ![d].updated = at]
                 ELSE device
    /\ UNCHANGED <<familyVars, now, rosterVars, password, activation, accepted,
                   checks>>

\* consume_device_authorization; pruning sessions also prunes their devices.
ForgottenDevices(st, at) ==
    {d \in Devices :
        /\ device[d].state \in {"consumed", "denied", "expired"}
        /\ accepted[d] = Nobody
        /\ \A c \in Activations : activation[c].device # d
        /\ \A g \in Claims : claim[g].device # d
        /\ \E s \in Sessions : /\ session[s].device = d
                               /\ session[s].status # "pruned"
                               /\ session'[s].status = "pruned"}

MayConsume(d, at) ==
    /\ device[d].state = "approved"
    /\ device[d].expires > at
    /\ device[d].student \in enrolled

Exchange(d, s, at) ==
    /\ MayConsume(d, at)
    /\ IssueSession(s, device[d].student, d, at)
    /\ device' = [e \in Devices |->
                    IF e = d THEN [device[d] EXCEPT !.state = "consumed",
                                                    !.updated = at]
                    ELSE IF e \in ForgottenDevices(device[d].student, at)
                    THEN [device[e] EXCEPT !.state = "pruned"] ELSE device[e]]
    /\ UNCHANGED <<now, rosterVars, password, activation, claim, accepted,
                   checks>>

-----------------------------------------------------------------------------
(* Sessions in use.                                                        *)

UseSession(s, at) ==
    /\ \E n \in Generations, keeps \in BOOLEAN : Use(s, n, enrolled, keeps, at)
    /\ UNCHANGED <<now, rosterVars, password, pairVars, checks>>

RefreshSession(s, n, at) ==
    /\ \/ Rotate(s, n, enrolled, at)
       \/ RotationLimit(s, n, enrolled, at)
       \/ ReuseDetected(s, n, at)
    /\ UNCHANGED <<now, rosterVars, password, pairVars, checks>>

\* Sign-out, the student's or the operator's revocation of one session, and
\* the operator's reset of all of them.
EndSession(s, at) ==
    /\ RevokeSession(s, at)
    /\ UNCHANGED <<now, rosterVars, password, pairVars, checks>>

EndSessions(st, at) ==
    /\ RevokeStudentSessions(st, at)
    /\ UNCHANGED <<now, rosterVars, password, pairVars, checks>>

Tick ==
    /\ now < MaxTime
    /\ now' = now + 1
    /\ UNCHANGED <<familyVars, rosterVars, password, pairVars, checks>>

RosterNext ==
    \/ \E st \in Students : Reactivate(st)
    \/ \E st \in Students, at \in Recent : Deactivate(st, at)
    \/ \E st \in Students, hash \in Passwords, at \in Recent :
          SetPassword(st, hash, at)
    \/ \E a \in Assignments : ToggleAssignment(a)

PasswordNext ==
    \/ \E f \in Forms, st \in Students, matches \in BOOLEAN : ReadPassword(f, st, matches)
    \/ \E chk \in checks : RejectCheck(chk)
    \/ \E chk \in checks, at \in Recent : CountFailure(chk, at)
    \/ \E chk \in checks, g \in Claims, a \in Assignments, at \in Recent :
          IssueClaim(chk, g, a, at)

PairingNext ==
    \/ \E c \in Activations : RevokeActivation(c)
    \/ \E c \in Activations, st \in Students, at \in Recent :
          IssueActivation(c, st, at)
    \/ \E d \in Devices, at \in Recent :
          \/ CreateDevice(d, at)
          \/ ExpireDevice(d, at)
          \/ MistypeActivation(d, at)
          \/ \E st \in Students : ApproveDevice(d, st, at)
          \/ \E c \in Activations : RedeemActivation(d, c, at)
          \/ \E g \in Claims : RedeemClaim(d, g, at) \/ SpoilClaim(d, g, at)
          \/ \E s \in Sessions : Exchange(d, s, at)

SessionNext ==
    \/ \E s \in Sessions, at \in Recent :
          \/ UseSession(s, at)
          \/ EndSession(s, at)
          \/ \E n \in Generations : RefreshSession(s, n, at)
    \/ \E st \in Students, at \in Recent : EndSessions(st, at)

CredentialNext == RosterNext \/ PasswordNext \/ PairingNext \/ SessionNext \/ Tick

CredentialSpec == CredentialInit /\ [][CredentialNext]_credentialVars

-----------------------------------------------------------------------------
(* Properties.                                                             *)

\* The shape of the tables.
CredentialTypeOK ==
    /\ FamilyTypeOK
    /\ now \in Times
    /\ enrolled \subseteq Students
    /\ open \subseteq Assignments
    /\ password \in [Students -> PasswordRow]
    /\ device \in [Devices -> DeviceRow]
    /\ activation \in [Activations -> ActivationRow]
    /\ claim \in [Claims -> ClaimRow]
    /\ accepted \in [Devices -> Assignments \cup {Nobody}]
    /\ checks \subseteq Check

\* Nothing is left to revive: a student outside the course has no password, no
\* code that could be redeemed, no approved device and no open session
\* (requirement AUTH-08: reactivation brings no earlier token back).
NothingToRevive ==
    \A st \in Students \ enrolled :
        /\ password[st].hash = NoPassword
        /\ \A c \in Activations : ~(activation[c].student = st
                                    /\ activation[c].state = "issued")
        /\ \A g \in Claims : ~(claim[g].student = st /\ claim[g].state = "issued")
        /\ \A d \in Devices : ~(device[d].student = st
                                /\ device[d].state = "approved")
        /\ \A s \in Sessions : ~(session[s].student = st
                                 /\ session[s].status = "open")

\* A changed password ends what the old one opened: a claim that can be
\* redeemed, the device it approved, and the session that came of it all rest
\* on the verifier the student has now.
NoTrustInOldPassword ==
    \A g \in Claims :
        LET current == claim[g].under = password[claim[g].student].hash
        IN  /\ claim[g].state = "issued" => current
            /\ claim[g].state = "consumed" /\ claim[g].device # Nobody =>
                  /\ device[claim[g].device].state = "approved" => current
                  /\ \A s \in Sessions :
                        /\ session[s].status = "open"
                        /\ session[s].device = claim[g].device
                        => current

\* One code of each kind can be redeemed at a time (AUTH-14, AUTH-24).
OneCodeAtATime ==
    /\ \A c, e \in Activations :
          /\ activation[c].state = "issued" /\ activation[e].state = "issued"
          /\ activation[c].student = activation[e].student
          => c = e
    /\ \A g, h \in Claims :
          /\ claim[g].state = "issued" /\ claim[h].state = "issued"
          /\ claim[g].student = claim[h].student
          /\ claim[g].assignment = claim[h].assignment
          => g = h

\* A code is spent once: a device was approved by at most one code, for the
\* student of that code, opened at most one session, for that same student,
\* and a claim's session is bound to the claim's assignment for ever (AUTH-26).
ChainOfTrust ==
    /\ \A s, u \in Sessions :
          /\ session[s].status \in {"open", "revoked"}
          /\ session[u].status \in {"open", "revoked"}
          /\ session[s].device = session[u].device
          => s = u
    /\ \A s \in Sessions : session[s].status \in {"open", "revoked"} =>
          /\ device[session[s].device].state = "consumed"
          /\ device[session[s].device].student = session[s].student
    /\ \A g \in Claims : claim[g].device # Nobody =>
          /\ device[claim[g].device].student = claim[g].student
          /\ accepted[claim[g].device] = claim[g].assignment
          /\ \A h \in Claims : claim[h].device = claim[g].device => h = g
          /\ \A c \in Activations : activation[c].device # claim[g].device

\* However many wrong guesses are verified at once, none goes uncounted: fewer
\* than MaxFailures are answered before the account is locked, since it was last
\* locked, opened with the right password or given a new one.
GuessesAreCounted ==
    \A st \in Students : password[st].guesses < MaxFailures

\* Each code is the only one of its kind and is spent once, and the sessions
\* that codes open stay sound (TokenFamilies).
AccessIsSound ==
    CredentialTypeOK /\ FamiliesSound /\ OneCodeAtATime /\ ChainOfTrust

\* Ending an enrollment or changing a password leaves nothing of what went before.
RevocationIsComplete == NothingToRevive /\ NoTrustInOldPassword

\* No check, however early it read the row, earns a claim under a lock that is
\* running or lifts it; only the operator does, by a new verifier or by ending the
\* enrollment.
LockStands ==
    [][\A st \in Students, chk \in checks :
          /\ password[st].lockedUntil > now /\ chk.student = st /\ chk \notin checks'
          => /\ password'[st].lockedUntil = password[st].lockedUntil
             /\ claim' = claim]_credentialVars
=============================================================================
