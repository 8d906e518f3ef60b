------------------------------ MODULE Memberships ------------------------------
(***************************************************************************)
(* One student number: the member account a student makes on the web, the  *)
(* identity and enrollments the staff keeps, the passwords of the courses, *)
(* the lists of admissible numbers, and how they are matched.  A request   *)
(* carries the account or the credential it was authenticated with, hashes *)
(* the new password outside every transaction, and commits later; so does  *)
(* a roster file that was read and checked before.                         *)
(***************************************************************************)
EXTENDS Integers, FiniteSets

CONSTANTS
    Classes,
    Nowhere,        \* no course
    MaxPasswords,   \* bound on the password verifiers ever made
    MaxCalls,       \* bound on requests and commands under way
    MaxPapers       \* bound on the reviews and previews not yet applied

ASSUME MembershipAssumption ==
    /\ Nowhere \notin Classes
    /\ {MaxPasswords, MaxCalls, MaxPapers} \subseteq Nat \ {0}

VARIABLES
    identity,   \* the row of platform_students
    seat,       \* platform_enrollments
    pin,        \* platform_student_passwords: the verifier of each course, or 0
    running,    \* courses of status "active"; the others are in preparation
    account,    \* the row of student_accounts
    request,    \* student_course_registrations
    eligible,   \* courses whose student_course_eligibility lists the number
    code,       \* the unused one-time code of each purpose, by issuing course
    papers,     \* reviews of a list and previews of a roster, not yet applied
    calls,      \* what is under way, with what it read
    web,        \* the verifier each web session was opened with; Nowhere: the member
    made,       \* verifiers made so far
    retired,    \* verifiers the account had before
    unblocked   \* courses the staff cleared the way for since their last match

rowVars == <<identity, seat, pin>>
memberVars == <<account, request>>
listVars == <<eligible, code, papers>>
deskVars == <<running, calls, web>>
membershipVars == <<rowVars, memberVars, listVars, deskVars, made, retired, unblocked>>

Purposes == {"activate", "reset"}
NoIdentity == [state |-> "none", subject |-> "local"]
NoAccount == [hash |-> 0, bound |-> FALSE, verified |-> FALSE]

MembershipInit ==
    /\ identity = NoIdentity
    /\ seat = [c \in Classes |-> "none"]
    /\ pin = [c \in Classes |-> 0]
    /\ running \in {Classes, {}}
    /\ account = NoAccount
    /\ request = [c \in Classes |-> "none"]
    /\ eligible = {} /\ code = [p \in Purposes |-> Nowhere] /\ papers = {}
    /\ calls = {} /\ web = [w \in Classes \cup {Nowhere} |-> 0]
    /\ made = 0 /\ retired = {} /\ unblocked = {}

NewVerifier == made + 1
MakeOne == made < MaxPasswords /\ made' = NewVerifier
Pass == UNCHANGED made

\* An account is usable while its student is; a session while its verifier is current.
Usable == account.hash # 0 /\ (account.bound => identity.state = "active")
Enrolled(c) == seat[c] = "active" /\ identity.state = "active"

----------------------------------------------------------------------------
(* Matching: _match_course. *)

\* An identity the account is not bound to is never adopted, and an enrollment
\* that was ended is never revived.
Matchable(acc, c) ==
    /\ acc.verified
    /\ \/ identity.state = "none" /\ ~acc.bound
       \/ identity.state = "active" /\ acc.bound
    /\ seat[c] # "inactive"

\* The pending requests of `cs` that the lists admit, for the account and the
\* requests as the transaction has made them.
Match(cs, acc, asked, listed) ==
    LET found == {c \in cs : asked[c] = "pending" /\ c \in listed /\ Matchable(acc, c)}
    IN  /\ request' = [c \in Classes |-> IF c \in found THEN "matched" ELSE asked[c]]
        /\ seat' = [c \in Classes |-> IF c \in found THEN "active" ELSE seat[c]]
        /\ pin' = [c \in Classes |-> IF c \in found /\ pin[c] = 0 THEN acc.hash ELSE pin[c]]
        /\ account' = [acc EXCEPT !.bound = @ \/ found # {}]
        /\ identity' = IF found # {} /\ identity.state = "none"
                       THEN [state |-> "active", subject |-> "member"] ELSE identity
        /\ unblocked' = unblocked \ cs

----------------------------------------------------------------------------
(* The student. *)

Begin(call) ==
    /\ Cardinality(calls) < MaxCalls
    /\ calls' = calls \cup {call}
    /\ UNCHANGED <<rowVars, memberVars, listVars, running, web, made, retired, unblocked>>

\* Refused, failed, or given up: nothing was written.
Drop(call) ==
    /\ calls' = calls \ {call}
    /\ UNCHANGED <<rowVars, memberVars, listVars, running, web, made, retired, unblocked>>

\* A number the staff knows cannot be taken without a credential of a course.
Register ==
    /\ account = NoAccount /\ identity.state = "none"
    /\ MakeOne /\ account' = [NoAccount EXCEPT !.hash = NewVerifier]
    /\ UNCHANGED <<rowVars, request, listVars, deskVars, retired, unblocked>>

\* authenticate and open; at most one member session of a student is kept.
LogIn ==
    /\ Usable
    /\ web' = [web EXCEPT ![Nowhere] = account.hash]
    /\ UNCHANGED <<rowVars, memberVars, listVars, running, calls, made, retired, unblocked>>

LogInToCourse(c) ==
    /\ Enrolled(c) /\ pin[c] # 0 /\ c \in running
    /\ web' = [web EXCEPT ![c] = pin[c]]
    /\ UNCHANGED <<rowVars, memberVars, listVars, running, calls, made, retired, unblocked>>

Ask(op) ==
    /\ Usable /\ web[Nowhere] = account.hash
    /\ Begin([op |-> op, account |-> account])

\* A personal password from a course session: the first one replaces the
\* passwords of the courses ("setup"), the older page left them ("adopt").
AskAccount(op, c) ==
    /\ Enrolled(c) /\ pin[c] # 0 /\ web[c] = pin[c] /\ c \in running
    /\ (op = "setup" => ~(Usable /\ account.bound))
    /\ Begin([op |-> op, course |-> c, pin |-> pin[c]])

\* _current: the account is still what the session was opened with.
Current(call) ==
    /\ account.hash = call.account.hash /\ account.bound = call.account.bound
    /\ Usable

Enroll(call, cs) ==
    /\ call.op = "enroll" /\ Current(call) /\ cs \subseteq running
    /\ Match(cs, account, [c \in Classes |-> IF c \in cs /\ request[c] = "none"
                                             THEN "pending" ELSE request[c]], eligible)
    /\ calls' = calls \ {call}
    /\ UNCHANGED <<listVars, running, web, made, retired>>

Withdraw(call, c) ==
    /\ call.op = "withdraw" /\ Current(call)
    /\ request[c] = "pending" /\ ~(account.bound /\ seat[c] = "active")
    /\ request' = [request EXCEPT ![c] = "none"]
    /\ calls' = calls \ {call}
    /\ UNCHANGED <<rowVars, account, listVars, running, web, made, retired, unblocked>>

Admitted(c) == c \in running /\ (c \in eligible \/ Enrolled(c))

RedeemForOne(call) ==
    LET known == [account EXCEPT !.verified = TRUE]
    IN  /\ call.op = "redeem" /\ Current(call) /\ ~call.account.verified
        /\ code["activate"] # Nowhere /\ Admitted(code["activate"])
        /\ Match({code["activate"]}, known, request, eligible)
        /\ code' = [code EXCEPT !["activate"] = Nowhere]
        /\ calls' = calls \ {call}
        /\ UNCHANGED <<eligible, papers, running, web, made, retired>>
Redeem(call) ==
    LET known == [account EXCEPT !.verified = TRUE]
    IN  /\ call.op = "redeem" /\ Current(call) /\ ~call.account.verified
        /\ code["activate"] # Nowhere /\ Admitted(code["activate"])
        /\ Match(Classes, known, request, eligible)
        /\ code' = [code EXCEPT !["activate"] = Nowhere]
        /\ calls' = calls \ {call}
        /\ UNCHANGED <<eligible, papers, running, web, made, retired>>

\* _sync_course_passwords: every active enrollment of a running course.
SyncedHereOnly(pins, seats, hash) == pins
Synced(pins, seats, hash) ==
    [c \in Classes |-> IF seats[c] = "active" /\ c \in running THEN hash ELSE pins[c]]

\* _replace_password, and _clear of the student's sessions.
Replace ==
    /\ MakeOne
    /\ account' = [account EXCEPT !.hash = NewVerifier]
    /\ retired' = retired \cup {account.hash}
    /\ pin' = IF account.bound THEN Synced(pin, seat, NewVerifier) ELSE pin
    /\ code' = [p \in Purposes |-> Nowhere]
    /\ web' = [w \in DOMAIN web |-> 0]
    /\ UNCHANGED <<identity, seat, request, eligible, papers, running, unblocked>>

Change(call) == call.op = "change" /\ Current(call) /\ Replace /\ calls' = calls \ {call}

Reset ==
    /\ Usable /\ code["reset"] # Nowhere /\ Admitted(code["reset"])
    /\ Replace /\ UNCHANGED calls

\* register with a credential: what the session was opened with must still hold.
SetUp(call) ==
    LET owned == [hash |-> NewVerifier, bound |-> TRUE, verified |-> TRUE]
    IN  /\ call.op \in {"setup", "adopt"}
        /\ ~account.bound
        /\ Enrolled(call.course) /\ call.course \in running /\ pin[call.course] = call.pin
        /\ MakeOne
        /\ retired' = retired \cup ({account.hash} \ {0})
        /\ LET found == {c \in Classes : request[c] = "pending" /\ c \in eligible /\ Matchable(owned, c)}
               seats == [c \in Classes |-> IF c \in found THEN "active" ELSE seat[c]]
               pins == [c \in Classes |-> IF c \in found /\ pin[c] = 0 THEN NewVerifier ELSE pin[c]]
           IN  /\ request' = [c \in Classes |-> IF c \in found THEN "matched" ELSE request[c]]
               /\ seat' = seats
               /\ pin' = IF call.op = "setup" THEN Synced(pins, seats, NewVerifier) ELSE pins
        /\ account' = owned /\ unblocked' = {}
        /\ calls' = calls \ {call}
        /\ web' = [web EXCEPT ![Nowhere] = NewVerifier]
        /\ UNCHANGED <<identity, listVars, running>>

----------------------------------------------------------------------------
(* The staff. *)

Issue(purpose, c) ==
    /\ Admitted(c) /\ (purpose = "reset" => account.hash # 0)
    /\ code' = [code EXCEPT ![purpose] = c]
    /\ UNCHANGED <<rowVars, memberVars, eligible, papers, deskVars, made, retired, unblocked>>

Lapse(purpose) ==
    /\ code[purpose] # Nowhere
    /\ code' = [code EXCEPT ![purpose] = Nowhere]
    /\ UNCHANGED <<rowVars, memberVars, eligible, papers, deskVars, made, retired, unblocked>>

File(paper) ==
    /\ Cardinality(papers) < MaxPapers
    /\ papers' = papers \cup {paper}
    /\ UNCHANGED <<rowVars, memberVars, eligible, code, deskVars, made, retired, unblocked>>

\* preview_eligibility: the file lists the number or not.
ReviewList(c, mode, lists) ==
    c \in running /\ File([kind |-> "list", course |-> c, mode |-> mode, lists |-> lists,
                           before |-> c \in eligible])

\* apply_eligibility: only upon the list that was reviewed.
ApplyReview(paper) ==
    LET c == paper.course
        listed == IF paper.lists THEN eligible \cup {c}
                  ELSE IF paper.mode = "replace" THEN eligible \ {c} ELSE eligible
    IN  /\ paper.kind = "list" /\ c \in running
        /\ paper.before = (c \in eligible)
        /\ eligible' = listed /\ papers' = papers \ {paper}
        /\ Match({c}, account, request, listed)
        /\ UNCHANGED <<code, deskVars, made, retired>>

\* What an enrollment form or a preview was computed from.
Snapshot(c) == [identity |-> identity, seat |-> seat[c], pin |-> pin[c], running |-> c \in running]

\* _import_course_roster: a new password, or none; an ended enrollment keeps none.
Write(c, active, new) ==
    /\ identity' = IF identity.state = "none" THEN [NoIdentity EXCEPT !.state = "active"] ELSE identity
    /\ seat' = [seat EXCEPT ![c] = IF active THEN "active" ELSE "inactive"]
    /\ IF ~active THEN pin' = [pin EXCEPT ![c] = 0] /\ Pass
       ELSE IF new THEN pin' = [pin EXCEPT ![c] = NewVerifier] /\ MakeOne
       ELSE UNCHANGED pin /\ Pass
    /\ unblocked' = IF active /\ seat[c] = "inactive" THEN unblocked \cup {c} ELSE unblocked
    /\ UNCHANGED <<memberVars, retired>>

\* The web forms: add_student, set_active and reset_password compare the whole
\* snapshot in the transaction, so that they act upon what they read.
Manage(c, active) ==
    /\ (active => identity.state # "blocked")
    /\ (seat[c] = "inactive" => active)
    /\ Write(c, active, active)
    /\ UNCHANGED <<listVars, deskVars>>

\* preview_csv: a password is kept, given for an enrollment without one, or made.
Preview(c, active, new) ==
    /\ (active => identity.state # "blocked" /\ (new = (pin[c] = 0)))
    /\ File([kind |-> "roster", course |-> c, active |-> active, new |-> active /\ new,
             seen |-> Snapshot(c)])

ApplyPreview(paper) ==
    /\ paper.kind = "roster" /\ paper.seen = Snapshot(paper.course)
    /\ Write(paper.course, paper.active, paper.new)
    /\ papers' = papers \ {paper}
    /\ UNCHANGED <<eligible, code, deskVars>>

Discard(paper) ==
    /\ papers' = papers \ {paper}
    /\ UNCHANGED <<rowVars, memberVars, eligible, code, deskVars, made, retired, unblocked>>

\* student import: _read_roster_csv checks the file against the rows, and the
\* import compares again the passwords that it read.
OfStaff == identity.state = "none" \/ identity.subject = "local"

ReadRoster(c, active, password) ==
    /\ OfStaff
    /\ (~active => password = "none")
    /\ (password = "keep" => pin[c] # 0)
    /\ Begin([op |-> "import", course |-> c, active |-> active, password |-> password, pin |-> pin[c]])

Import(call) ==
    /\ call.op = "import" /\ OfStaff
    /\ (call.password # "none" => identity.state # "blocked" /\ pin[call.course] = call.pin)
    /\ Write(call.course, call.active, call.password = "new")
    /\ calls' = calls \ {call}
    /\ UNCHANGED <<listVars, running, web>>

\* student add: the identity is looked up, made in a second transaction, and
\* enrolled in a third.
LookUp(c, active) ==
    OfStaff /\ Begin([op |-> "add", course |-> c, active |-> active, found |-> identity.state # "none"])

Ensure(call) ==
    /\ call.op = "add"
    /\ IF call.found THEN UNCHANGED <<identity, pin, unblocked>>
       ELSE /\ identity' = [state |-> "active", subject |-> "local"]
            /\ unblocked' = IF identity.state = "blocked" THEN Classes ELSE unblocked
            /\ pin' = IF identity.state # "none" /\ identity.subject # "local"
                      THEN [c \in Classes |-> 0] ELSE pin
    /\ calls' = (calls \ {call}) \cup {[op |-> "seat", course |-> call.course, active |-> call.active]}
    /\ UNCHANGED <<seat, memberVars, listVars, running, web, made, retired>>

Seat(call) ==
    /\ call.op = "seat"
    /\ Write(call.course, call.active, FALSE)
    /\ calls' = calls \ {call}
    /\ UNCHANGED <<listVars, running, web>>

\* set_student_active: ending it takes every credential, passwords included.
SetStudentActive(active) ==
    /\ identity.state # "none"
    /\ identity' = [identity EXCEPT !.state = IF active THEN "active" ELSE "blocked"]
    /\ pin' = IF active THEN pin ELSE [c \in Classes |-> 0]
    /\ unblocked' = IF active THEN Classes ELSE unblocked
    /\ UNCHANGED <<seat, memberVars, listVars, deskVars, made, retired>>

StartCourse(c) ==
    /\ c \notin running
    /\ running' = running \cup {c}
    /\ UNCHANGED <<rowVars, memberVars, listVars, calls, web, made, retired, unblocked>>

StudentNext ==
    \/ Register \/ LogIn \/ Reset
    \/ \E op \in {"enroll", "withdraw", "redeem", "change"} : Ask(op)
    \/ \E c \in Classes : LogInToCourse(c) \/ \E op \in {"setup", "adopt"} : AskAccount(op, c)
    \/ \E call \in calls :
          \/ Drop(call) \/ Redeem(call) \/ Change(call) \/ SetUp(call)
          \/ \E cs \in SUBSET Classes \ {{}} : Enroll(call, cs)
          \/ \E c \in Classes : Withdraw(call, c)

StaffNext ==
    \/ \E c \in Classes :
          \/ StartCourse(c)
          \/ \E purpose \in Purposes : Issue(purpose, c)
          \/ \E mode \in {"add", "replace"}, lists \in BOOLEAN : ReviewList(c, mode, lists)
          \/ \E active \in BOOLEAN :
                \/ Manage(c, active) \/ LookUp(c, active)
                \/ \E new \in BOOLEAN : Preview(c, active, new)
                \/ \E password \in {"none", "keep", "new"} : ReadRoster(c, active, password)
    \/ \E active \in BOOLEAN : SetStudentActive(active)
    \/ \E purpose \in Purposes : Lapse(purpose)
    \/ \E paper \in papers : ApplyReview(paper) \/ ApplyPreview(paper) \/ Discard(paper)
    \/ \E call \in calls : Import(call) \/ Ensure(call) \/ Seat(call)

MembershipNext == StudentNext \/ StaffNext
MembershipSpec == MembershipInit /\ [][MembershipNext]_membershipVars

----------------------------------------------------------------------------
(* Properties. *)

\* docs/operations/student-membership.md: exactly the students who are on the list
\* and have proved who they are get connected, in whatever order the list, the
\* request and the proof came; unless the staff cleared an obstacle afterwards.
MatchingIsExact ==
    \A c \in Classes :
        /\ request[c] = "matched" => account.verified /\ account.bound /\ seat[c] # "none"
        /\ request[c] = "pending" /\ c \in eligible => ~Matchable(account, c) \/ c \in unblocked

\* The same page: once a member changed a password, or recovered it, no earlier one
\* opens a course.
OldPasswordsAreDead ==
    \A c \in running : seat[c] = "active" => pin[c] \notin retired
=============================================================================
