------------------------------ MODULE MCCourses ------------------------------
(* The members of a course, and how a course is closed: small instances of   *)
(* Memberships and CourseClosure.  They share no variable, so a behaviour    *)
(* exercises one of them (`part`).                                           *)
EXTENDS Memberships, CourseClosure, TLC

VARIABLE part

courseVars == <<membershipVars, closureVars, part>>

----------------------------------------------------------------------------
(* Memberships.  One course that is still prepared or just started, with two *)
(* things open at a time (three when the staff's are only lists), or two     *)
(* running courses, one thing at a time, and a staff that keeps the lists.   *)
LiveWeb == {w \in DOMAIN web :
               web[w] # 0 /\ web[w] = IF w = Nowhere THEN account.hash ELSE pin[w]}
StaffCalls == {call \in calls : call.op \in {"import", "add", "seat"}}
Rosters == {paper \in papers : paper.kind = "roster"}
Work == Cardinality(papers) + Cardinality(calls)
Open == Work + Cardinality(LiveWeb) + Cardinality({p \in Purposes : code[p] # Nowhere})

OneClass == \E c \in Classes : \A d \in Classes \ {c} :
    seat[d] = "none" /\ request[d] = "none" /\ d \notin eligible \cup running

MemberFocus ==
    \/ OneClass /\ Open <= 1
    \/ OneClass /\ Open <= 2 /\ Cardinality(papers) + Cardinality(StaffCalls) <= 1 /\ made <= 2
    \/ OneClass /\ Open <= 3 /\ StaffCalls = {} /\ Rosters = {} /\ made <= 2
    \/ /\ running = Classes /\ LiveWeb \subseteq {Nowhere} /\ code["reset"] = Nowhere
       /\ Work <= 1 /\ StaffCalls = {} /\ Rosters = {} /\ made <= 2
       /\ identity.state # "blocked" /\ \A c \in Classes : seat[c] # "inactive"

\* A verifier matters by what it equals; a session or a request of an account
\* that is no longer what it was will be refused.
Kind(p) == CASE p = 0 -> "none" [] p # 0 /\ p = account.hash -> "member"
             [] p \in retired -> "old" [] OTHER -> "own"
OfMember(call) == call.op \in {"enroll", "withdraw", "redeem", "change"}
Seen(call) ==
    CASE OfMember(call) -> [op |-> call.op, account |-> [call.account EXCEPT !.hash = 0]]
      [] "pin" \in DOMAIN call -> [call EXCEPT !.pin = pin[call.course] = @]
      [] OTHER -> call
MemberView ==
    <<identity, seat, [c \in Classes |-> Kind(pin[c])], running, request, eligible, code, made,
      account.hash # 0, account.bound, account.verified, LiveWeb, unblocked,
      {Seen(call) : call \in {l \in calls : OfMember(l) => l.account.hash = account.hash}},
      {IF p.kind = "roster" THEN [p EXCEPT !.seen.pin = pin[p.course] = @] ELSE p : p \in papers}>>

----------------------------------------------------------------------------
(* CourseClosure: two courses that may share a bundle.                       *)
CONSTANTS c1, c2, m, k, b, a1, a2

AllOfOne == [f \in Materials \cup Checkpoints |-> c1]

\* Either the writers of files or the learning spaces meet the closing of a
\* course: the two share no state but the guards and the journal.  With spaces, a
\* crash or an activation meets one closing.
ClosureFocus ==
    \/ /\ learning = None /\ wire = {} /\ worker = 1 /\ spaces = {}
       /\ jobs <= 1 \/ uploads <= 1
    \/ uploads = 0 /\ (jobs <= 1 \/ (crashes = 0 /\ activating = {}))

----------------------------------------------------------------------------
Init == MembershipInit /\ ClosureInit /\ part \in {"members", "closure"}

Next ==
    \/ part = "members" /\ MembershipNext /\ UNCHANGED <<closureVars, part>>
    \/ part = "closure" /\ ClosureNext /\ UNCHANGED <<membershipVars, part>>

Spec == Init /\ [][Next]_courseVars

Focus == IF part = "members" THEN MemberFocus ELSE ClosureFocus
View == IF part = "members" THEN <<part, MemberView>> ELSE <<part, closureVars>>
Alike == Permutations(Classes) \cup Permutations(Administrators)
=============================================================================
