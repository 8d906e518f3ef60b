---------------------------- MODULE Courses_proofs ----------------------------
(***************************************************************************)
(* Proofs about the life of a course, in two parts that share no variable: *)
(* Memberships, for any courses and any number of requests, passwords,     *)
(* reviews and previews, and CourseClosure, for any courses, files and     *)
(* threads and any number of closings, uploads and crashes.                *)
(*                                                                         *)
(* Memberships: matching misses nobody and admits nobody else, and a       *)
(* password a member replaced opens no course.  Both rest on facts no      *)
(* single transaction states: an enrollment that is not active keeps no    *)
(* verifier, a course in preparation has no request and so never got the   *)
(* member's verifier, and an account that is bound to no identity gave its *)
(* verifier to no course.                                                  *)
(*                                                                         *)
(* CourseClosure: after the commit nothing brings a course back, files and *)
(* rows agree again once a closing is undone, and a finished closing left  *)
(* nothing.  The file system and the database agree because of who holds   *)
(* which lock (LocksHeld), because every folder that has not committed has *)
(* somebody who will settle it (Attended), and because the next closing of *)
(* a course waits for the cleanup of the last (NoCleanupLeft).             *)
(***************************************************************************)
EXTENDS Memberships, CourseClosure, TLAPS

(* Memberships.                                                            *)

MembershipTypes ==
    /\ made \in Nat
    /\ identity \in [state : {"none", "active", "blocked"}, subject : {"local", "member"}]
    /\ seat \in [Classes -> {"none", "active", "inactive"}]
    /\ pin \in [Classes -> 0 .. made]
    /\ account \in [hash : 0 .. made, bound : BOOLEAN, verified : BOOLEAN]
    /\ request \in [Classes -> {"none", "pending", "matched"}]
    /\ retired \subseteq 1 .. made
    /\ running \subseteq Classes

\* Where the verifiers of the account are, and were.
VerifiersApart ==
    /\ account.hash \notin retired
    /\ \A c \in Classes :
          /\ seat[c] # "active" => pin[c] = 0
          /\ pin[c] # 0 /\ (c \notin running \/ ~account.bound) =>
                pin[c] \notin retired \cup {account.hash}
          /\ pin[c] \notin retired

\* Requests are made for running courses only.
AskedWhileRunning == \A c \in Classes : request[c] # "none" => c \in running

\* An account is bound to an identity that exists.
BoundToSomebody == account.bound => identity.state # "none"

MembershipInv ==
    /\ MembershipTypes /\ VerifiersApart
    /\ AskedWhileRunning /\ BoundToSomebody /\ MatchingIsExact

-----------------------------------------------------------------------------

LEMMA MembershipInvInit == MembershipInit => MembershipInv
<1> SUFFICES ASSUME MembershipInit PROVE MembershipInv
  OBVIOUS
<1> USE DEF MembershipInit, NoIdentity, NoAccount
<1>1. MembershipTypes
  BY DEF MembershipTypes
<1>2. VerifiersApart
  BY DEF VerifiersApart
<1>3. AskedWhileRunning /\ BoundToSomebody
  BY DEF AskedWhileRunning, BoundToSomebody
<1>4. MatchingIsExact
  BY DEF MatchingIsExact
<1> QED
  BY <1>1, <1>2, <1>3, <1>4 DEF MembershipInv

\* What leaves the rows, the account and the lists alone: calls that begin or
\* end without a write, sessions, codes, papers, and the start of a course.
LEMMA QuietStep ==
    ASSUME MembershipInv,
           UNCHANGED <<rowVars, memberVars, eligible, made, retired, unblocked>>,
           running \subseteq running', running' \subseteq Classes
    PROVE  MembershipInv'
<1> USE DEF MembershipInv, rowVars, memberVars
<1>1. MembershipTypes'
  BY DEF MembershipTypes
<1>2. VerifiersApart'
  BY DEF VerifiersApart
<1>3. AskedWhileRunning' /\ BoundToSomebody'
  BY DEF AskedWhileRunning, BoundToSomebody
<1>4. MatchingIsExact'
  BY DEF MatchingIsExact, Matchable
<1> QED
  BY <1>1, <1>2, <1>3, <1>4

\* One run of the matching, over the requests, the account and the list as its
\* transaction has made them: whoever was proved in it (`acc`) is matched in
\* every course, and the requests and lists of other courses are as they were.
LEMMA MatchStep ==
    ASSUME MembershipInv,
           NEW cs \in SUBSET Classes, NEW acc, NEW asked, NEW listed,
           acc \in [hash : 0 .. made, bound : BOOLEAN, verified : BOOLEAN],
           acc.hash = account.hash, acc.bound = account.bound,
           account.verified => acc.verified,
           acc.verified # account.verified => cs = Classes,
           asked \in [Classes -> {"none", "pending", "matched"}],
           \A c \in Classes : asked[c] # "none" => c \in running,
           \A c \in Classes : asked[c] = "matched" <=> request[c] = "matched",
           \A c \in Classes \ cs : asked[c] = request[c] /\ (c \in listed <=> c \in eligible),
           Match(cs, acc, asked, listed), eligible' = listed,
           UNCHANGED <<running, made, retired>>
    PROVE  MembershipInv'
<1> DEFINE found == {c \in cs : asked[c] = "pending" /\ c \in listed /\ Matchable(acc, c)}
<1>1. /\ request' = [c \in Classes |-> IF c \in found THEN "matched" ELSE asked[c]]
      /\ seat' = [c \in Classes |-> IF c \in found THEN "active" ELSE seat[c]]
      /\ pin' = [c \in Classes |-> IF c \in found /\ pin[c] = 0 THEN acc.hash ELSE pin[c]]
      /\ account' = [acc EXCEPT !.bound = @ \/ found # {}]
      /\ identity' = IF found # {} /\ identity.state = "none"
                     THEN [state |-> "active", subject |-> "member"] ELSE identity
      /\ unblocked' = unblocked \ cs
  BY DEF Match
<1>2. /\ found \subseteq Classes
      /\ \A c \in found : c \in running /\ acc.verified /\ seat[c] # "inactive"
      /\ found # {} => \/ identity.state = "none" /\ ~acc.bound
                       \/ identity.state = "active" /\ acc.bound
  BY DEF Matchable
<1>3. /\ account'.hash = account.hash /\ account'.verified = acc.verified
      /\ account'.bound = (acc.bound \/ found # {})
      /\ account' \in [hash : 0 .. made, bound : BOOLEAN, verified : BOOLEAN]
  BY <1>1
<1>4. IF found # {} /\ identity.state = "none" THEN identity'.state = "active"
      ELSE identity' = identity
  BY <1>1
<1> HIDE DEF found
<1>5. MembershipTypes'
  BY <1>1, <1>3 DEF MembershipInv, MembershipTypes
<1>6. VerifiersApart'
  BY <1>1, <1>2, <1>3 DEF MembershipInv, MembershipTypes, VerifiersApart
<1>7. AskedWhileRunning'
  BY <1>1, <1>2 DEF MembershipInv, AskedWhileRunning
<1>8. BoundToSomebody'
  BY <1>2, <1>3, <1>4 DEF MembershipInv, MembershipTypes, BoundToSomebody
<1>9. MatchingIsExact'
  <2> SUFFICES ASSUME NEW c \in Classes
               PROVE  /\ request'[c] = "matched" =>
                            account'.verified /\ account'.bound /\ seat'[c] # "none"
                      /\ request'[c] = "pending" /\ c \in eligible' =>
                            ~Matchable(account, c)' \/ c \in unblocked'
    BY DEF MatchingIsExact
  <2>1. /\ request[c] = "matched" => account.verified /\ account.bound /\ seat[c] # "none"
        /\ request[c] = "pending" /\ c \in eligible => ~Matchable(account, c) \/ c \in unblocked
    BY DEF MembershipInv, MatchingIsExact
  <2>2. request'[c] = "matched" => account'.verified /\ account'.bound /\ seat'[c] # "none"
    BY <1>1, <1>2, <1>3, <2>1 DEF MembershipInv, MembershipTypes
  <2>3. ASSUME request'[c] = "pending", c \in eligible'
        PROVE  ~Matchable(account, c)' \/ c \in unblocked'
    <3>1. c \notin found /\ asked[c] = "pending" /\ c \in listed /\ seat'[c] = seat[c]
      BY <1>1, <2>3
    <3>2. ASSUME c \in cs PROVE ~Matchable(account, c)'
      <4>1. ~Matchable(acc, c)
        BY <3>1, <3>2 DEF found
      <4> QED
        BY <1>2, <1>3, <1>4, <3>1, <4>1 DEF Matchable
    <3>3. ASSUME c \notin cs PROVE ~Matchable(account, c)' \/ c \in unblocked'
      <4>1. acc.verified = account.verified
        BY <3>3
      <4>2. ~Matchable(account, c) \/ c \in unblocked
        BY <2>1, <3>1, <3>3
      <4> QED
        BY <1>1, <1>2, <1>3, <1>4, <3>1, <3>3, <4>1, <4>2 DEF Matchable
    <3> QED
      BY <3>2, <3>3
  <2> QED
    BY <2>2, <2>3
<1> QED
  BY <1>5, <1>6, <1>7, <1>8, <1>9 DEF MembershipInv

\* A new password of the account: what the session of the request holds is the
\* current verifier, so there is one to retire.
LEMMA ReplaceStep ==
    ASSUME MembershipInv, Replace, account.hash # 0
    PROVE  MembershipInv'
<1> USE DEF MembershipInv, Replace, MakeOne, NewVerifier
<1>1. /\ account'.hash = made + 1 /\ account'.bound = account.bound
      /\ account'.verified = account.verified
      /\ account' \in [hash : 0 .. made', bound : BOOLEAN, verified : BOOLEAN]
  BY DEF MembershipTypes
<1>2. \A c \in Classes :
         pin'[c] = IF account.bound /\ seat[c] = "active" /\ c \in running THEN made + 1 ELSE pin[c]
  BY DEF Synced, MembershipTypes
<1>3. MembershipTypes'
  <2>1. pin' \in [Classes -> 0 .. made']
    BY DEF Synced, MembershipTypes
  <2> QED
    BY <1>1, <2>1 DEF MembershipTypes
<1>4. VerifiersApart'
  BY <1>1, <1>2, <1>3 DEF MembershipTypes, VerifiersApart
<1>5. AskedWhileRunning' /\ BoundToSomebody'
  BY <1>1 DEF AskedWhileRunning, BoundToSomebody
<1>6. MatchingIsExact'
  BY <1>1 DEF MatchingIsExact, Matchable
<1> QED
  BY <1>3, <1>4, <1>5, <1>6

\* A personal password made from a session of one course.
LEMMA SetUpStep ==
    ASSUME MembershipInv, NEW call, SetUp(call)
    PROVE  MembershipInv'
<1> DEFINE owned == [hash |-> made + 1, bound |-> TRUE, verified |-> TRUE]
           found == {c \in Classes : request[c] = "pending" /\ c \in eligible /\ Matchable(owned, c)}
           pins == [c \in Classes |-> IF c \in found /\ pin[c] = 0 THEN made + 1 ELSE pin[c]]
<1>1. /\ ~account.bound /\ identity.state = "active"
      /\ made' = made + 1 /\ account' = owned
      /\ retired' = retired \cup ({account.hash} \ {0})
      /\ request' = [c \in Classes |-> IF c \in found THEN "matched" ELSE request[c]]
      /\ seat' = [c \in Classes |-> IF c \in found THEN "active" ELSE seat[c]]
      /\ unblocked' = {}
      /\ UNCHANGED <<identity, eligible, running>>
  BY DEF SetUp, MakeOne, NewVerifier, Enrolled, listVars
<1>2. \A c \in found : c \in Classes /\ request[c] = "pending" /\ seat[c] # "inactive"
  BY DEF Matchable
<1>3. pin' = pins \/ pin' = Synced(pins, seat', made + 1)
  BY DEF SetUp, MakeOne, NewVerifier
<1> HIDE DEF found
<1>4. pin' = [c \in Classes |-> pin'[c]]
  BY <1>3 DEF Synced
<1>5. \A c \in Classes :
         \/ pin'[c] = pin[c] /\ (c \in found => pin[c] # 0)
         \/ pin'[c] = made + 1 /\ seat'[c] = "active" /\ (c \in found \/ c \in running)
  BY <1>1, <1>3 DEF Synced
<1>6. MembershipTypes'
  <2>1. pin' \in [Classes -> 0 .. made']
    BY <1>1, <1>4, <1>5 DEF MembershipInv, MembershipTypes
  <2>2. /\ account' \in [hash : 0 .. made', bound : BOOLEAN, verified : BOOLEAN]
        /\ made' \in Nat
    BY <1>1 DEF MembershipInv, MembershipTypes
  <2>4. retired' \subseteq 1 .. made'
    <3>1. retired \subseteq 1 .. made /\ account.hash \in 0 .. made /\ made \in Nat
      BY DEF MembershipInv, MembershipTypes
    <3>2. retired' = retired \cup ({account.hash} \ {0}) /\ made' = made + 1
      BY <1>1
    <3>3. {account.hash} \ {0} \subseteq 1 .. made
      <4>1. \A h \in 0 .. made : h # 0 => h \in 1 .. made
        BY <3>1
      <4> QED
        BY <3>1, <4>1
    <3>4. 1 .. made \subseteq 1 .. (made + 1)
      BY <3>1
    <3> QED
      BY <3>1, <3>2, <3>3, <3>4
  <2>3. /\ request' \in [Classes -> {"none", "pending", "matched"}]
        /\ seat' \in [Classes -> {"none", "active", "inactive"}]
    BY <1>1 DEF MembershipInv, MembershipTypes
  <2> QED
    BY <1>1, <2>1, <2>2, <2>3, <2>4 DEF MembershipInv, MembershipTypes
<1>7. VerifiersApart'
  <2>1. \A c \in found : c \in running
    BY <1>2 DEF MembershipInv, AskedWhileRunning
  <2>2. account.hash \in 0 .. made /\ account'.hash = made + 1 /\ account'.bound
    BY <1>1 DEF MembershipInv, MembershipTypes
  <2> SUFFICES ASSUME NEW c \in Classes
               PROVE  /\ seat'[c] # "active" => pin'[c] = 0
                      /\ pin'[c] # 0 /\ (c \notin running' \/ ~account'.bound) =>
                            pin'[c] \notin retired' \cup {account'.hash}
                      /\ pin'[c] \notin retired'
    BY <1>1, <2>2 DEF VerifiersApart, MembershipInv, MembershipTypes
  <2>3. /\ pin[c] \in 0 .. made /\ made \in Nat /\ retired \subseteq 1 .. made
        /\ seat'[c] = IF c \in found THEN "active" ELSE seat[c]
    BY <1>1 DEF MembershipInv, MembershipTypes
  <2>4. /\ seat[c] # "active" => pin[c] = 0
        /\ pin[c] \notin retired
        /\ pin[c] # 0 => pin[c] \notin retired \cup {account.hash}
    BY <1>1 DEF MembershipInv, VerifiersApart
  <2>5. CASE pin'[c] = pin[c] /\ (c \in found => pin[c] # 0)
    BY <1>1, <2>2, <2>3, <2>4, <2>5
  <2>6. CASE pin'[c] = made + 1 /\ seat'[c] = "active" /\ (c \in found \/ c \in running)
    BY <1>1, <2>1, <2>2, <2>3, <2>6
  <2> QED
    BY <1>5, <2>5, <2>6
<1>8. AskedWhileRunning' /\ BoundToSomebody'
  BY <1>1, <1>2 DEF MembershipInv, AskedWhileRunning, BoundToSomebody
<1>9. MatchingIsExact'
  <2>1. \A c \in Classes :
           seat[c] = "none" /\ request[c] = "matched" => FALSE
    BY DEF MembershipInv, MatchingIsExact
  <2>2. \A c \in Classes \ found :
           request[c] = "pending" /\ c \in eligible => ~Matchable(owned, c)
    BY DEF found
  <2>3. \A c \in Classes \ found : Matchable(account, c)' <=> Matchable(owned, c)
    BY <1>1 DEF Matchable
  <2> QED
    BY <1>1, <2>1, <2>2, <2>3 DEF MatchingIsExact
<1> QED
  BY <1>6, <1>7, <1>8, <1>9 DEF MembershipInv

\* One row of an enrollment, written by a form, a roster or a command.
LEMMA WriteStep ==
    ASSUME MembershipInv, NEW c, NEW active, NEW new,
           Write(c, active, new), UNCHANGED <<eligible, running>>
    PROVE  MembershipInv'
<1>1. /\ made' \in {made, made + 1} /\ UNCHANGED <<account, request, retired>>
      /\ identity' = IF identity.state = "none" THEN [NoIdentity EXCEPT !.state = "active"] ELSE identity
      /\ seat' = [seat EXCEPT ![c] = IF active THEN "active" ELSE "inactive"]
      /\ unblocked' = IF active /\ seat[c] = "inactive" THEN unblocked \cup {c} ELSE unblocked
  BY DEF Write, memberVars, MakeOne, NewVerifier, Pass
<1>2. \/ pin' = [pin EXCEPT ![c] = 0] /\ ~active
      \/ pin' = [pin EXCEPT ![c] = made + 1] /\ made' = made + 1 /\ active
      \/ pin' = pin /\ active
  BY DEF Write, MakeOne, NewVerifier
<1>3. IF identity.state = "none" THEN identity'.state = "active" ELSE identity' = identity
  BY <1>1 DEF NoIdentity
<1>4. MembershipTypes'
  <2>1. pin' \in [Classes -> 0 .. made']
    BY <1>1, <1>2 DEF MembershipInv, MembershipTypes
  <2>2. /\ identity' \in [state : {"none", "active", "blocked"}, subject : {"local", "member"}]
        /\ seat' \in [Classes -> {"none", "active", "inactive"}]
    BY <1>1 DEF MembershipInv, MembershipTypes, NoIdentity
  <2>3. /\ account' \in [hash : 0 .. made', bound : BOOLEAN, verified : BOOLEAN]
        /\ retired' \subseteq 1 .. made' /\ made' \in Nat
    BY <1>1 DEF MembershipInv, MembershipTypes
  <2> QED
    BY <1>1, <2>1, <2>2, <2>3 DEF MembershipInv, MembershipTypes
<1>5. VerifiersApart'
  BY <1>1, <1>2 DEF MembershipInv, MembershipTypes, VerifiersApart
<1>6. AskedWhileRunning' /\ BoundToSomebody'
  BY <1>1, <1>3 DEF MembershipInv, AskedWhileRunning, BoundToSomebody
<1>7. MatchingIsExact'
  BY <1>1, <1>3 DEF MembershipInv, MembershipTypes, BoundToSomebody, MatchingIsExact, Matchable
<1> QED
  BY <1>4, <1>5, <1>6, <1>7 DEF MembershipInv

\* The staff makes, ends or revives the identity; all passwords go, or none.
LEMMA IdentityStep ==
    ASSUME MembershipInv,
           identity' \in [state : {"none", "active", "blocked"}, subject : {"local", "member"}],
           identity'.state = "none" => identity.state = "none",
           pin' = pin \/ pin' = [c \in Classes |-> 0],
           \/ identity'.state = "blocked"
           \/ identity' = identity /\ unblocked' = unblocked
           \/ identity.state = "none" /\ unblocked' = unblocked
           \/ identity'.state = identity.state /\ unblocked' = unblocked
           \/ unblocked' = Classes,
           UNCHANGED <<seat, account, request, eligible, running, made, retired>>
    PROVE  MembershipInv'
<1>1. MembershipTypes'
  BY DEF MembershipInv, MembershipTypes
<1>2. VerifiersApart'
  BY DEF MembershipInv, MembershipTypes, VerifiersApart
<1>3. AskedWhileRunning' /\ BoundToSomebody'
  BY DEF MembershipInv, AskedWhileRunning, BoundToSomebody
<1>4. MatchingIsExact'
  BY DEF MembershipInv, MembershipTypes, BoundToSomebody, MatchingIsExact, Matchable
<1> QED
  BY <1>1, <1>2, <1>3, <1>4 DEF MembershipInv

-----------------------------------------------------------------------------
(* One step per action. *)

LEMMA StudentStep ==
    ASSUME MembershipInv, StudentNext
    PROVE  MembershipInv'
<1> USE DEF rowVars, memberVars, listVars, deskVars
<1>r. running \subseteq Classes
  BY DEF MembershipInv, MembershipTypes
<1>a. account \in [hash : 0 .. made, bound : BOOLEAN, verified : BOOLEAN]
  BY DEF MembershipInv, MembershipTypes
<1>1. CASE Register
  <2>1. /\ account = [hash |-> 0, bound |-> FALSE, verified |-> FALSE]
        /\ account' = [hash |-> made + 1, bound |-> FALSE, verified |-> FALSE]
        /\ made' = made + 1
        /\ UNCHANGED <<identity, seat, pin, request, eligible, running, retired, unblocked>>
    BY <1>1 DEF Register, NoAccount, MakeOne, NewVerifier
  <2>2. MembershipTypes'
    BY <2>1 DEF MembershipInv, MembershipTypes
  <2>3. VerifiersApart'
    BY <2>1 DEF MembershipInv, MembershipTypes, VerifiersApart
  <2>4. AskedWhileRunning' /\ BoundToSomebody'
    BY <2>1 DEF MembershipInv, AskedWhileRunning, BoundToSomebody
  <2>5. MatchingIsExact'
    BY <2>1 DEF MembershipInv, MatchingIsExact, Matchable
  <2> QED
    BY <2>2, <2>3, <2>4, <2>5 DEF MembershipInv
<1>2. CASE LogIn
  BY <1>2, <1>r, QuietStep DEF LogIn
<1>3. CASE Reset
  BY <1>3, ReplaceStep DEF Reset, Usable
<1>4. ASSUME NEW op, Ask(op) PROVE MembershipInv'
  BY <1>4, <1>r, QuietStep DEF Ask, Begin
<1>5. ASSUME NEW c \in Classes, LogInToCourse(c) PROVE MembershipInv'
  BY <1>5, <1>r, QuietStep DEF LogInToCourse
<1>6. ASSUME NEW op, NEW c \in Classes, AskAccount(op, c) PROVE MembershipInv'
  BY <1>6, <1>r, QuietStep DEF AskAccount, Begin
<1>7. ASSUME NEW call, Drop(call) PROVE MembershipInv'
  BY <1>7, <1>r, QuietStep DEF Drop
<1>8. ASSUME NEW call, Redeem(call) PROVE MembershipInv'
  <2>1. /\ Match(Classes, [account EXCEPT !.verified = TRUE], request, eligible)
        /\ UNCHANGED <<eligible, running, made, retired>>
    BY <1>8 DEF Redeem
  <2>2. /\ [account EXCEPT !.verified = TRUE] \in [hash : 0 .. made, bound : BOOLEAN, verified : BOOLEAN]
        /\ [account EXCEPT !.verified = TRUE].hash = account.hash
        /\ [account EXCEPT !.verified = TRUE].bound = account.bound
        /\ [account EXCEPT !.verified = TRUE].verified
    BY <1>a
  <2>3. /\ request \in [Classes -> {"none", "pending", "matched"}]
        /\ \A c \in Classes : request[c] # "none" => c \in running
    BY DEF MembershipInv, MembershipTypes, AskedWhileRunning
  <2> QED
    BY <2>1, <2>2, <2>3, MatchStep
<1>9. ASSUME NEW call, Change(call) PROVE MembershipInv'
  BY <1>9, ReplaceStep DEF Change, Current, Usable
<1>10. ASSUME NEW call, SetUp(call) PROVE MembershipInv'
  BY <1>10, SetUpStep
<1>11. ASSUME NEW call, NEW cs \in SUBSET Classes \ {{}}, Enroll(call, cs) PROVE MembershipInv'
  <2> DEFINE asked == [c \in Classes |-> IF c \in cs /\ request[c] = "none"
                                          THEN "pending" ELSE request[c]]
  <2>1. /\ Match(cs, account, asked, eligible) /\ cs \subseteq running
        /\ UNCHANGED <<eligible, running, made, retired>>
    BY <1>11 DEF Enroll
  <2>2. /\ asked \in [Classes -> {"none", "pending", "matched"}]
        /\ \A c \in Classes : asked[c] # "none" => c \in running
        /\ \A c \in Classes : asked[c] = "matched" <=> request[c] = "matched"
        /\ \A c \in Classes \ cs : asked[c] = request[c]
    BY <2>1 DEF MembershipInv, MembershipTypes, AskedWhileRunning
  <2> HIDE DEF asked
  <2> QED
    BY <1>a, <2>1, <2>2, MatchStep
<1>12. ASSUME NEW call, NEW c \in Classes, Withdraw(call, c) PROVE MembershipInv'
  <2>1. /\ request' = [request EXCEPT ![c] = "none"]
        /\ UNCHANGED <<identity, seat, pin, account, eligible, running, made, retired, unblocked>>
    BY <1>12 DEF Withdraw
  <2>2. MembershipTypes'
    BY <2>1 DEF MembershipInv, MembershipTypes
  <2>3. VerifiersApart'
    BY <2>1 DEF MembershipInv, VerifiersApart
  <2>4. AskedWhileRunning' /\ BoundToSomebody'
    BY <2>1 DEF MembershipInv, MembershipTypes, AskedWhileRunning, BoundToSomebody
  <2>5. MatchingIsExact'
    BY <2>1 DEF MembershipInv, MembershipTypes, MatchingIsExact, Matchable
  <2> QED
    BY <2>2, <2>3, <2>4, <2>5 DEF MembershipInv
<1> QED
  BY <1>1, <1>2, <1>3, <1>4, <1>5, <1>6, <1>7, <1>8, <1>9, <1>10, <1>11, <1>12 DEF StudentNext

LEMMA StaffStep ==
    ASSUME MembershipInv, StaffNext
    PROVE  MembershipInv'
<1> USE DEF rowVars, memberVars, listVars, deskVars
<1>r. running \subseteq Classes
  BY DEF MembershipInv, MembershipTypes
<1>1. ASSUME NEW c \in Classes, StartCourse(c) PROVE MembershipInv'
  BY <1>1, <1>r, QuietStep DEF StartCourse
<1>2. ASSUME NEW c, NEW purpose, Issue(purpose, c) PROVE MembershipInv'
  BY <1>2, <1>r, QuietStep DEF Issue
<1>3. ASSUME NEW c, NEW mode, NEW lists, ReviewList(c, mode, lists) PROVE MembershipInv'
  BY <1>3, <1>r, QuietStep DEF ReviewList, File
<1>4. ASSUME NEW c, NEW active \in BOOLEAN, Manage(c, active) PROVE MembershipInv'
  BY <1>4, WriteStep DEF Manage
<1>5. ASSUME NEW c, NEW active, LookUp(c, active) PROVE MembershipInv'
  BY <1>5, <1>r, QuietStep DEF LookUp, Begin
<1>6. ASSUME NEW c, NEW active, NEW new, Preview(c, active, new) PROVE MembershipInv'
  BY <1>6, <1>r, QuietStep DEF Preview, File
<1>7. ASSUME NEW c, NEW active, NEW password, ReadRoster(c, active, password) PROVE MembershipInv'
  BY <1>7, <1>r, QuietStep DEF ReadRoster, Begin
<1>8. ASSUME NEW active \in BOOLEAN, SetStudentActive(active) PROVE MembershipInv'
  <2>1. /\ identity' = [identity EXCEPT !.state = IF active THEN "active" ELSE "blocked"]
        /\ pin' = pin \/ pin' = [c \in Classes |-> 0]
        /\ active => unblocked' = Classes
        /\ UNCHANGED <<seat, account, request, eligible, running, made, retired>>
    BY <1>8 DEF SetStudentActive
  <2>2. /\ identity' \in [state : {"none", "active", "blocked"}, subject : {"local", "member"}]
        /\ identity'.state = IF active THEN "active" ELSE "blocked"
    BY <2>1 DEF MembershipInv, MembershipTypes
  <2> QED
    BY <2>1, <2>2, IdentityStep
<1>9. ASSUME NEW purpose, Lapse(purpose) PROVE MembershipInv'
  BY <1>9, <1>r, QuietStep DEF Lapse
<1>10. ASSUME NEW paper, ApplyReview(paper) PROVE MembershipInv'
  <2> DEFINE c == paper.course
             listed == IF paper.lists THEN eligible \cup {c}
                       ELSE IF paper.mode = "replace" THEN eligible \ {c} ELSE eligible
  <2>1. /\ c \in running /\ eligible' = listed
        /\ Match({c}, account, request, listed)
        /\ UNCHANGED <<running, made, retired>>
    BY <1>10 DEF ApplyReview
  <2>2. /\ {c} \in SUBSET Classes
        /\ \A d \in Classes \ {c} : d \in listed <=> d \in eligible
    BY <1>r, <2>1
  <2>3. /\ request \in [Classes -> {"none", "pending", "matched"}]
        /\ \A d \in Classes : request[d] # "none" => d \in running
        /\ account \in [hash : 0 .. made, bound : BOOLEAN, verified : BOOLEAN]
    BY DEF MembershipInv, MembershipTypes, AskedWhileRunning
  <2> HIDE DEF c, listed
  <2> QED
    BY <2>1, <2>2, <2>3, MatchStep
<1>11. ASSUME NEW paper, ApplyPreview(paper) PROVE MembershipInv'
  BY <1>11, WriteStep DEF ApplyPreview
<1>12. ASSUME NEW paper, Discard(paper) PROVE MembershipInv'
  BY <1>12, <1>r, QuietStep DEF Discard
<1>13. ASSUME NEW call, Import(call) PROVE MembershipInv'
  BY <1>13, WriteStep DEF Import
<1>14. ASSUME NEW call, Ensure(call) PROVE MembershipInv'
  <2>1. /\ \/ identity' = identity /\ pin' = pin /\ unblocked' = unblocked
           \/ /\ identity' = [state |-> "active", subject |-> "local"]
              /\ unblocked' = IF identity.state = "blocked" THEN Classes ELSE unblocked
              /\ pin' = pin \/ pin' = [c \in Classes |-> 0]
        /\ UNCHANGED <<seat, account, request, eligible, running, made, retired>>
    BY <1>14 DEF Ensure
  <2>2. identity \in [state : {"none", "active", "blocked"}, subject : {"local", "member"}]
    BY DEF MembershipInv, MembershipTypes
  <2> QED
    BY <2>1, <2>2, IdentityStep
<1>15. ASSUME NEW call, Seat(call) PROVE MembershipInv'
  BY <1>15, WriteStep DEF Seat
<1> QED
  BY <1>1, <1>2, <1>3, <1>4, <1>5, <1>6, <1>7, <1>8, <1>9, <1>10, <1>11, <1>12, <1>13,
     <1>14, <1>15 DEF StaffNext

-----------------------------------------------------------------------------

\* The inductive invariant, in every state of every behaviour.
THEOREM MembershipInvAlways == MembershipSpec => []MembershipInv
<1>1. MembershipInv /\ UNCHANGED membershipVars => MembershipInv'
  BY QuietStep DEF membershipVars, deskVars, rowVars, memberVars, listVars, MembershipInv, MembershipTypes
<1>2. MembershipInv /\ [MembershipNext]_membershipVars => MembershipInv'
  BY <1>1, StudentStep, StaffStep DEF MembershipNext
<1> QED
  BY <1>2, MembershipInvInit, PTL DEF MembershipSpec

\* In whatever order the list, the request, the proof of identity and the work of
\* the staff come, a student who is on the list and has proved who they are is
\* connected, and nobody else (StudentRegistration._match_course and its callers).
THEOREM StudentsAreMatched == MembershipSpec => []MatchingIsExact
<1>1. MembershipInv => MatchingIsExact
  BY DEF MembershipInv
<1> QED
  BY <1>1, MembershipInvAlways, PTL

\* No verifier the member replaced opens an enrollment of a running course
\* (_replace_password, register with a credential, _sync_course_passwords).
THEOREM ReplacedPasswordsAreDead == MembershipSpec => []OldPasswordsAreDead
<1>1. MembershipInv => OldPasswordsAreDead
  BY DEF MembershipInv, MembershipTypes, VerifiersApart, OldPasswordsAreDead
<1> QED
  BY <1>1, MembershipInvAlways, PTL

-----------------------------------------------------------------------------
(* CourseClosure.                                                          *)

Phases == {"reviewed", "moving", "undoing", "remote", "purging", "recording"}
Closing == [at : Phases, course : Courses, purpose : Closings, job : Jobs, plan : SUBSET Files,
            context : Workers \cup {None}, guarded : BOOLEAN, failed : BOOLEAN, retried : BOOLEAN]
Uploading == [at : {"stored"}, course : Courses, file : Files]

ClosureTypes ==
    /\ status \in [Courses -> {"preparation", "active", "archived", "gone"}]
    /\ rows \subseteq Courses \X Files
    /\ files \subseteq Files
    /\ folders \in [Jobs -> Manifests \cup {None}]
    /\ archives \in [Courses -> JournalRows \cup {None}]
    /\ deletions \in [Courses -> JournalRows \cup {None}]
    /\ marked \subseteq Courses
    /\ worker \in Workers
    /\ closing \in [Administrators -> Closing \cup {Idle}]
    /\ upload \in [Uploaders -> Uploading \cup {Idle}]
    /\ server \in {"up", "down", "files", "journals"}
    /\ todo \subseteq Closings \X Courses
    /\ occupied \subseteq Jobs
    /\ jobs \in 0 .. MaxJobs

\* Who excludes whom: one transaction writes, an archive is alone with the
\* course files, and a guarded course has one closer and no saver.
Writes(a) == closing[a].at \in {"reviewed", "moving"}
LocksHeld ==
    /\ \A a \in Administrators :
          /\ Writes(a) => /\ \A o \in Administrators : Writes(o) => o = a
                          /\ \A u \in Uploaders : upload[u].at = "stored" => upload[u].file \notin Materials
          /\ Archives(a) => /\ \A o \in Administrators : Archives(o) => o = a
                            /\ \A o \in Administrators, c \in Courses : Clears(o, c) => o = a
                            /\ \A u \in Uploaders : upload[u].at = "stored" => upload[u].file \in Materials
          /\ \A c \in Courses : Clears(a, c) =>
                 /\ \A o \in Administrators : Clears(o, c) => o = a
                 /\ NobodySaves(c)

\* A job that has not committed: no journal knows it, and its number is its own.
Unknown(j) == \A c \in Courses : /\ archives[c] # None => archives[c].job # j
                                 /\ deletions[c] # None => deletions[c].job # j
Reversible(a) == closing[a].at \in {"reviewed", "moving", "undoing"}

\* The folder of a job is the one its thread filled.
Filled(op) == /\ op.guarded
              /\ folders[op.job].course = op.course /\ folders[op.job].purpose = op.purpose

\* What a thread may rely on at its step.
OpSound(a) ==
    LET op == closing[a]  c == op.course IN
    /\ op.job <= jobs
    /\ op.retried => op.purpose = "privacy_archive"
    /\ Reversible(a) =>
          /\ Unknown(op.job)
          /\ \A o \in Administrators : Reversible(o) /\ closing[o].job = op.job => o = a
          /\ folders[op.job] # None => Filled(op)
    /\ op.at = "reviewed" => folders[op.job] = None /\ ~op.guarded
    /\ Writes(a) => /\ status[c] # "gone"
                    /\ op.purpose = "privacy_archive" => archives[c] = None
                    /\ op.purpose = "deletion" => NoCleanupLeft(c)
    /\ op.at = "moving" =>
          /\ folders[op.job] # None /\ folders[op.job].staged \subseteq op.plan
          /\ Owned(c) \subseteq op.plan
          /\ \A f \in op.plan \ Bundles : CourseOf[f] = c
          /\ op.purpose = "deletion" => op.plan \cap Bundles = {}
          /\ \A f \in op.plan \cap Bundles, d \in Courses \ {c} : <<d, f>> \notin rows
    /\ op.at \in {"remote", "purging", "recording"} =>
          LET entry == Journal(op.purpose)[c] IN
          entry # None /\ entry.job = op.job /\ entry.context = op.context
    /\ op.at \in {"purging", "recording"} /\ ~op.failed => <<op.context, c>> \in fence
    /\ op.at = "recording" /\ ~op.failed => folders[op.job] = None

OpsSound == \A a \in Administrators : closing[a] # Idle => OpSound(a)

\* A journal row: its course is closed, its folder was filled for it, and
\* complete means cleaned.
Accounted(c, entry, purpose) ==
    /\ entry.job <= jobs
    /\ folders[entry.job] # None => folders[entry.job].purpose = purpose
    /\ entry.status = "complete" => folders[entry.job] = None /\ <<entry.context, c>> \in fence
JournalsSound == \A c \in Courses :
    /\ archives[c] # None => status[c] = "archived" /\ Accounted(c, archives[c], "privacy_archive")
    /\ deletions[c] # None => /\ status[c] = "gone" /\ archives[c] = None
                              /\ Accounted(c, deletions[c], "deletion")

\* A folder holds files of its course; until its job commits a thread, a
\* start-up or an excuse stands for it, and its course is still open.
Attended(j) == \/ j \in occupied \/ server \in {"down", "files"}
               \/ \E a \in Administrators : Reversible(a) /\ closing[a].job = j
FoldersSound == \A j \in Jobs :
    /\ j > jobs => folders[j] = None
    /\ folders[j] # None =>
          /\ \A f \in folders[j].staged \ Bundles : CourseOf[f] = folders[j].course
          /\ ~Committed(j) =>
                /\ Attended(j)
                /\ occupied = {} /\ folders[j].staged \ Bundles # {} => ~CourseIsClosed(folders[j].course)

\* A closed course has no file of its own.
ClosedIsEmpty == occupied = {} => \A c \in Courses : CourseIsClosed(c) => Owned(c) = {}

\* Every row's file is in its place or in a folder that will be put back.
Staged(f) == \E j \in Jobs : folders[j] # None /\ f \in folders[j].staged /\ ~Committed(j)
RowsSound == \A r \in rows :
    /\ r[2] \in files \/ Staged(r[2])
    /\ r[2] \notin Checkpoints
    /\ r[2] \in Materials => CourseOf[r[2]] = r[1]

UploadSound(u) ==
    LET c == upload[u].course  f == upload[u].file IN
    /\ f \notin Bundles => CourseOf[f] = c /\ ~CourseIsClosed(c)
    /\ f \notin Checkpoints => f \in files
UploadsSound == \A u \in Uploaders : upload[u] # Idle => UploadSound(u)

\* While the server is not up no thread runs, and the folders are settled first.
StartUp ==
    /\ server # "up" => /\ closing = [a \in Administrators |-> Idle]
                        /\ upload = [u \in Uploaders |-> Idle]
    /\ server = "journals" => \A j \in Jobs : folders[j] = None
    /\ server # "journals" => todo = {}
    /\ \A w \in todo : Journal(w[1])[w[2]] # None

\* A fence is final.
FenceHolds == fence \cap spaces = {}

ClosureInv ==
    /\ ClosureTypes /\ LocksHeld /\ OpsSound /\ JournalsSound /\ FoldersSound
    /\ ClosedIsEmpty /\ RowsSound /\ UploadsSound /\ StartUp /\ FenceHolds

-----------------------------------------------------------------------------
(* What a step may change and leave a part of the invariant alone.         *)

\* The journals name the same jobs, whatever became of their status.
SameJournals == \A c \in Courses :
    /\ archives'[c] = None <=> archives[c] = None
    /\ deletions'[c] = None <=> deletions[c] = None
    /\ archives[c] # None => /\ archives'[c].job = archives[c].job
                             /\ archives'[c].context = archives[c].context
    /\ deletions[c] # None => /\ deletions'[c].job = deletions[c].job
                              /\ deletions'[c].context = deletions[c].context

\* No folder appears, and one that remains has the same manifest.
FoldersFade == \A j \in Jobs :
    \/ folders'[j] = None
    \/ /\ folders[j] # None
       /\ folders'[j].course = folders[j].course /\ folders'[j].purpose = folders[j].purpose
       /\ folders'[j].staged \subseteq folders[j].staged

LocksFade ==
    /\ \A a \in Administrators : /\ Writes(a)' => Writes(a)
                                 /\ Archives(a)' => Archives(a)
                                 /\ \A c \in Courses : Clears(a, c)' => Clears(a, c)
    /\ \A u \in Uploaders : upload'[u].at # "idle" => upload'[u] = upload[u]

LEMMA SameJournalsUnchanged == UNCHANGED <<archives, deletions>> => SameJournals
BY DEF SameJournals

LEMMA FoldersFadeUnchanged == UNCHANGED folders => FoldersFade
BY DEF FoldersFade

LEMMA LocksKept == ASSUME LocksHeld, LocksFade PROVE LocksHeld'
<1> USE DEF LocksHeld, LocksFade
<1> SUFFICES ASSUME NEW a \in Administrators
             PROVE  (/\ Writes(a) => /\ \A o \in Administrators : Writes(o) => o = a
                                     /\ \A u \in Uploaders : upload[u].at = "stored" => upload[u].file \notin Materials
                     /\ Archives(a) => /\ \A o \in Administrators : Archives(o) => o = a
                                       /\ \A o \in Administrators, c \in Courses : Clears(o, c) => o = a
                                       /\ \A u \in Uploaders : upload[u].at = "stored" => upload[u].file \in Materials
                     /\ \A c \in Courses : Clears(a, c) =>
                            /\ \A o \in Administrators : Clears(o, c) => o = a
                            /\ NobodySaves(c))'
  OBVIOUS
<1>1. (Writes(a) => /\ \A o \in Administrators : Writes(o) => o = a
                    /\ \A u \in Uploaders : upload[u].at = "stored" => upload[u].file \notin Materials)'
  OBVIOUS
<1>2. (Archives(a) => /\ \A o \in Administrators : Archives(o) => o = a
                      /\ \A o \in Administrators, c \in Courses : Clears(o, c) => o = a
                      /\ \A u \in Uploaders : upload[u].at = "stored" => upload[u].file \in Materials)'
  OBVIOUS
<1>3. (\A c \in Courses : Clears(a, c) =>
          /\ \A o \in Administrators : Clears(o, c) => o = a
          /\ NobodySaves(c))'
  BY DEF NobodySaves, Saves
<1> QED
  BY <1>1, <1>2, <1>3

LEMMA UnknownKept ==
    ASSUME SameJournals, NEW j PROVE Unknown(j)' <=> Unknown(j)
BY DEF SameJournals, Unknown

LEMMA ClosedKept ==
    ASSUME SameJournals, NEW c \in Courses PROVE CourseIsClosed(c)' <=> CourseIsClosed(c)
BY DEF SameJournals, CourseIsClosed

LEMMA CommittedKept ==
    ASSUME SameJournals, NEW j \in Jobs, folders'[j].purpose = folders[j].purpose
    PROVE  Committed(j)' <=> Committed(j)
BY DEF SameJournals, Committed, Journal

LEMMA OpKept ==
    ASSUME SameJournals, FoldersFade, NEW o \in Administrators,
           closing[o] \in Closing, closing'[o] = closing[o], OpSound(o),
           jobs \in Nat, jobs' \in Nat, jobs <= jobs', fence \subseteq fence',
           Writes(o) => /\ status'[closing[o].course] # "gone"
                        /\ NoCleanupLeft(closing[o].course) => NoCleanupLeft(closing[o].course)',
           \A a \in Administrators : Reversible(a)' =>
               \/ Reversible(a) /\ closing'[a].job = closing[a].job
               \/ closing'[a].job # closing[o].job,
           closing[o].at = "moving" =>
               /\ folders'[closing[o].job] = folders[closing[o].job]
               /\ Owned(closing[o].course)' \subseteq closing[o].plan
               /\ \A f \in Bundles, d \in Courses : <<d, f>> \in rows' => <<d, f>> \in rows
    PROVE  OpSound(o)'
<1>a. PICK op : op = closing[o]
  OBVIOUS
<1>b. op = closing'[o] /\ op \in Closing
  BY <1>a
<1>c. op.job \in Jobs /\ op.course \in Courses /\ op.at \in Phases /\ op.job \in Nat
  BY <1>b, ClosureAssumption DEF Closing, Jobs
<1>1. op.job <= jobs /\ op.job <= jobs' /\ (op.retried => op.purpose = "privacy_archive")
  BY <1>a, <1>c DEF OpSound
<1>2. Reversible(o) <=> Reversible(o)'
  BY DEF Reversible
<1>3. Reversible(o) => Unknown(op.job)'
  BY <1>a, UnknownKept DEF OpSound
<1>4. Reversible(o) => \A a \in Administrators : Reversible(a)' /\ closing'[a].job = op.job => a = o
  BY <1>a DEF OpSound
<1>5. Reversible(o) => (folders'[op.job] # None => Filled(op)')
  BY <1>a, <1>c DEF OpSound, Filled, FoldersFade
<1>6. op.at = "reviewed" => folders'[op.job] = None /\ ~op.guarded
  BY <1>a, <1>c DEF OpSound, FoldersFade
<1>7. Writes(o) => /\ status'[op.course] # "gone"
                   /\ op.purpose = "privacy_archive" => archives'[op.course] = None
                   /\ op.purpose = "deletion" => NoCleanupLeft(op.course)'
  BY <1>a, <1>c DEF OpSound, SameJournals
<1>8. op.at = "moving" =>
          /\ folders'[op.job] # None /\ folders'[op.job].staged \subseteq op.plan
          /\ Owned(op.course)' \subseteq op.plan
          /\ \A f \in op.plan \ Bundles : CourseOf[f] = op.course
          /\ op.purpose = "deletion" => op.plan \cap Bundles = {}
          /\ \A f \in op.plan \cap Bundles, d \in Courses \ {op.course} : <<d, f>> \notin rows'
  BY <1>a, <1>c DEF OpSound
<1>9. op.at \in {"remote", "purging", "recording"} =>
          /\ Journal(op.purpose)'[op.course] # None
          /\ Journal(op.purpose)'[op.course].job = op.job
          /\ Journal(op.purpose)'[op.course].context = op.context
  BY <1>a, <1>c DEF OpSound, Journal, SameJournals
<1>10. op.at \in {"purging", "recording"} /\ ~op.failed => <<op.context, op.course>> \in fence'
  BY <1>a DEF OpSound
<1>11. op.at = "recording" /\ ~op.failed => folders'[op.job] = None
  BY <1>a, <1>c DEF OpSound, FoldersFade
<1>12. Writes(o) <=> Writes(o)'
  BY DEF Writes
<1> QED
  BY <1>b, <1>1, <1>2, <1>3, <1>4, <1>5, <1>6, <1>7, <1>8, <1>9, <1>10, <1>11, <1>12
  DEF OpSound, Journal

LEMMA JournalsKept ==
    ASSUME JournalsSound, ClosureTypes, UNCHANGED <<archives, deletions>>, FoldersFade,
           jobs' \in Nat, jobs <= jobs', fence \subseteq fence',
           \A c \in Courses : CourseIsClosed(c) => status'[c] = status[c]
    PROVE  JournalsSound'
<1> SUFFICES ASSUME NEW c \in Courses
             PROVE  (/\ archives[c] # None => status[c] = "archived" /\ Accounted(c, archives[c], "privacy_archive")
                     /\ deletions[c] # None => /\ status[c] = "gone" /\ archives[c] = None
                                               /\ Accounted(c, deletions[c], "deletion"))'
  BY DEF JournalsSound
<1>1. ASSUME NEW entry \in JournalRows, NEW purpose, Accounted(c, entry, purpose)
      PROVE  Accounted(c, entry, purpose)'
  <2>1. entry.job \in Jobs /\ entry.job \in Nat
    BY ClosureAssumption DEF JournalRows, Jobs
  <2> QED
    BY <1>1, <2>1, ClosureAssumption DEF Accounted, FoldersFade, ClosureTypes
<1>2. archives[c] # None => status'[c] = "archived" /\ Accounted(c, archives[c], "privacy_archive")'
  BY <1>1 DEF JournalsSound, ClosureTypes, CourseIsClosed
<1>3. deletions[c] # None => /\ status'[c] = "gone" /\ archives[c] = None
                             /\ Accounted(c, deletions[c], "deletion")'
  BY <1>1 DEF JournalsSound, ClosureTypes, CourseIsClosed
<1> QED
  BY <1>2, <1>3

LEMMA FoldersKept ==
    ASSUME FoldersSound, ClosureTypes, SameJournals, FoldersFade,
           jobs' \in Nat, jobs <= jobs', occupied \subseteq occupied',
           \A j \in Jobs : Attended(j) /\ folders'[j] # None => Attended(j)'
    PROVE  FoldersSound'
<1> SUFFICES ASSUME NEW j \in Jobs
             PROVE  (/\ j > jobs => folders[j] = None
                     /\ folders[j] # None =>
                           /\ \A f \in folders[j].staged \ Bundles : CourseOf[f] = folders[j].course
                           /\ ~Committed(j) =>
                                 /\ Attended(j)
                                 /\ occupied = {} /\ folders[j].staged \ Bundles # {} =>
                                        ~CourseIsClosed(folders[j].course))'
  BY DEF FoldersSound
<1>0. j \in Nat /\ jobs \in Nat
  BY ClosureAssumption DEF Jobs, ClosureTypes
<1>1. (j > jobs => folders[j] = None)'
  BY <1>0 DEF FoldersSound, FoldersFade
<1> SUFFICES ASSUME folders'[j] # None
             PROVE  (/\ \A f \in folders[j].staged \ Bundles : CourseOf[f] = folders[j].course
                     /\ ~Committed(j) =>
                           /\ Attended(j)
                           /\ occupied = {} /\ folders[j].staged \ Bundles # {} =>
                                  ~CourseIsClosed(folders[j].course))'
  BY <1>1
<1>2. /\ folders[j] # None
      /\ folders'[j].course = folders[j].course /\ folders'[j].purpose = folders[j].purpose
      /\ folders'[j].staged \subseteq folders[j].staged
  BY DEF FoldersFade
<1>3. PICK d : d = folders[j].course
  OBVIOUS
<1>4. d \in Courses /\ d = folders'[j].course
  BY <1>2, <1>3 DEF ClosureTypes, Manifests
<1>5. Committed(j)' <=> Committed(j)
  BY <1>2, CommittedKept
<1>6. CourseIsClosed(d)' <=> CourseIsClosed(d)
  BY <1>4, ClosedKept
<1>7. (\A f \in folders[j].staged \ Bundles : CourseOf[f] = folders[j].course)'
  BY <1>2 DEF FoldersSound
<1>8. ~Committed(j)' => Attended(j)'
  BY <1>2, <1>5 DEF FoldersSound
<1>9. ASSUME ~Committed(j)', occupied' = {}, folders'[j].staged \ Bundles # {}
      PROVE  ~CourseIsClosed(d)'
  <2>1. folders[j].staged \ Bundles # {} /\ occupied = {}
    BY <1>2, <1>9
  <2> QED
    BY <1>2, <1>3, <1>5, <1>6, <1>9, <2>1 DEF FoldersSound
<1> QED
  BY <1>4, <1>7, <1>8, <1>9 DEF CourseIsClosed

LEMMA RowsKept ==
    ASSUME RowsSound, ClosureTypes, rows' \subseteq rows,
           \A r \in rows' : r[2] \in files \/ Staged(r[2]) => r[2] \in files' \/ Staged(r[2])'
    PROVE  RowsSound'
BY DEF RowsSound, ClosureTypes

LEMMA StagedKept ==
    ASSUME SameJournals, UNCHANGED folders, NEW f PROVE Staged(f)' <=> Staged(f)
BY CommittedKept DEF Staged

LEMMA UploadsKept ==
    ASSUME UploadsSound, ClosureTypes, SameJournals, files \subseteq files',
           \A u \in Uploaders : upload'[u] = upload[u] \/ upload'[u] = Idle
    PROVE  UploadsSound'
<1> SUFFICES ASSUME NEW u \in Uploaders, upload'[u] # Idle PROVE UploadSound(u)'
  BY DEF UploadsSound
<1>1. upload'[u] = upload[u] /\ upload[u].course \in Courses /\ UploadSound(u)
  BY DEF UploadsSound, ClosureTypes, Uploading
<1>2. CourseIsClosed(upload[u].course)' <=> CourseIsClosed(upload[u].course)
  BY <1>1, ClosedKept
<1> QED
  BY <1>1, <1>2 DEF UploadSound, CourseIsClosed

LEMMA ClosedIsEmptyKept ==
    ASSUME ClosedIsEmpty, SameJournals, occupied \subseteq occupied', files' \subseteq files
    PROVE  ClosedIsEmpty'
BY ClosedKept DEF ClosedIsEmpty, Owned

-----------------------------------------------------------------------------

LEMMA ClosureInvInit == ClosureInit => ClosureInv
<1> SUFFICES ASSUME ClosureInit PROVE ClosureInv
  OBVIOUS
<1> USE DEF ClosureInit
<1>1. ClosureTypes
  BY ClosureAssumption DEF ClosureTypes, Workers
<1>2. LocksHeld
  BY DEF LocksHeld, Writes, Archives, Clears, NobodySaves, Saves, Idle
<1>3. OpsSound /\ UploadsSound
  BY DEF OpsSound, UploadsSound
<1>4. JournalsSound /\ ClosedIsEmpty
  BY DEF JournalsSound, ClosedIsEmpty, CourseIsClosed
<1>5. FoldersSound
  BY DEF FoldersSound
<1>6. RowsSound
  BY DEF RowsSound
<1>7. StartUp
  BY DEF StartUp
<1>8. FenceHolds
  BY DEF FenceHolds
<1> QED
  BY <1>1, <1>2, <1>3, <1>4, <1>5, <1>6, <1>7, <1>8 DEF ClosureInv

\* What threads, files and rows do not see: requests for learning spaces, the
\* worker that answers them, and the first check of an activation.
LEMMA UnseenStep ==
    ASSUME ClosureInv, UNCHANGED <<dbVars, fileVars, serverVars, closing, upload, countVars>>,
           worker' \in Workers, fence \subseteq fence', fence' \cap spaces' = {}
    PROVE  ClosureInv'
<1> USE DEF ClosureInv, dbVars, fileVars, serverVars, countVars
<1>0. SameJournals /\ FoldersFade /\ jobs \in Nat
  BY SameJournalsUnchanged, FoldersFadeUnchanged, ClosureAssumption DEF ClosureTypes
<1>1. ClosureTypes'
  BY DEF ClosureTypes
<1>2. LocksHeld'
  BY DEF LocksHeld, Writes, Archives, Clears, NobodySaves, Saves
<1>3. OpsSound'
  <2> SUFFICES ASSUME NEW a \in Administrators, closing[a] # Idle PROVE OpSound(a)'
    BY DEF OpsSound
  <2>1. OpSound(a)
    BY DEF OpsSound
  <2>2. closing[a] \in Closing
    BY DEF ClosureTypes
  <2>3. closing[a].at = "moving" => Owned(closing[a].course)' \subseteq closing[a].plan
    BY <2>1 DEF OpSound, Owned
  <2>4. Writes(a) => status[closing[a].course] # "gone"
    BY <2>1 DEF OpSound
  <2>5. NoCleanupLeft(closing[a].course) => NoCleanupLeft(closing[a].course)'
    BY DEF NoCleanupLeft
  <2> QED
    BY <1>0, <2>1, <2>2, <2>3, <2>4, <2>5, OpKept DEF Reversible
<1>4. JournalsSound'
  BY <1>0, JournalsKept
<1>5. FoldersSound'
  BY <1>0, FoldersKept DEF Attended, Reversible
<1>6. ClosedIsEmpty'
  BY <1>0, ClosedIsEmptyKept
<1>7. RowsSound'
  BY <1>0, RowsKept, StagedKept
<1>8. UploadsSound'
  BY <1>0, UploadsKept
<1>9. StartUp' /\ FenceHolds'
  BY DEF StartUp, FenceHolds, Journal
<1> QED
  BY <1>1, <1>2, <1>3, <1>4, <1>5, <1>6, <1>7, <1>8, <1>9

LEMMA LearningSteps ==
    ASSUME ClosureInv,
           \/ \E c \in Courses : AskSpace(c) \/ CheckActivation(c)
           \/ \E s \in wire : CreateSpace(s)
           \/ EndSpace \/ ReplaceWorker
    PROVE  ClosureInv'
<1> USE DEF ClosureInv
<1>0. fence \cap spaces = {} /\ worker \in Workers
  BY DEF FenceHolds, ClosureTypes
<1>1. CASE \E c \in Courses : AskSpace(c) \/ CheckActivation(c)
  BY <1>0, <1>1, UnseenStep DEF AskSpace, CheckActivation, workerVars
<1>2. CASE \E s \in wire : CreateSpace(s)
  BY <1>0, <1>2, UnseenStep DEF CreateSpace, Admits
<1>3. CASE EndSpace
  BY <1>0, <1>3, UnseenStep DEF EndSpace
<1>4. CASE ReplaceWorker
  BY <1>0, <1>4, UnseenStep, ClosureAssumption DEF ReplaceWorker, Workers
<1> QED
  BY <1>1, <1>2, <1>3, <1>4

-----------------------------------------------------------------------------
(* Threads that end, and the start-up around them.                         *)

LEMMA EndingStep ==
    ASSUME ClosureInv, UNCHANGED <<dbVars, files, folders, fence, spaces, worker, jobs>>,
           marked' \subseteq Courses, occupied \subseteq occupied', occupied' \subseteq Jobs,
           closing' \in [Administrators -> Closing \cup {Idle}],
           \A a \in Administrators : closing'[a] = closing[a] \/ closing'[a] = Idle,
           upload' \in [Uploaders -> Uploading \cup {Idle}],
           \A u \in Uploaders : upload'[u] = upload[u] \/ upload'[u] = Idle,
           server' \in {"up", "down", "files", "journals"}, todo' \subseteq Closings \X Courses,
           StartUp',
           \A j \in Jobs : Attended(j) /\ folders[j] # None /\ ~Committed(j) => Attended(j)'
    PROVE  ClosureInv'
<1> USE DEF ClosureInv, dbVars
<1>0. SameJournals /\ FoldersFade /\ jobs \in Nat
  BY SameJournalsUnchanged, FoldersFadeUnchanged, ClosureAssumption DEF ClosureTypes
<1>1. ClosureTypes'
  BY DEF ClosureTypes
<1>2. \A a \in Administrators : Reversible(a)' => Reversible(a) /\ closing'[a] = closing[a]
  BY DEF Reversible, Idle
<1>3. LocksHeld'
  <2>1. LocksFade
    BY DEF LocksFade, Writes, Archives, Clears, Idle
  <2> QED
    BY <2>1, LocksKept
<1>4. OpsSound'
  <2> SUFFICES ASSUME NEW a \in Administrators, closing'[a] # Idle PROVE OpSound(a)'
    BY DEF OpsSound
  <2>1. OpSound(a) /\ closing'[a] = closing[a] /\ closing[a] \in Closing
    BY DEF OpsSound, ClosureTypes
  <2>2. closing[a].at = "moving" => Owned(closing[a].course)' \subseteq closing[a].plan
    BY <2>1 DEF OpSound, Owned
  <2>3. Writes(a) => status[closing[a].course] # "gone"
    BY <2>1 DEF OpSound
  <2>4. NoCleanupLeft(closing[a].course) => NoCleanupLeft(closing[a].course)'
    BY <2>1 DEF NoCleanupLeft
  <2> QED
    BY <1>0, <1>2, <2>1, <2>2, <2>3, <2>4, OpKept
<1>5. JournalsSound'
  BY <1>0, JournalsKept
<1>6. FoldersSound'
  <2> SUFFICES ASSUME NEW j \in Jobs, folders[j] # None
               PROVE  (/\ \A f \in folders[j].staged \ Bundles : CourseOf[f] = folders[j].course
                       /\ ~Committed(j) =>
                             /\ Attended(j)
                             /\ occupied = {} /\ folders[j].staged \ Bundles # {} =>
                                    ~CourseIsClosed(folders[j].course))'
    BY DEF FoldersSound
  <2>1. Committed(j)' <=> Committed(j)
    BY <1>0, CommittedKept
  <2>2. (\A f \in folders[j].staged \ Bundles : CourseOf[f] = folders[j].course)'
    BY DEF FoldersSound
  <2>3. ~Committed(j)' => Attended(j)'
    BY <2>1 DEF FoldersSound
  <2>4. ~Committed(j)' /\ occupied' = {} /\ folders'[j].staged \ Bundles # {} =>
           ~CourseIsClosed(folders[j].course)'
    <3>1. occupied' = {} => occupied = {}
      OBVIOUS
    <3> QED
      BY <2>1, <3>1 DEF FoldersSound, CourseIsClosed
  <2> QED
    BY <2>2, <2>3, <2>4
<1>7. ClosedIsEmpty'
  BY <1>0, ClosedIsEmptyKept
<1>8. RowsSound'
  BY <1>0, RowsKept, StagedKept
<1>9. UploadsSound'
  BY <1>0, UploadsKept
<1>10. FenceHolds'
  BY DEF FenceHolds
<1> QED
  BY <1>1, <1>3, <1>4, <1>5, <1>6, <1>7, <1>8, <1>9, <1>10

LEMMA FailUploadStep ==
    ASSUME ClosureInv, NEW u \in Uploaders, FailUpload(u) PROVE ClosureInv'
<1> USE DEF FailUpload, ClosureInv, fileVars, workerVars, countVars, serverVars
<1>1. closing' \in [Administrators -> Closing \cup {Idle}] /\ occupied \subseteq Jobs
  BY DEF ClosureTypes
<1>2. upload' \in [Uploaders -> Uploading \cup {Idle}]
  BY DEF ClosureTypes
<1>3. \A w \in Uploaders : upload'[w] = upload[w] \/ upload'[w] = Idle
  BY DEF ClosureTypes
<1>4. StartUp'
  BY DEF StartUp, Journal, dbVars
<1>5. \A j \in Jobs : Attended(j) => Attended(j)'
  BY DEF Attended, Reversible
<1>6. /\ marked' \subseteq Courses /\ todo' \subseteq Closings \X Courses
      /\ server' \in {"up", "down", "files", "journals"}
  BY DEF ClosureTypes
<1> QED
  BY <1>1, <1>2, <1>3, <1>4, <1>5, <1>6, EndingStep

LEMMA ServerSteps ==
    ASSUME ClosureInv, Crash \/ Start \/ Serve PROVE ClosureInv'
<1> USE DEF ClosureInv, fileVars, workerVars, countVars
<1>1. /\ UNCHANGED <<dbVars, files, folders, fence, spaces, worker, jobs>>
      /\ marked' \subseteq Courses /\ occupied' = occupied /\ occupied \subseteq Jobs
  BY DEF Crash, Start, Serve, ClosureTypes
<1>2. /\ closing' \in [Administrators -> Closing \cup {Idle}]
      /\ upload' \in [Uploaders -> Uploading \cup {Idle}]
      /\ \A a \in Administrators : closing'[a] = closing[a] \/ closing'[a] = Idle
      /\ \A u \in Uploaders : upload'[u] = upload[u] \/ upload'[u] = Idle
  BY DEF Crash, Start, Serve, ClosureTypes
<1>3. /\ todo' \subseteq Closings \X Courses
      /\ server' \in {"up", "down", "files", "journals"}
  BY DEF Crash, Start, Serve, ClosureTypes
<1>4. StartUp'
  BY DEF Crash, Start, Serve, StartUp, Journal, dbVars
<1>5. \A j \in Jobs : Attended(j) /\ folders[j] # None => Attended(j)'
  BY DEF Crash, Start, Serve, StartUp, Attended, Reversible, Idle
<1> QED
  BY <1>1, <1>2, <1>3, <1>4, <1>5, EndingStep

-----------------------------------------------------------------------------
(* A thread that closes a course goes on, and touches no file or row.      *)

LEMMA ClosingStep ==
    ASSUME ClosureInv, NEW a \in Administrators, NEW op \in Closing,
           UNCHANGED <<dbVars, fileVars, upload, serverVars, worker>>, server = "up",
           closing' = [closing EXCEPT ![a] = op],
           jobs' \in 0 .. MaxJobs, jobs <= jobs', fence \subseteq fence', FenceHolds',
           LocksHeld', OpSound(a)',
           Reversible(a)' => (Reversible(a) /\ op.job = closing[a].job) \/ op.job > jobs,
           Reversible(a) /\ folders[closing[a].job] # None => Reversible(a)' /\ op.job = closing[a].job
    PROVE  ClosureInv'
<1> USE DEF ClosureInv, dbVars, fileVars, serverVars
<1>0. SameJournals /\ FoldersFade /\ jobs \in Nat /\ jobs' \in Nat
  BY SameJournalsUnchanged, FoldersFadeUnchanged, ClosureAssumption DEF ClosureTypes
<1>1. ClosureTypes'
  BY DEF ClosureTypes
<1>2. closing'[a] = op /\ \A o \in Administrators \ {a} : closing'[o] = closing[o]
  BY DEF ClosureTypes
<1>3. OpsSound'
  <2> SUFFICES ASSUME NEW o \in Administrators \ {a}, closing[o] # Idle PROVE OpSound(o)'
    BY <1>2 DEF OpsSound
  <2>1. OpSound(o) /\ closing[o] \in Closing /\ closing'[o] = closing[o]
    BY <1>2 DEF OpsSound, ClosureTypes
  <2>2. closing[o].at = "moving" => Owned(closing[o].course)' \subseteq closing[o].plan
    BY <2>1 DEF OpSound, Owned
  <2>3. Writes(o) => status[closing[o].course] # "gone"
    BY <2>1 DEF OpSound
  <2>4. NoCleanupLeft(closing[o].course) => NoCleanupLeft(closing[o].course)'
    BY <2>1 DEF NoCleanupLeft
  <2>5. closing[o].job <= jobs /\ closing[o].job \in Nat /\ op.job \in Nat
    BY <2>1, ClosureAssumption DEF OpSound, Closing, Jobs
  <2>6. \A x \in Administrators : Reversible(x)' =>
           \/ Reversible(x) /\ closing'[x].job = closing[x].job
           \/ closing'[x].job # closing[o].job
    BY <1>0, <1>2, <2>5 DEF Reversible
  <2> QED
    BY <1>0, <2>1, <2>2, <2>3, <2>4, <2>6, OpKept
<1>4. JournalsSound'
  BY <1>0, JournalsKept
<1>5. FoldersSound'
  <2>1. \A j \in Jobs : Attended(j) /\ folders'[j] # None => Attended(j)'
    BY <1>2 DEF Attended, Reversible
  <2> QED
    BY <1>0, <2>1, FoldersKept
<1>6. ClosedIsEmpty'
  BY <1>0, ClosedIsEmptyKept
<1>7. RowsSound'
  BY <1>0, RowsKept, StagedKept
<1>8. UploadsSound'
  BY <1>0, UploadsKept
<1>9. StartUp'
  BY DEF StartUp
<1> QED
  BY <1>1, <1>3, <1>4, <1>5, <1>6, <1>7, <1>8, <1>9

LEMMA JournalJobs ==
    ASSUME ClosureTypes, JournalsSound, NEW c \in Courses
    PROVE  /\ archives[c] # None => /\ archives[c] \in JournalRows /\ archives[c].job \in Jobs
                                    /\ archives[c].job \in Nat /\ archives[c].job <= jobs
           /\ deletions[c] # None => /\ deletions[c] \in JournalRows /\ deletions[c].job \in Jobs
                                     /\ deletions[c].job \in Nat /\ deletions[c].job <= jobs
<1>1. archives[c] # None => archives[c] \in JournalRows /\ archives[c].job <= jobs
  BY DEF ClosureTypes, JournalsSound, Accounted
<1>2. deletions[c] # None => deletions[c] \in JournalRows /\ deletions[c].job <= jobs
  BY DEF ClosureTypes, JournalsSound, Accounted
<1>3. \A row \in JournalRows : row.job \in Jobs /\ row.job \in Nat
  BY ClosureAssumption DEF JournalRows, Jobs
<1> QED
  BY <1>1, <1>2, <1>3

LEMMA AbortStep ==
    ASSUME ClosureInv, NEW a \in Administrators, Abort(a) PROVE ClosureInv'
<1> USE DEF ClosureInv, Abort
<1>a. PICK op : op = [closing[a] EXCEPT !.at = "undoing"]
  OBVIOUS
<1>1. closing[a] \in Closing /\ OpSound(a)
  BY DEF ClosureTypes, OpsSound, Idle
<1>2. /\ op \in Closing /\ op.at = "undoing" /\ closing' = [closing EXCEPT ![a] = op]
      /\ op.job = closing[a].job /\ op.course = closing[a].course
      /\ op.purpose = closing[a].purpose /\ op.guarded = closing[a].guarded
      /\ op.retried = closing[a].retried
  BY <1>a, <1>1 DEF Closing, Phases
<1>3. closing'[a] = op /\ \A o \in Administrators \ {a} : closing'[o] = closing[o]
  BY <1>2 DEF ClosureTypes
<1>4. Reversible(a) /\ Reversible(a)'
  BY <1>2, <1>3 DEF Reversible
<1>5. /\ UNCHANGED <<dbVars, fileVars, upload, serverVars, worker, fence, spaces, jobs>>
      /\ server = "up" /\ jobs \in 0 .. MaxJobs /\ jobs <= jobs'
  BY ClosureAssumption DEF workerVars, countVars, ClosureTypes
<1>6. LocksHeld'
  <2>1. LocksFade
    BY <1>1, <1>2, <1>3, <1>5 DEF LocksFade, Writes, Archives, Clears, OpSound
  <2> QED
    BY <2>1, LocksKept
<1>7. OpSound(a)'
  <2>1. Unknown(op.job)'
    BY <1>1, <1>2, <1>4, <1>5 DEF OpSound, Unknown, dbVars
  <2>2. \A o \in Administrators : Reversible(o)' /\ closing'[o].job = op.job => o = a
    BY <1>1, <1>2, <1>3, <1>4 DEF OpSound, Reversible
  <2>3. folders'[op.job] # None => Filled(op)'
    BY <1>1, <1>2, <1>4, <1>5 DEF OpSound, Filled, fileVars
  <2>4. op.job <= jobs' /\ (op.retried => op.purpose = "privacy_archive")
    BY <1>1, <1>2, <1>5 DEF OpSound
  <2> QED
    BY <1>2, <1>3, <2>1, <2>2, <2>3, <2>4 DEF OpSound, Writes
<1>8. FenceHolds'
  BY <1>5 DEF FenceHolds
<1> QED
  BY <1>2, <1>3, <1>4, <1>5, <1>6, <1>7, <1>8, ClosingStep

\* A review takes the write lock, and the privacy guard alone if it archives.
LEMMA ReviewStep ==
    ASSUME ClosureInv, NEW a \in Administrators, NEW c \in Courses, NEW p \in Closings,
           NEW x \in {worker, None}, Review(a, c, p, x)
    PROVE  ClosureInv'
<1> USE DEF ClosureInv, Review
<1>a. PICK op : op = [at |-> "reviewed", course |-> c, purpose |-> p, job |-> jobs + 1,
                      plan |-> Planned(p, c), context |-> x, guarded |-> FALSE,
                      failed |-> FALSE, retried |-> FALSE]
  OBVIOUS
<1>0. jobs \in Nat /\ jobs + 1 \in Jobs /\ jobs' = jobs + 1 /\ jobs' \in 0 .. MaxJobs /\ jobs <= jobs'
  BY ClosureAssumption DEF ClosureTypes, Jobs
<1>1. op \in Closing /\ closing' = [closing EXCEPT ![a] = op]
  <2>1. Planned(p, c) \subseteq Files
    BY DEF Planned, Owned, Unreferenced, ClosureTypes
  <2>2. x \in Workers \cup {None}
    BY DEF ClosureTypes
  <2> QED
    BY <1>a, <1>0, <2>1, <2>2 DEF Closing, Phases
<1>2. closing'[a] = op /\ \A o \in Administrators \ {a} : closing'[o] = closing[o]
  BY <1>1 DEF ClosureTypes
<1>3. UNCHANGED <<dbVars, fileVars, upload, serverVars, worker, fence, spaces>> /\ server = "up"
  BY DEF workerVars
<1>4. LocksHeld'
  <2>1. \A o \in Administrators : (Writes(o)' => o = a) /\ ~Writes(o)
    BY <1>2 DEF Writes, WriteLocked
  <2>2. \A u \in Uploaders : upload[u].at = "stored" => upload[u].file \notin Materials
    BY DEF WriteLocked
  <2>3. \A o \in Administrators, d \in Courses : Clears(o, d)' => Clears(o, d) /\ o # a
    BY <1>a, <1>2 DEF Clears
  <2>4. \A o \in Administrators \ {a} : Archives(o)' => Archives(o)
    BY <1>2 DEF Archives
  <2>5. Archives(a)' =>
           /\ \A o \in Administrators : ~Archives(o)
           /\ \A o \in Administrators, d \in Courses : ~Clears(o, d)
           /\ \A u \in Uploaders : upload[u].at = "stored" => upload[u].file \in Materials
    BY <1>a, <1>2 DEF Archives, PrivacyAlone, Shares
  <2>6. \A o \in Administrators, d \in Courses : Clears(o, d) => NobodySaves(d)'
    BY <1>3 DEF LocksHeld, NobodySaves, Saves
  <2>7. ~Clears(a, c)
    BY DEF Clears, Idle
  <2>8. ASSUME NEW o \in Administrators
        PROVE  (/\ Writes(o) => /\ \A q \in Administrators : Writes(q) => q = o
                                /\ \A u \in Uploaders : upload[u].at = "stored" => upload[u].file \notin Materials
                /\ Archives(o) => /\ \A q \in Administrators : Archives(q) => q = o
                                  /\ \A q \in Administrators, d \in Courses : Clears(q, d) => q = o
                                  /\ \A u \in Uploaders : upload[u].at = "stored" => upload[u].file \in Materials
                /\ \A d \in Courses : Clears(o, d) =>
                       /\ \A q \in Administrators : Clears(q, d) => q = o
                       /\ NobodySaves(d))'
    <3>1. (Writes(o) => /\ \A q \in Administrators : Writes(q) => q = o
                        /\ \A u \in Uploaders : upload[u].at = "stored" => upload[u].file \notin Materials)'
      BY <1>3, <2>1, <2>2
    <3>2. (Archives(o) => /\ \A q \in Administrators : Archives(q) => q = o
                          /\ \A q \in Administrators, d \in Courses : Clears(q, d) => q = o
                          /\ \A u \in Uploaders : upload[u].at = "stored" => upload[u].file \in Materials)'
      <4>1. CASE o = a
        BY <1>3, <2>3, <2>4, <2>5, <4>1
      <4>2. CASE o # a
        BY <1>3, <2>3, <2>4, <2>5, <4>2 DEF LocksHeld
      <4> QED
        BY <4>1, <4>2
    <3>3. (\A d \in Courses : Clears(o, d) =>
               /\ \A q \in Administrators : Clears(q, d) => q = o
               /\ NobodySaves(d))'
      BY <2>3, <2>6 DEF LocksHeld
    <3> QED
      BY <3>1, <3>2, <3>3
  <2> QED
    BY <2>8 DEF LocksHeld
<1>5. OpSound(a)'
  <2>1. Unknown(op.job)'
    <3> SUFFICES ASSUME NEW d \in Courses
                 PROVE  /\ archives[d] # None => archives[d].job # jobs + 1
                        /\ deletions[d] # None => deletions[d].job # jobs + 1
      BY <1>a, <1>3 DEF Unknown, dbVars
    <3>1. archives[d] # None => archives[d].job \in Nat /\ archives[d].job <= jobs
      BY JournalJobs
    <3>2. deletions[d] # None => deletions[d].job \in Nat /\ deletions[d].job <= jobs
      BY JournalJobs
    <3> QED
      BY <1>0, <3>1, <3>2
  <2>2. \A o \in Administrators : Reversible(o)' /\ closing'[o].job = op.job => o = a
    <3> SUFFICES ASSUME NEW o \in Administrators \ {a}, Reversible(o) PROVE closing[o].job # jobs + 1
      BY <1>a, <1>2 DEF Reversible
    <3>1. closing[o] \in Closing /\ OpSound(o)
      BY DEF Reversible, ClosureTypes, OpsSound, Idle
    <3>2. closing[o].job <= jobs /\ closing[o].job \in Nat
      BY <3>1, ClosureAssumption DEF OpSound, Closing, Jobs
    <3> QED
      BY <1>0, <3>2
  <2>3. folders'[op.job] = None
    BY <1>0, <1>a, <1>3 DEF FoldersSound, fileVars
  <2>4. op.job <= jobs'
    BY <1>0, <1>a
  <2>5. /\ status'[c] # "gone"
        /\ p = "privacy_archive" => archives'[c] = None
        /\ p = "deletion" => NoCleanupLeft(c)'
    BY <1>3 DEF dbVars, NoCleanupLeft
  <2> QED
    BY <1>a, <1>2, <2>1, <2>2, <2>3, <2>4, <2>5 DEF OpSound
<1>6. FenceHolds'
  BY <1>3 DEF FenceHolds
<1>7. op.job > jobs /\ ~Reversible(a)
  BY <1>0, <1>a DEF Reversible, Idle
<1> QED
  BY <1>0, <1>1, <1>3, <1>4, <1>5, <1>6, <1>7, ClosingStep

LEMMA RetryArchiveStep ==
    ASSUME ClosureInv, NEW a \in Administrators, NEW c \in Courses, RetryArchive(a, c)
    PROVE  ClosureInv'
<1> USE DEF ClosureInv, RetryArchive
<1>a. PICK op : op = [at |-> "remote", course |-> c, purpose |-> "privacy_archive",
                      job |-> archives[c].job, plan |-> {}, context |-> archives[c].context,
                      guarded |-> FALSE, failed |-> FALSE, retried |-> TRUE]
  OBVIOUS
<1>0. jobs \in Nat /\ jobs' = jobs + 1 /\ jobs' \in 0 .. MaxJobs /\ jobs <= jobs'
  BY ClosureAssumption DEF ClosureTypes, Jobs
<1>1. op \in Closing /\ closing' = [closing EXCEPT ![a] = op]
  BY <1>a DEF Closing, Closings, Phases, ClosureTypes, JournalRows
<1>2. closing'[a] = op /\ \A o \in Administrators \ {a} : closing'[o] = closing[o]
  BY <1>1 DEF ClosureTypes
<1>3. UNCHANGED <<dbVars, fileVars, upload, serverVars, worker, fence, spaces>> /\ server = "up"
  BY DEF workerVars
<1>4. LocksHeld'
  <2>1. \A o \in Administrators : Writes(o)' => Writes(o)
    BY <1>a, <1>2 DEF Writes
  <2>3. \A o \in Administrators, d \in Courses : ~Clears(o, d)'
    BY <1>a, <1>2 DEF Clears, Shares
  <2>4. \A o \in Administrators : Archives(o)' => o = a
    BY <1>2 DEF Archives, PrivacyAlone
  <2>5. \A u \in Uploaders : upload[u].at = "stored" => upload[u].file \in Materials
    BY DEF Shares
  <2> QED
    BY <1>3, <2>1, <2>3, <2>4, <2>5 DEF LocksHeld
<1>5. OpSound(a)'
  <2>1. archives[c].job \in Nat /\ archives[c].job <= jobs
    BY JournalJobs
  <2>2. op.job <= jobs'
    BY <1>0, <1>a, <2>1
  <2>3. Journal(op.purpose)'[c] # None /\ Journal(op.purpose)'[c].job = op.job
        /\ Journal(op.purpose)'[c].context = op.context
    BY <1>a, <1>3 DEF Journal, dbVars
  <2> QED
    BY <1>a, <1>2, <2>2, <2>3 DEF OpSound, Writes, Reversible
<1>6. FenceHolds'
  BY <1>3 DEF FenceHolds
<1>7. ~Reversible(a) /\ ~Reversible(a)'
  BY <1>a, <1>2 DEF Reversible, Idle
<1> QED
  BY <1>0, <1>1, <1>3, <1>4, <1>5, <1>6, <1>7, ClosingStep

\* The worker forgets the course, or the failure is remembered.
LEMMA CancelRemoteStep ==
    ASSUME ClosureInv, NEW a \in Administrators, CancelRemote(a) PROVE ClosureInv'
<1> USE DEF ClosureInv, CancelRemote
<1>1. closing[a] \in Closing /\ OpSound(a) /\ closing[a].at = "remote"
  BY DEF ClosureTypes, OpsSound, Idle
<1>a. PICK op \in Closing :
          /\ op.at = "purging" /\ closing' = [closing EXCEPT ![a] = op]
          /\ op.job = closing[a].job /\ op.course = closing[a].course
          /\ op.purpose = closing[a].purpose /\ op.guarded = closing[a].guarded
          /\ op.retried = closing[a].retried /\ op.context = closing[a].context
          /\ ~op.failed => MayCancel(op.context) /\ Cancelled(op.course)
  <2>1. CASE /\ MayCancel(closing[a].context) /\ Cancelled(closing[a].course)
             /\ closing' = [closing EXCEPT ![a].at = "purging"]
    <3>1. PICK op : op = [closing[a] EXCEPT !.at = "purging"]
      OBVIOUS
    <3>2. op \in Closing /\ op.at = "purging" /\ closing' = [closing EXCEPT ![a] = op]
      BY <1>1, <2>1, <3>1 DEF Closing, Phases
    <3>3. /\ op.job = closing[a].job /\ op.course = closing[a].course
          /\ op.purpose = closing[a].purpose /\ op.guarded = closing[a].guarded
          /\ op.retried = closing[a].retried /\ op.context = closing[a].context
      BY <1>1, <3>1 DEF Closing
    <3> QED
      BY <2>1, <3>2, <3>3
  <2>2. CASE closing' = [closing EXCEPT ![a].at = "purging", ![a].failed = TRUE]
    <3>1. PICK op : op = [closing[a] EXCEPT !.at = "purging", !.failed = TRUE]
      OBVIOUS
    <3>2. op \in Closing /\ op.at = "purging" /\ op.failed /\ closing' = [closing EXCEPT ![a] = op]
      BY <1>1, <2>2, <3>1 DEF Closing, Phases
    <3>3. /\ op.job = closing[a].job /\ op.course = closing[a].course
          /\ op.purpose = closing[a].purpose /\ op.guarded = closing[a].guarded
          /\ op.retried = closing[a].retried /\ op.context = closing[a].context
      BY <1>1, <3>1 DEF Closing
    <3> QED
      BY <3>2, <3>3
  <2> QED
    BY <2>1, <2>2
<1>2. closing'[a] = op /\ \A o \in Administrators \ {a} : closing'[o] = closing[o]
  BY <1>a DEF ClosureTypes
<1>3. UNCHANGED <<dbVars, fileVars, upload, serverVars, worker, jobs>> /\ server = "up"
  BY DEF workerVars, countVars, Cancelled
<1>4. jobs \in 0 .. MaxJobs /\ jobs <= jobs' /\ fence \subseteq fence' /\ FenceHolds'
  BY <1>3, ClosureAssumption DEF ClosureTypes, workerVars, Cancelled, FenceHolds
<1>5. LocksHeld'
  <2>1. LocksFade
    BY <1>1, <1>a, <1>2, <1>3 DEF LocksFade, Writes, Archives, Clears
  <2> QED
    BY <2>1, LocksKept
<1>6. OpSound(a)'
  <2>1. op.job <= jobs' /\ (op.retried => op.purpose = "privacy_archive")
    BY <1>1, <1>a, <1>3 DEF OpSound
  <2>2. /\ Journal(op.purpose)'[op.course] # None
        /\ Journal(op.purpose)'[op.course].job = op.job
        /\ Journal(op.purpose)'[op.course].context = op.context
    BY <1>1, <1>a, <1>3 DEF OpSound, Journal, dbVars
  <2>3. ~op.failed => <<op.context, op.course>> \in fence'
    BY <1>a DEF MayCancel, Cancelled
  <2> QED
    BY <1>a, <1>2, <2>1, <2>2, <2>3 DEF OpSound, Writes, Reversible
<1>7. ~Reversible(a) /\ ~Reversible(a)'
  BY <1>1, <1>a, <1>2 DEF Reversible
<1> QED
  BY <1>a, <1>3, <1>4, <1>5, <1>6, <1>7, ClosingStep

\* The cleanup of the files ends; what remains is remembered as a failure.
LEMMA PurgeEnds ==
    ASSUME ClosureInv, NEW a \in Administrators, server = "up", closing[a].at = "purging",
           NEW work \in {Jobs, {closing[a].job}},
           closing' = [closing EXCEPT ![a].at = "recording", ![a].failed = @ \/ ~Gone(work)],
           UNCHANGED <<dbVars, fileVars, workerVars, serverVars, upload, countVars>>
    PROVE  ClosureInv'
<1> USE DEF ClosureInv
<1>1. closing[a] \in Closing /\ OpSound(a)
  BY DEF ClosureTypes, OpsSound, Idle
<1>a. PICK op : op = [closing[a] EXCEPT !.at = "recording", !.failed = @ \/ ~Gone(work)]
  OBVIOUS
<1>2. /\ op \in Closing /\ op.at = "recording" /\ closing' = [closing EXCEPT ![a] = op]
      /\ op.job = closing[a].job /\ op.course = closing[a].course
      /\ op.purpose = closing[a].purpose /\ op.guarded = closing[a].guarded
      /\ op.retried = closing[a].retried /\ op.context = closing[a].context
  BY <1>a, <1>1 DEF Closing, Phases, Gone
<1>3. ~op.failed => ~closing[a].failed /\ Gone(work)
  BY <1>a, <1>1 DEF Closing
<1>4. closing'[a] = op /\ \A o \in Administrators \ {a} : closing'[o] = closing[o]
  BY <1>2 DEF ClosureTypes
<1>5. UNCHANGED <<worker, fence, spaces, jobs>>
  BY DEF workerVars, countVars
<1>6. jobs \in 0 .. MaxJobs /\ jobs <= jobs' /\ fence \subseteq fence' /\ FenceHolds'
  BY <1>5, ClosureAssumption DEF ClosureTypes, FenceHolds
<1>7. LocksHeld'
  <2>1. LocksFade
    BY <1>1, <1>2, <1>4 DEF LocksFade, Writes, Archives, Clears
  <2> QED
    BY <2>1, LocksKept
<1>8. OpSound(a)'
  <2>1. op.job <= jobs' /\ (op.retried => op.purpose = "privacy_archive")
    BY <1>1, <1>2, <1>5 DEF OpSound
  <2>2. /\ Journal(op.purpose)'[op.course] # None
        /\ Journal(op.purpose)'[op.course].job = op.job
        /\ Journal(op.purpose)'[op.course].context = op.context
    BY <1>1, <1>2 DEF OpSound, Journal, dbVars
  <2>3. ~op.failed => <<op.context, op.course>> \in fence'
    BY <1>1, <1>2, <1>3, <1>5 DEF OpSound
  <2>4. ~op.failed => folders'[op.job] = None
    BY <1>2, <1>3 DEF Gone, fileVars, Closing
  <2> QED
    BY <1>2, <1>4, <2>1, <2>2, <2>3, <2>4 DEF OpSound, Writes, Reversible
<1>9. ~Reversible(a) /\ ~Reversible(a)'
  BY <1>2, <1>4 DEF Reversible
<1> QED
  BY <1>2, <1>5, <1>6, <1>7, <1>8, <1>9, ClosingStep

\* A rollback that is done, or that found a place taken.
LEMMA UndoEnds ==
    ASSUME ClosureInv, NEW a \in Administrators, server = "up", closing[a].at = "undoing",
           closing' = [closing EXCEPT ![a] = Idle],
           UNCHANGED <<dbVars, files, folders, marked, workerVars, serverVars, upload, countVars>>,
           \/ Gone({closing[a].job}) /\ UNCHANGED occupied
           \/ occupied' = occupied \cup {closing[a].job}
    PROVE  ClosureInv'
<1> USE DEF ClosureInv
<1>1. closing[a] \in Closing /\ closing[a].job \in Jobs
  BY DEF ClosureTypes, Closing, Idle
<1>2. closing' \in [Administrators -> Closing \cup {Idle}]
  BY DEF ClosureTypes
<1>3. closing'[a] = Idle /\ \A o \in Administrators \ {a} : closing'[o] = closing[o]
  BY DEF ClosureTypes
<1>4. occupied \subseteq occupied' /\ occupied' \subseteq Jobs
  BY <1>1 DEF ClosureTypes
<1>5. StartUp'
  BY DEF StartUp, Journal, dbVars, serverVars
<1>6. \A j \in Jobs : Attended(j) /\ folders[j] # None => Attended(j)'
  <2> SUFFICES ASSUME NEW j \in Jobs, Attended(j), folders[j] # None PROVE Attended(j)'
    OBVIOUS
  <2>1. CASE j = closing[a].job
    BY <2>1 DEF Attended, Gone
  <2>2. CASE j # closing[a].job
    BY <1>3, <1>4, <2>2 DEF Attended, Reversible, serverVars
  <2> QED
    BY <2>1, <2>2
<1>7. /\ marked' \subseteq Courses /\ todo' \subseteq Closings \X Courses
      /\ server' \in {"up", "down", "files", "journals"}
      /\ upload' \in [Uploaders -> Uploading \cup {Idle}]
      /\ UNCHANGED <<fence, spaces, worker, jobs>>
  BY DEF ClosureTypes, serverVars, workerVars, countVars
<1> QED
  BY <1>2, <1>3, <1>4, <1>5, <1>6, <1>7, EndingStep

-----------------------------------------------------------------------------
(* The journals and the course's status.                                   *)

\* A journal is settled: nothing but its status changes.
LEMMA JournalStep ==
    ASSUME ClosureInv, SameJournals, UNCHANGED <<status, rows, files, folders, marked, occupied,
                                                 upload, worker, jobs>>,
           archives' \in [Courses -> JournalRows \cup {None}],
           deletions' \in [Courses -> JournalRows \cup {None}],
           server' = server, todo' \subseteq todo, fence \subseteq fence', FenceHolds',
           closing' \in [Administrators -> Closing \cup {Idle}],
           \A a \in Administrators : closing'[a] = closing[a] \/ (closing'[a] = Idle /\ ~Reversible(a)),
           \A a \in Administrators : Writes(a) =>
               (NoCleanupLeft(closing[a].course) => NoCleanupLeft(closing[a].course)'),
           \A c \in Courses :
               /\ archives'[c] = archives[c] \/ archives'[c].status = "pending" \/
                      (folders[archives[c].job] = None /\ <<archives[c].context, c>> \in fence')
               /\ deletions'[c] = deletions[c] \/ deletions'[c].status = "pending" \/
                      (folders[deletions[c].job] = None /\ <<deletions[c].context, c>> \in fence')
    PROVE  ClosureInv'
<1> USE DEF ClosureInv
<1>0. FoldersFade /\ jobs \in Nat /\ jobs' = jobs
  BY FoldersFadeUnchanged, ClosureAssumption DEF ClosureTypes
<1>1. ClosureTypes'
  BY DEF ClosureTypes
<1>2. LocksHeld'
  <2>1. LocksFade
    BY DEF LocksFade, Writes, Archives, Clears, Idle
  <2> QED
    BY <2>1, LocksKept
<1>3. \A a \in Administrators : Reversible(a)' <=> Reversible(a)
  BY DEF Reversible, Idle
<1>4. OpsSound'
  <2> SUFFICES ASSUME NEW a \in Administrators, closing'[a] # Idle PROVE OpSound(a)'
    BY DEF OpsSound
  <2>1. OpSound(a) /\ closing'[a] = closing[a] /\ closing[a] \in Closing
    BY DEF OpsSound, ClosureTypes
  <2>2. closing[a].at = "moving" => Owned(closing[a].course)' \subseteq closing[a].plan
    BY <2>1 DEF OpSound, Owned
  <2>3. Writes(a) => status[closing[a].course] # "gone"
    BY <2>1 DEF OpSound
  <2>4. \A x \in Administrators : Reversible(x)' => Reversible(x) /\ closing'[x].job = closing[x].job
    BY <1>3 DEF Reversible, Idle
  <2> QED
    BY <1>0, <2>1, <2>2, <2>3, <2>4, OpKept
<1>5. JournalsSound'
  <2> SUFFICES ASSUME NEW c \in Courses
               PROVE  (/\ archives[c] # None => status[c] = "archived" /\ Accounted(c, archives[c], "privacy_archive")
                       /\ deletions[c] # None => /\ status[c] = "gone" /\ archives[c] = None
                                                 /\ Accounted(c, deletions[c], "deletion"))'
    BY DEF JournalsSound
  <2>1. archives'[c] # None => status'[c] = "archived" /\ Accounted(c, archives[c], "privacy_archive")'
    BY <1>0 DEF JournalsSound, SameJournals, Accounted
  <2>2. deletions'[c] # None => /\ status'[c] = "gone" /\ archives'[c] = None
                                /\ Accounted(c, deletions[c], "deletion")'
    BY <1>0 DEF JournalsSound, SameJournals, Accounted
  <2> QED
    BY <2>1, <2>2
<1>6. FoldersSound'
  <2>1. \A j \in Jobs : Attended(j) => Attended(j)'
    BY DEF Attended, Reversible, Idle
  <2> QED
    BY <1>0, <2>1, FoldersKept
<1>7. ClosedIsEmpty'
  BY ClosedIsEmptyKept
<1>8. RowsSound'
  BY RowsKept, StagedKept
<1>9. UploadsSound'
  BY UploadsKept
<1>10. StartUp'
  <2>1. server' # "up" => closing' = [a \in Administrators |-> Idle]
    BY DEF StartUp
  <2>2. \A w \in todo' : Journal(w[1])'[w[2]] # None
    BY DEF StartUp, Journal, SameJournals, ClosureTypes
  <2> QED
    BY <2>1, <2>2 DEF StartUp
<1> QED
  BY <1>1, <1>2, <1>4, <1>5, <1>6, <1>7, <1>8, <1>9, <1>10

LEMMA RecordStep ==
    ASSUME ClosureInv, NEW a \in Administrators, Record(a) PROVE SameJournals /\ ClosureInv'
<1> USE DEF ClosureInv, Record, fileVars, workerVars, countVars
<1>a. PICK op : op = closing[a]
  OBVIOUS
<1>1. op \in Closing /\ OpSound(a) /\ op.at = "recording"
  BY <1>a DEF ClosureTypes, OpsSound, Idle
<1>b. op.course \in Courses /\ op.purpose \in Closings /\ op.job \in Jobs
  BY <1>1 DEF Closing
<1>2. closing' \in [Administrators -> Closing \cup {Idle}]
  BY DEF ClosureTypes
<1>3. \A o \in Administrators : closing'[o] = closing[o] \/ (closing'[o] = Idle /\ ~Reversible(o))
  BY <1>1, <1>a DEF ClosureTypes, Reversible
<1>4. \A o \in Administrators : ~Writes(o)
  BY DEF WriteLocked, Writes
<1>5. CASE op.purpose = "deletion"
  <2>1. PICK row : row = deletions[op.course]
    OBVIOUS
  <2>2. row # None /\ row \in JournalRows /\ row.job = op.job /\ row.context = op.context
    BY <1>1, <1>5, <1>a, <1>b, <2>1 DEF OpSound, Journal, ClosureTypes
  <2>3. CASE op.failed
    <3>1. UNCHANGED <<archives, deletions>>
      BY <1>5, <1>a, <2>3
    <3>2. SameJournals
      BY <3>1, SameJournalsUnchanged
    <3> QED
      BY <1>2, <1>3, <1>4, <3>1, <3>2, JournalStep DEF ClosureTypes, serverVars, FenceHolds
  <2>4. CASE ~op.failed
    <3>1. archives' = archives /\ deletions' = [deletions EXCEPT ![op.course].status = "complete"]
      BY <1>5, <1>a, <2>4
    <3>2. PICK new : new = [row EXCEPT !.status = "complete"]
      OBVIOUS
    <3>3. new \in JournalRows /\ new.job = row.job /\ new.context = row.context
      BY <2>2, <3>2 DEF JournalRows
    <3>4. deletions' = [deletions EXCEPT ![op.course] = new]
      BY <2>1, <3>1, <3>2 DEF ClosureTypes
    <3>5. deletions'[op.course] = new /\ \A c \in Courses \ {op.course} : deletions'[c] = deletions[c]
      BY <1>b, <3>4 DEF ClosureTypes
    <3>6. new # None
      BY <3>3, ClosureAssumption
    <3>7. SameJournals
      BY <2>1, <2>2, <3>1, <3>3, <3>5, <3>6 DEF SameJournals
    <3>8. deletions' \in [Courses -> JournalRows \cup {None}]
      BY <3>3, <3>4 DEF ClosureTypes
    <3>9. folders[row.job] = None /\ <<row.context, op.course>> \in fence
      BY <1>1, <1>a, <2>2, <2>4 DEF OpSound
    <3> QED
      BY <1>2, <1>3, <1>4, <2>1, <3>1, <3>5, <3>7, <3>8, <3>9, JournalStep DEF ClosureTypes, serverVars, FenceHolds
  <2> QED
    BY <2>3, <2>4
<1>6. CASE op.purpose # "deletion"
  <2>1. PICK row : row = archives[op.course]
    OBVIOUS
  <2>2. row # None /\ row \in JournalRows /\ row.job = op.job /\ row.context = op.context
    BY <1>1, <1>6, <1>a, <1>b, <2>1 DEF OpSound, Journal, ClosureTypes
  <2>3. PICK result \in IF op.failed THEN {"pending"} ELSE {"pending", "complete"} :
            deletions' = deletions /\ archives' = [archives EXCEPT ![op.course].status = result]
    BY <1>6, <1>a
  <2>4. result \in {"pending", "complete"} /\ (result = "complete" => ~op.failed)
    BY <2>3
  <2>5. PICK new : new = [row EXCEPT !.status = result]
    OBVIOUS
  <2>6. new \in JournalRows /\ new.job = row.job /\ new.context = row.context /\ new.status = result
    BY <2>2, <2>4, <2>5 DEF JournalRows
  <2>7. archives' = [archives EXCEPT ![op.course] = new]
    BY <2>1, <2>3, <2>5 DEF ClosureTypes
  <2>8. archives'[op.course] = new /\ \A c \in Courses \ {op.course} : archives'[c] = archives[c]
    BY <1>b, <2>7 DEF ClosureTypes
  <2>9. new # None
    BY <2>6, ClosureAssumption
  <2>10. SameJournals
    BY <2>1, <2>2, <2>3, <2>6, <2>8, <2>9 DEF SameJournals
  <2>11. archives' \in [Courses -> JournalRows \cup {None}] /\ deletions' \in [Courses -> JournalRows \cup {None}]
    BY <2>3, <2>6, <2>7 DEF ClosureTypes
  <2>12. ~op.failed => folders[row.job] = None /\ <<row.context, op.course>> \in fence
    BY <1>1, <1>a, <2>2 DEF OpSound
  <2> QED
    BY <1>2, <1>3, <1>4, <2>1, <2>3, <2>4, <2>6, <2>8, <2>10, <2>11, <2>12, JournalStep DEF ClosureTypes, serverVars, FenceHolds
<1> QED
  BY <1>5, <1>6

\* The start-up tries a journal again; every folder was settled before.
LEMMA FinishJournalStep ==
    ASSUME ClosureInv, NEW p \in Closings, NEW c \in Courses, FinishJournal(p, c)
    PROVE  SameJournals /\ ClosureInv'
<1> USE DEF ClosureInv, FinishJournal, fileVars, countVars
<1>a. PICK row : row = Journal(p)[c]
  OBVIOUS
<1>1. row # None /\ row \in JournalRows /\ row.job \in Jobs /\ folders[row.job] = None
  <2>1. row # None
    BY <1>a DEF StartUp
  <2>2. row \in JournalRows
    BY <1>a, <2>1 DEF Journal, ClosureTypes
  <2> QED
    BY <2>1, <2>2 DEF StartUp, JournalRows
<1>2. PICK remote \in BOOLEAN, rest \in BOOLEAN :
         /\ IF remote THEN MayCancel(row.context) /\ Cancelled(c) ELSE UNCHANGED workerVars
         /\ IF remote /\ rest
              THEN IF p = "deletion"
                     THEN deletions' = [deletions EXCEPT ![c].status = "complete"] /\ UNCHANGED archives
                     ELSE archives' = [archives EXCEPT ![c].status = "complete"] /\ UNCHANGED deletions
              ELSE UNCHANGED <<archives, deletions>>
  BY <1>a
<1>3. fence \subseteq fence' /\ FenceHolds' /\ worker' = worker
  BY <1>2 DEF FenceHolds, Cancelled, workerVars
<1>4. closing' \in [Administrators -> Closing \cup {Idle}] /\ closing' = closing /\ server' = server
  BY DEF ClosureTypes
<1>5. \A o \in Administrators : ~Writes(o)
  BY DEF StartUp, Writes, Idle
<1>6. CASE remote /\ rest
  <2>1. <<row.context, c>> \in fence'
    BY <1>2, <1>6 DEF MayCancel, Cancelled
  <2>2. PICK new : new = [row EXCEPT !.status = "complete"]
    OBVIOUS
  <2>3. new \in JournalRows /\ new.job = row.job /\ new.context = row.context
    BY <1>1, <2>2 DEF JournalRows
  <2>4. new # None
    BY <2>3, ClosureAssumption
  <2>5. CASE p = "deletion"
    <3>1. deletions' = [deletions EXCEPT ![c] = new] /\ archives' = archives /\ row = deletions[c]
      BY <1>2, <1>6, <1>a, <2>2, <2>5 DEF ClosureTypes, Journal
    <3>2. deletions'[c] = new /\ \A d \in Courses \ {c} : deletions'[d] = deletions[d]
      BY <3>1 DEF ClosureTypes
    <3>3. SameJournals
      BY <1>1, <2>3, <2>4, <3>1, <3>2 DEF SameJournals
    <3>4. archives' \in [Courses -> JournalRows \cup {None}] /\ deletions' \in [Courses -> JournalRows \cup {None}]
      BY <2>3, <3>1 DEF ClosureTypes
    <3> QED
      BY <1>1, <1>3, <1>4, <1>5, <2>1, <3>1, <3>2, <3>3, <3>4, JournalStep
  <2>6. CASE p # "deletion"
    <3>1. archives' = [archives EXCEPT ![c] = new] /\ deletions' = deletions /\ row = archives[c]
      BY <1>2, <1>6, <1>a, <2>2, <2>6 DEF ClosureTypes, Journal
    <3>2. archives'[c] = new /\ \A d \in Courses \ {c} : archives'[d] = archives[d]
      BY <3>1 DEF ClosureTypes
    <3>3. SameJournals
      BY <1>1, <2>3, <2>4, <3>1, <3>2 DEF SameJournals
    <3>4. archives' \in [Courses -> JournalRows \cup {None}] /\ deletions' \in [Courses -> JournalRows \cup {None}]
      BY <2>3, <3>1 DEF ClosureTypes
    <3> QED
      BY <1>1, <1>3, <1>4, <1>5, <2>1, <3>1, <3>2, <3>3, <3>4, JournalStep
  <2> QED
    BY <2>5, <2>6
<1>7. CASE ~(remote /\ rest)
  <2>1. UNCHANGED <<archives, deletions>>
    BY <1>2, <1>7
  <2>2. SameJournals
    BY <2>1, SameJournalsUnchanged
  <2> QED
    BY <1>3, <1>4, <1>5, <2>1, <2>2, JournalStep DEF ClosureTypes
<1> QED
  BY <1>6, <1>7

\* An activation writes the status of a course that is not closed.
LEMMA ActivateStep ==
    ASSUME ClosureInv, NEW c \in Courses, Activate(c) PROVE ClosureInv'
<1> USE DEF ClosureInv, Activate, fileVars, workerVars, countVars, serverVars
<1>0. SameJournals /\ FoldersFade /\ jobs \in Nat /\ jobs <= jobs
  BY SameJournalsUnchanged, FoldersFadeUnchanged, ClosureAssumption DEF ClosureTypes
<1>1. ClosureTypes'
  BY DEF ClosureTypes
<1>2. LocksHeld'
  BY DEF LocksHeld, Writes, Archives, Clears, NobodySaves, Saves
<1>3. OpsSound'
  <2> SUFFICES ASSUME NEW a \in Administrators, closing[a] # Idle PROVE OpSound(a)'
    BY DEF OpsSound
  <2>1. OpSound(a) /\ closing[a] \in Closing
    BY DEF OpsSound, ClosureTypes
  <2>2. closing[a].at = "moving" => Owned(closing[a].course)' \subseteq closing[a].plan
    BY <2>1 DEF OpSound, Owned
  <2>3. ~Writes(a)
    BY DEF Writes, WriteLocked
  <2> QED
    BY <1>0, <2>1, <2>2, <2>3, OpKept DEF Reversible
<1>4. JournalsSound'
  <2>1. \A d \in Courses : CourseIsClosed(d) => status'[d] = status[d]
    BY DEF JournalsSound, CourseIsClosed, Reactivable, ClosureTypes
  <2> QED
    BY <1>0, <2>1, JournalsKept
<1>5. FoldersSound'
  BY <1>0, FoldersKept DEF Attended, Reversible
<1>6. ClosedIsEmpty'
  BY <1>0, ClosedIsEmptyKept
<1>7. RowsSound'
  BY <1>0, RowsKept, StagedKept
<1>8. UploadsSound'
  BY <1>0, UploadsKept
<1>9. StartUp' /\ FenceHolds'
  BY DEF StartUp, FenceHolds, Journal
<1> QED
  BY <1>1, <1>2, <1>3, <1>4, <1>5, <1>6, <1>7, <1>8, <1>9

-----------------------------------------------------------------------------
(* Settling a folder: by its own thread, by the retried cleanup of an      *)
(* archive or by the start-up.  Nobody who moves files works on it.        *)

LEMMA SettleStep ==
    ASSUME ClosureInv, NEW j \in Jobs, DropFolder(j) \/ \E f \in Files : SettleFile(j, f),
           UNCHANGED <<dbVars, workerVars, serverVars, closing, upload, jobs>>,
           \A a \in Administrators : closing[a].at = "moving" =>
               /\ closing[a].job # j
               /\ ~Committed(j) => closing[a].course # folders[j].course
    PROVE  ClosureInv'
<1> USE DEF ClosureInv, dbVars, workerVars, serverVars
<1>1. folders[j] # None /\ folders[j] \in Manifests
  BY DEF DropFolder, SettleFile, ClosureTypes
<1>a. PICK d : d = folders[j].course
  OBVIOUS
<1>b. d \in Courses
  BY <1>1, <1>a DEF Manifests
<1>2. /\ occupied' = occupied /\ marked' \subseteq Courses
      /\ \A i \in Jobs \ {j} : folders'[i] = folders[i]
      /\ folders' \in [Jobs -> Manifests \cup {None}]
  <2>1. CASE DropFolder(j)
    BY <1>1, <1>a, <1>b, <2>1 DEF DropFolder, ClosureTypes
  <2>2. ASSUME NEW f \in Files, SettleFile(j, f)
        PROVE  /\ occupied' = occupied /\ marked' \subseteq Courses
               /\ \A i \in Jobs \ {j} : folders'[i] = folders[i]
               /\ folders' \in [Jobs -> Manifests \cup {None}]
    <3>1. [folders[j] EXCEPT !.staged = @ \ {f}] \in Manifests
      BY <1>1 DEF Manifests
    <3> QED
      BY <1>a, <1>b, <2>2, <3>1 DEF SettleFile, ClosureTypes
  <2> QED
    BY <2>1, <2>2
<1>3. /\ folders'[j] = None \/ /\ folders'[j].course = folders[j].course
                               /\ folders'[j].purpose = folders[j].purpose
                               /\ folders'[j].staged \subseteq folders[j].staged
  <2>1. CASE DropFolder(j)
    BY <2>1 DEF DropFolder, ClosureTypes
  <2>2. ASSUME NEW f \in Files, SettleFile(j, f)
        PROVE  /\ folders'[j].course = folders[j].course
               /\ folders'[j].purpose = folders[j].purpose
               /\ folders'[j].staged \subseteq folders[j].staged
    <3>1. folders'[j] = [folders[j] EXCEPT !.staged = @ \ {f}]
      BY <2>2 DEF SettleFile, ClosureTypes
    <3> QED
      BY <1>1, <3>1 DEF Manifests
  <2> QED
    BY <2>1, <2>2
<1>4. FoldersFade /\ SameJournals /\ jobs \in Nat
  BY <1>1, <1>2, <1>3, SameJournalsUnchanged, ClosureAssumption DEF FoldersFade, ClosureTypes
<1>5. files \subseteq files' /\ files' \subseteq Files
      /\ \A f \in files' \ files : f \in folders[j].staged /\ ~Committed(j)
  BY DEF DropFolder, SettleFile, ClosureTypes
<1>6. ClosureTypes'
  BY <1>2, <1>5 DEF ClosureTypes
<1>7. LocksHeld'
  BY DEF LocksHeld, Writes, Archives, Clears, NobodySaves, Saves
<1>8. OpsSound'
  <2> SUFFICES ASSUME NEW a \in Administrators, closing[a] # Idle PROVE OpSound(a)'
    BY DEF OpsSound
  <2>1. OpSound(a) /\ closing[a] \in Closing
    BY DEF OpsSound, ClosureTypes
  <2>2. ASSUME closing[a].at = "moving"
        PROVE  /\ Owned(closing[a].course)' \subseteq closing[a].plan
               /\ folders'[closing[a].job] = folders[closing[a].job]
    <3>1. closing[a].job \in Jobs \ {j}
      BY <2>1, <2>2 DEF Closing
    <3>2. \A f \in files' \ files : f \in Bundles \/ CourseOf[f] # closing[a].course
      BY <1>1, <1>5, <2>2 DEF FoldersSound
    <3> QED
      BY <1>2, <2>1, <2>2, <3>1, <3>2 DEF OpSound, Owned
  <2>3. Writes(a) => status[closing[a].course] # "gone"
    BY <2>1 DEF OpSound
  <2>4. NoCleanupLeft(closing[a].course) => NoCleanupLeft(closing[a].course)'
    BY <2>1 DEF NoCleanupLeft
  <2> QED
    BY <1>4, <2>1, <2>2, <2>3, <2>4, OpKept DEF Reversible
<1>9. JournalsSound'
  BY <1>4, JournalsKept
<1>10. FoldersSound'
  BY <1>2, <1>4, FoldersKept DEF Attended, Reversible
<1>11. ClosedIsEmpty'
  <2> SUFFICES ASSUME occupied = {}, NEW c \in Courses, CourseIsClosed(c), NEW f \in Owned(c)'
               PROVE  FALSE
    BY <1>2, <1>4, ClosedKept DEF ClosedIsEmpty
  <2>1. f \in files' \ files /\ f \notin Bundles /\ CourseOf[f] = c
    BY DEF Owned, ClosedIsEmpty
  <2>2. folders[j].course = c /\ ~Committed(j) /\ folders[j].staged \ Bundles # {}
    BY <1>1, <1>5, <2>1 DEF FoldersSound
  <2> QED
    BY <1>1, <2>2 DEF FoldersSound
<1>12. RowsSound'
  <2> SUFFICES ASSUME NEW f, Staged(f), f \notin files' PROVE Staged(f)'
    BY <1>5, RowsKept
  <2>1. PICK i \in Jobs : folders[i] # None /\ f \in folders[i].staged /\ ~Committed(i)
    BY DEF Staged
  <2>2. CASE i # j
    <3>1. ~Committed(i)'
      BY <1>2, <1>4, <2>1, <2>2, CommittedKept
    <3> QED
      BY <1>2, <2>1, <2>2, <3>1 DEF Staged
  <2>3. CASE i = j
    <3>1. PICK g \in Files : SettleFile(j, g)
      BY <2>1, <2>3 DEF DropFolder
    <3>2. g # f
      BY <2>1, <2>3, <3>1 DEF SettleFile
    <3>3. folders'[j] = [folders[j] EXCEPT !.staged = @ \ {g}]
      BY <3>1 DEF SettleFile, ClosureTypes
    <3>4. folders'[j] \in Manifests /\ f \in folders'[j].staged /\ folders'[j].purpose = folders[j].purpose
      BY <1>1, <2>1, <2>3, <3>2, <3>3 DEF Manifests
    <3>5. folders'[j] # None
      BY <3>4, ClosureAssumption
    <3>6. ~Committed(j)'
      BY <1>4, <2>1, <2>3, <3>4, CommittedKept
    <3> QED
      BY <3>4, <3>5, <3>6 DEF Staged
  <2> QED
    BY <2>2, <2>3
<1>13. UploadsSound'
  BY <1>4, <1>5, UploadsKept
<1>14. StartUp' /\ FenceHolds'
  BY <1>1, <1>4 DEF StartUp, FenceHolds, Journal, FoldersFade
<1> QED
  BY <1>6, <1>7, <1>8, <1>9, <1>10, <1>11, <1>12, <1>13, <1>14

LEMMA UndoStep ==
    ASSUME ClosureInv, NEW a \in Administrators, Undo(a) PROVE ClosureInv'
<1> USE DEF ClosureInv
<1>a. PICK op : op = closing[a]
  OBVIOUS
<1>1. op \in Closing /\ OpSound(a) /\ op.at = "undoing"
  BY <1>a DEF Undo, ClosureTypes, OpsSound, Idle
<1>b. op.job \in Jobs /\ op.course \in Courses
  BY <1>1 DEF Closing
<1>2. CASE Settle({op.job}) /\ UNCHANGED closing
  <2>1. DropFolder(op.job) \/ \E f \in Files : SettleFile(op.job, f)
    BY <1>2 DEF Settle
  <2>2. folders[op.job] # None /\ Filled(op)
    BY <1>1, <1>a, <2>1 DEF DropFolder, SettleFile, OpSound, Reversible
  <2>3. ASSUME NEW o \in Administrators, closing[o].at = "moving"
        PROVE  closing[o].job # op.job /\ closing[o].course # folders[op.job].course
    <3>1. closing[o] \in Closing /\ OpSound(o) /\ o # a
      BY <1>1, <1>a, <2>3 DEF ClosureTypes, OpsSound, Idle
    <3>2. closing[o].guarded
      BY <2>3, <3>1 DEF OpSound, Reversible, Filled
    <3>3. Clears(a, op.course)
      BY <1>1, <1>a, <2>2 DEF Clears, Filled
    <3>4. closing[o].course = op.course => Clears(o, op.course)
      BY <2>3, <3>2 DEF Clears
    <3>5. closing[o].course # op.course
      BY <1>b, <3>1, <3>3, <3>4 DEF LocksHeld
    <3>6. closing[o].job # op.job
      BY <1>1, <1>a, <2>3, <3>1 DEF OpSound, Reversible
    <3> QED
      BY <2>2, <3>5, <3>6 DEF Filled
  <2> QED
    BY <1>2, <1>b, <2>1, <2>3, SettleStep DEF Undo, countVars
<1>3. CASE Gone({op.job}) /\ closing' = [closing EXCEPT ![a] = Idle] /\ UNCHANGED fileVars
  BY <1>1, <1>3, <1>a, UndoEnds DEF Undo, fileVars
<1>4. CASE /\ occupied' = occupied \cup {op.job} /\ closing' = [closing EXCEPT ![a] = Idle]
           /\ UNCHANGED <<files, folders, marked>>
  BY <1>1, <1>4, <1>a, UndoEnds DEF Undo
<1> QED
  BY <1>2, <1>3, <1>4, <1>a DEF Undo

LEMMA PurgeStep ==
    ASSUME ClosureInv, NEW a \in Administrators, Purge(a) PROVE ClosureInv'
<1> USE DEF ClosureInv
<1>a. PICK op : op = closing[a]
  OBVIOUS
<1>1. op \in Closing /\ OpSound(a) /\ op.at = "purging"
  BY <1>a DEF Purge, ClosureTypes, OpsSound, Idle
<1>b. op.job \in Jobs /\ op.course \in Courses
  BY <1>1 DEF Closing
<1>c. PICK work : work = IF op.retried THEN Jobs ELSE {op.job}
  OBVIOUS
<1>2. CASE Settle(work) /\ UNCHANGED closing
  <2>1. PICK j \in work : DropFolder(j) \/ \E f \in Files : SettleFile(j, f)
    BY <1>2 DEF Settle
  <2>2. j \in Jobs /\ folders[j] # None
    BY <1>b, <1>c, <2>1 DEF DropFolder, SettleFile
  <2>3. CASE op.retried
    <3>1. Archives(a)
      BY <1>1, <1>a, <2>3 DEF Archives, OpSound
    <3>2. ASSUME NEW o \in Administrators, closing[o].at = "moving" PROVE FALSE
      <4>1. closing[o] \in Closing /\ OpSound(o) /\ o # a
        BY <1>1, <1>a, <3>2 DEF ClosureTypes, OpsSound, Idle
      <4>2. Clears(o, closing[o].course) /\ closing[o].course \in Courses
        BY <3>2, <4>1 DEF OpSound, Reversible, Filled, Clears, Closing
      <4> QED
        BY <3>1, <4>1, <4>2 DEF LocksHeld
    <3> QED
      BY <1>2, <2>1, <2>2, <3>2, SettleStep DEF Purge, countVars
  <2>4. CASE ~op.retried
    <3>1. j = op.job
      BY <1>c, <2>4
    <3>2. Journal(op.purpose)[op.course] # None /\ Journal(op.purpose)[op.course].job = j
      BY <1>1, <1>a, <3>1 DEF OpSound
    <3>3. Committed(j)
      BY <1>b, <2>2, <3>2 DEF Committed, Journal, JournalsSound, Accounted
    <3>4. ASSUME NEW o \in Administrators, closing[o].at = "moving" PROVE closing[o].job # j
      <4>1. OpSound(o)
        BY <3>4 DEF OpsSound, Idle
      <4> QED
        BY <1>b, <3>2, <3>4, <4>1 DEF OpSound, Reversible, Unknown, Journal
    <3> QED
      BY <1>2, <2>1, <2>2, <3>3, <3>4, SettleStep DEF Purge, countVars
  <2> QED
    BY <2>3, <2>4
<1>3. CASE /\ closing' = [closing EXCEPT ![a].at = "recording", ![a].failed = @ \/ ~Gone(work)]
           /\ UNCHANGED fileVars
  <2>1. work \in {Jobs, {closing[a].job}}
    BY <1>a, <1>c
  <2> QED
    BY <1>1, <1>3, <1>a, <2>1, PurgeEnds DEF Purge
<1> QED
  BY <1>2, <1>3, <1>a, <1>c DEF Purge

\* The start-up settles every folder before it looks at a journal.
LEMMA RecoverStep == ASSUME ClosureInv, Recover PROVE ClosureInv'
<1> USE DEF ClosureInv
<1>1. server = "files" /\ \A o \in Administrators : closing[o] = Idle
  BY DEF Recover, StartUp
<1>2. CASE Settle(Jobs) /\ UNCHANGED serverVars
  <2>1. PICK j \in Jobs : DropFolder(j) \/ \E f \in Files : SettleFile(j, f)
    BY <1>2 DEF Settle
  <2>2. \A o \in Administrators : closing[o].at # "moving"
    BY <1>1 DEF Idle
  <2> QED
    BY <1>2, <2>1, <2>2, SettleStep DEF Recover, countVars
<1>3. CASE /\ Gone(Jobs) /\ server' = "journals" /\ UNCHANGED fileVars
           /\ todo' = {w \in Closings \X Courses : LET entry == Journal(w[1])[w[2]] IN
                           entry # None /\ entry.status = "pending"}
  <2>1. /\ UNCHANGED <<dbVars, files, folders, fence, spaces, worker, jobs>>
        /\ marked' \subseteq Courses /\ occupied' = occupied /\ occupied \subseteq Jobs
        /\ closing' = closing /\ upload' = upload
    BY <1>3 DEF Recover, fileVars, workerVars, countVars, ClosureTypes
  <2>2. /\ closing' \in [Administrators -> Closing \cup {Idle}]
        /\ upload' \in [Uploaders -> Uploading \cup {Idle}]
        /\ todo' \subseteq Closings \X Courses
        /\ server' \in {"up", "down", "files", "journals"}
    BY <1>3, <2>1 DEF ClosureTypes
  <2>3. StartUp'
    <3>1. \A w \in todo' : Journal(w[1])'[w[2]] # None
      BY <1>3, <2>1 DEF Journal, dbVars
    <3> QED
      BY <1>1, <1>3, <2>1, <3>1 DEF StartUp, Gone
  <2>4. \A j \in Jobs : folders[j] = None
    BY <1>3 DEF Gone
  <2> QED
    BY <2>1, <2>2, <2>3, <2>4, EndingStep
<1> QED
  BY <1>2, <1>3 DEF Recover

-----------------------------------------------------------------------------
(* Staging, moving and the commit.                                         *)

\* The folder appears under the guard of the course, with the plan made again.
LEMMA StageStep ==
    ASSUME ClosureInv, NEW a \in Administrators, Stage(a) PROVE ClosureInv'
<1> USE DEF ClosureInv, Stage, dbVars, workerVars, serverVars, countVars
<1>a. PICK op : op = closing[a]
  OBVIOUS
<1>1. op \in Closing /\ OpSound(a) /\ op.at = "reviewed" /\ Writes(a) /\ Reversible(a)
  BY <1>a DEF ClosureTypes, OpsSound, Idle, Writes, Reversible
<1>b. /\ op.job \in Jobs /\ op.course \in Courses /\ op.purpose \in Closings /\ op.plan \subseteq Files
      /\ op.job \in Nat /\ op.job <= jobs
  BY <1>1, <1>a, ClosureAssumption DEF Closing, Jobs, OpSound
<1>c. PICK folder : folder = [course |-> op.course, purpose |-> op.purpose, staged |-> {}]
  OBVIOUS
<1>2. folder \in Manifests /\ folder # None
  <2>1. folder \in Manifests
    BY <1>b, <1>c DEF Manifests
  <2> QED
    BY <2>1, ClosureAssumption
<1>3. folders' = [folders EXCEPT ![op.job] = folder]
  BY <1>a, <1>c
<1>4. folders'[op.job] = folder /\ \A i \in Jobs \ {op.job} : folders'[i] = folders[i]
  BY <1>b, <1>3 DEF ClosureTypes
<1>d. PICK new : new = [op EXCEPT !.at = "moving", !.guarded = TRUE]
  OBVIOUS
<1>5. /\ new \in Closing /\ new.at = "moving" /\ new.guarded /\ closing' = [closing EXCEPT ![a] = new]
      /\ new.job = op.job /\ new.course = op.course /\ new.purpose = op.purpose
      /\ new.plan = op.plan /\ new.retried = op.retried
  BY <1>1, <1>a, <1>d DEF Closing, Phases
<1>6. closing'[a] = new /\ \A o \in Administrators \ {a} : closing'[o] = closing[o]
  BY <1>5 DEF ClosureTypes
<1>7. \A o \in Administrators : Reversible(o)' <=> Reversible(o)
  BY <1>1, <1>5, <1>6 DEF Reversible
<1>8. ClosureTypes'
  BY <1>2, <1>3, <1>5 DEF ClosureTypes
<1>9. LocksHeld'
  <2>1. \A o \in Administrators : (Writes(o)' => Writes(o)) /\ (Archives(o)' => Archives(o))
    BY <1>1, <1>5, <1>6, <1>a DEF Writes, Archives
  <2>2. \A o \in Administrators, d \in Courses :
           Clears(o, d)' => (o # a /\ Clears(o, d)) \/ (o = a /\ d = op.course)
    BY <1>5, <1>6 DEF Clears
  <2>3. NobodySaves(op.course)' /\ \A d \in Courses : NobodySaves(d) => NobodySaves(d)'
    BY <1>a DEF NobodySaves, Saves
  <2>4. CASE op.purpose = "deletion"
    <3>1. \A o \in Administrators : ~Archives(o) /\ ~Clears(o, op.course)
      BY <1>a, <2>4 DEF MayEnter, MayShare, PrivacyAlone
    <3> QED
      BY <2>1, <2>2, <2>3, <3>1 DEF LocksHeld
  <2>5. CASE op.purpose # "deletion"
    <3>1. Archives(a)
      BY <1>1, <1>a, <1>b, <2>5 DEF Archives, Closings
    <3>2. \A o \in Administrators, d \in Courses : Clears(o, d) => o = a
      BY <3>1 DEF LocksHeld
    <3> QED
      BY <2>1, <2>2, <2>3, <3>1, <3>2 DEF LocksHeld
  <2> QED
    BY <2>4, <2>5
<1>10. /\ SameJournals /\ jobs \in Nat /\ jobs <= jobs
       /\ \A d \in Courses : Owned(d)' = Owned(d)
  BY SameJournalsUnchanged, ClosureAssumption DEF ClosureTypes, Owned
<1>11. OpSound(a)'
  <2>1. StillPlanned(op)
    BY <1>a
  <2>2. /\ Owned(op.course)' \subseteq new.plan
        /\ \A f \in new.plan \ Bundles : CourseOf[f] = op.course
        /\ new.purpose = "deletion" => new.plan \cap Bundles = {}
        /\ \A f \in new.plan \cap Bundles, d \in Courses \ {op.course} : <<d, f>> \notin rows'
    BY <1>5, <1>10, <2>1 DEF StillPlanned, Planned, Owned, Unreferenced
  <2>3. Unknown(new.job)'
    BY <1>1, <1>5, <1>a DEF OpSound, Unknown
  <2>4. \A o \in Administrators : Reversible(o)' /\ closing'[o].job = new.job => o = a
    BY <1>1, <1>5, <1>6, <1>7, <1>a DEF OpSound
  <2>5. Filled(new)' /\ folders'[new.job] # None /\ folders'[new.job].staged \subseteq new.plan
    BY <1>2, <1>4, <1>5, <1>c DEF Filled
  <2>6. /\ status'[op.course] # "gone"
        /\ op.purpose = "privacy_archive" => archives'[op.course] = None
        /\ op.purpose = "deletion" => NoCleanupLeft(op.course)'
    BY <1>1, <1>a DEF OpSound, NoCleanupLeft
  <2>7. new.job <= jobs' /\ (new.retried => new.purpose = "privacy_archive")
    BY <1>1, <1>5, <1>a, <1>b DEF OpSound
  <2> QED
    BY <1>5, <1>6, <2>2, <2>3, <2>4, <2>5, <2>6, <2>7 DEF OpSound
<1>12. OpsSound'
  <2> SUFFICES ASSUME NEW o \in Administrators \ {a}, closing[o] # Idle PROVE OpSound(o)'
    BY <1>6, <1>11 DEF OpsSound
  <2>1. OpSound(o) /\ closing[o] \in Closing /\ closing'[o] = closing[o]
    BY <1>6 DEF OpsSound, ClosureTypes
  <2>2. ~Writes(o)
    BY <1>1 DEF LocksHeld
  <2>a. PICK other : other = closing[o]
    OBVIOUS
  <2>3. other.job \in Jobs /\ other.course \in Courses
    BY <2>1, <2>a DEF Closing
  <2>4. Reversible(o) => other.job # op.job
    BY <1>1, <1>a, <2>a DEF OpSound
  <2>5. other.at \in {"remote", "purging", "recording"} => other.job # op.job
    BY <1>1, <1>a, <2>1, <2>3, <2>a DEF OpSound, Unknown, Journal
  <2>6. other.at \in Phases /\ (Reversible(o) <=> other.at \in {"reviewed", "moving", "undoing"})
    BY <2>1, <2>a DEF Closing, Reversible
  <2>7. folders'[other.job] = folders[other.job]
    BY <1>4, <2>3, <2>4, <2>5, <2>6 DEF Phases
  <2>8. other.job <= jobs' /\ (other.retried => other.purpose = "privacy_archive")
    BY <2>1, <2>a DEF OpSound
  <2>9. Reversible(o)' => /\ Unknown(other.job)'
                          /\ \A x \in Administrators : Reversible(x)' /\ closing'[x].job = other.job => x = o
                          /\ folders'[other.job] # None => Filled(other)'
    <3>1. \A x \in Administrators : closing'[x].job = closing[x].job
      BY <1>5, <1>6, <1>a
    <3> QED
      BY <1>7, <2>1, <2>7, <2>a, <3>1 DEF OpSound, Unknown, Filled
  <2>10. ~Writes(o)' /\ other.at # "reviewed" /\ other.at # "moving"
    BY <2>1, <2>2, <2>a DEF Writes
  <2>11. other.at \in {"remote", "purging", "recording"} =>
           /\ Journal(other.purpose)'[other.course] # None
           /\ Journal(other.purpose)'[other.course].job = other.job
           /\ Journal(other.purpose)'[other.course].context = other.context
    BY <2>1, <2>a DEF OpSound, Journal
  <2>12. other.at \in {"purging", "recording"} /\ ~other.failed => <<other.context, other.course>> \in fence'
    BY <2>1, <2>a DEF OpSound
  <2>13. other.at = "recording" /\ ~other.failed => folders'[other.job] = None
    BY <2>1, <2>7, <2>a DEF OpSound
  <2> QED
    BY <2>1, <2>8, <2>9, <2>10, <2>11, <2>12, <2>13, <2>a DEF OpSound
<1>13. JournalsSound'
  <2> SUFFICES ASSUME NEW c \in Courses
               PROVE  (/\ archives[c] # None => status[c] = "archived" /\ Accounted(c, archives[c], "privacy_archive")
                       /\ deletions[c] # None => /\ status[c] = "gone" /\ archives[c] = None
                                                 /\ Accounted(c, deletions[c], "deletion"))'
    BY DEF JournalsSound
  <2>1. archives[c] # None => archives[c].job \in Jobs \ {op.job}
    BY <1>1, <1>a, JournalJobs DEF OpSound, Unknown
  <2>2. deletions[c] # None => deletions[c].job \in Jobs \ {op.job}
    BY <1>1, <1>a, JournalJobs DEF OpSound, Unknown
  <2> QED
    BY <1>4, <2>1, <2>2 DEF JournalsSound, Accounted
<1>14. FoldersSound'
  <2> SUFFICES ASSUME NEW j \in Jobs
               PROVE  (/\ j > jobs => folders[j] = None
                       /\ folders[j] # None =>
                             /\ \A f \in folders[j].staged \ Bundles : CourseOf[f] = folders[j].course
                             /\ ~Committed(j) =>
                                   /\ Attended(j)
                                   /\ occupied = {} /\ folders[j].staged \ Bundles # {} =>
                                          ~CourseIsClosed(folders[j].course))'
    BY DEF FoldersSound
  <2>1. Attended(j) => Attended(j)'
    <3>1. \A x \in Administrators : closing'[x].job = closing[x].job
      BY <1>5, <1>6, <1>a
    <3>2. server' = server /\ occupied' = occupied
      OBVIOUS
    <3> QED
      BY <1>7, <3>1, <3>2 DEF Attended
  <2>2. CASE j = op.job
    <3>1. folders'[j].staged = {}
      BY <1>4, <1>c, <2>2
    <3>2. Attended(j)'
      BY <1>1, <1>5, <1>6, <1>7, <2>2 DEF Attended
    <3>3. ~(j > jobs)
      BY <1>b, <1>10, <2>2
    <3> QED
      BY <3>1, <3>2, <3>3
  <2>3. CASE j # op.job
    <3>1. folders'[j] = folders[j]
      BY <1>4, <2>3
    <3>2. Committed(j)' <=> Committed(j)
      BY <1>10, <3>1, CommittedKept
    <3> QED
      BY <2>1, <3>1, <3>2 DEF FoldersSound, CourseIsClosed
  <2> QED
    BY <2>2, <2>3
<1>15. ClosedIsEmpty'
  BY <1>10, ClosedIsEmptyKept
<1>16. RowsSound'
  <2> SUFFICES ASSUME NEW f, Staged(f) PROVE Staged(f)'
    BY RowsKept
  <2>1. PICK i \in Jobs : folders[i] # None /\ f \in folders[i].staged /\ ~Committed(i)
    BY DEF Staged
  <2>2. i # op.job
    BY <1>1, <1>a, <2>1 DEF OpSound
  <2>3. folders'[i] = folders[i]
    BY <1>4, <2>2
  <2>4. ~Committed(i)'
    BY <1>10, <2>1, <2>3, CommittedKept
  <2> QED
    BY <2>1, <2>3, <2>4 DEF Staged
<1>17. UploadsSound'
  BY <1>10, UploadsKept
<1>18. StartUp' /\ FenceHolds'
  BY DEF StartUp, FenceHolds, Journal
<1> QED
  BY <1>8, <1>9, <1>12, <1>13, <1>14, <1>15, <1>16, <1>17, <1>18

\* One file goes into the folder of a job whose thread holds the locks.
LEMMA MoveFileStep ==
    ASSUME ClosureInv, NEW a \in Administrators, NEW f \in Files, MoveFile(a, f) PROVE ClosureInv'
<1> USE DEF ClosureInv, MoveFile, dbVars, workerVars, serverVars, countVars
<1>a. PICK op : op = closing[a]
  OBVIOUS
<1>1. op \in Closing /\ OpSound(a) /\ op.at = "moving" /\ Writes(a) /\ Reversible(a)
  BY <1>a DEF ClosureTypes, OpsSound, Idle, Writes, Reversible
<1>b. op.job \in Jobs /\ op.course \in Courses /\ op.plan \subseteq Files /\ op.purpose \in Closings
  BY <1>1 DEF Closing
<1>2. folders[op.job] # None /\ folders[op.job] \in Manifests /\ Filled(op)
      /\ folders[op.job].staged \subseteq op.plan
  BY <1>1, <1>a, <1>b DEF OpSound, ClosureTypes
<1>c. PICK folder : folder = [folders[op.job] EXCEPT !.staged = @ \cup {f}]
  OBVIOUS
<1>3. /\ folder \in Manifests /\ folder.staged = folders[op.job].staged \cup {f}
      /\ folder.course = folders[op.job].course /\ folder.purpose = folders[op.job].purpose
  BY <1>2, <1>c DEF Manifests
<1>4. folder # None
  BY <1>3, ClosureAssumption
<1>5. folders' = [folders EXCEPT ![op.job] = folder]
  BY <1>a, <1>c DEF ClosureTypes
<1>6. folders'[op.job] = folder /\ \A i \in Jobs \ {op.job} : folders'[i] = folders[i]
  BY <1>b, <1>5 DEF ClosureTypes
<1>7. /\ SameJournals /\ jobs \in Nat /\ jobs <= jobs /\ files' = files \ {f} /\ f \in files
      /\ f \in op.plan
  BY <1>a, SameJournalsUnchanged, ClosureAssumption DEF ClosureTypes
<1>8. ClosureTypes'
  BY <1>3, <1>5, <1>7 DEF ClosureTypes
<1>9. LocksHeld'
  BY DEF LocksHeld, Writes, Archives, Clears, NobodySaves, Saves
<1>10. \A j \in Jobs : (folders'[j] = None <=> folders[j] = None)
                       /\ folders'[j].course = folders[j].course /\ folders'[j].purpose = folders[j].purpose
  BY <1>2, <1>3, <1>4, <1>6
<1>11. \A j \in Jobs : Committed(j)' <=> Committed(j)
  BY <1>7, <1>10, CommittedKept
<1>12. OpsSound'
  <2> SUFFICES ASSUME NEW o \in Administrators, closing[o] # Idle PROVE OpSound(o)'
    BY DEF OpsSound
  <2>a. PICK other : other = closing[o] /\ other = closing'[o]
    OBVIOUS
  <2>1. OpSound(o) /\ other \in Closing
    BY <2>a DEF OpsSound, ClosureTypes
  <2>2. other.job \in Jobs /\ other.course \in Courses /\ other.at \in Phases
    BY <2>1, <2>a DEF Closing
  <2>3. other.job <= jobs' /\ (other.retried => other.purpose = "privacy_archive")
    BY <2>1, <2>a DEF OpSound
  <2>4. Reversible(o)' => /\ Unknown(other.job)'
                          /\ \A x \in Administrators : Reversible(x)' /\ closing'[x].job = other.job => x = o
                          /\ folders'[other.job] # None => Filled(other)'
    BY <1>10, <2>1, <2>2, <2>a DEF OpSound, Unknown, Filled, Reversible
  <2>5. other.at = "reviewed" => folders'[other.job] = None /\ ~other.guarded
    BY <1>10, <2>1, <2>2, <2>a DEF OpSound
  <2>6. Writes(o)' => /\ status'[other.course] # "gone"
                      /\ other.purpose = "privacy_archive" => archives'[other.course] = None
                      /\ other.purpose = "deletion" => NoCleanupLeft(other.course)'
    BY <2>1, <2>a DEF OpSound, NoCleanupLeft, Writes
  <2>7. other.at = "moving" =>
          /\ folders'[other.job] # None /\ folders'[other.job].staged \subseteq other.plan
          /\ Owned(other.course)' \subseteq other.plan
          /\ \A g \in other.plan \ Bundles : CourseOf[g] = other.course
          /\ other.purpose = "deletion" => other.plan \cap Bundles = {}
          /\ \A g \in other.plan \cap Bundles, d \in Courses \ {other.course} : <<d, g>> \notin rows'
    <3> SUFFICES ASSUME other.at = "moving"
                 PROVE  /\ folders'[other.job] # None /\ folders'[other.job].staged \subseteq other.plan
                        /\ Owned(other.course)' \subseteq other.plan
                        /\ \A g \in other.plan \ Bundles : CourseOf[g] = other.course
                        /\ other.purpose = "deletion" => other.plan \cap Bundles = {}
                        /\ \A g \in other.plan \cap Bundles, d \in Courses \ {other.course} : <<d, g>> \notin rows'
      OBVIOUS
    <3>1. o = a /\ other = op
      BY <1>1, <1>a, <2>a DEF LocksHeld, Writes
    <3>2. folders'[other.job] # None /\ folders'[other.job].staged \subseteq other.plan
      BY <1>2, <1>3, <1>4, <1>6, <1>7, <3>1
    <3>3. Owned(other.course)' \subseteq other.plan
      BY <1>7, <2>1, <2>a DEF OpSound, Owned
    <3> QED
      BY <2>1, <2>a, <3>2, <3>3 DEF OpSound
  <2>8. other.at \in {"remote", "purging", "recording"} =>
           /\ Journal(other.purpose)'[other.course] # None
           /\ Journal(other.purpose)'[other.course].job = other.job
           /\ Journal(other.purpose)'[other.course].context = other.context
    BY <2>1, <2>a DEF OpSound, Journal
  <2>9. other.at \in {"purging", "recording"} /\ ~other.failed => <<other.context, other.course>> \in fence'
    BY <2>1, <2>a DEF OpSound
  <2>10. other.at = "recording" /\ ~other.failed => folders'[other.job] = None
    BY <1>10, <2>1, <2>2, <2>a DEF OpSound
  <2> QED
    BY <2>3, <2>4, <2>5, <2>6, <2>7, <2>8, <2>9, <2>10, <2>a DEF OpSound
<1>13. JournalsSound'
  <2> SUFFICES ASSUME NEW c \in Courses
               PROVE  (/\ archives[c] # None => status[c] = "archived" /\ Accounted(c, archives[c], "privacy_archive")
                       /\ deletions[c] # None => /\ status[c] = "gone" /\ archives[c] = None
                                                 /\ Accounted(c, deletions[c], "deletion"))'
    BY DEF JournalsSound
  <2>1. archives[c] # None => archives[c].job \in Jobs
    BY JournalJobs
  <2>2. deletions[c] # None => deletions[c].job \in Jobs
    BY JournalJobs
  <2> QED
    BY <1>10, <2>1, <2>2 DEF JournalsSound, Accounted
<1>14. f \notin Bundles => CourseOf[f] = op.course /\ f \in Owned(op.course)
  BY <1>1, <1>7, <1>a DEF OpSound, Owned
<1>15. FoldersSound'
  <2> SUFFICES ASSUME NEW j \in Jobs
               PROVE  (/\ j > jobs => folders[j] = None
                       /\ folders[j] # None =>
                             /\ \A g \in folders[j].staged \ Bundles : CourseOf[g] = folders[j].course
                             /\ ~Committed(j) =>
                                   /\ Attended(j)
                                   /\ occupied = {} /\ folders[j].staged \ Bundles # {} =>
                                          ~CourseIsClosed(folders[j].course))'
    BY DEF FoldersSound
  <2>1. Attended(j)' <=> Attended(j)
    BY DEF Attended, Reversible
  <2>2. CASE j # op.job
    BY <1>6, <1>11, <2>1, <2>2 DEF FoldersSound, CourseIsClosed
  <2>3. CASE j = op.job
    <3>1. folders'[j] = folder /\ folder.course = op.course /\ folders[j].course = op.course
      BY <1>2, <1>3, <1>6, <2>3 DEF Filled
    <3>2. ~(j > jobs)
      BY <1>2, <2>3 DEF FoldersSound
    <3>3. \A g \in folder.staged \ Bundles : CourseOf[g] = op.course
      BY <1>2, <1>3, <1>14, <2>3, <3>1 DEF FoldersSound
    <3>4. ~Committed(j)' => Attended(j)'
      BY <1>2, <1>11, <2>1, <2>3 DEF FoldersSound
    <3>5. occupied = {} /\ folder.staged \ Bundles # {} /\ ~Committed(j) => ~CourseIsClosed(op.course)
      <4>1. CASE f \in Bundles
        BY <1>2, <1>3, <2>3, <3>1, <4>1 DEF FoldersSound
      <4>2. CASE f \notin Bundles
        BY <1>14, <1>b, <4>2 DEF ClosedIsEmpty
      <4> QED
        BY <4>1, <4>2
    <3> QED
      BY <1>11, <3>1, <3>2, <3>3, <3>4, <3>5 DEF CourseIsClosed
  <2> QED
    BY <2>2, <2>3
<1>16. ClosedIsEmpty'
  BY <1>7, ClosedIsEmptyKept
<1>17. RowsSound'
  <2> SUFFICES ASSUME NEW g, g \in files \/ Staged(g), g \notin files' PROVE Staged(g)'
    BY RowsKept
  <2>1. CASE g = f
    <3>1. ~Committed(op.job)
      BY <1>1, <1>a DEF OpSound, Unknown, Committed, Journal
    <3> QED
      BY <1>3, <1>4, <1>6, <1>11, <1>b, <2>1, <3>1 DEF Staged
  <2>2. CASE g # f
    <3>1. PICK i \in Jobs : folders[i] # None /\ g \in folders[i].staged /\ ~Committed(i)
      BY <1>7, <2>2 DEF Staged
    <3>2. g \in folders'[i].staged
      BY <1>3, <1>6, <3>1
    <3> QED
      BY <1>10, <1>11, <3>1, <3>2 DEF Staged
  <2> QED
    BY <2>1, <2>2
<1>18. UploadsSound'
  <2> SUFFICES ASSUME NEW u \in Uploaders, upload[u] # Idle PROVE UploadSound(u)'
    BY DEF UploadsSound
  <2>1. upload[u].at = "stored" /\ UploadSound(u)
    BY DEF UploadsSound, ClosureTypes, Uploading
  <2>2. upload[u].file \notin Checkpoints => upload[u].file # f
    <3>1. CASE f \in Bundles
      <4>1. op.purpose = "privacy_archive"
        BY <1>1, <1>7, <1>a, <1>b, <3>1 DEF OpSound, Closings
      <4>2. Archives(a)
        BY <1>1, <1>a, <4>1 DEF Archives
      <4>3. upload[u].file \in Materials
        BY <2>1, <4>2 DEF LocksHeld
      <4> QED
        BY <3>1, <4>3, ClosureAssumption
    <3>2. CASE f \notin Bundles
      <4>1. upload[u].file \notin Materials
        BY <1>1, <2>1 DEF LocksHeld
      <4>2. upload[u].file \in Files
        BY DEF ClosureTypes, Uploading, Idle
      <4> QED
        BY <3>2, <4>1, <4>2 DEF Files
    <3> QED
      BY <3>1, <3>2
  <2> QED
    BY <1>7, <2>1, <2>2 DEF UploadSound, CourseIsClosed
<1>19. StartUp' /\ FenceHolds'
  <2>1. server = "up"
    OBVIOUS
  <2> QED
    BY <2>1 DEF StartUp, FenceHolds, Journal
<1> QED
  BY <1>8, <1>9, <1>12, <1>13, <1>15, <1>16, <1>17, <1>18, <1>19

-----------------------------------------------------------------------------
(* The writers of files.                                                   *)

\* A new file is no course's that is closed or being closed, and a new row
\* finds its file.
LEMMA WriterStep ==
    ASSUME ClosureInv, server = "up",
           UNCHANGED <<status, archives, deletions, folders, marked, occupied, workerVars,
                       serverVars, closing, jobs>>,
           upload' \in [Uploaders -> Uploading \cup {Idle}], LocksHeld', UploadsSound',
           files \subseteq files', files' \subseteq Files,
           \A f \in files' \ files : f \notin Bundles =>
               /\ ~CourseIsClosed(CourseOf[f])
               /\ \A a \in Administrators : closing[a].at = "moving" => closing[a].course # CourseOf[f],
           rows' \subseteq Courses \X Files,
           \A r \in rows' \ rows : /\ r[2] \in files /\ r[2] \notin Checkpoints
                                   /\ r[2] \in Materials => CourseOf[r[2]] = r[1]
                                   /\ r[2] \in Bundles => \A a \in Administrators : ~Writes(a)
    PROVE  ClosureInv'
<1> USE DEF ClosureInv, workerVars, serverVars
<1>0. SameJournals /\ FoldersFade /\ jobs \in Nat
  BY SameJournalsUnchanged, FoldersFadeUnchanged, ClosureAssumption DEF ClosureTypes
<1>1. ClosureTypes'
  BY DEF ClosureTypes
<1>2. OpsSound'
  <2> SUFFICES ASSUME NEW a \in Administrators, closing[a] # Idle PROVE OpSound(a)'
    BY DEF OpsSound
  <2>1. OpSound(a) /\ closing[a] \in Closing
    BY DEF OpsSound, ClosureTypes
  <2>2. closing[a].at = "moving" =>
           /\ Owned(closing[a].course)' \subseteq closing[a].plan
           /\ \A f \in Bundles, d \in Courses : <<d, f>> \in rows' => <<d, f>> \in rows
    BY <2>1 DEF OpSound, Owned, Writes
  <2>3. Writes(a) => status[closing[a].course] # "gone"
    BY <2>1 DEF OpSound
  <2>4. NoCleanupLeft(closing[a].course) => NoCleanupLeft(closing[a].course)'
    BY <2>1 DEF NoCleanupLeft
  <2> QED
    BY <1>0, <2>1, <2>2, <2>3, <2>4, OpKept DEF Reversible
<1>3. JournalsSound'
  BY <1>0, JournalsKept
<1>4. FoldersSound'
  BY <1>0, FoldersKept DEF Attended, Reversible
<1>5. ClosedIsEmpty'
  BY ClosedKept, <1>0 DEF ClosedIsEmpty, Owned
<1>6. RowsSound'
  BY <1>0, StagedKept DEF RowsSound
<1>7. StartUp' /\ FenceHolds'
  BY DEF StartUp, FenceHolds
<1> QED
  BY <1>1, <1>2, <1>3, <1>4, <1>5, <1>6, <1>7

LEMMA OpenWhenAccepted ==
    ASSUME ClosureInv, NEW c \in Courses, NEW f, Accepts(c, f) PROVE ~CourseIsClosed(c)
BY DEF ClosureInv, JournalsSound, Accepts, CourseIsClosed

LEMMA StartUploadStep ==
    ASSUME ClosureInv, NEW u \in Uploaders, NEW c \in Courses, NEW f \in Files, StartUpload(u, c, f)
    PROVE  ClosureInv'
<1> USE DEF ClosureInv, StartUpload, dbVars, countVars
<1>a. PICK w : w = [at |-> "stored", course |-> c, file |-> f]
  OBVIOUS
<1>1. w \in Uploading /\ upload' = [upload EXCEPT ![u] = w]
  BY <1>a DEF Uploading
<1>2. upload'[u] = w /\ (\A x \in Uploaders \ {u} : upload'[x] = upload[x])
      /\ upload' \in [Uploaders -> Uploading \cup {Idle}]
  BY <1>1 DEF ClosureTypes
<1>3. ~CourseIsClosed(c) /\ (f \notin Bundles => CourseOf[f] = c) /\ SameJournals
  BY OpenWhenAccepted, SameJournalsUnchanged
<1>4. /\ f \in Materials => ~WriteLocked
      /\ f \in Checkpoints => MayEnter(c)
      /\ f \in Bundles => MayShare
      /\ f \in Checkpoints => f \notin Materials
      /\ f \in Bundles => f \notin Materials \cup Checkpoints
  BY ClosureAssumption DEF MayStore
<1>5. f \notin Materials => \A a \in Administrators : ~Archives(a)
  BY <1>4 DEF MayEnter, MayShare, PrivacyAlone, Files
<1>6. f \in Materials => \A a \in Administrators : ~Writes(a)
  BY <1>4 DEF WriteLocked, Writes
<1>7. f \in Checkpoints => \A a \in Administrators : ~Clears(a, c)
  BY <1>4 DEF MayEnter
<1>8. LocksHeld'
  <2> SUFFICES ASSUME NEW a \in Administrators
               PROVE  (/\ Writes(a) => /\ \A o \in Administrators : Writes(o) => o = a
                                       /\ \A x \in Uploaders : upload[x].at = "stored" => upload[x].file \notin Materials
                       /\ Archives(a) => /\ \A o \in Administrators : Archives(o) => o = a
                                         /\ \A o \in Administrators, d \in Courses : Clears(o, d) => o = a
                                         /\ \A x \in Uploaders : upload[x].at = "stored" => upload[x].file \in Materials
                       /\ \A d \in Courses : Clears(a, d) =>
                              /\ \A o \in Administrators : Clears(o, d) => o = a
                              /\ NobodySaves(d))'
    BY DEF LocksHeld
  <2>1. \A o \in Administrators : /\ Writes(o)' <=> Writes(o)
                                  /\ Archives(o)' <=> Archives(o)
                                  /\ \A d \in Courses : Clears(o, d)' <=> Clears(o, d)
    BY DEF Writes, Archives, Clears
  <2>2. Writes(a) => \A x \in Uploaders : upload'[x].at = "stored" => upload'[x].file \notin Materials
    BY <1>2, <1>6, <1>a DEF LocksHeld
  <2>3. Archives(a) => \A x \in Uploaders : upload'[x].at = "stored" => upload'[x].file \in Materials
    BY <1>2, <1>5, <1>a DEF LocksHeld
  <2>4. \A d \in Courses : Clears(a, d) => NobodySaves(d)'
    BY <1>2, <1>7, <1>a DEF LocksHeld, NobodySaves, Saves
  <2> QED
    BY <2>1, <2>2, <2>3, <2>4 DEF LocksHeld
<1>9. files' \subseteq Files /\ files \subseteq files' /\ (f \notin Checkpoints => f \in files')
      /\ \A g \in files' \ files : g = f /\ f \notin Checkpoints
  BY DEF ClosureTypes
<1>10. UploadsSound'
  <2> SUFFICES ASSUME NEW x \in Uploaders, upload'[x] # Idle PROVE UploadSound(x)'
    BY DEF UploadsSound
  <2>1. CASE x = u
    <3>1. upload'[x].course = c /\ upload'[x].file = f
      BY <1>2, <1>a, <2>1
    <3>2. ~CourseIsClosed(c)'
      BY <1>3, ClosedKept
    <3> QED
      BY <1>3, <1>9, <3>1, <3>2 DEF UploadSound, CourseIsClosed
  <2>2. CASE x # u
    BY <1>2, <1>9, <2>2 DEF UploadsSound, UploadSound, CourseIsClosed
  <2> QED
    BY <2>1, <2>2
<1>11. ASSUME NEW g \in files' \ files, g \notin Bundles
       PROVE  /\ ~CourseIsClosed(CourseOf[g])
              /\ \A a \in Administrators : closing[a].at = "moving" => closing[a].course # CourseOf[g]
  <2>1. g = f /\ f \in Materials
    BY <1>9, <1>11 DEF Files
  <2>2. \A a \in Administrators : closing[a].at # "moving"
    BY <1>6, <2>1 DEF Writes
  <2> QED
    BY <1>3, <1>11, <2>1, <2>2
<1>12. rows' \subseteq Courses \X Files /\ rows' = rows
  BY DEF ClosureTypes
<1>13. server = "up" /\ UNCHANGED <<status, archives, deletions, folders, marked, occupied, workerVars,
                                    serverVars, closing, jobs>>
  OBVIOUS
<1> QED
  BY <1>2, <1>8, <1>9, <1>10, <1>11, <1>12, <1>13, WriterStep

LEMMA StoreStep ==
    ASSUME ClosureInv, NEW u \in Uploaders, Store(u) PROVE ClosureInv'
<1> USE DEF ClosureInv, countVars
<1>a. PICK c, f : c = upload[u].course /\ f = upload[u].file
  OBVIOUS
<1>1. /\ upload[u].at = "stored" /\ upload[u] \in Uploading /\ UploadSound(u)
      /\ c \in Courses /\ f \in Files
  BY <1>a DEF Store, ClosureTypes, UploadsSound, Uploading, Idle
<1>2. /\ upload' = [upload EXCEPT ![u] = Idle] /\ server = "up"
      /\ f \in Bundles => ~WriteLocked /\ Accepts(c, f)
      /\ rows' = IF f \in Checkpoints THEN rows ELSE rows \cup {<<c, f>>}
      /\ files' = IF f \in Checkpoints THEN files \cup {f} ELSE files
      /\ UNCHANGED <<status, archives, deletions, folders, marked, occupied, workerVars,
                     serverVars, closing, jobs>>
  BY <1>a DEF Store
<1>3. upload' \in [Uploaders -> Uploading \cup {Idle}]
      /\ \A x \in Uploaders : upload'[x] = upload[x] \/ upload'[x] = Idle
  BY <1>2 DEF ClosureTypes
<1>4. LocksHeld'
  <2>1. LocksFade
    BY <1>2, <1>3 DEF LocksFade, Writes, Archives, Clears, Idle
  <2> QED
    BY <2>1, LocksKept
<1>5. SameJournals /\ files \subseteq files' /\ files' \subseteq Files
  BY <1>1, <1>2, SameJournalsUnchanged DEF ClosureTypes
<1>6. UploadsSound'
  BY <1>3, <1>5, UploadsKept
<1>7. ASSUME NEW g \in files' \ files, g \notin Bundles
      PROVE  /\ ~CourseIsClosed(CourseOf[g])
             /\ \A a \in Administrators : closing[a].at = "moving" => closing[a].course # CourseOf[g]
  <2>1. g = f /\ f \in Checkpoints
    BY <1>2, <1>7
  <2>2. CourseOf[f] = c /\ ~CourseIsClosed(c)
    BY <1>1, <1>7, <1>a, <2>1 DEF UploadSound
  <2>3. ASSUME NEW a \in Administrators, closing[a].at = "moving", closing[a].course = c PROVE FALSE
    <3>1. OpSound(a)
      BY <2>3 DEF OpsSound, Idle
    <3>2. Clears(a, c)
      BY <2>3, <3>1 DEF OpSound, Reversible, Filled, Clears
    <3>3. ~Saves(u, c)
      BY <1>1, <3>2 DEF LocksHeld, NobodySaves
    <3> QED
      BY <1>1, <1>a, <2>1, <3>3 DEF Saves
  <2> QED
    BY <2>1, <2>2, <2>3
<1>8. rows' \subseteq Courses \X Files
  BY <1>1, <1>2 DEF ClosureTypes
<1>9. ASSUME NEW r \in rows' \ rows
      PROVE  /\ r[2] \in files /\ r[2] \notin Checkpoints
             /\ r[2] \in Materials => CourseOf[r[2]] = r[1]
             /\ r[2] \in Bundles => \A a \in Administrators : ~Writes(a)
  <2>1. r = <<c, f>> /\ f \notin Checkpoints
    BY <1>2, <1>9
  <2>2. f \in files /\ (f \in Materials => CourseOf[f] = c)
    BY <1>1, <1>a, <2>1, ClosureAssumption DEF UploadSound
  <2>3. f \in Bundles => \A a \in Administrators : ~Writes(a)
    BY <1>2 DEF WriteLocked, Writes
  <2> QED
    BY <2>1, <2>2, <2>3
<1> QED
  BY <1>2, <1>3, <1>4, <1>5, <1>6, <1>7, <1>8, <1>9, WriterStep

-----------------------------------------------------------------------------

\* The commit: the rows go, the journal comes, and every file of the course is
\* in the folder of this job.
LEMMA CommitStep ==
    ASSUME ClosureInv, NEW a \in Administrators, Commit(a) PROVE ClosureInv'
<1> USE DEF ClosureInv
<1>a. PICK op, c : op = closing[a] /\ c = op.course
  OBVIOUS
<1>1. op \in Closing /\ OpSound(a) /\ op.at = "moving" /\ Writes(a) /\ Reversible(a)
  BY <1>a DEF Commit, ClosureTypes, OpsSound, Idle, Writes, Reversible
<1>b. /\ op.job \in Jobs /\ c \in Courses /\ op.plan \subseteq Files /\ op.purpose \in Closings
      /\ op.context \in Workers \cup {None} /\ op.job \in Nat
  BY <1>1, <1>a, ClosureAssumption DEF Closing, Jobs
<1>2. /\ folders[op.job] # None /\ Filled(op) /\ folders[op.job].staged \subseteq op.plan
      /\ Owned(c) \subseteq op.plan /\ op.job <= jobs /\ Unknown(op.job) /\ status[c] # "gone"
      /\ op.purpose = "privacy_archive" => archives[c] = None
      /\ op.purpose = "deletion" => NoCleanupLeft(c)
  BY <1>1, <1>a DEF OpSound
<1>c. PICK entry : entry = [job |-> op.job, status |-> "pending", context |-> op.context]
  OBVIOUS
<1>3. entry \in JournalRows /\ entry # None
  <2>1. entry \in JournalRows
    BY <1>b, <1>c DEF JournalRows
  <2> QED
    BY <2>1, ClosureAssumption
<1>d. PICK new : new = [op EXCEPT !.at = "remote"]
  OBVIOUS
<1>4. /\ new \in Closing /\ new.at = "remote" /\ closing' = [closing EXCEPT ![a] = new]
      /\ new.job = op.job /\ new.course = c /\ new.purpose = op.purpose /\ new.guarded = op.guarded
      /\ new.context = op.context /\ new.retried = op.retried
  BY <1>1, <1>a, <1>d DEF Closing, Phases, Commit
<1>5. /\ server = "up" /\ op.plan \cap files = {} /\ rows' = {r \in rows : r[1] # c}
      /\ UNCHANGED <<files, folders, marked, occupied, worker, spaces, fence, server, todo, upload, jobs>>
  BY <1>a DEF Commit, fileVars, workerVars, serverVars, countVars
<1>6. closing'[a] = new /\ \A o \in Administrators \ {a} : closing'[o] = closing[o]
  BY <1>4 DEF ClosureTypes
<1>7. /\ deletions[c] = None
      /\ archives[c] # None => op.purpose = "deletion" /\ folders[archives[c].job] = None
  BY <1>2, <1>b DEF JournalsSound, NoCleanupLeft, Accounted, Closings
<1>8. /\ \A d \in Courses \ {c} : /\ archives'[d] = archives[d] /\ deletions'[d] = deletions[d]
                                  /\ status'[d] = status[d]
      /\ archives' \in [Courses -> JournalRows \cup {None}]
      /\ deletions' \in [Courses -> JournalRows \cup {None}]
      /\ status' \in [Courses -> {"preparation", "active", "archived", "gone"}]
      /\ \/ /\ op.purpose = "deletion" /\ status'[c] = "gone"
            /\ deletions'[c] = entry /\ archives'[c] = None
         \/ /\ op.purpose = "privacy_archive" /\ status'[c] = "archived"
            /\ archives'[c] = entry /\ deletions'[c] = None
  <2>1. CASE op.purpose = "deletion"
    <3>1. /\ status' = [status EXCEPT ![c] = "gone"]
          /\ deletions' = [deletions EXCEPT ![c] = entry]
          /\ archives' = [archives EXCEPT ![c] = None]
      BY <1>a, <1>c, <2>1 DEF Commit
    <3> QED
      BY <1>3, <1>b, <2>1, <3>1 DEF ClosureTypes
  <2>2. CASE op.purpose # "deletion"
    <3>1. /\ status' = [status EXCEPT ![c] = "archived"]
          /\ archives' = [archives EXCEPT ![c] = entry]
          /\ deletions' = deletions
      BY <1>a, <1>c, <2>2 DEF Commit
    <3> QED
      BY <1>3, <1>7, <1>b, <2>2, <3>1 DEF ClosureTypes, Closings
  <2> QED
    BY <2>1, <2>2
<1>9. Committed(op.job)'
  <2>1. folders'[op.job].purpose = op.purpose
    BY <1>2, <1>5 DEF Filled
  <2>2. entry.job = op.job
    BY <1>c
  <2> QED
    BY <1>3, <1>8, <1>b, <2>1, <2>2 DEF Committed, Journal
<1>10. ASSUME NEW j \in Jobs, folders[j] # None, j # op.job
       PROVE  Committed(j)' <=> Committed(j)
  <2>1. entry.job # j
    BY <1>10, <1>c
  <2>2. archives[c] # None => archives[c].job # j
    BY <1>7, <1>10
  <2>3. folders'[j] = folders[j]
    BY <1>5
  <2> QED
    BY <1>7, <1>8, <1>b, <2>1, <2>2, <2>3 DEF Committed, Journal
<1>11. \A d \in Courses : CourseIsClosed(d)' <=> (d = c \/ CourseIsClosed(d))
  BY <1>3, <1>8 DEF CourseIsClosed
<1>12. Clears(a, c) /\ op.guarded
  BY <1>1, <1>2, <1>a DEF Clears, Filled
<1>13. ClosureTypes'
  BY <1>4, <1>5, <1>8 DEF ClosureTypes
<1>14. LocksHeld'
  <2>1. LocksFade
    BY <1>1, <1>4, <1>5, <1>6, <1>a DEF LocksFade, Writes, Archives, Clears
  <2> QED
    BY <2>1, LocksKept
<1>15. \A o \in Administrators : Reversible(o)' => Reversible(o) /\ o # a /\ closing'[o] = closing[o]
  BY <1>4, <1>6 DEF Reversible
<1>16. OpsSound'
  <2>1. OpSound(a)'
    <3>1. Journal(new.purpose)'[c] = entry /\ entry.job = new.job /\ entry.context = new.context
      BY <1>4, <1>8, <1>c DEF Journal
    <3>2. new.job <= jobs' /\ (new.retried => new.purpose = "privacy_archive")
      BY <1>1, <1>2, <1>4, <1>5, <1>a DEF OpSound
    <3> QED
      BY <1>3, <1>4, <1>6, <3>1, <3>2 DEF OpSound, Reversible, Writes, Journal
  <2> SUFFICES ASSUME NEW o \in Administrators \ {a}, closing[o] # Idle PROVE OpSound(o)'
    BY <1>6, <2>1 DEF OpsSound
  <2>a. PICK other : other = closing[o]
    OBVIOUS
  <2>2. OpSound(o) /\ other \in Closing /\ closing'[o] = other
    BY <1>6, <2>a DEF OpsSound, ClosureTypes
  <2>3. ~Writes(o) /\ other.at # "reviewed" /\ other.at # "moving"
    BY <1>1, <2>a DEF LocksHeld, Writes
  <2>4. other.job <= jobs' /\ (other.retried => other.purpose = "privacy_archive")
    BY <1>5, <2>2, <2>a DEF OpSound
  <2>5. Reversible(o)' =>
           /\ Unknown(other.job)'
           /\ \A x \in Administrators : Reversible(x)' /\ closing'[x].job = other.job => x = o
           /\ folders'[other.job] # None => Filled(other)'
    <3> SUFFICES ASSUME Reversible(o)
                 PROVE  /\ Unknown(other.job)'
                        /\ \A x \in Administrators : Reversible(x)' /\ closing'[x].job = other.job => x = o
                        /\ folders'[other.job] # None => Filled(other)'
      BY <1>15
    <3>1. op.job # other.job /\ Unknown(other.job)
      BY <1>1, <1>a, <2>2, <2>a DEF OpSound
    <3>2. Unknown(other.job)'
      BY <1>8, <1>c, <1>b, <3>1 DEF Unknown
    <3>3. \A x \in Administrators : Reversible(x)' /\ closing'[x].job = other.job => x = o
      BY <1>15, <2>2, <2>a DEF OpSound
    <3>4. folders'[other.job] # None => Filled(other)'
      BY <1>5, <2>2, <2>a DEF OpSound, Filled
    <3> QED
      BY <3>2, <3>3, <3>4
  <2>6. other.at \in {"remote", "purging", "recording"} =>
           /\ Journal(other.purpose)'[other.course] # None
           /\ Journal(other.purpose)'[other.course].job = other.job
           /\ Journal(other.purpose)'[other.course].context = other.context
    <3> SUFFICES ASSUME other.at \in {"remote", "purging", "recording"}
                 PROVE  /\ Journal(other.purpose)'[other.course] # None
                        /\ Journal(other.purpose)'[other.course].job = other.job
                        /\ Journal(other.purpose)'[other.course].context = other.context
      OBVIOUS
    <3>1. /\ Journal(other.purpose)[other.course] # None
          /\ Journal(other.purpose)[other.course].job = other.job
          /\ Journal(other.purpose)[other.course].context = other.context
      BY <2>2, <2>a DEF OpSound
    <3>2. other.course # c
      <4>1. CASE other.purpose = "deletion"
        BY <1>7, <3>1, <4>1 DEF Journal
      <4>2. CASE other.purpose # "deletion"
        <5>1. other.purpose = "privacy_archive"
          BY <2>2, <4>2 DEF Closing, Closings
        <5>2. Archives(o)
          BY <2>a, <5>1 DEF Archives
        <5> QED
          BY <1>12, <1>b, <5>2 DEF LocksHeld
      <4> QED
        BY <4>1, <4>2
    <3>3. other.course \in Courses \ {c}
      BY <2>2, <3>2 DEF Closing
    <3> QED
      BY <1>8, <3>1, <3>3 DEF Journal
  <2>7. other.at \in {"purging", "recording"} /\ ~other.failed => <<other.context, other.course>> \in fence'
    BY <1>5, <2>2, <2>a DEF OpSound
  <2>8. other.at = "recording" /\ ~other.failed => folders'[other.job] = None
    BY <1>5, <2>2, <2>a DEF OpSound
  <2>9. ~Writes(o)'
    BY <2>2, <2>3 DEF Writes
  <2> QED
    BY <2>2, <2>3, <2>4, <2>5, <2>6, <2>7, <2>8, <2>9 DEF OpSound
<1>17. JournalsSound'
  <2> SUFFICES ASSUME NEW d \in Courses
               PROVE  (/\ archives[d] # None => status[d] = "archived" /\ Accounted(d, archives[d], "privacy_archive")
                       /\ deletions[d] # None => /\ status[d] = "gone" /\ archives[d] = None
                                                 /\ Accounted(d, deletions[d], "deletion"))'
    BY DEF JournalsSound
  <2>1. CASE d # c
    BY <1>5, <1>8, <2>1 DEF JournalsSound, Accounted
  <2>2. CASE d = c
    <3>1. /\ entry.job <= jobs' /\ entry.status = "pending"
          /\ folders'[entry.job].purpose = op.purpose
      BY <1>2, <1>5, <1>c DEF Filled
    <3> QED
      BY <1>8, <2>2, <3>1 DEF Accounted
  <2> QED
    BY <2>1, <2>2
<1>18. FoldersSound'
  <2> SUFFICES ASSUME NEW j \in Jobs, folders[j] # None, ~Committed(j)'
               PROVE  (/\ Attended(j)
                       /\ occupied = {} /\ folders[j].staged \ Bundles # {} =>
                              ~CourseIsClosed(folders[j].course))'
    BY <1>5 DEF FoldersSound
  <2>1. j # op.job /\ ~Committed(j)
    BY <1>9, <1>10
  <2>2. Attended(j)
    BY <2>1 DEF FoldersSound
  <2>3. Attended(j)'
    <3>1. \A o \in Administrators : Reversible(o) /\ o # a => Reversible(o)' /\ closing'[o] = closing[o]
      BY <1>6 DEF Reversible
    <3>2. closing[a].job # j
      BY <1>a, <2>1
    <3> QED
      BY <1>5, <2>2, <3>1, <3>2 DEF Attended
  <2>4. ASSUME occupied = {}, folders[j].staged \ Bundles # {}
        PROVE  folders[j].course # c /\ ~CourseIsClosed(folders[j].course)
    <3>1. ~CourseIsClosed(folders[j].course)
      BY <2>1, <2>4 DEF FoldersSound
    <3>2. PICK o \in Administrators : Reversible(o) /\ closing[o].job = j
      BY <1>5, <2>2, <2>4 DEF Attended
    <3>3. o # a /\ closing[o] # Idle
      BY <1>a, <2>1, <3>2 DEF Reversible, Idle
    <3>4. Filled(closing[o]) /\ closing[o].at \in {"moving", "undoing"}
      BY <3>2, <3>3 DEF OpsSound, OpSound, Reversible
    <3>5. closing[o].course # c
      BY <1>12, <1>b, <3>3, <3>4 DEF LocksHeld, Clears, Filled
    <3> QED
      BY <3>1, <3>2, <3>4, <3>5 DEF Filled
  <2>5. PICK d : d = folders[j].course /\ d = folders'[j].course
    BY <1>5
  <2>6. d \in Courses
    BY <2>5 DEF ClosureTypes, Manifests
  <2>7. occupied' = {} /\ folders'[j].staged \ Bundles # {} => ~CourseIsClosed(d)'
    BY <1>5, <1>11, <2>4, <2>5, <2>6
  <2> QED
    BY <2>3, <2>5, <2>7 DEF CourseIsClosed
<1>19. ClosedIsEmpty'
  <2>1. \A d \in Courses : Owned(d)' = Owned(d)
    BY <1>5 DEF Owned
  <2>2. Owned(c) = {}
    BY <1>2, <1>5 DEF Owned
  <2> QED
    BY <1>5, <1>11, <2>1, <2>2 DEF ClosedIsEmpty
<1>20. RowsSound'
  <2> SUFFICES ASSUME NEW r \in rows, r[1] # c, r[2] \notin files PROVE Staged(r[2])'
    BY <1>5 DEF RowsSound
  <2>1. PICK j \in Jobs : folders[j] # None /\ r[2] \in folders[j].staged /\ ~Committed(j)
    BY DEF RowsSound, Staged
  <2>2. PICK d, f : r = <<d, f>> /\ d \in Courses /\ f \in Files
    BY DEF ClosureTypes
  <2>3. j # op.job
    <3> SUFFICES ASSUME j = op.job PROVE FALSE
      OBVIOUS
    <3>1. f \in op.plan
      BY <1>2, <2>1, <2>2
    <3>2. CASE f \in Bundles
      BY <1>1, <1>a, <2>2, <3>1, <3>2 DEF OpSound
    <3>3. CASE f \notin Bundles
      <4>1. f \in Materials /\ CourseOf[f] = d
        BY <2>2, <3>3 DEF RowsSound, Files
      <4>2. CourseOf[f] = c
        BY <1>1, <1>a, <3>1, <3>3 DEF OpSound
      <4> QED
        BY <2>2, <4>1, <4>2
    <3> QED
      BY <3>2, <3>3
  <2>4. ~Committed(j)'
    BY <1>10, <2>1, <2>3
  <2> QED
    BY <1>5, <2>1, <2>4 DEF Staged
<1>21. UploadsSound'
  <2> SUFFICES ASSUME NEW u \in Uploaders, upload[u] # Idle PROVE UploadSound(u)'
    BY <1>5 DEF UploadsSound
  <2>a. PICK d, f : d = upload[u].course /\ f = upload[u].file
    OBVIOUS
  <2>1. UploadSound(u) /\ upload[u].at = "stored" /\ d \in Courses /\ f \in Files
    BY <2>a DEF UploadsSound, ClosureTypes, Uploading
  <2>2. f \notin Bundles => d # c
    <3>1. f \notin Materials
      BY <1>1, <2>1, <2>a DEF LocksHeld
    <3>2. f \notin Bundles => f \in Checkpoints
      BY <2>1, <3>1 DEF Files
    <3>3. ~Saves(u, c)
      BY <1>12, <1>b DEF LocksHeld, NobodySaves
    <3> QED
      BY <2>1, <2>a, <3>2, <3>3 DEF Saves
  <2>3. f \notin Bundles => ~CourseIsClosed(d)'
    BY <1>11, <2>1, <2>2, <2>a DEF UploadSound
  <2>4. f \notin Bundles => CourseOf[f] = d
    BY <2>1, <2>a DEF UploadSound
  <2>5. f \notin Checkpoints => f \in files'
    BY <1>5, <2>1, <2>a DEF UploadSound
  <2>6. upload'[u].course = d /\ upload'[u].file = f
    BY <1>5, <2>a
  <2> QED
    BY <2>3, <2>4, <2>5, <2>6 DEF UploadSound, CourseIsClosed
<1>22. StartUp' /\ FenceHolds'
  BY <1>5 DEF StartUp, FenceHolds
<1> QED
  BY <1>13, <1>14, <1>16, <1>17, <1>18, <1>19, <1>20, <1>21, <1>22

-----------------------------------------------------------------------------

LEMMA ClosureInvNext == ClosureInv /\ [ClosureNext]_closureVars => ClosureInv'
<1> SUFFICES ASSUME ClosureInv, [ClosureNext]_closureVars PROVE ClosureInv'
  OBVIOUS
<1>1. CASE Writer
  BY <1>1, LearningSteps, ActivateStep, StoreStep, FailUploadStep, StartUploadStep DEF Writer
<1>2. CASE Closer
  BY <1>2, RetryArchiveStep, ReviewStep, StageStep, CommitStep, AbortStep, UndoStep, MoveFileStep,
     CancelRemoteStep, PurgeStep, RecordStep DEF Closer
<1>3. CASE Server
  BY <1>3, ServerSteps, RecoverStep, FinishJournalStep DEF Server
<1>4. CASE UNCHANGED closureVars
  <2>1. /\ UNCHANGED <<dbVars, fileVars, serverVars, closing, upload, countVars>>
        /\ UNCHANGED <<worker, fence, spaces>>
    BY <1>4 DEF closureVars, dbVars, fileVars, serverVars, countVars
  <2>2. worker \in Workers /\ fence \cap spaces = {}
    BY DEF ClosureInv, ClosureTypes, FenceHolds
  <2> QED
    BY <2>1, <2>2, UnseenStep
<1> QED
  BY <1>1, <1>2, <1>3, <1>4 DEF ClosureNext

\* The invariant holds of every behaviour, for any constants of ClosureAssumption.
THEOREM ClosureIsSound == ClosureSpec => []ClosureInv
BY ClosureInvInit, ClosureInvNext, PTL DEF ClosureSpec

LEMMA RowsFound == ClosureInv => RowsFindTheirFiles
<1> SUFFICES ASSUME ClosureInv, server = "up", \A a \in Administrators : closing[a] = Idle
             PROVE  /\ \A j \in Jobs : folders[j] # None => Committed(j) \/ j \in occupied
                    /\ \A r \in rows : r[2] \in files \/ \E j \in occupied :
                                           folders[j] # None /\ r[2] \in folders[j].staged
  BY DEF RowsFindTheirFiles
<1> USE DEF ClosureInv
<1>1. \A j \in Jobs : Attended(j) => j \in occupied
  BY DEF Attended, Reversible, Idle
<1>2. \A j \in Jobs : folders[j] # None => Committed(j) \/ j \in occupied
  BY <1>1 DEF FoldersSound
<1>3. \A r \in rows : r[2] \in files \/ Staged(r[2])
  BY DEF RowsSound
<1> QED
  BY <1>2, <1>3 DEF Staged

LEMMA CleanWhenComplete == ClosureInv => CompleteMeansClean
<1> SUFFICES ASSUME ClosureInv, NEW c \in Courses, NEW p \in Closings,
                    Journal(p)[c] # None, Journal(p)[c].status = "complete"
             PROVE  Clean(c, Journal(p)[c])
  BY DEF CompleteMeansClean
<1> USE DEF ClosureInv
<1>1. PICK entry : entry = Journal(p)[c]
  OBVIOUS
<1>2. folders[entry.job] = None /\ <<entry.context, c>> \in fence
  BY <1>1 DEF JournalsSound, Accounted, Journal
<1>3. CourseIsClosed(c)
  BY DEF Journal, CourseIsClosed
<1> QED
  BY <1>1, <1>2, <1>3 DEF Clean, FenceHolds, ClosedIsEmpty

\* FilesFollowRows: when no course is being closed, an uncommitted closing has
\* put every file back and each row finds its file; a journal that reads
\* complete has no folder, no file of its course and no live learning space.
THEOREM FilesStayWithRows == ClosureSpec => []FilesFollowRows
<1>1. ClosureInv => FilesFollowRows
  BY RowsFound, CleanWhenComplete DEF FilesFollowRows
<1> QED
  BY <1>1, ClosureIsSound, PTL

\* What a step does to the journals and to the rows of a closed course.
LEMMA ClosedStepJournals ==
    ASSUME ClosureInv, ClosureNext, NEW c \in Courses, CourseIsClosed(c)
    PROVE  CourseIsClosed(c)'
<1>1. CASE Writer
  <2>1. UNCHANGED <<archives, deletions>>
    BY <1>1 DEF Writer, StartUpload, Store, FailUpload, AskSpace, CheckActivation, Activate,
       CreateSpace, EndSpace, ReplaceWorker, dbVars
  <2> QED
    BY <2>1 DEF CourseIsClosed
<1>2. CASE Server
  <2>1. CASE \E p \in Closings, d \in Courses : FinishJournal(p, d)
    BY <2>1, FinishJournalStep, ClosedKept
  <2>2. CASE Crash \/ Start \/ Recover \/ Serve
    BY <2>2 DEF Crash, Start, Recover, Serve, dbVars, CourseIsClosed
  <2> QED
    BY <1>2, <2>1, <2>2 DEF Server
<1>3. ASSUME NEW a \in Administrators, Record(a) PROVE CourseIsClosed(c)'
  BY <1>3, RecordStep, ClosedKept
<1>4. ASSUME NEW a \in Administrators, Commit(a) PROVE CourseIsClosed(c)'
  <2>1. PICK op : op = closing[a]
    OBVIOUS
  <2>2. op \in Closing
    BY <1>4, <2>1 DEF ClosureInv, ClosureTypes, Commit, Idle
  <2>3. PICK entry : entry = [job |-> op.job, status |-> "pending", context |-> op.context]
    OBVIOUS
  <2>4. entry \in JournalRows
    BY <2>2, <2>3 DEF Closing, JournalRows
  <2>5. entry # None
    BY <2>4, ClosureAssumption
  <2>6. \/ deletions' = [deletions EXCEPT ![op.course] = entry] /\ archives' = [archives EXCEPT ![op.course] = None]
        \/ archives' = [archives EXCEPT ![op.course] = entry] /\ deletions' = deletions
    BY <1>4, <2>1, <2>3 DEF Commit
  <2> QED
    BY <2>5, <2>6 DEF CourseIsClosed, ClosureInv, ClosureTypes
<1>5. CASE Closer
  <2>1. ASSUME NEW a \in Administrators,
               \/ \E d \in Courses :
                      \/ RetryArchive(a, d)
                      \/ \E p \in Closings, context \in {worker, None} : Review(a, d, p, context)
               \/ Stage(a) \/ Abort(a) \/ Undo(a)
               \/ \E f \in Files : MoveFile(a, f)
               \/ CancelRemote(a) \/ Purge(a)
        PROVE  CourseIsClosed(c)'
    <3>1. UNCHANGED <<archives, deletions>>
      BY <2>1 DEF RetryArchive, Review, Stage, Abort, Undo, MoveFile, CancelRemote, Purge, dbVars
    <3> QED
      BY <3>1 DEF CourseIsClosed
  <2> QED
    BY <1>3, <1>4, <1>5, <2>1 DEF Closer
<1> QED
  BY <1>1, <1>2, <1>5 DEF ClosureNext

LEMMA ClosedStepRows ==
    ASSUME ClosureInv, ClosureNext, NEW c \in Courses, CourseIsClosed(c), NEW r \in rows' \ rows
    PROVE  r[1] # c
<1>1. PICK u \in Uploaders : Store(u)
  <2>1. CASE Writer
    BY <2>1 DEF Writer, StartUpload, FailUpload, AskSpace, CheckActivation, Activate,
       CreateSpace, EndSpace, ReplaceWorker, dbVars
  <2>2. CASE Closer
    BY <2>2 DEF Closer, RetryArchive, Review, Stage, Commit, Abort, Undo, MoveFile, CancelRemote,
       Purge, Record, dbVars
  <2>3. CASE Server
    BY <2>3 DEF Server, Crash, Start, Recover, Serve, FinishJournal, dbVars
  <2> QED
    BY <2>1, <2>2, <2>3 DEF ClosureNext
<1>a. PICK d, f : d = upload[u].course /\ f = upload[u].file
  OBVIOUS
<1>2. r = <<d, f>> /\ f \notin Checkpoints /\ (f \in Bundles => Accepts(d, f))
  BY <1>1, <1>a DEF Store
<1>3. upload[u] \in Uploading /\ UploadSound(u) /\ d \in Courses
  BY <1>1, <1>a DEF Store, ClosureInv, ClosureTypes, UploadsSound, Uploading, Idle
<1>4. ~CourseIsClosed(d)
  BY <1>2, <1>3, <1>a, OpenWhenAccepted DEF UploadSound
<1> QED
  BY <1>2, <1>4

\* Only a rollback that found a place taken adds to the excuses, and it moves
\* no file.
LEMMA ExcuseStep == ASSUME ClosureNext, occupied = {}, occupied' # {} PROVE files' = files
<1>1. CASE Writer
  BY <1>1 DEF Writer, StartUpload, Store, FailUpload, AskSpace, CheckActivation, Activate,
     CreateSpace, EndSpace, ReplaceWorker, fileVars
<1>2. CASE Closer
  <2>1. ASSUME NEW a \in Administrators, Undo(a) PROVE files' = files
    BY <2>1 DEF Undo, Settle, SettleFile, DropFolder, fileVars
  <2>2. ASSUME NEW a \in Administrators, Purge(a) PROVE files' = files
    BY <2>2 DEF Purge, Settle, SettleFile, DropFolder, fileVars
  <2> QED
    BY <1>2, <2>1, <2>2 DEF Closer, RetryArchive, Review, Stage, Commit, Abort, MoveFile,
       CancelRemote, Record, fileVars
<1>3. CASE Server
  <2>1. CASE Recover
    BY <2>1 DEF Recover, Settle, SettleFile, DropFolder, fileVars
  <2> QED
    BY <1>3, <2>1 DEF Server, Crash, Start, Serve, FinishJournal, fileVars
<1> QED
  BY <1>1, <1>2, <1>3 DEF ClosureNext

\* ClosedStaysClosed: after the commit nothing brings the course back, neither
\* a row, nor a file of its own, nor an activation.
THEOREM ClosedCoursesStayClosed == ClosureSpec => ClosedStaysClosed
<1>1. ASSUME ClosureInv, ClosureInv', [ClosureNext]_closureVars, NEW c \in Courses, CourseIsClosed(c)
      PROVE  /\ status'[c] \in {"archived", "gone"}
             /\ CourseIsClosed(c)'
             /\ \A r \in rows' \ rows : r[1] # c
             /\ occupied = {} => \A f \in files' \ files : f \in Bundles \/ CourseOf[f] # c
  <2>1. CASE UNCHANGED closureVars
    <3>1. UNCHANGED <<status, rows, files, archives, deletions>>
      BY <2>1 DEF closureVars
    <3> QED
      BY <1>1, <3>1 DEF ClosureInv, JournalsSound, CourseIsClosed
  <2>2. CASE ClosureNext
    <3>1. CourseIsClosed(c)'
      BY <1>1, <2>2, ClosedStepJournals
    <3>2. status'[c] \in {"archived", "gone"}
      BY <1>1, <3>1 DEF ClosureInv, JournalsSound, CourseIsClosed
    <3>3. \A r \in rows' \ rows : r[1] # c
      BY <1>1, <2>2, ClosedStepRows
    <3>4. ASSUME occupied = {}, NEW f \in files' \ files PROVE f \in Bundles \/ CourseOf[f] # c
      <4>1. CASE occupied' = {}
        BY <1>1, <3>1, <3>4, <4>1 DEF ClosureInv, ClosedIsEmpty, Owned
      <4>2. CASE occupied' # {}
        BY <2>2, <3>4, <4>2, ExcuseStep
      <4> QED
        BY <4>1, <4>2
    <3> QED
      BY <3>1, <3>2, <3>3, <3>4
  <2> QED
    BY <1>1, <2>1, <2>2
<1>2. ClosureInv /\ ClosureInv' /\ [ClosureNext]_closureVars => [\A c \in Courses : Closes(c)]_closureVars
  BY <1>1 DEF Closes
<1> QED
  BY <1>2, ClosureIsSound, PTL DEF ClosureSpec, ClosedStaysClosed
=============================================================================
