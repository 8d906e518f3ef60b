---------------------------- MODULE Learning_proofs ----------------------------
(***************************************************************************)
(* Proofs about a student's work on the learning runtime, in two parts     *)
(* that share no variable.                                                 *)
(*                                                                         *)
(* LearningSpaces, for any owners, requests, limits, troubles and crashes: *)
(* nothing runs that nobody wants.  It rests on what a space knows of its  *)
(* container: one that runs, or that a thread may still start, is named by *)
(* its space, so whoever ends the space removes it, and a container Docker *)
(* creates late is started by nobody.                                      *)
(*                                                                         *)
(* LearningCheckpoints, for any keys, archives and limits, and any number  *)
(* of saves and repacks: saved versions are kept or erased.  It rests on   *)
(* the index being the only ledger: a save works on a copy that everything *)
(* on disk already backs when it is published, its number is new, and      *)
(* packed objects without a reference always find the marker set.          *)
(***************************************************************************)
EXTENDS LearningSpaces, LearningCheckpoints, FiniteSetTheorems, TLAPS

(* LearningSpaces.                                                         *)

Statuses == {"none", "ready", "running", "closed", "expired", "forgotten", "cleanup_failed"}
Usable == {"ready", "running"}
Over == {"closed", "expired", "forgotten", "cleanup_failed"}
Steps == {"waiting", "replied", "cancelling", "cancelled", "ended"}
AskedFor == [at : Steps, kind : {"create", "run", "close"}, owner : Owners, space : Requests]
Recorded == [status : Statuses \ {"none"}, owner : Owners, container : Requests \cup {None},
             create : Requests \cup {None}, due : BOOLEAN]
Containers == {"none", "late", "created", "starting", "started"}

SpaceTypes ==
    /\ request \in [Requests -> {Unused} \cup AskedFor]
    /\ inbox \subseteq {"do", "cancel"} \X Requests /\ revoked \subseteq Owners
    /\ up \in BOOLEAN /\ course \in {"open", "fenced", "verified"}
    /\ space \in [Requests -> {Nobody} \cup Recorded]
    /\ disk \subseteq Requests /\ tombs \subseteq Requests
    /\ docker \in [Requests -> Containers]
    /\ thread \in [Requests -> {"none", "prepared", "attached", "removed", "unremoved"}]
    /\ asked \in 0 .. MaxRequests /\ troubles \in Nat /\ crashes \in Nat

Used(r) == request[r].at # "unused"
IsRun(r) == Used(r) /\ request[r].kind = "run"

\* A request is sent once, and what it was for has not begun when it arrives.
CallsSound ==
    /\ \A r \in Requests : Used(r) => r <= asked
    /\ \A call \in inbox : Used(call[2])
    /\ \A r \in Requests : <<"do", r>> \in inbox =>
           docker[r] = "none" /\ thread[r] = "none" /\ space[r] = Nobody
    /\ \A r \in Requests : space[r] # Nobody => Used(r) /\ request[r].kind = "create"
    /\ \A r \in Requests : Used(r) /\ request[r].kind # "create" => space[request[r].space] # Nobody

\* A container that runs, or that a thread may still start.
Live(r) == docker[r] \in {"starting", "started"} \/ (docker[r] = "created" /\ thread[r] = "prepared")

\* The space of a live container knows it; only the thread that runs in a space
\* makes it ready again; a container Docker creates late is started by nobody.
ContainersSound ==
    /\ \A r \in Requests : docker[r] # "none" \/ thread[r] # "none" => IsRun(r)
    /\ \A r \in Requests : Live(r) =>
           /\ space[request[r].space].status \in {"running", "cleanup_failed"}
           /\ space[request[r].space].container = r
    /\ \A r \in Requests : docker[r] = "late" => thread[r] = "none"
    /\ \A r \in Requests : thread[r] # "none" =>
           /\ space[request[r].space].status # "ready"
           /\ space[request[r].space].status = "running" => space[request[r].space].container = r
    /\ \A r \in Requests : thread[r] = "removed" => docker[r] = "none"

RoomsSound ==
    /\ \A s \in disk : space[s].status \in Usable \cup {"none", "cleanup_failed"}
    /\ \A s, t \in Requests :
           space[s].status \in Usable /\ space[t].status \in Usable /\ space[s].owner = space[t].owner => s = t
    /\ course # "open" => \A s \in Requests : space[s].status \notin Usable
    /\ course = "verified" => \A s \in Requests : space[s].status \in {"none", "forgotten"}

\* What was cancelled never becomes usable again, however late the request is.
CancelledSound ==
    /\ \A r \in tombs, s \in Requests : space[s].status \in Usable => space[s].create # r
    /\ \A r \in Requests : request[r].at = "cancelled" =>
           IF request[r].kind = "create" THEN r \in tombs
           ELSE space[request[r].space].status \in Over /\ space[request[r].space].container # r

SpaceInv == SpaceTypes /\ CallsSound /\ ContainersSound /\ RoomsSound /\ CancelledSound

LEMMA SpaceInitially == SpaceInit => SpaceInv
<1> SUFFICES ASSUME SpaceInit PROVE SpaceInv
  OBVIOUS
<1>1. SpaceTypes
  BY SpaceAssumption DEF SpaceInit, SpaceTypes, Containers, Requests, Nobody
<1>2. \A r \in Requests : /\ ~Used(r) /\ docker[r] = "none" /\ thread[r] = "none" /\ space[r] = Nobody
                          /\ request[r].at # "cancelled"
  BY DEF SpaceInit, Used, Unused
<1>3. CallsSound
  BY <1>2 DEF SpaceInit, CallsSound
<1>4. ContainersSound /\ RoomsSound /\ CancelledSound
  BY <1>2 DEF SpaceInit, ContainersSound, RoomsSound, CancelledSound, Live, Nobody, Usable
<1> QED
  BY <1>1, <1>3, <1>4 DEF SpaceInv

---------------------------------------------------------------------------
(* What a step may change and leave a part of the invariant alone.         *)

RequestsKept ==
    /\ asked' = asked
    /\ request' \in [Requests -> {Unused} \cup AskedFor]
    /\ \A r \in Requests :
           /\ Used(r)' <=> Used(r)
           /\ Used(r) => /\ request'[r].kind = request[r].kind
                         /\ request'[r].owner = request[r].owner
                         /\ request'[r].space = request[r].space

NoneCancelled == \A r \in Requests : request'[r].at = "cancelled" => request[r].at = "cancelled"

LEMMA RequestFields ==
    ASSUME SpaceTypes, NEW r \in Requests
    PROVE  /\ Used(r) <=> request[r] \in AskedFor
           /\ Used(r) => /\ request[r].at \in Steps /\ request[r].kind \in {"create", "run", "close"}
                         /\ request[r].owner \in Owners /\ request[r].space \in Requests
           /\ request[r].at \in Steps => Used(r)
BY DEF SpaceTypes, AskedFor, Unused, Used, Steps

LEMMA SpaceFields ==
    ASSUME SpaceTypes, NEW s \in Requests
    PROVE  /\ space[s].status \in Statuses
           /\ space[s] # Nobody <=> space[s] \in Recorded
           /\ space[s] # Nobody <=> space[s].status # "none"
           /\ space[s] # Nobody => /\ space[s].owner \in Owners /\ space[s].due \in BOOLEAN
                                   /\ space[s].container \in Requests \cup {None}
                                   /\ space[s].create \in Requests \cup {None}
BY DEF SpaceTypes, Recorded, Nobody, Statuses

LEMMA StepOfRequest ==
    ASSUME SpaceTypes, NEW r \in Requests, Used(r), NEW step \in Steps, asked' = asked,
           request' = [request EXCEPT ![r].at = step]
    PROVE  RequestsKept /\ (step # "cancelled" => NoneCancelled)
<1>1. PICK new : new = [request[r] EXCEPT !.at = step]
  OBVIOUS
<1>2. /\ new \in AskedFor /\ new.at = step /\ new.kind = request[r].kind
      /\ new.owner = request[r].owner /\ new.space = request[r].space
  BY <1>1, RequestFields DEF AskedFor
<1>3. request' = [request EXCEPT ![r] = new]
  BY <1>1
<1>4. request'[r] = new /\ \A k \in Requests \ {r} : request'[k] = request[k]
  BY <1>3 DEF SpaceTypes
<1>5. request' \in [Requests -> {Unused} \cup AskedFor]
  BY <1>2, <1>3 DEF SpaceTypes
<1>6. step # "unused"
  BY DEF Steps
<1> QED
  BY <1>2, <1>4, <1>5, <1>6 DEF RequestsKept, NoneCancelled, Used

LEMMA NoStepOfRequest ==
    ASSUME SpaceTypes, asked' = asked, request' = request
    PROVE  RequestsKept /\ NoneCancelled
BY DEF RequestsKept, NoneCancelled, Used, SpaceTypes

LEMMA ReplyKept ==
    ASSUME SpaceTypes, NEW r \in Requests, NEW step \in Steps, step # "cancelled", asked' = asked, Reply(r, step)
    PROVE  RequestsKept /\ NoneCancelled
<1>1. CASE request[r].at = "waiting"
  <2>1. Used(r) /\ request' = [request EXCEPT ![r].at = step]
    BY <1>1 DEF Reply, Used
  <2> QED
    BY <2>1, StepOfRequest
<1>2. CASE request[r].at # "waiting"
  BY <1>2, NoStepOfRequest DEF Reply
<1> QED
  BY <1>1, <1>2

\* The broker and the requests move on, the worker's world stays.
LEMMA QuietStep ==
    ASSUME SpaceInv, RequestsKept, NoneCancelled, UNCHANGED <<space, disk, docker, thread, tombs, course>>,
           inbox' \subseteq inbox \cup ({"cancel"} \X {r \in Requests : Used(r)})
    PROVE  CallsSound' /\ ContainersSound' /\ RoomsSound' /\ CancelledSound'
<1> USE DEF SpaceInv
<1>1. CallsSound'
  <2>1. \A call \in inbox' : Used(call[2])'
    BY DEF RequestsKept, CallsSound, SpaceTypes
  <2> QED
    BY <2>1 DEF CallsSound, RequestsKept
<1>2. ContainersSound'
  BY DEF ContainersSound, RequestsKept, IsRun, Live
<1>3. RoomsSound'
  BY DEF RoomsSound
<1>4. CancelledSound'
  BY DEF CancelledSound, RequestsKept, NoneCancelled, Used
<1> QED
  BY <1>1, <1>2, <1>3, <1>4

---------------------------------------------------------------------------
(* The removal of spaces, by whoever asks for it.                          *)

Withdrawn(those) ==
    /\ \A s \in those : space[s] # Nobody
    /\ space' \in [Requests -> {Nobody} \cup Recorded]
    /\ \A s \in Requests \ those : space'[s] = space[s]
    /\ \A s \in those : /\ space'[s].status \in Over /\ space'[s].owner = space[s].owner
                        /\ space'[s].create = space[s].create
                        /\ space'[s].container \in {None, space[s].container}
    /\ disk' \subseteq disk
    /\ \A s \in those \cap disk' : space'[s].status = "cleanup_failed"
    /\ docker' \in [Requests -> Containers]
    /\ \A r \in Requests :
           /\ docker'[r] \in {docker[r], Removed(docker[r])}
           /\ IsRun(r) /\ request[r].space \in those /\ space[request[r].space].container = r =>
                  \/ docker'[r] = Removed(docker[r])
                  \/ /\ space'[request[r].space].status = "cleanup_failed"
                     /\ space'[request[r].space].container = r

LEMMA WithdrawStep ==
    ASSUME SpaceInv, RequestsKept, NEW those \in SUBSET Requests, Withdrawn(those),
           inbox' \subseteq inbox, \A r \in Requests : thread'[r] \in {thread[r], "none"}
    PROVE  /\ CallsSound' /\ ContainersSound'
           /\ \A s \in Requests : space'[s].status \in Usable => s \notin those /\ space'[s] = space[s]
           /\ \A s \in disk' : space'[s].status \in Usable \cup {"none", "cleanup_failed"}
<1> USE DEF SpaceInv
<1>1. \A s \in Requests : space'[s] # Nobody <=> space[s] # Nobody
  BY DEF Withdrawn, Over, Nobody
<1>2. CallsSound'
  <2>1. \A call \in inbox' : Used(call[2])'
    BY DEF RequestsKept, CallsSound, SpaceTypes
  <2>2. \A r \in Requests : <<"do", r>> \in inbox' =>
            docker'[r] = "none" /\ thread'[r] = "none" /\ space'[r] = Nobody
    BY <1>1 DEF CallsSound, Withdrawn, Removed
  <2> QED
    BY <1>1, <2>1, <2>2, RequestFields DEF CallsSound, RequestsKept
<1>3. \A r \in Requests : Live(r)' => Live(r) /\ docker'[r] # Removed(docker[r])
  BY DEF Live, Withdrawn, Removed, SpaceTypes, Containers
<1>4. ASSUME NEW r \in Requests
      PROVE  /\ docker'[r] # "none" \/ thread'[r] # "none" => IsRun(r)'
             /\ Live(r)' => /\ space'[request'[r].space].status \in {"running", "cleanup_failed"}
                            /\ space'[request'[r].space].container = r
             /\ docker'[r] = "late" => thread'[r] = "none"
             /\ thread'[r] # "none" =>
                   /\ space'[request'[r].space].status # "ready"
                   /\ space'[request'[r].space].status = "running" => space'[request'[r].space].container = r
             /\ thread'[r] = "removed" => docker'[r] = "none"
  <2>1. docker'[r] # "none" => docker[r] # "none"
    BY DEF Withdrawn, Removed
  <2>2. docker'[r] = "late" <=> docker[r] = "late"
    BY DEF Withdrawn, Removed
  <2>3. docker'[r] # "none" \/ thread'[r] # "none" => IsRun(r)
    BY <2>1 DEF ContainersSound
  <2>4. IsRun(r) => IsRun(r)' /\ request'[r].space = request[r].space /\ request[r].space \in Requests
    BY RequestFields DEF IsRun, RequestsKept
  <2>5. ASSUME Live(r)'
        PROVE  /\ space'[request[r].space].status \in {"running", "cleanup_failed"}
               /\ space'[request[r].space].container = r
    <3>1. Live(r) /\ docker'[r] # Removed(docker[r])
      BY <1>3, <2>5
    <3>2. IsRun(r) /\ space[request[r].space].status \in {"running", "cleanup_failed"} /\ space[request[r].space].container = r
      BY <3>1 DEF ContainersSound, Live
    <3> QED
      BY <2>4, <3>1, <3>2 DEF Withdrawn
  <2>6. Live(r)' => IsRun(r)
    BY <1>3 DEF ContainersSound, Live
  <2>7. ASSUME thread'[r] # "none"
        PROVE  /\ space'[request[r].space].status # "ready"
               /\ space'[request[r].space].status = "running" => space'[request[r].space].container = r
    <3>1. thread'[r] = thread[r]
      BY <2>7
    <3> QED
      BY <2>3, <2>4, <2>7, <3>1 DEF ContainersSound, Withdrawn, Over
  <2> QED
    BY <2>1, <2>2, <2>3, <2>4, <2>5, <2>6, <2>7 DEF ContainersSound
<1>5. ContainersSound'
  BY <1>4 DEF ContainersSound
<1>6. \A s \in Requests : space'[s].status \in Usable => s \notin those /\ space'[s] = space[s]
  BY DEF Withdrawn, Over, Usable
<1>7. \A s \in disk' : space'[s].status \in Usable \cup {"none", "cleanup_failed"}
  BY DEF Withdrawn, RoomsSound, SpaceTypes
<1> QED
  BY <1>2, <1>5, <1>6, <1>7

LEMMA WithdrawSound ==
    ASSUME SpaceInv, RequestsKept, NEW those \in SUBSET Requests, Withdrawn(those),
           inbox' \subseteq inbox, \A r \in Requests : thread'[r] \in {thread[r], "none"},
           course = "verified" => those = {},
           course' # course => \A s \in Requests : space'[s].status \notin Usable,
           course' # course /\ course' = "verified" =>
               \A s \in Requests : space'[s].status \in {"none", "forgotten"},
           course # "open" => course' # "open",
           \A r \in tombs' \ tombs, s \in Requests : space'[s].status \in Usable => space'[s].create # r,
           tombs \subseteq tombs',
           \A r \in Requests : request'[r].at = "cancelled" => request[r].at = "cancelled" \/
               IF request[r].kind = "create" THEN r \in tombs'
               ELSE space'[request[r].space].status \in Over /\ space'[request[r].space].container # r
    PROVE  CallsSound' /\ ContainersSound' /\ RoomsSound' /\ CancelledSound'
<1> USE DEF SpaceInv
<1>1. /\ CallsSound' /\ ContainersSound'
      /\ \A s \in Requests : space'[s].status \in Usable => s \notin those /\ space'[s] = space[s]
      /\ \A s \in disk' : space'[s].status \in Usable \cup {"none", "cleanup_failed"}
  BY WithdrawStep
<1>2. RoomsSound'
  <2>1. course' # "open" => \A s \in Requests : space'[s].status \notin Usable
    BY <1>1 DEF RoomsSound
  <2>2. course' = "verified" => \A s \in Requests : space'[s].status \in {"none", "forgotten"}
    BY <1>1 DEF RoomsSound, Withdrawn
  <2> QED
    BY <1>1, <2>1, <2>2 DEF RoomsSound
<1>3. \A r \in tombs', s \in Requests : space'[s].status \in Usable => space'[s].create # r
  BY <1>1 DEF CancelledSound
<1>4. ASSUME NEW r \in Requests, request'[r].at = "cancelled"
      PROVE  IF request'[r].kind = "create" THEN r \in tombs'
             ELSE space'[request'[r].space].status \in Over /\ space'[request'[r].space].container # r
  <2>1. Used(r) /\ request'[r].kind = request[r].kind /\ request'[r].space = request[r].space
        /\ request[r].space \in Requests
    BY <1>4, RequestFields DEF RequestsKept, Used
  <2>2. CASE request[r].at = "cancelled"
    <3>1. IF request[r].kind = "create" THEN r \in tombs
          ELSE space[request[r].space].status \in Over /\ space[request[r].space].container # r
      BY <2>2 DEF CancelledSound
    <3> QED
      BY <2>1, <3>1, SpaceAssumption DEF Withdrawn
  <2>3. CASE request[r].at # "cancelled"
    BY <1>4, <2>1, <2>3
  <2> QED
    BY <2>2, <2>3
<1> QED
  BY <1>1, <1>2, <1>3, <1>4 DEF CancelledSound

LEMMA CleanedWithdraws ==
    ASSUME SpaceInv, NEW those \in SUBSET Requests, \A s \in those : space[s] # Nobody,
           NEW failing, NEW status \in {"closed", "expired", "forgotten"}, Cleaned(those, failing, status)
    PROVE  /\ Withdrawn(those) /\ troubles' \in Nat /\ failing \subseteq those
           /\ \A s \in those \ failing : space'[s].status = status /\ space'[s].container = None
           /\ \A s \in failing : space'[s].status = "cleanup_failed"
<1> DEFINE gone == those \ failing
           names == {space[s].container : s \in gone}
<1>1. /\ failing \subseteq those /\ (failing # {} => Trouble) /\ (failing = {} => UNCHANGED troubles)
      /\ disk' = disk \ gone
      /\ space' = [s \in Requests |->
             IF s \in gone THEN [space[s] EXCEPT !.status = status, !.container = None]
             ELSE IF s \in failing THEN [space[s] EXCEPT !.status = "cleanup_failed"] ELSE space[s]]
  BY DEF Cleaned
<1>2. PICK half \in SUBSET {space[s].container : s \in failing} :
          docker' = [r \in Requests |-> IF r \in names \cup half THEN Removed(docker[r]) ELSE docker[r]]
  BY DEF Cleaned
<1>3. \A s \in those : space[s] \in Recorded
  BY SpaceFields DEF SpaceInv
<1>4. ASSUME NEW s \in gone
      PROVE  /\ space'[s] \in Recorded /\ space'[s].status = status /\ space'[s].container = None
             /\ space'[s].owner = space[s].owner /\ space'[s].create = space[s].create
  <2>1. PICK old \in Recorded : old = space[s]
    BY <1>3
  <2>2. PICK new : new = [old EXCEPT !.status = status, !.container = None]
    OBVIOUS
  <2>3. new \in Recorded /\ new.status = status /\ new.container = None /\ new.owner = old.owner
        /\ new.create = old.create
    BY <2>2 DEF Recorded, Statuses
  <2>4. space'[s] = new
    BY <1>1, <2>1, <2>2
  <2> QED
    BY <2>1, <2>3, <2>4
<1>5. ASSUME NEW s \in failing
      PROVE  /\ space'[s] \in Recorded /\ space'[s].status = "cleanup_failed"
             /\ space'[s].container = space[s].container
             /\ space'[s].owner = space[s].owner /\ space'[s].create = space[s].create
  <2>1. PICK old \in Recorded : old = space[s]
    BY <1>1, <1>3
  <2>2. PICK new : new = [old EXCEPT !.status = "cleanup_failed"]
    OBVIOUS
  <2>3. new \in Recorded /\ new.status = "cleanup_failed" /\ new.container = old.container
        /\ new.owner = old.owner /\ new.create = old.create
    BY <2>2 DEF Recorded, Statuses
  <2>4. space'[s] = new
    BY <1>1, <2>1, <2>2
  <2> QED
    BY <2>1, <2>3, <2>4
<1>6. \A s \in Requests \ those : space'[s] = space[s]
  BY <1>1
<1>7. space' \in [Requests -> {Nobody} \cup Recorded]
  <2>1. \A s \in Requests : space'[s] \in {Nobody} \cup Recorded
    BY <1>4, <1>5, <1>6 DEF SpaceInv, SpaceTypes
  <2> QED
    BY <1>1, <2>1
<1>8. troubles' \in Nat
  <2>1. troubles \in Nat
    BY DEF SpaceInv, SpaceTypes
  <2>2. troubles' = troubles \/ troubles' = troubles + 1
    BY <1>1 DEF Trouble
  <2> QED
    BY <2>1, <2>2
<1>9. docker' \in [Requests -> Containers]
  BY <1>2 DEF SpaceInv, SpaceTypes, Removed, Containers
<1>10. ASSUME NEW r \in Requests
       PROVE  /\ docker'[r] \in {docker[r], Removed(docker[r])}
              /\ IsRun(r) /\ request[r].space \in those /\ space[request[r].space].container = r =>
                     \/ docker'[r] = Removed(docker[r])
                     \/ /\ space'[request[r].space].status = "cleanup_failed"
                        /\ space'[request[r].space].container = r
  <2>1. docker'[r] \in {docker[r], Removed(docker[r])} /\ (r \in names => docker'[r] = Removed(docker[r]))
    BY <1>2
  <2> QED
    BY <1>5, <2>1
<1>11. Withdrawn(those)
  BY <1>1, <1>4, <1>5, <1>6, <1>7, <1>9, <1>10 DEF Withdrawn, Over, SpaceInv, SpaceTypes
<1> QED
  BY <1>1, <1>4, <1>5, <1>8, <1>11

LEMMA CloseStep == ASSUME SpaceInv, NEW r \in Requests, Close(r) PROVE SpaceInv'
<1> USE DEF SpaceInv
<1> DEFINE s == request[r].space
<1>1. /\ Used(r) /\ request[r].kind = "close" /\ inbox' \subseteq inbox /\ space[s].status # "forgotten"
      /\ UNCHANGED <<revoked, up, thread, tombs, course, asked, crashes>>
  BY DEF Close, Take, Used
<1>2. s \in Requests /\ space[s] # Nobody /\ space[s].status # "none"
  BY <1>1, RequestFields, SpaceFields DEF CallsSound
<1>3. PICK failing \in SUBSET {s} : Cleaned({s}, failing, "closed") /\ Reply(r, IF failing = {} THEN "replied" ELSE "ended")
  BY DEF Close
<1>4. Withdrawn({s}) /\ troubles' \in Nat
  BY <1>2, <1>3, CleanedWithdraws
<1>5. RequestsKept /\ NoneCancelled
  BY <1>1, <1>3, ReplyKept DEF Steps
<1>6. course # "verified"
  BY <1>1, <1>2 DEF RoomsSound
<1>7. SpaceTypes'
  BY <1>1, <1>4, <1>5 DEF SpaceTypes, Withdrawn, RequestsKept
<1>8. CallsSound' /\ ContainersSound' /\ RoomsSound' /\ CancelledSound'
  BY <1>1, <1>2, <1>4, <1>5, <1>6, WithdrawSound DEF NoneCancelled, SpaceTypes
<1> QED
  BY <1>7, <1>8

LEMMA ReapStep == ASSUME SpaceInv, NEW s \in Requests, Reap(s) PROVE SpaceInv'
<1> USE DEF SpaceInv
<1>1. space[s].status \notin Ended /\ UNCHANGED <<brokerVars, up, thread, tombs, course, asked, crashes>>
  BY DEF Reap, Reapable, Active
<1>2. space[s] # Nobody
  BY <1>1 DEF Ended, Nobody
<1>3. PICK failing \in SUBSET {s} : Cleaned({s}, failing, "expired")
  BY DEF Reap
<1>4. Withdrawn({s}) /\ troubles' \in Nat
  BY <1>2, <1>3, CleanedWithdraws
<1>5. RequestsKept /\ NoneCancelled
  BY <1>1, NoStepOfRequest DEF brokerVars
<1>6. course # "verified"
  BY <1>1 DEF RoomsSound, Ended
<1>7. SpaceTypes'
  BY <1>1, <1>4, <1>5 DEF SpaceTypes, Withdrawn, RequestsKept, brokerVars
<1>8. CallsSound' /\ ContainersSound' /\ RoomsSound' /\ CancelledSound'
  BY <1>1, <1>2, <1>4, <1>5, <1>6, WithdrawSound DEF NoneCancelled, SpaceTypes, brokerVars
<1> QED
  BY <1>7, <1>8

LEMMA CancelCourseStep == ASSUME SpaceInv, CancelCourse PROVE SpaceInv'
<1> USE DEF SpaceInv
<1>1. PICK recorded \in SUBSET Requests : recorded = {s \in Requests : space[s].status \notin {"none", "forgotten"}}
  OBVIOUS
<1>2. /\ course # "verified" /\ UNCHANGED <<brokerVars, up, thread, tombs, asked, crashes>>
  BY DEF CancelCourse
<1>3. PICK failing \in SUBSET {s \in recorded : Active(s)} :
          /\ Cleaned(recorded, failing, "forgotten")
          /\ course' = IF failing = {} THEN "verified" ELSE "fenced"
  BY <1>1 DEF CancelCourse
<1>4. \A s \in recorded : space[s] # Nobody
  BY <1>1 DEF Nobody
<1>5. /\ Withdrawn(recorded) /\ troubles' \in Nat
      /\ \A s \in recorded \ failing : space'[s].status = "forgotten"
      /\ \A s \in failing : space'[s].status = "cleanup_failed"
  BY <1>3, <1>4, CleanedWithdraws
<1>6. RequestsKept /\ NoneCancelled
  BY <1>2, NoStepOfRequest DEF brokerVars
<1>7. \A s \in Requests : s \notin failing => space'[s].status \in {"none", "forgotten"}
  BY <1>1, <1>5 DEF Withdrawn
<1>8. \A s \in Requests : space'[s].status \notin Usable
  BY <1>5, <1>7 DEF Usable
<1>9. SpaceTypes'
  BY <1>2, <1>3, <1>5, <1>6 DEF SpaceTypes, Withdrawn, RequestsKept, brokerVars
<1>10. course' # "open" /\ (course' = "verified" => failing = {})
  BY <1>3
<1>11. CallsSound' /\ ContainersSound' /\ RoomsSound' /\ CancelledSound'
  BY <1>2, <1>5, <1>6, <1>7, <1>8, <1>10, WithdrawSound DEF NoneCancelled, SpaceTypes, brokerVars
<1> QED
  BY <1>9, <1>11

LEMMA RestartStep == ASSUME SpaceInv, Restart PROVE SpaceInv'
<1> USE DEF SpaceInv
<1>1. PICK those \in SUBSET Requests : those = {s \in Requests : Active(s)}
  OBVIOUS
<1>2. /\ up' = TRUE /\ docker' = [r \in Requests |-> Removed(docker[r])] /\ disk' = disk \ those
      /\ space' = [s \in Requests |-> IF s \in those
             THEN [space[s] EXCEPT !.status = "expired", !.container = None] ELSE space[s]]
      /\ UNCHANGED <<brokerVars, thread, tombs, course, boundVars>>
  BY <1>1 DEF Restart
<1>3. \A s \in those : space[s] \in Recorded
  BY <1>1, SpaceFields DEF Active, Ended
<1>4. ASSUME NEW s \in those
      PROVE  /\ space'[s] \in Recorded /\ space'[s].status = "expired" /\ space'[s].container = None
             /\ space'[s].owner = space[s].owner /\ space'[s].create = space[s].create
  <2>1. PICK old \in Recorded : old = space[s]
    BY <1>3
  <2>2. PICK new : new = [old EXCEPT !.status = "expired", !.container = None]
    OBVIOUS
  <2>3. new \in Recorded /\ new.status = "expired" /\ new.container = None /\ new.owner = old.owner
        /\ new.create = old.create
    BY <2>2 DEF Recorded, Statuses
  <2>4. space'[s] = new
    BY <1>2, <2>1, <2>2
  <2> QED
    BY <2>1, <2>3, <2>4
<1>5. \A s \in Requests \ those : space'[s] = space[s]
  BY <1>2
<1>6. space' \in [Requests -> {Nobody} \cup Recorded]
  <2>1. \A s \in Requests : space'[s] \in {Nobody} \cup Recorded
    BY <1>4, <1>5 DEF SpaceTypes
  <2> QED
    BY <1>2, <2>1
<1>7. docker' \in [Requests -> Containers] /\ \A r \in Requests : docker'[r] = Removed(docker[r])
  BY <1>2 DEF SpaceTypes, Removed, Containers
<1>8. \A s \in those : space[s] # Nobody
  BY <1>3, SpaceFields
<1>9. Withdrawn(those)
  BY <1>2, <1>4, <1>5, <1>6, <1>7, <1>8 DEF Withdrawn, Over
<1>10. RequestsKept /\ NoneCancelled
  BY <1>2, NoStepOfRequest DEF brokerVars, boundVars
<1>11. course = "verified" => those = {}
  BY <1>1 DEF RoomsSound, Active, Ended
<1>12. SpaceTypes'
  BY <1>2, <1>9, <1>10 DEF SpaceTypes, Withdrawn, RequestsKept, brokerVars, boundVars
<1>13. CallsSound' /\ ContainersSound' /\ RoomsSound' /\ CancelledSound'
  BY <1>2, <1>9, <1>10, <1>11, WithdrawSound DEF NoneCancelled, SpaceTypes, brokerVars, boundVars
<1> QED
  BY <1>12, <1>13

LEMMA CancelStep == ASSUME SpaceInv, NEW r \in Requests, Cancel(r) PROVE SpaceInv'
<1> USE DEF SpaceInv
<1>1. /\ <<"cancel", r>> \in inbox /\ inbox' \subseteq inbox /\ UNCHANGED <<revoked, up, thread, course, asked, crashes>>
      /\ tombs' = IF request[r].kind = "create" THEN tombs \cup {r} ELSE tombs
  BY DEF Cancel, Take
<1>2. Used(r) /\ request[r].space \in Requests
  BY <1>1, RequestFields DEF CallsSound
<1>3. PICK those \in SUBSET Requests : those =
          IF request[r].kind = "create"
            THEN {s \in Requests : space[s].status \notin {"none", "forgotten"} /\ space[s].create = r}
            ELSE {request[r].space}
  BY <1>2
<1>4. \A s \in those : space[s] # Nobody
  BY <1>2, <1>3 DEF CallsSound, Nobody
<1>5. tombs' \subseteq Requests /\ tombs \subseteq tombs' /\ (request[r].kind = "create" => r \in tombs')
      /\ tombs' \ tombs \subseteq {r} /\ (tombs' # tombs => request[r].kind = "create")
  BY <1>1 DEF SpaceTypes
<1>6. CASE course # "open" \/ \E s \in those : space[s].status = "forgotten"
  <2>1. /\ request' = IF request[r].at = "cancelling" THEN [request EXCEPT ![r].at = "ended"] ELSE request
        /\ UNCHANGED <<troubles, space, disk, docker>>
    BY <1>3, <1>6 DEF Cancel
  <2>2. RequestsKept /\ NoneCancelled
    <3>1. CASE request[r].at = "cancelling"
      BY <1>1, <1>2, <2>1, <3>1, StepOfRequest DEF Steps
    <3>2. CASE request[r].at # "cancelling"
      BY <1>1, <2>1, <3>2, NoStepOfRequest
    <3> QED
      BY <3>1, <3>2
  <2>3. SpaceTypes'
    BY <1>1, <1>5, <2>1, <2>2 DEF SpaceTypes, RequestsKept
  <2>4. CASE tombs' = tombs
    BY <1>1, <2>1, <2>2, <2>3, <2>4, QuietStep
  <2>5. CASE tombs' # tombs
    <3>1. course # "open"
      BY <1>3, <1>5, <1>6, <2>5
    <3>2. Withdrawn({})
      BY <2>1, <2>3 DEF Withdrawn, SpaceTypes
    <3>3. \A s \in Requests : space'[s].status \notin Usable
      BY <2>1, <3>1 DEF RoomsSound
    <3>4. CallsSound' /\ ContainersSound' /\ RoomsSound' /\ CancelledSound'
      BY <1>1, <1>5, <2>2, <3>2, <3>3, WithdrawSound DEF NoneCancelled, SpaceTypes
    <3> QED
      BY <2>3, <3>4
  <2> QED
    BY <2>4, <2>5
<1>7. CASE course = "open" /\ ~\E s \in those : space[s].status = "forgotten"
  <2>1. PICK failing \in SUBSET those :
            /\ Cleaned(those, failing, "closed")
            /\ request' = IF request[r].at = "cancelling"
                            THEN [request EXCEPT ![r].at = IF failing = {} THEN "cancelled" ELSE "ended"] ELSE request
    BY <1>3, <1>7 DEF Cancel
  <2>2. /\ Withdrawn(those) /\ troubles' \in Nat
        /\ \A s \in those \ failing : space'[s].status = "closed" /\ space'[s].container = None
    BY <1>4, <2>1, CleanedWithdraws
  <2>3. RequestsKept
    <3>1. CASE request[r].at = "cancelling"
      BY <1>1, <1>2, <2>1, <3>1, StepOfRequest DEF Steps
    <3>2. CASE request[r].at # "cancelling"
      BY <1>1, <2>1, <3>2, NoStepOfRequest
    <3> QED
      BY <3>1, <3>2
  <2>4. \A k \in Requests : request'[k].at = "cancelled" => request[k].at = "cancelled" \/ (k = r /\ failing = {})
    BY <2>1 DEF SpaceTypes
  <2>5. \A s \in Requests : space'[s].status \in Usable => s \notin those /\ space'[s] = space[s]
    BY <2>2 DEF Withdrawn, Over, Usable
  <2>6. request[r].kind = "create" => \A s \in Requests : space'[s].status \in Usable => space'[s].create # r
    BY <1>3, <2>5 DEF Usable
  <2>7. \A k \in tombs' \ tombs, s \in Requests : space'[s].status \in Usable => space'[s].create # k
    BY <1>5, <2>6
  <2>8. failing = {} => IF request[r].kind = "create" THEN r \in tombs'
            ELSE space'[request[r].space].status \in Over /\ space'[request[r].space].container # r
    BY <1>3, <1>5, <2>2, SpaceAssumption DEF Over
  <2>9. SpaceTypes'
    BY <1>1, <1>5, <2>2, <2>3 DEF SpaceTypes, RequestsKept, Withdrawn
  <2>10. \A k \in Requests : request'[k].at = "cancelled" => request[k].at = "cancelled" \/
             IF request[k].kind = "create" THEN k \in tombs'
             ELSE space'[request[k].space].status \in Over /\ space'[request[k].space].container # k
    BY <2>4, <2>8
  <2>11. CallsSound' /\ ContainersSound' /\ RoomsSound' /\ CancelledSound'
    BY <1>1, <1>5, <1>7, <2>2, <2>3, <2>7, <2>10, WithdrawSound DEF SpaceTypes
  <2> QED
    BY <2>9, <2>11
<1> QED
  BY <1>6, <1>7

---------------------------------------------------------------------------
(* The broker.                                                             *)

LEMMA AskStep ==
    ASSUME SpaceInv, NEW o \in Owners, NEW kind \in {"create", "run", "close"}, NEW s \in Requests, Ask(o, kind, s)
    PROVE  SpaceInv'
<1> USE DEF SpaceInv
<1>1. PICK r : r = asked + 1
  OBVIOUS
<1>2. /\ asked < MaxRequests /\ asked' = r /\ inbox' = inbox \cup {<<"do", r>>}
      /\ kind # "create" => space[s].status # "none"
      /\ UNCHANGED <<revoked, workerVars, troubles, crashes>>
  BY <1>1 DEF Ask
<1>3. r \in Requests /\ r \in 0 .. MaxRequests /\ asked \in Nat
  BY <1>1, <1>2, SpaceAssumption DEF SpaceTypes, Requests
<1>4. PICK new : new = [at |-> "waiting", kind |-> kind, owner |-> o, space |-> IF kind = "create" THEN r ELSE s]
  OBVIOUS
<1>5. new \in AskedFor /\ new.at = "waiting" /\ new.kind = kind /\ new.space \in Requests
      /\ (kind # "create" => new.space = s)
  BY <1>3, <1>4 DEF AskedFor, Steps
<1>6. request' = [request EXCEPT ![r] = new]
  BY <1>1, <1>4 DEF Ask
<1>7. /\ request'[r] = new /\ \A k \in Requests \ {r} : request'[k] = request[k]
      /\ request' \in [Requests -> {Unused} \cup AskedFor]
  BY <1>3, <1>5, <1>6 DEF SpaceTypes
<1>8. ~Used(r)
  BY <1>1, <1>3 DEF CallsSound
<1>9. Used(r)' /\ \A k \in Requests \ {r} : (Used(k)' <=> Used(k)) /\ (IsRun(k)' <=> IsRun(k))
  BY <1>5, <1>7 DEF Used, IsRun
<1>10. SpaceTypes'
  BY <1>2, <1>3, <1>7 DEF SpaceTypes, workerVars
<1>11. docker[r] = "none" /\ thread[r] = "none" /\ space[r] = Nobody
  BY <1>3, <1>8 DEF ContainersSound, CallsSound, IsRun
<1>12. CallsSound'
  <2>1. \A k \in Requests : Used(k)' => k <= asked'
    BY <1>1, <1>2, <1>3, <1>9 DEF CallsSound, Requests
  <2>2. \A call \in inbox' : Used(call[2])'
    BY <1>2, <1>9 DEF CallsSound, SpaceTypes
  <2>3. \A k \in Requests : <<"do", k>> \in inbox' =>
            docker'[k] = "none" /\ thread'[k] = "none" /\ space'[k] = Nobody
    BY <1>2, <1>11 DEF CallsSound, workerVars
  <2>4. \A k \in Requests : space'[k] # Nobody => Used(k)' /\ request'[k].kind = "create"
    BY <1>2, <1>7, <1>9, <1>11 DEF CallsSound, workerVars
  <2>5. \A k \in Requests : Used(k)' /\ request'[k].kind # "create" => space'[request'[k].space] # Nobody
    BY <1>2, <1>5, <1>7, <1>9 DEF CallsSound, workerVars, Nobody
  <2> QED
    BY <2>1, <2>2, <2>3, <2>4, <2>5 DEF CallsSound
<1>13. ContainersSound'
  <2>1. ~Live(r) /\ \A k \in Requests : Live(k)' <=> Live(k)
    BY <1>2, <1>11 DEF Live, workerVars
  <2>2. \A k \in Requests : docker'[k] # "none" \/ thread'[k] # "none" => k # r /\ IsRun(k)'
    BY <1>2, <1>9, <1>11 DEF ContainersSound, workerVars
  <2> QED
    BY <1>2, <1>7, <1>11, <2>1, <2>2 DEF ContainersSound, workerVars
<1>14. RoomsSound'
  BY <1>2 DEF RoomsSound, workerVars
<1>15. CancelledSound'
  BY <1>2, <1>5, <1>7 DEF CancelledSound, workerVars
<1> QED
  BY <1>10, <1>12, <1>13, <1>14, <1>15

LEMMA BrokerSteps ==
    ASSUME SpaceInv, \/ \E o \in Owners : Revoke(o)
                     \/ \E r \in Requests : Deny(r) \/ Return(r) \/ GiveUp(r) \/ Refuse(r)
    PROVE  SpaceInv'
<1> USE DEF SpaceInv
<1>1. ASSUME NEW o \in Owners, Revoke(o) PROVE SpaceInv'
  <2>1. UNCHANGED <<request, inbox, workerVars, boundVars>> /\ revoked' \subseteq Owners
    BY <1>1 DEF Revoke, SpaceTypes
  <2>2. RequestsKept /\ NoneCancelled
    BY <2>1, NoStepOfRequest DEF boundVars
  <2>3. SpaceTypes'
    BY <2>1 DEF SpaceTypes, workerVars, boundVars
  <2> QED
    BY <2>1, <2>2, <2>3, QuietStep DEF workerVars
<1>2. ASSUME NEW r \in Requests, Deny(r) PROVE SpaceInv'
  <2>1. /\ request[r].at \in {"waiting", "replied"} /\ request' = [request EXCEPT ![r].at = "cancelling"]
        /\ inbox' = inbox \cup {<<"cancel", r>>} /\ UNCHANGED <<revoked, workerVars, boundVars>>
    BY <1>2 DEF Deny, Goes
  <2>2. Used(r)
    BY <2>1 DEF Used
  <2>3. RequestsKept /\ NoneCancelled
    BY <2>1, <2>2, StepOfRequest DEF boundVars, Steps
  <2>4. SpaceTypes'
    BY <2>1, <2>3 DEF SpaceTypes, workerVars, boundVars, RequestsKept
  <2> QED
    BY <2>1, <2>2, <2>3, <2>4, QuietStep DEF workerVars
<1>3. ASSUME NEW r \in Requests, Return(r) \/ GiveUp(r) PROVE SpaceInv'
  <2>1. /\ request[r].at \in {"waiting", "replied", "cancelling"} /\ request' = [request EXCEPT ![r].at = "ended"]
        /\ UNCHANGED <<inbox, revoked, workerVars, asked, crashes>> /\ troubles' \in {troubles, troubles + 1}
    BY <1>3 DEF Return, GiveUp, Goes, Trouble, boundVars
  <2>2. Used(r)
    BY <2>1 DEF Used
  <2>3. RequestsKept /\ NoneCancelled
    BY <2>1, <2>2, StepOfRequest DEF Steps
  <2>4. SpaceTypes'
    BY <2>1, <2>3 DEF SpaceTypes, workerVars, RequestsKept
  <2> QED
    BY <2>1, <2>3, <2>4, QuietStep DEF workerVars
<1>4. ASSUME NEW r \in Requests, Refuse(r) PROVE SpaceInv'
  <2>1. inbox' \subseteq inbox /\ Reply(r, "ended") /\ UNCHANGED <<revoked, workerVars, boundVars>>
    BY <1>4 DEF Refuse, Take
  <2>2. RequestsKept /\ NoneCancelled
    BY <2>1, ReplyKept DEF boundVars, Steps
  <2>3. SpaceTypes'
    BY <2>1, <2>2 DEF SpaceTypes, workerVars, boundVars, RequestsKept
  <2> QED
    BY <2>1, <2>2, <2>3, QuietStep DEF workerVars
<1> QED
  BY <1>1, <1>2, <1>3, <1>4

---------------------------------------------------------------------------
(* The worker.                                                             *)

LEMMA LapseStep == ASSUME SpaceInv, NEW s \in Requests, Lapse(s) PROVE SpaceInv'
<1> USE DEF SpaceInv
<1>1. /\ space' = [space EXCEPT ![s].due = TRUE] /\ space[s].status \notin Ended
      /\ UNCHANGED <<brokerVars, up, disk, docker, thread, tombs, course, boundVars>>
  BY DEF Lapse, Active
<1>2. PICK old \in Recorded : old = space[s]
  BY <1>1, SpaceFields DEF Ended
<1>3. PICK new : new = [old EXCEPT !.due = TRUE]
  OBVIOUS
<1>4. /\ new \in Recorded /\ new.status = old.status /\ new.container = old.container
      /\ new.owner = old.owner /\ new.create = old.create /\ new # Nobody /\ old # Nobody
  <2>1. new.due = TRUE /\ new.status = old.status /\ new.container = old.container
        /\ new.owner = old.owner /\ new.create = old.create
    BY <1>3 DEF Recorded
  <2>2. new \in Recorded
    BY <1>3 DEF Recorded
  <2>3. \A any \in Recorded : any.status # "none"
    BY DEF Recorded
  <2>4. Nobody.status = "none"
    BY DEF Nobody
  <2> QED
    BY <2>1, <2>2, <2>3, <2>4
<1>5. space' = [space EXCEPT ![s] = new]
  BY <1>1, <1>2, <1>3
<1>6. /\ \A t \in Requests : /\ space'[t].status = space[t].status /\ space'[t].container = space[t].container
                             /\ space'[t].owner = space[t].owner /\ space'[t].create = space[t].create
                             /\ space'[t] # Nobody <=> space[t] # Nobody
      /\ space' \in [Requests -> {Nobody} \cup Recorded]
  BY <1>2, <1>4, <1>5 DEF SpaceTypes
<1>7. SpaceTypes'
  BY <1>1, <1>6 DEF SpaceTypes, brokerVars, boundVars
<1>8. \A r \in Requests : Used(r) => request[r].space \in Requests
  BY RequestFields
<1>9. CallsSound'
  BY <1>1, <1>6, <1>8 DEF CallsSound, Used, brokerVars, boundVars
<1>10. ContainersSound'
  <2>1. \A r \in Requests : Live(r)' <=> Live(r)
    BY <1>1 DEF Live
  <2>2. \A r \in Requests : Live(r) \/ thread[r] # "none" => request[r].space \in Requests
    BY <1>8 DEF ContainersSound, Live, IsRun
  <2> QED
    BY <1>1, <1>6, <2>1, <2>2 DEF ContainersSound, IsRun, Used, brokerVars
<1>11. RoomsSound'
  BY <1>1, <1>6 DEF RoomsSound, SpaceTypes
<1>12. CancelledSound'
  <2>1. \A r \in Requests : request[r].at = "cancelled" => request[r].space \in Requests
    BY <1>8 DEF Used
  <2> QED
    BY <1>1, <1>6, <2>1 DEF CancelledSound, SpaceTypes, brokerVars
<1> QED
  BY <1>7, <1>9, <1>10, <1>11, <1>12

LEMMA DieStep == ASSUME SpaceInv, Die PROVE SpaceInv'
<1> USE DEF SpaceInv
<1>1. /\ up' = FALSE /\ inbox' = {} /\ crashes' = crashes + 1 /\ thread' = [r \in Requests |-> "none"]
      /\ request' = [r \in Requests |-> IF request[r].at \in {"waiting", "cancelling"}
                                          THEN [request[r] EXCEPT !.at = "ended"] ELSE request[r]]
      /\ UNCHANGED <<revoked, space, disk, docker, tombs, course, asked, troubles>>
  BY DEF Die
<1>2. ASSUME NEW r \in Requests
      PROVE  /\ request'[r] \in {Unused} \cup AskedFor /\ (Used(r)' <=> Used(r))
             /\ request'[r].at = "cancelled" => request[r].at = "cancelled"
             /\ Used(r) => /\ request'[r].kind = request[r].kind /\ request'[r].owner = request[r].owner
                           /\ request'[r].space = request[r].space
  <2>1. CASE request[r].at \in {"waiting", "cancelling"}
    <3>1. PICK old \in AskedFor : old = request[r]
      BY <2>1, RequestFields DEF Steps
    <3>2. PICK new : new = [old EXCEPT !.at = "ended"]
      OBVIOUS
    <3>3. new \in AskedFor /\ new.at = "ended" /\ new.kind = old.kind /\ new.owner = old.owner /\ new.space = old.space
      BY <3>2 DEF AskedFor, Steps
    <3>4. request'[r] = new
      BY <1>1, <2>1, <3>1, <3>2
    <3> QED
      BY <2>1, <3>1, <3>3, <3>4 DEF Used
  <2>2. CASE request[r].at \notin {"waiting", "cancelling"}
    BY <1>1, <2>2 DEF SpaceTypes, Used
  <2> QED
    BY <2>1, <2>2
<1>3. RequestsKept /\ NoneCancelled
  BY <1>1, <1>2 DEF RequestsKept, NoneCancelled
<1>4. Withdrawn({})
  BY <1>1 DEF Withdrawn, SpaceTypes
<1>5. SpaceTypes'
  <2>1. thread' \in [Requests -> {"none", "prepared", "attached", "removed", "unremoved"}]
    BY <1>1
  <2>2. crashes \in Nat
    BY DEF SpaceTypes
  <2>3. crashes' \in Nat
    BY <1>1, <2>2
  <2>4. up' \in BOOLEAN
    BY <1>1
  <2>5. inbox' \subseteq {"do", "cancel"} \X Requests
    BY <1>1
  <2> QED
    BY <1>1, <1>3, <2>1, <2>3, <2>4, <2>5 DEF SpaceTypes, RequestsKept
<1>6. CallsSound' /\ ContainersSound' /\ RoomsSound' /\ CancelledSound'
  BY <1>1, <1>3, <1>4, WithdrawSound DEF NoneCancelled, SpaceTypes
<1> QED
  BY <1>5, <1>6

LEMMA CreateFailsStep == ASSUME SpaceInv, NEW r \in Requests, CreateFails(r) PROVE SpaceInv'
<1> USE DEF SpaceInv
<1>1. /\ <<"do", r>> \in inbox /\ inbox' \subseteq inbox /\ disk' = disk \cup {r} /\ Reply(r, "ended")
      /\ troubles' = troubles + 1
      /\ UNCHANGED <<revoked, up, space, docker, thread, tombs, course, asked, crashes>>
  BY DEF CreateFails, Take, Trouble
<1>2. RequestsKept /\ NoneCancelled
  BY <1>1, ReplyKept DEF Steps
<1>3. space[r].status = "none"
  BY <1>1 DEF CallsSound, Nobody
<1>4. SpaceTypes'
  BY <1>1, <1>2 DEF SpaceTypes, RequestsKept
<1>5. CallsSound' /\ ContainersSound' /\ CancelledSound'
  <2>1. CallsSound'
    BY <1>1, <1>2 DEF CallsSound, RequestsKept, SpaceTypes
  <2>2. ContainersSound'
    BY <1>1, <1>2 DEF ContainersSound, RequestsKept, IsRun, Live
  <2>3. CancelledSound'
    BY <1>1, <1>2 DEF CancelledSound, RequestsKept, NoneCancelled, Used
  <2> QED
    BY <2>1, <2>2, <2>3
<1>6. RoomsSound'
  BY <1>1, <1>3 DEF RoomsSound
<1> QED
  BY <1>4, <1>5, <1>6

\* A space is prepared again for another request, or a new one is made.
LEMMA CreateStep == ASSUME SpaceInv, NEW r \in Requests, Create(r) PROVE SpaceInv'
<1> USE DEF SpaceInv
<1>1. /\ request[r].at # "unused" /\ request[r].kind = "create" /\ <<"do", r>> \in inbox
      /\ inbox' = inbox \ {<<"do", r>>} /\ course = "open" /\ r \notin tombs /\ Reply(r, "replied")
      /\ UNCHANGED <<revoked, up, docker, thread, tombs, course, boundVars>>
  BY DEF Create, Take, Refused
<1>2. RequestsKept /\ NoneCancelled
  BY <1>1, ReplyKept DEF boundVars, Steps
<1>3. /\ Used(r) /\ request[r].owner \in Owners /\ space[r] = Nobody /\ space[r].status = "none"
      /\ docker[r] = "none" /\ thread[r] = "none"
  BY <1>1, RequestFields DEF CallsSound, Used, Nobody
<1>4. PICK o \in Owners : o = request[r].owner
  BY <1>3
<1>5. CASE ActiveOf(o) = {} /\ space' = [space EXCEPT ![r] = Fresh(r)] /\ disk' = disk \cup {r}
  <2>1. PICK new : new = Fresh(r)
    OBVIOUS
  <2>2. /\ new \in Recorded /\ new.status = "ready" /\ new.owner = o /\ new.container = None /\ new.create = r
    BY <1>4, <2>1 DEF Fresh, Recorded, Statuses
  <2>3. space'[r] = new /\ \A s \in Requests \ {r} : space'[s] = space[s]
    BY <1>5, <2>1 DEF SpaceTypes
  <2>4. space' \in [Requests -> {Nobody} \cup Recorded]
    BY <1>5, <2>1, <2>2 DEF SpaceTypes
  <2>5. new # Nobody
    BY <2>2 DEF Nobody
  <2>6. SpaceTypes'
    BY <1>1, <1>2, <1>5, <2>4 DEF SpaceTypes, RequestsKept, boundVars
  <2>7. CallsSound'
    <3>1. \A k \in Requests : <<"do", k>> \in inbox' =>
              docker'[k] = "none" /\ thread'[k] = "none" /\ space'[k] = Nobody
      BY <1>1, <2>3 DEF CallsSound
    <3>2. \A k \in Requests : space'[k] # Nobody => Used(k)' /\ request'[k].kind = "create"
      BY <1>1, <1>2, <1>3, <2>3 DEF CallsSound, RequestsKept
    <3>3. \A k \in Requests : Used(k)' /\ request'[k].kind # "create" => space'[request'[k].space] # Nobody
      BY <1>2, <2>3, <2>5, RequestFields DEF CallsSound, RequestsKept
    <3>4. \A call \in inbox' : Used(call[2])'
      BY <1>1, <1>2 DEF CallsSound, RequestsKept, SpaceTypes
    <3> QED
      BY <1>2, <3>1, <3>2, <3>3, <3>4 DEF CallsSound, RequestsKept
  <2>8. \A k \in Requests : Used(k) /\ request[k].kind # "create" => request[k].space # r /\ request[k].space \in Requests
    BY <1>3, RequestFields DEF CallsSound
  <2>9. ContainersSound'
    <3>1. \A k \in Requests : Live(k)' <=> Live(k)
      BY <1>1 DEF Live
    <3>2. \A k \in Requests : IsRun(k) => /\ IsRun(k)' /\ request'[k].space = request[k].space
                                          /\ space'[request[k].space] = space[request[k].space]
      BY <1>2, <2>3, <2>8 DEF IsRun, RequestsKept
    <3>3. \A k \in Requests : Live(k) \/ thread[k] # "none" => IsRun(k)
      BY DEF ContainersSound, Live
    <3> QED
      BY <1>1, <3>1, <3>2, <3>3 DEF ContainersSound
  <2>10. RoomsSound'
    <3>1. \A s \in Requests : space[s].status \in Usable => space[s].owner # o
      BY <1>5 DEF ActiveOf, Active, Ended, Usable
    <3>2. \A s, t \in Requests : space'[s].status \in Usable /\ space'[t].status \in Usable
              /\ space'[s].owner = space'[t].owner => s = t
      BY <2>2, <2>3, <3>1 DEF RoomsSound
    <3>3. \A s \in disk' : space'[s].status \in Usable \cup {"none", "cleanup_failed"}
      BY <1>5, <2>2, <2>3 DEF RoomsSound, SpaceTypes, Usable
    <3> QED
      BY <1>1, <3>2, <3>3 DEF RoomsSound
  <2>11. CancelledSound'
    <3>1. \A k \in tombs', s \in Requests : space'[s].status \in Usable => space'[s].create # k
      BY <1>1, <2>2, <2>3 DEF CancelledSound
    <3>2. ASSUME NEW k \in Requests, request'[k].at = "cancelled"
          PROVE  IF request'[k].kind = "create" THEN k \in tombs'
                 ELSE space'[request'[k].space].status \in Over /\ space'[request'[k].space].container # k
      <4>1. request[k].at = "cancelled" /\ Used(k)
        BY <1>2, <3>2 DEF NoneCancelled, Used
      <4> QED
        BY <1>1, <1>2, <2>3, <2>8, <4>1 DEF CancelledSound, RequestsKept
    <3> QED
      BY <3>1, <3>2 DEF CancelledSound
  <2> QED
    BY <2>6, <2>7, <2>9, <2>10, <2>11
<1>6. ASSUME NEW s \in Requests, s \in ActiveOf(o), space[s].status = "ready",
             space' = [space EXCEPT ![s].create = r, ![s].due = FALSE], disk' = disk
      PROVE  SpaceInv'
  <2>1. PICK old \in Recorded : old = space[s]
    BY <1>6, SpaceFields
  <2>2. PICK new : new = [old EXCEPT !.create = r, !.due = FALSE]
    OBVIOUS
  <2>3. new.status = old.status /\ new.owner = old.owner /\ new.container = old.container /\ new.create = r
    BY <2>2 DEF Recorded
  <2>4. new \in Recorded
    BY <2>2 DEF Recorded
  <2>5. space' = [space EXCEPT ![s] = new]
    BY <1>6, <2>1, <2>2
  <2>6. /\ \A t \in Requests : /\ space'[t].status = space[t].status /\ space'[t].container = space[t].container
                               /\ space'[t].owner = space[t].owner
                               /\ space'[t] # Nobody <=> space[t] # Nobody
                               /\ space'[t].create = IF t = s THEN r ELSE space[t].create
        /\ space' \in [Requests -> {Nobody} \cup Recorded]
    <3>1. \A any \in Recorded : any.status # "none" /\ any # Nobody
      BY DEF Recorded, Nobody
    <3> QED
      BY <2>1, <2>3, <2>4, <2>5, <3>1 DEF SpaceTypes
  <2>7. SpaceTypes'
    BY <1>1, <1>2, <1>6, <2>6 DEF SpaceTypes, RequestsKept, boundVars
  <2>8. \A k \in Requests : Used(k) => request[k].space \in Requests
    BY RequestFields
  <2>9. CallsSound'
    <3>1. \A k \in Requests : <<"do", k>> \in inbox' =>
              docker'[k] = "none" /\ thread'[k] = "none" /\ space'[k] = Nobody
      BY <1>1, <2>6 DEF CallsSound
    <3>2. \A call \in inbox' : Used(call[2])'
      BY <1>1, <1>2 DEF CallsSound, RequestsKept, SpaceTypes
    <3> QED
      BY <1>2, <2>6, <2>8, <3>1, <3>2 DEF CallsSound, RequestsKept
  <2>10. ContainersSound'
    <3>1. \A k \in Requests : Live(k)' <=> Live(k)
      BY <1>1 DEF Live
    <3>2. \A k \in Requests : IsRun(k) => /\ IsRun(k)' /\ request'[k].space = request[k].space
                                          /\ request[k].space \in Requests
      BY <1>2, <2>8 DEF IsRun, RequestsKept
    <3>3. \A k \in Requests : Live(k) \/ thread[k] # "none" => IsRun(k)
      BY DEF ContainersSound, Live
    <3> QED
      BY <1>1, <2>6, <3>1, <3>2, <3>3 DEF ContainersSound
  <2>11. RoomsSound'
    BY <1>1, <1>6, <2>6 DEF RoomsSound, SpaceTypes
  <2>12. CancelledSound'
    <3>1. \A k \in tombs', t \in Requests : space'[t].status \in Usable => space'[t].create # k
      BY <1>1, <2>6 DEF CancelledSound
    <3>2. ASSUME NEW k \in Requests, request'[k].at = "cancelled"
          PROVE  IF request'[k].kind = "create" THEN k \in tombs'
                 ELSE space'[request'[k].space].status \in Over /\ space'[request'[k].space].container # k
      <4>1. request[k].at = "cancelled" /\ Used(k)
        BY <1>2, <3>2 DEF NoneCancelled, Used
      <4> QED
        BY <1>1, <1>2, <2>6, <2>8, <4>1 DEF CancelledSound, RequestsKept
    <3> QED
      BY <3>1, <3>2 DEF CancelledSound
  <2> QED
    BY <2>7, <2>9, <2>10, <2>11, <2>12
<1>7. \/ /\ \E s \in ActiveOf(o) : /\ space[s].status = "ready"
                                   /\ space' = [space EXCEPT ![s].create = r, ![s].due = FALSE]
         /\ disk' = disk
      \/ /\ ActiveOf(o) = {} /\ space' = [space EXCEPT ![r] = Fresh(r)] /\ disk' = disk \cup {r}
  BY <1>4 DEF Create
<1>8. ActiveOf(o) \subseteq Requests
  BY DEF ActiveOf
<1> QED
  BY <1>5, <1>6, <1>7, <1>8

\* Containers and threads go on, and no container comes to life.
LEMMA ContainerStep ==
    ASSUME SpaceInv, UNCHANGED <<brokerVars, up, space, disk, tombs, course, asked, crashes>>, troubles' \in Nat,
           docker' \in [Requests -> Containers],
           thread' \in [Requests -> {"none", "prepared", "attached", "removed", "unremoved"}],
           \A k \in Requests :
               /\ docker'[k] # "none" => docker[k] # "none"
               /\ thread'[k] # "none" => thread[k] # "none"
               /\ Live(k)' => Live(k)
               /\ docker'[k] = "late" => thread'[k] = "none"
               /\ thread'[k] = "removed" => docker'[k] = "none"
    PROVE  SpaceInv'
<1> USE DEF SpaceInv
<1>1. SpaceTypes'
  BY DEF SpaceTypes, brokerVars
<1>2. CallsSound'
  BY DEF CallsSound, Used, brokerVars
<1>3. ContainersSound'
  BY DEF ContainersSound, IsRun, Used, brokerVars
<1>4. RoomsSound' /\ CancelledSound'
  BY DEF RoomsSound, CancelledSound, brokerVars
<1> QED
  BY <1>1, <1>2, <1>3, <1>4

LEMMA ContainerSteps ==
    ASSUME SpaceInv, NEW r \in Requests, Launch(r) \/ DockerStep(r) \/ RemoveContainer(r)
    PROVE  SpaceInv'
<1> USE DEF SpaceInv
<1>1. CASE Launch(r)
  <2>1. /\ thread[r] = "prepared" /\ thread' = [thread EXCEPT ![r] = "attached"]
        /\ docker' = [docker EXCEPT ![r] = Launched(docker[r])]
        /\ UNCHANGED <<brokerVars, up, space, disk, tombs, course, asked, crashes, troubles>>
    BY <1>1 DEF Launch, boundVars
  <2>2. docker[r] # "late"
    BY <2>1 DEF ContainersSound
  <2>3. docker' \in [Requests -> Containers]
    BY <2>1 DEF SpaceTypes, Containers, Launched
  <2>4. thread' \in [Requests -> {"none", "prepared", "attached", "removed", "unremoved"}]
    BY <2>1 DEF SpaceTypes
  <2>5. \A k \in Requests :
               /\ docker'[k] # "none" => docker[k] # "none"
               /\ thread'[k] # "none" => thread[k] # "none"
               /\ Live(k)' => Live(k)
               /\ docker'[k] = "late" => thread'[k] = "none"
               /\ thread'[k] = "removed" => docker'[k] = "none"
    BY <2>1, <2>2 DEF SpaceTypes, Launched, Live, ContainersSound
  <2> QED
    BY <2>1, <2>3, <2>4, <2>5, ContainerStep DEF SpaceTypes
<1>2. CASE DockerStep(r)
  <2>1. PICK next : next = Progress[docker[r]]
    OBVIOUS
  <2>2. /\ \/ docker[r] = "late" /\ next = "created"
           \/ docker[r] = "starting" /\ next = "started"
           \/ docker[r] = "started" /\ next = "created"
        /\ docker' = [docker EXCEPT ![r] = next]
        /\ UNCHANGED <<brokerVars, up, space, disk, thread, tombs, course, asked, crashes, troubles>>
    BY <1>2, <2>1 DEF DockerStep, Progress, boundVars
  <2>3. docker' \in [Requests -> Containers]
    BY <2>2 DEF SpaceTypes, Containers
  <2>4. \A k \in Requests :
               /\ docker'[k] # "none" => docker[k] # "none"
               /\ thread'[k] # "none" => thread[k] # "none"
               /\ Live(k)' => Live(k)
               /\ docker'[k] = "late" => thread'[k] = "none"
               /\ thread'[k] = "removed" => docker'[k] = "none"
    BY <2>2 DEF SpaceTypes, Live, ContainersSound
  <2> QED
    BY <2>2, <2>3, <2>4, ContainerStep DEF SpaceTypes
<1>3. CASE RemoveContainer(r)
  <2>1. PICK state \in {docker[r], Removed(docker[r])}, end \in {"removed", "unremoved"} :
            /\ docker' = [docker EXCEPT ![r] = state] /\ thread' = [thread EXCEPT ![r] = end]
            /\ end = "removed" => state = Removed(docker[r])
            /\ troubles' \in {troubles, troubles + 1}
    BY <1>3 DEF RemoveContainer, Trouble
  <2>2. thread[r] = "attached" /\ UNCHANGED <<brokerVars, up, space, disk, tombs, course, asked, crashes>>
    BY <1>3 DEF RemoveContainer
  <2>3. docker[r] # "late" /\ state \in {docker[r], "none"} /\ (end = "removed" => state = "none")
    BY <2>1, <2>2 DEF ContainersSound, Removed
  <2>4. docker' \in [Requests -> Containers]
    BY <2>1, <2>3 DEF SpaceTypes, Containers
  <2>5. thread' \in [Requests -> {"none", "prepared", "attached", "removed", "unremoved"}]
    BY <2>1 DEF SpaceTypes
  <2>6. \A k \in Requests :
               /\ docker'[k] # "none" => docker[k] # "none"
               /\ thread'[k] # "none" => thread[k] # "none"
               /\ Live(k)' => Live(k)
               /\ docker'[k] = "late" => thread'[k] = "none"
               /\ thread'[k] = "removed" => docker'[k] = "none"
    BY <2>1, <2>2, <2>3 DEF SpaceTypes, Live, ContainersSound
  <2>7. troubles' \in Nat
    BY <2>1 DEF SpaceTypes
  <2> QED
    BY <2>2, <2>4, <2>5, <2>6, <2>7, ContainerStep
<1> QED
  BY <1>1, <1>2, <1>3

\* A ready space starts a program: it runs, or the creation is not confirmed and
\* the space is blocked.
LEMMA RunStep == ASSUME SpaceInv, NEW r \in Requests, Run(r) PROVE SpaceInv'
<1> USE DEF SpaceInv
<1>1. PICK s : s = request[r].space
  OBVIOUS
<1>2. /\ request[r].at # "unused" /\ request[r].kind = "run" /\ <<"do", r>> \in inbox
      /\ inbox' = inbox \ {<<"do", r>>} /\ course = "open" /\ space[s].status = "ready"
      /\ UNCHANGED <<revoked, up, disk, tombs, course, asked, crashes>>
  BY <1>1 DEF Run, Take
<1>3. IsRun(r) /\ Used(r) /\ s \in Requests /\ docker[r] = "none" /\ thread[r] = "none" /\ space[r] = Nobody
  BY <1>1, <1>2, RequestFields DEF CallsSound, Used, IsRun
<1>4. PICK old \in Recorded : old = space[s]
  BY <1>2, <1>3, SpaceFields
<1>5. PICK state \in Containers, step \in {"none", "prepared"}, status \in {"running", "cleanup_failed"} :
          /\ space' = [space EXCEPT ![s] = [old EXCEPT !.status = status, !.container = r,
                                                       !.create = None, !.due = FALSE]]
          /\ docker' = [docker EXCEPT ![r] = state] /\ thread' = [thread EXCEPT ![r] = step]
          /\ troubles' \in {troubles, troubles + 1}
          /\ request' = request \/ Reply(r, "ended")
          /\ state = "late" => step = "none"
  <2>1. PICK running : running = [space EXCEPT ![s].status = "running", ![s].container = r,
                                              ![s].create = None, ![s].due = FALSE]
    OBVIOUS
  <2>2. running = [space EXCEPT ![s] = [old EXCEPT !.status = "running", !.container = r,
                                                   !.create = None, !.due = FALSE]]
    BY <1>3, <1>4, <2>1 DEF SpaceTypes
  <2>3. CASE /\ space' = running /\ docker' = [docker EXCEPT ![r] = "created"]
             /\ thread' = [thread EXCEPT ![r] = "prepared"] /\ UNCHANGED <<troubles, request>>
    BY <2>2, <2>3 DEF Containers
  <2>4. ASSUME NEW new \in {"none", "late", "created"}, space' = [running EXCEPT ![s].status = "cleanup_failed"],
               docker' = [docker EXCEPT ![r] = new], Reply(r, "ended"), thread' = thread, troubles' = troubles + 1
        PROVE  /\ space' = [space EXCEPT ![s] = [old EXCEPT !.status = "cleanup_failed", !.container = r,
                                                            !.create = None, !.due = FALSE]]
               /\ docker' = [docker EXCEPT ![r] = new] /\ thread' = [thread EXCEPT ![r] = "none"]
               /\ new \in Containers
    <3>1. thread' = [thread EXCEPT ![r] = "none"] /\ new \in Containers
      BY <1>3, <2>4 DEF SpaceTypes, Containers
    <3>2. PICK first : first = [old EXCEPT !.status = "running", !.container = r, !.create = None, !.due = FALSE]
      OBVIOUS
    <3>3. [first EXCEPT !.status = "cleanup_failed"]
              = [old EXCEPT !.status = "cleanup_failed", !.container = r, !.create = None, !.due = FALSE]
      BY <3>2 DEF Recorded
    <3>4. running = [space EXCEPT ![s] = first]
      BY <2>2, <3>2
    <3>5. running[s] = first
      BY <1>3, <3>4 DEF SpaceTypes
    <3>6. space' = [running EXCEPT ![s] = [first EXCEPT !.status = "cleanup_failed"]]
      BY <2>4, <3>5
    <3>7. space' = [space EXCEPT ![s] = [first EXCEPT !.status = "cleanup_failed"]]
      BY <3>4, <3>6 DEF SpaceTypes
    <3> QED
      BY <2>4, <3>1, <3>3, <3>7
  <2>5. CASE /\ space' = running /\ UNCHANGED docker /\ Reply(r, "ended") /\ UNCHANGED thread /\ Trouble
    <3>1. docker' = [docker EXCEPT ![r] = "none"] /\ thread' = [thread EXCEPT ![r] = "none"]
      BY <1>3, <2>5 DEF SpaceTypes
    <3>2. troubles' \in {troubles, troubles + 1} /\ "none" \in Containers
      BY <2>5 DEF Trouble, Containers
    <3> QED
      BY <2>2, <2>5, <3>1, <3>2
  <2>6. \/ /\ space' = running /\ docker' = [docker EXCEPT ![r] = "created"]
           /\ thread' = [thread EXCEPT ![r] = "prepared"] /\ UNCHANGED <<troubles, request>>
        \/ /\ Trouble /\ Reply(r, "ended") /\ UNCHANGED thread
           /\ \/ /\ space' = [running EXCEPT ![s].status = "cleanup_failed"]
                 /\ \E new \in {"none", "late", "created"} : docker' = [docker EXCEPT ![r] = new]
              \/ space' = running /\ UNCHANGED docker
    BY <1>1, <2>1 DEF Run
  <2>7. Trouble => troubles' = troubles + 1
    BY DEF Trouble
  <2> QED
    BY <2>3, <2>4, <2>5, <2>6, <2>7
<1>6. PICK new : new = [old EXCEPT !.status = status, !.container = r, !.create = None, !.due = FALSE]
  OBVIOUS
<1>7. new.status = status /\ new.container = r /\ new.create = None /\ new.owner = old.owner
  BY <1>6 DEF Recorded
<1>8. new \in Recorded
  BY <1>6 DEF Recorded, Statuses
<1>9. /\ space'[s] = new /\ \A t \in Requests \ {s} : space'[t] = space[t]
      /\ space' \in [Requests -> {Nobody} \cup Recorded]
  BY <1>3, <1>5, <1>6, <1>8 DEF SpaceTypes
<1>10. /\ docker'[r] = state /\ thread'[r] = step
       /\ \A k \in Requests \ {r} : docker'[k] = docker[k] /\ thread'[k] = thread[k]
       /\ docker' \in [Requests -> Containers]
       /\ thread' \in [Requests -> {"none", "prepared", "attached", "removed", "unremoved"}]
  BY <1>5 DEF SpaceTypes
<1>11. RequestsKept /\ NoneCancelled
  BY <1>2, <1>5, NoStepOfRequest, ReplyKept DEF Steps
<1>12. SpaceTypes'
  <2>1. troubles' \in Nat
    BY <1>5 DEF SpaceTypes
  <2> QED
    BY <1>2, <1>9, <1>10, <1>11, <2>1 DEF SpaceTypes, RequestsKept
<1>13. \A t \in Requests : space'[t] # Nobody <=> space[t] # Nobody
  <2>1. \A any \in Recorded : any # Nobody
    BY DEF Recorded, Nobody
  <2> QED
    BY <1>4, <1>8, <1>9, <2>1
<1>14. CallsSound'
  <2>1. \A k \in Requests : <<"do", k>> \in inbox' =>
            docker'[k] = "none" /\ thread'[k] = "none" /\ space'[k] = Nobody
    BY <1>2, <1>10, <1>13 DEF CallsSound
  <2>2. \A call \in inbox' : Used(call[2])'
    BY <1>2, <1>11 DEF CallsSound, RequestsKept, SpaceTypes
  <2> QED
    BY <1>11, <1>13, <2>1, <2>2, RequestFields DEF CallsSound, RequestsKept
<1>15. ASSUME NEW k \in Requests, k # r
       PROVE  /\ (Live(k)' <=> Live(k))
              /\ Live(k) \/ thread[k] # "none" => IsRun(k) /\ request[k].space \in Requests /\ request[k].space # s
  <2>1. Live(k)' <=> Live(k)
    BY <1>10, <1>15 DEF Live
  <2>2. Live(k) \/ thread[k] # "none" => IsRun(k) /\ request[k].space \in Requests
    BY RequestFields DEF ContainersSound, Live, IsRun
  <2> QED
    BY <1>2, <2>1, <2>2 DEF ContainersSound
<1>16. ContainersSound'
  <2>1. ASSUME NEW k \in Requests
        PROVE  /\ docker'[k] # "none" \/ thread'[k] # "none" => IsRun(k)'
               /\ Live(k)' => /\ space'[request'[k].space].status \in {"running", "cleanup_failed"}
                              /\ space'[request'[k].space].container = k
               /\ docker'[k] = "late" => thread'[k] = "none"
               /\ thread'[k] # "none" =>
                     /\ space'[request'[k].space].status # "ready"
                     /\ space'[request'[k].space].status = "running" => space'[request'[k].space].container = k
               /\ thread'[k] = "removed" => docker'[k] = "none"
    <3>1. CASE k = r
      <4>1. IsRun(r)' /\ request'[r].space = s
        BY <1>1, <1>3, <1>11 DEF IsRun, RequestsKept
      <4> QED
        BY <1>5, <1>7, <1>9, <1>10, <3>1, <4>1
    <3>2. CASE k # r
      <4>1. IsRun(k) => IsRun(k)' /\ request'[k].space = request[k].space
        BY <1>11 DEF IsRun, RequestsKept
      <4> QED
        BY <1>9, <1>10, <1>15, <3>2, <4>1 DEF ContainersSound
    <3> QED
      BY <3>1, <3>2
  <2> QED
    BY <2>1 DEF ContainersSound
<1>17. RoomsSound'
  <2>1. \A t \in Requests : space'[t].owner = space[t].owner
                            /\ (space'[t].status \in Usable => space[t].status \in Usable)
    BY <1>2, <1>4, <1>7, <1>9 DEF Usable
  <2>2. \A t \in disk' : space'[t].status \in Usable \cup {"none", "cleanup_failed"}
    BY <1>2, <1>5, <1>7, <1>9 DEF RoomsSound, SpaceTypes, Usable
  <2> QED
    BY <1>2, <2>1, <2>2 DEF RoomsSound
<1>18. CancelledSound'
  <2>1. \A k \in tombs', t \in Requests : space'[t].status \in Usable => space'[t].create # k
    BY <1>2, <1>7, <1>9, SpaceAssumption DEF CancelledSound, SpaceTypes
  <2>2. ASSUME NEW k \in Requests, request'[k].at = "cancelled"
        PROVE  IF request'[k].kind = "create" THEN k \in tombs'
               ELSE space'[request'[k].space].status \in Over /\ space'[request'[k].space].container # k
    <3>1. request[k].at = "cancelled" /\ Used(k)
      BY <1>11, <2>2 DEF NoneCancelled, Used
    <3>2. request[k].kind # "create" => request[k].space # s /\ request[k].space \in Requests
      BY <1>2, <3>1, RequestFields DEF CancelledSound, Over
    <3> QED
      BY <1>2, <1>9, <1>11, <3>1, <3>2 DEF CancelledSound, RequestsKept
  <2> QED
    BY <2>1, <2>2 DEF CancelledSound
<1> QED
  BY <1>12, <1>14, <1>16, <1>17, <1>18

\* The thread comes back to its space, whatever became of it.
LEMMA FinishStep == ASSUME SpaceInv, NEW r \in Requests, Finish(r) PROVE SpaceInv'
<1> USE DEF SpaceInv
<1>1. PICK s : s = request[r].space
  OBVIOUS
<1>2. PICK step \in {"replied", "ended"} : Reply(r, step)
  BY DEF Finish
<1>3. /\ thread[r] \in {"removed", "unremoved"} /\ thread' = [thread EXCEPT ![r] = "none"]
      /\ UNCHANGED <<inbox, revoked, up, disk, docker, tombs, course, boundVars>>
  BY DEF Finish
<1>4. IsRun(r) /\ Used(r) /\ s \in Requests /\ space[s] # Nobody
  BY <1>1, <1>3, RequestFields DEF ContainersSound, IsRun, CallsSound
<1>5. PICK old \in Recorded : old = space[s]
  BY <1>4, SpaceFields
<1>6. PICK new \in Recorded :
          /\ space' = [space EXCEPT ![s] = new]
          /\ new.owner = old.owner /\ new.create = old.create
          /\ \/ new = old
             \/ old.status # "forgotten" /\ new.status = "cleanup_failed" /\ new.container = old.container
             \/ old.status = "running" /\ new.status = "ready" /\ new.container = None /\ thread[r] = "removed"
  <2>1. CASE thread[r] = "unremoved" /\ space[s].status # "forgotten"
    <3>1. space' = [space EXCEPT ![s].status = "cleanup_failed"]
      BY <1>1, <2>1 DEF Finish
    <3>2. PICK new : new = [old EXCEPT !.status = "cleanup_failed"]
      OBVIOUS
    <3>3. new \in Recorded /\ new.status = "cleanup_failed" /\ new.container = old.container
          /\ new.owner = old.owner /\ new.create = old.create
      BY <3>2 DEF Recorded, Statuses
    <3>4. space' = [space EXCEPT ![s] = new]
      BY <1>5, <3>1, <3>2
    <3> QED
      BY <1>5, <2>1, <3>3, <3>4
  <2>2. CASE thread[r] = "removed" /\ space[s].status = "running"
    <3>1. space' = [space EXCEPT ![s].status = "ready", ![s].container = None]
      BY <1>1, <2>2 DEF Finish
    <3>2. PICK new : new = [old EXCEPT !.status = "ready", !.container = None]
      OBVIOUS
    <3>3. new.status = "ready" /\ new.container = None /\ new.owner = old.owner /\ new.create = old.create
      BY <3>2 DEF Recorded
    <3>4. new \in Recorded
      BY <3>2 DEF Recorded, Statuses
    <3>5. space' = [space EXCEPT ![s] = new]
      BY <1>5, <3>1, <3>2
    <3> QED
      BY <1>5, <2>2, <3>3, <3>4, <3>5
  <2>3. CASE ~(thread[r] = "unremoved" /\ space[s].status # "forgotten")
             /\ ~(thread[r] = "removed" /\ space[s].status = "running")
    <3>1. space' = space
      BY <1>1, <2>3 DEF Finish
    <3>2. space' = [space EXCEPT ![s] = old]
      BY <1>4, <1>5, <3>1 DEF SpaceTypes
    <3> QED
      BY <3>2
  <2> QED
    BY <2>1, <2>2, <2>3
<1>7. /\ space'[s] = new /\ \A t \in Requests \ {s} : space'[t] = space[t]
      /\ space' \in [Requests -> {Nobody} \cup Recorded]
  BY <1>4, <1>6 DEF SpaceTypes
<1>8. /\ thread'[r] = "none" /\ \A k \in Requests \ {r} : thread'[k] = thread[k]
      /\ thread' \in [Requests -> {"none", "prepared", "attached", "removed", "unremoved"}]
  BY <1>3 DEF SpaceTypes
<1>9. RequestsKept /\ NoneCancelled
  BY <1>2, <1>3, ReplyKept DEF Steps, boundVars
<1>10. SpaceTypes'
  BY <1>3, <1>7, <1>8, <1>9 DEF SpaceTypes, RequestsKept, boundVars
<1>11. \A t \in Requests : space'[t] # Nobody <=> space[t] # Nobody
  <2>1. \A any \in Recorded : any # Nobody
    BY DEF Recorded, Nobody
  <2> QED
    BY <1>5, <1>6, <1>7, <2>1
<1>12. CallsSound'
  <2>1. \A k \in Requests : <<"do", k>> \in inbox' =>
            docker'[k] = "none" /\ thread'[k] = "none" /\ space'[k] = Nobody
    BY <1>3, <1>8, <1>11 DEF CallsSound
  <2>2. \A call \in inbox' : Used(call[2])'
    BY <1>3, <1>9 DEF CallsSound, RequestsKept, SpaceTypes
  <2> QED
    BY <1>9, <1>11, <2>1, <2>2, RequestFields DEF CallsSound, RequestsKept
<1>13. ~Live(r) \/ thread[r] = "unremoved"
  BY <1>3 DEF ContainersSound, Live
<1>14. thread[r] = "removed" /\ old.status = "running" => space[s].container = r /\ ~Live(r)
  BY <1>1, <1>5, <1>13 DEF ContainersSound
<1>15. ASSUME NEW k \in Requests
       PROVE  /\ docker'[k] # "none" \/ thread'[k] # "none" => IsRun(k)'
              /\ Live(k)' => /\ space'[request'[k].space].status \in {"running", "cleanup_failed"}
                             /\ space'[request'[k].space].container = k
              /\ docker'[k] = "late" => thread'[k] = "none"
              /\ thread'[k] # "none" =>
                    /\ space'[request'[k].space].status # "ready"
                    /\ space'[request'[k].space].status = "running" => space'[request'[k].space].container = k
              /\ thread'[k] = "removed" => docker'[k] = "none"
  <2>1. IsRun(k) => IsRun(k)' /\ request'[k].space = request[k].space /\ request[k].space \in Requests
    BY <1>9, RequestFields DEF IsRun, RequestsKept
  <2>2. thread'[k] # "none" => thread'[k] = thread[k] /\ k # r
    BY <1>8
  <2>3. (Live(k)' => Live(k)) /\ docker'[k] = docker[k]
    BY <1>3, <2>2 DEF Live
  <2>4. docker[k] # "none" \/ thread[k] # "none" => IsRun(k)
    BY DEF ContainersSound
  <2>5. ASSUME Live(k)'
        PROVE  /\ space'[request[k].space].status \in {"running", "cleanup_failed"}
               /\ space'[request[k].space].container = k
    <3>1. Live(k) /\ IsRun(k) /\ request[k].space \in Requests
      BY <2>1, <2>3, <2>4, <2>5 DEF Live
    <3>2. space[request[k].space].status \in {"running", "cleanup_failed"} /\ space[request[k].space].container = k
      BY <3>1 DEF ContainersSound
    <3>3. CASE request[k].space = s
      BY <1>5, <1>6, <1>7, <1>14, <3>1, <3>2, <3>3
    <3>4. CASE request[k].space # s
      BY <1>7, <3>1, <3>2, <3>4
    <3> QED
      BY <3>3, <3>4
  <2>6. ASSUME thread'[k] # "none"
        PROVE  /\ space'[request[k].space].status # "ready"
               /\ space'[request[k].space].status = "running" => space'[request[k].space].container = k
    <3>1. thread[k] # "none" /\ k # r /\ IsRun(k) /\ request[k].space \in Requests
      BY <2>1, <2>2, <2>4, <2>6
    <3>2. /\ space[request[k].space].status # "ready"
          /\ space[request[k].space].status = "running" => space[request[k].space].container = k
      BY <3>1 DEF ContainersSound
    <3>3. CASE request[k].space = s
      BY <1>5, <1>6, <1>7, <1>14, <3>1, <3>2, <3>3
    <3>4. CASE request[k].space # s
      BY <1>7, <3>1, <3>2, <3>4
    <3> QED
      BY <3>3, <3>4
  <2>7. docker'[k] # "none" \/ thread'[k] # "none" => IsRun(k)' /\ request'[k].space = request[k].space
    BY <2>1, <2>2, <2>3, <2>4
  <2>8. docker'[k] = "late" => thread'[k] = "none"
    BY <1>8, <2>2, <2>3 DEF ContainersSound
  <2>9. thread'[k] = "removed" => docker'[k] = "none"
    BY <2>2, <2>3 DEF ContainersSound
  <2>10. Live(k)' => docker'[k] # "none"
    BY DEF Live
  <2> QED
    BY <2>5, <2>6, <2>7, <2>8, <2>9, <2>10
<1>16. ContainersSound'
  BY <1>15 DEF ContainersSound
<1>17. \A t \in Requests : /\ space'[t].owner = space[t].owner /\ space'[t].create = space[t].create
                           /\ (space'[t].status \in Usable => space[t].status \in Usable)
                           /\ (space[t].status \in Over => space'[t].status \in Over)
                           /\ space'[t].container \in {space[t].container, None}
  BY <1>5, <1>6, <1>7 DEF Usable, Over
<1>18. RoomsSound'
  <2>1. course = "verified" => new = old
    BY <1>4, <1>5, <1>6, SpaceFields DEF RoomsSound
  <2>2. \A t \in disk' : space'[t].status \in Usable \cup {"none", "cleanup_failed"}
    BY <1>3, <1>5, <1>6, <1>7 DEF RoomsSound, SpaceTypes, Usable
  <2>3. course' = "verified" => \A t \in Requests : space'[t].status \in {"none", "forgotten"}
    BY <1>3, <1>5, <1>7, <2>1 DEF RoomsSound
  <2> QED
    BY <1>3, <1>17, <2>2, <2>3 DEF RoomsSound
<1>19. CancelledSound'
  <2>1. \A k \in tombs', t \in Requests : space'[t].status \in Usable => space'[t].create # k
    BY <1>3, <1>17 DEF CancelledSound
  <2>2. ASSUME NEW k \in Requests, request'[k].at = "cancelled"
        PROVE  IF request'[k].kind = "create" THEN k \in tombs'
               ELSE space'[request'[k].space].status \in Over /\ space'[request'[k].space].container # k
    <3>1. request[k].at = "cancelled" /\ Used(k) /\ request[k].space \in Requests
      BY <1>9, <2>2, RequestFields DEF NoneCancelled, Used
    <3> QED
      BY <1>3, <1>9, <1>17, <3>1, SpaceAssumption DEF CancelledSound, RequestsKept
  <2> QED
    BY <2>1, <2>2 DEF CancelledSound
<1> QED
  BY <1>10, <1>12, <1>16, <1>18, <1>19

---------------------------------------------------------------------------
LEMMA SpaceStep == ASSUME SpaceInv, [SpaceNext]_spaceVars PROVE SpaceInv'
<1>1. CASE Broker
  BY <1>1, AskStep, BrokerSteps DEF Broker
<1>2. CASE Worker
  BY <1>2, BrokerSteps, CreateStep, CreateFailsStep, CloseStep, CancelStep, RunStep, ContainerSteps,
     FinishStep, LapseStep, ReapStep, CancelCourseStep, DieStep, RestartStep DEF Worker
<1>3. CASE UNCHANGED spaceVars
  BY <1>3 DEF spaceVars, SpaceInv, SpaceTypes, CallsSound, ContainersSound, RoomsSound, CancelledSound,
              Used, IsRun, Live
<1> QED
  BY <1>1, <1>2, <1>3 DEF SpaceNext

THEOREM SpacesAreSound == SpaceSpec => []SpaceInv
<1> QED
  BY SpaceInitially, SpaceStep, PTL DEF SpaceSpec

LEMMA AtMostOne ==
    ASSUME NEW S, \A x, y \in S : x = y
    PROVE  IsFiniteSet(S) /\ Cardinality(S) <= 1
<1>1. CASE S = {}
  BY <1>1, FS_EmptySet
<1>2. ASSUME NEW x \in S PROVE IsFiniteSet(S) /\ Cardinality(S) <= 1
  <2>1. S = {x}
    BY <1>2
  <2>2. IsFiniteSet({x}) /\ Cardinality({x}) = 1
    BY FS_Singleton
  <2>3. 1 <= 1
    OBVIOUS
  <2> QED
    BY <2>1, <2>2, <2>3
<1> QED
  BY <1>1, <1>2

LEMMA SpaceInvSuffices == SpaceInv => NothingRunsUnwanted
<1> SUFFICES ASSUME SpaceInv PROVE NothingRunsUnwanted
  OBVIOUS
<1> USE DEF SpaceInv
<1>1. \A r \in Requests : Executing(r) => Live(r)
  BY DEF Executing, Live
<1>2. \A r \in Requests : Executing(r) => space[request[r].space].status \in {"running", "cleanup_failed"}
  BY <1>1 DEF ContainersSound
<1>3. \A s \in disk : space[s].status \in {"none", "ready", "running", "cleanup_failed"}
  BY DEF RoomsSound, Usable
<1>4. ASSUME NEW o \in Owners
      PROVE  Cardinality({s \in ActiveOf(o) : space[s].status # "cleanup_failed"}) <= 1
  <2>1. \A s \in {s \in ActiveOf(o) : space[s].status # "cleanup_failed"} :
            s \in Requests /\ space[s].owner = o /\ space[s].status \in Usable
    BY SpaceFields DEF ActiveOf, Active, Ended, Usable, Statuses
  <2>2. \A s, t \in {s \in ActiveOf(o) : space[s].status # "cleanup_failed"} : s = t
    BY <2>1 DEF RoomsSound
  <2> QED
    BY <2>2, AtMostOne
<1>5. ASSUME NEW r \in Requests, request[r].at = "cancelled"
      PROVE  IF request[r].kind = "create"
             THEN \A s \in Requests : Active(s) => space[s].create # r \/ space[s].status = "cleanup_failed"
             ELSE ~Executing(r) /\ space[request[r].space].status \notin {"ready", "running"}
  <2>1. CASE request[r].kind = "create"
    <3>1. r \in tombs
      BY <1>5, <2>1 DEF CancelledSound
    <3>2. \A s \in Requests : Active(s) => space[s].status \in Usable \cup {"cleanup_failed"}
      BY SpaceFields DEF Active, Ended, Usable, Statuses
    <3> QED
      BY <2>1, <3>1, <3>2 DEF CancelledSound
  <2>2. CASE request[r].kind # "create"
    BY <1>1, <1>5, <2>2 DEF CancelledSound, ContainersSound, Over
  <2> QED
    BY <2>1, <2>2
<1>6. ASSUME course = "verified", NEW s \in Requests PROVE ~Active(s) /\ ~Executing(s)
  <2>1. \A t \in Requests : space[t].status \in {"none", "forgotten"}
    BY <1>6 DEF RoomsSound
  <2>2. Executing(s) => request[s].space \in Requests
    BY RequestFields DEF ContainersSound, Executing, IsRun
  <2> QED
    BY <1>2, <2>1, <2>2 DEF Active, Ended
<1> QED
  BY <1>2, <1>3, <1>4, <1>5, <1>6 DEF NothingRunsUnwanted

\* While the worker is up a program executes only in a space that runs or whose
\* removal is known to have failed, an acknowledged cancellation leaves nothing,
\* and a course that was cancelled has nothing left.
THEOREM NothingUnwantedRuns == SpaceSpec => []NothingRunsUnwanted
<1> QED
  BY SpacesAreSound, SpaceInvSuffices, PTL

(* LearningCheckpoints.                                                    *)

VersionRows == [id : Nat, archive : Archives]
KeyRows == [key : Keys, archive : Archives, id : Nat]
Ledgers == [versions : Seq(VersionRows), keys : Seq(KeyRows)]
Cleaning == {"mark", "write", "unref", "repack", "prune", "unmark", "tidy"}
Making == {"check", "objects", "ref", "archive"}
Saves == [at : Cleaning \cup Making \cup {"publish", "answer"}, after : {"check", "answer"},
          key : Keys, archive : Archives, id : Nat, ledger : Ledgers]

CheckpointTypes ==
    /\ index \in Ledgers /\ archives \subseteq Archives
    /\ refs \subseteq Nat /\ loose \subseteq Nat /\ packed \subseteq Nat
    /\ marker \in {"none", "empty", "set"} /\ recent \in BOOLEAN
    /\ save \in {NoSave} \cup Saves
    /\ answered \subseteq KeyRows
    /\ saves \in Nat /\ repacks \in Nat

\* A ledger names every version and every key once, and no version that is not
\* made yet; a key leads to a version with the content that came with it.
LedgerSound(ledger) ==
    /\ \A v, w \in ToSet(ledger.versions) : v.id = w.id => v = w
    /\ \A k, l \in ToSet(ledger.keys) : k.key = l.key => k = l
    /\ \A v \in ToSet(ledger.versions) : v.id \in 1 .. saves
    /\ \A k \in ToSet(ledger.keys) : k.id \in 1 .. saves
    /\ \A k \in ToSet(ledger.keys), v \in ToSet(ledger.versions) :
           v.id = k.id => ContentOf[v.archive] = ContentOf[k.archive]

\* Everything a ledger names is there.
Backed(ledger) ==
    \A v \in ToSet(ledger.versions) : v.archive \in archives /\ v.id \in refs /\ v.id \in loose \cup packed

\* The answer of a save: its key leads to a version with its content.
Deserved(s, ledger) ==
    /\ [key |-> s.key, archive |-> s.archive, id |-> s.id] \in ToSet(ledger.keys)
    /\ \E v \in ToSet(ledger.versions) : v.id = s.id /\ ContentOf[v.archive] = ContentOf[s.archive]

IndexSound == LedgerSound(index) /\ Backed(index)

\* Packed objects without a reference need the marker.
MarkerSound ==
    /\ packed \subseteq refs \/ marker = "set"
    /\ save.at = "unref" => Expired = {} \/ packed = {} \/ marker = "set"
    /\ save.at = "write" => packed \subseteq refs

New(id) == id = saves /\ saves > 0 /\ id \notin Ids(index) /\ \A k \in ToSet(index.keys) : k.id # id

SaveSound ==
    /\ save.at \in Cleaning \cup Making \cup {"answer"} => save.ledger = index
    /\ save.at \in Cleaning => IF save.after = "check" THEN New(save.id) ELSE Deserved(save, index)
    /\ save.at \in Making => New(save.id)
    /\ save.at \in Making \ {"check"} => save.key \notin KeysOf(index)
    /\ save.at \in {"ref", "archive"} => save.id \in loose \cup packed
    /\ save.at = "archive" => save.id \in refs
    /\ save.at = "publish" =>
           /\ LedgerSound(save.ledger) /\ Backed(save.ledger) /\ Deserved(save, save.ledger)
           /\ save.key \notin KeysOf(index) /\ saves \notin Ids(index)
           /\ ToSet(save.ledger.versions) \subseteq
                  ToSet(index.versions) \cup {[id |-> saves, archive |-> save.archive]}
           /\ ToSet(save.ledger.keys) \subseteq
                  ToSet(index.keys) \cup {[key |-> save.key, archive |-> save.archive, id |-> save.id]}
    /\ save.at = "answer" => Deserved(save, index)

\* How far the reclamation has come.
ReclaimSound ==
    /\ save.at \in {"repack", "prune", "unmark", "tidy", "check", "answer"} => refs \subseteq Ids(index)
    /\ save.at \in {"prune", "unmark", "tidy", "check", "answer"} => packed \subseteq refs
    /\ save.at \in {"unmark", "tidy", "check", "answer"} => loose \subseteq refs
    /\ save.at \in {"check", "answer"} => archives \subseteq Files(index)

AnswersSound ==
    \A s \in answered :
        /\ s.id \in dropped \/ \E v \in ToSet(index.versions) :
               v.id = s.id /\ ContentOf[v.archive] = ContentOf[s.archive]
        /\ s.id \in 1 .. saves
        /\ s.key \in dropped \/ s \in ToSet(index.keys)

CheckpointInv ==
    /\ CheckpointTypes /\ IndexSound /\ MarkerSound /\ SaveSound /\ ReclaimSound /\ AnswersSound

---------------------------------------------------------------------------
(* Lists, newest first.                                                    *)

LEMMA ListItems ==
    ASSUME NEW T, NEW s \in Seq(T)
    PROVE  /\ \A x \in ToSet(s) : x \in T
           /\ \A i \in 1 .. Len(s) : s[i] \in ToSet(s)
           /\ s # <<>> => Head(s) \in ToSet(s)
BY DEF ToSet

LEMMA Newest ==
    ASSUME NEW T, NEW s \in Seq(T), NEW x \in T, NEW n \in 1 .. (Len(s) + 1)
    PROVE  /\ SubSeq(<<x>> \o s, 1, n) \in Seq(T)
           /\ x \in ToSet(SubSeq(<<x>> \o s, 1, n))
           /\ ToSet(SubSeq(<<x>> \o s, 1, n)) \subseteq {x} \cup ToSet(s)
<1>1. PICK all : all = <<x>> \o s
  OBVIOUS
<1>2. /\ all \in Seq(T) /\ Len(all) = Len(s) + 1 /\ all[1] = x
      /\ \A i \in 2 .. (Len(s) + 1) : all[i] = s[i - 1]
  BY <1>1
<1>3. PICK some : some = SubSeq(all, 1, n)
  OBVIOUS
<1>4. some \in Seq(T) /\ Len(some) = n /\ \A i \in 1 .. n : some[i] = all[i]
  BY <1>2, <1>3
<1>5. x \in ToSet(some)
  BY <1>2, <1>4 DEF ToSet
<1>6. ToSet(some) \subseteq {x} \cup ToSet(s)
  <2> SUFFICES ASSUME NEW i \in 1 .. n PROVE some[i] \in {x} \cup ToSet(s)
    BY <1>4 DEF ToSet
  <2>1. CASE i = 1
    BY <1>2, <1>4, <2>1
  <2>2. CASE i # 1
    <3>1. i \in 2 .. (Len(s) + 1) /\ i - 1 \in 1 .. Len(s)
      BY <2>2
    <3> QED
      BY <1>2, <1>4, <3>1, ListItems
  <2> QED
    BY <2>1, <2>2
<1> QED
  BY <1>1, <1>3, <1>4, <1>5, <1>6

LEMMA LedgerItems ==
    ASSUME NEW ledger \in Ledgers
    PROVE  /\ ToSet(ledger.versions) \subseteq VersionRows /\ ToSet(ledger.keys) \subseteq KeyRows
           /\ ledger.versions \in Seq(VersionRows) /\ ledger.keys \in Seq(KeyRows)
BY ListItems DEF Ledgers

LEMMA KeyAdded ==
    ASSUME CheckpointTypes, save \in Saves, NEW ledger \in Ledgers, NEW id \in Nat, NEW new, new = WithKey(ledger, id)
    PROVE  /\ new \in Ledgers /\ new.versions = ledger.versions
           /\ [key |-> save.key, archive |-> save.archive, id |-> id] \in ToSet(new.keys)
           /\ ToSet(new.keys) \subseteq ToSet(ledger.keys) \cup {[key |-> save.key, archive |-> save.archive, id |-> id]}
<1>1. PICK row : row = [key |-> save.key, archive |-> save.archive, id |-> id]
  OBVIOUS
<1>2. row \in KeyRows
  BY <1>1 DEF Saves, KeyRows
<1>3. ledger.versions \in Seq(VersionRows) /\ ledger.keys \in Seq(KeyRows)
  BY DEF Ledgers
<1>4. PICK n : n = IF Len(ledger.keys) < MaxKeys THEN Len(ledger.keys) + 1 ELSE MaxKeys
  OBVIOUS
<1>5. n \in 1 .. (Len(ledger.keys) + 1)
  BY <1>3, <1>4, CheckpointAssumption
<1>6. PICK keys : keys = SubSeq(<<row>> \o ledger.keys, 1, n)
  OBVIOUS
<1>7. keys \in Seq(KeyRows) /\ row \in ToSet(keys) /\ ToSet(keys) \subseteq {row} \cup ToSet(ledger.keys)
  BY <1>2, <1>3, <1>5, <1>6, Newest
<1>8. new = [ledger EXCEPT !.keys = keys]
  BY <1>1, <1>4, <1>6 DEF WithKey
<1>9. new \in Ledgers /\ new.keys = keys /\ new.versions = ledger.versions
  BY <1>3, <1>7, <1>8 DEF Ledgers
<1> QED
  BY <1>1, <1>7, <1>9

LEMMA VersionAdded ==
    ASSUME CheckpointTypes, save \in Saves, NEW ledger \in Ledgers, NEW kept \in 1 .. (Len(ledger.versions) + 1),
           NEW new, new = WithVersion(ledger, kept)
    PROVE  /\ new \in Ledgers /\ new.keys = ledger.keys
           /\ [id |-> save.id, archive |-> save.archive] \in ToSet(new.versions)
           /\ ToSet(new.versions) \subseteq ToSet(ledger.versions) \cup {[id |-> save.id, archive |-> save.archive]}
<1>1. PICK row : row = [id |-> save.id, archive |-> save.archive]
  OBVIOUS
<1>2. row \in VersionRows
  BY <1>1 DEF Saves, VersionRows
<1>3. ledger.versions \in Seq(VersionRows) /\ ledger.keys \in Seq(KeyRows)
  BY DEF Ledgers
<1>4. PICK versions : versions = SubSeq(<<row>> \o ledger.versions, 1, kept)
  OBVIOUS
<1>5. versions \in Seq(VersionRows) /\ row \in ToSet(versions) /\ ToSet(versions) \subseteq {row} \cup ToSet(ledger.versions)
  BY <1>2, <1>3, <1>4, Newest
<1>6. new = [ledger EXCEPT !.versions = versions]
  BY <1>1, <1>4 DEF WithVersion
<1>7. new \in Ledgers /\ new.versions = versions /\ new.keys = ledger.keys
  BY <1>3, <1>5, <1>6 DEF Ledgers
<1> QED
  BY <1>1, <1>5, <1>7

---------------------------------------------------------------------------
LEMMA CheckpointInitially == CheckpointInit => CheckpointInv
<1> SUFFICES ASSUME CheckpointInit PROVE CheckpointInv
  OBVIOUS
<1>1. index \in Ledgers /\ ToSet(index.versions) = {} /\ ToSet(index.keys) = {}
  BY DEF CheckpointInit, EmptyIndex, Ledgers, ToSet
<1>2. CheckpointTypes
  BY <1>1, CheckpointAssumption DEF CheckpointInit, CheckpointTypes
<1>3. save.at = "idle"
  BY DEF CheckpointInit, NoSave
<1>4. IndexSound /\ AnswersSound
  BY <1>1 DEF CheckpointInit, IndexSound, AnswersSound, LedgerSound, Backed
<1>5. MarkerSound /\ SaveSound /\ ReclaimSound
  BY <1>3 DEF CheckpointInit, MarkerSound, SaveSound, ReclaimSound, Cleaning, Making
<1> QED
  BY <1>2, <1>4, <1>5 DEF CheckpointInv

LEMMA SaveFields ==
    ASSUME CheckpointTypes, save # NoSave
    PROVE  save \in Saves
BY DEF CheckpointTypes

LEMMA NoSaveIsIdle == NoSave.at = "idle" /\ \A s \in Saves : s # NoSave /\ s.at # "idle"
BY DEF NoSave, Saves, Cleaning, Making

\* A step of the save that only changes where it is.
LEMMA MoveFields ==
    ASSUME CheckpointTypes, save \in Saves, NEW step \in Cleaning \cup Making \cup {"publish", "answer"}, Moves(step)
    PROVE  /\ save' \in Saves /\ save'.at = step /\ save'.after = save.after /\ save'.key = save.key
           /\ save'.archive = save.archive /\ save'.id = save.id /\ save'.ledger = save.ledger
<1>1. PICK old \in Saves : old = save
  OBVIOUS
<1>2. PICK new : new = [old EXCEPT !.at = step]
  OBVIOUS
<1>3. /\ new \in Saves /\ new.at = step /\ new.after = old.after /\ new.key = old.key
      /\ new.archive = old.archive /\ new.id = old.id /\ new.ledger = old.ledger
  BY <1>2 DEF Saves
<1> QED
  BY <1>1, <1>2, <1>3 DEF Moves

---------------------------------------------------------------------------
LEMMA HistoryKept ==
    ASSUME CheckpointInv, UNCHANGED <<index, answered, dropped, saves>>
    PROVE  AnswersSound' /\ LedgerSound(index)'
BY DEF CheckpointInv, AnswersSound, IndexSound, LedgerSound

\* Nobody saves, and nothing that the index names goes.
LEMMA IdleSound ==
    ASSUME save' = NoSave, packed' \subseteq refs' \/ marker' = "set"
    PROVE  MarkerSound' /\ SaveSound' /\ ReclaimSound'
BY NoSaveIsIdle DEF MarkerSound, SaveSound, ReclaimSound, Cleaning, Making

LEMMA EndOfSave ==
    ASSUME CheckpointInv, save' = NoSave, UNCHANGED <<storeVars, answered, dropped, saves, repacks>>
    PROVE  CheckpointInv'
<1> USE DEF CheckpointInv, storeVars, repoVars
<1>1. CheckpointTypes'
  BY DEF CheckpointTypes
<1>2. IndexSound' /\ AnswersSound'
  BY HistoryKept DEF IndexSound, Backed
<1>3. MarkerSound' /\ SaveSound' /\ ReclaimSound'
  BY IdleSound DEF MarkerSound
<1> QED
  BY <1>1, <1>2, <1>3

LEMMA BeginStep ==
    ASSUME CheckpointInv, NEW key \in Keys, NEW archive \in Archives, BeginSave(key, archive)
    PROVE  CheckpointInv'
<1> USE DEF CheckpointInv
<1>1. /\ saves' = saves + 1 /\ UNCHANGED <<storeVars, answered, dropped, repacks>>
      /\ save' = [at |-> "mark", after |-> "check", key |-> key, archive |-> archive,
                  id |-> saves + 1, ledger |-> index]
  BY DEF BeginSave
<1>2. saves \in Nat /\ saves' \in Nat
  BY <1>1 DEF CheckpointTypes
<1>3. /\ save' \in Saves /\ save'.at = "mark" /\ save'.after = "check" /\ save'.id = saves'
      /\ save'.ledger = index'
  BY <1>1, <1>2 DEF Saves, Cleaning, CheckpointTypes, storeVars
<1>4. CheckpointTypes'
  BY <1>1, <1>2, <1>3 DEF CheckpointTypes, storeVars, repoVars
<1>5. \A n \in 1 .. saves : n \in 1 .. saves' /\ n # saves'
  BY <1>1, <1>2
<1>6. IndexSound'
  BY <1>1, <1>5 DEF IndexSound, LedgerSound, Backed, storeVars, repoVars
<1>7. AnswersSound'
  BY <1>1, <1>5 DEF AnswersSound, storeVars
<1>8. New(saves)' /\ save'.at \notin Making \cup {"publish", "answer", "unref", "write"}
  BY <1>1, <1>2, <1>3, <1>5 DEF New, Ids, IndexSound, LedgerSound, Making, storeVars
<1>9. SaveSound'
  BY <1>3, <1>8 DEF SaveSound, Making
<1>10. MarkerSound' /\ ReclaimSound'
  BY <1>1, <1>3 DEF MarkerSound, ReclaimSound, storeVars, repoVars
<1> QED
  BY <1>4, <1>6, <1>7, <1>9, <1>10

---------------------------------------------------------------------------
(* Reclamation.                                                            *)

\* A step of the reclamation keeps what the index names.
LEMMA CleaningStep ==
    ASSUME CheckpointInv, save \in Saves, save.at \in Cleaning,
           NEW step \in Cleaning \cup {"check", "answer"}, Moves(step) \/ (save' = save /\ step = save.at),
           step \in {"check", "answer"} => step = save.after,
           UNCHANGED <<index, answered, dropped, saves, recent>>
    PROVE  /\ save' \in Saves /\ save'.at = step /\ save'.ledger = index'
           /\ SaveSound' /\ AnswersSound' /\ LedgerSound(index)'
<1> USE DEF CheckpointInv
<1>1. /\ save' \in Saves /\ save'.at = step /\ save'.after = save.after /\ save'.key = save.key
      /\ save'.archive = save.archive /\ save'.id = save.id /\ save'.ledger = save.ledger
  <2>1. step \in Cleaning \cup Making \cup {"publish", "answer"}
    BY DEF Making
  <2>2. CASE Moves(step)
    BY <2>1, <2>2, MoveFields
  <2>3. CASE save' = save /\ step = save.at
    BY <2>3
  <2> QED
    BY <2>2, <2>3
<1>2. save.ledger = index
  BY DEF SaveSound
<1>3. save.after = "check" => New(save.id)'
  BY <1>1 DEF SaveSound, New, Ids
<1>4. save.after # "check" => Deserved(save', index')
  BY <1>1 DEF SaveSound, Deserved
<1>5. save.after \in {"check", "answer"} /\ (step \notin Cleaning => step = save.after)
  BY DEF Saves
<1>6. save'.at \notin {"publish", "objects", "ref", "archive"}
  BY <1>1 DEF Cleaning
<1>7. SaveSound'
  <2>1. save'.at \in Cleaning => IF save'.after = "check" THEN New(save.id)' ELSE Deserved(save', index')
    BY <1>1, <1>3, <1>4
  <2>2. save'.at \in Making => New(save.id)'
    BY <1>1, <1>3, <1>5 DEF Making, Cleaning
  <2>3. save'.at = "answer" => Deserved(save', index')
    BY <1>1, <1>4, <1>5 DEF Cleaning
  <2>4. save'.at \in Making => save'.at = "check"
    BY <1>6 DEF Making
  <2> QED
    BY <1>1, <1>2, <1>6, <2>1, <2>2, <2>3, <2>4 DEF SaveSound, Deserved
<1> QED
  BY <1>1, <1>2, <1>7, HistoryKept

LEMMA MarkStep == ASSUME CheckpointInv, Mark PROVE CheckpointInv'
<1> USE DEF CheckpointInv
<1>1. save.at = "mark" /\ UNCHANGED <<index, archives, refs, loose, packed, recent, answered, dropped, saves, repacks>>
  BY DEF Mark
<1>2. save \in Saves /\ save.at \in Cleaning /\ save.ledger = index
  BY <1>1, NoSaveIsIdle, SaveFields DEF Cleaning, SaveSound
<1>3. CASE Marks /\ marker' = "empty" /\ Moves("write")
  <2>1. /\ save' \in Saves /\ save'.at = "write" /\ SaveSound' /\ AnswersSound' /\ LedgerSound(index)'
    BY <1>1, <1>2, <1>3, CleaningStep DEF Cleaning
  <2>2. packed \subseteq refs
    BY <1>3 DEF Marks, MarkerSound
  <2>3. CheckpointTypes'
    BY <1>1, <1>3, <2>1 DEF CheckpointTypes
  <2>4. IndexSound'
    BY <1>1, <2>1 DEF IndexSound, Backed
  <2>5. MarkerSound' /\ ReclaimSound'
    BY <1>1, <2>1, <2>2 DEF MarkerSound, ReclaimSound
  <2> QED
    BY <2>1, <2>3, <2>4, <2>5
<1>4. CASE ~Marks /\ marker # "empty" /\ Moves("unref") /\ UNCHANGED marker
  <2>1. /\ save' \in Saves /\ save'.at = "unref" /\ save'.ledger = index' /\ SaveSound' /\ AnswersSound' /\ LedgerSound(index)'
    BY <1>1, <1>2, <1>4, CleaningStep DEF Cleaning
  <2>2. Expired' = Expired
    BY <1>1, <1>2, <2>1 DEF Expired
  <2>3. Expired = {} \/ packed = {} \/ marker = "set"
    BY <1>4 DEF Marks, CheckpointTypes
  <2>4. CheckpointTypes'
    BY <1>1, <1>4, <2>1 DEF CheckpointTypes
  <2>5. IndexSound'
    BY <1>1, <2>1 DEF IndexSound, Backed
  <2>6. MarkerSound' /\ ReclaimSound'
    BY <1>1, <1>4, <2>1, <2>2, <2>3 DEF MarkerSound, ReclaimSound
  <2> QED
    BY <2>1, <2>4, <2>5, <2>6
<1> QED
  BY <1>3, <1>4 DEF Mark

LEMMA WriteMarkStep == ASSUME CheckpointInv, WriteMark PROVE CheckpointInv'
<1> USE DEF CheckpointInv
<1>1. /\ save.at = "write" /\ marker' = "set" /\ Moves("unref")
      /\ UNCHANGED <<index, archives, refs, loose, packed, recent, answered, dropped, saves, repacks>>
  BY DEF WriteMark
<1>2. save \in Saves /\ save.at \in Cleaning
  BY <1>1, NoSaveIsIdle, SaveFields DEF Cleaning
<1>3. /\ save' \in Saves /\ save'.at = "unref" /\ SaveSound' /\ AnswersSound' /\ LedgerSound(index)'
  BY <1>1, <1>2, CleaningStep DEF Cleaning
<1>4. CheckpointTypes'
  BY <1>1, <1>3 DEF CheckpointTypes
<1>5. IndexSound'
  BY <1>1, <1>3 DEF IndexSound, Backed
<1>6. MarkerSound' /\ ReclaimSound'
  BY <1>1, <1>3 DEF MarkerSound, ReclaimSound
<1> QED
  BY <1>3, <1>4, <1>5, <1>6

LEMMA UnrefStep == ASSUME CheckpointInv, Unref PROVE CheckpointInv'
<1> USE DEF CheckpointInv
<1>1. save.at = "unref" /\ UNCHANGED <<index, archives, loose, packed, marker, recent, answered, dropped, saves, repacks>>
  BY DEF Unref
<1>2. save \in Saves /\ save.at \in Cleaning /\ save.ledger = index
  BY <1>1, NoSaveIsIdle, SaveFields DEF Cleaning, SaveSound
<1>3. ASSUME NEW id \in Expired, refs' = refs \ {id}, save' = save PROVE CheckpointInv'
  <2>1. /\ save' \in Saves /\ save'.at = "unref" /\ SaveSound' /\ AnswersSound' /\ LedgerSound(index)'
    BY <1>1, <1>2, <1>3, CleaningStep DEF Cleaning
  <2>2. id \notin Ids(index) /\ (packed = {} \/ marker = "set")
    BY <1>1, <1>2, <1>3 DEF Expired, MarkerSound
  <2>3. CheckpointTypes'
    BY <1>1, <1>3, <2>1 DEF CheckpointTypes
  <2>4. IndexSound'
    BY <1>1, <1>3, <2>1, <2>2 DEF IndexSound, Backed, Ids
  <2>5. MarkerSound' /\ ReclaimSound'
    BY <1>1, <2>1, <2>2 DEF MarkerSound, ReclaimSound
  <2> QED
    BY <2>1, <2>3, <2>4, <2>5
<1>4. CASE Expired = {} /\ Moves("repack") /\ UNCHANGED refs
  <2>1. /\ save' \in Saves /\ save'.at = "repack" /\ SaveSound' /\ AnswersSound' /\ LedgerSound(index)'
    BY <1>1, <1>2, <1>4, CleaningStep DEF Cleaning
  <2>2. refs \subseteq Ids(index)
    BY <1>2, <1>4 DEF Expired
  <2>3. CheckpointTypes'
    BY <1>1, <1>4, <2>1 DEF CheckpointTypes
  <2>4. IndexSound'
    BY <1>1, <1>4, <2>1 DEF IndexSound, Backed
  <2>5. MarkerSound' /\ ReclaimSound'
    BY <1>1, <1>4, <2>1, <2>2 DEF MarkerSound, ReclaimSound, Ids
  <2> QED
    BY <2>1, <2>3, <2>4, <2>5
<1> QED
  BY <1>3, <1>4 DEF Unref

LEMMA RepackStep == ASSUME CheckpointInv, Repack PROVE CheckpointInv'
<1> USE DEF CheckpointInv
<1>1. /\ save.at = "repack" /\ Moves("prune")
      /\ UNCHANGED <<index, archives, refs, marker, recent, answered, dropped, saves, repacks>>
      /\ IF marker = "set"
         THEN /\ packed' = (packed \cup loose) \cap refs
              /\ loose' = (packed \cup loose) \ refs
         ELSE UNCHANGED <<packed, loose>>
  BY DEF Repack
<1>2. save \in Saves /\ save.at \in Cleaning
  BY <1>1, NoSaveIsIdle, SaveFields DEF Cleaning
<1>3. /\ save' \in Saves /\ save'.at = "prune" /\ SaveSound' /\ AnswersSound' /\ LedgerSound(index)'
  BY <1>1, <1>2, CleaningStep DEF Cleaning
<1>4. packed' \subseteq refs /\ loose' \cup packed' = loose \cup packed
  BY <1>1 DEF MarkerSound
<1>5. CheckpointTypes'
  BY <1>1, <1>3, <1>4 DEF CheckpointTypes
<1>6. IndexSound'
  BY <1>1, <1>3, <1>4 DEF IndexSound, Backed
<1>7. MarkerSound' /\ ReclaimSound'
  BY <1>1, <1>3, <1>4 DEF MarkerSound, ReclaimSound, Ids
<1> QED
  BY <1>3, <1>5, <1>6, <1>7

LEMMA PruneStep == ASSUME CheckpointInv, Prune PROVE CheckpointInv'
<1> USE DEF CheckpointInv
<1>1. /\ save.at = "prune" /\ loose' = loose \cap refs /\ Moves("unmark")
      /\ UNCHANGED <<index, archives, refs, packed, marker, recent, answered, dropped, saves, repacks>>
  BY DEF Prune
<1>2. save \in Saves /\ save.at \in Cleaning
  BY <1>1, NoSaveIsIdle, SaveFields DEF Cleaning
<1>3. /\ save' \in Saves /\ save'.at = "unmark" /\ SaveSound' /\ AnswersSound' /\ LedgerSound(index)'
  BY <1>1, <1>2, CleaningStep DEF Cleaning
<1>4. CheckpointTypes'
  BY <1>1, <1>3 DEF CheckpointTypes
<1>5. IndexSound'
  BY <1>1, <1>3 DEF IndexSound, Backed
<1>6. MarkerSound' /\ ReclaimSound'
  BY <1>1, <1>3 DEF MarkerSound, ReclaimSound, Ids
<1> QED
  BY <1>3, <1>4, <1>5, <1>6

LEMMA UnmarkStep == ASSUME CheckpointInv, Unmark PROVE CheckpointInv'
<1> USE DEF CheckpointInv
<1>1. /\ save.at = "unmark" /\ marker' = "none" /\ Moves("tidy")
      /\ UNCHANGED <<index, archives, refs, loose, packed, recent, answered, dropped, saves, repacks>>
  BY DEF Unmark
<1>2. save \in Saves /\ save.at \in Cleaning
  BY <1>1, NoSaveIsIdle, SaveFields DEF Cleaning
<1>3. /\ save' \in Saves /\ save'.at = "tidy" /\ SaveSound' /\ AnswersSound' /\ LedgerSound(index)'
  BY <1>1, <1>2, CleaningStep DEF Cleaning
<1>4. CheckpointTypes'
  BY <1>1, <1>3 DEF CheckpointTypes
<1>5. IndexSound'
  BY <1>1, <1>3 DEF IndexSound, Backed
<1>6. MarkerSound' /\ ReclaimSound'
  BY <1>1, <1>3 DEF MarkerSound, ReclaimSound, Ids
<1> QED
  BY <1>3, <1>4, <1>5, <1>6

LEMMA TidyStep == ASSUME CheckpointInv, Tidy PROVE CheckpointInv'
<1> USE DEF CheckpointInv
<1>1. save.at = "tidy" /\ UNCHANGED <<index, refs, loose, packed, marker, recent, answered, dropped, saves, repacks>>
  BY DEF Tidy, repoVars
<1>2. save \in Saves /\ save.at \in Cleaning /\ save.ledger = index /\ save.after \in {"check", "answer"}
  BY <1>1, NoSaveIsIdle, SaveFields DEF Cleaning, SaveSound, Saves
<1>3. ASSUME NEW a \in archives \ Files(index), archives' = archives \ {a}, save' = save PROVE CheckpointInv'
  <2>1. /\ save' \in Saves /\ save'.at = "tidy" /\ SaveSound' /\ AnswersSound' /\ LedgerSound(index)'
    BY <1>1, <1>2, <1>3, CleaningStep DEF Cleaning
  <2>2. CheckpointTypes'
    BY <1>1, <1>3, <2>1 DEF CheckpointTypes
  <2>3. IndexSound'
    BY <1>1, <1>3, <2>1 DEF IndexSound, Backed, Files
  <2>4. MarkerSound' /\ ReclaimSound'
    BY <1>1, <2>1 DEF MarkerSound, ReclaimSound, Ids
  <2> QED
    BY <2>1, <2>2, <2>3, <2>4
<1>4. CASE archives \subseteq Files(index) /\ Moves(save.after) /\ UNCHANGED archives
  <2>1. /\ save' \in Saves /\ save'.at = save.after /\ SaveSound' /\ AnswersSound' /\ LedgerSound(index)'
    BY <1>1, <1>2, <1>4, CleaningStep
  <2>2. CheckpointTypes'
    BY <1>1, <1>4, <2>1 DEF CheckpointTypes
  <2>3. IndexSound'
    BY <1>1, <1>4, <2>1 DEF IndexSound, Backed
  <2>4. MarkerSound' /\ ReclaimSound'
    BY <1>1, <1>2, <1>4, <2>1 DEF MarkerSound, ReclaimSound, Ids, Files
  <2> QED
    BY <2>1, <2>2, <2>3, <2>4
<1> QED
  BY <1>2, <1>3, <1>4 DEF Tidy, Kept

---------------------------------------------------------------------------
(* The decision and the new version.                                       *)

LEMMA ReplayStep == ASSUME CheckpointInv, Replay PROVE CheckpointInv'
<1> USE DEF CheckpointInv
<1>1. save.at = "check" /\ Known # {} /\ UNCHANGED <<storeVars, answered, dropped, saves, repacks>>
  BY DEF Replay
<1>2. save \in Saves /\ save.ledger = index
  BY <1>1, NoSaveIsIdle, SaveFields DEF Making, SaveSound
<1>3. PICK k \in Known :
          IF k.archive = save.archive /\ \E v \in ToSet(save.ledger.versions) : v.id = k.id /\ v.archive \in archives
             THEN save' = [save EXCEPT !.at = "answer", !.id = k.id] ELSE save' = NoSave
  BY DEF Replay
<1>4. CASE save' = NoSave
  BY <1>1, <1>4, EndOfSave
<1>5. ASSUME k.archive = save.archive, NEW v \in ToSet(index.versions), v.id = k.id,
             save' = [save EXCEPT !.at = "answer", !.id = k.id]
      PROVE  CheckpointInv'
  <2>1. k \in ToSet(index.keys) /\ k.key = save.key
    BY <1>2, <1>3 DEF Known
  <2>2. k \in KeyRows
    BY <2>1, LedgerItems DEF CheckpointTypes
  <2>3. k = [key |-> save.key, archive |-> save.archive, id |-> k.id] /\ k.id \in Nat
    BY <1>5, <2>1, <2>2 DEF KeyRows
  <2>4. PICK old \in Saves : old = save
    BY <1>2
  <2>5. PICK new : new = [old EXCEPT !.at = "answer", !.id = k.id]
    OBVIOUS
  <2>6. /\ new \in Saves /\ new.at = "answer" /\ new.id = k.id /\ new.key = old.key
        /\ new.archive = old.archive /\ new.ledger = old.ledger
    BY <2>3, <2>5 DEF Saves
  <2>7. save' = new
    BY <1>5, <2>4, <2>5
  <2>8. ContentOf[v.archive] = ContentOf[save.archive]
    BY <1>5, <2>1 DEF IndexSound, LedgerSound
  <2>9. Deserved(save', index)
    BY <1>5, <2>1, <2>3, <2>4, <2>6, <2>7, <2>8 DEF Deserved
  <2>10. CheckpointTypes'
    BY <1>1, <2>6, <2>7 DEF CheckpointTypes, storeVars, repoVars
  <2>11. IndexSound' /\ AnswersSound'
    BY <1>1, HistoryKept DEF IndexSound, Backed, storeVars, repoVars
  <2>12. SaveSound'
    BY <1>1, <1>2, <2>4, <2>6, <2>7, <2>9 DEF SaveSound, storeVars, Cleaning, Making, Deserved
  <2>13. MarkerSound' /\ ReclaimSound'
    BY <1>1, <2>6, <2>7 DEF MarkerSound, ReclaimSound, storeVars, repoVars, Ids, Files
  <2> QED
    BY <2>10, <2>11, <2>12, <2>13
<1> QED
  BY <1>2, <1>3, <1>4, <1>5

LEMMA UnchangedStep == ASSUME CheckpointInv, Unchanged PROVE CheckpointInv'
<1> USE DEF CheckpointInv
<1>1. save.at = "check" /\ Known = {} /\ UNCHANGED <<storeVars, answered, dropped, saves, repacks>>
  BY DEF Unchanged
<1>2. save \in Saves /\ save.ledger = index /\ index \in Ledgers
  BY <1>1, NoSaveIsIdle, SaveFields DEF Making, SaveSound, CheckpointTypes
<1>3. PICK v \in SameAsLatest : save' = [save EXCEPT !.at = "publish", !.id = v.id, !.ledger = WithKey(save.ledger, v.id)]
  BY DEF Unchanged
<1>4. v \in ToSet(index.versions) /\ ContentOf[v.archive] = ContentOf[save.archive]
  <2>1. index.versions # <<>> => Head(index.versions) \in ToSet(index.versions)
    BY <1>2, LedgerItems, ListItems
  <2> QED
    BY <1>2, <1>3, <2>1 DEF SameAsLatest, Latest
<1>5. v \in VersionRows /\ v.id \in Nat /\ v.id \in 1 .. saves
  BY <1>2, <1>4, LedgerItems DEF VersionRows, IndexSound, LedgerSound
<1>6. PICK ledger : ledger = WithKey(index, v.id)
  OBVIOUS
<1>7. PICK row : row = [key |-> save.key, archive |-> save.archive, id |-> v.id]
  OBVIOUS
<1>8. /\ ledger \in Ledgers /\ ledger.versions = index.versions /\ row \in ToSet(ledger.keys)
      /\ ToSet(ledger.keys) \subseteq ToSet(index.keys) \cup {row}
  BY <1>2, <1>5, <1>6, <1>7, KeyAdded
<1>9. PICK old \in Saves : old = save
  BY <1>2
<1>10. PICK new : new = [old EXCEPT !.at = "publish", !.id = v.id, !.ledger = ledger]
  OBVIOUS
<1>11. /\ new \in Saves /\ new.at = "publish" /\ new.id = v.id /\ new.key = old.key
       /\ new.archive = old.archive /\ new.ledger = ledger
  BY <1>5, <1>8, <1>10 DEF Saves
<1>12. save' = new
  BY <1>2, <1>3, <1>6, <1>9, <1>10
<1>13. save.key \notin KeysOf(index) /\ \A k \in ToSet(index.keys) : k.key # save.key
  BY <1>1, <1>2 DEF Known, KeysOf
<1>14. row.key = save.key /\ row.id = v.id /\ row.archive = save.archive
  BY <1>7
<1>15. LedgerSound(ledger)
  <2>1. \A k, l \in ToSet(ledger.keys) : k.key = l.key => k = l
    BY <1>8, <1>13, <1>14 DEF IndexSound, LedgerSound
  <2>2. \A k \in ToSet(ledger.keys) : k.id \in 1 .. saves
    BY <1>5, <1>8, <1>14 DEF IndexSound, LedgerSound
  <2>3. \A k \in ToSet(ledger.keys), w \in ToSet(ledger.versions) :
            w.id = k.id => ContentOf[w.archive] = ContentOf[k.archive]
    BY <1>4, <1>8, <1>14 DEF IndexSound, LedgerSound
  <2> QED
    BY <1>8, <2>1, <2>2, <2>3 DEF IndexSound, LedgerSound
<1>16. Backed(ledger)
  BY <1>8 DEF IndexSound, Backed
<1>17. Deserved(new, ledger)
  BY <1>4, <1>7, <1>8, <1>9, <1>11 DEF Deserved
<1>18. saves \notin Ids(index)
  BY <1>1 DEF SaveSound, New, Making
<1>19. CheckpointTypes'
  BY <1>1, <1>11, <1>12 DEF CheckpointTypes, storeVars, repoVars
<1>20. IndexSound' /\ AnswersSound'
  BY <1>1, HistoryKept DEF IndexSound, Backed, storeVars, repoVars
<1>21. LedgerSound(save.ledger)' /\ Backed(save.ledger)'
  BY <1>1, <1>11, <1>12, <1>15, <1>16 DEF LedgerSound, Backed, storeVars, repoVars
<1>22. SaveSound'
  <2>1. save'.at = "publish" /\ save'.ledger = ledger /\ save'.key = save.key /\ save'.id = v.id /\ save'.archive = save.archive
    BY <1>9, <1>11, <1>12
  <2>2. index' = index /\ saves' = saves
    BY <1>1 DEF storeVars
  <2>3. Deserved(save', save'.ledger)
    BY <1>12, <1>17, <2>1
  <2>4. save'.key \notin KeysOf(index') /\ saves' \notin Ids(index')
    BY <1>13, <1>18, <2>1, <2>2
  <2>5. ToSet(save'.ledger.keys) \subseteq
            ToSet(index'.keys) \cup {[key |-> save'.key, archive |-> save'.archive, id |-> save'.id]}
    BY <1>7, <1>8, <2>1, <2>2
  <2> QED
    BY <1>8, <1>21, <2>1, <2>2, <2>3, <2>4, <2>5 DEF SaveSound, Cleaning, Making
<1>23. MarkerSound' /\ ReclaimSound'
  BY <1>1, <1>11, <1>12 DEF MarkerSound, ReclaimSound, storeVars, repoVars
<1> QED
  BY <1>19, <1>20, <1>22, <1>23

LEMMA DecideStep == ASSUME CheckpointInv, Decide PROVE CheckpointInv'
<1> USE DEF CheckpointInv
<1>1. save.at = "check" /\ Known = {} /\ UNCHANGED <<storeVars, answered, dropped, saves, repacks>>
  BY DEF Decide
<1>2. save \in Saves /\ save.ledger = index
  BY <1>1, NoSaveIsIdle, SaveFields DEF Making, SaveSound
<1>3. CASE save' = NoSave
  BY <1>1, <1>3, EndOfSave
<1>4. CASE Moves("objects")
  <2>1. /\ save' \in Saves /\ save'.at = "objects" /\ save'.key = save.key /\ save'.id = save.id
        /\ save'.ledger = save.ledger
    BY <1>2, <1>4, MoveFields DEF Making
  <2>2. save.key \notin KeysOf(index)
    BY <1>1, <1>2 DEF Known, KeysOf
  <2>3. CheckpointTypes'
    BY <1>1, <2>1 DEF CheckpointTypes, storeVars, repoVars
  <2>4. IndexSound' /\ AnswersSound'
    BY <1>1, HistoryKept DEF IndexSound, Backed, storeVars, repoVars
  <2>5. New(save.id)'
    BY <1>1, <2>1 DEF SaveSound, New, Making, Ids, storeVars
  <2>6. SaveSound'
    BY <1>1, <1>2, <2>1, <2>2, <2>5 DEF SaveSound, Making, Cleaning, KeysOf, storeVars
  <2>7. MarkerSound' /\ ReclaimSound'
    BY <1>1, <2>1 DEF MarkerSound, ReclaimSound, storeVars, repoVars
  <2> QED
    BY <2>3, <2>4, <2>6, <2>7
<1> QED
  BY <1>3, <1>4 DEF Decide

\* Objects and reference of the new version are written next to the old ones.
LEMMA WriteSteps == ASSUME CheckpointInv, WriteObjects \/ WriteRef PROVE CheckpointInv'
<1> USE DEF CheckpointInv
<1>1. PICK step \in {"ref", "archive"} :
          /\ Moves(step) /\ (step = "ref" <=> save.at = "objects") /\ save.at \in {"objects", "ref"}
          /\ loose' = IF step = "ref" THEN loose \cup {save.id} ELSE loose
          /\ refs' = IF step = "ref" THEN refs ELSE refs \cup {save.id}
          /\ UNCHANGED <<index, archives, packed, marker, recent, answered, dropped, saves, repacks>>
  <2>1. CASE WriteObjects
    BY <2>1 DEF WriteObjects
  <2>2. CASE WriteRef
    BY <2>2 DEF WriteRef
  <2> QED
    BY <2>1, <2>2
<1>2. save \in Saves /\ save.id \in Nat
  BY <1>1, NoSaveIsIdle, SaveFields DEF Saves
<1>3. /\ save' \in Saves /\ save'.at = step /\ save'.key = save.key /\ save'.id = save.id
      /\ save'.ledger = save.ledger
  BY <1>1, <1>2, MoveFields DEF Making
<1>4. save.ledger = index /\ New(save.id) /\ save.key \notin KeysOf(index)
      /\ (save.at = "ref" => save.id \in loose \cup packed)
  BY <1>1 DEF SaveSound, Making
<1>5. loose \subseteq loose' /\ refs \subseteq refs'
  BY <1>1
<1>6. CheckpointTypes'
  BY <1>1, <1>2, <1>3 DEF CheckpointTypes
<1>7. LedgerSound(index)' /\ AnswersSound'
  BY <1>1, HistoryKept
<1>8. IndexSound'
  BY <1>1, <1>5, <1>7 DEF IndexSound, Backed
<1>9. New(save.id)'
  BY <1>1, <1>3, <1>4 DEF New, Ids
<1>10. SaveSound'
  BY <1>1, <1>3, <1>4, <1>9 DEF SaveSound, Making, Cleaning, KeysOf
<1>11. MarkerSound' /\ ReclaimSound'
  BY <1>1, <1>3, <1>5 DEF MarkerSound, ReclaimSound
<1> QED
  BY <1>6, <1>7, <1>8, <1>10, <1>11

LEMMA WriteArchiveStep == ASSUME CheckpointInv, WriteArchive PROVE CheckpointInv'
<1> USE DEF CheckpointInv
<1>1. /\ save.at = "archive" /\ archives' = archives \cup {save.archive}
      /\ UNCHANGED <<index, repoVars, recent, answered, dropped, saves, repacks>>
  BY DEF WriteArchive
<1>2. save \in Saves /\ save.ledger = index /\ index \in Ledgers /\ save.id \in Nat /\ save.archive \in Archives
  BY <1>1, NoSaveIsIdle, SaveFields DEF Making, SaveSound, CheckpointTypes, Saves
<1>3. PICK kept \in 1 .. MaxVersions :
          /\ kept <= Len(index.versions) + 1
          /\ save' = [save EXCEPT !.at = "publish", !.ledger = WithKey(WithVersion(save.ledger, kept), save.id)]
  BY <1>2 DEF WriteArchive
<1>4. kept \in 1 .. (Len(index.versions) + 1)
  BY <1>2, <1>3, CheckpointAssumption, LedgerItems
<1>5. PICK first : first = WithVersion(index, kept)
  OBVIOUS
<1>6. PICK version : version = [id |-> save.id, archive |-> save.archive]
  OBVIOUS
<1>7. /\ first \in Ledgers /\ first.keys = index.keys /\ version \in ToSet(first.versions)
      /\ ToSet(first.versions) \subseteq ToSet(index.versions) \cup {version}
  BY <1>2, <1>4, <1>5, <1>6, VersionAdded
<1>8. PICK ledger : ledger = WithKey(first, save.id)
  OBVIOUS
<1>9. PICK row : row = [key |-> save.key, archive |-> save.archive, id |-> save.id]
  OBVIOUS
<1>10. /\ ledger \in Ledgers /\ ledger.versions = first.versions /\ row \in ToSet(ledger.keys)
       /\ ToSet(ledger.keys) \subseteq ToSet(index.keys) \cup {row}
  BY <1>2, <1>7, <1>8, <1>9, KeyAdded
<1>11. PICK old \in Saves : old = save
  BY <1>2
<1>12. PICK new : new = [old EXCEPT !.at = "publish", !.ledger = ledger]
  OBVIOUS
<1>13. /\ new \in Saves /\ new.at = "publish" /\ new.id = old.id /\ new.key = old.key
       /\ new.archive = old.archive /\ new.ledger = ledger
  BY <1>10, <1>12 DEF Saves
<1>14. save' = new
  BY <1>2, <1>3, <1>5, <1>8, <1>11, <1>12
<1>15. /\ save.id = saves /\ save.id \notin Ids(index) /\ (\A k \in ToSet(index.keys) : k.id # save.id)
       /\ save.key \notin KeysOf(index) /\ save.id \in loose \cup packed /\ save.id \in refs
  BY <1>1 DEF SaveSound, New, Making
<1>16. row.key = save.key /\ row.id = save.id /\ row.archive = save.archive
       /\ version.id = save.id /\ version.archive = save.archive
  BY <1>6, <1>9
<1>17. /\ \A v \in ToSet(index.versions) : v.id # save.id
       /\ \A k \in ToSet(index.keys) : k.key # save.key
  BY <1>15 DEF Ids, KeysOf
<1>18. saves \in 1 .. saves
  BY <1>1 DEF SaveSound, New, Making, CheckpointTypes
<1>19. LedgerSound(ledger)
  <2>1. \A k, l \in ToSet(ledger.keys) : k.key = l.key => k = l
    BY <1>10, <1>16, <1>17 DEF IndexSound, LedgerSound
  <2>2. \A k \in ToSet(ledger.keys) : k.id \in 1 .. saves
    BY <1>10, <1>15, <1>16, <1>18 DEF IndexSound, LedgerSound
  <2>3. \A v \in ToSet(ledger.versions) : v.id \in 1 .. saves
    BY <1>7, <1>10, <1>15, <1>16, <1>18 DEF IndexSound, LedgerSound
  <2>4. \A k \in ToSet(ledger.keys), w \in ToSet(ledger.versions) :
            w.id = k.id => ContentOf[w.archive] = ContentOf[k.archive]
    BY <1>7, <1>10, <1>15, <1>16, <1>17 DEF IndexSound, LedgerSound
  <2>5. \A v, w \in ToSet(ledger.versions) : v.id = w.id => v = w
    BY <1>7, <1>10, <1>16, <1>17 DEF IndexSound, LedgerSound
  <2> QED
    BY <2>1, <2>2, <2>3, <2>4, <2>5 DEF LedgerSound
<1>20. \A v \in ToSet(ledger.versions) : v.archive \in archives' /\ v.id \in refs /\ v.id \in loose \cup packed
  BY <1>1, <1>7, <1>10, <1>15, <1>16 DEF IndexSound, Backed
<1>21. Deserved(new, ledger)
  BY <1>7, <1>9, <1>10, <1>11, <1>13, <1>16 DEF Deserved
<1>22. CheckpointTypes'
  BY <1>1, <1>2, <1>13, <1>14 DEF CheckpointTypes, repoVars
<1>23. LedgerSound(index)' /\ AnswersSound'
  BY <1>1, HistoryKept
<1>24. IndexSound'
  BY <1>1, <1>23 DEF IndexSound, Backed, repoVars
<1>25. SaveSound'
  <2>1. save'.at = "publish" /\ save'.ledger = ledger /\ save'.key = save.key /\ save'.id = save.id /\ save'.archive = save.archive
    BY <1>11, <1>13, <1>14
  <2>2. index' = index /\ saves' = saves
    BY <1>1
  <2>3. Deserved(save', save'.ledger)
    BY <1>14, <1>21, <2>1
  <2>4. save'.key \notin KeysOf(index') /\ saves' \notin Ids(index')
    BY <1>15, <2>1, <2>2
  <2>5. /\ ToSet(save'.ledger.keys) \subseteq
               ToSet(index'.keys) \cup {[key |-> save'.key, archive |-> save'.archive, id |-> save'.id]}
        /\ ToSet(save'.ledger.versions) \subseteq ToSet(index'.versions) \cup {[id |-> saves', archive |-> save'.archive]}
    BY <1>6, <1>7, <1>9, <1>10, <1>15, <2>1, <2>2
  <2>6. LedgerSound(save.ledger)' /\ Backed(save.ledger)'
    BY <1>1, <1>19, <1>20, <2>1, <2>2 DEF LedgerSound, Backed, repoVars
  <2> QED
    BY <2>1, <2>2, <2>3, <2>4, <2>5, <2>6 DEF SaveSound, Cleaning, Making
<1>26. MarkerSound' /\ ReclaimSound'
  BY <1>1, <1>13, <1>14 DEF MarkerSound, ReclaimSound, repoVars
<1> QED
  BY <1>22, <1>23, <1>24, <1>25, <1>26

\* The rename of the index: what it no longer names is dropped.
LEMMA PublishStep == ASSUME CheckpointInv, Publish PROVE CheckpointInv'
<1> USE DEF CheckpointInv
<1>1. /\ save.at = "publish" /\ index' = save.ledger /\ UNCHANGED <<archives, repoVars, answered, saves, repacks>>
      /\ dropped' = dropped \cup (Ids(index) \ Ids(save.ledger)) \cup (KeysOf(index) \ KeysOf(save.ledger))
      /\ recent' = (recent \/ save.id \notin Ids(index))
      /\ save' = [save EXCEPT !.at = "mark", !.after = "answer"]
  BY DEF Publish
<1>2. save \in Saves
  BY <1>1, NoSaveIsIdle, SaveFields
<1>3. PICK old \in Saves : old = save
  BY <1>2
<1>4. PICK new : new = [old EXCEPT !.at = "mark", !.after = "answer"]
  OBVIOUS
<1>5. /\ new \in Saves /\ new.at = "mark" /\ new.after = "answer" /\ new.id = old.id /\ new.key = old.key
      /\ new.archive = old.archive /\ new.ledger = old.ledger
  BY <1>4 DEF Saves, Cleaning
<1>6. save' = new
  BY <1>1, <1>3, <1>4
<1>7. /\ save' \in Saves /\ save'.at = "mark" /\ save'.after = "answer" /\ save'.id = save.id /\ save'.key = save.key
      /\ save'.archive = save.archive /\ save'.ledger = index'
  BY <1>1, <1>3, <1>5, <1>6
<1>8. CheckpointTypes'
  <2>1. index' \in Ledgers
    BY <1>1, <1>2 DEF Saves
  <2>2. recent' \in BOOLEAN
    BY <1>1 DEF CheckpointTypes
  <2> QED
    BY <1>1, <1>7, <2>1, <2>2 DEF CheckpointTypes, repoVars
<1>9. PICK ledger : ledger = save.ledger
  OBVIOUS
<1>10. /\ LedgerSound(ledger) /\ Backed(ledger) /\ Deserved(save, ledger)
       /\ save.key \notin KeysOf(index) /\ saves \notin Ids(index)
       /\ ToSet(ledger.versions) \subseteq ToSet(index.versions) \cup {[id |-> saves, archive |-> save.archive]}
       /\ ToSet(ledger.keys) \subseteq
              ToSet(index.keys) \cup {[key |-> save.key, archive |-> save.archive, id |-> save.id]}
  BY <1>1, <1>9 DEF SaveSound
<1>11. IndexSound'
  BY <1>1, <1>9, <1>10 DEF IndexSound, LedgerSound, Backed, repoVars
<1>12. Deserved(save', index')
  BY <1>1, <1>7, <1>9, <1>10 DEF Deserved
<1>13. SaveSound'
  BY <1>7, <1>12 DEF SaveSound, Cleaning, Making
<1>14. MarkerSound' /\ ReclaimSound'
  BY <1>1, <1>7 DEF MarkerSound, ReclaimSound, repoVars
<1>15. AnswersSound'
  <2> SUFFICES ASSUME NEW s \in answered
               PROVE  /\ s.id \in dropped' \/ \E v \in ToSet(ledger.versions) :
                             v.id = s.id /\ ContentOf[v.archive] = ContentOf[s.archive]
                      /\ s.id \in 1 .. saves
                      /\ s.key \in dropped' \/ s \in ToSet(ledger.keys)
    BY <1>1, <1>9 DEF AnswersSound
  <2>1. ASSUME NEW v \in ToSet(index.versions), v.id = s.id, ContentOf[v.archive] = ContentOf[s.archive]
        PROVE  s.id \in dropped' \/ \E w \in ToSet(ledger.versions) :
                             w.id = s.id /\ ContentOf[w.archive] = ContentOf[s.archive]
    <3>1. CASE s.id \in Ids(ledger)
      <4>1. PICK w \in ToSet(ledger.versions) : w.id = s.id
        BY <3>1 DEF Ids
      <4>2. [id |-> saves, archive |-> save.archive].id = saves
        OBVIOUS
      <4>3. s.id # saves
        BY <1>10, <2>1 DEF Ids
      <4>4. w \in ToSet(index.versions)
        BY <1>10, <4>1, <4>2, <4>3
      <4>5. w = v
        BY <2>1, <4>1, <4>4 DEF IndexSound, LedgerSound
      <4> QED
        BY <2>1, <4>1, <4>5
    <3>2. CASE s.id \notin Ids(ledger)
      <4>1. s.id \in Ids(index)
        BY <2>1 DEF Ids
      <4> QED
        BY <1>1, <1>9, <3>2, <4>1
    <3> QED
      BY <3>1, <3>2
  <2>2. ASSUME s \in ToSet(index.keys) PROVE s.key \in dropped' \/ s \in ToSet(ledger.keys)
    <3>1. CASE s.key \in KeysOf(ledger)
      <4>1. PICK k \in ToSet(ledger.keys) : k.key = s.key
        BY <3>1 DEF KeysOf
      <4>2. [key |-> save.key, archive |-> save.archive, id |-> save.id].key = save.key
        OBVIOUS
      <4>3. s.key # save.key
        BY <1>10, <2>2 DEF KeysOf
      <4>4. k \in ToSet(index.keys)
        BY <1>10, <4>1, <4>2, <4>3
      <4>5. k = s
        BY <2>2, <4>1, <4>4 DEF IndexSound, LedgerSound
      <4> QED
        BY <4>1, <4>5
    <3>2. CASE s.key \notin KeysOf(ledger)
      <4>1. s.key \in KeysOf(index)
        BY <2>2 DEF KeysOf
      <4> QED
        BY <1>1, <1>9, <3>2, <4>1
    <3> QED
      BY <3>1, <3>2
  <2>3. dropped \subseteq dropped'
    BY <1>1
  <2> QED
    BY <2>1, <2>2, <2>3 DEF AnswersSound
<1> QED
  BY <1>8, <1>11, <1>13, <1>14, <1>15

LEMMA AnswerStep == ASSUME CheckpointInv, Answer PROVE CheckpointInv'
<1> USE DEF CheckpointInv
<1>1. PICK row : row = [key |-> save.key, archive |-> save.archive, id |-> save.id]
  OBVIOUS
<1>2. /\ save.at = "answer" /\ answered' = answered \cup {row} /\ save' = NoSave
      /\ UNCHANGED <<storeVars, dropped, saves, repacks>>
  BY <1>1 DEF Answer
<1>3. save \in Saves
  BY <1>2, NoSaveIsIdle, SaveFields
<1>4. Deserved(save, index)
  BY <1>2 DEF SaveSound
<1>5. row \in KeyRows /\ row.id = save.id /\ row.archive = save.archive /\ row.key = save.key
  BY <1>1, <1>3 DEF Saves, KeyRows
<1>6. row \in ToSet(index.keys) /\ \E v \in ToSet(index.versions) :
          v.id = row.id /\ ContentOf[v.archive] = ContentOf[row.archive]
  BY <1>1, <1>4, <1>5 DEF Deserved
<1>7. row.id \in 1 .. saves
  BY <1>6 DEF IndexSound, LedgerSound
<1>8. CheckpointTypes'
  BY <1>2, <1>5 DEF CheckpointTypes, storeVars, repoVars
<1>9. AnswersSound'
  BY <1>2, <1>6, <1>7 DEF AnswersSound, storeVars
<1>10. IndexSound'
  BY <1>2 DEF IndexSound, LedgerSound, Backed, storeVars, repoVars
<1>11. MarkerSound' /\ SaveSound' /\ ReclaimSound'
  BY <1>2, IdleSound DEF MarkerSound, storeVars, repoVars
<1> QED
  BY <1>8, <1>9, <1>10, <1>11

LEMMA OutsideSteps == ASSUME CheckpointInv, FailSave \/ Wait \/ OperatorRepack PROVE CheckpointInv'
<1> USE DEF CheckpointInv
<1>1. CASE FailSave
  BY <1>1, EndOfSave DEF FailSave
<1>2. CASE Wait
  <2>1. save' = NoSave /\ recent' = FALSE /\ UNCHANGED <<index, archives, repoVars, answered, dropped, saves, repacks>>
    BY <1>2 DEF Wait
  <2>2. CheckpointTypes'
    BY <2>1 DEF CheckpointTypes, repoVars
  <2>3. IndexSound' /\ AnswersSound'
    BY <2>1, HistoryKept DEF IndexSound, Backed, repoVars
  <2>4. MarkerSound' /\ SaveSound' /\ ReclaimSound'
    BY <2>1, IdleSound DEF MarkerSound, repoVars
  <2> QED
    BY <2>2, <2>3, <2>4
<1>3. CASE OperatorRepack
  <2>1. /\ save' = NoSave /\ repacks' = repacks + 1
        /\ packed' = packed \cup (loose \cap refs) /\ loose' = loose \ refs
        /\ UNCHANGED <<index, archives, refs, marker, recent, answered, dropped, saves>>
    BY <1>3 DEF OperatorRepack
  <2>2. repacks' \in Nat
    BY <2>1 DEF CheckpointTypes
  <2>3. CheckpointTypes'
    BY <2>1, <2>2 DEF CheckpointTypes
  <2>4. IndexSound' /\ AnswersSound'
    BY <2>1, HistoryKept DEF IndexSound, Backed
  <2>5. packed' \subseteq refs' \/ marker' = "set"
    BY <2>1 DEF MarkerSound
  <2>6. MarkerSound' /\ SaveSound' /\ ReclaimSound'
    BY <2>1, <2>5, IdleSound
  <2> QED
    BY <2>3, <2>4, <2>6
<1> QED
  BY <1>1, <1>2, <1>3

LEMMA CheckpointStep == ASSUME CheckpointInv, [CheckpointNext]_checkpointVars PROVE CheckpointInv'
<1>1. CASE CheckpointNext
  BY <1>1, BeginStep, MarkStep, WriteMarkStep, UnrefStep, RepackStep, PruneStep, UnmarkStep, TidyStep,
     ReplayStep, UnchangedStep, DecideStep, WriteSteps, WriteArchiveStep, PublishStep, AnswerStep, OutsideSteps
     DEF CheckpointNext
<1>2. CASE UNCHANGED checkpointVars
  BY <1>2 DEF checkpointVars, CheckpointInv, CheckpointTypes, IndexSound, LedgerSound, Backed, MarkerSound,
              Expired, SaveSound, New, Deserved, ReclaimSound, AnswersSound
<1> QED
  BY <1>1, <1>2

LEMMA CheckpointInvSuffices == CheckpointInv => SavesAreKeptOrErased
<1> SUFFICES ASSUME CheckpointInv PROVE SavesAreKeptOrErased
  OBVIOUS
<1> USE DEF CheckpointInv
<1>1. \A s, t \in answered : s.key = t.key /\ s.key \notin dropped => s.id = t.id /\ s.archive = t.archive
  BY DEF AnswersSound, IndexSound, LedgerSound
<1>2. SavesAreKept
  BY <1>1 DEF SavesAreKept, AnswersSound, IndexSound, Backed
<1>3. ASSUME save.at = "answer" PROVE refs \cup loose \cup packed = Ids(index) /\ archives = Files(index)
  <2>1. refs \subseteq Ids(index) /\ packed \subseteq refs /\ loose \subseteq refs /\ archives \subseteq Files(index)
    BY <1>3 DEF ReclaimSound
  <2>2. Ids(index) \subseteq refs /\ Files(index) \subseteq archives
    BY DEF IndexSound, Backed, Ids, Files
  <2> QED
    BY <2>1, <2>2
<1> QED
  BY <1>2, <1>3 DEF SavesAreKeptOrErased, ExpiredCodeIsErased

\* What a student saved is kept until retention drops it, whatever was
\* interrupted, and erased everywhere before the next save is answered.
THEOREM SavesStayKeptOrErased == CheckpointSpec => []SavesAreKeptOrErased
<1>1. CheckpointInv /\ [CheckpointNext]_checkpointVars => CheckpointInv'
  BY CheckpointStep
<1> QED
  BY <1>1, CheckpointInitially, CheckpointInvSuffices, PTL DEF CheckpointSpec
================================================================================
