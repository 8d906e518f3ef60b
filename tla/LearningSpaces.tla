---------------------------- MODULE LearningSpaces ----------------------------
(***************************************************************************)
(* Remote learning spaces: the API broker (learning_runtime.py) and the    *)
(* private worker that owns the containers (learning_runtime_worker.py).   *)
(* The broker asks the student's rights again while the worker is busy and *)
(* cancels what it asked for when they are gone; requests and              *)
(* cancellations arrive late and out of order.  The worker changes its     *)
(* spaces under one lock, but a program runs outside of it, so a space may *)
(* be closed, expire or be deleted with its course while its container is  *)
(* being started.  Docker calls may fail, or succeed without an answer.    *)
(*                                                                         *)
(* A space is named by the request that created it, a container by the run *)
(* it was made for.  The files come from a version the student saved       *)
(* (LearningCheckpoints); the broker reads it before it sends the request. *)
(***************************************************************************)
EXTENDS Integers, FiniteSets

CONSTANTS
    Owners,      \* a student on an assignment of the course
    MaxSpaces,   \* sessions the worker keeps open
    MaxRuns,     \* programs that run at the same time
    MaxRequests, \* bound: requests of students (and their names)
    MaxTroubles, \* bound: failures of Docker, the disk or the connection
    MaxCrashes,  \* bound: deaths of the worker
    None

Requests == 1 .. MaxRequests

ASSUME SpaceAssumption ==
    /\ {MaxSpaces, MaxRuns} \subseteq Nat \ {0}
    /\ {MaxRequests, MaxTroubles, MaxCrashes} \subseteq Nat
    /\ None \notin Requests

VARIABLES
    request,  \* what the broker does for each request
    inbox,    \* calls on their way to the worker
    revoked,  \* owners whose session ended
    up,       \* the worker process runs
    space,    \* sessions.json
    disk,     \* spaces with a directory under the worker's root
    docker,   \* the container of each run
    thread,   \* the worker thread of each run
    tombs,    \* cancelled_creates
    course,   \* "open", "fenced" or, when cancel_course succeeded, "verified"
    asked, troubles, crashes

brokerVars == <<request, inbox, revoked>>
workerVars == <<up, space, disk, docker, thread, tombs, course>>
boundVars == <<asked, troubles, crashes>>
spaceVars == <<request, inbox, revoked, up, space, disk, docker, thread, tombs, course,
               asked, troubles, crashes>>

Nobody == [status |-> "none"]
Unused == [at |-> "unused"]

SpaceInit ==
    /\ request = [r \in Requests |-> Unused]
    /\ inbox = {} /\ revoked = {} /\ up = TRUE /\ disk = {}
    /\ space = [s \in Requests |-> Nobody]
    /\ docker = [r \in Requests |-> "none"]
    /\ thread = [r \in Requests |-> "none"]
    /\ tombs = {} /\ course = "open"
    /\ asked = 0 /\ troubles = 0 /\ crashes = 0

Ended == {"none", "closed", "expired", "forgotten"}
Active(s) == space[s].status \notin Ended
ActiveOf(o) == {s \in Requests : Active(s) /\ space[s].owner = o}
Busy == {r \in Requests : thread[r] # "none"}
Goes(r, step) == request' = [request EXCEPT ![r].at = step]

\* One of the bounded mishaps of Docker, the disk and the connection.
Trouble == troubles < MaxTroubles /\ troubles' = troubles + 1

---------------------------------------------------------------------------
(* The broker.                                                             *)

\* The student's rights and the saved version are checked, then it is sent.
Ask(o, kind, s) ==
    LET r == asked + 1 IN
    /\ asked < MaxRequests /\ o \notin revoked /\ up
    /\ kind # "create" => space[s].status # "none" /\ space[s].owner = o
    /\ asked' = r
    /\ request' = [request EXCEPT ![r] = [at |-> "waiting", kind |-> kind, owner |-> o,
                                          space |-> IF kind = "create" THEN r ELSE s]]
    /\ inbox' = inbox \cup {<<"do", r>>}
    /\ UNCHANGED <<revoked, workerVars, troubles, crashes>>

\* Logout, a new password, a removed enrolment.
Revoke(o) ==
    /\ o \notin revoked
    /\ revoked' = revoked \cup {o}
    /\ UNCHANGED <<request, inbox, workerVars, boundVars>>

\* The rights are asked again while the broker waits and after the answer; when
\* they are gone it sends a cancellation.
Deny(r) ==
    /\ request[r].at \in {"waiting", "replied"} /\ request[r].owner \in revoked
    /\ Goes(r, "cancelling")
    /\ inbox' = inbox \cup {<<"cancel", r>>}
    /\ UNCHANGED <<revoked, workerVars, boundVars>>

\* The answer arrives while the student still has the rights.
Return(r) ==
    /\ request[r].at = "replied" /\ request[r].owner \notin revoked
    /\ Goes(r, "ended")
    /\ UNCHANGED <<inbox, revoked, workerVars, boundVars>>

\* The connection breaks or the broker has waited long enough; the worker may
\* still carry the call out.
GiveUp(r) ==
    /\ request[r].at \in {"waiting", "cancelling"}
    /\ Trouble
    /\ Goes(r, "ended")
    /\ UNCHANGED <<inbox, revoked, workerVars, asked, crashes>>

---------------------------------------------------------------------------
(* Containers and directories.                                             *)

\* The states a removal leaves: a creation that Docker has not carried out yet
\* is not seen by the check that the container is gone.
Removed(state) == IF state = "late" THEN "late" ELSE "none"

\* _cleanup of a set of spaces.  Those in `failing` keep some part of what they
\* had and are retried later.
Cleaned(those, failing, status) ==
    LET gone == those \ failing
        names == {space[s].container : s \in gone}
    IN
    /\ failing \subseteq those
    /\ failing # {} => Trouble
    /\ failing = {} => UNCHANGED troubles
    /\ space' = [s \in Requests |->
           IF s \in gone THEN [space[s] EXCEPT !.status = status, !.container = None]
           ELSE IF s \in failing THEN [space[s] EXCEPT !.status = "cleanup_failed"] ELSE space[s]]
    /\ disk' = disk \ gone
    /\ \E half \in SUBSET {space[s].container : s \in failing} :
           docker' = [r \in Requests |-> IF r \in names \cup half THEN Removed(docker[r]) ELSE docker[r]]

---------------------------------------------------------------------------
(* The worker: create, cancel_create, close and cancel.                    *)

Take(call) == up /\ call \in inbox /\ inbox' = inbox \ {call}

\* The broker hears the answer only while it waits for it.
Reply(r, step) == request' = IF request[r].at = "waiting" THEN [request EXCEPT ![r].at = step] ELSE request

\* A request that was cancelled before it arrived, or a deleted course.
Refused(r) == course # "open" \/ r \in tombs

HasSpace == Cardinality({t \in Requests : Active(t)}) < MaxSpaces

Refuse(r) ==
    LET q == request[r]  s == q.space IN
    /\ Take(<<"do", r>>)
    /\ \/ q.kind = "create" /\ \/ Refused(r)
                               \/ \E t \in ActiveOf(q.owner) : space[t].status # "ready"
                               \/ ActiveOf(q.owner) = {} /\ ~HasSpace
       \/ q.kind = "run" /\ (Cardinality(Busy) >= MaxRuns \/ course # "open" \/ space[s].status # "ready")
       \/ q.kind = "close" /\ space[s].status = "forgotten"
    /\ Reply(r, "ended")
    /\ UNCHANGED <<revoked, workerVars, boundVars>>

Fresh(r) == [status |-> "ready", owner |-> request[r].owner, container |-> None, create |-> r, due |-> FALSE]

\* The student's ready space is prepared again, or a new one is made.
Create(r) ==
    LET o == request[r].owner IN
    /\ request[r].at # "unused" /\ request[r].kind = "create"
    /\ Take(<<"do", r>>) /\ ~Refused(r)
    /\ \/ /\ \E s \in ActiveOf(o) :
                 /\ space[s].status = "ready"
                 /\ space' = [space EXCEPT ![s].create = r, ![s].due = FALSE]
          /\ UNCHANGED disk
       \/ /\ ActiveOf(o) = {} /\ HasSpace
          /\ space' = [space EXCEPT ![r] = Fresh(r)]
          /\ disk' = disk \cup {r}
    /\ Reply(r, "replied")
    /\ UNCHANGED <<revoked, up, docker, thread, tombs, course, boundVars>>

\* The worker fails after it made the directory and before it saved the space.
CreateFails(r) ==
    /\ request[r].at # "unused" /\ request[r].kind = "create"
    /\ Take(<<"do", r>>) /\ ~Refused(r) /\ ActiveOf(request[r].owner) = {}
    /\ Trouble
    /\ disk' = disk \cup {r}
    /\ Reply(r, "ended")
    /\ UNCHANGED <<revoked, up, space, docker, thread, tombs, course, asked, crashes>>

Close(r) ==
    LET s == request[r].space IN
    /\ request[r].at # "unused" /\ request[r].kind = "close"
    /\ Take(<<"do", r>>) /\ space[s].status # "forgotten"
    /\ \E failing \in SUBSET {s} :
           /\ Cleaned({s}, failing, "closed")
           /\ Reply(r, IF failing = {} THEN "replied" ELSE "ended")
    /\ UNCHANGED <<revoked, up, thread, tombs, course, asked, crashes>>

\* cancel_create leaves a tombstone; cancel closes the space.
Cancel(r) ==
    LET q == request[r]
        those == IF q.kind = "create" THEN {s \in Requests : space[s].status \notin {"none", "forgotten"} /\ space[s].create = r}
                 ELSE {q.space} IN
    /\ Take(<<"cancel", r>>)
    /\ tombs' = IF q.kind = "create" THEN tombs \cup {r} ELSE tombs
    /\ IF course # "open" \/ \E s \in those : space[s].status = "forgotten"
         THEN /\ request' = IF q.at = "cancelling" THEN [request EXCEPT ![r].at = "ended"] ELSE request
              /\ UNCHANGED <<troubles, space, disk, docker>>
         ELSE \E failing \in SUBSET those :
                  /\ Cleaned(those, failing, "closed")
                  /\ request' = IF q.at = "cancelling"
                                  THEN [request EXCEPT ![r].at = IF failing = {} THEN "cancelled" ELSE "ended"]
                                  ELSE request
    /\ UNCHANGED <<revoked, up, thread, course, asked, crashes>>

\* cancel_course: the fence is durable first, then every space is removed and
\* forgotten; what could not be removed is kept for a later attempt.
CancelCourse ==
    LET recorded == {s \in Requests : space[s].status \notin {"none", "forgotten"}} IN
    /\ up /\ course # "verified"
    /\ \E failing \in SUBSET {s \in recorded : Active(s)} :
           /\ Cleaned(recorded, failing, "forgotten")
           /\ course' = IF failing = {} THEN "verified" ELSE "fenced"
    /\ UNCHANGED <<brokerVars, up, thread, tombs, asked, crashes>>

---------------------------------------------------------------------------
(* The worker: run.                                                        *)

\* The container is created under the lock and started after it.  When Docker
\* does not confirm the creation the space is blocked, its container may exist
\* or appear later; when the session file cannot be saved it stays running.
Run(r) ==
    LET s == request[r].space
        running == [space EXCEPT ![s].status = "running", ![s].container = r,
                                 ![s].create = None, ![s].due = FALSE]
    IN
    /\ request[r].at # "unused" /\ request[r].kind = "run"
    /\ Take(<<"do", r>>)
    /\ course = "open" /\ Cardinality(Busy) < MaxRuns /\ space[s].status = "ready"
    /\ \/ /\ space' = running
          /\ docker' = [docker EXCEPT ![r] = "created"]
          /\ thread' = [thread EXCEPT ![r] = "prepared"]
          /\ UNCHANGED <<troubles, request>>
       \/ /\ Trouble /\ Reply(r, "ended") /\ UNCHANGED thread
          /\ \/ /\ space' = [running EXCEPT ![s].status = "cleanup_failed"]
                /\ \E state \in {"none", "late", "created"} : docker' = [docker EXCEPT ![r] = state]
             \/ space' = running /\ UNCHANGED docker
    /\ UNCHANGED <<revoked, up, disk, tombs, course, asked, crashes>>

\* docker start: it never creates the container again.
LaunchedAnyway(state) == "starting"
Launched(state) == IF state = "created" THEN "starting" ELSE state

Launch(r) ==
    /\ thread[r] = "prepared"
    /\ thread' = [thread EXCEPT ![r] = "attached"]
    /\ docker' = [docker EXCEPT ![r] = Launched(@)]
    /\ UNCHANGED <<brokerVars, up, space, disk, tombs, course, boundVars>>

\* A program that ended leaves its container behind.
Progress == [late |-> "created", starting |-> "started", started |-> "created"]

\* Docker carries out what it was asked for, perhaps after the worker died.
DockerStep(r) ==
    /\ docker[r] \in DOMAIN Progress
    /\ docker' = [docker EXCEPT ![r] = Progress[@]]
    /\ UNCHANGED <<brokerVars, up, space, disk, thread, tombs, course, boundVars>>

\* The program ended, its container is gone, or its time is over: the thread
\* removes the container in any case.
RemoveContainer(r) ==
    /\ thread[r] = "attached"
    /\ \/ /\ docker' = [docker EXCEPT ![r] = Removed(@)]
          /\ thread' = [thread EXCEPT ![r] = "removed"]
          /\ UNCHANGED troubles
       \/ /\ Trouble
          /\ \E state \in {docker[r], Removed(docker[r])} : docker' = [docker EXCEPT ![r] = state]
          /\ thread' = [thread EXCEPT ![r] = "unremoved"]
    /\ UNCHANGED <<brokerVars, up, space, disk, tombs, course, asked, crashes>>

\* Under the lock again: the space may have been closed meanwhile.  A failed
\* removal blocks it whatever its status is now.
Finish(r) ==
    LET s == request[r].space IN
    /\ thread[r] \in {"removed", "unremoved"}
    /\ thread' = [thread EXCEPT ![r] = "none"]
    /\ space' = IF thread[r] = "unremoved" /\ space[s].status # "forgotten"
                  THEN [space EXCEPT ![s].status = "cleanup_failed"]
                ELSE IF thread[r] = "removed" /\ space[s].status = "running"
                  THEN [space EXCEPT ![s].status = "ready", ![s].container = None]
                ELSE space
    /\ \E step \in {"replied", "ended"} : Reply(r, step)
    /\ UNCHANGED <<inbox, revoked, up, disk, docker, tombs, course, boundVars>>

---------------------------------------------------------------------------
(* The worker: leases, death and restart.                                  *)

Lapse(s) ==
    /\ Active(s) /\ ~space[s].due
    /\ space' = [space EXCEPT ![s].due = TRUE]
    /\ UNCHANGED <<brokerVars, up, disk, docker, thread, tombs, course, boundVars>>

\* Spaces whose lease is over, those that could not be cleaned included.
ReapableIfUsable(s) == space[s].status \in {"ready", "running"} /\ space[s].due
Reapable(s) == Active(s) /\ space[s].due

Reap(s) ==
    /\ up /\ Reapable(s)
    /\ \E failing \in SUBSET {s} : Cleaned({s}, failing, "expired")
    /\ UNCHANGED <<brokerVars, up, thread, tombs, course, asked, crashes>>

Die ==
    /\ up /\ crashes < MaxCrashes
    /\ crashes' = crashes + 1
    /\ up' = FALSE /\ inbox' = {}
    /\ thread' = [r \in Requests |-> "none"]
    /\ request' = [r \in Requests |-> IF request[r].at \in {"waiting", "cancelling"}
                                        THEN [request[r] EXCEPT !.at = "ended"] ELSE request[r]]
    /\ UNCHANGED <<revoked, space, disk, docker, tombs, course, asked, troubles>>

\* Every container of this root is removed and no space is resumed; a removal
\* that cannot be confirmed stops the start, and the service manager retries.
Restart ==
    LET those == {s \in Requests : Active(s)} IN
    /\ ~up /\ up' = TRUE
    /\ docker' = [r \in Requests |-> Removed(docker[r])]
    /\ space' = [s \in Requests |-> IF s \in those
                     THEN [space[s] EXCEPT !.status = "expired", !.container = None] ELSE space[s]]
    /\ disk' = disk \ those
    /\ UNCHANGED <<brokerVars, thread, tombs, course, boundVars>>

---------------------------------------------------------------------------
Broker ==
    \/ \E o \in Owners : Revoke(o) \/ \E kind \in {"create", "run", "close"}, s \in Requests : Ask(o, kind, s)
    \/ \E r \in Requests : Deny(r) \/ Return(r) \/ GiveUp(r)

Worker ==
    \/ \E r \in Requests :
           \/ Refuse(r) \/ Create(r) \/ CreateFails(r) \/ Close(r) \/ Cancel(r)
           \/ Run(r) \/ Launch(r) \/ DockerStep(r) \/ RemoveContainer(r) \/ Finish(r)
           \/ Lapse(r) \/ Reap(r)
    \/ CancelCourse \/ Die \/ Restart

SpaceNext == Broker \/ Worker
SpaceSpec == SpaceInit /\ [][SpaceNext]_spaceVars

\* Time passes, the reaper runs twice a second, and the service manager starts
\* the worker again.  Nothing is assumed of clients, brokers and programs.
SpaceFairness ==
    /\ WF_spaceVars(Restart)
    /\ \A s \in Requests : WF_spaceVars(Lapse(s)) /\ WF_spaceVars(Reap(s))

---------------------------------------------------------------------------
(* Properties.                                                             *)

Executing(r) == docker[r] = "started"

\* While the worker is up a program executes only in a space that is running
\* or whose removal is known to have failed; a space whose end was confirmed
\* has no directory, a student has at most one usable space, an acknowledged
\* cancellation leaves nothing of its request, and after cancel_course succeeded
\* nothing of the course is left but a directory that was never recorded.
NothingRunsUnwanted ==
    /\ up => \A r \in Requests : Executing(r) =>
                  space[request[r].space].status \in {"running", "cleanup_failed"}
    /\ \A s \in disk : space[s].status \in {"none", "ready", "running", "cleanup_failed"}
    /\ \A o \in Owners : Cardinality({s \in ActiveOf(o) : space[s].status # "cleanup_failed"}) <= 1
    /\ \A r \in Requests : request[r].at = "cancelled" =>
           IF request[r].kind = "create"
             THEN \A s \in Requests : Active(s) => space[s].create # r \/ space[s].status = "cleanup_failed"
             ELSE ~Executing(r) /\ space[request[r].space].status \notin {"ready", "running"}
    /\ course = "verified" => \A s \in Requests : ~Active(s) /\ ~Executing(s)

\* Every space ends: when nobody closes it, when its cancellation is lost, when
\* its cleanup failed or the worker died.
EverySpaceEnds == \A s \in Requests : Active(s) ~> ~Active(s)
=============================================================================
