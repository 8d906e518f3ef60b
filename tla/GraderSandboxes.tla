---------------------------- MODULE GraderSandboxes ----------------------------
(***************************************************************************)
(* The containers (or, on a pilot host, the process groups) in which       *)
(* submissions are assessed.  The grader creates one under a fresh name,   *)
(* starts it, waits, and removes it; a grader that is closed removes those *)
(* still registered; a service that boots removes what an earlier one left *)
(* under its label.  A command that fails or runs out of time may be       *)
(* carried out by the runtime later.  An operator's `bundle-check` uses    *)
(* the label of the service in a process and a grader of its own.          *)
(***************************************************************************)
EXTENDS Integers, FiniteSets

CONSTANTS
    Assessors,    \* threads of the service that grade
    Check,        \* the process of a bundle-check
    MaxBoxes,     \* bound on the sandboxes ever named
    MaxLives,     \* bound on the processes of the service
    MaxMishaps    \* bound on failed commands and crashes

ASSUME SandboxAssumption ==
    /\ Check \notin Assessors
    /\ {MaxBoxes, MaxLives} \subseteq Nat \ {0} /\ MaxMishaps \in Nat

VARIABLES
    runtime,   \* --grading-runtime: "container" or "pilot-local"
    life,      \* the service: "down", "listing", "sweeping", "up", "draining", "closed"
    lives,     \* number of its processes so far
    doomed,    \* the names its main thread has still to remove
    assessor,  \* where each assessment is, its name, and what went wrong
    box,       \* the sandboxes as the runtime knows them
    maker,     \* who made each: an assessor and its service process
    stranded,    \* commands whose client is gone that the runtime may carry out
    ended,     \* sandboxes whose program came to its own end
    lost,      \* sandboxes nobody removes any more: a removal failed, a process died
    verdict,   \* what grade() told of each
    mishaps

sandboxVars == <<runtime, life, lives, doomed, assessor, box, maker, stranded, ended,
                 lost, verdict, mishaps>>

Boxes == 1 .. MaxBoxes
Graders == Assessors \cup {Check}
Unoccupied == [at |-> "idle", name |-> 0, fault |-> "none"]
Existing == {"created", "running", "exited"}
Serving == {"up", "draining", "closed"}

SandboxInit ==
    /\ runtime \in {"container", "pilot-local"}
    /\ life = "down" /\ lives = 0 /\ doomed = {}
    /\ assessor = [x \in Graders |-> Unoccupied]
    /\ box = [n \in Boxes |-> "none"]
    /\ maker = [n \in Boxes |-> [who |-> Check, life |-> 0]]
    /\ stranded = {} /\ ended = {} /\ lost = {}
    /\ verdict = [n \in Boxes |-> "none"]
    /\ mishaps = 0

----------------------------------------------------------------------------
(* The runtime. *)

Mishap == mishaps < MaxMishaps /\ mishaps' = mishaps + 1
Fine == UNCHANGED mishaps

After(command, b) ==
    CASE command = "create" -> IF b = "none" THEN "created" ELSE b
      [] command = "start"  -> IF b = "created" THEN "running" ELSE b
      [] command = "rm"     -> IF b \in Existing THEN "gone" ELSE b

\* A command is carried out, fails, or is left to the runtime by a client that
\* timed out; killing a process group has no other outcome than the first.
Done(command, n) == box' = [box EXCEPT ![n] = After(command, @)] /\ UNCHANGED stranded /\ Fine
Undone(command, n) ==
    /\ runtime = "container" /\ Mishap
    /\ stranded' \in {stranded, stranded \cup {[command |-> command, name |-> n]}}
    /\ UNCHANGED box

CarryOut ==
    \E s \in stranded :
        /\ box' = [box EXCEPT ![s.name] = After(s.command, @)]
        /\ stranded' = stranded \ {s}
        /\ UNCHANGED <<runtime, life, lives, doomed, assessor, maker, ended, lost, verdict, mishaps>>

\* The program inside comes to its end; if a client is attached, it has the
\* status and the output, whatever happens to the sandbox afterwards.
Ends(n) ==
    /\ box[n] = "running"
    /\ box' = [box EXCEPT ![n] = "exited"]
    /\ ended' = ended \cup {n}
    /\ UNCHANGED <<runtime, life, lives, doomed, assessor, maker, stranded, lost, verdict, mishaps>>

----------------------------------------------------------------------------
(* One assessment: _grade_request, or _run on a pilot host. *)

Of(x) == assessor[x]
Goto(x, at) == assessor' = [assessor EXCEPT ![x].at = at]
GotoFault(x, at, fault) == assessor' = [assessor EXCEPT ![x].at = at, ![x].fault = fault]
\* Mutant of Registered: a name is registered once its sandbox has started.
RegisteredOnceStarted == {Of(x).name : x \in {y \in Assessors : Of(y).at \in {"running", "removing"}}}
Registered == {Of(x).name : x \in {y \in Assessors : Of(y).at \notin {"idle", "taken"}}}
Locked == \E x \in Assessors : Of(x).at = "creating"

\* Names are random: which unused one an assessment draws makes no difference.
Fresh == {n \in Boxes : maker[n].life = 0}
LifeOf(x) == IF x = Check THEN MaxLives + 1 ELSE lives

\* A thread takes a submission, or the operator starts a check.
Take(x) ==
    /\ Of(x).at = "idle"
    /\ x \in Assessors => life = "up"
    /\ Fresh # {}
    /\ LET n == CHOOSE fresh \in Fresh : TRUE
       IN  /\ assessor' = [assessor EXCEPT ![x] = [at |-> "taken", name |-> n, fault |-> "none"]]
           /\ maker' = [maker EXCEPT ![n] = [who |-> x, life |-> LifeOf(x)]]
    /\ UNCHANGED <<runtime, life, lives, doomed, box, stranded, ended, lost, verdict, mishaps>>

\* A closed grader refuses; otherwise the name is registered and the sandbox
\* created while the lifecycle lock is held.
Enter(x) ==
    /\ Of(x).at = "taken"
    /\ IF x \in Assessors /\ life = "closed"
       THEN /\ verdict' = [verdict EXCEPT ![Of(x).name] = "infra_failed"]
            /\ assessor' = [assessor EXCEPT ![x] = Unoccupied]
       ELSE /\ (x \in Assessors => ~Locked)
            /\ Goto(x, "creating") /\ UNCHANGED verdict
    /\ UNCHANGED <<runtime, life, lives, doomed, box, maker, stranded, ended, lost, mishaps>>

Create(x) ==
    /\ Of(x).at = "creating"
    /\ \/ runtime = "container" /\ Done("create", Of(x).name) /\ Goto(x, "created")
       \/ Undone("create", Of(x).name) /\ GotoFault(x, "sweeping", "infra_failed")
       \/ /\ runtime = "pilot-local" /\ Fine
          /\ box' = [box EXCEPT ![Of(x).name] = "running"]
          /\ Goto(x, "running") /\ UNCHANGED stranded
    /\ UNCHANGED <<runtime, life, lives, doomed, maker, ended, lost, verdict>>

\* The start of a sandbox that is gone, and one the runtime never answers (the
\* client is out of its time), look like an assessment that failed.
Launch(x) ==
    /\ Of(x).at = "created"
    /\ \/ /\ box[Of(x).name] = "created" /\ Done("start", Of(x).name)
          /\ Goto(x, "running")
       \/ /\ box[Of(x).name] # "created" /\ UNCHANGED <<box, stranded, mishaps>>
          /\ \E fault \in {"assessment_failed", "infra_failed"} : GotoFault(x, "removing", fault)
       \/ /\ Undone("start", Of(x).name)
          /\ \E fault \in {"assessment_failed", "infra_failed"} : GotoFault(x, "removing", fault)
    /\ UNCHANGED <<runtime, life, lives, doomed, maker, ended, lost, verdict>>

\* The classification of an execution.  A program that ended by itself left a
\* result or none, or a status that is taken for the runtime's own (125 to 127; on
\* a pilot host the marker of the limits is missing); one still running is out of
\* time or has written too much; one that was killed has whatever status.
Faults(n) ==
    CASE n \in ended -> {"none", "assessment_failed", "infra_failed"}
      [] box[n] = "running" -> {"assessment_failed"}
      [] OTHER -> {"assessment_failed", "infra_failed"}

Observe(x) ==
    /\ Of(x).at = "running"
    /\ \E fault \in Faults(Of(x).name) : GotoFault(x, "removing", fault)
    /\ UNCHANGED <<runtime, life, lives, doomed, box, maker, stranded, ended, lost, verdict, mishaps>>

\* A result counts only once its sandbox is removed.
Conclude(x, fault) ==
    /\ verdict' = [verdict EXCEPT ![Of(x).name] = IF fault = "none" THEN "graded" ELSE fault]
    /\ assessor' = [assessor EXCEPT ![x] = Unoccupied]

RemoveLeniently(x) ==
    /\ Of(x).at = "removing"
    /\ \/ Done("rm", Of(x).name) /\ UNCHANGED lost
       \/ Undone("rm", Of(x).name) /\ lost' = lost \cup {Of(x).name}
    /\ Conclude(x, Of(x).fault)
    /\ UNCHANGED <<runtime, life, lives, doomed, maker, ended>>
RemoveBox(x) ==
    /\ Of(x).at = "removing"
    /\ \/ Done("rm", Of(x).name) /\ Conclude(x, Of(x).fault) /\ UNCHANGED lost
       \/ Undone("rm", Of(x).name) /\ Conclude(x, "infra_failed") /\ lost' = lost \cup {Of(x).name}
    /\ UNCHANGED <<runtime, life, lives, doomed, maker, ended>>

\* Whether the sandbox exists is unknown after a failed creation.
Sweep(x) ==
    /\ Of(x).at = "sweeping"
    /\ \/ Done("rm", Of(x).name) /\ UNCHANGED lost
       \/ Undone("rm", Of(x).name) /\ lost' = lost \cup {Of(x).name}
    /\ Conclude(x, "infra_failed")
    /\ UNCHANGED <<runtime, life, lives, doomed, maker, ended>>

----------------------------------------------------------------------------
(* The service. *)

Boot ==
    /\ life = "down" /\ lives < MaxLives
    /\ lives' = lives + 1
    /\ life' = IF runtime = "container" THEN "listing" ELSE "up"
    /\ UNCHANGED <<runtime, doomed, assessor, box, maker, stranded, ended, lost, verdict, mishaps>>

\* reconcile_orphans: everything under the label, running or not.
OnlyRunning == {n \in Boxes : box[n] = "running"}
Labelled == {n \in Boxes : box[n] \in Existing}

List ==
    /\ life = "listing"
    /\ \/ doomed' = Labelled /\ life' = "sweeping" /\ Fine
       \/ Mishap /\ life' = "down" /\ UNCHANGED doomed
    /\ UNCHANGED <<runtime, lives, assessor, box, maker, stranded, ended, lost, verdict>>

Reconcile ==
    /\ life = "sweeping"
    /\ \E n \in doomed :
          \/ Done("rm", n) /\ doomed' = doomed \ {n} /\ UNCHANGED life
          \/ Undone("rm", n) /\ doomed' = {} /\ life' = "down"
    /\ UNCHANGED <<runtime, lives, assessor, maker, ended, lost, verdict>>

Ready ==
    /\ life = "sweeping" /\ doomed = {}
    /\ life' = "up"
    /\ UNCHANGED <<runtime, lives, doomed, assessor, box, maker, stranded, ended, lost, verdict, mishaps>>

\* A signal: the threads have some time to end, then the grader is closed under
\* its lock, and removes what is still registered after it let the lock go.
Drain ==
    /\ life = "up"
    /\ life' = "draining"
    /\ UNCHANGED <<runtime, lives, doomed, assessor, box, maker, stranded, ended, lost, verdict, mishaps>>

CloseGrader ==
    /\ life = "draining" /\ ~Locked
    /\ life' = "closed" /\ doomed' = Registered
    /\ UNCHANGED <<runtime, lives, assessor, box, maker, stranded, ended, lost, verdict, mishaps>>

CloseRemoves ==
    /\ life = "closed"
    /\ \E n \in doomed :
          /\ doomed' = doomed \ {n}
          /\ \/ Done("rm", n) /\ UNCHANGED lost
             \/ Undone("rm", n) /\ lost' = lost \cup {n}
    /\ UNCHANGED <<runtime, life, lives, assessor, maker, ended, verdict>>

\* The process ends: its threads stop where they are, and the clients they
\* started live on.  A process that died removes no sandbox; one that was closed
\* has removed them.
InFlight(xs) ==
    {[command |-> "create", name |-> Of(x).name] : x \in {y \in xs : Of(y).at = "creating"}}
        \cup {[command |-> "start", name |-> Of(x).name] : x \in {y \in xs : Of(y).at = "created"}}
Abandon(xs) == lost' = lost \cup {Of(x).name : x \in {y \in xs : Of(y).at # "idle"}}
StopThreads(xs) ==
    /\ stranded' = stranded \cup (IF runtime = "container" THEN InFlight(xs) ELSE {})
    /\ assessor' = [x \in Graders |-> IF x \in xs THEN Unoccupied ELSE Of(x)]

Exit ==
    /\ life = "closed" /\ doomed = {}
    /\ StopThreads(Assessors) /\ life' = "down"
    /\ UNCHANGED <<runtime, lives, doomed, box, maker, ended, lost, verdict, mishaps>>

Crash ==
    /\ life # "down" /\ Mishap
    /\ StopThreads(Assessors) /\ Abandon(Assessors) /\ life' = "down" /\ doomed' = {}
    /\ UNCHANGED <<runtime, lives, box, maker, ended, verdict>>

CheckKilled ==
    /\ Of(Check).at # "idle" /\ Mishap
    /\ StopThreads({Check}) /\ Abandon({Check})
    /\ UNCHANGED <<runtime, life, lives, doomed, box, maker, ended, verdict>>

SandboxNext ==
    \/ CarryOut \/ Boot \/ List \/ Reconcile \/ Ready \/ Drain \/ CloseGrader \/ CloseRemoves
    \/ Exit \/ Crash \/ CheckKilled
    \/ \E n \in Boxes : Ends(n)
    \/ \E x \in Graders :
          Take(x) \/ Enter(x) \/ Create(x) \/ Launch(x) \/ Observe(x) \/ RemoveBox(x) \/ Sweep(x)

SandboxSpec == SandboxInit /\ [][SandboxNext]_sandboxVars

----------------------------------------------------------------------------
(* Properties. *)

Held == {Of(x).name : x \in Graders}

\* No student's program runs unattended: a running sandbox belongs to an
\* assessment under way, or its removal failed, or its process died, while an
\* orderly stop leaves none behind; and once a service has reconciled, nothing an
\* earlier service made runs, not even by a command of the dead that the runtime
\* carries out late.
NothingRunsUnattended ==
    \A n \in Boxes : box[n] = "running" =>
        /\ n \in Held \cup lost
        /\ (runtime = "container" /\ life \in Serving /\ maker[n].who \in Assessors
                => maker[n].life = lives)

\* A grade comes from a program that ended by itself, and its sandbox is gone for
\* good: neither a shutdown nor a command of the runtime that failed, or that is
\* carried out late, leaves a grade whose program could still run.
GradesAreDeserved ==
    \A n \in Boxes : maker[n].who \in Assessors /\ verdict[n] = "graded" =>
        n \in ended /\ box[n] = "gone"
=============================================================================
