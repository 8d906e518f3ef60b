--------------------------- MODULE CollectionRuns ---------------------------
(***************************************************************************)
(* Collections of student repositories (service.py over the run and job    *)
(* tables of state.py).  A run is named by its run key and is executed     *)
(* under an flock on that name by any number of processes; it pins the     *)
(* active roster and the grading inputs once, fetches and preserves every  *)
(* pinned repository with the Git collector (SourceLabels: what GitCache   *)
(* implements), and ends with a verdict.  Callers fail and die anywhere    *)
(* and the run is resumed by the next one that gives the same key.         *)
(***************************************************************************)
EXTENDS Integers, FiniteSets

CONSTANTS
    Keys,         \* run keys
    Repos,        \* rows of the repositories table
    Commits,
    Callers,      \* threads of processes that may call collect
    MaxAttempts,  \* max_attempts of collection and grade jobs
    MaxConfig,    \* bound: registrations of the assignment
    MaxMishaps,   \* bound: failures, database errors and deaths
    MaxPushes,    \* bound: pushes and roster changes
    None

JobNames == Keys \X Repos

ASSUME CollectionAssumption ==
    /\ {MaxAttempts, MaxConfig, MaxMishaps, MaxPushes} \subseteq Nat
    /\ None \notin Commits \cup Callers
    /\ IsFiniteSet(Repos)

VARIABLES
    remote, held, pinned,   \* the branches and the collector's labels
    roster,     \* active repositories
    config,     \* how many times the assignment was registered: its inputs
    run,        \* collection_runs by run key
    job,        \* collection_jobs by job key, which is also the label
    snapshot,   \* submission_snapshots: the commit preserved for a job
    grade,      \* grade_jobs of the snapshots
    runLock,    \* the caller that holds a run's flock
    caller,     \* what each caller of collect is doing
    seen,       \* history: tips of the branch while a job was being collected
    mishaps, pushes

Collector == INSTANCE SourceLabels WITH
    Labels <- JobNames, RepositoryOf <- [n \in JobNames |-> n[2]]

sourceVars == <<remote, held, pinned>>
tableVars == <<run, job, snapshot, grade>>
deskVars == <<roster, config>>
collectVars == <<remote, held, pinned, roster, config, run, job, snapshot,
                 grade, runLock, caller, seen, mishaps, pushes>>

NoRun == [state |-> "absent", pinned |-> FALSE]
NoJob == [state |-> "absent", attempt |-> 0, config |-> 0, sha |-> None]
NoGrade == [state |-> "absent", attempt |-> 0, config |-> 0]
Terminal == {"succeeded", "partial", "failed", "cancelled"}
Idle == [at |-> "idle", key |-> None, work |-> [r \in Repos |-> "none"], raised |-> FALSE]

CollectInit ==
    /\ Collector!LabelInit
    /\ roster \in (SUBSET Repos) \ {{}}
    /\ config = 1
    /\ run = [k \in Keys |-> NoRun]
    /\ job = [n \in JobNames |-> NoJob]
    /\ snapshot = [n \in JobNames |-> None]
    /\ grade = [n \in JobNames |-> NoGrade]
    /\ runLock = [k \in Keys |-> None]
    /\ caller = [c \in Callers |-> Idle]
    /\ seen = [n \in JobNames |-> {}]
    /\ mishaps = 0 /\ pushes = 0

Steps(c, at) == caller' = [caller EXCEPT ![c].at = at]
Works(c, r, step) == caller' = [caller EXCEPT ![c].work[r] = step]
Mishap == mishaps < MaxMishaps /\ mishaps' = mishaps + 1

-----------------------------------------------------------------------------
\* What students and the operator change meanwhile.

Push(r, c) ==
    /\ pushes < MaxPushes /\ pushes' = pushes + 1
    /\ c # remote[r]
    /\ Collector!Push(r, c)
    /\ seen' = [n \in JobNames |->
         IF n[2] = r /\ job[n].state = "running" THEN seen[n] \cup {c} ELSE seen[n]]
    /\ UNCHANGED <<deskVars, tableVars, runLock, caller, mishaps>>

\* upsert_repositories: one import activates and deactivates many at once.
ImportRoster(active) ==
    /\ pushes < MaxPushes /\ pushes' = pushes + 1
    /\ roster' = active
    /\ UNCHANGED <<sourceVars, config, tableVars, runLock, caller, seen, mishaps>>

\* upsert_assignment: new digests, rubric, path or target.
RegisterAssignment ==
    /\ config < MaxConfig
    /\ config' = config + 1
    /\ UNCHANGED <<sourceVars, roster, tableVars, runLock, caller, seen, mishaps, pushes>>

-----------------------------------------------------------------------------
\* CollectionService.collect

\* Takes the run's lock and creates the run, or finds it.
Collect(c, k) ==
    /\ caller[c].at = "idle" /\ runLock[k] = None
    /\ runLock' = [runLock EXCEPT ![k] = c]
    /\ run' = IF run[k] = NoRun THEN [run EXCEPT ![k].state = "queued"] ELSE run
    /\ caller' = [caller EXCEPT ![c] = [Idle EXCEPT !.key = k,
                    !.at = IF run[k].state \in Terminal THEN "end" ELSE "pin"]]
    /\ UNCHANGED <<sourceVars, deskVars, job, snapshot, grade, seen, mishaps, pushes>>

\* A resumption that looks at the roster again (a mutation).
PinnedAgain(k) ==
    [n \in JobNames |->
        IF n[1] = k /\ n[2] \in roster /\ job[n] = NoJob
        THEN [NoJob EXCEPT !.state = "queued", !.config = config]
        ELSE job[n]]

\* The jobs a run gets: those it has, or one for each active repository.
Pinned(k) ==
    [n \in JobNames |->
        IF n[1] = k /\ n[2] \in roster /\ ~run[k].pinned
        THEN [NoJob EXCEPT !.state = "queued", !.config = config]
        ELSE job[n]]

\* One transaction: every row and the mark, or none of them.
PinJobs(c) == LET k == caller[c].key IN
    /\ caller[c].at = "pin"
    /\ run[k].state \notin Terminal
    /\ job' = Pinned(k)
    /\ run' = [run EXCEPT ![k].pinned = @ \/ roster # {}]
    /\ Steps(c, "start")
    /\ UNCHANGED <<sourceVars, deskVars, snapshot, grade, runLock, seen, mishaps, pushes>>

StartRun(c) == LET k == caller[c].key IN
    /\ caller[c].at = "start"
    /\ run' = [run EXCEPT ![k].state = "running"]
    /\ caller' = [caller EXCEPT
         ![c].at = IF run[k].pinned THEN "work" ELSE "nobody",
         ![c].work = [r \in Repos |->
             IF job[<<k, r>>].state \in {"absent", "succeeded"} THEN "done" ELSE "claim"]]
    /\ UNCHANGED <<sourceVars, deskVars, job, snapshot, grade, runLock, seen, mishaps, pushes>>

\* No active repository is registered.
FailRun(c) ==
    /\ caller[c].at = "nobody"
    /\ run' = [run EXCEPT ![caller[c].key].state = "failed"]
    /\ Steps(c, "end")
    /\ UNCHANGED <<sourceVars, deskVars, job, snapshot, grade, runLock, seen, mishaps, pushes>>

\* A thread of the pool works on repository r of caller c's run.
WorksOn(c, r, step) == caller[c].at = "work" /\ caller[c].work[r] = step
Name(c, r) == <<caller[c].key, r>>

\* A running job is resumed; a queued or failed one counts an attempt.
MayClaim(j) ==
    \/ j.state = "running"
    \/ j.state \in {"queued", "failed"} /\ j.attempt < MaxAttempts

ClaimJob(c, r) == LET n == Name(c, r) IN
    /\ WorksOn(c, r, "claim")
    /\ run[caller[c].key].state \notin Terminal
    /\ IF MayClaim(job[n])
       THEN /\ job' = IF job[n].state = "running" THEN job
                      ELSE [job EXCEPT ![n].state = "running", ![n].attempt = @ + 1]
            /\ seen' = [seen EXCEPT ![n] = @ \cup {remote[r]}]
            /\ Works(c, r, IF job[n].sha = None THEN "fetch" ELSE "snapshot")
       ELSE /\ Works(c, r, "fail")
            /\ UNCHANGED <<job, seen>>
    /\ UNCHANGED <<sourceVars, deskVars, run, snapshot, grade, runLock, mishaps, pushes>>

\* A label that is held answers its commit again; a missing branch is an error.
Fetch(c, r) == LET n == Name(c, r) IN
    /\ WorksOn(c, r, "fetch")
    /\ IF held[n] = None /\ remote[r] # None THEN Collector!Hold(n) ELSE UNCHANGED sourceVars
    /\ Works(c, r, IF held[n] = None /\ remote[r] = None THEN "fail" ELSE "record")
    /\ UNCHANGED <<deskVars, tableVars, runLock, seen, mishaps, pushes>>

\* The commit read from the branch and not from the hold (a mutation).
RecordedTip(n) == [job EXCEPT ![n].sha = remote[n[2]]]
Recorded(n) == [job EXCEPT ![n].sha = held[n]]

RecordFetch(c, r) == LET n == Name(c, r) IN
    /\ WorksOn(c, r, "record")
    /\ job[n].state = "running" /\ job[n].sha \in {None, held[n]}
    /\ job' = Recorded(n)
    /\ Works(c, r, "snapshot")
    /\ UNCHANGED <<sourceVars, deskVars, run, snapshot, grade, runLock, seen, mishaps, pushes>>

PreserveSource(c, r) == LET n == Name(c, r) IN
    /\ WorksOn(c, r, "snapshot")
    /\ IF pinned[n] = None THEN Collector!Pin(n, job[n].sha) ELSE UNCHANGED sourceVars
    /\ Works(c, r, IF pinned[n] \in {None, job[n].sha} THEN "complete" ELSE "fail")
    /\ UNCHANGED <<deskVars, tableVars, runLock, seen, mishaps, pushes>>

\* The job's end and its snapshot row in one transaction.
CompleteJob(c, r) == LET n == Name(c, r) IN
    /\ WorksOn(c, r, "complete")
    /\ job[n].state = "running"
    /\ job' = [job EXCEPT ![n].state = "succeeded"]
    /\ snapshot' = [snapshot EXCEPT ![n] = job[n].sha]
    /\ Works(c, r, "done")
    /\ UNCHANGED <<sourceVars, deskVars, run, grade, runLock, seen, mishaps, pushes>>

FailJob(c, r) == LET n == Name(c, r) IN
    /\ WorksOn(c, r, "fail")
    /\ job[n].state \in {"queued", "running", "failed"}
    /\ job' = [job EXCEPT ![n].state = "failed"]
    /\ Works(c, r, "done")
    /\ UNCHANGED <<sourceVars, deskVars, run, snapshot, grade, runLock, seen, mishaps, pushes>>

\* git, the file system or the database fails: the handler fails the job, but
\* an error of that, or of the last transaction, is the caller's.
Trouble(c, r) ==
    /\ caller[c].at = "work" /\ caller[c].work[r] \notin {"none", "done", "raised"}
    /\ Mishap
    /\ Works(c, r, IF caller[c].work[r] \in {"complete", "fail"} THEN "raised" ELSE "fail")
    /\ UNCHANGED <<sourceVars, deskVars, tableVars, runLock, seen, pushes>>

\* The database refuses a step of the run itself: collect raises, the lock goes.
RunTrouble(c) ==
    /\ caller[c].at \in {"pin", "start", "nobody"}
    /\ Mishap
    /\ caller' = [caller EXCEPT ![c].at = "end", ![c].raised = TRUE]
    /\ UNCHANGED <<sourceVars, deskVars, tableVars, runLock, seen, pushes>>

States(k) == {job[<<k, r>>].state : r \in Repos} \ {"absent"}

Verdict(k) ==
    CASE "failed" \in States(k) /\ "succeeded" \in States(k) -> "partial"
      [] "failed" \in States(k) -> "failed"
      [] OTHER -> "succeeded"

\* Every thread has ended: a run one of them raised in stays open.
FinishRun(c) == LET k == caller[c].key
                    raised == \E r \in Repos : caller[c].work[r] = "raised" IN
    /\ caller[c].at = "work"
    /\ \A r \in Repos : caller[c].work[r] \in {"done", "raised"}
    /\ raised \/ States(k) \cap {"queued", "running"} = {}
    /\ run' = IF raised THEN run ELSE [run EXCEPT ![k].state = Verdict(k)]
    /\ caller' = [caller EXCEPT ![c].at = "end", ![c].raised = raised]
    /\ UNCHANGED <<sourceVars, deskVars, job, snapshot, grade, runLock, seen, mishaps, pushes>>

\* The summary is read, the lock released, and collect returns or raises.
EndCollect(c) ==
    /\ caller[c].at = "end"
    /\ runLock' = [runLock EXCEPT ![caller[c].key] = None]
    /\ caller' = [caller EXCEPT ![c] = [Idle EXCEPT !.raised = caller[c].raised]]
    /\ UNCHANGED <<sourceVars, deskVars, tableVars, seen, mishaps, pushes>>

\* A process dies: the kernel drops the locks of the callers in it.
Dies(cs) ==
    /\ runLock' = [k \in Keys |-> IF runLock[k] \in cs THEN None ELSE runLock[k]]
    /\ caller' = [c \in Callers |-> IF c \in cs THEN Idle ELSE caller[c]]
    /\ UNCHANGED <<sourceVars, deskVars, tableVars, seen, pushes>>

-----------------------------------------------------------------------------
\* Grade jobs of collected snapshots, by callers in any order.

EnsureGrade(n, v) ==
    /\ snapshot[n] # None /\ grade[n] = NoGrade
    /\ v = job[n].config
    /\ grade' = [grade EXCEPT ![n].state = "queued", ![n].config = v]

ClaimGrade(n) ==
    /\ grade[n].state \in {"queued", "failed"} /\ grade[n].attempt < MaxAttempts
    /\ grade[n].config = job[n].config
    /\ grade' = [grade EXCEPT ![n].state = "running", ![n].attempt = @ + 1]

CompleteGrade(n) ==
    /\ grade[n].state = "running" /\ grade[n].config = job[n].config
    /\ grade' = [grade EXCEPT ![n].state = "succeeded"]

FailGrade(n) ==
    /\ grade[n].state \in {"queued", "running"}
    /\ grade' = [grade EXCEPT ![n].state = "failed"]

GradeStep(n) ==
    /\ \/ \E v \in 1..config : EnsureGrade(n, v)
       \/ ClaimGrade(n)
       \/ CompleteGrade(n)
       \/ FailGrade(n)
    /\ UNCHANGED <<sourceVars, deskVars, run, job, snapshot, runLock, caller, seen, mishaps, pushes>>

CollectStep(c) ==
    \/ PinJobs(c) \/ StartRun(c) \/ FailRun(c) \/ RunTrouble(c)
    \/ FinishRun(c) \/ EndCollect(c)
    \/ \E r \in Repos :
         \/ ClaimJob(c, r) \/ Fetch(c, r) \/ RecordFetch(c, r) \/ PreserveSource(c, r)
         \/ CompleteJob(c, r) \/ FailJob(c, r) \/ Trouble(c, r)

OutsideStep ==
    \/ \E r \in Repos, c \in Commits \cup {None} : Push(r, c)
    \/ \E active \in SUBSET Repos : ImportRoster(active)
    \/ RegisterAssignment
    \/ \E n \in JobNames : GradeStep(n)

-----------------------------------------------------------------------------
\* What a collection must be.

\* A snapshot row, the job that made it, the label the collector answered and
\* the label it preserved name one commit, and that commit was the tip of the
\* branch while the job was being collected, however often it was resumed.
SnapshotsAreTrue == \A n \in JobNames :
    /\ (snapshot[n] # None) = (job[n].state = "succeeded")
    /\ snapshot[n] # None =>
         /\ snapshot[n] = job[n].sha /\ snapshot[n] = held[n] /\ snapshot[n] = pinned[n]
         /\ snapshot[n] \in seen[n]

\* Everybody in a run is collected from one roster under one registration of
\* the assignment, and a grade is of the inputs its snapshot was collected for.
PinnedTogether == \A k \in Keys :
    LET of == {r \in Repos : job[<<k, r>>] # NoJob} IN
    /\ run[k].pinned = (of # {})
    /\ \A r, q \in of : job[<<k, r>>].config = job[<<k, q>>].config
    /\ \A r \in Repos : grade[<<k, r>>] # NoGrade =>
         /\ snapshot[<<k, r>>] # None
         /\ grade[<<k, r>>].config = job[<<k, r>>].config

\* A finished run says what became of its jobs, none of which is still active.
VerdictIsTrue == \A k \in Keys : run[k].state \in Terminal =>
    IF run[k].pinned
    THEN States(k) \subseteq {"succeeded", "failed"} /\ run[k].state = Verdict(k)
    ELSE run[k].state = "failed"

\* complete_collection_run, record_collection_fetch, the pins and the snapshots
\* against crashes, resumptions, roster edits and pushes.
CollectionIsHonest == SnapshotsAreTrue /\ PinnedTogether /\ VerdictIsTrue

\* What was decided stays: a finished run with its jobs, the pins of a run, a
\* recorded commit and a snapshot are never changed by a resumption, a second
\* caller of the same key, or an edit of the roster or the assignment.
DecisionsStay == [][
    /\ \A k \in Keys : run[k].state \in Terminal =>
         run'[k] = run[k] /\ \A r \in Repos : job'[<<k, r>>] = job[<<k, r>>]
    /\ \A k \in Keys : run[k].pinned => \A r \in Repos :
         job'[<<k, r>>].config = job[<<k, r>>].config
    /\ \A n \in JobNames :
         /\ job[n].sha # None => job'[n].sha = job[n].sha
         /\ snapshot[n] # None => snapshot'[n] = snapshot[n]]_collectVars
=============================================================================
