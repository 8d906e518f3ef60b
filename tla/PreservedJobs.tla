---------------------------- MODULE PreservedJobs ---------------------------
(***************************************************************************)
(* A scheduled collection and the garbage collector.  A submission gets a  *)
(* new label for every attempt; the label of a collection job is its key,  *)
(* so a run that is resumed after a crash finds the archive and the ref of *)
(* the first attempt, which may be older than the grace period by then     *)
(* (service.py _collect_one over gitops.snapshot).                         *)
(***************************************************************************)
EXTENDS GitArtifacts

CONSTANTS MaxCrashes   \* bound: processes that die inside a job

VARIABLES
    job,        \* what the live process does for each job key
    held,       \* the commit the fetch of a job is held at
    snapshot,   \* submission_snapshots: jobs whose commit is recorded
    crashes,
    interrupted \* history: jobs a process died in

jobVars == <<job, held, snapshot, crashes, interrupted>>
jobsVars == <<remote, archive, ref, workspace, repoLock, gc, pushes, passes,
             job, held, snapshot, crashes, interrupted>>

JobsInit ==
    /\ ArtifactInit
    /\ job = [l \in Labels |-> "free"]
    /\ held = [l \in Labels |-> None]
    /\ snapshot = {}
    /\ crashes = 0 /\ interrupted = {}

TheRepo == CHOOSE r \in Repos : TRUE
JobStep(l, at) == job' = [job EXCEPT ![l] = at]

\* fetch(hold_label): the first answer is every later one.
FetchJob(l) ==
    /\ job[l] = "free" /\ l \notin snapshot
    /\ repoLock[TheRepo] = None
    /\ held' = IF held[l] = None THEN [held EXCEPT ![l] = remote[TheRepo]] ELSE held
    /\ JobStep(l, "fetched")
    /\ UNCHANGED <<storeVars, snapshot, crashes, interrupted>>

\* snapshot() under the flock of the repository.
EnterJob(l) ==
    /\ job[l] = "fetched"
    /\ Lock(l, TheRepo)
    /\ JobStep(l, "publish")
    /\ UNCHANGED <<remote, artifactVars, gcVars, pushes, held, snapshot, crashes, interrupted>>

PublishJob(l) ==
    /\ job[l] = "publish"
    /\ Publish(l, TheRepo, held[l])
    /\ JobStep(l, "pin")
    /\ UNCHANGED <<repoLock, held, snapshot, crashes, interrupted>>

PinJob(l) ==
    /\ job[l] = "pin"
    /\ PinRef(l, TheRepo, held[l])
    /\ Unlock(TheRepo)
    /\ JobStep(l, "record")
    /\ UNCHANGED <<held, snapshot, crashes, interrupted>>

\* complete_collection_job
RecordJob(l) ==
    /\ job[l] = "record"
    /\ snapshot' = snapshot \cup {l}
    /\ JobStep(l, "free")
    /\ UNCHANGED <<storeVars, held, crashes, interrupted>>

JobDies(l) ==
    /\ job[l] # "free" /\ crashes < MaxCrashes /\ crashes' = crashes + 1
    /\ interrupted' = interrupted \cup {l}
    /\ JobStep(l, "free")
    /\ repoLock' = [r \in Repos |-> IF repoLock[r] = l THEN None ELSE repoLock[r]]
    /\ UNCHANGED <<remote, artifactVars, gcVars, pushes, held, snapshot>>

\* The grace period outlasts the time a live process spends on a job.
JobRests(l) == job[l] = "free" /\ Age(l) /\ UNCHANGED jobVars

JobsNext ==
    \/ \E l \in Labels :
         \/ FetchJob(l) \/ EnterJob(l) \/ PublishJob(l) \/ PinJob(l) \/ RecordJob(l)
         \/ JobDies(l) \/ JobRests(l)
    \/ \E r \in Repos, c \in Commits : Push(r, c) /\ UNCHANGED jobVars
    \/ GCNext(snapshot, {}) /\ UNCHANGED jobVars

JobsSpec == JobsInit /\ [][JobsNext]_jobsVars

\* A recorded snapshot has its archive: the age grace period and the second look
\* at the database keep the collector from a snapshot that is being admitted
\* (the module comment of artifact_gc.py, lines 4 to 7).
SnapshotsAreKept == \A l \in snapshot : archive[l] # None

\* What is true of it: a snapshot whose job ran through has its archive and its
\* ref, both of the commit its fetch is held at.
WholeJobsAreKept ==
    \A l \in snapshot \ interrupted :
        Has(archive, l, TheRepo, held[l]) /\ Has(ref, l, TheRepo, held[l])
=============================================================================
