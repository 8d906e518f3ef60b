--------------------------- MODULE Polling_proofs ---------------------------
(***************************************************************************)
(* Proofs about scheduled collections.  The inductive invariant has two    *)
(* halves.  CollectInv is about CollectionRuns alone: what the rows and    *)
(* the labels of a job say of each other, what a run's row says of its     *)
(* jobs, and what a caller and each of its worker threads know of both     *)
(* while they hold the run's lock.  PollInv is about the runners: the      *)
(* queue holds the last events in order, the event whose turn it is is the *)
(* only one that is handled, every earlier one has its verdict while the   *)
(* runner has not failed and nobody edited the schedule, and a slot whose  *)
(* event was emitted is due.                                               *)
(*                                                                         *)
(* CollectionsMove shows for every step of a collection, of its callers    *)
(* and of the world around it that it keeps CollectInv and changes nothing *)
(* that was decided; the lemmas after it do the same for PollInv, with one *)
(* lemma per action of a runner and of a worker thread.                    *)
(***************************************************************************)
EXTENDS SchedulePolling, TLAPS

-----------------------------------------------------------------------------
(* The inductive invariant of the collections.                             *)

Refs == Commits \cup {None}
RunStates == {"absent", "queued", "running"} \cup Terminal
JobStates == {"absent", "queued", "running", "failed", "succeeded"}
WorkSteps == {"none", "claim", "fetch", "record", "snapshot", "complete", "fail", "done", "raised"}
CallerSteps == {"idle", "pin", "start", "nobody", "work", "end"}

RunRows == [state : RunStates, pinned : BOOLEAN]
JobRows == [state : JobStates, attempt : Nat, config : Nat, sha : Refs]
GradeRows == [state : JobStates, attempt : Nat, config : Nat]
CallerRows == [at : CallerSteps, key : Keys \cup {None}, work : [Repos -> WorkSteps], raised : BOOLEAN]

CollectTypes ==
    /\ remote \in [Repos -> Refs]
    /\ held \in [JobNames -> Refs] /\ pinned \in [JobNames -> Refs]
    /\ roster \in SUBSET Repos /\ config \in Nat
    /\ run \in [Keys -> RunRows]
    /\ job \in [JobNames -> JobRows]
    /\ snapshot \in [JobNames -> Refs]
    /\ grade \in [JobNames -> GradeRows]
    /\ runLock \in [Keys -> Callers \cup {None}]
    /\ caller \in [Callers -> CallerRows]
    /\ seen \in [JobNames -> SUBSET Refs]

\* What the rows and the labels of one job say of each other.
JobSound(n) ==
    /\ job[n].state = "absent" => job[n] = NoJob
    /\ snapshot[n] # None <=> job[n].state = "succeeded"
    /\ snapshot[n] # None => snapshot[n] = job[n].sha /\ pinned[n] = job[n].sha
    /\ job[n].sha # None => job[n].sha = held[n]
    /\ held[n] # None => held[n] \in seen[n]
    /\ pinned[n] # None => pinned[n] = job[n].sha
    /\ job[n].state = "running" => remote[n[2]] \in seen[n]
    /\ grade[n].state = "absent" => grade[n] = NoGrade
    /\ grade[n].state # "absent" => snapshot[n] # None /\ grade[n].config = job[n].config

RunSound(k) ==
    /\ run[k].state = "absent" => run[k] = NoRun
    /\ run[k].pinned <=> \E r \in Repos : job[<<k, r>>].state # "absent"
    /\ \A r, q \in Repos :
          job[<<k, r>>].state # "absent" /\ job[<<k, q>>].state # "absent"
          => job[<<k, r>>].config = job[<<k, q>>].config
    /\ run[k].state \in Terminal =>
          IF run[k].pinned
          THEN States(k) \subseteq {"succeeded", "failed"} /\ run[k].state = Verdict(k)
          ELSE run[k].state = "failed"

\* What a thread's step implies about its job.
Working(step, n) ==
    /\ step # "none"
    /\ step \in {"claim", "fail", "raised"} => job[n].state \in {"queued", "running", "failed"}
    /\ step \in {"fetch", "record", "snapshot", "complete"} => job[n].state = "running"
    /\ step = "record" => held[n] # None
    /\ step \in {"snapshot", "complete"} => job[n].sha # None
    /\ step = "complete" => pinned[n] = job[n].sha
    /\ step = "done" => job[n].state \in {"absent", "succeeded", "failed"}

\* A caller holds the lock of its run, and knows how far the run is.
CallerSound(c) ==
    caller[c].at # "idle" =>
      /\ caller[c].key \in Keys /\ runLock[caller[c].key] = c
      /\ caller[c].at # "end" => run[caller[c].key].state \in {"queued", "running"}
      /\ caller[c].at = "nobody" => ~run[caller[c].key].pinned
      /\ caller[c].at = "end" /\ ~caller[c].raised => run[caller[c].key].state \in Terminal
      /\ caller[c].at = "work" =>
            /\ run[caller[c].key].pinned
            /\ \A r \in Repos : Working(caller[c].work[r], Name(c, r))

CollectInv ==
    /\ CollectTypes
    /\ \A n \in JobNames : JobSound(n)
    /\ \A k \in Keys : RunSound(k)
    /\ \A c \in Callers : CallerSound(c)

-----------------------------------------------------------------------------
(* CollectionRuns.                                                         *)

\* A job is a pair of a run and a repository.
LEMMA PairsAreJobs ==
    /\ \A k \in Keys, r \in Repos :
          <<k, r>> \in JobNames /\ <<k, r>>[1] = k /\ <<k, r>>[2] = r
    /\ \A n \in JobNames : n[1] \in Keys /\ n[2] \in Repos /\ n = <<n[1], n[2]>>
BY DEF JobNames

LEMMA NothingIsNoDatum == None \notin Commits /\ None \notin Callers
BY CollectionAssumption

LEMMA CollectorsRepositories == Collector!Repositories = Repos
<1>1. 0 \in Keys BY PollingAssumption
<1>2. ASSUME NEW r \in Repos PROVE r \in Collector!Repositories
  <2>1. <<0, r>> \in JobNames /\ <<0, r>>[2] = r BY <1>1, PairsAreJobs
  <2> QED BY <2>1 DEF Collector!Repositories
<1>3. ASSUME NEW r \in Collector!Repositories PROVE r \in Repos
  BY PairsAreJobs DEF Collector!Repositories
<1> QED BY <1>2, <1>3

\* What DecisionsStay asks of a step.
Decided ==
    /\ \A k \in Keys : run[k].state \in Terminal =>
         run'[k] = run[k] /\ \A r \in Repos : job'[<<k, r>>] = job[<<k, r>>]
    /\ \A k \in Keys : run[k].pinned => \A r \in Repos :
         job'[<<k, r>>].config = job[<<k, r>>].config
    /\ \A n \in JobNames :
         /\ job[n].sha # None => job'[n].sha = job[n].sha
         /\ snapshot[n] # None => snapshot'[n] = snapshot[n]

LEMMA CollectInitially == CollectInit => CollectInv
<1> SUFFICES ASSUME CollectInit PROVE CollectInv OBVIOUS
<1> USE NothingIsNoDatum, PairsAreJobs
<1>1. CollectTypes
  <2>1. remote \in [Repos -> Refs] /\ held \in [JobNames -> Refs] /\ pinned \in [JobNames -> Refs]
    BY CollectorsRepositories DEF CollectInit, Collector!LabelInit, Refs
  <2>2. NoRun \in RunRows /\ NoJob \in JobRows /\ NoGrade \in GradeRows /\ Idle \in CallerRows
    BY DEF NoRun, RunRows, RunStates, NoJob, JobRows, JobStates, NoGrade, GradeRows, Idle,
           CallerRows, CallerSteps, WorkSteps, Refs
  <2> QED BY <2>1, <2>2 DEF CollectInit, CollectTypes, Refs
<1>2. ASSUME NEW n \in JobNames PROVE JobSound(n)
  BY DEF CollectInit, Collector!LabelInit, JobSound, NoJob, NoGrade
<1>3. ASSUME NEW k \in Keys PROVE RunSound(k)
  BY DEF CollectInit, RunSound, NoRun, NoJob, Terminal
<1>4. ASSUME NEW c \in Callers PROVE CallerSound(c)
  BY DEF CollectInit, CallerSound, Idle
<1> QED BY <1>1, <1>2, <1>3, <1>4 DEF CollectInv

\* A caller that is not idle is alone with its run.
LEMMA LocksExclude ==
    ASSUME CollectInv, NEW c \in Callers, NEW d \in Callers,
           caller[c].at # "idle", caller[d].at # "idle", caller[c].key = caller[d].key
    PROVE  c = d
<1>1. CallerSound(c) /\ CallerSound(d) BY DEF CollectInv
<1> QED BY <1>1 DEF CallerSound

\* The rows of a run that no step touched.
LEMMA RunKept ==
    ASSUME NEW k \in Keys, RunSound(k), run'[k] = run[k],
           \A r \in Repos : job'[<<k, r>>].config = job[<<k, r>>].config,
           \A r \in Repos : job'[<<k, r>>].state = "absent" <=> job[<<k, r>>].state = "absent",
           run[k].state \in Terminal =>
              \A r \in Repos : job'[<<k, r>>].state = job[<<k, r>>].state
    PROVE  RunSound(k)'
<1>1. run'[k].pinned <=> \E r \in Repos : job'[<<k, r>>].state # "absent"
  BY DEF RunSound
<1>2. ASSUME NEW r \in Repos, NEW q \in Repos,
             job'[<<k, r>>].state # "absent", job'[<<k, q>>].state # "absent"
      PROVE  job'[<<k, r>>].config = job'[<<k, q>>].config
  BY <1>2 DEF RunSound
<1>3. ASSUME run'[k].state \in Terminal
      PROVE  IF run'[k].pinned
             THEN States(k)' \subseteq {"succeeded", "failed"} /\ run'[k].state = Verdict(k)'
             ELSE run'[k].state = "failed"
  <2>1. \A r \in Repos : job'[<<k, r>>].state = job[<<k, r>>].state BY <1>3
  <2>2. States(k)' = States(k) BY <2>1 DEF States
  <2>3. Verdict(k)' = Verdict(k) BY <2>2 DEF Verdict
  <2> QED BY <1>3, <2>2, <2>3 DEF RunSound
<1>4. run'[k].state = "absent" => run'[k] = NoRun BY DEF RunSound
<1> QED BY <1>1, <1>2, <1>3, <1>4 DEF RunSound

\* A job whose rows and labels no step touched.
LEMMA JobKept ==
    ASSUME NEW n \in JobNames, JobSound(n),
           job'[n] = job[n], snapshot'[n] = snapshot[n], grade'[n] = grade[n],
           held'[n] = held[n], pinned'[n] = pinned[n], seen'[n] = seen[n],
           remote'[n[2]] = remote[n[2]]
    PROVE  JobSound(n)'
BY DEF JobSound

LEMMA CallerKept ==
    ASSUME NEW d \in Callers, CallerSound(d), caller'[d] = caller[d],
           caller[d].at # "idle" =>
             /\ runLock'[caller[d].key] = runLock[caller[d].key]
             /\ run'[caller[d].key] = run[caller[d].key]
             /\ \A r \in Repos : LET n == Name(d, r) IN
                  job'[n] = job[n] /\ held'[n] = held[n] /\ pinned'[n] = pinned[n]
    PROVE  CallerSound(d)'
<1>1. CASE caller[d].at = "idle" BY <1>1 DEF CallerSound
<1>2. CASE caller[d].at # "idle"
  <2>1. \A r \in Repos : Name(d, r)' = Name(d, r) BY DEF Name
  <2>2. ASSUME caller[d].at = "work", NEW r \in Repos
        PROVE  Working(caller[d].work[r], Name(d, r))'
    <3>1. Working(caller[d].work[r], Name(d, r)) BY <1>2, <2>2 DEF CallerSound
    <3> QED BY <1>2, <2>1, <3>1 DEF Working
  <2> QED BY <1>2, <2>2 DEF CallerSound
<1> QED BY <1>1, <1>2

\* A step of one thread: it works on one job of a run that is open.
LEMMA WorkStep ==
    ASSUME CollectInv, NEW c \in Callers, NEW r \in Repos, NEW step \in WorkSteps, NEW n,
           n = Name(c, r),
           caller[c].at = "work", Works(c, r, step),
           CollectTypes', run' = run, runLock' = runLock, remote' = remote,
           \A m \in JobNames : m # n =>
             /\ job'[m] = job[m] /\ snapshot'[m] = snapshot[m] /\ grade'[m] = grade[m]
             /\ held'[m] = held[m] /\ pinned'[m] = pinned[m] /\ seen'[m] = seen[m],
           job[n].state # "absent", job'[n].state # "absent", job'[n].config = job[n].config,
           job[n].sha # None => job'[n].sha = job[n].sha,
           snapshot[n] # None => snapshot'[n] = snapshot[n],
           JobSound(n)', Working(step, n)'
    PROVE  CollectInv' /\ Decided
<1> USE PairsAreJobs
<1> DEFINE k == caller[c].key
<1>1. k \in Keys /\ CallerSound(c) /\ runLock[k] = c /\ run[k].state \notin Terminal
  BY DEF CollectInv, CallerSound, Terminal
<1>2. n = <<k, r>> /\ n \in JobNames BY <1>1 DEF Name
<1>3. \A m \in JobNames : JobSound(m)'
  BY JobKept DEF CollectInv
<1>4. ASSUME NEW l \in Keys PROVE RunSound(l)'
  <2>1. RunSound(l) /\ run'[l] = run[l] BY DEF CollectInv
  <2>2. ASSUME NEW q \in Repos
        PROVE  /\ job'[<<l, q>>].config = job[<<l, q>>].config
               /\ job'[<<l, q>>].state = "absent" <=> job[<<l, q>>].state = "absent"
               /\ run[l].state \in Terminal => job'[<<l, q>>].state = job[<<l, q>>].state
    <3>1. CASE <<l, q>> = n BY <1>1, <1>2, <3>1
    <3>2. CASE <<l, q>> # n BY <3>2
    <3> QED BY <3>1, <3>2
  <2> QED BY <2>1, <2>2, RunKept
<1>5. ASSUME NEW d \in Callers PROVE CallerSound(d)'
  <2>1. CASE d = c
    <3>1. caller'[c] = [caller[c] EXCEPT !.work[r] = step]
      BY DEF Works, CollectInv, CollectTypes
    <3>2. caller[c] \in CallerRows BY DEF CollectInv, CollectTypes
    <3>3. /\ caller'[c].at = "work" /\ caller'[c].key = k
          /\ caller'[c].work = [caller[c].work EXCEPT ![r] = step]
      BY <3>1, <3>2 DEF CallerRows
    <3>5. ASSUME NEW q \in Repos PROVE Working(caller[c].work[q], Name(c, q))'
      <4>0. Name(c, q)' = <<k, q>> BY <3>3 DEF Name
      <4>1. caller[c].work \in [Repos -> WorkSteps] BY <3>2 DEF CallerRows
      <4>2. CASE q = r BY <1>2, <3>3, <4>0, <4>1, <4>2
      <4>3. CASE q # r
        <5>1. caller'[c].work[q] = caller[c].work[q] BY <3>3, <4>1, <4>3
        <5>2. Working(caller[c].work[q], Name(c, q)) BY <1>1 DEF CallerSound
        <5>3. Name(c, q) = <<k, q>> /\ <<k, q>> \in JobNames /\ <<k, q>> # n
          BY <1>1, <1>2, <4>3 DEF Name
        <5> QED BY <4>0, <5>1, <5>2, <5>3 DEF Working
      <4> QED BY <4>2, <4>3
    <3> QED BY <1>1, <2>1, <3>3, <3>5 DEF CallerSound
  <2>2. CASE d # c
    <3>1. CallerSound(d) BY DEF CollectInv
    <3>2. caller'[d] = caller[d] BY <2>2 DEF Works, CollectInv, CollectTypes
    <3>3. ASSUME caller[d].at # "idle", NEW q \in Repos
          PROVE  Name(d, q) # n /\ Name(d, q) \in JobNames
      <4>1. caller[d].key # k BY <2>2, <3>3, LocksExclude
      <4>2. caller[d].key \in Keys BY <3>1, <3>3 DEF CallerSound
      <4> QED BY <1>2, <4>1, <4>2 DEF Name
    <3> HIDE DEF k
    <3> QED BY <3>1, <3>2, <3>3, CallerKept
  <2> QED BY <2>1, <2>2
<1>6. Decided
  <2>1. ASSUME NEW l \in Keys, NEW q \in Repos, run[l].state \in Terminal
        PROVE  job'[<<l, q>>] = job[<<l, q>>]
    <3>1. <<l, q>> # n BY <1>1, <1>2, <2>1
    <3> QED BY <3>1
  <2>2. ASSUME NEW l \in Keys, NEW q \in Repos
        PROVE  job'[<<l, q>>].config = job[<<l, q>>].config
    <3>1. CASE <<l, q>> = n BY <3>1
    <3>2. CASE <<l, q>> # n BY <3>2
    <3> QED BY <3>1, <3>2
  <2> QED BY <2>1, <2>2 DEF Decided
<1> QED BY <1>3, <1>4, <1>5, <1>6 DEF CollectInv

\* What a working thread knows of its job.
LEMMA WorkerKnows ==
    ASSUME CollectInv, NEW c \in Callers, NEW r \in Repos, caller[c].at = "work"
    PROVE  /\ Name(c, r) = <<caller[c].key, r>> /\ Name(c, r) \in JobNames
           /\ Name(c, r)[2] = r /\ caller[c].key \in Keys
           /\ Working(caller[c].work[r], Name(c, r)) /\ JobSound(Name(c, r))
<1>1. CallerSound(c) BY DEF CollectInv
<1>2. caller[c].key \in Keys BY <1>1 DEF CallerSound
<1>3. Name(c, r) \in JobNames /\ Name(c, r)[2] = r BY <1>2, PairsAreJobs DEF Name
<1> QED BY <1>1, <1>2, <1>3 DEF CallerSound, CollectInv, Name

LEMMA WorksTypes ==
    ASSUME CollectTypes, NEW c \in Callers, NEW r \in Repos, NEW step \in WorkSteps,
           Works(c, r, step)
    PROVE  caller' \in [Callers -> CallerRows]
<1>1. caller[c] \in CallerRows BY DEF CollectTypes
<1> DEFINE new == [caller[c] EXCEPT !.work[r] = step]
<1>2. new \in CallerRows BY <1>1 DEF CallerRows
<1>3. caller' = [caller EXCEPT ![c] = new] BY DEF Works, CollectTypes
<1> HIDE DEF new
<1> QED BY <1>2, <1>3 DEF CollectTypes

LEMMA Claims ==
    ASSUME CollectInv, NEW c \in Callers, NEW r \in Repos, ClaimJob(c, r)
    PROVE  CollectInv' /\ Decided
<1>0. PICK n : n = Name(c, r) OBVIOUS
<1>1. caller[c].at = "work" /\ caller[c].work[r] = "claim" BY DEF ClaimJob, WorksOn
<1>2. n \in JobNames /\ n[2] = r /\ Working("claim", n) /\ JobSound(n)
  BY <1>0, <1>1, WorkerKnows
<1>3. /\ run' = run /\ runLock' = runLock /\ remote' = remote /\ held' = held /\ pinned' = pinned
      /\ snapshot' = snapshot /\ grade' = grade /\ roster' = roster /\ config' = config
  BY DEF ClaimJob, sourceVars, deskVars
<1>4. CASE MayClaim(job[n])
  <2>1. PICK step \in {"fetch", "snapshot"} :
          Works(c, r, step) /\ step = IF job[n].sha = None THEN "fetch" ELSE "snapshot"
    BY <1>0, <1>4 DEF ClaimJob
  <2>2. seen' = [seen EXCEPT ![n] = @ \cup {remote[r]}] BY <1>0, <1>4 DEF ClaimJob
  <2>4. job[n] \in JobRows /\ job[n].attempt \in Nat
    BY <1>2 DEF CollectInv, CollectTypes, JobRows
  <2>3. PICK row : row = IF job[n].state = "running" THEN job[n]
                         ELSE [job[n] EXCEPT !.state = "running", !.attempt = @ + 1]
    OBVIOUS
  <2>5. row.state = "running" /\ row.config = job[n].config /\ row.sha = job[n].sha
    BY <2>3, <2>4 DEF JobRows
  <2>6. row \in JobRows
    <3>1. job[n].attempt + 1 \in Nat BY <2>4
    <3> QED BY <2>3, <2>4, <3>1 DEF JobRows, JobStates
  <2>15. job' = [job EXCEPT ![n] = row]
    <3>1. CASE job[n].state = "running"
      BY <1>0, <1>2, <1>4, <2>3, <3>1 DEF ClaimJob, CollectInv, CollectTypes
    <3>2. CASE job[n].state # "running"
      <4>1. job' = [job EXCEPT ![n].state = "running", ![n].attempt = @ + 1]
        BY <1>0, <1>4, <3>2 DEF ClaimJob
      <4> QED BY <1>2, <2>3, <2>4, <3>2, <4>1 DEF CollectInv, CollectTypes, JobRows
    <3> QED BY <3>1, <3>2
  <2>7. job'[n] = row /\ seen'[n] = seen[n] \cup {remote[r]}
    BY <1>2, <2>2, <2>15 DEF CollectInv, CollectTypes
  <2>8. CollectTypes'
    <3>1. job' \in [JobNames -> JobRows] BY <2>15, <2>6 DEF CollectInv, CollectTypes
    <3>2. seen' \in [JobNames -> SUBSET Refs] BY <2>2 DEF CollectInv, CollectTypes
    <3>3. step \in WorkSteps BY <2>1 DEF WorkSteps
    <3>4. caller' \in [Callers -> CallerRows] BY <2>1, <3>3, WorksTypes DEF CollectInv
    <3> QED BY <1>3, <3>1, <3>2, <3>4 DEF CollectInv, CollectTypes
  <2>9. JobSound(n)' BY <1>2, <1>3, <2>5, <2>7 DEF JobSound, Working
  <2>10. Working(step, n)' BY <2>1, <2>5, <2>7 DEF Working
  <2>11. step \in WorkSteps BY <2>1 DEF WorkSteps
  <2>12. job[n].state # "absent" BY <1>2 DEF Working
  <2>13. \A m \in JobNames : m # n => job'[m] = job[m] /\ seen'[m] = seen[m]
    BY <2>2, <2>15 DEF CollectInv, CollectTypes
  <2> QED BY <1>1, <1>3, <2>1, <2>5, <2>7, <2>8, <2>9, <2>10, <2>11, <2>12, <2>13, <1>0, WorkStep
<1>5. CASE ~MayClaim(job[n])
  <2>1. Works(c, r, "fail") /\ job' = job /\ seen' = seen BY <1>0, <1>5 DEF ClaimJob
  <2>2. "fail" \in WorkSteps BY DEF WorkSteps
  <2>3. CollectTypes'
    <3>1. caller' \in [Callers -> CallerRows] BY <2>1, <2>2, WorksTypes DEF CollectInv
    <3> QED BY <1>3, <2>1, <3>1 DEF CollectInv, CollectTypes
  <2>4. JobSound(n)' BY <1>2, <1>3, <2>1 DEF JobSound
  <2>5. Working("fail", n)' BY <1>2, <2>1 DEF Working
  <2>6. job[n].state # "absent" BY <1>2 DEF Working
  <2> QED BY <1>1, <1>3, <2>1, <2>2, <2>3, <2>4, <2>5, <2>6, <1>0, WorkStep
<1> QED BY <1>4, <1>5

LEMMA Fetches ==
    ASSUME CollectInv, NEW c \in Callers, NEW r \in Repos, Fetch(c, r)
    PROVE  CollectInv' /\ Decided
<1> USE NothingIsNoDatum
<1>0. PICK n : n = Name(c, r) OBVIOUS
<1>1. caller[c].at = "work" /\ caller[c].work[r] = "fetch" BY DEF Fetch, WorksOn
<1>2. n \in JobNames /\ n[2] = r /\ Working("fetch", n) /\ JobSound(n)
  BY <1>0, <1>1, WorkerKnows
<1>3. /\ run' = run /\ runLock' = runLock /\ job' = job /\ seen' = seen
      /\ snapshot' = snapshot /\ grade' = grade /\ roster' = roster /\ config' = config
  BY DEF Fetch, deskVars, tableVars
<1>4. PICK step : /\ step = IF held[n] = None /\ remote[r] = None THEN "fail" ELSE "record"
                  /\ Works(c, r, step)
  BY <1>0 DEF Fetch
<1>5. step \in WorkSteps BY <1>4 DEF WorkSteps
<1>6. /\ remote' = remote /\ pinned' = pinned
      /\ held' = IF held[n] = None /\ remote[r] # None THEN [held EXCEPT ![n] = remote[r]] ELSE held
  BY <1>0, <1>2 DEF Fetch, Collector!Hold, sourceVars
<1>7. CollectTypes'
  <2>1. held' \in [JobNames -> Refs] BY <1>6 DEF CollectInv, CollectTypes
  <2>2. caller' \in [Callers -> CallerRows] BY <1>4, <1>5, WorksTypes DEF CollectInv
  <2> QED BY <1>3, <1>6, <2>1, <2>2 DEF CollectInv, CollectTypes
<1>8. held'[n] = IF held[n] = None THEN remote[r] ELSE held[n]
  BY <1>2, <1>6 DEF CollectInv, CollectTypes
<1>9. JobSound(n)' BY <1>2, <1>3, <1>6, <1>8 DEF JobSound, Working
<1>10. Working(step, n)' BY <1>2, <1>3, <1>4, <1>8 DEF Working
<1>11. \A m \in JobNames : m # n => held'[m] = held[m] BY <1>6 DEF CollectInv, CollectTypes
<1>12. job[n].state # "absent" BY <1>2 DEF Working
<1> QED BY <1>0, <1>1, <1>3, <1>4, <1>5, <1>6, <1>7, <1>9, <1>10, <1>11, <1>12, WorkStep

LEMMA FetchesAreRecorded ==
    ASSUME CollectInv, NEW c \in Callers, NEW r \in Repos, RecordFetch(c, r)
    PROVE  CollectInv' /\ Decided
<1> USE NothingIsNoDatum
<1>0. PICK n : n = Name(c, r) OBVIOUS
<1>1. caller[c].at = "work" /\ caller[c].work[r] = "record" BY DEF RecordFetch, WorksOn
<1>2. n \in JobNames /\ n[2] = r /\ Working("record", n) /\ JobSound(n)
  BY <1>0, <1>1, WorkerKnows
<1>3. /\ run' = run /\ runLock' = runLock /\ seen' = seen
      /\ remote' = remote /\ held' = held /\ pinned' = pinned
      /\ snapshot' = snapshot /\ grade' = grade /\ roster' = roster /\ config' = config
  BY DEF RecordFetch, deskVars, sourceVars
<1>4. /\ job[n].sha \in {None, held[n]} /\ Works(c, r, "snapshot")
      /\ job' = [job EXCEPT ![n].sha = held[n]]
  BY <1>0 DEF RecordFetch, Recorded
<1>5. job[n] \in JobRows /\ held[n] \in Refs BY <1>2 DEF CollectInv, CollectTypes
<1>6. PICK row : row = [job[n] EXCEPT !.sha = held[n]] OBVIOUS
<1>7. /\ row.state = job[n].state /\ row.config = job[n].config /\ row.sha = held[n]
      /\ row \in JobRows
  BY <1>5, <1>6 DEF JobRows
<1>8. job' = [job EXCEPT ![n] = row] /\ job'[n] = row
  BY <1>2, <1>4, <1>6 DEF CollectInv, CollectTypes
<1>9. CollectTypes'
  <2>1. job' \in [JobNames -> JobRows] BY <1>7, <1>8 DEF CollectInv, CollectTypes
  <2>2. caller' \in [Callers -> CallerRows] BY <1>4, WorksTypes DEF CollectInv, WorkSteps
  <2> QED BY <1>3, <2>1, <2>2 DEF CollectInv, CollectTypes
<1>10. JobSound(n)' BY <1>2, <1>3, <1>4, <1>7, <1>8 DEF JobSound, Working
<1>11. Working("snapshot", n)' BY <1>2, <1>7, <1>8 DEF Working
<1>12. \A m \in JobNames : m # n => job'[m] = job[m] BY <1>8 DEF CollectInv, CollectTypes
<1>13. job[n].state # "absent" BY <1>2 DEF Working
<1>14. job[n].sha # None => job'[n].sha = job[n].sha BY <1>4, <1>7, <1>8
<1>15. "snapshot" \in WorkSteps BY DEF WorkSteps
<1> QED BY <1>0, <1>1, <1>3, <1>4, <1>7, <1>8, <1>9, <1>10, <1>11, <1>12, <1>13, <1>14, <1>15,
           WorkStep

LEMMA SourcesArePreserved ==
    ASSUME CollectInv, NEW c \in Callers, NEW r \in Repos, PreserveSource(c, r)
    PROVE  CollectInv' /\ Decided
<1> USE NothingIsNoDatum
<1>0. PICK n : n = Name(c, r) OBVIOUS
<1>1. caller[c].at = "work" /\ caller[c].work[r] = "snapshot" BY DEF PreserveSource, WorksOn
<1>2. n \in JobNames /\ n[2] = r /\ Working("snapshot", n) /\ JobSound(n)
  BY <1>0, <1>1, WorkerKnows
<1>3. /\ run' = run /\ runLock' = runLock /\ job' = job /\ seen' = seen
      /\ snapshot' = snapshot /\ grade' = grade /\ roster' = roster /\ config' = config
  BY DEF PreserveSource, deskVars, tableVars
<1>4. job[n].sha \in Refs \ {None} BY <1>2 DEF CollectInv, CollectTypes, JobRows, Working
<1>5. pinned[n] \in {None, job[n].sha} BY <1>2 DEF JobSound
<1>6. Works(c, r, "complete") BY <1>0, <1>5 DEF PreserveSource
<1>7. /\ remote' = remote /\ held' = held
      /\ pinned' = IF pinned[n] = None THEN [pinned EXCEPT ![n] = job[n].sha] ELSE pinned
  BY <1>0 DEF PreserveSource, Collector!Pin, sourceVars
<1>8. pinned'[n] = job[n].sha BY <1>2, <1>5, <1>7 DEF CollectInv, CollectTypes
<1>9. CollectTypes'
  <2>1. pinned' \in [JobNames -> Refs] BY <1>4, <1>7 DEF CollectInv, CollectTypes
  <2>2. caller' \in [Callers -> CallerRows] BY <1>6, WorksTypes DEF CollectInv, WorkSteps
  <2> QED BY <1>3, <1>7, <2>1, <2>2 DEF CollectInv, CollectTypes
<1>10. JobSound(n)' BY <1>2, <1>3, <1>7, <1>8 DEF JobSound, Working
<1>11. Working("complete", n)' BY <1>2, <1>3, <1>8 DEF Working
<1>12. \A m \in JobNames : m # n => pinned'[m] = pinned[m] BY <1>7 DEF CollectInv, CollectTypes
<1>13. job[n].state # "absent" BY <1>2 DEF Working
<1>14. "complete" \in WorkSteps BY DEF WorkSteps
<1> QED BY <1>0, <1>1, <1>3, <1>6, <1>7, <1>9, <1>10, <1>11, <1>12, <1>13, <1>14, WorkStep

\* A job ends, with a snapshot or without one.
LEMMA JobsEnd ==
    ASSUME CollectInv, NEW c \in Callers, NEW r \in Repos, CompleteJob(c, r) \/ FailJob(c, r)
    PROVE  CollectInv' /\ Decided
<1> USE NothingIsNoDatum
<1>0. PICK n : n = Name(c, r) OBVIOUS
<1>1. /\ caller[c].at = "work" /\ Works(c, r, "done")
      /\ \/ CompleteJob(c, r) /\ caller[c].work[r] = "complete"
         \/ FailJob(c, r) /\ caller[c].work[r] = "fail"
  BY DEF CompleteJob, FailJob, WorksOn
<1>2. n \in JobNames /\ n[2] = r /\ Working(caller[c].work[r], n) /\ JobSound(n)
  BY <1>0, <1>1, WorkerKnows
<1>3. /\ run' = run /\ runLock' = runLock /\ seen' = seen
      /\ remote' = remote /\ held' = held /\ pinned' = pinned
      /\ grade' = grade /\ roster' = roster /\ config' = config
  BY <1>1 DEF CompleteJob, FailJob, deskVars, sourceVars
<1>4. PICK state \in {"succeeded", "failed"} :
        /\ job' = [job EXCEPT ![n].state = state]
        /\ IF state = "succeeded"
           THEN /\ Working("complete", n)
                /\ snapshot' = [snapshot EXCEPT ![n] = job[n].sha]
           ELSE /\ job[n].state \in {"queued", "running", "failed"}
                /\ snapshot' = snapshot
  BY <1>0, <1>1, <1>2 DEF CompleteJob, FailJob
<1>5. job[n] \in JobRows BY <1>2 DEF CollectInv, CollectTypes
<1>6. PICK row : row = [job[n] EXCEPT !.state = state] OBVIOUS
<1>7. /\ row.state = state /\ row.config = job[n].config /\ row.sha = job[n].sha
      /\ row \in JobRows /\ job[n].sha \in Refs
  BY <1>5, <1>6 DEF JobRows, JobStates
<1>8. job' = [job EXCEPT ![n] = row] /\ job'[n] = row
  BY <1>2, <1>4, <1>6 DEF CollectInv, CollectTypes
<1>9. /\ snapshot' \in [JobNames -> Refs]
      /\ snapshot'[n] = IF state = "succeeded" THEN job[n].sha ELSE snapshot[n]
      /\ \A m \in JobNames : m # n => snapshot'[m] = snapshot[m]
  BY <1>2, <1>4, <1>7 DEF CollectInv, CollectTypes
<1>10. CollectTypes'
  <2>1. job' \in [JobNames -> JobRows] BY <1>7, <1>8 DEF CollectInv, CollectTypes
  <2>2. caller' \in [Callers -> CallerRows] BY <1>1, WorksTypes DEF CollectInv, WorkSteps
  <2> QED BY <1>3, <1>9, <2>1, <2>2 DEF CollectInv, CollectTypes
<1>11. job[n].state \in {"queued", "running", "failed"} /\ snapshot[n] = None
  BY <1>2, <1>4 DEF JobSound, Working
<1>12. JobSound(n)'
  <2>1. CASE state = "succeeded"
    BY <1>2, <1>3, <1>4, <1>7, <1>8, <1>9, <1>11, <2>1 DEF JobSound, Working
  <2>2. CASE state = "failed"
    BY <1>2, <1>3, <1>4, <1>7, <1>8, <1>9, <1>11, <2>2 DEF JobSound
  <2> QED BY <2>1, <2>2
<1>13. Working("done", n)' BY <1>7, <1>8 DEF Working
<1>14. \A m \in JobNames : m # n => job'[m] = job[m] BY <1>8 DEF CollectInv, CollectTypes
<1>15. "done" \in WorkSteps BY DEF WorkSteps
<1> QED BY <1>0, <1>1, <1>3, <1>7, <1>8, <1>9, <1>10, <1>11, <1>12, <1>13, <1>14, <1>15, WorkStep

LEMMA ThreadsFail ==
    ASSUME CollectInv, NEW c \in Callers, NEW r \in Repos, Trouble(c, r)
    PROVE  CollectInv' /\ Decided
<1>0. PICK n : n = Name(c, r) OBVIOUS
<1>1. caller[c].at = "work" /\ caller[c].work[r] \notin {"none", "done", "raised"}
  BY DEF Trouble
<1>2. n \in JobNames /\ Working(caller[c].work[r], n) /\ JobSound(n)
  BY <1>0, <1>1, WorkerKnows
<1>3. /\ run' = run /\ runLock' = runLock /\ job' = job /\ seen' = seen
      /\ remote' = remote /\ held' = held /\ pinned' = pinned
      /\ snapshot' = snapshot /\ grade' = grade /\ roster' = roster /\ config' = config
  BY DEF Trouble, deskVars, tableVars, sourceVars
<1>4. PICK step \in {"raised", "fail"} : Works(c, r, step) BY DEF Trouble
<1>5. step \in WorkSteps BY <1>4 DEF WorkSteps
<1>6. caller[c].work[r] \in WorkSteps BY <1>1 DEF CollectInv, CollectTypes, CallerRows
<1>7. job[n].state \in {"queued", "running", "failed"}
  BY <1>1, <1>2, <1>6 DEF Working, WorkSteps
<1>8. Working(step, n)' BY <1>3, <1>4, <1>7 DEF Working
<1>9. JobSound(n)' BY <1>2, <1>3 DEF JobSound
<1>10. CollectTypes'
  <2>1. caller' \in [Callers -> CallerRows] BY <1>4, <1>5, WorksTypes DEF CollectInv
  <2> QED BY <1>3, <2>1 DEF CollectInv, CollectTypes
<1> QED BY <1>0, <1>1, <1>3, <1>4, <1>5, <1>7, <1>8, <1>9, <1>10, WorkStep

\* A step of a caller on the run it holds, or is about to hold.
LEMMA RunStep ==
    ASSUME CollectInv, NEW c \in Callers, NEW k \in Keys, NEW new \in CallerRows,
           NEW row \in RunRows,
           runLock[k] \in {c, None}, caller[c].at # "idle" => caller[c].key = k,
           caller' = [caller EXCEPT ![c] = new], run' = [run EXCEPT ![k] = row],
           runLock' \in [Keys -> Callers \cup {None}],
           \A l \in Keys \ {k} : runLock'[l] = runLock[l],
           UNCHANGED <<sourceVars, deskVars, job, snapshot, grade, seen>>,
           run[k].state \in Terminal => row = run[k],
           RunSound(k)', CallerSound(c)'
    PROVE  CollectInv' /\ Decided
<1> USE NothingIsNoDatum
<1>1. /\ job' = job /\ seen' = seen /\ remote' = remote /\ held' = held /\ pinned' = pinned
      /\ snapshot' = snapshot /\ grade' = grade /\ roster' = roster /\ config' = config
  BY DEF deskVars, sourceVars
<1>2. CollectTypes' BY <1>1 DEF CollectInv, CollectTypes
<1>3. \A m \in JobNames : JobSound(m)' BY <1>1, JobKept DEF CollectInv
<1>4. ASSUME NEW l \in Keys PROVE RunSound(l)'
  <2>1. CASE l = k BY <2>1
  <2>2. CASE l # k
    <3>1. run'[l] = run[l] BY <2>2 DEF CollectInv, CollectTypes
    <3> QED BY <1>1, <3>1, RunKept DEF CollectInv
  <2> QED BY <2>1, <2>2
<1>5. ASSUME NEW d \in Callers PROVE CallerSound(d)'
  <2>1. CASE d = c BY <2>1
  <2>2. CASE d # c
    <3>1. CallerSound(d) /\ caller'[d] = caller[d] BY <2>2 DEF CollectInv, CollectTypes
    <3>2. ASSUME caller[d].at # "idle"
          PROVE  caller[d].key \in Keys /\ caller[d].key # k
      <4>1. caller[d].key \in Keys /\ runLock[caller[d].key] = d
        BY <3>1, <3>2 DEF CallerSound
      <4> QED BY <2>2, <4>1
    <3>3. caller[d].at # "idle" => run'[caller[d].key] = run[caller[d].key]
      BY <3>2 DEF CollectInv, CollectTypes
    <3> QED BY <1>1, <3>1, <3>2, <3>3, CallerKept
  <2> QED BY <2>1, <2>2
<1>6. Decided
  <2>1. \A l \in Keys : run[l].state \in Terminal => run'[l] = run[l]
    BY DEF CollectInv, CollectTypes
  <2> QED BY <1>1, <2>1 DEF Decided
<1> QED BY <1>2, <1>3, <1>4, <1>5, <1>6 DEF CollectInv

LEMMA CollectsBegin ==
    ASSUME CollectInv, NEW c \in Callers, NEW k \in Keys, Collect(c, k)
    PROVE  CollectInv' /\ Decided
<1> USE NothingIsNoDatum
<1>1. /\ caller[c].at = "idle" /\ runLock[k] = None /\ runLock' = [runLock EXCEPT ![k] = c]
      /\ UNCHANGED <<sourceVars, deskVars, job, snapshot, grade, seen>>
  BY DEF Collect
<1>2. PICK new : /\ new = [Idle EXCEPT !.key = k,
                             !.at = IF run[k].state \in Terminal THEN "end" ELSE "pin"]
                 /\ caller' = [caller EXCEPT ![c] = new]
  BY DEF Collect
<1>3. /\ new.at = IF run[k].state \in Terminal THEN "end" ELSE "pin"
      /\ new.key = k /\ new.raised = FALSE
  BY <1>2 DEF Idle
<1>4. new \in CallerRows BY <1>2 DEF Idle, CallerRows, CallerSteps, WorkSteps
<1>5. RunSound(k) /\ run[k] \in RunRows BY DEF CollectInv, CollectTypes
<1>6. PICK row : row = IF run[k] = NoRun THEN [run[k] EXCEPT !.state = "queued"] ELSE run[k]
  OBVIOUS
<1>14. run' = [run EXCEPT ![k] = row]
  <2>1. CASE run[k] = NoRun BY <1>6, <2>1 DEF Collect, CollectInv, CollectTypes
  <2>2. CASE run[k] # NoRun BY <1>6, <2>2 DEF Collect, CollectInv, CollectTypes
  <2> QED BY <2>1, <2>2
<1>7. /\ row \in RunRows /\ row.pinned = run[k].pinned
      /\ row.state = IF run[k] = NoRun THEN "queued" ELSE run[k].state
  BY <1>5, <1>6 DEF RunRows, RunStates
<1>8. run'[k] = row /\ caller'[c] = new /\ runLock'[k] = c
  BY <1>1, <1>2, <1>14 DEF CollectInv, CollectTypes
<1>9. job' = job BY <1>1
<1>10. run[k].state \in Terminal => row = run[k] BY <1>6 DEF NoRun, Terminal
<1>11. RunSound(k)'
  <2>1. CASE run[k] = NoRun
    <3>1. row.state = "queued" /\ run[k].state = "absent" BY <1>7, <2>1 DEF NoRun
    <3> QED BY <1>5, <1>7, <1>8, <1>9, <3>1 DEF RunSound, Terminal
  <2>2. CASE run[k] # NoRun
    <3>1. run'[k] = run[k] BY <1>6, <1>8, <2>2
    <3> QED BY <1>5, <1>9, <3>1, RunKept
  <2> QED BY <2>1, <2>2
<1>12. CallerSound(c)'
  <2>1. run[k].state \notin Terminal => row.state \in {"queued", "running"}
    BY <1>5, <1>7 DEF RunSound, RunRows, RunStates
  <2> QED BY <1>3, <1>8, <1>10, <2>1 DEF CallerSound
<1>13. runLock' \in [Keys -> Callers \cup {None}] /\ \A l \in Keys \ {k} : runLock'[l] = runLock[l]
  BY <1>1 DEF CollectInv, CollectTypes
<1> QED BY <1>1, <1>2, <1>4, <1>14, <1>7, <1>10, <1>11, <1>12, <1>13, RunStep

\* The run marks its start, fails for want of a roster, raises or ends.
LEMMA RunsMove ==
    ASSUME CollectInv, NEW c \in Callers,
           StartRun(c) \/ FailRun(c) \/ RunTrouble(c) \/ FinishRun(c) \/ EndCollect(c)
    PROVE  CollectInv' /\ Decided
<1> USE NothingIsNoDatum
<1>0. PICK k : k = caller[c].key OBVIOUS
<1>1. caller[c].at # "idle"
  BY DEF StartRun, FailRun, RunTrouble, FinishRun, EndCollect
<1>2. k \in Keys /\ runLock[k] = c /\ CallerSound(c)
  BY <1>0, <1>1 DEF CallerSound, CollectInv
<1>3. UNCHANGED <<sourceVars, deskVars, job, snapshot, grade, seen>> /\ job' = job
  BY DEF StartRun, FailRun, RunTrouble, FinishRun, EndCollect, tableVars
<1>4. caller[c] \in CallerRows /\ run[k] \in RunRows /\ RunSound(k)
  BY <1>2 DEF CollectInv, CollectTypes
<1>5. run = [run EXCEPT ![k] = run[k]] BY DEF CollectInv, CollectTypes
<1>6. \A r \in Repos : Name(c, r) = <<k, r>> BY <1>0 DEF Name
<1>7. CASE StartRun(c)
  <2>1. caller[c].at = "start" BY <1>7 DEF StartRun
  <2>2. PICK row : row = [run[k] EXCEPT !.state = "running"] /\ run' = [run EXCEPT ![k] = row]
    BY <1>0, <1>2, <1>7 DEF StartRun, CollectInv, CollectTypes
  <2>3. row \in RunRows /\ row.state = "running" /\ row.pinned = run[k].pinned
    BY <1>4, <2>2 DEF RunRows, RunStates
  <2>4. PICK work : work = [r \in Repos |->
             IF job[<<k, r>>].state \in {"absent", "succeeded"} THEN "done" ELSE "claim"]
    OBVIOUS
  <2>5. PICK at : at = IF run[k].pinned THEN "work" ELSE "nobody" OBVIOUS
  <2>6. PICK new : new = [caller[c] EXCEPT !.at = at, !.work = work] OBVIOUS
  <2>7. caller' = [caller EXCEPT ![c] = new]
    BY <1>0, <1>7, <2>4, <2>5, <2>6 DEF StartRun, CollectInv, CollectTypes
  <2>8. work \in [Repos -> WorkSteps] BY <2>4 DEF WorkSteps
  <2>9. new.at = at /\ new.key = k /\ new.work = work
    BY <1>0, <1>4, <2>6 DEF CallerRows
  <2>10. new \in CallerRows BY <1>4, <2>5, <2>6, <2>8 DEF CallerRows, CallerSteps
  <2>11. run'[k] = row /\ caller'[c] = new /\ runLock' = runLock
    BY <1>2, <1>7, <2>2, <2>7 DEF StartRun, CollectInv, CollectTypes
  <2>12. run[k].state \notin Terminal BY <1>0, <1>2, <2>1 DEF CallerSound, Terminal
  <2>13. RunSound(k)' BY <1>3, <1>4, <2>3, <2>11 DEF RunSound, Terminal
  <2>14. CallerSound(c)'
    <3>1. ASSUME NEW r \in Repos PROVE Working(work[r], <<k, r>>)'
      <4>1. job[<<k, r>>].state \in JobStates
        BY <1>2, PairsAreJobs DEF CollectInv, CollectTypes, JobRows
      <4> QED BY <1>3, <2>4, <4>1 DEF Working, JobStates
    <3>2. \A r \in Repos : Name(c, r)' = <<k, r>> BY <2>9, <2>11 DEF Name
    <3> QED BY <1>2, <2>3, <2>5, <2>9, <2>11, <3>1, <3>2 DEF CallerSound
  <2> QED BY <1>0, <1>2, <1>3, <2>2, <2>3, <2>7, <2>10, <2>11, <2>12, <2>13, <2>14, RunStep
          DEF CollectInv, CollectTypes
<1>8. CASE FailRun(c)
  <2>1. caller[c].at = "nobody" BY <1>8 DEF FailRun
  <2>2. PICK row : row = [run[k] EXCEPT !.state = "failed"] /\ run' = [run EXCEPT ![k] = row]
    BY <1>0, <1>2, <1>8 DEF FailRun, CollectInv, CollectTypes
  <2>3. row \in RunRows /\ row.state = "failed" /\ row.pinned = run[k].pinned
    BY <1>4, <2>2 DEF RunRows, RunStates, Terminal
  <2>4. PICK new : new = [caller[c] EXCEPT !.at = "end"] /\ caller' = [caller EXCEPT ![c] = new]
    BY <1>8 DEF FailRun, Steps, CollectInv, CollectTypes
  <2>5. new \in CallerRows /\ new.at = "end" /\ new.key = k
    BY <1>0, <1>4, <2>4 DEF CallerRows, CallerSteps
  <2>6. run'[k] = row /\ caller'[c] = new /\ runLock' = runLock
    BY <1>2, <1>8, <2>2, <2>4 DEF FailRun, CollectInv, CollectTypes
  <2>7. run[k].state \notin Terminal /\ ~run[k].pinned
    BY <1>0, <1>2, <2>1 DEF CallerSound, Terminal
  <2>8. RunSound(k)' BY <1>3, <1>4, <2>3, <2>6, <2>7 DEF RunSound
  <2>9. CallerSound(c)' BY <1>2, <2>3, <2>5, <2>6 DEF CallerSound, Terminal
  <2> QED BY <1>0, <1>2, <1>3, <2>2, <2>3, <2>4, <2>5, <2>6, <2>7, <2>8, <2>9, RunStep
          DEF CollectInv, CollectTypes
<1>9. CASE RunTrouble(c)
  <2>1. run' = run /\ runLock' = runLock BY <1>9 DEF RunTrouble, tableVars
  <2>2. PICK new : new = [caller[c] EXCEPT !.at = "end", !.raised = TRUE] OBVIOUS
  <2>3. caller' = [caller EXCEPT ![c] = new]
    BY <1>9, <2>2 DEF RunTrouble, CollectInv, CollectTypes
  <2>4. new \in CallerRows /\ new.at = "end" /\ new.key = k
    BY <1>0, <1>4, <2>2 DEF CallerRows, CallerSteps
  <2>5. new.raised = TRUE BY <1>4, <2>2 DEF CallerRows
  <2>6. caller'[c] = new BY <2>3 DEF CollectInv, CollectTypes
  <2>7. RunSound(k)' BY <1>2, <1>3, <1>4, <2>1, RunKept
  <2>8. CallerSound(c)' BY <1>2, <2>1, <2>4, <2>5, <2>6 DEF CallerSound
  <2> QED BY <1>0, <1>2, <1>3, <1>4, <1>5, <2>1, <2>3, <2>4, <2>7, <2>8, RunStep
          DEF CollectInv, CollectTypes
<1>10. CASE FinishRun(c)
  <2>1. PICK raised \in BOOLEAN : raised = \E r \in Repos : caller[c].work[r] = "raised"
    OBVIOUS
  <2>2. /\ caller[c].at = "work" /\ runLock' = runLock
        /\ \A r \in Repos : caller[c].work[r] \in {"done", "raised"}
    BY <1>10 DEF FinishRun
  <2>3. PICK row : /\ row = IF raised THEN run[k] ELSE [run[k] EXCEPT !.state = Verdict(k)]
                   /\ run' = [run EXCEPT ![k] = row]
    BY <1>0, <1>2, <1>5, <1>10, <2>1 DEF FinishRun, CollectInv, CollectTypes
  <2>4. PICK new : new = [caller[c] EXCEPT !.at = "end", !.raised = raised] OBVIOUS
  <2>5. caller' = [caller EXCEPT ![c] = new]
    BY <1>10, <2>1, <2>4 DEF FinishRun, CollectInv, CollectTypes
  <2>6. new \in CallerRows /\ new.at = "end" /\ new.key = k
    BY <1>0, <1>4, <2>4 DEF CallerRows, CallerSteps
  <2>7. new.raised = raised BY <1>4, <2>4 DEF CallerRows
  <2>8. Verdict(k) \in Terminal BY DEF Verdict, Terminal
  <2>9. row \in RunRows /\ row.pinned = run[k].pinned
        /\ row.state = IF raised THEN run[k].state ELSE Verdict(k)
    BY <1>4, <2>3, <2>8 DEF RunRows, RunStates
  <2>10. run'[k] = row /\ caller'[c] = new
    BY <1>2, <2>3, <2>5 DEF CollectInv, CollectTypes
  <2>11. run[k].state \notin Terminal /\ run[k].pinned
    BY <1>0, <1>2, <2>2 DEF CallerSound, Terminal
  <2>12. States(k)' = States(k) /\ Verdict(k)' = Verdict(k)
    BY <1>3 DEF States, Verdict
  <2>13. ~raised => States(k) \subseteq {"succeeded", "failed"}
    <3>1. ASSUME ~raised, NEW r \in Repos
          PROVE  job[<<k, r>>].state \in {"absent", "succeeded", "failed"}
      <4>1. caller[c].work[r] = "done" BY <2>1, <2>2, <3>1
      <4> QED BY <1>6, <2>2, <4>1, WorkerKnows DEF Working
    <3> QED BY <3>1 DEF States
  <2>14. RunSound(k)'
    <3>1. CASE raised BY <1>2, <1>3, <1>4, <2>3, <2>10, <3>1, RunKept
    <3>2. CASE ~raised
      <4>1. row.state = Verdict(k) /\ row.state # "absent"
        BY <2>8, <2>9, <3>2 DEF Terminal
      <4> QED BY <1>3, <1>4, <2>9, <2>10, <2>11, <2>12, <2>13, <3>2, <4>1 DEF RunSound
    <3> QED BY <3>1, <3>2
  <2>15. CallerSound(c)' BY <1>2, <2>2, <2>6, <2>7, <2>8, <2>9, <2>10 DEF CallerSound
  <2> QED BY <1>0, <1>2, <1>3, <2>2, <2>3, <2>5, <2>6, <2>9, <2>11, <2>14, <2>15, RunStep
          DEF CollectInv, CollectTypes
<1>11. CASE EndCollect(c)
  <2>1. run' = run /\ runLock' = [runLock EXCEPT ![k] = None]
    BY <1>0, <1>11 DEF EndCollect, tableVars
  <2>2. PICK new : /\ new = [Idle EXCEPT !.raised = caller[c].raised]
                   /\ caller' = [caller EXCEPT ![c] = new]
    BY <1>11 DEF EndCollect
  <2>3. new \in CallerRows /\ new.at = "idle"
    BY <1>4, <2>2 DEF Idle, CallerRows, CallerSteps, WorkSteps
  <2>4. caller'[c] = new BY <2>2 DEF CollectInv, CollectTypes
  <2>5. RunSound(k)' BY <1>2, <1>3, <1>4, <2>1, RunKept
  <2>6. CallerSound(c)' BY <2>3, <2>4 DEF CallerSound
  <2>7. runLock' \in [Keys -> Callers \cup {None}] /\ \A l \in Keys \ {k} : runLock'[l] = runLock[l]
    BY <2>1 DEF CollectInv, CollectTypes
  <2> QED BY <1>0, <1>2, <1>3, <1>4, <1>5, <2>1, <2>2, <2>3, <2>5, <2>6, <2>7, RunStep
<1> QED BY <1>7, <1>8, <1>9, <1>10, <1>11

\* One transaction gives a run its jobs, unless it has them.
LEMMA JobsArePinned ==
    ASSUME CollectInv, NEW c \in Callers, PinJobs(c)
    PROVE  CollectInv' /\ Decided
<1> USE NothingIsNoDatum, PairsAreJobs
<1>0. PICK k : k = caller[c].key OBVIOUS
<1>1. /\ caller[c].at = "pin" /\ Steps(c, "start")
      /\ seen' = seen /\ remote' = remote /\ held' = held /\ pinned' = pinned
      /\ snapshot' = snapshot /\ grade' = grade /\ roster' = roster /\ config' = config
      /\ runLock' = runLock
  BY DEF PinJobs, deskVars, sourceVars
<1>2. k \in Keys /\ runLock[k] = c /\ run[k].state \in {"queued", "running"}
  BY <1>0, <1>1 DEF CollectInv, CallerSound
<1>3. RunSound(k) /\ run[k] \in RunRows /\ caller[c] \in CallerRows
  BY <1>2 DEF CollectInv, CollectTypes
<1>4. PICK fresh : fresh = [NoJob EXCEPT !.state = "queued", !.config = config] OBVIOUS
<1>5. /\ fresh.state = "queued" /\ fresh.config = config /\ fresh.sha = None
      /\ fresh \in JobRows
  BY <1>4 DEF NoJob, JobRows, JobStates, Refs, CollectInv, CollectTypes
<1>6. /\ job' \in [JobNames -> JobRows]
      /\ \A n \in JobNames : job'[n] = IF n[1] = k /\ n[2] \in roster /\ ~run[k].pinned
                                       THEN fresh ELSE job[n]
  <2>1. job' = [n \in JobNames |-> IF n[1] = k /\ n[2] \in roster /\ ~run[k].pinned
                                   THEN fresh ELSE job[n]]
    BY <1>0, <1>4 DEF PinJobs, Pinned
  <2> QED BY <1>5, <2>1 DEF CollectInv, CollectTypes
<1>7. PICK row : row = [run[k] EXCEPT !.pinned = @ \/ roster # {}] OBVIOUS
<1>8. run' = [run EXCEPT ![k] = row] BY <1>0, <1>7 DEF PinJobs, CollectInv, CollectTypes
<1>9. row \in RunRows /\ row.state = run[k].state BY <1>3, <1>7 DEF RunRows
<1>10. row.pinned <=> run[k].pinned \/ roster # {} BY <1>3, <1>7 DEF RunRows
<1>11. run'[k] = row /\ \A l \in Keys \ {k} : run'[l] = run[l]
  BY <1>2, <1>8 DEF CollectInv, CollectTypes
<1>12. PICK new : new = [caller[c] EXCEPT !.at = "start"] /\ caller' = [caller EXCEPT ![c] = new]
  BY <1>1 DEF Steps, CollectInv, CollectTypes
<1>13. new \in CallerRows /\ new.at = "start" /\ new.key = k
  BY <1>0, <1>3, <1>12 DEF CallerRows, CallerSteps
<1>14. CollectTypes'
  <2>1. run' \in [Keys -> RunRows] BY <1>8, <1>9 DEF CollectInv, CollectTypes
  <2>2. caller' \in [Callers -> CallerRows] BY <1>12, <1>13 DEF CollectInv, CollectTypes
  <2> QED BY <1>1, <1>6, <2>1, <2>2 DEF CollectInv, CollectTypes
<1>15. ASSUME ~run[k].pinned, NEW r \in Repos PROVE job[<<k, r>>].state = "absent"
  BY <1>3, <1>15 DEF RunSound
<1>16. ASSUME NEW n \in JobNames PROVE JobSound(n)'
  <2>1. JobSound(n) BY DEF CollectInv
  <2>2. CASE n[1] = k /\ n[2] \in roster /\ ~run[k].pinned
    <3>1. job[n].state = "absent" BY <1>15, <2>2
    <3>2. job'[n] = fresh BY <1>6, <2>2
    <3>3. job[n].sha = None BY <2>1, <3>1 DEF JobSound, NoJob
    <3>4. snapshot[n] = None /\ pinned[n] = None /\ grade[n].state = "absent"
      BY <2>1, <3>1, <3>3 DEF JobSound
    <3> QED BY <1>1, <1>5, <2>1, <3>2, <3>4 DEF JobSound
  <2>3. CASE ~(n[1] = k /\ n[2] \in roster /\ ~run[k].pinned)
    <3>1. job'[n] = job[n] BY <1>6, <2>3
    <3> QED BY <1>1, <2>1, <3>1, JobKept
  <2> QED BY <2>2, <2>3
<1>17. ASSUME NEW l \in Keys PROVE RunSound(l)'
  <2>1. RunSound(l) BY DEF CollectInv
  <2>2. CASE l # k
    <3>1. run'[l] = run[l] BY <1>11, <2>2
    <3>2. \A r \in Repos : job'[<<l, r>>] = job[<<l, r>>] BY <1>6, <2>2
    <3> QED BY <2>1, <3>1, <3>2, RunKept
  <2>3. CASE l = k /\ run[k].pinned
    <3>1. \A r \in Repos : job'[<<l, r>>] = job[<<l, r>>] BY <1>6, <2>3
    <3>2. run'[k].state = run[k].state /\ (run'[k].pinned <=> run[k].pinned)
      BY <1>9, <1>10, <1>11, <2>3
    <3> QED BY <1>2, <2>1, <2>3, <3>1, <3>2 DEF RunSound, Terminal
  <2>4. CASE l = k /\ ~run[k].pinned
    <3>1. \A r \in Repos : job'[<<k, r>>].state = IF r \in roster THEN "queued" ELSE "absent"
      BY <1>2, <1>5, <1>6, <1>15, <2>4
    <3>2. \A r \in roster : job'[<<k, r>>].config = config
      <4>1. roster \subseteq Repos BY DEF CollectInv, CollectTypes
      <4> QED BY <1>2, <1>5, <1>6, <2>4, <4>1
    <3>3. run'[k].pinned <=> roster # {} BY <1>10, <1>11, <2>4
    <3>4. roster \subseteq Repos BY DEF CollectInv, CollectTypes
    <3>5. run'[k].state \in {"queued", "running"} BY <1>2, <1>9, <1>11
    <3> QED BY <2>4, <3>1, <3>2, <3>3, <3>4, <3>5 DEF RunSound, Terminal
  <2> QED BY <2>2, <2>3, <2>4
<1>18. ASSUME NEW d \in Callers PROVE CallerSound(d)'
  <2>1. CASE d = c
    <3>1. caller'[c] = new BY <1>12 DEF CollectInv, CollectTypes
    <3> QED BY <1>1, <1>2, <1>9, <1>11, <1>13, <2>1, <3>1 DEF CallerSound
  <2>2. CASE d # c
    <3>1. CallerSound(d) /\ caller'[d] = caller[d]
      BY <1>12, <2>2 DEF CollectInv, CollectTypes
    <3>2. ASSUME caller[d].at # "idle"
          PROVE  caller[d].key \in Keys /\ caller[d].key # k
      <4>1. caller[d].key \in Keys /\ runLock[caller[d].key] = d
        BY <3>1, <3>2 DEF CallerSound
      <4> QED BY <1>2, <2>2, <4>1
    <3>3. ASSUME caller[d].at # "idle", NEW r \in Repos PROVE job'[Name(d, r)] = job[Name(d, r)]
      <4>1. Name(d, r) \in JobNames /\ Name(d, r)[1] # k BY <3>2, <3>3 DEF Name
      <4> QED BY <1>6, <4>1
    <3> QED BY <1>1, <1>11, <3>1, <3>2, <3>3, CallerKept
  <2> QED BY <2>1, <2>2
<1>19. Decided
  <2>1. ASSUME NEW l \in Keys, run[l].state \in Terminal
        PROVE  run'[l] = run[l] /\ \A r \in Repos : job'[<<l, r>>] = job[<<l, r>>]
    <3>1. l # k BY <1>2, <2>1 DEF Terminal
    <3> QED BY <1>6, <1>11, <3>1
  <2>2. ASSUME NEW l \in Keys, NEW r \in Repos, run[l].pinned
        PROVE  job'[<<l, r>>] = job[<<l, r>>]
    BY <1>6, <2>2
  <2>3. ASSUME NEW n \in JobNames, job[n].sha # None PROVE job'[n].sha = job[n].sha
    <3>1. job[n].state # "absent" BY <2>3 DEF CollectInv, JobSound, NoJob
    <3>2. job'[n] = job[n] BY <1>6, <1>15, <3>1
    <3> QED BY <3>2
  <2> QED BY <1>1, <2>1, <2>2, <2>3 DEF Decided
<1> QED BY <1>14, <1>16, <1>17, <1>18, <1>19 DEF CollectInv

\* What leaves the callers and the runs alone.
LEMMA OutsideKeeps ==
    ASSUME CollectInv, CollectTypes', run' = run, job' = job, snapshot' = snapshot,
           runLock' = runLock, caller' = caller, held' = held, pinned' = pinned,
           \A n \in JobNames : JobSound(n)'
    PROVE  CollectInv' /\ Decided
<1>1. \A k \in Keys : RunSound(k)' BY RunKept DEF CollectInv
<1>2. \A d \in Callers : CallerSound(d)' BY CallerKept DEF CollectInv
<1>3. Decided BY DEF Decided
<1> QED BY <1>1, <1>2, <1>3 DEF CollectInv

LEMMA StudentsPush ==
    ASSUME CollectInv, NEW r \in Repos, NEW new \in Refs, Push(r, new)
    PROVE  CollectInv' /\ Decided
<1>1. /\ run' = run /\ job' = job /\ snapshot' = snapshot /\ grade' = grade
      /\ runLock' = runLock /\ caller' = caller /\ roster' = roster /\ config' = config
      /\ held' = held /\ pinned' = pinned /\ remote' = [remote EXCEPT ![r] = new]
      /\ seen' = [n \in JobNames |->
           IF n[2] = r /\ job[n].state = "running" THEN seen[n] \cup {new} ELSE seen[n]]
  BY DEF Push, Collector!Push, deskVars, tableVars
<1>2. CollectTypes' BY <1>1 DEF CollectInv, CollectTypes
<1>3. ASSUME NEW n \in JobNames PROVE JobSound(n)'
  <2>1. JobSound(n) BY DEF CollectInv
  <2>2. seen'[n] = IF n[2] = r /\ job[n].state = "running" THEN seen[n] \cup {new} ELSE seen[n]
    BY <1>1
  <2>3. n[2] \in Repos /\ remote'[n[2]] = IF n[2] = r THEN new ELSE remote[n[2]]
    BY <1>1, PairsAreJobs DEF CollectInv, CollectTypes
  <2> QED BY <1>1, <2>1, <2>2, <2>3 DEF JobSound
<1> QED BY <1>1, <1>2, <1>3, OutsideKeeps

LEMMA DeskChanges ==
    ASSUME CollectInv,
           (\E active \in SUBSET Repos : ImportRoster(active)) \/ RegisterAssignment
    PROVE  CollectInv' /\ Decided
<1>1. /\ run' = run /\ job' = job /\ snapshot' = snapshot /\ grade' = grade
      /\ runLock' = runLock /\ caller' = caller /\ seen' = seen
      /\ remote' = remote /\ held' = held /\ pinned' = pinned
  BY DEF ImportRoster, RegisterAssignment, tableVars, sourceVars
<1>2. roster' \in SUBSET Repos /\ config' \in Nat
  BY DEF ImportRoster, RegisterAssignment, CollectInv, CollectTypes
<1>3. CollectTypes' BY <1>1, <1>2 DEF CollectInv, CollectTypes
<1>4. \A n \in JobNames : JobSound(n)' BY <1>1, JobKept DEF CollectInv
<1> QED BY <1>1, <1>3, <1>4, OutsideKeeps

LEMMA GradesMove ==
    ASSUME CollectInv, NEW n \in JobNames, GradeStep(n)
    PROVE  CollectInv' /\ Decided
<1>1. /\ run' = run /\ job' = job /\ snapshot' = snapshot /\ roster' = roster /\ config' = config
      /\ runLock' = runLock /\ caller' = caller /\ seen' = seen
      /\ remote' = remote /\ held' = held /\ pinned' = pinned
  BY DEF GradeStep, deskVars, sourceVars
<1>2. JobSound(n) /\ grade[n] \in GradeRows BY DEF CollectInv, CollectTypes
<1>3. PICK row \in GradeRows :
        /\ grade' = [grade EXCEPT ![n] = row]
        /\ row.state # "absent" /\ snapshot[n] # None /\ row.config = job[n].config
  <2>1. ASSUME NEW v \in 1..config, EnsureGrade(n, v)
        PROVE  \E row \in GradeRows :
                 /\ grade' = [grade EXCEPT ![n] = row]
                 /\ row.state # "absent" /\ snapshot[n] # None /\ row.config = job[n].config
    <3>1. PICK row : row = [grade[n] EXCEPT !.state = "queued", !.config = v] OBVIOUS
    <3>2. v \in Nat BY DEF CollectInv, CollectTypes
    <3>3. row \in GradeRows BY <1>2, <3>1, <3>2 DEF GradeRows, JobStates
    <3>4. row.state = "queued" /\ row.config = v BY <1>2, <3>1 DEF GradeRows
    <3>5. grade' = [grade EXCEPT ![n] = row]
      BY <1>2, <2>1, <3>1 DEF EnsureGrade, GradeRows, CollectInv, CollectTypes
    <3> QED BY <2>1, <3>3, <3>4, <3>5 DEF EnsureGrade
  <2>2. ASSUME ClaimGrade(n)
        PROVE  \E row \in GradeRows :
                 /\ grade' = [grade EXCEPT ![n] = row]
                 /\ row.state # "absent" /\ snapshot[n] # None /\ row.config = job[n].config
    <3>1. PICK row : row = [grade[n] EXCEPT !.state = "running", !.attempt = @ + 1] OBVIOUS
    <3>2. grade[n].attempt + 1 \in Nat BY <1>2 DEF GradeRows
    <3>3. row \in GradeRows BY <1>2, <3>1, <3>2 DEF GradeRows, JobStates
    <3>4. row.state = "running" /\ row.config = grade[n].config BY <1>2, <3>1 DEF GradeRows
    <3>5. grade' = [grade EXCEPT ![n] = row]
      BY <1>2, <2>2, <3>1 DEF ClaimGrade, GradeRows, CollectInv, CollectTypes
    <3> QED BY <1>2, <2>2, <3>3, <3>4, <3>5 DEF ClaimGrade, JobSound
  <2>3. ASSUME CompleteGrade(n) \/ FailGrade(n)
        PROVE  \E row \in GradeRows :
                 /\ grade' = [grade EXCEPT ![n] = row]
                 /\ row.state # "absent" /\ snapshot[n] # None /\ row.config = job[n].config
    <3>1. PICK s \in {"succeeded", "failed"} : grade' = [grade EXCEPT ![n].state = s]
      BY <2>3 DEF CompleteGrade, FailGrade
    <3>2. PICK row : row = [grade[n] EXCEPT !.state = s] OBVIOUS
    <3>3. row \in GradeRows /\ row.state = s /\ row.config = grade[n].config
      BY <1>2, <3>2 DEF GradeRows, JobStates
    <3>4. grade' = [grade EXCEPT ![n] = row]
      BY <3>1, <3>2 DEF CollectInv, CollectTypes
    <3>5. grade[n].state # "absent" BY <2>3 DEF CompleteGrade, FailGrade
    <3> QED BY <1>2, <3>3, <3>4, <3>5 DEF JobSound
  <2> QED BY <2>1, <2>2, <2>3 DEF GradeStep
<1>4. CollectTypes' BY <1>1, <1>3 DEF CollectInv, CollectTypes
<1>5. ASSUME NEW m \in JobNames PROVE JobSound(m)'
  <2>1. JobSound(m) BY DEF CollectInv
  <2>2. CASE m = n
    <3>1. grade'[n] = row BY <1>3 DEF CollectInv, CollectTypes
    <3> QED BY <1>1, <1>2, <1>3, <2>2, <3>1 DEF JobSound
  <2>3. CASE m # n
    <3>1. grade'[m] = grade[m] BY <1>3, <2>3 DEF CollectInv, CollectTypes
    <3> QED BY <1>1, <2>1, <3>1, JobKept
  <2> QED BY <2>2, <2>3
<1> QED BY <1>1, <1>4, <1>5, OutsideKeeps

LEMMA ProcessesDie ==
    ASSUME CollectInv, NEW cs, Dies(cs)
    PROVE  CollectInv' /\ Decided
<1> USE NothingIsNoDatum
<1>1. /\ run' = run /\ job' = job /\ snapshot' = snapshot /\ grade' = grade
      /\ roster' = roster /\ config' = config /\ seen' = seen
      /\ remote' = remote /\ held' = held /\ pinned' = pinned
      /\ runLock' = [k \in Keys |-> IF runLock[k] \in cs THEN None ELSE runLock[k]]
      /\ caller' = [c \in Callers |-> IF c \in cs THEN Idle ELSE caller[c]]
  BY DEF Dies, deskVars, tableVars, sourceVars
<1>2. Idle \in CallerRows BY DEF Idle, CallerRows, CallerSteps, WorkSteps
<1>3. CollectTypes'
  <2>1. runLock' \in [Keys -> Callers \cup {None}] BY <1>1 DEF CollectInv, CollectTypes
  <2>2. caller' \in [Callers -> CallerRows] BY <1>1, <1>2 DEF CollectInv, CollectTypes
  <2> QED BY <1>1, <2>1, <2>2 DEF CollectInv, CollectTypes
<1>4. \A n \in JobNames : JobSound(n)' BY <1>1, JobKept DEF CollectInv
<1>5. \A k \in Keys : RunSound(k)' BY <1>1, RunKept DEF CollectInv
<1>6. ASSUME NEW d \in Callers PROVE CallerSound(d)'
  <2>1. CallerSound(d) BY DEF CollectInv
  <2>2. CASE d \in cs BY <1>1, <2>2 DEF CallerSound, Idle
  <2>3. CASE d \notin cs
    <3>1. caller'[d] = caller[d] BY <1>1, <2>3
    <3>2. caller[d].at # "idle" => runLock'[caller[d].key] = runLock[caller[d].key]
      BY <1>1, <2>1, <2>3 DEF CallerSound
    <3> QED BY <1>1, <2>1, <3>1, <3>2, CallerKept
  <2> QED BY <2>2, <2>3
<1>7. Decided BY <1>1 DEF Decided
<1> QED BY <1>3, <1>4, <1>5, <1>6, <1>7 DEF CollectInv

\* Every step of a collection, of its callers and of what happens around it.
LEMMA CollectionsMove ==
    ASSUME CollectInv,
           \/ \E c \in Callers : CollectStep(c)
           \/ \E c \in Callers, k \in Keys : Collect(c, k)
           \/ \E cs : Dies(cs)
           \/ OutsideStep
           \/ UNCHANGED collectVars
           \/ UNCHANGED <<sourceVars, deskVars, tableVars, runLock, caller, seen, pushes>>
    PROVE  CollectInv' /\ Decided
<1>1. ASSUME NEW c \in Callers, CollectStep(c) PROVE CollectInv' /\ Decided
  <2>1. CASE PinJobs(c) BY <2>1, JobsArePinned
  <2>2. CASE StartRun(c) \/ FailRun(c) \/ RunTrouble(c) \/ FinishRun(c) \/ EndCollect(c)
    BY <2>2, RunsMove
  <2>3. ASSUME NEW r \in Repos,
               \/ ClaimJob(c, r) \/ Fetch(c, r) \/ RecordFetch(c, r) \/ PreserveSource(c, r)
               \/ CompleteJob(c, r) \/ FailJob(c, r) \/ Trouble(c, r)
        PROVE  CollectInv' /\ Decided
    BY <2>3, Claims, Fetches, FetchesAreRecorded, SourcesArePreserved, JobsEnd, ThreadsFail
  <2> QED BY <1>1, <2>1, <2>2, <2>3 DEF CollectStep
<1>2. ASSUME NEW c \in Callers, NEW k \in Keys, Collect(c, k) PROVE CollectInv' /\ Decided
  BY <1>2, CollectsBegin
<1>3. ASSUME NEW cs, Dies(cs) PROVE CollectInv' /\ Decided
  BY <1>3, ProcessesDie
<1>4. CASE OutsideStep
  <2>1. ASSUME NEW r \in Repos, NEW c \in Commits \cup {None}, Push(r, c)
        PROVE  CollectInv' /\ Decided
    BY <2>1, StudentsPush DEF Refs
  <2>2. ASSUME NEW n \in JobNames, GradeStep(n) PROVE CollectInv' /\ Decided
    BY <2>2, GradesMove
  <2>3. CASE (\E active \in SUBSET Repos : ImportRoster(active)) \/ RegisterAssignment
    BY <2>3, DeskChanges
  <2> QED BY <1>4, <2>1, <2>2, <2>3 DEF OutsideStep
<1>5. CASE UNCHANGED collectVars \/
           UNCHANGED <<sourceVars, deskVars, tableVars, runLock, caller, seen, pushes>>
  <2>1. /\ run' = run /\ job' = job /\ snapshot' = snapshot /\ grade' = grade
        /\ roster' = roster /\ config' = config /\ seen' = seen
        /\ remote' = remote /\ held' = held /\ pinned' = pinned
        /\ runLock' = runLock /\ caller' = caller
    BY <1>5 DEF collectVars, sourceVars, deskVars, tableVars
  <2>2. CollectTypes' BY <2>1 DEF CollectInv, CollectTypes
  <2>3. \A n \in JobNames : JobSound(n)' BY <2>1, JobKept DEF CollectInv
  <2> QED BY <2>1, <2>2, <2>3, OutsideKeeps
<1> QED BY <1>1, <1>2, <1>3, <1>4, <1>5

\* What a step of one caller does to the callers, and when it returns.
LEMMA CallersMove ==
    ASSUME CollectInv, NEW c \in Callers, CollectStep(c)
    PROVE  /\ \A d \in Callers \ {c} : caller'[d] = caller[d]
           /\ caller[c].at # "idle"
           /\ IF caller'[c].at = "idle"
              THEN ~caller'[c].raised => run[caller[c].key].state \in Terminal
              ELSE caller'[c].key = caller[c].key
<1>1. caller[c] \in CallerRows /\ CallerSound(c) BY DEF CollectInv, CollectTypes
<1>2. CASE EndCollect(c)
  <2>1. caller'[c] = [Idle EXCEPT !.raised = caller[c].raised]
    BY <1>2 DEF EndCollect, CollectInv, CollectTypes
  <2>2. caller'[c].at = "idle" /\ caller'[c].raised = caller[c].raised BY <2>1 DEF Idle
  <2>3. \A d \in Callers \ {c} : caller'[d] = caller[d]
    BY <1>2 DEF EndCollect, CollectInv, CollectTypes
  <2>4. caller[c].at = "end" BY <1>2 DEF EndCollect
  <2> QED BY <1>1, <2>2, <2>3, <2>4 DEF CallerSound
<1>3. ASSUME NEW r \in Repos,
             \/ ClaimJob(c, r) \/ Fetch(c, r) \/ RecordFetch(c, r) \/ PreserveSource(c, r)
             \/ CompleteJob(c, r) \/ FailJob(c, r) \/ Trouble(c, r)
      PROVE  /\ \A d \in Callers \ {c} : caller'[d] = caller[d]
             /\ caller[c].at = "work" /\ caller'[c].at = "work" /\ caller'[c].key = caller[c].key
  <2>1. caller[c].at = "work"
    BY <1>3 DEF ClaimJob, Fetch, RecordFetch, PreserveSource, CompleteJob, FailJob, Trouble, WorksOn
  <2>2. PICK step : Works(c, r, step)
    BY <1>3 DEF ClaimJob, Fetch, RecordFetch, PreserveSource, CompleteJob, FailJob, Trouble
  <2>3. \A d \in Callers \ {c} : caller'[d] = caller[d]
    BY <2>2 DEF Works, CollectInv, CollectTypes
  <2>4. caller'[c] = [caller[c] EXCEPT !.work[r] = step]
    BY <2>2 DEF Works, CollectInv, CollectTypes
  <2>5. caller'[c].at = caller[c].at /\ caller'[c].key = caller[c].key
    BY <1>1, <2>4 DEF CallerRows
  <2> QED BY <2>1, <2>3, <2>5
<1>4. CASE PinJobs(c) \/ FailRun(c)
  <2>1. PICK at \in {"start", "end"} : caller' = [caller EXCEPT ![c].at = at]
    BY <1>4 DEF PinJobs, FailRun, Steps
  <2>2. caller[c].at # "idle" BY <1>4 DEF PinJobs, FailRun
  <2>3. caller'[c] = [caller[c] EXCEPT !.at = at] BY <2>1 DEF CollectInv, CollectTypes
  <2>4. caller'[c].at = at /\ caller'[c].key = caller[c].key BY <1>1, <2>3 DEF CallerRows
  <2>5. \A d \in Callers \ {c} : caller'[d] = caller[d] BY <2>1 DEF CollectInv, CollectTypes
  <2> QED BY <2>2, <2>4, <2>5
<1>5. CASE StartRun(c)
  <2>0. PICK at \in {"work", "nobody"} :
          at = IF run[caller[c].key].pinned THEN "work" ELSE "nobody"
    OBVIOUS
  <2>1. PICK work : caller' = [caller EXCEPT ![c].at = at, ![c].work = work]
    BY <1>5, <2>0 DEF StartRun
  <2>2. caller[c].at # "idle" BY <1>5 DEF StartRun
  <2>3. caller'[c] = [caller[c] EXCEPT !.at = at, !.work = work]
    BY <2>1 DEF CollectInv, CollectTypes
  <2>4. caller'[c].at = at /\ caller'[c].key = caller[c].key BY <1>1, <2>3 DEF CallerRows
  <2>5. \A d \in Callers \ {c} : caller'[d] = caller[d] BY <2>1 DEF CollectInv, CollectTypes
  <2> QED BY <2>0, <2>2, <2>4, <2>5
<1>6. CASE RunTrouble(c) \/ FinishRun(c)
  <2>1. PICK raised : caller' = [caller EXCEPT ![c].at = "end", ![c].raised = raised]
    BY <1>6 DEF RunTrouble, FinishRun
  <2>2. caller[c].at # "idle" BY <1>6 DEF RunTrouble, FinishRun
  <2>3. caller'[c] = [caller[c] EXCEPT !.at = "end", !.raised = raised]
    BY <2>1 DEF CollectInv, CollectTypes
  <2>4. caller'[c].at = "end" /\ caller'[c].key = caller[c].key BY <1>1, <2>3 DEF CallerRows
  <2>5. \A d \in Callers \ {c} : caller'[d] = caller[d] BY <2>1 DEF CollectInv, CollectTypes
  <2> QED BY <2>2, <2>4, <2>5
<1> QED BY <1>2, <1>3, <1>4, <1>5, <1>6 DEF CollectStep

LEMMA CollectionsAreHonest == CollectInv => CollectionIsHonest
<1> SUFFICES ASSUME CollectInv PROVE CollectionIsHonest OBVIOUS
<1> USE NothingIsNoDatum, PairsAreJobs
<1>1. SnapshotsAreTrue
  <2>1. ASSUME NEW n \in JobNames
        PROVE  /\ (snapshot[n] # None) = (job[n].state = "succeeded")
               /\ snapshot[n] # None =>
                    /\ snapshot[n] = job[n].sha /\ snapshot[n] = held[n] /\ snapshot[n] = pinned[n]
                    /\ snapshot[n] \in seen[n]
    BY DEF CollectInv, JobSound
  <2> QED BY <2>1 DEF SnapshotsAreTrue
<1>2. PinnedTogether
  <2>1. ASSUME NEW k \in Keys, NEW r \in Repos
        PROVE  /\ job[<<k, r>>] # NoJob <=> job[<<k, r>>].state # "absent"
               /\ grade[<<k, r>>] # NoGrade =>
                    /\ snapshot[<<k, r>>] # None
                    /\ grade[<<k, r>>].config = job[<<k, r>>].config
    <3>1. JobSound(<<k, r>>) BY DEF CollectInv
    <3> QED BY <3>1 DEF JobSound, NoJob
  <2>2. ASSUME NEW k \in Keys
        PROVE  LET of == {r \in Repos : job[<<k, r>>] # NoJob} IN
               /\ run[k].pinned = (of # {})
               /\ \A r, q \in of : job[<<k, r>>].config = job[<<k, q>>].config
               /\ \A r \in Repos : grade[<<k, r>>] # NoGrade =>
                    /\ snapshot[<<k, r>>] # None
                    /\ grade[<<k, r>>].config = job[<<k, r>>].config
    <3>1. RunSound(k) /\ run[k].pinned \in BOOLEAN BY DEF CollectInv, CollectTypes, RunRows
    <3> DEFINE of == {r \in Repos : job[<<k, r>>] # NoJob}
    <3>2. of = {r \in Repos : job[<<k, r>>].state # "absent"} BY <2>1
    <3>3. run[k].pinned = (of # {}) BY <3>1, <3>2 DEF RunSound
    <3>4. \A r, q \in of : job[<<k, r>>].config = job[<<k, q>>].config
      BY <3>1, <3>2 DEF RunSound
    <3> QED BY <2>1, <3>3, <3>4
  <2> QED BY <2>2 DEF PinnedTogether
<1>3. VerdictIsTrue BY DEF CollectInv, RunSound, VerdictIsTrue
<1> QED BY <1>1, <1>2, <1>3 DEF CollectionIsHonest

-----------------------------------------------------------------------------
(* The inductive invariant of the runners.                                 *)

RunnerRows == [state : {"off", "running", "draining"}, base : Nat, started : Nat, emitted : Nat,
               queue : Seq(Nat), next : Nat, failed : BOOLEAN, cursor : Nat, version : Nat,
               edits : Nat]
HandRows == [at : {"free", "turn", "collect", "collecting", "failed", "mark"}, event : Nat]

ScheduleTypes ==
    /\ now \in 0..MaxTime
    /\ schedule \in [enabled : BOOLEAN, cursor : Nat, policy : Policies, version : Nat]
    /\ runner \in [Runners -> RunnerRows]
    /\ hand \in [Callers -> HandRows]
    /\ created \in [Keys -> Nat]
    /\ edits \in Nat /\ starts \in Nat

\* Events that left the queue of a runner.
Taken(q) == q.emitted - Len(q.queue)

\* The queue holds the last events in order, all of them of slots that are due.
QueueSound(q) ==
    /\ q.state = "off" => q = Off
    /\ q.next >= 1 /\ q.next <= Taken(q) + 1 /\ Taken(q) >= 0
    /\ \A i \in 1..Len(q.queue) : q.queue[i] = Taken(q) + i
    /\ q.base % Interval = 0
    /\ q.emitted > 0 => q.base + (q.emitted - 1) * Interval <= now

\* A runner under which nobody edited the schedule.
Unedited(q) == q.state # "off" /\ q.edits = edits

\* While it has not failed, every event before its next one has its verdict.
ProgressSound(p) == LET q == runner[p] IN
    /\ q.edits <= edits
    /\ Unedited(q) =>
          /\ schedule.enabled /\ schedule.version = q.version
          /\ schedule.policy = "all" => q.base <= schedule.cursor
          /\ ~q.failed => \A e \in 1..(q.next - 1) : run[Slot(p, e)].state \in Terminal

HandSound(c) == LET q == runner[c[1]] IN
    /\ hand[c].at = "free" => hand[c] = Free
    /\ hand[c].at # "free" => q.state # "off" /\ hand[c].event \in q.next..Taken(q)
    /\ hand[c].at \in {"collect", "collecting", "failed", "mark"} => hand[c].event = q.next /\ ~q.failed
    /\ hand[c].at = "collecting" =>
          caller[c].at # "idle" /\ caller[c].key = Slot(c[1], hand[c].event)
    /\ hand[c].at # "collecting" => caller[c].at = "idle"
    /\ hand[c].at = "mark" => run[Slot(c[1], hand[c].event)].state \in Terminal

HandsDiffer ==
    \A c, d \in Callers : c[1] = d[1] /\ c # d /\ hand[c].at # "free" => hand[c].event # hand[d].event

PollInv ==
    /\ ScheduleTypes
    /\ schedule.cursor % Interval = 0
    /\ \A p \in Runners : QueueSound(runner[p]) /\ ProgressSound(p)
    /\ \A c \in Callers : HandSound(c)
    /\ HandsDiffer
    /\ NothingEarly

-----------------------------------------------------------------------------
(* Arithmetic of the slots.                                                *)

LEMMA Monotone ==
    ASSUME NEW i \in Int, NEW j \in Int, NEW m \in Nat, i <= j
    PROVE  i * m <= j * m
OBVIOUS

LEMMA Dividing ==
    ASSUME NEW x \in Nat, NEW d \in Nat \ {0}
    PROVE  x \div d \in Nat /\ x % d \in 0..(d - 1) /\ x = ((x \div d) * d) + (x % d)
OBVIOUS

LEMMA MultiplesDivide ==
    ASSUME NEW m \in Nat, NEW d \in Nat \ {0}
    PROVE  (m * d) % d = 0
OBVIOUS

\* The sum of two multiples is one.
LEMMA SumOfMultiples ==
    ASSUME NEW x \in Nat, NEW y \in Nat, NEW d \in Nat \ {0}, x % d = 0, y % d = 0
    PROVE  (x + y) % d = 0
<1> DEFINE m == x \div d
           n == y \div d
<1>1. m \in Nat /\ n \in Nat /\ x = m * d /\ y = n * d BY Dividing
<1> HIDE DEF m, n
<1>2. x + y = (m + n) * d BY <1>1
<1>3. m + n \in Nat BY <1>1
<1> QED BY <1>2, <1>3, MultiplesDivide

\* Time k is the slot of one of the first e events from base b on.
IsSlot(k, b, e, d) == \E f \in 1..e : k = b + (f - 1) * d

\* A time on the grid that an event's slots have passed is one of those slots.
LEMMA GridIsSlots ==
    ASSUME NEW k \in Nat, NEW b \in Nat, NEW e \in Nat, NEW d \in Nat \ {0}, NEW x \in Int,
           x = e * d, k % d = 0, b % d = 0, b <= k, k < b + x
    PROVE  IsSlot(k, b, e, d)
<1> DEFINE m == k \div d
           n == b \div d
<1>1. m \in Nat /\ n \in Nat /\ k = m * d /\ b = n * d BY Dividing
<1> HIDE DEF m, n
<1>2. n <= m
  <2>1. SUFFICES ASSUME m < n PROVE FALSE BY <1>1
  <2>2. (m + 1) * d <= n * d BY <1>1, <2>1, Monotone
  <2>3. (m + 1) * d = k + d BY <1>1
  <2> QED BY <1>1, <2>2, <2>3
<1>3. m < n + e
  <2>1. SUFFICES ASSUME n + e <= m PROVE FALSE BY <1>1
  <2>2. (n + e) * d <= m * d BY <1>1, <2>1, Monotone
  <2>3. (n + e) * d = b + e * d BY <1>1
  <2>4. e * d \in Nat OBVIOUS
  <2> QED BY <1>1, <2>2, <2>3, <2>4
<1>4. (m - n + 1) \in 1..e BY <1>1, <1>2, <1>3
<1>5. (m - n) * d = m * d - n * d BY <1>1
<1>6. PICK f \in 1..e : f = m - n + 1 BY <1>4
<1>7. f - 1 = m - n BY <1>1, <1>6
<1>8. (f - 1) * d = k - b BY <1>1, <1>5, <1>7
<1>9. k = b + (f - 1) * d BY <1>8
<1> QED BY <1>9 DEF IsSlot

LEMMA IntervalIsPositive == Interval \in Nat \ {0} /\ MaxTime \in Nat /\ Keys = 0..MaxTime
BY PollingAssumption

\* _effective_schedule_base stays on the grid, and keeps the cursor of "all".
LEMMA BasesAreSlots ==
    ASSUME ScheduleTypes, schedule.cursor % Interval = 0
    PROVE  /\ Base(schedule) \in Nat /\ Base(schedule) % Interval = 0
           /\ schedule.policy = "all" => Base(schedule) = schedule.cursor
<1> DEFINE c == schedule.cursor
           late == now - c
<1>1. c \in Nat /\ now \in Nat BY IntervalIsPositive DEF ScheduleTypes
<1>2. ASSUME NEW x \in Nat
      PROVE  (x \div Interval) * Interval \in Nat /\ ((x \div Interval) * Interval) % Interval = 0
  <2>1. x \div Interval \in Nat BY IntervalIsPositive, Dividing
  <2>2. PICK m \in Nat : m = x \div Interval BY <2>1
  <2>3. m * Interval \in Nat BY IntervalIsPositive
  <2> QED BY <2>2, <2>3, IntervalIsPositive, MultiplesDivide
<1>3. CASE late <= 0 \/ schedule.policy = "all"
  BY <1>1, <1>3 DEF Base
<1>4. CASE ~(late <= 0 \/ schedule.policy = "all")
  <2>1. late \in Nat /\ late + Interval - 1 \in Nat BY <1>1, <1>4, IntervalIsPositive
  <2>2. PICK x \in Nat : Base(schedule) = c + (x \div Interval) * Interval
    <3>1. CASE schedule.policy = "latest" BY <1>4, <2>1, <3>1 DEF Base, Floor
    <3>2. CASE schedule.policy # "latest" BY <1>4, <2>1, <3>2 DEF Base, Floor, Ceiling
    <3> QED BY <3>1, <3>2
  <2>3. PICK y \in Nat : Base(schedule) = c + y /\ y % Interval = 0 BY <1>2, <2>2
  <2>4. (c + y) % Interval = 0 BY <1>1, <2>3, IntervalIsPositive, SumOfMultiples
  <2>5. c + y \in Nat BY <1>1, <2>3
  <2> QED BY <1>4, <2>3, <2>4, <2>5
<1> QED BY <1>3, <1>4

\* PeriodicTrigger emits no event before the slot it collects.
LEMMA DueAfterSlot ==
    ASSUME ScheduleTypes, NEW p \in Runners, NEW e \in Nat \ {0}
    PROVE  Slot(p, e) \in Nat /\ Due(p, e) \in Nat /\ Slot(p, e) <= Due(p, e)
<1>1. runner[p].base \in Nat /\ runner[p].started \in Nat BY DEF ScheduleTypes, RunnerRows
<1>2. PICK gap \in Nat : gap = (e - 1) * Interval
  <2>1. e - 1 \in Nat OBVIOUS
  <2> QED BY <2>1, IntervalIsPositive
<1> QED BY <1>1, <1>2 DEF Slot, Due, Later

\* The slot of an emitted event is a run key, and it is due.
LEMMA SlotsAreKeys ==
    ASSUME PollInv, NEW p \in Runners, NEW e \in 1..runner[p].emitted
    PROVE  Slot(p, e) \in Keys /\ Slot(p, e) <= now
<1> DEFINE q == runner[p]
<1>1. q.base \in Nat /\ q.emitted \in Nat /\ now \in 0..MaxTime /\ e \in Nat /\ e <= q.emitted /\ 1 <= e
  BY DEF PollInv, ScheduleTypes, RunnerRows
<1>2. QueueSound(q) BY DEF PollInv
<1>3. q.base + (q.emitted - 1) * Interval <= now BY <1>1, <1>2 DEF QueueSound
<1>4. PICK x \in Nat : x = (e - 1) * Interval
  <2>1. e - 1 \in Nat BY <1>1
  <2> QED BY <2>1, IntervalIsPositive
<1>5. PICK y \in Nat : y = (q.emitted - 1) * Interval
  <2>1. q.emitted - 1 \in Nat BY <1>1
  <2> QED BY <2>1, IntervalIsPositive
<1>6. x <= y
  <2>1. e - 1 \in Int /\ q.emitted - 1 \in Int /\ e - 1 <= q.emitted - 1 BY <1>1
  <2>2. (e - 1) * Interval <= (q.emitted - 1) * Interval
    BY <2>1, IntervalIsPositive, Monotone
  <2> QED BY <1>4, <1>5, <2>2
<1>7. Slot(p, e) = q.base + x BY <1>4 DEF Slot
<1>8. q.base + y <= now BY <1>3, <1>5
<1>9. now \in Nat /\ now <= MaxTime BY <1>1, IntervalIsPositive
<1> HIDE DEF q
<1>10. q.base + x \in Nat /\ q.base + x <= now BY <1>1, <1>6, <1>8
<1> QED BY <1>7, <1>9, <1>10, IntervalIsPositive

-----------------------------------------------------------------------------
(* SchedulePolling: what a step leaves.                                    *)

LEMMA ThreadsOfRunners ==
    \A c \in Callers : c[1] \in Runners /\ c[2] \in Threads /\ c = <<c[1], c[2]>>
BY PollingAssumption

LEMMA OffIsSound == Off \in RunnerRows /\ Free \in HandRows /\ \A p \in Runners : QueueSound(Off)
<1>1. Off \in RunnerRows BY DEF Off, RunnerRows
<1>2. Free \in HandRows BY DEF Free, HandRows
<1>3. QueueSound(Off)
  <2>1. 0 % Interval = 0 BY IntervalIsPositive
  <2>2. Taken(Off) = 0 /\ Len(Off.queue) = 0 BY DEF Taken, Off
  <2> QED BY <2>1, <2>2 DEF QueueSound, Off
<1> QED BY <1>1, <1>2, <1>3

\* The events a runner has handled or handles are of slots that are keys.
LEMMA TakenSlotsAreKeys ==
    ASSUME PollInv, NEW p \in Runners
    PROVE  /\ \A e \in 1..Taken(runner[p]) : Slot(p, e) \in Keys
           /\ \A e \in 1..(runner[p].next - 1) : Slot(p, e) \in Keys
<1> DEFINE q == runner[p]
<1>1. q.emitted \in Nat /\ q.next \in Nat /\ Len(q.queue) \in Nat /\ QueueSound(q)
  BY DEF PollInv, ScheduleTypes, RunnerRows
<1>2. Taken(q) \in Nat /\ Taken(q) <= q.emitted /\ q.next - 1 <= Taken(q)
  BY <1>1 DEF QueueSound, Taken
<1> QED BY <1>1, <1>2, SlotsAreKeys

\* A worker thread that a step left where it was.
LEMMA HandKept ==
    ASSUME PollInv, Decided, NEW c \in Callers, hand'[c] = hand[c], caller'[c] = caller[c],
           hand[c].at # "free" =>
             /\ runner'[c[1]].state # "off"
             /\ runner'[c[1]].base = runner[c[1]].base
             /\ runner'[c[1]].next = runner[c[1]].next
             /\ runner'[c[1]].failed = runner[c[1]].failed
             /\ Taken(runner'[c[1]]) \in Nat /\ Taken(runner[c[1]]) <= Taken(runner'[c[1]])
    PROVE  HandSound(c)'
<1>1. HandSound(c) /\ c[1] \in Runners BY ThreadsOfRunners DEF PollInv
<1>2. CASE hand[c].at = "free" BY <1>1, <1>2 DEF HandSound
<1>3. CASE hand[c].at # "free"
  <2> DEFINE q == runner[c[1]]
  <2>1. hand[c].event \in q.next..Taken(q) BY <1>1, <1>3 DEF HandSound
  <2>2. q.next \in Nat /\ q.next >= 1 /\ Taken(q) \in Int
    BY <1>1 DEF PollInv, QueueSound, ScheduleTypes, RunnerRows, Taken
  <2>3. hand[c].event \in 1..Taken(q) BY <2>1, <2>2
  <2>4. Slot(c[1], hand[c].event) \in Keys BY <1>1, <2>3, TakenSlotsAreKeys
  <2>5. Slot(c[1], hand[c].event)' = Slot(c[1], hand[c].event) BY <1>3 DEF Slot
  <2>6. ASSUME hand[c].at = "mark" PROVE run'[Slot(c[1], hand[c].event)].state \in Terminal
    BY <1>1, <2>4, <2>6 DEF HandSound, Decided
  <2>7. hand[c].event \in q.next..Taken(runner'[c[1]]) BY <1>3, <2>1, <2>2
  <2>8. hand[c].event \in runner'[c[1]].next..Taken(runner[c[1]])'
    BY <1>3, <2>7 DEF Taken
  <2> QED BY <1>1, <1>3, <2>5, <2>6, <2>8 DEF HandSound
<1> QED BY <1>2, <1>3

\* A runner whose progress and whose schedule a step left, or let it move on.
LEMMA ProgressKept ==
    ASSUME PollInv, Decided, NEW p \in Runners, edits' = edits,
           runner'[p].state # "off" =>
             /\ runner[p].state # "off"
             /\ runner'[p].base = runner[p].base /\ runner'[p].next = runner[p].next
             /\ runner'[p].failed = runner[p].failed
             /\ runner'[p].version = runner[p].version,
           runner'[p].edits \in {0, runner[p].edits},
           runner'[p].state # "off" => runner'[p].edits = runner[p].edits,
           schedule'.enabled = schedule.enabled, schedule'.version = schedule.version,
           schedule'.policy = schedule.policy,
           schedule'.cursor \in Nat, schedule.cursor <= schedule'.cursor
    PROVE  ProgressSound(p)'
<1>1. ProgressSound(p) /\ edits \in Nat BY DEF PollInv, ScheduleTypes
<1>2. runner[p].base \in Nat /\ schedule.cursor \in Nat
  BY DEF PollInv, ScheduleTypes, RunnerRows
<1>3. runner'[p].edits <= edits' BY <1>1 DEF ProgressSound
<1>4. CASE ~Unedited(runner[p])' BY <1>3, <1>4 DEF ProgressSound
<1>5. CASE Unedited(runner[p])'
  <2>1. Unedited(runner[p]) BY <1>5 DEF Unedited
  <2>2. \A e : Slot(p, e)' = Slot(p, e) BY <1>5 DEF Slot, Unedited
  <2>3. ASSUME ~runner'[p].failed, NEW e \in 1..(runner'[p].next - 1)
        PROVE  run'[Slot(p, e)].state \in Terminal
    <3>1. e \in 1..(runner[p].next - 1) /\ ~runner[p].failed BY <1>5, <2>3 DEF Unedited
    <3>2. run[Slot(p, e)].state \in Terminal BY <1>1, <2>1, <3>1 DEF ProgressSound
    <3>3. Slot(p, e) \in Keys BY <3>1, TakenSlotsAreKeys
    <3> QED BY <3>2, <3>3 DEF Decided
  <2>4. schedule'.policy = "all" => runner'[p].base <= schedule'.cursor
    BY <1>1, <1>2, <1>5, <2>1 DEF ProgressSound, Unedited
  <2> QED BY <1>1, <1>3, <1>5, <2>1, <2>2, <2>3, <2>4 DEF ProgressSound, Unedited
<1> QED BY <1>4, <1>5

\* A step of one runner, or of one of its worker threads.
LEMMA RunnerSteps ==
    ASSUME PollInv, Decided, NEW p \in Runners, NEW row \in RunnerRows,
           runner' = [runner EXCEPT ![p] = row],
           now' = now, edits' = edits, starts' \in Nat,
           schedule' \in [enabled : BOOLEAN, cursor : Nat, policy : Policies, version : Nat],
           schedule'.cursor % Interval = 0, schedule.cursor <= schedule'.cursor,
           schedule'.enabled = schedule.enabled, schedule'.version = schedule.version,
           schedule'.policy = schedule.policy,
           created' \in [Keys -> Nat], NothingEarly',
           hand' \in [Callers -> HandRows],
           QueueSound(row), ProgressSound(p)',
           \A c \in Callers : c[1] # p => hand'[c] = hand[c] /\ caller'[c] = caller[c],
           \A c \in Callers : c[1] = p => HandSound(c)',
           \A c, d \in Callers : c[1] = p /\ d[1] = p /\ c # d /\ hand'[c].at # "free"
                                 => hand'[c].event # hand'[d].event
    PROVE  PollInv'
<1>1. runner' \in [Runners -> RunnerRows] BY DEF PollInv, ScheduleTypes
<1>2. ScheduleTypes' BY <1>1 DEF PollInv, ScheduleTypes
<1>3. \A o \in Runners \ {p} : runner'[o] = runner[o] BY DEF PollInv, ScheduleTypes
<1>4. runner'[p] = row BY DEF PollInv, ScheduleTypes
<1>5. ASSUME NEW o \in Runners PROVE QueueSound(runner[o])'
  <2>1. QueueSound(runner'[o])
    <3>1. CASE o = p BY <1>4, <3>1
    <3>2. CASE o # p BY <1>3, <3>2 DEF PollInv
    <3> QED BY <3>1, <3>2
  <2>2. Taken(runner[o])' = Taken(runner'[o]) BY DEF Taken
  <2> QED BY <2>1, <2>2 DEF QueueSound
<1>6. ASSUME NEW o \in Runners \ {p} PROVE ProgressSound(o)'
  <2>1. runner'[o] = runner[o] BY <1>3
  <2>2. schedule'.cursor \in Nat OBVIOUS
  <2> QED BY <2>1, <2>2, ProgressKept
<1>7. ASSUME NEW c \in Callers, c[1] # p PROVE HandSound(c)'
  <2>1. c[1] \in Runners BY ThreadsOfRunners
  <2>2. runner'[c[1]] = runner[c[1]] BY <1>3, <1>7, <2>1
  <2>3. hand[c].at # "free" => runner[c[1]].state # "off" BY DEF PollInv, HandSound
  <2>4. QueueSound(runner[c[1]]) /\ runner[c[1]] \in RunnerRows
    BY <2>1 DEF PollInv, ScheduleTypes
  <2>5. Taken(runner[c[1]]) \in Nat
    <3>1. runner[c[1]].emitted \in Nat /\ runner[c[1]].queue \in Seq(Nat)
      BY <2>4 DEF RunnerRows
    <3>2. Len(runner[c[1]].queue) \in Nat BY <3>1
    <3> QED BY <2>4, <3>1, <3>2 DEF QueueSound, Taken
  <2> QED BY <1>7, <2>2, <2>3, <2>5, HandKept
<1>8. ASSUME NEW c \in Callers, NEW d \in Callers, c[1] = d[1], c # d, hand'[c].at # "free"
      PROVE  hand'[c].event # hand'[d].event
  <2>1. CASE c[1] = p BY <1>8, <2>1
  <2>2. CASE c[1] # p
    <3>1. hand'[c] = hand[c] /\ hand'[d] = hand[d] BY <1>8, <2>2
    <3> QED BY <1>8, <3>1 DEF PollInv, HandsDiffer
  <2> QED BY <2>1, <2>2
<1> QED BY <1>2, <1>5, <1>6, <1>7, <1>8 DEF PollInv, HandsDiffer

-----------------------------------------------------------------------------
(* The actions of a runner.                                                *)

LEMMA PollInitially == Init => CollectInv /\ PollInv
<1> SUFFICES ASSUME Init PROVE CollectInv /\ PollInv OBVIOUS
<1>1. CollectInv BY CollectInitially DEF Init
<1>2. ScheduleTypes
  <2>1. Never \in Nat BY IntervalIsPositive DEF Never
  <2>2. now \in 0..MaxTime BY IntervalIsPositive DEF Init
  <2>3. schedule \in [enabled : BOOLEAN, cursor : Nat, policy : Policies, version : Nat]
    <3>1. PICK policy \in Policies :
            schedule = [enabled |-> TRUE, cursor |-> 0, policy |-> policy, version |-> 1]
      BY DEF Init
    <3> QED BY <3>1
  <2> QED BY <2>1, <2>2, <2>3, OffIsSound DEF Init, ScheduleTypes
<1>3. schedule.cursor % Interval = 0
  <2>1. 0 % Interval = 0 BY IntervalIsPositive
  <2> QED BY <2>1 DEF Init
<1>4. ASSUME NEW p \in Runners PROVE QueueSound(runner[p]) /\ ProgressSound(p)
  <2>1. runner[p] = Off BY DEF Init
  <2>2. Off.state = "off" /\ Off.edits = 0 BY DEF Off
  <2> QED BY <2>1, <2>2, OffIsSound DEF ProgressSound, Unedited, Init
<1>5. ASSUME NEW c \in Callers PROVE HandSound(c) /\ hand[c].at = "free"
  BY DEF Init, HandSound, Free, CollectInit, Idle
<1>6. NothingEarly BY DEF Init, NothingEarly
<1> QED BY <1>1, <1>2, <1>3, <1>4, <1>5, <1>6 DEF PollInv, HandsDiffer

\* What a step that leaves the collections and the schedule gives RunnerSteps.
LEMMA ScheduleLeft ==
    ASSUME PollInv, UNCHANGED <<now, schedule, created, edits>>
    PROVE  /\ schedule' \in [enabled : BOOLEAN, cursor : Nat, policy : Policies, version : Nat]
           /\ schedule'.cursor % Interval = 0 /\ schedule.cursor <= schedule'.cursor
           /\ schedule'.enabled = schedule.enabled /\ schedule'.version = schedule.version
           /\ schedule'.policy = schedule.policy
           /\ created' \in [Keys -> Nat] /\ NothingEarly'
<1>1. schedule.cursor \in Nat BY DEF PollInv, ScheduleTypes
<1> QED BY <1>1 DEF PollInv, ScheduleTypes, NothingEarly

LEMMA RunnersStart ==
    ASSUME CollectInv, PollInv, NEW p \in Runners, Start(p)
    PROVE  PollInv'
<1>1. PICK row : row = [Off EXCEPT !.state = "running", !.base = Base(schedule),
                          !.started = now, !.cursor = schedule.cursor,
                          !.version = schedule.version, !.edits = edits] OBVIOUS
<1>2. /\ runner[p].state = "off" /\ schedule.enabled /\ runner' = [runner EXCEPT ![p] = row]
      /\ UNCHANGED <<now, schedule, hand, created, edits, caller>>
      /\ starts' \in Nat /\ UNCHANGED collectVars
  BY <1>1 DEF Start, collectVars, PollInv, ScheduleTypes
<1>3. Base(schedule) \in Nat /\ Base(schedule) % Interval = 0
  BY BasesAreSlots DEF PollInv
<1>4. /\ row \in RunnerRows
      /\ row.state = "running" /\ row.base = Base(schedule) /\ row.emitted = 0 /\ row.queue = <<>>
      /\ row.next = 1 /\ row.failed = FALSE /\ row.version = schedule.version /\ row.edits = edits
  <2>1. now \in Nat /\ edits \in Nat /\ schedule.cursor \in Nat /\ schedule.version \in Nat
    BY IntervalIsPositive DEF PollInv, ScheduleTypes
  <2>2. row = [state |-> "running", base |-> Base(schedule), started |-> now, emitted |-> 0,
               queue |-> <<>>, next |-> 1, failed |-> FALSE, cursor |-> schedule.cursor,
               version |-> schedule.version, edits |-> edits]
    BY <1>1 DEF Off
  <2>3. <<>> \in Seq(Nat) OBVIOUS
  <2>4. row \in RunnerRows BY <1>3, <2>1, <2>2, <2>3 DEF RunnerRows
  <2> QED BY <2>2, <2>4
<1>5. QueueSound(row)
  <2>1. Len(row.queue) = 0 BY <1>4
  <2>2. row.emitted = 0 BY <1>4
  <2>3. Taken(row) = 0 BY <2>1, <2>2 DEF Taken
  <2> QED BY <1>3, <1>4, <2>1, <2>3 DEF QueueSound
<1>6. runner'[p] = row BY <1>2 DEF PollInv, ScheduleTypes
<1>7. ProgressSound(p)'
  <2>1. edits \in Nat /\ schedule.cursor \in Nat BY DEF PollInv, ScheduleTypes
  <2>2. schedule.policy = "all" => row.base <= schedule.cursor
    BY <1>4, <2>1, BasesAreSlots DEF PollInv
  <2>3. 1..(row.next - 1) = {} BY <1>4
  <2> QED BY <1>2, <1>4, <1>6, <2>1, <2>2, <2>3 DEF ProgressSound, Unedited
<1>8. ASSUME NEW c \in Callers, c[1] = p PROVE HandSound(c)' /\ hand'[c].at = "free"
  <2>1. HandSound(c) BY DEF PollInv
  <2>2. hand[c].at = "free" /\ hand'[c].at = "free" BY <1>2, <1>8, <2>1 DEF HandSound
  <2> QED BY <1>2, <2>1, <2>2 DEF HandSound
<1>9. Decided /\ \A c \in Callers : hand'[c] = hand[c] /\ caller'[c] = caller[c]
  BY <1>2, CollectionsMove
<1>10. hand' \in [Callers -> HandRows] BY <1>2 DEF PollInv, ScheduleTypes
<1> QED BY <1>2, <1>4, <1>5, <1>7, <1>8, <1>9, <1>10, ScheduleLeft, RunnerSteps

\* A step of a runner that leaves its worker threads and their progress.
LEMMA RunnerMoves ==
    ASSUME CollectInv, PollInv, NEW p \in Runners, NEW row \in RunnerRows,
           runner[p].state # "off", runner' = [runner EXCEPT ![p] = row], Decided,
           UNCHANGED <<now, schedule, hand, created, edits, starts, caller>>,
           row.state # "off", row.base = runner[p].base, row.next = runner[p].next,
           row.failed = runner[p].failed, row.version = runner[p].version,
           row.edits = runner[p].edits, QueueSound(row), Taken(row) = Taken(runner[p])
    PROVE  PollInv'
<1>1. runner'[p] = row BY DEF PollInv, ScheduleTypes
<1>2. ScheduleTypes BY DEF PollInv
<1>3. ProgressSound(p)'
  <2>1. schedule'.cursor \in Nat /\ schedule.cursor <= schedule'.cursor
    BY <1>2 DEF ScheduleTypes
  <2> QED BY <1>1, <2>1, ProgressKept
<1>4. ASSUME NEW c \in Callers, c[1] = p PROVE HandSound(c)'
  <2>1. runner[p].emitted \in Nat /\ Len(runner[p].queue) \in Nat /\ QueueSound(runner[p])
    BY <1>2 DEF PollInv, ScheduleTypes, RunnerRows
  <2>2. Taken(runner[p]) \in Nat BY <2>1 DEF QueueSound, Taken
  <2>3. hand'[c] = hand[c] /\ caller'[c] = caller[c] OBVIOUS
  <2> QED BY <1>1, <1>4, <2>2, <2>3, HandKept
<1>5. \A c, d \in Callers : c[1] = p /\ d[1] = p /\ c # d /\ hand'[c].at # "free"
                            => hand'[c].event # hand'[d].event
  BY DEF PollInv, HandsDiffer
<1>6. hand' \in [Callers -> HandRows] /\ starts' \in Nat BY <1>2 DEF ScheduleTypes
<1> QED BY <1>3, <1>4, <1>5, <1>6, ScheduleLeft, RunnerSteps

LEMMA RunnersEmit ==
    ASSUME CollectInv, PollInv, NEW p \in Runners, Emit(p)
    PROVE  PollInv'
<1>1. PICK q : q = runner[p] OBVIOUS
<1>2. /\ q \in RunnerRows /\ QueueSound(q)
      /\ q.emitted \in Nat /\ q.queue \in Seq(Nat) /\ Len(q.queue) \in Nat /\ q.base \in Nat
  <2>1. q \in RunnerRows /\ QueueSound(q) BY <1>1 DEF PollInv, ScheduleTypes
  <2> QED BY <2>1 DEF RunnerRows
<1>3. /\ q.state = "running" /\ now >= Due(p, q.emitted + 1)
      /\ UNCHANGED <<now, schedule, hand, created, edits, starts, caller>> /\ UNCHANGED collectVars
  BY <1>1 DEF Emit, collectVars
<1>4. Decided BY <1>3, CollectionsMove
<1>5. CASE Len(q.queue) < QueueSize
  <2>1. PICK e : e = q.emitted + 1 OBVIOUS
  <2>2. PICK row : row = [q EXCEPT !.emitted = e, !.queue = Append(q.queue, e)] OBVIOUS
  <2>3. runner' = [runner EXCEPT ![p] = row]
    <3>1. runner' = [runner EXCEPT ![p].emitted = q.emitted + 1,
                                   ![p].queue = Append(runner[p].queue, q.emitted + 1)]
      BY <1>1, <1>5 DEF Emit
    <3> QED BY <1>1, <2>1, <2>2, <3>1 DEF PollInv, ScheduleTypes
  <2>4. e \in Nat \ {0} /\ e - 1 = q.emitted BY <1>2, <2>1
  <2>5. /\ row \in RunnerRows /\ row.state = "running" /\ row.base = q.base
        /\ row.next = q.next /\ row.failed = q.failed /\ row.version = q.version
        /\ row.edits = q.edits /\ row.emitted = e /\ row.queue = Append(q.queue, e)
    <3>1. Append(q.queue, e) \in Seq(Nat) BY <1>2, <2>4
    <3> QED BY <1>2, <1>3, <2>2, <2>4, <3>1 DEF RunnerRows
  <2>6. Len(row.queue) = Len(q.queue) + 1 BY <1>2, <2>4, <2>5
  <2>7. Taken(row) = Taken(q)
    <3>1. row.emitted = q.emitted + 1 BY <2>1, <2>5
    <3>2. row.emitted - Len(row.queue) = q.emitted - Len(q.queue) BY <1>2, <2>6, <3>1
    <3> QED BY <3>2 DEF Taken
  <2>8. QueueSound(row)
    <3>1. q.base + (e - 1) * Interval <= now
      <4>1. Slot(p, e) <= Due(p, e) /\ Slot(p, e) \in Nat /\ Due(p, e) \in Nat
        BY <2>4, DueAfterSlot DEF PollInv
      <4>2. Due(p, e) <= now BY <1>3, <2>1
      <4>3. now \in Nat BY IntervalIsPositive DEF PollInv, ScheduleTypes
      <4>4. Slot(p, e) <= now BY <4>1, <4>2, <4>3
      <4> QED BY <1>1, <4>4 DEF Slot
    <3>2. ASSUME NEW i \in 1..Len(row.queue) PROVE row.queue[i] = Taken(row) + i
      <4>1. CASE i = Len(q.queue) + 1
        <5>1. row.queue[i] = e BY <1>2, <2>4, <2>5, <4>1
        <5>2. Taken(q) + i = e BY <1>2, <2>1, <4>1 DEF Taken
        <5> QED BY <2>7, <5>1, <5>2
      <4>2. CASE i # Len(q.queue) + 1
        <5>1. i \in 1..Len(q.queue) BY <1>2, <2>6, <4>2
        <5>2. row.queue[i] = q.queue[i] BY <1>2, <2>4, <2>5, <5>1
        <5> QED BY <1>2, <2>7, <5>1, <5>2 DEF QueueSound
      <4> QED BY <4>1, <4>2
    <3> QED BY <1>2, <2>5, <2>7, <3>1, <3>2 DEF QueueSound
  <2> QED BY <1>1, <1>3, <1>4, <2>3, <2>5, <2>7, <2>8, RunnerMoves
<1>6. CASE ~(Len(q.queue) < QueueSize)
  <2>1. PICK row : row = [q EXCEPT !.state = "draining"] OBVIOUS
  <2>2. runner' = [runner EXCEPT ![p] = row]
    BY <1>1, <1>6, <2>1 DEF Emit, PollInv, ScheduleTypes
  <2>3. /\ row \in RunnerRows /\ row.state = "draining" /\ row.base = q.base
        /\ row.next = q.next /\ row.failed = q.failed /\ row.version = q.version
        /\ row.edits = q.edits /\ row.emitted = q.emitted /\ row.queue = q.queue
    BY <1>2, <2>1 DEF RunnerRows
  <2>4. Taken(row) = Taken(q) BY <2>3 DEF Taken
  <2>5. QueueSound(row) BY <1>2, <2>3, <2>4 DEF QueueSound
  <2> QED BY <1>1, <1>3, <1>4, <2>2, <2>3, <2>4, <2>5, RunnerMoves
<1> QED BY <1>5, <1>6

LEMMA RunnersDrain ==
    ASSUME CollectInv, PollInv, NEW p \in Runners, Drain(p)
    PROVE  PollInv'
<1>1. PICK q : q = runner[p] OBVIOUS
<1>2. q \in RunnerRows /\ QueueSound(q) BY <1>1 DEF PollInv, ScheduleTypes
<1>3. /\ q.state = "running" /\ runner' = [runner EXCEPT ![p].state = "draining"]
      /\ UNCHANGED <<now, schedule, hand, created, edits, starts, caller>>
      /\ UNCHANGED <<sourceVars, deskVars, tableVars, runLock, caller, seen, pushes>>
  BY <1>1 DEF Drain
<1>4. Decided BY <1>3, CollectionsMove
<1>5. PICK row : row = [q EXCEPT !.state = "draining"] OBVIOUS
<1>6. runner' = [runner EXCEPT ![p] = row] BY <1>1, <1>3, <1>5 DEF PollInv, ScheduleTypes
<1>7. /\ row \in RunnerRows /\ row.state = "draining" /\ row.base = q.base
      /\ row.next = q.next /\ row.failed = q.failed /\ row.version = q.version
      /\ row.edits = q.edits /\ row.emitted = q.emitted /\ row.queue = q.queue
  BY <1>2, <1>5 DEF RunnerRows
<1>8. Taken(row) = Taken(q) BY <1>7 DEF Taken
<1>9. QueueSound(row) BY <1>2, <1>3, <1>7, <1>8 DEF QueueSound
<1> QED BY <1>1, <1>3, <1>4, <1>6, <1>7, <1>8, <1>9, RunnerMoves

\* A runner is gone, and what its worker threads held with it.
LEMMA RunnerGone ==
    ASSUME CollectInv, PollInv, NEW p \in Runners, Decided,
           runner' = [runner EXCEPT ![p] = Off],
           UNCHANGED <<now, schedule, created, edits, starts>>,
           hand' \in [Callers -> HandRows],
           \A c \in Callers : c[1] = p => hand'[c] = Free /\ caller'[c].at = "idle",
           \A c \in Callers : c[1] # p => hand'[c] = hand[c] /\ caller'[c] = caller[c]
    PROVE  PollInv'
<1>1. runner'[p] = Off BY DEF PollInv, ScheduleTypes
<1>2. Off.state = "off" /\ Off.edits = 0 BY DEF Off
<1>3. ProgressSound(p)'
  <2>1. edits' \in Nat BY DEF PollInv, ScheduleTypes
  <2> QED BY <1>1, <1>2, <2>1 DEF ProgressSound, Unedited
<1>4. ASSUME NEW c \in Callers, c[1] = p PROVE HandSound(c)' /\ hand'[c].at = "free"
  BY <1>4 DEF HandSound, Free
<1>5. starts' \in Nat BY DEF PollInv, ScheduleTypes
<1> QED BY <1>3, <1>4, <1>5, OffIsSound, ScheduleLeft, RunnerSteps

LEMMA RunnersExit ==
    ASSUME CollectInv, PollInv, NEW p \in Runners, Exit(p) \/ Kill(p)
    PROVE  PollInv'
<1>1. CASE Exit(p)
  <2>1. /\ runner' = [runner EXCEPT ![p] = Off] /\ UNCHANGED collectVars
        /\ UNCHANGED <<now, schedule, created, edits, starts, hand, caller>>
        /\ \A t \in Threads : hand[<<p, t>>] = Free
    BY <1>1 DEF Exit, collectVars
  <2>2. Decided BY <2>1, CollectionsMove
  <2>3. ASSUME NEW c \in Callers, c[1] = p PROVE hand'[c] = Free /\ caller'[c].at = "idle"
    <3>1. hand[c] = Free BY <2>1, <2>3, ThreadsOfRunners
    <3>2. caller[c].at = "idle" BY <3>1 DEF PollInv, HandSound, Free
    <3> QED BY <2>1, <3>1, <3>2
  <2>4. hand' \in [Callers -> HandRows] BY <2>1 DEF PollInv, ScheduleTypes
  <2> QED BY <2>1, <2>2, <2>3, <2>4, RunnerGone
<1>2. CASE Kill(p)
  <2>1. /\ runner' = [runner EXCEPT ![p] = Off] /\ Dies({p} \X Threads)
        /\ UNCHANGED <<now, schedule, created, edits, starts>>
        /\ hand' = [c \in Callers |-> IF c[1] = p THEN Free ELSE hand[c]]
    BY <1>2 DEF Kill
  <2>2. Decided BY <2>1, CollectionsMove
  <2>3. \A c \in Callers : c \in {p} \X Threads <=> c[1] = p
    BY ThreadsOfRunners
  <2>4. \A c \in Callers : caller'[c] = IF c \in {p} \X Threads THEN Idle ELSE caller[c]
    BY <2>1 DEF Dies
  <2>5. ASSUME NEW c \in Callers
        PROVE  /\ c[1] = p => hand'[c] = Free /\ caller'[c].at = "idle"
               /\ c[1] # p => hand'[c] = hand[c] /\ caller'[c] = caller[c]
    <3>1. Idle.at = "idle" BY DEF Idle
    <3> QED BY <2>1, <2>3, <2>4, <3>1
  <2>6. hand' \in [Callers -> HandRows] BY <2>1, OffIsSound DEF PollInv, ScheduleTypes
  <2> QED BY <2>1, <2>2, <2>5, <2>6, RunnerGone
<1> QED BY <1>1, <1>2

-----------------------------------------------------------------------------
(* The actions of a worker thread.                                         *)

LEMMA EventsAreTaken ==
    ASSUME CollectInv, PollInv, NEW c \in Callers, Take(c)
    PROVE  PollInv'
<1>1. PICK p, q : p = c[1] /\ q = runner[p] OBVIOUS
<1>2. p \in Runners /\ q \in RunnerRows /\ QueueSound(q) /\ ProgressSound(p)
  BY <1>1, ThreadsOfRunners DEF PollInv, ScheduleTypes
<1>3. /\ hand[c] = Free /\ q.state # "off" /\ q.queue # <<>>
      /\ runner' = [runner EXCEPT ![p].queue = Tail(@)]
      /\ hand' = [hand EXCEPT ![c] = [at |-> "turn", event |-> Head(q.queue)]]
      /\ UNCHANGED collectVars /\ UNCHANGED <<now, schedule, created, edits, starts, caller>>
  BY <1>1 DEF Take, collectVars
<1>4. Decided BY <1>3, CollectionsMove
<1>5. q.queue \in Seq(Nat) /\ q.emitted \in Nat /\ q.next \in Nat BY <1>2 DEF RunnerRows
<1>6. PICK n \in Nat : n = Len(q.queue) BY <1>5
<1>7. n >= 1 BY <1>3, <1>5, <1>6
<1>8. PICK t \in Nat : t = Taken(q) BY <1>2, <1>5, <1>6 DEF QueueSound, Taken
<1>9. t = q.emitted - n BY <1>6, <1>8 DEF Taken
<1>10. PICK row : row = [q EXCEPT !.queue = Tail(q.queue)] OBVIOUS
<1>11. runner' = [runner EXCEPT ![p] = row]
  BY <1>1, <1>3, <1>10 DEF PollInv, ScheduleTypes
<1>12. Tail(q.queue) \in Seq(Nat) /\ Len(Tail(q.queue)) = n - 1 /\ Head(q.queue) = q.queue[1]
  BY <1>3, <1>5, <1>6
<1>13. /\ row \in RunnerRows /\ row.state = q.state /\ row.base = q.base
       /\ row.next = q.next /\ row.failed = q.failed /\ row.version = q.version
       /\ row.edits = q.edits /\ row.emitted = q.emitted /\ row.queue = Tail(q.queue)
  BY <1>2, <1>10, <1>12 DEF RunnerRows
<1>14. Taken(row) = t + 1
  <2>1. row.emitted = q.emitted /\ Len(row.queue) = n - 1 BY <1>12, <1>13
  <2> QED BY <1>5, <1>9, <2>1 DEF Taken
<1>15. Head(q.queue) = t + 1
  <2>1. 1 \in 1..Len(q.queue) BY <1>6, <1>7
  <2> QED BY <1>2, <1>8, <1>12, <2>1 DEF QueueSound
<1>16. QueueSound(row)
  <2>1. ASSUME NEW i \in 1..Len(row.queue) PROVE row.queue[i] = Taken(row) + i
    <3>1. i \in 1..(n - 1) BY <1>12, <1>13
    <3>2. row.queue[i] = q.queue[i + 1] BY <1>5, <1>6, <1>7, <1>13, <3>1
    <3>3. i + 1 \in 1..Len(q.queue) BY <1>6, <3>1
    <3>4. q.queue[i + 1] = t + (i + 1) BY <1>2, <1>8, <3>3 DEF QueueSound
    <3> QED BY <1>14, <3>1, <3>2, <3>4
  <2>2. q.next <= t + 1 BY <1>2, <1>8 DEF QueueSound
  <2>3. q.next <= (t + 1) + 1 BY <1>5, <2>2
  <2> QED BY <1>2, <1>3, <1>13, <1>14, <2>1, <2>3 DEF QueueSound
<1>17. runner'[p] = row BY <1>2, <1>11 DEF PollInv, ScheduleTypes
<1>18. ProgressSound(p)'
  <2>1. schedule'.cursor \in Nat /\ schedule.cursor <= schedule'.cursor
    BY <1>3 DEF PollInv, ScheduleTypes
  <2> QED BY <1>1, <1>2, <1>3, <1>4, <1>13, <1>17, <2>1, ProgressKept
<1>19. PICK h : h = [at |-> "turn", event |-> t + 1] OBVIOUS
<1>20. h \in HandRows /\ h.at = "turn" /\ h.event = t + 1 BY <1>19 DEF HandRows
<1>21. hand'[c] = h /\ (\A d \in Callers \ {c} : hand'[d] = hand[d])
       /\ hand' \in [Callers -> HandRows]
  BY <1>3, <1>15, <1>19, <1>20 DEF PollInv, ScheduleTypes
<1>22. ASSUME NEW d \in Callers, d[1] = p PROVE HandSound(d)'
  <2>1. CASE d = c
    <3>1. caller'[c].at = "idle" BY <1>3 DEF PollInv, HandSound, Free
    <3>2. t + 1 \in q.next..(t + 1) BY <1>2, <1>5, <1>8 DEF QueueSound
    <3>3. hand'[c].event \in runner'[c[1]].next..Taken(runner[c[1]])'
      BY <1>1, <1>13, <1>14, <1>17, <1>20, <1>21, <3>2 DEF Taken
    <3> QED BY <1>1, <1>3, <1>13, <1>17, <1>20, <1>21, <2>1, <3>1, <3>3 DEF HandSound
  <2>2. CASE d # c
    <3>1. hand'[d] = hand[d] /\ caller'[d] = caller[d] BY <1>3, <1>21, <2>2
    <3>2. Taken(runner[d[1]]) <= Taken(runner'[d[1]]) /\ Taken(runner'[d[1]]) \in Nat
      BY <1>1, <1>8, <1>14, <1>17, <1>22
    <3> QED BY <1>1, <1>3, <1>4, <1>13, <1>17, <1>22, <3>1, <3>2, HandKept
  <2> QED BY <2>1, <2>2
<1>23. ASSUME NEW d \in Callers, d[1] = p, d # c, hand[d].at # "free" PROVE hand[d].event # t + 1
  <2>1. hand[d].event \in q.next..t BY <1>1, <1>8, <1>23 DEF PollInv, HandSound
  <2> QED BY <1>5, <2>1
<1>24. ASSUME NEW d \in Callers, NEW e \in Callers, d[1] = p, e[1] = p, d # e, hand'[d].at # "free"
       PROVE  hand'[d].event # hand'[e].event
  <2>1. CASE d = c
    <3>1. CASE hand[e].at = "free"
      <4>1. hand[e].event = 0 BY <3>1 DEF PollInv, HandSound, Free
      <4> QED BY <1>20, <1>21, <1>24, <2>1, <4>1
    <3>2. CASE hand[e].at # "free" BY <1>20, <1>21, <1>23, <1>24, <2>1, <3>2
    <3> QED BY <3>1, <3>2
  <2>2. CASE e = c BY <1>20, <1>21, <1>23, <1>24, <2>2
  <2>3. CASE d # c /\ e # c BY <1>21, <1>24, <2>3 DEF PollInv, HandsDiffer
  <2> QED BY <2>1, <2>2, <2>3
<1>25. \A d \in Callers : d[1] # p => hand'[d] = hand[d] /\ caller'[d] = caller[d]
  BY <1>1, <1>3, <1>21
<1>26. starts' \in Nat BY <1>3 DEF PollInv, ScheduleTypes
<1> QED BY <1>2, <1>3, <1>4, <1>11, <1>13, <1>16, <1>18, <1>21, <1>22, <1>24, <1>25, <1>26,
           ScheduleLeft, RunnerSteps

\* The handler of an event ends, and with it the event's turn.
LEMMA TurnEnds ==
    ASSUME CollectInv, PollInv, Decided, NEW c \in Callers, NEW row \in RunnerRows,
           hand[c].at \notin {"free", "collecting"}, hand[c].event = runner[c[1]].next,
           runner' = [runner EXCEPT ![c[1]] = row], hand' = [hand EXCEPT ![c] = Free],
           UNCHANGED <<now, created, edits, starts, caller>>,
           schedule' \in [enabled : BOOLEAN, cursor : Nat, policy : Policies, version : Nat],
           schedule'.cursor % Interval = 0, schedule.cursor <= schedule'.cursor,
           schedule'.enabled = schedule.enabled, schedule'.version = schedule.version,
           schedule'.policy = schedule.policy,
           row.state # "off", row.base = runner[c[1]].base,
           row.emitted = runner[c[1]].emitted, row.queue = runner[c[1]].queue,
           row.edits = runner[c[1]].edits, row.version = runner[c[1]].version,
           row.next = runner[c[1]].next + 1,
           Unedited(runner[c[1]]) /\ ~row.failed =>
             ~runner[c[1]].failed /\ run[Slot(c[1], hand[c].event)].state \in Terminal
    PROVE  PollInv'
<1>1. PICK p, q : p = c[1] /\ q = runner[p] OBVIOUS
<1>2. p \in Runners /\ q \in RunnerRows /\ QueueSound(q) /\ ProgressSound(p) /\ HandSound(c)
  BY <1>1, ThreadsOfRunners DEF PollInv, ScheduleTypes
<1>3. q.state # "off" /\ q.next \in Nat /\ q.emitted \in Nat /\ q.queue \in Seq(Nat)
  BY <1>1, <1>2 DEF HandSound, RunnerRows
<1>4. Len(q.queue) \in Nat BY <1>3
<1>5. PICK t \in Nat : t = Taken(q) BY <1>2, <1>3, <1>4 DEF QueueSound, Taken
<1>6. Taken(row) = t /\ 1 <= q.next /\ q.next <= t
  <2>1. Taken(row) = t BY <1>1, <1>5 DEF Taken
  <2>2. hand[c].event \in q.next..t BY <1>1, <1>2, <1>5 DEF HandSound
  <2>3. 1 <= q.next BY <1>2 DEF QueueSound
  <2> QED BY <1>1, <1>3, <2>1, <2>2, <2>3
<1>7. runner'[p] = row BY <1>1, <1>2 DEF PollInv, ScheduleTypes
<1>8. QueueSound(row)
  <2>1. row.next >= 1 /\ row.next <= Taken(row) + 1 /\ Taken(row) >= 0
    BY <1>1, <1>3, <1>6
  <2> QED BY <1>1, <1>2, <1>3, <1>5, <1>6, <2>1 DEF QueueSound
<1>9. edits \in Nat /\ schedule.cursor \in Nat /\ schedule'.cursor \in Nat
      /\ q.base \in Nat
  BY <1>2 DEF PollInv, ScheduleTypes, RunnerRows
<1>10. ProgressSound(p)'
  <2>1. row.edits <= edits BY <1>1, <1>2 DEF ProgressSound
  <2>2. CASE ~Unedited(row) BY <1>7, <2>1, <2>2 DEF ProgressSound, Unedited
  <2>3. CASE Unedited(row)
    <3>1. Unedited(q) BY <1>1, <1>3, <2>3 DEF Unedited
    <3>2. schedule'.policy = "all" => row.base <= schedule'.cursor
      BY <1>1, <1>2, <1>9, <3>1 DEF ProgressSound
    <3>3. \A e : Slot(p, e)' = Slot(p, e) BY <1>1, <1>7 DEF Slot
    <3>4. ASSUME ~row.failed, NEW e \in 1..(row.next - 1)
          PROVE  run'[Slot(p, e)].state \in Terminal
      <4>1. ~q.failed BY <1>1, <3>1, <3>4
      <4>2. e \in 1..q.next BY <1>1, <1>3, <3>4
      <4>3. Slot(p, e) \in Keys
        <5>1. e \in 1..Taken(q) BY <1>3, <1>5, <1>6, <4>2
        <5> QED BY <1>1, <1>2, <5>1, TakenSlotsAreKeys
      <4>4. run[Slot(p, e)].state \in Terminal
        <5>1. CASE e = q.next BY <1>1, <3>1, <3>4, <5>1
        <5>2. CASE e # q.next
          <6>1. e \in 1..(q.next - 1) BY <1>3, <4>2, <5>2
          <6> QED BY <1>1, <1>2, <3>1, <4>1, <6>1 DEF ProgressSound
        <5> QED BY <5>1, <5>2
      <4> QED BY <4>3, <4>4 DEF Decided
    <3>5. schedule'.enabled /\ schedule'.version = row.version
      BY <1>1, <1>2, <3>1 DEF ProgressSound
    <3> QED BY <1>7, <2>1, <2>3, <3>2, <3>3, <3>4, <3>5 DEF ProgressSound, Unedited
  <2> QED BY <2>2, <2>3
<1>11. hand'[c] = Free /\ (\A d \in Callers \ {c} : hand'[d] = hand[d])
       /\ hand' \in [Callers -> HandRows]
  BY OffIsSound DEF PollInv, ScheduleTypes
<1>12. ASSUME NEW d \in Callers, d[1] = p PROVE HandSound(d)'
  <2>1. HandSound(d) BY DEF PollInv
  <2>2. CASE d = c
    <3>1. caller'[c].at = "idle" BY <1>2 DEF HandSound
    <3> QED BY <1>11, <2>2, <3>1 DEF HandSound, Free
  <2>3. CASE d # c /\ hand[d].at = "free"
    BY <1>11, <2>1, <2>3 DEF HandSound, Free
  <2>4. CASE d # c /\ hand[d].at # "free"
    <3>1. hand[d].event # q.next BY <1>1, <1>12, <2>4 DEF PollInv, HandsDiffer
    <3>2. hand[d].event \in q.next..t BY <1>1, <1>5, <1>12, <2>1, <2>4 DEF HandSound
    <3>3. hand[d].event \in (q.next + 1)..t BY <1>3, <3>1, <3>2
    <3>4. hand[d] \in HandRows BY DEF PollInv, ScheduleTypes
    <3>5. hand[d].at = "turn" BY <1>1, <1>12, <2>1, <2>4, <3>1, <3>4 DEF HandSound, HandRows
    <3>6. caller'[d].at = "idle" BY <2>1, <3>5 DEF HandSound
    <3>7. hand'[d].event \in runner'[d[1]].next..Taken(runner[d[1]])'
      BY <1>1, <1>6, <1>7, <1>11, <1>12, <2>4, <3>3 DEF Taken
    <3> QED BY <1>7, <1>11, <1>12, <2>4, <3>5, <3>6, <3>7 DEF HandSound
  <2> QED BY <2>2, <2>3, <2>4
<1>13. ASSUME NEW d \in Callers, NEW e \in Callers, d[1] = p, e[1] = p, d # e, hand'[d].at # "free"
       PROVE  hand'[d].event # hand'[e].event
  <2>1. d # c /\ hand'[d] = hand[d] /\ hand[d].at # "free" BY <1>11, <1>13 DEF Free
  <2>2. CASE e = c
    <3>1. hand[d].event \in q.next..t BY <1>1, <1>5, <1>13, <2>1 DEF PollInv, HandSound
    <3>2. hand'[e].event = 0 BY <1>11, <2>2 DEF Free
    <3> QED BY <1>3, <1>6, <2>1, <3>1, <3>2
  <2>3. CASE e # c BY <1>11, <1>13, <2>1, <2>3 DEF PollInv, HandsDiffer
  <2> QED BY <2>2, <2>3
<1>14. \A d \in Callers : d[1] # p => hand'[d] = hand[d] /\ caller'[d] = caller[d]
  BY <1>1, <1>11
<1>15. starts' \in Nat /\ created' \in [Keys -> Nat] /\ NothingEarly'
  BY DEF PollInv, ScheduleTypes, NothingEarly
<1> QED BY <1>1, <1>2, <1>8, <1>10, <1>11, <1>12, <1>13, <1>14, <1>15, RunnerSteps

\* The row of a runner whose handler ended.
LEMMA EndsRow ==
    ASSUME PollInv, NEW c \in Callers, NEW failed \in BOOLEAN, NEW stops \in BOOLEAN,
           Ends(c, failed, stops), runner[c[1]].state # "off"
    PROVE  \E row \in RunnerRows :
             /\ runner' = [runner EXCEPT ![c[1]] = row]
             /\ row.state # "off" /\ row.base = runner[c[1]].base
             /\ row.emitted = runner[c[1]].emitted /\ row.queue = runner[c[1]].queue
             /\ row.edits = runner[c[1]].edits /\ row.version = runner[c[1]].version
             /\ row.next = runner[c[1]].next + 1
             /\ row.failed = (runner[c[1]].failed \/ failed)
<1>1. PICK p, q : p = c[1] /\ q = runner[p] OBVIOUS
<1>2. p \in Runners /\ q \in RunnerRows BY <1>1, ThreadsOfRunners DEF PollInv, ScheduleTypes
<1>3. PICK next, bad, state : /\ next = q.next + 1 /\ bad = (q.failed \/ failed)
                              /\ state = IF failed \/ stops THEN "draining" ELSE q.state
  OBVIOUS
<1>4. PICK row : row = [q EXCEPT !.next = next, !.failed = bad, !.state = state] OBVIOUS
<1>5. next \in Nat /\ bad \in BOOLEAN /\ state \in {"running", "draining"}
  <2>1. q.next \in Nat /\ q.failed \in BOOLEAN /\ q.state \in {"off", "running", "draining"}
    BY <1>2 DEF RunnerRows
  <2>2. q.next + 1 \in Nat BY <2>1
  <2> QED BY <1>1, <1>3, <2>1, <2>2
<1>6. runner' = [runner EXCEPT ![p] = row]
  <2>1. runner' = [runner EXCEPT ![p].next = q.next + 1, ![p].failed = q.failed \/ failed,
                     ![p].state = IF failed \/ stops THEN "draining" ELSE q.state]
    BY <1>1 DEF Ends
  <2> QED BY <1>1, <1>2, <1>3, <1>4, <2>1 DEF PollInv, ScheduleTypes
<1>7. row \in RunnerRows /\ row.next = next /\ row.failed = bad /\ row.state = state
      /\ row.base = q.base /\ row.emitted = q.emitted /\ row.queue = q.queue
      /\ row.edits = q.edits /\ row.version = q.version
  BY <1>2, <1>4, <1>5 DEF RunnerRows
<1> QED BY <1>1, <1>3, <1>5, <1>6, <1>7

\* A worker thread goes on with its event.
LEMMA HandSteps ==
    ASSUME CollectInv, PollInv, Decided, NEW c \in Callers, NEW h \in HandRows,
           hand[c].at # "free", h.event = hand[c].event, hand' = [hand EXCEPT ![c] = h],
           UNCHANGED <<now, schedule, runner, edits, starts>>,
           created' \in [Keys -> Nat], NothingEarly',
           \A d \in Callers \ {c} : caller'[d] = caller[d],
           HandSound(c)'
    PROVE  PollInv'
<1>1. PICK p, q : p = c[1] /\ q = runner[p] OBVIOUS
<1>2. p \in Runners /\ q \in RunnerRows /\ QueueSound(q)
  BY <1>1, ThreadsOfRunners DEF PollInv, ScheduleTypes
<1>3. runner' = [runner EXCEPT ![p] = q] BY <1>1 DEF PollInv, ScheduleTypes
<1>4. schedule.cursor \in Nat BY DEF PollInv, ScheduleTypes
<1>5. ProgressSound(p)' BY <1>2, <1>4, ProgressKept
<1>6. hand'[c] = h /\ (\A d \in Callers \ {c} : hand'[d] = hand[d])
      /\ hand' \in [Callers -> HandRows]
  BY DEF PollInv, ScheduleTypes
<1>7. ASSUME NEW d \in Callers, d # c PROVE HandSound(d)'
  <2>1. d[1] \in Runners BY ThreadsOfRunners
  <2>2. runner[d[1]] \in RunnerRows /\ QueueSound(runner[d[1]])
    BY <2>1 DEF PollInv, ScheduleTypes
  <2>3. Taken(runner[d[1]]) \in Nat
    <3>1. runner[d[1]].emitted \in Nat /\ runner[d[1]].queue \in Seq(Nat) BY <2>2 DEF RunnerRows
    <3>2. Len(runner[d[1]].queue) \in Nat BY <3>1
    <3> QED BY <2>2, <3>1, <3>2 DEF QueueSound, Taken
  <2>4. hand[d].at # "free" => runner[d[1]].state # "off" BY DEF PollInv, HandSound
  <2>5. hand'[d] = hand[d] /\ caller'[d] = caller[d] BY <1>6, <1>7
  <2> QED BY <2>3, <2>4, <2>5, HandKept
<1>8. ASSUME NEW d \in Callers, NEW e \in Callers, d[1] = e[1], d # e, hand'[d].at # "free"
      PROVE  hand'[d].event # hand'[e].event
  <2>1. hand[d].at # "free" /\ hand'[d].event = hand[d].event /\ hand'[e].event = hand[e].event
    BY <1>6, <1>8
  <2> QED BY <1>8, <2>1 DEF PollInv, HandsDiffer
<1>9. /\ now' = now /\ starts' \in Nat /\ edits' = edits
      /\ schedule' \in [enabled : BOOLEAN, cursor : Nat, policy : Policies, version : Nat]
      /\ schedule'.cursor % Interval = 0 /\ schedule.cursor <= schedule'.cursor
      /\ schedule'.enabled = schedule.enabled /\ schedule'.version = schedule.version
      /\ schedule'.policy = schedule.policy
  <2>1. schedule' = schedule OBVIOUS
  <2> QED BY <1>4, <2>1 DEF PollInv, ScheduleTypes
<1>10. \A d \in Callers : d[1] # p => hand'[d] = hand[d] /\ caller'[d] = caller[d]
  BY <1>1, <1>6
<1>11. \A d \in Callers : d[1] = p => HandSound(d)' BY <1>7
<1>12. \A d, e \in Callers : d[1] = p /\ e[1] = p /\ d # e /\ hand'[d].at # "free"
                             => hand'[d].event # hand'[e].event
  BY <1>8
<1> QED BY <1>2, <1>3, <1>4, <1>5, <1>6, <1>9, <1>10, <1>11, <1>12, RunnerSteps

LEMMA HandlersCheck ==
    ASSUME CollectInv, PollInv, NEW c \in Callers, Check(c)
    PROVE  PollInv'
<1>1. PICK p, q : p = c[1] /\ q = runner[p] OBVIOUS
<1>2. p \in Runners /\ q \in RunnerRows /\ ProgressSound(p) /\ HandSound(c)
  BY <1>1, ThreadsOfRunners DEF PollInv, ScheduleTypes
<1>3. /\ hand[c].at = "turn" /\ hand[c].event = q.next /\ UNCHANGED collectVars
      /\ UNCHANGED <<now, schedule, created, edits, starts, caller>>
  BY <1>1 DEF Check, HasTurn, collectVars
<1>4. Decided BY <1>3, CollectionsMove
<1>5. q.state # "off" BY <1>1, <1>2, <1>3 DEF HandSound
<1>6. ASSUME NEW failed \in BOOLEAN, Ends(c, failed, TRUE), failed \/ ~schedule.enabled
      PROVE  PollInv'
  <2>1. PICK row \in RunnerRows :
             /\ runner' = [runner EXCEPT ![c[1]] = row]
             /\ row.state # "off" /\ row.base = runner[c[1]].base
             /\ row.emitted = runner[c[1]].emitted /\ row.queue = runner[c[1]].queue
             /\ row.edits = runner[c[1]].edits /\ row.version = runner[c[1]].version
             /\ row.next = runner[c[1]].next + 1
             /\ row.failed = (runner[c[1]].failed \/ failed)
    BY <1>1, <1>5, <1>6, EndsRow
  <2>2. hand' = [hand EXCEPT ![c] = Free] BY <1>6 DEF Ends
  <2>3. ~(Unedited(q) /\ ~row.failed)
    <3>1. Unedited(q) => schedule.enabled BY <1>1, <1>2 DEF ProgressSound
    <3> QED BY <1>6, <2>1, <3>1
  <2> QED BY <1>1, <1>3, <1>4, <2>1, <2>2, <2>3, ScheduleLeft, TurnEnds
<1>7. ASSUME ~q.failed, hand' = [hand EXCEPT ![c].at = "collect"], runner' = runner
      PROVE  PollInv'
  <2>1. PICK h : h = [hand[c] EXCEPT !.at = "collect"] OBVIOUS
  <2>2. hand[c] \in HandRows BY DEF PollInv, ScheduleTypes
  <2>3. h \in HandRows /\ h.at = "collect" /\ h.event = hand[c].event
    BY <2>1, <2>2 DEF HandRows
  <2>4. hand' = [hand EXCEPT ![c] = h] /\ hand'[c] = h
    BY <1>7, <2>1 DEF PollInv, ScheduleTypes
  <2>5. HandSound(c)'
    BY <1>1, <1>2, <1>3, <1>5, <1>7, <2>3, <2>4 DEF HandSound, Taken
  <2> QED BY <1>3, <1>4, <1>7, <2>3, <2>4, <2>5, ScheduleLeft, HandSteps
<1> QED BY <1>1, <1>6, <1>7 DEF Check, Poisoned

LEMMA SlotsAreCollected ==
    ASSUME CollectInv, PollInv, NEW c \in Callers, CollectSlot(c)
    PROVE  PollInv'
<1>1. PICK k : k = Slot(c[1], hand[c].event) OBVIOUS
<1>2. /\ hand[c].at = "collect" /\ k \in Keys /\ Collect(c, k)
      /\ created' = IF run[k] = NoRun THEN [created EXCEPT ![k] = now] ELSE created
      /\ hand' = [hand EXCEPT ![c].at = "collecting"]
      /\ UNCHANGED <<now, schedule, runner, edits, starts>>
  BY <1>1 DEF CollectSlot
<1>3. Decided BY <1>2, CollectionsMove
<1>4. c[1] \in Runners /\ HandSound(c) BY ThreadsOfRunners DEF PollInv
<1>5. k <= now
  <2>1. runner[c[1]] \in RunnerRows /\ QueueSound(runner[c[1]])
    BY <1>4 DEF PollInv, ScheduleTypes
  <2>2. /\ runner[c[1]].emitted \in Nat /\ runner[c[1]].queue \in Seq(Nat)
        /\ runner[c[1]].next \in Nat /\ runner[c[1]].next >= 1
    BY <2>1 DEF RunnerRows, QueueSound
  <2>3. Len(runner[c[1]].queue) \in Nat BY <2>2
  <2>4. hand[c].event \in 1..runner[c[1]].emitted
    BY <1>2, <1>4, <2>2, <2>3 DEF HandSound, Taken
  <2> QED BY <1>1, <1>4, <2>4, SlotsAreKeys
<1>6. now \in Nat /\ created \in [Keys -> Nat]
  BY IntervalIsPositive DEF PollInv, ScheduleTypes
<1>7. created' \in [Keys -> Nat] BY <1>2, <1>6
<1>8. NothingEarly'
  <2>1. \A o \in Keys \ {k} : created'[o] = created[o] BY <1>2, <1>6
  <2>2. created'[k] \in {now, created[k]} BY <1>2, <1>6
  <2>3. ASSUME NEW o \in Keys, created'[o] # Never PROVE o <= created'[o]
    <3>1. CASE created'[o] = created[o] BY <2>3, <3>1 DEF PollInv, NothingEarly
    <3>2. CASE created'[o] # created[o] BY <1>5, <2>1, <2>2, <3>2
    <3> QED BY <3>1, <3>2
  <2>4. Never' = Never BY DEF Never
  <2> QED BY <2>3, <2>4 DEF NothingEarly
<1>9. PICK at \in {"end", "pin"} : caller' = [caller EXCEPT ![c] = [Idle EXCEPT !.key = k, !.at = at]]
  BY <1>2 DEF Collect
<1>10. caller'[c] = [Idle EXCEPT !.key = k, !.at = at]
       /\ \A d \in Callers \ {c} : caller'[d] = caller[d]
  BY <1>9 DEF CollectInv, CollectTypes
<1>11. caller'[c].at # "idle" /\ caller'[c].key = k BY <1>10 DEF Idle
<1>12. PICK h : h = [hand[c] EXCEPT !.at = "collecting"] OBVIOUS
<1>13. hand[c] \in HandRows BY DEF PollInv, ScheduleTypes
<1>14. h \in HandRows /\ h.at = "collecting" /\ h.event = hand[c].event
  BY <1>12, <1>13 DEF HandRows
<1>15. hand' = [hand EXCEPT ![c] = h] /\ hand'[c] = h
  BY <1>2, <1>12 DEF PollInv, ScheduleTypes
<1>16. HandSound(c)'
  <2>1. Slot(c[1], hand[c].event)' = k BY <1>1, <1>2, <1>14, <1>15 DEF Slot
  <2> QED BY <1>2, <1>4, <1>11, <1>14, <1>15, <2>1 DEF HandSound, Taken
<1> QED BY <1>2, <1>3, <1>7, <1>8, <1>10, <1>14, <1>15, <1>16, HandSteps

LEMMA CollectionsGoOn ==
    ASSUME CollectInv, PollInv, NEW c \in Callers, Collecting(c)
    PROVE  PollInv'
<1>1. PICK k : k = Slot(c[1], hand[c].event) OBVIOUS
<1>2. /\ hand[c].at = "collecting" /\ CollectStep(c)
      /\ hand' = IF caller'[c].at # "idle" THEN hand
                 ELSE [hand EXCEPT ![c].at = IF caller'[c].raised THEN "failed" ELSE "mark"]
      /\ UNCHANGED <<now, schedule, runner, created, edits, starts>>
  BY DEF Collecting
<1>3. Decided BY <1>2, CollectionsMove
<1>4. /\ \A d \in Callers \ {c} : caller'[d] = caller[d]
      /\ IF caller'[c].at = "idle"
         THEN ~caller'[c].raised => run[caller[c].key].state \in Terminal
         ELSE caller'[c].key = caller[c].key
  BY <1>2, CallersMove
<1>5. HandSound(c) /\ hand[c] \in HandRows /\ caller[c].key = k
  BY <1>1, <1>2 DEF PollInv, ScheduleTypes, HandSound
<1>6. k \in Keys BY <1>2, <1>5 DEF CollectInv, CallerSound, PollInv, HandSound
<1>7. PICK at \in {"collecting", "failed", "mark"} :
        /\ hand' = [hand EXCEPT ![c].at = at]
        /\ at = "collecting" <=> caller'[c].at # "idle"
        /\ at = "mark" => ~caller'[c].raised
  <2>1. CASE caller'[c].at # "idle"
    <3>1. hand' = [hand EXCEPT ![c].at = "collecting"]
      <4>1. [hand[c] EXCEPT !.at = "collecting"] = hand[c] BY <1>2, <1>5 DEF HandRows
      <4> QED BY <1>2, <2>1, <4>1 DEF PollInv, ScheduleTypes
    <3> QED BY <2>1, <3>1
  <2>2. CASE caller'[c].at = "idle" BY <1>2, <2>2
  <2> QED BY <2>1, <2>2
<1>8. PICK h : h = [hand[c] EXCEPT !.at = at] OBVIOUS
<1>9. h \in HandRows /\ h.at = at /\ h.event = hand[c].event BY <1>5, <1>8 DEF HandRows
<1>10. hand' = [hand EXCEPT ![c] = h] /\ hand'[c] = h
  BY <1>7, <1>8 DEF PollInv, ScheduleTypes
<1>11. HandSound(c)'
  <2>1. Slot(c[1], hand[c].event)' = k BY <1>1, <1>2, <1>9, <1>10 DEF Slot
  <2>2. at = "mark" => run'[k].state \in Terminal
    BY <1>3, <1>4, <1>5, <1>6, <1>7 DEF Decided
  <2>3. at = "collecting" => caller'[c].at # "idle" /\ caller'[c].key = k
    BY <1>4, <1>5, <1>7
  <2> QED BY <1>2, <1>5, <1>7, <1>9, <1>10, <2>1, <2>2, <2>3 DEF HandSound, Taken
<1> QED BY <1>2, <1>3, <1>4, <1>9, <1>10, <1>11, ScheduleLeft, HandSteps

LEMMA HandlersFail ==
    ASSUME CollectInv, PollInv, NEW c \in Callers, CollectFailed(c) \/ MarkFails(c)
    PROVE  PollInv'
<1>1. PICK p, q : p = c[1] /\ q = runner[p] OBVIOUS
<1>2. p \in Runners /\ HandSound(c) BY <1>1, ThreadsOfRunners DEF PollInv
<1>3. /\ hand[c].at \in {"failed", "mark"} /\ Ends(c, TRUE, TRUE)
      /\ UNCHANGED <<now, schedule, created, edits, starts, caller>>
      /\ \/ UNCHANGED collectVars
         \/ UNCHANGED <<sourceVars, deskVars, tableVars, runLock, caller, seen, pushes>>
  BY DEF CollectFailed, MarkFails, collectVars
<1>4. Decided BY <1>3, CollectionsMove
<1>5. runner[c[1]].state # "off" /\ hand[c].event = runner[c[1]].next
  BY <1>2, <1>3 DEF HandSound
<1>6. PICK row \in RunnerRows :
           /\ runner' = [runner EXCEPT ![c[1]] = row]
           /\ row.state # "off" /\ row.base = runner[c[1]].base
           /\ row.emitted = runner[c[1]].emitted /\ row.queue = runner[c[1]].queue
           /\ row.edits = runner[c[1]].edits /\ row.version = runner[c[1]].version
           /\ row.next = runner[c[1]].next + 1
           /\ row.failed = (runner[c[1]].failed \/ TRUE)
  BY <1>3, <1>5, EndsRow
<1>7. hand' = [hand EXCEPT ![c] = Free] BY <1>3 DEF Ends
<1>8. hand[c].at \notin {"free", "collecting"} BY <1>3
<1> QED BY <1>3, <1>4, <1>5, <1>6, <1>7, <1>8, ScheduleLeft, TurnEnds

\* The schedule row a mark leaves.
LEMMA MarksMoveForward ==
    ASSUME PollInv, NEW c \in Callers, Mark(c)
    PROVE  /\ schedule' \in [enabled : BOOLEAN, cursor : Nat, policy : Policies, version : Nat]
           /\ schedule'.cursor % Interval = 0 /\ schedule.cursor <= schedule'.cursor
           /\ schedule'.enabled = schedule.enabled /\ schedule'.version = schedule.version
           /\ schedule'.policy = schedule.policy
           /\ schedule'.cursor \in {schedule.cursor, Slot(c[1], hand[c].event) + Interval}
<1>1. PICK p, q, e : p = c[1] /\ q = runner[p] /\ e = hand[c].event OBVIOUS
<1>2. p \in Runners /\ q \in RunnerRows /\ QueueSound(q) /\ HandSound(c) /\ hand[c] \in HandRows
  BY <1>1, ThreadsOfRunners DEF PollInv, ScheduleTypes
<1>3. hand[c].at = "mark" /\ schedule' = Marked(Slot(p, e) + Interval) BY <1>1 DEF Mark
<1>4. q.next \in Nat /\ q.next >= 1 /\ q.base \in Nat /\ q.base % Interval = 0 /\ e = q.next
  BY <1>1, <1>2, <1>3 DEF RunnerRows, QueueSound, HandSound
<1>5. PICK m \in Nat : m = e * Interval BY <1>4, IntervalIsPositive
<1>6. Slot(p, e) + Interval = q.base + m
  <2>1. PICK x \in Int : x = (e - 1) * Interval BY <1>4, IntervalIsPositive
  <2>2. x + Interval = m BY <1>4, <1>5, <2>1, IntervalIsPositive
  <2>3. Slot(p, e) = q.base + x BY <1>1, <2>1 DEF Slot
  <2> QED BY <1>4, <2>2, <2>3, IntervalIsPositive
<1>7. PICK next \in Nat : next = Slot(p, e) + Interval /\ next % Interval = 0
  <2>1. m % Interval = 0 BY <1>4, <1>5, IntervalIsPositive, MultiplesDivide
  <2>2. (q.base + m) % Interval = 0 BY <1>4, <2>1, IntervalIsPositive, SumOfMultiples
  <2>3. q.base + m \in Nat BY <1>4
  <2> QED BY <1>6, <2>2, <2>3
<1>8. /\ schedule \in [enabled : BOOLEAN, cursor : Nat, policy : Policies, version : Nat]
      /\ schedule.cursor % Interval = 0
  BY DEF PollInv, ScheduleTypes
<1>9. CASE MayMark(next)
  <2>1. schedule' = [schedule EXCEPT !.cursor = next] BY <1>3, <1>7, <1>9 DEF Marked
  <2>2. schedule.cursor <= next BY <1>8, <1>9 DEF MayMark
  <2>3. /\ schedule' \in [enabled : BOOLEAN, cursor : Nat, policy : Policies, version : Nat]
        /\ schedule'.cursor = next /\ schedule'.enabled = schedule.enabled
        /\ schedule'.version = schedule.version /\ schedule'.policy = schedule.policy
    BY <1>8, <2>1
  <2> QED BY <1>1, <1>7, <2>2, <2>3
<1>10. CASE ~MayMark(next)
  <2>1. schedule' = schedule BY <1>3, <1>7, <1>10 DEF Marked
  <2>2. schedule.cursor <= schedule.cursor BY <1>8
  <2> QED BY <1>8, <2>1, <2>2
<1> QED BY <1>9, <1>10

LEMMA SlotsAreMarked ==
    ASSUME CollectInv, PollInv, NEW c \in Callers, Mark(c)
    PROVE  PollInv'
<1>1. PICK p, q : p = c[1] /\ q = runner[p] OBVIOUS
<1>2. p \in Runners /\ q \in RunnerRows /\ HandSound(c)
  BY <1>1, ThreadsOfRunners DEF PollInv, ScheduleTypes
<1>3. PICK changed \in BOOLEAN :
        /\ changed = (schedule.enabled /\ schedule.version # q.version)
        /\ runner' = [runner EXCEPT ![p].next = @ + 1, ![p].cursor = schedule'.cursor,
                        ![p].failed = @ \/ changed,
                        ![p].state = IF changed \/ ~schedule.enabled THEN "draining" ELSE @]
  BY <1>1 DEF Mark
<1>4. /\ hand[c].at = "mark" /\ hand' = [hand EXCEPT ![c] = Free] /\ UNCHANGED collectVars
      /\ UNCHANGED <<now, created, edits, starts, caller>>
  BY DEF Mark, collectVars
<1>5. Decided BY <1>4, CollectionsMove
<1>6. q.state # "off" /\ hand[c].event = q.next /\ ~q.failed
      /\ run[Slot(c[1], hand[c].event)].state \in Terminal
  BY <1>1, <1>2, <1>4 DEF HandSound
<1>7. PICK next, cursor, bad, state :
        /\ next = q.next + 1 /\ cursor = schedule'.cursor /\ bad = (q.failed \/ changed)
        /\ state = IF changed \/ ~schedule.enabled THEN "draining" ELSE q.state
  OBVIOUS
<1>8. PICK row : row = [q EXCEPT !.next = next, !.cursor = cursor, !.failed = bad, !.state = state]
  OBVIOUS
<1>9. next \in Nat /\ cursor \in Nat /\ bad \in BOOLEAN /\ state \in {"running", "draining"}
  <2>1. q.next \in Nat /\ q.failed \in BOOLEAN /\ q.state \in {"off", "running", "draining"}
    BY <1>2 DEF RunnerRows
  <2>2. q.next + 1 \in Nat BY <2>1
  <2>3. schedule'.cursor \in Nat BY MarksMoveForward
  <2> QED BY <1>6, <1>7, <2>1, <2>2, <2>3
<1>10. runner' = [runner EXCEPT ![p] = row]
  <2>1. runner' = [runner EXCEPT ![p].next = next, ![p].cursor = cursor, ![p].failed = bad,
                                 ![p].state = state]
    BY <1>1, <1>3, <1>7
  <2> QED BY <1>1, <1>2, <1>8, <2>1 DEF PollInv, ScheduleTypes
<1>11. row \in RunnerRows /\ row.next = next /\ row.failed = bad /\ row.state = state
       /\ row.base = q.base /\ row.emitted = q.emitted /\ row.queue = q.queue
       /\ row.edits = q.edits /\ row.version = q.version
  BY <1>2, <1>8, <1>9 DEF RunnerRows
<1>12. hand[c].at \notin {"free", "collecting"} BY <1>4
<1>13. row.state # "off" /\ row.next = q.next + 1 BY <1>7, <1>9, <1>11
<1> QED BY <1>1, <1>4, <1>5, <1>6, <1>10, <1>11, <1>12, <1>13, MarksMoveForward, TurnEnds

-----------------------------------------------------------------------------
(* What happens around the runners, and the whole next-state relation.     *)

\* A step that leaves every runner and every worker thread.
LEMMA SchedulesRest ==
    ASSUME CollectInv, PollInv, Decided, UNCHANGED <<schedule, runner, hand, created, edits, caller>>,
           now' \in 0..MaxTime, now <= now', starts' \in Nat
    PROVE  PollInv'
<1>1. ScheduleTypes' BY DEF PollInv, ScheduleTypes
<1>2. schedule.cursor \in Nat /\ now \in Nat /\ now' \in Nat
  BY IntervalIsPositive DEF PollInv, ScheduleTypes
<1>3. ASSUME NEW p \in Runners PROVE QueueSound(runner[p])' /\ ProgressSound(p)'
  <2>1. ProgressSound(p)' BY <1>2, ProgressKept
  <2>2. QueueSound(runner[p]) /\ runner[p] \in RunnerRows BY DEF PollInv, ScheduleTypes
  <2>3. runner[p].emitted \in Nat /\ runner[p].base \in Nat BY <2>2 DEF RunnerRows
  <2>4. ASSUME runner[p].emitted > 0
        PROVE  runner[p].base + (runner[p].emitted - 1) * Interval <= now'
    <3>1. PICK x \in Nat : x = (runner[p].emitted - 1) * Interval
      <4>1. runner[p].emitted - 1 \in Nat BY <2>3, <2>4
      <4> QED BY <4>1, IntervalIsPositive
    <3>2. runner[p].base + x <= now BY <2>2, <2>4, <3>1 DEF QueueSound
    <3> QED BY <1>2, <2>3, <3>1, <3>2
  <2> QED BY <2>1, <2>2, <2>4 DEF QueueSound, Taken
<1>4. ASSUME NEW c \in Callers PROVE HandSound(c)'
  <2>1. c[1] \in Runners BY ThreadsOfRunners
  <2>2. runner[c[1]] \in RunnerRows /\ QueueSound(runner[c[1]])
    BY <2>1 DEF PollInv, ScheduleTypes
  <2>3. Taken(runner[c[1]]) \in Nat
    <3>1. runner[c[1]].emitted \in Nat /\ runner[c[1]].queue \in Seq(Nat) BY <2>2 DEF RunnerRows
    <3>2. Len(runner[c[1]].queue) \in Nat BY <3>1
    <3> QED BY <2>2, <3>1, <3>2 DEF QueueSound, Taken
  <2>4. hand[c].at # "free" => runner[c[1]].state # "off" BY DEF PollInv, HandSound
  <2>5. hand'[c] = hand[c] /\ caller'[c] = caller[c] /\ runner' = runner OBVIOUS
  <2> QED BY <2>3, <2>4, <2>5, HandKept
<1>5. HandsDiffer' /\ NothingEarly' /\ schedule'.cursor % Interval = 0
  BY DEF PollInv, HandsDiffer, NothingEarly
<1> QED BY <1>1, <1>3, <1>4, <1>5 DEF PollInv

\* upsert_schedule disowns every runner that is under way.
LEMMA OperatorsEdit ==
    ASSUME CollectInv, PollInv, NEW on \in BOOLEAN, NEW changes \in BOOLEAN,
           NEW cursor \in {0, MaxTime}, EditSchedule(on, cursor, changes)
    PROVE  PollInv'
<1>1. /\ edits' = edits + 1 /\ UNCHANGED collectVars
      /\ schedule' = [schedule EXCEPT !.enabled = on, !.cursor = cursor,
                        !.version = IF changes THEN schedule.version + 1 ELSE schedule.version]
      /\ UNCHANGED <<now, runner, hand, created, starts, caller, run>>
  BY DEF EditSchedule, collectVars, tableVars
<1>2. PICK version : version = IF changes THEN schedule.version + 1 ELSE schedule.version
  OBVIOUS
<1>3. schedule \in [enabled : BOOLEAN, cursor : Nat, policy : Policies, version : Nat]
      /\ edits \in Nat
  BY DEF PollInv, ScheduleTypes
<1>4. version \in Nat /\ cursor \in Nat /\ edits + 1 \in Nat
  BY <1>2, <1>3, IntervalIsPositive
<1>5. schedule' = [schedule EXCEPT !.enabled = on, !.cursor = cursor, !.version = version]
  BY <1>1, <1>2
<1>6. /\ schedule' \in [enabled : BOOLEAN, cursor : Nat, policy : Policies, version : Nat]
      /\ schedule'.cursor = cursor
  BY <1>3, <1>4, <1>5
<1>7. ScheduleTypes' BY <1>1, <1>4, <1>6 DEF PollInv, ScheduleTypes
<1>8. schedule'.cursor % Interval = 0
  <2>1. 0 % Interval = 0 BY IntervalIsPositive
  <2> QED BY <1>6, <2>1, PollingAssumption
<1>9. ASSUME NEW p \in Runners PROVE QueueSound(runner[p])' /\ ProgressSound(p)'
  <2>1. QueueSound(runner[p])' BY <1>1 DEF PollInv, QueueSound, Taken
  <2>2. runner[p].edits <= edits /\ runner[p].edits \in Nat
    BY DEF PollInv, ProgressSound, ScheduleTypes, RunnerRows
  <2>3. runner'[p].edits <= edits' /\ runner'[p].edits # edits'
    BY <1>1, <1>3, <2>2
  <2> QED BY <2>1, <2>3 DEF ProgressSound, Unedited
<1>10. ASSUME NEW c \in Callers PROVE HandSound(c)'
  BY <1>1 DEF PollInv, HandSound, Taken, Slot
<1>11. HandsDiffer' /\ NothingEarly' BY <1>1 DEF PollInv, HandsDiffer, NothingEarly
<1> QED BY <1>7, <1>8, <1>9, <1>10, <1>11 DEF PollInv

LEMMA EveryStep ==
    ASSUME CollectInv, PollInv, [Next]_vars
    PROVE  CollectInv' /\ PollInv' /\ Decided
<1>1. ASSUME NEW p \in Runners, Start(p) \/ Emit(p) \/ Drain(p) \/ Exit(p) \/ Kill(p)
      PROVE  CollectInv' /\ PollInv' /\ Decided
  <2>1. PollInv' BY <1>1, RunnersStart, RunnersEmit, RunnersDrain, RunnersExit
  <2>2. \/ UNCHANGED collectVars
        \/ \E cs : Dies(cs)
        \/ UNCHANGED <<sourceVars, deskVars, tableVars, runLock, caller, seen, pushes>>
    <3>1. CASE Start(p) BY <3>1 DEF Start
    <3>2. CASE Emit(p) BY <3>2 DEF Emit
    <3>3. CASE Drain(p) BY <3>3 DEF Drain
    <3>4. CASE Exit(p) BY <3>4 DEF Exit
    <3>5. CASE Kill(p) BY <3>5 DEF Kill
    <3> QED BY <1>1, <3>1, <3>2, <3>3, <3>4, <3>5
  <2> QED BY <2>1, <2>2, CollectionsMove
<1>2. ASSUME NEW c \in Callers,
             \/ Take(c) \/ Check(c) \/ CollectSlot(c) \/ Collecting(c) \/ CollectFailed(c)
             \/ Mark(c) \/ MarkFails(c)
      PROVE  CollectInv' /\ PollInv' /\ Decided
  <2>1. PollInv'
    BY <1>2, EventsAreTaken, HandlersCheck, SlotsAreCollected, CollectionsGoOn, HandlersFail,
       SlotsAreMarked
  <2>2. \/ UNCHANGED collectVars
        \/ \E k \in Keys : Collect(c, k)
        \/ CollectStep(c)
        \/ UNCHANGED <<sourceVars, deskVars, tableVars, runLock, caller, seen, pushes>>
    <3>1. CASE Take(c) BY <3>1 DEF Take
    <3>2. CASE Check(c) BY <3>2 DEF Check
    <3>3. CASE CollectSlot(c) BY <3>3 DEF CollectSlot
    <3>4. CASE Collecting(c) BY <3>4 DEF Collecting
    <3>5. CASE CollectFailed(c) BY <3>5 DEF CollectFailed
    <3>6. CASE Mark(c) BY <3>6 DEF Mark
    <3>7. CASE MarkFails(c) BY <3>7 DEF MarkFails
    <3> QED BY <1>2, <3>1, <3>2, <3>3, <3>4, <3>5, <3>6, <3>7
  <2> QED BY <2>1, <2>2, CollectionsMove
<1>3. now \in 0..MaxTime /\ starts \in Nat /\ now <= now BY IntervalIsPositive DEF PollInv, ScheduleTypes
<1>4. CASE OutsideStep /\ UNCHANGED scheduleVars
  <2>1. CollectInv' /\ Decided BY <1>4, CollectionsMove
  <2>2. caller' = caller
    BY <1>4 DEF OutsideStep, Push, ImportRoster, RegisterAssignment, GradeStep
  <2>3. UNCHANGED <<schedule, runner, hand, created, edits, caller>> /\ now' = now /\ starts' = starts
    BY <1>4, <2>2 DEF scheduleVars
  <2> QED BY <1>3, <2>1, <2>3, SchedulesRest
<1>5. ASSUME NEW on \in BOOLEAN, NEW changes \in BOOLEAN, NEW cursor \in {0, MaxTime},
             EditSchedule(on, cursor, changes)
      PROVE  CollectInv' /\ PollInv' /\ Decided
  <2>1. UNCHANGED collectVars BY <1>5 DEF EditSchedule
  <2> QED BY <1>5, <2>1, OperatorsEdit, CollectionsMove
<1>6. CASE Tick
  <2>1. UNCHANGED collectVars /\ UNCHANGED <<schedule, runner, hand, created, edits, starts, caller>>
    BY <1>6 DEF Tick, collectVars
  <2>2. CollectInv' /\ Decided BY <2>1, CollectionsMove
  <2>3. now' \in 0..MaxTime /\ now <= now'
    BY <1>3, <1>6, IntervalIsPositive DEF Tick
  <2> QED BY <1>3, <2>1, <2>2, <2>3, SchedulesRest
<1>7. CASE UNCHANGED vars
  <2>1. UNCHANGED collectVars /\ now' = now /\ starts' = starts
        /\ UNCHANGED <<schedule, runner, hand, created, edits, caller>>
    BY <1>7 DEF vars, scheduleVars, collectVars
  <2>2. CollectInv' /\ Decided BY <2>1, CollectionsMove
  <2> QED BY <1>3, <2>1, <2>2, SchedulesRest
<1> QED BY <1>1, <1>2, <1>4, <1>5, <1>6, <1>7 DEF Next, RunnerNext, HandlerNext

\* A mark moves the cursor past slots that were collected, or passed over.
LEMMA MarksAreHonest ==
    ASSUME CollectInv, PollInv, NEW c \in Callers, Mark(c), ~Edited, NEW k \in Keys,
           schedule.cursor <= k, k < schedule'.cursor, (k - schedule.cursor) % Interval = 0
    PROVE  run[k].state \in Terminal \/ PassedOver(k)
<1>1. PICK p, q, e : p = c[1] /\ q = runner[p] /\ e = hand[c].event OBVIOUS
<1>2. p \in Runners /\ q \in RunnerRows /\ QueueSound(q) /\ ProgressSound(p) /\ HandSound(c)
  BY <1>1, ThreadsOfRunners DEF PollInv, ScheduleTypes
<1>3. hand[c].at = "mark" BY DEF Mark
<1>4. /\ q.state # "off" /\ e = q.next /\ ~q.failed /\ run[Slot(p, e)].state \in Terminal
      /\ q.next \in Nat /\ q.next >= 1 /\ q.base \in Nat /\ q.base % Interval = 0
  BY <1>1, <1>2, <1>3 DEF HandSound, QueueSound, RunnerRows
<1>5. Unedited(q) BY <1>1, <1>2, <1>4 DEF Edited, Unedited
<1>6. schedule.cursor \in Nat /\ schedule.cursor % Interval = 0 /\ k \in Nat
  BY IntervalIsPositive DEF PollInv, ScheduleTypes
<1>7. CASE k < q.base
  <2>1. schedule.policy # "all"
    <3>1. schedule.policy = "all" => q.base <= schedule.cursor
      BY <1>1, <1>2, <1>5 DEF ProgressSound
    <3> QED BY <1>4, <1>6, <1>7, <3>1
  <2> QED BY <1>1, <1>2, <1>4, <1>7, <2>1 DEF PassedOver
<1>8. CASE q.base <= k
  <2>1. k % Interval = 0
    <3>1. PICK d \in Nat : d = k - schedule.cursor /\ d % Interval = 0 BY <1>6
    <3>2. (d + schedule.cursor) % Interval = 0
      BY <1>6, <3>1, IntervalIsPositive, SumOfMultiples
    <3>3. d + schedule.cursor = k BY <1>6, <3>1
    <3> QED BY <3>2, <3>3
  <2>2. k < q.base + e * Interval
    <3>1. schedule'.cursor = Slot(p, e) + Interval BY <1>1, <1>6, MarksMoveForward
    <3>2. PICK x \in Int : x = (e - 1) * Interval BY <1>4, IntervalIsPositive
    <3>3. PICK y \in Int : y = e * Interval BY <1>4, IntervalIsPositive
    <3>4. x + Interval = y BY <1>4, <3>2, <3>3, IntervalIsPositive
    <3>5. Slot(p, e) = q.base + x BY <1>1, <3>2 DEF Slot
    <3> QED BY <1>4, <1>6, <3>1, <3>3, <3>4, <3>5, IntervalIsPositive
  <2>3. PICK f \in 1..e : k = q.base + (f - 1) * Interval
    <3>1. PICK b \in Nat : b = q.base BY <1>4
    <3>2. PICK x \in Int : x = e * Interval BY <1>4, IntervalIsPositive
    <3>3. e \in Nat /\ b % Interval = 0 /\ b <= k /\ k < b + x
      BY <1>4, <1>8, <2>2, <3>1, <3>2
    <3>4. IsSlot(k, b, e, Interval)
      BY <1>6, <2>1, <3>1, <3>2, <3>3, IntervalIsPositive, GridIsSlots
    <3> QED BY <3>1, <3>4 DEF IsSlot
  <2>4. k = Slot(p, f) BY <1>1, <2>3 DEF Slot
  <2>5. CASE f = e BY <1>4, <2>4, <2>5
  <2>6. CASE f # e
    <3>1. f \in 1..(q.next - 1) BY <1>4, <2>6
    <3> QED BY <1>1, <1>2, <1>4, <1>5, <2>4, <3>1 DEF ProgressSound
  <2> QED BY <2>5, <2>6
<1> QED BY <1>4, <1>6, <1>7, <1>8

\* The body of CursorIsHonest.
CursorHonest ==
    edits' = edits /\ ~Edited =>
    \A k \in Keys :
        /\ schedule.cursor <= k /\ k < schedule'.cursor
        /\ (k - schedule.cursor) % Interval = 0
        => run[k].state \in Terminal \/ PassedOver(k)

LEMMA CursorsMove ==
    ASSUME CollectInv, PollInv, [Next]_vars
    PROVE  CursorHonest
<1>1. SUFFICES ASSUME edits' = edits, ~Edited PROVE
        \A k \in Keys :
            /\ schedule.cursor <= k /\ k < schedule'.cursor
            /\ (k - schedule.cursor) % Interval = 0
            => run[k].state \in Terminal \/ PassedOver(k)
  BY DEF CursorHonest
<1>2. CASE schedule' = schedule
  <2>1. schedule.cursor \in Nat BY DEF PollInv, ScheduleTypes
  <2>2. \A k \in Keys : ~(schedule.cursor <= k /\ k < schedule.cursor)
    BY <2>1, IntervalIsPositive
  <2> QED BY <1>2, <2>2
<1>3. ASSUME NEW c \in Callers, Mark(c)
      PROVE  \A k \in Keys :
               /\ schedule.cursor <= k /\ k < schedule'.cursor
               /\ (k - schedule.cursor) % Interval = 0
               => run[k].state \in Terminal \/ PassedOver(k)
  BY <1>1, <1>3, MarksAreHonest
<1>4. schedule' = schedule \/ \E c \in Callers : Mark(c)
  <2>1. edits \in Nat BY DEF PollInv, ScheduleTypes
  <2>2. ASSUME NEW p \in Runners, Start(p) \/ Emit(p) \/ Drain(p) \/ Exit(p) \/ Kill(p)
        PROVE  schedule' = schedule
    BY <2>2 DEF Start, Emit, Drain, Exit, Kill
  <2>3. ASSUME NEW c \in Callers, \/ Take(c) \/ Check(c) \/ CollectSlot(c)
                                  \/ Collecting(c) \/ CollectFailed(c) \/ MarkFails(c)
        PROVE  schedule' = schedule
    BY <2>3 DEF Take, Check, CollectSlot, Collecting, CollectFailed, MarkFails
  <2>4. ASSUME NEW on \in BOOLEAN, NEW changes \in BOOLEAN, NEW cursor \in {0, MaxTime},
               EditSchedule(on, cursor, changes)
        PROVE  FALSE
    <3>1. edits' = edits + 1 BY <2>4 DEF EditSchedule
    <3> QED BY <1>1, <2>1, <3>1
  <2>5. CASE Tick \/ UNCHANGED scheduleVars BY <2>5 DEF Tick, scheduleVars
  <2>6. CASE UNCHANGED vars BY <2>6 DEF vars, scheduleVars
  <2> QED BY <2>2, <2>3, <2>4, <2>5, <2>6 DEF Next, RunnerNext, HandlerNext
<1> QED BY <1>2, <1>3, <1>4

-----------------------------------------------------------------------------
(* The theorems.                                                           *)

\* The inductive invariant of collections and of the runners that start them.
THEOREM PollingIsSound == Spec => [](CollectInv /\ PollInv)
<1>1. Init => CollectInv /\ PollInv BY PollInitially
<1>2. CollectInv /\ PollInv /\ [Next]_vars => (CollectInv /\ PollInv)' BY EveryStep
<1> QED BY <1>1, <1>2, PTL DEF Spec

\* A snapshot, the job that made it and the labels of the collector name one
\* commit that was a tip of the branch while the job was collected, a run's
\* rows agree with its jobs, a finished run's verdict is that of its jobs, and
\* no slot is collected before it is due: however runners crash, overlap and
\* resume each other (CollectionService.collect, handle_due).
THEOREM CollectionsStayHonest == Spec => []PollingIsHonest
<1>1. CollectInv /\ PollInv => PollingIsHonest
  BY CollectionsAreHonest DEF PollInv, PollingIsHonest
<1> QED BY <1>1, PollingIsSound, PTL

\* A finished run with its jobs, the pins of a run, a recorded commit and a
\* snapshot are never changed: by a resumption, a second caller of the key, or
\* an edit of the roster, the assignment or the schedule.
THEOREM DecidedStaysDecided == Spec => DecisionsStay
<1>1. CollectInv /\ PollInv /\ [Next]_vars => [Decided]_collectVars BY EveryStep
<1> QED BY <1>1, PollingIsSound, PTL DEF Spec, DecisionsStay, Decided

\* The durable cursor of the schedule passes a slot only when its collection
\* has a verdict or the catch-up policy skipped it at a runner's start, unless
\* the operator edits the schedule under a runner (mark_schedule_fired, the
\* turns of the worker threads and the checks of handle_due).
THEOREM CursorStaysHonest == Spec => CursorIsHonest
<1>1. CollectInv /\ PollInv /\ [Next]_vars => [CursorHonest]_vars BY CursorsMove
<1> QED BY <1>1, PollingIsSound, PTL DEF Spec, CursorIsHonest, CursorHonest
=============================================================================
