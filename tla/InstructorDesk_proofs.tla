------------------------- MODULE InstructorDesk_proofs -------------------------
(***************************************************************************)
(* Proofs about what an instructor sets in motion, in three parts that     *)
(* share no variable.                                                      *)
(*                                                                         *)
(* AssignmentJobs, for any number of drafts, revisions, jobs, checks and   *)
(* crashes: what students see is sound, and what is published is what was  *)
(* validated.  The properties need each other, and three facts about who   *)
(* owns a row: a release exists only once its job has run and keeps the    *)
(* key of its draft, the worker's job is running, and a check under way is *)
(* one of the checks of its release.                                       *)
(*                                                                         *)
(* ClassroomRequests, for any number of requests, windows and troubles: a  *)
(* request runs at most once, in the window that owns its row, the history *)
(* tells what happened, and nothing begins too late.  The invariant speaks *)
(* of three things a window knows of a request.  The window pursues a      *)
(* request that it may still begin; it may still report that a request     *)
(* ended, by a result it owes, by the call it waits for or by a call it    *)
(* gave up; and it runs one.  Nothing is both pursued and ended, and what  *)
(* ended or runs was accepted on the server.                               *)
(*                                                                         *)
(* GraderSandboxes, for any number of threads, sandboxes, service          *)
(* processes and mishaps: nothing runs unattended, and every verdict a     *)
(* student is told was deserved.  A command that is carried out late is    *)
(* what makes both hard.  The invariant says which late commands can exist *)
(* for a sandbox at each phase of its assessment, that a late start never  *)
(* meets a sandbox that a reconciliation has not seen, and who removed     *)
(* what.                                                                   *)
(***************************************************************************)
EXTENDS AssignmentJobs, ClassroomRequests, GraderSandboxes, FiniteSetTheorems, TLAPS

(* AssignmentJobs.                                                         *)

Outcomes == {"pending", "passed", "failed"}
DraftRows ==
    [state : {"absent", "open", "deleted"}, revision : 0 .. (MaxRevision + 1), complete : BOOLEAN,
     published : Jobs \cup {Nothing}, key : Drafts \cup {Nothing}]
NewRows ==
    [state : {"open", "deleted"}, revision : 1 .. (MaxRevision + 1), complete : BOOLEAN,
     published : {Nothing}, key : Drafts]
JobRows ==
    [status : {"absent", "queued", "running", "succeeded", "failed", "interrupted"},
     draft : Drafts \cup {Nothing}, revision : 0 .. MaxRevision, saved : BOOLEAN]
ReleaseRows ==
    [state : {"absent", "active", "inactive"}, ready : BOOLEAN, deleted : BOOLEAN,
     accepted : BOOLEAN, key : Drafts \cup {Nothing}]
WorkerStates ==
    [at : {"off", "idle", "claimed", "registered", "saved", "checking", "finishing"},
     job : Jobs \cup {Nothing}, check : 0 .. MaxTries, good : BOOLEAN]
AttemptsAreLists == attempts \in [Jobs -> Seq(Outcomes)]

DraftSound(d) ==
    /\ draft[d].state = "absent" => draft[d].published = Nothing
    /\ draft[d].state # "absent" => draft[d].key \in Drafts
    /\ draft[d].state = "open" => draft[d].revision \in 1 .. MaxRevision

\* A job has its draft; its release comes after it began to run.
JobSound(j) ==
    /\ job[j].status # "absent" => job[j].draft \in Drafts /\ draft[job[j].draft].state # "absent"
    /\ release[j].state # "absent" =>
          /\ job[j].status \notin {"absent", "queued"}
          /\ release[j].key = draft[job[j].draft].key

JobsInOrder == \E m \in 0 .. MaxJobs : \A j \in Jobs : job[j].status # "absent" <=> j <= m

WorkerSound ==
    IF worker.at \in {"off", "idle"} THEN worker.job = Nothing
    ELSE /\ worker.job \in Jobs /\ job[worker.job].status = "running"
         /\ worker.at = "checking" => worker.check \in 1 .. Len(attempts[worker.job])

OperatorSound ==
    operator # Nothing =>
        operator[1] \in Jobs /\ operator[2] \in 1 .. Len(attempts[operator[1]])

BatchSound == confirmed # Nothing => confirmed.action \in {"archive", "delete"}

JobInv ==
    /\ JobTypeOK /\ AttemptsAreLists
    /\ \A d \in Drafts : DraftSound(d)
    /\ \A j \in Jobs : JobSound(j)
    /\ JobsInOrder /\ WorkerSound /\ OperatorSound /\ BatchSound
    /\ PublicIsValidated /\ OnePublicVersion /\ DeletedIsClosed
    /\ PublishedAsValidated /\ FrozenUnderValidation /\ RunningHasWorker /\ ArchivedIsQuiet

----------------------------------------------------------------------------
(* Steps of the desk. *)

LEMMA Types ==
    ASSUME JobInv
    PROVE  /\ course \in {"preparation", "active", "archived"}
           /\ draft \in [Drafts -> DraftRows] /\ job \in [Jobs -> JobRows]
           /\ release \in [Jobs -> ReleaseRows] /\ attempts \in [Jobs -> Seq(Outcomes)]
           /\ \A j \in Jobs : Len(attempts[j]) \in 0 .. MaxTries
           /\ worker \in WorkerStates /\ stopping \in BOOLEAN /\ crashes \in 0 .. MaxCrashes
BY DEF JobInv, JobTypeOK, AttemptsAreLists, DraftRows, JobRows, ReleaseRows, WorkerStates

LEMMA TypesNext ==
    ASSUME course' \in {"preparation", "active", "archived"},
           draft' \in [Drafts -> DraftRows], job' \in [Jobs -> JobRows],
           release' \in [Jobs -> ReleaseRows], AttemptsAreLists',
           \A j \in Jobs : Len(attempts'[j]) \in 0 .. MaxTries,
           worker' \in WorkerStates, stopping' \in BOOLEAN, crashes' \in 0 .. MaxCrashes
    PROVE  JobTypeOK'
<1>1. \A j \in Jobs : \A i \in DOMAIN attempts'[j] : attempts'[j][i] \in {"pending", "passed", "failed"}
  BY DEF AttemptsAreLists, Outcomes
<1> QED
  BY <1>1 DEF JobTypeOK, DraftRows, JobRows, ReleaseRows, WorkerStates

\* What leaves drafts, jobs, releases and checks alone.
LEMMA QuietStep ==
    ASSUME JobInv, JobTypeOK', BatchSound', WorkerSound',
           UNCHANGED <<draft, job, release, attempts, operator>>,
           course' = "archived" => course = "archived" \/ Unfinished = {},
           \A j \in Jobs : job[j].status = "running" => worker'.at = "off" \/ worker'.job = j
    PROVE  JobInv'
<1> USE DEF JobInv
<1>1. AttemptsAreLists' /\ JobsInOrder' /\ OperatorSound'
  BY DEF AttemptsAreLists, JobsInOrder, OperatorSound
<1>2. (\A d \in Drafts : DraftSound(d))' /\ (\A j \in Jobs : JobSound(j))'
  BY DEF DraftSound, JobSound
<1>3. PublicIsValidated' /\ OnePublicVersion' /\ DeletedIsClosed'
  BY DEF PublicIsValidated, OnePublicVersion, DeletedIsClosed, Latest, Public, PendingCheck
<1>4. PublishedAsValidated' /\ FrozenUnderValidation' /\ ArchivedIsQuiet'
  BY DEF PublishedAsValidated, FrozenUnderValidation, ArchivedIsQuiet, Unfinished
<1>5. RunningHasWorker'
  BY DEF RunningHasWorker
<1> QED
  BY <1>1, <1>2, <1>3, <1>4, <1>5

\* One draft changes: a new one, or one that nothing was published from and no
\* validation goes on of.
LEMMA DraftStep ==
    ASSUME JobInv, NEW d \in Drafts, NEW row,
           row \in NewRows,
           row.state = "open" => row.revision \in 1 .. MaxRevision,
           draft' = [draft EXCEPT ![d] = row],
           \/ draft[d].state = "absent"
           \/ draft[d].published = Nothing /\ ~Pending(d) /\ row.key = draft[d].key,
           UNCHANGED <<course, job, release, attempts, worker, stopping, operator, confirmed, crashes>>
    PROVE  JobInv'
<1> USE DEF JobInv
<1>1. /\ draft'[d] = row /\ \A e \in Drafts \ {d} : draft'[e] = draft[e]
      /\ draft[d].published = Nothing
      /\ row.published = Nothing /\ row.key \in Drafts /\ row.state # "absent"
  BY Types DEF DraftSound, NewRows
<1>2. JobTypeOK'
  <2>1. row \in DraftRows
    BY DEF NewRows, DraftRows
  <2> QED
    BY <2>1, Types, TypesNext DEF AttemptsAreLists
<1>3. (\A e \in Drafts : DraftSound(e))'
  BY <1>1 DEF DraftSound
<1>4. (\A j \in Jobs : JobSound(j))'
  BY <1>1 DEF JobSound
<1>5. AttemptsAreLists' /\ JobsInOrder' /\ OperatorSound' /\ WorkerSound' /\ BatchSound'
  BY DEF AttemptsAreLists, JobsInOrder, OperatorSound, WorkerSound, BatchSound
<1>6. PublicIsValidated' /\ OnePublicVersion' /\ DeletedIsClosed' /\ RunningHasWorker' /\ ArchivedIsQuiet'
  BY DEF PublicIsValidated, OnePublicVersion, DeletedIsClosed, RunningHasWorker, ArchivedIsQuiet,
         Latest, Public, PendingCheck, Unfinished
<1>7. PublishedAsValidated'
  BY <1>1 DEF PublishedAsValidated
<1>8. FrozenUnderValidation'
  <2>1. \A j \in Unfinished : job[j].draft \in Drafts /\ job[j].draft # d
    BY DEF FrozenUnderValidation, Unfinished, Pending, JobSound
  <2> QED
    BY <1>1, <2>1 DEF FrozenUnderValidation, Unfinished
<1> QED
  BY <1>2, <1>3, <1>4, <1>5, <1>6, <1>7, <1>8

LEMMA DraftSteps ==
    ASSUME JobInv, NEW d \in Drafts,
           \/ \E complete \in BOOLEAN : CreateDraft(d, complete) \/ EditDraft(d, complete)
           \/ DeleteDraft(d)
           \/ \E j \in Jobs : CopyRelease(j, d)
    PROVE  JobInv'
<1>1. draft \in [Drafts -> DraftRows]
  BY Types
<1>r. /\ 1 \in 1 .. MaxRevision
      /\ \A n \in 1 .. MaxRevision : n \in 1 .. (MaxRevision + 1)
  BY JobAssumption
<1>n. ASSUME NEW key \in Drafts, NEW c \in BOOLEAN
      PROVE  NewDraft(key, c) \in NewRows /\ NewDraft(key, c).revision \in 1 .. MaxRevision
  BY <1>r DEF NewRows, NewDraft, NoDraft
<1>2. ASSUME NEW complete \in BOOLEAN, CreateDraft(d, complete) PROVE JobInv'
  <2> DEFINE row == NewDraft(d, complete)
  <2>1. /\ draft[d].state = "absent" /\ draft' = [draft EXCEPT ![d] = row]
        /\ UNCHANGED <<course, job, release, attempts, worker, stopping, operator, confirmed, crashes>>
    BY <1>2 DEF CreateDraft
  <2>2. row \in NewRows /\ (row.state = "open" => row.revision \in 1 .. MaxRevision)
    BY <1>n
  <2> HIDE DEF row
  <2> QED
    BY <2>1, <2>2, DraftStep
<1>3. ASSUME NEW complete \in BOOLEAN, EditDraft(d, complete) PROVE JobInv'
  <2> DEFINE row == [draft[d] EXCEPT !.revision = draft[d].revision + 1, !.complete = complete]
  <2>1. draft[d].state = "open" /\ draft[d].revision < MaxRevision /\ draft[d].published = Nothing /\ ~Pending(d)
        /\ draft[d].key \in Drafts /\ draft[d].revision \in 1 .. MaxRevision
    BY <1>3 DEF EditDraft, Editable, JobInv, DraftSound
  <2>a. draft[d] \in NewRows /\ draft[d].revision + 1 \in 1 .. MaxRevision
    BY <1>1, <2>1, JobAssumption DEF NewRows, DraftRows
  <2>b. PICK n \in 1 .. MaxRevision : n = draft[d].revision + 1
    BY <2>a
  <2>c. row = [draft[d] EXCEPT !.revision = n, !.complete = complete]
    BY <2>b
  <2>2. row \in NewRows /\ row.key = draft[d].key /\ (row.state = "open" => row.revision \in 1 .. MaxRevision)
    BY <1>r, <2>a, <2>c DEF NewRows
  <2>3. [draft[d] EXCEPT !.revision = @ + 1, !.complete = complete] = row
    OBVIOUS
  <2>4. /\ draft' = [draft EXCEPT ![d] = row]
        /\ UNCHANGED <<course, job, release, attempts, worker, stopping, operator, confirmed, crashes>>
    BY <1>1, <1>3, <2>3 DEF EditDraft
  <2> HIDE DEF row
  <2> QED
    BY <2>1, <2>2, <2>4, DraftStep
<1>4. ASSUME DeleteDraft(d) PROVE JobInv'
  <2> DEFINE row == [draft[d] EXCEPT !.state = "deleted", !.revision = draft[d].revision + 1]
  <2>1. draft[d].state = "open" /\ draft[d].published = Nothing /\ ~Pending(d)
        /\ draft[d].key \in Drafts /\ draft[d].revision \in 1 .. MaxRevision
    BY <1>4 DEF DeleteDraft, Editable, JobInv, DraftSound
  <2>a. draft[d] \in NewRows /\ draft[d].revision + 1 \in 1 .. (MaxRevision + 1)
    BY <1>1, <2>1, JobAssumption DEF NewRows, DraftRows
  <2>b. PICK n \in 1 .. (MaxRevision + 1) : n = draft[d].revision + 1
    BY <2>a
  <2>c. row = [draft[d] EXCEPT !.state = "deleted", !.revision = n]
    BY <2>b
  <2>2. row \in NewRows /\ row.key = draft[d].key /\ (row.state = "open" => row.revision \in 1 .. MaxRevision)
    BY <1>r, <2>a, <2>c DEF NewRows
  <2>3. [draft[d] EXCEPT !.state = "deleted", !.revision = @ + 1] = row
    OBVIOUS
  <2>4. /\ draft' = [draft EXCEPT ![d] = row]
        /\ UNCHANGED <<course, job, release, attempts, worker, stopping, operator, confirmed, crashes>>
    BY <1>1, <1>4, <2>3 DEF DeleteDraft
  <2> HIDE DEF row
  <2> QED
    BY <2>1, <2>2, <2>4, DraftStep
<1>5. ASSUME NEW j \in Jobs, CopyRelease(j, d) PROVE JobInv'
  <2>1. PICK e \in Drafts :
           /\ draft[e].published = j
           /\ draft' = [draft EXCEPT ![d] = NewDraft(release[j].key, draft[e].complete)]
    BY <1>5 DEF CopyRelease
  <2> DEFINE row == NewDraft(release[j].key, draft[e].complete)
  <2>2. release[j].key \in Drafts
    <3>1. draft[e].published # Nothing
      BY <2>1, JobAssumption DEF Jobs
    <3> QED
      BY <2>1, <3>1 DEF JobInv, PublishedAsValidated, DraftSound
  <2>3. row \in NewRows /\ (row.state = "open" => row.revision \in 1 .. MaxRevision)
    <3>1. draft[e].complete \in BOOLEAN
      BY <1>1 DEF DraftRows
    <3> QED
      BY <1>n, <2>2, <3>1
  <2>4. /\ draft[d].state = "absent" /\ draft' = [draft EXCEPT ![d] = row]
        /\ UNCHANGED <<course, job, release, attempts, worker, stopping, operator, confirmed, crashes>>
    BY <1>5, <2>1 DEF CopyRelease
  <2> HIDE DEF row
  <2> QED
    BY <2>3, <2>4, DraftStep
<1> QED
  BY <1>2, <1>3, <1>4, <1>5

\* Jobs are numbered one after the other, so the next number is unused.
LEMMA NextJobIsNew ==
    ASSUME JobsInOrder, NextJob \in Jobs
    PROVE  /\ job[NextJob].status = "absent"
           /\ \A j \in Jobs : job[j].status # "absent" <=> j < NextJob
<1>1. PICK m \in 0 .. MaxJobs : \A j \in Jobs : job[j].status # "absent" <=> j <= m
  BY DEF JobsInOrder
<1>2. {j \in Jobs : job[j].status # "absent"} = 1 .. m
  BY <1>1, JobAssumption DEF Jobs
<1>3. Cardinality(1 .. m) = m
  BY FS_Interval
<1>4. NextJob = m + 1
  BY <1>2, <1>3 DEF NextJob
<1> QED
  BY <1>1, <1>4 DEF Jobs

LEMMA QueueStep ==
    ASSUME JobInv, NEW d \in Drafts, QueueCheck(d)
    PROVE  JobInv'
<1> USE DEF JobInv
<1>1. PICK n \in Jobs : n = NextJob
  BY DEF QueueCheck
<1>2. /\ job[n].status = "absent"
      /\ \A j \in Jobs : job[j].status # "absent" <=> j < n
  BY <1>1, NextJobIsNew
<1>3. /\ course # "archived" /\ draft[d].state = "open" /\ draft[d].revision \in 1 .. MaxRevision
      /\ ~\E j \in Jobs : /\ job[j].draft = d /\ job[j].revision = draft[d].revision
                          /\ job[j].status \in {"queued", "running", "succeeded"}
      /\ job' = [job EXCEPT ![n] = [status |-> "queued", draft |-> d,
                                    revision |-> draft[d].revision, saved |-> FALSE]]
      /\ UNCHANGED <<course, draft, release, attempts, worker, stopping, operator, confirmed, crashes>>
  BY <1>1 DEF QueueCheck, DraftSound
<1>4. /\ job'[n] = [status |-> "queued", draft |-> d, revision |-> draft[d].revision, saved |-> FALSE]
      /\ \A j \in Jobs \ {n} : job'[j] = job[j]
  BY <1>3 DEF JobTypeOK
<1>5. JobTypeOK'
  BY <1>3 DEF JobTypeOK
<1>6. (\A e \in Drafts : DraftSound(e))'
  BY <1>3 DEF DraftSound
<1>7. (\A j \in Jobs : JobSound(j))'
  <2>1. release[n].state = "absent"
    BY <1>2 DEF JobSound
  <2> QED
    BY <1>3, <1>4, <2>1 DEF JobSound
<1>8. JobsInOrder'
  <2>1. \A j \in Jobs : job'[j].status # "absent" <=> j <= n
    BY <1>2, <1>4 DEF Jobs
  <2>2. n \in 0 .. MaxJobs
    BY DEF Jobs
  <2> QED
    BY <2>1, <2>2 DEF JobsInOrder
<1>9. AttemptsAreLists' /\ OperatorSound' /\ BatchSound'
  BY <1>3 DEF AttemptsAreLists, OperatorSound, BatchSound
<1>10. WorkerSound' /\ RunningHasWorker'
  BY <1>2, <1>3, <1>4 DEF WorkerSound, RunningHasWorker
<1>11. PublicIsValidated' /\ OnePublicVersion' /\ DeletedIsClosed'
  BY <1>3 DEF PublicIsValidated, OnePublicVersion, DeletedIsClosed, Latest, Public, PendingCheck
<1>12. PublishedAsValidated'
  BY <1>2, <1>3, <1>4 DEF PublishedAsValidated, JobTypeOK
<1>13. FrozenUnderValidation'
  <2>1. Unfinished' = Unfinished \cup {n}
    BY <1>2, <1>4 DEF Unfinished
  <2>2. \A j \in Unfinished : job[j].draft # d
    BY <1>3 DEF FrozenUnderValidation, Unfinished
  <2>3. n \notin Unfinished
    BY <1>2 DEF Unfinished
  <2> QED
    BY <1>3, <1>4, <2>1, <2>2, <2>3 DEF FrozenUnderValidation, Unfinished
<1>14. ArchivedIsQuiet'
  BY <1>3 DEF ArchivedIsQuiet
<1> QED
  BY <1>5, <1>6, <1>7, <1>8, <1>9, <1>10, <1>11, <1>12, <1>13, <1>14

----------------------------------------------------------------------------
(* Releases. *)

\* The releases change, each in what students see of it: one may be shown if it
\* may, any may be hidden, and one that is closed may be deleted.
LEMMA ShownStep ==
    ASSUME JobInv,
           release' \in [Jobs -> ReleaseRows],
           \A j \in Jobs :
              /\ release'[j].key = release[j].key
              /\ release'[j].state = release[j].state
                    \/ (release'[j].state = "inactive" /\ release[j].state # "absent" /\ ~release'[j].ready)
              /\ release'[j].ready => \/ release[j].ready /\ release'[j].deleted = release[j].deleted
                                      \/ MayShow(j) /\ ~release'[j].deleted
              /\ release'[j].deleted => release[j].deleted \/ (MayDelete(j) /\ ~release'[j].ready),
           \A j, k \in Jobs : release'[j].ready /\ release'[k].ready /\ j # k =>
                                  release[j].ready \/ release[k].ready,
           UNCHANGED <<course, job, attempts, worker, stopping, operator, crashes>>,
           BatchSound'
    PROVE  /\ AttemptsAreLists' /\ JobsInOrder' /\ WorkerSound' /\ OperatorSound'
           /\ PublicIsValidated' /\ OnePublicVersion' /\ DeletedIsClosed'
           /\ RunningHasWorker' /\ ArchivedIsQuiet' /\ Unfinished' = Unfinished
           /\ draft' = draft => JobInv'
<1> USE DEF JobInv
<1>1. AttemptsAreLists' /\ JobsInOrder' /\ WorkerSound' /\ OperatorSound'
  BY DEF AttemptsAreLists, JobsInOrder, WorkerSound, OperatorSound
<1>2. RunningHasWorker' /\ ArchivedIsQuiet' /\ Unfinished' = Unfinished
  BY DEF RunningHasWorker, ArchivedIsQuiet, Unfinished
<1>3. PublicIsValidated'
  <2> SUFFICES ASSUME NEW j \in Jobs, release'[j].ready
               PROVE  release'[j].state = "active" /\ ~release'[j].deleted /\ Latest(j)' = "passed"
    BY DEF PublicIsValidated
  <2>1. release[j].state = "active" /\ ~release'[j].deleted /\ Latest(j) = "passed"
    BY DEF PublicIsValidated, MayShow
  <2> QED
    BY <2>1 DEF Latest
<1>4. OnePublicVersion'
  <2> SUFFICES ASSUME NEW j \in Jobs, NEW k \in Jobs, Public(j)', Public(k)', j # k,
                      release'[j].key = release'[k].key
               PROVE  FALSE
    BY DEF OnePublicVersion
  <2>1. release'[j].ready /\ release'[k].ready /\ release[j].key = release[k].key
    BY DEF Public
  <2>2. ASSUME NEW a \in Jobs, NEW b \in Jobs, a # b, release[a].ready, release'[b].ready,
               release[a].key = release[b].key
        PROVE  FALSE
    <3>1. Public(a)
      BY <2>2 DEF Public, PublicIsValidated
    <3>2. CASE release[b].ready
      BY <2>2, <3>1, <3>2 DEF Public, PublicIsValidated, OnePublicVersion
    <3>3. CASE MayShow(b)
      BY <2>2, <3>1, <3>3 DEF MayShow
    <3> QED
      BY <2>2, <3>2, <3>3
  <2> QED
    BY <2>1, <2>2
<1>5. DeletedIsClosed'
  <2> SUFFICES ASSUME NEW j \in Jobs, release'[j].deleted
               PROVE  ~release'[j].ready /\ release'[j].state = "inactive" /\ ~PendingCheck(j)'
    BY DEF DeletedIsClosed
  <2>1. release[j].state = "inactive" /\ ~PendingCheck(j) /\ ~release'[j].ready
    BY DEF DeletedIsClosed, MayDelete, MayShow
  <2> QED
    BY <2>1 DEF PendingCheck
<1>6. ASSUME draft' = draft PROVE JobInv'
  <2>1. JobTypeOK'
    BY <1>1, <1>6, Types, TypesNext
  <2>2. (\A d \in Drafts : DraftSound(d))' /\ (\A j \in Jobs : JobSound(j))'
    BY <1>6 DEF DraftSound, JobSound
  <2>3. PublishedAsValidated' /\ FrozenUnderValidation'
    BY <1>2, <1>6, Types DEF PublishedAsValidated, FrozenUnderValidation, DraftRows
  <2> QED
    BY <1>1, <1>2, <1>3, <1>4, <1>5, <2>1, <2>2, <2>3
<1> QED
  BY <1>1, <1>2, <1>3, <1>4, <1>5, <1>6

LEMMA PublishStep ==
    ASSUME JobInv, NEW d \in Drafts, Publish(d)
    PROVE  JobInv'
<1> USE DEF JobInv
<1>1. /\ course = "active" /\ draft[d].state = "open" /\ draft[d].published = Nothing
      /\ UNCHANGED <<course, job, attempts, worker, stopping, operator, confirmed, crashes>>
  BY DEF Publish
<1>2. PICK j \in Validated(d) : /\ MayShow(j)
                                /\ release' = [release EXCEPT ![j].ready = TRUE]
                                /\ draft' = [draft EXCEPT ![d].published = j]
  BY DEF Publish
<1>3. /\ j \in Jobs /\ job[j].draft = d /\ job[j].revision = draft[d].revision
      /\ job[j].status = "succeeded" /\ release[j].key = draft[d].key
      /\ release[j].state = "active" /\ ~release[j].deleted
  BY <1>2 DEF Validated, LastJob, MayShow, JobSound
<1>4. /\ release'[j] = [release[j] EXCEPT !.ready = TRUE]
      /\ \A k \in Jobs \ {j} : release'[k] = release[k]
      /\ DOMAIN release' = Jobs /\ release' = [k \in Jobs |-> release'[k]]
  BY <1>2, <1>3, Types
<1>5. /\ release'[j].ready /\ release'[j].state = "active" /\ ~release'[j].deleted
      /\ release'[j].key = release[j].key /\ release'[j] \in ReleaseRows
  BY <1>3, <1>4, Types DEF ReleaseRows
<1>5a. release' \in [Jobs -> ReleaseRows]
  BY <1>3, <1>4, <1>5, Types
<1>6. /\ draft'[d].published = j /\ draft'[d].state = draft[d].state
      /\ draft'[d].revision = draft[d].revision /\ draft'[d].key = draft[d].key
      /\ \A e \in Drafts \ {d} : draft'[e] = draft[e]
      /\ draft' \in [Drafts -> DraftRows]
  <2>1. /\ draft'[d] = [draft[d] EXCEPT !.published = j] /\ draft[d] \in DraftRows
        /\ \A e \in Drafts \ {d} : draft'[e] = draft[e]
        /\ draft' = [e \in Drafts |-> draft'[e]]
    BY <1>2, Types
  <2>2. /\ draft'[d].published = j /\ draft'[d].state = draft[d].state
        /\ draft'[d].revision = draft[d].revision /\ draft'[d].key = draft[d].key
        /\ draft'[d] \in DraftRows
    BY <1>3, <2>1 DEF DraftRows
  <2>3. draft' \in [Drafts -> DraftRows]
    <3>1. \A e \in Drafts : draft'[e] \in DraftRows
      BY <2>1, <2>2, Types
    <3>2. draft' = [e \in Drafts |-> draft'[e]]
      BY <2>1
    <3> QED
      BY <3>1, <3>2
  <2> QED
    BY <2>1, <2>2, <2>3
<1>7. BatchSound'
  BY <1>1 DEF BatchSound
<1>8. /\ AttemptsAreLists' /\ JobsInOrder' /\ WorkerSound' /\ OperatorSound'
      /\ PublicIsValidated' /\ OnePublicVersion' /\ DeletedIsClosed'
      /\ RunningHasWorker' /\ ArchivedIsQuiet' /\ Unfinished' = Unfinished
  <2>1. \A k \in Jobs :
              /\ release'[k].key = release[k].key
              /\ release'[k].state = release[k].state
              /\ release'[k].ready => \/ release[k].ready /\ release'[k].deleted = release[k].deleted
                                      \/ MayShow(k) /\ ~release'[k].deleted
              /\ release'[k].deleted => release[k].deleted
    BY <1>2, <1>3, <1>4, <1>5
  <2>2. \A k, l \in Jobs : release'[k].ready /\ release'[l].ready /\ k # l =>
                                  release[k].ready \/ release[l].ready
    BY <1>4
  <2> QED
    BY <1>1, <1>5a, <1>7, <2>1, <2>2, ShownStep
<1>9. JobTypeOK'
  BY <1>1, <1>5a, <1>6, <1>8, Types, TypesNext
<1>10. (\A e \in Drafts : DraftSound(e))' /\ (\A k \in Jobs : JobSound(k))'
  <2>1. (\A e \in Drafts : DraftSound(e))'
    BY <1>1, <1>6 DEF DraftSound
  <2>2. \A e \in Drafts : draft'[e].state = draft[e].state /\ draft'[e].key = draft[e].key
    BY <1>6
  <2>3. \A k \in Jobs : release'[k].state = release[k].state /\ release'[k].key = release[k].key
    BY <1>3, <1>4, <1>5
  <2>4. (\A k \in Jobs : JobSound(k))'
    BY <1>1, <2>2, <2>3 DEF JobSound
  <2> QED
    BY <2>1, <2>4
<1>11. PublishedAsValidated'
  <2> SUFFICES ASSUME NEW e \in Drafts, draft'[e].published # Nothing
               PROVE  LET n == draft'[e].published
                      IN  /\ draft'[e].state = "open"
                          /\ job[n].draft = e /\ job[n].revision = draft'[e].revision
                          /\ job[n].status = "succeeded" /\ release'[n].key = draft'[e].key
    BY <1>1 DEF PublishedAsValidated
  <2>1. CASE e = d
    BY <1>1, <1>3, <1>5, <1>6, <2>1
  <2>2. CASE e # d
    <3>1. draft'[e] = draft[e] /\ draft[e].published \in Jobs
      BY <1>6, <2>2, Types DEF DraftRows
    <3>2. release'[draft[e].published].key = release[draft[e].published].key
      BY <1>4, <1>5, <3>1
    <3> QED
      BY <3>1, <3>2 DEF PublishedAsValidated
  <2> QED
    BY <2>1, <2>2
<1>12. FrozenUnderValidation'
  BY <1>1, <1>6, <1>8 DEF FrozenUnderValidation, Unfinished, JobSound
<1> QED
  BY <1>7, <1>8, <1>9, <1>10, <1>11, <1>12

\* One release changes.
LEMMA OneReleaseStep ==
    ASSUME JobInv, NEW j \in Jobs, release[j].state # "absent",
           NEW row \in ReleaseRows,
           row.key = release[j].key,
           row.state = release[j].state \/ (row.state = "inactive" /\ ~row.ready),
           row.ready => \/ release[j].ready /\ row.deleted = release[j].deleted
                        \/ MayShow(j) /\ ~row.deleted,
           row.deleted => release[j].deleted \/ (MayDelete(j) /\ ~row.ready),
           ReleaseStep([release EXCEPT ![j] = row])
    PROVE  JobInv'
<1>1. release \in [Jobs -> ReleaseRows] /\ row \in ReleaseRows
  BY Types
<1>2. /\ release' = [release EXCEPT ![j] = row]
      /\ UNCHANGED <<course, draft, job, attempts, worker, stopping, operator, confirmed, crashes>>
  BY DEF ReleaseStep
<1>3. /\ release'[j] = row /\ \A k \in Jobs \ {j} : release'[k] = release[k]
      /\ release' \in [Jobs -> ReleaseRows]
  BY <1>1, <1>2
<1>4. BatchSound'
  BY <1>2 DEF JobInv, BatchSound
<1>5. \A k \in Jobs :
         /\ release'[k].key = release[k].key
         /\ release'[k].state = release[k].state
               \/ (release'[k].state = "inactive" /\ release[k].state # "absent" /\ ~release'[k].ready)
         /\ release'[k].ready => \/ release[k].ready /\ release'[k].deleted = release[k].deleted
                                 \/ MayShow(k) /\ ~release'[k].deleted
         /\ release'[k].deleted => release[k].deleted \/ (MayDelete(k) /\ ~release'[k].ready)
  BY <1>3
<1>6. \A k, l \in Jobs : release'[k].ready /\ release'[l].ready /\ k # l =>
                            release[k].ready \/ release[l].ready
  BY <1>3
<1> QED
  BY <1>2, <1>3, <1>4, <1>5, <1>6, ShownStep

LEMMA ReleaseSteps ==
    ASSUME JobInv, NEW j \in Jobs,
           \/ HideRelease(j) \/ ArchiveRelease(j) \/ DeleteRelease(j) \/ RestoreRelease(j)
           \/ Accept(j) \/ OperatorShows(j) \/ OperatorHides(j)
    PROVE  JobInv'
<1>1. /\ release[j].ready => release[j].state = "active" /\ ~release[j].deleted
      /\ release[j].deleted => ~release[j].ready /\ release[j].state = "inactive"
  BY DEF JobInv, PublicIsValidated, DeletedIsClosed
<1>2. release[j].state # "absent"
  BY DEF HideRelease, ArchiveRelease, DeleteRelease, RestoreRelease, Accept, OperatorShows, OperatorHides,
         Manageable, Public
<1>a. release \in [Jobs -> ReleaseRows] /\ release[j] \in ReleaseRows
  BY Types
<1>3. CASE HideRelease(j) \/ OperatorHides(j)
  <2> DEFINE row == [release[j] EXCEPT !.ready = FALSE]
  <2>1. ReleaseStep([release EXCEPT ![j] = row])
    BY <1>3 DEF HideRelease, OperatorHides
  <2>2. /\ row \in ReleaseRows /\ row.key = release[j].key /\ row.state = release[j].state
        /\ ~row.ready /\ row.deleted = release[j].deleted
    BY <1>a DEF ReleaseRows
  <2> HIDE DEF row
  <2> QED
    BY <1>2, <2>1, <2>2, OneReleaseStep
<1>4. CASE ArchiveRelease(j)
  <2> DEFINE row == [release[j] EXCEPT !.state = "inactive", !.ready = FALSE]
  <2>1. ReleaseStep([release EXCEPT ![j] = row])
    BY <1>4 DEF ArchiveRelease, Archived
  <2>2. /\ row \in ReleaseRows /\ row.key = release[j].key /\ row.state = "inactive"
        /\ ~row.ready /\ row.deleted = release[j].deleted
    BY <1>a DEF ReleaseRows
  <2> HIDE DEF row
  <2> QED
    BY <1>2, <2>1, <2>2, OneReleaseStep
<1>5. CASE DeleteRelease(j)
  <2> DEFINE row == [release[j] EXCEPT !.deleted = TRUE]
  <2>1. ReleaseStep([release EXCEPT ![j] = row]) /\ MayDelete(j) /\ ~release[j].ready
    BY <1>5 DEF DeleteRelease, MayDelete
  <2>2. /\ row \in ReleaseRows /\ row.key = release[j].key /\ row.state = release[j].state
        /\ row.ready = release[j].ready /\ row.deleted
    BY <1>a DEF ReleaseRows
  <2> HIDE DEF row
  <2> QED
    BY <1>2, <2>1, <2>2, OneReleaseStep
<1>6. CASE RestoreRelease(j)
  <2> DEFINE row == [release[j] EXCEPT !.deleted = FALSE]
  <2>1. ReleaseStep([release EXCEPT ![j] = row]) /\ ~release[j].ready
    BY <1>1, <1>6 DEF RestoreRelease
  <2>2. /\ row \in ReleaseRows /\ row.key = release[j].key /\ row.state = release[j].state
        /\ row.ready = release[j].ready /\ ~row.deleted
    BY <1>a DEF ReleaseRows
  <2> HIDE DEF row
  <2> QED
    BY <1>2, <2>1, <2>2, OneReleaseStep
<1>7. CASE Accept(j)
  <2> DEFINE row == [release[j] EXCEPT !.accepted = TRUE]
  <2>1. ReleaseStep([release EXCEPT ![j] = row])
    BY <1>7 DEF Accept
  <2>2. /\ row \in ReleaseRows /\ row.key = release[j].key /\ row.state = release[j].state
        /\ row.ready = release[j].ready /\ row.deleted = release[j].deleted
    BY <1>a DEF ReleaseRows
  <2> HIDE DEF row
  <2> QED
    BY <1>1, <1>2, <2>1, <2>2, OneReleaseStep
<1>8. CASE OperatorShows(j)
  <2> DEFINE row == [release[j] EXCEPT !.ready = TRUE]
  <2>1. ReleaseStep([release EXCEPT ![j] = row]) /\ MayShow(j) /\ ~release[j].deleted
    BY <1>8 DEF OperatorShows, MayShow
  <2>2. /\ row \in ReleaseRows /\ row.key = release[j].key /\ row.state = release[j].state
        /\ row.ready /\ row.deleted = release[j].deleted
    BY <1>a DEF ReleaseRows
  <2> HIDE DEF row
  <2> QED
    BY <1>2, <2>1, <2>2, OneReleaseStep
<1> QED
  BY <1>3, <1>4, <1>5, <1>6, <1>7, <1>8

LEMMA BatchStep ==
    ASSUME JobInv, ApplyBatch
    PROVE  JobInv'
<1> DEFINE S == DOMAIN confirmed.seen
<1>1. /\ confirmed.action \in {"archive", "delete"}
      /\ \A j \in S : Selectable(confirmed.action, j)
      /\ release' = [j \in Jobs |->
                 IF j \notin S THEN release[j]
                 ELSE IF confirmed.action = "archive" THEN Archived(release[j])
                 ELSE [release[j] EXCEPT !.deleted = TRUE]]
      /\ confirmed' = Nothing
      /\ UNCHANGED <<course, draft, job, attempts, worker, stopping, operator, crashes>>
  BY DEF ApplyBatch, JobInv, BatchSound
<1> HIDE DEF S
<1>2. release \in [Jobs -> ReleaseRows]
  BY Types
<1>3. \A j \in Jobs : \/ release'[j] = release[j]
                      \/ /\ release[j].state # "absent"
                         /\ release'[j] = [release[j] EXCEPT !.state = "inactive", !.ready = FALSE]
                      \/ /\ MayDelete(j)
                         /\ release'[j] = [release[j] EXCEPT !.deleted = TRUE]
  BY <1>1 DEF Archived, Selectable, Manageable, MayDelete
<1>4. release' \in [Jobs -> ReleaseRows]
  <2>1. \A r \in ReleaseRows : /\ [r EXCEPT !.state = "inactive", !.ready = FALSE] \in ReleaseRows
                               /\ [r EXCEPT !.deleted = TRUE] \in ReleaseRows
    BY DEF ReleaseRows
  <2>2. \A j \in Jobs : release'[j] \in ReleaseRows
    BY <1>2, <1>3, <2>1
  <2>3. release' = [j \in Jobs |-> release'[j]]
    BY <1>1
  <2> QED
    BY <2>2, <2>3
<1>5. BatchSound'
  BY <1>1 DEF BatchSound
<1>6. \A k \in Jobs :
         /\ release'[k].key = release[k].key
         /\ release'[k].state = release[k].state
               \/ (release'[k].state = "inactive" /\ release[k].state # "absent" /\ ~release'[k].ready)
         /\ release'[k].ready => release[k].ready /\ release'[k].deleted = release[k].deleted
         /\ release'[k].deleted => release[k].deleted \/ (MayDelete(k) /\ ~release'[k].ready)
  <2> SUFFICES ASSUME NEW k \in Jobs
               PROVE  /\ release'[k].key = release[k].key
                      /\ release'[k].state = release[k].state
                            \/ (release'[k].state = "inactive" /\ release[k].state # "absent" /\ ~release'[k].ready)
                      /\ release'[k].ready => release[k].ready /\ release'[k].deleted = release[k].deleted
                      /\ release'[k].deleted => release[k].deleted \/ (MayDelete(k) /\ ~release'[k].ready)
    OBVIOUS
  <2>1. release[k] \in ReleaseRows
    BY <1>2
  <2>2. CASE release'[k] = release[k]
    BY <2>2, <1>1 DEF JobInv, DeletedIsClosed
  <2>3. CASE /\ release[k].state # "absent"
             /\ release'[k] = [release[k] EXCEPT !.state = "inactive", !.ready = FALSE]
    BY <2>1, <2>3 DEF ReleaseRows
  <2>4. CASE MayDelete(k) /\ release'[k] = [release[k] EXCEPT !.deleted = TRUE]
    BY <2>1, <2>4 DEF ReleaseRows, MayDelete
  <2> QED
    BY <1>3, <2>2, <2>3, <2>4
<1>7. \A k, l \in Jobs : release'[k].ready /\ release'[l].ready /\ k # l =>
                            release[k].ready \/ release[l].ready
  BY <1>6
<1> QED
  BY <1>1, <1>4, <1>5, <1>6, <1>7, ShownStep

----------------------------------------------------------------------------
(* Checks and jobs. *)

\* Checks begin and end, but none of a release that students see or that is deleted.
ChecksGoOn ==
    \A j \in Jobs : /\ (release[j].ready /\ Latest(j) = "passed") => Latest(j)' = "passed"
                    /\ (release[j].deleted /\ ~PendingCheck(j)) => ~PendingCheck(j)'

\* A job is begun once and ended once.
JobsGoOn ==
    \A j \in Jobs :
        /\ job'[j].draft = job[j].draft /\ job'[j].revision = job[j].revision
        /\ \/ job'[j].status = job[j].status
           \/ job[j].status = "queued" /\ job'[j].status = "running"
           \/ job[j].status = "running" /\ job'[j].status \in {"succeeded", "failed", "interrupted"}

LEMMA WorkStep ==
    ASSUME JobInv, JobTypeOK', AttemptsAreLists', WorkerSound', OperatorSound', RunningHasWorker',
           UNCHANGED <<course, draft, release, confirmed>>, ChecksGoOn, JobsGoOn
    PROVE  JobInv'
<1> USE DEF JobInv, ChecksGoOn, JobsGoOn
<1>1. (\A d \in Drafts : DraftSound(d))' /\ (\A j \in Jobs : JobSound(j))'
  <2>1. (\A d \in Drafts : DraftSound(d))'
    BY DEF DraftSound
  <2>2. (\A j \in Jobs : JobSound(j))'
    BY DEF JobSound
  <2> QED
    BY <2>1, <2>2
<1>2. JobsInOrder' /\ BatchSound'
  <2>1. \A j \in Jobs : job'[j].status # "absent" <=> job[j].status # "absent"
    OBVIOUS
  <2> QED
    BY <2>1 DEF JobsInOrder, BatchSound
<1>3. PublicIsValidated' /\ OnePublicVersion' /\ DeletedIsClosed'
  BY DEF PublicIsValidated, OnePublicVersion, DeletedIsClosed, Public
<1>4. PublishedAsValidated'
  <2>1. \A d \in Drafts : draft[d].published # Nothing => draft[d].published \in Jobs
    BY Types DEF DraftRows
  <2> QED
    BY <2>1 DEF PublishedAsValidated
<1>5. Unfinished' \subseteq Unfinished
  BY DEF Unfinished
<1>6. FrozenUnderValidation' /\ ArchivedIsQuiet'
  BY <1>5 DEF FrozenUnderValidation, ArchivedIsQuiet, Unfinished
<1> QED
  BY <1>1, <1>2, <1>3, <1>4, <1>6

\* A check that begins; begin_bundle_release_check takes no release students see
\* and none that is deleted.
LEMMA BeginsOne ==
    ASSUME JobInv, NEW j \in Jobs, MayCheck(j), Len(attempts[j]) < MaxTries, attempts' = Began(j),
           UNCHANGED release
    PROVE  /\ AttemptsAreLists'
           /\ \A k \in Jobs : Len(attempts'[k]) \in 0 .. MaxTries
           /\ \A k \in Jobs, i \in 1 .. MaxTries : i \in 1 .. Len(attempts[k]) => i \in 1 .. Len(attempts'[k])
           /\ Len(attempts[j]) + 1 \in 1 .. Len(attempts'[j])
           /\ ChecksGoOn
<1>1. /\ attempts \in [Jobs -> Seq(Outcomes)] /\ Len(attempts[j]) \in Nat
      /\ \A k \in Jobs : Len(attempts[k]) \in 0 .. MaxTries
  BY Types
<1>2. /\ attempts'[j] = Append(attempts[j], "pending")
      /\ \A k \in Jobs \ {j} : attempts'[k] = attempts[k]
      /\ attempts' \in [Jobs -> Seq(Outcomes)]
  BY <1>1 DEF Began, Outcomes
<1>3. Len(attempts'[j]) = Len(attempts[j]) + 1
  BY <1>1, <1>2
<1>4. ~release[j].ready /\ ~release[j].deleted
  BY DEF MayCheck
<1>5. \A k \in Jobs : Len(attempts'[k]) \in 0 .. MaxTries
  <2>1. MaxTries \in Nat /\ Len(attempts[j]) + 1 \in 0 .. MaxTries
    BY <1>1, JobAssumption
  <2> QED
    BY <1>1, <1>2, <1>3, <2>1
<1>6. \A k \in Jobs, i \in 1 .. MaxTries : i \in 1 .. Len(attempts[k]) => i \in 1 .. Len(attempts'[k])
  BY <1>1, <1>2, <1>3
<1>7. ChecksGoOn
  BY <1>2, <1>4 DEF ChecksGoOn, Latest, PendingCheck
<1> QED
  BY <1>1, <1>2, <1>3, <1>5, <1>6, <1>7 DEF AttemptsAreLists

\* A check that ends: only one that is pending gets an outcome.
LEMMA EndsOne ==
    ASSUME JobInv, NEW j \in Jobs, NEW i \in 1 .. Len(attempts[j]), NEW passed \in BOOLEAN,
           attempts' = Finished(j, i, passed), UNCHANGED release
    PROVE  /\ AttemptsAreLists'
           /\ \A k \in Jobs : Len(attempts'[k]) = Len(attempts[k])
           /\ ChecksGoOn
<1>1. attempts \in [Jobs -> Seq(Outcomes)]
  BY DEF JobInv, AttemptsAreLists
<1>2. CASE attempts[j][i] # "pending"
  <2>1. attempts' = attempts
    BY <1>2 DEF Finished
  <2> QED
    BY <1>1, <2>1 DEF AttemptsAreLists, ChecksGoOn, Latest, PendingCheck
<1>3. CASE attempts[j][i] = "pending"
  <2>1. PICK outcome \in {"passed", "failed"} : attempts' = [attempts EXCEPT ![j][i] = outcome]
    BY <1>3 DEF Finished
  <2>2. /\ attempts'[j] = [attempts[j] EXCEPT ![i] = outcome]
        /\ \A k \in Jobs \ {j} : attempts'[k] = attempts[k]
    BY <1>1, <2>1
  <2>3. /\ attempts'[j] \in Seq(Outcomes) /\ Len(attempts'[j]) = Len(attempts[j])
        /\ attempts'[j][i] = outcome
        /\ \A k \in 1 .. Len(attempts[j]) : k # i => attempts'[j][k] = attempts[j][k]
    BY <1>1, <2>2 DEF Outcomes
  <2>4. AttemptsAreLists' /\ \A k \in Jobs : Len(attempts'[k]) = Len(attempts[k])
    <3>1. attempts' \in [Jobs -> Seq(Outcomes)]
      BY <1>1, <2>1, <2>2, <2>3
    <3> QED
      BY <2>2, <2>3, <3>1 DEF AttemptsAreLists
  <2>5. Latest(j) = "passed" => Latest(j)' = "passed"
    <3>1. attempts[j] # <<>> /\ attempts'[j] # <<>> /\ Len(attempts[j]) \in 1 .. Len(attempts[j])
      BY <1>1, <2>3
    <3> QED
      BY <1>3, <2>3, <3>1 DEF Latest
  <2>6. PendingCheck(j)' => PendingCheck(j)
    BY <1>1, <2>3 DEF PendingCheck
  <2>7. \A k \in Jobs \ {j} : Latest(k)' = Latest(k) /\ (PendingCheck(k)' <=> PendingCheck(k))
    BY <2>2 DEF Latest, PendingCheck
  <2> QED
    BY <2>4, <2>5, <2>6, <2>7 DEF ChecksGoOn
<1> QED
  BY <1>2, <1>3

LEMMA OperatorSteps ==
    ASSUME JobInv,
           \/ \E j \in Jobs : BeginOperatorCheck(j)
           \/ \E passed \in BOOLEAN : EndOperatorCheck(passed)
    PROVE  JobInv'
<1>1. ASSUME NEW j \in Jobs, BeginOperatorCheck(j) PROVE JobInv'
  <2>1. /\ MayCheck(j) /\ Len(attempts[j]) < MaxTries /\ attempts' = Began(j)
        /\ operator' = <<j, Len(attempts[j]) + 1>>
        /\ UNCHANGED <<course, draft, confirmed, job, release, worker, stopping, crashes>>
    BY <1>1 DEF BeginOperatorCheck, deskVars
  <2>2. /\ AttemptsAreLists'
        /\ \A k \in Jobs : Len(attempts'[k]) \in 0 .. MaxTries
        /\ \A k \in Jobs, i \in 1 .. MaxTries : i \in 1 .. Len(attempts[k]) => i \in 1 .. Len(attempts'[k])
        /\ Len(attempts[j]) + 1 \in 1 .. Len(attempts'[j])
        /\ ChecksGoOn
    BY <2>1, BeginsOne
  <2>3. JobTypeOK'
    BY <2>1, <2>2, Types, TypesNext
  <2>4. WorkerSound' /\ RunningHasWorker'
    <3>1. worker.job \in Jobs => \A i \in 1 .. Len(attempts[worker.job]) : i \in 1 .. Len(attempts'[worker.job])
      BY <2>2, Types, JobAssumption
    <3> QED
      BY <2>1, <3>1 DEF JobInv, WorkerSound, RunningHasWorker
  <2>5. OperatorSound'
    BY <2>1, <2>2 DEF OperatorSound
  <2> QED
    BY <2>1, <2>2, <2>3, <2>4, <2>5, WorkStep DEF JobsGoOn
<1>2. ASSUME NEW passed \in BOOLEAN, EndOperatorCheck(passed) PROVE JobInv'
  <2> DEFINE j == operator[1]
             i == operator[2]
  <2>1. /\ j \in Jobs /\ i \in 1 .. Len(attempts[j])
        /\ attempts' = Finished(j, i, passed) /\ operator' = Nothing
        /\ UNCHANGED <<course, draft, confirmed, job, release, worker, stopping, crashes>>
    BY <1>2 DEF EndOperatorCheck, deskVars, JobInv, OperatorSound
  <2> HIDE DEF j, i
  <2>2. /\ AttemptsAreLists'
        /\ \A k \in Jobs : Len(attempts'[k]) = Len(attempts[k])
        /\ ChecksGoOn
    BY <2>1, EndsOne
  <2>3. JobTypeOK'
    BY <2>1, <2>2, Types, TypesNext
  <2>4. WorkerSound' /\ RunningHasWorker' /\ OperatorSound'
    BY <2>1, <2>2 DEF JobInv, WorkerSound, RunningHasWorker, OperatorSound
  <2> QED
    BY <2>1, <2>2, <2>3, <2>4, WorkStep DEF JobsGoOn
<1> QED
  BY <1>1, <1>2

\* start() closes what the last worker left: its running job, and the checks that
\* job had begun.
LEMMA StartStep ==
    ASSUME JobInv, Start
    PROVE  JobInv'
<1>1. /\ worker.at = "off"
      /\ attempts' = [j \in Jobs |->
            IF job[j].status = "running" /\ job[j].saved
            THEN [i \in DOMAIN attempts[j] |->
                     IF attempts[j][i] = "pending" THEN "failed" ELSE attempts[j][i]]
            ELSE attempts[j]]
      /\ job' = [j \in Jobs |-> IF job[j].status = "running"
                                THEN [job[j] EXCEPT !.status = "interrupted"] ELSE job[j]]
      /\ worker' = Resting /\ stopping' = FALSE
      /\ UNCHANGED <<course, draft, confirmed, release, operator, crashes>>
  BY DEF Start, Interrupted, deskVars
<1>2. attempts \in [Jobs -> Seq(Outcomes)]
  BY DEF JobInv, AttemptsAreLists
<1>3. ASSUME NEW j \in Jobs
      PROVE  /\ attempts'[j] \in Seq(Outcomes) /\ Len(attempts'[j]) = Len(attempts[j])
             /\ Latest(j) = "passed" => Latest(j)' = "passed"
             /\ PendingCheck(j)' => PendingCheck(j)
  <2>1. CASE attempts'[j] = attempts[j]
    BY <1>2, <2>1 DEF Latest, PendingCheck
  <2>2. CASE attempts'[j] = [i \in DOMAIN attempts[j] |->
                     IF attempts[j][i] = "pending" THEN "failed" ELSE attempts[j][i]]
    <3>1. attempts[j] \in Seq(Outcomes) /\ DOMAIN attempts[j] = 1 .. Len(attempts[j])
          /\ Len(attempts[j]) \in Nat
      BY <1>2
    <3>2. /\ DOMAIN attempts'[j] = 1 .. Len(attempts[j])
          /\ \A i \in 1 .. Len(attempts[j]) :
                attempts'[j][i] = IF attempts[j][i] = "pending" THEN "failed" ELSE attempts[j][i]
      BY <2>2, <3>1
    <3>3. attempts'[j] \in [1 .. Len(attempts[j]) -> Outcomes]
      BY <2>2, <3>1 DEF Outcomes
    <3>4. attempts'[j] \in Seq(Outcomes) /\ Len(attempts'[j]) = Len(attempts[j])
      BY <3>1, <3>2, <3>3
    <3>5. PendingCheck(j)' => PendingCheck(j)
      BY <3>1, <3>2 DEF PendingCheck
    <3>6. ASSUME Latest(j) = "passed" PROVE Latest(j)' = "passed"
      <4>1. attempts[j] # <<>> /\ attempts[j][Len(attempts[j])] = "passed"
        BY <3>6, JobAssumption DEF Latest
      <4>2. Len(attempts[j]) \in 1 .. Len(attempts[j])
        BY <3>1, <4>1
      <4>3. attempts'[j] # <<>>
        BY <3>4, <4>2
      <4> QED
        BY <3>2, <3>4, <4>1, <4>2, <4>3 DEF Latest
    <3> QED
      BY <3>4, <3>5, <3>6
  <2> QED
    BY <1>1, <2>1, <2>2
<1>4. AttemptsAreLists' /\ \A k \in Jobs : Len(attempts'[k]) = Len(attempts[k])
  <2>1. attempts' = [j \in Jobs |-> attempts'[j]]
    BY <1>1
  <2> QED
    BY <1>3, <2>1 DEF AttemptsAreLists
<1>5. /\ JobsGoOn /\ job' \in [Jobs -> JobRows]
      /\ \A j \in Jobs : job'[j].status # "running"
  <2>1. \A r \in JobRows : /\ [r EXCEPT !.status = "interrupted"] \in JobRows
                           /\ [r EXCEPT !.status = "interrupted"].status = "interrupted"
                           /\ [r EXCEPT !.status = "interrupted"].draft = r.draft
                           /\ [r EXCEPT !.status = "interrupted"].revision = r.revision
    BY DEF JobRows
  <2>2. \A j \in Jobs : job[j] \in JobRows
    BY Types
  <2> QED
    BY <1>1, <2>1, <2>2 DEF JobsGoOn
<1>6. JobTypeOK'
  <2>1. Resting \in WorkerStates
    BY JobAssumption DEF Resting, WorkerStates
  <2> QED
    BY <1>1, <1>4, <1>5, <2>1, Types, TypesNext
<1>7. WorkerSound' /\ RunningHasWorker' /\ OperatorSound'
  <2>1. OperatorSound'
    BY <1>1, <1>4 DEF JobInv, OperatorSound
  <2> QED
    BY <1>1, <1>5, <2>1 DEF WorkerSound, RunningHasWorker, Resting
<1>8. ChecksGoOn
  BY <1>1, <1>3 DEF ChecksGoOn
<1> QED
  BY <1>1, <1>4, <1>5, <1>6, <1>7, <1>8, WorkStep

LEMMA WorkerChecks ==
    ASSUME JobInv, BeginCheck \/ \E passed \in BOOLEAN : EndCheck(passed)
    PROVE  JobInv'
<1> DEFINE j == worker.job
<1>1. j \in Jobs /\ job[j].status = "running"
  BY DEF BeginCheck, EndCheck, JobInv, WorkerSound
<1>2. CASE BeginCheck
  <2>1. /\ MayCheck(j) /\ Len(attempts[j]) < MaxTries /\ attempts' = Began(j)
        /\ worker' = [worker EXCEPT !.at = "checking", !.check = Len(attempts[j]) + 1]
        /\ UNCHANGED <<course, draft, confirmed, job, release, stopping, operator, crashes>>
    BY <1>2 DEF BeginCheck, deskVars
  <2>2. worker'.at = "checking" /\ worker'.job = j /\ worker'.check = Len(attempts[j]) + 1
    BY <2>1, Types DEF WorkerStates
  <2> HIDE DEF j
  <2>3. /\ AttemptsAreLists'
        /\ \A k \in Jobs : Len(attempts'[k]) \in 0 .. MaxTries
        /\ \A k \in Jobs, i \in 1 .. MaxTries : i \in 1 .. Len(attempts[k]) => i \in 1 .. Len(attempts'[k])
        /\ Len(attempts[j]) + 1 \in 1 .. Len(attempts'[j])
        /\ ChecksGoOn
    BY <1>1, <2>1, BeginsOne
  <2>4. JobTypeOK'
    <3>1. Len(attempts[j]) + 1 \in 0 .. MaxTries
      BY <1>1, <2>1, Types, JobAssumption
    <3>2. worker' \in WorkerStates
      BY <2>1, <3>1, Types DEF WorkerStates
    <3> QED
      BY <2>1, <2>3, <3>2, Types, TypesNext
  <2>5. WorkerSound'
    BY <1>1, <2>1, <2>2, <2>3 DEF WorkerSound
  <2>6. RunningHasWorker'
    BY <1>2, <2>1, <2>2 DEF JobInv, RunningHasWorker, BeginCheck, j
  <2>7. OperatorSound'
    <3>1. \A k \in Jobs : Len(attempts[k]) \in 0 .. MaxTries
      BY Types
    <3> QED
      BY <2>1, <2>3, <3>1, JobAssumption DEF JobInv, OperatorSound
  <2> QED
    BY <2>1, <2>3, <2>4, <2>5, <2>6, <2>7, WorkStep DEF JobsGoOn
<1>3. ASSUME NEW passed \in BOOLEAN, EndCheck(passed) PROVE JobInv'
  <2>1. /\ worker.at = "checking" /\ worker.check \in 1 .. Len(attempts[j])
        /\ attempts' = Finished(j, worker.check, passed)
        /\ UNCHANGED <<course, draft, confirmed, job, release, stopping, operator, crashes>>
    BY <1>3 DEF EndCheck, deskVars, JobInv, WorkerSound
  <2>2. PICK good \in BOOLEAN : worker' = [worker EXCEPT !.at = "finishing", !.good = good]
    BY <1>3 DEF EndCheck
  <2>3. worker'.at = "finishing" /\ worker'.job = j /\ worker' \in WorkerStates
    BY <2>2, Types DEF WorkerStates
  <2> HIDE DEF j
  <2>4. /\ AttemptsAreLists'
        /\ \A k \in Jobs : Len(attempts'[k]) = Len(attempts[k])
        /\ ChecksGoOn
    BY <1>1, <2>1, EndsOne
  <2>5. JobTypeOK'
    BY <2>1, <2>3, <2>4, Types, TypesNext
  <2>6. WorkerSound' /\ OperatorSound'
    BY <1>1, <2>1, <2>3, <2>4 DEF JobInv, WorkerSound, OperatorSound
  <2>7. RunningHasWorker'
    BY <2>1, <2>3 DEF JobInv, RunningHasWorker, j
  <2> QED
    BY <2>1, <2>4, <2>5, <2>6, <2>7, WorkStep DEF JobsGoOn
<1> QED
  BY <1>2, <1>3

\* The release of a running job is new to students and to the draft's page.
LEMMA RegisterStep ==
    ASSUME JobInv, Register
    PROVE  JobInv'
<1> USE DEF JobInv
<1> DEFINE j == worker.job
           d == job[j].draft
           row == [NoRelease EXCEPT !.state = "active", !.key = draft[d].key]
<1>1. /\ j \in Jobs /\ job[j].status = "running" /\ d \in Drafts /\ draft[d].state = "open"
      /\ draft[d].key \in Drafts
      /\ release' = [release EXCEPT ![j] = row]
      /\ worker' = [worker EXCEPT !.at = "registered"] /\ worker.at = "claimed"
      /\ UNCHANGED <<course, draft, confirmed, job, attempts, stopping, operator, crashes>>
  <2>1. worker.at = "claimed" /\ draft[d].state = "open" /\ worker' = [worker EXCEPT !.at = "registered"]
        /\ UNCHANGED <<course, draft, confirmed, job, attempts, stopping, operator, crashes>>
    BY DEF Register, deskVars
  <2>2. j \in Jobs /\ job[j].status = "running"
    BY <2>1 DEF WorkerSound
  <2>3. d \in Drafts /\ draft[d].key \in Drafts
    BY <2>1, <2>2 DEF JobSound, DraftSound
  <2>5. release' = [release EXCEPT ![j] = row]
    BY DEF Register
  <2> QED
    BY <2>1, <2>2, <2>3, <2>5
<1>2. worker'.at = "registered" /\ worker'.job = j /\ worker' \in WorkerStates
  BY <1>1, Types DEF WorkerStates
<1>3. /\ release'[j] = row /\ row \in ReleaseRows
      /\ ~row.ready /\ ~row.deleted /\ row.key = draft[d].key /\ row.state = "active"
      /\ \A k \in Jobs \ {j} : release'[k] = release[k]
  <2>1. /\ row \in ReleaseRows /\ row.key = draft[d].key /\ row.state = "active"
        /\ ~row.ready /\ ~row.deleted
    <3>1. PICK key \in Drafts : key = draft[d].key
      BY <1>1
    <3> QED
      BY <3>1 DEF NoRelease, ReleaseRows
  <2> QED
    BY <1>1, <2>1, Types
<1> HIDE DEF row
<1>4. JobTypeOK'
  <2>1. row \in ReleaseRows
    BY <1>3
  <2>2. release' \in [Jobs -> ReleaseRows]
    BY <1>1, <2>1, Types
  <2>3. AttemptsAreLists'
    BY <1>1 DEF AttemptsAreLists
  <2> QED
    BY <1>1, <1>2, <2>2, <2>3, Types, TypesNext
<1>5. AttemptsAreLists' /\ JobsInOrder' /\ OperatorSound' /\ BatchSound'
  BY <1>1 DEF AttemptsAreLists, JobsInOrder, OperatorSound, BatchSound
<1>6. (\A e \in Drafts : DraftSound(e))'
  BY <1>1 DEF DraftSound
<1>7. (\A k \in Jobs : JobSound(k))'
  BY <1>1, <1>3 DEF JobSound
<1>8. WorkerSound' /\ RunningHasWorker'
  BY <1>1, <1>2 DEF WorkerSound, RunningHasWorker
<1>9. PublicIsValidated' /\ OnePublicVersion' /\ DeletedIsClosed'
  BY <1>1, <1>3 DEF PublicIsValidated, OnePublicVersion, DeletedIsClosed, Latest, Public, PendingCheck
<1>10. PublishedAsValidated'
  <2> SUFFICES ASSUME NEW e \in Drafts, draft[e].published # Nothing
               PROVE  /\ draft[e].state = "open"
                      /\ job[draft[e].published].draft = e
                      /\ job[draft[e].published].revision = draft[e].revision
                      /\ job[draft[e].published].status = "succeeded"
                      /\ release'[draft[e].published].key = draft[e].key
    BY <1>1 DEF PublishedAsValidated
  <2>1. draft[e].published \in Jobs /\ job[draft[e].published].status = "succeeded"
    BY DEF PublishedAsValidated, JobTypeOK
  <2> QED
    BY <1>1, <1>3, <2>1 DEF PublishedAsValidated
<1>11. FrozenUnderValidation' /\ ArchivedIsQuiet'
  BY <1>1 DEF FrozenUnderValidation, ArchivedIsQuiet, Unfinished
<1> QED
  BY <1>4, <1>5, <1>6, <1>7, <1>8, <1>9, <1>10, <1>11

LEMMA WorkerSteps ==
    ASSUME JobInv, Claim \/ SaveRelease \/ FailValidation \/ FinishJob
    PROVE  JobInv'
<1>1. /\ UNCHANGED <<course, draft, confirmed, release, attempts, stopping, operator, crashes>>
      /\ AttemptsAreLists' /\ OperatorSound' /\ ChecksGoOn
  BY DEF Claim, SaveRelease, FailValidation, FinishJob, deskVars, JobInv, AttemptsAreLists,
         OperatorSound, ChecksGoOn, Latest, PendingCheck
<1>a. job \in [Jobs -> JobRows] /\ worker \in WorkerStates
  BY Types
<1>b. \A r \in JobRows, status \in {"running", "succeeded", "failed", "interrupted"} :
         /\ [r EXCEPT !.status = status] \in JobRows
         /\ [r EXCEPT !.status = status].status = status
         /\ [r EXCEPT !.status = status].draft = r.draft
         /\ [r EXCEPT !.status = status].revision = r.revision
  BY DEF JobRows
<1>2. CASE Claim
  <2>1. PICK j \in Jobs : /\ job[j].status = "queued" /\ worker.at = "idle"
                          /\ job' = [job EXCEPT ![j].status = "running"]
                          /\ worker' = [Resting EXCEPT !.at = "claimed", !.job = j]
    BY <1>2 DEF Claim
  <2>2. worker'.at = "claimed" /\ worker'.job = j /\ worker' \in WorkerStates
    <3>1. 0 \in 0 .. MaxTries
      BY JobAssumption
    <3> QED
      BY <2>1, <3>1 DEF Resting, WorkerStates
  <2>3. /\ job'[j] = [job[j] EXCEPT !.status = "running"]
        /\ \A k \in Jobs \ {j} : job'[k] = job[k]
        /\ job' \in [Jobs -> JobRows]
    BY <1>a, <1>b, <2>1
  <2>4. JobTypeOK'
    BY <1>1, <2>2, <2>3, Types, TypesNext
  <2>5. job'[j].status = "running" /\ job'[j].draft = job[j].draft /\ job'[j].revision = job[j].revision
    BY <1>a, <1>b, <2>3
  <2>6. WorkerSound' /\ RunningHasWorker'
    <3>1. \A k \in Jobs : job[k].status # "running"
      BY <2>1, JobAssumption DEF JobInv, WorkerSound, RunningHasWorker, Jobs
    <3> QED
      BY <2>2, <2>3, <2>5, <3>1 DEF WorkerSound, RunningHasWorker
  <2>7. JobsGoOn
    BY <2>1, <2>3, <2>5 DEF JobsGoOn
  <2> QED
    BY <1>1, <2>4, <2>6, <2>7, WorkStep
<1>3. CASE SaveRelease \/ FailValidation
  <2> DEFINE j == worker.job
  <2>1. /\ j \in Jobs /\ job[j].status = "running"
        /\ worker.at \in {"claimed", "registered", "saved"}
    BY <1>3 DEF SaveRelease, FailValidation, JobInv, WorkerSound
  <2>2. /\ job' = job \/ job' = [job EXCEPT ![j].saved = TRUE]
        /\ worker' = [worker EXCEPT !.at = "saved"]
              \/ worker' = [worker EXCEPT !.at = "finishing", !.good = FALSE]
    BY <1>3 DEF SaveRelease, FailValidation
  <2>3. worker'.at \in {"saved", "finishing"} /\ worker'.job = j /\ worker' \in WorkerStates
    BY <1>a, <2>2 DEF WorkerStates
  <2>4. /\ \A k \in Jobs : /\ job'[k].draft = job[k].draft /\ job'[k].revision = job[k].revision
                           /\ job'[k].status = job[k].status
        /\ job' \in [Jobs -> JobRows]
    <3>1. \A r \in JobRows : /\ [r EXCEPT !.saved = TRUE] \in JobRows
                             /\ [r EXCEPT !.saved = TRUE].status = r.status
                             /\ [r EXCEPT !.saved = TRUE].draft = r.draft
                             /\ [r EXCEPT !.saved = TRUE].revision = r.revision
      BY DEF JobRows
    <3>2. CASE job' = job
      BY <1>a, <3>2
    <3>3. CASE job' = [job EXCEPT ![j].saved = TRUE]
      <4>1. job'[j] = [job[j] EXCEPT !.saved = TRUE] /\ \A k \in Jobs \ {j} : job'[k] = job[k]
        BY <1>a, <2>1, <3>3
      <4>2. job' \in [Jobs -> JobRows]
        BY <1>a, <2>1, <3>1, <3>3
      <4>3. job[j] \in JobRows
        BY <1>a, <2>1
      <4>4. job'[j].draft = job[j].draft /\ job'[j].revision = job[j].revision /\ job'[j].status = job[j].status
        BY <3>1, <4>1, <4>3
      <4> QED
        BY <4>1, <4>2, <4>4
    <3> QED
      BY <2>2, <3>2, <3>3
  <2>5. JobTypeOK'
    BY <1>1, <2>3, <2>4, Types, TypesNext
  <2>6. WorkerSound' /\ RunningHasWorker'
    BY <2>1, <2>3, <2>4 DEF JobInv, WorkerSound, RunningHasWorker
  <2>7. JobsGoOn
    BY <2>4 DEF JobsGoOn
  <2> HIDE DEF j
  <2> QED
    BY <1>1, <2>5, <2>6, <2>7, WorkStep
<1>4. CASE FinishJob
  <2> DEFINE j == worker.job
  <2>1. j \in Jobs /\ job[j].status = "running" /\ worker.at = "finishing" /\ worker' = Resting
    BY <1>4 DEF FinishJob, JobInv, WorkerSound
  <2>2. PICK status \in {"interrupted", "succeeded", "failed"} : job' = [job EXCEPT ![j].status = status]
    BY <1>4 DEF FinishJob
  <2>a. \A k \in Jobs \ {j} : job[k].status # "running"
    BY <2>1 DEF JobInv, RunningHasWorker
  <2> HIDE DEF j
  <2>3. /\ job'[j] = [job[j] EXCEPT !.status = status]
        /\ \A k \in Jobs \ {j} : job'[k] = job[k]
        /\ job' \in [Jobs -> JobRows]
    BY <1>a, <1>b, <2>1, <2>2
  <2>4. job'[j].status = status /\ job'[j].draft = job[j].draft /\ job'[j].revision = job[j].revision
    BY <1>a, <1>b, <2>1, <2>3
  <2>5. Resting \in WorkerStates
    BY JobAssumption DEF Resting, WorkerStates
  <2>6. JobTypeOK'
    BY <1>1, <2>1, <2>3, <2>5, Types, TypesNext
  <2>7. \A k \in Jobs : job'[k].status # "running"
    BY <2>3, <2>4, <2>a
  <2>8. WorkerSound' /\ RunningHasWorker'
    BY <2>1, <2>7 DEF WorkerSound, RunningHasWorker, Resting
  <2>9. JobsGoOn
    BY <2>1, <2>3, <2>4 DEF JobsGoOn
  <2> QED
    BY <1>1, <2>6, <2>8, <2>9, WorkStep
<1> QED
  BY <1>2, <1>3, <1>4

LEMMA QuietSteps ==
    ASSUME JobInv,
           \/ \E action \in {"archive", "delete"}, S \in SUBSET Jobs \ {{}} : PreviewBatch(action, S)
           \/ Activate \/ ArchiveCourse \/ Stop \/ LeaveLoop \/ Die
           \/ UNCHANGED jobVars
    PROVE  JobInv'
<1>1. UNCHANGED <<draft, job, release, attempts, operator>>
  BY DEF PreviewBatch, Activate, ArchiveCourse, Stop, LeaveLoop, Die, deskVars, jobVars
<1>2. /\ worker' = worker \/ worker' = Dead
      /\ course' \in {course, "active", "archived"}
      /\ course' = "archived" => course = "archived" \/ Unfinished = {}
      /\ stopping' \in BOOLEAN /\ crashes' \in 0 .. MaxCrashes
  <2>1. /\ course \in {"preparation", "active", "archived"}
        /\ stopping \in BOOLEAN /\ crashes \in 0 .. MaxCrashes /\ MaxCrashes \in Nat
    BY Types, JobAssumption
  <2>2. CASE Stop
    BY <2>1, <2>2 DEF Stop, deskVars
  <2>3. CASE Die
    BY <2>1, <2>3 DEF Die, deskVars
  <2> QED
    BY <2>1, <2>2, <2>3 DEF PreviewBatch, Activate, ArchiveCourse, Idle, LeaveLoop, deskVars, jobVars
<1>3. BatchSound'
  <2>1. CASE confirmed' = confirmed
    BY <2>1 DEF JobInv, BatchSound
  <2>2. CASE \E action \in {"archive", "delete"}, S \in SUBSET Jobs \ {{}} : PreviewBatch(action, S)
    BY <2>2 DEF PreviewBatch, BatchSound
  <2> QED
    BY <2>1, <2>2 DEF Activate, ArchiveCourse, Stop, LeaveLoop, Die, deskVars, jobVars
<1>4. JobTypeOK'
  <2>1. Dead \in WorkerStates
    <3>1. 0 \in 0 .. MaxTries
      BY JobAssumption
    <3> QED
      BY <3>1 DEF Dead, Resting, WorkerStates
  <2>2. AttemptsAreLists' /\ course' \in {"preparation", "active", "archived"}
    BY <1>1, <1>2, Types DEF AttemptsAreLists
  <2> QED
    BY <1>1, <1>2, <2>1, <2>2, Types, TypesNext
<1>5. WorkerSound' /\ \A j \in Jobs : job[j].status = "running" => worker'.at = "off" \/ worker'.job = j
  BY <1>1, <1>2 DEF JobInv, WorkerSound, RunningHasWorker, Dead, Resting
<1> QED
  BY <1>1, <1>2, <1>3, <1>4, <1>5, QuietStep

----------------------------------------------------------------------------
(* The theorems. *)

LEMMA JobInvInit == JobInit => JobInv
<1> SUFFICES ASSUME JobInit PROVE JobInv
  OBVIOUS
<1>1. JobTypeOK /\ AttemptsAreLists
  <2>1. /\ 0 \in 0 .. (MaxRevision + 1) /\ 0 \in 0 .. MaxRevision
        /\ 0 \in 0 .. MaxTries /\ 0 \in 0 .. MaxCrashes
    BY JobAssumption
  <2>2. NoDraft \in DraftRows /\ NoJob \in JobRows /\ NoRelease \in ReleaseRows
    BY <2>1 DEF NoDraft, NoJob, NoRelease, DraftRows, JobRows, ReleaseRows
  <2>3. Dead \in WorkerStates
    BY <2>1 DEF Dead, Resting, WorkerStates
  <2>4. \A j \in Jobs : attempts[j] = <<>>
    BY DEF JobInit
  <2>5. draft \in [Drafts -> DraftRows] /\ job \in [Jobs -> JobRows] /\ release \in [Jobs -> ReleaseRows]
    BY <2>2 DEF JobInit
  <2>6. AttemptsAreLists
    BY DEF JobInit, AttemptsAreLists
  <2>7. \A j \in Jobs : /\ Len(attempts[j]) \in 0 .. MaxTries
                       /\ \A i \in DOMAIN attempts[j] : attempts[j][i] \in {"pending", "passed", "failed"}
    BY <2>1, <2>4
  <2>8. worker \in WorkerStates /\ stopping \in BOOLEAN /\ crashes \in 0 .. MaxCrashes
        /\ course \in {"preparation", "active", "archived"}
    BY <2>1, <2>3 DEF JobInit
  <2> QED
    BY <2>5, <2>6, <2>7, <2>8 DEF JobTypeOK, DraftRows, JobRows, ReleaseRows, WorkerStates
<1>2. (\A d \in Drafts : DraftSound(d)) /\ (\A j \in Jobs : JobSound(j))
  BY DEF JobInit, DraftSound, JobSound, NoDraft, NoJob, NoRelease
<1>3. JobsInOrder
  <2>1. 0 \in 0 .. MaxJobs /\ \A j \in Jobs : ~(j <= 0)
    BY JobAssumption DEF Jobs
  <2> QED
    BY <2>1 DEF JobInit, JobsInOrder, NoJob
<1>4. WorkerSound /\ OperatorSound /\ BatchSound
  BY DEF JobInit, WorkerSound, OperatorSound, BatchSound, Dead, Resting
<1>5. PublicIsValidated /\ OnePublicVersion /\ DeletedIsClosed /\ RunningHasWorker /\ ArchivedIsQuiet
  BY DEF JobInit, PublicIsValidated, OnePublicVersion, DeletedIsClosed, RunningHasWorker, ArchivedIsQuiet,
         Public, NoRelease, NoJob
<1>6. PublishedAsValidated /\ FrozenUnderValidation
  BY DEF JobInit, PublishedAsValidated, FrozenUnderValidation, Unfinished, NoDraft, NoJob
<1> QED
  BY <1>1, <1>2, <1>3, <1>4, <1>5, <1>6 DEF JobInv

LEMMA JobInvStep == JobInv /\ [JobNext]_jobVars => JobInv'
<1> SUFFICES ASSUME JobInv, [JobNext]_jobVars PROVE JobInv'
  OBVIOUS
<1>1. CASE DeskNext
  BY <1>1, DraftSteps, QueueStep, PublishStep, ReleaseSteps, BatchStep, QuietSteps DEF DeskNext
<1>2. CASE OperatorNext
  BY <1>2, OperatorSteps, ReleaseSteps DEF OperatorNext
<1>3. CASE Start \/ WorkerStep
  BY <1>3, StartStep, RegisterStep, WorkerChecks, WorkerSteps, QuietSteps DEF WorkerStep
<1>4. CASE Stop \/ Die \/ UNCHANGED jobVars
  BY <1>4, QuietSteps
<1> QED
  BY <1>1, <1>2, <1>3, <1>4 DEF JobNext

\* Drafts, jobs, releases and checks fit together in every reachable state.
THEOREM JobInvAlways == JobSpec => []JobInv
  BY JobInvInit, JobInvStep, PTL DEF JobSpec

\* What students see passed its last validation, in one version of an assignment,
\* and what was deleted stays away, whatever the pages, the command line and the
\* worker do beside each other.
THEOREM ReleasesStaySound == JobSpec => []ReleasesAreSound
<1>1. JobInv => ReleasesAreSound
  BY DEF JobInv, ReleasesAreSound
<1> QED
  BY <1>1, JobInvAlways, PTL

\* A published draft is what was validated; a draft under validation is frozen; a
\* running job has its worker; an archived course has nothing left to validate.
THEOREM ValidationStaysHonest == JobSpec => []ValidationIsHonest
<1>1. JobInv => ValidationIsHonest
  BY DEF JobInv, ValidationIsHonest
<1> QED
  BY <1>1, JobInvAlways, PTL

(* ClassroomRequests.                                                      *)

Statuses == {"none", "queued", "received", "accepted", "declined", "expired", "completed", "failed"}
Responses ==
    [status : {"none", "accepted", "declined", "completed", "failed"}, receipt : Nat \cup {Nobody}]
RowRecs ==
    [key : Keys \cup {Nobody}, status : Statuses, client : Windows \cup {Nobody},
     expires : Nat, accepted : Nat, last : Responses]
ViewRecs == [id : Commands, status : {"received", "accepted"}, due : Int]
Reports == [id : Commands, response : Responses]
Calls == [kind : {"none", "poll", "respond"}, id : 0 .. MaxCommands, response : Responses, sent : Nat]
Replies == [kind : {"none", "commands", "ok", "denied", "refused"}, list : SUBSET ViewRecs]
WindowRecs ==
    [at : {"shut", "idle", "polling", "deciding", "accepting", "acting", "reporting", "blocked", "gone"},
     todo : SUBSET ViewRecs, current : 0 .. MaxCommands, due : Int, seen : SUBSET Commands,
     finals : SUBSET Reports, call : Calls, reply : Replies]

ClassroomTypes ==
    /\ tick \in Nat /\ receipts \subseteq Nat
    /\ commands \in [Commands -> RowRecs]
    /\ window \in [Windows -> WindowRecs]
    /\ strays \subseteq [window : Windows, call : Calls]
    /\ runs \in Seq(Commands \X Windows)

\* What a window may still begin, and what it may still report as ended.
Pursues(rec, c) ==
    \/ rec.at \in {"deciding", "accepting"} /\ rec.current = c
    \/ \E v \in rec.todo \cup rec.reply.list : v.id = c /\ v.status # "accepted"

Ending(r) == r.status \in {"completed", "failed"}
ReportsEnd(rec, c) ==
    \/ rec.call.kind = "respond" /\ rec.call.id = c /\ Ending(rec.call.response)
    \/ \E f \in rec.finals : f.id = c /\ Ending(f.response)

WasAccepted(c) ==
    /\ commands[c].status \in {"accepted", "expired", "completed", "failed"}
    /\ commands[c].last # NoResponse

\* Window w may report that request c ended with r.
MayEnd(w, c, r) ==
    /\ commands[c].client = w /\ WasAccepted(c)
    /\ r.status = "completed" => RanIn(c, w)

\* The row of a request the window pursues.
Open(w, c) ==
    /\ commands[c].client = w /\ ~Ran(c)
    /\ commands[c].status \notin {"none", "queued", "completed", "failed"}

\* What a window remembers from one pump to the next.
Memory(w, rec) ==
    /\ \A v \in rec.todo \cup rec.reply.list :
          /\ commands[v.id].status # "none" /\ v.due <= commands[v.id].expires
          /\ v.status # "accepted" => Open(w, v.id)
    /\ \A f \in rec.finals :
          /\ f.response.status # "none"
          /\ Ending(f.response) => MayEnd(w, f.id, f.response)

WindowSound(w, rec) ==
    /\ Memory(w, rec)
    /\ rec.call.kind # "poll" => rec.reply.list = {}
    /\ rec.call.kind = "respond" =>
          /\ rec.call.id \in Commands /\ rec.call.response.status # "none"
          /\ Ending(rec.call.response) => MayEnd(w, rec.call.id, rec.call.response)
    /\ rec.at \in {"deciding", "accepting", "acting", "reporting"} =>
          rec.current \in Commands /\ \A v \in rec.todo : v.id > rec.current
    /\ rec.at \in {"deciding", "accepting", "acting"} => rec.due <= commands[rec.current].expires
    /\ rec.at \in {"deciding", "accepting"} => Open(w, rec.current)
    /\ rec.at = "deciding" => rec.call.kind = "none" /\ rec.reply.kind = "none"
    /\ rec.at = "accepting" =>
          /\ rec.call.kind = "respond" /\ rec.call.id = rec.current
          /\ rec.call.response.status = "accepted"
          /\ rec.reply.kind = "ok" => WasAccepted(rec.current)
    /\ rec.at = "acting" => RanIn(rec.current, w)
    /\ rec.at = "reporting" => rec.call.kind = "respond" /\ rec.call.id = rec.current
    /\ \A c \in Commands : Pursues(rec, c) => ~ReportsEnd(rec, c)

StraySound(s) ==
    /\ s.call.kind # "none"
    /\ s.call.kind = "respond" =>
          /\ s.call.id \in Commands /\ s.call.response.status # "none"
          /\ Ending(s.call.response) =>
                MayEnd(s.window, s.call.id, s.call.response) /\ ~Pursues(window[s.window], s.call.id)

RowSound(c) ==
    /\ commands[c].status # "none" => commands[c].key \in Keys
    /\ commands[c].status = "expired" => commands[c].expires <= tick
    /\ commands[c].status \in {"accepted", "completed", "failed"} => WasAccepted(c)
    /\ \A w \in Windows : RanIn(c, w) => commands[c].client = w
    /\ Ran(c) => WasAccepted(c)
    /\ commands[c].status = "completed" =>
          Ran(c) /\ (commands[c].key \in Uploads => commands[c].last.receipt >= commands[c].accepted)

OneRun == \A i, j \in DOMAIN runs : runs[i][1] = runs[j][1] => i = j
OneRow == \A c, d \in Rows : commands[c].key = commands[d].key => c = d

ClassroomInv ==
    /\ ClassroomTypes /\ OneRun /\ OneRow
    /\ \A c \in Commands : RowSound(c)
    /\ \A w \in Windows : WindowSound(w, window[w])
    /\ \A s \in strays : StraySound(s)

----------------------------------------------------------------------------
(* Steps of a window. *)

\* What a window pursues is open.
LEMMA PursuedIsOpen ==
    ASSUME NEW w, NEW rec, WindowSound(w, rec), NEW c, Pursues(rec, c)
    PROVE  Open(w, c)
BY DEF WindowSound, Memory, Pursues

LEMMA RestedSound ==
    ASSUME NEW w, NEW rec \in WindowRecs, Memory(w, rec)
    PROVE  /\ Rested(rec) \in WindowRecs /\ WindowSound(w, Rested(rec))
           /\ \A c : ~Pursues(Rested(rec), c)
<1> DEFINE new == Rested(rec)
<1>1. NoResponse \in Responses
  BY DEF NoResponse, Response, Responses
<1>2. NoCall \in Calls /\ NoCall.kind = "none"
  BY <1>1, ClassroomAssumption DEF NoCall, Calls
<1>3. NoReply \in Replies /\ NoReply.list = {} /\ NoReply.kind = "none"
  BY DEF NoReply, Reply, Replies
<1>4. /\ new \in WindowRecs
      /\ new.at = "idle" /\ new.todo = {} /\ new.call = NoCall /\ new.reply = NoReply
      /\ new.finals = rec.finals
  <2>1. 0 \in 0 .. MaxCommands /\ 0 \in Int
    BY ClassroomAssumption
  <2> QED
    BY <1>2, <1>3, <2>1 DEF Rested, WindowRecs
<1> HIDE DEF new
<1>5. \A c : ~Pursues(new, c)
  BY <1>3, <1>4 DEF Pursues
<1>6. WindowSound(w, new)
  BY <1>2, <1>3, <1>4, <1>5 DEF WindowSound, Memory
<1> QED
  BY <1>4, <1>5, <1>6 DEF new

\* A result that is sent, and kept until it is acknowledged.
LEMMA SendingSound ==
    ASSUME NEW w, NEW rec \in WindowRecs, Memory(w, rec),
           NEW id \in Commands, NEW response \in Responses,
           response.status # "none", Ending(response) => MayEnd(w, id, response),
           tick \in Nat, \A v \in rec.todo : v.id > id,
           \A c \in Commands : ReportsEnd(rec, c) => ~\E v \in rec.todo : v.id = c /\ v.status # "accepted"
    PROVE  /\ Sending(rec, id, response) \in WindowRecs
           /\ WindowSound(w, Sending(rec, id, response))
           /\ \A c : Pursues(Sending(rec, id, response), c) =>
                      \E v \in rec.todo : v.id = c /\ v.status # "accepted"
<1> DEFINE new == Sending(rec, id, response)
           finals == {f \in rec.finals : f.id # id} \cup {[id |-> id, response |-> response]}
           call == Call("respond", id, response)
<1>1. finals \in SUBSET Reports
  BY DEF WindowRecs, Reports
<1>2. /\ call \in Calls /\ call.kind = "respond" /\ call.id = id /\ call.response = response
  <2>1. id \in 0 .. MaxCommands
    BY ClassroomAssumption DEF Commands
  <2> QED
    BY <2>1 DEF Call, Calls
<1>3. NoReply \in Replies /\ NoReply.list = {} /\ NoReply.kind = "none"
  BY DEF NoReply, Reply, Replies
<1>4. /\ new \in WindowRecs
      /\ new.at = "reporting" /\ new.todo = rec.todo /\ new.call = call /\ new.reply = NoReply
      /\ new.finals = finals /\ new.current = id
  <2>1. id \in 0 .. MaxCommands
    BY ClassroomAssumption DEF Commands
  <2>2. new = [rec EXCEPT !.at = "reporting", !.current = id, !.finals = finals, !.call = call, !.reply = NoReply]
    BY DEF Sending
  <2> HIDE DEF finals, call, new
  <2> QED
    BY <1>1, <1>2, <1>3, <2>1, <2>2 DEF WindowRecs
<1>5. \A f \in finals : \/ f.id = id /\ f.response = response
                        \/ f \in rec.finals /\ f.id # id
  OBVIOUS
<1> HIDE DEF finals, call, new
<1>6. \A c : Pursues(new, c) <=> \E v \in rec.todo : v.id = c /\ v.status # "accepted"
  BY <1>3, <1>4 DEF Pursues
<1>7. Memory(w, new)
  BY <1>3, <1>4, <1>5 DEF Memory
<1>8. \A c \in Commands : Pursues(new, c) => ~ReportsEnd(new, c)
  <2> SUFFICES ASSUME NEW c \in Commands, NEW v \in rec.todo, v.id = c, v.status # "accepted", ReportsEnd(new, c)
               PROVE  FALSE
    BY <1>6
  <2>1. c # id
    BY DEF Commands
  <2>2. ~(new.call.kind = "respond" /\ new.call.id = c)
    BY <1>2, <1>4, <2>1
  <2>3. PICK f \in finals : f.id = c /\ Ending(f.response)
    BY <1>4, <2>2 DEF ReportsEnd
  <2>4. f \in rec.finals
    BY <1>5, <2>1, <2>3
  <2> QED
    BY <2>3, <2>4 DEF ReportsEnd
<1>9. WindowSound(w, new)
  BY <1>2, <1>3, <1>4, <1>7, <1>8 DEF WindowSound
<1> QED
  BY <1>4, <1>6, <1>9 DEF new

\* A step that changes one window, and perhaps gives up the call it waits for.
LEMMA WindowStep ==
    ASSUME ClassroomInv, NEW w \in Windows, NEW rec \in WindowRecs, WindowSound(w, rec),
           window' = [window EXCEPT ![w] = rec],
           \A c \in Commands : Pursues(rec, c) => Pursues(window[w], c),
           strays' = strays \/ (strays' = GivenUp(w) /\ \A c \in Commands : ~Pursues(rec, c)),
           UNCHANGED <<tick, commands, runs>>, receipts' \subseteq Nat
    PROVE  ClassroomInv'
<1> USE DEF ClassroomInv
<1>1. /\ window'[w] = rec /\ \A v \in Windows \ {w} : window'[v] = window[v]
      /\ window' \in [Windows -> WindowRecs]
  BY DEF ClassroomTypes
<1>2. window[w] \in WindowRecs /\ WindowSound(w, window[w])
  BY DEF ClassroomTypes
<1>3. \A s \in strays' :
         \/ s \in strays
         \/ /\ s = [window |-> w, call |-> window[w].call] /\ window[w].call.kind # "none"
            /\ \A c \in Commands : ~Pursues(rec, c)
  BY DEF GivenUp, Me
<1>4. ClassroomTypes'
  <2>1. strays' \subseteq [window : Windows, call : Calls]
    <3>1. window[w].call \in Calls
      BY <1>2 DEF WindowRecs
    <3> QED
      BY <1>3, <3>1 DEF ClassroomTypes
  <2> QED
    BY <1>1, <2>1 DEF ClassroomTypes
<1>5. OneRun' /\ OneRow' /\ (\A c \in Commands : RowSound(c))'
  BY DEF OneRun, OneRow, Rows, RowSound, WasAccepted, RanIn, Ran
<1>6. (\A v \in Windows : WindowSound(v, window[v]))'
  <2> SUFFICES ASSUME NEW v \in Windows, NEW new, new = window'[v], WindowSound(v, new)
               PROVE  WindowSound(v, new)'
    BY <1>1
  <2> QED
    BY DEF WindowSound, Memory, Open, MayEnd, WasAccepted, RanIn, Ran
<1>7. (\A s \in strays : StraySound(s))'
  <2> SUFFICES ASSUME NEW s \in strays' PROVE StraySound(s)'
    OBVIOUS
  <2>a. \A c, r, v : MayEnd(v, c, r) => MayEnd(v, c, r)'
    BY DEF MayEnd, WasAccepted, RanIn
  <2>1. CASE s \in strays
    <3>1. StraySound(s) /\ s.window \in Windows
      BY <2>1 DEF ClassroomTypes
    <3> SUFFICES ASSUME s.call.kind = "respond"
                 PROVE  /\ s.call.id \in Commands /\ s.call.response.status # "none"
                        /\ Ending(s.call.response) =>
                             MayEnd(s.window, s.call.id, s.call.response)' /\ ~Pursues(window'[s.window], s.call.id)
      BY <3>1 DEF StraySound, Pursues
    <3> QED
      BY <1>1, <2>a, <3>1 DEF StraySound
  <2>2. CASE /\ s = [window |-> w, call |-> window[w].call] /\ window[w].call.kind # "none"
             /\ \A c \in Commands : ~Pursues(rec, c)
    <3>1. s.window = w /\ s.call = window[w].call
      BY <2>2
    <3> SUFFICES ASSUME s.call.kind = "respond"
                 PROVE  /\ s.call.id \in Commands /\ s.call.response.status # "none"
                        /\ Ending(s.call.response) =>
                             MayEnd(s.window, s.call.id, s.call.response)' /\ ~Pursues(window'[s.window], s.call.id)
      BY <2>2, <3>1 DEF StraySound, Pursues
    <3> QED
      BY <1>1, <1>2, <2>2, <2>a, <3>1 DEF WindowSound
  <2> QED
    BY <1>3, <2>1, <2>2
<1> QED
  BY <1>4, <1>5, <1>6, <1>7

LEMMA ShutSound ==
    ASSUME NEW w, NEW at \in {"shut", "idle", "blocked", "gone"}
    PROVE  /\ [Shut EXCEPT !.at = at] \in WindowRecs /\ WindowSound(w, [Shut EXCEPT !.at = at])
           /\ \A c : ~Pursues([Shut EXCEPT !.at = at], c)
<1> DEFINE new == [Shut EXCEPT !.at = at]
<1>1. NoResponse \in Responses
  BY DEF NoResponse, Response, Responses
<1>2. NoCall \in Calls /\ NoCall.kind = "none"
  BY <1>1, ClassroomAssumption DEF NoCall, Calls
<1>3. NoReply \in Replies /\ NoReply.list = {} /\ NoReply.kind = "none"
  BY DEF NoReply, Reply, Replies
<1>4. 0 \in 0 .. MaxCommands /\ 0 \in Int
  BY ClassroomAssumption
<1>5. /\ new \in WindowRecs
      /\ new.at = at /\ new.todo = {} /\ new.call = NoCall /\ new.reply = NoReply /\ new.finals = {}
  BY <1>2, <1>3, <1>4 DEF Shut, WindowRecs
<1> HIDE DEF new
<1>6. \A c : ~Pursues(new, c)
  BY <1>3, <1>5 DEF Pursues
<1>7. WindowSound(w, new)
  BY <1>2, <1>3, <1>5, <1>6 DEF WindowSound, Memory
<1> QED
  BY <1>5, <1>6, <1>7 DEF new

\* The next request of a poll is taken up, or a result the window owes is sent again.
LEMMA TakeNextStep ==
    ASSUME ClassroomInv, NEW w \in Windows, NEW rec \in WindowRecs, Memory(w, rec),
           \A c \in Commands : Pursues(rec, c) => Pursues(window[w], c) /\ ~ReportsEnd(rec, c),
           TakeNext(w, rec), UNCHANGED <<tick, commands, strays, receipts, runs>>
    PROVE  ClassroomInv'
<1>a. tick \in Nat /\ receipts' \subseteq Nat
  BY DEF ClassroomInv, ClassroomTypes
<1>1. CASE Set(w, Rested(rec))
  BY <1>1, <1>a, RestedSound, WindowStep DEF Set
<1>2. ASSUME NEW view \in rec.todo, Waiting(rec, view),
             NEW rest, rest = [rec EXCEPT !.todo = {v \in rec.todo : v.id > view.id},
                                          !.call = NoCall, !.reply = NoReply],
             IF Owed(rec, view) # {}
             THEN \E f \in Owed(rec, view) : Set(w, Sending(rest, view.id, f.response))
             ELSE Set(w, [rest EXCEPT !.at = "deciding", !.current = view.id,
                                      !.due = view.due, !.seen = rec.seen \cup {view.id}])
      PROVE  ClassroomInv'
  <2>1. NoResponse \in Responses
    BY DEF NoResponse, Response, Responses
  <2>2. NoCall \in Calls /\ NoCall.kind = "none"
    BY <2>1, ClassroomAssumption DEF NoCall, Calls
  <2>3. NoReply \in Replies /\ NoReply.list = {} /\ NoReply.kind = "none"
    BY DEF NoReply, Reply, Replies
  <2>4. view \in ViewRecs /\ view.id \in Commands /\ view.due \in Int
    BY DEF WindowRecs, ViewRecs
  <2> DEFINE later == {v \in rec.todo : v.id > view.id}
  <2>5. later \in SUBSET ViewRecs /\ later \subseteq rec.todo /\ \A v \in later : v.id > view.id
    BY DEF WindowRecs
  <2>6. rest = [rec EXCEPT !.todo = later, !.call = NoCall, !.reply = NoReply]
    BY <1>2
  <2> HIDE DEF later
  <2>7. /\ rest \in WindowRecs /\ rest.todo = later /\ rest.call = NoCall /\ rest.reply = NoReply
        /\ rest.finals = rec.finals /\ rest.seen = rec.seen
    BY <2>2, <2>3, <2>5, <2>6 DEF WindowRecs
  <2>8. Memory(w, rest)
    BY <2>3, <2>5, <2>7 DEF Memory
  <2>9. \A c \in Commands : ReportsEnd(rest, c) => ReportsEnd(rec, c)
    BY <2>2, <2>7 DEF ReportsEnd
  <2>10. \A c : (\E v \in later \cup {view} : v.id = c /\ v.status # "accepted") => Pursues(rec, c)
    BY <2>5 DEF Pursues
  <2>11. CASE Owed(rec, view) # {}
    <3>1. PICK f \in Owed(rec, view) : window' = [window EXCEPT ![w] = Sending(rest, view.id, f.response)]
      BY <1>2, <2>11 DEF Set
    <3>2. f \in rec.finals /\ f.id = view.id /\ f.response \in Responses
      BY DEF Owed, WindowRecs, Reports
    <3>3. f.response.status # "none" /\ (Ending(f.response) => MayEnd(w, view.id, f.response))
      BY <3>2 DEF Memory
    <3>4. \A c \in Commands : ReportsEnd(rest, c) => ~\E v \in rest.todo : v.id = c /\ v.status # "accepted"
      BY <2>7, <2>9, <2>10
    <3> DEFINE new == Sending(rest, view.id, f.response)
    <3>5. /\ new \in WindowRecs /\ WindowSound(w, new)
          /\ \A c : Pursues(new, c) => \E v \in later : v.id = c /\ v.status # "accepted"
      BY <1>a, <2>4, <2>5, <2>7, <2>8, <3>2, <3>3, <3>4, SendingSound
    <3> HIDE DEF new
    <3>6. \A c \in Commands : Pursues(new, c) => Pursues(window[w], c)
      BY <2>10, <3>5
    <3> QED
      BY <1>a, <3>1, <3>5, <3>6, WindowStep DEF new
  <2>12. CASE Owed(rec, view) = {}
    <3> DEFINE new == [rest EXCEPT !.at = "deciding", !.current = view.id,
                                   !.due = view.due, !.seen = rec.seen \cup {view.id}]
    <3>1. window' = [window EXCEPT ![w] = new]
      BY <1>2, <2>12 DEF Set
    <3>2. view.status # "accepted"
      BY <1>2, <2>12 DEF Waiting, Taken
    <3>3. view.id \in 0 .. MaxCommands /\ rec.seen \cup {view.id} \in SUBSET Commands
      BY <2>4 DEF Commands, WindowRecs
    <3>4. /\ new \in WindowRecs /\ new.at = "deciding" /\ new.current = view.id /\ new.due = view.due
          /\ new.todo = later /\ new.call = NoCall /\ new.reply = NoReply /\ new.finals = rec.finals
      BY <2>4, <2>7, <3>3 DEF WindowRecs
    <3> HIDE DEF new
    <3>5. \A c : Pursues(new, c) => \E v \in later \cup {view} : v.id = c /\ v.status # "accepted"
      BY <2>3, <3>2, <3>4 DEF Pursues
    <3>6. \A c \in Commands : ReportsEnd(new, c) => ReportsEnd(rec, c)
      BY <2>2, <3>4 DEF ReportsEnd
    <3>7. Memory(w, new) /\ Open(w, view.id) /\ view.due <= commands[view.id].expires
      BY <2>3, <2>5, <3>2, <3>4 DEF Memory
    <3>8. \A c \in Commands : Pursues(new, c) => ~ReportsEnd(new, c)
      BY <2>10, <3>5, <3>6
    <3>9. WindowSound(w, new)
      BY <2>2, <2>3, <2>4, <2>5, <3>4, <3>7, <3>8 DEF WindowSound
    <3>10. \A c \in Commands : Pursues(new, c) => Pursues(window[w], c)
      BY <2>10, <3>5
    <3> QED
      BY <1>a, <3>1, <3>4, <3>9, <3>10, WindowStep
  <2> QED
    BY <2>11, <2>12
<1> QED
  BY <1>1, <1>2 DEF TakeNext

\* Every other step of a window leaves the table and the runs alone.
LEMMA WindowSteps ==
    ASSUME ClassroomInv, NEW w \in Windows,
           \/ Report(w) \/ Poll(w) \/ Continue(w) \/ Unconfirmed(w) \/ Refused(w) \/ GiveUp(w)
           \/ Decide(w) \/ Busy(w) \/ Finish(w) \/ Move(w) \/ Close(w)
    PROVE  ClassroomInv'
<1> DEFINE me == window[w]
<1>1. /\ me \in WindowRecs /\ WindowSound(w, me) /\ Memory(w, me)
      /\ tick \in Nat /\ receipts \subseteq Nat
  BY DEF ClassroomInv, ClassroomTypes, WindowSound
<1>2. /\ me.current \in 0 .. MaxCommands /\ me.call \in Calls /\ me.reply \in Replies
      /\ me.todo \in SUBSET ViewRecs /\ me.finals \in SUBSET Reports
  BY <1>1 DEF WindowRecs
<1>3. UNCHANGED <<tick, commands, runs>> /\ receipts' \subseteq Nat
  BY <1>1 DEF Report, Poll, Continue, Unconfirmed, Refused, GiveUp, Decide, Busy, Finish, Move, Close
<1>4. NoResponse \in Responses /\ 0 \in 0 .. MaxCommands
  BY ClassroomAssumption DEF NoResponse, Response, Responses
<1>5. \A c \in Commands : ReportsEnd(me, c) => ~\E v \in me.todo : v.id = c /\ v.status # "accepted"
  BY <1>1 DEF WindowSound, Pursues
<1>6. ASSUME NEW status \in {"declined", "completed", "failed"}, NEW receipt \in Nat \cup {Nobody},
             me.current \in Commands, \A v \in me.todo : v.id > me.current,
             status # "declined" => MayEnd(w, me.current, Response(status, receipt)),
             Set(w, Sending(me, me.current, Response(status, receipt))), UNCHANGED strays
      PROVE  ClassroomInv'
  <2> DEFINE response == Response(status, receipt)
             new == Sending(me, me.current, response)
  <2>1. response \in Responses /\ response.status = status
    BY DEF Response, Responses
  <2>2. Ending(response) => MayEnd(w, me.current, response)
    BY <1>6, <2>1 DEF Ending
  <2>3. window' = [window EXCEPT ![w] = new]
    BY <1>6 DEF Set
  <2> HIDE DEF response
  <2>4. /\ new \in WindowRecs /\ WindowSound(w, new)
        /\ \A c : Pursues(new, c) => \E v \in me.todo : v.id = c /\ v.status # "accepted"
    BY <1>1, <1>5, <1>6, <2>1, <2>2, SendingSound
  <2> HIDE DEF new
  <2>5. \A c \in Commands : Pursues(new, c) => Pursues(window[w], c)
    BY <2>4 DEF Pursues
  <2> QED
    BY <1>3, <1>6, <2>3, <2>4, <2>5, WindowStep
<1>7. CASE Report(w)
  <2>1. PICK at \in {"shut", "idle", "blocked"} : window' = [window EXCEPT ![w] = [Shut EXCEPT !.at = at]]
    BY <1>7 DEF Report, Set
  <2> QED
    BY <1>3, <1>7, <2>1, ShutSound, WindowStep DEF Report
<1>8. CASE Poll(w)
  <2> DEFINE call == Call("poll", 0, NoResponse)
             new == [me EXCEPT !.at = "polling", !.call = call]
  <2>1. call \in Calls /\ call.kind = "poll"
    BY <1>1, <1>4 DEF Call, Calls
  <2> HIDE DEF call
  <2>2. me.at = "idle" /\ window' = [window EXCEPT ![w] = new]
    BY <1>8 DEF Poll, Set, Me, call
  <2>3. /\ new \in WindowRecs /\ new.at = "polling" /\ new.call = call /\ new.todo = me.todo
        /\ new.reply = me.reply /\ new.finals = me.finals
    BY <1>1, <2>1 DEF WindowRecs
  <2> HIDE DEF new
  <2>4. \A c : (Pursues(new, c) => Pursues(me, c)) /\ (ReportsEnd(new, c) => ReportsEnd(me, c))
    BY <2>1, <2>3 DEF Pursues, ReportsEnd
  <2>5. WindowSound(w, new)
    BY <1>1, <2>1, <2>3, <2>4 DEF WindowSound, Memory
  <2> QED
    BY <1>3, <1>8, <2>2, <2>3, <2>4, <2>5, WindowStep DEF Poll
<1>9. CASE Continue(w)
  <2>1. ASSUME NEW new, new = [me EXCEPT !.todo = me.reply.list], TakeNext(w, new)
        PROVE  ClassroomInv'
    <3>1. me.reply.list \in SUBSET ViewRecs
      BY <1>2 DEF Replies
    <3>2. /\ new \in WindowRecs /\ new.at = me.at /\ new.current = me.current /\ new.todo = me.reply.list
          /\ new.call = me.call /\ new.reply = me.reply /\ new.finals = me.finals
      BY <1>1, <2>1, <3>1 DEF WindowRecs
    <3>3. \A c : (Pursues(new, c) => Pursues(me, c)) /\ (ReportsEnd(new, c) => ReportsEnd(me, c))
      BY <3>2 DEF Pursues, ReportsEnd
    <3>4. Memory(w, new)
      BY <1>1, <3>2 DEF Memory
    <3>5. \A c \in Commands : Pursues(new, c) => Pursues(window[w], c) /\ ~ReportsEnd(new, c)
      BY <1>1, <3>3 DEF WindowSound
    <3> QED
      BY <1>3, <1>9, <2>1, <3>2, <3>4, <3>5, TakeNextStep DEF Continue
  <2>2. ASSUME NEW finals, finals = {f \in me.finals : f.id # me.current},
               NEW new, new = [me EXCEPT !.finals = finals], TakeNext(w, new)
        PROVE  ClassroomInv'
    <3>1. finals \in SUBSET Reports /\ finals \subseteq me.finals
      BY <1>2, <2>2
    <3>2. /\ new \in WindowRecs /\ new.at = me.at /\ new.current = me.current /\ new.todo = me.todo
          /\ new.call = me.call /\ new.reply = me.reply /\ new.finals = finals
      BY <1>1, <2>2, <3>1 DEF WindowRecs
    <3>3. \A c : (Pursues(new, c) => Pursues(me, c)) /\ (ReportsEnd(new, c) => ReportsEnd(me, c))
      BY <3>1, <3>2 DEF Pursues, ReportsEnd
    <3>4. Memory(w, new)
      BY <1>1, <3>1, <3>2 DEF Memory
    <3>5. \A c \in Commands : Pursues(new, c) => Pursues(window[w], c) /\ ~ReportsEnd(new, c)
      BY <1>1, <3>3 DEF WindowSound
    <3> QED
      BY <1>3, <1>9, <2>2, <3>2, <3>4, <3>5, TakeNextStep DEF Continue
  <2> QED
    BY <1>9, <2>1, <2>2 DEF Continue, Me
<1>10. CASE Unconfirmed(w)
  <2>1. /\ me.at = "reporting" /\ me.call.response.status = "completed"
        /\ Set(w, Sending(me, me.current, Response("failed", Nobody))) /\ UNCHANGED strays
    BY <1>10 DEF Unconfirmed, Me
  <2>2. MayEnd(w, me.current, me.call.response)
    BY <1>1, <2>1 DEF WindowSound, Ending
  <2>3. MayEnd(w, me.current, Response("failed", Nobody))
    BY <2>2 DEF MayEnd, Response
  <2>4. me.current \in Commands /\ \A v \in me.todo : v.id > me.current
    BY <1>1, <2>1 DEF WindowSound
  <2> QED
    BY <1>6, <2>1, <2>3, <2>4
<1>11. CASE Refused(w)
  <2> DEFINE rested == Rested(me)
  <2>1. PICK at \in {"blocked", "idle"} : window' = [window EXCEPT ![w] = [rested EXCEPT !.at = at]]
    BY <1>11 DEF Refused, Set, Me
  <2>2. /\ rested \in WindowRecs /\ WindowSound(w, rested) /\ \A c : ~Pursues(rested, c)
        /\ rested.at = "idle"
    BY <1>1, RestedSound DEF Rested, WindowRecs
  <2> HIDE DEF rested
  <2> DEFINE new == [rested EXCEPT !.at = at]
  <2>3. /\ new \in WindowRecs /\ new.at = at /\ new.todo = rested.todo /\ new.call = rested.call
        /\ new.reply = rested.reply /\ new.finals = rested.finals
    BY <2>2 DEF WindowRecs
  <2> HIDE DEF new
  <2>4. \A c : ~Pursues(new, c)
    BY <2>2, <2>3 DEF Pursues
  <2>5. WindowSound(w, new)
    BY <2>2, <2>3, <2>4 DEF WindowSound, Memory
  <2> QED
    BY <1>3, <1>11, <2>1, <2>3, <2>4, <2>5, WindowStep DEF Refused, new
<1>12. CASE GiveUp(w)
  <2>1. window' = [window EXCEPT ![w] = Rested(me)] /\ strays' = GivenUp(w)
    BY <1>12 DEF GiveUp, Set, Me
  <2> QED
    BY <1>1, <1>3, <2>1, RestedSound, WindowStep
<1>13. CASE Decide(w)
  <2>1. /\ me.at = "deciding" /\ UNCHANGED strays
        /\ me.current \in Commands /\ \A v \in me.todo : v.id > me.current
        /\ me.call.kind = "none" /\ me.reply.kind = "none" /\ me.reply.list = {}
    BY <1>1, <1>13 DEF Decide, Me, WindowSound
  <2>2. CASE Set(w, Sending(me, me.current, Response("declined", Nobody)))
    BY <1>6, <2>1, <2>2
  <2>3. ASSUME NEW call, call = Call("respond", me.current, Response("accepted", Nobody)),
               Set(w, [me EXCEPT !.at = "accepting", !.call = call])
        PROVE  ClassroomInv'
    <3> DEFINE new == [me EXCEPT !.at = "accepting", !.call = call]
    <3>1. /\ call \in Calls /\ call.kind = "respond" /\ call.id = me.current
          /\ call.response.status = "accepted"
      BY <1>1, <1>2, <2>3 DEF Call, Calls, Response, Responses
    <3>2. /\ new \in WindowRecs /\ new.at = "accepting" /\ new.call = call /\ new.todo = me.todo
          /\ new.reply = me.reply /\ new.finals = me.finals /\ new.current = me.current /\ new.due = me.due
      BY <1>1, <3>1 DEF WindowRecs
    <3>3. window' = [window EXCEPT ![w] = new]
      BY <2>3 DEF Set
    <3> HIDE DEF new
    <3>4. \A c : (Pursues(new, c) => Pursues(me, c)) /\ (ReportsEnd(new, c) => ReportsEnd(me, c))
      BY <2>1, <3>1, <3>2 DEF Pursues, ReportsEnd, Ending
    <3>5. WindowSound(w, new)
      BY <1>1, <2>1, <3>1, <3>2, <3>4 DEF WindowSound, Memory, Ending
    <3> QED
      BY <1>3, <2>1, <3>2, <3>3, <3>4, <3>5, WindowStep
  <2> QED
    BY <1>13, <2>2, <2>3 DEF Decide, Me
<1>14. CASE Busy(w)
  <2>1. /\ me.at = "accepting" /\ me.reply.kind = "ok" /\ UNCHANGED strays
        /\ Set(w, Sending(me, me.current, Response("failed", Nobody)))
    BY <1>14 DEF Busy, Me
  <2>2. /\ me.current \in Commands /\ \A v \in me.todo : v.id > me.current
        /\ Open(w, me.current) /\ WasAccepted(me.current)
    BY <1>1, <2>1 DEF WindowSound
  <2>3. MayEnd(w, me.current, Response("failed", Nobody))
    BY <2>2 DEF MayEnd, Open, Response
  <2> QED
    BY <1>6, <2>1, <2>2, <2>3
<1>15. CASE Finish(w)
  <2>1. /\ me.at = "acting" /\ UNCHANGED strays
        /\ me.current \in Commands /\ \A v \in me.todo : v.id > me.current
        /\ RanIn(me.current, w)
    BY <1>1, <1>15 DEF Finish, Me, WindowSound
  <2>2. RowSound(me.current)
    BY <2>1 DEF ClassroomInv
  <2>3. \A r : MayEnd(w, me.current, r)
    BY <2>1, <2>2 DEF RowSound, MayEnd, Ran
  <2>4. PICK status \in {"completed", "failed"}, receipt \in Nat \cup {Nobody} :
           Set(w, Sending(me, me.current, Response(status, receipt)))
    BY <1>1, <1>15 DEF Finish, Me
  <2> QED
    BY <1>6, <2>1, <2>3, <2>4
<1>16. CASE Move(w)
  <2> DEFINE rested == Rested(me)
             new == [rested EXCEPT !.seen = {}, !.finals = {}]
  <2>1. window' = [window EXCEPT ![w] = new] /\ strays' = GivenUp(w)
    BY <1>16 DEF Move, Set, Me
  <2>2. /\ rested \in WindowRecs /\ WindowSound(w, rested) /\ \A c : ~Pursues(rested, c)
    BY <1>1, RestedSound
  <2> HIDE DEF rested
  <2>3. /\ new \in WindowRecs /\ new.at = rested.at /\ new.todo = rested.todo /\ new.call = rested.call
        /\ new.reply = rested.reply /\ new.finals = {} /\ new.current = rested.current /\ new.due = rested.due
    BY <2>2 DEF WindowRecs
  <2> HIDE DEF new
  <2>4. \A c : ~Pursues(new, c)
    BY <2>2, <2>3 DEF Pursues
  <2>5. WindowSound(w, new)
    BY <2>2, <2>3, <2>4 DEF WindowSound, Memory
  <2> QED
    BY <1>3, <2>1, <2>3, <2>4, <2>5, WindowStep
<1>17. CASE Close(w)
  <2>1. window' = [window EXCEPT ![w] = [Shut EXCEPT !.at = "gone"]] /\ strays' = GivenUp(w)
    BY <1>17 DEF Close, Set
  <2> QED
    BY <1>3, <2>1, ShutSound, WindowStep
<1> QED
  BY <1>7, <1>8, <1>9, <1>10, <1>11, <1>12, <1>13, <1>14, <1>15, <1>16, <1>17

----------------------------------------------------------------------------
(* A run begins. *)

LEMMA BeginStep ==
    ASSUME ClassroomInv, NEW w \in Windows, Begin(w)
    PROVE  /\ ClassroomInv'
           /\ commands[window[w].current].status = "accepted"
           /\ tick < commands[window[w].current].expires
           /\ runs' # runs => runs'[Len(runs')][1] = window[w].current
<1> DEFINE me == window[w]
<1>a. PICK c : c = me.current
  OBVIOUS
<1>b. PICK new : new = [me EXCEPT !.at = "acting", !.call = NoCall, !.reply = NoReply]
  OBVIOUS
<1>1. /\ me.at = "accepting" /\ me.reply.kind = "ok" /\ tick < me.due
      /\ runs' = Append(runs, <<c, w>>) /\ window' = [window EXCEPT ![w] = new]
      /\ UNCHANGED <<tick, commands, clients, strays, receipts, troubles>>
  BY <1>a, <1>b DEF Begin, Me, Set
<1>2. /\ me \in WindowRecs /\ WindowSound(w, me) /\ tick \in Nat /\ window \in [Windows -> WindowRecs]
      /\ commands \in [Commands -> RowRecs] /\ runs \in Seq(Commands \X Windows) /\ OneRun
      /\ \A d \in Commands : RowSound(d)
  BY DEF ClassroomInv, ClassroomTypes
<1>3. /\ c \in Commands /\ Open(w, c) /\ WasAccepted(c) /\ me.due <= commands[c].expires
      /\ \A v \in me.todo : v.id > c
      /\ me.call.kind = "respond"
  BY <1>1, <1>2, <1>a DEF WindowSound
<1>4. commands[c].expires \in Nat /\ me.due \in Int
  BY <1>2, <1>3 DEF RowRecs, WindowRecs
<1>5. tick < commands[c].expires
  BY <1>1, <1>2, <1>3, <1>4
<1>6. commands[c].status = "accepted"
  <2>1. RowSound(c)
    BY <1>2, <1>3
  <2>2. commands[c].status # "expired"
    BY <1>2, <1>4, <1>5, <2>1 DEF RowSound
  <2> QED
    BY <1>3, <2>2 DEF Open, WasAccepted
<1>7. NoCall \in Calls /\ NoCall.kind = "none"
  <2>1. NoResponse \in Responses
    BY DEF NoResponse, Response, Responses
  <2> QED
    BY <2>1, ClassroomAssumption DEF NoCall, Calls
<1>8. NoReply \in Replies /\ NoReply.list = {} /\ NoReply.kind = "none"
  BY DEF NoReply, Reply, Replies
<1>9. /\ new \in WindowRecs /\ new.at = "acting" /\ new.call = NoCall /\ new.reply = NoReply
      /\ new.todo = me.todo /\ new.finals = me.finals /\ new.current = c /\ new.due = me.due
  BY <1>2, <1>7, <1>8, <1>a, <1>b DEF WindowRecs
<1>10. /\ window'[w] = new /\ \A v \in Windows \ {w} : window'[v] = window[v]
       /\ window' \in [Windows -> WindowRecs]
  BY <1>1, <1>2, <1>9
<1>11. /\ runs' \in Seq(Commands \X Windows) /\ Len(runs') = Len(runs) + 1 /\ Len(runs) \in Nat
       /\ runs'[Len(runs')] = <<c, w>>
       /\ \A i \in DOMAIN runs : i \in DOMAIN runs' /\ runs'[i] = runs[i]
       /\ \A i \in DOMAIN runs' : i \in DOMAIN runs \/ i = Len(runs')
  BY <1>1, <1>2, <1>3
<1>12. \A d, v : RanIn(d, v)' <=> RanIn(d, v) \/ (d = c /\ v = w)
  <2>1. Len(runs') \in DOMAIN runs'
    BY <1>11
  <2> QED
    BY <1>11, <2>1 DEF RanIn
<1>13. /\ \A d : WasAccepted(d)' <=> WasAccepted(d)
       /\ \A d, v, r : MayEnd(v, d, r) => MayEnd(v, d, r)'
       /\ \A v, d : Open(v, d) /\ d # c => Open(v, d)'
  BY <1>1, <1>12 DEF WasAccepted, MayEnd, Open, Ran
<1>14. \A v \in Windows : \A d : (v # w /\ Open(v, d)) => Open(v, d)'
  BY <1>3, <1>13 DEF Open
<1>15. OneRun'
  <2>1. \A i \in DOMAIN runs : runs[i][1] # c
    <3> SUFFICES ASSUME NEW i \in DOMAIN runs, runs[i][1] = c PROVE FALSE
      OBVIOUS
    <3>1. runs[i] \in Commands \X Windows
      BY <1>2
    <3>2. PICK v \in Windows : runs[i] = <<c, v>>
      BY <3>1
    <3> QED
      BY <1>3, <3>2 DEF Open, Ran, RanIn
  <2> QED
    BY <1>2, <1>11, <2>1 DEF OneRun
<1>16. (\A d \in Commands : RowSound(d))'
  <2> SUFFICES ASSUME NEW d \in Commands PROVE RowSound(d)'
    OBVIOUS
  <2>1. RowSound(d)
    BY <1>2
  <2>2. Ran(d)' <=> Ran(d) \/ d = c
    BY <1>12 DEF Ran
  <2> QED
    BY <1>1, <1>3, <1>12, <1>13, <2>1, <2>2 DEF RowSound, Open
<1>17. Memory(w, new)'
  <2>1. \A v \in new.todo \cup new.reply.list : v \in me.todo /\ v.id # c
    BY <1>3, <1>8, <1>9 DEF Commands
  <2>2. \A v \in me.todo : /\ commands[v.id].status # "none" /\ v.due <= commands[v.id].expires
                           /\ v.status # "accepted" => Open(w, v.id)
    BY <1>2 DEF WindowSound, Memory
  <2>3. \A f \in me.finals : /\ f.response.status # "none"
                             /\ Ending(f.response) => MayEnd(w, f.id, f.response)
    BY <1>2 DEF WindowSound, Memory
  <2> QED
    BY <1>1, <1>9, <1>13, <2>1, <2>2, <2>3 DEF Memory
<1>18. \A d : (Pursues(new, d) => Pursues(me, d)) /\ (ReportsEnd(new, d) => ReportsEnd(me, d))
  BY <1>7, <1>8, <1>9 DEF Pursues, ReportsEnd
<1>19. WindowSound(w, new)'
  <2>1. \A d \in Commands : Pursues(new, d) => ~ReportsEnd(new, d)
    BY <1>2, <1>18 DEF WindowSound
  <2>2. RanIn(c, w)'
    BY <1>12
  <2> QED
    BY <1>1, <1>3, <1>7, <1>8, <1>9, <1>17, <2>1, <2>2 DEF WindowSound
<1>20. (\A v \in Windows : WindowSound(v, window[v]))'
  <2> SUFFICES ASSUME NEW v \in Windows, NEW rec, rec = window[v], v # w PROVE WindowSound(v, rec)'
    BY <1>10, <1>19
  <2>1. WindowSound(v, rec)
    BY DEF ClassroomInv
  <2>2. Memory(v, rec)'
    BY <1>1, <1>13, <1>14, <2>1 DEF WindowSound, Memory
  <2> QED
    BY <1>1, <1>12, <1>13, <1>14, <2>1, <2>2 DEF WindowSound
<1>21. (\A s \in strays : StraySound(s))'
  <2>a. \A s \in strays : StraySound(s) /\ s.window \in Windows
    BY DEF ClassroomInv, ClassroomTypes
  <2> SUFFICES ASSUME NEW s \in strays, s.call.kind = "respond"
               PROVE  /\ s.call.id \in Commands /\ s.call.response.status # "none"
                      /\ Ending(s.call.response) =>
                            MayEnd(s.window, s.call.id, s.call.response)' /\ ~Pursues(window'[s.window], s.call.id)
    BY <1>1, <2>a DEF StraySound, Pursues
  <2>1. StraySound(s) /\ s.window \in Windows
    BY <2>a
  <2>2. \A d : Pursues(window'[s.window], d) => Pursues(window[s.window], d)
    BY <1>10, <1>18, <2>1
  <2> QED
    BY <1>13, <2>1, <2>2 DEF StraySound
<1>22. ClassroomTypes' /\ OneRow'
  BY <1>1, <1>10, <1>11 DEF ClassroomInv, ClassroomTypes, OneRow, Rows
<1> QED
  BY <1>a, <1>5, <1>6, <1>11, <1>15, <1>16, <1>20, <1>21, <1>22 DEF ClassroomInv

----------------------------------------------------------------------------
(* Steps of the server. *)

\* What a step of the server leaves of a row.
RowKept(c) ==
    commands[c].status # "none" =>
        /\ commands'[c].status # "none"
        /\ commands'[c].key = commands[c].key /\ commands'[c].expires = commands[c].expires
        /\ WasAccepted(c) => WasAccepted(c)' /\ commands'[c].client = commands[c].client

\* The windows and the calls they gave up bear a change of the table that keeps
\* the rows and leaves open what each window pursues.
LEMMA TableStep ==
    ASSUME ClassroomInv, commands' \in [Commands -> RowRecs],
           \A c \in Commands : RowKept(c),
           \A v \in Windows : \A c \in Commands : Pursues(window[v], c) => Open(v, c)',
           UNCHANGED runs
    PROVE  /\ \A v, r : \A c \in Commands : MayEnd(v, c, r) => MayEnd(v, c, r)'
           /\ \A v \in Windows : \A rec : rec = window[v] => WindowSound(v, rec)'
<1>1. \A c, v : RanIn(c, v)' <=> RanIn(c, v)
  BY DEF RanIn
<1>2. \A v, r : \A c \in Commands : MayEnd(v, c, r) => MayEnd(v, c, r)'
  BY <1>1 DEF MayEnd, RowKept, WasAccepted
<1>3. ASSUME NEW v \in Windows, NEW rec, rec = window[v]
      PROVE  WindowSound(v, rec)'
  <2>1. rec \in WindowRecs /\ WindowSound(v, rec)
    BY <1>3 DEF ClassroomInv, ClassroomTypes
  <2>2. \A d \in rec.todo \cup rec.reply.list : d.id \in Commands
    BY <2>1 DEF WindowRecs, Replies, ViewRecs
  <2>3. \A f \in rec.finals : f.id \in Commands
    BY <2>1 DEF WindowRecs, Reports
  <2>4. \A c \in Commands : Pursues(rec, c) => Open(v, c)'
    BY <1>3
  <2>5. Memory(v, rec)'
    <3>1. \A d \in rec.todo \cup rec.reply.list : d.status # "accepted" => Open(v, d.id)'
      BY <2>2, <2>4 DEF Pursues
    <3>2. Memory(v, rec)
      BY <2>1 DEF WindowSound
    <3> QED
      BY <1>2, <2>2, <2>3, <3>1, <3>2 DEF Memory, RowKept
  <2>6. rec.at \in {"deciding", "accepting"} => Open(v, rec.current)'
    BY <2>1, <2>4 DEF Pursues, WindowSound
  <2>7. rec.at \in {"deciding", "accepting", "acting"} =>
           commands'[rec.current].expires = commands[rec.current].expires
    <3>1. rec.at \in {"deciding", "accepting"} => commands[rec.current].status # "none"
      BY <2>1 DEF WindowSound, Open
    <3>2. rec.at = "acting" => commands[rec.current].status # "none"
      BY <2>1 DEF WindowSound, ClassroomInv, RowSound, WasAccepted, Ran
    <3> QED
      BY <2>1, <3>1, <3>2 DEF WindowSound, RowKept
  <2>8. \A c \in Commands : WasAccepted(c) => WasAccepted(c)'
    BY DEF RowKept, WasAccepted
  <2> QED
    BY <1>1, <1>2, <2>1, <2>5, <2>6, <2>7, <2>8 DEF WindowSound
<1> QED
  BY <1>2, <1>3

\* What the server makes of a row: it expires, is handed to the polling window,
\* or takes the response of the window that owns it.
RowChange(c, w, call, at) ==
    \/ commands'[c] = commands[c]
    \/ /\ commands[c].status \in OpenStatuses /\ commands[c].expires <= at
       /\ commands'[c] = [commands[c] EXCEPT !.status = "expired"]
    \/ /\ commands[c].status = "queued"
       /\ commands'[c] = [commands[c] EXCEPT !.status = "received", !.client = w]
    \/ /\ call.kind = "respond" /\ c = call.id /\ commands[c].client = w
       /\ Permitted(commands[c], call.response) /\ FreshReceipt(commands[c], call.response)
       /\ commands'[c] = Settled(commands[c], call.response, at)

LEMMA HandleChanges ==
    ASSUME commands \in [Commands -> RowRecs], NEW w \in Windows, NEW call \in Calls,
           call.kind \in {"poll", "respond"}, call.kind = "respond" => call.id \in Commands,
           NEW at, Handle(w, call, at)
    PROVE  /\ DOMAIN commands' = Commands /\ commands' = [c \in Commands |-> commands'[c]]
           /\ \A c \in Commands : RowChange(c, w, call, at)
<1> DEFINE table == Expired(at)
<1>1. /\ table = [c \in Commands |-> table[c]] /\ DOMAIN table = Commands
      /\ \A c \in Commands :
            \/ table[c] = commands[c]
            \/ /\ commands[c].status \in OpenStatuses /\ commands[c].expires <= at
               /\ table[c] = [commands[c] EXCEPT !.status = "expired"]
  BY DEF Expired
<1>2. \A c \in Commands : table[c] # commands[c] => table[c].status = "expired"
  BY <1>1 DEF RowRecs
<1> HIDE DEF table
<1>3. CASE clients[w] # "open"
  BY <1>3 DEF Handle, RowChange
<1>4. CASE clients[w] = "open" /\ call.kind = "poll"
  <2>1. commands' = Handed(table, w)
    BY <1>4 DEF Handle, table
  <2>2. ASSUME NEW c \in Commands PROVE RowChange(c, w, call, at)
    <3>1. CASE table[c].status = "queued"
      <4>1. table[c] = commands[c]
        BY <1>2, <3>1
      <4>2. commands'[c] = [commands[c] EXCEPT !.status = "received", !.client = w]
        BY <2>1, <3>1, <4>1 DEF Handed
      <4> QED
        BY <3>1, <4>1, <4>2 DEF RowChange
    <3>2. CASE table[c].status # "queued"
      <4>1. commands'[c] = table[c]
        BY <2>1, <3>2 DEF Handed
      <4> QED
        BY <1>1, <4>1 DEF RowChange
    <3> QED
      BY <3>1, <3>2
  <2> QED
    BY <2>1, <2>2 DEF Handed
<1>5. CASE /\ clients[w] = "open" /\ call.kind # "poll"
           /\ Verdict(Expired(at)[call.id], w, call.response) = "done"
  <2>1. commands' = [table EXCEPT ![call.id] = Settled(table[call.id], call.response, at)]
    BY <1>5 DEF Handle, table
  <2>2. call.id \in Commands /\ call.kind = "respond"
    BY <1>5
  <2>3. /\ table[call.id].client = w /\ Permitted(table[call.id], call.response)
        /\ FreshReceipt(table[call.id], call.response)
    BY <1>5 DEF Verdict, table
  <2>4. table[call.id] = commands[call.id]
    BY <1>2, <2>2, <2>3 DEF Permitted
  <2>5. ASSUME NEW c \in Commands PROVE RowChange(c, w, call, at)
    <3>1. CASE c = call.id
      BY <1>1, <2>1, <2>2, <2>3, <2>4, <3>1 DEF RowChange
    <3>2. CASE c # call.id
      BY <1>1, <2>1, <3>2 DEF RowChange
    <3> QED
      BY <3>1, <3>2
  <2> QED
    BY <1>1, <2>1, <2>5
<1>6. CASE /\ clients[w] = "open" /\ call.kind # "poll"
           /\ Verdict(Expired(at)[call.id], w, call.response) # "done"
  <2>1. commands' = table
    BY <1>6 DEF Handle, table
  <2> QED
    BY <1>1, <2>1 DEF RowChange
<1> QED
  BY <1>3, <1>4, <1>5, <1>6

\* The call of a window that the server may handle.
Callable(w, call) ==
    /\ call.kind \in {"poll", "respond"}
    /\ call.kind = "respond" =>
          /\ call.id \in Commands /\ call.response.status # "none"
          /\ Ending(call.response) => MayEnd(w, call.id, call.response)

EndsBy(call, c) == call.kind = "respond" /\ call.id = c /\ Ending(call.response)

\* One row under a handled call: it keeps what it recorded, its history stays
\* true, and it stays open unless the call ends it.
LEMMA RowUnderCall ==
    ASSUME ClassroomInv, NEW w \in Windows, NEW call \in Calls, Callable(w, call),
           NEW at \in call.sent .. tick, NEW c \in Commands, RowChange(c, w, call, at),
           UNCHANGED <<tick, runs>>
    PROVE  /\ commands'[c] \in RowRecs /\ RowKept(c) /\ RowSound(c)'
           /\ commands[c].status = "none" => commands'[c] = commands[c]
           /\ \A v : Open(v, c) => Open(v, c)' \/ (v = w /\ EndsBy(call, c))
<1>1. /\ commands[c] \in RowRecs /\ RowSound(c) /\ call.sent \in Nat /\ at \in Nat /\ at <= tick /\ tick \in Nat
  BY DEF ClassroomInv, ClassroomTypes, Calls
<1>2. /\ \A v : RanIn(c, v)' <=> RanIn(c, v)
      /\ Ran(c)' <=> Ran(c)
  BY DEF RanIn, Ran
<1>3. NoResponse.status = "none" /\ call.response \in Responses /\ commands[c].last \in Responses
  BY <1>1 DEF NoResponse, Response, Calls, RowRecs
<1>4. CASE commands'[c] = commands[c]
  BY <1>1, <1>2, <1>4 DEF RowKept, RowSound, WasAccepted, Open
<1>5. CASE /\ commands[c].status \in OpenStatuses /\ commands[c].expires <= at
           /\ commands'[c] = [commands[c] EXCEPT !.status = "expired"]
  <2>1. /\ commands'[c] \in RowRecs /\ commands'[c].status = "expired"
        /\ commands'[c].client = commands[c].client /\ commands'[c].key = commands[c].key
        /\ commands'[c].expires = commands[c].expires /\ commands'[c].last = commands[c].last
        /\ commands[c].status \in {"queued", "received", "accepted"}
    BY <1>1, <1>5 DEF RowRecs, Statuses, OpenStatuses
  <2>2. commands[c].expires \in Nat
    BY <1>1 DEF RowRecs
  <2>3. commands[c].expires <= tick
    BY <1>1, <1>5, <2>2
  <2>4. RowSound(c)'
    BY <1>1, <1>2, <2>1, <2>3 DEF RowSound, WasAccepted
  <2>5. RowKept(c)
    BY <2>1 DEF RowKept, WasAccepted
  <2> QED
    BY <1>2, <2>1, <2>4, <2>5 DEF Open
<1>6. CASE /\ commands[c].status = "queued"
           /\ commands'[c] = [commands[c] EXCEPT !.status = "received", !.client = w]
  <2>1. /\ commands'[c] \in RowRecs /\ commands'[c].status = "received"
        /\ commands'[c].client = w /\ commands'[c].key = commands[c].key
        /\ commands'[c].expires = commands[c].expires /\ commands'[c].last = commands[c].last
    BY <1>1, <1>6 DEF RowRecs, Statuses
  <2>2. ~Ran(c) /\ ~WasAccepted(c)
    BY <1>1, <1>6 DEF RowSound, WasAccepted
  <2>3. RowSound(c)'
    BY <1>1, <1>2, <1>6, <2>1, <2>2 DEF RowSound, WasAccepted, Ran
  <2> QED
    BY <1>2, <1>6, <2>1, <2>2, <2>3 DEF Open, RowKept
<1>7. CASE /\ call.kind = "respond" /\ c = call.id /\ commands[c].client = w
           /\ Permitted(commands[c], call.response) /\ FreshReceipt(commands[c], call.response)
           /\ commands'[c] = Settled(commands[c], call.response, at)
  <2>1. PICK accepted : accepted = IF call.response.status = "accepted" THEN at ELSE commands[c].accepted
    OBVIOUS
  <2>2. /\ accepted \in Nat /\ (call.response.status # "accepted" => accepted = commands[c].accepted)
    BY <1>1, <2>1 DEF RowRecs
  <2>3. commands'[c] = [commands[c] EXCEPT !.status = call.response.status, !.last = call.response,
                                            !.accepted = accepted]
    BY <1>7, <2>1 DEF Settled
  <2>4. /\ commands'[c] \in RowRecs /\ commands'[c].status = call.response.status
        /\ commands'[c].last = call.response /\ commands'[c].accepted = accepted
        /\ commands'[c].client = w /\ commands'[c].key = commands[c].key
        /\ commands'[c].expires = commands[c].expires
    BY <1>1, <1>3, <1>7, <2>2, <2>3 DEF RowRecs, Statuses, Responses
  <2>5. call.response # NoResponse /\ call.response.status # "none"
    BY <1>3, <1>7 DEF Callable
  <2>6. \/ commands[c].status = "received" /\ call.response.status \in {"accepted", "declined"}
        \/ commands[c].status = "accepted" /\ call.response.status \in {"completed", "failed"}
    BY <1>7 DEF Permitted, Callable, MayEnd, WasAccepted, Ending
  <2>7. call.response.status \in {"completed", "failed"} => MayEnd(w, c, call.response)
    BY <1>7 DEF Callable, Ending
  <2>8. RowKept(c)
    BY <1>7, <2>4, <2>5, <2>6 DEF RowKept, WasAccepted
  <2>9. RowSound(c)'
    <3>1. call.response.status = "completed" =>
             /\ Ran(c)
             /\ commands[c].key \in Uploads => call.response.receipt >= commands[c].accepted
      BY <1>7, <2>7 DEF MayEnd, FreshReceipt, Ran
    <3>2. Ran(c) => commands[c].status = "accepted"
      BY <1>1, <2>6 DEF RowSound, WasAccepted
    <3>3. WasAccepted(c)' <=> call.response.status \in {"accepted", "completed", "failed"}
      BY <2>4, <2>5, <2>6 DEF WasAccepted
    <3>4. \A v \in Windows : RanIn(c, v) => v = w
      BY <1>1, <1>7 DEF RowSound
    <3> QED
      BY <1>1, <1>2, <2>2, <2>4, <2>6, <3>1, <3>2, <3>3, <3>4 DEF RowSound
  <2>10. \A v : Open(v, c) => Open(v, c)' \/ (v = w /\ EndsBy(call, c))
    BY <1>2, <1>7, <2>4, <2>6 DEF Open, EndsBy, Ending
  <2> QED
    BY <2>4, <2>6, <2>8, <2>9, <2>10
<1> QED
  BY <1>4, <1>5, <1>6, <1>7 DEF RowChange

\* The table under a handled call.
LEMMA HandleStep ==
    ASSUME ClassroomInv, NEW w \in Windows, NEW call \in Calls, Callable(w, call),
           NEW at \in call.sent .. tick, Handle(w, call, at), UNCHANGED <<tick, runs>>,
           \A c \in Commands : Pursues(window[w], c) => ~EndsBy(call, c)
    PROVE  /\ commands' \in [Commands -> RowRecs] /\ OneRow'
           /\ \A c \in Commands : RowKept(c) /\ RowSound(c)'
           /\ \A v \in Windows : \A c \in Commands : Pursues(window[v], c) => Open(v, c)'
           /\ \A v, r : \A c \in Commands : MayEnd(v, c, r) => MayEnd(v, c, r)'
           /\ \A v \in Windows : \A rec : rec = window[v] => WindowSound(v, rec)'
<1>1. /\ DOMAIN commands' = Commands /\ commands' = [c \in Commands |-> commands'[c]]
      /\ \A c \in Commands : RowChange(c, w, call, at)
  BY HandleChanges DEF ClassroomInv, ClassroomTypes, Callable
<1>2. \A c \in Commands : /\ commands'[c] \in RowRecs /\ RowKept(c) /\ RowSound(c)'
                          /\ commands[c].status = "none" => commands'[c] = commands[c]
                          /\ \A v : Open(v, c) => Open(v, c)' \/ (v = w /\ EndsBy(call, c))
  BY <1>1, RowUnderCall
<1>3. commands' \in [Commands -> RowRecs]
  BY <1>1, <1>2
<1>4. OneRow'
  <2>1. \A c \in Rows' : c \in Rows /\ commands'[c].key = commands[c].key
    BY <1>2 DEF Rows, RowKept
  <2> QED
    BY <2>1 DEF OneRow, ClassroomInv
<1>5. \A v \in Windows : \A c \in Commands : Pursues(window[v], c) => Open(v, c)'
  <2>1. \A v \in Windows : \A c \in Commands : Pursues(window[v], c) => Open(v, c)
    BY PursuedIsOpen DEF ClassroomInv
  <2> QED
    BY <1>2, <2>1
<1> QED
  BY <1>2, <1>3, <1>4, <1>5, TableStep

\* The invariant again, once the table, the windows and the strays are sound.
LEMMA ServedInv ==
    ASSUME ClassroomInv, commands' \in [Commands -> RowRecs], window' \in [Windows -> WindowRecs],
           OneRow', \A c \in Commands : RowSound(c)',
           \A v \in Windows : \A rec : rec = window'[v] => WindowSound(v, rec)',
           \A v, r : \A c \in Commands : MayEnd(v, c, r) => MayEnd(v, c, r)',
           strays' \subseteq strays,
           \A s \in strays' : \A c \in Commands :
              Pursues(window'[s.window], c) /\ ~Pursues(window[s.window], c) => ~EndsBy(s.call, c),
           UNCHANGED <<tick, runs, receipts>>
    PROVE  ClassroomInv'
<1>1. ClassroomTypes' /\ OneRun'
  BY DEF ClassroomInv, ClassroomTypes, OneRun
<1>2. \A v \in Windows : WindowSound(v, window[v])'
  OBVIOUS
<1>3. \A s \in strays : StraySound(s)
  BY DEF ClassroomInv
<1>4. ASSUME NEW s \in strays' PROVE StraySound(s)'
  <2>1. StraySound(s)
    BY <1>3
  <2>2. s.call.kind = "respond" /\ Ending(s.call.response) =>
           MayEnd(s.window, s.call.id, s.call.response)' /\ ~Pursues(window'[s.window], s.call.id)
    BY <2>1 DEF StraySound, EndsBy
  <2> QED
    BY <2>1, <2>2 DEF StraySound, Pursues
<1> QED
  BY <1>1, <1>2, <1>4 DEF ClassroomInv

\* What a window learns: the requests that are its own, and an acceptance that
\* the server recorded.
LEMMA AnswerSound ==
    ASSUME commands \in [Commands -> RowRecs], commands' \in [Commands -> RowRecs], tick \in Nat,
           NEW w \in Windows, NEW call \in Calls, Callable(w, call), NEW at \in call.sent .. tick,
           Handle(w, call, at)
    PROVE  /\ Answer(w, call, at) \in Replies
           /\ call.kind # "poll" => Answer(w, call, at).list = {}
           /\ \A v \in Answer(w, call, at).list :
                 /\ v.id \in Commands /\ commands'[v.id].client = w
                 /\ v.status = commands'[v.id].status /\ v.status \in {"received", "accepted"}
                 /\ v.due <= commands'[v.id].expires
           /\ call.kind = "respond" /\ call.response.status = "accepted" /\ Answer(w, call, at).kind = "ok"
                 => WasAccepted(call.id)'
<1>a. call.sent \in Nat /\ at \in Nat /\ call.sent <= at
  BY DEF Calls
<1>b. \A kind, list : Reply(kind, list).kind = kind /\ Reply(kind, list).list = list
  BY DEF Reply
<1>c. \A kind \in {"none", "commands", "ok", "denied", "refused"} : Reply(kind, {}) \in Replies
  BY DEF Reply, Replies
<1>1. CASE clients[w] # "open"
  <2>1. Answer(w, call, at) = Reply("denied", {})
    BY <1>1 DEF Answer
  <2> QED
    BY <1>b, <1>c, <2>1
<1>2. CASE clients[w] = "open" /\ call.kind = "poll"
  <2>1. commands' = Handed(Expired(at), w)
    BY <1>2 DEF Handle
  <2>2. Answer(w, call, at) = Reply("commands", Views(commands', w, call, at))
    BY <1>2, <2>1 DEF Answer
  <2>3. \A c \in Commands : commands'[c].status # "queued"
    BY <2>1 DEF Handed, RowRecs
  <2>4. \A c \in Offered(commands', w) : /\ c \in Commands /\ commands'[c].client = w
                                         /\ commands'[c].status \in {"received", "accepted"}
    BY <2>3 DEF Offered, Rows
  <2>5. ASSUME NEW v \in Views(commands', w, call, at)
        PROVE  /\ v \in ViewRecs /\ v.id \in Commands /\ commands'[v.id].client = w
               /\ v.status = commands'[v.id].status /\ v.status \in {"received", "accepted"}
               /\ v.due <= commands'[v.id].expires
    <3>1. PICK c \in Offered(commands', w) :
             v = [id |-> c, status |-> commands'[c].status,
                  due |-> call.sent + (commands'[c].expires - at)]
      BY DEF Views, Deadline
    <3>2. c \in Commands /\ commands'[c].client = w /\ commands'[c].status \in {"received", "accepted"}
      BY <2>4
    <3>3. commands'[c].expires \in Nat
      BY <3>2 DEF RowRecs
    <3>4. PICK due : due = call.sent + (commands'[c].expires - at)
      OBVIOUS
    <3>5. due \in Int /\ due <= commands'[c].expires
      BY <1>a, <3>3, <3>4
    <3> QED
      BY <3>1, <3>2, <3>4, <3>5 DEF ViewRecs
  <2>6. Answer(w, call, at) \in Replies
    BY <2>2, <2>5 DEF Reply, Replies
  <2> QED
    BY <1>2, <1>b, <2>2, <2>5, <2>6
<1>3. CASE clients[w] = "open" /\ call.kind # "poll"
  <2>1. PICK answered : answered = Verdict(Expired(at)[call.id], w, call.response)
    OBVIOUS
  <2>2. /\ answered \in {"denied", "repeated", "refused", "done"}
        /\ answered = "repeated" => /\ Expired(at)[call.id].status = call.response.status
                                   /\ Expired(at)[call.id].last = call.response
    BY <2>1 DEF Verdict
  <2>3. PICK kind : kind = IF answered \in {"done", "repeated"} THEN "ok" ELSE answered
    OBVIOUS
  <2>4. Answer(w, call, at) = Reply(kind, {})
    BY <1>3, <2>1, <2>3 DEF Answer
  <2>5. kind \in {"ok", "denied", "refused"} /\ (kind = "ok" => answered \in {"done", "repeated"})
    BY <2>2, <2>3
  <2>6. ASSUME call.kind = "respond", call.response.status = "accepted", kind = "ok"
        PROVE  WasAccepted(call.id)'
    <3>1. call.id \in Commands /\ call.response # NoResponse
      BY <2>6 DEF Callable, NoResponse, Response
    <3>2. CASE answered = "done"
      <4>1. commands' = [Expired(at) EXCEPT ![call.id] = Settled(@, call.response, at)]
        BY <1>3, <2>1, <3>2 DEF Handle
      <4>2. PICK row \in RowRecs : row = Expired(at)[call.id]
        <5>1. PICK old \in RowRecs : old = commands[call.id]
          BY <3>1
        <5>2. [old EXCEPT !.status = "expired"] \in RowRecs
          BY DEF RowRecs, Statuses
        <5> QED
          BY <3>1, <5>1, <5>2 DEF Expired
      <4>3. commands'[call.id] = Settled(row, call.response, at)
        BY <3>1, <4>1, <4>2 DEF Expired
      <4>4. PICK accepted : accepted = IF call.response.status = "accepted" THEN at ELSE row.accepted
        OBVIOUS
      <4>5. commands'[call.id] = [row EXCEPT !.status = call.response.status, !.last = call.response,
                                             !.accepted = accepted]
        BY <4>3, <4>4 DEF Settled
      <4>6. commands'[call.id].status = call.response.status /\ commands'[call.id].last = call.response
        BY <4>2, <4>5 DEF RowRecs
      <4> QED
        BY <2>6, <3>1, <4>6 DEF WasAccepted
    <3>3. CASE answered = "repeated"
      <4>1. commands' = Expired(at)
        BY <1>3, <2>1, <3>3 DEF Handle
      <4> QED
        BY <2>2, <2>6, <3>1, <3>3, <4>1 DEF WasAccepted
    <3> QED
      BY <2>5, <2>6, <3>2, <3>3
  <2> QED
    BY <1>3, <1>b, <1>c, <2>4, <2>5, <2>6
<1> QED
  BY <1>1, <1>2, <1>3 DEF Callable

\* A call the server handles while its window waits for the answer.
LEMMA ServeStep ==
    ASSUME ClassroomInv, NEW w \in Windows, Serve(w)
    PROVE  ClassroomInv'
<1>a. PICK me : me = window[w]
  OBVIOUS
<1>b. PICK call : call = me.call
  OBVIOUS
<1>1. /\ call.kind # "none" /\ me.reply.kind = "none"
      /\ UNCHANGED <<tick, clients, strays, receipts, runs, troubles>>
  BY <1>a, <1>b DEF Serve
<1>2. PICK at \in call.sent .. tick :
         Handle(w, call, at) /\ window' = [window EXCEPT ![w].reply = Answer(w, call, at)]
  BY <1>a, <1>b DEF Serve
<1>c. PICK reply : reply = Answer(w, call, at)
  OBVIOUS
<1>d. PICK new : new = [me EXCEPT !.reply = reply]
  OBVIOUS
<1>3. /\ me \in WindowRecs /\ WindowSound(w, me) /\ call \in Calls /\ window \in [Windows -> WindowRecs]
      /\ commands \in [Commands -> RowRecs] /\ tick \in Nat
  BY <1>a, <1>b DEF ClassroomInv, ClassroomTypes, WindowRecs
<1>4. Callable(w, call)
  BY <1>1, <1>3, <1>b DEF Callable, Calls, WindowSound
<1>5. \A c : EndsBy(call, c) => ReportsEnd(me, c)
  BY <1>b DEF EndsBy, ReportsEnd
<1>6. /\ commands' \in [Commands -> RowRecs] /\ OneRow'
      /\ \A c \in Commands : RowKept(c) /\ RowSound(c)'
      /\ \A v, r : \A c \in Commands : MayEnd(v, c, r) => MayEnd(v, c, r)'
      /\ \A v \in Windows : \A rec : rec = window[v] => WindowSound(v, rec)'
  <2>1. \A c \in Commands : Pursues(window[w], c) => ~EndsBy(call, c)
    BY <1>3, <1>5, <1>a DEF WindowSound
  <2> QED
    BY <1>1, <1>2, <1>3, <1>4, <2>1, HandleStep
<1>7. /\ reply \in Replies
      /\ call.kind # "poll" => reply.list = {}
      /\ \A v \in reply.list :
            /\ v.id \in Commands /\ commands'[v.id].client = w
            /\ v.status = commands'[v.id].status /\ v.status \in {"received", "accepted"}
            /\ v.due <= commands'[v.id].expires
      /\ call.kind = "respond" /\ call.response.status = "accepted" /\ reply.kind = "ok"
            => WasAccepted(call.id)'
  BY <1>2, <1>3, <1>4, <1>6, <1>c, AnswerSound
<1>8. /\ new \in WindowRecs /\ new.at = me.at /\ new.todo = me.todo /\ new.current = me.current
      /\ new.due = me.due /\ new.finals = me.finals /\ new.call = call /\ new.reply = reply
  BY <1>3, <1>7, <1>b, <1>d DEF WindowRecs
<1>9. /\ window'[w] = new /\ \A v \in Windows \ {w} : window'[v] = window[v]
      /\ window' \in [Windows -> WindowRecs]
  BY <1>2, <1>3, <1>8, <1>a, <1>c, <1>d
<1>10. WindowSound(w, me)'
  BY <1>6, <1>a
<1>11. \A v \in reply.list : v.status # "accepted" => Open(w, v.id)' /\ ~WasAccepted(v.id)'
  BY <1>6, <1>7 DEF Open, RowSound, WasAccepted
<1>12. \A c \in Commands : ReportsEnd(me, c) => WasAccepted(c)'
  <2>1. ASSUME NEW c \in Commands, ReportsEnd(me, c) PROVE \E r : MayEnd(w, c, r)
    BY <1>3, <2>1 DEF WindowSound, Memory, ReportsEnd
  <2> QED
    BY <1>6, <2>1 DEF MayEnd
<1>13. \A c : Pursues(new, c) => Pursues(me, c) \/ \E v \in reply.list : v.id = c /\ v.status # "accepted"
  BY <1>8 DEF Pursues
<1>14. \A c \in Commands : Pursues(new, c) => ~ReportsEnd(new, c)
  <2>1. \A c : ReportsEnd(new, c) => ReportsEnd(me, c)
    BY <1>8, <1>b DEF ReportsEnd
  <2>2. \A c \in Commands : Pursues(me, c) => ~ReportsEnd(me, c)
    BY <1>3 DEF WindowSound
  <2> QED
    BY <1>11, <1>12, <1>13, <2>1, <2>2
<1>15. Memory(w, new)'
  <2>1. Memory(w, me)'
    BY <1>10 DEF WindowSound
  <2>2. \A v \in new.todo \cup new.reply.list : v \in me.todo \/ v \in reply.list
    BY <1>8
  <2>3. \A v \in reply.list : commands'[v.id].status # "none"
    BY <1>7
  <2> QED
    BY <1>7, <1>8, <1>11, <2>1, <2>2, <2>3 DEF Memory
<1>16. WindowSound(w, new)'
  <2>1. me.at # "deciding"
    BY <1>1, <1>3, <1>b DEF WindowSound
  <2>2. me.at = "accepting" /\ reply.kind = "ok" => WasAccepted(me.current)'
    BY <1>3, <1>7, <1>b DEF WindowSound
  <2> QED
    BY <1>7, <1>8, <1>10, <1>14, <1>15, <1>b, <2>1, <2>2 DEF WindowSound
<1>17. \A s \in strays' : \A c \in Commands :
          Pursues(window'[s.window], c) /\ ~Pursues(window[s.window], c) => ~EndsBy(s.call, c)
  <2> SUFFICES ASSUME NEW s \in strays, NEW c \in Commands, EndsBy(s.call, c),
                      Pursues(window'[s.window], c), ~Pursues(window[s.window], c)
               PROVE  FALSE
    BY <1>1
  <2>1. StraySound(s) /\ s.window \in Windows
    BY DEF ClassroomInv, ClassroomTypes
  <2>2. s.window = w
    BY <1>9, <2>1
  <2>3. \E v \in reply.list : v.id = c /\ v.status # "accepted"
    BY <1>9, <1>13, <1>a, <2>2
  <2>4. \E r : MayEnd(w, c, r)
    BY <2>1, <2>2 DEF StraySound, EndsBy
  <2> QED
    BY <1>6, <1>11, <2>3, <2>4 DEF MayEnd
<1>18. \A v \in Windows : \A rec : rec = window'[v] => WindowSound(v, rec)'
  BY <1>6, <1>9, <1>16
<1> QED
  BY <1>1, <1>6, <1>9, <1>17, <1>18, ServedInv

\* A call that nobody waits for is handled.
LEMMA ServeStrayStep ==
    ASSUME ClassroomInv, ServeStray
    PROVE  ClassroomInv'
<1>1. PICK s \in strays : /\ \E at \in s.call.sent .. tick : Handle(s.window, s.call, at)
                          /\ strays' = strays \ {s}
                          /\ UNCHANGED <<tick, clients, window, receipts, runs, troubles>>
  BY DEF ServeStray
<1>2. PICK at \in s.call.sent .. tick : Handle(s.window, s.call, at)
  BY <1>1
<1>3. s.window \in Windows /\ s.call \in Calls /\ StraySound(s)
  BY DEF ClassroomInv, ClassroomTypes
<1>4. Callable(s.window, s.call)
  BY <1>3 DEF Callable, StraySound, Calls
<1>5. \A c \in Commands : Pursues(window[s.window], c) => ~EndsBy(s.call, c)
  BY <1>3 DEF StraySound, EndsBy
<1>6. /\ commands' \in [Commands -> RowRecs] /\ OneRow'
      /\ \A c \in Commands : RowKept(c) /\ RowSound(c)'
      /\ \A v, r : \A c \in Commands : MayEnd(v, c, r) => MayEnd(v, c, r)'
      /\ \A v \in Windows : \A rec : rec = window[v] => WindowSound(v, rec)'
  BY <1>1, <1>2, <1>3, <1>4, <1>5, HandleStep
<1>7. window' = window /\ window \in [Windows -> WindowRecs]
  BY <1>1 DEF ClassroomInv, ClassroomTypes
<1> QED
  BY <1>1, <1>6, <1>7, ServedInv

\* A request is asked: rows that are due expire, and one new row may be queued.
LEMMA AskStep ==
    ASSUME ClassroomInv, NEW k \in Keys, Ask(k)
    PROVE  ClassroomInv'
<1> DEFINE table == Expired(tick)
<1>1. /\ commands \in [Commands -> RowRecs] /\ tick \in Nat /\ window \in [Windows -> WindowRecs]
      /\ UNCHANGED <<tick, clients, window, strays, receipts, runs, troubles>>
      /\ \A c \in Commands : RowSound(c)
  BY DEF Ask, ClassroomInv, ClassroomTypes
<1>2. ASSUME NEW c \in Commands
      PROVE  /\ table[c] \in RowRecs /\ table[c].key = commands[c].key
             /\ table[c].expires = commands[c].expires /\ table[c].client = commands[c].client
             /\ table[c].last = commands[c].last
             /\ \/ table[c].status = commands[c].status
                \/ /\ table[c].status = "expired" /\ commands[c].expires <= tick
                   /\ commands[c].status \in {"queued", "received", "accepted"}
             /\ table[c].accepted = commands[c].accepted
  BY <1>1 DEF Expired, RowRecs, Statuses, OpenStatuses
<1>3. table = [c \in Commands |-> table[c]]
  BY DEF Expired
<1> HIDE DEF table
<1>4. PICK row : row = [key |-> k, status |-> "queued", client |-> Nobody,
                        expires |-> tick + Lifetime, accepted |-> 0, last |-> NoResponse]
  OBVIOUS
<1>5. row \in RowRecs /\ row.status = "queued" /\ row.key = k /\ row.client = Nobody
  <2>1. tick + Lifetime \in Nat /\ 0 \in Nat
    BY <1>1, ClassroomAssumption
  <2>2. PICK expires \in Nat : expires = tick + Lifetime
    BY <2>1
  <2> QED
    BY <1>4, <2>1, <2>2 DEF RowRecs, Statuses, NoResponse, Response, Responses
<1>6. \/ commands' = table
      \/ \E c \in Commands \ Rows : commands' = [table EXCEPT ![c] = row] /\ Known(k) = {}
  BY <1>4 DEF Ask, table
<1>7. \/ \A c \in Commands : commands'[c] = table[c]
      \/ \E c \in Commands \ Rows : /\ commands'[c] = row /\ Known(k) = {}
                                    /\ \A d \in Commands \ {c} : commands'[d] = table[d]
  BY <1>3, <1>6
<1>8. \A c \in Commands : \/ commands'[c] = table[c]
                          \/ commands'[c] = row /\ c \notin Rows /\ Known(k) = {}
  BY <1>7
<1>9. commands' \in [Commands -> RowRecs]
  BY <1>2, <1>3, <1>5, <1>6
<1>10. \A c, v : RanIn(c, v)' <=> RanIn(c, v)
  BY <1>1 DEF RanIn
<1>11. ASSUME NEW c \in Commands PROVE RowKept(c) /\ RowSound(c)'
  <2>1. CASE commands'[c] = table[c]
    <3>1. RowKept(c)
      BY <1>2, <2>1 DEF RowKept, WasAccepted
    <3>2. RowSound(c)
      BY <1>1
    <3> QED
      BY <1>1, <1>2, <1>10, <2>1, <3>1, <3>2 DEF RowSound, WasAccepted, Ran
  <2>2. CASE commands'[c] = row /\ c \notin Rows
    <3>1. commands[c].status = "none"
      BY <2>2 DEF Rows
    <3>2. ~Ran(c)
      BY <1>1, <3>1 DEF RowSound, WasAccepted
    <3> QED
      BY <1>5, <1>10, <2>2, <3>1, <3>2 DEF RowKept, RowSound, Ran
  <2> QED
    BY <1>8, <2>1, <2>2
<1>12. OneRow'
  <2>1. ASSUME NEW c \in Rows', NEW d \in Rows', commands'[c].key = commands'[d].key PROVE c = d
    <3>1. c \in Commands /\ d \in Commands
      BY DEF Rows
    <3>2. \A b \in Rows' : commands'[b] = table[b] => b \in Rows /\ commands'[b].key = commands[b].key
      BY <1>2 DEF Rows
    <3>3. CASE commands'[c] = table[c] /\ commands'[d] = table[d]
      BY <2>1, <3>2, <3>3 DEF OneRow, ClassroomInv
    <3>4. CASE commands'[c] # table[c]
      <4>1. /\ commands'[c] = row /\ Known(k) = {}
            /\ d # c => commands'[d] = table[d]
        BY <1>7, <3>1, <3>4
      <4>2. \A b \in Rows : commands[b].key # k
        BY <4>1 DEF Known
      <4> QED
        BY <1>5, <2>1, <3>2, <4>1, <4>2
    <3>5. CASE commands'[d] # table[d]
      <4>1. /\ commands'[d] = row /\ Known(k) = {}
            /\ d # c => commands'[c] = table[c]
        BY <1>7, <3>1, <3>5
      <4>2. \A b \in Rows : commands[b].key # k
        BY <4>1 DEF Known
      <4> QED
        BY <1>5, <2>1, <3>2, <4>1, <4>2
    <3> QED
      BY <3>3, <3>4, <3>5
  <2> QED
    BY <2>1 DEF OneRow
<1>13. \A v \in Windows : \A c \in Commands : Pursues(window[v], c) => Open(v, c)'
  <2> SUFFICES ASSUME NEW v \in Windows, NEW c \in Commands, Pursues(window[v], c) PROVE Open(v, c)'
    OBVIOUS
  <2>1. Open(v, c)
    BY PursuedIsOpen DEF ClassroomInv
  <2>2. commands'[c] = table[c]
    BY <1>8, <2>1 DEF Rows, Open
  <2> QED
    BY <1>2, <1>10, <2>1, <2>2 DEF Open, Ran
<1>14. /\ \A v, r : \A c \in Commands : MayEnd(v, c, r) => MayEnd(v, c, r)'
       /\ \A v \in Windows : \A rec : rec = window[v] => WindowSound(v, rec)'
  BY <1>1, <1>9, <1>11, <1>13, TableStep
<1> QED
  BY <1>1, <1>9, <1>11, <1>12, <1>14, ServedInv

\* Time passes, the student submits on their own, a session ends, or nothing happens.
LEMMA WindowQuietStep ==
    ASSUME ClassroomInv, UNCHANGED <<commands, window, strays, runs>>,
           tick' \in Nat, tick' >= tick, receipts' \subseteq Nat
    PROVE  ClassroomInv'
<1>1. tick \in Nat /\ commands \in [Commands -> RowRecs]
  BY DEF ClassroomInv, ClassroomTypes
<1>2. \A c \in Commands : RowSound(c)'
  <2> SUFFICES ASSUME NEW c \in Commands PROVE RowSound(c)'
    OBVIOUS
  <2>1. RowSound(c) /\ commands[c].expires \in Nat
    BY <1>1 DEF ClassroomInv, RowRecs
  <2> QED
    BY <1>1, <2>1 DEF RowSound, WasAccepted, Ran, RanIn
<1>3. \A c, v, r : (MayEnd(v, c, r)' <=> MayEnd(v, c, r)) /\ (Open(v, c)' <=> Open(v, c))
  BY DEF MayEnd, WasAccepted, Open, Ran, RanIn
<1>4. \A v \in Windows : WindowSound(v, window[v])'
  <2> SUFFICES ASSUME NEW v \in Windows PROVE WindowSound(v, window[v])'
    OBVIOUS
  <2>1. WindowSound(v, window[v])
    BY DEF ClassroomInv
  <2>2. \A c : Pursues(window[v], c)' <=> Pursues(window[v], c)
    BY DEF Pursues
  <2>3. \A c : ReportsEnd(window[v], c)' <=> ReportsEnd(window[v], c)
    BY DEF ReportsEnd
  <2> QED
    BY <1>3, <2>1, <2>2, <2>3 DEF WindowSound, Memory, WasAccepted, RanIn
<1>5. \A s \in strays' : StraySound(s)'
  <2> SUFFICES ASSUME NEW s \in strays PROVE StraySound(s)'
    OBVIOUS
  <2>1. StraySound(s)
    BY DEF ClassroomInv
  <2>2. \A c : Pursues(window[s.window], c)' <=> Pursues(window[s.window], c)
    BY DEF Pursues
  <2> QED
    BY <1>3, <2>1, <2>2 DEF StraySound
<1>6. ClassroomTypes' /\ OneRun' /\ OneRow'
  BY DEF ClassroomInv, ClassroomTypes, OneRun, OneRow, Rows
<1> QED
  BY <1>2, <1>4, <1>5, <1>6 DEF ClassroomInv

----------------------------------------------------------------------------
(* The theorems. *)

LEMMA ClassroomInvInit == ClassroomInit => ClassroomInv
<1> SUFFICES ASSUME ClassroomInit PROVE ClassroomInv
  OBVIOUS
<1>1. NoRow \in RowRecs /\ NoRow.status = "none"
  <2>1. 0 \in Nat
    OBVIOUS
  <2> QED
    BY <2>1 DEF NoRow, RowRecs, Statuses, NoResponse, Response, Responses
<1>2. /\ tick = 0 /\ commands = [c \in Commands |-> NoRow] /\ window = [w \in Windows |-> Shut]
      /\ strays = {} /\ receipts = {} /\ runs = <<>>
  BY DEF ClassroomInit
<1>3. /\ [Shut EXCEPT !.at = "shut"] = Shut
      /\ \A w : Shut \in WindowRecs /\ WindowSound(w, Shut)
  <2>1. [Shut EXCEPT !.at = "shut"] = Shut
    BY DEF Shut
  <2> QED
    BY <2>1, ShutSound
<1>4. ClassroomTypes
  <2>1. runs \in Seq(Commands \X Windows)
    BY <1>2
  <2> QED
    BY <1>1, <1>2, <1>3, <2>1 DEF ClassroomTypes
<1>5. DOMAIN runs = {}
  BY <1>2
<1>6. \A c \in Commands : RowSound(c)
  BY <1>1, <1>2, <1>5 DEF RowSound, Ran, RanIn
<1>7. OneRun /\ OneRow
  BY <1>1, <1>2, <1>5 DEF OneRun, OneRow, Rows
<1> QED
  BY <1>2, <1>3, <1>4, <1>6, <1>7 DEF ClassroomInv

\* No action but Begin records a run.
LEMMA OnlyBeginRuns ==
    ASSUME [ClassroomNext]_classroomVars
    PROVE  runs' = runs \/ \E w \in Windows : Begin(w)
BY DEF ClassroomNext, classroomVars, Tick, StudentSubmits, ServeStray, Ask, Serve, SessionEnds, Report,
       Poll, Continue, Unconfirmed, Refused, GiveUp, Decide, Busy, Finish, Move, Close

LEMMA ClassroomInvStep == ClassroomInv /\ [ClassroomNext]_classroomVars => ClassroomInv'
<1> SUFFICES ASSUME ClassroomInv, [ClassroomNext]_classroomVars PROVE ClassroomInv'
  OBVIOUS
<1>1. tick \in Nat /\ receipts \subseteq Nat
  BY DEF ClassroomInv, ClassroomTypes
<1>2. CASE Tick
  BY <1>1, <1>2, WindowQuietStep DEF Tick
<1>3. CASE StudentSubmits
  BY <1>1, <1>3, WindowQuietStep DEF StudentSubmits
<1>4. CASE ServeStray
  BY <1>4, ServeStrayStep
<1>5. CASE \E k \in Keys : Ask(k)
  BY <1>5, AskStep
<1>6. ASSUME NEW w \in Windows, Serve(w) PROVE ClassroomInv'
  BY <1>6, ServeStep
<1>7. ASSUME NEW w \in Windows, SessionEnds(w) PROVE ClassroomInv'
  BY <1>1, <1>7, WindowQuietStep DEF SessionEnds
<1>8. ASSUME NEW w \in Windows, Begin(w) PROVE ClassroomInv'
  BY <1>8, BeginStep
<1>9. ASSUME NEW w \in Windows,
             \/ Report(w) \/ Poll(w) \/ Continue(w) \/ Unconfirmed(w) \/ Refused(w) \/ GiveUp(w)
             \/ Decide(w) \/ Busy(w) \/ Finish(w) \/ Move(w) \/ Close(w)
      PROVE  ClassroomInv'
  BY <1>9, WindowSteps
<1>10. CASE UNCHANGED classroomVars
  BY <1>1, <1>10, WindowQuietStep DEF classroomVars
<1> QED
  BY <1>2, <1>3, <1>4, <1>5, <1>6, <1>7, <1>8, <1>9, <1>10 DEF ClassroomNext

THEOREM ClassroomIsSound == ClassroomSpec => []ClassroomInv
BY ClassroomInvInit, ClassroomInvStep, PTL DEF ClassroomSpec

\* The history an instructor reads is true (RequestsRunOnce), however many
\* windows, requests and lost, repeated or late calls there are.
THEOREM RequestsStayTrue == ClassroomSpec => []RequestsRunOnce
<1>1. ClassroomInv => RequestsRunOnce
  <2> SUFFICES ASSUME ClassroomInv PROVE RequestsRunOnce
    OBVIOUS
  <2>1. /\ runs \in Seq(Commands \X Windows) /\ OneRun /\ OneRow
        /\ \A c \in Commands : RowSound(c)
    BY DEF ClassroomInv, ClassroomTypes
  <2>2. ASSUME NEW i \in DOMAIN runs PROVE runs[i][1] \in Rows
    <3>1. runs[i] \in Commands \X Windows
      BY <2>1
    <3>2. PICK c \in Commands, w \in Windows : runs[i] = <<c, w>>
      BY <3>1
    <3>3. Ran(c)
      BY <3>2 DEF Ran, RanIn
    <3> QED
      BY <2>1, <3>2, <3>3 DEF RowSound, WasAccepted, Rows
  <2>3. \A i, j \in DOMAIN runs : commands[runs[i][1]].key = commands[runs[j][1]].key => i = j
    BY <2>1, <2>2 DEF OneRun, OneRow
  <2>4. ASSUME NEW c \in Rows
        PROVE  /\ \A w \in Windows : RanIn(c, w) => commands[c].client = w
               /\ Ran(c) => /\ commands[c].last # NoResponse
                            /\ commands[c].status \notin {"queued", "received", "declined"}
               /\ commands[c].status = "completed" =>
                     Ran(c) /\ (commands[c].key \in Uploads =>
                                  commands[c].last.receipt >= commands[c].accepted)
    BY <2>1 DEF Rows, RowSound, WasAccepted
  <2> QED
    BY <2>3, <2>4 DEF RequestsRunOnce
<1> QED
  BY <1>1, ClassroomIsSound, PTL

\* No action begins unless its request is accepted and in time on the server
\* (NothingStartsLate), however the calls are delayed.
THEOREM NothingBeginsTooLate == ClassroomSpec => NothingStartsLate
<1>1. ClassroomInv /\ [ClassroomNext]_classroomVars =>
         [runs' # runs => LET c == runs'[Len(runs')][1]
                          IN  commands[c].status = "accepted" /\ tick < commands[c].expires]_classroomVars
  BY OnlyBeginRuns, BeginStep
<1> QED
  BY <1>1, ClassroomIsSound, PTL DEF ClassroomSpec, NothingStartsLate

(* GraderSandboxes.                                                        *)

Phases == {"idle", "taken", "creating", "created", "sweeping", "running", "removing"}
Verdicts == {"none", "infra_failed", "assessment_failed", "graded"}
Faulty == {"none", "infra_failed", "assessment_failed"}
LateCommands == {"create", "start", "rm"}

SandboxTypes ==
    /\ runtime \in {"container", "pilot-local"}
    /\ life \in {"down", "listing", "sweeping"} \cup Serving
    /\ lives \in 0 .. MaxLives
    /\ assessor \in [Graders -> [at : Phases, name : Boxes \cup {0}, fault : Faulty]]
    /\ box \in [Boxes -> {"none", "gone"} \cup Existing]
    /\ maker \in [Boxes -> [who : Graders, life : 0 .. (MaxLives + 1)]]
    /\ stranded \subseteq [command : LateCommands, name : Boxes]
    /\ {doomed, ended, lost} \subseteq SUBSET Boxes
    /\ verdict \in [Boxes -> Verdicts]

At(x, phases) == Of(x).at \in phases
Late(command, n) == [command |-> command, name |-> n] \in stranded

\* Threads work only in a service that serves; only some phases of it have
\* sandboxes to remove.
LifeShape ==
    /\ life \notin Serving => \A x \in Assessors : Of(x).at = "idle"
    /\ life \notin {"sweeping", "closed"} => doomed = {}
    /\ life = "closed" => \A x \in Assessors : Of(x).at # "creating"
    /\ life # "down" => lives > 0

\* A name is held by the one who made it, in the life that made it; what its
\* holder may rely on at each phase.
Holds(x, n) ==
    /\ n \in Boxes /\ maker[n] = [who |-> x, life |-> LifeOf(x)]
    /\ At(x, {"taken", "creating"}) =>
          box[n] = "none" /\ n \notin doomed /\ \A c \in LateCommands : ~Late(c, n)
    /\ At(x, {"sweeping"}) => ~Late("start", n)
    /\ At(x, {"created", "running", "removing"}) => box[n] # "none"
HoldsInService(x, n) ==
    /\ At(x, {"sweeping"}) => box[n] \notin {"running", "exited"}
    /\ At(x, {"removing"}) /\ Of(x).fault = "none" => n \in ended
    /\ At(x, {"created", "running", "removing"}) /\ life = "closed" =>
          n \in doomed \cup lost \/ box[n] = "gone"
Knows(x) ==
    IF Of(x).at = "idle" THEN Of(x).name = 0
    ELSE Holds(x, Of(x).name) /\ (x \in Assessors => HoldsInService(x, Of(x).name))

\* A name nobody took yet was never used for anything.
Untouched(n) ==
    /\ box[n] = "none" /\ verdict[n] = "none"
    /\ n \notin doomed \cup ended \cup lost
    /\ \A c \in LateCommands : ~Late(c, n)

\* What an earlier service made is on the list of the one that reconciles, or was
\* created late and will never be started.
Swept(n) ==
    \/ life = "sweeping" /\ n \in doomed
    \/ box[n] = "created" /\ ~Late("start", n)

\* A start that comes late finds a sandbox, which is gone or accounted for.
Sound(n) ==
    /\ maker[n].life = 0 => Untouched(n)
    /\ Late("start", n) => box[n] # "none" /\ (box[n] = "gone" \/ n \in Held \cup lost)
    /\ box[n] = "running" => n \in Held \cup lost
    /\ runtime = "container" /\ life \in {"sweeping"} \cup Serving
          /\ maker[n].who \in Assessors /\ maker[n].life # lives /\ box[n] \in Existing => Swept(n)
    /\ maker[n].who \in Assessors /\ verdict[n] = "graded" => n \in ended /\ box[n] = "gone"

SandboxInv ==
    /\ SandboxTypes /\ LifeShape
    /\ \A x \in Graders : Knows(x)
    /\ \A n \in Boxes : Sound(n)

----------------------------------------------------------------------------
(* One assessment moves. *)

\* Two assessments never hold the same name.
LEMMA NamesApart ==
    ASSUME SandboxInv, NEW x \in Graders, NEW y \in Graders,
           Of(x).at # "idle", Of(y).at # "idle", Of(x).name = Of(y).name
    PROVE  x = y
<1>1. Holds(x, Of(x).name) /\ Holds(y, Of(y).name)
  BY DEF SandboxInv, Knows
<1>2. maker[Of(x).name].who = x /\ maker[Of(y).name].who = y
  BY <1>1 DEF Holds
<1> QED
  BY <1>2

\* What a name under assessment is not: unused, or of a service that does not serve.
LEMMA Occupied ==
    ASSUME SandboxInv, NEW x \in Graders, Of(x).at # "idle"
    PROVE  /\ Of(x).name \in Boxes /\ Of(x).name \in Held
           /\ maker[Of(x).name] = [who |-> x, life |-> LifeOf(x)]
           /\ maker[Of(x).name].life # 0
           /\ x \in Assessors => life \in Serving /\ maker[Of(x).name].life = lives
<1>1. Holds(x, Of(x).name)
  BY DEF SandboxInv, Knows
<1>2. x \in Assessors => life \in Serving /\ lives > 0
  BY DEF SandboxInv, LifeShape, Serving
<1> QED
  BY <1>1, <1>2, SandboxAssumption DEF Holds, LifeOf, Held, Graders, SandboxInv, SandboxTypes

\* A step of x that touches no sandbox but its own leaves what the others know
\* and what is known of other sandboxes as it was.
LEMMA StepOfOne ==
    ASSUME SandboxInv, SandboxTypes', LifeShape',
           NEW x \in Graders, NEW n \in Boxes, Of(x).at # "idle", Of(x).name = n,
           UNCHANGED <<runtime, life, lives, doomed, maker>>,
           \A y \in Graders \ {x} : assessor'[y] = assessor[y],
           \A k \in Boxes \ {n} :
              /\ box'[k] = box[k] /\ verdict'[k] = verdict[k]
              /\ k \in ended' <=> k \in ended
              /\ k \in lost' <=> k \in lost
              /\ \A c \in LateCommands : Late(c, k)' <=> Late(c, k),
           Knows(x)', Sound(n)'
    PROVE  SandboxInv'
<1>1. ASSUME NEW y \in Graders \ {x} PROVE Knows(y)'
  <2>1. Knows(y) /\ assessor'[y] = assessor[y]
    BY DEF SandboxInv
  <2>2. CASE Of(y).at = "idle"
    BY <2>1, <2>2 DEF Knows, Of
  <2>3. CASE Of(y).at # "idle"
    <3>1. Of(y).name \in Boxes \ {n}
      BY <2>3, NamesApart, Occupied
    <3> DEFINE k == Of(y).name
    <3>2. Holds(y, k)'
      <4>1. Holds(y, k) /\ k \in Boxes \ {n} /\ k' = k /\ Of(y)' = Of(y) /\ LifeOf(y)' = LifeOf(y)
        BY <2>1, <2>3, <3>1 DEF Knows, Of, LifeOf
      <4>2. \A c \in LateCommands : Late(c, k)' <=> Late(c, k)
        BY <4>1
      <4> HIDE DEF k
      <4> QED
        BY <4>1, <4>2 DEF Holds, At, LateCommands
    <3>3. y \in Assessors => HoldsInService(y, Of(y).name)'
      BY <2>1, <2>3, <3>1 DEF Knows, Of, HoldsInService, At
    <3> QED
      BY <2>1, <2>3, <3>2, <3>3 DEF Knows, Of
  <2> QED
    BY <2>2, <2>3
<1>2. ASSUME NEW k \in Boxes \ {n} PROVE Sound(k)'
  <2>1. k \in Held => k \in Held'
    BY DEF Held, Of
  <2>2. Sound(k)
    BY DEF SandboxInv
  <2> QED
    BY <2>1, <2>2 DEF Sound, Untouched, Swept, LateCommands
<1> QED
  BY <1>1, <1>2 DEF SandboxInv

LEMMA GotoMoves ==
    ASSUME SandboxTypes, NEW x \in Graders, NEW at \in Phases, NEW fault \in Faulty,
           \/ Goto(x, at) /\ fault = Of(x).fault
           \/ GotoFault(x, at, fault)
    PROVE  /\ assessor' \in [Graders -> [at : Phases, name : Boxes \cup {0}, fault : Faulty]]
           /\ assessor'[x] = [at |-> at, name |-> Of(x).name, fault |-> fault]
           /\ \A y \in Graders \ {x} : assessor'[y] = assessor[y]
<1>1. assessor[x] \in [at : Phases, name : Boxes \cup {0}, fault : Faulty]
  BY DEF SandboxTypes
<1>2. assessor' = [assessor EXCEPT ![x] = [at |-> at, name |-> Of(x).name, fault |-> fault]]
  BY <1>1 DEF Goto, GotoFault, Of, SandboxTypes
<1> QED
  BY <1>1, <1>2 DEF SandboxTypes, Of

LEMMA EnterStep ==
    ASSUME SandboxInv, NEW x \in Graders, NEW n \in Boxes, Of(x).name = n, Enter(x)
    PROVE  SandboxInv'
<1>1. /\ Of(x).at = "taken" /\ Knows(x) /\ Sound(n)
      /\ SandboxTypes /\ LifeShape /\ Holds(x, n) /\ maker[n].life # 0
  BY Occupied DEF Enter, SandboxInv, Knows
<1>2. /\ UNCHANGED <<runtime, life, lives, doomed, box, maker, stranded, ended, lost>>
      /\ \A y \in Graders \ {x} : assessor'[y] = assessor[y]
  BY <1>1 DEF Enter, Goto, SandboxTypes
<1>3. CASE x \in Assessors /\ life = "closed"
  <2>1. verdict' = [verdict EXCEPT ![n] = "infra_failed"] /\ assessor' = [assessor EXCEPT ![x] = Unoccupied]
    BY <1>3 DEF Enter
  <2>2. SandboxTypes'
    BY <1>1, <1>2, <2>1 DEF SandboxTypes, Unoccupied, Phases, Faulty, Verdicts, Serving, Existing
  <2>3. LifeShape'
    BY <1>1, <1>2, <1>3, <2>1 DEF LifeShape, SandboxTypes, Of, Unoccupied, Graders
  <2>4. Knows(x)'
    BY <1>1, <2>1 DEF Knows, Of, SandboxTypes, Unoccupied
  <2>5. Sound(n)'
    BY <1>1, <1>2, <2>1 DEF Sound, SandboxTypes, Holds, At, LateCommands, Untouched, Swept, Existing, Late
  <2>6. \A k \in Boxes \ {n} : verdict'[k] = verdict[k]
    BY <2>1 DEF SandboxTypes
  <2> QED
    BY <1>1, <1>2, <2>2, <2>3, <2>4, <2>5, <2>6, StepOfOne DEF Late
<1>4. CASE ~(x \in Assessors /\ life = "closed")
  <2>1. assessor' = [assessor EXCEPT ![x].at = "creating"] /\ UNCHANGED verdict
    BY <1>4 DEF Enter, Goto
  <2>2. assessor'[x].at = "creating" /\ assessor'[x].name = n
    BY <2>1, <1>1 DEF SandboxTypes, Of
  <2>3. SandboxTypes'
    BY <1>1, <1>2, <2>1 DEF SandboxTypes, Phases
  <2>4. LifeShape'
    BY <1>1, <1>2, <1>4, <2>1, <2>2 DEF LifeShape, SandboxTypes, Of, Graders
  <2>5. Knows(x)'
    BY <1>1, <1>2, <2>2 DEF Knows, Holds, HoldsInService, At, Of, LifeOf, Late
  <2>6. n \in Held'
    BY <2>2 DEF Held, Of
  <2>7. Sound(n)'
    BY <1>1, <1>2, <2>1, <2>6 DEF Sound, Untouched, Swept, Late
  <2> QED
    BY <1>1, <1>2, <2>1, <2>3, <2>4, <2>5, <2>7, StepOfOne DEF Late
<1> QED
  BY <1>3, <1>4

LEMMA CreateStep ==
    ASSUME SandboxInv, NEW x \in Graders, NEW n \in Boxes, Of(x).name = n, Create(x)
    PROVE  SandboxInv'
<1>1. /\ Of(x).at = "creating" /\ Knows(x) /\ Sound(n)
      /\ SandboxTypes /\ LifeShape /\ Holds(x, n) /\ maker[n].life # 0
      /\ box[n] = "none" /\ n \notin doomed /\ \A c \in LateCommands : ~Late(c, n)
  BY Occupied DEF Create, SandboxInv, Knows, Holds, At
<1>2. UNCHANGED <<runtime, life, lives, doomed, maker, ended, lost, verdict>>
  BY DEF Create
<1>3. /\ \A y \in Graders \ {x} : assessor'[y] = assessor[y]
      /\ assessor'[x].at \in {"created", "sweeping", "running"} /\ assessor'[x].name = n
      /\ assessor' \in [Graders -> [at : Phases, name : Boxes \cup {0}, fault : Faulty]]
  <2>1. Of(x).fault \in Faulty /\ {"created", "sweeping", "running"} \subseteq Phases /\ "infra_failed" \in Faulty
    BY <1>1 DEF SandboxTypes, Of, Phases, Faulty
  <2>2. \E at \in {"created", "sweeping", "running"}, fault \in Faulty :
            (Goto(x, at) /\ fault = Of(x).fault) \/ GotoFault(x, at, fault)
    BY <2>1 DEF Create
  <2>3. PICK at \in {"created", "sweeping", "running"}, fault \in Faulty :
            (Goto(x, at) /\ fault = Of(x).fault) \/ GotoFault(x, at, fault)
    BY <2>2
  <2>4. at \in Phases /\ SandboxTypes
    BY <1>1, <2>1
  <2>5. /\ assessor' \in [Graders -> [at : Phases, name : Boxes \cup {0}, fault : Faulty]]
        /\ assessor'[x] = [at |-> at, name |-> Of(x).name, fault |-> fault]
        /\ \A y \in Graders \ {x} : assessor'[y] = assessor[y]
    BY <2>3, <2>4, GotoMoves
  <2> QED
    BY <2>5
<1>4. /\ \A k \in Boxes \ {n} : box'[k] = box[k]
      /\ box' \in [Boxes -> {"none", "gone"} \cup Existing]
      /\ assessor'[x].at = "created" => box'[n] = "created"
      /\ assessor'[x].at = "running" => box'[n] = "running"
      /\ assessor'[x].at = "sweeping" => box'[n] = "none"
  <2>1. assessor[x] \in [at : Phases, name : Boxes \cup {0}, fault : Faulty] /\ box[n] = "none"
        /\ box \in [Boxes -> {"none", "gone"} \cup Existing]
    BY <1>1 DEF SandboxTypes
  <2>2. CASE Done("create", n) /\ Goto(x, "created")
    BY <1>1, <2>1, <2>2 DEF Done, Goto, After, SandboxTypes, Existing
  <2>3. CASE Undone("create", n) /\ GotoFault(x, "sweeping", "infra_failed")
    BY <1>1, <2>1, <2>3 DEF Undone, GotoFault, SandboxTypes
  <2>4. CASE box' = [box EXCEPT ![n] = "running"] /\ Goto(x, "running")
    BY <1>1, <2>1, <2>4 DEF Goto, SandboxTypes, Existing
  <2> QED
    BY <2>2, <2>3, <2>4 DEF Create
<1>5. /\ stranded' \in {stranded, stranded \cup {[command |-> "create", name |-> n]}}
      /\ assessor'[x].at # "sweeping" => stranded' = stranded
  BY <1>1 DEF Create, Goto, GotoFault, Done, Undone, SandboxTypes, Of
<1>6. /\ \A k \in Boxes \ {n}, c \in LateCommands : Late(c, k)' <=> Late(c, k)
      /\ \A c \in LateCommands : Late(c, n)' => c = "create" /\ assessor'[x].at = "sweeping"
  BY <1>1, <1>5 DEF Late
<1>7. SandboxTypes'
  BY <1>1, <1>2, <1>3, <1>4, <1>5 DEF SandboxTypes, LateCommands
<1>8. LifeShape'
  BY <1>1, <1>2, <1>3 DEF LifeShape, SandboxTypes, Of, Graders
<1>9. Knows(x)'
  <2>1. Holds(x, n)'
    BY <1>1, <1>2, <1>3, <1>4, <1>6 DEF Holds, At, Of, LifeOf, LateCommands
  <2>2. x \in Assessors => HoldsInService(x, n)'
    BY <1>1, <1>2, <1>3, <1>4 DEF HoldsInService, At, Of, LifeShape
  <2> QED
    BY <1>3, <2>1, <2>2 DEF Knows, Of
<1>10. Sound(n)'
  <2>1. n \in Held'
    BY <1>3 DEF Held, Of
  <2>2. maker[n].who = x /\ (x \in Assessors => maker[n].life = lives)
    BY <1>1, Occupied DEF Holds
  <2> QED
    BY <1>1, <1>2, <1>3, <1>4, <1>6, <2>1, <2>2 DEF Sound, Untouched, Swept, Existing, LateCommands
<1>11. \A k \in Boxes \ {n} :
          /\ box'[k] = box[k] /\ verdict'[k] = verdict[k]
          /\ k \in ended' <=> k \in ended
          /\ k \in lost' <=> k \in lost
          /\ \A c \in LateCommands : Late(c, k)' <=> Late(c, k)
  BY <1>2, <1>4, <1>6
<1> QED
  BY <1>1, <1>2, <1>3, <1>7, <1>8, <1>9, <1>10, <1>11, StepOfOne DEF Late

LEMMA LaunchStep ==
    ASSUME SandboxInv, NEW x \in Graders, NEW n \in Boxes, Of(x).name = n, Launch(x)
    PROVE  SandboxInv'
<1>1. /\ Of(x).at = "created" /\ Knows(x) /\ Sound(n)
      /\ SandboxTypes /\ LifeShape /\ Holds(x, n) /\ maker[n].life # 0 /\ box[n] # "none"
      /\ x \in Assessors => HoldsInService(x, n)
  BY Occupied DEF Launch, SandboxInv, Knows, Holds, At
<1>2. UNCHANGED <<runtime, life, lives, doomed, maker, ended, lost, verdict>>
  BY DEF Launch
<1>3. /\ \A y \in Graders \ {x} : assessor'[y] = assessor[y]
      /\ assessor'[x].at \in {"running", "removing"} /\ assessor'[x].name = n
      /\ assessor'[x].at = "removing" => assessor'[x].fault \in {"assessment_failed", "infra_failed"}
      /\ assessor' \in [Graders -> [at : Phases, name : Boxes \cup {0}, fault : Faulty]]
  <2>1. /\ Of(x).fault \in Faulty /\ {"running", "removing"} \subseteq Phases
        /\ {"assessment_failed", "infra_failed"} \subseteq Faulty
    BY <1>1 DEF SandboxTypes, Of, Phases, Faulty
  <2>2. \/ Goto(x, "running")
        \/ \E fault \in {"assessment_failed", "infra_failed"} : GotoFault(x, "removing", fault)
    BY DEF Launch
  <2>3. PICK at \in {"running", "removing"}, fault \in Faulty :
            /\ (Goto(x, at) /\ fault = Of(x).fault) \/ GotoFault(x, at, fault)
            /\ at = "removing" => fault \in {"assessment_failed", "infra_failed"}
    BY <2>1, <2>2
  <2>4. at \in Phases /\ SandboxTypes
    BY <1>1, <2>1
  <2>5. /\ assessor' \in [Graders -> [at : Phases, name : Boxes \cup {0}, fault : Faulty]]
        /\ assessor'[x] = [at |-> at, name |-> Of(x).name, fault |-> fault]
        /\ \A y \in Graders \ {x} : assessor'[y] = assessor[y]
    BY <2>3, <2>4, GotoMoves
  <2> QED
    BY <2>3, <2>5
<1>4. /\ \A k \in Boxes \ {n} : box'[k] = box[k]
      /\ box' \in [Boxes -> {"none", "gone"} \cup Existing]
      /\ assessor'[x].at = "running" => box[n] = "created" /\ box'[n] = "running" /\ stranded' = stranded
      /\ assessor'[x].at = "removing" => box'[n] = box[n]
  <2>1. assessor[x] \in [at : Phases, name : Boxes \cup {0}, fault : Faulty]
        /\ assessor \in [Graders -> [at : Phases, name : Boxes \cup {0}, fault : Faulty]]
        /\ box \in [Boxes -> {"none", "gone"} \cup Existing]
    BY <1>1 DEF SandboxTypes
  <2>2. CASE box[n] = "created" /\ Done("start", n) /\ Goto(x, "running")
    BY <2>1, <2>2 DEF Done, Goto, After, Existing
  <2>3. CASE /\ box' = box
             /\ \E fault \in {"assessment_failed", "infra_failed"} : GotoFault(x, "removing", fault)
    BY <2>1, <2>3 DEF GotoFault
  <2> QED
    BY <2>2, <2>3 DEF Launch, Undone
<1>5. /\ stranded' \in {stranded, stranded \cup {[command |-> "start", name |-> n]}}
  BY <1>1 DEF Launch, Goto, GotoFault, Done, Undone, SandboxTypes, Of
<1>6. /\ \A k \in Boxes \ {n}, c \in LateCommands : Late(c, k)' <=> Late(c, k)
      /\ \A c \in LateCommands : Late(c, n)' => Late(c, n) \/ c = "start"
      /\ stranded' = stranded => \A c \in LateCommands : Late(c, n)' <=> Late(c, n)
  BY <1>1, <1>5 DEF Late
<1>7. SandboxTypes'
  BY <1>1, <1>2, <1>3, <1>4, <1>5 DEF SandboxTypes, LateCommands
<1>8. LifeShape'
  BY <1>1, <1>2, <1>3 DEF LifeShape, SandboxTypes, Of, Graders
<1>9. Knows(x)'
  <2>1. Holds(x, n)'
    BY <1>1, <1>2, <1>3, <1>4 DEF Holds, At, Of, LifeOf
  <2>2. ASSUME x \in Assessors PROVE HoldsInService(x, n)'
    BY <1>1, <1>2, <1>3, <1>4, <1>5, <1>6, <2>2 DEF HoldsInService, At, Of, LateCommands
  <2> QED
    BY <1>3, <2>1, <2>2 DEF Knows, Of
<1>10. Sound(n)'
  <2>1. n \in Held'
    BY <1>3 DEF Held, Of
  <2>2. x \in Assessors => life \in Serving /\ maker[n].life = lives
    BY <1>1, Occupied DEF Held
  <2>3. maker[n].who = x
    BY <1>1 DEF Holds
  <2> QED
    BY <1>1, <1>2, <1>3, <1>4, <1>5, <1>6, <2>1, <2>2, <2>3 DEF Sound, Existing, LateCommands
<1>11. \A k \in Boxes \ {n} :
          /\ box'[k] = box[k] /\ verdict'[k] = verdict[k]
          /\ k \in ended' <=> k \in ended
          /\ k \in lost' <=> k \in lost
          /\ \A c \in LateCommands : Late(c, k)' <=> Late(c, k)
  BY <1>2, <1>4, <1>5, <1>6
<1> QED
  BY <1>1, <1>2, <1>3, <1>7, <1>8, <1>9, <1>10, <1>11, StepOfOne DEF Late

LEMMA ObserveStep ==
    ASSUME SandboxInv, NEW x \in Graders, NEW n \in Boxes, Of(x).name = n, Observe(x)
    PROVE  SandboxInv'
<1>1. /\ Of(x).at = "running" /\ Knows(x) /\ Sound(n)
      /\ SandboxTypes /\ LifeShape /\ Holds(x, n) /\ maker[n].life # 0
      /\ x \in Assessors => HoldsInService(x, n)
  BY Occupied DEF Observe, SandboxInv, Knows
<1>2. UNCHANGED <<runtime, life, lives, doomed, box, maker, stranded, ended, lost, verdict>>
  BY DEF Observe
<1>3. PICK fault \in Faulty :
         /\ GotoFault(x, "removing", fault)
         /\ fault = "none" => n \in ended
  BY DEF Observe, Faults, Faulty
<1>4. /\ assessor' \in [Graders -> [at : Phases, name : Boxes \cup {0}, fault : Faulty]]
      /\ assessor'[x] = [at |-> "removing", name |-> n, fault |-> fault]
      /\ \A y \in Graders \ {x} : assessor'[y] = assessor[y]
  <2>1. "removing" \in Phases /\ fault \in Faulty
    BY DEF Phases, Faulty
  <2> QED
    BY <1>1, <1>3, <2>1, GotoMoves
<1>5. SandboxTypes'
  BY <1>1, <1>2, <1>4 DEF SandboxTypes
<1>6. LifeShape'
  BY <1>1, <1>2, <1>4 DEF LifeShape, SandboxTypes, Of, Graders
<1>7. n \in Held'
  BY <1>4 DEF Held, Of
<1>8. Holds(x, n)'
  BY <1>1, <1>2, <1>4 DEF Holds, At, Of, LifeOf, Late
<1>9. ASSUME x \in Assessors PROVE HoldsInService(x, n)'
  BY <1>1, <1>2, <1>3, <1>4, <1>9 DEF HoldsInService, At, Of, Sound
<1>10. Knows(x)'
  BY <1>4, <1>8, <1>9 DEF Knows, Of
<1>11. Sound(n)'
  BY <1>1, <1>2, <1>7 DEF Sound, Untouched, Swept, Late
<1> QED
  BY <1>1, <1>2, <1>4, <1>5, <1>6, <1>10, <1>11, StepOfOne DEF Late

\* Both kinds of removal end the assessment.
LEMMA ConcludeMoves ==
    ASSUME SandboxTypes, NEW x \in Graders, NEW n \in Boxes, Of(x).name = n,
           NEW fault \in Faulty, Conclude(x, fault)
    PROVE  /\ assessor' \in [Graders -> [at : Phases, name : Boxes \cup {0}, fault : Faulty]]
           /\ assessor'[x] = Unoccupied
           /\ \A y \in Graders \ {x} : assessor'[y] = assessor[y]
           /\ verdict' \in [Boxes -> Verdicts]
           /\ verdict'[n] = IF fault = "none" THEN "graded" ELSE fault
           /\ \A k \in Boxes \ {n} : verdict'[k] = verdict[k]
BY DEF Conclude, SandboxTypes, Phases, Faulty, Verdicts, Unoccupied

\* A removal that is carried out, and one that is not.
LEMMA RmMoves ==
    ASSUME SandboxTypes, NEW n \in Boxes,
           Done("rm", n) \/ Undone("rm", n)
    PROVE  /\ box' \in [Boxes -> {"none", "gone"} \cup Existing]
           /\ stranded' \subseteq [command : LateCommands, name : Boxes]
           /\ \A k \in Boxes \ {n} : box'[k] = box[k]
           /\ \A k \in Boxes \ {n}, c \in LateCommands : Late(c, k)' <=> Late(c, k)
           /\ \A c \in LateCommands \ {"rm"} : Late(c, n)' <=> Late(c, n)
           /\ Done("rm", n) => /\ stranded' = stranded
                               /\ box'[n] = IF box[n] \in Existing THEN "gone" ELSE box[n]
           /\ Undone("rm", n) => box' = box /\ runtime = "container"
BY DEF SandboxTypes, Done, Undone, After, Late, Existing, LateCommands

LEMMA RemoveStep ==
    ASSUME SandboxInv, NEW x \in Graders, NEW n \in Boxes, Of(x).name = n,
           RemoveBox(x) \/ Sweep(x)
    PROVE  SandboxInv'
<1>1. /\ Of(x).at \in {"removing", "sweeping"} /\ Knows(x) /\ Sound(n)
      /\ SandboxTypes /\ LifeShape /\ Holds(x, n)
      /\ maker[n].life # 0 /\ maker[n].who = x
      /\ x \in Assessors => maker[n].life = lives /\ HoldsInService(x, n)
  <2>1. Of(x).at \in {"removing", "sweeping"}
    BY DEF RemoveBox, Sweep
  <2>2. Knows(x) /\ Sound(n) /\ SandboxTypes /\ LifeShape
    BY DEF SandboxInv
  <2>3. Of(x).at # "idle"
    BY <2>1
  <2>4. /\ maker[n] = [who |-> x, life |-> LifeOf(x)] /\ maker[n].life # 0
        /\ x \in Assessors => maker[n].life = lives
    BY <2>3, Occupied
  <2>5. Holds(x, n) /\ (x \in Assessors => HoldsInService(x, n))
    BY <2>2, <2>3 DEF Knows
  <2> QED
    BY <2>1, <2>2, <2>4, <2>5
<1>2. /\ UNCHANGED <<runtime, life, lives, doomed, maker, ended>>
      /\ \/ Done("rm", n) /\ lost' = lost
         \/ Undone("rm", n) /\ lost' = lost \cup {n}
  BY DEF RemoveBox, Sweep
<1>3. PICK fault \in Faulty :
         /\ Conclude(x, fault)
         /\ fault # "infra_failed" => Of(x).at = "removing" /\ Of(x).fault = fault /\ Done("rm", n)
  BY <1>1 DEF RemoveBox, Sweep, Faulty, SandboxTypes, Of
<1>4. /\ assessor' \in [Graders -> [at : Phases, name : Boxes \cup {0}, fault : Faulty]]
      /\ assessor'[x] = Unoccupied
      /\ \A y \in Graders \ {x} : assessor'[y] = assessor[y]
      /\ verdict' \in [Boxes -> Verdicts]
      /\ verdict'[n] = IF fault = "none" THEN "graded" ELSE fault
      /\ \A k \in Boxes \ {n} : verdict'[k] = verdict[k]
  BY <1>1, <1>3, ConcludeMoves
<1>5. /\ box' \in [Boxes -> {"none", "gone"} \cup Existing]
      /\ stranded' \subseteq [command : LateCommands, name : Boxes]
      /\ \A k \in Boxes \ {n} : box'[k] = box[k]
      /\ \A k \in Boxes \ {n}, c \in LateCommands : Late(c, k)' <=> Late(c, k)
      /\ Late("start", n)' <=> Late("start", n)
      /\ Done("rm", n) => box'[n] = IF box[n] \in Existing THEN "gone" ELSE box[n]
      /\ Undone("rm", n) => box' = box
  BY <1>1, <1>2, RmMoves DEF LateCommands
<1>6. SandboxTypes'
  BY <1>1, <1>2, <1>4, <1>5 DEF SandboxTypes
<1>7. LifeShape'
  BY <1>1, <1>2, <1>4 DEF LifeShape, SandboxTypes, Of, Graders, Unoccupied
<1>8. Knows(x)'
  BY <1>4 DEF Knows, Of, Unoccupied
<1>9. Sound(n)'
  <2>1. maker'[n].life # 0 /\ maker'[n].who = x /\ (x \in Assessors => maker'[n].life = lives')
    BY <1>1, <1>2
  <2>3. Late("start", n)' => box'[n] # "none" /\ (box'[n] = "gone" \/ n \in lost')
    BY <1>1, <1>2, <1>5 DEF Holds, At, Existing, SandboxTypes
  <2>4. box'[n] = "running" => n \in lost'
    BY <1>2, <1>5 DEF Existing
  <2>5. ASSUME x \in Assessors, verdict'[n] = "graded"
        PROVE  n \in ended' /\ box'[n] = "gone"
    BY <1>1, <1>2, <1>3, <1>4, <1>5, <2>5 DEF HoldsInService, Holds, At, Existing, Faulty
  <2> QED
    BY <2>1, <2>3, <2>4, <2>5 DEF Sound
<1> QED
  BY <1>1, <1>2, <1>4, <1>5, <1>6, <1>7, <1>8, <1>9, StepOfOne DEF Late

----------------------------------------------------------------------------
(* A new assessment, the runtime, and the service. *)

LEMMA TakeStep ==
    ASSUME SandboxInv, NEW x \in Graders, Take(x)
    PROVE  SandboxInv'
<1>1. /\ SandboxTypes /\ LifeShape /\ Of(x).at = "idle" /\ Knows(x)
      /\ x \in Assessors => life = "up"
      /\ UNCHANGED <<runtime, life, lives, doomed, box, stranded, ended, lost, verdict>>
  BY DEF Take, SandboxInv
<1>2. PICK n \in Fresh :
         /\ assessor' = [assessor EXCEPT ![x] = [at |-> "taken", name |-> n, fault |-> "none"]]
         /\ maker' = [maker EXCEPT ![n] = [who |-> x, life |-> LifeOf(x)]]
  BY DEF Take
<1>3. n \in Boxes /\ maker[n].life = 0 /\ Untouched(n)
  BY <1>2 DEF Fresh, SandboxInv, Sound
<1>4. LifeOf(x) \in 0 .. (MaxLives + 1) /\ LifeOf(x) # 0 /\ (x \in Assessors => LifeOf(x) = lives)
  BY <1>1, SandboxAssumption DEF LifeOf, SandboxTypes, LifeShape, Graders
<1>5. SandboxTypes'
  BY <1>1, <1>2, <1>3, <1>4 DEF SandboxTypes, Phases, Faulty
<1>6. LifeShape'
  BY <1>1, <1>2 DEF LifeShape, Of, SandboxTypes, Graders, Serving
<1>7. Knows(x)'
  BY <1>1, <1>2, <1>3 DEF Knows, Holds, HoldsInService, At, Of, LifeOf, SandboxTypes, Untouched, Late
<1>8. ASSUME NEW y \in Graders \ {x} PROVE Knows(y)'
  <2>1. Knows(y) /\ assessor'[y] = assessor[y]
    BY <1>1, <1>2 DEF SandboxInv, SandboxTypes
  <2>2. Of(y).at # "idle" => Of(y).name # n
    BY <1>3, Occupied
  <2> QED
    BY <1>1, <1>2, <2>1, <2>2 DEF Knows, Holds, HoldsInService, At, Of, LifeOf, SandboxTypes, Late
<1>9. ASSUME NEW k \in Boxes PROVE Sound(k)'
  <2>1. Sound(k)
    BY DEF SandboxInv
  <2>2. k \in Held => k \in Held'
    BY <1>1, <1>2 DEF Held, Knows, Of, SandboxTypes, Boxes
  <2>3. CASE k = n
    BY <1>1, <1>2, <1>3, <1>4, <2>1, <2>3 DEF Sound, Untouched, Existing, Late, LateCommands, SandboxTypes
  <2>4. CASE k # n
    <3>1. maker'[k] = maker[k]
      BY <1>1, <1>2, <1>3, <2>4 DEF SandboxTypes
    <3> QED
      BY <1>1, <2>1, <2>2, <3>1 DEF Sound, Untouched, Swept, Late
  <2> QED
    BY <2>3, <2>4
<1> QED
  BY <1>5, <1>6, <1>7, <1>8, <1>9 DEF SandboxInv

LEMMA CarryOutStep ==
    ASSUME SandboxInv, CarryOut
    PROVE  SandboxInv'
<1>1. PICK s \in stranded :
         /\ box' = [box EXCEPT ![s.name] = After(s.command, @)]
         /\ stranded' = stranded \ {s}
  BY DEF CarryOut
<1>2. /\ SandboxTypes /\ LifeShape
      /\ UNCHANGED <<runtime, life, lives, doomed, assessor, maker, ended, lost, verdict>>
  BY DEF CarryOut, SandboxInv
<1>3. PICK c \in LateCommands, n \in Boxes : s = [command |-> c, name |-> n]
  BY <1>2 DEF SandboxTypes
<1>4. /\ Late(c, n) /\ box'[n] = After(c, box[n])
      /\ \A k \in Boxes \ {n} : box'[k] = box[k]
      /\ \A d \in LateCommands, k \in Boxes : Late(d, k)' => Late(d, k)
      /\ box' \in [Boxes -> {"none", "gone"} \cup Existing]
  BY <1>1, <1>2, <1>3 DEF Late, SandboxTypes, After, Existing, LateCommands
<1>5. SandboxTypes' /\ LifeShape'
  BY <1>1, <1>2, <1>4 DEF SandboxTypes, LifeShape, Of
<1>6. ASSUME NEW x \in Graders PROVE Knows(x)'
  <2>1. Knows(x)
    BY DEF SandboxInv
  <2>2. CASE Of(x).at = "idle"
    BY <1>2, <2>1, <2>2 DEF Knows, Of
  <2>3. CASE Of(x).at # "idle"
    <3>1. PICK k \in Boxes : k = Of(x).name
      BY <2>3, Occupied
    <3>2. Holds(x, k)'
      BY <1>2, <1>4, <2>1, <2>3, <3>1 DEF Knows, Holds, At, Of, LifeOf, After, LateCommands, Existing
    <3>3. x \in Assessors => HoldsInService(x, k)'
      BY <1>2, <1>4, <2>1, <2>3, <3>1 DEF Knows, Holds, HoldsInService, At, Of, After, LateCommands, Existing
    <3> QED
      BY <1>2, <2>3, <3>1, <3>2, <3>3 DEF Knows, Of
  <2> QED
    BY <2>2, <2>3
<1>7. ASSUME NEW k \in Boxes PROVE Sound(k)'
  <2>1. Sound(k) /\ Held' = Held
    BY <1>2 DEF SandboxInv, Held, Of
  <2> QED
    BY <1>2, <1>4, <2>1 DEF Sound, Untouched, Swept, After, LateCommands, Existing
<1> QED
  BY <1>5, <1>6, <1>7 DEF SandboxInv

LEMMA EndsStep ==
    ASSUME SandboxInv, NEW n \in Boxes, Ends(n)
    PROVE  SandboxInv'
<1>1. /\ SandboxTypes /\ LifeShape /\ box[n] = "running" /\ ended' = ended \cup {n}
      /\ UNCHANGED <<runtime, life, lives, doomed, assessor, maker, stranded, lost, verdict>>
      /\ box'[n] = "exited" /\ \A k \in Boxes \ {n} : box'[k] = box[k]
      /\ box' \in [Boxes -> {"none", "gone"} \cup Existing]
  BY DEF Ends, SandboxInv, SandboxTypes, Existing
<1>2. SandboxTypes' /\ LifeShape'
  BY <1>1 DEF SandboxTypes, LifeShape, Of
<1>3. ASSUME NEW x \in Graders PROVE Knows(x)'
  <2>1. Knows(x)
    BY DEF SandboxInv
  <2> QED
    BY <1>1, <2>1 DEF Knows, Holds, HoldsInService, At, Of, LifeOf, Late
<1>4. ASSUME NEW k \in Boxes PROVE Sound(k)'
  <2>1. Sound(k) /\ Held' = Held
    BY <1>1 DEF SandboxInv, Held, Of
  <2> QED
    BY <1>1, <2>1 DEF Sound, Untouched, Swept, Late, Existing
<1> QED
  BY <1>2, <1>3, <1>4 DEF SandboxInv

LEMMA BootStep ==
    ASSUME SandboxInv, Boot
    PROVE  SandboxInv'
<1>1. /\ SandboxTypes /\ LifeShape /\ life = "down" /\ lives < MaxLives /\ lives' = lives + 1
      /\ life' = IF runtime = "container" THEN "listing" ELSE "up"
      /\ UNCHANGED <<runtime, doomed, assessor, box, maker, stranded, ended, lost, verdict>>
  BY DEF Boot, SandboxInv
<1>2. SandboxTypes' /\ LifeShape'
  BY <1>1, SandboxAssumption DEF SandboxTypes, LifeShape, Of, Serving
<1>3. ASSUME NEW x \in Graders PROVE Knows(x)'
  <2>1. x \in Assessors => Of(x).at = "idle"
    BY <1>1 DEF LifeShape, Serving
  <2>2. Knows(x)
    BY DEF SandboxInv
  <2> QED
    BY <1>1, <2>1, <2>2 DEF Knows, Holds, At, Of, LifeOf, Late, Graders
<1>4. ASSUME NEW n \in Boxes PROVE Sound(n)'
  <2>1. Sound(n) /\ Held' = Held
    BY <1>1 DEF SandboxInv, Held, Of
  <2> QED
    BY <1>1, <2>1 DEF Sound, Untouched, Swept, Late, Serving
<1> QED
  BY <1>2, <1>3, <1>4 DEF SandboxInv

LEMMA ServiceStep ==
    ASSUME SandboxInv, List \/ Ready \/ Drain \/ CloseGrader
    PROVE  SandboxInv'
<1>1. /\ SandboxTypes /\ LifeShape
      /\ UNCHANGED <<runtime, lives, assessor, box, maker, stranded, ended, lost, verdict>>
  BY DEF List, Ready, Drain, CloseGrader, SandboxInv
<1>2. \/ life = "listing" /\ life' = "sweeping" /\ doomed' = Labelled
      \/ life = "listing" /\ life' = "down" /\ doomed' = doomed
      \/ life = "sweeping" /\ life' = "up" /\ doomed = {} /\ doomed' = doomed
      \/ life = "up" /\ life' = "draining" /\ doomed' = doomed
      \/ life = "draining" /\ life' = "closed" /\ doomed' = Registered /\ ~Locked
  BY DEF List, Ready, Drain, CloseGrader
<1>3. Labelled \subseteq Boxes /\ Registered \subseteq Boxes
  BY Occupied DEF Labelled, Registered, Graders
<1>4. SandboxTypes'
  BY <1>1, <1>2, <1>3 DEF SandboxTypes, Serving
<1>5. LifeShape'
  BY <1>1, <1>2 DEF LifeShape, Of, Serving, Locked
<1>6. ASSUME NEW x \in Graders PROVE Knows(x)'
  <2>1. Knows(x)
    BY DEF SandboxInv
  <2>2. ASSUME At(x, {"taken", "creating"}) PROVE Of(x).name \notin doomed'
    <3>1. Of(x).name \notin doomed /\ box[Of(x).name] = "none"
      BY <2>1, <2>2 DEF Knows, Holds, At
    <3>2. ASSUME doomed' = Registered, ~Locked PROVE Of(x).name \notin Registered
      <4>1. ASSUME NEW y \in Assessors, Of(y).at \notin {"idle", "taken"}, Of(y).name = Of(x).name
            PROVE  FALSE
        <5>1. x = y
          BY <2>2, <4>1, NamesApart DEF At, Graders
        <5> QED
          BY <2>2, <3>2, <4>1, <5>1 DEF At, Locked
      <4> QED
        BY <4>1 DEF Registered
    <3> QED
      BY <1>2, <3>1, <3>2 DEF Labelled, Existing
  <2>3. CASE Of(x).at = "idle"
    BY <1>1, <2>1, <2>3 DEF Knows, Of
  <2>4. CASE Of(x).at # "idle"
    <3>1. PICK k \in Boxes : k = Of(x).name
      BY <2>4, Occupied
    <3>2. Holds(x, k)'
      BY <1>1, <2>1, <2>2, <2>4, <3>1 DEF Knows, Holds, At, Of, LifeOf, Late
    <3>3. ASSUME x \in Assessors PROVE HoldsInService(x, k)'
      <4>1. HoldsInService(x, k)
        BY <2>1, <2>4, <3>1, <3>3 DEF Knows
      <4>2. life' = "closed" => At(x, {"taken"}) \/ k \in doomed'
        BY <1>2, <2>4, <3>1, <3>3 DEF At, Registered
      <4> QED
        BY <1>1, <4>1, <4>2 DEF HoldsInService, At, Of
    <3> QED
      BY <1>1, <2>4, <3>1, <3>2, <3>3 DEF Knows, Of
  <2> QED
    BY <2>3, <2>4
<1>7. ASSUME NEW n \in Boxes PROVE Sound(n)'
  <2>1. Sound(n) /\ Held' = Held
    BY <1>1 DEF SandboxInv, Held, Of
  <2>2. maker[n].life = 0 => n \notin doomed'
    <3>1. n \in Labelled => box[n] # "none"
      BY DEF Labelled, Existing
    <3>2. n \in Registered => maker[n].life # 0
      BY Occupied DEF Registered, Graders
    <3> QED
      BY <1>2, <2>1, <3>1, <3>2 DEF Sound, Untouched
  <2>3. box[n] \in Existing => n \in Labelled
    BY DEF Labelled
  <2> QED
    BY <1>1, <1>2, <2>1, <2>2, <2>3 DEF Sound, Untouched, Swept, Late, Serving
<1> QED
  BY <1>4, <1>5, <1>6, <1>7 DEF SandboxInv

LEMMA ReconcileStep ==
    ASSUME SandboxInv, Reconcile
    PROVE  SandboxInv'
<1>1. /\ SandboxTypes /\ LifeShape /\ life = "sweeping"
      /\ UNCHANGED <<runtime, lives, assessor, maker, ended, lost, verdict>>
  BY DEF Reconcile, SandboxInv
<1>2. PICK n \in doomed :
         \/ Done("rm", n) /\ doomed' = doomed \ {n} /\ life' = life
         \/ Undone("rm", n) /\ doomed' = {} /\ life' = "down"
  BY DEF Reconcile
<1>3. n \in Boxes /\ maker[n].life # 0
  BY <1>1 DEF SandboxTypes, SandboxInv, Sound, Untouched
<1>4. /\ box' \in [Boxes -> {"none", "gone"} \cup Existing]
      /\ stranded' \subseteq [command : LateCommands, name : Boxes]
      /\ \A k \in Boxes \ {n} : box'[k] = box[k]
      /\ \A k \in Boxes \ {n}, c \in LateCommands : Late(c, k)' <=> Late(c, k)
      /\ Late("start", n)' <=> Late("start", n)
      /\ Done("rm", n) => box'[n] = IF box[n] \in Existing THEN "gone" ELSE box[n]
      /\ Undone("rm", n) => box' = box
  BY <1>1, <1>2, <1>3, RmMoves DEF LateCommands
<1>5. SandboxTypes' /\ LifeShape'
  BY <1>1, <1>2, <1>4 DEF SandboxTypes, LifeShape, Of, Serving
<1>6. ASSUME NEW x \in Graders PROVE Knows(x)'
  <2>1. Knows(x) /\ (x \in Assessors => Of(x).at = "idle")
    BY <1>1 DEF SandboxInv, LifeShape, Serving
  <2>2. CASE Of(x).at = "idle"
    BY <1>1, <2>1, <2>2 DEF Knows, Of
  <2>3. CASE Of(x).at # "idle"
    <3>1. PICK k \in Boxes : k = Of(x).name
      BY <2>3, Occupied
    <3>2. Holds(x, k)'
      BY <1>1, <1>2, <1>3, <1>4, <2>1, <2>3, <3>1 DEF Knows, Holds, At, Of, LifeOf, LateCommands, Existing
    <3> QED
      BY <1>1, <2>1, <2>3, <3>1, <3>2 DEF Knows, Of
  <2> QED
    BY <2>2, <2>3
<1>7. ASSUME NEW k \in Boxes PROVE Sound(k)'
  <2>1. Sound(k) /\ Held' = Held
    BY <1>1 DEF SandboxInv, Held, Of
  <2>2. CASE k = n
    BY <1>1, <1>2, <1>3, <1>4, <2>1, <2>2 DEF Sound, Swept, Existing, Serving
  <2>3. CASE k # n
    BY <1>1, <1>2, <1>4, <2>1, <2>3 DEF Sound, Untouched, Swept, Existing, Serving, LateCommands
  <2> QED
    BY <2>2, <2>3
<1> QED
  BY <1>5, <1>6, <1>7 DEF SandboxInv

LEMMA CloseRemovesStep ==
    ASSUME SandboxInv, CloseRemoves
    PROVE  SandboxInv'
<1>1. /\ SandboxTypes /\ LifeShape /\ life = "closed"
      /\ UNCHANGED <<runtime, life, lives, assessor, maker, ended, verdict>>
  BY DEF CloseRemoves, SandboxInv
<1>2. PICK n \in doomed :
         /\ doomed' = doomed \ {n}
         /\ \/ Done("rm", n) /\ lost' = lost
            \/ Undone("rm", n) /\ lost' = lost \cup {n}
  BY DEF CloseRemoves
<1>3. n \in Boxes /\ maker[n].life # 0
  BY <1>1 DEF SandboxTypes, SandboxInv, Sound, Untouched
<1>4. /\ box' \in [Boxes -> {"none", "gone"} \cup Existing]
      /\ stranded' \subseteq [command : LateCommands, name : Boxes]
      /\ \A k \in Boxes \ {n} : box'[k] = box[k]
      /\ \A k \in Boxes \ {n}, c \in LateCommands : Late(c, k)' <=> Late(c, k)
      /\ Late("start", n)' <=> Late("start", n)
      /\ Done("rm", n) => box'[n] = IF box[n] \in Existing THEN "gone" ELSE box[n]
      /\ Undone("rm", n) => box' = box
  BY <1>1, <1>2, <1>3, RmMoves DEF LateCommands
<1>5. SandboxTypes' /\ LifeShape'
  BY <1>1, <1>2, <1>3, <1>4 DEF SandboxTypes, LifeShape, Of, Serving
<1>6. ASSUME NEW x \in Graders PROVE Knows(x)'
  <2>1. Knows(x)
    BY DEF SandboxInv
  <2>2. CASE Of(x).at = "idle"
    BY <1>1, <2>1, <2>2 DEF Knows, Of
  <2>3. CASE Of(x).at # "idle"
    <3>1. PICK k \in Boxes : k = Of(x).name
      BY <2>3, Occupied
    <3>2. Holds(x, k)'
      BY <1>1, <1>2, <1>3, <1>4, <2>1, <2>3, <3>1 DEF Knows, Holds, At, Of, LifeOf, LateCommands, Existing
    <3>3. x \in Assessors => HoldsInService(x, k)'
      <4>1. ASSUME x \in Assessors PROVE Holds(x, k) /\ HoldsInService(x, k)
        BY <2>1, <2>3, <3>1, <4>1 DEF Knows
      <4>2. At(x, {"created", "running", "removing"}) => k = n \/ (k \in doomed' \cup lost' <=> k \in doomed \cup lost)
        BY <1>2
      <4>3. box[k] # "none" /\ box[k] \in {"none", "gone"} \cup Existing /\ k = n
            => n \in lost' \/ box'[n] = "gone"
        BY <1>2, <1>4 DEF Existing
      <4>4. box'[k] \in {box[k], "gone"}
        BY <1>2, <1>3, <1>4
      <4>5. box[k] \in {"none", "gone"} \cup Existing
        BY <1>1 DEF SandboxTypes
      <4> QED
        BY <1>1, <4>1, <4>2, <4>3, <4>4, <4>5 DEF Holds, HoldsInService, At, Of
    <3> QED
      BY <1>1, <2>1, <2>3, <3>1, <3>2, <3>3 DEF Knows, Of
  <2> QED
    BY <2>2, <2>3
<1>7. ASSUME NEW k \in Boxes PROVE Sound(k)'
  <2>1. Sound(k) /\ Held' = Held
    BY <1>1 DEF SandboxInv, Held, Of
  <2>2. CASE k = n
    BY <1>1, <1>2, <1>3, <1>4, <2>1, <2>2 DEF Sound, Swept, Existing, Serving
  <2>3. CASE k # n
    BY <1>1, <1>2, <1>4, <2>1, <2>3 DEF Sound, Untouched, Swept, Existing, Serving, LateCommands
  <2> QED
    BY <2>2, <2>3
<1> QED
  BY <1>5, <1>6, <1>7 DEF SandboxInv

\* Threads that stop where they are: their sandboxes are lost, or have been removed
\* by the close, and what their clients were about to do may still be done.
LEMMA StopStep ==
    ASSUME SandboxInv, NEW xs \in {Assessors, {Check}}, StopThreads(xs),
           \/ Abandon(xs)
           \/ xs = Assessors /\ life = "closed" /\ doomed = {} /\ lost' = lost,
           UNCHANGED <<runtime, lives, box, maker, ended, verdict>>,
           IF xs = Assessors THEN life' = "down" /\ doomed' = {} ELSE UNCHANGED <<life, doomed>>
    PROVE  SandboxInv'
<1>1. SandboxTypes /\ LifeShape /\ xs \subseteq Graders
  BY DEF SandboxInv, Graders
<1>2. /\ \A x \in Graders : assessor'[x] = IF x \in xs THEN Unoccupied ELSE assessor[x]
      /\ assessor' \in [Graders -> [at : Phases, name : Boxes \cup {0}, fault : Faulty]]
  BY <1>1 DEF StopThreads, SandboxTypes, Of, Unoccupied, Phases, Faulty
<1>3. ASSUME NEW k \in Boxes, k \in lost'
      PROVE  k \in lost \/ \E x \in xs : Of(x).at # "idle" /\ Of(x).name = k
  BY <1>3 DEF Abandon
<1>4. ASSUME NEW k \in Boxes, NEW c \in LateCommands, Late(c, k)'
      PROVE  \/ Late(c, k)
             \/ \E x \in xs : /\ Of(x).at # "idle" /\ Of(x).name = k
                              /\ c = "start" => Of(x).at = "created"
  BY <1>4 DEF StopThreads, InFlight, Late
<1>5. \A k \in Boxes, c \in LateCommands : Late(c, k) => Late(c, k)'
  BY DEF StopThreads, Late
<1>6. lost' \subseteq Boxes /\ lost \subseteq lost'
  <2>1. lost \subseteq Boxes
    BY <1>1 DEF SandboxTypes
  <2>2. \A x \in xs : Of(x).at # "idle" => Of(x).name \in Boxes
    BY <1>1, Occupied
  <2>3. CASE Abandon(xs)
    BY <2>1, <2>2, <2>3 DEF Abandon
  <2>4. CASE lost' = lost
    BY <2>1, <2>4
  <2> QED
    BY <2>3, <2>4
<1>7. stranded' \subseteq [command : LateCommands, name : Boxes]
  <2>1. InFlight(xs) \subseteq [command : LateCommands, name : Boxes]
    <3>1. \A x \in xs : Of(x).at # "idle" => Of(x).name \in Boxes
      BY <1>1, Occupied
    <3> QED
      BY <3>1 DEF InFlight, LateCommands
  <2> QED
    BY <1>1, <2>1 DEF StopThreads, SandboxTypes
<1>8. SandboxTypes'
  BY <1>1, <1>2, <1>6, <1>7 DEF SandboxTypes
<1>9. LifeShape'
  BY <1>1, <1>2, SandboxAssumption DEF LifeShape, Of, Unoccupied, Graders, Serving
<1>10. ASSUME NEW x \in Graders PROVE Knows(x)'
  <2>1. CASE x \in xs
    BY <1>2, <2>1 DEF Knows, Of, Unoccupied
  <2>2. CASE x \notin xs /\ Of(x).at = "idle"
    <3>1. Knows(x)
      BY DEF SandboxInv
    <3> QED
      BY <1>2, <2>2, <3>1 DEF Knows, Of
  <2>3. CASE x \notin xs /\ Of(x).at # "idle"
    <3>1. PICK k \in Boxes : k = Of(x).name
      BY <2>3, Occupied
    <3>2. Holds(x, k) /\ (x \in Assessors => HoldsInService(x, k)) /\ assessor'[x] = assessor[x]
      BY <1>2, <2>3, <3>1 DEF SandboxInv, Knows
    <3>3. \A c \in LateCommands : Late(c, k)' => Late(c, k)
      <4>1. \A y \in xs : Of(y).at # "idle" => Of(y).name # k
        BY <1>1, <2>3, <3>1, NamesApart
      <4> QED
        BY <1>4, <4>1
    <3>4. k \in doomed' => k \in doomed
      OBVIOUS
    <3>5. Holds(x, k)'
      BY <3>1, <3>2, <3>3, <3>4 DEF Holds, At, Of, LifeOf, LateCommands
    <3>6. x \in Assessors => HoldsInService(x, k)'
      BY <1>6, <2>3, <3>1, <3>2 DEF HoldsInService, At, Of
    <3> QED
      BY <2>3, <3>1, <3>2, <3>5, <3>6 DEF Knows, Of
  <2> QED
    BY <2>1, <2>2, <2>3
<1>11. ASSUME NEW k \in Boxes PROVE Sound(k)'
  <2>1. Sound(k)
    BY DEF SandboxInv
  <2>2. ASSUME NEW x \in Graders, Of(x).name = k, Of(x).at # "idle",
               box[k] = "running" \/ Of(x).at = "created" \/ Late("start", k)
        PROVE  box[k] = "gone" \/ k \in Held' \cup lost'
    <3>1. CASE x \notin xs
      BY <1>2, <2>2, <3>1 DEF Held, Of
    <3>2. CASE x \in xs /\ Abandon(xs)
      BY <2>2, <3>2 DEF Abandon
    <3>3. CASE xs = Assessors /\ life = "closed" /\ doomed = {} /\ lost' = lost /\ x \in xs
      <4>1. Holds(x, k) /\ HoldsInService(x, k) /\ Of(x).at # "creating"
        BY <1>1, <2>2, <3>3 DEF SandboxInv, Knows, LifeShape
      <4>2. Of(x).at \in Phases
        BY <1>1, <2>2 DEF SandboxTypes, Of
      <4> QED
        BY <2>2, <3>3, <4>1, <4>2 DEF Holds, HoldsInService, At, Phases, LateCommands
    <3> QED
      BY <3>1, <3>2, <3>3
  <2>3. ASSUME box[k] = "running" \/ Late("start", k), k \in Held
        PROVE  box[k] = "gone" \/ k \in Held' \cup lost'
    <3>1. PICK x \in Graders : Of(x).name = k
      BY <2>3 DEF Held
    <3>2. Of(x).at # "idle"
      BY <3>1 DEF SandboxInv, Knows, Boxes
    <3> QED
      BY <2>2, <2>3, <3>1, <3>2
  <2>7. ASSUME Late("start", k)'
        PROVE  box[k] # "none" /\ (box[k] = "gone" \/ k \in Held' \cup lost')
    <3>1. CASE Late("start", k)
      BY <1>6, <2>1, <2>3, <3>1 DEF Sound
    <3>2. CASE \E x \in xs : Of(x).at = "created" /\ Of(x).name = k
      <4>1. PICK x \in xs : Of(x).at = "created" /\ Of(x).name = k
        BY <3>2
      <4>2. box[k] # "none"
        BY <1>1, <4>1 DEF SandboxInv, Knows, Holds, At
      <4> QED
        BY <1>1, <2>2, <4>1, <4>2
    <3> QED
      BY <1>4, <2>7, <3>1, <3>2 DEF LateCommands
  <2>4. ASSUME maker[k].life = 0 PROVE Untouched(k)'
    <3>1. \A x \in xs : Of(x).at # "idle" => Of(x).name # k
      BY <1>1, <2>4, Occupied
    <3> QED
      BY <1>1, <1>3, <1>4, <2>1, <2>4, <3>1 DEF Sound, Untouched, LateCommands
  <2>5. ASSUME maker[k].who \in Assessors, xs = {Check}
        PROVE  Late("start", k)' => Late("start", k)
    <3>1. ASSUME Of(Check).at # "idle", Of(Check).name = k PROVE FALSE
      <4>1. maker[k] = [who |-> Check, life |-> LifeOf(Check)]
        BY <3>1, Occupied DEF Graders
      <4> QED
        BY <2>5, <4>1, SandboxAssumption
    <3> QED
      BY <1>4, <2>5, <3>1 DEF LateCommands
  <2>6. life' # "down" => xs = {Check}
    OBVIOUS
  <2> QED
    BY <1>6, <2>1, <2>3, <2>4, <2>5, <2>6, <2>7 DEF Sound, Swept, Serving
<1> QED
  BY <1>8, <1>9, <1>10, <1>11 DEF SandboxInv

----------------------------------------------------------------------------
(* The theorems. *)

LEMMA SandboxInvInit == SandboxInit => SandboxInv
<1> SUFFICES ASSUME SandboxInit PROVE SandboxInv
  OBVIOUS
<1>1. SandboxTypes
  BY SandboxAssumption DEF SandboxInit, SandboxTypes, Unoccupied, Graders, Phases, Faulty, Verdicts
<1>2. LifeShape
  BY DEF SandboxInit, LifeShape, Of, Unoccupied, Graders
<1>3. ASSUME NEW x \in Graders PROVE Knows(x)
  BY DEF SandboxInit, Knows, Of, Unoccupied
<1>4. ASSUME NEW n \in Boxes PROVE Sound(n)
  BY DEF SandboxInit, Sound, Untouched, Late, Existing
<1> QED
  BY <1>1, <1>2, <1>3, <1>4 DEF SandboxInv

LEMMA SandboxInvStep == SandboxInv /\ [SandboxNext]_sandboxVars => SandboxInv'
<1> SUFFICES ASSUME SandboxInv, [SandboxNext]_sandboxVars PROVE SandboxInv'
  OBVIOUS
<1>1. CASE UNCHANGED sandboxVars
  <2>1. SandboxTypes' /\ LifeShape'
    BY <1>1 DEF SandboxInv, sandboxVars, SandboxTypes, LifeShape, Of
  <2>2. ASSUME NEW x \in Graders PROVE Knows(x)'
    BY <1>1 DEF SandboxInv, sandboxVars, Knows, Holds, HoldsInService, At, Of, LifeOf, Late
  <2>3. ASSUME NEW n \in Boxes PROVE Sound(n)'
    BY <1>1 DEF SandboxInv, sandboxVars, Sound, Untouched, Swept, Late, Held, Of
  <2> QED
    BY <2>1, <2>2, <2>3 DEF SandboxInv
<1>2. CASE CarryOut \/ Boot \/ List \/ Reconcile \/ Ready \/ Drain \/ CloseGrader \/ CloseRemoves
  BY <1>2, CarryOutStep, BootStep, ServiceStep, ReconcileStep, CloseRemovesStep
<1>3. CASE Exit \/ Crash
  BY <1>3, StopStep DEF Exit, Crash
<1>4. CASE CheckKilled
  <2>1. Assessors # {Check}
    BY SandboxAssumption
  <2> QED
    BY <1>4, <2>1, StopStep DEF CheckKilled
<1>5. CASE \E n \in Boxes : Ends(n)
  BY <1>5, EndsStep
<1>6. ASSUME NEW x \in Graders,
             Take(x) \/ Enter(x) \/ Create(x) \/ Launch(x) \/ Observe(x) \/ RemoveBox(x) \/ Sweep(x)
      PROVE  SandboxInv'
  <2>1. CASE Take(x)
    BY <2>1, TakeStep
  <2>2. CASE ~Take(x)
    <3>1. Of(x).at # "idle"
      BY <1>6, <2>2 DEF Enter, Create, Launch, Observe, RemoveBox, Sweep
    <3>2. PICK n \in Boxes : Of(x).name = n
      BY <3>1, Occupied
    <3> QED
      BY <1>6, <2>2, <3>2, EnterStep, CreateStep, LaunchStep, ObserveStep, RemoveStep
  <2> QED
    BY <2>1, <2>2
<1> QED
  BY <1>1, <1>2, <1>3, <1>4, <1>5, <1>6 DEF SandboxNext

\* The sandboxes, their makers and the late commands fit together in every
\* reachable state.
THEOREM SandboxInvAlways == SandboxSpec => []SandboxInv
  BY SandboxInvInit, SandboxInvStep, PTL DEF SandboxSpec

\* A running sandbox belongs to somebody who will remove it, or its removal failed
\* or its process died, but an orderly stop (close of the grader) leaves none; and
\* after reconcile_orphans nothing that an earlier service made runs, whatever the
\* runtime carries out late.
THEOREM NothingIsUnattended == SandboxSpec => []NothingRunsUnattended
<1>1. SandboxInv => NothingRunsUnattended
  BY DEF SandboxInv, Sound, Swept, NothingRunsUnattended, Existing, Serving
<1> QED
  BY <1>1, SandboxInvAlways, PTL

\* A grade of grade() comes from a program that ended by itself, and its sandbox is
\* gone and stays gone, whatever failed, was closed or is carried out late.
THEOREM GradesStayDeserved == SandboxSpec => []GradesAreDeserved
<1>1. SandboxInv => GradesAreDeserved
  BY DEF SandboxInv, Sound, GradesAreDeserved
<1> QED
  BY <1>1, SandboxInvAlways, PTL
================================================================================
