------------------------------ MODULE GitCache ------------------------------
(***************************************************************************)
(* The Git collector (gitops.py): processes fetch a student's branch into  *)
(* a bare cache and preserve commits as archives and immutable refs, one   *)
(* at a time per repository (an flock) and under one quota for all (a      *)
(* second flock).  The student pushes and force-pushes meanwhile, and a    *)
(* process may die between any two steps.                                  *)
(*                                                                         *)
(* A commit stands for its tree: how many files it tracks, how large they  *)
(* are, whether all of them may be archived, and how large the archive is. *)
(***************************************************************************)
EXTENDS Integers, FiniteSets

CONSTANTS
    Processes,     \* threads and processes that call the collector; the first
                   \* idle one makes the next call
    Labels,        \* snapshot labels and hold labels: jobs, submissions
    Commits,
    RepositoryOf,  \* the repository each label is about
    Tree,          \* files, bytes and regularity of each commit's assignment tree
    Size,          \* bytes of the archive of each commit
    MaxFiles, MaxSnapshotBytes,
    MaxBytes,      \* max_total_snapshot_bytes
    MaxPushes,     \* bound: pushes
    MaxCrashes,    \* bound: processes that die inside a call
    MaxCalls,      \* bound: calls
    None

Repositories == {RepositoryOf[l] : l \in Labels}

ASSUME CacheAssumption ==
    /\ RepositoryOf \in [Labels -> Repositories]
    /\ Tree \in [Commits -> [files : Nat, bytes : Nat, regular : BOOLEAN, plain : BOOLEAN]]
    /\ Size \in [Commits -> Nat]
    /\ {MaxFiles, MaxSnapshotBytes, MaxBytes, MaxPushes, MaxCrashes, MaxCalls} \subseteq Nat
    /\ None \notin Commits \cup Processes
    /\ Processes \subseteq Nat
    /\ IsFiniteSet(Labels) /\ IsFiniteSet(Commits)

VARIABLES
    remote,     \* the branch on the Git host
    tracking,   \* refs/remotes/origin/<branch> of the cache
    holdOld,    \* refs/autograde/fetch-holds/<label>/old
    holdNew,    \* refs/autograde/fetch-holds/<label>/new
    snapshot,   \* refs/autograde/snapshots/.../<label>
    archives,   \* pairs of a label and a commit whose .tar.gz exists
    lock,       \* the process that holds each repository's flock
    quotaLock,  \* the process that holds .snapshot-quota.lock
    task,       \* what each process is doing
    answers,    \* history: what calls returned
    baseline,   \* history: the commit the first transfer for a label started from
    pushes, crashes, calls

refVars == <<tracking, holdOld, holdNew, snapshot>>
countVars == <<pushes, crashes, calls>>
cacheVars == <<remote, tracking, holdOld, holdNew, snapshot, archives, lock,
          quotaLock, task, answers, baseline, pushes, crashes, calls>>

Idle == [op |-> "none", at |-> "idle", label |-> None, commit |-> None,
         created |-> FALSE, used |-> 0, tips |-> {}]

CacheInit ==
    /\ remote \in [Repositories -> Commits]     \* created from a template
    /\ tracking = [r \in Repositories |-> None]
    /\ holdOld = [l \in Labels |-> None]
    /\ holdNew = [l \in Labels |-> None]
    /\ snapshot = [l \in Labels |-> None]
    /\ archives = {}
    /\ lock = [r \in Repositories |-> None]
    /\ quotaLock = None
    /\ task = [p \in Processes |-> Idle]
    /\ answers = {}
    /\ baseline = [l \in Labels |-> None]
    /\ pushes = 0 /\ crashes = 0 /\ calls = 0

Repo(p) == RepositoryOf[task[p].label]
Goes(p, at) == task' = [task EXCEPT ![p].at = at]

\* The calls that are about a repository see its tip change.
Push(r, c) ==
    /\ pushes < MaxPushes /\ remote[r] # c
    /\ pushes' = pushes + 1
    /\ remote' = [remote EXCEPT ![r] = c]
    /\ task' = [p \in Processes |->
          IF task[p].at # "idle" /\ Repo(p) = r
          THEN [task[p] EXCEPT !.tips = @ \cup {c}] ELSE task[p]]
    /\ UNCHANGED <<refVars, archives, lock, quotaLock, answers, baseline,
                   crashes, calls>>

-----------------------------------------------------------------------------
(* Entering and leaving a call.                                            *)

LockFree(r) == lock[r] = None

\* fetch(hold_label), preflight(), snapshot(label, commit) and
\* collect_exact(label, commit) wait for the repository lock.  snapshot() is
\* given a commit that a fetch returned.
Enter(p, op, l, c) ==
    LET r == RepositoryOf[l]
    IN  /\ task[p].at = "idle" /\ calls < MaxCalls
        /\ \A q \in Processes : q < p => task[q].at # "idle"
        /\ op \in {"fetch", "preflight"} <=> c = None
        /\ op = "snapshot" => c = holdNew[l]
        /\ LockFree(r)
        /\ calls' = calls + 1
        /\ lock' = [lock EXCEPT ![r] = p]
        /\ task' = [task EXCEPT ![p] =
              [Idle EXCEPT !.op = op, !.label = l, !.commit = c, !.tips = {remote[r]},
                           !.at = IF op = "snapshot" THEN "choosing" ELSE "entered"]]
        /\ UNCHANGED <<remote, refVars, archives, quotaLock, answers, baseline,
                       pushes, crashes>>

Released(p) == [lock EXCEPT ![Repo(p)] = None]
\* Mutant of QuotaReleased: the finally clause is missing.
QuotaKeptLocked(p) == quotaLock
QuotaReleased(p) == IF quotaLock = p THEN None ELSE quotaLock

Leave(p, answer) ==
    /\ answers' = answers \cup answer
    /\ task' = [task EXCEPT ![p] = Idle]
    /\ lock' = Released(p)
    /\ quotaLock' = QuotaReleased(p)

Answer(p, old, new) ==
    [op |-> task[p].op, label |-> task[p].label, old |-> old, new |-> new,
     tip |-> new \in task[p].tips]

-----------------------------------------------------------------------------
(* Fetching.                                                               *)

AlreadyHeld(p) ==
    /\ task[p].at = "entered" /\ task[p].op = "fetch"
    /\ holdNew[task[p].label] # None
    /\ Leave(p, {Answer(p, holdOld[task[p].label], holdNew[task[p].label])})
    /\ UNCHANGED <<remote, refVars, archives, baseline, countVars>>

OldPinned(l) ==
    IF holdOld[l] = None
    THEN [holdOld EXCEPT ![l] = tracking[RepositoryOf[l]]] ELSE holdOld

\* _fetch_locked before the transfer.
PinOld(p) ==
    LET l == task[p].label
    IN  /\ task[p].at = "entered"
        /\ task[p].op = "fetch" => holdNew[l] = None
        /\ holdOld' = IF task[p].op = "fetch" THEN OldPinned(l) ELSE holdOld
        /\ baseline' = IF task[p].op = "fetch" /\ baseline[l] = None
                       THEN [baseline EXCEPT ![l] = tracking[Repo(p)]] ELSE baseline
        /\ Goes(p, "pulling")
        /\ UNCHANGED <<remote, tracking, holdNew, snapshot, archives, lock,
                       quotaLock, answers, countVars>>

Fetched(p) == remote[Repo(p)]

\* _list_assignment_entries: submodules, unsafe paths and odd modes are refused.
Listed(c) ==
    /\ Tree[c].files \in 1 .. MaxFiles
    /\ Tree[c].bytes <= MaxSnapshotBytes
    /\ Tree[c].regular

\* _build_archive: LFS pointers and links out of the assignment are refused.
Archivable(c) == Tree[c].plain

\* git fetch --atomic moves both refs or none.
Transferred(p) ==
    LET r == Repo(p)
    IN  /\ task[p].at = "pulling"
        /\ remote[r] # None
        /\ tracking' = [tracking EXCEPT ![r] = remote[r]]
        /\ holdNew' = IF task[p].op = "fetch"
                      THEN [holdNew EXCEPT ![task[p].label] = remote[r]] ELSE holdNew

\* The rest of fetch(), preflight() and collect_exact() up to the snapshot.
Pull(p) ==
    LET c == remote[Repo(p)]
        answer == Answer(p, holdOld[task[p].label], c)
    IN  /\ Transferred(p)
        /\ CASE task[p].op = "fetch" -> Leave(p, {answer})
             [] task[p].op = "preflight" ->
                   Leave(p, IF Listed(c) /\ Archivable(c) THEN {answer} ELSE {})
             [] task[p].op = "exact" /\ Fetched(p) # task[p].commit -> Leave(p, {})
             [] OTHER -> Goes(p, "choosing") /\ UNCHANGED <<lock, quotaLock, answers>>
        /\ UNCHANGED <<remote, holdOld, snapshot, archives, baseline, countVars>>

\* The command timeout ends the wait, not what git did.
PullTimesOut(p) ==
    /\ Transferred(p)
    /\ Leave(p, {})
    /\ UNCHANGED <<remote, holdOld, snapshot, archives, baseline, countVars>>

\* The branch is missing, or the transfer fails.
PullFails(p) ==
    /\ task[p].at = "pulling"
    /\ Leave(p, {})
    /\ UNCHANGED <<remote, refVars, archives, baseline, countVars>>

-----------------------------------------------------------------------------
(* Preserving a commit (_snapshot_locked).                                 *)

\* Mutant of Pinnable: a label may be moved.
PinnableAgain(l, c) == TRUE
Pinnable(l, c) == snapshot[l] \in {None, c}

Choose(p) ==
    /\ task[p].at = "choosing"
    /\ Pinnable(task[p].label, task[p].commit)
    /\ Listed(task[p].commit) /\ Archivable(task[p].commit)
    /\ Goes(p, "built")
    /\ UNCHANGED <<remote, refVars, archives, lock, quotaLock, answers, baseline,
                   countVars>>

\* SnapshotConflictError, an unsafe tree, a failing git command; behind the quota
\* lock, an archive with another digest or a store that cannot be traversed.
Refuse(p) ==
    /\ task[p].at \in {"choosing", "measured"}
    /\ Leave(p, {})
    /\ UNCHANGED <<remote, refVars, archives, baseline, countVars>>

\* _managed_snapshot_archive_bytes: every byte of every archive of the store.
StoredBytes(kept) == UNION {{a} \X (1 .. Size[a[2]]) : a \in kept}
Bytes == Cardinality(StoredBytes(archives))

QuotaFree == quotaLock = None

\* _publish_archive: under the quota lock, measure the store ...
Measure(p) ==
    /\ task[p].at = "built"
    /\ QuotaFree
    /\ quotaLock' = p
    /\ task' = [task EXCEPT ![p].at = "measured", ![p].used = Bytes]
    /\ UNCHANGED <<remote, refVars, archives, lock, answers, baseline, countVars>>

HasArchive(p) == <<task[p].label, task[p].commit>> \in archives

Fits(p) == task[p].used + Size[task[p].commit] <= MaxBytes

\* ... then link the archive, unless it is there.
Publish(p) ==
    /\ task[p].at = "measured"
    /\ HasArchive(p) \/ Fits(p)
    /\ archives' = archives \cup {<<task[p].label, task[p].commit>>}
    /\ task' = [task EXCEPT ![p].at = "published", ![p].created = ~HasArchive(p)]
    /\ quotaLock' = QuotaReleased(p)
    /\ UNCHANGED <<remote, refVars, lock, answers, baseline, countVars>>

QuotaExceeded(p) ==
    /\ task[p].at = "measured"
    /\ ~HasArchive(p) /\ ~Fits(p)
    /\ Leave(p, {})
    /\ UNCHANGED <<remote, refVars, archives, baseline, countVars>>

\* _create_immutable_ref.
PinRef(p) ==
    LET l == task[p].label
        c == task[p].commit
    IN  /\ task[p].at = "published"
        /\ Pinnable(l, c)
        /\ snapshot' = [snapshot EXCEPT ![l] = c]
        /\ Leave(p, {Answer(p, None, c)})
        /\ UNCHANGED <<remote, tracking, holdOld, holdNew, archives, baseline,
                       countVars>>

\* Mutant of Undone: the archive is removed even when it was there before.
UndoneAlways(p) == archives \ {<<task[p].label, task[p].commit>>}
Undone(p) == IF task[p].created THEN archives \ {<<task[p].label, task[p].commit>>}
             ELSE archives

\* update-ref fails, or a git command times out, perhaps after it moved the ref.
PinFails(p) ==
    LET l == task[p].label
    IN  /\ task[p].at = "published"
        /\ snapshot' \in {snapshot, [snapshot EXCEPT ![l] = task[p].commit]}
        /\ Pinnable(l, snapshot'[l])
        /\ archives' = Undone(p)
        /\ Leave(p, {})
        /\ UNCHANGED <<remote, tracking, holdOld, holdNew, baseline, countVars>>

-----------------------------------------------------------------------------

\* The operating system drops the flocks of a process that dies.
Die(p) ==
    /\ task[p].at # "idle"
    /\ crashes < MaxCrashes
    /\ crashes' = crashes + 1
    /\ Leave(p, {})
    /\ UNCHANGED <<remote, refVars, archives, baseline, pushes, calls>>

CallStep(p) ==
    \/ AlreadyHeld(p) \/ PinOld(p) \/ Pull(p) \/ PullTimesOut(p) \/ PullFails(p)
    \/ Choose(p) \/ Refuse(p) \/ Measure(p) \/ Publish(p) \/ QuotaExceeded(p) \/ PinRef(p)
    \/ PinFails(p)

CacheNext ==
    \/ \E r \in Repositories, c \in Commits \cup {None} : Push(r, c)
    \/ \E p \in Processes, l \in Labels :
          \/ \E op \in {"fetch", "preflight"} : Enter(p, op, l, None)
          \/ \E op \in {"snapshot", "exact"}, c \in Commits : Enter(p, op, l, c)
    \/ \E p \in Processes : CallStep(p) \/ Die(p)

CacheSpec == CacheInit /\ [][CacheNext]_cacheVars

\* A git command ends or is stopped by its timeout.
CacheFairness == \A p \in Processes : WF_cacheVars(CallStep(p))

-----------------------------------------------------------------------------
(* Properties.                                                             *)

Refs == Commits \cup {None}

\* The shape of the state.
CacheTypeOK ==
    /\ remote \in [Repositories -> Refs] /\ tracking \in [Repositories -> Refs]
    /\ holdOld \in [Labels -> Refs] /\ holdNew \in [Labels -> Refs]
    /\ snapshot \in [Labels -> Refs] /\ baseline \in [Labels -> Refs]
    /\ archives \subseteq Labels \X Commits
    /\ lock \in [Repositories -> Processes \cup {None}]
    /\ quotaLock \in Processes \cup {None}
    /\ \A p \in Processes :
          /\ task[p].label \in Labels \cup {None} /\ task[p].commit \in Refs
          /\ task[p].at \in {"idle", "entered", "pulling", "choosing", "built",
                             "measured", "published"}
          /\ task[p].at # "idle" => lock[Repo(p)] = p

\* A snapshot that was answered keeps its ref and its archive: the submission or
\* job that cites it can be graded, whatever later retries of the label run into.
AnsweredIsKept ==
    \A a \in answers : a.op \in {"snapshot", "exact"} =>
        snapshot[a.label] = a.new /\ <<a.label, a.new>> \in archives

\* The archives of all repositories stay within max_total_snapshot_bytes.
QuotaKept == Bytes <= MaxBytes

\* Whatever was returned for a label is what every later call returns for it.
LabelsStable ==
    \A a, b \in {x \in answers : x.op # "preflight"} :
        a.label = b.label /\ (a.op = "fetch" <=> b.op = "fetch") => a.new = b.new

\* collect_exact preserves only a commit that was the tip of the branch while
\* the request waited.
ExactWasTip == \A a \in answers : a.op = "exact" => a.tip

\* The old commit a fetch reports is the one the first attempt found, so a
\* crash between two attempts hides no force push.
BaselineKept == \A a \in answers : a.op = "fetch" => a.old = baseline[a.label]

\* The store keeps what it promised and no more than it may, and what a call
\* answers is what the branch and the cache were.
StoreIsKept ==
    /\ AnsweredIsKept /\ QuotaKept
    /\ CacheTypeOK /\ LabelsStable /\ ExactWasTip /\ BaselineKept

\* Every call ends and gives back its locks.
CallsEnd == \A p \in Processes : task[p].at # "idle" ~> task[p].at = "idle"

LabelStore == INSTANCE SourceLabels WITH held <- holdNew, pinned <- snapshot

\* The collector implements what SourceLabels promises.
ImplementsLabels == LabelStore!LabelSpec
=============================================================================
