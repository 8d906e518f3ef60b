---------------------------- MODULE GitArtifacts ----------------------------
(***************************************************************************)
(* The preserved sources of Git submissions and scheduled collections, and *)
(* their garbage collector (artifact_gc.py).  A label has a directory for  *)
(* its archive and an immutable ref; both are made under the flock of the  *)
(* repository, which the garbage collector takes too, but what they are    *)
(* made for is recorded in the database later.  Two things keep the        *)
(* collector from a source that is about to be recorded: it looks only at  *)
(* files older than its grace period, and it reads the database again      *)
(* under the lock.                                                         *)
(*                                                                         *)
(* Time is an age: young, or older than the grace period.  GitCache models *)
(* the fetch, the quota and the failures inside a pin; a pin is two steps  *)
(* here, so that a process may die with half of it.                        *)
(***************************************************************************)
EXTENDS Integers, FiniteSets

CONSTANTS
    Labels,      \* submission ids and job keys
    Repos, Commits,
    MaxPushes,   \* bound: pushes
    MaxPasses,   \* bound: runs of `artifacts gc --apply`
    None

\* An archive, a ref or a workspace on disk.
File == [repo : Repos, commit : Commits, old : BOOLEAN]

ASSUME ArtifactsAssumption ==
    /\ {MaxPushes, MaxPasses} \subseteq Nat
    /\ None \notin Commits \cup Repos \cup File
    /\ IsFiniteSet(Labels)

VARIABLES
    remote,     \* the branch of each repository
    archive,    \* the archive of each label: None, or its repository, commit and age
    ref,        \* its ref; the age is that of the label's directory
    workspace,  \* labels a grading workspace exists for, with its age
    repoLock,   \* who holds the flock of each repository
    gc,         \* the garbage collector
    pushes, passes

artifactVars == <<archive, ref, workspace>>
gcVars == <<gc, passes>>
storeVars == <<remote, archive, ref, workspace, repoLock, gc, pushes, passes>>

NoGC == [at |-> "off", archives |-> {}, refs |-> {}, spaces |-> {}, repos |-> {}, reach |-> {}]

ArtifactInit ==
    /\ remote \in [Repos -> Commits]
    /\ archive = [l \in Labels |-> None]
    /\ ref = [l \in Labels |-> None]
    /\ workspace = [l \in Labels |-> None]
    /\ repoLock = [r \in Repos |-> None]
    /\ gc = NoGC
    /\ pushes = 0 /\ passes = 0

Young(r, c) == [repo |-> r, commit |-> c, old |-> FALSE]
Has(kept, l, r, c) == kept[l] # None /\ kept[l].repo = r /\ kept[l].commit = c

\* git push, with or without --force.
Push(r, c) ==
    /\ pushes < MaxPushes /\ pushes' = pushes + 1
    /\ c # remote[r]
    /\ remote' = [remote EXCEPT ![r] = c]
    /\ UNCHANGED <<artifactVars, repoLock, gcVars>>

-----------------------------------------------------------------------------
(* Preserving a commit under the flock of its repository.                  *)

Lock(who, r) == repoLock[r] = None /\ repoLock' = [repoLock EXCEPT ![r] = who]
Unlock(r) == repoLock' = [repoLock EXCEPT ![r] = None]

\* _publish_archive: an archive that exists is taken as it is, but building the
\* temporary one beside it made the directory young.
Publish(l, r, c) ==
    /\ archive' = IF archive[l] = None THEN [archive EXCEPT ![l] = Young(r, c)] ELSE archive
    /\ ref' = IF ref[l] = None THEN ref ELSE [ref EXCEPT ![l].old = FALSE]
    /\ UNCHANGED <<remote, workspace, gcVars, pushes>>

\* _create_immutable_ref
PinRef(l, r, c) ==
    /\ ref' = IF ref[l] = None THEN [ref EXCEPT ![l] = Young(r, c)] ELSE ref
    /\ UNCHANGED <<remote, archive, workspace, gcVars, pushes>>

\* Files of a label that nobody touches pass the grace period.
Aged(kept, l) == IF kept[l] = None THEN kept ELSE [kept EXCEPT ![l].old = TRUE]
Age(l) ==
    /\ archive' = Aged(archive, l) /\ ref' = Aged(ref, l) /\ workspace' = Aged(workspace, l)
    /\ UNCHANGED <<remote, repoLock, gcVars, pushes>>

-----------------------------------------------------------------------------
(* ArtifactGarbageCollector.run(apply=True).  recorded: the labels a       *)
(* receipt or a snapshot row names; terminal: submissions that have ended. *)

GCAt(at) == gc.at = at
GCStep(next) == gc' = next /\ UNCHANGED <<remote, pushes, passes>>

\* _load_reachability, at the start.
StartGC(recorded, terminal) ==
    /\ GCAt("off") /\ passes < MaxPasses /\ passes' = passes + 1
    /\ gc' = [NoGC EXCEPT !.at = "archives", !.reach = recorded, !.spaces = terminal]
    /\ UNCHANGED <<remote, artifactVars, repoLock, pushes>>

\* Mutant of Old: no grace period.
AnyAge(x) == x # None
Old(x) == x # None /\ x.old

\* _scan_archives, without any lock.
ScanArchives ==
    /\ GCAt("archives")
    /\ GCStep([gc EXCEPT !.at = "refs",
         !.archives = {l \in Labels \ gc.reach : Old(archive[l])}])
    /\ UNCHANGED <<artifactVars, repoLock>>

\* _scan_snapshot_refs and _scan_workspaces.
ScanRefs ==
    /\ GCAt("refs")
    /\ LET refs == {l \in Labels \ gc.reach : Old(ref[l])} IN
       GCStep([gc EXCEPT !.at = "next", !.refs = refs,
         !.spaces = {l \in gc.spaces : Old(workspace[l])},
         !.repos = {ref[l].repo : l \in refs}
                   \cup {archive[l].repo : l \in {m \in gc.archives : archive[m] # None}}])
    /\ UNCHANGED <<artifactVars, repoLock>>

\* The flock of the next repository with candidates, and the database again.
\* (The flock of the quota, inside it, is taken by a step of Publish alone.)
LockForGC(r, recorded) ==
    /\ GCAt("next") /\ r \in gc.repos
    /\ Lock("gc", r)
    /\ GCStep([gc EXCEPT !.at = "unref", !.reach = recorded])
    /\ UNCHANGED artifactVars

\* The candidates of the repository the collector holds.
HeldByGC(x) == x # None /\ repoLock[x.repo] = "gc"

\* update-ref -d with the commit that was scanned; any deletion may fail.
DeleteRefs(gone) ==
    /\ GCAt("unref")
    /\ gone \subseteq {l \in gc.refs \ gc.reach : HeldByGC(ref[l])}
    /\ ref' = [l \in Labels |-> IF l \in gone THEN None ELSE ref[l]]
    /\ GCStep([gc EXCEPT !.at = "reread"])
    /\ UNCHANGED <<archive, workspace, repoLock>>

RereadForGC(recorded) ==
    /\ GCAt("reread")
    /\ GCStep([gc EXCEPT !.at = "unlink", !.reach = recorded])
    /\ UNCHANGED <<artifactVars, repoLock>>

\* Only archives without a ref and unchanged since the scan.
Deletable == {l \in gc.archives \ gc.reach :
    /\ HeldByGC(archive[l]) /\ archive[l].old
    /\ ref[l] = None}

DeleteArchives(gone) ==
    /\ GCAt("unlink")
    /\ gone \subseteq Deletable
    /\ archive' = [l \in Labels |-> IF l \in gone THEN None ELSE archive[l]]
    /\ repoLock' = [r \in Repos |-> IF repoLock[r] = "gc" THEN None ELSE repoLock[r]]
    /\ GCStep([gc EXCEPT !.at = "next",
                         !.repos = @ \ {r \in Repos : repoLock[r] = "gc"}])
    /\ UNCHANGED <<ref, workspace>>

\* The workspaces of submissions that are terminal still; then the run ends.
DeleteWorkspaces(terminal) ==
    /\ GCAt("next") /\ gc.repos = {}
    /\ workspace' = [l \in Labels |->
         IF l \in gc.spaces \cap terminal /\ Old(workspace[l]) THEN None ELSE workspace[l]]
    /\ GCStep(NoGC)
    /\ UNCHANGED <<archive, ref, repoLock>>

\* The process is killed, or cannot read the database.
StopGC ==
    /\ ~GCAt("off")
    /\ repoLock' = [r \in Repos |-> IF repoLock[r] = "gc" THEN None ELSE repoLock[r]]
    /\ GCStep(NoGC)
    /\ UNCHANGED artifactVars

GCNext(recorded, terminal) ==
    \/ StartGC(recorded, terminal) \/ ScanArchives \/ ScanRefs
    \/ \E r \in Repos : LockForGC(r, recorded)
    \/ \E gone \in SUBSET Labels : DeleteRefs(gone)
    \/ RereadForGC(recorded)
    \/ \E gone \in SUBSET Labels : DeleteArchives(gone)
    \/ DeleteWorkspaces(terminal)
    \/ StopGC
=============================================================================
