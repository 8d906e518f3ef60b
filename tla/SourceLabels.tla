---------------------------- MODULE SourceLabels ----------------------------
(***************************************************************************)
(* What the Git collector promises to its two users, the scheduled poller  *)
(* and the submission service: a label is a name for one collection of one *)
(* repository; it is held at most at one commit, which was the tip of the  *)
(* branch at that moment, it is pinned at most at one commit, and neither  *)
(* ever moves, whatever the student pushes and whichever process retries.  *)
(***************************************************************************)
CONSTANTS Labels, Commits, RepositoryOf, None

VARIABLES
    remote,    \* the student's branch: a commit, or None when it is missing
    held,      \* the commit a label was fetched at
    pinned     \* the commit a label was preserved at

labelVars == <<remote, held, pinned>>
Repositories == {RepositoryOf[l] : l \in Labels}

LabelInit ==
    /\ remote \in [Repositories -> Commits]     \* created from a template
    /\ held = [l \in Labels |-> None]
    /\ pinned = [l \in Labels |-> None]

\* git push, with or without --force, or the deletion of the branch.
Push(r, c) ==
    /\ remote' = [remote EXCEPT ![r] = c]
    /\ UNCHANGED <<held, pinned>>

Hold(l) ==
    /\ held[l] = None
    /\ remote[RepositoryOf[l]] # None
    /\ held' = [held EXCEPT ![l] = remote[RepositoryOf[l]]]
    /\ UNCHANGED <<remote, pinned>>

Pin(l, c) ==
    /\ pinned[l] = None
    /\ pinned' = [pinned EXCEPT ![l] = c]
    /\ UNCHANGED <<remote, held>>

LabelNext ==
    \/ \E r \in Repositories, c \in Commits \cup {None} : Push(r, c)
    \/ \E l \in Labels : Hold(l)
    \/ \E l \in Labels, c \in Commits : Pin(l, c)

LabelSpec == LabelInit /\ [][LabelNext]_labelVars
=============================================================================
