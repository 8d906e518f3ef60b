-------------------------- MODULE MCInstructorDesk --------------------------
(* What an instructor sets in motion: the release of an assignment and its   *)
(* checks, requests to the editors of the class, and the sandboxes of the    *)
(* graders.  Small instances of AssignmentJobs, ClassroomRequests and        *)
(* GraderSandboxes, which share no variable: a behaviour exercises one of    *)
(* them (`part`).                                                            *)
EXTENDS AssignmentJobs, ClassroomRequests, GraderSandboxes, TLC

CONSTANTS k1, k2
VARIABLE part

deskParts == <<jobVars, classroomVars, sandboxVars, part>>

\* Several drafts, several revisions and several checks of one release multiply;
\* the search follows two of the three at a time, and a crash, the operator's
\* check or a confirmed batch with one of them.
OneDraft == \E d \in Drafts : \A e \in Drafts \ {d} : draft[e] = NoDraft
OneRevision == \A d \in Drafts : draft[d].revision <= 1
OneCheck == \A j \in Jobs : Len(attempts[j]) <= 1
OneJob == \A j \in Jobs \ {1} : job[j] = NoJob

JobFocus ==
    /\ \/ OneRevision /\ OneCheck
       \/ OneDraft /\ OneCheck
       \/ OneJob /\ OneRevision
    /\ OneDraft \/ crashes = 0
    /\ OneRevision \/ (operator = Nothing /\ confirmed = Nothing)

\* Likewise for several windows, several requests, and time with troubles.
OneWindow == Cardinality({w \in Windows : window[w].at # "shut"}) <= 1
FewTroubles == tick <= 2 /\ troubles <= 1 /\ receipts = {}
OneCommand == Cardinality(Rows) <= 1

ClassroomFocus ==
    \/ /\ OneCommand /\ OneWindow
       /\ \/ troubles = 0
          \/ troubles = 1 /\ tick <= 2
          \/ troubles = 2 /\ tick <= 1 /\ receipts = {}
    \/ OneCommand /\ FewTroubles
    \/ OneWindow /\ FewTroubles /\ (tick <= 1 \/ troubles = 0)

\* Two sandboxes with mishaps; or one that a service process left behind, one of
\* the next process and one of a check.
Made == {x \in Boxes : maker[x].life > 0}
LeftBehind ==
    /\ runtime = "container" /\ mishaps <= 1 /\ stranded = {} /\ ended = {}
    /\ {maker[x].life : x \in Made} = 1 .. MaxLives + 1
    /\ \A x \in Made : maker[x].life = 1 => x \in lost

SandboxFocus == Cardinality(Made) <= 2 \/ LeftBehind

Init ==
    /\ JobInit /\ ClassroomInit /\ SandboxInit
    /\ part \in {"jobs", "classroom", "sandboxes"}
    /\ part # "sandboxes" => runtime = "container"

Next ==
    \/ part = "jobs" /\ JobNext /\ UNCHANGED <<classroomVars, sandboxVars, part>>
    \/ part = "classroom" /\ ClassroomNext /\ UNCHANGED <<jobVars, sandboxVars, part>>
    \/ part = "sandboxes" /\ SandboxNext /\ UNCHANGED <<jobVars, classroomVars, part>>

Spec == Init /\ [][Next]_deskParts

Focus ==
    CASE part = "jobs" -> JobFocus
      [] part = "classroom" -> ClassroomFocus
      [] part = "sandboxes" -> SandboxFocus

Alike == Permutations(Drafts) \cup Permutations(Windows) \cup Permutations(Assessors)
=============================================================================
