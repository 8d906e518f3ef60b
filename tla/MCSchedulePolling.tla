------------------------- MODULE MCSchedulePolling -------------------------
\* A schedule on a small clock: one repository and many events, or two
\* repositories and one event (Focus).
EXTENDS SchedulePolling, TLC

CONSTANTS r1, r2
Slots == 0..MaxTime
Workers == Runners \X Threads
MCSymmetry == Permutations(Commits) \cup Permutations(Runners) \cup Permutations(Threads)

Resting ==
    /\ roster = {r1} /\ pushes = 0 /\ config = 1 /\ remote[r1] = remote[r2]
    /\ \A n \in JobNames : grade[n] = NoGrade
Active == {p \in Runners : runner[p] # Off}
Busy == {c \in Callers : hand[c] # Free}
OneThread == \A c, d \in Busy : c[1] = d[1] => c = d
OneRunner == Cardinality(Active) <= 1
Graded == {n \in JobNames : grade[n] # NoGrade}

\* An edit of the schedule is tried under one runner without other mishaps.
Undisturbed == edits > 0 => OneRunner /\ mishaps = 0 /\ now <= Interval

\* Two runners with a thread each until the first mishap, or one runner with two
\* threads, over sources that rest; or one slot while everything around its
\* collection moves.
Focus ==
    \/ Resting /\ Undisturbed /\ (OneRunner \/ (OneThread /\ now <= Interval /\ mishaps = 0))
    \/ /\ now = 0 /\ edits = 0 /\ schedule.policy = "all" /\ OneRunner /\ OneThread
       /\ Graded # {} => pushes = 0 /\ mishaps = 0 /\ starts = 1 /\ Cardinality(Graded) = 1
=============================================================================
