------------------------------ MODULE MCLearning -------------------------------
\* The saved versions of a student, or the learning spaces of a course: they
\* share nothing but the archive of a version, which a request carries along.
EXTENDS LearningCheckpoints, LearningSpaces

CONSTANTS x1, x2, y1
VARIABLE part

MCContentOf == [a \in Archives |-> IF a = y1 THEN "y" ELSE "x"]

Init == CheckpointInit /\ SpaceInit /\ part \in {"versions", "spaces"}
Versions == part = "versions" /\ CheckpointNext /\ UNCHANGED <<spaceVars, part>>
Spaces == part = "spaces" /\ SpaceNext /\ UNCHANGED <<checkpointVars, part>>

\* Three requests with a crash or a failure, or two with both.
FewTroubles == asked' <= 2 \/ troubles' + crashes' <= 1
Next == (Versions \/ Spaces) /\ FewTroubles
Spec == Init /\ [][Next]_<<checkpointVars, spaceVars, part>>
FairSpec == Spec /\ SpaceFairness
=============================================================================
