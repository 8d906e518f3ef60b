---------------------------- MODULE MCBundlePool ----------------------------
(* A small pool: releases with the policies that race with the worker.       *)
EXTENDS BundlePool, TLC

CONSTANTS a1, a2

MCPolicy == [a \in Assignments |-> IF a = a1 THEN "after_deadline" ELSE "immediate"]
MCOpens == [a \in Assignments |-> IF a = a1 THEN 0 ELSE 1]
MCFirstDue == [a \in Assignments |-> IF a = a1 THEN 1 ELSE NoTime]
MCSymmetry == Permutations(Submissions) \cup Permutations(Threads)
              \cup Permutations(Keys)
=============================================================================
