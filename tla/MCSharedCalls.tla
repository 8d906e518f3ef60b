--------------------------- MODULE MCSharedCalls ----------------------------
(* Calls that wait for one another: refreshes of one token for a flight, or  *)
(* fetches and snapshots for the flocks of two students' repositories in one *)
(* store.  The two share nothing.                                            *)
EXTENDS SessionRefresh, GitCache

CONSTANTS l1, l2, k1, k2, k3
VARIABLE part

OneEach == [l \in Labels |-> IF l = l1 THEN "r1" ELSE "r2"]

\* A usable commit, a larger one, and one with an LFS pointer.
Trees == [c \in Commits |->
    [files |-> 2, bytes |-> IF c = k2 THEN 2 ELSE 1, regular |-> TRUE, plain |-> c # k3]]

Sizes == [c \in Commits |-> IF c = k2 THEN 2 ELSE 1]

\* The repositories were made from one template.
FromTemplate == \A r \in Repositories : remote[r] = k1

Init ==
    /\ RefreshInit /\ CacheInit /\ FromTemplate
    /\ part \in {"sessions", "sources"}
    /\ part = "sources" => cautious
Refreshing == part = "sessions" /\ RefreshNext /\ UNCHANGED <<cacheVars, part>>
Caching == part = "sources" /\ CacheNext /\ UNCHANGED <<refreshVars, part>>
Next == Refreshing \/ Caching
Spec == Init /\ [][Next]_<<refreshVars, cacheVars, part>>
        /\ RefreshFairness /\ CacheFairness
=============================================================================
