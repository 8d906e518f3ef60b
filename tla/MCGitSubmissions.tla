-------------------------- MODULE MCGitSubmissions --------------------------
(* Two assignments of a student with a repository each, and one question at  *)
(* a time: what requests in flight do, how the worker ends what they left,   *)
(* or what the garbage collector removes meanwhile.                          *)
EXTENDS GitSubmissions

CONSTANTS a1, a2, r1, r2, k1, i1, q1
VARIABLE part

MCRepoOf == [a \in Assignments |-> IF a = a1 THEN r1 ELSE r2]
MCPolicy == [a \in Assignments |-> IF a = a1 THEN "after_deadline" ELSE "immediate"]

NothingOld == \A l \in Labels :
    \A x \in {archive'[l], ref'[l], workspace'[l]} \ {None} : ~x.old
OneRequest == \A q \in Requests \ {q1} : request'[q] = Waiting
Resting == pushes' = 0 /\ session' /\ day' = 0
OneCommit == \A q \in Requests : request'[q].commit \in {k1, None}
\* What a2 publishes at once ends; what a1 keeps for its deadline does not.
SecondFirst == requests' = 1 => \A q \in Requests : request'[q].asg \in {a2, None}
OneKey == \A q \in Requests : request'[q].key \in {i1, None}

MCInit ==
    /\ Init
    /\ part \in {"requests", "worker", "artifacts"}
    /\ \A r \in Repos : remote[r] = k1

MCNext ==
    /\ Next
    /\ part' = part
    /\ part = "requests" =>
         /\ NothingOld /\ passes' = 0 /\ mishaps' <= 1
         /\ owner' # "manual"
         /\ worker.at = "idle" => worker'.at \in {"idle", "off"}
         /\ day' # day => \E q \in Requests : request[q].at = "stamp"
    /\ part = "worker" => NothingOld /\ passes' = 0 /\ OneRequest /\ Resting /\ OneCommit
    /\ part = "artifacts" =>
         /\ OneRequest /\ Resting /\ OneCommit /\ OneKey /\ mishaps' <= 1
         /\ open' = Assignments /\ owner' # "manual"
         /\ SecondFirst

MCSpec == MCInit /\ [][MCNext]_<<vars, part>>
    /\ WF_<<vars, part>>(part = "worker" /\ WorkerStep /\ part' = part)
    /\ WF_<<vars, part>>(StartService /\ part' = part)

\* Nothing that was accepted waits for ever: a full queue, a crash, a refused
\* transaction or a lost notification only delay it (the periodic recovery of
\* SubmissionWorker._run and the one before the first request).
EverySourceSettles == part = "worker" => \A l \in Labels : SourceSettles(l)
=============================================================================
