------------------------ MODULE GitSubmissions_proofs ------------------------
(***************************************************************************)
(* Proofs about GitSubmissions, for any repositories, assignments, keys    *)
(* and request threads, and any number of requests, crashes, pushes and    *)
(* runs of the garbage collector.  GitInv has three parts: SourcesInv      *)
(* follows a label from the request that drew it to its row and keeps the  *)
(* collector's candidates apart from both; AdmissionInv says what rows,    *)
(* keys, counters and answers say of each other; WorkInv says what the     *)
(* grading thread knows of its row.                                        *)
(*                                                                         *)
(* At the end PreservedJobs: the jobs of a scheduled collection that ran   *)
(* through keep their files.                                               *)
(***************************************************************************)
EXTENDS GitSubmissions, PreservedJobs, FiniteSetTheorems, SequenceTheorems, TLAPS

-----------------------------------------------------------------------------
(* The inductive invariant.                                                *)

SubmissionStates == {"none", "accepted", "queued", "running", "graded", "published", "failed"}

\* A request that owns a label, and one whose attempt is counted.
Labelled == {"collect", "publish", "pin", "stamp", "admit"}
Counted == {"check"} \cup Labelled

\* What the worker does with the submission it holds.
Processing == {"read", "queue", "start", "prepare", "grade", "record", "decide", "publish",
               "fail", "done"}

SubmissionRow == [state : SubmissionStates, asg : Assignments \cup {None},
                  commit : Commits \cup {None}, day : 0 .. MaxDay]
RequestRow == [at : {"free", "preflight", "notify"} \cup Counted,
               asg : Assignments \cup {None}, key : Keys \cup {None},
               commit : Commits \cup {None}, label : Labels \cup {None},
               day : 0 .. MaxDay, inTime : BOOLEAN, notify : Labels \cup {None}]
WorkerRow == [at : {"off", "recover", "listing", "idle"} \cup Processing,
              job : Labels \cup {None}, listed : SUBSET Labels, first : BOOLEAN]
GCRow == [at : {"off", "archives", "refs", "next", "unref", "reread", "unlink"},
          archives : SUBSET Labels, refs : SUBSET Labels, spaces : SUBSET Labels,
          repos : SUBSET Repos, reach : SUBSET Labels]
Told == [asg : Assignments, key : Keys, commit : Commits, sub : Labels]

RequestTypes ==
    /\ request \in [Requests -> RequestRow]
    /\ issued \in 0 .. Cardinality(Labels)
    /\ day \in 0 .. MaxDay
    /\ sub \in [Labels -> SubmissionRow]
    /\ remote \in [Repos -> Commits]

FileTypes ==
    /\ archive \in [Labels -> File \cup {None}]
    /\ ref \in [Labels -> File \cup {None}]
    /\ gc \in GCRow

\* A request knows what it is about, and owns the label it drew.
RequestsOwnLabels ==
    /\ \A q \in Requests :
         /\ request[q].at \in {"preflight"} \cup Counted =>
              request[q].asg \in Assignments /\ request[q].key \in Keys
              /\ request[q].commit \in Commits
         /\ request[q].at \in Labelled <=> request[q].label # None
         /\ request[q].at \in Labelled => request[q].label <= issued /\ request[q].label \notin Rows
         /\ request[q].at = "notify" => request[q].notify \in Labels
    /\ \A p, q \in Requests :
         request[p].label # None /\ request[p].label = request[q].label => p = q

\* No label has files or a row before it is drawn.
LabelsAreNew ==
    \A l \in Labels : l > issued => archive[l] = None /\ ref[l] = None /\ l \notin Rows

\* What a request has pinned is there, as young as it made it.
PinsAreYoung ==
    \A q \in Requests :
        LET x == request[q]
            file == Young(RepoOf[x.asg], x.commit) IN
        /\ x.at \in {"collect", "publish"} => archive[x.label] = None
        /\ x.at \in {"collect", "publish", "pin"} => ref[x.label] = None
        /\ x.at \in {"pin", "stamp", "admit"} => archive[x.label] = file
        /\ x.at \in {"stamp", "admit"} => ref[x.label] = file

\* Every row has its archive and its ref.
RowsHaveFiles ==
    \A l \in Rows :
        /\ sub[l].asg \in Assignments
        /\ Has(archive, l, RepoOf[sub[l].asg], sub[l].commit)
        /\ Has(ref, l, RepoOf[sub[l].asg], sub[l].commit)

\* A candidate of the collector is no request's, and once the collector has
\* read the database under the lock it knows the candidates that have a row.
Candidates == gc.archives \cup gc.refs
CandidatesAreIdle ==
    /\ \A l \in Candidates : l <= issued /\ \A q \in Requests : request[q].label # l
    /\ gc.at \in {"unref", "reread", "unlink"} => Rows \cap Candidates \subseteq gc.reach

SourcesInv ==
    /\ RequestTypes /\ FileTypes
    /\ RequestsOwnLabels /\ LabelsAreNew /\ PinsAreYoung /\ RowsHaveFiles /\ CandidatesAreIdle

\* A key is bound to a submission of its assignment.
KeysAreBound ==
    \A a \in Assignments, k \in Keys :
        idem[a][k] # None => idem[a][k] \in Rows /\ sub[idem[a][k]].asg = a

\* An answer names the submission its key is bound to, of the commit asked for.
AnswersAreKept ==
    \A t \in told : /\ t.sub \in Rows /\ idem[t.asg][t.key] = t.sub
                    /\ sub[t.sub].asg = t.asg /\ sub[t.sub].commit = t.commit

\* Of one commit at most one submission has not failed.
SourcesAreSingle ==
    \A l, m \in Rows : sub[l].asg = sub[m].asg /\ sub[l].commit = sub[m].commit
        => l = m \/ "failed" \in {sub[l].state, sub[m].state}

\* Every row and every request in flight has an attempt of its own.
RowsOf(d) == {l \in Rows : sub[l].day = d}
InFlight(d) == {q \in Requests : request[q].at \in Counted /\ request[q].day = d}
AttemptsAreCounted ==
    \A d \in 0 .. MaxDay :
        /\ Cardinality(RowsOf(d)) + Cardinality(InFlight(d)) <= attempts[d]
        /\ attempts[d] <= MaxDaily

AdmissionInv ==
    /\ idem \in [Assignments -> [Keys -> Labels \cup {None}]]
    /\ attempts \in [0 .. MaxDay -> Nat]
    /\ told \subseteq Told
    /\ KeysAreBound /\ AnswersAreKept /\ SourcesAreSingle /\ AttemptsAreCounted
    /\ Cardinality(Outstanding) <= MaxOutstanding

\* What the step of the worker says of its submission.
Grasp ==
    /\ At("queue") => State = "accepted"
    /\ At("start") => State = "queued"
    /\ worker.at \in {"prepare", "grade", "record", "fail"} => State = "running"
    /\ worker.at \in {"prepare", "grade"} => executions[Job] = 0
    /\ At("grade") => workspace[Job] # None
    /\ At("record") => executions[Job] = 1
    /\ worker.at \in {"decide", "publish"} => State \in {"graded", "published"}

WorkInv ==
    /\ worker \in WorkerRow
    /\ worker.at \in Processing => Job \in Labels
    /\ queue \in Seq(Labels)
    /\ executions \in [Labels -> {0, 1}]
    /\ workspace \in [Labels -> File \cup {None}]
    /\ \A l \in Labels : sub[l].state \in {"none", "accepted", "queued"} => executions[l] = 0
    /\ Grasp

GitInv == SourcesInv /\ AdmissionInv /\ WorkInv

-----------------------------------------------------------------------------
(* Labels, files and the collector.                                        *)

LEMMA LabelFacts ==
    /\ Labels \subseteq Nat \ {0} /\ IsFiniteSet(Labels) /\ Cardinality(Labels) \in Nat
    /\ None \notin Labels
    /\ \A l \in Labels : l <= Cardinality(Labels)
    /\ \A n \in Nat : n < Cardinality(Labels) => n + 1 \in Labels
<1>1. IsFiniteSet(Labels) /\ Cardinality(Labels) \in Nat
  BY ArtifactsAssumption, FS_CardinalityType
<1>2. PICK n \in Nat : n = Cardinality(Labels)
  BY <1>1
<1>3. Labels = 1 .. n /\ None \notin Labels
  BY <1>2, SubmissionAssumption
<1>4. Labels \subseteq Nat \ {0} /\ \A l \in Labels : l <= n
  <2>1. ASSUME NEW l \in Labels PROVE l \in Nat \ {0} /\ l <= n
    <3>1. l \in 1 .. n
      BY <1>3
    <3> QED
      BY <1>1, <1>2, <3>1
  <2> QED
    BY <2>1
<1>5. ASSUME NEW m \in Nat, m < n PROVE m + 1 \in Labels
  <2>1. m + 1 \in 1 .. n
    BY <1>1, <1>2, <1>5
  <2> QED
    BY <1>3, <2>1
<1> QED
  BY <1>1, <1>2, <1>3, <1>4, <1>5

LEMMA FirstDay == 0 \in 0 .. MaxDay /\ MaxDay \in Nat
<1>1. MaxDay \in Nat
  BY SubmissionAssumption
<1> QED
  BY <1>1

LEMMA RowFacts ==
    ASSUME RequestTypes
    PROVE  /\ Rows \subseteq Labels
           /\ \A l \in Labels : l \notin Rows <=> sub[l].state = "none"
  BY DEF Rows, RequestTypes

\* A young file, and one that has aged.
LEMMA FileFacts ==
    /\ \A r \in Repos, c \in Commits :
         Young(r, c) \in File /\ Young(r, c) # None /\ ~Young(r, c).old
         /\ Young(r, c).repo = r /\ Young(r, c).commit = c
    /\ \A a \in Assignments : RepoOf[a] \in Repos
<1>1. \A r \in Repos, c \in Commits : Young(r, c) \in File /\ ~Young(r, c).old
         /\ Young(r, c).repo = r /\ Young(r, c).commit = c
  BY DEF Young, File
<1>2. None \notin File /\ RepoOf \in [Assignments -> Repos]
  BY ArtifactsAssumption, SubmissionAssumption
<1> QED
  BY <1>1, <1>2

LEMMA SourcesFrame ==
    ASSUME SourcesInv, UNCHANGED <<request, issued, day, sub, remote, archive, ref, gc>>
    PROVE  SourcesInv'
  BY DEF SourcesInv, RequestTypes, FileTypes, RequestsOwnLabels, LabelsAreNew, PinsAreYoung,
         RowsHaveFiles, CandidatesAreIdle, Candidates, Rows

\* What a step of a request may do to the files: those of its own label.
OwnFiles(q) ==
    /\ archive' \in [Labels -> File \cup {None}]
    /\ ref' \in [Labels -> File \cup {None}]
    /\ \A l \in Labels : l # request[q].label => archive'[l] = archive[l] /\ ref'[l] = ref[l]

\* A request's step that leaves the rows and the collector alone keeps what is
\* said of the others; what it means for the request itself is for each step.
LEMMA RequestKeeps ==
    ASSUME SourcesInv, NEW q \in Requests, NEW row \in RequestRow,
           request' = [request EXCEPT ![q] = row],
           row.label \in {None, request[q].label},
           row.at \in {"preflight"} \cup Counted =>
             row.asg \in Assignments /\ row.key \in Keys /\ row.commit \in Commits,
           row.at \in Labelled <=> row.label # None,
           row.at = "notify" => row.notify \in Labels,
           UNCHANGED <<issued, day, sub, remote, gc>>,
           OwnFiles(q),
           row.at \in {"collect", "publish"} => archive'[row.label] = None,
           row.at \in {"collect", "publish", "pin"} => ref'[row.label] = None,
           row.at \in {"pin", "stamp", "admit"} =>
             archive'[row.label] = Young(RepoOf[row.asg], row.commit),
           row.at \in {"stamp", "admit"} =>
             ref'[row.label] = Young(RepoOf[row.asg], row.commit)
    PROVE  SourcesInv'
<1> USE DEF SourcesInv
<1>1. /\ request'[q] = row /\ \A p \in Requests : p # q => request'[p] = request[p]
      /\ request' \in [Requests -> RequestRow]
      /\ \A p \in Requests : request[p] \in RequestRow
  BY DEF RequestTypes
<1>2. Rows' = Rows
  BY DEF Rows
<1>3. RequestTypes' /\ FileTypes'
  BY <1>1 DEF RequestTypes, FileTypes, OwnFiles
<1>4. RequestsOwnLabels'
  <2>1. ASSUME NEW p \in Requests
        PROVE  /\ request'[p].at \in {"preflight"} \cup Counted =>
                    request'[p].asg \in Assignments /\ request'[p].key \in Keys
                    /\ request'[p].commit \in Commits
               /\ request'[p].at \in Labelled <=> request'[p].label # None
               /\ request'[p].at \in Labelled =>
                    request'[p].label <= issued /\ request'[p].label \notin Rows
               /\ request'[p].at = "notify" => request'[p].notify \in Labels
    BY <1>1 DEF RequestsOwnLabels
  <2>2. ASSUME NEW p \in Requests, NEW o \in Requests,
               request'[p].label # None, request'[p].label = request'[o].label
        PROVE  p = o
    BY <1>1, <2>2 DEF RequestsOwnLabels
  <2> QED
    BY <1>2, <2>1, <2>2 DEF RequestsOwnLabels
<1>5. LabelsAreNew'
  <2>1. ASSUME NEW l \in Labels, l > issued PROVE l # request[q].label
    <3>1. request[q].label # None => request[q].label <= issued
      BY DEF RequestsOwnLabels
    <3> QED
      BY <2>1, <3>1, LabelFacts DEF RequestTypes
  <2> QED
    BY <1>2, <2>1 DEF LabelsAreNew, OwnFiles
<1>6. PinsAreYoung'
  <2> SUFFICES ASSUME NEW p \in Requests
               PROVE  /\ request'[p].at \in {"collect", "publish"} => archive'[request'[p].label] = None
                      /\ request'[p].at \in {"collect", "publish", "pin"} => ref'[request'[p].label] = None
                      /\ request'[p].at \in {"pin", "stamp", "admit"} =>
                           archive'[request'[p].label] = Young(RepoOf[request'[p].asg], request'[p].commit)
                      /\ request'[p].at \in {"stamp", "admit"} =>
                           ref'[request'[p].label] = Young(RepoOf[request'[p].asg], request'[p].commit)
    BY DEF PinsAreYoung
  <2>1. CASE p = q
    BY <1>1, <2>1
  <2>2. CASE p # q
    <3>1. request'[p] = request[p]
      BY <1>1, <2>2
    <3>2. CASE request[p].at \in Labelled
      <4>1. request[p].label \in Labels /\ request[p].label # request[q].label
        BY <1>1, <2>2, <3>2 DEF RequestsOwnLabels, RequestRow
      <4>2. archive'[request[p].label] = archive[request[p].label] /\ ref'[request[p].label] = ref[request[p].label]
        BY <4>1 DEF OwnFiles
      <4> QED
        BY <3>1, <4>2 DEF PinsAreYoung
    <3>3. CASE request[p].at \notin Labelled
      BY <3>1, <3>3 DEF Labelled
    <3> QED
      BY <3>2, <3>3
  <2> QED
    BY <2>1, <2>2
<1>7. RowsHaveFiles'
  <2>1. ASSUME NEW l \in Rows PROVE archive'[l] = archive[l] /\ ref'[l] = ref[l]
    <3>1. l \in Labels /\ l # request[q].label
      BY RowFacts, LabelFacts DEF RequestsOwnLabels
    <3> QED
      BY <3>1 DEF OwnFiles
  <2> QED
    BY <1>2, <2>1 DEF RowsHaveFiles, Has
<1>8. CandidatesAreIdle'
  <2>1. Candidates' = Candidates /\ Candidates \subseteq Labels
    BY DEF Candidates, FileTypes, GCRow
  <2>2. ASSUME NEW l \in Candidates, NEW p \in Requests PROVE request'[p].label # l
    BY <1>1, <2>1, <2>2, LabelFacts DEF CandidatesAreIdle
  <2> QED
    BY <1>2, <2>1, <2>2 DEF CandidatesAreIdle
<1> QED
  BY <1>3, <1>4, <1>5, <1>6, <1>7, <1>8

\* A request that ends or is refused forgets its label.
LEMMA RequestLeaves ==
    ASSUME SourcesInv, NEW q \in Requests, NEW row,
           \/ row = Waiting
           \/ \E l \in Labels : row = [Waiting EXCEPT !.at = "notify", !.notify = l],
           request' = [request EXCEPT ![q] = row],
           UNCHANGED <<issued, day, sub, remote, gc>>,
           OwnFiles(q)
    PROVE  SourcesInv'
<1>1. 0 \in 0 .. MaxDay
  BY FirstDay
<1>2. /\ row \in RequestRow /\ row.label = None /\ row.at \in {"free", "notify"}
      /\ row.at = "notify" => row.notify \in Labels
  <2>1. CASE row = Waiting
    BY <1>1, <2>1 DEF Waiting, RequestRow
  <2>2. ASSUME NEW l \in Labels, row = [Waiting EXCEPT !.at = "notify", !.notify = l]
        PROVE  row \in RequestRow /\ row.label = None /\ row.at = "notify" /\ row.notify \in Labels
    <3>1. row = [at |-> "notify", asg |-> None, key |-> None, commit |-> None, label |-> None,
                 day |-> 0, inTime |-> FALSE, notify |-> l]
      BY <2>2 DEF Waiting
    <3> QED
      BY <1>1, <3>1 DEF RequestRow
  <2> QED
    BY <2>1, <2>2
<1> QED
  BY <1>2, RequestKeeps DEF Labelled, Counted

LEMMA SameFiles ==
    ASSUME SourcesInv, NEW q, UNCHANGED <<archive, ref>>
    PROVE  OwnFiles(q)
  BY DEF SourcesInv, FileTypes, OwnFiles

\* submit takes the lock; nothing is known of the request yet.
LEMMA SubmitSources ==
    ASSUME SourcesInv, NEW q \in Requests, NEW a \in Assignments, NEW k \in Keys,
           NEW c \in Commits, Submit(q, a, k, c)
    PROVE  SourcesInv'
<1>0. PICK row : row = [Waiting EXCEPT !.at = "preflight", !.asg = a, !.key = k, !.commit = c]
  OBVIOUS
<1>1. request' = [request EXCEPT ![q] = row]
  BY <1>0 DEF Submit
<1>2. row = [at |-> "preflight", asg |-> a, key |-> k, commit |-> c, label |-> None,
             day |-> 0, inTime |-> FALSE, notify |-> None]
  BY <1>0 DEF Waiting
<1>3. /\ row \in RequestRow /\ row.at = "preflight" /\ row.label = None
      /\ row.asg = a /\ row.key = k /\ row.commit = c
  <2>1. 0 \in 0 .. MaxDay
    BY FirstDay
  <2> QED
    BY <1>2, <2>1 DEF RequestRow, Counted
<1>4. OwnFiles(q) /\ UNCHANGED <<issued, day, sub, remote, gc>>
  BY SameFiles DEF Submit, storeVars, artifactVars, courseVars, tableVars
<1> QED
  BY <1>1, <1>3, <1>4, RequestKeeps DEF Labelled, Counted

\* The attempt is counted, or the request is answered or refused.
LEMMA PreflightSources ==
    ASSUME SourcesInv, NEW q \in Requests, Preflight(q)
    PROVE  SourcesInv'
<1> PICK x : x = request[q]
  OBVIOUS
<1>1. OwnFiles(q) /\ UNCHANGED <<issued, day, remote, gc>>
  BY SameFiles DEF Preflight, storeVars, artifactVars, courseVars
<1>2. x \in RequestRow /\ x.at = "preflight" /\ x.label = None
      /\ x.asg \in Assignments /\ x.key \in Keys /\ x.commit \in Commits
  BY DEF SourcesInv, RequestTypes, RequestsOwnLabels, Preflight, Ready, Counted, Labelled
<1>3. \/ request' = [request EXCEPT ![q] = Waiting]
      \/ request' = [request EXCEPT ![q] = [x EXCEPT !.at = "check", !.day = day]]
  BY DEF Preflight, Refused, Answered
<1>4. UNCHANGED sub
  BY DEF Preflight, tableVars
<1>5. CASE request' = [request EXCEPT ![q] = Waiting]
  BY <1>1, <1>4, <1>5, RequestLeaves
<1>6. CASE request' = [request EXCEPT ![q] = [x EXCEPT !.at = "check", !.day = day]]
  <2> PICK row : row = [x EXCEPT !.at = "check", !.day = day]
    OBVIOUS
  <2>1. row \in RequestRow /\ row.at = "check" /\ row.label = None
        /\ row.asg \in Assignments /\ row.key \in Keys /\ row.commit \in Commits
    BY <1>2 DEF RequestRow, SourcesInv, RequestTypes, Counted
  <2> QED
    BY <1>1, <1>4, <1>6, <2>1, RequestKeeps DEF Labelled, Counted
<1> QED
  BY <1>3, <1>5, <1>6

\* The label a request draws is newer than every file, row and candidate.
LEMMA CheckSources ==
    ASSUME SourcesInv, NEW q \in Requests, Check(q)
    PROVE  SourcesInv'
<1> USE DEF SourcesInv
<1> PICK x : x = request[q]
  OBVIOUS
<1>1. UNCHANGED <<day, sub, remote, archive, ref, gc>>
  BY DEF Check, storeVars, artifactVars, gcVars, courseVars, tableVars
<1>2. x \in RequestRow /\ x.at = "check" /\ x.label = None
      /\ x.asg \in Assignments /\ x.key \in Keys /\ x.commit \in Commits
  BY DEF RequestTypes, RequestsOwnLabels, Check, Ready, Counted, Labelled
<1>3. CASE x.asg \notin open
  <2>1. request' = [request EXCEPT ![q] = Waiting] /\ UNCHANGED issued
    BY <1>3 DEF Check, Refused
  <2> QED
    BY <1>1, <2>1, SameFiles, RequestLeaves
<1>4. CASE x.asg \in open
  <2> PICK new : new = issued + 1
    OBVIOUS
  <2> PICK row : row = [x EXCEPT !.at = "collect", !.label = new]
    OBVIOUS
  <2>1. request' = [request EXCEPT ![q] = row] /\ issued' = new /\ issued \in Nat
        /\ issued < Cardinality(Labels)
    <3>1. issued < Cardinality(Labels) /\ issued' = issued + 1
          /\ request' = [request EXCEPT ![q].at = "collect", ![q].label = issued + 1]
      BY <1>4 DEF Check
    <3>2. issued \in Nat
      BY LabelFacts DEF RequestTypes
    <3>3. request' = [request EXCEPT ![q] = row]
      BY <3>1
    <3> QED
      BY <3>1, <3>2, <3>3
  <2>2. new \in Labels /\ new > issued /\ new \in 0 .. Cardinality(Labels)
    BY <2>1, LabelFacts
  <2>3. row \in RequestRow /\ row.at = "collect" /\ row.label = new /\ new # None
        /\ row.asg = x.asg /\ row.key = x.key /\ row.commit = x.commit
    BY <1>2, <2>2, LabelFacts DEF RequestRow, Counted, Labelled
  <2>4. /\ request'[q] = row /\ \A p \in Requests : p # q => request'[p] = request[p]
        /\ request' \in [Requests -> RequestRow]
        /\ \A p \in Requests : request[p] \in RequestRow
    BY <2>1, <2>3 DEF RequestTypes
  <2>5. Rows' = Rows /\ Rows \subseteq Labels
    BY <1>1, RowFacts DEF Rows
  <2>6. RequestTypes' /\ FileTypes'
    BY <1>1, <2>1, <2>2, <2>4 DEF RequestTypes, FileTypes
  <2>7. archive[new] = None /\ ref[new] = None /\ new \notin Rows
    BY <2>2 DEF LabelsAreNew
  <2>8. \A p \in Requests : p # q /\ request[p].label # None
          => request[p].label <= issued /\ request[p].label \in Labels /\ request[p].label # new
    BY <2>1, <2>2, <2>4, LabelFacts DEF RequestsOwnLabels, RequestRow
  <2>9. RequestsOwnLabels'
    <3>1. ASSUME NEW p \in Requests
          PROVE  /\ request'[p].at \in {"preflight"} \cup Counted =>
                      request'[p].asg \in Assignments /\ request'[p].key \in Keys
                      /\ request'[p].commit \in Commits
                 /\ request'[p].at \in Labelled <=> request'[p].label # None
                 /\ request'[p].at = "notify" => request'[p].notify \in Labels
      <4>1. CASE p = q
        BY <1>2, <2>3, <2>4, <4>1 DEF Labelled
      <4>2. CASE p # q
        BY <2>4, <4>2 DEF RequestsOwnLabels
      <4> QED
        BY <4>1, <4>2
    <3>2. ASSUME NEW p \in Requests, request'[p].at \in Labelled
          PROVE  request'[p].label <= new /\ request'[p].label \notin Rows
      <4>1. CASE p = q
        <5>1. request'[p].label = new /\ new <= new
          BY <2>1, <2>3, <2>4, <4>1
        <5> QED
          BY <2>7, <5>1
      <4>2. CASE p # q
        <5>1. request[p].label \in Labels /\ request[p].label <= issued /\ request[p].label \notin Rows
          BY <2>4, <2>8, <3>2, <4>2 DEF RequestsOwnLabels
        <5> QED
          BY <2>1, <2>2, <2>4, <4>2, <5>1, LabelFacts
      <4> QED
        BY <4>1, <4>2
    <3>3. ASSUME NEW p \in Requests, NEW o \in Requests,
                 request'[p].label # None, request'[p].label = request'[o].label
          PROVE  p = o
      <4>1. CASE p # q /\ o # q
        BY <2>4, <3>3, <4>1 DEF RequestsOwnLabels
      <4>2. CASE p = q \/ o = q
        <5>1. request'[q].label = new
          BY <2>3, <2>4
        <5>2. \A o1 \in Requests : o1 # q => request'[o1].label # new
          BY <2>3, <2>4, <2>8
        <5> QED
          BY <3>3, <4>2, <5>1, <5>2
      <4> QED
        BY <4>1, <4>2
    <3> QED
      BY <2>1, <2>5, <3>1, <3>2, <3>3 DEF RequestsOwnLabels
  <2>10. LabelsAreNew'
    BY <1>1, <2>1, <2>2, <2>5, LabelFacts DEF LabelsAreNew
  <2>11. PinsAreYoung'
    <3>1. ASSUME NEW p \in Requests
          PROVE  /\ request'[p].at \in {"collect", "publish"} => archive[request'[p].label] = None
                 /\ request'[p].at \in {"collect", "publish", "pin"} => ref[request'[p].label] = None
                 /\ request'[p].at \in {"pin", "stamp", "admit"} =>
                      archive[request'[p].label] = Young(RepoOf[request'[p].asg], request'[p].commit)
                 /\ request'[p].at \in {"stamp", "admit"} =>
                      ref[request'[p].label] = Young(RepoOf[request'[p].asg], request'[p].commit)
      <4>1. CASE p = q
        BY <2>3, <2>4, <2>7, <4>1
      <4>2. CASE p # q
        BY <2>4, <4>2 DEF PinsAreYoung
      <4> QED
        BY <4>1, <4>2
    <3> QED
      BY <1>1, <3>1 DEF PinsAreYoung
  <2>12. RowsHaveFiles'
    BY <1>1, <2>5 DEF RowsHaveFiles, Has
  <2>13. CandidatesAreIdle'
    <3>1. Candidates' = Candidates /\ Candidates \subseteq Labels
      BY <1>1 DEF Candidates, FileTypes, GCRow
    <3>2. ASSUME NEW l \in Candidates
          PROVE  l <= new /\ \A p \in Requests : request'[p].label # l
      BY <2>1, <2>2, <2>3, <2>4, <3>1, LabelFacts DEF CandidatesAreIdle
    <3> QED
      BY <1>1, <2>1, <2>5, <3>1, <3>2 DEF CandidatesAreIdle
  <2> QED
    BY <2>6, <2>9, <2>10, <2>11, <2>12, <2>13
<1> QED
  BY <1>3, <1>4

\* The steps of a request under the flock of its repository.
LEMMA PinSources ==
    ASSUME SourcesInv, NEW q \in Requests,
           Collect(q) \/ PublishSource(q) \/ PinSource(q) \/ Stamp(q)
    PROVE  SourcesInv'
<1> USE DEF SourcesInv
<1> PICK x : x = request[q]
  OBVIOUS
<1>1. /\ x \in RequestRow /\ x.at \in {"collect", "publish", "pin", "stamp"}
      /\ x.label \in Labels /\ x.label # None
      /\ x.asg \in Assignments /\ x.key \in Keys /\ x.commit \in Commits
  <2>1. x \in RequestRow /\ x.at \in {"collect", "publish", "pin", "stamp"}
    BY DEF RequestTypes, Collect, PublishSource, PinSource, Stamp, Ready
  <2> QED
    BY <2>1 DEF RequestsOwnLabels, RequestRow, Labelled, Counted
<1>2. PICK file \in File : file = Young(RepoOf[x.asg], x.commit) /\ file # None
  BY <1>1, FileFacts
<1>3. UNCHANGED <<issued, day, sub, gc, remote>>
  BY DEF Collect, PublishSource, PinSource, Stamp, Publish, PinRef, storeVars, gcVars,
         courseVars, tableVars
<1>4. /\ archive \in [Labels -> File \cup {None}] /\ ref \in [Labels -> File \cup {None}]
      /\ x.at \in {"collect", "publish"} => archive[x.label] = None
      /\ x.at \in {"collect", "publish", "pin"} => ref[x.label] = None
      /\ x.at \in {"pin", "stamp", "admit"} => archive[x.label] = file
      /\ x.at \in {"stamp", "admit"} => ref[x.label] = file
  BY <1>2 DEF FileTypes, PinsAreYoung
<1>5. CASE Collect(q) /\ request' = [request EXCEPT ![q] = Waiting]
  BY <1>3, <1>5, SameFiles, RequestLeaves DEF Collect, artifactVars
<1>6. CASE Collect(q) /\ request' # [request EXCEPT ![q] = Waiting]
  <2> PICK row : row = [x EXCEPT !.at = "publish"]
    OBVIOUS
  <2>1. request' = [request EXCEPT ![q] = row] /\ UNCHANGED <<archive, ref>> /\ x.at = "collect"
    BY <1>6 DEF Collect, Refused, Step, Ready, artifactVars
  <2>2. /\ row \in RequestRow /\ row.at = "publish" /\ row.label = x.label
        /\ row.asg = x.asg /\ row.key = x.key /\ row.commit = x.commit
    BY <1>1 DEF RequestRow, Counted, Labelled
  <2> QED
    BY <1>1, <1>3, <1>4, <2>1, <2>2, SameFiles, RequestKeeps DEF Labelled, Counted
<1>7. CASE PublishSource(q)
  <2> PICK row : row = [x EXCEPT !.at = "pin"]
    OBVIOUS
  <2>1. /\ request' = [request EXCEPT ![q] = row] /\ x.at = "publish"
        /\ archive' = [archive EXCEPT ![x.label] = file] /\ ref' = ref
    BY <1>1, <1>2, <1>4, <1>7 DEF PublishSource, Publish, Step, Ready, RepoOfRequest
  <2>2. /\ row \in RequestRow /\ row.at = "pin" /\ row.label = x.label
        /\ row.asg = x.asg /\ row.key = x.key /\ row.commit = x.commit
    BY <1>1 DEF RequestRow, Counted, Labelled
  <2>3. OwnFiles(q) /\ archive'[x.label] = file /\ ref'[x.label] = None
    BY <1>1, <1>4, <2>1 DEF OwnFiles
  <2> QED
    BY <1>1, <1>2, <1>3, <2>1, <2>2, <2>3, RequestKeeps DEF Labelled, Counted
<1>8. CASE PinSource(q)
  <2> PICK row : row = [x EXCEPT !.at = "stamp"]
    OBVIOUS
  <2>1. /\ request' = [request EXCEPT ![q] = row] /\ x.at = "pin"
        /\ ref' = [ref EXCEPT ![x.label] = file] /\ archive' = archive
    BY <1>1, <1>2, <1>4, <1>8 DEF PinSource, PinRef, Step, Ready, RepoOfRequest
  <2>2. /\ row \in RequestRow /\ row.at = "stamp" /\ row.label = x.label
        /\ row.asg = x.asg /\ row.key = x.key /\ row.commit = x.commit
    BY <1>1 DEF RequestRow, Counted, Labelled
  <2>3. OwnFiles(q) /\ archive'[x.label] = file /\ ref'[x.label] = file
    BY <1>1, <1>4, <2>1 DEF OwnFiles
  <2> QED
    BY <1>1, <1>2, <1>3, <2>1, <2>2, <2>3, RequestKeeps DEF Labelled, Counted
<1>9. CASE Stamp(q)
  <2>0. \E inTime \in BOOLEAN : inTime = (x.asg \in open)
    <3>1. CASE x.asg \in open
      <4>1. TRUE = (x.asg \in open) /\ TRUE \in BOOLEAN
        BY <3>1
      <4> QED
        BY <4>1
    <3>2. CASE x.asg \notin open
      <4>1. FALSE = (x.asg \in open) /\ FALSE \in BOOLEAN
        BY <3>2
      <4> QED
        BY <4>1
    <3> QED
      BY <3>1, <3>2
  <2> PICK inTime \in BOOLEAN : inTime = (x.asg \in open)
    BY <2>0
  <2> PICK row : row = [x EXCEPT !.at = "admit", !.inTime = inTime]
    OBVIOUS
  <2>1. request' = [request EXCEPT ![q] = row] /\ UNCHANGED <<archive, ref>> /\ x.at = "stamp"
    BY <1>9 DEF Stamp, Ready, storeVars
  <2>2. /\ row \in RequestRow /\ row.at = "admit" /\ row.label = x.label
        /\ row.asg = x.asg /\ row.key = x.key /\ row.commit = x.commit
    BY <1>1 DEF RequestRow, Counted, Labelled
  <2> QED
    BY <1>1, <1>2, <1>3, <1>4, <2>1, <2>2, SameFiles, RequestKeeps DEF Labelled, Counted
<1> QED
  BY <1>5, <1>6, <1>7, <1>8, <1>9

\* A request that fails, or is told of: it forgets its label.
LEMMA EndSources ==
    ASSUME SourcesInv, NEW q \in Requests,
           CollectFails(q) \/ RequestFails(q) \/ NotifyRequest(q)
    PROVE  SourcesInv'
<1>1. request' = [request EXCEPT ![q] = Waiting] /\ UNCHANGED <<issued, day, sub, remote, gc>>
  BY DEF CollectFails, RequestFails, NotifyRequest, Refused, storeVars, gcVars, courseVars, tableVars
<1>2. OwnFiles(q)
  <2>1. CASE UNCHANGED <<archive, ref>>
    BY <2>1, SameFiles
  <2>2. CASE archive' = [archive EXCEPT ![request[q].label] = None] /\ ref' = ref
    BY <2>2 DEF SourcesInv, FileTypes, OwnFiles
  <2> QED
    BY <2>1, <2>2 DEF CollectFails, RequestFails, NotifyRequest, storeVars, artifactVars
<1> QED
  BY <1>1, <1>2, RequestLeaves

\* A new row takes over the label of its request, and its files.
LEMMA AdmitSources ==
    ASSUME SourcesInv, NEW q \in Requests, Admit(q)
    PROVE  SourcesInv'
<1> USE DEF SourcesInv
<1> PICK x : x = request[q]
  OBVIOUS
<1>1. /\ x \in RequestRow /\ x.at = "admit" /\ x.label \in Labels /\ x.label # None
      /\ x.label \notin Rows /\ x.label <= issued /\ x.day \in 0 .. MaxDay
      /\ x.asg \in Assignments /\ x.key \in Keys /\ x.commit \in Commits
  <2>1. x \in RequestRow /\ x.at = "admit"
    BY DEF RequestTypes, Admit, Ready
  <2> QED
    BY <2>1 DEF RequestsOwnLabels, RequestRow, Labelled, Counted
<1>2. UNCHANGED <<issued, day, remote, archive, ref, gc>>
  BY DEF Admit, storeVars, artifactVars, gcVars, courseVars
<1>3. \/ request' = [request EXCEPT ![q] = Waiting] /\ sub' = sub
      \/ /\ request' = [request EXCEPT ![q] = [Waiting EXCEPT !.at = "notify", !.notify = x.label]]
         /\ sub' = [sub EXCEPT ![x.label] = [state |-> "accepted", asg |-> x.asg,
                                             commit |-> x.commit, day |-> x.day]]
  BY DEF Admit, Refused, Answered, tableVars
<1>4. CASE request' = [request EXCEPT ![q] = Waiting] /\ sub' = sub
  BY <1>2, <1>4, SameFiles, RequestLeaves
<1>5. ASSUME request' = [request EXCEPT ![q] = [Waiting EXCEPT !.at = "notify", !.notify = x.label]],
             sub' = [sub EXCEPT ![x.label] = [state |-> "accepted", asg |-> x.asg,
                                              commit |-> x.commit, day |-> x.day]]
      PROVE  SourcesInv'
  <2> PICK row : row = [state |-> "accepted", asg |-> x.asg, commit |-> x.commit, day |-> x.day]
    OBVIOUS
  <2>1. row \in SubmissionRow /\ row.state = "accepted" /\ row.asg = x.asg /\ row.commit = x.commit
    BY <1>1 DEF SubmissionRow, SubmissionStates
  <2>2. /\ sub' \in [Labels -> SubmissionRow] /\ sub'[x.label] = row
        /\ \A l \in Labels : l # x.label => sub'[l] = sub[l]
    BY <1>1, <1>5, <2>1 DEF RequestTypes
  <2>3. Rows' = Rows \cup {x.label}
    BY <1>1, <2>1, <2>2 DEF Rows
  <2>4. PICK told1 : told1 = [Waiting EXCEPT !.at = "notify", !.notify = x.label]
    OBVIOUS
  <2>5. told1 = [at |-> "notify", asg |-> None, key |-> None, commit |-> None, label |-> None,
                 day |-> 0, inTime |-> FALSE, notify |-> x.label]
    BY <2>4 DEF Waiting
  <2>6. told1 \in RequestRow /\ told1.at = "notify" /\ told1.label = None /\ told1.notify = x.label
    <3>1. 0 \in 0 .. MaxDay
      BY FirstDay
    <3> QED
      BY <1>1, <2>5, <3>1 DEF RequestRow
  <2>7. /\ request'[q] = told1 /\ \A p \in Requests : p # q => request'[p] = request[p]
        /\ request' \in [Requests -> RequestRow]
        /\ \A p \in Requests : request[p] \in RequestRow
    BY <1>5, <2>4, <2>6 DEF RequestTypes
  <2>8. RequestTypes' /\ FileTypes'
    BY <1>2, <2>2, <2>7 DEF RequestTypes, FileTypes
  <2>9. \A p \in Requests : p # q /\ request[p].label # None => request[p].label # x.label
    BY <1>1 DEF RequestsOwnLabels
  <2>10. RequestsOwnLabels'
    <3>1. ASSUME NEW p \in Requests
          PROVE  /\ request'[p].at \in {"preflight"} \cup Counted =>
                      request'[p].asg \in Assignments /\ request'[p].key \in Keys
                      /\ request'[p].commit \in Commits
                 /\ request'[p].at \in Labelled <=> request'[p].label # None
                 /\ request'[p].at \in Labelled =>
                      request'[p].label <= issued /\ request'[p].label \notin Rows'
                 /\ request'[p].at = "notify" => request'[p].notify \in Labels
      <4>1. CASE p = q
        BY <1>1, <2>6, <2>7, <4>1 DEF Labelled, Counted
      <4>2. CASE p # q
        BY <2>3, <2>7, <2>9, <4>2 DEF RequestsOwnLabels
      <4> QED
        BY <4>1, <4>2
    <3>2. ASSUME NEW p \in Requests, NEW o \in Requests,
                 request'[p].label # None, request'[p].label = request'[o].label
          PROVE  p = o
      BY <2>6, <2>7, <3>2 DEF RequestsOwnLabels
    <3> QED
      BY <1>2, <3>1, <3>2 DEF RequestsOwnLabels
  <2>11. LabelsAreNew'
    <3>1. ~(x.label > issued)
      <4>1. issued \in Nat
        BY LabelFacts DEF RequestTypes
      <4>2. x.label \in Nat
        BY <1>1, LabelFacts
      <4> QED
        BY <1>1, <4>1, <4>2
    <3> QED
      BY <1>2, <2>3, <3>1 DEF LabelsAreNew
  <2>12. PinsAreYoung'
    <3>1. ASSUME NEW p \in Requests
          PROVE  /\ request'[p].at \in {"collect", "publish"} => archive[request'[p].label] = None
                 /\ request'[p].at \in {"collect", "publish", "pin"} => ref[request'[p].label] = None
                 /\ request'[p].at \in {"pin", "stamp", "admit"} =>
                      archive[request'[p].label] = Young(RepoOf[request'[p].asg], request'[p].commit)
                 /\ request'[p].at \in {"stamp", "admit"} =>
                      ref[request'[p].label] = Young(RepoOf[request'[p].asg], request'[p].commit)
      <4>1. CASE p = q
        BY <2>6, <2>7, <4>1
      <4>2. CASE p # q
        BY <2>7, <4>2 DEF PinsAreYoung
      <4> QED
        BY <4>1, <4>2
    <3> QED
      BY <1>2, <3>1 DEF PinsAreYoung
  <2>13. RowsHaveFiles'
    <3>1. ASSUME NEW l \in Rows
          PROVE  /\ sub'[l].asg \in Assignments
                 /\ Has(archive, l, RepoOf[sub'[l].asg], sub'[l].commit)
                 /\ Has(ref, l, RepoOf[sub'[l].asg], sub'[l].commit)
      BY <1>1, <2>2, RowFacts DEF RowsHaveFiles
    <3>2. archive[x.label] = Young(RepoOf[x.asg], x.commit) /\ ref[x.label] = Young(RepoOf[x.asg], x.commit)
      BY <1>1 DEF PinsAreYoung
    <3>3. Has(archive, x.label, RepoOf[x.asg], x.commit) /\ Has(ref, x.label, RepoOf[x.asg], x.commit)
      BY <1>1, <3>2, FileFacts DEF Has
    <3> QED
      BY <1>1, <1>2, <2>1, <2>2, <2>3, <3>1, <3>3 DEF RowsHaveFiles, Has
  <2>14. CandidatesAreIdle'
    <3>1. Candidates' = Candidates /\ Candidates \subseteq Labels /\ x.label \notin Candidates
      BY <1>2 DEF Candidates, FileTypes, GCRow, CandidatesAreIdle
    <3>2. ASSUME NEW l \in Candidates, NEW p \in Requests PROVE request'[p].label # l
      BY <2>6, <2>7, <3>1, LabelFacts DEF CandidatesAreIdle
    <3> QED
      BY <1>2, <2>3, <3>1, <3>2 DEF CandidatesAreIdle
  <2> QED
    BY <2>8, <2>10, <2>11, <2>12, <2>13, <2>14
<1> QED
  BY <1>3, <1>4, <1>5

\* A row that changes its state stays the row it was.
LEMMA MoveSources ==
    ASSUME SourcesInv, NEW l \in Rows, NEW to \in SubmissionStates \ {"none"}, Moved(l, to),
           UNCHANGED <<request, issued, day, remote, archive, ref, gc>>
    PROVE  SourcesInv'
<1> USE DEF SourcesInv
<1>1. /\ sub' \in [Labels -> SubmissionRow] /\ l \in Labels
      /\ \A m \in Labels : /\ sub'[m].asg = sub[m].asg /\ sub'[m].commit = sub[m].commit
                           /\ sub'[m].day = sub[m].day
                           /\ sub'[m].state = IF m = l THEN to ELSE sub[m].state
  BY RowFacts DEF Moved, RequestTypes, SubmissionRow
<1>2. Rows' = Rows
  BY <1>1 DEF Rows
<1> QED
  BY <1>1, <1>2, RowFacts DEF RequestTypes, FileTypes, RequestsOwnLabels, LabelsAreNew, PinsAreYoung,
     RowsHaveFiles, CandidatesAreIdle, Candidates

\* The process that serves is gone: its requests forget their labels.
LEMMA StopSources ==
    ASSUME SourcesInv, request' = [q \in Requests |-> Waiting],
           UNCHANGED <<issued, day, sub, remote, archive, ref, gc>>
    PROVE  SourcesInv'
<1> USE DEF SourcesInv
<1>1. Waiting \in RequestRow /\ Waiting.at = "free" /\ Waiting.label = None
  <2>1. 0 \in 0 .. MaxDay
    BY FirstDay
  <2> QED
    BY <2>1 DEF Waiting, RequestRow
<1>2. /\ request' \in [Requests -> RequestRow] /\ Rows' = Rows
      /\ \A q \in Requests : request'[q].at = "free" /\ request'[q].label = None
  BY <1>1 DEF Rows
<1>3. Candidates' = Candidates /\ None \notin Candidates
  BY LabelFacts DEF Candidates, FileTypes, GCRow
<1>4. RequestTypes' /\ FileTypes'
  BY <1>2 DEF RequestTypes, FileTypes
<1>5. RequestsOwnLabels' /\ PinsAreYoung'
  BY <1>2 DEF RequestsOwnLabels, PinsAreYoung, Labelled, Counted
<1>6. LabelsAreNew' /\ RowsHaveFiles'
  BY <1>2 DEF LabelsAreNew, RowsHaveFiles, Has
<1>7. CandidatesAreIdle'
  BY <1>2, <1>3 DEF CandidatesAreIdle
<1> QED
  BY <1>4, <1>5, <1>6, <1>7

\* Files age, but not those of a request in flight.
LEMMA GraceSources ==
    ASSUME SourcesInv, NEW l \in Labels, Grace(l)
    PROVE  SourcesInv'
<1> USE DEF SourcesInv
<1>1. /\ UNCHANGED <<request, issued, day, sub, remote, gc>>
      /\ archive' = Aged(archive, l) /\ ref' = Aged(ref, l)
      /\ \A q \in Requests : request[q].label # l
  BY DEF Grace, Age, gcVars, courseVars, tableVars, deskVars, InHand
<1>2. ASSUME NEW kept \in [Labels -> File \cup {None}]
      PROVE  /\ Aged(kept, l) \in [Labels -> File \cup {None}]
             /\ \A m \in Labels : m # l => Aged(kept, l)[m] = kept[m]
             /\ \A m \in Labels, r \in Repos, c \in Commits :
                  Has(kept, m, r, c) => Has(Aged(kept, l), m, r, c)
             /\ \A m \in Labels : kept[m] = None => Aged(kept, l)[m] = None
  <2>1. CASE kept[l] = None
    BY <2>1 DEF Aged
  <2>2. CASE kept[l] # None
    <3> PICK file : file = [kept[l] EXCEPT !.old = TRUE]
      OBVIOUS
    <3>1. file \in File /\ file.repo = kept[l].repo /\ file.commit = kept[l].commit /\ kept[l] \in File
      BY <2>2 DEF File
    <3>2. Aged(kept, l) = [kept EXCEPT ![l] = file] /\ file # None
      BY <2>2, <3>1, ArtifactsAssumption DEF Aged
    <3> QED
      BY <2>2, <3>1, <3>2 DEF Has
  <2> QED
    BY <2>1, <2>2
<1>3. /\ archive \in [Labels -> File \cup {None}] /\ ref \in [Labels -> File \cup {None}]
      /\ \A m \in Labels : m # l => archive'[m] = archive[m] /\ ref'[m] = ref[m]
      /\ \A m \in Labels : /\ archive[m] = None => archive'[m] = None
                           /\ ref[m] = None => ref'[m] = None
  BY <1>1, <1>2 DEF FileTypes
<1>4. Rows' = Rows /\ Rows \subseteq Labels
  BY <1>1, RowFacts DEF Rows
<1>5. RequestTypes' /\ FileTypes'
  BY <1>1, <1>2, <1>3 DEF RequestTypes, FileTypes
<1>6. RequestsOwnLabels' /\ LabelsAreNew' /\ CandidatesAreIdle'
  BY <1>1, <1>3, <1>4 DEF RequestsOwnLabels, LabelsAreNew, CandidatesAreIdle, Candidates
<1>7. PinsAreYoung'
  <2>1. ASSUME NEW q \in Requests, request[q].at \in Labelled
        PROVE  archive'[request[q].label] = archive[request[q].label]
               /\ ref'[request[q].label] = ref[request[q].label]
    <3>1. request[q].label \in Labels
      BY <2>1 DEF RequestsOwnLabels, RequestTypes, RequestRow
    <3> QED
      BY <1>1, <1>3, <3>1
  <2> QED
    BY <1>1, <2>1 DEF PinsAreYoung, Labelled
<1>8. RowsHaveFiles'
  <2>1. ASSUME NEW m \in Rows
        PROVE  /\ sub[m].asg \in Assignments
               /\ Has(archive', m, RepoOf[sub[m].asg], sub[m].commit)
               /\ Has(ref', m, RepoOf[sub[m].asg], sub[m].commit)
    <3>1. m \in Labels /\ sub[m].asg \in Assignments /\ RepoOf[sub[m].asg] \in Repos
      BY <1>4, FileFacts DEF RowsHaveFiles
    <3>2. Has(archive, m, RepoOf[sub[m].asg], sub[m].commit) /\ Has(ref, m, RepoOf[sub[m].asg], sub[m].commit)
      BY DEF RowsHaveFiles
    <3>3. sub[m].commit \in Commits
      BY <1>3, <3>1, <3>2 DEF Has, File
    <3> QED
      BY <1>1, <1>2, <1>3, <3>1, <3>2, <3>3
  <2> QED
    BY <1>1, <1>4, <2>1 DEF RowsHaveFiles, Has
<1> QED
  BY <1>5, <1>6, <1>7, <1>8

\* What the collector finds old is no request's, and what it deletes it has
\* not found in the database.
LEMMA CollectorSources ==
    ASSUME SourcesInv, GCNext(Rows, Terminal),
           UNCHANGED <<request, issued, day, sub>>
    PROVE  SourcesInv'
<1> USE DEF SourcesInv
<1>1. /\ gc \in GCRow /\ archive \in [Labels -> File \cup {None}] /\ ref \in [Labels -> File \cup {None}]
      /\ Rows \subseteq Labels /\ Terminal \subseteq Labels /\ Rows' = Rows
  BY RowFacts DEF FileTypes, Terminal, Rows
<1>2. UNCHANGED remote
  BY DEF GCNext, StartGC, ScanArchives, ScanRefs, LockForGC, DeleteRefs, RereadForGC,
         DeleteArchives, DeleteWorkspaces, StopGC, GCStep
<1>3. ASSUME UNCHANGED <<archive, ref>>, gc' \in GCRow,
             \A l \in Candidates' : l <= issued /\ \A q \in Requests : request[q].label # l,
             gc'.at \in {"unref", "reread", "unlink"} => Rows \cap Candidates' \subseteq gc'.reach
      PROVE  SourcesInv'
  <2>1. RequestTypes' /\ FileTypes' /\ RequestsOwnLabels' /\ LabelsAreNew' /\ PinsAreYoung' /\ RowsHaveFiles'
    BY <1>1, <1>2, <1>3 DEF RequestTypes, FileTypes, RequestsOwnLabels, LabelsAreNew, PinsAreYoung,
       RowsHaveFiles, Has
  <2>2. CandidatesAreIdle'
    BY <1>1, <1>3 DEF CandidatesAreIdle
  <2> QED
    BY <2>1, <2>2
<1>4. CASE StartGC(Rows, Terminal)
  <2>1. gc' = [at |-> "archives", archives |-> {}, refs |-> {}, spaces |-> Terminal, repos |-> {}, reach |-> Rows]
        /\ UNCHANGED <<archive, ref>>
    BY <1>4 DEF StartGC, NoGC, artifactVars
  <2>2. gc' \in GCRow /\ Candidates' = {} /\ gc'.at = "archives"
    BY <1>1, <2>1 DEF GCRow, Candidates
  <2> QED
    BY <1>3, <2>1, <2>2
<1>5. ASSUME NEW l \in Labels, Old(archive[l]) \/ Old(ref[l])
      PROVE  l <= issued /\ \A q \in Requests : request[q].label # l
  <2>1. ~(l > issued)
    BY <1>5 DEF LabelsAreNew, Old
  <2>2. l <= issued
    <3>1. l \in Nat /\ issued \in Nat
      BY LabelFacts DEF RequestTypes
    <3> QED
      BY <2>1, <3>1
  <2>3. ASSUME NEW q \in Requests, request[q].label = l PROVE FALSE
    <3>1. request[q].at \in Labelled /\ request[q].asg \in Assignments /\ request[q].commit \in Commits
      BY <2>3, LabelFacts DEF RequestsOwnLabels, Counted
    <3>2. Young(RepoOf[request[q].asg], request[q].commit) \in File
          /\ ~Young(RepoOf[request[q].asg], request[q].commit).old
      BY <3>1, FileFacts
    <3>3. archive[l] = None \/ archive[l] = Young(RepoOf[request[q].asg], request[q].commit)
      BY <2>3, <3>1 DEF PinsAreYoung, Labelled
    <3>4. ref[l] = None \/ ref[l] = Young(RepoOf[request[q].asg], request[q].commit)
      BY <2>3, <3>1 DEF PinsAreYoung, Labelled
    <3> QED
      BY <1>5, <3>2, <3>3, <3>4 DEF Old
  <2> QED
    BY <2>2, <2>3
<1>6. CASE ScanArchives
  <2> PICK found \in SUBSET Labels : found = {l \in Labels \ gc.reach : Old(archive[l])}
    OBVIOUS
  <2>1. gc' = [gc EXCEPT !.at = "refs", !.archives = found] /\ UNCHANGED <<archive, ref>>
    BY <1>6 DEF ScanArchives, GCStep, artifactVars
  <2>2. gc' \in GCRow /\ Candidates' = found \cup gc.refs /\ gc'.at = "refs"
    BY <1>1, <2>1 DEF GCRow, Candidates
  <2> QED
    BY <1>3, <1>5, <2>1, <2>2 DEF CandidatesAreIdle, Candidates
<1>7. CASE ScanRefs
  <2> PICK found \in SUBSET Labels : found = {l \in Labels \ gc.reach : Old(ref[l])}
    OBVIOUS
  <2> PICK repos : repos = {ref[l].repo : l \in found}
                           \cup {archive[l].repo : l \in {m \in gc.archives : archive[m] # None}}
    OBVIOUS
  <2> PICK spaces \in SUBSET Labels : spaces = {l \in gc.spaces : Old(workspace[l])}
    BY <1>1 DEF GCRow
  <2>1. gc' = [gc EXCEPT !.at = "next", !.refs = found, !.spaces = spaces, !.repos = repos]
        /\ UNCHANGED <<archive, ref>>
    BY <1>7 DEF ScanRefs, GCStep, artifactVars
  <2>2. repos \subseteq Repos
    <3>1. \A l \in found : ref[l] \in File
      BY <1>1 DEF Old
    <3>2. \A l \in {m \in gc.archives : archive[m] # None} : archive[l] \in File
      BY <1>1 DEF GCRow
    <3> QED
      BY <3>1, <3>2 DEF File
  <2>3. gc' \in GCRow /\ Candidates' = gc.archives \cup found /\ gc'.at = "next"
    BY <1>1, <2>1, <2>2 DEF GCRow, Candidates
  <2> QED
    BY <1>3, <1>5, <2>1, <2>3 DEF CandidatesAreIdle, Candidates
<1>8. CASE RereadForGC(Rows) \/ \E r \in Repos : LockForGC(r, Rows)
  <2> PICK at \in {"unref", "unlink"} : gc' = [gc EXCEPT !.at = at, !.reach = Rows]
    BY <1>8 DEF RereadForGC, LockForGC, GCStep
  <2>1. UNCHANGED <<archive, ref>>
    BY <1>8 DEF RereadForGC, LockForGC, artifactVars
  <2>2. gc' \in GCRow /\ Candidates' = Candidates /\ gc'.reach = Rows
    BY <1>1 DEF GCRow, Candidates
  <2> QED
    BY <1>3, <2>1, <2>2 DEF CandidatesAreIdle
<1>9. ASSUME NEW gone \in SUBSET (Candidates \ gc.reach), gc.at \in {"unref", "unlink"},
             NEW at \in {"reread", "next"}, NEW repos \in SUBSET Repos,
             gc' = [gc EXCEPT !.at = at, !.repos = repos],
             \/ archive' = archive /\ ref' = [l \in Labels |-> IF l \in gone THEN None ELSE ref[l]]
             \/ ref' = ref /\ archive' = [l \in Labels |-> IF l \in gone THEN None ELSE archive[l]]
      PROVE  SourcesInv'
  <2>1. gc' \in GCRow /\ Candidates' = Candidates /\ gc'.reach = gc.reach /\ Candidates \subseteq Labels
    BY <1>1, <1>9 DEF GCRow, Candidates
  <2>2. \A l \in Labels : /\ archive'[l] \in {archive[l], None} /\ ref'[l] \in {ref[l], None}
                          /\ l \notin gone => archive'[l] = archive[l] /\ ref'[l] = ref[l]
    BY <1>9
  <2>3. gone \cap Rows = {}
    BY <1>9 DEF CandidatesAreIdle
  <2>4. RequestTypes' /\ FileTypes'
    BY <1>1, <1>2, <1>9, <2>1 DEF RequestTypes, FileTypes
  <2>5. RequestsOwnLabels' /\ LabelsAreNew'
    BY <1>1, <2>2 DEF RequestsOwnLabels, LabelsAreNew
  <2>6. PinsAreYoung'
    <3>1. ASSUME NEW q \in Requests, request[q].at \in Labelled
          PROVE  archive'[request[q].label] = archive[request[q].label]
                 /\ ref'[request[q].label] = ref[request[q].label]
      <4>1. request[q].label \in Labels
        BY <3>1 DEF RequestsOwnLabels, RequestTypes, RequestRow
      <4>2. request[q].label \notin gone
        BY <1>9 DEF CandidatesAreIdle
      <4> QED
        BY <2>2, <4>1, <4>2
    <3> QED
      BY <3>1 DEF PinsAreYoung, Labelled
  <2>7. RowsHaveFiles'
    BY <1>1, <2>2, <2>3 DEF RowsHaveFiles, Has
  <2>8. CandidatesAreIdle'
    BY <1>1, <1>9, <2>1 DEF CandidatesAreIdle
  <2> QED
    BY <2>4, <2>5, <2>6, <2>7, <2>8
<1>10. ASSUME NEW gone \in SUBSET Labels, DeleteRefs(gone)
       PROVE  SourcesInv'
  <2>1. /\ gone \in SUBSET (Candidates \ gc.reach) /\ gc.at = "unref" /\ archive' = archive
        /\ ref' = [l \in Labels |-> IF l \in gone THEN None ELSE ref[l]]
        /\ gc' = [gc EXCEPT !.at = "reread"]
    BY <1>10 DEF DeleteRefs, GCAt, GCStep, Candidates
  <2>2. gc' = [gc EXCEPT !.at = "reread", !.repos = gc.repos] /\ gc.repos \in SUBSET Repos
    BY <1>1, <2>1 DEF GCRow
  <2> QED
    BY <1>9, <2>1, <2>2
<1>11. ASSUME NEW gone \in SUBSET Labels, DeleteArchives(gone)
       PROVE  SourcesInv'
  <2> PICK repos : repos = gc.repos \ {r \in Repos : repoLock[r] = "gc"}
    OBVIOUS
  <2>1. /\ gone \in SUBSET (Candidates \ gc.reach) /\ gc.at = "unlink" /\ ref' = ref
        /\ archive' = [l \in Labels |-> IF l \in gone THEN None ELSE archive[l]]
        /\ gc' = [gc EXCEPT !.at = "next", !.repos = repos]
    BY <1>11 DEF DeleteArchives, GCAt, GCStep, Candidates, Deletable
  <2>2. repos \in SUBSET Repos
    BY <1>1 DEF GCRow
  <2> QED
    BY <1>9, <2>1, <2>2
<1>12. CASE DeleteWorkspaces(Terminal) \/ StopGC
  <2>1. gc' = NoGC /\ UNCHANGED <<archive, ref>>
    BY <1>12 DEF DeleteWorkspaces, StopGC, GCStep, artifactVars
  <2>2. gc' \in GCRow /\ Candidates' = {} /\ gc'.at = "off"
    BY <2>1 DEF GCRow, Candidates, NoGC
  <2> QED
    BY <1>3, <2>1, <2>2
<1> QED
  BY <1>4, <1>6, <1>7, <1>8, <1>10, <1>11, <1>12 DEF GCNext

\* Every step of a request, the collector or the others keeps the sources;
\* what the worker and the operator do to a row comes with WorkInv.
LEMMA RequestSources ==
    ASSUME SourcesInv, NEW q \in Requests, RequestStep(q)
    PROVE  SourcesInv'
<1> QED
  BY PreflightSources, CheckSources, PinSources, EndSources, AdmitSources DEF RequestStep

-----------------------------------------------------------------------------
(* Rows, keys, answers and attempts.                                       *)

LEMMA FlightFacts ==
    ASSUME NEW d PROVE IsFiniteSet(InFlight(d)) /\ Cardinality(InFlight(d)) \in Nat
  BY SubmissionAssumption, FS_Subset, FS_CardinalityType DEF InFlight

LEMMA RowCounts ==
    ASSUME RequestTypes
    PROVE  /\ \A d : IsFiniteSet(RowsOf(d)) /\ Cardinality(RowsOf(d)) \in Nat
           /\ IsFiniteSet(Outstanding) /\ Cardinality(Outstanding) \in Nat
<1>1. ASSUME NEW S \in SUBSET Labels PROVE IsFiniteSet(S) /\ Cardinality(S) \in Nat
  BY LabelFacts, FS_Subset, FS_CardinalityType
<1>2. Outstanding \in SUBSET Labels /\ \A d : RowsOf(d) \in SUBSET Labels
  BY DEF Outstanding, RowsOf, Rows
<1> QED
  BY <1>1, <1>2

LEMMA AdmissionFrame ==
    ASSUME AdmissionInv, UNCHANGED <<sub, idem, attempts, told, request>>
    PROVE  AdmissionInv'
<1>1. Rows' = Rows /\ Outstanding' = Outstanding
  BY DEF Rows, Outstanding
<1>2. \A d : RowsOf(d)' = RowsOf(d) /\ InFlight(d)' = InFlight(d)
  BY <1>1 DEF RowsOf, InFlight
<1> QED
  BY <1>1, <1>2 DEF AdmissionInv, KeysAreBound, AnswersAreKept, SourcesAreSingle, AttemptsAreCounted

\* Requests that move on or end, without an answer.
LEMMA FlightsEnd ==
    ASSUME AdmissionInv, RequestTypes, UNCHANGED <<sub, idem, attempts, told>>,
           \A p \in Requests : request'[p].at \in Counted =>
             request[p].at \in Counted /\ request'[p].day = request[p].day
    PROVE  AdmissionInv'
<1>1. Rows' = Rows /\ Outstanding' = Outstanding /\ \A d : RowsOf(d)' = RowsOf(d)
  BY DEF Rows, Outstanding, RowsOf
<1>2. ASSUME NEW d \in 0 .. MaxDay
      PROVE  Cardinality(RowsOf(d)) + Cardinality(InFlight(d)') <= attempts[d]
  <2>1. InFlight(d)' \subseteq InFlight(d)
    BY DEF InFlight
  <2>2. Cardinality(InFlight(d)') <= Cardinality(InFlight(d)) /\ Cardinality(InFlight(d)') \in Nat
    BY <2>1, FlightFacts, FS_Subset, FS_CardinalityType
  <2>3. Cardinality(InFlight(d)) \in Nat /\ Cardinality(RowsOf(d)) \in Nat /\ attempts[d] \in Nat
        /\ Cardinality(RowsOf(d)) + Cardinality(InFlight(d)) <= attempts[d]
    BY FlightFacts, RowCounts DEF AdmissionInv, AttemptsAreCounted
  <2> QED
    BY <2>2, <2>3
<1>3. AttemptsAreCounted'
  BY <1>1, <1>2 DEF AdmissionInv, AttemptsAreCounted
<1> QED
  BY <1>1, <1>3 DEF AdmissionInv, KeysAreBound, AnswersAreKept, SourcesAreSingle

\* A request answered with an earlier submission of the same body.
LEMMA AnswerKept ==
    ASSUME AdmissionInv, RequestTypes, NEW a \in Assignments, NEW k \in Keys, NEW c \in Commits,
           NEW l \in Rows, sub[l].asg = a, sub[l].commit = c, idem[a][k] \in {None, l},
           idem' = Bound(a, k, l),
           told' = told \cup {[asg |-> a, key |-> k, commit |-> c, sub |-> l]},
           UNCHANGED <<sub, attempts>>,
           \A p \in Requests : request'[p].at \in Counted =>
             request[p].at \in Counted /\ request'[p].day = request[p].day
    PROVE  AdmissionInv'
<1>1. l \in Labels
  BY RowFacts
<1>2. /\ idem' \in [Assignments -> [Keys -> Labels \cup {None}]]
      /\ \A b \in Assignments, j \in Keys :
           idem'[b][j] = IF b = a /\ j = k THEN l ELSE idem[b][j]
  BY <1>1 DEF Bound, AdmissionInv
<1>3. Rows' = Rows /\ Outstanding' = Outstanding /\ \A d : RowsOf(d)' = RowsOf(d)
  BY DEF Rows, Outstanding, RowsOf
<1>4. told' \subseteq Told
  BY <1>1 DEF AdmissionInv, Told
<1>5. KeysAreBound'
  BY <1>2, <1>3 DEF AdmissionInv, KeysAreBound
<1>6. AnswersAreKept'
  <2>1. ASSUME NEW t \in told
        PROVE  /\ t.sub \in Rows /\ idem'[t.asg][t.key] = t.sub
               /\ sub[t.sub].asg = t.asg /\ sub[t.sub].commit = t.commit
    <3>1. t.asg \in Assignments /\ t.key \in Keys /\ t.sub \in Labels
      BY DEF AdmissionInv, Told
    <3>2. idem[t.asg][t.key] = t.sub /\ t.sub # None
      BY <3>1, LabelFacts DEF AdmissionInv, AnswersAreKept
    <3>3. idem'[t.asg][t.key] = t.sub
      BY <1>2, <3>1, <3>2
    <3> QED
      BY <3>3 DEF AdmissionInv, AnswersAreKept
  <2> PICK new : new = [asg |-> a, key |-> k, commit |-> c, sub |-> l]
    OBVIOUS
  <2>2. new.sub \in Rows /\ idem'[new.asg][new.key] = new.sub
        /\ sub[new.sub].asg = new.asg /\ sub[new.sub].commit = new.commit
    BY <1>2
  <2>3. \A t \in told' : t \in told \/ t = new
    OBVIOUS
  <2> QED
    BY <1>3, <2>1, <2>2, <2>3 DEF AnswersAreKept
<1>7. SourcesAreSingle' /\ Cardinality(Outstanding)' <= MaxOutstanding
  BY <1>3 DEF AdmissionInv, SourcesAreSingle
<1>8. AttemptsAreCounted'
  <2> SUFFICES ASSUME NEW d \in 0 .. MaxDay
               PROVE  Cardinality(RowsOf(d)) + Cardinality(InFlight(d)') <= attempts[d]
    BY <1>3 DEF AdmissionInv, AttemptsAreCounted
  <2>1. InFlight(d)' \subseteq InFlight(d)
    BY DEF InFlight
  <2>2. Cardinality(InFlight(d)') <= Cardinality(InFlight(d)) /\ Cardinality(InFlight(d)') \in Nat
    BY <2>1, FlightFacts, FS_Subset, FS_CardinalityType
  <2>3. Cardinality(InFlight(d)) \in Nat /\ Cardinality(RowsOf(d)) \in Nat /\ attempts[d] \in Nat
        /\ Cardinality(RowsOf(d)) + Cardinality(InFlight(d)) <= attempts[d]
    BY FlightFacts, RowCounts DEF AdmissionInv, AttemptsAreCounted
  <2> QED
    BY <2>2, <2>3
<1> QED
  BY <1>2, <1>4, <1>5, <1>6, <1>7, <1>8 DEF AdmissionInv

LEMMA MinOfOne == ASSUME NEW n \in Nat PROVE Min({n}) = n
  BY DEF Min

\* What a key or a commit is answered with, if anything.
LEMMA ReplayFacts ==
    ASSUME AdmissionInv, RequestTypes, NEW a \in Assignments, NEW k \in Keys, NEW c \in Commits
    PROVE  /\ idem[a][k] # None => /\ Replay(a, k, c) = idem[a][k] /\ idem[a][k] \in Rows
                                   /\ sub[idem[a][k]].asg = a
           /\ idem[a][k] = None /\ Replay(a, k, c) # None => Replay(a, k, c) \in Semantic(a, c)
           /\ Replay(a, k, c) = None => idem[a][k] = None /\ Semantic(a, c) = {}
<1>1. CASE idem[a][k] # None
  BY <1>1 DEF Replay, AdmissionInv, KeysAreBound
<1>2. CASE idem[a][k] = None /\ Semantic(a, c) = {}
  BY <1>2 DEF Replay
<1>3. CASE idem[a][k] = None /\ Semantic(a, c) # {}
  <2>1. PICK l : l \in Semantic(a, c)
    BY <1>3
  <2>2. \A m \in Semantic(a, c) : m = l
    BY <2>1 DEF Semantic, AdmissionInv, SourcesAreSingle
  <2>3. Semantic(a, c) = {l} /\ l \in Nat /\ l # None
    BY <2>1, <2>2, RowFacts, LabelFacts DEF Semantic
  <2>4. Replay(a, k, c) = l
    BY <1>3, <2>3, MinOfOne DEF Replay
  <2> QED
    BY <1>3, <2>1, <2>3, <2>4
<1> QED
  BY <1>1, <1>2, <1>3

\* One more attempt of the day, for the request that goes on.
LEMMA AttemptCounted ==
    ASSUME AdmissionInv, RequestTypes, NEW q \in Requests, request[q].at = "preflight",
           attempts[day] < MaxDaily, attempts' = [attempts EXCEPT ![day] = @ + 1],
           request'[q].at = "check", request'[q].day = day,
           \A p \in Requests : p # q => request'[p] = request[p],
           UNCHANGED <<sub, idem, told>>
    PROVE  AdmissionInv'
<1>1. Rows' = Rows /\ Outstanding' = Outstanding /\ \A d : RowsOf(d)' = RowsOf(d)
  BY DEF Rows, Outstanding, RowsOf
<1>2. day \in 0 .. MaxDay /\ MaxDaily \in Nat
  BY SubmissionAssumption DEF RequestTypes
<1>3. /\ attempts' \in [0 .. MaxDay -> Nat]
      /\ \A d \in 0 .. MaxDay : attempts'[d] = IF d = day THEN attempts[d] + 1 ELSE attempts[d]
  BY <1>2 DEF AdmissionInv
<1>4. ASSUME NEW d \in 0 .. MaxDay
      PROVE  /\ Cardinality(RowsOf(d)) + Cardinality(InFlight(d)') <= attempts'[d]
             /\ attempts'[d] <= MaxDaily
  <2>1. /\ Cardinality(RowsOf(d)) + Cardinality(InFlight(d)) <= attempts[d] /\ attempts[d] <= MaxDaily
        /\ Cardinality(RowsOf(d)) \in Nat /\ Cardinality(InFlight(d)) \in Nat /\ attempts[d] \in Nat
    BY RowCounts, FlightFacts DEF AdmissionInv, AttemptsAreCounted
  <2>2. CASE d = day
    <3>1. InFlight(d)' = InFlight(d) \cup {q} /\ q \notin InFlight(d)
      BY <2>2 DEF InFlight, Counted, Labelled
    <3>2. Cardinality(InFlight(d)') = Cardinality(InFlight(d)) + 1
      BY <3>1, FlightFacts, FS_AddElement
    <3>3. attempts'[d] = attempts[d] + 1 /\ attempts[d] < MaxDaily
      BY <1>3, <2>2
    <3> QED
      BY <1>2, <2>1, <3>2, <3>3
  <2>3. CASE d # day
    <3>1. InFlight(d)' = InFlight(d)
      BY <2>3 DEF InFlight, Counted, Labelled
    <3>2. attempts'[d] = attempts[d]
      BY <1>3, <2>3
    <3> QED
      BY <2>1, <3>1, <3>2
  <2> QED
    BY <2>2, <2>3
<1>5. AttemptsAreCounted'
  BY <1>1, <1>4 DEF AttemptsAreCounted
<1> QED
  BY <1>1, <1>3, <1>5 DEF AdmissionInv, KeysAreBound, AnswersAreKept, SourcesAreSingle

LEMMA PreflightAdmission ==
    ASSUME AdmissionInv, SourcesInv, NEW q \in Requests, Preflight(q)
    PROVE  AdmissionInv'
<1> PICK x : x = request[q]
  OBVIOUS
<1> PICK reply : reply = Replay(x.asg, x.key, x.commit)
  OBVIOUS
<1>1. RequestTypes /\ request \in [Requests -> RequestRow] /\ day \in 0 .. MaxDay
  BY DEF SourcesInv, RequestTypes
<1>2. x.at = "preflight" /\ x.asg \in Assignments /\ x.key \in Keys /\ x.commit \in Commits
  BY DEF Preflight, Ready, SourcesInv, RequestsOwnLabels
<1>3. CASE Refused(q) /\ UNCHANGED tableVars
  <2>1. \A p \in Requests : request'[p].at \in Counted =>
             request[p].at \in Counted /\ request'[p].day = request[p].day
    BY <1>1, <1>3 DEF Refused, Waiting, Counted, Labelled
  <2> QED
    BY <1>1, <1>3, <2>1, FlightsEnd DEF Refused, tableVars
<1>4. CASE /\ ~Conflict(x.asg, x.key, x.commit) /\ reply # None /\ Answered(q, reply, FALSE)
           /\ idem' = Bound(x.asg, x.key, reply) /\ UNCHANGED <<sub, attempts>>
  <2>1. \A p \in Requests : request'[p].at \in Counted =>
             request[p].at \in Counted /\ request'[p].day = request[p].day
    BY <1>1, <1>4 DEF Answered, Waiting, Counted, Labelled
  <2>2. reply \in Rows /\ sub[reply].asg = x.asg /\ sub[reply].commit = x.commit
        /\ idem[x.asg][x.key] \in {None, reply}
    BY <1>1, <1>2, <1>4, ReplayFacts DEF Conflict, Semantic
  <2>3. told' = told \cup {[asg |-> x.asg, key |-> x.key, commit |-> x.commit, sub |-> reply]}
    BY <1>4 DEF Answered
  <2> QED
    BY <1>1, <1>2, <1>4, <2>1, <2>2, <2>3, AnswerKept
<1>5. CASE /\ attempts[day] < MaxDaily /\ attempts' = [attempts EXCEPT ![day] = @ + 1]
           /\ request' = [request EXCEPT ![q].at = "check", ![q].day = day]
           /\ UNCHANGED <<sub, idem, told>>
  <2>1. x \in RequestRow
    BY <1>1
  <2>2. PICK row : row = [x EXCEPT !.at = "check", !.day = day]
    OBVIOUS
  <2>3. row.at = "check" /\ row.day = day
    BY <2>1, <2>2 DEF RequestRow
  <2>4. request' = [request EXCEPT ![q] = row]
    BY <1>5, <2>2
  <2>5. request'[q] = row /\ \A p \in Requests : p # q => request'[p] = request[p]
    BY <1>1, <2>4
  <2> QED
    BY <1>1, <1>2, <1>5, <2>3, <2>5, AttemptCounted
<1>6. ~(attempts[day] >= MaxDaily) => attempts[day] < MaxDaily
  <2>1. attempts[day] \in Nat /\ MaxDaily \in Nat
    BY <1>1, SubmissionAssumption DEF AdmissionInv
  <2> QED
    BY <2>1
<1> QED
  BY <1>3, <1>4, <1>5, <1>6 DEF Preflight

\* The transaction that admits: a row, its key and its answer at once.
LEMMA RowAdmitted ==
    ASSUME AdmissionInv, SourcesInv, NEW q \in Requests, NEW x, x = request[q],
           x.at = "admit", NEW l, l = x.label, HasRoom,
           idem[x.asg][x.key] = None, Semantic(x.asg, x.commit) = {},
           sub' = [sub EXCEPT ![l] = [state |-> "accepted", asg |-> x.asg,
                                      commit |-> x.commit, day |-> x.day]],
           idem' = Bound(x.asg, x.key, l),
           told' = told \cup {[asg |-> x.asg, key |-> x.key, commit |-> x.commit, sub |-> l]},
           request' = [request EXCEPT ![q] = [Waiting EXCEPT !.at = "notify", !.notify = l]],
           UNCHANGED attempts
    PROVE  AdmissionInv'
<1>1. /\ x \in RequestRow /\ x.asg \in Assignments /\ x.key \in Keys /\ x.commit \in Commits
      /\ x.day \in 0 .. MaxDay /\ l \in Labels /\ l \notin Rows /\ RequestTypes
  <2>1. x \in RequestRow /\ RequestTypes
    BY DEF SourcesInv, RequestTypes
  <2> QED
    BY <2>1 DEF SourcesInv, RequestsOwnLabels, RequestRow, Labelled, Counted
<1>2. PICK row : row = [state |-> "accepted", asg |-> x.asg, commit |-> x.commit, day |-> x.day]
  OBVIOUS
<1>3. row.state = "accepted" /\ row.asg = x.asg /\ row.commit = x.commit /\ row.day = x.day
  BY <1>2
<1>4. /\ DOMAIN sub = Labels /\ sub' = [sub EXCEPT ![l] = row]
  BY <1>1, <1>2 DEF RequestTypes
<1>5. DOMAIN sub' = Labels /\ sub'[l] = row /\ \A m \in Labels : m # l => sub'[m] = sub[m]
  BY <1>1, <1>4
<1>6. Rows' = Rows \cup {l} /\ Rows \subseteq Labels
  BY <1>1, <1>3, <1>5 DEF Rows
<1>7. Outstanding' = Outstanding \cup {l} /\ l \notin Outstanding
  BY <1>1, <1>3, <1>5, <1>6 DEF Outstanding, Active
<1>8. /\ idem' \in [Assignments -> [Keys -> Labels \cup {None}]]
      /\ \A b \in Assignments, j \in Keys :
           idem'[b][j] = IF b = x.asg /\ j = x.key THEN l ELSE idem[b][j]
  BY <1>1 DEF Bound, AdmissionInv
<1>9. told' \subseteq Told
  BY <1>1 DEF AdmissionInv, Told
<1>10. KeysAreBound'
  BY <1>1, <1>3, <1>5, <1>6, <1>8 DEF AdmissionInv, KeysAreBound
<1>11. AnswersAreKept'
  <2>1. ASSUME NEW t \in told
        PROVE  /\ t.sub \in Rows /\ idem'[t.asg][t.key] = t.sub
               /\ sub'[t.sub].asg = t.asg /\ sub'[t.sub].commit = t.commit
    <3>1. t.asg \in Assignments /\ t.key \in Keys /\ t.sub \in Labels
      BY DEF AdmissionInv, Told
    <3>2. idem[t.asg][t.key] = t.sub /\ t.sub # None /\ t.sub \in Rows
          /\ sub[t.sub].asg = t.asg /\ sub[t.sub].commit = t.commit
      BY <3>1, LabelFacts DEF AdmissionInv, AnswersAreKept
    <3> QED
      BY <1>1, <1>5, <1>8, <3>1, <3>2
  <2> PICK new : new = [asg |-> x.asg, key |-> x.key, commit |-> x.commit, sub |-> l]
    OBVIOUS
  <2>2. idem'[new.asg][new.key] = new.sub /\ sub'[new.sub].asg = new.asg /\ new.sub = l
        /\ sub'[new.sub].commit = new.commit
    BY <1>1, <1>3, <1>5, <1>8
  <2>3. \A t \in told' : t \in told \/ t = new
    OBVIOUS
  <2> QED
    BY <1>6, <2>1, <2>2, <2>3 DEF AnswersAreKept
<1>12. SourcesAreSingle'
  <2>1. ASSUME NEW m \in Rows, sub[m].asg = x.asg, sub[m].commit = x.commit
        PROVE  sub[m].state = "failed"
    BY <2>1 DEF Semantic
  <2>2. \A m \in Rows : sub'[m] = sub[m]
    BY <1>1, <1>5, <1>6
  <2> QED
    BY <1>3, <1>5, <1>6, <2>1, <2>2 DEF AdmissionInv, SourcesAreSingle
<1>13. Cardinality(Outstanding') <= MaxOutstanding
  <2>1. Cardinality(Outstanding') = Cardinality(Outstanding) + 1
    BY <1>1, <1>7, RowCounts, FS_AddElement
  <2>2. Cardinality(Outstanding) < MaxOutstanding /\ Cardinality(Outstanding) \in Nat /\ MaxOutstanding \in Nat
    BY <1>1, RowCounts, SubmissionAssumption DEF HasRoom
  <2> QED
    BY <2>1, <2>2
<1>14. /\ request'[q].at = "notify" /\ \A p \in Requests : p # q => request'[p] = request[p]
  <2> PICK end : end = [Waiting EXCEPT !.at = "notify", !.notify = l]
    OBVIOUS
  <2>1. end.at = "notify"
    BY DEF Waiting
  <2> QED
    BY <1>1, <2>1 DEF RequestTypes
<1>15. ASSUME NEW d \in 0 .. MaxDay
       PROVE  Cardinality(RowsOf(d)') + Cardinality(InFlight(d)') <= attempts[d]
  <2>1. /\ Cardinality(RowsOf(d)) + Cardinality(InFlight(d)) <= attempts[d]
        /\ Cardinality(RowsOf(d)) \in Nat /\ Cardinality(InFlight(d)) \in Nat /\ attempts[d] \in Nat
    BY <1>1, RowCounts, FlightFacts DEF AdmissionInv, AttemptsAreCounted
  <2>2. CASE d = x.day
    <3>1. RowsOf(d)' = RowsOf(d) \cup {l} /\ l \notin RowsOf(d)
      BY <1>1, <1>3, <1>5, <1>6, <2>2 DEF RowsOf
    <3>2. InFlight(d)' = InFlight(d) \ {q} /\ q \in InFlight(d)
      BY <1>14, <2>2 DEF InFlight, Counted, Labelled
    <3>3. Cardinality(RowsOf(d)') = Cardinality(RowsOf(d)) + 1
      BY <1>1, <3>1, RowCounts, FS_AddElement
    <3>4. Cardinality(InFlight(d)') = Cardinality(InFlight(d)) - 1
      BY <3>2, FlightFacts, FS_RemoveElement
    <3> QED
      BY <2>1, <3>3, <3>4
  <2>3. CASE d # x.day
    <3>1. RowsOf(d)' = RowsOf(d)
      BY <1>1, <1>3, <1>5, <1>6, <2>3 DEF RowsOf
    <3>2. InFlight(d)' = InFlight(d)
      BY <1>14, <2>3 DEF InFlight, Counted, Labelled
    <3> QED
      BY <2>1, <3>1, <3>2
  <2> QED
    BY <2>2, <2>3
<1>16. AttemptsAreCounted'
  BY <1>15 DEF AdmissionInv, AttemptsAreCounted
<1> QED
  BY <1>8, <1>9, <1>10, <1>11, <1>12, <1>13, <1>16 DEF AdmissionInv

LEMMA AdmitAdmission ==
    ASSUME AdmissionInv, SourcesInv, NEW q \in Requests, Admit(q)
    PROVE  AdmissionInv'
<1> PICK x : x = request[q]
  OBVIOUS
<1> PICK reply : reply = Replay(x.asg, x.key, x.commit)
  OBVIOUS
<1>1. RequestTypes /\ request \in [Requests -> RequestRow]
  BY DEF SourcesInv, RequestTypes
<1>2. x.at = "admit" /\ x.asg \in Assignments /\ x.key \in Keys /\ x.commit \in Commits
  BY DEF Admit, Ready, SourcesInv, RequestsOwnLabels, Counted, Labelled
<1>3. CASE Refused(q) /\ UNCHANGED tableVars
  <2>1. \A p \in Requests : request'[p].at \in Counted =>
             request[p].at \in Counted /\ request'[p].day = request[p].day
    BY <1>1, <1>3 DEF Refused, Waiting, Counted, Labelled
  <2> QED
    BY <1>1, <1>3, <2>1, FlightsEnd DEF Refused, tableVars
<1>4. CASE /\ ~Conflict(x.asg, x.key, x.commit) /\ reply # None /\ Answered(q, reply, FALSE)
           /\ idem' = Bound(x.asg, x.key, reply) /\ UNCHANGED <<sub, attempts>>
  <2>1. \A p \in Requests : request'[p].at \in Counted =>
             request[p].at \in Counted /\ request'[p].day = request[p].day
    BY <1>1, <1>4 DEF Answered, Waiting, Counted, Labelled
  <2>2. reply \in Rows /\ sub[reply].asg = x.asg /\ sub[reply].commit = x.commit
        /\ idem[x.asg][x.key] \in {None, reply}
    BY <1>1, <1>2, <1>4, ReplayFacts DEF Conflict, Semantic
  <2>3. told' = told \cup {[asg |-> x.asg, key |-> x.key, commit |-> x.commit, sub |-> reply]}
    BY <1>4 DEF Answered
  <2> QED
    BY <1>1, <1>2, <1>4, <2>1, <2>2, <2>3, AnswerKept
<1>5. CASE /\ ~Conflict(x.asg, x.key, x.commit) /\ idem[x.asg][x.key] # None
           /\ Answered(q, reply, FALSE) /\ UNCHANGED tableVars
  <2>1. reply = idem[x.asg][x.key] /\ reply # None
    BY <1>1, <1>2, <1>5, ReplayFacts
  <2>2. idem = Bound(x.asg, x.key, reply)
    BY <1>2, <2>1 DEF Bound, AdmissionInv
  <2> QED
    BY <1>4, <1>5, <2>1, <2>2 DEF tableVars
<1>6. CASE /\ reply = None /\ HasRoom /\ UNCHANGED attempts
           /\ sub' = [sub EXCEPT ![x.label] =
                [state |-> "accepted", asg |-> x.asg, commit |-> x.commit, day |-> x.day]]
           /\ idem' = Bound(x.asg, x.key, x.label)
           /\ Answered(q, x.label, TRUE)
  <2>1. idem[x.asg][x.key] = None /\ Semantic(x.asg, x.commit) = {}
    <3>1. Replay(x.asg, x.key, x.commit) = None
      BY <1>6
    <3> QED
      BY <1>1, <1>2, <3>1, ReplayFacts
  <2>2. /\ told' = told \cup {[asg |-> x.asg, key |-> x.key, commit |-> x.commit, sub |-> x.label]}
        /\ request' = [request EXCEPT ![q] = [Waiting EXCEPT !.at = "notify", !.notify = x.label]]
    BY <1>6 DEF Answered
  <2> QED
    BY <1>2, <1>6, <2>1, <2>2, RowAdmitted
<1> QED
  BY <1>3, <1>4, <1>5, <1>6 DEF Admit, AdmitRoom

\* The other steps of a request change no table.
LEMMA RequestAdmission ==
    ASSUME AdmissionInv, SourcesInv, NEW q \in Requests, RequestStep(q)
    PROVE  AdmissionInv'
<1>1. RequestTypes /\ request \in [Requests -> RequestRow]
  BY DEF SourcesInv, RequestTypes
<1>2. ASSUME \/ Check(q) \/ Collect(q) \/ PublishSource(q) \/ PinSource(q) \/ Stamp(q)
             \/ CollectFails(q) \/ RequestFails(q) \/ NotifyRequest(q)
      PROVE  AdmissionInv'
  <2>1. UNCHANGED <<sub, idem, attempts, told>>
    BY <1>2 DEF Check, Collect, PublishSource, PinSource, Stamp, CollectFails, RequestFails,
                NotifyRequest, Refused, tableVars
  <2>2. \A p \in Requests : p # q => request'[p] = request[p]
    BY <1>1, <1>2 DEF Check, Collect, PublishSource, PinSource, Stamp, CollectFails, RequestFails,
                NotifyRequest, Refused, Step
  <2>3. request'[q].at \in Counted => request[q].at \in Counted /\ request'[q].day = request[q].day
    <3>1. CASE request' = [request EXCEPT ![q] = Waiting]
      BY <1>1, <3>1 DEF Waiting, Counted, Labelled
    <3>2. CASE request' # [request EXCEPT ![q] = Waiting]
      <4>1. request[q] \in RequestRow
        BY <1>1
      <4>2. request[q].at \in Counted
        BY <1>2, <3>2 DEF Check, Collect, PublishSource, PinSource, Stamp, CollectFails,
                RequestFails, NotifyRequest, Refused, Ready, Counted, Labelled
      <4>3. \/ request' = [request EXCEPT ![q].at = "collect", ![q].label = issued + 1]
            \/ \E at \in {"publish", "pin", "stamp"} : request' = [request EXCEPT ![q].at = at]
            \/ request' = [request EXCEPT ![q].at = "admit", ![q].inTime = request[q].asg \in open]
        BY <1>2, <3>2 DEF Check, Collect, PublishSource, PinSource, Stamp, CollectFails,
                RequestFails, NotifyRequest, Refused, Step
      <4>4. request'[q].day = request[q].day
        BY <1>1, <4>1, <4>3 DEF RequestRow
      <4> QED
        BY <4>2, <4>4
    <3> QED
      BY <3>1, <3>2
  <2> QED
    BY <1>1, <2>1, <2>2, <2>3, FlightsEnd
<1> QED
  BY <1>2, PreflightAdmission, AdmitAdmission DEF RequestStep

\* How a row may change its state.
Moves == {<<"accepted", "queued">>, <<"queued", "running">>, <<"running", "graded">>,
          <<"running", "failed">>, <<"graded", "published">>}

\* A row that changes its state keeps what was admitted.
LEMMA MoveAdmission ==
    ASSUME AdmissionInv, RequestTypes, NEW l \in Rows, NEW to,
           <<sub[l].state, to>> \in Moves, Moved(l, to),
           UNCHANGED <<request, idem, attempts, told>>
    PROVE  AdmissionInv'
<1>0. to \in {"queued", "running", "graded", "failed", "published"}
  BY DEF Moves
<1>1. /\ sub' \in [Labels -> SubmissionRow] /\ l \in Labels /\ Rows \subseteq Labels
      /\ \A m \in Labels : /\ sub'[m].asg = sub[m].asg /\ sub'[m].commit = sub[m].commit
                           /\ sub'[m].day = sub[m].day
                           /\ sub'[m].state = IF m = l THEN to ELSE sub[m].state
  BY <1>0, RowFacts DEF Moved, RequestTypes, SubmissionRow, SubmissionStates
<1>2. Rows' = Rows
  BY <1>0, <1>1 DEF Rows
<1>3. \A d : RowsOf(d)' = RowsOf(d) /\ InFlight(d)' = InFlight(d)
  BY <1>1, <1>2 DEF RowsOf, InFlight
<1>4. Outstanding' \subseteq Outstanding
  BY <1>0, <1>1, <1>2 DEF Outstanding, Active, Moves
<1>5. Cardinality(Outstanding') <= MaxOutstanding
  <2>1. Cardinality(Outstanding') <= Cardinality(Outstanding) /\ Cardinality(Outstanding') \in Nat
    BY <1>4, RowCounts, FS_Subset, FS_CardinalityType
  <2>2. Cardinality(Outstanding) \in Nat /\ Cardinality(Outstanding) <= MaxOutstanding /\ MaxOutstanding \in Nat
    BY RowCounts, SubmissionAssumption DEF AdmissionInv
  <2> QED
    BY <2>1, <2>2
<1>6. SourcesAreSingle'
  <2>1. \A m \in Rows : sub[m].state = "failed" => sub'[m].state = "failed"
    BY <1>1 DEF Moves
  <2> QED
    BY <1>1, <1>2, <2>1 DEF AdmissionInv, SourcesAreSingle
<1>7. KeysAreBound' /\ AnswersAreKept'
  BY <1>1, <1>2 DEF AdmissionInv, KeysAreBound, AnswersAreKept
<1> QED
  BY <1>3, <1>5, <1>6, <1>7 DEF AdmissionInv, AttemptsAreCounted

-----------------------------------------------------------------------------
(* The grading thread.                                                     *)

LEMMA WorkFrame ==
    ASSUME WorkInv, UNCHANGED <<sub, worker, queue, executions, workspace>>
    PROVE  WorkInv'
  BY DEF WorkInv, Grasp, At, State, Job

\* A new row is none the worker holds anything of.
LEMMA WorkAdmits ==
    ASSUME WorkInv, RequestTypes, NEW l \in Labels \ Rows, NEW row,
           row.state = "accepted", sub' = [sub EXCEPT ![l] = row],
           UNCHANGED <<worker, queue, executions, workspace>>
    PROVE  WorkInv'
<1>1. sub'[l] = row /\ \A m \in Labels : m # l => sub'[m] = sub[m]
  BY DEF RequestTypes
<1>2. sub[l].state = "none" /\ executions[l] = 0
  BY RowFacts DEF WorkInv
<1>3. \A m \in Labels : sub'[m].state \in {"none", "accepted", "queued"} => executions[m] = 0
  BY <1>1, <1>2 DEF WorkInv
<1>4. Grasp'
  <2>1. CASE worker.at \in Processing /\ Job # l
    <3>1. Job \in Labels /\ sub'[Job] = sub[Job]
      BY <1>1, <2>1 DEF WorkInv
    <3> QED
      BY <3>1 DEF WorkInv, Grasp, At, State, Job
  <2>2. CASE worker.at \in Processing /\ Job = l
    BY <1>2, <2>2 DEF WorkInv, Grasp, At, State, Job
  <2>3. CASE worker.at \notin Processing
    BY <2>3 DEF Grasp, At, Processing
  <2> QED
    BY <2>1, <2>2, <2>3
<1> QED
  BY <1>3, <1>4 DEF WorkInv, Job

\* Queueing an id.
LEMMA NotifiedQueue ==
    ASSUME queue \in Seq(Labels), NEW l \in Labels, Notified(l)
    PROVE  queue' \in Seq(Labels)
  BY AppendProperties DEF Notified

LEMMA RequestWork ==
    ASSUME WorkInv, SourcesInv, NEW q \in Requests, RequestStep(q)
    PROVE  WorkInv'
<1>1. RequestTypes
  BY DEF SourcesInv
<1>2. CASE Admit(q)
  <2> PICK l : l = request[q].label
    OBVIOUS
  <2>1. l \in Labels \ Rows
    BY <1>2 DEF SourcesInv, RequestTypes, RequestsOwnLabels, RequestRow, Labelled, Admit, Ready
  <2>2. UNCHANGED <<worker, queue, executions, workspace>>
    BY <1>2 DEF Admit, storeVars, workVars
  <2>3. CASE sub' = sub
    BY <2>2, <2>3, WorkFrame
  <2>4. CASE sub' # sub
    <3> PICK row : row = [state |-> "accepted", asg |-> request[q].asg,
                          commit |-> request[q].commit, day |-> request[q].day]
      OBVIOUS
    <3>1. sub' = [sub EXCEPT ![l] = row]
      BY <1>2, <2>4 DEF Admit, tableVars
    <3> QED
      BY <1>1, <2>1, <2>2, <3>1, WorkAdmits
  <2> QED
    BY <2>3, <2>4
<1>3. CASE NotifyRequest(q)
  <2>1. request[q].notify \in Labels /\ Notified(request[q].notify)
        /\ UNCHANGED <<sub, worker, executions, workspace>>
    BY <1>3 DEF NotifyRequest, Ready, SourcesInv, RequestsOwnLabels, storeVars, artifactVars, tableVars
  <2>2. queue' \in Seq(Labels)
    BY <2>1, NotifiedQueue DEF WorkInv
  <2> QED
    BY <2>1, <2>2 DEF WorkInv, Grasp, At, State, Job
<1>4. CASE \/ Preflight(q) \/ Check(q) \/ Collect(q) \/ PublishSource(q) \/ PinSource(q)
           \/ Stamp(q) \/ CollectFails(q) \/ RequestFails(q)
  <2>1. UNCHANGED <<worker, queue, executions, workspace>>
    BY <1>4 DEF Preflight, Check, Collect, PublishSource, PinSource, Stamp, CollectFails,
                RequestFails, Publish, PinRef, storeVars, artifactVars, workVars
  <2>2. UNCHANGED sub
    BY <1>4 DEF Preflight, Check, Collect, PublishSource, PinSource, Stamp, CollectFails,
                RequestFails, tableVars
  <2> QED
    BY <2>1, <2>2, WorkFrame
<1> QED
  BY <1>2, <1>3, <1>4 DEF RequestStep

\* The worker goes to its next step on the same submission.
LEMMA GoesFacts ==
    ASSUME WorkInv, worker.at \in Processing, NEW next \in Processing, Goes(next)
    PROVE  /\ worker' \in WorkerRow /\ worker'.at = next /\ worker'.job = Job
           /\ Job \in Labels /\ Job' = Job
  BY DEF WorkInv, WorkerRow, Processing, Goes, Job

\* A row that moves is moved alone.
LEMMA MovedFacts ==
    ASSUME RequestTypes, NEW l \in Labels, NEW to, Moved(l, to)
    PROVE  sub'[l].state = to /\ \A m \in Labels : m # l => sub'[m] = sub[m]
  BY DEF RequestTypes, SubmissionRow, Moved

\* The worker's transactions on its row: WorkInv is what lets it move.
LEMMA TransactWork ==
    ASSUME WorkInv, RequestTypes, Queue \/ StartRunning \/ Record \/ PublishResult \/ Fail
    PROVE  /\ WorkInv'
           /\ \/ UNCHANGED sub
              \/ \E to : <<State, to>> \in Moves /\ Moved(Job, to)
           /\ UNCHANGED <<executions, request, issued, day, remote, archive, ref, gc, idem,
                          attempts, told>>
<1>1. \E next \in {"start", "prepare", "decide", "done"} : Goes(next)
  BY DEF Queue, StartRunning, Record, PublishResult, Fail, Transact
<1>2. PICK next \in {"start", "prepare", "decide", "done"} : Goes(next)
  BY <1>1
<1>3. worker.at \in Processing
  BY DEF Queue, StartRunning, Record, PublishResult, Fail, Transact, At, Processing
<1>4. /\ worker' \in WorkerRow /\ worker'.at = next /\ Job \in Labels /\ Job' = Job
  BY <1>2, <1>3, GoesFacts DEF Processing
<1>5. UNCHANGED <<queue, workspace, executions, request, issued, day, remote, archive, ref, gc,
                  idem, attempts, told>>
  BY DEF Queue, StartRunning, Record, PublishResult, Fail, Transact, storeVars, artifactVars,
         gcVars, courseVars, deskVars
<1>6. Grasp /\ executions \in [Labels -> {0, 1}]
  BY DEF WorkInv
<1>7. ASSUME UNCHANGED sub, worker'.at = "done" PROVE WorkInv'
  BY <1>4, <1>5, <1>7 DEF WorkInv, Grasp, At, Job
<1>8. ASSUME NEW to, Moved(Job, to), to \in {"queued", "running"} => executions[Job] = 0,
             worker'.at = "start" => to = "queued",
             worker'.at = "prepare" => to = "running",
             worker'.at = "decide" => to = "graded",
             to \in {"queued", "running", "graded", "published", "failed"}
      PROVE  WorkInv'
  <2>1. sub'[Job].state = to /\ \A m \in Labels : m # Job => sub'[m] = sub[m]
    BY <1>4, <1>8, MovedFacts
  <2>2. \A m \in Labels : sub'[m].state \in {"none", "accepted", "queued"} => executions[m] = 0
    BY <1>8, <2>1 DEF WorkInv
  <2>3. Grasp'
    <3>1. State' = to /\ executions' = executions /\ workspace' = workspace
      BY <1>4, <1>5, <2>1 DEF State
    <3> QED
      BY <1>2, <1>4, <1>8, <3>1 DEF Grasp, At
  <2> QED
    BY <1>4, <1>5, <2>2, <2>3 DEF WorkInv
<1>9. CASE Queue
  <2>1. State = "accepted" /\ Moved(Job, "queued") /\ worker'.at = "start" /\ executions[Job] = 0
    BY <1>4, <1>6, <1>9 DEF Queue, Transact, Grasp, Goes, WorkInv, WorkerRow, State
  <2> QED
    BY <1>5, <1>8, <2>1 DEF Moves
<1>10. CASE StartRunning
  <2>1. State = "queued" /\ Moved(Job, "running") /\ worker'.at = "prepare" /\ executions[Job] = 0
    BY <1>4, <1>6, <1>10 DEF StartRunning, Transact, Grasp, Goes, WorkInv, WorkerRow, State
  <2> QED
    BY <1>5, <1>8, <2>1 DEF Moves
<1>11. CASE Record
  <2>1. State = "running" /\ Moved(Job, "graded") /\ worker'.at = "decide"
    BY <1>4, <1>11 DEF Record, Transact, Goes, WorkInv, WorkerRow
  <2> QED
    BY <1>5, <1>8, <2>1 DEF Moves
<1>12. CASE PublishResult
  <2>1. worker'.at = "done" /\ (UNCHANGED sub \/ (State = "graded" /\ Moved(Job, "published")))
    BY <1>4, <1>12 DEF PublishResult, Transact, Goes, WorkInv, WorkerRow
  <2> QED
    BY <1>5, <1>7, <1>8, <2>1 DEF Moves
<1>13. CASE Fail
  <2>1. worker'.at = "done" /\ State = "running" /\ (UNCHANGED sub \/ Moved(Job, "failed"))
    BY <1>4, <1>6, <1>13 DEF Fail, Transact, Goes, WorkInv, WorkerRow, Grasp, At
  <2> QED
    BY <1>5, <1>7, <1>8, <2>1 DEF Moves
<1> QED
  BY <1>9, <1>10, <1>11, <1>12, <1>13

\* The worker's steps that change no row.
LEMMA IdleWork ==
    ASSUME WorkInv, RequestTypes,
           \/ Recover \/ NotifyListed \/ Take \/ Process \/ Decide \/ Done
           \/ WorkerTrouble \/ StartService \/ \E l \in Labels : ProcessByHand(l)
    PROVE  /\ WorkInv'
           /\ UNCHANGED <<sub, executions, request, issued, day, remote, archive, ref, gc, idem,
                          attempts, told>>
<1>1. UNCHANGED <<sub, executions, workspace, request, issued, day, remote, archive, ref, gc, idem,
                  attempts, told>>
  BY DEF Recover, NotifyListed, Take, Process, Decide, Done, WorkerTrouble, StartService,
         ProcessByHand, WorkerOnly, storeVars, artifactVars, gcVars, courseVars, tableVars, deskVars
<1>2. /\ worker \in WorkerRow /\ queue \in Seq(Labels)
      /\ executions \in [Labels -> {0, 1}] /\ workspace \in [Labels -> File \cup {None}]
      /\ \A l \in Labels : sub[l].state \in {"none", "accepted", "queued"} => executions[l] = 0
      /\ worker.at \in Processing => Job \in Labels
  BY DEF WorkInv
<1>3. ASSUME worker' \in WorkerRow, worker'.at \in Processing => Job' \in Labels,
             queue' \in Seq(Labels), Grasp'
      PROVE  WorkInv'
  BY <1>1, <1>2, <1>3 DEF WorkInv
<1>4. ASSUME worker' \in WorkerRow, worker'.at \in {"off", "recover", "listing", "idle"},
             queue' \in Seq(Labels)
      PROVE  WorkInv'
  <2>1. Grasp' /\ worker'.at \notin Processing
    BY <1>4 DEF Grasp, At, Processing
  <2> QED
    BY <1>3, <1>4, <2>1
<1>5. CASE Recover
  <2>1. Listed \subseteq Labels
    BY RowFacts DEF Listed, Outstanding
  <2>2. worker' \in WorkerRow /\ worker'.at = "listing" /\ queue' = queue
    BY <1>2, <1>5, <2>1 DEF Recover, WorkerRow
  <2> QED
    BY <1>1, <1>2, <1>4, <2>2
<1>6. CASE NotifyListed
  <2>1. CASE worker.listed = {}
    <3>1. worker' \in WorkerRow /\ worker'.at = "idle" /\ queue' = queue
      BY <1>2, <1>6, <2>1 DEF NotifyListed, WorkerRow
    <3> QED
      BY <1>1, <1>2, <1>4, <3>1
  <2>2. CASE worker.listed # {}
    <3>1. PICK l \in worker.listed : Notified(l) /\ worker' = [worker EXCEPT !.listed = @ \ {l}]
      BY <1>6, <2>2 DEF NotifyListed
    <3>2. l \in Labels /\ worker.at = "listing"
      BY <1>2, <1>6 DEF NotifyListed, WorkerRow, At
    <3>3. worker' \in WorkerRow /\ worker'.at = "listing"
      BY <1>2, <3>1, <3>2 DEF WorkerRow
    <3>4. queue' \in Seq(Labels)
      BY <1>2, <3>1, <3>2, NotifiedQueue
    <3> QED
      BY <1>1, <1>4, <3>3, <3>4
  <2> QED
    BY <2>1, <2>2
<1>7. CASE Take
  <2>1. Head(queue) \in Labels /\ Tail(queue) \in Seq(Labels)
    BY <1>2, <1>7, HeadTailProperties DEF Take
  <2>2. worker' \in WorkerRow /\ worker'.at = "read" /\ Job' \in Labels /\ queue' \in Seq(Labels)
    BY <1>2, <1>7, <2>1 DEF Take, WorkerRow, Processing, Job
  <2>3. Grasp'
    BY <2>2 DEF Grasp, At
  <2> QED
    BY <1>1, <1>3, <2>2, <2>3
<1>8. CASE Done
  <2>1. queue' = queue /\ (worker' = Off \/ worker' = [worker EXCEPT !.at = "idle", !.job = None])
    BY <1>8 DEF Done
  <2>2. Off \in WorkerRow /\ Off.at = "off"
    BY DEF WorkerRow, Off
  <2>3. worker' \in WorkerRow /\ worker'.at \in {"off", "idle"}
    BY <1>2, <2>1, <2>2 DEF WorkerRow
  <2> QED
    BY <1>1, <1>2, <1>4, <2>1, <2>3
<1>9. CASE StartService
  <2>1. queue' = queue /\ worker' \in WorkerRow /\ worker'.at = "recover"
    BY <1>9 DEF StartService, WorkerRow, Off
  <2> QED
    BY <1>1, <1>2, <1>4, <2>1
<1>10. CASE \E l \in Labels : ProcessByHand(l)
  <2>1. queue' = queue /\ worker' \in WorkerRow /\ worker'.at = "read" /\ Job' \in Labels
    BY <1>10 DEF ProcessByHand, WorkerRow, Off, Processing, Job
  <2>2. Grasp'
    BY <2>1 DEF Grasp, At
  <2> QED
    BY <1>1, <1>2, <1>3, <2>1, <2>2
<1>11. ASSUME worker.at \in Processing, NEW next \in {"queue", "start", "fail", "decide", "publish", "done"},
              Goes(next), queue' = queue,
              next = "queue" => State = "accepted", next = "start" => State = "queued",
              next = "fail" => State = "running",
              next \in {"decide", "publish"} => State \in {"graded", "published"}
       PROVE  WorkInv'
  <2>1. worker' \in WorkerRow /\ worker'.at = next /\ Job \in Labels /\ Job' = Job
    BY <1>11, GoesFacts DEF Processing
  <2>2. Grasp'
    BY <1>1, <1>11, <2>1 DEF Grasp, At, State
  <2> QED
    BY <1>1, <1>2, <1>3, <1>11, <2>1, <2>2
<1>12. CASE Process
  <2> PICK next : next = IF State = "graded" /\ ShouldPublish(sub[Job].asg) THEN "publish" ELSE Resumed(State)
    OBVIOUS
  <2>2. Goes(next) /\ worker.at \in Processing /\ queue' = queue
    BY <1>12 DEF Process, At, Processing
  <2>3. /\ next \in {"queue", "start", "fail", "publish", "done"}
        /\ next = "queue" => State = "accepted"
        /\ next = "start" => State = "queued"
        /\ next = "fail" => State = "running"
        /\ next = "publish" => State = "graded"
    BY DEF Resumed
  <2> QED
    BY <1>1, <1>11, <2>2, <2>3
<1>13. CASE Decide
  <2>1. PICK next \in {"publish", "done"} : Goes(next)
    BY <1>13 DEF Decide
  <2>2. worker.at \in Processing /\ State \in {"graded", "published"} /\ queue' = queue
    BY <1>13 DEF Decide, At, Processing, WorkInv, Grasp
  <2> QED
    BY <1>1, <1>11, <2>1, <2>2
<1>14. CASE WorkerTrouble
  <2>1. PICK next \in {"fail", "done"} : Goes(next) /\ (next = "fail" => At("prepare"))
    BY <1>14 DEF WorkerTrouble
  <2>2. worker.at \in Processing /\ queue' = queue /\ (At("prepare") => State = "running")
    BY <1>14 DEF WorkerTrouble, At, Processing, WorkInv, Grasp
  <2> QED
    BY <1>1, <1>11, <2>1, <2>2
<1> QED
  BY <1>1, <1>5, <1>6, <1>7, <1>8, <1>9, <1>10, <1>12, <1>13, <1>14

\* A workspace is made of the row's source.
LEMMA PrepareWork ==
    ASSUME WorkInv, SourcesInv, Prepare
    PROVE  /\ WorkInv'
           /\ UNCHANGED <<sub, executions, request, issued, day, remote, archive, ref, gc, idem,
                          attempts, told>>
<1>1. UNCHANGED <<sub, executions, queue, request, issued, day, remote, archive, ref, gc, idem,
                  attempts, told>>
  BY DEF Prepare, gcVars, courseVars, tableVars, deskVars
<1>2. worker.at = "prepare" /\ Job \in Labels /\ State = "running" /\ executions[Job] = 0
  BY DEF Prepare, At, WorkInv, Processing, Grasp
<1>3. Job \in Rows
  BY <1>2 DEF Rows, State
<1>4. PICK file : file = Young(RepoOf[sub[Job].asg], sub[Job].commit)
  OBVIOUS
<1>5. file \in File
  <2>1. sub[Job].asg \in Assignments /\ archive[Job] # None /\ archive[Job].commit = sub[Job].commit
    BY <1>3 DEF SourcesInv, RowsHaveFiles, Has
  <2>2. archive[Job] \in File
    BY <1>2, <2>1 DEF SourcesInv, FileTypes
  <2>3. sub[Job].commit \in Commits
    BY <2>1, <2>2 DEF File
  <2> QED
    BY <1>4, <2>1, <2>3, FileFacts
<1>6. CASE workspace' = [workspace EXCEPT ![Job] = file] /\ Goes("grade")
  <2>1. worker' \in WorkerRow /\ worker'.at = "grade" /\ Job' = Job
    BY <1>2, <1>6, GoesFacts DEF Processing
  <2>2. workspace' \in [Labels -> File \cup {None}] /\ workspace'[Job] = file /\ file # None
    BY <1>2, <1>5, <1>6, ArtifactsAssumption DEF WorkInv
  <2>3. State' = "running" /\ executions'[Job] = 0
    BY <1>1, <1>2, <2>1 DEF State
  <2>4. Grasp'
    BY <2>1, <2>2, <2>3 DEF Grasp, At
  <2> QED
    BY <1>1, <1>2, <2>1, <2>2, <2>4 DEF WorkInv
<1>7. CASE UNCHANGED workspace /\ Goes("fail")
  <2>1. worker' \in WorkerRow /\ worker'.at = "fail" /\ Job' = Job
    BY <1>2, <1>7, GoesFacts DEF Processing
  <2>2. Grasp'
    BY <1>1, <1>2, <2>1 DEF Grasp, At, State
  <2> QED
    BY <1>1, <1>2, <1>7, <2>1, <2>2 DEF WorkInv
<1> QED
  BY <1>1, <1>4, <1>6, <1>7 DEF Prepare

\* The instructor's code is started, for the first time.
LEMMA GradeWork ==
    ASSUME WorkInv, NEW outcome, Grade(outcome)
    PROVE  /\ WorkInv' /\ Job \in Labels /\ State = "running"
           /\ executions[Job] = 0 /\ executions' = [executions EXCEPT ![Job] = 1]
           /\ UNCHANGED <<sub, request, issued, day, remote, archive, ref, gc, idem, attempts, told>>
<1>1. UNCHANGED <<sub, queue, workspace, request, issued, day, remote, archive, ref, gc, idem,
                  attempts, told>>
  BY DEF Grade, WorkerOnly, storeVars, artifactVars, gcVars, courseVars, tableVars, deskVars
<1>2. worker.at = "grade" /\ Job \in Labels /\ State = "running" /\ executions[Job] = 0
  BY DEF Grade, At, WorkInv, Processing, Grasp
<1>3. executions' = [executions EXCEPT ![Job] = 1] /\ executions \in [Labels -> {0, 1}]
  BY <1>2 DEF Grade, WorkInv
<1>4. worker' \in WorkerRow /\ worker'.at = outcome /\ Job' = Job /\ outcome \in {"record", "fail"}
  BY <1>2, GoesFacts DEF Grade, Processing
<1>5. Grasp'
  <2>1. State' = "running" /\ executions'[Job] = 1
    BY <1>1, <1>2, <1>3, <1>4 DEF State
  <2> QED
    BY <1>4, <2>1 DEF Grasp, At
<1>6. \A l \in Labels : sub'[l].state \in {"none", "accepted", "queued"} => executions'[l] = 0
  BY <1>1, <1>2, <1>3 DEF WorkInv, State
<1> QED
  BY <1>1, <1>2, <1>3, <1>4, <1>5, <1>6 DEF WorkInv

\* Publishing by hand meets the worker only where it would publish itself.
LEMMA HandWork ==
    ASSUME WorkInv, RequestTypes, NEW l \in Labels, PublishByHand(l)
    PROVE  /\ WorkInv' /\ sub[l].state = "graded" /\ Moved(l, "published")
           /\ UNCHANGED <<executions, request, issued, day, remote, archive, ref, gc, idem,
                          attempts, told>>
<1>1. /\ sub[l].state = "graded" /\ Moved(l, "published")
      /\ UNCHANGED <<executions, queue, worker, workspace, request, issued, day, remote, archive,
                     ref, gc, idem, attempts, told>>
  BY DEF PublishByHand, storeVars, artifactVars, gcVars, courseVars, deskVars, workVars
<1>2. sub'[l].state = "published" /\ \A m \in Labels : m # l => sub'[m] = sub[m]
  BY <1>1, MovedFacts
<1>3. \A m \in Labels : sub'[m].state \in {"none", "accepted", "queued"} => executions[m] = 0
  BY <1>2 DEF WorkInv
<1>4. Grasp'
  <2>1. CASE worker.at \in Processing /\ Job # l
    <3>1. Job \in Labels /\ sub'[Job] = sub[Job]
      BY <1>2, <2>1 DEF WorkInv
    <3> QED
      BY <1>1, <3>1 DEF WorkInv, Grasp, At, State, Job
  <2>2. CASE worker.at \in Processing /\ Job = l
    BY <1>1, <1>2, <2>2 DEF WorkInv, Grasp, At, State, Job
  <2>3. CASE worker.at \notin Processing
    BY <1>1, <2>3 DEF Grasp, At, Processing
  <2> QED
    BY <2>1, <2>2, <2>3
<1> QED
  BY <1>1, <1>3, <1>4 DEF WorkInv, Job

\* The worker dies with its memory.
LEMMA StopWork ==
    ASSUME WorkInv, Stop
    PROVE  WorkInv'
<1>1. worker' = Off /\ queue' = <<>> /\ UNCHANGED <<sub, executions, workspace>>
  BY DEF Stop, artifactVars, tableVars
<1>2. worker' \in WorkerRow /\ worker'.at = "off"
  BY <1>1 DEF Off, WorkerRow
<1>3. queue' \in Seq(Labels)
  BY <1>1, EmptySeq
<1>4. Grasp' /\ worker'.at \notin Processing
  BY <1>2 DEF Grasp, At, Processing
<1> QED
  BY <1>1, <1>2, <1>3, <1>4 DEF WorkInv

\* The grace period does not pass for what is in hand.
LEMMA GraceWork ==
    ASSUME WorkInv, NEW l \in Labels, Grace(l)
    PROVE  WorkInv'
<1>1. workspace' = Aged(workspace, l) /\ l # Job /\ UNCHANGED <<sub, worker, queue, executions>>
  BY DEF Grace, Age, InHand, tableVars, workVars, Job
<1>2. workspace \in [Labels -> File \cup {None}]
  BY DEF WorkInv
<1>3. \A x \in File : [x EXCEPT !.old = TRUE] \in File
  BY DEF File
<1>4. workspace' \in [Labels -> File \cup {None}]
        /\ \A m \in Labels : m # l => workspace'[m] = workspace[m]
  <2>1. CASE workspace[l] = None
    BY <1>1, <1>2, <2>1 DEF Aged
  <2>2. CASE workspace[l] # None
    <3>1. workspace[l] \in File /\ workspace' = [workspace EXCEPT ![l].old = TRUE]
      BY <1>1, <1>2, <2>2 DEF Aged
    <3>2. [workspace[l] EXCEPT !.old = TRUE] \in File
      BY <1>3, <3>1
    <3> QED
      BY <1>2, <3>1, <3>2
  <2> QED
    BY <2>1, <2>2
<1>5. Grasp'
  <2>1. At("grade") => Job \in Labels /\ workspace'[Job] = workspace[Job]
    BY <1>1, <1>4 DEF WorkInv, At, Processing
  <2> QED
    BY <1>1, <2>1 DEF WorkInv, Grasp, At, State, Job
<1> QED
  BY <1>1, <1>4, <1>5 DEF WorkInv, Job

\* The collector takes no workspace of a submission that is being graded.
LEMMA CollectorWork ==
    ASSUME WorkInv, Collector
    PROVE  WorkInv'
<1>1. UNCHANGED <<sub, worker, queue, executions>>
  BY DEF Collector, tableVars, workVars
<1>2. CASE workspace' = workspace
  BY <1>1, <1>2, WorkFrame
<1>3. CASE DeleteWorkspaces(Terminal)
  <2>1. \A l \in Labels : workspace'[l] \in {workspace[l], None}
          /\ (l \notin Terminal => workspace'[l] = workspace[l])
    BY <1>3 DEF DeleteWorkspaces
  <2>2. workspace' \in [Labels -> File \cup {None}]
    BY <1>3 DEF DeleteWorkspaces, WorkInv
  <2>3. At("grade") => Job \in Labels /\ Job \notin Terminal
    BY DEF WorkInv, Grasp, At, Processing, Terminal, Ended, State
  <2>4. Grasp'
    BY <1>1, <2>1, <2>3 DEF WorkInv, Grasp, At, State, Job
  <2> QED
    BY <1>1, <2>2, <2>4 DEF WorkInv, Job
<1> QED
  BY <1>2, <1>3 DEF Collector, GCNext, StartGC, ScanArchives, ScanRefs, LockForGC, DeleteRefs,
     RereadForGC, DeleteArchives, StopGC, GCStep, artifactVars

-----------------------------------------------------------------------------
(* The three parts together.                                               *)

LEMMA GitInit == Init => GitInv
<1> SUFFICES ASSUME Init PROVE GitInv
  OBVIOUS
<1>1. /\ remote \in [Repos -> Commits] /\ issued = 0 /\ day = 0 /\ told = {}
      /\ sub = [l \in Labels |-> NoRow] /\ archive = [l \in Labels |-> None]
      /\ ref = [l \in Labels |-> None] /\ workspace = [l \in Labels |-> None]
      /\ request = [q \in Requests |-> Waiting] /\ gc = NoGC
      /\ idem = [a \in Assignments |-> [k \in Keys |-> None]]
      /\ attempts = [d \in 0 .. MaxDay |-> 0]
      /\ worker = Off /\ queue = <<>> /\ executions = [l \in Labels |-> 0]
  BY DEF Init, ArtifactInit
<1>2. NoRow \in SubmissionRow /\ NoRow.state = "none"
  <2>1. 0 \in 0 .. MaxDay
    BY FirstDay
  <2> QED
    BY <2>1 DEF NoRow, SubmissionRow, SubmissionStates
<1>3. Waiting \in RequestRow /\ Waiting.at = "free" /\ Waiting.label = None
  <2>1. 0 \in 0 .. MaxDay
    BY FirstDay
  <2> QED
    BY <2>1 DEF Waiting, RequestRow
<1>4. Rows = {} /\ Outstanding = {} /\ \A d : RowsOf(d) = {} /\ InFlight(d) = {}
  BY <1>1, <1>2, <1>3 DEF Rows, Outstanding, RowsOf, InFlight, Counted, Labelled
<1>5. RequestTypes
  BY <1>1, <1>2, <1>3, FirstDay, LabelFacts DEF RequestTypes
<1>6. FileTypes
  BY <1>1 DEF FileTypes, NoGC, GCRow
<1>7. RequestsOwnLabels /\ LabelsAreNew /\ PinsAreYoung /\ RowsHaveFiles
  BY <1>1, <1>3, <1>4
     DEF RequestsOwnLabels, LabelsAreNew, PinsAreYoung, RowsHaveFiles, Counted, Labelled
<1>8. CandidatesAreIdle
  BY <1>1, <1>4 DEF CandidatesAreIdle, Candidates, NoGC
<1>9. AdmissionInv
  <2>1. Cardinality({}) = 0
    BY FS_EmptySet
  <2>0. MaxDaily \in Nat /\ MaxOutstanding \in Nat
    BY SubmissionAssumption
  <2>2. AttemptsAreCounted /\ Cardinality(Outstanding) <= MaxOutstanding
    <3>1. ASSUME NEW d \in 0 .. MaxDay
          PROVE  /\ Cardinality(RowsOf(d)) + Cardinality(InFlight(d)) <= attempts[d]
                 /\ attempts[d] <= MaxDaily
      <4>1. Cardinality(RowsOf(d)) = 0 /\ Cardinality(InFlight(d)) = 0
        BY <1>4, <2>1
      <4>2. attempts[d] = 0
        BY <1>1
      <4> QED
        BY <2>0, <4>1, <4>2
    <3> QED
      BY <1>4, <2>0, <2>1, <3>1 DEF AttemptsAreCounted
  <2>3. attempts \in [0 .. MaxDay -> Nat]
        /\ idem \in [Assignments -> [Keys -> Labels \cup {None}]]
    BY <1>1
  <2> QED
    BY <1>1, <1>4, <2>2, <2>3 DEF AdmissionInv, KeysAreBound, AnswersAreKept, SourcesAreSingle
<1>10. WorkInv
  <2>1. worker \in WorkerRow /\ worker.at = "off"
    BY <1>1 DEF Off, WorkerRow
  <2>2. Grasp /\ worker.at \notin Processing
    BY <2>1 DEF Grasp, At, Processing
  <2>3. queue \in Seq(Labels)
    BY <1>1, EmptySeq
  <2> QED
    BY <1>1, <2>1, <2>2, <2>3 DEF WorkInv
<1> QED
  BY <1>5, <1>6, <1>7, <1>8, <1>9, <1>10 DEF GitInv, SourcesInv

\* The steps on the sources and the tables that the other parts do not see.
LEMMA FrameStep ==
    ASSUME GitInv, WorkInv',
           UNCHANGED <<sub, request, issued, day, remote, archive, ref, gc, idem, attempts, told>>
    PROVE  GitInv'
<1>1. SourcesInv' /\ AdmissionInv'
  BY SourcesFrame, AdmissionFrame DEF GitInv
<1> QED
  BY <1>1 DEF GitInv

LEMMA MoveStep ==
    ASSUME GitInv, WorkInv', NEW l \in Labels, NEW to,
           <<sub[l].state, to>> \in Moves, Moved(l, to),
           UNCHANGED <<request, issued, day, remote, archive, ref, gc, idem, attempts, told>>
    PROVE  GitInv'
<1>1. l \in Rows /\ to \in SubmissionStates \ {"none"}
  BY DEF Moves, Rows, SubmissionStates
<1>2. SourcesInv'
  BY <1>1, MoveSources DEF GitInv
<1>3. AdmissionInv'
  BY <1>1, MoveAdmission DEF GitInv, SourcesInv
<1> QED
  BY <1>2, <1>3 DEF GitInv

LEMMA WorkerGit == ASSUME GitInv, WorkerStep \/ WorkerTrouble \/ StartService PROVE GitInv'
<1>1. WorkInv /\ SourcesInv /\ RequestTypes
  BY DEF GitInv, SourcesInv
<1>2. CASE Recover \/ NotifyListed \/ Take \/ Process \/ Decide \/ Done \/ WorkerTrouble \/ StartService
  BY <1>1, <1>2, IdleWork, FrameStep
<1>3. CASE Prepare
  BY <1>1, <1>3, PrepareWork, FrameStep
<1>4. CASE \E outcome \in {"record", "fail"} : Grade(outcome)
  BY <1>1, <1>4, GradeWork, FrameStep
<1>5. CASE Queue \/ StartRunning \/ Record \/ PublishResult \/ Fail
  <2>1. /\ WorkInv'
        /\ UNCHANGED sub \/ \E to : <<State, to>> \in Moves /\ Moved(Job, to)
        /\ UNCHANGED <<executions, request, issued, day, remote, archive, ref, gc, idem,
                       attempts, told>>
    BY <1>1, <1>5, TransactWork
  <2>2. CASE UNCHANGED sub
    BY <2>1, <2>2, FrameStep
  <2>3. CASE \E to : <<State, to>> \in Moves /\ Moved(Job, to)
    <3>1. Job \in Labels
      BY <1>1, <1>5 DEF WorkInv, Queue, StartRunning, Record, PublishResult, Fail, Transact, At, Processing
    <3> QED
      BY <2>1, <2>3, <3>1, MoveStep DEF State
  <2> QED
    BY <2>1, <2>2, <2>3
<1> QED
  BY <1>2, <1>3, <1>4, <1>5 DEF WorkerStep

LEMMA RequestGit ==
    ASSUME GitInv, Arrive \/ \E q \in Requests : RequestStep(q) PROVE GitInv'
<1>1. CASE \E q \in Requests : RequestStep(q)
  BY <1>1, RequestSources, RequestAdmission, RequestWork DEF GitInv
<1>2. CASE Arrive
  <2>1. PICK q \in Requests, a \in Assignments, k \in Keys, c \in Commits : Submit(q, a, k, c)
    BY <1>2 DEF Arrive
  <2>2. UNCHANGED <<sub, worker, queue, executions, workspace, idem, attempts, told>>
    BY <2>1 DEF Submit, storeVars, artifactVars, tableVars, workVars
  <2>3. SourcesInv'
    BY <2>1, SubmitSources DEF GitInv
  <2>4. RequestTypes
    BY DEF GitInv, SourcesInv
  <2>5. /\ request'[q].at = "preflight"
        /\ \A p \in Requests : p # q => request'[p] = request[p]
    <3> PICK row : row = [Waiting EXCEPT !.at = "preflight", !.asg = a, !.key = k, !.commit = c]
      OBVIOUS
    <3>1. row.at = "preflight"
      BY DEF Waiting
    <3>2. request' = [request EXCEPT ![q] = row]
      BY <2>1 DEF Submit
    <3> QED
      BY <2>4, <3>1, <3>2 DEF RequestTypes
  <2>6. \A p \in Requests : request'[p].at \in Counted =>
            request[p].at \in Counted /\ request'[p].day = request[p].day
    BY <2>5 DEF Counted, Labelled
  <2>7. AdmissionInv'
    BY <2>2, <2>4, <2>6, FlightsEnd DEF GitInv
  <2>8. WorkInv'
    BY <2>2, WorkFrame DEF GitInv
  <2> QED
    BY <2>3, <2>7, <2>8 DEF GitInv
<1> QED
  BY <1>1, <1>2

LEMMA StopGit == ASSUME GitInv, Stop PROVE GitInv'
<1>1. /\ request' = [q \in Requests |-> Waiting]
      /\ UNCHANGED <<issued, day, sub, remote, archive, ref, gc, idem, attempts, told>>
  BY DEF Stop, artifactVars, gcVars, courseVars, tableVars
<1>2. SourcesInv'
  BY <1>1, StopSources DEF GitInv
<1>3. \A p \in Requests : request'[p].at \notin Counted
  BY <1>1 DEF Waiting, Counted, Labelled
<1>4. AdmissionInv'
  BY <1>1, <1>3, FlightsEnd DEF GitInv, SourcesInv
<1> QED
  BY <1>2, <1>4, StopWork DEF GitInv

\* The course, the students' repositories, time and the collector.
LEMMA OutsideGit ==
    ASSUME GitInv, CourseStep \/ PushStep \/ Collector \/ \E l \in Labels : Grace(l)
    PROVE  GitInv'
<1>1. UNCHANGED <<sub, worker, queue, executions, idem, attempts, told, request, issued>>
  BY DEF CourseStep, PushStep, Collector, Grace, courseVars, tableVars, deskVars, workVars
<1>2. AdmissionInv'
  BY <1>1, AdmissionFrame DEF GitInv
<1>3. CASE Collector
  BY <1>1, <1>2, <1>3, CollectorSources, CollectorWork DEF GitInv, Collector, courseVars
<1>4. CASE \E l \in Labels : Grace(l)
  BY <1>2, <1>4, GraceSources, GraceWork DEF GitInv
<1>5. CASE CourseStep \/ PushStep
  <2>1. UNCHANGED <<archive, ref, gc, workspace>>
    BY <1>5 DEF CourseStep, PushStep, Push, storeVars, artifactVars, gcVars
  <2>2. day' \in 0 .. MaxDay /\ remote' \in [Repos -> Commits]
    <3>1. day \in 0 .. MaxDay /\ remote \in [Repos -> Commits] /\ MaxDay \in Nat
      BY FirstDay DEF GitInv, SourcesInv, RequestTypes
    <3>2. CASE CourseStep
      <4>1. remote' = remote /\ (day' = day \/ (day < MaxDay /\ day' = day + 1))
        BY <3>2 DEF CourseStep, Close, Revoke, Midnight, storeVars
      <4> QED
        BY <3>1, <4>1
    <3>3. CASE PushStep
      BY <3>1, <3>3 DEF PushStep, Push, courseVars
    <3> QED
      BY <1>5, <3>2, <3>3
  <2>3. SourcesInv'
    BY <1>1, <2>1, <2>2 DEF GitInv, SourcesInv, RequestTypes, FileTypes, RequestsOwnLabels,
       LabelsAreNew, PinsAreYoung, RowsHaveFiles, CandidatesAreIdle, Candidates, Rows
  <2>4. WorkInv'
    BY <1>1, <2>1, WorkFrame DEF GitInv
  <2> QED
    BY <1>2, <2>3, <2>4 DEF GitInv
<1> QED
  BY <1>3, <1>4, <1>5

LEMMA GitStep == GitInv /\ [Next]_vars => GitInv'
<1> SUFFICES ASSUME GitInv, [Next]_vars PROVE GitInv'
  OBVIOUS
<1>1. CASE UNCHANGED vars
  <2>1. UNCHANGED <<sub, request, issued, day, remote, archive, ref, gc, idem, attempts, told,
                    worker, queue, executions, workspace>>
    BY <1>1 DEF vars
  <2>2. WorkInv'
    BY <2>1, WorkFrame DEF GitInv
  <2> QED
    BY <2>1, <2>2, FrameStep
<1>2. CASE \E l \in Labels : ProcessByHand(l)
  <2>1. WorkInv /\ RequestTypes
    BY DEF GitInv, SourcesInv
  <2> QED
    BY <1>2, <2>1, IdleWork, FrameStep
<1>3. CASE \E l \in Labels : PublishByHand(l)
  <2>1. WorkInv /\ RequestTypes
    BY DEF GitInv, SourcesInv
  <2>2. <<"graded", "published">> \in Moves
    BY DEF Moves
  <2> QED
    BY <1>3, <2>1, <2>2, HandWork, MoveStep
<1> QED
  BY <1>1, <1>2, <1>3, WorkerGit, RequestGit, StopGit, OutsideGit DEF Next

\* The invariant holds in every reachable state: requests in flight for
\* different repositories, a crash of the service at any step, and a run of
\* `artifacts gc --apply` between any two of them included.
THEOREM GitInvAlways == Spec => []GitInv
  BY GitInit, GitStep, PTL DEF Spec

\* artifact_gc.py never removes the archive or the ref of an accepted
\* submission, though it scans without a lock and a request records what it
\* has pinned later; what is being graded keeps its workspace.
THEOREM ReceiptsStayKept == Spec => []ReceiptsAreKept
<1>1. GitInv => ReceiptsAreKept
  BY DEF GitInv, SourcesInv, RowsHaveFiles, WorkInv, Grasp, ReceiptsAreKept
<1> QED
  BY <1>1, GitInvAlways, PTL

\* platform_state.create_accepted_submission: one live submission per commit,
\* one answer per key, the limit of outstanding submissions and the daily
\* attempts hold together, whatever the requests in flight read before.
THEOREM AdmissionStaysHonest == Spec => []AdmissionIsHonest
<1>1. GitInv => AdmissionIsHonest
  <2> SUFFICES ASSUME GitInv PROVE AdmissionIsHonest
    OBVIOUS
  <2>1. ASSUME NEW d \in 0 .. MaxDay
        PROVE  attempts[d] <= MaxDaily /\ Cardinality(RowsOf(d)) <= attempts[d]
    <3>1. Cardinality(RowsOf(d)) \in Nat /\ Cardinality(InFlight(d)) \in Nat /\ attempts[d] \in Nat
      BY RowCounts, FlightFacts DEF GitInv, SourcesInv, AdmissionInv
    <3>2. Cardinality(RowsOf(d)) + Cardinality(InFlight(d)) <= attempts[d] /\ attempts[d] <= MaxDaily
      BY DEF GitInv, AdmissionInv, AttemptsAreCounted
    <3> QED
      BY <3>1, <3>2
  <2>2. SourcesAreSingle /\ AnswersAreKept /\ Cardinality(Outstanding) <= MaxOutstanding
    BY DEF GitInv, AdmissionInv
  <2> QED
    BY <2>1, <2>2 DEF AdmissionIsHonest, SourcesAreSingle, AnswersAreKept, RowsOf
<1> QED
  BY <1>1, GitInvAlways, PTL

-----------------------------------------------------------------------------
(* The ledger.                                                             *)

\* What the ledger sees of the rows.
Standing == [l \in Labels |-> Status(sub[l].state)]

LEMMA LedgerStutter ==
    ASSUME UNCHANGED <<executions, sub>>
    PROVE  UNCHANGED Ledger!ledgerVars
  BY DEF Ledger!ledgerVars

LEMMA LedgerMove ==
    ASSUME RequestTypes, NEW l \in Labels, NEW to,
           sub'[l].state = to, \A m \in Labels : m # l => sub'[m] = sub[m],
           UNCHANGED executions
    PROVE  /\ Ledger!Move(l, Status(sub[l].state), Status(to))
           /\ Status(sub[l].state) = Status(to) => UNCHANGED Ledger!ledgerVars
<1>1. Standing' = [Standing EXCEPT ![l] = Status(to)]
  BY DEF Standing
<1>2. Standing[l] = Status(sub[l].state)
  BY DEF Standing
<1> QED
  BY <1>1, <1>2 DEF Standing, Ledger!Move, Ledger!ledgerVars

\* A row's move is a step of the ledger, a judgement one after an execution.
LEMMA LedgerMoves ==
    ASSUME RequestTypes, NEW l \in Labels, NEW to, <<sub[l].state, to>> \in Moves,
           Moved(l, to), to = "graded" => executions[l] = 1, UNCHANGED executions
    PROVE  [Ledger!LedgerNext]_(Ledger!ledgerVars)
<1>1. sub'[l].state = to /\ \A m \in Labels : m # l => sub'[m] = sub[m]
  BY MovedFacts
<1>2. /\ Ledger!Move(l, Status(sub[l].state), Status(to))
      /\ Status(sub[l].state) = Status(to) => UNCHANGED Ledger!ledgerVars
  BY <1>1, LedgerMove
<1>3. CASE sub[l].state = "accepted" /\ to = "queued"
  BY <1>2, <1>3 DEF Status
<1>4. CASE sub[l].state = "queued" /\ to = "running"
  BY <1>2, <1>4 DEF Status, Ledger!Claim, Ledger!LedgerNext
<1>5. CASE sub[l].state = "running" /\ to = "graded"
  BY <1>2, <1>5 DEF Status, Ledger!Judge, Ledger!LedgerNext
<1>6. CASE sub[l].state = "running" /\ to = "failed"
  BY <1>2, <1>6 DEF Status, Ledger!GiveUp, Ledger!LedgerNext
<1>7. CASE sub[l].state = "graded" /\ to = "published"
  BY <1>2, <1>7 DEF Status, Ledger!Disclose, Ledger!LedgerNext
<1> QED
  BY <1>3, <1>4, <1>5, <1>6, <1>7 DEF Moves

LEMMA LedgerAdmit ==
    ASSUME GitInv, NEW q \in Requests, RequestStep(q)
    PROVE  [Ledger!LedgerNext]_(Ledger!ledgerVars)
<1>1. RequestTypes /\ executions' = executions
  BY DEF GitInv, SourcesInv, RequestStep, Preflight, Check, Collect, PublishSource, PinSource,
         CollectFails, Stamp, Admit, RequestFails, NotifyRequest, workVars
<1>2. CASE UNCHANGED sub
  BY <1>1, <1>2, LedgerStutter
<1>3. CASE sub' # sub
  <2>1. Admit(q)
    BY <1>3 DEF RequestStep, Preflight, Check, Collect, PublishSource, PinSource, CollectFails,
         Stamp, RequestFails, NotifyRequest, tableVars
  <2> PICK l : l = request[q].label
    OBVIOUS
  <2> PICK row : row = [state |-> "accepted", asg |-> request[q].asg,
                        commit |-> request[q].commit, day |-> request[q].day]
    OBVIOUS
  <2>2. l \in Labels /\ sub[l].state = "none"
    <3>1. request[q].at = "admit" /\ request[q].label \in Labels \cup {None}
      BY <1>1, <2>1 DEF Admit, Ready, RequestTypes, RequestRow
    <3>2. l \in Labels /\ l \notin Rows
      BY <3>1 DEF GitInv, SourcesInv, RequestsOwnLabels, Labelled
    <3> QED
      BY <3>2 DEF Rows
  <2>3. sub' = [sub EXCEPT ![l] = row]
    BY <1>3, <2>1 DEF Admit, tableVars
  <2>4. sub'[l].state = "accepted" /\ \A m \in Labels : m # l => sub'[m] = sub[m]
    BY <1>1, <2>2, <2>3 DEF RequestTypes
  <2>5. Ledger!Move(l, Status("none"), Status("accepted"))
    BY <1>1, <2>2, <2>4, LedgerMove
  <2>6. Ledger!Accept(l)
    BY <2>5 DEF Status, Ledger!Accept
  <2> QED
    BY <2>2, <2>6 DEF Ledger!LedgerNext
<1> QED
  BY <1>2, <1>3

LEMMA LedgerWork ==
    ASSUME GitInv, WorkerStep
    PROVE  [Ledger!LedgerNext]_(Ledger!ledgerVars)
<1>1. WorkInv /\ SourcesInv /\ RequestTypes
  BY DEF GitInv, SourcesInv
<1>2. CASE Recover \/ NotifyListed \/ Take \/ Process \/ Decide \/ Done
  BY <1>1, <1>2, IdleWork, LedgerStutter
<1>3. CASE Prepare
  BY <1>1, <1>3, PrepareWork, LedgerStutter
<1>4. CASE \E outcome \in {"record", "fail"} : Grade(outcome)
  <2>1. /\ Job \in Labels /\ State = "running" /\ executions[Job] = 0
        /\ executions' = [executions EXCEPT ![Job] = 1] /\ UNCHANGED sub
    BY <1>1, <1>4, GradeWork
  <2>2. Standing[Job] = "executing" /\ UNCHANGED Standing
    BY <2>1 DEF Standing, Status, State
  <2>3. Ledger!Execute(Job)
    BY <2>1, <2>2 DEF Ledger!Execute, Standing
  <2> QED
    BY <2>1, <2>3 DEF Ledger!LedgerNext
<1>5. CASE Queue \/ StartRunning \/ Record \/ PublishResult \/ Fail
  <2>1. /\ UNCHANGED sub \/ \E to : <<State, to>> \in Moves /\ Moved(Job, to)
        /\ UNCHANGED executions
    BY <1>1, <1>5, TransactWork
  <2>2. CASE UNCHANGED sub
    BY <2>1, <2>2, LedgerStutter
  <2>3. CASE sub' # sub
    <3>1. PICK to : <<State, to>> \in Moves /\ Moved(Job, to)
      BY <2>1, <2>3
    <3>2. Job \in Labels
      BY <1>1, <1>5 DEF WorkInv, Queue, StartRunning, Record, PublishResult, Fail, Transact, At, Processing
    <3>3. to = "graded" => executions[Job] = 1
      <4>1. CASE Record
        BY <1>1, <4>1 DEF Record, Transact, WorkInv, Grasp
      <4>2. CASE ~Record
        <5>1. \E other \in {"queued", "running", "published", "failed"} : Moved(Job, other)
          BY <1>5, <2>3, <4>2 DEF Queue, StartRunning, PublishResult, Fail
        <5>2. sub'[Job].state # "graded"
          BY <1>1, <3>2, <5>1, MovedFacts
        <5> QED
          BY <1>1, <3>1, <3>2, <5>2, MovedFacts
      <4> QED
        BY <4>1, <4>2
    <3> QED
      BY <1>1, <2>1, <3>1, <3>2, <3>3, LedgerMoves DEF State
  <2> QED
    BY <2>2, <2>3
<1> QED
  BY <1>2, <1>3, <1>4, <1>5 DEF WorkerStep

LEMMA LedgerStep == GitInv /\ [Next]_vars => [Ledger!LedgerNext]_(Ledger!ledgerVars)
<1> SUFFICES ASSUME GitInv, [Next]_vars PROVE [Ledger!LedgerNext]_(Ledger!ledgerVars)
  OBVIOUS
<1>1. WorkInv /\ RequestTypes
  BY DEF GitInv, SourcesInv
<1>2. CASE \E l \in Labels : PublishByHand(l)
  <2>1. PICK l \in Labels : PublishByHand(l)
    BY <1>2
  <2>2. sub[l].state = "graded" /\ Moved(l, "published") /\ UNCHANGED executions
    BY <1>1, <2>1, HandWork
  <2> QED
    BY <1>1, <2>2, LedgerMoves DEF Moves
<1>3. CASE Stop \/ WorkerTrouble \/ StartService \/ Arrive \/ CourseStep \/ PushStep \/ Collector
           \/ (\E l \in Labels : ProcessByHand(l) \/ Grace(l)) \/ UNCHANGED vars
  <2>1. UNCHANGED <<executions, sub>>
    BY <1>3 DEF Stop, WorkerTrouble, StartService, Arrive, Submit, CourseStep, PushStep, Collector,
         ProcessByHand, Grace, tableVars, workVars, vars
  <2> QED
    BY <2>1, LedgerStutter
<1> QED
  BY <1>2, <1>3, LedgerAdmit, LedgerWork DEF Next

\* The pipeline of platform_worker.py keeps the ledger of the bundle pipeline:
\* instructor code is started at most once for a submission, an interrupted run
\* fails, and a verdict stays, also when `submission process` and `submission
\* publish` are run beside the service's worker.
THEOREM GitImplementsLedger == Spec => ImplementsGitLedger
<1>1. Init => Ledger!LedgerInit
  BY DEF Init, NoRow, Status, Ledger!LedgerInit
<1> QED
  BY <1>1, LedgerStep, GitInvAlways, PTL DEF Spec, ImplementsGitLedger, Ledger!LedgerSpec

-----------------------------------------------------------------------------
(* PreservedJobs.                                                          *)

JobTypes ==
    /\ job \in [Labels -> {"free", "fetched", "publish", "pin", "record"}]
    /\ held \in [Labels -> Commits \cup {None}]
    /\ snapshot \subseteq Labels
    /\ interrupted \subseteq Labels
    /\ remote \in [Repos -> Commits]
    /\ TheRepo \in Repos

\* A job that runs has its commit, and one that is recorded has ended.
JobsHold ==
    \A l \in Labels :
        /\ job[l] # "free" => l \notin snapshot
        /\ job[l] # "free" \/ l \in snapshot => held[l] \in Commits

\* The files of a job that was never interrupted: none, young ones, or those
\* of its snapshot.
WholeFiles ==
    \A l \in Labels \ interrupted :
        LET file == Young(TheRepo, held[l]) IN
        /\ job[l] \in {"fetched", "publish"} \/ (job[l] = "free" /\ l \notin snapshot) =>
              archive[l] = None /\ ref[l] = None
        /\ job[l] = "pin" => archive[l] = file /\ ref[l] = None
        /\ job[l] = "record" => archive[l] = file /\ ref[l] = file
        /\ l \in snapshot => Has(archive, l, TheRepo, held[l]) /\ Has(ref, l, TheRepo, held[l])

\* What the collector found old was interrupted or is recorded, and recorded
\* jobs are known to it once it has read the database under the lock.
WholeJobsAreKnown ==
    /\ Candidates \ interrupted \subseteq snapshot
    /\ gc.at \in {"unref", "reread", "unlink"} => Candidates \ interrupted \subseteq gc.reach

JobsInv == JobTypes /\ FileTypes /\ JobsHold /\ WholeFiles /\ WholeJobsAreKnown

LEMMA JobsInitially == ASSUME TheRepo \in Repos PROVE JobsInit => JobsInv
  BY DEF JobsInit, ArtifactInit, JobsInv, JobTypes, FileTypes, JobsHold, WholeFiles,
         WholeJobsAreKnown, Candidates, NoGC, GCRow

\* A job goes on alone.
LEMMA JobGoes ==
    ASSUME JobsInv, NEW l \in Labels, NEW at, JobStep(l, at),
           at \in {"free", "fetched", "publish", "pin", "record"}
    PROVE  /\ job' \in [Labels -> {"free", "fetched", "publish", "pin", "record"}]
           /\ job'[l] = at /\ \A m \in Labels : m # l => job'[m] = job[m]
  BY DEF JobsInv, JobTypes, JobStep

\* The steps of a job, which touch the files of its own label.
LEMMA JobsWork ==
    ASSUME JobsInv, NEW l \in Labels,
           FetchJob(l) \/ EnterJob(l) \/ PublishJob(l) \/ PinJob(l) \/ RecordJob(l) \/ JobDies(l)
    PROVE  JobsInv'
<1>1. /\ JobTypes /\ FileTypes /\ JobsHold /\ WholeFiles /\ WholeJobsAreKnown
      /\ UNCHANGED <<gc, remote>>
  BY DEF JobsInv, FetchJob, EnterJob, PublishJob, PinJob, RecordJob, JobDies, Publish, PinRef,
         storeVars, gcVars
<1>2. PICK at \in {"free", "fetched", "publish", "pin", "record"} : JobStep(l, at)
  BY DEF FetchJob, EnterJob, PublishJob, PinJob, RecordJob, JobDies
<1>3. /\ job' \in [Labels -> {"free", "fetched", "publish", "pin", "record"}]
      /\ job'[l] = at /\ \A m \in Labels : m # l => job'[m] = job[m]
  BY <1>2, JobGoes
<1>4. TheRepo' = TheRepo /\ Candidates' = Candidates
  BY <1>1 DEF TheRepo, Candidates
<1>5. ASSUME /\ held' \in [Labels -> Commits \cup {None}] /\ FileTypes'
             /\ \A m \in Labels : m # l =>
                  held'[m] = held[m] /\ archive'[m] = archive[m] /\ ref'[m] = ref[m],
             snapshot \subseteq snapshot', snapshot' \subseteq snapshot \cup {l},
             interrupted \subseteq interrupted', interrupted' \subseteq interrupted \cup {l},
             job'[l] # "free" => l \notin snapshot',
             job'[l] # "free" \/ l \in snapshot' => held'[l] \in Commits,
             l \notin interrupted' =>
                /\ job'[l] \in {"fetched", "publish"} \/ (job'[l] = "free" /\ l \notin snapshot') =>
                     archive'[l] = None /\ ref'[l] = None
                /\ job'[l] = "pin" => archive'[l] = Young(TheRepo, held'[l]) /\ ref'[l] = None
                /\ job'[l] = "record" => /\ archive'[l] = Young(TheRepo, held'[l])
                                         /\ ref'[l] = Young(TheRepo, held'[l])
                /\ l \in snapshot' => /\ Has(archive', l, TheRepo, held'[l])
                                      /\ Has(ref', l, TheRepo, held'[l])
      PROVE  JobsInv'
  <2>1. JobTypes'
    BY <1>1, <1>3, <1>4, <1>5 DEF JobTypes
  <2>2. JobsHold'
    BY <1>1, <1>3, <1>5 DEF JobsHold
  <2>3. WholeFiles'
    BY <1>1, <1>3, <1>4, <1>5 DEF WholeFiles, Has
  <2>4. WholeJobsAreKnown'
    BY <1>1, <1>4, <1>5 DEF WholeJobsAreKnown
  <2> QED
    BY <1>5, <2>1, <2>2, <2>3, <2>4 DEF JobsInv
<1>6. CASE FetchJob(l)
  <2>1. /\ job[l] = "free" /\ l \notin snapshot /\ job'[l] = "fetched"
        /\ UNCHANGED <<archive, ref, snapshot, interrupted>>
    BY <1>1, <1>6 DEF FetchJob, storeVars, JobStep, JobTypes
  <2>2. /\ held' \in [Labels -> Commits \cup {None}] /\ held'[l] \in Commits
        /\ \A m \in Labels : m # l => held'[m] = held[m]
    <3>1. CASE held[l] = None
      <4>1. held' = [held EXCEPT ![l] = remote[TheRepo]] /\ remote[TheRepo] \in Commits
        BY <1>1, <1>6, <3>1 DEF FetchJob, JobTypes
      <4> QED
        BY <1>1, <4>1 DEF JobTypes
    <3>2. CASE held[l] # None
      BY <1>1, <1>6, <3>2 DEF FetchJob, JobTypes
    <3> QED
      BY <3>1, <3>2
  <2>3. FileTypes'
    BY <1>1, <2>1 DEF FileTypes
  <2>4. l \notin interrupted => archive[l] = None /\ ref[l] = None
    BY <1>1, <2>1 DEF WholeFiles
  <2> QED
    BY <1>5, <2>1, <2>2, <2>3, <2>4
<1>7. CASE EnterJob(l)
  <2>1. /\ job[l] = "fetched" /\ job'[l] = "publish"
        /\ UNCHANGED <<archive, ref, snapshot, interrupted, held>>
    BY <1>1, <1>7 DEF EnterJob, artifactVars, JobStep, JobTypes
  <2>2. FileTypes' /\ held[l] \in Commits /\ l \notin snapshot
    BY <1>1, <2>1 DEF FileTypes, JobsHold
  <2>3. l \notin interrupted => archive[l] = None /\ ref[l] = None
    BY <1>1, <2>1 DEF WholeFiles
  <2> QED
    BY <1>1, <1>5, <2>1, <2>2, <2>3 DEF JobTypes
<1>8. CASE PublishJob(l)
  <2>1. /\ job[l] = "publish" /\ job'[l] = "pin" /\ UNCHANGED <<snapshot, interrupted, held>>
    BY <1>1, <1>8 DEF PublishJob, JobStep, JobTypes
  <2>2. held[l] \in Commits /\ l \notin snapshot
    BY <1>1, <2>1 DEF JobsHold
  <2> PICK file : file = Young(TheRepo, held[l])
    OBVIOUS
  <2>3. file \in File
    BY <1>1, <2>2, FileFacts DEF JobTypes
  <2>4. /\ archive' \in [Labels -> File \cup {None}] /\ archive'[l] # None
        /\ archive[l] = None => archive'[l] = file
        /\ \A m \in Labels : m # l => archive'[m] = archive[m]
    <3>1. CASE archive[l] = None
      <4>1. archive' = [archive EXCEPT ![l] = file]
        BY <1>8, <3>1 DEF PublishJob, Publish
      <4> QED
        BY <1>1, <2>3, <4>1, ArtifactsAssumption DEF FileTypes
    <3>2. CASE archive[l] # None
      BY <1>1, <1>8, <3>2 DEF PublishJob, Publish, FileTypes
    <3> QED
      BY <3>1, <3>2
  <2>5. /\ ref' \in [Labels -> File \cup {None}]
        /\ ref[l] = None => ref'[l] = None
        /\ \A m \in Labels : m # l => ref'[m] = ref[m]
    <3>1. CASE ref[l] = None
      BY <1>1, <1>8, <3>1 DEF PublishJob, Publish, FileTypes
    <3>2. CASE ref[l] # None
      <4> PICK new : new = [ref[l] EXCEPT !.old = FALSE]
        OBVIOUS
      <4>1. ref' = [ref EXCEPT ![l] = new] /\ ref[l] \in File
        BY <1>1, <1>8, <3>2 DEF PublishJob, Publish, FileTypes
      <4>2. new \in File
        BY <4>1 DEF File
      <4> QED
        BY <1>1, <3>2, <4>1, <4>2 DEF FileTypes
    <3> QED
      BY <3>1, <3>2
  <2>6. FileTypes'
    BY <1>1, <2>4, <2>5 DEF FileTypes
  <2>7. l \notin interrupted => archive[l] = None /\ ref[l] = None
    BY <1>1, <2>1 DEF WholeFiles
  <2> QED
    BY <1>1, <1>5, <2>1, <2>2, <2>4, <2>5, <2>6, <2>7 DEF JobTypes
<1>9. CASE PinJob(l)
  <2>1. /\ job[l] = "pin" /\ job'[l] = "record" /\ UNCHANGED <<archive, snapshot, interrupted, held>>
    BY <1>1, <1>9 DEF PinJob, PinRef, JobStep, JobTypes
  <2>2. held[l] \in Commits /\ l \notin snapshot
    BY <1>1, <2>1 DEF JobsHold
  <2> PICK file : file = Young(TheRepo, held[l])
    OBVIOUS
  <2>3. file \in File
    BY <1>1, <2>2, FileFacts DEF JobTypes
  <2>4. /\ ref' \in [Labels -> File \cup {None}]
        /\ ref[l] = None => ref'[l] = file
        /\ \A m \in Labels : m # l => ref'[m] = ref[m]
    <3>1. CASE ref[l] = None
      <4>1. ref' = [ref EXCEPT ![l] = file]
        BY <1>9, <3>1 DEF PinJob, PinRef
      <4> QED
        BY <1>1, <2>3, <4>1 DEF FileTypes
    <3>2. CASE ref[l] # None
      BY <1>1, <1>9, <3>2 DEF PinJob, PinRef, FileTypes
    <3> QED
      BY <3>1, <3>2
  <2>5. FileTypes'
    BY <1>1, <2>1, <2>4 DEF FileTypes
  <2>6. l \notin interrupted => archive[l] = file /\ ref[l] = None
    BY <1>1, <2>1 DEF WholeFiles
  <2> QED
    BY <1>1, <1>5, <2>1, <2>2, <2>4, <2>5, <2>6 DEF JobTypes
<1>10. CASE RecordJob(l)
  <2>1. /\ job[l] = "record" /\ job'[l] = "free" /\ snapshot' = snapshot \cup {l}
        /\ UNCHANGED <<archive, ref, interrupted, held>>
    BY <1>1, <1>10 DEF RecordJob, storeVars, JobStep, JobTypes
  <2>2. FileTypes' /\ held[l] \in Commits
    BY <1>1, <2>1 DEF FileTypes, JobsHold
  <2>3. Young(TheRepo, held[l]) # None /\ Young(TheRepo, held[l]).repo = TheRepo
        /\ Young(TheRepo, held[l]).commit = held[l]
    BY <1>1, <2>2, FileFacts DEF JobTypes
  <2>4. l \notin interrupted =>
            Has(archive', l, TheRepo, held'[l]) /\ Has(ref', l, TheRepo, held'[l])
    BY <1>1, <2>1, <2>3 DEF WholeFiles, Has
  <2> QED
    BY <1>1, <1>5, <2>1, <2>2, <2>4 DEF JobTypes
<1>11. CASE JobDies(l)
  <2>1. /\ job[l] # "free" /\ job'[l] = "free" /\ interrupted' = interrupted \cup {l}
        /\ UNCHANGED <<archive, ref, snapshot, held>>
    BY <1>1, <1>11 DEF JobDies, artifactVars, JobStep, JobTypes
  <2>2. FileTypes' /\ l \notin snapshot
    BY <1>1, <2>1 DEF FileTypes, JobsHold
  <2> QED
    BY <1>1, <1>5, <2>1, <2>2 DEF JobTypes
<1> QED
  BY <1>6, <1>7, <1>8, <1>9, <1>10, <1>11

\* Files that grow old, and a push.
LEMMA JobsRest ==
    ASSUME JobsInv, (\E l \in Labels : JobRests(l))
                    \/ (\E r \in Repos, c \in Commits : Push(r, c) /\ UNCHANGED jobVars)
    PROVE  JobsInv'
<1>1. JobTypes /\ FileTypes /\ JobsHold /\ WholeFiles /\ WholeJobsAreKnown
      /\ UNCHANGED <<job, held, snapshot, interrupted, gc>>
  BY DEF JobsInv, JobRests, Age, Push, jobVars, gcVars
<1>2. TheRepo' = TheRepo /\ Candidates' = Candidates
  BY <1>1 DEF TheRepo, Candidates
<1>3. CASE \E r \in Repos, c \in Commits : Push(r, c)
  <2>1. UNCHANGED <<archive, ref>> /\ remote' \in [Repos -> Commits]
    BY <1>1, <1>3 DEF Push, artifactVars, JobTypes
  <2> QED
    BY <1>1, <1>2, <2>1
       DEF JobsInv, JobTypes, FileTypes, JobsHold, WholeFiles, WholeJobsAreKnown, Has
<1>4. CASE \E l \in Labels : JobRests(l)
  <2>1. PICK l \in Labels : JobRests(l)
    BY <1>4
  <2>2. job[l] = "free" /\ archive' = Aged(archive, l) /\ ref' = Aged(ref, l) /\ remote' = remote
    BY <2>1 DEF JobRests, Age
  <2>3. ASSUME NEW kept \in [Labels -> File \cup {None}], NEW new, new = Aged(kept, l)
        PROVE  /\ new \in [Labels -> File \cup {None}]
               /\ \A m \in Labels : m # l => new[m] = kept[m]
               /\ kept[l] = None => new[l] = None
               /\ \A r, c : Has(kept, l, r, c) => Has(new, l, r, c)
    <3>1. CASE kept[l] = None
      BY <2>3, <3>1 DEF Aged
    <3>2. CASE kept[l] # None
      <4>0. PICK file : file = [kept[l] EXCEPT !.old = TRUE]
        OBVIOUS
      <4>1. new = [kept EXCEPT ![l] = file] /\ kept[l] \in File
        BY <2>3, <3>2, <4>0 DEF Aged
      <4>2. file \in File /\ file.repo = kept[l].repo /\ file.commit = kept[l].commit
        BY <4>0, <4>1 DEF File
      <4> QED
        BY <3>2, <4>1, <4>2, ArtifactsAssumption DEF Has
    <3> QED
      BY <3>1, <3>2
  <2>4. /\ archive' \in [Labels -> File \cup {None}]
        /\ \A m \in Labels : m # l => archive'[m] = archive[m]
        /\ archive[l] = None => archive'[l] = None
        /\ Has(archive, l, TheRepo, held[l]) => Has(archive', l, TheRepo, held[l])
    BY <1>1, <2>2, <2>3 DEF FileTypes
  <2>5. /\ ref' \in [Labels -> File \cup {None}]
        /\ \A m \in Labels : m # l => ref'[m] = ref[m]
        /\ ref[l] = None => ref'[l] = None
        /\ Has(ref, l, TheRepo, held[l]) => Has(ref', l, TheRepo, held[l])
    BY <1>1, <2>2, <2>3 DEF FileTypes
  <2>6. FileTypes' /\ JobTypes'
    BY <1>1, <1>2, <2>2, <2>4, <2>5 DEF FileTypes, JobTypes
  <2>7. WholeFiles'
    <3>1. ASSUME NEW m \in Labels \ interrupted, m # l
          PROVE  /\ archive'[m] = archive[m] /\ ref'[m] = ref[m]
                 /\ Has(archive', m, TheRepo, held[m]) <=> Has(archive, m, TheRepo, held[m])
                 /\ Has(ref', m, TheRepo, held[m]) <=> Has(ref, m, TheRepo, held[m])
      BY <2>4, <2>5, <3>1 DEF Has
    <3> QED
      BY <1>1, <1>2, <2>2, <2>4, <2>5, <3>1 DEF WholeFiles
  <2> QED
    BY <1>1, <1>2, <2>6, <2>7 DEF JobsInv, JobsHold, WholeJobsAreKnown
<1> QED
  BY <1>3, <1>4

\* The collector over the jobs.
LEMMA JobsCollected ==
    ASSUME JobsInv, GCNext(snapshot, {}), UNCHANGED jobVars
    PROVE  JobsInv'
<1>1. JobTypes /\ FileTypes /\ JobsHold /\ WholeFiles /\ WholeJobsAreKnown
      /\ UNCHANGED <<job, held, snapshot, interrupted>> /\ snapshot \subseteq Labels
  BY DEF JobsInv, jobVars, JobTypes
<1>2. remote' = remote
  BY DEF GCNext, StartGC, ScanArchives, ScanRefs, LockForGC, DeleteRefs, RereadForGC,
         DeleteArchives, DeleteWorkspaces, StopGC, GCStep
<1>3. TheRepo' = TheRepo /\ JobTypes' /\ JobsHold'
  BY <1>1, <1>2 DEF TheRepo, JobTypes, JobsHold
<1>4. ASSUME UNCHANGED <<archive, ref>>, gc' \in GCRow, WholeJobsAreKnown'
      PROVE  JobsInv'
  <2>1. FileTypes' /\ WholeFiles'
    BY <1>1, <1>3, <1>4 DEF FileTypes, WholeFiles, Has
  <2> QED
    BY <1>3, <1>4, <2>1 DEF JobsInv
<1>5. ASSUME NEW kept, NEW l \in Labels \ interrupted, kept \in {archive[l], ref[l]}, Old(kept)
      PROVE  l \in snapshot
  <2>1. ~Young(TheRepo, held[l]).old /\ Old(kept) = (kept # None /\ kept.old)
    BY DEF Young, Old
  <2> QED
    BY <1>1, <1>5, <2>1 DEF WholeFiles, JobTypes, Old
<1>6. CASE StartGC(snapshot, {}) \/ StopGC
  <2>1. /\ gc' \in GCRow /\ gc'.at \in {"off", "archives"} /\ gc'.archives = {} /\ gc'.refs = {}
        /\ UNCHANGED <<archive, ref>>
    <3>1. CASE StopGC
      <4>1. gc' = NoGC /\ UNCHANGED <<archive, ref>>
        BY <3>1 DEF StopGC, GCStep, artifactVars
      <4> QED
        BY <4>1 DEF NoGC, GCRow
    <3>2. CASE StartGC(snapshot, {})
      <4>1. gc' = [at |-> "archives", archives |-> {}, refs |-> {}, spaces |-> {}, repos |-> {},
                   reach |-> snapshot]
            /\ UNCHANGED <<archive, ref>>
        BY <3>2 DEF StartGC, NoGC, artifactVars
      <4> QED
        BY <1>1, <4>1 DEF GCRow
    <3> QED
      BY <1>6, <3>1, <3>2
  <2> QED
    BY <1>4, <2>1 DEF WholeJobsAreKnown, Candidates
<1>7. CASE ScanArchives
  <2>1. PICK found : found = {l \in Labels \ gc.reach : Old(archive[l])}
    OBVIOUS
  <2>2. /\ gc' = [gc EXCEPT !.at = "refs", !.archives = found] /\ found \subseteq Labels
        /\ UNCHANGED <<archive, ref>>
    BY <1>7, <2>1 DEF ScanArchives, GCStep, artifactVars
  <2>3. gc' \in GCRow /\ gc'.at = "refs" /\ gc'.archives = found /\ gc'.refs = gc.refs
    BY <1>1, <2>2 DEF FileTypes, GCRow
  <2>4. found \ interrupted \subseteq snapshot
    BY <1>5, <2>1
  <2> QED
    BY <1>1, <1>4, <2>2, <2>3, <2>4 DEF WholeJobsAreKnown, Candidates
<1>8. CASE ScanRefs
  <2>1. PICK found : found = {l \in Labels \ gc.reach : Old(ref[l])}
    OBVIOUS
  <2>2. /\ gc' \in GCRow /\ gc'.at = "next" /\ gc'.archives = gc.archives /\ gc'.refs = found
        /\ UNCHANGED <<archive, ref>>
    <3>1. PICK repos : repos = {ref[l].repo : l \in found}
                         \cup {archive[l].repo : l \in {m \in gc.archives : archive[m] # None}}
      OBVIOUS
    <3>2. repos \subseteq Repos
      <4>1. \A l \in found : ref[l] \in File
        BY <1>1, <2>1 DEF FileTypes, Old
      <4>2. \A l \in gc.archives : archive[l] # None => archive[l] \in File
        BY <1>1 DEF FileTypes, GCRow
      <4>3. \A x \in File : x.repo \in Repos
        BY DEF File
      <4> QED
        BY <3>1, <4>1, <4>2, <4>3
    <3>3. PICK spaces : spaces = {l \in gc.spaces : Old(workspace[l])}
      OBVIOUS
    <3>4. gc' = [gc EXCEPT !.at = "next", !.refs = found, !.spaces = spaces, !.repos = repos]
          /\ UNCHANGED <<archive, ref>>
      BY <1>8, <2>1, <3>1, <3>3 DEF ScanRefs, GCStep, artifactVars
    <3>5. found \subseteq Labels /\ spaces \subseteq Labels
      BY <1>1, <2>1, <3>3 DEF FileTypes, GCRow
    <3> QED
      BY <1>1, <3>2, <3>4, <3>5 DEF FileTypes, GCRow
  <2>3. found \ interrupted \subseteq snapshot
    BY <1>5, <2>1
  <2> QED
    BY <1>1, <1>4, <2>2, <2>3 DEF WholeJobsAreKnown, Candidates
<1>9. CASE (\E r \in Repos : LockForGC(r, snapshot)) \/ RereadForGC(snapshot)
  <2>1. /\ gc' \in GCRow /\ gc'.archives = gc.archives /\ gc'.refs = gc.refs
        /\ gc'.reach = snapshot /\ UNCHANGED <<archive, ref>>
    BY <1>1, <1>9 DEF LockForGC, RereadForGC, GCStep, FileTypes, GCRow, artifactVars
  <2> QED
    BY <1>1, <1>4, <2>1 DEF WholeJobsAreKnown, Candidates
<1>10. ASSUME NEW gone \in SUBSET Labels, gone \subseteq interrupted, gc' \in GCRow,
              archive' \in [Labels -> File \cup {None}], ref' \in [Labels -> File \cup {None}],
              \A l \in Labels \ gone : archive'[l] = archive[l] /\ ref'[l] = ref[l],
              Candidates' = Candidates,
              gc'.at \in {"unref", "reread", "unlink"} =>
                gc.at \in {"unref", "reread", "unlink"} /\ gc'.reach = gc.reach
       PROVE  JobsInv'
  <2>1. FileTypes'
    BY <1>10 DEF FileTypes
  <2>2. WholeFiles'
    BY <1>1, <1>3, <1>10 DEF WholeFiles, Has
  <2>3. WholeJobsAreKnown'
    BY <1>1, <1>10 DEF WholeJobsAreKnown
  <2> QED
    BY <1>3, <2>1, <2>2, <2>3 DEF JobsInv
<1>11. CASE \E gone \in SUBSET Labels : DeleteRefs(gone)
  <2>1. PICK gone \in SUBSET Labels : DeleteRefs(gone)
    BY <1>11
  <2>2. gc.at = "unref" /\ gone \subseteq gc.refs \ gc.reach /\ archive' = archive
        /\ ref' = [l \in Labels |-> IF l \in gone THEN None ELSE ref[l]]
        /\ gc' = [gc EXCEPT !.at = "reread"]
    BY <2>1 DEF DeleteRefs, GCAt, GCStep
  <2>3. gone \subseteq interrupted
    BY <1>1, <2>2 DEF WholeJobsAreKnown, Candidates
  <2>4. gc' \in GCRow /\ gc'.reach = gc.reach /\ Candidates' = Candidates
    BY <1>1, <2>2 DEF FileTypes, GCRow, Candidates
  <2>5. /\ ref' \in [Labels -> File \cup {None}] /\ archive' \in [Labels -> File \cup {None}]
        /\ \A l \in Labels \ gone : archive'[l] = archive[l] /\ ref'[l] = ref[l]
    BY <1>1, <2>2 DEF FileTypes
  <2> QED
    BY <1>10, <2>2, <2>3, <2>4, <2>5
<1>12. CASE \E gone \in SUBSET Labels : DeleteArchives(gone)
  <2>1. PICK gone \in SUBSET Labels : DeleteArchives(gone)
    BY <1>12
  <2>2. PICK repos \in SUBSET Repos : gc' = [gc EXCEPT !.at = "next", !.repos = repos]
    BY <1>1, <2>1 DEF DeleteArchives, GCStep, FileTypes, GCRow
  <2>3. gc.at = "unlink" /\ gone \subseteq gc.archives \ gc.reach /\ ref' = ref
        /\ archive' = [l \in Labels |-> IF l \in gone THEN None ELSE archive[l]]
    BY <2>1 DEF DeleteArchives, GCAt, Deletable
  <2>4. gone \subseteq interrupted
    BY <1>1, <2>3 DEF WholeJobsAreKnown, Candidates
  <2>5. gc' \in GCRow /\ gc'.at = "next" /\ Candidates' = Candidates
    BY <1>1, <2>2 DEF FileTypes, GCRow, Candidates
  <2>6. /\ ref' \in [Labels -> File \cup {None}] /\ archive' \in [Labels -> File \cup {None}]
        /\ \A l \in Labels \ gone : archive'[l] = archive[l] /\ ref'[l] = ref[l]
    BY <1>1, <2>3 DEF FileTypes
  <2> QED
    BY <1>10, <2>4, <2>5, <2>6
<1>13. CASE DeleteWorkspaces({})
  <2>1. gc' = NoGC /\ UNCHANGED <<archive, ref>>
    BY <1>13 DEF DeleteWorkspaces, GCStep
  <2>2. gc' \in GCRow /\ gc'.at = "off" /\ gc'.archives = {} /\ gc'.refs = {}
    BY <2>1 DEF NoGC, GCRow
  <2> QED
    BY <1>4, <2>1, <2>2 DEF WholeJobsAreKnown, Candidates
<1> QED
  BY <1>6, <1>7, <1>8, <1>9, <1>11, <1>12, <1>13 DEF GCNext

LEMMA JobsStep == JobsInv /\ [JobsNext]_jobsVars => JobsInv'
<1> SUFFICES ASSUME JobsInv, [JobsNext]_jobsVars PROVE JobsInv'
  OBVIOUS
<1>1. CASE UNCHANGED jobsVars
  <2>1. UNCHANGED <<job, held, snapshot, interrupted, remote, archive, ref, gc>> /\ TheRepo' = TheRepo
    BY <1>1 DEF jobsVars, TheRepo
  <2> QED
    BY <2>1 DEF JobsInv, JobTypes, FileTypes, JobsHold, WholeFiles, WholeJobsAreKnown, Candidates, Has
<1> QED
  BY <1>1, JobsWork, JobsRest, JobsCollected DEF JobsNext

\* What is left of the comment of artifact_gc.py that SnapshotsAreKept refutes:
\* as long as a collection job is not interrupted between its fetch and its
\* row (service.py, _collect_repository), the collector never takes its files,
\* however many jobs, pushes and passes there are.
THEOREM WholeJobsStayKept ==
    ASSUME Repos # {}
    PROVE  JobsSpec => []WholeJobsAreKept
<1>1. TheRepo \in Repos
  BY DEF TheRepo
<1>2. JobsInit => JobsInv
  BY <1>1, JobsInitially
<1>3. JobsInv => WholeJobsAreKept
  BY DEF JobsInv, JobTypes, WholeFiles, WholeJobsAreKept
<1> QED
  BY <1>2, <1>3, JobsStep, PTL DEF JobsSpec
=============================================================================
