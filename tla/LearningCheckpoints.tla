------------------------- MODULE LearningCheckpoints --------------------------
(***************************************************************************)
(* The saved versions of one student's work on one assignment              *)
(* (learning_checkpoints.py): an index file, an archive for each version,  *)
(* and a Git repository with a reference for each version.  The index      *)
(* decides; a save first removes what it does not name, then writes the    *)
(* new version next to the old ones, publishes the index by one rename and *)
(* removes what the new index no longer names.  It may fail or die at each *)
(* step, and the student's client then sends the same save again.          *)
(***************************************************************************)
EXTENDS Integers, Sequences, SequencesExt, FiniteSets

CONSTANTS
    Keys,        \* idempotency keys of saves
    Archives,    \* archive files a client may send
    ContentOf,   \* the content of each: it may be packed in several ways
    MaxVersions, \* versions the index keeps
    MaxKeys,     \* idempotency keys the index keeps
    MaxSaves,    \* bound: saves started
    MaxRepacks   \* bound: repacks by an operator

ASSUME CheckpointAssumption ==
    /\ DOMAIN ContentOf = Archives
    /\ {MaxVersions, MaxKeys} \subseteq Nat \ {0}
    /\ {MaxSaves, MaxRepacks} \subseteq Nat

VARIABLES
    index,    \* index.json: the versions and the keys, newest first
    archives, \* files in archives/
    refs,     \* refs/checkpoints/
    loose,    \* versions whose objects are loose in the object store
    packed,   \* versions whose objects are in a pack
    marker,   \* .git-reclaim-pending: "none", "empty" or "set"
    save,     \* the save that holds the owner's lock
    recent,   \* the last version is younger than the minimal interval
    answered, \* history: saves that were answered with a version
    dropped,  \* history: keys and versions the index no longer keeps
    saves, repacks

repoVars == <<refs, loose, packed, marker>>
storeVars == <<index, archives, repoVars, recent>>
checkpointVars == <<index, archives, refs, loose, packed, marker, save, recent,
                    answered, dropped, saves, repacks>>

NoSave == [at |-> "idle"]
EmptyIndex == [versions |-> <<>>, keys |-> <<>>]

CheckpointInit ==
    /\ index = EmptyIndex
    /\ archives = {} /\ refs = {} /\ loose = {} /\ packed = {}
    /\ marker = "none" /\ save = NoSave /\ recent = FALSE
    /\ answered = {} /\ dropped = {}
    /\ saves = 0 /\ repacks = 0

Ids(ledger) == {v.id : v \in ToSet(ledger.versions)}
KeysOf(ledger) == {k.key : k \in ToSet(ledger.keys)}
Files(ledger) == {v.archive : v \in ToSet(ledger.versions)}
Moves(step) == save' = [save EXCEPT !.at = step]

---------------------------------------------------------------------------
(* Reclamation, under the lock, for the ledger the save works with.        *)

\* The save takes the lock without waiting and reads the index; a number
\* stands for the fresh random id of the version it may create.
BeginSave(key, archive) ==
    /\ save = NoSave /\ saves < MaxSaves
    /\ saves' = saves + 1
    /\ save' = [at |-> "mark", after |-> "check", key |-> key, archive |-> archive,
                id |-> saves + 1, ledger |-> index]
    /\ UNCHANGED <<storeVars, answered, dropped, repacks>>

Expired == refs \ Ids(save.ledger)

\* Loose objects are pruned; only packed ones need the durable marker.
MarksNever == FALSE
Marks == Expired # {} /\ marker = "none" /\ packed # {}

\* The marker is created and then written.  A marker found half written
\* stops this save and every later one.
Mark ==
    /\ save.at = "mark"
    /\ \/ /\ Marks
          /\ marker' = "empty" /\ Moves("write")
       \/ /\ ~Marks /\ marker # "empty"
          /\ Moves("unref") /\ UNCHANGED marker
    /\ UNCHANGED <<index, archives, refs, loose, packed, recent, answered, dropped, saves, repacks>>

WriteMark ==
    /\ save.at = "write"
    /\ marker' = "set" /\ Moves("unref")
    /\ UNCHANGED <<index, archives, refs, loose, packed, recent, answered, dropped, saves, repacks>>

\* References are deleted one command at a time.
Unref ==
    /\ save.at = "unref"
    /\ \/ \E id \in Expired : refs' = refs \ {id} /\ UNCHANGED save
       \/ Expired = {} /\ Moves("repack") /\ UNCHANGED refs
    /\ UNCHANGED <<index, archives, loose, packed, marker, recent, answered, dropped, saves, repacks>>

\* git repack -Ad: what a reference reaches is packed, the rest becomes loose.
Repack ==
    /\ save.at = "repack"
    /\ IF marker = "set"
         THEN /\ packed' = (packed \cup loose) \cap refs
              /\ loose' = (packed \cup loose) \ refs
         ELSE UNCHANGED <<packed, loose>>
    /\ Moves("prune")
    /\ UNCHANGED <<index, archives, refs, marker, recent, answered, dropped, saves, repacks>>

\* git prune removes loose objects only.
Prune ==
    /\ save.at = "prune"
    /\ loose' = loose \cap refs
    /\ Moves("unmark")
    /\ UNCHANGED <<index, archives, refs, packed, marker, recent, answered, dropped, saves, repacks>>

Unmark ==
    /\ save.at = "unmark"
    /\ marker' = "none" /\ Moves("tidy")
    /\ UNCHANGED <<index, archives, refs, loose, packed, recent, answered, dropped, saves, repacks>>

\* Archives are unlinked one by one.
Kept(ledger) == Files(ledger)

Tidy ==
    /\ save.at = "tidy"
    /\ \/ \E a \in archives \ Kept(save.ledger) : archives' = archives \ {a} /\ UNCHANGED save
       \/ archives \subseteq Kept(save.ledger) /\ Moves(save.after) /\ UNCHANGED archives
    /\ UNCHANGED <<index, repoVars, recent, answered, dropped, saves, repacks>>

---------------------------------------------------------------------------
(* The decision.                                                           *)

KnownWithArchive == {k \in ToSet(save.ledger.keys) : k.key = save.key /\ k.archive = save.archive}
Known == {k \in ToSet(save.ledger.keys) : k.key = save.key}
Latest == IF save.ledger.versions = <<>> THEN {} ELSE {Head(save.ledger.versions)}
SameAsLatest == {v \in Latest : ContentOf[v.archive] = ContentOf[save.archive]}

\* The index after the save: its key comes first, and a new version too.  The
\* limits drop the oldest; what the sizes allow is left open down to one.
WithKey(ledger, id) ==
    [ledger EXCEPT !.keys = SubSeq(<<[key |-> save.key, archive |-> save.archive, id |-> id]>> \o @, 1,
                                   IF Len(@) < MaxKeys THEN Len(@) + 1 ELSE MaxKeys)]
WithVersion(ledger, kept) ==
    [ledger EXCEPT !.versions = SubSeq(<<[id |-> save.id, archive |-> save.archive]>> \o @, 1, kept)]

\* A key seen before is answered with the version it made, whose archive is
\* verified once more; a changed archive or an expired version is refused.
Replay ==
    /\ save.at = "check" /\ Known # {}
    /\ \E k \in Known :
           IF k.archive = save.archive /\ \E v \in ToSet(save.ledger.versions) : v.id = k.id /\ v.archive \in archives
             THEN save' = [save EXCEPT !.at = "answer", !.id = k.id]
             ELSE save' = NoSave
    /\ UNCHANGED <<storeVars, answered, dropped, saves, repacks>>

\* Content that did not change is no new version.
Unchanged ==
    /\ save.at = "check" /\ Known = {}
    /\ \E v \in SameAsLatest :
           save' = [save EXCEPT !.at = "publish", !.id = v.id, !.ledger = WithKey(@, v.id)]
    /\ UNCHANGED <<storeVars, answered, dropped, saves, repacks>>

\* Content that changes too often is refused.
Decide ==
    /\ save.at = "check" /\ Known = {} /\ SameAsLatest = {}
    /\ IF Latest # {} /\ recent THEN save' = NoSave ELSE Moves("objects")
    /\ UNCHANGED <<storeVars, answered, dropped, saves, repacks>>

---------------------------------------------------------------------------
(* The new version.                                                        *)

WriteObjects ==
    /\ save.at = "objects"
    /\ loose' = loose \cup {save.id} /\ Moves("ref")
    /\ UNCHANGED <<index, archives, refs, packed, marker, recent, answered, dropped, saves, repacks>>

WriteRef ==
    /\ save.at = "ref"
    /\ refs' = refs \cup {save.id} /\ Moves("archive")
    /\ UNCHANGED <<index, archives, loose, packed, marker, recent, answered, dropped, saves, repacks>>

\* An archive that is there already is not written again.
WriteArchive ==
    /\ save.at = "archive"
    /\ archives' = archives \cup {save.archive}
    /\ \E kept \in 1 .. MaxVersions :
           /\ kept <= Len(save.ledger.versions) + 1
           /\ save' = [save EXCEPT !.at = "publish",
                                   !.ledger = WithKey(WithVersion(@, kept), save.id)]
    /\ UNCHANGED <<index, repoVars, recent, answered, dropped, saves, repacks>>

\* The rename of the index, after the archive was verified once more.
Publish ==
    /\ save.at = "publish"
    /\ \E v \in ToSet(save.ledger.versions) : v.id = save.id /\ v.archive \in archives
    /\ index' = save.ledger
    /\ dropped' = dropped \cup (Ids(index) \ Ids(save.ledger)) \cup (KeysOf(index) \ KeysOf(save.ledger))
    /\ recent' = (recent \/ save.id \notin Ids(index))
    /\ save' = [save EXCEPT !.at = "mark", !.after = "answer"]
    /\ UNCHANGED <<archives, repoVars, answered, saves, repacks>>

Answer ==
    /\ save.at = "answer"
    /\ answered' = answered \cup {[key |-> save.key, archive |-> save.archive, id |-> save.id]}
    /\ save' = NoSave
    /\ UNCHANGED <<storeVars, dropped, saves, repacks>>

\* A step fails, the student's session ended, or the server died: the lock is
\* free again and the client has no answer.
FailSave ==
    /\ save # NoSave
    /\ save' = NoSave
    /\ UNCHANGED <<storeVars, answered, dropped, saves, repacks>>

Wait ==
    /\ recent /\ save = NoSave
    /\ recent' = FALSE
    /\ UNCHANGED <<index, archives, repoVars, save, answered, dropped, saves, repacks>>

\* A backup or an operator packs the repository while no save runs.
OperatorRepack ==
    /\ save = NoSave /\ repacks < MaxRepacks /\ loose \cap refs # {}
    /\ repacks' = repacks + 1
    /\ packed' = packed \cup (loose \cap refs)
    /\ loose' = loose \ refs
    /\ UNCHANGED <<index, archives, refs, marker, save, recent, answered, dropped, saves>>

CheckpointNext ==
    \/ \E k \in Keys, a \in Archives : BeginSave(k, a)
    \/ Mark \/ WriteMark \/ Unref \/ Repack \/ Prune \/ Unmark \/ Tidy
    \/ Replay \/ Unchanged \/ Decide
    \/ WriteObjects \/ WriteRef \/ WriteArchive \/ Publish \/ Answer
    \/ FailSave \/ Wait \/ OperatorRepack

CheckpointSpec == CheckpointInit /\ [][CheckpointNext]_checkpointVars

---------------------------------------------------------------------------
(* Properties.                                                             *)

\* Every version the index names can be downloaded and restored, whatever save
\* was interrupted; an answered save is in the index until retention drops it,
\* with the content that was sent, and its key is never answered with another
\* version as long as the index keeps the key.
SavesAreKept ==
    /\ \A v \in ToSet(index.versions) :
           v.archive \in archives /\ v.id \in refs /\ v.id \in loose \cup packed
    /\ \A s \in answered :
           \/ s.id \in dropped
           \/ \E v \in ToSet(index.versions) :
                  v.id = s.id /\ ContentOf[v.archive] = ContentOf[s.archive]
    /\ \A s, t \in answered :
           s.key = t.key /\ s.key \notin dropped => s.id = t.id /\ s.archive = t.archive

\* When a save is answered, no code of a version that retention dropped or a
\* failed save left is in the archives or in the object store, loose or packed.
ExpiredCodeIsErased ==
    save.at = "answer" =>
        /\ refs \cup loose \cup packed = Ids(index)
        /\ archives = Files(index)

\* What a student saved is kept or erased, never half of it.
SavesAreKeptOrErased == SavesAreKept /\ ExpiredCodeIsErased
=============================================================================
