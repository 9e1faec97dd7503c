------------------------------ MODULE Compact ------------------------------
(***************************************************************************)
(* git-s3 compact (Compact in src/git_remote_s3/manage.py): collapse the   *)
(* entry log into one base pack, delete the packs it supersedes, then      *)
(* sweep the orphans that have outlived the grace period.                  *)
(***************************************************************************)
EXTENDS WalStore

VARIABLES
    superseded,  \* superseded[c]: the packs c's commit made dead
    todo,        \* todo[c]: the packs c has yet to delete, or to stat
    doomed       \* doomed[c]: the orphans c found older than the grace period

compactVars == <<superseded, todo, doomed>>

CompactorPC == {"idle", "upload", "load", "put",
                "delete", "reread", "stat", "done"}

CompactTypeOK ==
    /\ superseded \in [Compactors -> SUBSET Pack]
    /\ todo \in [Compactors -> SUBSET Pack]
    /\ doomed \in [Compactors -> SUBSET Pack]

CompactInit ==
    /\ superseded = [c \in Compactors |-> {}]
    /\ todo = [c \in Compactors |-> {}]
    /\ doomed = [c \in Compactors |-> {}]

-----------------------------------------------------------------------------
\* The clone must have, complete, every ref the manifest names.
CanCompact(c, m) ==
    /\ Exists(m)
    /\ LiveRefs(m) # {}
    /\ c \notin Shallow
    /\ Tips(m) \subseteq Holds[c]

StartCompact(c) ==
    /\ pc[c] = "idle"
    /\ IF CanCompact(c, manifest)
       THEN Goto(c, "upload") /\ snap' = [snap EXCEPT ![c] = manifest]
       ELSE Goto(c, "done") /\ UNCHANGED snap
    /\ UNCHANGED <<bucketVars, attempt, base, compactVars>>

UploadBase(c) ==
    /\ pc[c] = "upload"
    /\ StorePack(BasePack(snap[c]))
    /\ Goto(c, "load")
    /\ UNCHANGED <<manifest, attempt, snap, base, compactVars>>

UploadBaseFails(c) ==
    /\ pc[c] = "upload"
    /\ \/ UNCHANGED <<packs, young>>
       \/ LostReplies /\ StorePack(BasePack(snap[c]))
    /\ Goto(c, "done")
    /\ snap' = [snap EXCEPT ![c] = EmptyManifest]
    /\ UNCHANGED <<manifest, attempt, base, compactVars>>

-----------------------------------------------------------------------------
Fingerprint(m) == <<m.entries, m.refs>>

\* Mutant: nobody asks whether the repository changed.
FingerprintIgnored(c) == FALSE

\* The repository changed since the base pack was built.
FingerprintMoved(c) == Fingerprint(base[c]) # Fingerprint(snap[c])

CompactCandidate(c) == ApplyCompaction(base[c], BasePack(snap[c]))

CompactLoad(c) == LoadManifest(c) /\ UNCHANGED compactVars

CompactCommitted(c) ==
    LET dead == SupersededPacks(base[c], CompactCandidate(c)) IN
    /\ ~FingerprintMoved(c)
    /\ PutCommitted(c, CompactCandidate(c), "delete")
    /\ superseded' = [superseded EXCEPT ![c] = dead]
    /\ todo' = [todo EXCEPT ![c] = dead]
    /\ UNCHANGED <<packs, young, doomed>>

CompactRefused(c) ==
    /\ ~FingerprintMoved(c)
    /\ PutRefused(c, CompactCandidate(c))
    /\ UNCHANGED <<packs, young, compactVars>>

CompactFailed(c) ==
    /\ \/ /\ pc[c] = "put" => ~FingerprintMoved(c)
          /\ UpdateRaised(c, "done")
       \/ /\ ~FingerprintMoved(c)
          /\ \/ PutExhausted(c, CompactCandidate(c), "done")
             \/ PutRaised(c, CompactCandidate(c), "done")
    /\ UNCHANGED <<packs, young, compactVars>>

CompactRejected(c) ==
    /\ FingerprintMoved(c)
    /\ MutatorRejects(c, "done")
    /\ UNCHANGED <<packs, young, compactVars>>

-----------------------------------------------------------------------------
\* delete_packs, strictly after the commit; a delete that fails is only told.
DeleteSuperseded(c) ==
    \E pk \in todo[c] :
        /\ pc[c] = "delete"
        /\ DropPack(pk) \/ UNCHANGED <<packs, young>>
        /\ todo' = [todo EXCEPT ![c] = @ \ {pk}]
        /\ UNCHANGED <<manifest, casVars, snap, superseded, doomed>>

\* find_orphans: list the packs first ...
ListPacks(c) ==
    /\ pc[c] = "delete"
    /\ todo[c] = {}
    /\ todo' = [todo EXCEPT ![c] = packs \ superseded[c]]
    /\ superseded' = [superseded EXCEPT ![c] = {}]
    /\ Goto(c, "reread")
    /\ UNCHANGED <<bucketVars, attempt, snap, base, doomed>>

\* ... then read the manifest again; what it names by now is no orphan ...
RereadManifest(c) ==
    /\ pc[c] = "reread"
    /\ todo' = [todo EXCEPT ![c] =
                  IF Exists(manifest) THEN @ \ Named(manifest) ELSE {}]
    /\ Goto(c, "stat")
    /\ UNCHANGED <<bucketVars, attempt, snap, base,
                   superseded, doomed>>

\* Mutant: the age of a candidate is not looked at.
StatPackAnyAge(c) ==
    \E pk \in todo[c] :
        /\ pc[c] = "stat"
        /\ todo' = [todo EXCEPT ![c] = @ \ {pk}]
        /\ doomed' = [doomed EXCEPT ![c] = @ \cup {pk}]
        /\ UNCHANGED <<bucketVars, casVars, snap, superseded>>

\* ... and HEAD each candidate: one that is young, gone or unreadable is kept.
StatPack(c) ==
    \E pk \in todo[c] :
        /\ pc[c] = "stat"
        /\ todo' = [todo EXCEPT ![c] = @ \ {pk}]
        /\ \/ /\ pk \in packs \ young
              /\ doomed' = [doomed EXCEPT ![c] = @ \cup {pk}]
           \/ UNCHANGED doomed
        /\ UNCHANGED <<bucketVars, casVars, snap, superseded>>

\* The old orphans are deleted once every candidate has been looked at.
ReapOrphan(c) ==
    \E pk \in doomed[c] :
        /\ pc[c] = "stat"
        /\ todo[c] = {}
        /\ DropPack(pk) \/ UNCHANGED <<packs, young>>
        /\ doomed' = [doomed EXCEPT ![c] = @ \ {pk}]
        /\ UNCHANGED <<manifest, casVars, snap, superseded, todo>>

\* The sweep is over, or its listing or its second read has failed.
EndSweep(c) ==
    /\ \/ pc[c] = "delete" /\ todo[c] = {}
       \/ pc[c] = "reread"
       \/ pc[c] = "stat" /\ todo[c] = {} /\ doomed[c] = {}
    /\ Goto(c, "done")
    /\ todo' = [todo EXCEPT ![c] = {}]
    /\ superseded' = [superseded EXCEPT ![c] = {}]
    /\ UNCHANGED <<bucketVars, attempt, snap, base, doomed>>

CompactStep(c) ==
    \/ StartCompact(c)
    \/ UploadBase(c)
    \/ UploadBaseFails(c)
    \/ CompactLoad(c)
    \/ CompactCommitted(c)
    \/ CompactRefused(c)
    \/ CompactFailed(c)
    \/ CompactRejected(c)
    \/ DeleteSuperseded(c)
    \/ ListPacks(c)
    \/ RereadManifest(c)
    \/ StatPack(c)
    \/ ReapOrphan(c)
    \/ EndSweep(c)
=============================================================================
