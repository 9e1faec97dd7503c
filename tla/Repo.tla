-------------------------------- MODULE Repo --------------------------------
(***************************************************************************)
(* One repository in one bucket: any number of pushes, operator commands   *)
(* and compactions at once, with no lock between them.                     *)
(***************************************************************************)
EXTENDS Push, Manage, Compact

CONSTANTS
    Seeds,       \* the repositories a run may start from: [manifest, packs]
    NewerClient  \* whether a client of a later format may rewrite gitwal.json

\* A sound repository: each ref has its history in the packs the log names,
\* and those packs are in the bucket.
Complete(m) == \A t \in Tips(m) : Reach[t] \subseteq UNION Named(m)

ASSUME SeedAssumption ==
    \A s \in Seeds : /\ s.manifest \in Manifest
                     /\ s.packs \subseteq Pack
                     /\ ValidEntries(s.manifest)
                     /\ Complete(s.manifest)
                     /\ Named(s.manifest) \subseteq s.packs

ASSUME NewerClientAssumption == NewerClient \in BOOLEAN

vars == <<storeVars, pushVars, manageVars, compactVars>>

Init ==
    /\ \E s \in Seeds : StoreInit(s.manifest, s.packs)
    /\ PushInit
    /\ ManageInit
    /\ CompactInit

-----------------------------------------------------------------------------
\* The packs a push has uploaded and its commit is to name.
PushPacks(p) == IF pc[p] \in {"prepare", "load", "put"}
                THEN {pack[p][i] : i \in Cmds(p)} \ {{}} ELSE {}

\* The packs a client still means to name in the manifest.
InFlight ==
    (UNION {PushPacks(p) : p \in Pushers})
    \cup {BasePack(snap[c]) : c \in {d \in Compactors : pc[d] \in {"load", "put"}}}

\* The packs a sweep has found unnamed and is about to look at.
Candidates == UNION {todo[c] : c \in {d \in Compactors : pc[d] = "stat"}}

\* A pack outlives the grace period (24 hours unless the operator insists).
\* The period is taken to be longer than any client takes from its upload to
\* the end of its update, and than a sweep takes from its second read of the
\* manifest to its last HEAD.
OutliveGrace(pk) ==
    /\ GracePasses
    /\ pk \in young \ (InFlight \cup Candidates)
    /\ young' = young \ {pk}
    /\ UNCHANGED <<manifest, packs, casVars, snap,
                   pushVars, manageVars, compactVars>>

\* A client of a later release moves the manifest to a format of its own.
UpgradeFormat ==
    /\ NewerClient
    /\ Writable(manifest)
    /\ manifest' = [manifest EXCEPT !.format = SupportedFormat + 1, !.seq = @ + 1]
    /\ UNCHANGED <<packs, young, casVars, snap,
                   pushVars, manageVars, compactVars>>

PusherStep(p)    == PushStep(p) /\ UNCHANGED <<manageVars, compactVars>>
OperatorStep(a)  == AdminStep(a) /\ UNCHANGED <<pushVars, compactVars>>
CompactorStep(c) == CompactStep(c) /\ UNCHANGED <<pushVars, manageVars>>

\* Every process has ended; nothing more happens.
Quiescent ==
    /\ \A c \in Client : pc[c] = "done"
    /\ UNCHANGED vars

Next ==
    \/ \E p \in Pushers : PusherStep(p)
    \/ \E a \in Admins : OperatorStep(a)
    \/ \E c \in Compactors : CompactorStep(c)
    \/ \E pk \in young : OutliveGrace(pk)
    \/ UpgradeFormat
    \/ Quiescent

Spec == Init /\ [][Next]_vars

\* A process that is not killed goes on until it ends: its requests are
\* answered or raise.  Nothing is promised of the clock or of newer clients.
Fairness ==
    /\ \A p \in Pushers : WF_vars(PusherStep(p))
    /\ \A a \in Admins : WF_vars(OperatorStep(a))
    /\ \A c \in Compactors : WF_vars(CompactorStep(c))

FairSpec == Spec /\ Fairness

-----------------------------------------------------------------------------
\* TypeOK: the bucket, and what every client holds of it between its requests,
\* are values the program can have.
TypeOK ==
    /\ StoreTypeOK(PusherPC \cup AdminPC \cup CompactorPC)
    /\ \A p \in Pushers : pc[p] \in PusherPC
    /\ \A a \in Admins : pc[a] \in AdminPC
    /\ \A c \in Compactors : pc[c] \in CompactorPC
    /\ PushTypeOK
    /\ ManageTypeOK
    /\ CompactTypeOK

\* RefsResolve: what a ref names can be fetched, with all its history, from
\* the packs the manifest names; no race of pushes and compactions may lose an
\* object.  (Packs are built before the commit, against an older manifest.)
RefsResolve == Complete(manifest)

\* NoMissingPack: every pack the manifest names is in the bucket, whatever
\* compact deletes before, during or after the commit that names it.
NoMissingPack == Named(manifest) \subseteq packs

\* The base packs that may yet be committed: entries that have left the log do
\* not come back, so a compaction built on them is rejected for good.
BasesInFlight ==
    {BasePack(snap[c]) :
        c \in {d \in Compactors : /\ pc[d] \in {"load", "put"}
                                  /\ snap[d].entries = manifest.entries}}

\* InFlightKept: a pack uploaded by a push that has not committed yet, or by a
\* compaction that still can, is not deleted under it: what the grace period
\* is for.
InFlightKept ==
    (UNION {PushPacks(p) : p \in Pushers}) \cup BasesInFlight \subseteq packs

\* The packs some compaction has decided to delete.
Condemned == (UNION {todo[c] : c \in {d \in Compactors : pc[d] = "delete"}})
             \cup (UNION {doomed[c] : c \in Compactors})

\* A push builds no pack that is named, condemned or another's, a compaction
\* none that is condemned or a push's.
BuildsAnew ==
    /\ \A p \in Pushers : PreparePack(p) =>
          PackObjects(p, snap[p], Current(p).sha) \notin
              Named(manifest) \cup Condemned \cup BasesInFlight
              \cup (UNION {PushPacks(q) : q \in Pushers \ {p}})
    /\ \A c \in Compactors : UploadBase(c) =>
          BasePack(snap[c]) \notin
              Condemned \cup (UNION {PushPacks(p) : p \in Pushers})

\* PacksBuiltAnew: nobody builds a pack that is already on its way in or out.
\* Packs are content-addressed and the code does not look, so whether this
\* holds is up to what is pushed: a ref dropped and pushed again breaks it.
PacksBuiltAnew == [][BuildsAnew]_vars

\* LogValid: the log never holds what doctor's schema audit calls an error: a
\* seq or a pack in two entries, or an entry ahead of the manifest's seq.
LogValid == ValidEntries(manifest)

\* SeqGrows: each rewrite of the manifest raises seq, so no content, hence no
\* ETag, comes back, and If-Match cannot take a later state for the one read.
SeqGrows == [][manifest' # manifest => manifest'.seq > manifest.seq]_vars

-----------------------------------------------------------------------------
Ok(p) == {i \in Cmds(p) : result[p][i] = "ok"}

\* A ref whose history somebody has leave to replace.
MayBeRewritten(r) ==
    \/ \E p \in Pushers : \E i \in Cmds(p) :
          /\ batch[p][i].ref = r
          /\ \/ batch[p][i].force
             \/ batch[p][i].lease # NoLease
             \/ batch[p][i].sha = None
    \/ \E a \in Admins : task[a].op = "delete" /\ task[a].ref = r

\* NoLostUpdate: a commit whose push was told ok stays part of the ref's
\* history, unless somebody forces or deletes that ref: of two plain pushes
\* that race, the later commit contains the earlier or is refused.
NoLostUpdate ==
    \A p \in Pushers : \A i \in Ok(p) :
        LET r == batch[p][i].ref IN
        \/ MayBeRewritten(r)
        \/ /\ manifest.refs[r] # None
           /\ IsAncestor(batch[p][i].sha, manifest.refs[r])

\* ReportsHonest: a helper that has ended has reported every command, ok
\* exactly for the commands its one PUT has applied (when no reply is lost).
ReportsHonest ==
    \A p \in Pushers : pc[p] = "done" =>
        Ok(p) = landed[p] /\ Pending(p, result[p]) = {}

\* OkMeansApplied: with lost replies too, ok is never said of a command that
\* S3 has not applied.
OkMeansApplied == \A p \in Pushers : Ok(p) \subseteq landed[p]

\* ExhaustedMeansUncommitted: CasExhaustedError says "nothing was committed".
ExhaustedMeansUncommitted ==
    \A p \in Pushers : outcome[p] = "exhausted" => landed[p] = {}

\* ProtectedNeverRewound: no step, whoever takes it, moves a protected ref to
\* a commit that does not contain the one it had.
ProtectedNeverRewound ==
    [][\A r \in manifest.protected \cap LiveRefs(manifest) :
          \/ manifest'.refs[r] = None
          \/ IsAncestor(manifest.refs[r], manifest'.refs[r])]_vars

\* DeletesSpareNamed: a pack that has become referenced is not collected.
DeletesSpareNamed ==
    [][\A pk \in packs \ packs' : pk \notin Named(manifest)]_vars

\* FutureFormatUntouched: a manifest of a later format, whose fields this
\* client would drop, is never rewritten by it, however far it had got.
FutureFormatUntouched == [][~Writable(manifest) => manifest' = manifest]_vars

-----------------------------------------------------------------------------
Linear == INSTANCE LinearRepo WITH refs <- manifest.refs,
                                   protected <- manifest.protected,
                                   head <- manifest.head

\* ImplementsLinearRepo: seen through git, pushes and operator commands are
\* atomic and each is allowed by the state it replaces.
ImplementsLinearRepo == Linear!Spec

\* EveryClientFinishes: no push, command or compaction retries or sweeps for
\* ever, however they contend.
EveryClientFinishes == \A c \in Client : <>(pc[c] = "done")
=============================================================================
