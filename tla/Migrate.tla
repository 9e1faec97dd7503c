------------------------------ MODULE Migrate ------------------------------
(***************************************************************************)
(* git-s3 migrate and migrate --finalize (Migrate in                       *)
(* src/git_remote_s3/manage.py): a repository of the pre-manifest format   *)
(* gets a manifest beside its legacy keys, which a second command deletes. *)
(*                                                                         *)
(* The clients of that format are not part of the code; what they store is *)
(* modelled from how migrate reads it: a bundle per ref, named by ref and  *)
(* tip and holding its whole history, a PROTECTED# marker per protected    *)
(* ref, and one HEAD.  A push puts the new bundle, then deletes the old.   *)
(***************************************************************************)
EXTENDS WalStore

CONSTANTS
    Migrators,       \* processes that run migrate
    Finalizers,      \* processes that run migrate --finalize --yes
    FullClone,       \* FullClone[g]: the commits in migrator g's clone
    ShallowClone,    \* the migrators whose clone is shallow
    LegacySeeds,     \* the sets of legacy keys a run may start with
    LegacyWrites,    \* the keys that clients of the old format may still put
    LegacyStops,     \* whether those clients stop once a migration begins
    FinalizeAfter    \* the answers of migrate that an operator finalizes upon

LegacyKey == [kind : {"bundle", "marker", "head"}, ref : Ref, sha : Commit \cup {None}]

Answer == {"none", "refused", "exists", "failed", "unverified", "migrated"}

\* All refs share the one HEAD key; a bundle's key holds its tip.
SameKey(k, l) ==
    k.kind = l.kind /\ (k.kind = "head" \/ (k.ref = l.ref /\ k.sha = l.sha))

ASSUME MigrateAssumption ==
    /\ FullClone \in [Migrators -> SUBSET Commit]
    /\ ShallowClone \subseteq Migrators
    /\ LegacySeeds \subseteq SUBSET LegacyKey
    /\ \A s \in LegacySeeds : \A k, l \in s : SameKey(k, l) => k = l
    /\ LegacyWrites \subseteq LegacyKey
    /\ \A k \in (UNION LegacySeeds) \cup LegacyWrites : k.kind = "bundle" <=> k.sha # None
    /\ LegacyStops \in BOOLEAN
    /\ FinalizeAfter \subseteq Answer

VARIABLES
    legacy,   \* the legacy keys in the bucket
    unsent,   \* the keys of LegacyWrites not put yet
    stage,    \* stage[g]: where migrator g is
    draft,    \* draft[g]: the manifest g is putting together
    doubt,    \* doubt[g]: whether g's verification has found a problem
    answer,   \* answer[g]: what migrate told its operator
    step,     \* step[z]: where finalizer z is
    checked,  \* checked[z]: the manifest z has read
    condemned \* condemned[z]: the legacy keys z has yet to delete

legacyVars   == <<legacy, unsent>>
migratorVars == <<stage, draft, doubt, answer>>
finalizeVars == <<step, checked, condemned>>
migrateVars  == <<legacyVars, migratorVars, finalizeVars>>

\* MigrateTypeOK: the legacy keys, and where migrate and --finalize are among
\* their requests, are values the program can have.
MigrateTypeOK ==
    /\ legacy \subseteq LegacyKey
    /\ unsent \subseteq LegacyWrites
    /\ stage \in [Migrators -> {"idle", "bundles", "head", "markers", "pack",
                                "create", "verify", "rebuild", "done"}]
    /\ draft \in [Migrators -> Manifest]
    /\ doubt \in [Migrators -> BOOLEAN]
    /\ answer \in [Migrators -> Answer]
    /\ step \in [Finalizers -> {"idle", "packs", "keys", "delete", "done"}]
    /\ checked \in [Finalizers -> Manifest]
    /\ condemned \in [Finalizers -> SUBSET LegacyKey]

MigrateInit ==
    /\ legacy \in LegacySeeds
    /\ unsent = LegacyWrites
    /\ stage = [g \in Migrators |-> "idle"]
    /\ draft = [g \in Migrators |-> EmptyManifest]
    /\ doubt = [g \in Migrators |-> FALSE]
    /\ answer = [g \in Migrators |-> "none"]
    /\ step = [z \in Finalizers |-> "idle"]
    /\ checked = [z \in Finalizers |-> EmptyManifest]
    /\ condemned = [z \in Finalizers |-> {}]

-----------------------------------------------------------------------------
\* The clients of the old format.
LegacyClientsWork ==
    LegacyStops => \A g \in Migrators : stage[g] = "idle"

LegacyPut(k) ==
    /\ LegacyClientsWork
    /\ unsent' = unsent \ {k}
    /\ legacy' = {l \in legacy : ~SameKey(k, l)} \cup {k}
    /\ UNCHANGED <<migratorVars, finalizeVars>>

BundlesOf(r) == {k \in legacy : k.kind = "bundle" /\ k.ref = r}

\* The bundle that a newer one of its ref contains.
Outdated(k) ==
    \E l \in BundlesOf(k.ref) : l # k /\ IsAncestor(k.sha, l.sha)

LegacyTidy(k) ==
    /\ LegacyClientsWork
    /\ k.kind = "bundle"
    /\ Outdated(k)
    /\ legacy' = legacy \ {k}
    /\ UNCHANGED <<unsent, migratorVars, finalizeVars>>

-----------------------------------------------------------------------------
Stage(g, label) == stage' = [stage EXCEPT ![g] = label]

\* migrate exits: its locals die.
Answers(g, how) ==
    /\ Stage(g, "done")
    /\ answer' = [answer EXCEPT ![g] = how]
    /\ draft' = [draft EXCEPT ![g] = EmptyManifest]
    /\ doubt' = [doubt EXCEPT ![g] = FALSE]

Drafts(g, label, m) ==
    /\ Stage(g, label)
    /\ draft' = [draft EXCEPT ![g] = m]
    /\ UNCHANGED <<doubt, answer>>

StartMigrate(g) ==
    /\ stage[g] = "idle"
    /\ IF Exists(manifest) THEN Answers(g, "exists")
       ELSE Drafts(g, "bundles", EmptyManifest)
    /\ UNCHANGED <<bucketVars, legacyVars, finalizeVars>>

\* Mutant: of several bundles of a ref any one will do.
DuplicatesIgnored(bundles) == {}

\* The refs that carry more than one bundle.
Duplicates(bundles) ==
    {k.ref : k \in {b \in bundles : \E l \in bundles : l.ref = b.ref /\ l # b}}

\* The refs, one bundle each, as one listing of the keys has them.
BundleRefs(bundles) ==
    [r \in Ref |-> IF \E k \in bundles : k.ref = r
                   THEN (CHOOSE k \in bundles : k.ref = r).sha
                   ELSE None]

\* What the clone must hold, and in full.
IncompleteBundles(g, bundles) ==
    {k \in bundles : ~(Reach[k.sha] \subseteq FullClone[g])}

\* Mutant: a repository without a bundle is migrated too.
RefusesButEmpty(g, bundles) ==
    \/ Duplicates(bundles) # {}
    \/ g \in ShallowClone
    \/ IncompleteBundles(g, bundles) # {}

\* preflight, once it has listed the bundles.
Refuses(g, bundles) ==
    \/ Duplicates(bundles) # {}
    \/ bundles = {}
    \/ g \in ShallowClone
    \/ IncompleteBundles(g, bundles) # {}

ReadBundles(g) ==
    LET bundles == {k \in legacy : k.kind = "bundle"} IN
    /\ stage[g] = "bundles"
    /\ IF Refuses(g, bundles) THEN Answers(g, "refused")
       ELSE Drafts(g, "head", [draft[g] EXCEPT !.refs = BundleRefs(bundles)])
    /\ UNCHANGED <<bucketVars, legacyVars, finalizeVars>>

\* Mutant: any branch will do for the default.
ReadAnyHead(g) ==
    /\ stage[g] = "head"
    /\ Drafts(g, "markers",
              [draft[g] EXCEPT !.head = CHOOSE r \in LiveRefs(draft[g]) : TRUE])
    /\ UNCHANGED <<bucketVars, legacyVars, finalizeVars>>

\* A HEAD that names no ref is left out.
ReadHead(g) ==
    LET named == {k.ref : k \in {l \in legacy : l.kind = "head"}}
                     \cap LiveRefs(draft[g]) IN
    /\ stage[g] = "head"
    /\ Drafts(g, "markers",
              [draft[g] EXCEPT !.head = IF named = {} THEN None
                                        ELSE CHOOSE r \in named : TRUE])
    /\ UNCHANGED <<bucketVars, legacyVars, finalizeVars>>

\* Mutant: only the refs that carry a bundle can be protected.
ReadMarkersOfRefs(g) ==
    /\ stage[g] = "markers"
    /\ Drafts(g, "pack",
              [draft[g] EXCEPT !.protected =
                  {k.ref : k \in {l \in legacy : l.kind = "marker"}}
                      \cap LiveRefs(draft[g])])
    /\ UNCHANGED <<bucketVars, legacyVars, finalizeVars>>

ReadMarkers(g) ==
    /\ stage[g] = "markers"
    /\ Drafts(g, "pack",
              [draft[g] EXCEPT !.protected =
                  {k.ref : k \in {l \in legacy : l.kind = "marker"}}])
    /\ UNCHANGED <<bucketVars, legacyVars, finalizeVars>>

\* Mutant: the pack is built from the default branch.
UploadDraftOfHead(g) ==
    LET pk == Reach[draft[g].refs[draft[g].head]] IN
    /\ stage[g] = "pack"
    /\ draft[g].head # None
    /\ StorePack(pk)
    /\ Drafts(g, "create",
              [draft[g] EXCEPT !.seq = 1, !.entries = {[seq |-> 1, pack |-> pk]}])
    /\ UNCHANGED <<manifest, legacyVars, finalizeVars>>

\* One base pack of everything; it becomes the only entry of seq 1.
UploadDraft(g) ==
    /\ stage[g] = "pack"
    /\ StorePack(BasePack(draft[g]))
    /\ Drafts(g, "create",
              [draft[g] EXCEPT !.seq = 1,
                               !.entries = {[seq |-> 1, pack |-> BasePack(draft[g])]}])
    /\ UNCHANGED <<manifest, legacyVars, finalizeVars>>

\* Mutant: the manifest is put whatever is there by now.
CreateUnconditionally(g) ==
    /\ stage[g] = "create"
    /\ manifest' = draft[g]
    /\ Drafts(g, "verify", draft[g])
    /\ UNCHANGED <<packs, young, legacyVars, finalizeVars>>

\* WalStore.create: one conditional PUT of a manifest that must not exist.
Create(g) ==
    /\ stage[g] = "create"
    /\ ~Exists(manifest)
    /\ manifest' = draft[g]
    /\ Drafts(g, "verify", draft[g])
    /\ UNCHANGED <<packs, young, legacyVars, finalizeVars>>

\* The PUT is refused or raises, and migrate fails.  S3 has not applied it, or
\* it has and what is refused is the SDK's second sending.
CreateFails(g) ==
    /\ stage[g] = "create"
    /\ \/ UNCHANGED manifest
       \/ LostReplies /\ ~Exists(manifest) /\ manifest' = draft[g]
    /\ Answers(g, "failed")
    /\ UNCHANGED <<packs, young, legacyVars, finalizeVars>>

\* What verify compares of the manifest it reads back; not the protection.
AsCreated(g) ==
    /\ ValidEntries(manifest)
    /\ manifest.seq = 1
    /\ manifest.refs = draft[g].refs
    /\ manifest.head = draft[g].head
    /\ Named(manifest) = Named(draft[g])

VerifyManifest(g) ==
    /\ stage[g] = "verify"
    /\ Stage(g, "rebuild")
    /\ doubt' = [doubt EXCEPT ![g] = ~AsCreated(g)]
    /\ UNCHANGED <<bucketVars, draft, answer, legacyVars, finalizeVars>>

\* The pack is fetched and indexed in an empty repository; a problem now or
\* before is reported together with the advice to roll back.
VerifyPack(g) ==
    /\ stage[g] = "rebuild"
    /\ \/ /\ Named(draft[g]) \subseteq packs
          /\ ~doubt[g]
          /\ Answers(g, "migrated")
       \/ Answers(g, "unverified")
    /\ UNCHANGED <<bucketVars, legacyVars, finalizeVars>>

\* A request or a git subprocess fails; so may the upload, done or not.
MigrateFails(g) ==
    /\ stage[g] \in {"idle", "bundles", "head", "markers", "pack", "verify"}
    /\ Answers(g, "failed")
    /\ \/ UNCHANGED <<packs, young>>
       \/ LostReplies /\ stage[g] = "pack" /\ StorePack(BasePack(draft[g]))
    /\ UNCHANGED <<manifest, legacyVars, finalizeVars>>

MigratorStep(g) ==
    \/ StartMigrate(g)
    \/ ReadBundles(g)
    \/ ReadHead(g)
    \/ ReadMarkers(g)
    \/ UploadDraft(g)
    \/ Create(g)
    \/ CreateFails(g)
    \/ VerifyManifest(g)
    \/ VerifyPack(g)
    \/ MigrateFails(g)

-----------------------------------------------------------------------------
Proceed(z, label) == step' = [step EXCEPT ![z] = label]

\* The operator has an answer to go on, and the manifest is there and valid.
StartFinalize(z) ==
    /\ step[z] = "idle"
    /\ \E g \in Migrators : answer[g] \in FinalizeAfter
    /\ IF Exists(manifest) /\ ValidEntries(manifest)
       THEN Proceed(z, "packs") /\ checked' = [checked EXCEPT ![z] = manifest]
       ELSE Proceed(z, "done") /\ UNCHANGED checked
    /\ UNCHANGED <<bucketVars, condemned, legacyVars, migratorVars>>

\* Once this is done the manifest that was read is not looked at again.
FinalizeCheckPacks(z) ==
    /\ step[z] = "packs"
    /\ Proceed(z, IF Named(checked[z]) \subseteq packs THEN "keys" ELSE "done")
    /\ checked' = [checked EXCEPT ![z] = EmptyManifest]
    /\ UNCHANGED <<bucketVars, condemned, legacyVars, migratorVars>>

FinalizeListKeys(z) ==
    /\ step[z] = "keys"
    /\ condemned' = [condemned EXCEPT ![z] = legacy]
    /\ Proceed(z, "delete")
    /\ UNCHANGED <<bucketVars, checked, legacyVars, migratorVars>>

\* Key by key; one that cannot be deleted is only told.
FinalizeDelete(z) ==
    \E k \in condemned[z] :
        /\ step[z] = "delete"
        /\ condemned' = [condemned EXCEPT ![z] = @ \ {k}]
        /\ \/ legacy' = {l \in legacy : ~SameKey(k, l)}
           \/ UNCHANGED legacy
        /\ UNCHANGED <<bucketVars, step, checked, unsent, migratorVars>>

\* All keys are dealt with, or a read before the first of them has failed.
FinalizeEnds(z) ==
    /\ step[z] \in {"packs", "keys", "delete"}
    /\ condemned[z] = {}
    /\ Proceed(z, "done")
    /\ checked' = [checked EXCEPT ![z] = EmptyManifest]
    /\ UNCHANGED <<bucketVars, condemned, legacyVars, migratorVars>>

FinalizerStep(z) ==
    \/ StartFinalize(z)
    \/ FinalizeCheckPacks(z)
    \/ FinalizeListKeys(z)
    \/ FinalizeDelete(z)
    \/ FinalizeEnds(z)
=============================================================================
