-------------------------- MODULE MigrationProofs --------------------------
(***************************************************************************)
(* Theorems about Migration: what migrate writes is a manifest like any    *)
(* other, --finalize deletes nothing the manifest does not have, and what  *)
(* Repo promises is kept while a manifest comes into being.                *)
(***************************************************************************)
EXTENDS Migration, ResolveProofs, PackProofs

-----------------------------------------------------------------------------
(***************************************************************************)
(* Types.  The draft of a migrate that has read its bundles has refs, so   *)
(* the base pack it uploads is not empty; and only a bundle has a tip.     *)
(***************************************************************************)
DraftStages == {"head", "markers", "pack", "create", "verify", "rebuild"}

MigrateInv ==
    /\ MigrateTypeOK
    /\ legacy \subseteq (UNION LegacySeeds) \cup LegacyWrites
    /\ \A g \in Migrators : stage[g] \in DraftStages => LiveRefs(draft[g]) # {}

\* A manifest that is created where there was none.
Creates(g) ==
    /\ stage[g] = "create"
    /\ ~Exists(manifest)
    /\ manifest' = draft[g]

\* The rest of Repo sees of a migration that a manifest appears.
LEMMA RepoMoves ==
    ASSUME [MigrationNext]_migrationVars
    PROVE  \/ [Next]_vars
           \/ \E g \in Migrators : /\ MigratorStep(g)
                                   /\ RepoIdle
                                   /\ UNCHANGED manifest \/ Creates(g)
<1>1. CASE UNCHANGED migrationVars
  BY <1>1 DEF migrationVars
<1>2. CASE LegacyClientStep
  BY <1>2 DEF LegacyClientStep
<1>3. ASSUME NEW z \in Finalizers, FinalizerStep(z), RepoIdle
      PROVE  UNCHANGED vars
  <2>1. UNCHANGED bucketVars
    BY <1>3 DEF FinalizerStep, StartFinalize, FinalizeCheckPacks,
                FinalizeListKeys, FinalizeDelete, FinalizeEnds
  <2> QED
    BY <1>3, <2>1 DEF RepoIdle, bucketVars, casVars, vars, storeVars
<1>4. ASSUME NEW g \in Migrators, MigratorStep(g)
      PROVE  UNCHANGED manifest \/ Creates(g)
  BY <1>4 DEF MigratorStep, StartMigrate, ReadBundles, ReadHead, ReadMarkers,
              UploadDraft, Create, CreateFails, VerifyManifest, VerifyPack,
              MigrateFails, bucketVars, Creates
<1> QED
  BY <1>1, <1>2, <1>3, <1>4 DEF MigrationNext

\* The refs of one listing: a tip per ref that has a bundle.
LEMMA BundleRefsType ==
    ASSUME NEW bundles \in SUBSET LegacyKey, \A k \in bundles : k.sha # None
    PROVE  /\ BundleRefs(bundles) \in [Ref -> Commit \cup {None}]
           /\ \A k \in bundles : BundleRefs(bundles)[k.ref] # None
           /\ \A k \in bundles : k.ref \notin Duplicates(bundles) =>
                 BundleRefs(bundles)[k.ref] = k.sha
<1>1. \A r \in Ref : (\E k \in bundles : k.ref = r) =>
          /\ (CHOOSE k \in bundles : k.ref = r) \in bundles
          /\ (CHOOSE k \in bundles : k.ref = r).ref = r
  OBVIOUS
<1>2. \A k \in bundles : k.ref \in Ref /\ k.sha \in Commit
  BY DEF LegacyKey
<1>3. BundleRefs(bundles) \in [Ref -> Commit \cup {None}]
  BY <1>1, <1>2 DEF BundleRefs
<1>4. \A k \in bundles :
          BundleRefs(bundles)[k.ref] = (CHOOSE l \in bundles : l.ref = k.ref).sha
  BY <1>2 DEF BundleRefs
<1>5. \A k \in bundles : BundleRefs(bundles)[k.ref] # None
  BY <1>1, <1>2, <1>4
<1>6. ASSUME NEW k \in bundles, k.ref \notin Duplicates(bundles)
      PROVE  BundleRefs(bundles)[k.ref] = k.sha
  <2> DEFINE l == CHOOSE x \in bundles : x.ref = k.ref
  <2>1. l \in bundles /\ l.ref = k.ref
    BY <1>1, <1>2
  <2>2. l = k
    BY <1>6, <2>1 DEF Duplicates
  <2> QED
    BY <1>4, <2>2
<1> QED
  BY <1>3, <1>5, <1>6

\* What the bucket holds after a step of migrate is what it may hold.
LEMMA MigratorBucket ==
    ASSUME TypeInv, MigrateInv, NEW g \in Migrators, MigratorStep(g)
    PROVE  BucketOK'
<1>0. /\ draft[g] \in Manifest
      /\ manifest \in Manifest /\ packs \subseteq Pack /\ young \subseteq packs
  BY DEF MigrateInv, MigrateTypeOK, TypeInv, TypeOK, StoreTypeOK
<1>1. BasePack(draft[g]) \in Pack
  BY <1>0, BasePackType
<1>2. manifest' \in Manifest
  BY <1>0 DEF MigratorStep, StartMigrate, ReadBundles, ReadHead, ReadMarkers,
              UploadDraft, Create, CreateFails, VerifyManifest, VerifyPack,
              MigrateFails, bucketVars
<1>3. \/ packs' = packs /\ young' = young
      \/ StorePack(BasePack(draft[g]))
  BY DEF MigratorStep, StartMigrate, ReadBundles, ReadHead, ReadMarkers,
         UploadDraft, Create, CreateFails, VerifyManifest, VerifyPack,
         MigrateFails, bucketVars
<1>4. packs' \subseteq Pack /\ young' \subseteq packs'
  BY <1>0, <1>1, <1>3 DEF StorePack
<1> QED
  BY <1>2, <1>4 DEF BucketOK

\* The clients of the manifest are typed as they were.
LEMMA IdleTypes ==
    ASSUME TypeInv, RepoIdle, BucketOK'
    PROVE  TypeInv'
<1>1. /\ UNCHANGED <<pc, attempt, snap, base>>
      /\ UNCHANGED <<batch, cursor, pack, result, outcome, landed>>
      /\ UNCHANGED <<task, superseded, todo, doomed>>
  BY DEF RepoIdle, casVars, pushVars, manageVars, compactVars
<1> QED
  BY <1>1 DEF BucketOK, TypeInv, TypeOK, StoreTypeOK, PushTypeOK, ManageTypeOK,
              CompactTypeOK, Cmds

\* Every step keeps the manifest and its clients well-typed.
LEMMA MigrationTypes ==
    ASSUME TypeInv, MigrateInv, [MigrationNext]_migrationVars
    PROVE  TypeInv'
BY RepoMoves, NextTypes, MigratorBucket, IdleTypes

\* A draft that starts empty and is filled by listings is a manifest.
LEMMA DraftTypes ==
    ASSUME MigrateInv, NEW g \in Migrators, NEW m,
           m \in {[draft[g] EXCEPT !.refs = rs] :
                      rs \in [Ref -> Commit \cup {None}]}
               \cup {[draft[g] EXCEPT !.head = h] : h \in Ref \cup {None}}
               \cup {[draft[g] EXCEPT !.protected = p] : p \in SUBSET Ref}
    PROVE  m \in Manifest
<1>0. draft[g] \in Manifest
  BY DEF MigrateInv, MigrateTypeOK
<1>1. ASSUME NEW rs \in [Ref -> Commit \cup {None}]
      PROVE  [draft[g] EXCEPT !.refs = rs] \in Manifest
  BY <1>0 DEF Manifest
<1>2. ASSUME NEW h \in Ref \cup {None}
      PROVE  [draft[g] EXCEPT !.head = h] \in Manifest
  BY <1>0 DEF Manifest
<1>3. ASSUME NEW p \in SUBSET Ref
      PROVE  [draft[g] EXCEPT !.protected = p] \in Manifest
  BY <1>0 DEF Manifest
<1> QED
  BY <1>1, <1>2, <1>3

\* What is left to show of a step that moves migrator g, and only g.
LEMMA MigratorMoves ==
    ASSUME MigrateInv, NEW g \in Migrators, NEW label, NEW m \in Manifest,
           NEW b \in BOOLEAN, NEW how \in Answer,
           label \in {"bundles", "done"} \cup DraftStages,
           label \in DraftStages => LiveRefs(m) # {},
           stage' = [stage EXCEPT ![g] = label],
           draft' = [draft EXCEPT ![g] = m],
           doubt' = [doubt EXCEPT ![g] = b],
           answer' = [answer EXCEPT ![g] = how],
           UNCHANGED <<legacyVars, finalizeVars>>
    PROVE  MigrateInv'
<1> USE DEF MigrateInv, MigrateTypeOK
<1>1. /\ stage' \in [Migrators -> {"idle", "bundles", "head", "markers", "pack",
                                    "create", "verify", "rebuild", "done"}]
      /\ draft' \in [Migrators -> Manifest]
      /\ doubt' \in [Migrators -> BOOLEAN]
      /\ answer' \in [Migrators -> Answer]
  BY DEF DraftStages
<1>2. \A f \in Migrators :
          /\ stage'[f] = IF f = g THEN label ELSE stage[f]
          /\ draft'[f] = IF f = g THEN m ELSE draft[f]
  OBVIOUS
<1>3. \A f \in Migrators : stage'[f] \in DraftStages => LiveRefs(draft'[f]) # {}
  BY <1>2
<1> QED
  BY <1>1, <1>3 DEF legacyVars, finalizeVars

\* Every step of migrate keeps its locals well-typed.
LEMMA MigratorTypes ==
    ASSUME TypeInv, MigrateInv, NEW g \in Migrators, MigratorStep(g)
    PROVE  MigrateInv'
<1>0. /\ stage[g] \in {"idle", "bundles", "head", "markers", "pack",
                        "create", "verify", "rebuild", "done"}
      /\ draft[g] \in Manifest /\ doubt[g] \in BOOLEAN /\ answer[g] \in Answer
      /\ draft = [draft EXCEPT ![g] = draft[g]]
      /\ doubt = [doubt EXCEPT ![g] = doubt[g]]
      /\ answer = [answer EXCEPT ![g] = answer[g]]
      /\ stage[g] \in DraftStages => LiveRefs(draft[g]) # {}
  BY DEF MigrateInv, MigrateTypeOK
<1>1. UNCHANGED <<legacyVars, finalizeVars>>
  BY DEF MigratorStep, StartMigrate, ReadBundles, ReadHead, ReadMarkers,
         UploadDraft, Create, CreateFails, VerifyManifest, VerifyPack,
         MigrateFails
<1>2. ASSUME NEW how \in Answer, Answers(g, how) PROVE MigrateInv'
  BY <1>1, <1>2, MigratorMoves, EmptyManifestType DEF Answers, Stage, DraftStages
<1>3. ASSUME NEW label, NEW m \in Manifest, Drafts(g, label, m),
             label \in {"bundles", "done"} \cup DraftStages,
             label \in DraftStages => LiveRefs(m) # {}
      PROVE  MigrateInv'
  BY <1>0, <1>1, <1>3, MigratorMoves DEF Drafts, Stage
<1>4. CASE StartMigrate(g)
  BY <1>2, <1>3, <1>4, EmptyManifestType DEF StartMigrate, Answer, DraftStages
<1>5. CASE ReadBundles(g)
  <2> DEFINE bundles == {k \in legacy : k.kind = "bundle"}
             m == [draft[g] EXCEPT !.refs = BundleRefs(bundles)]
  <2>1. CASE Refuses(g, bundles)
    BY <1>2, <1>5, <2>1 DEF ReadBundles, Answer
  <2>2. CASE ~Refuses(g, bundles)
    <3>1. bundles \in SUBSET LegacyKey /\ \A k \in bundles : k.sha # None
      BY MigrateAssumption DEF MigrateInv, MigrateTypeOK
    <3>2. bundles # {} /\ \A k \in bundles : k.ref \in Ref
      BY <2>2, <3>1 DEF Refuses, LegacyKey
    <3> HIDE DEF bundles
    <3>3. BundleRefs(bundles) \in [Ref -> Commit \cup {None}]
      BY <3>1, BundleRefsType
    <3>4. m \in Manifest
      BY <3>3, DraftTypes
    <3>5. m.refs = BundleRefs(bundles)
      BY <1>0 DEF Manifest
    <3>6. LiveRefs(m) # {}
      BY <3>1, <3>2, <3>5, BundleRefsType DEF LiveRefs
    <3>7. Drafts(g, "head", m)
      BY <1>5, <2>2 DEF ReadBundles, bundles
    <3> QED
      BY <1>3, <3>4, <3>6, <3>7 DEF DraftStages
  <2> QED
    BY <2>1, <2>2
<1>6. CASE ReadHead(g)
  <2> DEFINE named == {k.ref : k \in {l \in legacy : l.kind = "head"}}
                         \cap LiveRefs(draft[g])
             h == IF named = {} THEN None ELSE CHOOSE r \in named : TRUE
             m == [draft[g] EXCEPT !.head = h]
  <2>1. h \in Ref \cup {None}
    BY DEF LiveRefs
  <2>2. m \in Manifest /\ m.refs = draft[g].refs
    BY <1>0, <2>1, DraftTypes DEF Manifest
  <2>3. LiveRefs(m) # {}
    BY <1>0, <1>6, <2>2 DEF ReadHead, DraftStages, LiveRefs
  <2>4. Drafts(g, "markers", m)
    BY <1>6 DEF ReadHead
  <2> QED
    BY <1>3, <2>2, <2>3, <2>4 DEF DraftStages
<1>7. CASE ReadMarkers(g)
  <2> DEFINE p == {k.ref : k \in {l \in legacy : l.kind = "marker"}}
             m == [draft[g] EXCEPT !.protected = p]
  <2>1. p \in SUBSET Ref
    BY DEF MigrateInv, MigrateTypeOK, LegacyKey
  <2>2. m \in Manifest /\ m.refs = draft[g].refs
    BY <1>0, <2>1, DraftTypes DEF Manifest
  <2>3. LiveRefs(m) # {}
    BY <1>0, <1>7, <2>2 DEF ReadMarkers, DraftStages, LiveRefs
  <2>4. Drafts(g, "pack", m)
    BY <1>7 DEF ReadMarkers
  <2> QED
    BY <1>3, <2>2, <2>3, <2>4 DEF DraftStages
<1>8. CASE UploadDraft(g)
  <2> DEFINE m == [draft[g] EXCEPT
                      !.seq = 1,
                      !.entries = {[seq |-> 1, pack |-> BasePack(draft[g])]}]
  <2>1. LiveRefs(draft[g]) # {}
    BY <1>0, <1>8 DEF UploadDraft, DraftStages
  <2>2. {[seq |-> 1, pack |-> BasePack(draft[g])]} \subseteq Entry
    BY <1>0, <2>1, BasePackType DEF Entry
  <2>3. m \in Manifest /\ m.refs = draft[g].refs
    BY <1>0, <2>2 DEF Manifest
  <2>4. LiveRefs(m) # {} /\ Drafts(g, "create", m)
    BY <1>8, <2>1, <2>3 DEF UploadDraft, LiveRefs
  <2> QED
    BY <1>3, <2>3, <2>4 DEF DraftStages
<1>9. CASE Create(g)
  BY <1>0, <1>3, <1>9 DEF Create, DraftStages
<1>10. CASE VerifyManifest(g)
  <2>1. LiveRefs(draft[g]) # {}
    BY <1>0, <1>10 DEF VerifyManifest, DraftStages
  <2>2. stage' = [stage EXCEPT ![g] = "rebuild"]
        /\ doubt' = [doubt EXCEPT ![g] = ~AsCreated(g)]
        /\ UNCHANGED <<draft, answer>>
    BY <1>10 DEF VerifyManifest, Stage
  <2> QED
    BY <1>0, <1>1, <2>1, <2>2, MigratorMoves DEF DraftStages
<1>11. CASE CreateFails(g) \/ VerifyPack(g) \/ MigrateFails(g)
  BY <1>2, <1>11 DEF CreateFails, VerifyPack, MigrateFails, Answer
<1> QED
  BY <1>4, <1>5, <1>6, <1>7, <1>8, <1>9, <1>10, <1>11 DEF MigratorStep

\* So do the other steps: clients of the old format put the keys they may,
\* --finalize only takes keys away.
LEMMA OthersKeepMigrate ==
    ASSUME TypeInv, MigrateInv,
           LegacyClientStep \/ \E z \in Finalizers : FinalizerStep(z)
    PROVE  MigrateInv'
<1> USE DEF MigrateInv, MigrateTypeOK
<1>1. ASSUME NEW k \in unsent, LegacyPut(k) PROVE MigrateInv'
  <2>1. legacy' \subseteq legacy \cup {k} /\ unsent' \subseteq unsent
    BY <1>1 DEF LegacyPut
  <2>2. k \in LegacyKey /\ k \in LegacyWrites
    BY MigrateAssumption
  <2>3. UNCHANGED <<stage, draft, doubt, answer, step, checked, condemned>>
    BY <1>1 DEF LegacyPut, migratorVars, finalizeVars
  <2> QED
    BY <2>1, <2>2, <2>3
<1>2. ASSUME NEW k \in legacy, LegacyTidy(k) PROVE MigrateInv'
  BY <1>2 DEF LegacyTidy, migratorVars, finalizeVars
<1>3. ASSUME NEW z \in Finalizers, FinalizerStep(z) PROVE MigrateInv'
  <2>1. legacy' \subseteq legacy
    BY <1>3 DEF FinalizerStep, StartFinalize, FinalizeCheckPacks,
                FinalizeListKeys, FinalizeDelete, FinalizeEnds, legacyVars
  <2>2. UNCHANGED <<unsent, stage, draft, doubt, answer>>
    BY <1>3 DEF FinalizerStep, StartFinalize, FinalizeCheckPacks,
                FinalizeListKeys, FinalizeDelete, FinalizeEnds, legacyVars,
                migratorVars
  <2>3. step' \in [Finalizers -> {"idle", "packs", "keys", "delete", "done"}]
    BY <1>3 DEF FinalizerStep, StartFinalize, FinalizeCheckPacks,
                FinalizeListKeys, FinalizeDelete, FinalizeEnds, Proceed
  <2>4. checked' \in [Finalizers -> Manifest]
    BY <1>3, EmptyManifestType
       DEF FinalizerStep, StartFinalize, FinalizeCheckPacks, FinalizeListKeys,
           FinalizeDelete, FinalizeEnds, TypeInv, TypeOK, StoreTypeOK
  <2>5. condemned' \in [Finalizers -> SUBSET LegacyKey]
    BY <1>3 DEF FinalizerStep, StartFinalize, FinalizeCheckPacks,
                FinalizeListKeys, FinalizeDelete, FinalizeEnds
  <2> QED
    BY <2>1, <2>2, <2>3, <2>4, <2>5
<1> QED
  BY <1>1, <1>2, <1>3 DEF LegacyClientStep

\* Every step keeps the migration well-typed.
LEMMA MigrationKeepsTypes ==
    ASSUME TypeInv, MigrateInv, [MigrationNext]_migrationVars
    PROVE  MigrateInv'
<1>1. ASSUME UNCHANGED migrateVars PROVE MigrateInv'
  BY <1>1 DEF migrateVars, legacyVars, migratorVars, finalizeVars, MigrateInv,
              MigrateTypeOK
<1> QED
  BY <1>1, MigratorTypes, OthersKeepMigrate DEF MigrationNext, migrationVars

\* A run starts with legacy keys only.
LEMMA InitMigrate == MigrationInit => TypeInv /\ MigrateInv
<1> SUFFICES ASSUME MigrationInit PROVE MigrateInv
  BY InitTypes DEF MigrationInit
<1>1. MigrateInit
  BY DEF MigrationInit
<1> QED
  BY <1>1, MigrateAssumption, EmptyManifestType
     DEF MigrateInit, MigrateInv, MigrateTypeOK, DraftStages, Answer

\* Whatever legacy keys a migration finds, and however it races pushes,
\* compactions and --finalize: what it drafts is a manifest, with an entry for
\* a pack that is not empty, and it deletes legacy keys only.
THEOREM MigrationTyped == MigrationSpec => []MigrateTypeOK
<1>1. MigrateInv => MigrateTypeOK
  BY DEF MigrateInv
<1> QED
  BY <1>1, InitMigrate, MigrationTypes, MigrationKeepsTypes, PTL
     DEF MigrationSpec

-----------------------------------------------------------------------------
(***************************************************************************)
(* What a legacy key says, and the manifest says too, stays in it.         *)
(***************************************************************************)

\* Who may drop a protection, rewrite a ref or choose the default branch is
\* settled at the start.
LEMMA LeaveConstant ==
    ASSUME [MigrationNext]_migrationVars, NEW r
    PROVE  /\ MayBeRewritten(r)' <=> MayBeRewritten(r)
           /\ MayBeUnprotected(r)' <=> MayBeUnprotected(r)
           /\ MayChooseHead' <=> MayChooseHead
<1>1. UNCHANGED <<batch, task>>
  BY RepoMoves, InputsConstant DEF RepoIdle, pushVars, manageVars
<1> QED
  BY <1>1 DEF MayBeRewritten, MayBeUnprotected, MayChooseHead, Cmds

\* A ref that nobody may unprotect stays protected.
LEMMA ProtectionStays ==
    ASSUME TypeInv, [Next]_vars, NEW r \in manifest.protected,
           ~MayBeUnprotected(r)
    PROVE  r \in manifest'.protected
<1>0. manifest \in Manifest
  BY DEF TypeInv, TypeOK, StoreTypeOK
<1>1. ASSUME NEW p \in Pushers, PushWrites(p) PROVE r \in manifest'.protected
  <2> DEFINE acc == Accepted(p, manifest)
  <2>1. acc \subseteq Cmds(p)
    BY DEF Accepted, Pending
  <2>2. manifest'.protected =
          manifest.protected \ {batch[p][i].ref : i \in Deletions(batch[p], acc)}
    BY <1>0, <1>1 DEF PushWrites, Replaces, PushCandidate, ApplyPushes, Manifest
  <2>3. \A i \in Deletions(batch[p], acc) : batch[p][i].ref # r
    BY <2>1 DEF Deletions, MayBeUnprotected
  <2> QED
    BY <2>2, <2>3
<1>2. ASSUME NEW a \in Admins, AdminWrites(a) PROVE r \in manifest'.protected
  <2>1. /\ task[a].op \in Op
        /\ task[a].op \in {"delete", "unprotect"} => task[a].ref # r
    BY AdminOpsAssumption
       DEF TypeInv, TypeOK, ManageTypeOK, MayBeUnprotected
  <2>2. \/ manifest' = ApplyDelete(manifest, task[a].ref) /\ task[a].ref # r
        \/ manifest' = ApplyProtect(manifest, task[a].ref)
        \/ manifest' = ApplyUnprotect(manifest, task[a].ref) /\ task[a].ref # r
        \/ manifest' = SetHead(manifest, task[a].ref)
    BY <1>2, <2>1 DEF AdminWrites, Replaces, AdminCandidate, Op
  <2> QED
    BY <1>0, <2>2
       DEF Manifest, ApplyDelete, ApplyProtect, ApplyUnprotect, SetHead
<1>3. ASSUME (\E c \in Compactors : CompactWrites(c)) \/ UpgradeFormat
      PROVE  manifest'.protected = manifest.protected
  BY <1>0, <1>3 DEF CompactWrites, Replaces, CompactCandidate, ApplyCompaction,
                    UpgradeFormat, Manifest
<1> QED
  BY <1>1, <1>2, <1>3, ManifestSteps

\* A default branch stays one, where no operator chooses another: a push only
\* gives one to a repository that has none.
LEMMA HeadStays ==
    ASSUME TypeInv, [Next]_vars, ~MayChooseHead, manifest.head # None
    PROVE  manifest'.head = manifest.head
<1>0. manifest \in Manifest
  BY DEF TypeInv, TypeOK, StoreTypeOK
<1>1. ASSUME NEW p \in Pushers, PushWrites(p) PROVE manifest'.head = manifest.head
  BY <1>0, <1>1 DEF PushWrites, Replaces, PushCandidate, ApplyPushes, Manifest,
                    UpdatedHead
<1>2. ASSUME NEW a \in Admins, AdminWrites(a) PROVE manifest'.head = manifest.head
  <2>1. task[a].op \in Op /\ task[a].op # "head"
    BY AdminOpsAssumption DEF TypeInv, TypeOK, ManageTypeOK, MayChooseHead
  <2>2. \/ manifest' = ApplyDelete(manifest, task[a].ref)
        \/ manifest' = ApplyProtect(manifest, task[a].ref)
        \/ manifest' = ApplyUnprotect(manifest, task[a].ref)
    BY <1>2, <2>1 DEF AdminWrites, Replaces, AdminCandidate, Op
  <2> QED
    BY <1>0, <2>2 DEF Manifest, ApplyDelete, ApplyProtect, ApplyUnprotect
<1>3. ASSUME (\E c \in Compactors : CompactWrites(c)) \/ UpgradeFormat
      PROVE  manifest'.head = manifest.head
  BY <1>0, <1>3 DEF CompactWrites, Replaces, CompactCandidate, ApplyCompaction,
                    UpgradeFormat, Manifest
<1> QED
  BY <1>1, <1>2, <1>3, ManifestSteps

\* The three kinds of legacy key, one by one.
LEMMA CarriedCases ==
    ASSUME NEW k \in LegacyKey, NEW m
    PROVE  CarriedOver(k, m) <=>
             /\ k.kind = "bundle" =>
                  \/ MayBeRewritten(k.ref)
                  \/ m.refs[k.ref] # None /\ IsAncestor(k.sha, m.refs[k.ref])
             /\ k.kind = "marker" =>
                  MayBeUnprotected(k.ref) \/ k.ref \in m.protected
             /\ k.kind = "head" =>
                  MayChooseHead \/ m.head = k.ref \/ BundlesOf(k.ref) = {}
BY DEF CarriedOver, LegacyKey

\* Whatever the clients of the manifest do, it keeps what it has of a legacy
\* key, unless one of them has leave to take it away.
LEMMA CarriedStays ==
    ASSUME TypeInv, [Next]_vars, NEW k \in LegacyKey, UNCHANGED legacy,
           k.kind = "bundle" => k.sha \in Commit, CarriedOver(k, manifest)
    PROVE  CarriedOver(k, manifest)'
<1>0. k.ref \in Ref /\ manifest \in Manifest /\ manifest' \in Manifest
  BY NextTypes DEF LegacyKey, TypeInv, TypeOK, StoreTypeOK
<1>1. UNCHANGED <<batch, task>>
  BY InputsConstant
<1>2. /\ MayBeRewritten(k.ref)' <=> MayBeRewritten(k.ref)
      /\ MayBeUnprotected(k.ref)' <=> MayBeUnprotected(k.ref)
      /\ MayChooseHead' <=> MayChooseHead
      /\ BundlesOf(k.ref)' = BundlesOf(k.ref)
  BY <1>1 DEF MayBeRewritten, MayBeUnprotected, MayChooseHead, Cmds, BundlesOf
<1>3. CASE k.kind = "bundle"
  <2> DEFINE old == manifest.refs[k.ref]
             new == manifest'.refs[k.ref]
  <2>1. MayBeRewritten(k.ref) \/ (old # None /\ IsAncestor(k.sha, old))
    BY <1>3, CarriedCases
  <2>2. ASSUME ~MayBeRewritten(k.ref)
        PROVE  new # None /\ IsAncestor(k.sha, new)
    <3>1. old # None /\ IsAncestor(k.sha, old)
      BY <2>1, <2>2
    <3>2. new # None /\ IsAncestor(old, new)
      BY <1>0, <2>2, <3>1, PlainRefsAdvance
    <3>3. old \in Commit /\ new \in Commit
      BY <1>0, <3>1, <3>2 DEF Manifest
    <3> QED
      BY <3>1, <3>2, <3>3, ReachAssumption DEF IsAncestor
  <2> QED
    BY <1>2, <1>3, <2>2 DEF CarriedOver
<1>4. CASE k.kind = "marker"
  BY <1>2, <1>4, ProtectionStays, CarriedCases DEF CarriedOver
<1>5. CASE k.kind = "head"
  <2>1. MayChooseHead \/ manifest.head = k.ref \/ BundlesOf(k.ref) = {}
    BY <1>5, CarriedCases
  <2>2. ~MayChooseHead /\ manifest.head = k.ref => manifest'.head = k.ref
    BY <1>0, NoneAssumption, HeadStays
  <2> QED
    BY <1>2, <1>5, <2>1, <2>2 DEF CarriedOver
<1> QED
  BY <1>3, <1>4, <1>5 DEF LegacyKey

-----------------------------------------------------------------------------
(***************************************************************************)
(* --finalize.  A draft says what the legacy keys say, as far as it has    *)
(* read them: the old clients have stopped, so they only get fewer.  Once  *)
(* the draft has become the manifest, the manifest says it.                *)
(***************************************************************************)
AfterHead    == DraftStages \ {"head"}
AfterMarkers == AfterHead \ {"markers"}
AfterPack    == {"create", "verify", "rebuild"}

\* The three things a draft takes over from the keys.
BundlesDrafted(m) ==
    \A k \in legacy : k.kind = "bundle" =>
        m.refs[k.ref] # None /\ IsAncestor(k.sha, m.refs[k.ref])

HeadDrafted(m) ==
    \A k \in legacy : k.kind = "head" => m.head = k.ref \/ BundlesOf(k.ref) = {}

MarkersDrafted(m) ==
    \A k \in legacy : k.kind = "marker" => k.ref \in m.protected

DraftCarries(g) ==
    /\ stage[g] \in DraftStages => BundlesDrafted(draft[g])
    /\ stage[g] \in AfterHead => HeadDrafted(draft[g])
    /\ stage[g] \in AfterMarkers => MarkersDrafted(draft[g])
    /\ stage[g] \in AfterPack => Exists(draft[g])

HasCreated(g) == stage[g] \in {"verify", "rebuild"} \/ answer[g] = "migrated"

AllCarried == \A k \in legacy : CarriedOver(k, manifest)

KeysDistinct == \A k, l \in legacy : SameKey(k, l) => k = l

CarryInv ==
    /\ KeysDistinct
    /\ \A g \in Migrators : DraftCarries(g)
    /\ \A g \in Migrators : stage[g] # "done" => answer[g] = "none"
    /\ (\E g \in Migrators : HasCreated(g)) => Exists(manifest) /\ AllCarried
    /\ \A z \in Finalizers : step[z] \in {"packs", "keys", "delete"} =>
           \E g \in Migrators : answer[g] = "migrated"

\* A key of a bundle has a tip.
LEMMA BundleTips ==
    ASSUME MigrateInv
    PROVE  /\ legacy \subseteq LegacyKey
           /\ \A k \in legacy : k.kind = "bundle" => k.sha \in Commit
BY MigrateAssumption DEF MigrateInv, MigrateTypeOK, LegacyKey

\* It holds at the start.
LEMMA InitCarry == MigrationInit => CarryInv
BY MigrateAssumption
   DEF MigrationInit, MigrateInit, CarryInv, DraftCarries, HasCreated,
       DraftStages, AfterHead, AfterMarkers, AfterPack, KeysDistinct

\* The steps that leave migrate alone.
LEMMA NextCarries ==
    ASSUME TypeInv, MigrateInv, CarryInv, [Next]_vars,
           UNCHANGED migrateVars
    PROVE  CarryInv'
<1>0. UNCHANGED <<legacy, stage, draft, answer, step>>
  BY DEF migrateVars, legacyVars, migratorVars, finalizeVars
<1>1. Exists(manifest) => Exists(manifest)'
  BY LogSteps DEF Exists
<1>2. AllCarried => AllCarried'
  BY <1>0, CarriedStays, BundleTips DEF AllCarried
<1>3. \A g \in Migrators : DraftCarries(g)'
  BY <1>0 DEF CarryInv, DraftCarries, BundlesDrafted, HeadDrafted,
              MarkersDrafted, BundlesOf, Exists
<1> QED
  BY <1>0, <1>1, <1>2, <1>3 DEF CarryInv, HasCreated, KeysDistinct

\* The old clients: while one of them works, no migrate has begun.
LEMMA LegacyCarries ==
    ASSUME LegacyStops, CarryInv, LegacyClientStep
    PROVE  CarryInv'
<1>1. LegacyClientsWork /\ UNCHANGED <<stage, draft, answer, step>>
  BY DEF LegacyClientStep, LegacyPut, LegacyTidy, migratorVars, finalizeVars
<1>2. \A g \in Migrators : stage[g] = "idle" /\ answer[g] = "none"
  BY <1>1 DEF LegacyClientsWork, CarryInv
<1>3. \A z \in Finalizers : step'[z] \notin {"packs", "keys", "delete"}
  BY <1>1, <1>2 DEF CarryInv
<1>4. KeysDistinct'
  <2>1. CASE \E k \in unsent : LegacyPut(k)
    BY <2>1 DEF LegacyPut, SameKey, CarryInv, KeysDistinct
  <2>2. CASE \E k \in legacy : LegacyTidy(k)
    BY <2>2 DEF LegacyTidy, CarryInv, KeysDistinct
  <2> QED
    BY <2>1, <2>2 DEF LegacyClientStep
<1> QED
  BY <1>1, <1>2, <1>3, <1>4 DEF CarryInv, DraftCarries, HasCreated, DraftStages,
                                AfterHead, AfterMarkers, AfterPack

\* --finalize: it begins upon the answer "migrated", and takes keys away.
LEMMA FinalizerCarries ==
    ASSUME FinalizeAfter \subseteq {"migrated"}, MigrateInv, CarryInv,
           NEW z \in Finalizers, FinalizerStep(z), RepoIdle
    PROVE  CarryInv'
<1>1. legacy' \subseteq legacy /\ UNCHANGED <<manifest, stage, draft, answer>>
  BY DEF FinalizerStep, StartFinalize, FinalizeCheckPacks, FinalizeListKeys,
         FinalizeDelete, FinalizeEnds, legacyVars, bucketVars, migratorVars
<1>2. UNCHANGED <<batch, task>>
  BY DEF RepoIdle, pushVars, manageVars
<1>3. \A g \in Migrators : DraftCarries(g)'
  BY <1>1 DEF CarryInv, DraftCarries, BundlesDrafted, HeadDrafted,
              MarkersDrafted, BundlesOf, Exists
<1>4. Exists(manifest)' <=> Exists(manifest)
  BY <1>1 DEF Exists
<1>5. AllCarried => AllCarried'
  <2> SUFFICES ASSUME AllCarried, NEW k \in legacy'
               PROVE  CarriedOver(k, manifest)'
    BY DEF AllCarried
  <2>1. k \in LegacyKey /\ CarriedOver(k, manifest)
    BY <1>1, BundleTips DEF AllCarried
  <2>2. /\ MayBeRewritten(k.ref)' <=> MayBeRewritten(k.ref)
        /\ MayBeUnprotected(k.ref)' <=> MayBeUnprotected(k.ref)
        /\ MayChooseHead' <=> MayChooseHead
        /\ BundlesOf(k.ref) = {} => BundlesOf(k.ref)' = {}
    BY <1>1, <1>2
       DEF MayBeRewritten, MayBeUnprotected, MayChooseHead, BundlesOf, Cmds
  <2>3. manifest' = manifest
    BY <1>1
  <2>4. CASE k.kind = "bundle"
    BY <2>1, <2>2, <2>3, <2>4 DEF CarriedOver
  <2>5. CASE k.kind = "marker"
    BY <2>1, <2>2, <2>3, <2>5 DEF CarriedOver
  <2>6. CASE k.kind = "head"
    BY <2>1, <2>2, <2>3, <2>6 DEF CarriedOver
  <2> QED
    BY <2>1, <2>4, <2>5, <2>6 DEF LegacyKey
<1>6. \A y \in Finalizers : step'[y] \in {"packs", "keys", "delete"} =>
         \E g \in Migrators : answer'[g] = "migrated"
  <2>1. step \in [Finalizers -> {"idle", "packs", "keys", "delete", "done"}]
    BY DEF MigrateInv, MigrateTypeOK
  <2>2. CASE StartFinalize(z)
    BY <1>1, <2>2 DEF StartFinalize
  <2>3. CASE ~StartFinalize(z)
    <3>1. step[z] \in {"packs", "keys", "delete"}
      BY <2>3 DEF FinalizerStep, FinalizeCheckPacks, FinalizeListKeys,
                  FinalizeDelete, FinalizeEnds
    <3>2. \E g \in Migrators : answer[g] = "migrated"
      BY <3>1 DEF CarryInv
    <3> QED
      BY <1>1, <3>2
  <2> QED
    BY <2>2, <2>3
<1> QED
  BY <1>1, <1>3, <1>4, <1>5, <1>6 DEF CarryInv, HasCreated, KeysDistinct

\* What is left to show of a step of migrator g that creates nothing.
LEMMA MigratorStays ==
    ASSUME MigrateInv, CarryInv, NEW g \in Migrators, MigratorStep(g), RepoIdle,
           UNCHANGED <<manifest, legacyVars, finalizeVars>>,
           DraftCarries(g)',
           \A f \in Migrators \ {g} : UNCHANGED <<stage[f], draft[f], answer[f]>>,
           stage'[g] # "done" => answer'[g] = "none",
           HasCreated(g)' => HasCreated(g), answer[g] # "migrated"
    PROVE  CarryInv'
<1>1. UNCHANGED <<batch, task, legacy, step>>
  BY DEF RepoIdle, pushVars, manageVars, legacyVars, finalizeVars
<1>2. \A f \in Migrators : DraftCarries(f)'
  BY <1>1 DEF CarryInv, DraftCarries, BundlesDrafted, HeadDrafted,
              MarkersDrafted, BundlesOf, Exists
<1>3. AllCarried' <=> AllCarried
  BY <1>1 DEF AllCarried, CarriedOver, MayBeRewritten, MayBeUnprotected,
              MayChooseHead, BundlesOf, Cmds
<1>4. Exists(manifest)' <=> Exists(manifest)
  BY DEF Exists
<1>5. \A f \in Migrators : HasCreated(f)' => HasCreated(f)
  BY DEF HasCreated
<1>6. \A f \in Migrators : answer[f] = "migrated" => answer'[f] = "migrated"
  OBVIOUS
<1> QED
  BY <1>1, <1>2, <1>3, <1>4, <1>5, <1>6 DEF CarryInv, KeysDistinct

\* The manifest that migrate creates says what all the legacy keys say.
LEMMA CreateCarries ==
    ASSUME MigrateInv, CarryInv, NEW g \in Migrators, Creates(g), RepoIdle,
           UNCHANGED legacy
    PROVE  AllCarried' /\ Exists(manifest)'
<1>1. /\ BundlesDrafted(draft[g])
      /\ HeadDrafted(draft[g])
      /\ MarkersDrafted(draft[g])
      /\ Exists(draft[g])
  BY DEF Creates, CarryInv, DraftCarries, DraftStages, AfterHead, AfterMarkers,
         AfterPack
<1>2. Exists(manifest)'
  BY <1>1 DEF Creates, Exists
<1>3. UNCHANGED <<batch, task>>
  BY DEF RepoIdle, pushVars, manageVars
<1>4. ASSUME NEW k \in legacy PROVE CarriedOver(k, manifest)'
  <2>1. k \in LegacyKey
    BY BundleTips
  <2>2. CarriedOver(k, draft[g])
    BY <1>1, <2>1, CarriedCases DEF BundlesDrafted, HeadDrafted, MarkersDrafted
  <2>3. manifest' = draft[g]
    BY DEF Creates
  <2> QED
    BY <1>3, <2>2, <2>3
       DEF CarriedOver, MayBeRewritten, MayBeUnprotected, MayChooseHead,
           BundlesOf, Cmds
<1> QED
  BY <1>2, <1>4 DEF AllCarried

\* The draft of a migrate that has just listed the bundles, one per ref.
LEMMA BundlesAreDrafted ==
    ASSUME MigrateInv, NEW g \in Migrators,
           ~Refuses(g, {k \in legacy : k.kind = "bundle"})
    PROVE  BundlesDrafted([draft[g] EXCEPT
               !.refs = BundleRefs({k \in legacy : k.kind = "bundle"})])
<1> DEFINE bundles == {k \in legacy : k.kind = "bundle"}
           m == [draft[g] EXCEPT !.refs = BundleRefs(bundles)]
<1>1. /\ bundles \in SUBSET LegacyKey
      /\ \A k \in bundles : k.sha # None /\ k.sha \in Commit
  BY BundleTips, NoneAssumption
<1>2. Duplicates(bundles) = {}
  BY DEF Refuses
<1>3. m.refs = BundleRefs(bundles)
  BY DEF MigrateInv, MigrateTypeOK, Manifest
<1> HIDE DEF bundles
<1>4. \A k \in bundles : BundleRefs(bundles)[k.ref] = k.sha
  BY <1>1, <1>2, BundleRefsType
<1>5. \A k \in bundles : m.refs[k.ref] # None /\ IsAncestor(k.sha, m.refs[k.ref])
  BY <1>1, <1>3, <1>4, ReachAssumption DEF IsAncestor
<1> QED
  BY <1>5 DEF BundlesDrafted, bundles

\* Every step of migrate keeps the invariant.
LEMMA MigratorCarries ==
    ASSUME TypeInv, MigrateInv, CarryInv, NEW g \in Migrators, MigratorStep(g),
           RepoIdle
    PROVE  CarryInv'
<1>0. /\ UNCHANGED <<legacyVars, finalizeVars>>
      /\ legacy' = legacy
  BY DEF MigratorStep, StartMigrate, ReadBundles, ReadHead, ReadMarkers,
         UploadDraft, Create, CreateFails, VerifyManifest, VerifyPack,
         MigrateFails, legacyVars
<1>1. stage[g] # "done" /\ answer[g] = "none" /\ answer[g] # "migrated"
  <2>1. stage[g] # "done"
    BY DEF MigratorStep, StartMigrate, ReadBundles, ReadHead, ReadMarkers,
           UploadDraft, Create, CreateFails, VerifyManifest, VerifyPack,
           MigrateFails
  <2> QED
    BY <2>1 DEF CarryInv
<1>2. /\ DOMAIN stage = Migrators /\ DOMAIN draft = Migrators
      /\ DOMAIN answer = Migrators /\ draft[g] \in Manifest
  BY DEF MigrateInv, MigrateTypeOK
<1>3. ASSUME NEW how, Answers(g, how), how # "migrated", UNCHANGED manifest
      PROVE  CarryInv'
  <2>1. /\ stage'[g] = "done" /\ answer'[g] = how
        /\ \A f \in Migrators \ {g} : UNCHANGED <<stage[f], draft[f], answer[f]>>
    BY <1>2, <1>3 DEF Answers, Stage
  <2>2. DraftCarries(g)' /\ ~HasCreated(g)'
    BY <1>3, <2>1 DEF DraftCarries, HasCreated, DraftStages, AfterHead,
                      AfterMarkers, AfterPack
  <2> QED
    BY <1>0, <1>1, <1>3, <2>1, <2>2, MigratorStays
<1>4. ASSUME NEW label, NEW m, Drafts(g, label, m), UNCHANGED manifest,
             label # "done", label \notin {"verify", "rebuild"},
             label \in DraftStages => BundlesDrafted(m),
             label \in AfterHead => HeadDrafted(m),
             label \in AfterMarkers => MarkersDrafted(m),
             label \in AfterPack => Exists(m)
      PROVE  CarryInv'
  <2>1. /\ stage'[g] = label /\ draft'[g] = m /\ answer'[g] = "none"
        /\ \A f \in Migrators \ {g} : UNCHANGED <<stage[f], draft[f], answer[f]>>
    BY <1>1, <1>2, <1>4 DEF Drafts, Stage
  <2>2. DraftCarries(g)'
    BY <1>0, <1>4, <2>1 DEF DraftCarries, BundlesDrafted, HeadDrafted,
                            MarkersDrafted, BundlesOf, Exists
  <2>3. ~HasCreated(g)'
    BY <1>4, <2>1 DEF HasCreated
  <2> QED
    BY <1>0, <1>1, <1>4, <2>1, <2>2, <2>3, MigratorStays
<1>5. /\ stage[g] \in DraftStages => BundlesDrafted(draft[g])
      /\ stage[g] \in AfterHead => HeadDrafted(draft[g])
      /\ stage[g] \in AfterMarkers => MarkersDrafted(draft[g])
      /\ stage[g] \in AfterPack => Exists(draft[g])
  BY DEF CarryInv, DraftCarries
<1> USE DEF DraftStages, AfterHead, AfterMarkers, AfterPack
<1>6. CASE StartMigrate(g)
  BY <1>3, <1>4, <1>6 DEF StartMigrate, bucketVars
<1>7. CASE ReadBundles(g)
  BY <1>3, <1>4, <1>7, BundlesAreDrafted DEF ReadBundles, bucketVars
<1>8. CASE ReadHead(g)
  <2> DEFINE named == {k.ref : k \in {l \in legacy : l.kind = "head"}}
                         \cap LiveRefs(draft[g])
             h == IF named = {} THEN None ELSE CHOOSE r \in named : TRUE
             m == [draft[g] EXCEPT !.head = h]
  <2>1. m.refs = draft[g].refs /\ m.head = h
    BY <1>2 DEF Manifest
  <2>2. ASSUME NEW k \in legacy, k.kind = "head", BundlesOf(k.ref) # {}
        PROVE  h = k.ref
    <3>1. k.ref \in LiveRefs(draft[g])
      BY <1>5, <1>8, <2>2, BundleTips
         DEF ReadHead, BundlesOf, BundlesDrafted, LegacyKey, LiveRefs
    <3>2. \A l \in legacy : l.kind = "head" => l = k
      BY <2>2 DEF CarryInv, KeysDistinct, SameKey
    <3>3. named = {k.ref}
      BY <2>2, <3>1, <3>2
    <3> QED
      BY <3>3
  <2>4. HeadDrafted(m)
    BY <2>1, <2>2 DEF HeadDrafted
  <2>5. BundlesDrafted(m)
    BY <1>5, <1>8, <2>1 DEF ReadHead, BundlesDrafted
  <2>6. Drafts(g, "markers", m) /\ UNCHANGED manifest
    BY <1>8 DEF ReadHead, bucketVars
  <2> QED
    BY <1>4, <2>4, <2>5, <2>6
<1>9. CASE ReadMarkers(g)
  <2> DEFINE p == {k.ref : k \in {l \in legacy : l.kind = "marker"}}
             m == [draft[g] EXCEPT !.protected = p]
  <2>1. m.refs = draft[g].refs /\ m.head = draft[g].head /\ m.protected = p
    BY <1>2 DEF Manifest
  <2>2. BundlesDrafted(m) /\ HeadDrafted(m) /\ MarkersDrafted(m)
    BY <1>5, <1>9, <2>1 DEF ReadMarkers, BundlesDrafted, HeadDrafted,
                            MarkersDrafted
  <2>3. Drafts(g, "pack", m) /\ UNCHANGED manifest
    BY <1>9 DEF ReadMarkers, bucketVars
  <2> QED
    BY <1>4, <2>2, <2>3
<1>10. CASE UploadDraft(g)
  <2> DEFINE m == [draft[g] EXCEPT
                      !.seq = 1,
                      !.entries = {[seq |-> 1, pack |-> BasePack(draft[g])]}]
  <2>1. /\ m.refs = draft[g].refs /\ m.head = draft[g].head
        /\ m.protected = draft[g].protected /\ m.seq = 1
    BY <1>2 DEF Manifest
  <2>2. /\ BundlesDrafted(m) /\ HeadDrafted(m) /\ MarkersDrafted(m)
        /\ Exists(m)
    BY <1>5, <1>10, <2>1 DEF UploadDraft, BundlesDrafted, HeadDrafted,
                             MarkersDrafted, Exists
  <2>3. Drafts(g, "create", m) /\ UNCHANGED manifest
    BY <1>10 DEF UploadDraft
  <2> QED
    BY <1>4, <2>2, <2>3
<1>11. ASSUME Creates(g),
              \A f \in Migrators \ {g} : UNCHANGED <<stage[f], draft[f], answer[f]>>,
              DraftCarries(g)', stage'[g] # "done" => answer'[g] = "none"
       PROVE  CarryInv'
  <2>1. AllCarried' /\ Exists(manifest)'
    BY <1>0, <1>11, CreateCarries
  <2>2. \A f \in Migrators : DraftCarries(f)'
    BY <1>0, <1>11 DEF CarryInv, DraftCarries, BundlesDrafted, HeadDrafted,
                       MarkersDrafted, BundlesOf, Exists
  <2>3. \A z \in Finalizers : step[z] \notin {"packs", "keys", "delete"}
    BY <1>11 DEF Creates, CarryInv, HasCreated
  <2>4. step' = step
    BY <1>0 DEF finalizeVars
  <2> QED
    BY <1>0, <1>11, <2>1, <2>2, <2>3, <2>4 DEF CarryInv, KeysDistinct
<1>12. CASE Create(g)
  <2>1. /\ Creates(g) /\ stage[g] = "create"
        /\ stage'[g] = "verify" /\ draft'[g] = draft[g] /\ answer'[g] = "none"
        /\ \A f \in Migrators \ {g} : UNCHANGED <<stage[f], draft[f], answer[f]>>
    BY <1>1, <1>2, <1>12 DEF Create, Creates, Drafts, Stage
  <2>2. DraftCarries(g)'
    BY <1>0, <1>5, <2>1 DEF DraftCarries, BundlesDrafted, HeadDrafted,
                            MarkersDrafted, BundlesOf, Exists
  <2> QED
    BY <1>11, <2>1, <2>2
<1>13. CASE CreateFails(g)
  <2>1. CASE UNCHANGED manifest
    BY <1>3, <1>13, <2>1 DEF CreateFails
  <2>2. CASE ~Exists(manifest) /\ manifest' = draft[g]
    <3>1. /\ Creates(g) /\ stage'[g] = "done"
          /\ \A f \in Migrators \ {g} : UNCHANGED <<stage[f], draft[f], answer[f]>>
      BY <1>2, <1>13, <2>2 DEF CreateFails, Creates, Answers, Stage
    <3>2. DraftCarries(g)'
      BY <3>1 DEF DraftCarries
    <3> QED
      BY <1>11, <3>1, <3>2
  <2> QED
    BY <1>13, <2>1, <2>2 DEF CreateFails
<1>14. CASE VerifyManifest(g)
  <2>1. /\ stage[g] = "verify" /\ stage'[g] = "rebuild"
        /\ draft' = draft /\ answer' = answer
        /\ \A f \in Migrators \ {g} : UNCHANGED <<stage[f], draft[f], answer[f]>>
        /\ UNCHANGED manifest
    BY <1>2, <1>14 DEF VerifyManifest, Stage, bucketVars
  <2>2. DraftCarries(g)'
    BY <1>0, <1>5, <2>1 DEF DraftCarries, BundlesDrafted, HeadDrafted,
                            MarkersDrafted, BundlesOf, Exists
  <2>3. HasCreated(g)
    BY <2>1 DEF HasCreated
  <2> QED
    BY <1>0, <1>1, <2>1, <2>2, <2>3, MigratorStays
<1>15. CASE VerifyPack(g)
  <2>1. /\ stage[g] = "rebuild" /\ stage'[g] = "done"
        /\ \A f \in Migrators \ {g} : UNCHANGED <<stage[f], draft[f], answer[f]>>
        /\ UNCHANGED manifest
    BY <1>2, <1>15 DEF VerifyPack, Answers, Stage, bucketVars
  <2>2. DraftCarries(g)' /\ HasCreated(g)
    BY <2>1 DEF DraftCarries, HasCreated
  <2> QED
    BY <1>0, <1>1, <2>1, <2>2, MigratorStays
<1>16. CASE MigrateFails(g)
  BY <1>3, <1>16 DEF MigrateFails
<1> QED
  BY <1>6, <1>7, <1>8, <1>9, <1>10, <1>12, <1>13, <1>14, <1>15, <1>16
     DEF MigratorStep

\* Every step keeps the invariant.
LEMMA MigrationCarries ==
    ASSUME LegacyStops, FinalizeAfter \subseteq {"migrated"},
           TypeInv, MigrateInv, CarryInv, [MigrationNext]_migrationVars
    PROVE  CarryInv'
BY NextCarries, LegacyCarries, MigratorCarries, FinalizerCarries
   DEF MigrationNext, migrationVars

\* A key is deleted for a newer one of its kind, or with the manifest.
LEMMA DeletionsCarried ==
    ASSUME TypeInv, MigrateInv, CarryInv, [MigrationNext]_migrationVars,
           NEW k \in legacy \ legacy'
    PROVE  Replaced(k, legacy') \/ CarriedOver(k, manifest)
<1>0. legacy \subseteq LegacyKey /\ legacy' \subseteq LegacyKey
  BY BundleTips, MigrationKeepsTypes DEF MigrateInv, MigrateTypeOK
<1>1. ASSUME NEW l \in unsent, LegacyPut(l) PROVE Replaced(k, legacy')
  <2>1. SameKey(l, k) /\ l \in legacy' /\ k # l
    BY <1>1 DEF LegacyPut
  <2>2. k.kind = "head"
    BY <1>0, <2>1 DEF SameKey, LegacyKey
  <2> QED
    BY <2>1, <2>2 DEF SameKey, Replaced
<1>2. ASSUME NEW l \in legacy, LegacyTidy(l) PROVE Replaced(k, legacy')
  <2>1. k = l /\ k.kind = "bundle" /\ Outdated(k) /\ legacy' = legacy \ {k}
    BY <1>2 DEF LegacyTidy
  <2>2. PICK n \in legacy : n.kind = "bundle" /\ n.ref = k.ref /\ n # k
                            /\ IsAncestor(k.sha, n.sha)
    BY <2>1 DEF Outdated, BundlesOf
  <2> QED
    BY <2>1, <2>2 DEF Replaced
<1>3. ASSUME NEW z \in Finalizers, FinalizerStep(z)
      PROVE  CarriedOver(k, manifest)
  <2>1. FinalizeDelete(z)
    BY <1>3 DEF FinalizerStep, StartFinalize, FinalizeCheckPacks,
                FinalizeListKeys, FinalizeEnds, legacyVars
  <2>2. \E g \in Migrators : answer[g] = "migrated"
    BY <2>1 DEF FinalizeDelete, CarryInv
  <2> QED
    BY <2>2 DEF CarryInv, HasCreated, AllCarried
<1>4. ASSUME NEW g \in Migrators, MigratorStep(g) PROVE FALSE
  BY <1>4 DEF MigratorStep, StartMigrate, ReadBundles, ReadHead, ReadMarkers,
              UploadDraft, Create, CreateFails, VerifyManifest, VerifyPack,
              MigrateFails, legacyVars
<1> QED
  BY <1>1, <1>2, <1>3, <1>4
     DEF MigrationNext, LegacyClientStep, migrationVars, migrateVars, legacyVars

\* No branch, protection or default that a legacy client has stored is deleted
\* with its key unless the manifest has it, or a client of the manifest had
\* leave to take it away: whatever migrates race, whatever is pushed through
\* the manifest meanwhile, and however --finalize is repeated.  (The old
\* clients have stopped, and the answer finalized upon is "migrated"; the run
\* finalize_race shows what "exists" does.)
THEOREM FinalizingLosesNothing ==
    ASSUME LegacyStops, FinalizeAfter \subseteq {"migrated"}
    PROVE  MigrationSpec => FinalizeLosesNothing
<1> DEFINE Spared == \A k \in legacy \ legacy' :
                        Replaced(k, legacy') \/ CarriedOver(k, manifest)
<1>1. TypeInv /\ MigrateInv /\ CarryInv /\ [MigrationNext]_migrationVars =>
          Spared
  BY DeletionsCarried
<1>2. TypeInv /\ MigrateInv /\ CarryInv /\ [MigrationNext]_migrationVars =>
          [Spared]_migrationVars
  BY <1>1
<1> HIDE DEF Spared
<1>3. TypeInv /\ MigrateInv /\ CarryInv /\ [MigrationNext]_migrationVars =>
          TypeInv' /\ MigrateInv' /\ CarryInv'
  BY MigrationTypes, MigrationKeepsTypes, MigrationCarries
<1>4. MigrationSpec => [][Spared]_migrationVars
  BY <1>2, <1>3, InitMigrate, InitCarry, PTL DEF MigrationSpec
<1> QED
  BY <1>4 DEF FinalizeLosesNothing, Spared

-----------------------------------------------------------------------------
(***************************************************************************)
(* The clients of the manifest, while it comes into being.  A repository   *)
(* without a manifest holds nothing that create() could replace, and the   *)
(* one it puts there has a pack with the history of every ref.             *)
(***************************************************************************)
CreateInv ==
    /\ \A g \in Migrators : stage[g] = "create" =>
          Exists(draft[g]) /\ Complete(draft[g])
    /\ Migrators # {} /\ ~Exists(manifest) => manifest = EmptyManifest
    /\ (\E p \in Pushers : landed[p] # {}) => Exists(manifest)

\* It holds at the start: no push has stored anything.
LEMMA InitCreate == MigrationInit => CreateInv
<1> SUFFICES ASSUME MigrationInit PROVE CreateInv
  OBVIOUS
<1>1. PICK s \in Seeds : manifest = s.manifest
  BY DEF MigrationInit, Init, StoreInit
<1>2. Migrators # {} => manifest = EmptyManifest
  BY <1>1, NoManifestAssumption
<1> QED
  BY <1>2 DEF MigrationInit, MigrateInit, Init, PushInit, CreateInv

\* What lands makes or replaces a manifest.
LEMMA LandingWrites ==
    ASSUME TypeInv, [Next]_vars
    PROVE  /\ UNCHANGED landed \/ Exists(manifest)'
           /\ UNCHANGED manifest \/ Exists(manifest)'
           /\ Exists(manifest) => Exists(manifest)'
<1>1. UNCHANGED manifest \/ Exists(manifest)'
  BY WritesRaiseSeq, LogSteps DEF Exists
<1>2. ASSUME NEW p \in Pushers, PushStep(p) PROVE UNCHANGED <<manifest, landed>>
                                                \/ manifest' # manifest
                                                \/ UNCHANGED landed
  BY <1>2 DEF PushStep, StartPush, PrepareDelete, PrepareRefused, PreparePack,
              PrepareFails, PushLoad, PushCommitted, PushRefused, PushExhausted,
              PushRaised, PushRejected, NextCommand, Landing, pushVars
<1>3. UNCHANGED landed \/ manifest' # manifest
  BY <1>2 DEF Next, PusherStep, OperatorStep, CompactorStep, OutliveGrace,
              UpgradeFormat, Quiescent, vars, pushVars
<1>4. Exists(manifest) => Exists(manifest)'
  BY LogSteps DEF Exists
<1> QED
  BY <1>1, <1>3, <1>4

\* A draft that is ready to be created is complete: its one pack holds all
\* that its refs reach.
LEMMA DraftComplete ==
    ASSUME MigrateInv, NEW g \in Migrators, UploadDraft(g)
    PROVE  Exists(draft'[g]) /\ Complete(draft'[g])
<1> DEFINE e == [seq |-> 1, pack |-> BasePack(draft[g])]
<1>0. draft[g] \in Manifest /\ DOMAIN draft = Migrators
  BY DEF MigrateInv, MigrateTypeOK
<1>1. draft'[g] = [draft[g] EXCEPT !.seq = 1, !.entries = {e}]
  BY <1>0 DEF UploadDraft, Drafts
<1> HIDE DEF e
<1>2. /\ draft'[g].refs = draft[g].refs
      /\ draft'[g].seq = 1
      /\ draft'[g].entries = {e}
  BY <1>0, <1>1 DEF Manifest
<1>3. Tips(draft'[g]) = Tips(draft[g])
  BY <1>2 DEF Tips, LiveRefs
<1>4. BasePack(draft[g]) \in Named(draft'[g])
  BY <1>2 DEF Named, e
<1>5. Complete(draft'[g])
  BY <1>3, <1>4 DEF Complete, BasePack
<1> QED
  BY <1>2, <1>5 DEF Exists

\* Every step keeps the invariant.
LEMMA NextCreates ==
    ASSUME TypeInv, MigrateInv, CreateInv, [MigrationNext]_migrationVars
    PROVE  CreateInv'
<1>1. \A g \in Migrators : stage'[g] = "create" =>
          Exists(draft'[g]) /\ Complete(draft'[g])
  <2> SUFFICES ASSUME NEW g \in Migrators, stage'[g] = "create"
               PROVE  Exists(draft'[g]) /\ Complete(draft'[g])
    OBVIOUS
  <2>1. ASSUME stage'[g] = stage[g], draft'[g] = draft[g]
        PROVE  Exists(draft'[g]) /\ Complete(draft'[g])
    BY <2>1 DEF CreateInv
  <2>2. ASSUME NEW f \in Migrators, MigratorStep(f)
        PROVE  UploadDraft(g) \/ (stage'[g] = stage[g] /\ draft'[g] = draft[g])
    BY <2>2 DEF MigratorStep, StartMigrate, ReadBundles, ReadHead, ReadMarkers,
                UploadDraft, Create, CreateFails, VerifyManifest, VerifyPack,
                MigrateFails, Answers, Drafts, Stage, MigrateInv, MigrateTypeOK
  <2>3. CASE UNCHANGED migratorVars
    BY <2>1, <2>3 DEF migratorVars
  <2>4. CASE ~UNCHANGED migratorVars
    <3>1. \E f \in Migrators : MigratorStep(f)
      BY <2>4 DEF MigrationNext, migrationVars, migrateVars, LegacyClientStep,
                  LegacyPut, LegacyTidy, FinalizerStep, StartFinalize,
                  FinalizeCheckPacks, FinalizeListKeys, FinalizeDelete,
                  FinalizeEnds
    <3> QED
      BY <2>1, <2>2, <3>1, DraftComplete
  <2> QED
    BY <2>3, <2>4
<1>2. CASE [Next]_vars
  <2>1. Migrators # {} /\ ~Exists(manifest)' => manifest' = EmptyManifest
    BY <1>2, LandingWrites DEF CreateInv
  <2>2. (\E p \in Pushers : landed'[p] # {}) => Exists(manifest)'
    BY <1>2, LandingWrites DEF CreateInv
  <2> QED
    BY <1>1, <2>1, <2>2 DEF CreateInv
<1>3. ASSUME NEW g \in Migrators, RepoIdle, UNCHANGED manifest \/ Creates(g)
      PROVE  CreateInv'
  <2>1. UNCHANGED landed
    BY <1>3 DEF RepoIdle, pushVars
  <2>2. UNCHANGED manifest \/ Exists(manifest)'
    BY <1>3 DEF Creates, CreateInv, Exists
  <2>3. Exists(manifest) => Exists(manifest)'
    BY <1>3 DEF Creates, Exists
  <2>4. Migrators # {} /\ ~Exists(manifest)' => manifest' = EmptyManifest
    BY <2>2, <2>3 DEF CreateInv
  <2>5. (\E p \in Pushers : landed'[p] # {}) => Exists(manifest)'
    BY <2>1, <2>3 DEF CreateInv
  <2> QED
    BY <1>1, <2>4, <2>5 DEF CreateInv
<1> QED
  BY <1>2, <1>3, RepoMoves

\* create() takes nothing away from a push: none has been told ok yet.
LEMMA CreateLosesNoUpdate ==
    ASSUME CreateInv, OkMeansApplied, NoLostUpdate,
           NEW g \in Migrators, RepoIdle, UNCHANGED manifest \/ Creates(g)
    PROVE  OkMeansApplied' /\ NoLostUpdate'
<1>1. UNCHANGED <<batch, result, landed, task>>
  BY DEF RepoIdle, pushVars, manageVars
<1>2. \A p \in Pushers : Ok(p)' = Ok(p)
  BY <1>1 DEF Ok, Cmds
<1>3. OkMeansApplied'
  BY <1>1, <1>2 DEF OkMeansApplied
<1>4. CASE UNCHANGED manifest
  BY <1>1, <1>2, <1>3, <1>4 DEF NoLostUpdate, MayBeRewritten, Cmds
<1>5. CASE Creates(g)
  <2>1. \A p \in Pushers : Ok(p) = {}
    BY <1>5 DEF Creates, CreateInv, OkMeansApplied
  <2> QED
    BY <1>2, <1>3, <2>1 DEF NoLostUpdate
<1> QED
  BY <1>3, <1>4, <1>5

\* A commit that a push was told is stored stays in the history of its ref
\* although a migrate creates the manifest at the same time: whichever comes
\* second works on what the first has stored, or fails.
THEOREM MigrationLosesNoUpdate == MigrationSpec => []NoLostUpdate
<1>1. MigrationInit => OkMeansApplied /\ NoLostUpdate
  BY DEF MigrationInit, Init, PushInit, OkMeansApplied, NoLostUpdate, Ok, Cmds
<1>2. TypeInv /\ MigrateInv /\ CreateInv /\ OkMeansApplied /\ NoLostUpdate
      /\ [MigrationNext]_migrationVars => OkMeansApplied' /\ NoLostUpdate'
  BY RepoMoves, NextKeepsReports, NextLosesNoUpdate, CreateLosesNoUpdate
<1>3. TypeInv /\ MigrateInv /\ CreateInv /\ [MigrationNext]_migrationVars =>
          TypeInv' /\ MigrateInv' /\ CreateInv'
  BY MigrationTypes, MigrationKeepsTypes, NextCreates
<1> QED
  BY <1>1, <1>2, <1>3, InitMigrate, InitCreate, PTL DEF MigrationSpec

\* What a push knows of a repository without a manifest is nothing, and its
\* packs are then complete by themselves.
LEMMA CreateResolves ==
    ASSUME CreateInv, ResolveInv,
           NEW g \in Migrators, RepoIdle, UNCHANGED manifest \/ Creates(g)
    PROVE  ResolveInv'
<1>1. UNCHANGED <<pc, snap, batch, cursor, pack, result, task>>
  BY DEF RepoIdle, casVars, pushVars, manageVars
<1>2. NeverAllThree'
  BY <1>1 DEF ResolveInv, NeverAllThree, MayBeRewritten, Cmds
<1>3. CASE UNCHANGED manifest
  BY <1>1, <1>2, <1>3 DEF ResolveInv, PushResolved, Cmds
<1>4. CASE Creates(g)
  <2>1. manifest = EmptyManifest
    BY <1>4 DEF Creates, CreateInv
  <2>2. Lasting(manifest) = {}
    BY <2>1, EmptyBase DEF Lasting, Objects, Named, EmptyManifest
  <2>3. Lasting(manifest) \subseteq Lasting(manifest')
    BY <2>2
  <2>4. \A p \in Pushers : PushResolved(p)'
    BY <1>1, <2>3 DEF ResolveInv, PushResolved, Cmds
  <2>5. Complete(manifest')
    BY <1>4 DEF Creates, CreateInv
  <2> QED
    BY <1>2, <2>4, <2>5 DEF ResolveInv
<1> QED
  BY <1>3, <1>4

\* Every ref keeps its whole history while a repository is migrated, whoever
\* else pushes and compacts (or pushes and rewrites, or compacts and rewrites).
THEOREM MigratedRefsResolve == MigrationSpec /\ NeverAllThree => []RefsResolve
<1>1. ResolveInv => RefsResolve
  BY DEF ResolveInv, RefsResolve
<1>2. MigrationInit /\ NeverAllThree => ResolveInv
  BY InitResolves DEF MigrationInit
<1>3. TypeInv /\ MigrateInv /\ CreateInv /\ ResolveInv
      /\ [MigrationNext]_migrationVars => ResolveInv'
  BY RepoMoves, NextResolves, CreateResolves
<1>4. TypeInv /\ MigrateInv /\ CreateInv /\ [MigrationNext]_migrationVars =>
          TypeInv' /\ MigrateInv' /\ CreateInv'
  BY MigrationTypes, MigrationKeepsTypes, NextCreates
<1> QED
  BY <1>1, <1>2, <1>3, <1>4, InitMigrate, InitCreate, PTL DEF MigrationSpec

-----------------------------------------------------------------------------
(***************************************************************************)
(* doctor.  It compares a log it has read with packs it lists later.  An   *)
(* entry that has left the log does not come back, so if all that doctor   *)
(* has read is in the log when it reports, it was when the packs were      *)
(* listed.                                                                 *)
(***************************************************************************)
AuditInv ==
    /\ visit \in [Doctors -> {"idle", "list", "report", "done"}]
    /\ inspected \in [Doctors -> Manifest]
    /\ DOMAIN listing = Doctors
    /\ DOMAIN verdict = Doctors
    /\ \A d \in Doctors : visit[d] \in {"list", "report"} =>
          /\ ValidEntries(inspected[d])
          /\ inspected[d].seq <= manifest.seq
    /\ \A d \in Doctors :
          visit[d] = "report" /\ inspected[d].entries \subseteq manifest.entries
              => MissingPacks(d) = {}

\* The rest of the system keeps it: the log moves on.
LEMMA RepoKeepsAudit ==
    ASSUME TypeInv, AuditInv, [Next]_vars, UNCHANGED doctorVars
    PROVE  AuditInv'
<1>0. UNCHANGED <<visit, inspected, listing, verdict>>
  BY DEF doctorVars
<1>1. ASSUME NEW d \in Doctors, visit[d] \in {"list", "report"}
      PROVE  inspected[d].seq <= manifest'.seq
  BY <1>1, LogSteps DEF AuditInv, Manifest
<1>2. ASSUME NEW d \in Doctors, visit[d] \in {"list", "report"},
             inspected[d].entries \subseteq manifest'.entries
      PROVE  inspected[d].entries \subseteq manifest.entries
  <2> SUFFICES ASSUME NEW e \in inspected[d].entries PROVE e \in manifest.entries
    OBVIOUS
  <2>1. /\ e.seq <= inspected[d].seq /\ inspected[d].seq <= manifest.seq
        /\ e.seq \in Nat /\ inspected[d].seq \in Nat /\ manifest.seq \in Nat
    BY <1>2, LogSteps DEF AuditInv, ValidEntries, Manifest, Entry
  <2>2. ~(e.seq > manifest.seq)
    BY <2>1
  <2> QED
    BY <1>2, <2>2, LogSteps
<1>3. ASSUME NEW d \in Doctors PROVE MissingPacks(d)' = MissingPacks(d)
  BY <1>0 DEF MissingPacks, Named
<1> QED
  BY <1>0, <1>1, <1>2, <1>3 DEF AuditInv

\* So do the steps of doctor, as long as no named pack is missing.
LEMMA DoctorKeepsAudit ==
    ASSUME TypeInv, LogValid, NoMissingPack, AuditInv,
           NEW d \in Doctors, DoctorStep(d), UNCHANGED manifest
    PROVE  AuditInv'
<1>0. manifest \in Manifest /\ manifest.seq \in Nat
  BY DEF TypeInv, TypeOK, StoreTypeOK, Manifest
<1>1. ASSUME NEW how, Concludes(d, how) PROVE AuditInv'
  BY <1>1, EmptyManifestType
     DEF Concludes, Visit, AuditInv, MissingPacks, Named
<1>2. CASE StartDoctor(d) /\ ~Concludes(d, "clean")
  BY <1>0, <1>2 DEF StartDoctor, Visit, AuditInv, LogValid, MissingPacks, Named
<1>3. CASE DoctorList(d)
  <2>1. /\ visit[d] = "list" /\ visit' = [visit EXCEPT ![d] = "report"]
        /\ listing' = [listing EXCEPT ![d] = packs]
        /\ UNCHANGED <<inspected, verdict, manifest>>
    BY <1>3 DEF DoctorList, Visit
  <2>2. inspected[d].entries \subseteq manifest.entries => MissingPacks(d)' = {}
    BY <2>1 DEF NoMissingPack, MissingPacks, Named, AuditInv
  <2>3. \A c \in Doctors \ {d} : MissingPacks(c)' = MissingPacks(c)
    BY <2>1 DEF MissingPacks, Named, AuditInv
  <2> QED
    BY <2>1, <2>2, <2>3 DEF AuditInv
<1> QED
  BY <1>1, <1>2, <1>3 DEF DoctorStep, DoctorReport, DoctorRaises, StartDoctor

\* Then an alarm is right, or the log has moved on.
LEMMA AlarmsRight ==
    ASSUME AuditInv, NEW c \in Doctors, DoctorStep(c), NEW d \in Doctors,
           verdict[d] # "alarm", verdict'[d] = "alarm"
    PROVE  ~(inspected[d].entries \subseteq manifest.entries)
<1>1. /\ DoctorReport(d) /\ MissingPacks(d) # {}
  BY DEF DoctorStep, StartDoctor, DoctorList, DoctorReport, DoctorRaises,
         Concludes, AuditInv
<1> QED
  BY <1>1 DEF DoctorReport, AuditInv

\* In a repository that has its manifest, doctor calls a missing pack a
\* corruption only of a log that has been replaced since it was read, whatever
\* is pushed, compacted and swept in between.  (No reply is lost, and no pack
\* is built that is on its way in or out.)
THEOREM AlarmsMeanReplaced ==
    ASSUME ~LostReplies, Migrators = {}
    PROVE  MigrationSpec /\ PacksBuiltAnew => AlarmMeansReplaced
<1> DEFINE Right == \A d \in Doctors :
              verdict[d] # "alarm" /\ verdict'[d] = "alarm" =>
                  ~(inspected[d].entries \subseteq manifest.entries)
<1>1. MigrationInit => Init /\ AuditInv
  BY EmptyManifestType DEF MigrationInit, DoctorInit, AuditInv
<1>2. [MigrationNext]_migrationVars => [Next]_vars
  BY RepoMoves
<1>3. MigrationSpec => Spec
  BY <1>1, <1>2, PTL DEF MigrationSpec, Spec
<1>4. [MigrationNext]_migrationVars =>
          \/ UNCHANGED doctorVars
          \/ \E d \in Doctors : DoctorStep(d) /\ UNCHANGED manifest
  BY DEF MigrationNext, LegacyClientStep, migrationVars, vars, storeVars
<1>5. TypeInv /\ LogValid /\ NoMissingPack /\ AuditInv
      /\ [MigrationNext]_migrationVars => AuditInv'
  BY <1>2, <1>4, RepoKeepsAudit, DoctorKeepsAudit
<1>6. AuditInv /\ [MigrationNext]_migrationVars => Right
  BY <1>4, AlarmsRight DEF doctorVars
<1>7. AuditInv /\ [MigrationNext]_migrationVars => [Right]_migrationVars
  BY <1>6
<1> HIDE DEF Right
<1>8. Spec => []TypeInv
  BY InitTypes, NextTypes, PTL DEF Spec
<1>9. MigrationSpec /\ PacksBuiltAnew => []NoMissingPack /\ []LogValid /\ []TypeInv
  BY <1>3, <1>8, NothingNamedIsLost, LogAlwaysValid, PTL
<1>10. MigrationSpec /\ PacksBuiltAnew => [][Right]_migrationVars
  BY <1>1, <1>5, <1>7, <1>9, PTL DEF MigrationSpec
<1> QED
  BY <1>10 DEF AlarmMeansReplaced, Right
=============================================================================
