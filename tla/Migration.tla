----------------------------- MODULE Migration -----------------------------
(***************************************************************************)
(* A repository (Repo) that is audited by doctor, and one that comes from  *)
(* the pre-manifest format: legacy clients, migrate and --finalize beside  *)
(* the clients that already work on the manifest.                          *)
(***************************************************************************)
EXTENDS Repo, Migrate, Doctor

\* A legacy repository starts without a manifest.
ASSUME NoManifestAssumption ==
    Migrators # {} => \A s \in Seeds : s.manifest = EmptyManifest

migrationVars == <<vars, migrateVars, doctorVars>>

MigrationInit == Init /\ MigrateInit /\ DoctorInit

RepoIdle == UNCHANGED <<casVars, snap, pushVars, manageVars, compactVars>>

LegacyClientStep ==
    /\ (\E k \in unsent : LegacyPut(k)) \/ (\E k \in legacy : LegacyTidy(k))
    /\ UNCHANGED <<vars, doctorVars>>

MigrationNext ==
    \/ Next /\ UNCHANGED <<migrateVars, doctorVars>>
    \/ LegacyClientStep
    \/ \E g \in Migrators : MigratorStep(g) /\ RepoIdle /\ UNCHANGED doctorVars
    \/ \E z \in Finalizers : FinalizerStep(z) /\ RepoIdle /\ UNCHANGED doctorVars
    \/ \E d \in Doctors : DoctorStep(d) /\ UNCHANGED <<vars, migrateVars>>

MigrationSpec == MigrationInit /\ [][MigrationNext]_migrationVars
-----------------------------------------------------------------------------
\* A client that works on the manifest has leave to drop the protection of r.
MayBeUnprotected(r) ==
    \/ \E p \in Pushers : \E i \in Cmds(p) :
          batch[p][i].ref = r /\ batch[p][i].sha = None
    \/ \E a \in Admins : task[a].op \in {"delete", "unprotect"} /\ task[a].ref = r

\* An operator has leave to choose another default branch.
MayChooseHead == \E a \in Admins : task[a].op = "head"

\* What a legacy key says is said by the manifest m too, unless a client of
\* the manifest has leave to say otherwise.  A HEAD whose ref has no bundle
\* says nothing.
CarriedOver(k, m) ==
    CASE k.kind = "bundle" ->
           \/ MayBeRewritten(k.ref)
           \/ m.refs[k.ref] # None /\ IsAncestor(k.sha, m.refs[k.ref])
      [] k.kind = "marker" -> MayBeUnprotected(k.ref) \/ k.ref \in m.protected
      [] k.kind = "head"   ->
           MayChooseHead \/ m.head = k.ref \/ BundlesOf(k.ref) = {}

\* A legacy client has put something newer in its place.
Replaced(k, keys) ==
    \E l \in keys : l.kind = k.kind /\
        (k.kind = "head" \/ (l.ref = k.ref /\ IsAncestor(k.sha, l.sha)))

\* FinalizeLosesNothing: no legacy key is deleted, "the point of no return",
\* whose branch, protection or default the manifest does not have: whatever is
\* pushed through the manifest before, during and after the migration, and
\* with whatever duplicates a legacy push left.  (The old clients have stopped
\* and the operator finalizes only what migrate reported as migrated.)
FinalizeLosesNothing ==
    [][\A k \in legacy \ legacy' :
          Replaced(k, legacy') \/ CarriedOver(k, manifest)]_migrationVars

\* AlarmMeansReplaced: doctor calls a missing pack a corruption only when it is
\* one, or when the log has been replaced since doctor read it: a push that
\* goes on at the same time is no reason.
AlarmMeansReplaced ==
    [][\A d \in Doctors :
          verdict[d] # "alarm" /\ verdict'[d] = "alarm" =>
              ~(inspected[d].entries \subseteq manifest.entries)]_migrationVars
=============================================================================
