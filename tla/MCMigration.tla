---------------------------- MODULE MCMigration ----------------------------
(***************************************************************************)
(* Small instances of Migration, over the commits and repositories of      *)
(* MCRepo.                                                                 *)
(***************************************************************************)
EXTENDS MCRepo, Migration

Bundle(r, c) == [kind |-> "bundle", ref |-> r, sha |-> c]
Marker(r)    == [kind |-> "marker", ref |-> r, sha |-> None]
LegacyHead(r) == [kind |-> "head", ref |-> r, sha |-> None]

\* The clone of a migrator has never fetched c2.
MigratorClone == [g \in Migrators |-> {"c1", "c4", "c5"}]

\* migrate_race, finalize_race: main and side are each pushed twice by clients
\* of the old format, side at last to one the migrator's clone has or to one it
\* has not, and once by a client of the new one at any time.
OldRepositories == {{LegacyHead("side")}}
OldPushes       == {Bundle("main", "c1"), Bundle("main", "c4"),
                    Bundle("side", "c5"), Bundle("side", "c2"), Marker("side")}
NoManifest      == {Fresh0}
NewPushes       == {<<Plain("main", "c4")>>, <<Plain("side", "c5")>>}

\* compact_race: two compactors and a push, or one, a push and a doctor.
DoctorOrSecondCompactor ==
    (\E d \in Doctors : visit[d] # "idle") => \E k \in Compactors : pc[k] = "idle"
=============================================================================
