------------------------------- MODULE MCRepo -------------------------------
(***************************************************************************)
(* Small instances of Repo.  The commits:                                  *)
(*                                                                         *)
(*      c1 <-- c2 <-- c3                                                   *)
(*       ^---- c4                                                          *)
(*       ^---- c5                                                          *)
(***************************************************************************)
EXTENDS Repo, TLC

Symmetry == Permutations(Pushers) \cup Permutations(Compactors)

MCCommit == {"c1", "c2", "c3", "c4", "c5"}

MCReach == [c \in MCCommit |->
              CASE c = "c1" -> {"c1"}
                [] c = "c2" -> {"c1", "c2"}
                [] c = "c3" -> {"c1", "c2", "c3"}
                [] c = "c4" -> {"c1", "c4"}
                [] c = "c5" -> {"c1", "c5"}]

MCRef == {"main", "side"}

CONSTANT Partial  \* the clients whose clone has never fetched c4

MCHolds == [c \in Client |-> IF c \in Partial THEN MCCommit \ {"c4"} ELSE MCCommit]

\* Commands.
Plain(r, c)     == [ref |-> r, sha |-> c, force |-> FALSE, lease |-> NoLease]
Force(r, c)     == [ref |-> r, sha |-> c, force |-> TRUE, lease |-> NoLease]
Leased(r, c, l) == [ref |-> r, sha |-> c, force |-> FALSE, lease |-> l]
Remove(r)       == Plain(r, None)

\* Repositories, each made by pushes and commands from nothing.
Pushed(s, r, c, pk) ==
    [manifest |-> ApplyPushes(s.manifest, <<Force(r, c)>>, <<pk>>, {1}),
     packs    |-> s.packs \cup ({pk} \ {{}})]

Fresh0   == [manifest |-> EmptyManifest, packs |-> {}]
MainAt2  == Pushed(Fresh0, "main", "c2", {"c1", "c2"})
MainAt1  == Pushed(Fresh0, "main", "c1", {"c1"})
Grown    == Pushed(MainAt1, "main", "c2", {"c2"})
Forked   == Pushed(MainAt2, "side", "c4", {"c4"})
Dropped  == [Forked EXCEPT !.manifest = ApplyDelete(@, "side")]
Littered == [Grown EXCEPT !.packs = @ \cup {{"c5"}}]
Orphaned == [Grown EXCEPT !.packs = @ \cup {{"c4"}}]

\* push_race.
RaceSeeds   == {Fresh0, Forked}
RaceBatches == {<<Plain("main", "c3")>>,
                <<Plain("main", "c4"), Plain("side", "c4")>>,
                <<Force("main", "c4")>>,
                <<Leased("main", "c4", "c2"), Plain("side", "c1")>>,
                <<Remove("main"), Plain("side", "c3")>>}
RaceOps == {[op |-> "delete", ref |-> "main"], [op |-> "protect", ref |-> "main"]}

\* compact_race: the push has a pack for main, and none for side, whose history
\* the repository already has.
CompactSeeds   == {Littered}
CompactBatches == {<<Plain("main", "c3"), Plain("side", "c1")>>}

\* finishes: one client of each kind, and one of a later release.  Compaction
\* drops the objects of side, once it is deleted; no push builds on them.
MixedSeeds   == {Forked}
MixedBatches == {<<Plain("main", "c3"), Remove("side")>>}
MixedOps     == {[op |-> "delete", ref |-> "side"], [op |-> "head", ref |-> "side"]}

\* delete_under_push: main is deleted while a push builds on it.
MainPush      == {<<Plain("main", "c3")>>}
MainDeletion  == {[op |-> "delete", ref |-> "main"]}
ForkedOnly    == {Forked}

\* repush_during_compaction, sweep_race: a push builds a pack that is there.
SidePush      == {<<Plain("side", "c4")>>}
DroppedOnly   == {Dropped}
OrphanedOnly  == {Orphaned}

\* exhausted_commit.
MainAt2Only   == {MainAt2}
=============================================================================
