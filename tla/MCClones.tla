------------------------------ MODULE MCClones ------------------------------
(***************************************************************************)
(* Small instances of Clones, over the commits and repositories of MCRepo. *)
(***************************************************************************)
EXTENDS MCRepo, Clones

CONSTANT clone1

OneClone == [f \in Fetchers |-> clone1]

FetcherSymmetry == Permutations(Fetchers \ ByURL) \cup Permutations(ByURL)

\* fetch_race: two fetches into one clone, a push and a compaction.
GrownOnly  == {Grown}
FetchPushes == {<<Plain("main", "c3")>>}

\* stale_mark: a clone that has fetched some of a log of three entries, or
\* nothing, with a mark that may be wrong, and gc; a branch is deleted.
Grown3 == Pushed(Grown, "side", "c4", {"c4"})
StaleSeeds == {Grown3}
StaleClones == {{}, {"c1", "c2", "c4"}}
StaleOps == {[op |-> "delete", ref |-> "side"]}
=============================================================================
