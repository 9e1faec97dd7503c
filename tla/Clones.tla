------------------------------- MODULE Clones -------------------------------
(***************************************************************************)
(* A repository (Repo) and the clones that fetch from it.                  *)
(***************************************************************************)
EXTENDS Repo, Fetch

\* The seq of an entry is that of the write that appended it: never 0, which
\* is what a clone without a mark has imported.
ASSUME SeedSeqAssumption ==
    \A s \in Seeds : \A e \in s.manifest.entries : e.seq > 0

cloneSysVars == <<vars, fetchVars>>

ClonesInit == Init /\ FetchInit

FetcherStep(f) == FetchStep(f) /\ UNCHANGED vars

ClonesNext ==
    \/ Next /\ UNCHANGED fetchVars
    \/ \E f \in Fetchers : FetcherStep(f)
    \/ \E k \in Clones : Prune(k) /\ UNCHANGED vars

ClonesSpec == ClonesInit /\ [][ClonesNext]_cloneSysVars

\* A fetch that is not killed goes on until it ends.
FairClonesSpec ==
    ClonesSpec /\ \A f \in Fetchers : WF_cloneSysVars(FetcherStep(f))

-----------------------------------------------------------------------------
\* MarkSound: everything the mark says has been imported is in the clone, so
\* that a fetch need not look below it: whatever is pushed or compacted and
\* however many fetches run, fail or are interrupted.  (Without gc, and with a
\* mark that only this program has written.)
MarkSound ==
    \A k \in Clones : \A e \in manifest.entries :
        e.seq <= mark[k] => e.pack \subseteq objects[k]

\* MissingMeansReplaced: a download fails for want of its pack only when the
\* log has been replaced since the fetch read it: the next fetch will do.
MissingMeansReplaced ==
    \A f \in Fetchers :
        ended[f] = "missing" => ~(read[f].entries \subseteq manifest.entries)

\* IncompleteMeansGone: "the remote's packs do not contain the whole history"
\* is said only if the manifest no longer reaches what git asked for, however
\* wrong the mark was and whatever gc had pruned.
IncompleteMeansGone ==
    \A f \in Fetchers :
        ended[f] = "incomplete" => ~(wanted[f] \subseteq BasePack(read[f]))

\* FetchDelivers: a fetch ends well only with the whole history of every tip
\* it was asked for, however wrong the mark: a hint, "never correctness".
FetchDelivers ==
    [][\A f \in Fetchers :
          ended[f] # "ok" /\ ended'[f] = "ok" =>
              \A c \in wanted[f] : Reach[c] \subseteq objects'[CloneOf[f]]]_cloneSysVars

\* EveryFetchEnds: the fallback comes to an end.
EveryFetchEnds == \A f \in Fetchers : <>(at[f] = "done")
=============================================================================
