------------------------------- MODULE Fetch -------------------------------
(***************************************************************************)
(* git fetch: the remote helper lists the refs, reads the manifest again,  *)
(* imports the packs above the clone's imported-seq mark, and falls back to*)
(* older ones until the wanted tips resolve (S3Remote.process_fetch_cmds in*)
(* src/git_remote_s3/remote.py).  It only reads the bucket.                *)
(***************************************************************************)
EXTENDS WalStore

CONSTANTS
    Fetchers,   \* processes that fetch
    Clones,     \* local clones
    CloneOf,    \* CloneOf[f]: the clone f fetches into
    ByURL,      \* the fetchers given a URL, which has no mark
    MarksFound, \* what git config may hold as a mark at the start
    ObjectsFound, \* what a clone may have at the start
    Prunes      \* whether git gc may prune a clone

ASSUME FetchAssumption ==
    /\ CloneOf \in [Fetchers -> Clones]
    /\ ByURL \subseteq Fetchers
    /\ MarksFound \subseteq Nat
    /\ ObjectsFound \subseteq SUBSET Commit
    /\ Prunes \in BOOLEAN

VARIABLES
    objects,  \* objects[k]: the commits clone k has
    mark,     \* mark[k]: remote.<name>.gitwal-seq in k's git config
    at,       \* at[f]: where fetcher f is
    wanted,   \* wanted[f]: the tips git asks for
    read,     \* read[f]: the manifest f imports from
    older,    \* older[f]: the entries kept for the fallback
    pending,  \* pending[f]: the entries still to download
    got,      \* got[f]: those downloaded, still to index
    ended     \* ended[f]: how f ended

cloneVars == <<objects, mark>>
planVars  == <<older, pending, got>>
fetchVars == <<cloneVars, planVars, at, wanted, read, ended>>

FetchPC == {"idle", "load", "plan", "import", "record", "done"}

FetchEnd == {"none", "ok", "incomplete", "missing", "raised"}

\* FetchTypeOK: and all that a fetch imports comes from one and the same log.
FetchTypeOK ==
    /\ objects \in [Clones -> SUBSET Commit]
    /\ mark \in [Clones -> Nat]
    /\ at \in [Fetchers -> FetchPC]
    /\ wanted \in [Fetchers -> SUBSET Commit]
    /\ read \in [Fetchers -> Manifest]
    /\ older \in [Fetchers -> SUBSET Entry]
    /\ pending \in [Fetchers -> SUBSET Entry]
    /\ got \in [Fetchers -> SUBSET Entry]
    /\ ended \in [Fetchers -> FetchEnd]
    /\ \A f \in Fetchers :
          older[f] \cup pending[f] \cup got[f] \subseteq read[f].entries

FetchInit ==
    /\ objects \in [Clones -> ObjectsFound]
    /\ mark \in [Clones -> MarksFound]
    /\ at = [f \in Fetchers |-> "idle"]
    /\ wanted = [f \in Fetchers |-> {}]
    /\ read = [f \in Fetchers |-> EmptyManifest]
    /\ older = [f \in Fetchers |-> {}]
    /\ pending = [f \in Fetchers |-> {}]
    /\ got = [f \in Fetchers |-> {}]
    /\ ended = [f \in Fetchers |-> "none"]

-----------------------------------------------------------------------------
FetchGoto(f, label) == at' = [at EXCEPT ![f] = label]

FetchEnds(f, how) ==
    /\ FetchGoto(f, "done")
    /\ ended' = [ended EXCEPT ![f] = how]
    /\ older' = [older EXCEPT ![f] = {}]
    /\ pending' = [pending EXCEPT ![f] = {}]
    /\ got' = [got EXCEPT ![f] = {}]
    /\ UNCHANGED <<objects, wanted, read>>

\* list: git picks among the tips advertised to it, if there are any.
ListRefs(f) ==
    /\ at[f] = "idle"
    /\ \/ \E shas \in SUBSET Tips(manifest) \ {{}} :
             /\ wanted' = [wanted EXCEPT ![f] = shas]
             /\ FetchGoto(f, "load")
       \/ /\ Tips(manifest) = {}
          /\ FetchGoto(f, "done")
          /\ UNCHANGED wanted
    /\ UNCHANGED <<cloneVars, planVars, read, ended>>

\* The batch is served from a second read of the manifest.
LoadLog(f) ==
    /\ at[f] = "load"
    /\ read' = [read EXCEPT ![f] = manifest]
    /\ FetchGoto(f, "plan")
    /\ UNCHANGED <<cloneVars, planVars, wanted, ended>>

ImportedSeq(f) == IF f \in ByURL THEN 0 ELSE mark[CloneOf[f]]

\* Mutant: the plan is made from the manifest as it is by now.
PlanImportLatest(f) ==
    /\ at[f] = "plan"
    /\ pending' = [pending EXCEPT
          ![f] = {e \in manifest.entries : e.seq > ImportedSeq(f)}]
    /\ older' = [older EXCEPT
          ![f] = {e \in read[f].entries : e.seq <= ImportedSeq(f)}]
    /\ FetchGoto(f, "import")
    /\ UNCHANGED <<cloneVars, got, wanted, read, ended>>

\* The entries above the mark are imported at once, the others kept.
PlanImport(f) ==
    /\ at[f] = "plan"
    /\ pending' = [pending EXCEPT
          ![f] = {e \in read[f].entries : e.seq > ImportedSeq(f)}]
    /\ older' = [older EXCEPT
          ![f] = {e \in read[f].entries : e.seq <= ImportedSeq(f)}]
    /\ FetchGoto(f, "import")
    /\ UNCHANGED <<cloneVars, got, wanted, read, ended>>

\* The downloads are parallel: they end in any order.
DownloadPack(f) ==
    \E e \in pending[f] :
        /\ at[f] = "import"
        /\ e.pack \in packs
        /\ pending' = [pending EXCEPT ![f] = @ \ {e}]
        /\ got' = [got EXCEPT ![f] = @ \cup {e}]
        /\ UNCHANGED <<cloneVars, older, at, wanted, read, ended>>

\* NoSuchKey: somebody has deleted the pack since the manifest was read.
DownloadMissing(f) ==
    /\ at[f] = "import"
    /\ \E e \in pending[f] : e.pack \notin packs
    /\ FetchEnds(f, "missing")
    /\ UNCHANGED mark

Oldest(E) == CHOOSE e \in E : \A d \in E : e.seq <= d.seq

Newest(E) == CHOOSE e \in E : \A d \in E : d.seq <= e.seq

\* Only when all are there are they indexed, one after the other.
IndexPack(f) ==
    LET e == Oldest(got[f]) IN
    /\ at[f] = "import"
    /\ pending[f] = {}
    /\ got[f] # {}
    /\ objects' = [objects EXCEPT ![CloneOf[f]] = @ \cup e.pack]
    /\ got' = [got EXCEPT ![f] = @ \ {e}]
    /\ UNCHANGED <<mark, older, pending, at, wanted, read, ended>>

\* git rev-list --objects fails on these.
Unresolved(f) == {c \in wanted[f] : ~(Reach[c] \subseteq objects[CloneOf[f]])}

Imported(f) == at[f] = "import" /\ pending[f] = {} /\ got[f] = {}

\* Mutant: the mark is trusted.
VerifyNothing(f) ==
    /\ Imported(f)
    /\ FetchGoto(f, "record")
    /\ UNCHANGED <<cloneVars, planVars, wanted, read, ended>>

\* Nothing is trusted: what was wanted must resolve.
Verify(f) ==
    /\ Imported(f)
    /\ Unresolved(f) = {}
    /\ FetchGoto(f, "record")
    /\ UNCHANGED <<cloneVars, planVars, wanted, read, ended>>

\* Mutant: the entry fallen back to stays in the list.
FallBackForEver(f) ==
    /\ Imported(f)
    /\ Unresolved(f) # {}
    /\ older[f] # {}
    /\ pending' = [pending EXCEPT ![f] = {Newest(older[f])}]
    /\ UNCHANGED <<cloneVars, older, got, at, wanted, read, ended>>

\* One older entry at a time, from the newest on.
FallBack(f) ==
    LET e == Newest(older[f]) IN
    /\ Imported(f)
    /\ Unresolved(f) # {}
    /\ older[f] # {}
    /\ older' = [older EXCEPT ![f] = @ \ {e}]
    /\ pending' = [pending EXCEPT ![f] = {e}]
    /\ UNCHANGED <<cloneVars, got, at, wanted, read, ended>>

\* Mutant: the older entries are given up with the first verification.
FetchGivesUp(f) ==
    /\ Imported(f)
    /\ Unresolved(f) # {}
    /\ FetchEnds(f, "incomplete")
    /\ UNCHANGED mark

FetchIncomplete(f) ==
    /\ Imported(f)
    /\ Unresolved(f) # {}
    /\ older[f] = {}
    /\ FetchEnds(f, "incomplete")
    /\ UNCHANGED mark

\* Mutant: the mark is the manifest's seq at the time it is written.
RecordCurrentSeq(f) ==
    /\ at[f] = "record"
    /\ FetchEnds(f, "ok")
    /\ mark' = [mark EXCEPT ![CloneOf[f]] = manifest.seq]

\* Written last, and only by a fetch that has verified its tips; git config
\* may fail, and nobody minds.
RecordImportedSeq(f) ==
    /\ at[f] = "record"
    /\ FetchEnds(f, "ok")
    /\ \/ /\ f \notin ByURL
          /\ read[f].entries # {}
          /\ mark' = [mark EXCEPT ![CloneOf[f]] = Newest(read[f].entries).seq]
       \/ UNCHANGED mark

\* A request, a git subprocess or the process itself fails.
FetchRaises(f) ==
    /\ at[f] # "done"
    /\ FetchEnds(f, "raised")
    /\ UNCHANGED mark

FetchStep(f) ==
    \/ ListRefs(f)
    \/ LoadLog(f)
    \/ PlanImport(f)
    \/ DownloadPack(f)
    \/ DownloadMissing(f)
    \/ IndexPack(f)
    \/ Verify(f)
    \/ FallBack(f)
    \/ FetchIncomplete(f)
    \/ RecordImportedSeq(f)
    \/ FetchRaises(f)

-----------------------------------------------------------------------------
\* git gc --prune drops what the clone's refs no longer reach.  It spares the
\* objects of a fetch under way, which are newer than its expiry.
Prune(k) ==
    /\ Prunes
    /\ \A f \in Fetchers : CloneOf[f] = k => at[f] \in {"idle", "done"}
    /\ \E left \in SUBSET objects[k] :
          /\ \A c \in left : Reach[c] \cap objects[k] \subseteq left
          /\ objects' = [objects EXCEPT ![k] = left]
    /\ UNCHANGED <<mark, planVars, at, wanted, read, ended>>
=============================================================================
