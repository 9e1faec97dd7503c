---------------------------- MODULE ClonesProofs ----------------------------
(***************************************************************************)
(* Theorems about Clones: what a fetch delivers and what the imported-seq  *)
(* mark is worth, for any number of fetches, clones, pushes, operators and *)
(* compactions.                                                            *)
(*                                                                         *)
(* The argument for the mark.  An entry of the log has a seq above that of *)
(* every manifest before the one it entered (LogSteps), so a manifest read *)
(* at seq s knows every entry at or below s that any later one still has.  *)
(* A fetch that has imported whatever it was going to has therefore covered*)
(* all that the mark it is about to write can be asked for.                *)
(***************************************************************************)
EXTENDS Clones, ResolveProofs, PackProofs

-----------------------------------------------------------------------------
\* A clone changes no repository: what holds of Repo holds of Clones.
LEMMA RepoSteps == ASSUME [ClonesNext]_cloneSysVars PROVE [Next]_vars
BY DEF ClonesNext, FetcherStep, cloneSysVars

-----------------------------------------------------------------------------
(***************************************************************************)
(* The log a fetch reads.                                                  *)
(***************************************************************************)

\* Of a non-empty set of entries that are numbered from 1 on, Oldest and Newest
\* are the first and the last.
LEMMA OldestNewest ==
    ASSUME NEW n \in Nat, NEW E, E # {}, \A e \in E : e.seq \in 1 .. n
    PROVE  /\ Oldest(E) \in E /\ \A d \in E : Oldest(E).seq <= d.seq
           /\ Newest(E) \in E /\ \A d \in E : d.seq <= Newest(E).seq
<1>1. PICK first \in E : \A d \in E : first.seq <= d.seq
  <2> DEFINE S == {e.seq : e \in E}
  <2>1. S \subseteq 1 .. n /\ S # {}
    OBVIOUS
  <2>2. First(S) \in S /\ \A j \in S : First(S) <= j
    BY <2>1, FirstIsLeast
  <2> HIDE DEF S
  <2>3. PICK e \in E : e.seq = First(S)
    BY <2>2 DEF S
  <2> QED
    BY <2>2, <2>3 DEF S
<1>2. PICK last \in E : \A d \in E : d.seq <= last.seq
  <2> DEFINE S == {n + 1 - e.seq : e \in E}
  <2>1. S \subseteq 1 .. n /\ S # {}
    OBVIOUS
  <2>2. First(S) \in S /\ \A j \in S : First(S) <= j
    BY <2>1, FirstIsLeast
  <2>3. PICK e \in E : n + 1 - e.seq = First(S)
    BY <2>2
  <2>4. \A d \in E : n + 1 - d.seq \in S
    OBVIOUS
  <2> HIDE DEF S
  <2>5. \A d \in E : n + 1 - e.seq <= n + 1 - d.seq
    BY <2>2, <2>3, <2>4
  <2> QED
    BY <2>5
<1> QED
  BY <1>1, <1>2 DEF Oldest, Newest

\* The log as every fetch finds it: valid, and numbered from 1 on.
LogInv ==
    /\ TypeInv
    /\ PacksAreUpdates
    /\ LogValid
    /\ \A e \in manifest.entries : e.seq > 0

\* Every seed has such a log.
LEMMA InitLog == Init => LogInv
<1> SUFFICES ASSUME Init PROVE LogInv
  OBVIOUS
<1>1. PICK s \in Seeds : manifest = s.manifest
  BY DEF Init, StoreInit
<1>2. PacksAreUpdates
  BY DEF Init, PushInit, PacksAreUpdates, Cmds
<1> QED
  BY <1>1, <1>2, InitTypes, SeedAssumption, SeedSeqAssumption DEF LogInv, LogValid

\* Every step leaves one.
LEMMA NextLog == LogInv /\ [Next]_vars => LogInv'
<1> SUFFICES ASSUME LogInv, [Next]_vars PROVE LogInv'
  OBVIOUS
<1>1. TypeInv' /\ PacksAreUpdates' /\ LogValid'
  BY NextTypes, NextKeepsPacks, WritesKeepLog DEF LogInv
<1>2. manifest' \in Manifest
  BY <1>1 DEF TypeInv, TypeOK, StoreTypeOK
<1>3. \A e \in manifest'.entries : e.seq > 0
  BY <1>2, LogSteps DEF LogInv, Manifest, Entry
<1> QED
  BY <1>1, <1>3 DEF LogInv

-----------------------------------------------------------------------------
(***************************************************************************)
(* What a fetch has in hand comes from the log it read.                    *)
(***************************************************************************)
FetchInv ==
    /\ FetchTypeOK
    /\ \A f \in Fetchers :
          /\ read[f].seq \in Nat
          /\ \A e \in read[f].entries : e.seq \in 1 .. read[f].seq
          /\ at[f] # "import" => pending[f] = {} /\ got[f] = {}
          /\ at[f] \in {"idle", "load", "plan"} => older[f] = {}

\* Entries of a log are numbered from 1 to the seq of their manifest.
LEMMA LogNumbered ==
    ASSUME LogInv
    PROVE  /\ manifest \in Manifest
           /\ manifest.seq \in Nat
           /\ \A e \in manifest.entries : e.seq \in 1 .. manifest.seq
BY DEF LogInv, LogValid, ValidEntries, TypeInv, TypeOK, StoreTypeOK, Manifest,
       Entry

\* What is chosen from what a fetch has in hand.
LEMMA ChosenInHand ==
    ASSUME FetchInv, NEW f \in Fetchers, NEW E \in SUBSET read[f].entries, E # {}
    PROVE  /\ Oldest(E) \in E
           /\ Newest(E) \in E /\ \A d \in E : d.seq <= Newest(E).seq
BY OldestNewest DEF FetchInv

\* The end of a fetch leaves nothing in hand.
LEMMA FetchEndsTypes ==
    ASSUME FetchInv, NEW f \in Fetchers, NEW how \in FetchEnd,
           FetchEnds(f, how), mark' \in [Clones -> Nat]
    PROVE  FetchInv'
BY DEF FetchEnds, FetchGoto, FetchPC, FetchInv, FetchTypeOK

\* The steps of a fetch are well-typed.
LEMMA FetcherTypes ==
    ASSUME LogInv, FetchInv, NEW f \in Fetchers, FetchStep(f)
    PROVE  FetchInv'
<1> USE DEF FetchInv, FetchTypeOK
<1>1. CASE ListRefs(f)
  <2>1. Tips(manifest) \subseteq Commit
    BY LogNumbered DEF Tips, LiveRefs, Manifest
  <2> QED
    BY <1>1, <2>1 DEF ListRefs, FetchGoto, FetchPC, cloneVars, planVars
<1>2. CASE LoadLog(f)
  BY <1>2, LogNumbered DEF LoadLog, FetchGoto, FetchPC, cloneVars, planVars
<1>3. CASE PlanImport(f)
  BY <1>3 DEF PlanImport, FetchGoto, FetchPC, cloneVars, Manifest
<1>4. CASE DownloadPack(f)
  BY <1>4 DEF DownloadPack, cloneVars
<1>5. CASE DownloadMissing(f) \/ FetchIncomplete(f) \/ FetchRaises(f)
  BY <1>5, FetchEndsTypes
     DEF DownloadMissing, FetchIncomplete, FetchRaises, FetchEnd
<1>6. CASE IndexPack(f)
  <2>1. Oldest(got[f]) \in got[f]
    BY <1>6, ChosenInHand DEF IndexPack
  <2>2. Oldest(got[f]).pack \subseteq Commit
    BY <2>1 DEF Entry, Pack
  <2>3. CloneOf[f] \in Clones
    BY FetchAssumption
  <2> QED
    BY <1>6, <2>2, <2>3 DEF IndexPack
<1>7. CASE Verify(f)
  BY <1>7 DEF Verify, Imported, FetchGoto, FetchPC, cloneVars, planVars
<1>8. CASE FallBack(f)
  <2>1. Newest(older[f]) \in older[f]
    BY <1>8, ChosenInHand DEF FallBack
  <2> QED
    BY <1>8, <2>1 DEF FallBack, Imported, cloneVars
<1>9. CASE RecordImportedSeq(f)
  <2>1. read[f].entries # {} => Newest(read[f].entries).seq \in Nat
    BY ChosenInHand
  <2>2. mark' \in [Clones -> Nat]
    BY <1>9, <2>1 DEF RecordImportedSeq
  <2> QED
    BY <1>9, <2>2, FetchEndsTypes DEF RecordImportedSeq, FetchEnd
<1> QED
  BY <1>1, <1>2, <1>3, <1>4, <1>5, <1>6, <1>7, <1>8, <1>9 DEF FetchStep

\* Every step is: the repository does not touch the clones, and gc only drops
\* objects.
LEMMA NextFetches ==
    ASSUME LogInv, FetchInv, [ClonesNext]_cloneSysVars
    PROVE  FetchInv'
<1>1. CASE UNCHANGED fetchVars
  BY <1>1 DEF fetchVars, cloneVars, planVars, FetchInv, FetchTypeOK
<1>2. ASSUME NEW k \in Clones, Prune(k) PROVE FetchInv'
  BY <1>2 DEF Prune, planVars, FetchInv, FetchTypeOK
<1> QED
  BY <1>1, <1>2, FetcherTypes DEF ClonesNext, FetcherStep, cloneSysVars

\* And every run starts so.
LEMMA InitFetches == FetchInit => FetchInv
<1> SUFFICES ASSUME FetchInit PROVE FetchInv
  OBVIOUS
<1>1. EmptyManifest.seq = 0 /\ EmptyManifest.entries = {}
  BY DEF EmptyManifest
<1>2. mark \in [Clones -> Nat] /\ objects \in [Clones -> SUBSET Commit]
  BY FetchAssumption DEF FetchInit
<1>3. FetchTypeOK
  BY <1>1, <1>2, EmptyManifestType
     DEF FetchInit, FetchTypeOK, FetchPC, FetchEnd
<1> QED
  BY <1>1, <1>3 DEF FetchInit, FetchInv

\* A fetch is well-typed in every reachable state, and all it imports comes
\* from one and the same read of the log.
THEOREM FetchTypeCorrect == ClonesSpec => []FetchTypeOK
<1>1. ClonesInit => LogInv /\ FetchInv
  BY InitLog, InitFetches DEF ClonesInit
<1>2. LogInv /\ FetchInv /\ [ClonesNext]_cloneSysVars => LogInv' /\ FetchInv'
  BY NextLog, NextFetches, RepoSteps
<1>3. FetchInv => FetchTypeOK
  BY DEF FetchInv
<1> QED
  BY <1>1, <1>2, <1>3, PTL DEF ClonesSpec

-----------------------------------------------------------------------------
(***************************************************************************)
(* What a fetch delivers.                                                  *)
(***************************************************************************)

\* A fetch on its way to write the mark has verified its tips.
VerifiedInv ==
    \A f \in Fetchers : at[f] = "record" => Unresolved(f) = {}

\* The objects of a clone only grow while one of its fetches is under way.
LEMMA ObjectsGrow ==
    ASSUME FetchInv, [ClonesNext]_cloneSysVars, NEW f \in Fetchers,
           at[f] \notin {"idle", "done"}
    PROVE  objects[CloneOf[f]] \subseteq objects'[CloneOf[f]]
<1>0. objects \in [Clones -> SUBSET Commit] /\ CloneOf[f] \in Clones
  BY FetchAssumption DEF FetchInv, FetchTypeOK
<1>1. ASSUME NEW g \in Fetchers, IndexPack(g)
      PROVE  objects[CloneOf[f]] \subseteq objects'[CloneOf[f]]
  BY <1>0, <1>1 DEF IndexPack
<1>2. ASSUME NEW k \in Clones, Prune(k)
      PROVE  objects[CloneOf[f]] \subseteq objects'[CloneOf[f]]
  <2>1. k # CloneOf[f]
    BY <1>2 DEF Prune
  <2> QED
    BY <1>0, <1>2, <2>1 DEF Prune
<1>3. ASSUME NEW g \in Fetchers, FetchStep(g), ~IndexPack(g)
      PROVE  UNCHANGED objects
  BY <1>3 DEF FetchStep, ListRefs, LoadLog, PlanImport, DownloadPack,
              DownloadMissing, Verify, FallBack, FetchIncomplete,
              RecordImportedSeq, FetchRaises, FetchEnds, cloneVars
<1> QED
  BY <1>1, <1>2, <1>3
     DEF ClonesNext, FetcherStep, cloneSysVars, fetchVars, cloneVars

\* And so has it after any step.
LEMMA NextVerified ==
    ASSUME FetchInv, VerifiedInv, [ClonesNext]_cloneSysVars
    PROVE  VerifiedInv'
<1> SUFFICES ASSUME NEW f \in Fetchers, at'[f] = "record"
             PROVE  Unresolved(f)' = {}
  BY DEF VerifiedInv
<1>1. /\ at[f] \in {"import", "record"}
      /\ wanted'[f] = wanted[f]
      /\ Unresolved(f) = {}
  <2>1. ASSUME NEW g \in Fetchers, FetchStep(g)
        PROVE  /\ at[f] \in {"import", "record"}
               /\ wanted'[f] = wanted[f]
               /\ Unresolved(f) = {}
    BY <2>1 DEF FetchStep, ListRefs, LoadLog, PlanImport, DownloadPack,
                DownloadMissing, IndexPack, Verify, Imported, FallBack,
                FetchIncomplete, RecordImportedSeq, FetchRaises, FetchEnds,
                FetchGoto, cloneVars, planVars, FetchInv, FetchTypeOK,
                VerifiedInv
  <2>2. ASSUME UNCHANGED <<at, wanted>>
        PROVE  /\ at[f] \in {"import", "record"}
               /\ wanted'[f] = wanted[f]
               /\ Unresolved(f) = {}
    BY <2>2 DEF VerifiedInv
  <2> QED
    BY <2>1, <2>2
       DEF ClonesNext, FetcherStep, Prune, cloneSysVars, fetchVars
<1> QED
  BY <1>1, ObjectsGrow DEF Unresolved

\* A fetch that ends well leaves the clone with the whole history of every tip
\* it was asked for: whatever mark it found, whatever gc had pruned, and
\* whatever else fetched into the clone.
THEOREM FetchesDeliver == ClonesSpec => FetchDelivers
<1> DEFINE Delivered ==
      \A f \in Fetchers : ended[f] # "ok" /\ ended'[f] = "ok" =>
          \A c \in wanted[f] : Reach[c] \subseteq objects'[CloneOf[f]]
<1>1. ClonesInit => LogInv /\ FetchInv /\ VerifiedInv
  BY InitLog, InitFetches DEF ClonesInit, FetchInit, VerifiedInv
<1>2. LogInv /\ FetchInv /\ VerifiedInv /\ [ClonesNext]_cloneSysVars =>
          LogInv' /\ FetchInv' /\ VerifiedInv'
  BY NextLog, NextFetches, NextVerified, RepoSteps
<1>3. FetchInv /\ VerifiedInv /\ [ClonesNext]_cloneSysVars => [Delivered]_cloneSysVars
  <2> SUFFICES ASSUME FetchInv, VerifiedInv, [ClonesNext]_cloneSysVars,
                      NEW f \in Fetchers, ended[f] # "ok", ended'[f] = "ok"
               PROVE  \A c \in wanted[f] : Reach[c] \subseteq objects'[CloneOf[f]]
    OBVIOUS
  <2>1. at[f] = "record"
    <3>1. ASSUME NEW g \in Fetchers, FetchStep(g) PROVE at[f] = "record"
      BY <3>1 DEF FetchStep, ListRefs, LoadLog, PlanImport, DownloadPack,
                  DownloadMissing, IndexPack, Verify, FallBack,
                  FetchIncomplete, RecordImportedSeq, FetchRaises, FetchEnds,
                  FetchInv, FetchTypeOK
    <3> QED
      BY <3>1 DEF ClonesNext, FetcherStep, Prune, cloneSysVars, fetchVars
  <2> QED
    BY <2>1, ObjectsGrow DEF VerifiedInv, Unresolved
<1> HIDE DEF Delivered
<1>4. ClonesSpec => [][Delivered]_cloneSysVars
  BY <1>1, <1>2, <1>3, PTL DEF ClonesSpec
<1> QED
  BY <1>4 DEF FetchDelivers, Delivered

-----------------------------------------------------------------------------
(***************************************************************************)
(* What the mark is worth.                                                 *)
(***************************************************************************)

\* f has read a log at least as new as any entry numbered up to its seq.
KnowsLog(f) ==
    /\ read[f].seq <= manifest.seq
    /\ \A e \in manifest.entries :
          e.seq <= read[f].seq => e \in read[f].entries

\* What f has read and the log still has is in the clone, or on its way.
Covers(f) ==
    \A e \in read[f].entries \cap manifest.entries :
        e \in pending[f] \cup got[f] \/ e.pack \subseteq objects[CloneOf[f]]

MarkInv ==
    /\ \A k \in Clones : mark[k] <= manifest.seq
    /\ \A f \in Fetchers :
          /\ at[f] \in {"plan", "import", "record"} => KnowsLog(f)
          /\ at[f] \in {"import", "record"} => Covers(f)
    /\ MarkSound

\* A step of the repository: what enters the log is above every mark and above
\* every log read.
LEMMA RepoKeepsMark ==
    ASSUME LogInv, FetchInv, MarkInv, [Next]_vars, UNCHANGED fetchVars
    PROVE  MarkInv'
<1>1. /\ manifest.seq \in Nat /\ manifest'.seq \in Nat
      /\ manifest.seq <= manifest'.seq
      /\ \A e \in manifest'.entries :
            e \in manifest.entries \/ e.seq > manifest.seq
  BY LogSteps DEF LogInv
<1>2. \A e \in manifest'.entries : e.seq \in Nat
  BY NextTypes DEF LogInv, TypeInv, TypeOK, StoreTypeOK, Manifest, Entry
<1>3. /\ \A k \in Clones : mark[k] \in Nat /\ mark[k] <= manifest.seq
      /\ \A f \in Fetchers : read[f].seq \in Nat
      /\ \A f \in Fetchers : \A e \in read[f].entries : e.seq <= read[f].seq
  BY DEF FetchInv, FetchTypeOK, MarkInv
<1>4. UNCHANGED <<objects, mark, at, read, pending, got>>
  BY DEF fetchVars, cloneVars, planVars
<1>5. \A k \in Clones : mark'[k] <= manifest'.seq
  BY <1>1, <1>3, <1>4
<1>6. ASSUME NEW f \in Fetchers, KnowsLog(f) PROVE KnowsLog(f)'
  BY <1>1, <1>2, <1>3, <1>4, <1>6 DEF KnowsLog
<1>7. ASSUME NEW f \in Fetchers, KnowsLog(f), Covers(f) PROVE Covers(f)'
  <2>1. \A e \in read[f].entries \cap manifest'.entries : e \in manifest.entries
    <3> SUFFICES ASSUME NEW e \in read[f].entries \cap manifest'.entries,
                        e.seq > manifest.seq
                 PROVE  FALSE
      BY <1>1
    <3> QED
      BY <1>1, <1>2, <1>3, <1>7 DEF KnowsLog
  <2> QED
    BY <1>4, <1>7, <2>1 DEF Covers
<1>8. MarkSound'
  <2> SUFFICES ASSUME NEW k \in Clones, NEW e \in manifest'.entries,
                      e.seq <= mark'[k]
               PROVE  e.pack \subseteq objects'[k]
    BY DEF MarkSound
  <2>1. e \in manifest.entries
    BY <1>1, <1>2, <1>3, <1>4
  <2> QED
    BY <1>4, <2>1 DEF MarkInv, MarkSound
<1> QED
  BY <1>4, <1>5, <1>6, <1>7, <1>8 DEF MarkInv

\* A step of a fetch that leaves the marks alone.
LEMMA FetcherKeepsMark ==
    ASSUME LogInv, FetchInv, MarkInv, NEW g \in Fetchers, FetchStep(g),
           UNCHANGED manifest, \A k \in Clones : objects[k] \subseteq objects'[k]
    PROVE  /\ \A f \in Fetchers :
                /\ at'[f] \in {"plan", "import", "record"} => KnowsLog(f)'
                /\ at'[f] \in {"import", "record"} => Covers(f)'
           /\ UNCHANGED mark => MarkInv'
<1>0. CloneOf \in [Fetchers -> Clones]
  BY FetchAssumption
<1>1. ASSUME NEW f \in Fetchers, at'[f] \in {"plan", "import", "record"}
      PROVE  KnowsLog(f)'
  <2>1. CASE LoadLog(g) /\ f = g
    <3>1. read'[f] = manifest
      BY <2>1 DEF LoadLog, FetchInv, FetchTypeOK
    <3> QED
      BY <3>1, LogNumbered DEF KnowsLog
  <2>2. CASE ~(LoadLog(g) /\ f = g)
    <3>1. read'[f] = read[f] /\ at[f] \in {"plan", "import", "record"}
      BY <1>1, <2>2
         DEF FetchStep, ListRefs, LoadLog, PlanImport, DownloadPack,
             DownloadMissing, IndexPack, Verify, Imported, FallBack,
             FetchIncomplete, RecordImportedSeq, FetchRaises, FetchEnds,
             FetchGoto, cloneVars, planVars, FetchInv, FetchTypeOK
    <3> QED
      BY <3>1 DEF MarkInv, KnowsLog
  <2> QED
    BY <2>1, <2>2
<1>2. ASSUME NEW f \in Fetchers, at'[f] \in {"import", "record"}
      PROVE  Covers(f)'
  <2>1. CASE PlanImport(g) /\ f = g
    <3>1. /\ read' = read /\ mark' = mark /\ objects' = objects
          /\ pending'[f] = {e \in read[f].entries : e.seq > ImportedSeq(f)}
      BY <2>1 DEF PlanImport, cloneVars, FetchInv, FetchTypeOK
    <3>2. ASSUME NEW e \in read[f].entries \cap manifest.entries,
                 ~(e.seq > ImportedSeq(f))
          PROVE  e.pack \subseteq objects[CloneOf[f]]
      <4>1. e.seq \in Nat /\ e.seq > 0 /\ mark[CloneOf[f]] \in Nat
        BY <1>0, LogNumbered DEF FetchInv, FetchTypeOK
      <4>2. e.seq <= mark[CloneOf[f]]
        BY <3>2, <4>1 DEF ImportedSeq
      <4> QED
        BY <1>0, <4>2 DEF MarkInv, MarkSound
    <3> QED
      BY <3>1, <3>2 DEF Covers
  <2>2. CASE IndexPack(g) /\ f = g
    <3>1. /\ read' = read /\ pending' = pending /\ at' = at
          /\ got'[f] = got[f] \ {Oldest(got[f])}
          /\ Oldest(got[f]).pack \subseteq objects'[CloneOf[f]]
      BY <1>0, <2>2 DEF IndexPack, FetchInv, FetchTypeOK
    <3>2. Covers(f) /\ objects[CloneOf[f]] \subseteq objects'[CloneOf[f]]
      BY <1>0, <1>2, <3>1 DEF MarkInv
    <3> QED
      BY <3>1, <3>2 DEF Covers
  <2>3. CASE ~(PlanImport(g) /\ f = g) /\ ~(IndexPack(g) /\ f = g)
    <3>1. /\ read'[f] = read[f] /\ at[f] \in {"import", "record"}
          /\ pending[f] \cup got[f] \subseteq pending'[f] \cup got'[f]
      BY <1>2, <2>3
         DEF FetchStep, ListRefs, LoadLog, PlanImport, DownloadPack,
             DownloadMissing, IndexPack, Verify, Imported, FallBack,
             FetchIncomplete, RecordImportedSeq, FetchRaises, FetchEnds,
             FetchGoto, cloneVars, planVars, FetchInv, FetchTypeOK
    <3>2. Covers(f) /\ objects[CloneOf[f]] \subseteq objects'[CloneOf[f]]
      BY <1>0, <3>1 DEF MarkInv
    <3> QED
      BY <3>1, <3>2 DEF Covers
  <2> QED
    BY <2>1, <2>2, <2>3
<1>3. UNCHANGED mark => MarkSound' /\ \A k \in Clones : mark'[k] <= manifest'.seq
  BY DEF MarkInv, MarkSound
<1> QED
  BY <1>1, <1>2, <1>3 DEF MarkInv

\* The mark a fetch writes: it has covered the log up to there.
LEMMA RecordKeepsMark ==
    ASSUME LogInv, FetchInv, MarkInv, NEW f \in Fetchers, RecordImportedSeq(f),
           UNCHANGED manifest
    PROVE  MarkSound' /\ \A k \in Clones : mark'[k] <= manifest'.seq
<1>0. /\ CloneOf[f] \in Clones
      /\ UNCHANGED objects
      /\ KnowsLog(f) /\ Covers(f)
      /\ pending[f] = {} /\ got[f] = {}
  BY FetchAssumption
     DEF RecordImportedSeq, FetchEnds, MarkInv, FetchInv
<1>1. CASE UNCHANGED mark
  BY <1>0, <1>1 DEF MarkInv, MarkSound
<1>2. CASE /\ read[f].entries # {}
           /\ mark' = [mark EXCEPT ![CloneOf[f]] = Newest(read[f].entries).seq]
  <2> DEFINE new == Newest(read[f].entries).seq
  <2>1. new \in 1 .. read[f].seq /\ read[f].seq \in Nat
    BY <1>2, ChosenInHand DEF FetchInv
  <2>2. /\ mark'[CloneOf[f]] = new
        /\ \A k \in Clones : k # CloneOf[f] => mark'[k] = mark[k]
    BY <1>0, <1>2 DEF FetchInv, FetchTypeOK
  <2> HIDE DEF new
  <2>3. new <= manifest.seq
    BY <1>0, <2>1, LogNumbered DEF KnowsLog
  <2>4. \A e \in manifest.entries :
           e.seq <= new => e.pack \subseteq objects[CloneOf[f]]
    BY <1>0, <2>1, LogNumbered DEF KnowsLog, Covers
  <2> QED
    BY <1>0, <2>2, <2>3, <2>4 DEF MarkInv, MarkSound
<1> QED
  BY <1>1, <1>2 DEF RecordImportedSeq

\* Every step keeps the marks sound, where gc drops nothing.
LEMMA NextMark ==
    ASSUME ~Prunes, LogInv, FetchInv, MarkInv, [ClonesNext]_cloneSysVars
    PROVE  MarkInv'
<1>1. CASE UNCHANGED fetchVars
  BY <1>1, RepoSteps, RepoKeepsMark
<1>2. ASSUME NEW g \in Fetchers, FetchStep(g), UNCHANGED vars PROVE MarkInv'
  <2>1. UNCHANGED manifest
    BY <1>2 DEF vars, storeVars
  <2>2. \A k \in Clones : objects[k] \subseteq objects'[k]
    BY <1>2 DEF FetchStep, ListRefs, LoadLog, PlanImport, DownloadPack,
                DownloadMissing, IndexPack, Verify, FallBack, FetchIncomplete,
                RecordImportedSeq, FetchRaises, FetchEnds, cloneVars, FetchInv,
                FetchTypeOK
  <2>3. UNCHANGED mark \/ RecordImportedSeq(g)
    BY <1>2 DEF FetchStep, ListRefs, LoadLog, PlanImport, DownloadPack,
                DownloadMissing, IndexPack, Verify, FallBack, FetchIncomplete,
                FetchRaises, cloneVars
  <2>4. CASE UNCHANGED mark
    BY <1>2, <2>1, <2>2, <2>4, FetcherKeepsMark
  <2>5. CASE RecordImportedSeq(g)
    BY <1>2, <2>1, <2>2, <2>5, FetcherKeepsMark, RecordKeepsMark DEF MarkInv
  <2> QED
    BY <2>3, <2>4, <2>5
<1>3. ASSUME NEW k \in Clones, Prune(k) PROVE FALSE
  BY <1>3 DEF Prune
<1> QED
  BY <1>1, <1>2, <1>3 DEF ClonesNext, FetcherStep, cloneSysVars

\* In a clone that nothing prunes and whose mark nobody edits, all that the
\* mark says has been imported is there, whatever is pushed, compacted or
\* fetched at the same time: a fetch has no need to look below it.
THEOREM MarkAlwaysSound ==
    ASSUME ~Prunes, MarksFound = {0}
    PROVE  ClonesSpec => []MarkSound
<1>1. ClonesInit => LogInv /\ FetchInv /\ MarkInv
  <2> SUFFICES ASSUME ClonesInit PROVE LogInv /\ FetchInv /\ MarkInv
    OBVIOUS
  <2>1. LogInv /\ FetchInv
    BY InitLog, InitFetches DEF ClonesInit
  <2>2. \A k \in Clones : mark[k] = 0
    BY DEF ClonesInit, FetchInit
  <2>3. \A f \in Fetchers : at[f] = "idle"
    BY DEF ClonesInit, FetchInit
  <2> QED
    BY <2>1, <2>2, <2>3, LogNumbered DEF MarkInv, MarkSound
<1>2. LogInv /\ FetchInv /\ MarkInv /\ [ClonesNext]_cloneSysVars =>
          LogInv' /\ FetchInv' /\ MarkInv'
  BY NextLog, NextFetches, NextMark, RepoSteps
<1>3. MarkInv => MarkSound
  BY DEF MarkInv
<1> QED
  BY <1>1, <1>2, <1>3, PTL DEF ClonesSpec

-----------------------------------------------------------------------------
(***************************************************************************)
(* What a fetch that fails says.                                           *)
(***************************************************************************)

\* The repository of a system with clones is a repository.
LEMMA ClonesHaveRepo == ClonesSpec => Spec
<1>1. ClonesInit => Init
  BY DEF ClonesInit
<1> QED
  BY <1>1, RepoSteps, PTL DEF ClonesSpec, Spec

\* A fetch that has ended stays as it ended.
EndedInv == \A f \in Fetchers : ended[f] # "none" => at[f] = "done"

\* What a fetch does to the ends of the fetches.
LEMMA NextEnded ==
    ASSUME FetchInv, EndedInv, [ClonesNext]_cloneSysVars
    PROVE  /\ EndedInv'
           /\ \A f \in Fetchers :
                /\ ended[f] # "none" =>
                     ended'[f] = ended[f] /\ UNCHANGED <<read[f], wanted[f]>>
                /\ ended'[f] = "missing" =>
                     ended[f] = "missing" \/ DownloadMissing(f)
                /\ ended'[f] = "incomplete" =>
                     ended[f] = "incomplete" \/ FetchIncomplete(f)
<1>1. CASE UNCHANGED <<at, ended, read, wanted>>
  BY <1>1 DEF EndedInv
<1>2. ASSUME NEW g \in Fetchers, FetchStep(g), NEW f \in Fetchers
      PROVE  /\ ended'[f] # "none" => at'[f] = "done"
             /\ ended[f] # "none" =>
                  ended'[f] = ended[f] /\ read'[f] = read[f] /\ wanted'[f] = wanted[f]
             /\ ended'[f] = "missing" => ended[f] = "missing" \/ DownloadMissing(f)
             /\ ended'[f] = "incomplete" =>
                  ended[f] = "incomplete" \/ FetchIncomplete(f)
  <2>0. /\ at \in [Fetchers -> FetchPC] /\ ended \in [Fetchers -> FetchEnd]
        /\ read \in [Fetchers -> Manifest] /\ wanted \in [Fetchers -> SUBSET Commit]
        /\ ended[f] # "none" => at[f] = "done"
    BY DEF FetchInv, FetchTypeOK, EndedInv
  <2>1. CASE \/ ListRefs(g) \/ LoadLog(g) \/ PlanImport(g) \/ DownloadPack(g)
             \/ IndexPack(g) \/ Verify(g) \/ FallBack(g)
    BY <2>0, <2>1
       DEF ListRefs, LoadLog, PlanImport, DownloadPack, IndexPack, Verify,
           FallBack, Imported, FetchGoto, cloneVars, planVars
  <2>2. CASE \/ DownloadMissing(g) \/ FetchIncomplete(g)
             \/ RecordImportedSeq(g) \/ FetchRaises(g)
    BY <2>0, <2>2
       DEF DownloadMissing, FetchIncomplete, Imported, RecordImportedSeq,
           FetchRaises, FetchEnds, FetchGoto
  <2> QED
    BY <1>2, <2>1, <2>2 DEF FetchStep
<1> QED
  BY <1>1, <1>2
     DEF EndedInv, ClonesNext, FetcherStep, Prune, cloneSysVars, fetchVars

\* No fetch has read a log that is ahead of the manifest.
ReadInv == \A f \in Fetchers : read[f].seq <= manifest.seq

\* Nor will it.
LEMMA NextRead ==
    ASSUME LogInv, FetchInv, ReadInv, [ClonesNext]_cloneSysVars
    PROVE  ReadInv'
<1>1. /\ manifest.seq \in Nat /\ manifest'.seq \in Nat
      /\ manifest.seq <= manifest'.seq
      /\ \A f \in Fetchers : read[f].seq \in Nat
  BY RepoSteps, LogSteps DEF LogInv, FetchInv
<1>2. ASSUME NEW f \in Fetchers
      PROVE  read'[f] = read[f] \/ read'[f] = manifest
  BY DEF ClonesNext, FetcherStep, Prune, cloneSysVars, fetchVars, FetchStep,
         ListRefs, LoadLog, PlanImport, DownloadPack, DownloadMissing, IndexPack,
         Verify, FallBack, FetchIncomplete, RecordImportedSeq, FetchRaises,
         FetchEnds, FetchInv, FetchTypeOK
<1> QED
  BY <1>1, <1>2 DEF ReadInv

\* A log that has lost an entry a fetch has read will not have it again.
LEMMA NextMissing ==
    ASSUME LogInv, FetchInv, EndedInv, ReadInv, NoMissingPack,
           MissingMeansReplaced, [ClonesNext]_cloneSysVars
    PROVE  MissingMeansReplaced'
<1> SUFFICES ASSUME NEW f \in Fetchers, ended'[f] = "missing"
             PROVE  ~(read'[f].entries \subseteq manifest'.entries)
  BY DEF MissingMeansReplaced
<1>1. CASE ended[f] = "missing"
  <2>1. read'[f] = read[f]
    BY <1>1, NextEnded
  <2>2. PICK e \in read[f].entries : e \notin manifest.entries
    BY <1>1 DEF MissingMeansReplaced
  <2>3. /\ e.seq \in 1 .. read[f].seq /\ read[f].seq \in Nat
        /\ read[f].seq <= manifest.seq
    BY <2>2 DEF FetchInv, ReadInv
  <2>4. e \notin manifest'.entries
    BY <2>2, <2>3, RepoSteps, LogSteps DEF LogInv
  <2> QED
    BY <2>1, <2>2, <2>4
<1>2. CASE ended[f] # "missing"
  <2>1. DownloadMissing(f)
    BY <1>2, NextEnded
  <2>2. PICK e \in pending[f] : e.pack \notin packs
    BY <2>1 DEF DownloadMissing
  <2>3. e \in read[f].entries /\ e \notin manifest.entries
    BY <2>2 DEF FetchInv, FetchTypeOK, NoMissingPack, Named
  <2>4. read' = read
    BY <2>1 DEF DownloadMissing, FetchEnds
  <2>5. UNCHANGED manifest
    BY <1>2 DEF ClonesNext, FetcherStep, Prune, cloneSysVars, fetchVars, vars,
                storeVars
  <2> QED
    BY <2>3, <2>4, <2>5
<1> QED
  BY <1>1, <1>2

\* A download only fails for want of its pack when the log has been replaced
\* since the fetch read it: the next fetch will do.  (No reply is lost, and no
\* pack is built that is on its way in or out.)
THEOREM MissingIsReplaced ==
    ASSUME ~LostReplies
    PROVE  ClonesSpec /\ PacksBuiltAnew => []MissingMeansReplaced
<1>1. ClonesInit => /\ LogInv /\ FetchInv /\ EndedInv /\ ReadInv
                    /\ MissingMeansReplaced
  <2> SUFFICES ASSUME ClonesInit
               PROVE  /\ LogInv /\ FetchInv /\ EndedInv /\ ReadInv
                      /\ MissingMeansReplaced
    OBVIOUS
  <2>1. LogInv /\ FetchInv
    BY InitLog, InitFetches DEF ClonesInit
  <2>2. EndedInv /\ MissingMeansReplaced
    BY DEF ClonesInit, FetchInit, EndedInv, MissingMeansReplaced
  <2>3. ReadInv
    BY <2>1, LogNumbered DEF ClonesInit, FetchInit, ReadInv, EmptyManifest
  <2> QED
    BY <2>1, <2>2, <2>3
<1>2. LogInv /\ FetchInv /\ EndedInv /\ ReadInv /\ MissingMeansReplaced
      /\ NoMissingPack /\ [ClonesNext]_cloneSysVars =>
          LogInv' /\ FetchInv' /\ EndedInv' /\ ReadInv' /\ MissingMeansReplaced'
  BY NextLog, NextFetches, NextEnded, NextRead, NextMissing, RepoSteps
<1>3. ClonesSpec /\ PacksBuiltAnew => []NoMissingPack
  BY ClonesHaveRepo, NothingNamedIsLost, PTL
<1> QED
  BY <1>1, <1>2, <1>3, PTL DEF ClonesSpec

-----------------------------------------------------------------------------
\* What a fetch still has to look at, and what it has read that is not there.
Whole(f) ==
    \A e \in read[f].entries :
        \/ e \in older[f] \cup pending[f] \cup got[f]
        \/ e.pack \subseteq objects[CloneOf[f]]

ImportInv ==
    \A f \in Fetchers :
        /\ at[f] \in {"plan", "import"} => Complete(read[f])
        /\ at[f] = "import" => Whole(f)

\* A fetch imports a log that has the history of every ref it names, and
\* passes over no entry of it.
LEMMA NextImports ==
    ASSUME LogInv, FetchInv, RefsResolve, ImportInv, [ClonesNext]_cloneSysVars
    PROVE  ImportInv'
<1>0. CloneOf \in [Fetchers -> Clones]
  BY FetchAssumption
<1>1. ASSUME NEW f \in Fetchers, at'[f] = "import" PROVE Whole(f)'
  <2>1. ASSUME at[f] = "import", read'[f] = read[f],
               older[f] \cup pending[f] \cup got[f] \subseteq
                   older'[f] \cup pending'[f] \cup got'[f]
        PROVE  Whole(f)'
    BY <2>1, ObjectsGrow DEF ImportInv, Whole
  <2>2. ASSUME NEW g \in Fetchers, FetchStep(g) PROVE Whole(f)'
    <3>1. CASE PlanImport(g) /\ f = g
      <4>1. /\ read'[f] = read[f]
            /\ pending'[f] = {e \in read[f].entries : e.seq > ImportedSeq(f)}
            /\ older'[f] = {e \in read[f].entries : e.seq <= ImportedSeq(f)}
        BY <3>1 DEF PlanImport, FetchInv, FetchTypeOK
      <4>2. ImportedSeq(f) \in Nat /\ \A e \in read[f].entries : e.seq \in Nat
        BY <1>0 DEF ImportedSeq, FetchInv, FetchTypeOK
      <4> QED
        BY <4>1, <4>2 DEF Whole
    <3>2. CASE IndexPack(g) /\ f = g
      <4>1. /\ read'[f] = read[f] /\ at[f] = "import"
            /\ older'[f] = older[f] /\ pending'[f] = pending[f]
            /\ got'[f] = got[f] \ {Oldest(got[f])}
            /\ Oldest(got[f]).pack \subseteq objects'[CloneOf[f]]
        BY <1>0, <3>2 DEF IndexPack, FetchInv, FetchTypeOK
      <4>2. Whole(f) /\ objects[CloneOf[f]] \subseteq objects'[CloneOf[f]]
        BY <4>1, ObjectsGrow DEF ImportInv
      <4> QED
        BY <4>1, <4>2 DEF Whole
    <3>3. CASE ~(PlanImport(g) /\ f = g) /\ ~(IndexPack(g) /\ f = g)
      <4>1. /\ at[f] = "import" /\ read'[f] = read[f]
            /\ older[f] \cup pending[f] \cup got[f] \subseteq
                   older'[f] \cup pending'[f] \cup got'[f]
        BY <1>1, <2>2, <3>3
           DEF FetchStep, ListRefs, LoadLog, PlanImport, DownloadPack,
               DownloadMissing, IndexPack, Verify, Imported, FallBack,
               FetchIncomplete, RecordImportedSeq, FetchRaises, FetchEnds,
               FetchGoto, cloneVars, planVars, FetchInv, FetchTypeOK
      <4> QED
        BY <2>1, <4>1
    <3> QED
      BY <3>1, <3>2, <3>3
  <2>3. ASSUME UNCHANGED <<at, read, planVars>> PROVE Whole(f)'
    BY <1>1, <2>1, <2>3 DEF planVars
  <2> QED
    BY <2>2, <2>3 DEF ClonesNext, FetcherStep, Prune, cloneSysVars, fetchVars
<1>2. ASSUME NEW f \in Fetchers, at'[f] \in {"plan", "import"}
      PROVE  Complete(read[f])'
  <2>1. \/ at[f] \in {"plan", "import"} /\ read'[f] = read[f]
        \/ read'[f] = manifest
    BY <1>2
       DEF ClonesNext, FetcherStep, Prune, cloneSysVars, fetchVars, FetchStep,
           ListRefs, LoadLog, PlanImport, DownloadPack, DownloadMissing,
           IndexPack, Verify, Imported, FallBack, FetchIncomplete,
           RecordImportedSeq, FetchRaises, FetchEnds, FetchGoto, cloneVars,
           planVars, FetchInv, FetchTypeOK
  <2> QED
    BY <2>1 DEF ImportInv, RefsResolve, Complete, Tips, LiveRefs, Named
<1> QED
  BY <1>1, <1>2 DEF ImportInv

\* A fetch that has imported the whole of a log misses nothing the log's refs
\* reach.
LEMMA NextIncomplete ==
    ASSUME FetchInv, EndedInv, ImportInv, IncompleteMeansGone,
           [ClonesNext]_cloneSysVars
    PROVE  IncompleteMeansGone'
<1> SUFFICES ASSUME NEW f \in Fetchers, ended'[f] = "incomplete"
             PROVE  ~(wanted'[f] \subseteq BasePack(read'[f]))
  BY DEF IncompleteMeansGone, BasePack, Tips, LiveRefs
<1>1. CASE ended[f] = "incomplete"
  BY <1>1, NextEnded DEF IncompleteMeansGone
<1>2. CASE ended[f] # "incomplete"
  <2>1. FetchIncomplete(f)
    BY <1>2, NextEnded
  <2>2. /\ at[f] = "import" /\ older[f] = {} /\ pending[f] = {} /\ got[f] = {}
        /\ read' = read /\ wanted' = wanted
        /\ Unresolved(f) # {}
    BY <2>1 DEF FetchIncomplete, Imported, FetchEnds
  <2>3. UNION Named(read[f]) \subseteq objects[CloneOf[f]]
    BY <2>2 DEF ImportInv, Whole, Named
  <2>4. PICK c \in wanted[f] : ~(Reach[c] \subseteq objects[CloneOf[f]])
    BY <2>2 DEF Unresolved
  <2>5. ASSUME c \in BasePack(read[f]) PROVE FALSE
    <3>1. PICK t \in Tips(read[f]) : c \in Reach[t]
      BY <2>5 DEF BasePack
    <3>2. t \in Commit
      BY <3>1 DEF FetchInv, FetchTypeOK, Tips, LiveRefs, Manifest
    <3>3. Reach[c] \subseteq Reach[t]
      BY <3>1, <3>2, ReachAssumption
    <3>4. Reach[t] \subseteq UNION Named(read[f])
      BY <2>2, <3>1 DEF ImportInv, Complete
    <3> QED
      BY <2>3, <2>4, <3>3, <3>4
  <2> QED
    BY <2>2, <2>4, <2>5
<1> QED
  BY <1>1, <1>2

\* "The remote's packs do not contain the whole history" is only said of tips
\* that the manifest the fetch read no longer reaches, whatever the mark was
\* and whatever gc had pruned, as long as refs are rewritten or compacted away
\* but not both.
THEOREM IncompleteIsGone ==
    ClonesSpec /\ NeverAllThree => []IncompleteMeansGone
<1>1. ClonesInit => /\ LogInv /\ FetchInv /\ EndedInv /\ ImportInv
                    /\ IncompleteMeansGone
  BY InitLog, InitFetches
     DEF ClonesInit, FetchInit, EndedInv, ImportInv, IncompleteMeansGone
<1>2. LogInv /\ FetchInv /\ EndedInv /\ ImportInv /\ IncompleteMeansGone
      /\ RefsResolve /\ [ClonesNext]_cloneSysVars =>
          LogInv' /\ FetchInv' /\ EndedInv' /\ ImportInv' /\ IncompleteMeansGone'
  BY NextLog, NextFetches, NextEnded, NextImports, NextIncomplete, RepoSteps
<1>3. ClonesSpec /\ NeverAllThree => []RefsResolve
  BY ClonesHaveRepo, RefsAlwaysResolve, PTL
<1> QED
  BY <1>1, <1>2, <1>3, PTL DEF ClonesSpec
=============================================================================
