---------------------------- MODULE SafetyProofs ----------------------------
(***************************************************************************)
(* What the steps of Repo do to the manifest, and the safety properties    *)
(* that follow from it, for any refs, commits, clients, batches and seeds. *)
(*                                                                         *)
(* The compare-and-swap makes the argument short.  Whatever a client has   *)
(* read before, the manifest only changes from a state to a transition of  *)
(* that very state (ManifestSteps), so each property is a fact about one   *)
(* transition of Gitwal, taken against the manifest it replaces.           *)
(***************************************************************************)
EXTENDS RepoProofs

-----------------------------------------------------------------------------
(***************************************************************************)
(* The writes of gitwal.json.                                              *)
(***************************************************************************)
Replaces(c) == /\ c \in Client
               /\ pc[c] = "put"
               /\ Writable(manifest)
               /\ base[c] = manifest

PushWrites(p) == /\ Replaces(p)
                 /\ Accepted(p, manifest) # {}
                 /\ manifest' = PushCandidate(p)

AdminWrites(a) == /\ Replaces(a)
                  /\ ~HeadRejected(a)
                  /\ manifest' = AdminCandidate(a)

CompactWrites(c) == /\ Replaces(c)
                    /\ ~FingerprintMoved(c)
                    /\ manifest' = CompactCandidate(c)

\* A PUT that changes the manifest replaces the one the mutator was given.
LEMMA PutReplaces ==
    ASSUME NEW c \in Client, NEW candidate, Puts(c),
           Stored(c, candidate) \/ NotAcknowledged(c, candidate)
    PROVE  UNCHANGED manifest \/ (Replaces(c) /\ manifest' = candidate)
BY DEF Puts, Stored, NotAcknowledged, Replaces

\* The steps of a push that touch the manifest.
LEMMA PushManifestSteps ==
    ASSUME NEW p \in Pushers, PushStep(p)
    PROVE  UNCHANGED manifest \/ PushWrites(p)
<1>0. p \in Client
  BY DEF Client
<1>1. CASE \/ StartPush(p) \/ PrepareDelete(p) \/ PrepareRefused(p)
           \/ PreparePack(p) \/ PrepareFails(p) \/ PushLoad(p)
           \/ PushRejected(p)
  BY <1>1 DEF StartPush, PrepareDelete, PrepareRefused, PreparePack,
              PrepareFails, PushLoad, LoadManifest, PushRejected,
              MutatorRejects, NextCommand, bucketVars
<1>2. CASE \/ PushCommitted(p) \/ PushRefused(p)
           \/ PushExhausted(p) \/ PushRaised(p)
  <2>1. \/ UNCHANGED manifest
        \/ /\ Accepted(p, base[p]) # {}
           /\ Puts(p)
           /\ \/ Stored(p, PushCandidate(p))
              \/ NotAcknowledged(p, PushCandidate(p))
    BY <1>2 DEF PushCommitted, PushRefused, PushExhausted, PushRaised,
                PutCommitted, PutRefused, PutExhausted, PutRaised, UpdateRaised
  <2> QED
    BY <1>0, <2>1, PutReplaces DEF PushWrites, Replaces
<1> QED
  BY <1>1, <1>2 DEF PushStep

\* The steps of an operator command that touch the manifest.
LEMMA AdminManifestSteps ==
    ASSUME NEW a \in Admins, AdminStep(a)
    PROVE  UNCHANGED manifest \/ AdminWrites(a)
<1>0. a \in Client
  BY DEF Client
<1>1. CASE StartAdmin(a) \/ AbortDelete(a) \/ AdminLoad(a) \/ AdminRejected(a)
  BY <1>1 DEF StartAdmin, AbortDelete, AdminLoad, LoadManifest,
              AdminRejected, MutatorRejects, bucketVars
<1>2. CASE AdminCommitted(a) \/ AdminRefused(a) \/ AdminFailed(a)
  <2>1. \/ UNCHANGED manifest
        \/ /\ ~HeadRejected(a)
           /\ Puts(a)
           /\ \/ Stored(a, AdminCandidate(a))
              \/ NotAcknowledged(a, AdminCandidate(a))
    BY <1>2 DEF AdminCommitted, AdminRefused, AdminFailed,
                PutCommitted, PutRefused, PutExhausted, PutRaised, UpdateRaised
  <2> QED
    BY <1>0, <2>1, PutReplaces DEF AdminWrites
<1> QED
  BY <1>1, <1>2 DEF AdminStep

\* The steps of a compaction that touch the manifest.
LEMMA CompactManifestSteps ==
    ASSUME NEW c \in Compactors, CompactStep(c)
    PROVE  UNCHANGED manifest \/ CompactWrites(c)
<1>0. c \in Client
  BY DEF Client
<1>1. CASE \/ StartCompact(c) \/ UploadBase(c) \/ UploadBaseFails(c)
           \/ CompactLoad(c) \/ CompactRejected(c) \/ DeleteSuperseded(c)
           \/ ListPacks(c) \/ RereadManifest(c) \/ StatPack(c)
           \/ ReapOrphan(c) \/ EndSweep(c)
  BY <1>1 DEF StartCompact, UploadBase, UploadBaseFails, CompactLoad,
              LoadManifest, CompactRejected, MutatorRejects, DeleteSuperseded,
              ListPacks, RereadManifest, StatPack, ReapOrphan, EndSweep,
              bucketVars
<1>2. CASE CompactCommitted(c) \/ CompactRefused(c) \/ CompactFailed(c)
  <2>1. \/ UNCHANGED manifest
        \/ /\ ~FingerprintMoved(c)
           /\ Puts(c)
           /\ \/ Stored(c, CompactCandidate(c))
              \/ NotAcknowledged(c, CompactCandidate(c))
    BY <1>2 DEF CompactCommitted, CompactRefused, CompactFailed,
                PutCommitted, PutRefused, PutExhausted, PutRaised, UpdateRaised
  <2> QED
    BY <1>0, <2>1, PutReplaces DEF CompactWrites, Puts
<1> QED
  BY <1>1, <1>2 DEF CompactStep

\* Every change of the manifest is a transition of the manifest it changes.
LEMMA ManifestSteps ==
    ASSUME [Next]_vars
    PROVE  \/ UNCHANGED manifest
           \/ \E p \in Pushers : PushWrites(p)
           \/ \E a \in Admins : AdminWrites(a)
           \/ \E c \in Compactors : CompactWrites(c)
           \/ UpgradeFormat
BY PushManifestSteps, AdminManifestSteps, CompactManifestSteps
   DEF Next, PusherStep, OperatorStep, CompactorStep, OutliveGrace, Quiescent,
       vars, storeVars

-----------------------------------------------------------------------------
(***************************************************************************)
(* A manifest this client may not rewrite.                                 *)
(***************************************************************************)

\* No client rewrites a manifest of a later format, whatever it had read.
THEOREM FutureFormatSafe == Spec => FutureFormatUntouched
<1>1. [Next]_vars => (~Writable(manifest) => manifest' = manifest)
  BY ManifestSteps
     DEF PushWrites, AdminWrites, CompactWrites, Replaces, UpgradeFormat
<1>2. [Next]_vars => [~Writable(manifest) => manifest' = manifest]_vars
  BY <1>1
<1> QED
  BY <1>2, PTL DEF Spec, FutureFormatUntouched
-----------------------------------------------------------------------------
(***************************************************************************)
(* The sequence number and the log.                                        *)
(***************************************************************************)

\* A push that applies anything raises seq; where only updates carry packs, by
\* at least the entries it adds.
LEMMA ApplyPushesSeq ==
    ASSUME NEW m \in Manifest, NEW b \in Batches, NEW pk,
           NEW acc, acc \subseteq 1 .. Len(b)
    PROVE  LET n == ApplyPushes(m, b, pk, acc) IN
           /\ n.seq \in Nat
           /\ n.seq >= m.seq
           /\ acc # {} => n.seq > m.seq
           /\ (\A i \in acc : pk[i] # {} => b[i].sha # None)
                => n.seq >= m.seq + Cardinality(Fresh(m, pk, acc))
<1> DEFINE fresh == Fresh(m, pk, acc)
           dels == Deletions(b, acc)
<1>1. /\ fresh \subseteq 1 .. Len(b)
      /\ dels \subseteq 1 .. Len(b)
  BY DEF Fresh, Deletions
<1>2. /\ Cardinality(fresh) \in Nat
      /\ Cardinality(dels) \in Nat
      /\ Cardinality(dels) = 0 <=> dels = {}
      /\ Cardinality(fresh) = 0 <=> fresh = {}
  BY <1>1, BatchFacts, IndexesFinite
<1>3. ApplyPushes(m, b, pk, acc).seq
        = m.seq + PushBumps(m, b, pk, acc) + Cardinality(dels)
  BY DEF ApplyPushes, Manifest
<1>4. m.seq \in Nat
  BY DEF Manifest
<1>5. acc # {} => Updates(b, acc) # {} \/ dels # {}
  BY DEF Updates, Deletions
<1>6. ASSUME \A i \in acc : pk[i] # {} => b[i].sha # None,
             Updates(b, acc) = {}
      PROVE  fresh = {}
  BY <1>6 DEF Fresh, Updates
<1> HIDE DEF fresh, dels
<1>7. PushBumps(m, b, pk, acc) \in Nat
  BY <1>2 DEF PushBumps, fresh
<1>8. Updates(b, acc) # {} => /\ PushBumps(m, b, pk, acc) > 0
                              /\ PushBumps(m, b, pk, acc) >= Cardinality(fresh)
  BY <1>2 DEF PushBumps, fresh
<1> DEFINE n == ApplyPushes(m, b, pk, acc).seq
<1>9. n \in Nat /\ n >= m.seq
  BY <1>2, <1>3, <1>4, <1>7
<1>10. acc # {} => n > m.seq
  BY <1>2, <1>3, <1>4, <1>5, <1>7, <1>8
<1>11. (\A i \in acc : pk[i] # {} => b[i].sha # None)
          => n >= m.seq + Cardinality(fresh)
  BY <1>2, <1>3, <1>4, <1>6, <1>7, <1>8
<1> QED
  BY <1>9, <1>10, <1>11 DEF fresh

\* So does every other transition.
LEMMA TransitionsSeq ==
    ASSUME NEW m \in Manifest
    PROVE  /\ \A r : /\ ApplyDelete(m, r).seq = m.seq + 1
                     /\ ApplyProtect(m, r).seq = m.seq + 1
                     /\ ApplyUnprotect(m, r).seq = m.seq + 1
                     /\ SetHead(m, r).seq = m.seq + 1
           /\ \A pk : ApplyCompaction(m, pk).seq = m.seq + 1
BY DEF Manifest, ApplyDelete, ApplyProtect, ApplyUnprotect, SetHead,
       ApplyCompaction

\* Every write of the manifest raises seq.
LEMMA WritesRaiseSeq ==
    ASSUME TypeInv, [Next]_vars
    PROVE  UNCHANGED manifest \/ manifest'.seq > manifest.seq
<1>0. manifest \in Manifest /\ manifest.seq \in Nat
  BY DEF TypeInv, TypeOK, StoreTypeOK, Manifest
<1>1. ASSUME NEW p \in Pushers, PushWrites(p)
      PROVE  manifest'.seq > manifest.seq
  <2>1. /\ batch[p] \in Batches
        /\ Accepted(p, manifest) \subseteq 1 .. Len(batch[p])
    BY DEF TypeInv, TypeOK, PushTypeOK, Accepted, Pending, Cmds
  <2> QED
    BY <1>0, <1>1, <2>1, ApplyPushesSeq
       DEF PushWrites, Replaces, PushCandidate
<1>2. ASSUME NEW a \in Admins, AdminWrites(a)
      PROVE  manifest'.seq > manifest.seq
  <2>1. task[a].op \in Op
    BY AdminOpsAssumption DEF TypeInv, TypeOK, ManageTypeOK
  <2>2. AdminCandidate(a).seq = base[a].seq + 1
    BY <1>0, <1>2, <2>1, TransitionsSeq
       DEF AdminWrites, Replaces, AdminCandidate, Op
  <2> QED
    BY <1>0, <1>2, <2>2 DEF AdminWrites, Replaces
<1>3. ASSUME NEW c \in Compactors, CompactWrites(c)
      PROVE  manifest'.seq > manifest.seq
  BY <1>0, <1>3, TransitionsSeq DEF CompactWrites, Replaces, CompactCandidate
<1>4. ASSUME UpgradeFormat PROVE manifest'.seq > manifest.seq
  BY <1>0, <1>4 DEF UpgradeFormat, Manifest
<1> QED
  BY <1>1, <1>2, <1>3, <1>4, ManifestSteps

\* Every rewrite of the manifest raises seq, whoever makes it: no content comes
\* back, so the ETag of the manifest a client read is the ETag of that state.
THEOREM SeqAlwaysGrows == Spec => SeqGrows
<1>1. TypeInv /\ [Next]_vars =>
          [manifest' # manifest => manifest'.seq > manifest.seq]_vars
  BY WritesRaiseSeq
<1> QED
  BY <1>1, InitTypes, NextTypes, PTL DEF Spec, SeqGrows

-----------------------------------------------------------------------------
(***************************************************************************)
(* Protected refs.                                                         *)
(***************************************************************************)

\* What a batch leaves of a ref: the sha of its command for it, if accepted.
LEMMA UpdatedRefsValue ==
    ASSUME NEW m \in Manifest, NEW b \in Batches,
           NEW acc, acc \subseteq 1 .. Len(b)
    PROVE  /\ \A i \in acc : UpdatedRefs(m, b, acc)[b[i].ref] = b[i].sha
           /\ \A r \in Ref : (\A i \in acc : b[i].ref # r) =>
                                 UpdatedRefs(m, b, acc)[r] = m.refs[r]
<1>1. ASSUME NEW i \in acc
      PROVE  UpdatedRefs(m, b, acc)[b[i].ref] = b[i].sha
  <2>1. b[i].ref \in Ref /\ \A j \in acc : b[j].ref = b[i].ref => j = i
    BY BatchFacts
  <2>2. (CHOOSE j \in acc : b[j].ref = b[i].ref) = i
    BY <2>1
  <2> QED
    BY <2>1, <2>2 DEF UpdatedRefs
<1> QED
  BY <1>1 DEF UpdatedRefs

\* No write rewinds a protected ref.
LEMMA WritesKeepProtected ==
    ASSUME TypeInv, [Next]_vars, NEW r \in manifest.protected, manifest.refs[r] # None
    PROVE  \/ manifest'.refs[r] = None
           \/ IsAncestor(manifest.refs[r], manifest'.refs[r])
<1>0. /\ manifest \in Manifest
      /\ r \in Ref
      /\ manifest.refs[r] \in Commit
      /\ IsAncestor(manifest.refs[r], manifest.refs[r])
  BY ReachAssumption
     DEF TypeInv, TypeOK, StoreTypeOK, Manifest, IsAncestor
<1>1. ASSUME NEW p \in Pushers, PushWrites(p)
      PROVE  \/ manifest'.refs[r] = None
             \/ IsAncestor(manifest.refs[r], manifest'.refs[r])
  <2> DEFINE acc == Accepted(p, manifest)
             b == batch[p]
  <2>1. b \in Batches /\ acc \subseteq 1 .. Len(b)
    BY DEF TypeInv, TypeOK, PushTypeOK, Accepted, Pending, Cmds
  <2>2. manifest'.refs = UpdatedRefs(manifest, b, acc)
    BY <1>0, <1>1 DEF PushWrites, Replaces, PushCandidate, ApplyPushes, Manifest
  <2>3. CASE \A i \in acc : b[i].ref # r
    BY <1>0, <2>1, <2>2, <2>3, UpdatedRefsValue
  <2>4. ASSUME NEW i \in acc, b[i].ref = r
        PROVE  \/ manifest'.refs[r] = None
               \/ IsAncestor(manifest.refs[r], manifest'.refs[r])
    <3>1. manifest'.refs[r] = b[i].sha
      BY <1>0, <2>1, <2>2, <2>4, UpdatedRefsValue
    <3>2. ~Rejected(manifest, b[i])
      BY DEF Accepted
    <3> QED
      BY <2>4, <3>1, <3>2 DEF Rejected, NonFastForwardRefused
  <2> QED
    BY <2>3, <2>4
<1>2. ASSUME NEW a \in Admins, AdminWrites(a)
      PROVE  manifest'.refs[r] = None \/ manifest'.refs[r] = manifest.refs[r]
  <2>1. task[a].op \in Op /\ task[a].ref \in Ref
    BY AdminOpsAssumption DEF TypeInv, TypeOK, ManageTypeOK
  <2>2. /\ manifest' = AdminCandidate(a)
        /\ base[a] = manifest
    BY <1>2 DEF AdminWrites, Replaces
  <2>3. \/ manifest' = ApplyDelete(manifest, task[a].ref)
        \/ manifest' = ApplyProtect(manifest, task[a].ref)
        \/ manifest' = ApplyUnprotect(manifest, task[a].ref)
        \/ manifest' = SetHead(manifest, task[a].ref)
    BY <2>1, <2>2 DEF AdminCandidate, Op
  <2> QED
    BY <1>0, <2>1, <2>3
       DEF Manifest, ApplyDelete, ApplyProtect, ApplyUnprotect, SetHead
<1>3. ASSUME (\E c \in Compactors : CompactWrites(c)) \/ UpgradeFormat
      PROVE  manifest'.refs[r] = manifest.refs[r]
  BY <1>0, <1>3 DEF CompactWrites, Replaces, CompactCandidate, ApplyCompaction,
                    UpgradeFormat, Manifest
<1> QED
  BY <1>0, <1>1, <1>2, <1>3, ManifestSteps

\* No step, of any client and with any lease or force, rewinds a protected ref.
THEOREM ProtectionHolds == Spec => ProtectedNeverRewound
<1> DEFINE Kept == \A r \in manifest.protected \cap LiveRefs(manifest) :
                      \/ manifest'.refs[r] = None
                      \/ IsAncestor(manifest.refs[r], manifest'.refs[r])
<1>1. TypeInv /\ [Next]_vars => Kept
  BY WritesKeepProtected DEF LiveRefs
<1>2. TypeInv /\ [Next]_vars => [Kept]_vars
  BY <1>1
<1> HIDE DEF Kept
<1>3. Spec => [][Kept]_vars
  BY <1>2, InitTypes, NextTypes, PTL DEF Spec
<1> QED
  BY <1>3 DEF ProtectedNeverRewound, Kept

-----------------------------------------------------------------------------
(***************************************************************************)
(* What a helper tells git.                                                *)
(***************************************************************************)

\* Preparing a command never makes it ok.
LEMMA PreparingReports ==
    ASSUME TypeInv, NEW p \in Pushers,
           PrepareDelete(p) \/ PrepareRefused(p) \/ PreparePack(p) \/ PrepareFails(p)
    PROVE  /\ UNCHANGED <<batch, landed>>
           /\ \A q \in Pushers : \A i \in Cmds(q) :
                result'[q][i] = "ok" => result[q][i] = "ok"
<1>1. PICK res \in {result[p], Fails(p)} : NextCommand(p, res)
  BY DEF PrepareDelete, PrepareRefused, PreparePack, PrepareFails
<1>2. result' = [result EXCEPT ![p] = res]
  BY <1>1 DEF NextCommand
<1>3. \A i \in Cmds(p) : res[i] = "ok" => result[p][i] = "ok"
  BY DEF Fails, TypeInv, TypeOK, PushTypeOK
<1> QED
  BY <1>1, <1>2, <1>3 DEF NextCommand, TypeInv, TypeOK, PushTypeOK

\* The PUT that is acknowledged has applied every accepted command.
LEMMA CommittedLands ==
    ASSUME TypeInv, NEW p \in Pushers, PushCommitted(p)
    PROVE  landed' = [landed EXCEPT ![p] = @ \cup Accepted(p, base[p])]
<1>1. /\ manifest' = PushCandidate(p)
      /\ manifest = base[p]
      /\ Accepted(p, base[p]) # {}
      /\ Landing(p)
  BY DEF PushCommitted, PutCommitted, Stored
<1>2. /\ batch[p] \in Batches
      /\ Accepted(p, base[p]) \subseteq 1 .. Len(batch[p])
      /\ manifest \in Manifest
  BY DEF TypeInv, TypeOK, StoreTypeOK, PushTypeOK, Accepted, Pending, Cmds
<1>3. manifest'.seq > manifest.seq
  BY <1>1, <1>2, ApplyPushesSeq DEF PushCandidate
<1>4. manifest' # manifest
  BY <1>2, <1>3 DEF Manifest
<1> QED
  BY <1>1, <1>4 DEF Landing

\* The end of an update: ok is said of what landed.
LEMMA ReportsWhatLanded ==
    ASSUME TypeInv, OkMeansApplied, NEW p \in Pushers, NEW how, NEW done,
           done \subseteq landed'[p], landed[p] \subseteq landed'[p],
           \A q \in Pushers \ {p} : landed'[q] = landed[q],
           Report(p, how, done), UNCHANGED batch
    PROVE  OkMeansApplied'
<1>1. \A i \in Cmds(p) :
         result'[p][i] = "ok" => result[p][i] = "ok" \/ i \in done
  BY DEF Report, TypeInv, TypeOK, PushTypeOK
<1>2. \A q \in Pushers \ {p} : result'[q] = result[q]
  BY DEF Report, TypeInv, TypeOK, PushTypeOK
<1>3. \A q \in Pushers : \A i \in Cmds(q) :
         result'[q][i] = "ok" => i \in landed'[q]
  <2> SUFFICES ASSUME NEW q \in Pushers, NEW i \in Cmds(q), result'[q][i] = "ok"
               PROVE  i \in landed'[q]
    OBVIOUS
  <2> QED
    BY <1>1, <1>2 DEF OkMeansApplied, Ok
<1> QED
  BY <1>3 DEF OkMeansApplied, Ok, Cmds

\* Landing only adds commands, and only to the push that wrote.
LEMMA LandingGrows ==
    ASSUME TypeInv, NEW p \in Pushers, Landing(p) \/ UNCHANGED landed
    PROVE  /\ landed[p] \subseteq landed'[p]
           /\ \A q \in Pushers \ {p} : landed'[q] = landed[q]
BY DEF Landing, TypeInv, TypeOK, PushTypeOK

\* The steps of a push keep the promise.
LEMMA PushKeepsReports ==
    ASSUME TypeInv, OkMeansApplied, NEW p \in Pushers, PushStep(p)
    PROVE  OkMeansApplied'
<1>1. CASE StartPush(p) \/ PushLoad(p)
  BY <1>1 DEF StartPush, PushLoad, pushVars, OkMeansApplied, Ok, Cmds
<1>2. CASE PrepareDelete(p) \/ PrepareRefused(p) \/ PreparePack(p) \/ PrepareFails(p)
  BY <1>2, PreparingReports DEF OkMeansApplied, Ok, Cmds
<1>3. CASE PushRefused(p)
  <2>1. UNCHANGED <<batch, result>> /\ Landing(p)
    BY <1>3 DEF PushRefused
  <2> QED
    BY <2>1, LandingGrows DEF OkMeansApplied, Ok, Cmds
<1>4. CASE PushCommitted(p)
  <2>1. UNCHANGED batch /\ Report(p, "committed", Accepted(p, base[p]))
    BY <1>4 DEF PushCommitted
  <2>2. Accepted(p, base[p]) \subseteq landed'[p]
    BY <1>4, CommittedLands DEF TypeInv, TypeOK, PushTypeOK
  <2>3. Landing(p)
    BY <1>4 DEF PushCommitted
  <2> QED
    BY <2>1, <2>2, <2>3, LandingGrows, ReportsWhatLanded
<1>5. CASE PushExhausted(p) \/ PushRaised(p) \/ PushRejected(p)
  <2>1. UNCHANGED batch /\ \E how : Report(p, how, {})
    BY <1>5 DEF PushExhausted, PushRaised, PushRejected
  <2>2. Landing(p) \/ UNCHANGED landed
    BY <1>5 DEF PushExhausted, PushRaised, PushRejected
  <2> QED
    BY <2>1, <2>2, LandingGrows, ReportsWhatLanded
<1> QED
  BY <1>1, <1>2, <1>3, <1>4, <1>5 DEF PushStep

\* Every step keeps it.
LEMMA NextKeepsReports ==
    ASSUME TypeInv, OkMeansApplied, [Next]_vars
    PROVE  OkMeansApplied'
<1>1. ASSUME UNCHANGED pushVars PROVE OkMeansApplied'
  BY <1>1 DEF pushVars, OkMeansApplied, Ok, Cmds
<1> QED
  BY <1>1, PushKeepsReports
     DEF Next, PusherStep, OperatorStep, CompactorStep, OutliveGrace,
         UpgradeFormat, Quiescent, vars

\* A helper never says ok of a command that S3 has not applied, though any
\* reply may be lost, any PUT refused and any commit be another client's.
THEOREM ReportsAreTrue == Spec => []OkMeansApplied
<1>1. Init => OkMeansApplied
  BY DEF Init, PushInit, OkMeansApplied, Ok, Cmds
<1> QED
  BY <1>1, InitTypes, NextTypes, NextKeepsReports, PTL DEF Spec

-----------------------------------------------------------------------------
(***************************************************************************)
(* The entry log.  A push can only give its entries seqs of their own      *)
(* because seq grows by as many as it adds: deletions must carry no pack.  *)
(***************************************************************************)

\* Ranks are distinct, and none exceeds the number of elements.
LEMMA RankFacts ==
    ASSUME NEW n \in Nat, NEW S, S \subseteq 1 .. n
    PROVE  /\ \A i \in S : Rank(i, S) \in 1 .. Cardinality(S)
           /\ \A i, j \in S : Rank(i, S) = Rank(j, S) => i = j
<1> DEFINE UpTo(i) == {j \in S : j <= i}
<1>1. IsFiniteSet(S) /\ \A i \in S : IsFiniteSet(UpTo(i))
  <2>1. IsFiniteSet(S)
    BY IndexesFinite
  <2> QED
    BY <2>1, FS_Subset
<1>2. \A i \in S : i \in 1 .. n /\ i \in UpTo(i)
  OBVIOUS
<1>3. ASSUME NEW i \in S
      PROVE  Rank(i, S) \in 1 .. Cardinality(S)
  <2>1. UpTo(i) \subseteq S /\ UpTo(i) \subseteq 1 .. n /\ UpTo(i) # {}
    BY <1>2
  <2>2. /\ Cardinality(UpTo(i)) \in Nat
        /\ Cardinality(UpTo(i)) # 0
        /\ Cardinality(S) \in Nat
        /\ Cardinality(UpTo(i)) <= Cardinality(S)
    BY <1>1, <2>1, IndexesFinite, FS_Subset
  <2> QED
    BY <2>2 DEF Rank
<1>4. ASSUME NEW i \in S, NEW j \in S, i < j
      PROVE  Rank(i, S) # Rank(j, S)
  <2>1. UpTo(i) \subseteq UpTo(j) /\ j \in UpTo(j) /\ j \notin UpTo(i)
    <3>1. \A k \in S : k \in Int
      BY <1>2
    <3>2. ~ (j <= i) /\ j <= j
      BY <1>4, <3>1
    <3>3. \A k \in S : k <= i => k <= j
      BY <1>4, <3>1
    <3> QED
      BY <3>2, <3>3
  <2>2. UpTo(i) # UpTo(j)
    BY <2>1
  <2>3. Cardinality(UpTo(i)) # Cardinality(UpTo(j))
    BY <1>1, <2>1, <2>2, FS_Subset
  <2> QED
    BY <2>3 DEF Rank
<1>5. \A i, j \in S : i < j \/ j < i \/ i = j
  BY <1>2
<1> QED
  BY <1>3, <1>4, <1>5

\* A batch whose deletions carry no pack keeps a valid log valid.
LEMMA ApplyPushesLog ==
    ASSUME NEW m \in Manifest, NEW b \in Batches, NEW pk \in [1 .. Len(b) -> Pack],
           NEW acc, acc \subseteq 1 .. Len(b), ValidEntries(m),
           \A i \in acc : pk[i] # {} => b[i].sha # None
    PROVE  ValidEntries(ApplyPushes(m, b, pk, acc))
<1> DEFINE fresh == Fresh(m, pk, acc)
           N(i) == [seq |-> m.seq + Rank(i, fresh), pack |-> pk[i]]
           new == {N(i) : i \in fresh}
           n == ApplyPushes(m, b, pk, acc)
<1>1. n.entries = m.entries \cup new
  BY DEF ApplyPushes, Manifest
<1>2. n.seq \in Nat /\ n.seq >= m.seq + Cardinality(fresh) /\ n.seq >= m.seq
  BY ApplyPushesSeq
<1>3. /\ fresh \subseteq 1 .. Len(b)
      /\ \A i \in fresh : pk[i] \notin Named(m)
      /\ \A i, j \in fresh : i < j => pk[i] # pk[j]
  BY DEF Fresh
<1>4. \A i, j \in fresh : i = j \/ i < j \/ j < i
  BY <1>3, BatchFacts
<1>5. /\ Cardinality(fresh) \in Nat
      /\ \A i \in fresh : Rank(i, fresh) \in 1 .. Cardinality(fresh)
      /\ \A i, j \in fresh : Rank(i, fresh) = Rank(j, fresh) => i = j
  BY <1>3, BatchFacts, RankFacts, IndexesFinite
<1>6. /\ m.seq \in Nat
      /\ \A e \in m.entries : e.seq \in Nat /\ e.seq <= m.seq /\ e.pack \in Named(m)
  BY DEF Manifest, Entry, ValidEntries, Named
<1> HIDE DEF fresh, n
<1>7. \A e \in new : m.seq < e.seq /\ e.seq <= n.seq /\ e.pack \notin Named(m)
  BY <1>2, <1>3, <1>5, <1>6
<1>8. \A e, f \in new : e.seq = f.seq \/ e.pack = f.pack => e = f
  <2> SUFFICES ASSUME NEW i \in fresh, NEW j \in fresh,
                      N(i).seq = N(j).seq \/ N(i).pack = N(j).pack
               PROVE  i = j
    OBVIOUS
  <2> QED
    BY <1>3, <1>4, <1>5, <1>6
<1>9. \A e, f \in m.entries : e.seq = f.seq \/ e.pack = f.pack => e = f
  BY DEF ValidEntries
<1>10. \A e \in m.entries, f \in new : e.seq # f.seq /\ e.pack # f.pack
  BY <1>6, <1>7
<1>11. \A e \in n.entries : e.seq <= n.seq
  BY <1>1, <1>2, <1>6, <1>7
<1> HIDE DEF new
<1>12. \A e, f \in n.entries : e.seq = f.seq \/ e.pack = f.pack => e = f
  BY <1>1, <1>8, <1>9, <1>10
<1> QED
  BY <1>11, <1>12 DEF ValidEntries, n

\* Only updates carry packs: what makes LogValid inductive.
PacksAreUpdates ==
    \A p \in Pushers : \A i \in Cmds(p) :
        pack[p][i] # {} => batch[p][i].sha # None

\* The steps of a push keep it so: a pack is built for a sha.
LEMMA PushKeepsPacks ==
    ASSUME TypeInv, PacksAreUpdates, NEW p \in Pushers, PushStep(p)
    PROVE  PacksAreUpdates'
<1>1. CASE PreparePack(p)
  <2>1. UNCHANGED batch /\ batch[p][cursor[p]].sha # None
    BY <1>1 DEF PreparePack, NextCommand, Current
  <2>2. ASSUME UNCHANGED pack PROVE PacksAreUpdates'
    BY <2>1, <2>2 DEF PacksAreUpdates, Cmds
  <2>3. ASSUME NEW pk, pack' = [pack EXCEPT ![p][cursor[p]] = pk]
        PROVE  PacksAreUpdates'
    <3>1. \A q \in Pushers : \A i \in Cmds(q) :
             pack'[q][i] = pack[q][i] \/ (q = p /\ i = cursor[p])
      BY <2>3 DEF TypeInv, TypeOK, PushTypeOK
    <3> QED
      BY <2>1, <3>1 DEF PacksAreUpdates, Cmds
  <2> QED
    BY <1>1, <2>2, <2>3 DEF PreparePack
<1>2. CASE \/ StartPush(p) \/ PrepareDelete(p) \/ PrepareRefused(p)
           \/ PrepareFails(p) \/ PushLoad(p) \/ PushCommitted(p)
           \/ PushRefused(p) \/ PushExhausted(p) \/ PushRaised(p)
           \/ PushRejected(p)
  <2>1. UNCHANGED <<batch, pack>>
    BY <1>2 DEF StartPush, PrepareDelete, PrepareRefused, PrepareFails,
                PushLoad, PushCommitted, PushRefused, PushExhausted,
                PushRaised, PushRejected, NextCommand, pushVars
  <2> QED
    BY <2>1 DEF PacksAreUpdates, Cmds
<1> QED
  BY <1>1, <1>2 DEF PushStep

\* So does every step.
LEMMA NextKeepsPacks ==
    ASSUME TypeInv, PacksAreUpdates, [Next]_vars
    PROVE  PacksAreUpdates'
<1>1. ASSUME UNCHANGED pushVars PROVE PacksAreUpdates'
  BY <1>1 DEF pushVars, PacksAreUpdates, Cmds
<1> QED
  BY <1>1, PushKeepsPacks
     DEF Next, PusherStep, OperatorStep, CompactorStep, OutliveGrace,
         UpgradeFormat, Quiescent, vars

\* Every write leaves a valid log.
LEMMA WritesKeepLog ==
    ASSUME TypeInv, PacksAreUpdates, LogValid, [Next]_vars
    PROVE  LogValid'
<1>0. manifest \in Manifest /\ manifest.seq \in Nat
  BY DEF TypeInv, TypeOK, StoreTypeOK, Manifest
<1>1. ASSUME NEW p \in Pushers, PushWrites(p) PROVE LogValid'
  <2> DEFINE acc == Accepted(p, manifest)
  <2>1. /\ batch[p] \in Batches
        /\ acc \subseteq 1 .. Len(batch[p])
        /\ pack[p] \in [1 .. Len(batch[p]) -> Pack]
        /\ \A i \in acc : pack[p][i] # {} => batch[p][i].sha # None
    BY DEF TypeInv, TypeOK, PushTypeOK, Accepted, Pending, Cmds, PacksAreUpdates
  <2>2. ValidEntries(ApplyPushes(manifest, batch[p], pack[p], acc))
    BY <1>0, <2>1, ApplyPushesLog DEF LogValid
  <2> QED
    BY <1>1, <2>2 DEF PushWrites, Replaces, PushCandidate, LogValid
<1>2. ASSUME NEW c \in Compactors, CompactWrites(c) PROVE LogValid'
  <2>1. manifest' = ApplyCompaction(manifest, BasePack(snap[c]))
    BY <1>2 DEF CompactWrites, Replaces, CompactCandidate
  <2>2. /\ manifest'.seq = manifest.seq + 1
        /\ manifest'.entries = {[seq  |-> manifest.seq + 1,
                                 pack |-> BasePack(snap[c])]}
    BY <1>0, <2>1 DEF ApplyCompaction, Manifest
  <2> QED
    BY <1>0, <2>2 DEF LogValid, ValidEntries
<1>3. ASSUME manifest'.entries = manifest.entries,
             manifest'.seq = manifest.seq \/ manifest'.seq = manifest.seq + 1
      PROVE  LogValid'
  <2>1. \A e \in manifest.entries : e.seq \in Nat /\ e.seq <= manifest.seq
    BY <1>0 DEF Manifest, Entry, LogValid, ValidEntries
  <2> QED
    BY <1>0, <1>3, <2>1 DEF LogValid, ValidEntries
<1>4. ASSUME NEW a \in Admins, AdminWrites(a) PROVE LogValid'
  <2>1. task[a].op \in Op
    BY AdminOpsAssumption DEF TypeInv, TypeOK, ManageTypeOK
  <2>2. \/ manifest' = ApplyDelete(manifest, task[a].ref)
        \/ manifest' = ApplyProtect(manifest, task[a].ref)
        \/ manifest' = ApplyUnprotect(manifest, task[a].ref)
        \/ manifest' = SetHead(manifest, task[a].ref)
    BY <1>4, <2>1 DEF AdminWrites, Replaces, AdminCandidate, Op
  <2>3. /\ manifest'.entries = manifest.entries
        /\ manifest'.seq = manifest.seq + 1
    BY <1>0, <2>2
       DEF Manifest, ApplyDelete, ApplyProtect, ApplyUnprotect, SetHead
  <2> QED
    BY <1>3, <2>3
<1>5. ASSUME UpgradeFormat PROVE LogValid'
  BY <1>0, <1>3, <1>5 DEF UpgradeFormat, Manifest
<1> QED
  BY <1>1, <1>2, <1>3, <1>4, <1>5, ManifestSteps

\* The log is valid in every reachable state: however batches, retries and
\* compactions mix, no seq and no pack is ever listed twice.
THEOREM LogAlwaysValid == Spec => []LogValid
<1>1. Init => PacksAreUpdates /\ LogValid
  BY SeedAssumption
     DEF Init, StoreInit, PushInit, PacksAreUpdates, LogValid, Cmds
<1> QED
  BY <1>1, InitTypes, NextTypes, NextKeepsPacks, WritesKeepLog, PTL DEF Spec

\* An operator command rewrites the refs, not the log.
LEMMA AdminKeepsLog ==
    ASSUME TypeInv, NEW a \in Admins, AdminWrites(a)
    PROVE  manifest'.entries = manifest.entries
<1>1. manifest \in Manifest /\ task[a].op \in Op
  BY AdminOpsAssumption DEF TypeInv, TypeOK, StoreTypeOK, ManageTypeOK
<1> QED
  BY <1>1 DEF AdminWrites, Replaces, AdminCandidate, Op, Manifest,
              ApplyDelete, ApplyProtect, ApplyUnprotect, SetHead

\* An entry that enters the log is numbered above every earlier manifest.
LEMMA LogSteps ==
    ASSUME TypeInv, [Next]_vars
    PROVE  /\ manifest.seq \in Nat /\ manifest'.seq \in Nat
           /\ manifest.seq <= manifest'.seq
           /\ \A e \in manifest'.entries :
                 e \in manifest.entries \/ e.seq > manifest.seq
<1>0. /\ manifest \in Manifest /\ manifest.seq \in Nat
      /\ manifest' \in Manifest /\ manifest'.seq \in Nat
  BY NextTypes DEF TypeInv, TypeOK, StoreTypeOK, Manifest
<1>1. manifest.seq <= manifest'.seq
  BY <1>0, WritesRaiseSeq
<1> SUFFICES ASSUME NEW e \in manifest'.entries, e \notin manifest.entries
             PROVE  e.seq > manifest.seq
  BY <1>0, <1>1
<1>2. ASSUME NEW p \in Pushers, PushWrites(p) PROVE e.seq > manifest.seq
  <2> DEFINE acc == Accepted(p, manifest)
             fresh == Fresh(manifest, pack[p], acc)
  <2>1. /\ batch[p] \in Batches
        /\ fresh \subseteq 1 .. Len(batch[p])
    BY DEF TypeInv, TypeOK, PushTypeOK, Accepted, Pending, Cmds, Fresh
  <2>2. /\ \A i \in fresh : Rank(i, fresh) \in 1 .. Cardinality(fresh)
        /\ Cardinality(fresh) \in Nat
    BY <2>1, BatchFacts, RankFacts, IndexesFinite
  <2>3. manifest'.entries = manifest.entries \cup
          {[seq |-> manifest.seq + Rank(i, fresh), pack |-> pack[p][i]] : i \in fresh}
    <3>1. manifest' = ApplyPushes(manifest, batch[p], pack[p], acc)
      BY <1>2 DEF PushWrites, Replaces, PushCandidate
    <3> HIDE DEF acc
    <3> QED
      BY <1>0, <3>1 DEF ApplyPushes, Manifest
  <2> HIDE DEF fresh
  <2> QED
    BY <1>0, <2>2, <2>3
<1>3. ASSUME NEW a \in Admins, AdminWrites(a) PROVE FALSE
  BY <1>3, AdminKeepsLog
<1>4. ASSUME NEW c \in Compactors, CompactWrites(c) PROVE e.seq > manifest.seq
  BY <1>0, <1>4
     DEF CompactWrites, Replaces, CompactCandidate, ApplyCompaction, Manifest
<1>5. ASSUME UpgradeFormat PROVE FALSE
  BY <1>0, <1>5 DEF UpgradeFormat, Manifest
<1> QED
  BY <1>2, <1>3, <1>4, <1>5, ManifestSteps

\* The log that is replaced does not come back: one that differs has an entry
\* above every earlier manifest.
LEMMA LogMovesOn ==
    ASSUME TypeInv, [Next]_vars
    PROVE  \/ manifest'.entries = manifest.entries
           \/ \E e \in manifest'.entries : e.seq > manifest.seq
<1>0. manifest \in Manifest /\ manifest.seq \in Nat
  BY DEF TypeInv, TypeOK, StoreTypeOK, Manifest
<1>1. CASE manifest'.entries \subseteq manifest.entries
  <2>1. ASSUME NEW p \in Pushers, PushWrites(p)
        PROVE  manifest.entries \subseteq manifest'.entries
    BY <1>0, <2>1
       DEF PushWrites, Replaces, PushCandidate, ApplyPushes, Manifest
  <2>2. ASSUME NEW a \in Admins, AdminWrites(a)
        PROVE  manifest'.entries = manifest.entries
    BY <2>2, AdminKeepsLog
  <2>3. ASSUME NEW c \in Compactors, CompactWrites(c)
        PROVE  \E e \in manifest'.entries : e.seq > manifest.seq
    <3> DEFINE new == [seq |-> manifest.seq + 1, pack |-> BasePack(snap[c])]
    <3>1. manifest'.entries = {new}
      BY <1>0, <2>3
         DEF CompactWrites, Replaces, CompactCandidate, ApplyCompaction, Manifest
    <3>2. new.seq > manifest.seq
      BY <1>0
    <3> QED
      BY <3>1, <3>2
  <2>4. ASSUME UpgradeFormat PROVE manifest'.entries = manifest.entries
    BY <1>0, <2>4 DEF UpgradeFormat, Manifest
  <2> QED
    BY <1>1, <2>1, <2>2, <2>3, <2>4, ManifestSteps
<1> QED
  BY <1>1, LogSteps

-----------------------------------------------------------------------------
(***************************************************************************)
(* The refinement: seen through git, a push is one step.                   *)
(***************************************************************************)

\* What the mutator accepts is authorised by the manifest it replaces.
LEMMA AcceptedAuthorised ==
    ASSUME TypeInv, NEW p \in Pushers, NEW i \in Accepted(p, manifest)
    PROVE  Linear!Authorised(batch[p][i])
<1> DEFINE cmd == batch[p][i]
           old == manifest.refs[cmd.ref]
<1>1. ~Rejected(manifest, cmd)
  BY DEF Accepted
<1>2. batch[p] \in Batches /\ i \in 1 .. Len(batch[p])
  BY DEF TypeInv, TypeOK, PushTypeOK, Accepted, Pending, Cmds
<1>3. old # NoLease
  <2>1. cmd.ref \in Ref
    BY <1>2, BatchFacts
  <2> QED
    BY <2>1, NoneAssumption DEF TypeInv, TypeOK, StoreTypeOK, Manifest
<1> HIDE DEF cmd
<1>4. Linear!LeaseHeld(cmd)
  BY <1>1 DEF Rejected, LeaseViolated, Linear!LeaseHeld
<1>5. cmd.sha = None => old # None
  BY <1>1 DEF Rejected
<1>6. ASSUME cmd.sha # None, old # None, old \notin Reach[cmd.sha]
      PROVE  Linear!MayRewrite(cmd)
  <2>1. ~NonFastForwardRefused(manifest, cmd)
    BY <1>1, <1>6 DEF Rejected, IsAncestor
  <2>2. (cmd.force \/ cmd.lease = old) /\ cmd.ref \notin manifest.protected
    BY <2>1, Zenon DEF NonFastForwardRefused
  <2> QED
    BY <1>3, <2>2, Zenon DEF Linear!MayRewrite
<1>7. Linear!Authorised(cmd)
  BY <1>4, <1>5, <1>6 DEF Linear!Authorised, Linear!FastForward
<1> QED
  BY <1>7 DEF cmd

\* The write of a push is a step of the abstract repository.
LEMMA PushPublishes ==
    ASSUME TypeInv, NEW p \in Pushers, PushWrites(p)
    PROVE  Linear!Publish(batch[p], Accepted(p, manifest))
<1> DEFINE b == batch[p]
           acc == Accepted(p, manifest)
           pushed == {i \in acc : b[i].sha # None}
<1>1. /\ b \in Batches
      /\ acc \subseteq 1 .. Len(b)
      /\ pack[p] \in [1 .. Len(b) -> Pack]
      /\ manifest \in Manifest
      /\ acc # {}
  BY DEF TypeInv, TypeOK, StoreTypeOK, PushTypeOK, Accepted, Pending, Cmds,
         PushWrites
<1>2. manifest' = ApplyPushes(manifest, b, pack[p], acc)
  BY DEF PushWrites, Replaces, PushCandidate
<1>3. /\ manifest'.refs = UpdatedRefs(manifest, b, acc)
      /\ manifest'.head = UpdatedHead(manifest, b, acc)
      /\ manifest'.protected =
           manifest.protected \ {b[i].ref : i \in Deletions(b, acc)}
  BY <1>1, <1>2 DEF ApplyPushes, Manifest
<1>4. \A i \in acc : Linear!Authorised(b[i])
  BY AcceptedAuthorised
<1>5. manifest'.refs \in [Ref -> Commit \cup {None}]
  <2>1. manifest' \in Manifest
    BY <1>1, <1>2, ApplyPushesType
  <2> QED
    BY <2>1 DEF Manifest
<1>6. /\ \A i \in acc : manifest'.refs[b[i].ref] = b[i].sha
      /\ \A r \in Ref : (\A i \in acc : b[i].ref # r) =>
                            manifest'.refs[r] = manifest.refs[r]
  BY <1>1, <1>3, UpdatedRefsValue
<1>7. manifest'.protected =
         manifest.protected \ {b[i].ref : i \in acc \ pushed}
  <2>1. Deletions(b, acc) = acc \ pushed
    BY DEF Deletions
  <2> QED
    BY <1>3, <2>1
<1>8. IF manifest.head = None /\ pushed # {}
      THEN \E i \in pushed : /\ \A j \in pushed : i <= j
                             /\ manifest'.head = b[i].ref
      ELSE manifest'.head = manifest.head
  <2>1. pushed = Updates(b, acc)
    BY DEF Updates
  <2>2. pushed # {} => /\ First(pushed) \in pushed
                       /\ \A j \in pushed : First(pushed) <= j
    BY <1>1, BatchFacts, FirstIsLeast
  <2> QED
    BY <1>3, <2>1, <2>2 DEF UpdatedHead
<1> QED
  BY <1>1, <1>4, <1>5, <1>6, <1>7, <1>8 DEF Linear!Publish

\* So is the write of an operator command.
LEMMA AdminOperates ==
    ASSUME TypeInv, NEW a \in Admins, AdminWrites(a)
    PROVE  Linear!Operate(task[a])
<1>1. /\ manifest \in Manifest
      /\ task[a].op \in Op
      /\ task[a].ref \in Ref
  BY AdminOpsAssumption DEF TypeInv, TypeOK, StoreTypeOK, ManageTypeOK
<1>2. /\ manifest' = AdminCandidate(a)
      /\ base[a] = manifest
      /\ ~HeadRejected(a)
  BY DEF AdminWrites, Replaces
<1>3. CASE task[a].op = "delete"
  <2>1. manifest' = ApplyDelete(manifest, task[a].ref)
    BY <1>2, <1>3 DEF AdminCandidate
  <2> QED
    BY <1>1, <1>3, <2>1
       DEF ApplyDelete, Manifest, Linear!Operate, Linear!DeleteBranch
<1>4. CASE task[a].op = "protect"
  <2>1. manifest' = ApplyProtect(manifest, task[a].ref)
    BY <1>2, <1>4 DEF AdminCandidate
  <2> QED
    BY <1>1, <1>4, <2>1
       DEF ApplyProtect, Manifest, Linear!Operate, Linear!Protect
<1>5. CASE task[a].op = "unprotect"
  <2>1. manifest' = ApplyUnprotect(manifest, task[a].ref)
    BY <1>2, <1>5 DEF AdminCandidate
  <2> QED
    BY <1>1, <1>5, <2>1
       DEF ApplyUnprotect, Manifest, Linear!Operate, Linear!Unprotect
<1>6. CASE task[a].op = "head"
  <2>1. manifest' = SetHead(manifest, task[a].ref)
    BY <1>2, <1>6 DEF AdminCandidate
  <2>2. manifest.refs[task[a].ref] # None
    BY <1>1, <1>2, <1>6 DEF HeadRejected, LiveRefs
  <2> QED
    BY <1>1, <1>6, <2>1, <2>2
       DEF SetHead, Manifest, Linear!Operate, Linear!SetDefault
<1> QED
  BY <1>1, <1>3, <1>4, <1>5, <1>6 DEF Op

\* Every step is a step of the abstract repository, or none.
LEMMA NextRefines ==
    ASSUME TypeInv, [Next]_vars
    PROVE  [Linear!Next]_(Linear!vars)
<1>1. ASSUME NEW p \in Pushers, PushWrites(p) PROVE Linear!Next
  <2>1. batch[p] \in Batches /\ Accepted(p, manifest) \in SUBSET (1 .. Len(batch[p]))
    BY DEF TypeInv, TypeOK, PushTypeOK, Accepted, Pending, Cmds
  <2> QED
    BY <1>1, <2>1, PushPublishes DEF Linear!Next
<1>2. ASSUME NEW a \in Admins, AdminWrites(a) PROVE Linear!Next
  BY <1>2, AdminOperates DEF Linear!Next, TypeInv, TypeOK, ManageTypeOK
<1>3. manifest \in Manifest
  BY DEF TypeInv, TypeOK, StoreTypeOK
<1>4. ASSUME NEW c \in Compactors, CompactWrites(c) PROVE UNCHANGED Linear!vars
  BY <1>3, <1>4 DEF CompactWrites, Replaces, CompactCandidate,
                    ApplyCompaction, Manifest, Linear!vars
<1>5. ASSUME UpgradeFormat PROVE UNCHANGED Linear!vars
  BY <1>3, <1>5 DEF UpgradeFormat, Manifest, Linear!vars
<1>6. ASSUME UNCHANGED manifest PROVE UNCHANGED Linear!vars
  BY <1>6 DEF Linear!vars
<1> QED
  BY <1>1, <1>2, <1>4, <1>5, <1>6, ManifestSteps

\* Pushes and operator commands are atomic and each is authorised by the state
\* it replaces, whatever packs, retries, lost replies and compactions go on.
THEOREM RepoIsLinear == Spec => ImplementsLinearRepo
<1>1. TypeInv => Linear!Init
  BY DEF TypeInv, TypeOK, StoreTypeOK, Manifest, Linear!Init
<1>2. TypeInv /\ [Next]_vars => [Linear!Next]_(Linear!vars)
  BY NextRefines
<1>3. Spec => Linear!Spec
  BY <1>1, <1>2, InitTypes, NextTypes, PTL DEF Spec, Linear!Spec
<1> QED
  BY <1>3 DEF ImplementsLinearRepo
-----------------------------------------------------------------------------
(***************************************************************************)
(* A client's locals: only its own steps touch them.                       *)
(***************************************************************************)
Stays(d) ==
    /\ pc'[d] = pc[d] /\ snap'[d] = snap[d] /\ base'[d] = base[d]
    /\ d \in Pushers =>
         /\ batch'[d] = batch[d] /\ cursor'[d] = cursor[d] /\ pack'[d] = pack[d]
         /\ result'[d] = result[d] /\ outcome'[d] = outcome[d]
         /\ landed'[d] = landed[d]
    /\ d \in Compactors =>
         /\ superseded'[d] = superseded[d] /\ todo'[d] = todo[d]
         /\ doomed'[d] = doomed[d]

StoreOfOthers(c) ==
    \A d \in Client \ {c} :
        pc'[d] = pc[d] /\ snap'[d] = snap[d] /\ base'[d] = base[d]

\* What the pieces of an update touch of the other clients: nothing.
LEMMA UpdateFrame ==
    ASSUME TypeInv, NEW c \in Client,
           \/ LoadManifest(c)
           \/ \E candidate : PutRefused(c, candidate)
           \/ \E label : EndUpdate(c, label)
    PROVE  StoreOfOthers(c)
<1> USE DEF TypeInv, TypeOK, StoreTypeOK, StoreOfOthers, Goto
<1>1. CASE LoadManifest(c)
  BY <1>1 DEF LoadManifest
<1>2. CASE \E candidate : PutRefused(c, candidate)
  BY <1>2 DEF PutRefused
<1>3. CASE \E label : EndUpdate(c, label)
  BY <1>3 DEF EndUpdate
<1> QED
  BY <1>1, <1>2, <1>3

\* A push's step touches its own locals only.
LEMMA PushFrame ==
    ASSUME TypeInv, NEW p \in Pushers, PusherStep(p), NEW d \in Client \ {p}
    PROVE  Stays(d)
<1>0. /\ p \in Client /\ d # p
      /\ pc \in [Client -> PusherPC \cup AdminPC \cup CompactorPC]
      /\ snap \in [Client -> Manifest]
      /\ DOMAIN cursor = Pushers /\ DOMAIN pack = Pushers
      /\ DOMAIN result = Pushers /\ DOMAIN outcome = Pushers
      /\ DOMAIN landed = Pushers
  BY DEF Client, TypeInv, TypeOK, StoreTypeOK, PushTypeOK
<1>1. PushStep(p) /\ UNCHANGED compactVars
  BY DEF PusherStep
<1> DEFINE Kept == d \in Pushers =>
         /\ batch'[d] = batch[d] /\ cursor'[d] = cursor[d] /\ pack'[d] = pack[d]
         /\ result'[d] = result[d] /\ outcome'[d] = outcome[d]
         /\ landed'[d] = landed[d]
<1>2. CASE StartPush(p)
  BY <1>0, <1>1, <1>2 DEF StartPush, Goto, pushVars, compactVars, Stays
<1>3. CASE PrepareDelete(p) \/ PrepareRefused(p) \/ PreparePack(p) \/ PrepareFails(p)
  <2>1. PICK res : NextCommand(p, res)
    BY <1>3 DEF PrepareDelete, PrepareRefused, PreparePack, PrepareFails
  <2>2. UNCHANGED pack \/ \E pk : pack' = [pack EXCEPT ![p][cursor[p]] = pk]
    BY <1>3 DEF PrepareDelete, PrepareRefused, PreparePack, PrepareFails
  <2>3. pc'[d] = pc[d] /\ snap'[d] = snap[d] /\ base'[d] = base[d]
    BY <1>0, <2>1 DEF NextCommand, Goto
  <2>4. Kept
    <3>1. /\ cursor' = [cursor EXCEPT ![p] = @ + 1]
          /\ result' = [result EXCEPT ![p] = res]
          /\ UNCHANGED <<batch, outcome, landed>>
      BY <2>1 DEF NextCommand
    <3>2. d \in Pushers => pack'[d] = pack[d]
      BY <1>0, <2>2
    <3> QED
      BY <1>0, <3>1, <3>2
  <2> QED
    BY <1>1, <2>3, <2>4 DEF Stays, compactVars
<1>4. CASE PushLoad(p) \/ PushRefused(p)
  <2>1. StoreOfOthers(p)
    BY <1>0, <1>4, UpdateFrame DEF PushLoad, PushRefused
  <2>2. Kept
    BY <1>0, <1>4 DEF PushLoad, PushRefused, Landing, pushVars
  <2> QED
    BY <1>1, <2>1, <2>2 DEF Stays, StoreOfOthers, compactVars
<1>5. CASE PushCommitted(p) \/ PushExhausted(p) \/ PushRaised(p) \/ PushRejected(p)
  <2>1. /\ EndUpdate(p, "done")
        /\ UNCHANGED <<batch, cursor, pack>>
        /\ \E how, done : Report(p, how, done)
        /\ Landing(p) \/ UNCHANGED landed
    BY <1>5 DEF PushCommitted, PushExhausted, PushRaised, PushRejected,
                PutCommitted, PutExhausted, PutRaised, UpdateRaised,
                MutatorRejects
  <2>2. StoreOfOthers(p)
    BY <1>0, <2>1, UpdateFrame
  <2>3. Kept
    BY <1>0, <2>1 DEF Report, Landing
  <2> QED
    BY <1>1, <2>2, <2>3 DEF Stays, StoreOfOthers, compactVars
<1> QED
  BY <1>1, <1>2, <1>3, <1>4, <1>5 DEF PushStep

\* So does an operator command's.
LEMMA AdminFrame ==
    ASSUME TypeInv, NEW a \in Admins, OperatorStep(a), NEW d \in Client \ {a}
    PROVE  Stays(d)
<1>0. /\ a \in Client /\ d # a
      /\ pc \in [Client -> PusherPC \cup AdminPC \cup CompactorPC]
      /\ AdminStep(a)
      /\ UNCHANGED <<pushVars, compactVars>>
  BY DEF Client, TypeInv, TypeOK, StoreTypeOK, OperatorStep
<1>1. CASE StartAdmin(a) \/ AbortDelete(a)
  BY <1>0, <1>1 DEF StartAdmin, AbortDelete, Goto, StoreOfOthers, Stays,
                    pushVars, compactVars
<1>2. CASE ~ (StartAdmin(a) \/ AbortDelete(a))
  <2>1. \/ LoadManifest(a)
        \/ \E candidate : PutRefused(a, candidate)
        \/ \E label : EndUpdate(a, label)
    BY <1>0, <1>2 DEF AdminStep, AdminLoad, AdminRefused, AdminCommitted,
                      AdminFailed, AdminRejected, PutCommitted, PutExhausted,
                      PutRaised, UpdateRaised, MutatorRejects
  <2> QED
    BY <1>0, <2>1, UpdateFrame DEF StoreOfOthers, Stays, pushVars, compactVars
<1> QED
  BY <1>1, <1>2

\* So does a compaction's.
LEMMA CompactFrame ==
    ASSUME TypeInv, NEW c \in Compactors, CompactorStep(c), NEW d \in Client \ {c}
    PROVE  Stays(d)
<1>0. /\ c \in Client /\ d # c
      /\ pc \in [Client -> PusherPC \cup AdminPC \cup CompactorPC]
      /\ snap \in [Client -> Manifest]
      /\ DOMAIN superseded = Compactors /\ DOMAIN todo = Compactors
      /\ DOMAIN doomed = Compactors
      /\ CompactStep(c)
      /\ UNCHANGED pushVars
  BY DEF Client, TypeInv, TypeOK, StoreTypeOK, CompactTypeOK, CompactorStep
<1>1. StoreOfOthers(c)
  <2>1. CASE StartCompact(c) \/ UploadBase(c) \/ UploadBaseFails(c)
    BY <1>0, <2>1 DEF StartCompact, UploadBase, UploadBaseFails, Goto,
                      StoreOfOthers
  <2>2. CASE \/ CompactLoad(c) \/ CompactCommitted(c) \/ CompactRefused(c)
             \/ CompactFailed(c) \/ CompactRejected(c)
    <3>1. \/ LoadManifest(c)
          \/ \E candidate : PutRefused(c, candidate)
          \/ \E label : EndUpdate(c, label)
      BY <2>2 DEF CompactLoad, CompactCommitted, CompactRefused, CompactFailed,
                  CompactRejected, PutCommitted, PutExhausted, PutRaised,
                  UpdateRaised, MutatorRejects
    <3> QED
      BY <1>0, <3>1, UpdateFrame
  <2>3. CASE DeleteSuperseded(c) \/ StatPack(c) \/ ReapOrphan(c)
    BY <2>3 DEF DeleteSuperseded, StatPack, ReapOrphan, casVars, StoreOfOthers
  <2>4. CASE ListPacks(c) \/ RereadManifest(c) \/ EndSweep(c)
    BY <1>0, <2>4 DEF ListPacks, RereadManifest, EndSweep, Goto, StoreOfOthers
  <2> QED
    BY <1>0, <2>1, <2>2, <2>3, <2>4 DEF CompactStep
<1>2. /\ superseded' = superseded
         \/ \E S : superseded' = [superseded EXCEPT ![c] = S]
      /\ todo' = todo \/ \E S : todo' = [todo EXCEPT ![c] = S]
      /\ doomed' = doomed \/ \E S : doomed' = [doomed EXCEPT ![c] = S]
  <2>1. CASE \/ StartCompact(c) \/ UploadBase(c) \/ UploadBaseFails(c)
             \/ CompactLoad(c) \/ CompactRefused(c) \/ CompactFailed(c)
             \/ CompactRejected(c)
    BY <2>1 DEF StartCompact, UploadBase, UploadBaseFails, CompactLoad,
                CompactRefused, CompactFailed, CompactRejected, compactVars
  <2>2. CASE \/ CompactCommitted(c) \/ ListPacks(c) \/ RereadManifest(c)
             \/ EndSweep(c)
    BY <2>2 DEF CompactCommitted, ListPacks, RereadManifest, EndSweep
  <2>3. CASE DeleteSuperseded(c) \/ StatPack(c) \/ ReapOrphan(c)
    BY <2>3 DEF DeleteSuperseded, StatPack, ReapOrphan
  <2> QED
    BY <1>0, <2>1, <2>2, <2>3 DEF CompactStep
<1>3. d \in Compactors => /\ superseded'[d] = superseded[d] /\ todo'[d] = todo[d]
                          /\ doomed'[d] = doomed[d]
  BY <1>0, <1>2
<1> QED
  BY <1>0, <1>1, <1>3 DEF Stays, StoreOfOthers, pushVars

\* A step is a client's own, or leaves its locals as they are.
LEMMA StepsAreOwn ==
    ASSUME TypeInv, [Next]_vars, NEW d \in Client
    PROVE  \/ d \in Pushers /\ PusherStep(d)
           \/ d \in Admins /\ OperatorStep(d)
           \/ d \in Compactors /\ CompactorStep(d)
           \/ Stays(d)
<1>1. CASE \/ \E pk \in young : OutliveGrace(pk)
           \/ UpgradeFormat
           \/ UNCHANGED vars
  BY <1>1 DEF OutliveGrace, UpgradeFormat, vars, storeVars, casVars, pushVars,
              compactVars, Stays
<1>2. ASSUME NEW p \in Pushers, PusherStep(p), p # d PROVE Stays(d)
  BY <1>2, PushFrame
<1>3. ASSUME NEW a \in Admins, OperatorStep(a), a # d PROVE Stays(d)
  BY <1>3, AdminFrame
<1>4. ASSUME NEW c \in Compactors, CompactorStep(c), c # d PROVE Stays(d)
  BY <1>4, CompactFrame
<1> QED
  BY <1>1, <1>2, <1>3, <1>4 DEF Next, Quiescent
=============================================================================
