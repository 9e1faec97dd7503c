---------------------------- MODULE ResolveProofs ----------------------------
(***************************************************************************)
(* No race loses an object: every ref of every reachable manifest has its  *)
(* whole history in the packs the log names.  A push decides what to leave *)
(* out of its pack from a manifest that is stale by the time it commits.   *)
(* That is harmless as long as what it left out stays in the log, and what *)
(* could take it away is a compaction that no longer finds it in any ref.  *)
(* The run delete_under_push has a push, a deletion and a compaction do    *)
(* that; the theorem is that it takes all three of them.                   *)
(***************************************************************************)
EXTENDS ReportProofs

\* No push works while one client compacts and another may rewrite a ref.
NeverAllThree ==
    \/ Pushers = {}
    \/ Compactors = {}
    \/ \A r \in Ref : ~MayBeRewritten(r)

Objects(m) == UNION Named(m)

\* What later manifests keep of the objects of m: all that its log has where
\* nobody compacts, else all that its refs reach.
Lasting(m) == IF Compactors = {} THEN Objects(m) ELSE BasePack(m)

\* What push p knows, and what of it stays true while others commit: the
\* commands it has prepared lack nothing that lasts.
PushResolved(p) ==
    /\ BasePack(snap[p]) \subseteq Lasting(manifest)
    /\ pc[p] \in {"load", "put"} => cursor[p] = Len(batch[p]) + 1
    /\ \A i \in Cmds(p) :
         i < cursor[p] /\ result[p][i] = "pending" /\ batch[p][i].sha # None
           => Reach[batch[p][i].sha] \subseteq pack[p][i] \cup Lasting(manifest)

ResolveInv ==
    /\ NeverAllThree
    /\ Complete(manifest)
    /\ \A p \in Pushers : PushResolved(p)

-----------------------------------------------------------------------------
\* A pack built against m holds all of sha's history that m's refs lack.
LEMMA PackCompletes ==
    ASSUME TypeInv, NEW p \in Pushers, p \notin Shallow, NEW m,
           NEW sha \in Holds[p]
    PROVE  Reach[sha] \subseteq PackObjects(p, m, sha) \cup BasePack(m)
<1>1. Reach[sha] \subseteq Holds[p]
  BY HoldsAssumption DEF Client
<1> QED
  BY <1>1 DEF PackObjects, BasePack

\* The accepted packs are named by the manifest they are folded into, and what
\* it named stays named.
LEMMA ApplyPushesNames ==
    ASSUME NEW m \in Manifest, NEW b \in Batches, NEW pk,
           NEW acc, acc \subseteq 1 .. Len(b)
    PROVE  LET n == ApplyPushes(m, b, pk, acc) IN
           /\ Named(m) \subseteq Named(n)
           /\ \A i \in acc : pk[i] # {} => pk[i] \in Named(n)
<1> DEFINE n == ApplyPushes(m, b, pk, acc)
           fresh == Fresh(m, pk, acc)
<1>1. n.entries = m.entries \cup {[seq |-> m.seq + Rank(i, fresh),
                                   pack |-> pk[i]] : i \in fresh}
  BY DEF ApplyPushes, Manifest
<1>2. Named(m) \subseteq Named(n)
  BY <1>1 DEF Named
<1>3. ASSUME NEW i \in fresh PROVE pk[i] \in Named(n)
  <2> DEFINE e == [seq |-> m.seq + Rank(i, fresh), pack |-> pk[i]]
  <2>1. e \in n.entries /\ e.pack = pk[i]
    BY <1>1
  <2> QED
    BY <2>1 DEF Named
<1>4. ASSUME NEW i \in acc, pk[i] # {}, pk[i] \notin Named(m)
      PROVE  \E j \in fresh : pk[j] = pk[i]
  <2> DEFINE same == {j \in acc : pk[j] = pk[i]}
  <2>1. same \subseteq 1 .. Len(b) /\ i \in same /\ Len(b) \in Nat
    BY BatchFacts
  <2>2. PICK k \in same : \A j \in same : k <= j
    <3> HIDE DEF same
    <3> QED
      BY <2>1, FirstIsLeast
  <2>3. \A j \in acc : j < k => pk[j] # pk[k]
    <3>1. \A j \in acc : j \in Int
      BY <2>1
    <3>2. \A j \in acc : j < k => ~ (k <= j)
      BY <3>1
    <3>3. \A j \in acc : j < k => j \notin same
      BY <2>2, <3>2
    <3> QED
      BY <3>3
  <2> QED
    BY <1>4, <2>3 DEF Fresh
<1> HIDE DEF n, fresh
<1>5. \A i \in acc : pk[i] # {} => pk[i] \in Named(n)
  BY <1>2, <1>3, <1>4
<1> QED
  BY <1>2, <1>5 DEF n

\* Without a compaction the log only grows.
LEMMA NamesGrow ==
    ASSUME Compactors = {}, TypeInv, [Next]_vars
    PROVE  Named(manifest) \subseteq Named(manifest')
<1>0. manifest \in Manifest
  BY DEF TypeInv, TypeOK, StoreTypeOK
<1>1. ASSUME NEW p \in Pushers, PushWrites(p)
      PROVE  Named(manifest) \subseteq Named(manifest')
  <2>1. batch[p] \in Batches /\ Accepted(p, manifest) \subseteq 1 .. Len(batch[p])
    BY DEF TypeInv, TypeOK, PushTypeOK, Accepted, Pending, Cmds
  <2> QED
    BY <1>0, <1>1, <2>1, ApplyPushesNames DEF PushWrites, Replaces, PushCandidate
<1>2. ASSUME NEW a \in Admins, AdminWrites(a)
      PROVE  manifest'.entries = manifest.entries
  <2>1. task[a].op \in Op
    BY AdminOpsAssumption DEF TypeInv, TypeOK, ManageTypeOK
  <2>2. \/ manifest' = ApplyDelete(manifest, task[a].ref)
        \/ manifest' = ApplyProtect(manifest, task[a].ref)
        \/ manifest' = ApplyUnprotect(manifest, task[a].ref)
        \/ manifest' = SetHead(manifest, task[a].ref)
    BY <1>2, <2>1 DEF AdminWrites, Replaces, AdminCandidate, Op
  <2> QED
    BY <1>0, <2>2
       DEF Manifest, ApplyDelete, ApplyProtect, ApplyUnprotect, SetHead
<1>3. ASSUME UpgradeFormat PROVE manifest'.entries = manifest.entries
  BY <1>0, <1>3 DEF UpgradeFormat, Manifest
<1> QED
  BY <1>1, <1>2, <1>3, ManifestSteps DEF Named

\* Where nobody rewrites a ref, what the refs reach only grows.
LEMMA BaseGrows ==
    ASSUME \A r \in Ref : ~MayBeRewritten(r), TypeInv, [Next]_vars
    PROVE  BasePack(manifest) \subseteq BasePack(manifest')
<1>1. manifest \in Manifest /\ manifest' \in Manifest
  BY NextTypes DEF TypeInv, TypeOK, StoreTypeOK
<1>2. ASSUME NEW r \in Ref, manifest.refs[r] # None
      PROVE  Reach[manifest.refs[r]] \subseteq BasePack(manifest')
  <2>1. /\ manifest'.refs[r] # None
        /\ IsAncestor(manifest.refs[r], manifest'.refs[r])
    BY <1>2, PlainRefsAdvance
  <2>2. manifest'.refs[r] \in Commit
    BY <1>1, <2>1 DEF Manifest
  <2>3. Reach[manifest.refs[r]] \subseteq Reach[manifest'.refs[r]]
    BY <2>1, <2>2, ReachAssumption DEF IsAncestor
  <2> QED
    BY <2>1, <2>3 DEF BasePack, Tips, LiveRefs
<1> QED
  BY <1>2 DEF BasePack, Tips, LiveRefs

\* So what lasts only grows, where a push depends on it.
LEMMA LastingGrows ==
    ASSUME NeverAllThree, Pushers # {}, TypeInv, [Next]_vars
    PROVE  Lasting(manifest) \subseteq Lasting(manifest')
BY NamesGrow, BaseGrows DEF NeverAllThree, Lasting, Objects

\* What lasts is in the log, and all that a push may leave out lasts.
LEMMA LastingInLog ==
    ASSUME NEW m, Complete(m)
    PROVE  BasePack(m) \subseteq Lasting(m) /\ Lasting(m) \subseteq Objects(m)
BY DEF Complete, BasePack, Lasting, Objects

-----------------------------------------------------------------------------
\* A manifest without refs leaves nothing out.
LEMMA EmptyBase == BasePack(EmptyManifest) = {}
BY DEF EmptyManifest, BasePack, Tips, LiveRefs

\* A manifest whose refs are among m's, and whose log is m's, is as complete.
LEMMA FewerTipsComplete ==
    ASSUME NEW m, NEW n, Complete(m), Named(m) \subseteq Named(n),
           \A r \in Ref : n.refs[r] = None \/ n.refs[r] = m.refs[r]
    PROVE  Complete(n)
BY DEF Complete, Tips, LiveRefs

\* Every write leaves the refs with their history.
LEMMA WritesResolve ==
    ASSUME TypeInv, ResolveInv, [Next]_vars
    PROVE  Complete(manifest')
<1>0. /\ manifest \in Manifest
      /\ Complete(manifest)
  BY DEF TypeInv, TypeOK, StoreTypeOK, ResolveInv
<1>1. ASSUME NEW p \in Pushers, PushWrites(p) PROVE Complete(manifest')
  <2> DEFINE b == batch[p]
             acc == Accepted(p, manifest)
  <2>1. /\ b \in Batches
        /\ acc \subseteq 1 .. Len(b)
        /\ Len(b) \in Nat
        /\ \A i \in acc : result[p][i] = "pending"
        /\ manifest' = ApplyPushes(manifest, b, pack[p], acc)
    BY <1>1, BatchFacts
       DEF TypeInv, TypeOK, PushTypeOK, Accepted, Pending, Cmds,
           PushWrites, Replaces, PushCandidate
  <2>2. cursor[p] = Len(b) + 1
    BY <1>1 DEF PushWrites, Replaces, ResolveInv, PushResolved
  <2>3. \A i \in acc : b[i].sha # None =>
           Reach[b[i].sha] \subseteq pack[p][i] \cup Objects(manifest)
    <3>1. Lasting(manifest) \subseteq Objects(manifest)
      BY <1>0, LastingInLog
    <3> QED
      BY <2>1, <2>2, <3>1 DEF ResolveInv, PushResolved, Cmds
  <2>4. \A i \in acc : pack[p][i] \subseteq Objects(manifest')
    BY <1>0, <2>1, ApplyPushesNames DEF Objects
  <2>5. Objects(manifest) \subseteq Objects(manifest')
    BY <1>0, <2>1, ApplyPushesNames DEF Objects
  <2>6. manifest'.refs = UpdatedRefs(manifest, b, acc)
    BY <1>0, <2>1 DEF ApplyPushes, Manifest
  <2>7. ASSUME NEW r \in Ref, manifest'.refs[r] # None
        PROVE  Reach[manifest'.refs[r]] \subseteq Objects(manifest')
    <3>1. CASE \E i \in acc : b[i].ref = r
      <4>1. PICK i \in acc : b[i].ref = r
        BY <3>1
      <4>2. manifest'.refs[r] = b[i].sha
        BY <1>0, <2>1, <2>6, <4>1, UpdatedRefsValue
      <4> QED
        BY <2>3, <2>4, <2>5, <2>7, <4>2
    <3>2. CASE \A i \in acc : b[i].ref # r
      <4>1. manifest'.refs[r] = manifest.refs[r]
        BY <1>0, <2>1, <2>6, <3>2, UpdatedRefsValue
      <4>2. Reach[manifest.refs[r]] \subseteq Objects(manifest)
        BY <1>0, <2>7, <4>1 DEF Complete, Tips, LiveRefs, Objects
      <4> QED
        BY <2>5, <4>1, <4>2
    <3> QED
      BY <3>1, <3>2
  <2> QED
    BY <2>7 DEF Complete, Tips, LiveRefs, Objects
<1>2. ASSUME NEW a \in Admins, AdminWrites(a) PROVE Complete(manifest')
  <2>1. task[a].op \in Op /\ task[a].ref \in Ref
    BY AdminOpsAssumption DEF TypeInv, TypeOK, ManageTypeOK
  <2>2. \/ manifest' = ApplyDelete(manifest, task[a].ref)
        \/ manifest' = ApplyProtect(manifest, task[a].ref)
        \/ manifest' = ApplyUnprotect(manifest, task[a].ref)
        \/ manifest' = SetHead(manifest, task[a].ref)
    BY <1>2, <2>1 DEF AdminWrites, Replaces, AdminCandidate, Op
  <2>3. /\ manifest'.entries = manifest.entries
        /\ \A r \in Ref : \/ manifest'.refs[r] = None
                          \/ manifest'.refs[r] = manifest.refs[r]
    BY <1>0, <2>1, <2>2
       DEF Manifest, ApplyDelete, ApplyProtect, ApplyUnprotect, SetHead
  <2> QED
    BY <1>0, <2>3, FewerTipsComplete DEF Named
<1>3. ASSUME UpgradeFormat PROVE Complete(manifest')
  <2>1. manifest'.refs = manifest.refs /\ manifest'.entries = manifest.entries
    BY <1>0, <1>3 DEF UpgradeFormat, Manifest
  <2> QED
    BY <1>0, <2>1, FewerTipsComplete DEF Named
<1>4. ASSUME NEW c \in Compactors, CompactWrites(c) PROVE Complete(manifest')
  <2>1. /\ manifest' = ApplyCompaction(manifest, BasePack(snap[c]))
        /\ snap[c].refs = manifest.refs
    BY <1>4 DEF CompactWrites, Replaces, CompactCandidate, FingerprintMoved,
                Fingerprint
  <2>2. /\ manifest'.refs = manifest.refs
        /\ manifest'.entries = {[seq  |-> manifest.seq + 1,
                                 pack |-> BasePack(snap[c])]}
    BY <1>0, <2>1 DEF ApplyCompaction, Manifest
  <2>3. Tips(manifest') = Tips(snap[c]) /\ Named(manifest') = {BasePack(snap[c])}
    BY <2>1, <2>2 DEF Tips, LiveRefs, Named
  <2> QED
    BY <2>3 DEF Complete, BasePack
<1> QED
  BY <1>0, <1>1, <1>2, <1>3, <1>4, ManifestSteps

\* A push that does not move keeps what it knows: what lasts only grows.
LEMMA OthersResolved ==
    ASSUME NEW q \in Pushers, PushResolved(q),
           Lasting(manifest) \subseteq Lasting(manifest'),
           batch'[q] = batch[q], pc'[q] = pc[q], snap'[q] = snap[q],
           cursor'[q] = cursor[q], result'[q] = result[q], pack'[q] = pack[q]
    PROVE  PushResolved(q)'
<1>1. Lasting(manifest)' = Lasting(manifest')
  BY DEF Lasting, Objects, Named, BasePack, Tips, LiveRefs
<1> QED
  BY <1>1 DEF PushResolved, Cmds

\* So does one that moves within its update, or ends it.
LEMMA UpdatingResolved ==
    ASSUME NEW p \in Pushers, PushResolved(p),
           Lasting(manifest) \subseteq Lasting(manifest'),
           UNCHANGED <<batch, cursor, pack>>,
           \/ snap'[p] = EmptyManifest
           \/ snap'[p] = snap[p]
           \/ snap'[p] = manifest /\ Complete(manifest),
           pc'[p] \in {"load", "put"} => pc[p] \in {"load", "put"},
           \A i \in Cmds(p) : result'[p][i] = "pending" => result[p][i] = "pending"
    PROVE  PushResolved(p)'
<1>1. BasePack(snap'[p]) \subseteq Lasting(manifest')
  BY EmptyBase, LastingInLog DEF PushResolved
<1> QED
  BY <1>1 DEF PushResolved, Cmds

\* So does one that leaves a command behind whose pack completes it, or that
\* has failed.
LEMMA PreparedResolved ==
    ASSUME TypeInv, NEW p \in Pushers, PushResolved(p), pc[p] = "prepare",
           NEW res \in {result[p], Fails(p)}, NextCommand(p, res),
           \A i \in Cmds(p) \ {cursor[p]} : pack'[p][i] = pack[p][i],
           res[cursor[p]] = "pending" /\ Current(p).sha # None =>
               Reach[Current(p).sha]
                   \subseteq pack'[p][cursor[p]] \cup Lasting(manifest)
    PROVE  PushResolved(p)'
<1>1. /\ Len(batch[p]) \in Nat
      /\ cursor[p] \in 1 .. Len(batch[p])
      /\ result[p] \in [Cmds(p) -> Result]
  BY BatchFacts DEF TypeInv, TypeOK, PushTypeOK
<1>2. /\ manifest' = manifest
      /\ batch' = batch
      /\ cursor'[p] = cursor[p] + 1
      /\ result'[p] = res
      /\ snap'[p] = snap[p] \/ snap'[p] = EmptyManifest
      /\ pc'[p] \in {"load", "put"} => cursor[p] = Len(batch[p])
  <2>1. p \in Client
    BY DEF Client
  <2>2. /\ manifest' = manifest /\ batch' = batch
        /\ cursor'[p] = cursor[p] + 1 /\ result'[p] = res
    BY DEF NextCommand, TypeInv, TypeOK, PushTypeOK
  <2>3. /\ snap'[p] = snap[p] \/ snap'[p] = EmptyManifest
        /\ pc'[p] \in {"load", "put"} => ~ (cursor[p] < Len(batch[p]))
    BY <2>1 DEF NextCommand, TypeInv, TypeOK, StoreTypeOK
  <2> QED
    BY <1>1, <2>2, <2>3
<1>3. BasePack(snap'[p]) \subseteq Lasting(manifest')
  BY <1>2, EmptyBase DEF PushResolved
<1>4. \A i \in Cmds(p) \ {cursor[p]} : res[i] = result[p][i]
  BY <1>1 DEF Fails, Cmds
<1>5. ASSUME NEW i \in Cmds(p), i < cursor[p] + 1, res[i] = "pending",
             batch[p][i].sha # None
      PROVE  Reach[batch[p][i].sha] \subseteq pack'[p][i] \cup Lasting(manifest)
  <2>1. i = cursor[p] \/ i < cursor[p]
    BY <1>1, <1>5 DEF Cmds
  <2>2. CASE i = cursor[p]
    BY <1>5, <2>2 DEF Current
  <2>3. CASE i < cursor[p]
    <3>1. i # cursor[p]
      BY <1>1, <2>3
    <3> QED
      BY <1>4, <1>5, <2>3, <3>1 DEF PushResolved
  <2> QED
    BY <2>1, <2>2, <2>3
<1>6. pc'[p] \in {"load", "put"} => cursor'[p] = Len(batch'[p]) + 1
  BY <1>2
<1>7. Lasting(manifest') = Lasting(manifest) /\ Cmds(p)' = Cmds(p)
  BY <1>2 DEF Cmds
<1> QED
  BY <1>2, <1>3, <1>5, <1>6, <1>7 DEF PushResolved

\* The steps of a push, for the push itself.
LEMMA MoverResolved ==
    ASSUME TypeInv, ResolveInv, NEW p \in Pushers, PushStep(p),
           Lasting(manifest) \subseteq Lasting(manifest')
    PROVE  PushResolved(p)'
<1>0. /\ p \in Client
      /\ PushResolved(p)
      /\ Complete(manifest)
      /\ pc \in [Client -> PusherPC \cup AdminPC \cup CompactorPC]
      /\ snap \in [Client -> Manifest]
      /\ \A i \in Cmds(p) : result[p][i] \in Result
      /\ DOMAIN result = Pushers
  BY DEF Client, ResolveInv, TypeInv, TypeOK, StoreTypeOK, PushTypeOK
<1>1. CASE StartPush(p)
  BY <1>0, <1>1, UpdatingResolved DEF StartPush, Goto, pushVars
<1>2. CASE PrepareDelete(p) \/ PrepareRefused(p) \/ PrepareFails(p)
  <2>1. /\ pc[p] = "prepare"
        /\ UNCHANGED pack
        /\ \/ NextCommand(p, Fails(p))
           \/ NextCommand(p, result[p]) /\ Current(p).sha = None
    BY <1>2 DEF PrepareDelete, PrepareRefused, PrepareFails, Preparing
  <2>2. Fails(p)[cursor[p]] # "pending"
    BY <2>1, BatchFacts DEF Fails, TypeInv, TypeOK, PushTypeOK, Cmds
  <2> QED
    BY <1>0, <2>1, <2>2, PreparedResolved
<1>3. CASE PreparePack(p)
  <2> DEFINE pk == PackObjects(p, snap[p], Current(p).sha)
  <2>1. /\ pc[p] = "prepare"
        /\ NextCommand(p, result[p])
        /\ p \notin Shallow
        /\ Current(p).sha \in Holds[p]
        /\ IF pk = {} THEN UNCHANGED pack
           ELSE pack' = [pack EXCEPT ![p][cursor[p]] = pk]
    BY <1>3 DEF PreparePack, Preparing, Doomed
  <2>2. Reach[Current(p).sha] \subseteq pk \cup Lasting(manifest)
    BY <1>0, <2>1, PackCompletes DEF PushResolved
  <2>3. /\ cursor[p] \in Cmds(p)
        /\ pack[p] \in [Cmds(p) -> Pack]
        /\ DOMAIN pack = Pushers
    BY <2>1, BatchFacts DEF TypeInv, TypeOK, PushTypeOK, Cmds
  <2> HIDE DEF pk
  <2>4. /\ \A i \in Cmds(p) \ {cursor[p]} : pack'[p][i] = pack[p][i]
        /\ pk \subseteq pack'[p][cursor[p]]
    BY <2>1, <2>3
  <2> QED
    BY <1>0, <2>1, <2>2, <2>4, PreparedResolved
<1>4. CASE PushLoad(p) \/ PushRefused(p)
  <2>1. /\ pc[p] \in {"load", "put"}
        /\ UNCHANGED <<batch, cursor, pack, result, snap>>
    BY <1>4 DEF PushLoad, PushRefused, LoadManifest, PutRefused, Puts, pushVars
  <2> QED
    BY <1>0, <2>1, UpdatingResolved
<1>5. CASE PushCommitted(p) \/ PushExhausted(p) \/ PushRaised(p) \/ PushRejected(p)
  <2>1. /\ EndUpdate(p, "done")
        /\ UNCHANGED <<batch, cursor, pack>>
        /\ \E how, done : Report(p, how, done)
    BY <1>5 DEF PushCommitted, PushExhausted, PushRaised, PushRejected,
                PutCommitted, PutExhausted, PutRaised, UpdateRaised,
                MutatorRejects
  <2>2. snap'[p] = EmptyManifest /\ pc'[p] = "done"
    BY <1>0, <2>1 DEF EndUpdate, Goto
  <2>3. \A i \in Cmds(p) : result'[p][i] # "pending"
    BY <1>0, <2>1 DEF Report
  <2> QED
    BY <1>0, <2>1, <2>2, <2>3, UpdatingResolved
<1> QED
  BY <1>1, <1>2, <1>3, <1>4, <1>5 DEF PushStep

\* Every step keeps the invariant.
LEMMA NextResolves ==
    ASSUME TypeInv, ResolveInv, [Next]_vars
    PROVE  ResolveInv'
<1>1. Complete(manifest')
  BY WritesResolve
<1>2. NeverAllThree'
  BY RewritersConstant DEF ResolveInv, NeverAllThree
<1>3. ASSUME NEW q \in Pushers PROVE PushResolved(q)'
  <2>1. Lasting(manifest) \subseteq Lasting(manifest')
    BY LastingGrows DEF ResolveInv
  <2>2. CASE PusherStep(q)
    BY <2>1, <2>2, MoverResolved DEF PusherStep
  <2>3. CASE Stays(q)
    BY <2>1, <2>3, OthersResolved DEF Stays, ResolveInv
  <2> QED
    BY <2>2, <2>3, StepsAreOwn, ClientAssumption DEF Client
<1> QED
  BY <1>1, <1>2, <1>3 DEF ResolveInv

\* It holds of a sound seed, where no push has prepared anything.
LEMMA InitResolves == Init /\ NeverAllThree => ResolveInv
<1> SUFFICES ASSUME Init, NeverAllThree PROVE ResolveInv
  OBVIOUS
<1>1. Complete(manifest)
  BY SeedAssumption DEF Init, StoreInit
<1>2. ASSUME NEW p \in Pushers PROVE PushResolved(p)
  <2>1. /\ snap[p] = EmptyManifest /\ pc[p] = "idle" /\ cursor[p] = 1
        /\ batch[p] \in Batches
    BY <1>2 DEF Init, StoreInit, PushInit, Client
  <2>2. \A i \in Cmds(p) : ~ (i < cursor[p])
    BY <2>1, BatchFacts DEF Cmds
  <2> QED
    BY <2>1, <2>2, EmptyBase DEF PushResolved
<1> QED
  BY <1>1, <1>2 DEF ResolveInv

\* Every ref keeps its whole history, whatever pushes of stale clones, retries
\* and lost replies race, with deletions and forced updates or with
\* compactions, but not with both.
THEOREM RefsAlwaysResolve == Spec /\ NeverAllThree => []RefsResolve
<1>1. ResolveInv => RefsResolve
  BY DEF ResolveInv, RefsResolve
<1>2. TypeInv /\ ResolveInv /\ [Next]_vars => ResolveInv'
  BY NextResolves
<1> QED
  BY <1>1, <1>2, InitResolves, InitTypes, NextTypes, PTL DEF Spec
=============================================================================
