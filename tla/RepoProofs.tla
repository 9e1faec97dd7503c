---------------------------- MODULE RepoProofs ----------------------------
(***************************************************************************)
(* Theorems about Repo, for any refs, commits, clients, batches and seeds. *)
(***************************************************************************)
EXTENDS Repo, FiniteSetTheorems, TLAPS

-----------------------------------------------------------------------------
(***************************************************************************)
(* Lemmas about the operators of Gitwal.                                   *)
(***************************************************************************)

\* A set of indexes of a sequence is finite, and so are its subsets.
LEMMA IndexesFinite ==
    ASSUME NEW n \in Nat, NEW S, S \subseteq 1 .. n
    PROVE  /\ IsFiniteSet(S)
           /\ Cardinality(S) \in Nat
           /\ Cardinality(S) = 0 <=> S = {}
<1>1. IsFiniteSet(1 .. n)
  BY FS_Interval
<1>2. IsFiniteSet(S)
  BY <1>1, FS_Subset
<1> QED
  BY <1>2, FS_CardinalityType, FS_EmptySet

\* First(S) is the least element of a non-empty set of indexes.
LEMMA FirstIsLeast ==
    ASSUME NEW n \in Nat, NEW S, S \subseteq 1 .. n, S # {}
    PROVE  /\ First(S) \in S
           /\ \A j \in S : First(S) <= j
<1> DEFINE Below(i) == {j \in S : j < i}
           Belows == {Below(i) : i \in S}
<1>1. Belows \subseteq FiniteSubsetsOf(S)
  <2>1. \A i \in S : Below(i) \in SUBSET S /\ IsFiniteSet(Below(i))
    BY IndexesFinite
  <2> QED
    BY <2>1 DEF FiniteSubsetsOf
<1>2. PICK B \in Belows :
           \A C \in Belows : ~ (<<C, B>> \in StrictSubsetOrdering(S))
  <2>1. IsWellFoundedOn(StrictSubsetOrdering(S), FiniteSubsetsOf(S))
    BY FS_StrictSubsetOrderingWellFounded
  <2>2. Belows # {}
    OBVIOUS
  <2> HIDE DEF Belows
  <2> QED
    BY <1>1, <2>1, <2>2, WFMin
<1>3. PICK i \in S : B = Below(i)
  OBVIOUS
<1>4. ASSUME NEW j \in S, j < i PROVE FALSE
  <2>1. Below(j) \subseteq Below(i) /\ j \in Below(i) /\ j \notin Below(j)
    <3>1. \A k \in Below(j) : k < i
      <4>1. \A k \in S : k \in Int
        OBVIOUS
      <4> QED
        BY <1>4, <4>1
    <3>2. ~ (j < j)
      OBVIOUS
    <3> QED
      BY <1>4, <3>1, <3>2
  <2>2. <<Below(j), Below(i)>> \in StrictSubsetOrdering(S)
    BY <2>1 DEF StrictSubsetOrdering
  <2> QED
    BY <2>2, <1>2, <1>3
<1>5. \A j \in S : i <= j
  BY <1>4
<1> QED
  BY <1>5 DEF First

\* What stands for a missing manifest is a manifest too.
LEMMA EmptyManifestType == EmptyManifest \in Manifest
BY FormatAssumption DEF EmptyManifest, Manifest

\* What holds of the indexes of a batch.
LEMMA BatchFacts ==
    ASSUME NEW b \in Batches
    PROVE  /\ Len(b) \in Nat
           /\ 1 .. Len(b) # {}
           /\ DOMAIN b = 1 .. Len(b)
           /\ \A i \in 1 .. Len(b) : /\ b[i] \in Command
                                     /\ b[i].ref \in Ref
                                     /\ b[i].sha \in Commit \cup {None}
           /\ \A i, j \in 1 .. Len(b) : b[i].ref = b[j].ref => i = j
<1>1. b \in Seq(Command) /\ b # <<>>
  BY BatchAssumption
<1>2. Len(b) \in Nat /\ DOMAIN b = 1 .. Len(b) /\ Len(b) # 0
  BY <1>1
<1>3. \A i \in 1 .. Len(b) : b[i] \in Command
  BY <1>1
<1> QED
  BY <1>2, <1>3, BatchAssumption DEF Command

\* Folding accepted commands into a manifest gives a manifest.
LEMMA ApplyPushesType ==
    ASSUME NEW m \in Manifest, NEW b \in Batches,
           NEW pk \in [1 .. Len(b) -> Pack], NEW acc, acc \subseteq 1 .. Len(b)
    PROVE  ApplyPushes(m, b, pk, acc) \in Manifest
<1> DEFINE fresh == Fresh(m, pk, acc)
           n == ApplyPushes(m, b, pk, acc)
<1>1. fresh \subseteq acc /\ \A i \in fresh : pk[i] \in Pack \ {{}}
  BY DEF Fresh
<1>2. Cardinality(fresh) \in Nat /\ \A i \in fresh : Rank(i, fresh) \in Nat
  BY <1>1, BatchFacts, IndexesFinite DEF Rank
<1>3. Cardinality(Deletions(b, acc)) \in Nat
  BY BatchFacts, IndexesFinite DEF Deletions
<1>4. PushBumps(m, b, pk, acc) \in Nat
  BY <1>2 DEF PushBumps
<1>5. m.seq + PushBumps(m, b, pk, acc) + Cardinality(Deletions(b, acc)) \in Nat
  BY <1>3, <1>4 DEF Manifest
<1>6. UpdatedHead(m, b, acc) \in Ref \cup {None}
  <2>1. CASE Updates(b, acc) = {}
    BY <2>1 DEF UpdatedHead, Manifest
  <2>2. CASE Updates(b, acc) # {}
    <3>1. First(Updates(b, acc)) \in 1 .. Len(b)
      BY <2>2, BatchFacts, FirstIsLeast DEF Updates
    <3> QED
      BY <3>1, BatchFacts DEF UpdatedHead, Manifest
  <2> QED
    BY <2>1, <2>2
<1>7. UpdatedRefs(m, b, acc) \in [Ref -> Commit \cup {None}]
  BY BatchFacts DEF UpdatedRefs, Manifest
<1>8. {[seq |-> m.seq + Rank(i, fresh), pack |-> pk[i]] : i \in fresh}
         \subseteq Entry
  BY <1>1, <1>2 DEF Entry, Manifest
<1> QED
  BY <1>5, <1>6, <1>7, <1>8 DEF ApplyPushes, Manifest

\* So do the other transitions.
LEMMA TransitionTypes ==
    ASSUME NEW m \in Manifest
    PROVE  /\ \A r \in Ref : /\ ApplyDelete(m, r) \in Manifest
                             /\ ApplyProtect(m, r) \in Manifest
                             /\ ApplyUnprotect(m, r) \in Manifest
                             /\ SetHead(m, r) \in Manifest
           /\ \A pk \in Pack \ {{}} : ApplyCompaction(m, pk) \in Manifest
<1>0. m.seq + 1 \in Nat
  BY DEF Manifest
<1>1. ASSUME NEW r \in Ref
      PROVE  /\ ApplyDelete(m, r) \in Manifest
             /\ ApplyProtect(m, r) \in Manifest
             /\ ApplyUnprotect(m, r) \in Manifest
             /\ SetHead(m, r) \in Manifest
  <2>1. ApplyDelete(m, r) \in Manifest
    BY <1>0 DEF Manifest, ApplyDelete
  <2>2. ApplyProtect(m, r) \in Manifest
    BY <1>0 DEF Manifest, ApplyProtect
  <2>3. ApplyUnprotect(m, r) \in Manifest
    BY <1>0 DEF Manifest, ApplyUnprotect
  <2>4. SetHead(m, r) \in Manifest
    BY <1>0 DEF Manifest, SetHead
  <2> QED
    BY <2>1, <2>2, <2>3, <2>4
<1>2. ASSUME NEW pk \in Pack \ {{}}
      PROVE  ApplyCompaction(m, pk) \in Manifest
  <2>1. {[seq |-> m.seq + 1, pack |-> pk]} \subseteq Entry
    BY <1>0 DEF Entry
  <2> QED
    BY <1>0, <2>1 DEF Manifest, ApplyCompaction
<1> QED
  BY <1>1, <1>2

\* A compaction starts from a repository with refs, so its base pack is not
\* empty.
LEMMA BasePackType ==
    ASSUME NEW m \in Manifest
    PROVE  /\ BasePack(m) \in Pack
           /\ LiveRefs(m) # {} => BasePack(m) # {}
<1>1. Tips(m) \subseteq Commit
  BY DEF Tips, LiveRefs, Manifest
<1>2. BasePack(m) \in Pack
  BY <1>1, ReachAssumption DEF BasePack, Pack
<1>3. ASSUME LiveRefs(m) # {} PROVE BasePack(m) # {}
  <2>1. PICK t \in Tips(m) : TRUE
    BY <1>3 DEF Tips
  <2>2. t \in Reach[t] /\ Reach[t] \subseteq BasePack(m)
    BY <1>1, <2>1, ReachAssumption DEF BasePack
  <2> QED
    BY <2>2
<1> QED
  BY <1>2, <1>3

-----------------------------------------------------------------------------
(***************************************************************************)
(* Type correctness.  TypeOK is not inductive: a helper that prepares must *)
(* have a command left, and a compaction at work must have started from a  *)
(* manifest with refs, or it would commit an entry without objects.        *)
(***************************************************************************)
TypeInv ==
    /\ TypeOK
    /\ \A p \in Pushers :
         pc[p] \in {"idle", "prepare"} => cursor[p] <= Len(batch[p])
    /\ \A c \in Compactors :
         pc[c] \in {"upload", "load", "put"} => LiveRefs(snap[c]) # {}

\* A run starts well-typed, from any seed.
LEMMA InitTypes == Init => TypeInv
<1> SUFFICES ASSUME Init PROVE TypeInv
  OBVIOUS
<1>1. PICK s \in Seeds : StoreInit(s.manifest, s.packs)
  BY DEF Init
<1>2. StoreTypeOK(PusherPC \cup AdminPC \cup CompactorPC)
  BY <1>1, SeedAssumption, ClientAssumption, EmptyManifestType
     DEF StoreInit, StoreTypeOK, PusherPC
<1>3. \A c \in Client : pc[c] = "idle"
  BY <1>1 DEF StoreInit
<1>4. PushTypeOK
  BY BatchFacts DEF Init, PushInit, PushTypeOK, Cmds, Result, Outcome, Pack
<1>5. ManageTypeOK /\ CompactTypeOK
  BY DEF Init, ManageInit, ManageTypeOK, CompactInit, CompactTypeOK
<1>6. \A p \in Pushers : cursor[p] <= Len(batch[p])
  BY BatchFacts DEF Init, PushInit
<1> QED
  BY <1>2, <1>3, <1>4, <1>5, <1>6
     DEF TypeInv, TypeOK, Client, PusherPC, AdminPC, CompactorPC

\* The accepted commands are commands of the batch, and what they fold into
\* is a manifest.
LEMMA CandidateType ==
    ASSUME TypeInv, NEW p \in Pushers
    PROVE  /\ Accepted(p, base[p]) \subseteq Cmds(p)
           /\ PushCandidate(p) \in Manifest
<1>1. Accepted(p, base[p]) \subseteq Cmds(p)
  BY DEF Accepted, Pending
<1>2. /\ base[p] \in Manifest
      /\ batch[p] \in Batches
      /\ pack[p] \in [Cmds(p) -> Pack]
  BY DEF TypeInv, TypeOK, StoreTypeOK, PushTypeOK, Client
<1> QED
  BY <1>1, <1>2, ApplyPushesType DEF PushCandidate, Cmds

\* What a pusher packs is a pack.
LEMMA PackObjectsType ==
    ASSUME NEW p \in Pushers, NEW m \in Manifest, NEW sha \in Commit
    PROVE  PackObjects(p, m, sha) \in Pack
BY ReachAssumption DEF PackObjects, Pack

\* What the clients hold, without the bucket and the program counters.
LocalsOK ==
    /\ attempt \in [Client -> 0 .. Attempts - 1]
    /\ snap \in [Client -> Manifest]
    /\ base \in [Client -> Manifest]

BucketOK == manifest \in Manifest /\ packs \subseteq Pack /\ young \subseteq packs

OthersKept(c) == \A d \in Client \ {c} : snap'[d] = snap[d]

\* The GET of the compare-and-swap loop keeps the locals well-typed.
LEMMA LoadLocals ==
    ASSUME TypeInv, NEW c \in Client, LoadManifest(c)
    PROVE  LocalsOK' /\ OthersKept(c)
BY DEF LoadManifest, LocalsOK, OthersKept, TypeInv, TypeOK, StoreTypeOK

\* So does the end of an update, which resets the locals of its client.
LEMMA EndLocals ==
    ASSUME TypeInv, NEW c \in Client, NEW label, EndUpdate(c, label)
    PROVE  LocalsOK' /\ OthersKept(c)
BY EmptyManifestType, ClientAssumption
   DEF EndUpdate, LocalsOK, OthersKept, TypeInv, TypeOK, StoreTypeOK

\* So does a refused PUT: it is only counted while attempts remain.
LEMMA RefusedLocals ==
    ASSUME TypeInv, NEW c \in Client, NEW candidate, PutRefused(c, candidate)
    PROVE  LocalsOK' /\ OthersKept(c)
<1>1. attempt[c] + 1 \in 0 .. Attempts - 1
  BY ClientAssumption DEF PutRefused, TypeInv, TypeOK, StoreTypeOK
<1> QED
  BY <1>1, EmptyManifestType
     DEF PutRefused, LocalsOK, OthersKept, TypeInv, TypeOK, StoreTypeOK

\* A PUT, acknowledged or not, leaves a manifest.
LEMMA PutBucket ==
    ASSUME TypeInv, NEW c \in Client, NEW candidate \in Manifest,
           Stored(c, candidate) \/ NotAcknowledged(c, candidate),
           UNCHANGED <<packs, young>>
    PROVE  BucketOK'
BY DEF Stored, NotAcknowledged, BucketOK, TypeInv, TypeOK, StoreTypeOK

\* An upload keeps the bucket well-typed.
LEMMA StorePackBucket ==
    ASSUME TypeInv, NEW pk \in Pack, StorePack(pk), UNCHANGED manifest
    PROVE  BucketOK'
BY DEF StorePack, BucketOK, TypeInv, TypeOK, StoreTypeOK

\* So does a step that leaves the bucket alone.
LEMMA SameBucket ==
    ASSUME TypeInv, UNCHANGED bucketVars
    PROVE  BucketOK'
BY DEF bucketVars, BucketOK, TypeInv, TypeOK, StoreTypeOK

\* What is left to show of a step that moves client c, and only c, to l.
LEMMA ClientMoves ==
    ASSUME TypeInv, BucketOK', LocalsOK', PushTypeOK', ManageTypeOK',
           CompactTypeOK', NEW c \in Client, OthersKept(c), NEW l,
           pc' = [pc EXCEPT ![c] = l],
           c \in Pushers => l \in PusherPC,
           c \in Admins => l \in AdminPC,
           c \in Compactors => l \in CompactorPC,
           UNCHANGED batch,
           \A p \in Pushers \ {c} : cursor'[p] = cursor[p],
           c \in Pushers => l # "idle",
           c \in Pushers /\ l = "prepare" => cursor'[c] <= Len(batch[c]),
           c \in Compactors /\ l \in {"upload", "load", "put"} =>
               LiveRefs(snap'[c]) # {}
    PROVE  TypeInv'
<1> USE DEF TypeInv, TypeOK, StoreTypeOK
<1>1. \A d \in Client : pc'[d] = IF d = c THEN l ELSE pc[d]
  OBVIOUS
<1>2. /\ \A p \in Pushers : pc'[p] \in PusherPC
      /\ \A a \in Admins : pc'[a] \in AdminPC
      /\ \A d \in Compactors : pc'[d] \in CompactorPC
  BY <1>1 DEF Client
<1>3. pc' \in [Client -> PusherPC \cup AdminPC \cup CompactorPC]
  <2>1. l \in PusherPC \cup AdminPC \cup CompactorPC
    BY DEF Client
  <2> QED
    BY <2>1
<1>4. \A p \in Pushers :
        pc'[p] \in {"idle", "prepare"} => cursor'[p] <= Len(batch'[p])
  BY <1>1 DEF Client
<1>5. \A d \in Compactors :
        pc'[d] \in {"upload", "load", "put"} => LiveRefs(snap'[d]) # {}
  <2> SUFFICES ASSUME NEW d \in Compactors, pc'[d] \in {"upload", "load", "put"}
               PROVE  LiveRefs(snap'[d]) # {}
    OBVIOUS
  <2>1. CASE d = c
    BY <1>1, <2>1 DEF Client
  <2>2. CASE d # c
    <3>1. snap'[d] = snap[d] /\ pc'[d] = pc[d]
      BY <1>1, <2>2 DEF Client, OthersKept
    <3> QED
      BY <3>1
  <2> QED
    BY <2>1, <2>2
<1>6. StoreTypeOK(PusherPC \cup AdminPC \cup CompactorPC)'
  BY <1>3 DEF BucketOK, LocalsOK
<1> QED
  BY <1>2, <1>4, <1>5, <1>6

\* The ways a command can be left behind while the batch is prepared.
LEMMA NextCommandTypes ==
    ASSUME TypeInv, NEW p \in Pushers, pc[p] = "prepare",
           NEW res \in [Cmds(p) -> Result], NextCommand(p, res), BucketOK',
           UNCHANGED <<manageVars, compactVars>>,
           \/ UNCHANGED pack
           \/ \E pk \in Pack : pack' = [pack EXCEPT ![p][cursor[p]] = pk]
    PROVE  TypeInv'
<1> USE DEF TypeInv, TypeOK, PushTypeOK
<1> DEFINE l == IF cursor[p] < Len(batch[p]) THEN "prepare"
                ELSE IF Pending(p, res) = {} THEN "done" ELSE "load"
<1>1. /\ Len(batch[p]) \in Nat
      /\ cursor[p] \in 1 .. Len(batch[p])
  BY BatchFacts
<1>2. pc' = [pc EXCEPT ![p] = l] /\ l \in PusherPC /\ l # "idle"
  BY DEF NextCommand, Goto, StoreTypeOK, PusherPC
<1>3. LocalsOK' /\ OthersKept(p)
  <2>1. p \in Client
    BY DEF Client
  <2> QED
    BY <2>1, EmptyManifestType
       DEF NextCommand, LocalsOK, OthersKept, StoreTypeOK
<1>4. cursor' = [cursor EXCEPT ![p] = cursor[p] + 1]
  BY DEF NextCommand
<1>5. \A q \in Pushers : pack'[q] \in [Cmds(q) -> Pack]
  <2>1. CASE UNCHANGED pack
    BY <2>1
  <2>2. ASSUME NEW pk \in Pack, pack' = [pack EXCEPT ![p][cursor[p]] = pk]
        PROVE  \A q \in Pushers : pack'[q] \in [Cmds(q) -> Pack]
    <3>1. pack'[p] = [pack[p] EXCEPT ![cursor[p]] = pk]
      BY <2>2
    <3>2. \A q \in Pushers \ {p} : pack'[q] = pack[q]
      BY <2>2
    <3>3. \A q \in Pushers : pack[q] \in [Cmds(q) -> Pack]
      OBVIOUS
    <3> HIDE DEF TypeInv, TypeOK, PushTypeOK
    <3>4. pack'[p] \in [Cmds(p) -> Pack]
      <4>1. pack[p] \in [Cmds(p) -> Pack]
        BY <3>3
      <4> QED
        BY <3>1, <4>1
    <3> QED
      BY <3>2, <3>3, <3>4
  <2> QED
    BY <2>1, <2>2
<1>6. DOMAIN pack' = Pushers
  OBVIOUS
<1>7. UNCHANGED <<batch, outcome, landed>>
  BY DEF NextCommand
<1>8. PushTypeOK'
  <2>1. \A q \in Pushers : cursor'[q] \in 1 .. Len(batch[q]) + 1
    BY <1>1, <1>4
  <2>2. DOMAIN cursor' = Pushers /\ DOMAIN result' = Pushers
    BY <1>4 DEF NextCommand
  <2>3. \A q \in Pushers : result'[q] \in [Cmds(q) -> Result]
    BY DEF NextCommand
  <2> QED
    BY <1>5, <1>6, <1>7, <2>1, <2>2, <2>3 DEF Cmds
<1>9. ManageTypeOK' /\ CompactTypeOK'
  BY DEF ManageTypeOK, CompactTypeOK, manageVars, compactVars
<1>10. l = "prepare" => cursor'[p] <= Len(batch[p])
  BY <1>1, <1>4
<1>11. \A q \in Pushers \ {p} : cursor'[q] = cursor[q]
  BY <1>4
<1>12. /\ p \in Client
       /\ p \notin Admins
       /\ p \notin Compactors
  BY ClientAssumption DEF Client
<1> HIDE DEF l, TypeInv, TypeOK, PushTypeOK
<1> QED
  BY <1>2, <1>3, <1>7, <1>8, <1>9, <1>10, <1>11, <1>12, ClientMoves

\* What a pusher is told and what has landed are about commands of its batch.
LEMMA ReportTypes ==
    ASSUME TypeInv, NEW p \in Pushers, NEW how \in Outcome, NEW done,
           Report(p, how, done), Landing(p) \/ UNCHANGED landed,
           UNCHANGED <<batch, cursor, pack>>
    PROVE  PushTypeOK'
<1> USE DEF TypeInv, TypeOK, PushTypeOK
<1>1. \A q \in Pushers : result'[q] \in [Cmds(q) -> Result]
  BY DEF Report, Result
<1>2. DOMAIN result' = Pushers /\ outcome' \in [Pushers -> Outcome]
  BY DEF Report
<1>3. \A q \in Pushers : landed'[q] \subseteq Cmds(q)
  <2>1. Accepted(p, base[p]) \subseteq Cmds(p)
    BY CandidateType
  <2>2. \A q \in Pushers : landed[q] \subseteq Cmds(q)
    OBVIOUS
  <2>3. DOMAIN landed = Pushers
    OBVIOUS
  <2> HIDE DEF TypeInv, TypeOK, PushTypeOK
  <2>4. CASE UNCHANGED landed
    BY <2>2, <2>4
  <2>5. CASE landed' = [landed EXCEPT ![p] = @ \cup Accepted(p, base[p])]
    <3>1. landed'[p] = landed[p] \cup Accepted(p, base[p])
      BY <2>3, <2>5
    <3>2. \A q \in Pushers \ {p} : landed'[q] = landed[q]
      BY <2>3, <2>5
    <3> QED
      BY <2>1, <2>2, <3>1, <3>2
  <2> QED
    BY <2>4, <2>5 DEF Landing
<1>4. DOMAIN landed' = Pushers
  BY DEF Landing
<1> QED
  BY <1>1, <1>2, <1>3, <1>4 DEF Cmds

\* Every step of a push keeps the invariant.
LEMMA PusherTypes ==
    ASSUME TypeInv, NEW p \in Pushers, PusherStep(p)
    PROVE  TypeInv'
<1>0. /\ UNCHANGED <<manageVars, compactVars>>
      /\ ManageTypeOK' /\ CompactTypeOK'
      /\ PushStep(p)
  BY DEF PusherStep, TypeInv, TypeOK, ManageTypeOK, CompactTypeOK,
         manageVars, compactVars
<1>1. /\ p \in Client
      /\ p \notin Admins
      /\ p \notin Compactors
      /\ PushCandidate(p) \in Manifest
      /\ result[p] \in [Cmds(p) -> Result]
      /\ Fails(p) \in [Cmds(p) -> Result]
  BY ClientAssumption, CandidateType
     DEF Client, TypeInv, TypeOK, PushTypeOK, Fails, Result
<1>2. CASE StartPush(p)
  <2>1. BucketOK' /\ UNCHANGED batch /\ UNCHANGED cursor
    BY <1>2, SameBucket DEF StartPush, pushVars
  <2>2. LocalsOK' /\ OthersKept(p)
    BY <1>1, <1>2
       DEF StartPush, LocalsOK, OthersKept, TypeInv, TypeOK, StoreTypeOK
  <2>3. PushTypeOK'
    BY <1>2 DEF StartPush, pushVars, TypeInv, TypeOK, PushTypeOK, Cmds
  <2>4. pc' = [pc EXCEPT ![p] = "prepare"] /\ "prepare" \in PusherPC
    BY <1>2 DEF StartPush, Goto, PusherPC
  <2>5. cursor'[p] <= Len(batch[p])
    BY <1>2, <2>1 DEF StartPush, TypeInv
  <2> QED
    BY <1>0, <1>1, <2>1, <2>2, <2>3, <2>4, <2>5, ClientMoves
<1>3. CASE PrepareDelete(p) \/ PrepareRefused(p)
  <2>1. UNCHANGED bucketVars /\ UNCHANGED pack /\ pc[p] = "prepare"
    BY <1>3 DEF PrepareDelete, PrepareRefused, Preparing, NextCommand, bucketVars
  <2>2. \E res \in [Cmds(p) -> Result] : NextCommand(p, res)
    BY <1>1, <1>3 DEF PrepareDelete, PrepareRefused
  <2> QED
    BY <1>0, <2>1, <2>2, SameBucket, NextCommandTypes
<1>4. CASE PreparePack(p) \/ PrepareFails(p)
  <2> DEFINE pk == PackObjects(p, snap[p], Current(p).sha)
  <2>1. pc[p] = "prepare" /\ UNCHANGED manifest
    BY <1>4 DEF PreparePack, PrepareFails, Preparing, NextCommand
  <2>2. Current(p).sha \in Commit
    <3>1. batch[p] \in Batches /\ cursor[p] \in 1 .. Len(batch[p])
      BY <2>1, BatchFacts DEF TypeInv, TypeOK, PushTypeOK
    <3> QED
      BY <1>4, <3>1, BatchFacts DEF PreparePack, PrepareFails, Current
  <2>3. pk \in Pack
    BY <1>1, <2>2, PackObjectsType DEF TypeInv, TypeOK, StoreTypeOK
  <2>4. BucketOK'
    <3>1. UNCHANGED <<packs, young>> \/ StorePack(pk)
      BY <1>4 DEF PreparePack, PrepareFails
    <3> QED
      BY <2>1, <2>3, <3>1, SameBucket, StorePackBucket DEF bucketVars
  <2>5. \/ UNCHANGED pack
        \/ pack' = [pack EXCEPT ![p][cursor[p]] = pk]
    BY <1>4 DEF PreparePack, PrepareFails
  <2>6. \E res \in [Cmds(p) -> Result] : NextCommand(p, res)
    BY <1>1, <1>4 DEF PreparePack, PrepareFails
  <2> QED
    BY <1>0, <2>1, <2>3, <2>4, <2>5, <2>6, NextCommandTypes
<1>5. CASE PushLoad(p)
  <2>1. LoadManifest(p) /\ UNCHANGED pushVars
    BY <1>5 DEF PushLoad
  <2>2. BucketOK' /\ LocalsOK' /\ OthersKept(p)
    BY <1>1, <2>1, SameBucket, LoadLocals DEF LoadManifest
  <2>3. PushTypeOK' /\ UNCHANGED batch /\ UNCHANGED cursor
    BY <2>1 DEF pushVars, TypeInv, TypeOK, PushTypeOK, Cmds
  <2>4. pc' = [pc EXCEPT ![p] = "put"] /\ "put" \in PusherPC
    BY <2>1 DEF LoadManifest, Goto, PusherPC
  <2> QED
    BY <1>0, <1>1, <2>2, <2>3, <2>4, ClientMoves
<1>6. CASE PushRefused(p)
  <2>1. PutRefused(p, PushCandidate(p)) /\ Landing(p)
    BY <1>6 DEF PushRefused
  <2>2. UNCHANGED <<packs, young, batch, cursor, pack, result, outcome>>
    BY <1>6 DEF PushRefused
  <2>3. BucketOK' /\ LocalsOK' /\ OthersKept(p)
    BY <1>1, <2>1, <2>2, PutBucket, RefusedLocals DEF PutRefused
  <2>4. PushTypeOK'
    BY <2>1, <2>2, CandidateType
       DEF Landing, TypeInv, TypeOK, PushTypeOK, Cmds
  <2>5. pc' = [pc EXCEPT ![p] = "load"] /\ "load" \in PusherPC
    BY <2>1 DEF PutRefused, Goto, PusherPC
  <2> QED
    BY <1>0, <1>1, <2>2, <2>3, <2>4, <2>5, ClientMoves
<1>7. CASE \/ PushCommitted(p) \/ PushExhausted(p)
           \/ PushRaised(p) \/ PushRejected(p)
  <2>1. EndUpdate(p, "done")
    BY <1>7 DEF PushCommitted, PushExhausted, PushRaised, PushRejected,
                PutCommitted, PutExhausted, PutRaised, UpdateRaised,
                MutatorRejects
  <2>2. UNCHANGED <<packs, young, batch, cursor, pack>>
    BY <1>7 DEF PushCommitted, PushExhausted, PushRaised, PushRejected
  <2>3. \/ UNCHANGED manifest
        \/ Stored(p, PushCandidate(p))
        \/ NotAcknowledged(p, PushCandidate(p))
    BY <1>7 DEF PushCommitted, PushExhausted, PushRaised, PushRejected,
                PutCommitted, PutExhausted, PutRaised, UpdateRaised,
                MutatorRejects
  <2>4. BucketOK' /\ LocalsOK' /\ OthersKept(p)
    BY <1>1, <2>1, <2>2, <2>3, SameBucket, PutBucket, EndLocals DEF bucketVars
  <2>5. \E how, done : how \in Outcome /\ Report(p, how, done)
    BY <1>7 DEF PushCommitted, PushExhausted, PushRaised, PushRejected, Outcome
  <2>6. Landing(p) \/ UNCHANGED landed
    BY <1>7 DEF PushCommitted, PushExhausted, PushRaised, PushRejected
  <2>7. PushTypeOK'
    BY <2>2, <2>5, <2>6, ReportTypes
  <2>8. pc' = [pc EXCEPT ![p] = "done"] /\ "done" \in PusherPC
    BY <2>1 DEF EndUpdate, Goto, PusherPC
  <2> QED
    BY <1>0, <1>1, <2>2, <2>4, <2>7, <2>8, ClientMoves
<1> QED
  BY <1>0, <1>2, <1>3, <1>4, <1>5, <1>6, <1>7 DEF PushStep

\* What an operator command stores is a manifest.
LEMMA AdminCandidateType ==
    ASSUME TypeInv, NEW a \in Admins
    PROVE  AdminCandidate(a) \in Manifest
<1>1. /\ base[a] \in Manifest
      /\ task[a].op \in Op
      /\ task[a].ref \in Ref
  BY AdminOpsAssumption
     DEF TypeInv, TypeOK, StoreTypeOK, ManageTypeOK, Client
<1> QED
  BY <1>1, TransitionTypes DEF AdminCandidate, Op

\* Every step of an operator command keeps the invariant.
LEMMA AdminTypes ==
    ASSUME TypeInv, NEW a \in Admins, OperatorStep(a)
    PROVE  TypeInv'
<1>0. /\ UNCHANGED <<pushVars, compactVars>>
      /\ PushTypeOK' /\ CompactTypeOK'
      /\ UNCHANGED batch /\ UNCHANGED cursor
      /\ AdminStep(a)
  BY DEF OperatorStep, TypeInv, TypeOK, PushTypeOK, Cmds, CompactTypeOK,
         pushVars, compactVars
<1>1. /\ a \in Client
      /\ a \notin Pushers
      /\ a \notin Compactors
      /\ AdminCandidate(a) \in Manifest
  BY ClientAssumption, AdminCandidateType DEF Client
<1>2. UNCHANGED manageVars
  BY <1>0 DEF AdminStep, StartAdmin, AbortDelete, AdminLoad, AdminCommitted,
              AdminRefused, AdminFailed, AdminRejected
<1>3. ManageTypeOK'
  BY <1>2 DEF ManageTypeOK, manageVars, TypeInv, TypeOK
<1>4. CASE StartAdmin(a) \/ AbortDelete(a)
  <2>1. UNCHANGED bucketVars /\ UNCHANGED <<attempt, snap, base>>
    BY <1>4 DEF StartAdmin, AbortDelete
  <2>2. BucketOK' /\ LocalsOK' /\ OthersKept(a)
    BY <2>1, SameBucket
       DEF LocalsOK, OthersKept, TypeInv, TypeOK, StoreTypeOK
  <2>3. \E l \in AdminPC : pc' = [pc EXCEPT ![a] = l]
    BY <1>4 DEF StartAdmin, AbortDelete, Goto, AdminPC
  <2> QED
    BY <1>0, <1>1, <1>3, <2>2, <2>3, ClientMoves
<1>5. CASE AdminLoad(a)
  <2>1. LoadManifest(a)
    BY <1>5 DEF AdminLoad
  <2>2. BucketOK' /\ LocalsOK' /\ OthersKept(a)
    BY <1>1, <2>1, SameBucket, LoadLocals DEF LoadManifest
  <2>3. pc' = [pc EXCEPT ![a] = "put"] /\ "put" \in AdminPC
    BY <2>1 DEF LoadManifest, Goto, AdminPC
  <2> QED
    BY <1>0, <1>1, <1>3, <2>2, <2>3, ClientMoves
<1>6. CASE AdminRefused(a)
  <2>1. PutRefused(a, AdminCandidate(a)) /\ UNCHANGED <<packs, young>>
    BY <1>6 DEF AdminRefused
  <2>2. BucketOK' /\ LocalsOK' /\ OthersKept(a)
    BY <1>1, <2>1, PutBucket, RefusedLocals DEF PutRefused
  <2>3. pc' = [pc EXCEPT ![a] = "load"] /\ "load" \in AdminPC
    BY <2>1 DEF PutRefused, Goto, AdminPC
  <2> QED
    BY <1>0, <1>1, <1>3, <2>2, <2>3, ClientMoves
<1>7. CASE AdminCommitted(a) \/ AdminFailed(a) \/ AdminRejected(a)
  <2>1. EndUpdate(a, "done") /\ UNCHANGED <<packs, young>>
    BY <1>7 DEF AdminCommitted, AdminFailed, AdminRejected, PutCommitted,
                PutExhausted, PutRaised, UpdateRaised, MutatorRejects
  <2>2. \/ UNCHANGED manifest
        \/ Stored(a, AdminCandidate(a))
        \/ NotAcknowledged(a, AdminCandidate(a))
    BY <1>7 DEF AdminCommitted, AdminFailed, AdminRejected, PutCommitted,
                PutExhausted, PutRaised, UpdateRaised, MutatorRejects
  <2>3. BucketOK' /\ LocalsOK' /\ OthersKept(a)
    BY <1>1, <2>1, <2>2, SameBucket, PutBucket, EndLocals DEF bucketVars
  <2>4. pc' = [pc EXCEPT ![a] = "done"] /\ "done" \in AdminPC
    BY <2>1 DEF EndUpdate, Goto, AdminPC
  <2> QED
    BY <1>0, <1>1, <1>3, <2>3, <2>4, ClientMoves
<1> QED
  BY <1>0, <1>4, <1>5, <1>6, <1>7 DEF AdminStep

\* What a compaction stores is a manifest with one entry, and a pack.
LEMMA CompactCandidateType ==
    ASSUME TypeInv, NEW c \in Compactors,
           pc[c] \in {"upload", "load", "put"}
    PROVE  /\ BasePack(snap[c]) \in Pack \ {{}}
           /\ CompactCandidate(c) \in Manifest
<1>1. /\ snap[c] \in Manifest
      /\ base[c] \in Manifest
      /\ LiveRefs(snap[c]) # {}
  BY DEF TypeInv, TypeOK, StoreTypeOK, Client
<1> QED
  BY <1>1, BasePackType, TransitionTypes DEF CompactCandidate

\* The packs a manifest names are packs.
LEMMA NamedType ==
    ASSUME NEW m \in Manifest
    PROVE  Named(m) \subseteq Pack
BY DEF Named, Manifest, Entry

\* Every step of a compaction keeps the invariant.
LEMMA CompactorTypes ==
    ASSUME TypeInv, NEW c \in Compactors, CompactorStep(c)
    PROVE  TypeInv'
<1>0. /\ UNCHANGED <<pushVars, manageVars>>
      /\ PushTypeOK' /\ ManageTypeOK'
      /\ UNCHANGED batch /\ UNCHANGED cursor
      /\ CompactStep(c)
  BY DEF CompactorStep, TypeInv, TypeOK, PushTypeOK, Cmds, ManageTypeOK,
         pushVars, manageVars
<1>1. /\ c \in Client
      /\ c \notin Pushers
      /\ c \notin Admins
  BY ClientAssumption DEF Client
<1>2. /\ manifest \in Manifest
      /\ Named(manifest) \subseteq Pack
      /\ packs \subseteq Pack
      /\ base[c] \in Manifest
      /\ Named(base[c]) \subseteq Pack
      /\ pc \in [Client -> PusherPC \cup AdminPC \cup CompactorPC]
      /\ CompactTypeOK
  BY <1>1, NamedType DEF TypeInv, TypeOK, StoreTypeOK
<1>3. UNCHANGED compactVars => CompactTypeOK'
  BY <1>2 DEF CompactTypeOK, compactVars
<1>4. CASE StartCompact(c)
  <2>1. BucketOK' /\ CompactTypeOK'
    BY <1>3, <1>4, SameBucket DEF StartCompact
  <2>2. LocalsOK' /\ OthersKept(c)
    BY <1>1, <1>4
       DEF StartCompact, LocalsOK, OthersKept, TypeInv, TypeOK, StoreTypeOK
  <2>3. CASE CanCompact(c, manifest)
    <3>1. pc' = [pc EXCEPT ![c] = "upload"] /\ "upload" \in CompactorPC
      BY <1>4, <2>3 DEF StartCompact, Goto, CompactorPC
    <3>2. LiveRefs(snap'[c]) # {}
      <4>1. snap'[c] = manifest
        BY <1>1, <1>4, <2>3 DEF StartCompact, TypeInv, TypeOK, StoreTypeOK
      <4> QED
        BY <4>1, <2>3 DEF CanCompact
    <3> QED
      BY <1>0, <1>1, <2>1, <2>2, <3>1, <3>2, ClientMoves
  <2>4. CASE ~CanCompact(c, manifest)
    <3>1. pc' = [pc EXCEPT ![c] = "done"] /\ "done" \in CompactorPC
      BY <1>4, <2>4 DEF StartCompact, Goto, CompactorPC
    <3> QED
      BY <1>0, <1>1, <2>1, <2>2, <3>1, ClientMoves
  <2> QED
    BY <2>3, <2>4
<1>5. CASE UploadBase(c) \/ UploadBaseFails(c)
  <2>1. pc[c] = "upload" /\ UNCHANGED compactVars /\ UNCHANGED manifest
    BY <1>5 DEF UploadBase, UploadBaseFails
  <2>2. BasePack(snap[c]) \in Pack /\ LiveRefs(snap[c]) # {}
    BY <2>1, CompactCandidateType DEF TypeInv
  <2>3. BucketOK'
    <3>1. UNCHANGED <<packs, young>> \/ StorePack(BasePack(snap[c]))
      BY <1>5 DEF UploadBase, UploadBaseFails
    <3> QED
      BY <2>1, <2>2, <3>1, SameBucket, StorePackBucket DEF bucketVars
  <2>4. LocalsOK' /\ OthersKept(c)
    BY <1>1, <1>5, EmptyManifestType
       DEF UploadBase, UploadBaseFails, LocalsOK, OthersKept,
           TypeInv, TypeOK, StoreTypeOK
  <2>5. \/ pc' = [pc EXCEPT ![c] = "load"] /\ snap' = snap
        \/ pc' = [pc EXCEPT ![c] = "done"]
    BY <1>5 DEF UploadBase, UploadBaseFails, Goto
  <2>6. "load" \in CompactorPC /\ "done" \in CompactorPC
    BY DEF CompactorPC
  <2> QED
    BY <1>0, <1>1, <1>3, <2>1, <2>2, <2>3, <2>4, <2>5, <2>6, ClientMoves

<1>6. CASE CompactLoad(c)
  <2>1. LoadManifest(c) /\ UNCHANGED compactVars
    BY <1>6 DEF CompactLoad
  <2>2. BucketOK' /\ LocalsOK' /\ OthersKept(c)
    BY <1>1, <2>1, SameBucket, LoadLocals DEF LoadManifest
  <2>3. pc' = [pc EXCEPT ![c] = "put"] /\ "put" \in CompactorPC
    BY <2>1 DEF LoadManifest, Goto, CompactorPC
  <2>4. LiveRefs(snap'[c]) # {}
    BY <2>1 DEF LoadManifest, TypeInv
  <2> QED
    BY <1>0, <1>1, <1>3, <2>1, <2>2, <2>3, <2>4, ClientMoves
<1>7. CASE CompactRefused(c)
  <2>1. PutRefused(c, CompactCandidate(c)) /\ UNCHANGED <<packs, young>>
        /\ UNCHANGED compactVars
    BY <1>7 DEF CompactRefused
  <2>2. pc[c] = "put" /\ CompactCandidate(c) \in Manifest
    BY <2>1, CompactCandidateType DEF PutRefused, Puts
  <2>3. BucketOK' /\ LocalsOK' /\ OthersKept(c)
    BY <1>1, <2>1, <2>2, PutBucket, RefusedLocals DEF PutRefused
  <2>4. pc' = [pc EXCEPT ![c] = "load"] /\ "load" \in CompactorPC
    BY <2>1 DEF PutRefused, Goto, CompactorPC
  <2>5. LiveRefs(snap'[c]) # {}
    BY <2>1, <2>2 DEF PutRefused, TypeInv
  <2> QED
    BY <1>0, <1>1, <1>3, <2>1, <2>3, <2>4, <2>5, ClientMoves
<1>8. CASE CompactCommitted(c)
  <2> DEFINE dead == SupersededPacks(base[c], CompactCandidate(c))
  <2>1. /\ Puts(c)
        /\ Stored(c, CompactCandidate(c))
        /\ EndUpdate(c, "delete")
        /\ UNCHANGED <<packs, young, doomed>>
        /\ superseded' = [superseded EXCEPT ![c] = dead]
        /\ todo' = [todo EXCEPT ![c] = dead]
    BY <1>8 DEF CompactCommitted, PutCommitted
  <2>2. CompactCandidate(c) \in Manifest
    BY <2>1, CompactCandidateType DEF Puts
  <2>3. BucketOK' /\ LocalsOK' /\ OthersKept(c)
    BY <1>1, <2>1, <2>2, PutBucket, EndLocals
  <2>4. dead \subseteq Pack
    BY <1>2 DEF SupersededPacks
  <2>5. CompactTypeOK'
    BY <1>2, <2>1, <2>4 DEF CompactTypeOK
  <2>6. pc' = [pc EXCEPT ![c] = "delete"] /\ "delete" \in CompactorPC
    BY <2>1 DEF EndUpdate, Goto, CompactorPC
  <2> QED
    BY <1>0, <1>1, <2>3, <2>5, <2>6, ClientMoves
<1>9. CASE CompactFailed(c) \/ CompactRejected(c)
  <2>1. EndUpdate(c, "done") /\ UNCHANGED <<packs, young>>
        /\ UNCHANGED compactVars
    BY <1>9 DEF CompactFailed, CompactRejected, PutExhausted, PutRaised,
                UpdateRaised, MutatorRejects
  <2>2. \/ UNCHANGED manifest
        \/ Puts(c) /\ NotAcknowledged(c, CompactCandidate(c))
    BY <1>9 DEF CompactFailed, CompactRejected, PutExhausted, PutRaised,
                UpdateRaised, MutatorRejects
  <2>3. Puts(c) => CompactCandidate(c) \in Manifest
    BY CompactCandidateType DEF Puts
  <2>4. BucketOK' /\ LocalsOK' /\ OthersKept(c)
    BY <1>1, <2>1, <2>2, <2>3, SameBucket, PutBucket, EndLocals DEF bucketVars
  <2>5. pc' = [pc EXCEPT ![c] = "done"] /\ "done" \in CompactorPC
    BY <2>1 DEF EndUpdate, Goto, CompactorPC
  <2> QED
    BY <1>0, <1>1, <1>3, <2>1, <2>4, <2>5, ClientMoves
<1>10. CASE DeleteSuperseded(c) \/ StatPack(c) \/ ReapOrphan(c)
  <2>1. PICK pk \in todo[c] \cup doomed[c] :
           /\ UNCHANGED <<manifest, casVars, snap, superseded>>
           /\ DropPack(pk) \/ UNCHANGED <<packs, young>>
           /\ todo' = todo \/ todo' = [todo EXCEPT ![c] = @ \ {pk}]
           /\ \/ doomed' = doomed
              \/ doomed' = [doomed EXCEPT ![c] = @ \cup {pk}]
              \/ doomed' = [doomed EXCEPT ![c] = @ \ {pk}]
    BY <1>10 DEF DeleteSuperseded, StatPack, ReapOrphan, bucketVars
  <2>2. pk \in Pack
    BY <1>2, <2>1 DEF CompactTypeOK
  <2>3. CompactTypeOK'
    BY <1>2, <2>1, <2>2 DEF CompactTypeOK
  <2>4. BucketOK'
    BY <2>1 DEF DropPack, BucketOK, TypeInv, TypeOK, StoreTypeOK
  <2>5. LocalsOK' /\ OthersKept(c)
    BY <2>1 DEF casVars, LocalsOK, OthersKept, TypeInv, TypeOK, StoreTypeOK
  <2>6. /\ pc' = [pc EXCEPT ![c] = pc[c]]
        /\ pc[c] \in CompactorPC
        /\ pc[c] \in {"delete", "stat"}
    BY <1>1, <1>2, <1>10, <2>1
       DEF casVars, TypeInv, TypeOK, DeleteSuperseded, StatPack, ReapOrphan
  <2> QED
    BY <1>0, <1>1, <2>3, <2>4, <2>5, <2>6, ClientMoves
<1>11. CASE ListPacks(c) \/ RereadManifest(c) \/ EndSweep(c)
  <2>1. UNCHANGED bucketVars /\ UNCHANGED <<attempt, snap, base, doomed>>
    BY <1>11 DEF ListPacks, RereadManifest, EndSweep
  <2>2. BucketOK' /\ LocalsOK' /\ OthersKept(c)
    BY <2>1, SameBucket
       DEF LocalsOK, OthersKept, TypeInv, TypeOK, StoreTypeOK
  <2>3. \E T \in SUBSET Pack : todo' = [todo EXCEPT ![c] = T]
    <3>1. CASE ListPacks(c)
      BY <1>2, <3>1 DEF ListPacks
    <3>2. CASE RereadManifest(c)
      <4>1. todo[c] \subseteq Pack
        BY <1>2 DEF CompactTypeOK
      <4> QED
        BY <3>2, <4>1 DEF RereadManifest
    <3>3. CASE EndSweep(c)
      BY <3>3 DEF EndSweep
    <3> QED
      BY <1>11, <3>1, <3>2, <3>3
  <2>4. superseded' = superseded \/ superseded' = [superseded EXCEPT ![c] = {}]
    BY <1>11 DEF ListPacks, RereadManifest, EndSweep
  <2>5. CompactTypeOK'
    BY <1>2, <2>1, <2>3, <2>4 DEF CompactTypeOK
  <2>6. \E l \in {"reread", "stat", "done"} : pc' = [pc EXCEPT ![c] = l]
    BY <1>11 DEF ListPacks, RereadManifest, EndSweep, Goto
  <2>7. {"reread", "stat", "done"} \subseteq CompactorPC
    BY DEF CompactorPC
  <2> QED
    BY <1>0, <1>1, <2>2, <2>5, <2>6, <2>7, ClientMoves
<1> QED
  BY <1>0, <1>4, <1>5, <1>6, <1>7, <1>8, <1>9, <1>10, <1>11 DEF CompactStep

\* The clock and the newer client touch the bucket only.
LEMMA EnvironmentTypes ==
    ASSUME TypeInv,
           \/ \E pk \in young : OutliveGrace(pk)
           \/ UpgradeFormat
           \/ UNCHANGED vars
    PROVE  TypeInv'
<1>1. /\ UNCHANGED <<pc, attempt, snap, base>>
      /\ UNCHANGED <<batch, cursor, pack, result, outcome, landed>>
      /\ UNCHANGED <<task, superseded, todo, doomed>>
  BY DEF OutliveGrace, UpgradeFormat, vars, storeVars, casVars, pushVars,
         manageVars, compactVars
<1>2. packs' = packs /\ young' \subseteq young
  BY DEF OutliveGrace, UpgradeFormat, vars, storeVars
<1>3. manifest' \in Manifest
  <2>1. CASE UNCHANGED manifest
    BY <2>1 DEF TypeInv, TypeOK, StoreTypeOK
  <2>2. CASE UpgradeFormat
    <3>1. manifest \in Manifest
      BY DEF TypeInv, TypeOK, StoreTypeOK
    <3>2. SupportedFormat + 1 \in Nat /\ manifest.seq + 1 \in Nat
      BY <3>1, FormatAssumption DEF Manifest
    <3> QED
      BY <2>2, <3>1, <3>2 DEF UpgradeFormat, Manifest
  <2> QED
    BY <2>1, <2>2 DEF OutliveGrace, vars, storeVars
<1> QED
  BY <1>1, <1>2, <1>3 DEF TypeInv, TypeOK, StoreTypeOK, PushTypeOK, Cmds,
                          ManageTypeOK, CompactTypeOK

\* Every step keeps the invariant.
LEMMA NextTypes == TypeInv /\ [Next]_vars => TypeInv'
BY PusherTypes, AdminTypes, CompactorTypes, EnvironmentTypes
   DEF Next, Quiescent

\* Every reachable state is well-typed: whatever the batches, the commands and
\* the interleaving, the manifest stays one the format allows.
THEOREM TypeCorrect == Spec => []TypeOK
<1>1. TypeInv => TypeOK
  BY DEF TypeInv
<1> QED
  BY <1>1, InitTypes, NextTypes, PTL DEF Spec
=============================================================================
