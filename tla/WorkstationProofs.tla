------------------------- MODULE WorkstationProofs -------------------------
(***************************************************************************)
(* Proofs about one clone and what runs on it, for any number of helper    *)
(* sessions and installers, any buckets, regions, refs and batches, and    *)
(* however often the bucket moves.                                         *)
(*                                                                         *)
(* Each argument needs the type of the state and an invariant of its own:  *)
(* Wired relates the config to the installations at work on it, Steady     *)
(* what a calm session holds to where the bucket is, and Talking what a    *)
(* session has collected to the line of the conversation it has reached.   *)
(***************************************************************************)
EXTENDS Workstation, FiniteSetTheorems, SequenceTheorems, TLAPS

-----------------------------------------------------------------------------
(***************************************************************************)
(* The lines of a batch: its leases, its refs, an empty line.              *)
(***************************************************************************)
LeaseOrder(b) == SetToSeq(Leased(b))
Leases(b) == Len(LeaseOrder(b))

\* What holds of every batch that git may mean.
LEMMA BatchType ==
    ASSUME NEW b \in Batches
    PROVE  /\ b \in Batch
           /\ b.kind \in {"push", "fetch"}
           /\ b.cmds \in Seq([ref : Ref, lease : STRING \cup {NoLease}])
           /\ Len(b.cmds) \in Nat \ {0}
           /\ DOMAIN b.cmds = 1..Len(b.cmds)
           /\ \A i \in 1..Len(b.cmds) : /\ b.cmds[i].ref \in Ref
                                        /\ b.cmds[i].lease \in STRING \cup {NoLease}
<1>1. b \in Batch /\ b.cmds # <<>>
  BY HelperAssumption
<1>2. /\ b.kind \in {"push", "fetch"}
      /\ b.cmds \in Seq([ref : Ref, lease : STRING \cup {NoLease}])
  BY <1>1 DEF Batch
<1>3. Len(b.cmds) \in Nat /\ DOMAIN b.cmds = 1..Len(b.cmds)
  BY <1>2
<1>4. Len(b.cmds) # 0
  BY <1>1, <1>2, EmptySeq, LenProperties
<1>5. ASSUME NEW i \in 1..Len(b.cmds)
      PROVE  b.cmds[i].ref \in Ref /\ b.cmds[i].lease \in STRING \cup {NoLease}
  <2>1. b.cmds[i] \in [ref : Ref, lease : STRING \cup {NoLease}]
    BY <1>2, ElementOfSeq
  <2> QED
    BY <2>1
<1> QED
  BY <1>1, <1>2, <1>3, <1>4, <1>5

\* The leases are sent each once, in some order.
LEMMA LeaseOrderType ==
    ASSUME NEW b \in Batches
    PROVE  /\ Leases(b) \in Nat
           /\ LeaseOrder(b) \in [1..Leases(b) -> Leased(b)]
           /\ \A j \in Leased(b) : \E i \in 1..Leases(b) : LeaseOrder(b)[i] = j
           /\ Leased(b) \subseteq 1..Len(b.cmds)
<1> DEFINE n == Cardinality(Leased(b))
<1>1. Leased(b) \subseteq 1..Len(b.cmds)
  BY BatchType DEF Leased
<1>2. IsFiniteSet(Leased(b))
  <2>1. IsFiniteSet(1..Len(b.cmds))
    <3>1. 1 \in Int /\ Len(b.cmds) \in Int
      BY BatchType
    <3> QED
      BY <3>1, FS_Interval
  <2> QED
    BY <1>1, <2>1, FS_Subset
<1>3. n \in Nat /\ ExistsBijection(1..n, Leased(b))
  BY <1>2, FS_CardinalityType
<1>4. \E f \in [1..n -> Leased(b)] : IsInjective(f)
  BY <1>3 DEF ExistsBijection, Bijection, Injection
<1>5. LeaseOrder(b) \in [1..n -> Leased(b)] /\ IsInjective(LeaseOrder(b))
  BY <1>4 DEF LeaseOrder, SetToSeq
<1>6. Leases(b) = n
  BY <1>3, <1>5 DEF Leases
<1>7. LeaseOrder(b) \in Injection(1..n, Leased(b))
  BY <1>5 DEF Injection
<1>8. LeaseOrder(b) \in Surjection(1..n, Leased(b))
  <2>1. IsFiniteSet(1..n) /\ Cardinality(1..n) = n
    BY <1>3, FS_Interval
  <2> QED
    BY <1>2, <1>7, <2>1, FS_Injection
<1> QED
  BY <1>1, <1>3, <1>5, <1>6, <1>8 DEF Surjection

\* A concatenation, element by element.
LEMMA Concat ==
    ASSUME NEW S, NEW s \in Seq(S), NEW t \in Seq(S)
    PROVE  /\ s \o t \in Seq(S)
           /\ Len(s \o t) = Len(s) + Len(t)
           /\ \A i \in 1..Len(s) : (s \o t)[i] = s[i]
           /\ \A i \in 1..Len(t) : (s \o t)[Len(s) + i] = t[i]
BY ConcatProperties

\* What the lines of a batch are, and where.
LEMMA LinesShape ==
    ASSUME NEW b \in Batches
    PROVE  /\ BatchLines(b) \in Seq(GitLine)
           /\ Len(BatchLines(b)) = Leases(b) + Len(b.cmds) + 1
           /\ \A i \in 1..Leases(b) : BatchLines(b)[i] =
                 Line("cas", b.cmds[LeaseOrder(b)[i]].ref, b.cmds[LeaseOrder(b)[i]].lease)
           /\ \A i \in 1..Len(b.cmds) : BatchLines(b)[Leases(b) + i] =
                 Line(b.kind, b.cmds[i].ref, NoLease)
           /\ BatchLines(b)[Leases(b) + Len(b.cmds) + 1] = BlankLine
<1> DEFINE cas  == [i \in 1..Leases(b) |->
                       Line("cas", b.cmds[LeaseOrder(b)[i]].ref,
                                   b.cmds[LeaseOrder(b)[i]].lease)]
           refs == [i \in 1..Len(b.cmds) |-> Line(b.kind, b.cmds[i].ref, NoLease)]
<1>1. /\ Leases(b) \in Nat /\ Len(b.cmds) \in Nat
      /\ \A i \in 1..Leases(b) : LeaseOrder(b)[i] \in 1..Len(b.cmds)
  BY BatchType, LeaseOrderType
<1>2. cas \in Seq(GitLine) /\ Len(cas) = Leases(b)
  <2>1. \A i \in 1..Leases(b) :
           Line("cas", b.cmds[LeaseOrder(b)[i]].ref,
                       b.cmds[LeaseOrder(b)[i]].lease) \in GitLine
    BY <1>1, BatchType DEF GitLine, Line
  <2> QED
    BY <1>1, <2>1, IsASeq, LenProperties
<1>3. refs \in Seq(GitLine) /\ Len(refs) = Len(b.cmds)
  <2>1. \A i \in 1..Len(b.cmds) : Line(b.kind, b.cmds[i].ref, NoLease) \in GitLine
    BY BatchType DEF GitLine, Line
  <2> QED
    BY <1>1, <2>1, IsASeq, LenProperties
<1>4. <<BlankLine>> \in Seq(GitLine) /\ Len(<<BlankLine>>) = 1 /\ <<BlankLine>>[1] = BlankLine
  BY DEF GitLine
<1>5. BatchLines(b) = (cas \o refs) \o <<BlankLine>>
  BY DEF BatchLines, Leases, LeaseOrder
<1> HIDE DEF cas, refs
<1>6. /\ cas \o refs \in Seq(GitLine)
      /\ Len(cas \o refs) = Leases(b) + Len(b.cmds)
      /\ \A i \in 1..Leases(b) : (cas \o refs)[i] = cas[i]
      /\ \A i \in 1..Len(b.cmds) : (cas \o refs)[Leases(b) + i] = refs[i]
  <2>0. cas \in Seq(GitLine) /\ refs \in Seq(GitLine)
    BY <1>2, <1>3
  <2>1. /\ cas \o refs \in Seq(GitLine)
        /\ Len(cas \o refs) = Len(cas) + Len(refs)
        /\ \A i \in 1..Len(cas) : (cas \o refs)[i] = cas[i]
        /\ \A i \in 1..Len(refs) : (cas \o refs)[Len(cas) + i] = refs[i]
    BY <2>0, Concat
  <2> QED
    BY <1>2, <1>3, <2>1
<1>7. /\ BatchLines(b) \in Seq(GitLine)
      /\ Len(BatchLines(b)) = Leases(b) + Len(b.cmds) + 1
      /\ \A i \in 1..(Leases(b) + Len(b.cmds)) : BatchLines(b)[i] = (cas \o refs)[i]
      /\ BatchLines(b)[Leases(b) + Len(b.cmds) + 1] = BlankLine
  <2> DEFINE front == cas \o refs
             n     == Leases(b) + Len(b.cmds)
  <2>1. front \in Seq(GitLine) /\ Len(front) = n /\ n \in Nat
    BY <1>1, <1>6
  <2>2. 1 \in 1..1
    OBVIOUS
  <2> HIDE DEF front, n
  <2>3. /\ front \o <<BlankLine>> \in Seq(GitLine)
        /\ Len(front \o <<BlankLine>>) = n + 1
        /\ \A i \in 1..n : (front \o <<BlankLine>>)[i] = front[i]
        /\ (front \o <<BlankLine>>)[n + 1] = <<BlankLine>>[1]
    BY <1>4, <2>1, <2>2, Concat
  <2> QED
    BY <1>4, <1>5, <2>3 DEF front, n
<1>8. \A i \in 1..Leases(b) : BatchLines(b)[i] = cas[i]
  <2>1. \A i \in 1..Leases(b) : i \in 1..(Leases(b) + Len(b.cmds))
    BY <1>1
  <2> QED
    BY <2>1, <1>6, <1>7
<1>9. \A i \in 1..Len(b.cmds) : BatchLines(b)[Leases(b) + i] = refs[i]
  <2>1. \A i \in 1..Len(b.cmds) : Leases(b) + i \in 1..(Leases(b) + Len(b.cmds))
    BY <1>1
  <2> QED
    BY <2>1, <1>6, <1>7
<1> QED
  BY <1>7, <1>8, <1>9 DEF cas, refs

-----------------------------------------------------------------------------
(***************************************************************************)
(* The type.  That a session pins its client to a region and writes one to *)
(* the config needs the shape of its memory: a client is built only when   *)
(* the bucket is known, and the store only from a client.                  *)
(***************************************************************************)
SessionShape(h) ==
    /\ ~Live(h) => /\ client[h] = Unbuilt /\ store[h] = Unbuilt /\ bucket[h] = None
    /\ at[h] \in {"config", "detect", "cache", "lfs", "get"} \/ client[h] # Unbuilt
          => bucket[h] # None
    /\ at[h] \in {"cache", "lfs", "get"} => client[h] # Unbuilt
    /\ at[h] \in {"config", "detect", "cache"} \/ client[h] = Unbuilt
          => store[h] = Unbuilt
    /\ at[h] = "idle" \/ (at[h] = "read" /\ client[h] = Unbuilt)
          => stdin[h] = <<ListLine>>

Shaped == \A h \in Helper : SessionShape(h)

Typed == WorkstationTypeOK /\ Shaped

\* The bucket behind the remote's URL is a bucket.
LEMMA ResolvedType ==
    ASSUME ConfigTypeOK
    PROVE  Resolved \in Bucket /\ Resolved # None
BY GitConfigAssumption DEF ConfigTypeOK, Resolved, LfsUrl

\* A git config command leaves a config, and an installation its own state.
LEMMA InstallKeepsType ==
    ASSUME ConfigTypeOK, LfsInstallTypeOK, NEW w \in Writer,
           StartAuto(w) \/ InstallerStep(w), UNCHANGED remoteVars
    PROVE  ConfigTypeOK' /\ LfsInstallTypeOK'
<1>0. /\ name \in LfsUrl /\ Resolved \in LfsUrl
      /\ config \in Config
      /\ UNCHANGED <<name, dns, home, moves>>
  BY ResolvedType DEF ConfigTypeOK, LfsUrl, remoteVars
<1>1. CASE StartAuto(w) \/ CheckAgent(w) \/ CheckUrl(w)
  BY <1>0, <1>1 DEF StartAuto, CheckAgent, CheckUrl, Ends, Goes, Wire,
                    ConfigTypeOK, LfsInstallTypeOK
<1>2. CASE StartScoped(w) \/ StartUnscoped(w)
  BY <1>0, <1>2 DEF StartScoped, StartUnscoped, Ends, Goes, Wire,
                    ConfigTypeOK, LfsInstallTypeOK
<1>3. CASE SetPath(w)
  BY <1>0, <1>3 DEF SetPath, WriteFails, Ends, Goes, Wire,
                    ConfigTypeOK, LfsInstallTypeOK, Config
<1>4. CASE SetUrl(w)
  BY <1>0, <1>4 DEF SetUrl, WriteFails, Ends, Goes, Wire,
                    ConfigTypeOK, LfsInstallTypeOK, Config
<1>5. CASE SetAgent(w)
  <2>1. config' \in {config, [config EXCEPT !.agent = Ours],
                     [config EXCEPT !.bound = @ \cup {name}]}
    BY <1>5 DEF SetAgent, WriteFails
  <2>2. config' \in Config
    BY <1>0, <2>1 DEF Config
  <2>3. LfsInstallTypeOK'
    BY <1>5 DEF SetAgent, WriteFails, Ends, Goes, Wire, LfsInstallTypeOK
  <2> QED
    BY <1>0, <2>2, <2>3 DEF ConfigTypeOK
<1>6. CASE UnsetLegacy(w)
  BY <1>0, <1>6 DEF UnsetLegacy, Ends, Wire,
                    ConfigTypeOK, LfsInstallTypeOK, Config
<1> QED
  BY <1>1, <1>2, <1>3, <1>4, <1>5, <1>6 DEF InstallerStep

\* The bucket moves to a region, and the alias to a bucket.
LEMMA BucketChangesKeepType ==
    ASSUME ConfigTypeOK, S3SessionTypeOK, BucketChanges
    PROVE  ConfigTypeOK' /\ S3SessionTypeOK'
<1>1. /\ Resolved \in Bucket
      /\ MaxMoves \in Nat
  BY ResolvedType, GitConfigAssumption
<1>2. ConfigTypeOK'
  <2>1. CASE \E r \in Region : MoveBucket(r)
    BY <1>1, <2>1 DEF MoveBucket, ConfigTypeOK
  <2>2. CASE \E b \in Bucket : Repoint(b)
    BY <1>1, <2>2 DEF Repoint, ConfigTypeOK
  <2> QED
    BY <2>1, <2>2 DEF BucketChanges
<1>3. S3SessionTypeOK'
  BY DEF BucketChanges, S3SessionTypeOK, s3Vars, Live
<1> QED
  BY <1>2, <1>3

\* A session with its client leaves a config and a session of their types.
LEMMA SessionKeepsType ==
    ASSUME ConfigTypeOK, S3SessionTypeOK, NEW h \in Helper, SessionShape(h),
           S3SessionStep(h), UNCHANGED remoteVars
    PROVE  ConfigTypeOK' /\ S3SessionTypeOK'
<1>0. /\ config \in Config
      /\ home \in [Bucket -> Region]
      /\ config.region \in Region \cup {None}
      /\ bucket[h] \in Bucket \cup {None}
      /\ client[h] \in Region \cup {None, Unbuilt}
      /\ store[h] \in Region \cup {None, Unbuilt}
      /\ attempt[h] \in 0..1
      /\ UNCHANGED <<name, dns, home, moves>>
  BY DEF ConfigTypeOK, S3SessionTypeOK, Config, remoteVars
<1>1. CASE StartSession(h)
  BY <1>0, <1>1 DEF StartSession, Goto, s3Vars, ConfigTypeOK, S3SessionTypeOK
<1>2. CASE ReadRegion(h)
  BY <1>0, <1>2 DEF ReadRegion, Builds, Goto, ConfigTypeOK, S3SessionTypeOK
<1>3. CASE DetectRegion(h)
  <2>1. bucket[h] \in Bucket
    BY <1>0, <1>3 DEF DetectRegion, SessionShape
  <2> QED
    BY <1>0, <1>3, <2>1 DEF DetectRegion, Builds, Goto, ConfigTypeOK, S3SessionTypeOK
<1>4. CASE CacheRegion(h)
  <2>1. client[h] \in Region \cup {None}
    BY <1>0, <1>4 DEF CacheRegion, SessionShape
  <2>2. config' \in Config
    BY <1>0, <1>4, <2>1 DEF CacheRegion, Config
  <2>3. S3SessionTypeOK'
    BY <1>0, <1>4, <2>1 DEF CacheRegion, Builds, Goto, S3SessionTypeOK
  <2> QED
    BY <1>0, <2>2, <2>3 DEF ConfigTypeOK
<1>5. CASE AfterInstall(h) \/ GetManifest(h)
  BY <1>0, <1>5 DEF AfterInstall, GetManifest, Goto, StoreRegion, s3Vars,
                    ConfigTypeOK, S3SessionTypeOK
<1>6. CASE DropRegion(h)
  <2>1. config' \in Config
    BY <1>0, <1>6 DEF DropRegion, Config
  <2>2. attempt' \in [Helper -> 0..1]
    <3>1. attempt[h] = 0 /\ attempt' = [attempt EXCEPT ![h] = 0 + 1]
      BY <1>6 DEF DropRegion, MayRetry
    <3>2. 0 + 1 \in 0..1
      OBVIOUS
    <3> QED
      BY <3>1, <3>2 DEF S3SessionTypeOK
  <2>3. S3SessionTypeOK'
    BY <1>0, <1>6, <2>2 DEF DropRegion, Goto, S3SessionTypeOK
  <2> QED
    BY <1>0, <2>1, <2>3 DEF ConfigTypeOK
<1>7. CASE ListFails(h)
  BY <1>0, <1>7 DEF ListFails, Exits, Goto, ConfigTypeOK, S3SessionTypeOK
<1> QED
  BY <1>1, <1>2, <1>3, <1>4, <1>5, <1>6, <1>7 DEF S3SessionStep

\* Whatever a session does is nothing to the others, unless it talks for them.
LEMMA OthersKeepShape ==
    ASSUME NEW l \in Helper, SessionShape(l),
           UNCHANGED <<at[l], client[l], store[l], bucket[l], stdin[l]>>
    PROVE  SessionShape(l)'
BY DEF SessionShape, Live, ListLine, Line

\* A session with its client keeps the shape of its memory.
LEMMA SessionKeepsShape ==
    ASSUME ConfigTypeOK, S3SessionTypeOK, Shaped, NEW h \in Helper,
           S3SessionStep(h), UNCHANGED stdin
    PROVE  Shaped'
<1>0. /\ Unbuilt \notin Region \cup {None}
      /\ config.region \in Region \cup {None}
      /\ home \in [Bucket -> Region]
      /\ bucket[h] \in Bucket \cup {None}
      /\ SessionShape(h)
      /\ None \notin Bucket
  BY S3SessionAssumption, GitConfigAssumption
     DEF ConfigTypeOK, S3SessionTypeOK, Config, Shaped
<1>1. ASSUME NEW l \in Helper, l # h
      PROVE  SessionShape(l)'
  <2>1. UNCHANGED <<at[l], client[l], store[l], bucket[l]>>
    BY <1>1 DEF S3SessionStep, StartSession, ReadRegion, DetectRegion,
       CacheRegion, AfterInstall, GetManifest, DropRegion, ListFails, Exits,
       Builds, Goto, s3Vars, S3SessionTypeOK
  <2> QED
    BY <2>1, OthersKeepShape DEF Shaped
<1>2. SessionShape(h)'
  <2>1. CASE StartSession(h) \/ AfterInstall(h)
    BY <1>0, <2>1 DEF StartSession, AfterInstall, Goto, s3Vars, SessionShape,
                      Live, S3SessionTypeOK, ListLine, Line
  <2>2. CASE ReadRegion(h)
    BY <1>0, <2>2 DEF ReadRegion, Builds, Goto, SessionShape, Live, S3SessionTypeOK
  <2>3. CASE DetectRegion(h)
    <3>1. home[bucket[h]] # Unbuilt
      BY <1>0, <2>3 DEF DetectRegion, SessionShape
    <3> QED
      BY <1>0, <2>3, <3>1 DEF DetectRegion, Builds, Goto, SessionShape, Live, S3SessionTypeOK
  <2>4. CASE CacheRegion(h)
    BY <1>0, <2>4 DEF CacheRegion, Builds, Goto, SessionShape, Live, S3SessionTypeOK
  <2>5. CASE GetManifest(h)
    BY <1>0, <2>5 DEF GetManifest, StoreRegion, Goto, SessionShape, Live, S3SessionTypeOK
  <2>6. CASE DropRegion(h)
    BY <1>0, <2>6 DEF DropRegion, Goto, SessionShape, Live, S3SessionTypeOK
  <2>7. CASE ListFails(h)
    BY <1>0, <2>7 DEF ListFails, Exits, Goto, SessionShape, Live, S3SessionTypeOK
  <2> QED
    BY <2>1, <2>2, <2>3, <2>4, <2>5, <2>6, <2>7 DEF S3SessionStep
<1> QED
  BY <1>1, <1>2 DEF Shaped

\* What h reads next, and what is left to read then.
LEMMA HeardType ==
    ASSUME HelperTypeOK, NEW h \in Helper, stdin[h] # <<>>
    PROVE  /\ stdin[h] \in Seq(GitLine)
           /\ Len(stdin[h]) \in Nat \ {0}
           /\ Heard(h) = stdin[h][1]
           /\ Heard(h) \in GitLine
           /\ Tail(stdin[h]) \in Seq(GitLine)
           /\ Len(Tail(stdin[h])) = Len(stdin[h]) - 1
           /\ \A i \in 1..(Len(stdin[h]) - 1) : Tail(stdin[h])[i] = stdin[h][i + 1]
           /\ Tail(stdin[h]) # <<>> =>
                 Tail(stdin[h])[Len(Tail(stdin[h]))] \in {ListLine, BlankLine}
<1>1. stdin[h] \in Seq(GitLine)
  BY DEF HelperTypeOK
<1>2. Len(stdin[h]) \in Nat \ {0}
  BY <1>1, EmptySeq
<1>3. /\ Heard(h) = stdin[h][1]
      /\ Heard(h) \in GitLine
  BY <1>1, <1>2, HeadTailProperties, ElementOfSeq DEF Heard
<1>4. /\ Tail(stdin[h]) \in Seq(GitLine)
      /\ Len(Tail(stdin[h])) = Len(stdin[h]) - 1
      /\ \A i \in 1..(Len(stdin[h]) - 1) : Tail(stdin[h])[i] = stdin[h][i + 1]
  BY <1>1, <1>2, HeadTailProperties
<1>5. ASSUME Tail(stdin[h]) # <<>>
      PROVE  Tail(stdin[h])[Len(Tail(stdin[h]))] \in {ListLine, BlankLine}
  <2>1. Len(stdin[h]) - 1 # 0
    BY <1>4, <1>5, EmptySeq
  <2>2. Tail(stdin[h])[Len(stdin[h]) - 1] = stdin[h][Len(stdin[h])]
    <3>1. /\ Len(stdin[h]) - 1 \in 1..(Len(stdin[h]) - 1)
          /\ (Len(stdin[h]) - 1) + 1 = Len(stdin[h])
      <4>1. \A n \in Nat \ {0} : n - 1 # 0 => n - 1 \in 1..(n - 1) /\ (n - 1) + 1 = n
        OBVIOUS
      <4> QED
        BY <1>2, <2>1, <4>1
    <3> QED
      BY <1>4, <3>1
  <2> QED
    BY <1>4, <2>2 DEF HelperTypeOK
<1> QED
  BY <1>1, <1>2, <1>3, <1>4, <1>5

\* A lease or a ref that is read has a ref and a lease.
LEMMA HeardRef ==
    ASSUME HelperTypeOK, NEW h \in Helper, stdin[h] # <<>>,
           Heard(h).op \in {"cas", "push", "fetch"}
    PROVE  Heard(h).ref \in Ref /\ Heard(h).lease \in STRING \cup {NoLease}
<1>1. Heard(h) \in GitLine
  BY HeardType
<1>2. Heard(h) # ListLine /\ Heard(h) # BlankLine
  BY DEF ListLine, BlankLine, Line
<1> QED
  BY <1>1, <1>2 DEF GitLine

\* The next line has been read.
LEMMA HearsKeepsStdin ==
    ASSUME HelperTypeOK, NEW h \in Helper, NEW what, Hears(h, what)
    PROVE  /\ stdin' \in [Helper -> Seq(GitLine)]
           /\ \A l \in Helper : stdin'[l] # <<>> =>
                 stdin'[l][Len(stdin'[l])] \in {ListLine, BlankLine}
<1>1. stdin' = [stdin EXCEPT ![h] = Tail(stdin[h])] /\ stdin[h] # <<>>
  BY DEF Hears
<1>2. /\ Tail(stdin[h]) \in Seq(GitLine)
      /\ Tail(stdin[h]) # <<>> =>
            Tail(stdin[h])[Len(Tail(stdin[h]))] \in {ListLine, BlankLine}
  BY <1>1, HeardType
<1> QED
  BY <1>1, <1>2 DEF HelperTypeOK

\* Lines that git writes.
LEMMA GitSaysType ==
    ASSUME HelperTypeOK, NEW h \in Helper, GitSays(h)
    PROVE  HelperTypeOK'
<1>1. UNCHANGED batchVars
  BY DEF GitSays
<1>2. ASSUME NEW b \in Batches, Len(says[h]) < MaxTalk,
             says' = [says EXCEPT ![h] = Append(@, b)],
             stdin' = [stdin EXCEPT ![h] = BatchLines(b)], UNCHANGED closed
      PROVE  HelperTypeOK'
  <2>1. /\ BatchLines(b) \in Seq(GitLine)
        /\ BatchLines(b)[Len(BatchLines(b))] = BlankLine
    BY <1>2, LinesShape
  <2>2. /\ says[h] \in Seq(Batches)
        /\ Append(says[h], b) \in Seq(Batches)
        /\ Len(Append(says[h], b)) = Len(says[h]) + 1
        /\ Len(says[h]) \in Nat /\ MaxTalk \in Nat
    BY <1>2, HelperAssumption, AppendProperties, LenProperties DEF HelperTypeOK
  <2>3. Len(Append(says[h], b)) <= MaxTalk
    BY <1>2, <2>2
  <2> QED
    BY <1>1, <1>2, <2>1, <2>2, <2>3 DEF HelperTypeOK, batchVars
<1>3. CASE stdin' = [stdin EXCEPT ![h] = <<BlankLine>>]
           /\ closed' = [closed EXCEPT ![h] = TRUE] /\ UNCHANGED says
  <2>1. /\ <<BlankLine>> \in Seq(GitLine)
        /\ <<BlankLine>>[Len(<<BlankLine>>)] = BlankLine
    BY DEF GitLine
  <2> QED
    BY <1>1, <1>3, <2>1 DEF HelperTypeOK, batchVars
<1> QED
  BY <1>2, <1>3 DEF GitSays

\* The lines of a batch are collected.
LEMMA CollectsType ==
    ASSUME HelperTypeOK, NEW h \in Helper,
           ListCommand(h) \/ CasOption(h) \/ PushLine(h) \/ FetchLine(h)
    PROVE  HelperTypeOK'
<1>1. CASE ListCommand(h)
  BY <1>1, HearsKeepsStdin DEF ListCommand, gitVars, batchVars, HelperTypeOK
<1>2. CASE CasOption(h)
  <2>1. Heard(h).ref \in Ref /\ Heard(h).lease \in STRING \cup {NoLease}
    BY <1>2, HeardRef DEF CasOption, Hears, Heard
  <2> QED
    BY <1>2, <2>1, HearsKeepsStdin DEF CasOption, gitVars, HelperTypeOK
<1>3. CASE PushLine(h)
  <2>1. Heard(h).ref \in Ref
    BY <1>3, HeardRef DEF PushLine, Hears, Heard
  <2>2. Append(IF mode[h] = "push" THEN pushCmds[h] ELSE <<>>, Heard(h).ref) \in Seq(Ref)
    BY <2>1 DEF HelperTypeOK
  <2> QED
    BY <1>3, <2>2, HearsKeepsStdin DEF PushLine, gitVars, HelperTypeOK
<1>4. CASE FetchLine(h)
  <2>1. Heard(h).ref \in Ref
    BY <1>4, HeardRef DEF FetchLine, Hears, Heard
  <2>2. Append(IF mode[h] = "fetch" THEN fetchCmds[h] ELSE <<>>, Heard(h).ref) \in Seq(Ref)
    BY <2>1 DEF HelperTypeOK
  <2> QED
    BY <1>4, <2>2, HearsKeepsStdin DEF FetchLine, gitVars, HelperTypeOK
<1> QED
  BY <1>1, <1>2, <1>3, <1>4

\* A batch is run.
LEMMA RunsType ==
    ASSUME HelperTypeOK, NEW h \in Helper, NEW what \in {"push", "fetch"},
           NEW cmds \in Seq(Ref), NEW leases \in [Ref -> STRING \cup {NoLease}],
           Runs(h, what, cmds, leases)
    PROVE  ran' \in [Helper -> Seq(Batch)]
<1> DEFINE list == [i \in 1..Len(cmds) |-> [ref |-> cmds[i], lease |-> leases[cmds[i]]]]
<1>1. list \in Seq([ref : Ref, lease : STRING \cup {NoLease}])
  <2>1. Len(cmds) \in Nat
    OBVIOUS
  <2>2. \A i \in 1..Len(cmds) : [ref |-> cmds[i], lease |-> leases[cmds[i]]]
                                    \in [ref : Ref, lease : STRING \cup {NoLease}]
    OBVIOUS
  <2> QED
    BY <2>1, <2>2, IsASeq
<1>2. [kind |-> what, cmds |-> list] \in Batch
  BY <1>1 DEF Batch
<1> HIDE DEF list
<1>3. Append(ran[h], [kind |-> what, cmds |-> list]) \in Seq(Batch)
  BY <1>2 DEF HelperTypeOK
<1> QED
  BY <1>3 DEF Runs, HelperTypeOK, list

\* An empty line that ends a batch, or nothing, leaves the session well-typed.
LEMMA EmptyLineType ==
    ASSUME HelperTypeOK, NEW h \in Helper, EmptyLine(h)
    PROVE  HelperTypeOK'
<1>0. /\ NoLeases \in [Ref -> STRING \cup {NoLease}]
      /\ <<>> \in Seq(Ref)
      /\ pushCmds[h] \in Seq(Ref) /\ fetchCmds[h] \in Seq(Ref)
      /\ casRefs[h] \in [Ref -> STRING \cup {NoLease}]
      /\ UNCHANGED <<says, closed, mode>>
  BY DEF NoLeases, HelperTypeOK, EmptyLine, gitVars
<1>1. ran' \in [Helper -> Seq(Batch)]
  BY <1>0, RunsType DEF EmptyLine, RunPushBatch, RunFetchBatch, NothingToRun, HelperTypeOK
<1>2. /\ pushCmds' \in [Helper -> Seq(Ref)]
      /\ fetchCmds' \in [Helper -> Seq(Ref)]
      /\ casRefs' \in [Helper -> [Ref -> STRING \cup {NoLease}]]
  BY <1>0 DEF EmptyLine, RunPushBatch, RunFetchBatch, NothingToRun, HelperTypeOK
<1>3. /\ stdin' \in [Helper -> Seq(GitLine)]
      /\ \A l \in Helper : stdin'[l] # <<>> =>
            stdin'[l][Len(stdin'[l])] \in {ListLine, BlankLine}
  BY HearsKeepsStdin DEF EmptyLine
<1> QED
  BY <1>0, <1>1, <1>2, <1>3 DEF HelperTypeOK

\* The session ends.
LEMMA HangsUpType ==
    ASSUME HelperTypeOK, NEW h \in Helper, HangsUp(h)
    PROVE  HelperTypeOK'
<1>1. /\ NoLeases \in [Ref -> STRING \cup {NoLease}]
      /\ <<>> \in Seq(Ref) /\ <<>> \in Seq(Batches) /\ <<>> \in Seq(Batch)
      /\ <<>> \in Seq(GitLine)
      /\ Len(<<>>) <= MaxTalk
  BY HelperAssumption DEF NoLeases
<1> QED
  BY <1>1 DEF HangsUp, HelperTypeOK

\* A process that ends leaves a session of its type, and nothing of its shape.
LEMMA ExitsType ==
    ASSUME S3SessionTypeOK, NEW h \in Helper, NEW how \in {"done", "redirected"},
           Exits(h, how)
    PROVE  S3SessionTypeOK' /\ SessionShape(h)'
<1>1. S3SessionTypeOK'
  BY DEF Exits, Goto, S3SessionTypeOK
<1>2. SessionShape(h)'
  BY DEF Exits, Goto, S3SessionTypeOK, SessionShape, Live
<1> QED
  BY <1>1, <1>2

\* A step of a session keeps the types and the shape.
LEMMA HelperKeepsType ==
    ASSUME Typed, NEW h \in Helper, HelperStep(h)
    PROVE  ConfigTypeOK' /\ S3SessionTypeOK' /\ HelperTypeOK' /\ Shaped'
<1>0. /\ ConfigTypeOK /\ S3SessionTypeOK /\ HelperTypeOK /\ Shaped
      /\ UNCHANGED remoteVars
  BY DEF Typed, WorkstationTypeOK, HelperStep
<1>1. CASE S3SessionStep(h) /\ UNCHANGED protocolVars
  <2>1. ConfigTypeOK' /\ S3SessionTypeOK'
    BY <1>0, <1>1, SessionKeepsType DEF Shaped
  <2>2. Shaped'
    BY <1>0, <1>1, SessionKeepsShape DEF protocolVars
  <2>3. HelperTypeOK'
    BY <1>0, <1>1 DEF protocolVars, gitVars, batchVars, HelperTypeOK
  <2> QED
    BY <2>1, <2>2, <2>3
<1>2. CASE GitSays(h) \/ CasOption(h) \/ PushLine(h) \/ FetchLine(h) \/ EmptyLine(h)
  <2>1. /\ UNCHANGED <<config, at, bucket, client, store, fromConfig, attempt, calm>>
        /\ at[h] = "read"
    BY <1>2 DEF GitSays, CasOption, PushLine, FetchLine, EmptyLine, Hears,
                sessionVars, s3Vars
  <2>2. ConfigTypeOK' /\ S3SessionTypeOK'
    BY <1>0, <2>1 DEF ConfigTypeOK, S3SessionTypeOK, remoteVars
  <2>3. HelperTypeOK'
    BY <1>0, <1>2, GitSaysType, CollectsType, EmptyLineType
  <2>4. stdin[h] # <<ListLine>>
    <3>1. Head(<<ListLine>>).op = "list" /\ <<ListLine>> # <<>>
      BY DEF ListLine, Line
    <3> QED
      BY <1>2, <3>1 DEF GitSays, CasOption, PushLine, FetchLine, EmptyLine, Hears
  <2>5. \A l \in Helper : l # h => stdin'[l] = stdin[l]
    BY <1>0, <1>2 DEF GitSays, CasOption, PushLine, FetchLine, EmptyLine, Hears,
                      HelperTypeOK
  <2>6. SessionShape(h)'
    BY <1>0, <2>1, <2>4 DEF Shaped, SessionShape, Live
  <2>7. ASSUME NEW l \in Helper, l # h
        PROVE  SessionShape(l)'
    BY <1>0, <2>1, <2>5, <2>7, OthersKeepShape DEF Shaped
  <2> QED
    BY <2>2, <2>3, <2>6, <2>7 DEF Shaped
<1>3. CASE ListCommand(h)
  <2>1. /\ UNCHANGED <<config, client, store, fromConfig, calm>>
        /\ List(h)
    BY <1>3 DEF ListCommand, List
  <2>2. Resolved \in Bucket /\ Resolved # None
    BY <1>0, ResolvedType
  <2>3. ConfigTypeOK' /\ S3SessionTypeOK'
    BY <1>0, <2>1, <2>2 DEF List, Goto, ConfigTypeOK, S3SessionTypeOK, remoteVars
  <2>4. HelperTypeOK'
    BY <1>0, <1>3, CollectsType
  <2>5. SessionShape(h)'
    BY <1>0, <2>1, <2>2 DEF List, Goto, Shaped, SessionShape, Live, S3SessionTypeOK
  <2>6. ASSUME NEW l \in Helper, l # h
        PROVE  SessionShape(l)'
    <3>1. UNCHANGED <<at[l], client[l], store[l], bucket[l], stdin[l]>>
      BY <1>0, <1>3, <2>1, <2>6 DEF ListCommand, Hears, List, Goto, S3SessionTypeOK,
                                    HelperTypeOK
    <3> QED
      BY <1>0, <3>1, OthersKeepShape DEF Shaped
  <2> QED
    BY <2>3, <2>4, <2>5, <2>6 DEF Shaped
<1>4. CASE BatchRedirected(h) \/ EndOfInput(h) \/ SessionRaises(h)
  <2>1. PICK how \in {"done", "redirected"} :
           Exits(h, how) /\ HangsUp(h) /\ UNCHANGED config
    BY <1>4 DEF BatchRedirected, EndOfInput, SessionRaises
  <2>2. S3SessionTypeOK' /\ SessionShape(h)'
    BY <1>0, <2>1, ExitsType
  <2>3. HelperTypeOK'
    BY <1>0, <2>1, HangsUpType
  <2>4. ConfigTypeOK'
    BY <1>0, <2>1 DEF ConfigTypeOK, remoteVars
  <2>5. ASSUME NEW l \in Helper, l # h
        PROVE  SessionShape(l)'
    <3>1. UNCHANGED <<at[l], client[l], store[l], bucket[l], stdin[l]>>
      BY <1>0, <2>1, <2>5 DEF Exits, HangsUp, Goto, S3SessionTypeOK, HelperTypeOK
    <3> QED
      BY <1>0, <3>1, OthersKeepShape DEF Shaped
  <2> QED
    BY <2>2, <2>3, <2>4, <2>5 DEF Shaped
<1> QED
  BY <1>1, <1>2, <1>3, <1>4 DEF HelperStep

\* Everything keeps the types and the shape.
LEMMA StepKeepsType ==
    ASSUME Typed, [WorkstationNext]_workstationVars
    PROVE  Typed'
<1>0. /\ ConfigTypeOK /\ LfsInstallTypeOK /\ S3SessionTypeOK /\ HelperTypeOK
      /\ Shaped
  BY DEF Typed, WorkstationTypeOK
<1>1. CASE BucketChanges
  <2>1. ConfigTypeOK' /\ S3SessionTypeOK'
    BY <1>0, <1>1, BucketChangesKeepType
  <2>2. UNCHANGED <<installVars, at, s3Vars, protocolVars>>
    BY <1>1 DEF BucketChanges
  <2>3. LfsInstallTypeOK' /\ HelperTypeOK'
    BY <1>0, <2>2 DEF installVars, protocolVars, gitVars, batchVars,
                      LfsInstallTypeOK, HelperTypeOK
  <2>4. Shaped'
    BY <1>0, <2>2, OthersKeepShape DEF s3Vars, protocolVars, Shaped
  <2> QED
    BY <2>1, <2>3, <2>4 DEF Typed, WorkstationTypeOK
<1>2. CASE \E h \in Helper : HelperStep(h) /\ UNCHANGED installVars
  <2>1. ConfigTypeOK' /\ S3SessionTypeOK' /\ HelperTypeOK' /\ Shaped'
    BY <1>2, HelperKeepsType
  <2>2. LfsInstallTypeOK'
    BY <1>0, <1>2 DEF installVars, LfsInstallTypeOK
  <2> QED
    BY <2>1, <2>2 DEF Typed, WorkstationTypeOK
<1>3. CASE \/ \E h \in Helper : AutoInstalls(h)
           \/ \E w \in Installers : InstallerStep(w) /\ UNCHANGED helperVars
  <2>1. PICK w \in Writer : StartAuto(w) \/ InstallerStep(w)
    BY <1>3 DEF AutoInstalls, Writer, Helper
  <2>2. UNCHANGED remoteVars /\ UNCHANGED helperVars
    BY <1>3 DEF AutoInstalls, InstallerStep
  <2>3. ConfigTypeOK' /\ LfsInstallTypeOK'
    BY <1>0, <2>1, <2>2, InstallKeepsType
  <2>4. S3SessionTypeOK' /\ HelperTypeOK' /\ Shaped'
    <3>1. UNCHANGED <<at, bucket, client, store, fromConfig, attempt, calm>>
      BY <2>2 DEF helperVars, sessionVars, s3Vars
    <3>2. UNCHANGED <<says, closed, stdin, mode, pushCmds, fetchCmds, casRefs, ran>>
      BY <2>2 DEF helperVars, protocolVars, gitVars, batchVars
    <3> QED
      BY <1>0, <3>1, <3>2, OthersKeepShape DEF S3SessionTypeOK, HelperTypeOK, Shaped
  <2> QED
    BY <2>3, <2>4 DEF Typed, WorkstationTypeOK
<1>4. CASE UNCHANGED workstationVars
  BY <1>0, <1>4, OthersKeepShape
     DEF workstationVars, configVars, remoteVars, installVars, helperVars,
         sessionVars, s3Vars, protocolVars, gitVars, batchVars,
         ConfigTypeOK, LfsInstallTypeOK, S3SessionTypeOK, HelperTypeOK, Shaped,
         Typed, WorkstationTypeOK
<1> QED
  BY <1>1, <1>2, <1>3, <1>4 DEF WorkstationNext, AllEnded

\* A run starts well-typed.
LEMMA InitTyped == WorkstationInit => Typed
<1> SUFFICES ASSUME WorkstationInit
             PROVE  Typed
  OBVIOUS
<1>1. ConfigTypeOK
  BY GitConfigAssumption DEF WorkstationInit, ConfigInit, ConfigTypeOK
<1>2. LfsInstallTypeOK
  BY DEF WorkstationInit, InstallInit, LfsInstallTypeOK
<1>3. S3SessionTypeOK
  BY DEF WorkstationInit, S3SessionInit, S3SessionTypeOK
<1>4. HelperTypeOK
  <2>1. /\ NoLeases \in [Ref -> STRING \cup {NoLease}]
        /\ <<>> \in Seq(Ref) /\ <<>> \in Seq(Batches) /\ <<>> \in Seq(Batch)
        /\ <<ListLine>> \in Seq(GitLine)
        /\ <<ListLine>>[Len(<<ListLine>>)] = ListLine
        /\ Len(<<>>) <= MaxTalk
    BY HelperAssumption DEF NoLeases, GitLine
  <2> QED
    BY <2>1 DEF WorkstationInit, HelperInit, HelperTypeOK
<1>5. Shaped
  BY DEF WorkstationInit, S3SessionInit, HelperInit, Shaped, SessionShape, Live
<1> QED
  BY <1>1, <1>2, <1>3, <1>4, <1>5 DEF Typed, WorkstationTypeOK

\* Whatever sessions and installers do, and whatever git writes, the config
\* and what each of them holds in memory are values the program can have.
THEOREM WorkstationTyped == WorkstationSpec => []WorkstationTypeOK
<1>1. WorkstationInit => Typed
  BY InitTyped
<1>2. Typed /\ [WorkstationNext]_workstationVars => Typed'
  BY StepKeepsType
<1>3. Typed => WorkstationTypeOK
  BY DEF Typed
<1> QED
  BY <1>1, <1>2, <1>3, PTL DEF WorkstationSpec

-----------------------------------------------------------------------------
(***************************************************************************)
(* QuietMeansBound.  An installation that is about to write the endpoint   *)
(* has written the path, one that is about to bind the endpoint will do    *)
(* so or tear the config, and only a binding that is not the remote's own  *)
(* is ever taken away.                                                     *)
(***************************************************************************)
PathFirst ==
    /\ \A w \in Writer : wiring[w] \in {"url", "agent", "unset"} => config.path
    /\ config.lfsurl \in LfsUrl => config.path

RetiresAnother ==
    \A w \in Writer : retired[w] # None =>
        /\ kind[w] = "scoped"
        /\ retired[w] # name
        /\ wiring[w] \in {"path", "url", "agent", "unset"}
        /\ wiring[w] \in {"agent", "unset"} => config.lfsurl = name

Binding(w) == wiring[w] = "agent" /\ kind[w] # "unscoped"

BoundOrBinding ==
    /\ \A w \in Writer : wiring[w] = "url" => kind[w] # "unscoped"
    /\ config.lfsurl \in LfsUrl \ {name} => config.lfsurl \in config.bound
    /\ config.lfsurl = name =>
          name \in config.bound \/ \E w \in Writer : Binding(w)

Wired ==
    /\ RetiresAnother
    /\ ~torn => PathFirst /\ BoundOrBinding

\* What installs leaves alone what Wired speaks of.
LEMMA WiredFrame ==
    ASSUME Wired, UNCHANGED <<config.path, config.lfsurl, config.bound, name>>,
           UNCHANGED installVars
    PROVE  Wired'
BY DEF Wired, RetiresAnother, PathFirst, BoundOrBinding, Binding, installVars, LfsUrl

\* An installation that is not at its end wrote what it wrote in that order.
LEMMA InstallKeepsWired ==
    ASSUME ConfigTypeOK, LfsInstallTypeOK, Wired, NEW w \in Writer,
           StartAuto(w) \/ InstallerStep(w), UNCHANGED remoteVars
    PROVE  Wired'
<1>0. /\ name \in LfsUrl /\ name # None
      /\ config \in Config
      /\ UNCHANGED name
      /\ RetiresAnother
      /\ ~torn => PathFirst /\ BoundOrBinding
      /\ torn \in BOOLEAN
      /\ UNCHANGED LfsUrl
  BY GitConfigAssumption DEF ConfigTypeOK, LfsUrl, remoteVars, Wired, LfsInstallTypeOK
<1>1. CASE StartAuto(w) \/ CheckAgent(w) \/ CheckUrl(w)
  BY <1>0, <1>1 DEF StartAuto, CheckAgent, CheckUrl, Ends, Goes, Wire, Wired,
     RetiresAnother, PathFirst, BoundOrBinding, Binding, LfsInstallTypeOK
<1>2. CASE StartScoped(w) \/ StartUnscoped(w)
  BY <1>0, <1>2 DEF StartScoped, StartUnscoped, Retires, Ends, Goes, Wire, Wired,
     RetiresAnother, PathFirst, BoundOrBinding, Binding, LfsInstallTypeOK
<1>3. CASE SetPath(w)
  <2>1. /\ wiring[w] = "path"
        /\ UNCHANGED <<config.lfsurl, config.bound>>
        /\ config.path => config'.path
    BY <1>0, <1>3 DEF SetPath, WriteFails, Config
  <2>2. /\ \A v \in Writer : v # w => /\ wiring'[v] = wiring[v]
                                      /\ kind'[v] = kind[v]
                                      /\ retired'[v] = retired[v]
        /\ retired'[w] \in {None, retired[w]}
        /\ retired'[w] # None => kind'[w] = kind[w]
        /\ wiring'[w] \in {"url", "agent", "done"}
        /\ wiring'[w] = "url" => kind'[w] # "unscoped"
        /\ wiring'[w] = "agent" => kind[w] = "unscoped"
        /\ wiring'[w] = "done" => retired'[w] = None
        /\ ~torn' => ~torn /\ (wiring'[w] # "done" => config'.path)
    BY <1>0, <1>3 DEF SetPath, WriteFails, Ends, Goes, Wire, LfsInstallTypeOK, Config
  <2>3. RetiresAnother'
    BY <1>0, <2>1, <2>2 DEF RetiresAnother
  <2>4. ~torn' => PathFirst'
    BY <1>0, <2>1, <2>2 DEF PathFirst
  <2>5. ~torn' => BoundOrBinding'
    BY <1>0, <2>1, <2>2 DEF BoundOrBinding, Binding
  <2> QED
    BY <2>3, <2>4, <2>5 DEF Wired
<1>4. CASE SetUrl(w)
  BY <1>0, <1>4 DEF SetUrl, WriteFails, Ends, Goes, Wire, Wired,
     RetiresAnother, PathFirst, BoundOrBinding, Binding, LfsInstallTypeOK, Config
<1>5. CASE SetAgent(w)
  BY <1>0, <1>5 DEF SetAgent, WriteFails, Ends, Goes, Wire, Wired,
     RetiresAnother, PathFirst, BoundOrBinding, Binding, LfsInstallTypeOK, Config
<1>6. CASE UnsetLegacy(w)
  <2>1. /\ wiring[w] = "unset"
        /\ UNCHANGED <<config.path, config.lfsurl, torn>>
        /\ config'.bound \in {config.bound, config.bound \ {retired[w]}}
    BY <1>0, <1>6 DEF UnsetLegacy, Config
  <2>2. /\ \A v \in Writer : v # w => /\ wiring'[v] = wiring[v]
                                      /\ kind'[v] = kind[v]
                                      /\ retired'[v] = retired[v]
        /\ wiring'[w] = "done" /\ retired'[w] = None
    BY <1>0, <1>6 DEF UnsetLegacy, Ends, Wire, LfsInstallTypeOK
  <2>3. config'.bound = config.bound \/ (config.lfsurl = name /\ retired[w] # name)
    <3>1. CASE retired[w] # None
      BY <1>0, <2>1, <3>1 DEF RetiresAnother
    <3>2. CASE retired[w] = None
      <4>1. None \notin config.bound
        BY <1>0, GitConfigAssumption DEF Config, LfsUrl
      <4> QED
        BY <2>1, <3>2, <4>1
    <3> QED
      BY <3>1, <3>2
  <2>4. RetiresAnother'
    BY <1>0, <2>1, <2>2 DEF RetiresAnother
  <2>5. ~torn' => PathFirst'
    BY <1>0, <2>1, <2>2 DEF PathFirst
  <2>6. ~torn' => BoundOrBinding'
    BY <1>0, <2>1, <2>2, <2>3 DEF BoundOrBinding, Binding
  <2> QED
    BY <2>4, <2>5, <2>6 DEF Wired
<1> QED
  BY <1>1, <1>2, <1>3, <1>4, <1>5, <1>6 DEF InstallerStep

\* Sessions write the region, and no other key.
LEMMA HelperKeepsWires ==
    ASSUME ConfigTypeOK, NEW h \in Helper, HelperStep(h)
    PROVE  UNCHANGED <<config.path, config.lfsurl, config.bound, name>>
BY DEF HelperStep, S3SessionStep, StartSession, ReadRegion, DetectRegion,
       CacheRegion, AfterInstall, GetManifest, DropRegion, ListFails, GitSays,
       ListCommand, CasOption, PushLine, FetchLine, EmptyLine, BatchRedirected,
       EndOfInput, SessionRaises, remoteVars, ConfigTypeOK, Config

\* Every step of the workstation keeps the wiring as an installer means it.
LEMMA StepKeepsWired ==
    ASSUME Typed, Wired, [WorkstationNext]_workstationVars
    PROVE  Wired'
<1>0. ConfigTypeOK /\ LfsInstallTypeOK
  BY DEF Typed, WorkstationTypeOK
<1>1. CASE BucketChanges
  BY <1>1, WiredFrame DEF BucketChanges, MoveBucket, Repoint
<1>2. CASE \E h \in Helper : HelperStep(h) /\ UNCHANGED installVars
  BY <1>0, <1>2, HelperKeepsWires, WiredFrame
<1>3. CASE \/ \E h \in Helper : AutoInstalls(h)
           \/ \E w \in Installers : InstallerStep(w) /\ UNCHANGED helperVars
  <2>1. PICK w \in Writer : StartAuto(w) \/ InstallerStep(w)
    BY <1>3 DEF AutoInstalls, Writer, Helper
  <2>2. UNCHANGED remoteVars
    BY <1>3 DEF AutoInstalls, InstallerStep
  <2> QED
    BY <1>0, <2>1, <2>2, InstallKeepsWired
<1>4. CASE UNCHANGED workstationVars
  BY <1>4, WiredFrame DEF workstationVars, configVars, remoteVars
<1> QED
  BY <1>1, <1>2, <1>3, <1>4 DEF WorkstationNext, AllEnded

\* The clone that a run starts with has a whole installation, or none.
StartsWhole ==
    \A c \in Clones : c.config.lfsurl \in LfsUrl =>
        c.config.path /\ c.config.lfsurl \in c.config.bound

\* However sessions and git-lfs-s3 install interleave, and whatever an alias
\* did when an older version installed: once no installation is at work, and
\* unless a write was lost, an endpoint of ours has the agent bound to it.
THEOREM QuietEndpointIsBound ==
    ASSUME StartsWhole
    PROVE  WorkstationSpec => []QuietMeansBound
<1>1. WorkstationInit => Typed /\ Wired
  <2> SUFFICES ASSUME WorkstationInit
               PROVE  Typed /\ Wired
    OBVIOUS
  <2>1. Typed
    BY InitTyped
  <2>2. config.lfsurl \in LfsUrl => config.path /\ config.lfsurl \in config.bound
    BY DEF StartsWhole, WorkstationInit, ConfigInit
  <2>3. \A w \in Writer : wiring[w] = "idle" /\ retired[w] = None
    BY DEF WorkstationInit, InstallInit
  <2>4. name \in LfsUrl
    BY <2>1 DEF Typed, WorkstationTypeOK, ConfigTypeOK
  <2>5. Wired
    BY <2>2, <2>3, <2>4 DEF Wired, RetiresAnother, PathFirst, BoundOrBinding
  <2> QED
    BY <2>1, <2>5
<1>2. Typed /\ Wired /\ [WorkstationNext]_workstationVars => (Typed /\ Wired)'
  BY StepKeepsType, StepKeepsWired
<1>3. Typed /\ Wired => QuietMeansBound
  BY DEF Wired, PathFirst, BoundOrBinding, Binding, QuietMeansBound, Settled
<1> QED
  BY <1>1, <1>2, <1>3, PTL DEF WorkstationSpec

-----------------------------------------------------------------------------
(***************************************************************************)
(* CalmNeverRedirected.  What a calm session has resolved and detected is  *)
(* where the bucket is; it trusts a stale region only while it may still   *)
(* retry, and the one it then finds in the config is no stale one: those   *)
(* who write one there are not calm, and nobody they meet is calm then.    *)
(***************************************************************************)
Right == {None, home[Resolved]}

MayTrustStale(h) ==
    \/ at[h] \in {"config", "detect"}
    \/ at[h] \in {"lfs", "get"} /\ fromConfig[h] /\ attempt[h] = 0 /\ store[h] = Unbuilt

CalmSession(h) ==
    /\ bucket[h] \in {None, Resolved}
    /\ at[h] = "cache" => client[h] = home[Resolved]
    /\ store[h] \in Right \cup {Unbuilt}
    /\ client[h] \in Right \cup {Unbuilt} \/ MayTrustStale(h)
    /\ at[h] = "config" /\ attempt[h] = 1 => config.region \in Right

Steady == \A h \in Helper : Live(h) /\ calm[h] => CalmSession(h)

\* A session's own step changes its memory only.
LEMMA HelperFrame ==
    ASSUME Typed, NEW h \in Helper, HelperStep(h)
    PROVE  /\ UNCHANGED <<home, Resolved, Right>>
           /\ \A l \in Helper : l # h =>
                 UNCHANGED <<at[l], bucket[l], client[l], store[l],
                             fromConfig[l], attempt[l]>>
<1>1. UNCHANGED <<name, dns, home>>
  BY DEF HelperStep, remoteVars
<1>2. \A l \in Helper : l # h =>
          UNCHANGED <<at[l], bucket[l], client[l], store[l],
                      fromConfig[l], attempt[l]>>
  BY DEF Typed, WorkstationTypeOK, S3SessionTypeOK, HelperStep, S3SessionStep,
         StartSession, ReadRegion, DetectRegion, CacheRegion, AfterInstall,
         GetManifest, DropRegion, ListFails, GitSays, ListCommand, CasOption,
         PushLine, FetchLine, EmptyLine, BatchRedirected, EndOfInput,
         SessionRaises, List, Exits, Builds, Goto, sessionVars, s3Vars
<1> QED
  BY <1>1, <1>2 DEF Resolved, Right

\* The steps of a session that are not an answer from S3 or a git config.
Chats(h) == GitSays(h) \/ CasOption(h) \/ PushLine(h) \/ FetchLine(h) \/ EmptyLine(h)

Leaves(h) ==
    \/ ListFails(h) \/ BatchRedirected(h) \/ EndOfInput(h) \/ SessionRaises(h)

\* The steps of a session, sorted by what they touch.
LEMMA HelperCases ==
    ASSUME NEW h \in Helper, HelperStep(h)
    PROVE  \/ StartSession(h) \/ ListCommand(h) \/ ReadRegion(h)
           \/ DetectRegion(h) \/ CacheRegion(h) \/ AfterInstall(h)
           \/ GetManifest(h) \/ DropRegion(h) \/ Leaves(h)
           \/ Chats(h) /\ at[h] = "read" /\ UNCHANGED <<config, sessionVars>>
<1>1. Chats(h) => at[h] = "read" /\ UNCHANGED <<config, sessionVars>>
  BY DEF Chats, GitSays, CasOption, PushLine, FetchLine, EmptyLine, Hears
<1> QED
  BY <1>1 DEF HelperStep, S3SessionStep, Leaves, Chats

\* A session that leaves is no longer live, and takes nothing with it.
LEMMA LeavesForGood ==
    ASSUME Typed, NEW h \in Helper, Leaves(h)
    PROVE  /\ at'[h] \in {"done", "redirected"} /\ ~Live(h)'
           /\ \A l \in Helper : l # h => calm'[l] = calm[l]
           /\ UNCHANGED config
<1>1. PICK how \in {"done", "redirected"} : Exits(h, how) /\ UNCHANGED config
  BY DEF Leaves, ListFails, BatchRedirected, EndOfInput, SessionRaises
<1> QED
  BY <1>1 DEF Exits, Goto, Live, Typed, WorkstationTypeOK, S3SessionTypeOK

\* A live session that is calm after a step of another was calm before it, and
\* that step has put no stale region in the config.
LEMMA OthersSpareCalm ==
    ASSUME Typed, Steady, NEW g \in Helper, HelperStep(g),
           NEW h \in Helper, h # g, Live(h), calm'[h]
    PROVE  /\ calm[h]
           /\ config.region \in Right => config'.region \in Right
<1>0. config \in Config /\ None \in Right
  BY DEF Typed, WorkstationTypeOK, ConfigTypeOK, Right
<1> USE DEF Typed, WorkstationTypeOK, S3SessionTypeOK
<1>1. CASE StartSession(g) \/ ListCommand(g) \/ ReadRegion(g) \/ DetectRegion(g)
           \/ AfterInstall(g) \/ GetManifest(g)
  BY <1>1 DEF StartSession, ListCommand, List, ReadRegion, DetectRegion,
              AfterInstall, GetManifest
<1>2. CASE CacheRegion(g)
  <2>1. CASE UNCHANGED <<config, calm>>
    BY <2>1
  <2>2. CASE /\ config' = [config EXCEPT !.region = client[g]]
             /\ calm' = [l \in Helper |-> calm[l] /\ (calm[g] \/ ~Live(l))]
    <3>1. calm[h] /\ calm[g]
      BY <2>2
    <3>2. client[g] \in Right
      BY <1>2, <3>1 DEF CacheRegion, Steady, Live, CalmSession, Right
    <3> QED
      BY <1>0, <2>2, <3>1, <3>2 DEF Config
  <2> QED
    BY <1>2, <2>1, <2>2 DEF CacheRegion
<1>3. CASE DropRegion(g)
  BY <1>0, <1>3 DEF DropRegion, Config
<1>4. CASE Leaves(g)
  BY <1>4, LeavesForGood
<1>5. CASE UNCHANGED <<config, sessionVars>>
  BY <1>5 DEF sessionVars
<1> QED
  BY <1>1, <1>2, <1>3, <1>4, <1>5, HelperCases

\* A session that was not live before its own step has just started.
LEMMA LiveOrStarting ==
    ASSUME Typed, NEW h \in Helper, HelperStep(h), Live(h)', calm'[h]
    PROVE  StartSession(h) \/ (Live(h) /\ calm[h])
<1> USE DEF Typed, WorkstationTypeOK, S3SessionTypeOK, Live
<1>1. CASE Leaves(h)
  BY <1>1, LeavesForGood
<1>2. CASE ~Leaves(h)
  BY <1>2, HelperCases
     DEF ListCommand, List, Hears, ReadRegion, DetectRegion, CacheRegion,
         AfterInstall, GetManifest, DropRegion, sessionVars
<1> QED
  BY <1>1, <1>2

\* A calm session goes by a stale region only where it may still drop it.
LEMMA SessionStaysCalm ==
    ASSUME Typed, NEW h \in Helper, Live(h), CalmSession(h),
           HelperStep(h), Live(h)', calm'[h]
    PROVE  CalmSession(h)'
<1>0. /\ config \in Config
      /\ SessionShape(h)
      /\ UNCHANGED <<Right, Resolved, home>>
      /\ bucket[h] \in {None, Resolved}
      /\ bucket[h] = Resolved => home[bucket[h]] \in Right
      /\ attempt[h] \in {0, 1}
      /\ None \in Right
  BY HelperFrame DEF Typed, WorkstationTypeOK, ConfigTypeOK, Shaped, CalmSession,
                     S3SessionTypeOK, Right
<1> USE DEF Typed, WorkstationTypeOK, S3SessionTypeOK, Live
<1>1. CASE StartSession(h)
  BY <1>1 DEF StartSession
<1>2. CASE ListCommand(h)
  BY <1>0, <1>2 DEF ListCommand, Hears, List, Goto, CalmSession, MayTrustStale
<1>3. CASE ReadRegion(h)
  BY <1>0, <1>3 DEF ReadRegion, Builds, Goto, CalmSession, MayTrustStale, SessionShape
<1>4. CASE DetectRegion(h)
  BY <1>0, <1>4 DEF DetectRegion, Builds, Goto, CalmSession, MayTrustStale, SessionShape
<1>5. CASE CacheRegion(h)
  <2>1. client[h] \in Right
    BY <1>5 DEF CacheRegion, CalmSession, Right
  <2> QED
    BY <1>0, <1>5, <2>1 DEF CacheRegion, Builds, Goto, CalmSession, MayTrustStale
<1>6. CASE AfterInstall(h)
  BY <1>0, <1>6 DEF AfterInstall, Goto, s3Vars, CalmSession, MayTrustStale
<1>7. CASE GetManifest(h)
  <2>1. StoreRegion(h) \in Right /\ (store[h] = Unbuilt => client[h] \in Right)
    BY <1>0, <1>7 DEF GetManifest, Redirected, SessionShape, StoreRegion, Right
  <2> QED
    BY <1>0, <1>7, <2>1 DEF GetManifest, Goto, CalmSession, MayTrustStale
<1>8. CASE DropRegion(h)
  BY <1>0, <1>8 DEF DropRegion, Goto, CalmSession, MayTrustStale, Config
<1>9. CASE Leaves(h)
  BY <1>9, LeavesForGood
<1>10. CASE at[h] = "read" /\ UNCHANGED <<config, sessionVars>>
  BY <1>0, <1>10 DEF sessionVars, s3Vars, CalmSession, MayTrustStale
<1> QED
  BY <1>1, <1>2, <1>3, <1>4, <1>5, <1>6, <1>7, <1>8, <1>9, <1>10, HelperCases

\* A session starts with nothing in hand, whoever else is running.
LEMMA StartsCalm ==
    ASSUME Typed, NEW h \in Helper, StartSession(h), HelperStep(h)
    PROVE  CalmSession(h)'
<1>1. /\ bucket'[h] = None /\ client'[h] = Unbuilt /\ store'[h] = Unbuilt
      /\ at'[h] = "read"
  BY DEF StartSession, Goto, s3Vars, Typed, Shaped, SessionShape, Live,
         WorkstationTypeOK, S3SessionTypeOK
<1> QED
  BY <1>1 DEF CalmSession

\* A session keeps what is known of the others and of itself.
LEMMA HelperStaysSteady ==
    ASSUME Typed, Steady, NEW g \in Helper, HelperStep(g)
    PROVE  Steady'
<1> SUFFICES ASSUME NEW h \in Helper, Live(h)', calm'[h]
             PROVE  CalmSession(h)'
  BY DEF Steady
<1>1. CASE h # g
  <2>1. /\ UNCHANGED <<at[h], bucket[h], client[h], store[h],
                       fromConfig[h], attempt[h]>>
        /\ UNCHANGED <<home, Resolved, Right>>
    BY <1>1, HelperFrame
  <2>2. Live(h)
    BY <2>1 DEF Live
  <2>3. calm[h] /\ (config.region \in Right => config'.region \in Right)
    BY <1>1, <2>2, OthersSpareCalm
  <2>4. CalmSession(h)
    BY <2>2, <2>3 DEF Steady
  <2> QED
    BY <2>1, <2>3, <2>4 DEF CalmSession, MayTrustStale
<1>2. CASE h = g /\ StartSession(h)
  BY <1>2, StartsCalm
<1>3. CASE h = g /\ ~StartSession(h)
  <2>1. Live(h) /\ calm[h]
    BY <1>3, LiveOrStarting
  <2> QED
    BY <1>3, <2>1, SessionStaysCalm DEF Steady
<1> QED
  BY <1>1, <1>2, <1>3

\* So does every step of the workstation.
LEMMA StepStaysSteady ==
    ASSUME Typed, Steady, [WorkstationNext]_workstationVars
    PROVE  Steady'
<1>1. CASE BucketChanges
  BY <1>1 DEF BucketChanges, Steady, Live
<1>2. CASE \E h \in Helper : HelperStep(h) /\ UNCHANGED installVars
  BY <1>2, HelperStaysSteady
<1>3. CASE UNCHANGED <<config.region, home, name, dns, sessionVars>>
  BY <1>3 DEF Steady, CalmSession, MayTrustStale, Right, Resolved,
              Live, sessionVars, s3Vars
<1>4. ASSUME NEW w \in Writer, StartAuto(w) \/ InstallerStep(w)
      PROVE  UNCHANGED config.region
  BY <1>4 DEF StartAuto, InstallerStep, CheckAgent, CheckUrl, StartScoped,
     StartUnscoped, SetPath, SetUrl, SetAgent, UnsetLegacy, WriteFails,
     Typed, WorkstationTypeOK, ConfigTypeOK, Config
<1>5. CASE \/ \E h \in Helper : AutoInstalls(h)
           \/ \E w \in Installers : InstallerStep(w) /\ UNCHANGED helperVars
  <2>1. UNCHANGED <<remoteVars, helperVars, config.region>>
    BY <1>4, <1>5 DEF AutoInstalls, InstallerStep, Writer, Helper
  <2> QED
    BY <1>3, <2>1 DEF remoteVars, helperVars
<1>6. CASE UNCHANGED workstationVars
  BY <1>3, <1>6 DEF workstationVars, configVars, remoteVars, helperVars
<1> QED
  BY <1>1, <1>2, <1>5, <1>6 DEF WorkstationNext, AllEnded

\* Nothing redirects a calm session but a region it may still drop.
LEMMA CalmIsNotRedirected ==
    ASSUME Typed, Steady, [WorkstationNext]_workstationVars,
           NEW h \in Helper, Live(h), calm[h]
    PROVE  at'[h] # "redirected"
<1>0. /\ CalmSession(h)
      /\ SessionShape(h)
      /\ bucket[h] \in {None, Resolved}
      /\ bucket[h] = Resolved => \A r \in Right : ~Redirected(h, r)
  BY DEF Steady, Typed, Shaped, CalmSession, Right, Redirected
<1> USE DEF Typed, WorkstationTypeOK, S3SessionTypeOK, Live
<1>1. ~ListFails(h)
  <2> SUFFICES ASSUME ListFails(h)
               PROVE  FALSE
    OBVIOUS
  <2>1. at[h] = "get" /\ Redirected(h, StoreRegion(h)) /\ ~MayRetry(h)
    BY DEF ListFails
  <2>2. StoreRegion(h) \in Right
    BY <1>0, <2>1 DEF SessionShape, CalmSession, MayTrustStale, StoreRegion, MayRetry
  <2> QED
    BY <1>0, <2>1, <2>2 DEF SessionShape
<1>2. ~BatchRedirected(h)
  <2> SUFFICES ASSUME BatchRedirected(h)
               PROVE  FALSE
    OBVIOUS
  <2>1. at[h] = "read" /\ Head(stdin[h]) = BlankLine /\ ~Reaches(h)
    BY DEF BatchRedirected, Heard
  <2>2. client[h] # Unbuilt
    <3>1. Head(<<ListLine>>) # BlankLine
      BY DEF ListLine, BlankLine, Line
    <3> QED
      BY <1>0, <2>1, <3>1 DEF SessionShape
  <2>3. client[h] \in Right /\ StoreRegion(h) \in Right /\ bucket[h] = Resolved
    BY <1>0, <2>1, <2>2 DEF SessionShape, CalmSession, MayTrustStale, StoreRegion
  <2> QED
    BY <1>0, <2>1, <2>3 DEF Reaches
<1>3. ASSUME NEW g \in Helper, HelperStep(g)
      PROVE  at'[h] # "redirected"
  <2>1. CASE g # h
    BY <1>3, <2>1, HelperFrame
  <2>2. CASE g = h
    <3>1. CASE EndOfInput(h) \/ SessionRaises(h)
      BY <3>1 DEF EndOfInput, SessionRaises, Exits, Goto
    <3> QED
      BY <1>1, <1>2, <1>3, <2>2, <3>1, HelperCases
         DEF Leaves, StartSession, ListCommand, List, ReadRegion, DetectRegion,
             CacheRegion, AfterInstall, GetManifest, DropRegion, Builds, Goto,
             sessionVars
  <2> QED
    BY <2>1, <2>2
<1> QED
  BY <1>3 DEF WorkstationNext, BucketChanges, AutoInstalls, InstallerStep, AllEnded,
     workstationVars, helperVars, sessionVars

\* Whatever stale region earlier sessions have left in the config, and whoever
\* writes and drops it at the same time: a session fails because of a wrong
\* region only if, in its time, the bucket moved, git config failed, or a
\* session that such a thing had happened to wrote the region.
THEOREM OnlyMovesRedirect == WorkstationSpec => CalmNeverRedirected
<1>1. WorkstationInit => Typed /\ Steady
  <2>1. WorkstationInit => \A h \in Helper : ~Live(h)
    BY DEF WorkstationInit, S3SessionInit, Live
  <2> QED
    BY <2>1, InitTyped DEF Steady
<1>2. Typed /\ Steady /\ [WorkstationNext]_workstationVars => (Typed /\ Steady)'
  BY StepKeepsType, StepStaysSteady
<1>3. Typed /\ Steady /\ [WorkstationNext]_workstationVars =>
          [\A h \in Helper : Live(h) /\ at'[h] = "redirected" => ~calm[h]]_workstationVars
  BY CalmIsNotRedirected
<1> QED
  BY <1>1, <1>2, <1>3, PTL DEF WorkstationSpec, CalmNeverRedirected

-----------------------------------------------------------------------------
(***************************************************************************)
(* BatchesAsMeant.  Between two batches nothing is left of the one before; *)
(* amid one, the session has collected exactly its first k lines.          *)
(***************************************************************************)
Nothing(h) == pushCmds[h] = <<>> /\ fetchCmds[h] = <<>>

BetweenBatches(h) ==
    /\ ran[h] = says[h]
    /\ stdin[h] \in {<<>>, <<ListLine>>, <<BlankLine>>}
    /\ Nothing(h)
    /\ casRefs[h] = NoLeases

HasLeases(h, b, k) ==
    /\ \A i \in 1..Leases(b) : i <= k =>
          casRefs[h][b.cmds[LeaseOrder(b)[i]].ref] = b.cmds[LeaseOrder(b)[i]].lease
    /\ \A r \in Ref : (\A i \in 1..Leases(b) : i <= k => b.cmds[LeaseOrder(b)[i]].ref # r)
          => casRefs[h][r] = NoLease

HasRefs(h, b, k) ==
    LET mine   == IF b.kind = "push" THEN pushCmds[h] ELSE fetchCmds[h]
        others == IF b.kind = "push" THEN fetchCmds[h] ELSE pushCmds[h] IN
    /\ others = <<>>
    /\ k <= Leases(b) => mine = <<>>
    /\ k > Leases(b) => /\ mode[h] = b.kind
                        /\ Len(mine) = k - Leases(b)
                        /\ \A i \in 1..Len(mine) : mine[i] = b.cmds[i].ref

AmidBatch(h, b, k) ==
    /\ at[h] = "read"
    /\ says[h] = Append(ran[h], b)
    /\ Len(stdin[h]) = Len(BatchLines(b)) - k
    /\ \A i \in 1..Len(stdin[h]) : stdin[h][i] = BatchLines(b)[k + i]
    /\ HasLeases(h, b, k)
    /\ HasRefs(h, b, k)

TalksOf(h) ==
    \/ BetweenBatches(h)
    \/ \E b \in Batches, k \in Nat : k < Len(BatchLines(b)) /\ AmidBatch(h, b, k)

Talking == \A h \in Helper : TalksOf(h)

\* The line at each place of a batch, by what it says.
LEMMA LineAt ==
    ASSUME NEW b \in Batches, NEW k \in Nat, k < Len(BatchLines(b))
    PROVE  LET line == BatchLines(b)[k + 1] IN
           /\ line.op # "list"
           /\ line.op = "cas" => /\ k + 1 \in 1..Leases(b)
                                 /\ line.ref = b.cmds[LeaseOrder(b)[k + 1]].ref
                                 /\ line.lease = b.cmds[LeaseOrder(b)[k + 1]].lease
           /\ line.op \in {"push", "fetch"} => /\ line.op = b.kind
                                               /\ k - Leases(b) \in Nat
                                               /\ k - Leases(b) + 1 \in 1..Len(b.cmds)
                                               /\ line.ref = b.cmds[k - Leases(b) + 1].ref
           /\ line.op = "blank" => k = Leases(b) + Len(b.cmds)
<1> DEFINE line == BatchLines(b)[k + 1]
           j    == k - Leases(b)
<1>0. /\ Leases(b) \in Nat /\ Len(b.cmds) \in Nat
      /\ b.kind \in {"push", "fetch"}
      /\ k < Leases(b) + Len(b.cmds) + 1
  BY BatchType, LeaseOrderType, LinesShape
<1>1. CASE k < Leases(b)
  <2>1. k + 1 \in 1..Leases(b)
    BY <1>0, <1>1
  <2>2. line = Line("cas", b.cmds[LeaseOrder(b)[k + 1]].ref, b.cmds[LeaseOrder(b)[k + 1]].lease)
    BY <2>1, LinesShape
  <2> QED
    BY <2>1, <2>2 DEF Line
<1>2. CASE k >= Leases(b) /\ k < Leases(b) + Len(b.cmds)
  <2>1. j \in Nat /\ j + 1 \in 1..Len(b.cmds) /\ Leases(b) + (j + 1) = k + 1
    BY <1>0, <1>2
  <2>2. line = Line(b.kind, b.cmds[j + 1].ref, NoLease)
    BY <2>1, LinesShape
  <2> QED
    BY <1>0, <2>1, <2>2 DEF Line
<1>3. CASE k = Leases(b) + Len(b.cmds)
  <2>1. line = BlankLine
    BY <1>0, <1>3, LinesShape
  <2> QED
    BY <1>3, <2>1 DEF BlankLine, Line
<1> QED
  BY <1>0, <1>1, <1>2, <1>3

\* Amid a batch, h reads its next line.
LEMMA ReadsOn ==
    ASSUME HelperTypeOK, NEW h \in Helper, NEW b \in Batches, NEW k \in Nat,
           k < Len(BatchLines(b)), AmidBatch(h, b, k)
    PROVE  /\ stdin[h] # <<>>
           /\ Heard(h) = BatchLines(b)[k + 1]
           /\ Len(Tail(stdin[h])) = Len(BatchLines(b)) - (k + 1)
           /\ \A i \in 1..Len(Tail(stdin[h])) :
                 Tail(stdin[h])[i] = BatchLines(b)[(k + 1) + i]
<1> DEFINE n == Len(BatchLines(b)) - k
<1>1. /\ Len(BatchLines(b)) \in Nat
      /\ n \in Nat \ {0}
      /\ Len(stdin[h]) = n
      /\ \A i \in 1..n : stdin[h][i] = BatchLines(b)[k + i]
  BY LinesShape, BatchType, LeaseOrderType DEF AmidBatch
<1> HIDE DEF n
<1>2. stdin[h] # <<>>
  BY <1>1
<1>3. /\ Heard(h) = stdin[h][1]
      /\ Len(Tail(stdin[h])) = n - 1
      /\ \A i \in 1..(n - 1) : Tail(stdin[h])[i] = stdin[h][i + 1]
  BY <1>1, <1>2, HeardType
<1>4. Heard(h) = BatchLines(b)[k + 1]
  BY <1>1, <1>3
<1>5. \A i \in 1..(n - 1) : Tail(stdin[h])[i] = BatchLines(b)[(k + 1) + i]
  <2> SUFFICES ASSUME NEW i \in 1..(n - 1)
               PROVE  Tail(stdin[h])[i] = BatchLines(b)[(k + 1) + i]
    OBVIOUS
  <2>1. i + 1 \in 1..n /\ k + (i + 1) = (k + 1) + i
    BY <1>1
  <2>2. Tail(stdin[h])[i] = stdin[h][i + 1]
    BY <1>3
  <2>3. stdin[h][i + 1] = BatchLines(b)[k + (i + 1)]
    BY <1>1, <2>1
  <2> QED
    BY <2>1, <2>2, <2>3
<1>6. n - 1 = Len(BatchLines(b)) - (k + 1)
  BY <1>1 DEF n
<1> QED
  BY <1>2, <1>3, <1>4, <1>5, <1>6

\* Between two batches there is a list, or the empty line at the end.
LEMMA HearsBetween ==
    ASSUME HelperTypeOK, NEW h \in Helper, NEW what, Hears(h, what), BetweenBatches(h)
    PROVE  what \in {"list", "blank"} /\ stdin'[h] = <<>>
<1>1. stdin[h] \in {<<ListLine>>, <<BlankLine>>}
  BY DEF Hears, BetweenBatches
<1>2. stdin'[h] = Tail(stdin[h]) /\ what = Head(stdin[h]).op
  BY DEF Hears, HelperTypeOK
<1>3. /\ Tail(<<ListLine>>) = <<>> /\ Tail(<<BlankLine>>) = <<>>
      /\ Head(<<ListLine>>) = ListLine /\ Head(<<BlankLine>>) = BlankLine
  OBVIOUS
<1>4. ListLine.op = "list" /\ BlankLine.op = "blank"
  BY DEF ListLine, BlankLine, Line
<1> QED
  BY <1>1, <1>2, <1>3, <1>4

\* git means another batch.
LEMMA GitKeepsTalking ==
    ASSUME HelperTypeOK, NEW h \in Helper, TalksOf(h), GitSays(h)
    PROVE  TalksOf(h)'
<1>1. /\ at[h] = "read" /\ at'[h] = "read" /\ stdin[h] = <<>>
      /\ UNCHANGED <<mode, pushCmds, fetchCmds, casRefs, ran>>
  BY DEF GitSays, sessionVars, batchVars
<1>2. BetweenBatches(h)
  BY <1>1, ReadsOn DEF TalksOf
<1>3. ASSUME NEW b \in Batches,
             says' = [says EXCEPT ![h] = Append(@, b)],
             stdin' = [stdin EXCEPT ![h] = BatchLines(b)]
      PROVE  TalksOf(h)'
  <2>1. /\ says'[h] = Append(ran'[h], b) /\ stdin'[h] = BatchLines(b)
    BY <1>1, <1>2, <1>3 DEF BetweenBatches, HelperTypeOK
  <2>2. /\ Len(BatchLines(b)) \in Nat /\ 0 < Len(BatchLines(b))
        /\ Leases(b) \in Nat
    BY LinesShape, BatchType, LeaseOrderType
  <2>3. HasLeases(h, b, 0)'
    BY <1>1, <1>2, <2>2 DEF HasLeases, BetweenBatches, NoLeases
  <2>4. HasRefs(h, b, 0)'
    BY <1>1, <1>2, <2>2 DEF HasRefs, BetweenBatches, Nothing
  <2>5. AmidBatch(h, b, 0)'
    BY <1>1, <2>1, <2>2, <2>3, <2>4 DEF AmidBatch
  <2> QED
    BY <2>2, <2>5 DEF TalksOf
<1>4. CASE stdin' = [stdin EXCEPT ![h] = <<BlankLine>>] /\ UNCHANGED says
  BY <1>1, <1>2, <1>4 DEF TalksOf, BetweenBatches, Nothing, NoLeases, HelperTypeOK
<1> QED
  BY <1>3, <1>4 DEF GitSays

\* A lease is noted.
LEMMA CasKeepsTalking ==
    ASSUME HelperTypeOK, NEW h \in Helper, TalksOf(h), CasOption(h)
    PROVE  TalksOf(h)'
<1>1. /\ Hears(h, "cas")
      /\ casRefs' = [casRefs EXCEPT ![h][Heard(h).ref] = Heard(h).lease]
      /\ UNCHANGED <<at, says, mode, pushCmds, fetchCmds, ran>>
      /\ stdin'[h] = Tail(stdin[h])
  BY DEF CasOption, Hears, sessionVars, gitVars, HelperTypeOK
<1>2. PICK b \in Batches, k \in Nat : k < Len(BatchLines(b)) /\ AmidBatch(h, b, k)
  BY <1>1, HearsBetween DEF TalksOf
<1>3. /\ Heard(h) = BatchLines(b)[k + 1]
      /\ Len(stdin'[h]) = Len(BatchLines(b)) - (k + 1)
      /\ \A i \in 1..Len(stdin'[h]) : stdin'[h][i] = BatchLines(b)[(k + 1) + i]
  BY <1>1, <1>2, ReadsOn
<1>4. /\ k + 1 \in 1..Leases(b)
      /\ Heard(h).ref = b.cmds[LeaseOrder(b)[k + 1]].ref
      /\ Heard(h).lease = b.cmds[LeaseOrder(b)[k + 1]].lease
  BY <1>1, <1>2, <1>3, LineAt DEF Hears, Heard
<1>5. /\ Leases(b) \in Nat /\ Len(b.cmds) \in Nat
      /\ k + 1 \in Nat /\ k + 1 < Len(BatchLines(b))
      /\ Len(BatchLines(b)) = Leases(b) + Len(b.cmds) + 1
  BY <1>4, LeaseOrderType, BatchType, LinesShape
<1>6. \A i \in 1..Leases(b) : LeaseOrder(b)[i] \in DOMAIN b.cmds
  BY LeaseOrderType, BatchType
<1>7. \A i, j \in DOMAIN b.cmds : b.cmds[i].ref = b.cmds[j].ref => i = j
  <2>1. LeaseOrder(b)[k + 1] \in Leased(b)
    BY <1>4, LeaseOrderType
  <2> QED
    BY <2>1, HelperAssumption, BatchType
<1>8. HasLeases(h, b, k + 1)'
  <2> DEFINE ref(i)   == b.cmds[LeaseOrder(b)[i]].ref
             lease(i) == b.cmds[LeaseOrder(b)[i]].lease
  <2>1. casRefs'[h] = [casRefs[h] EXCEPT ![ref(k + 1)] = lease(k + 1)]
    BY <1>1, <1>4 DEF HelperTypeOK
  <2>2. DOMAIN casRefs[h] = Ref /\ ref(k + 1) \in Ref
    BY <1>4, <1>6, BatchType DEF HelperTypeOK
  <2>3. \A i \in 1..Leases(b) : i <= k => casRefs[h][ref(i)] = lease(i) /\ ref(i) \in Ref
    BY <1>2, <1>6, BatchType DEF AmidBatch, HasLeases
  <2>4. \A r \in Ref : (\A i \in 1..Leases(b) : i <= k => ref(i) # r)
                        => casRefs[h][r] = NoLease
    BY <1>2 DEF AmidBatch, HasLeases
  <2>5. \A i \in 1..Leases(b) : ref(i) = ref(k + 1) => lease(i) = lease(k + 1)
    BY <1>4, <1>6, <1>7
  <2> HIDE DEF ref, lease
  <2>6. \A i \in 1..Leases(b) : i <= k + 1 => i <= k \/ i = k + 1
    BY <1>5
  <2>7. \A i \in 1..Leases(b) : i <= k => i <= k + 1
    BY <1>5
  <2>8. \A i \in 1..Leases(b) : i <= k + 1 => casRefs'[h][ref(i)] = lease(i)
    BY <2>1, <2>2, <2>3, <2>5, <2>6
  <2>9. \A r \in Ref : (\A i \in 1..Leases(b) : i <= k + 1 => ref(i) # r)
                        => casRefs'[h][r] = NoLease
    <3>1. k + 1 <= k + 1
      BY <1>5
    <3> QED
      BY <1>4, <2>1, <2>2, <2>4, <2>7, <3>1
  <2> QED
    BY <2>8, <2>9 DEF HasLeases, ref, lease
<1>9. HasRefs(h, b, k + 1)'
  <2>1. k <= Leases(b) /\ k + 1 <= Leases(b) /\ ~(k + 1 > Leases(b))
    BY <1>4, <1>5
  <2> QED
    BY <1>1, <1>2, <2>1 DEF AmidBatch, HasRefs
<1>10. AmidBatch(h, b, k + 1)'
  BY <1>1, <1>2, <1>3, <1>8, <1>9 DEF AmidBatch
<1> QED
  BY <1>5, <1>10 DEF TalksOf

\* A ref is noted.
LEMMA RefKeepsTalking ==
    ASSUME HelperTypeOK, NEW h \in Helper, TalksOf(h), PushLine(h) \/ FetchLine(h)
    PROVE  TalksOf(h)'
<1>1. PICK what \in {"push", "fetch"} :
         /\ Hears(h, what)
         /\ mode' = [mode EXCEPT ![h] = what]
         /\ IF what = "push"
            THEN /\ pushCmds'[h] = Append(IF mode[h] = "push" THEN pushCmds[h] ELSE <<>>,
                                          Heard(h).ref)
                 /\ UNCHANGED fetchCmds
            ELSE /\ fetchCmds'[h] = Append(IF mode[h] = "fetch" THEN fetchCmds[h] ELSE <<>>,
                                           Heard(h).ref)
                 /\ UNCHANGED pushCmds
  BY DEF PushLine, FetchLine, HelperTypeOK
<1>2. /\ UNCHANGED <<at, says, casRefs, ran>>
      /\ stdin'[h] = Tail(stdin[h])
  BY DEF PushLine, FetchLine, Hears, sessionVars, gitVars, HelperTypeOK
<1>3. PICK b \in Batches, k \in Nat : k < Len(BatchLines(b)) /\ AmidBatch(h, b, k)
  BY <1>1, HearsBetween DEF TalksOf
<1>4. /\ Heard(h) = BatchLines(b)[k + 1]
      /\ Len(stdin'[h]) = Len(BatchLines(b)) - (k + 1)
      /\ \A i \in 1..Len(stdin'[h]) : stdin'[h][i] = BatchLines(b)[(k + 1) + i]
  BY <1>2, <1>3, ReadsOn
<1> DEFINE j == k - Leases(b)
<1>5. /\ what = b.kind
      /\ j \in Nat /\ j + 1 \in 1..Len(b.cmds)
      /\ Heard(h).ref = b.cmds[j + 1].ref
      /\ b.cmds[j + 1].ref \in Ref
  BY <1>1, <1>3, <1>4, LineAt, BatchType DEF Hears, Heard
<1>6. /\ Leases(b) \in Nat /\ Len(b.cmds) \in Nat
      /\ k + 1 \in Nat /\ k + 1 < Len(BatchLines(b))
      /\ k + 1 > Leases(b) /\ (k + 1) - Leases(b) = j + 1
      /\ k <= Leases(b) => j = 0
      /\ ~(k <= Leases(b)) => k > Leases(b)
      /\ ~(k + 1 <= Leases(b))
  <2>1. Len(BatchLines(b)) = Leases(b) + Len(b.cmds) + 1
    BY LinesShape
  <2>2. Leases(b) \in Nat /\ Len(b.cmds) \in Nat
    BY LeaseOrderType, BatchType
  <2> QED
    BY <1>5, <2>1, <2>2
<1>7. HasLeases(h, b, k + 1)'
  <2>1. \A i \in 1..Leases(b) : i <= k /\ i <= k + 1
    BY <1>5, <1>6
  <2> QED
    BY <1>2, <1>3, <2>1 DEF AmidBatch, HasLeases
<1>8. HasRefs(h, b, k + 1)'
  <2> DEFINE mine   == IF b.kind = "push" THEN pushCmds[h] ELSE fetchCmds[h]
             others == IF b.kind = "push" THEN fetchCmds[h] ELSE pushCmds[h]
             before == IF mode[h] = b.kind THEN mine ELSE <<>>
  <2>1. /\ others = <<>>
        /\ k <= Leases(b) => mine = <<>>
        /\ k > Leases(b) => /\ mode[h] = b.kind
                            /\ Len(mine) = j
                            /\ \A i \in 1..Len(mine) : mine[i] = b.cmds[i].ref
    BY <1>3 DEF AmidBatch, HasRefs
  <2>2. mine \in Seq(Ref) /\ <<>> \in Seq(Ref) /\ Len(<<>>) = 0
    BY DEF HelperTypeOK
  <2>3. others' = <<>> /\ mine' = Append(before, b.cmds[j + 1].ref) /\ mode'[h] = b.kind
    BY <1>1, <1>5, <2>1 DEF HelperTypeOK
  <2> HIDE DEF mine, others, j
  <2>4. /\ before \in Seq(Ref) /\ Len(before) = j
        /\ \A i \in 1..j : before[i] = b.cmds[i].ref
    <3>1. CASE k <= Leases(b)
      <4>1. before = <<>> /\ j = 0
        BY <1>6, <2>1, <3>1
      <4> QED
        BY <2>2, <4>1
    <3>2. CASE k > Leases(b)
      BY <2>1, <2>2, <3>2
    <3> QED
      BY <1>6, <3>1, <3>2
  <2> HIDE DEF before
  <2>5. /\ Len(mine') = j + 1
        /\ \A i \in 1..j : mine'[i] = before[i]
        /\ mine'[j + 1] = b.cmds[j + 1].ref
    BY <1>5, <2>3, <2>4, AppendProperties
  <2>6. \A i \in 1..(j + 1) : mine'[i] = b.cmds[i].ref
    <3>1. \A i \in 1..(j + 1) : i \in 1..j \/ i = j + 1
      BY <1>5
    <3> QED
      BY <2>4, <2>5, <3>1
  <2> QED
    BY <1>6, <2>3, <2>5, <2>6 DEF HasRefs, mine, others
<1>9. AmidBatch(h, b, k + 1)'
  BY <1>2, <1>3, <1>4, <1>7, <1>8 DEF AmidBatch
<1> QED
  BY <1>6, <1>9 DEF TalksOf

\* The batch that is run is the batch that was meant.
LEMMA RunsWhatIsMeant ==
    ASSUME HelperTypeOK, NEW h \in Helper, NEW b \in Batches,
           NEW cmds \in Seq(Ref), NEW leases \in [Ref -> STRING \cup {NoLease}],
           Len(cmds) = Len(b.cmds),
           \A i \in 1..Len(b.cmds) : /\ cmds[i] = b.cmds[i].ref
                                    /\ leases[cmds[i]] = b.cmds[i].lease,
           Runs(h, b.kind, cmds, leases)
    PROVE  ran'[h] = Append(ran[h], b)
<1> DEFINE list == [i \in 1..Len(cmds) |-> [ref |-> cmds[i], lease |-> leases[cmds[i]]]]
<1>1. \A i \in 1..Len(b.cmds) :
         b.cmds[i] = [ref |-> b.cmds[i].ref, lease |-> b.cmds[i].lease]
  <2>1. \A i \in 1..Len(b.cmds) : b.cmds[i] \in [ref : Ref, lease : STRING \cup {NoLease}]
    BY BatchType, ElementOfSeq
  <2> QED
    BY <2>1
<1>2. \A i \in 1..Len(b.cmds) : list[i] = b.cmds[i]
  BY <1>1
<1>3. list = b.cmds
  <2>1. b.cmds = [i \in 1..Len(b.cmds) |-> b.cmds[i]]
    BY BatchType, LenProperties
  <2>2. list = [i \in 1..Len(b.cmds) |-> b.cmds[i]]
    BY <1>2
  <2> QED
    BY <2>1, <2>2
<1>4. b = [kind |-> b.kind, cmds |-> b.cmds]
  BY BatchType DEF Batch
<1>5. Runs(h, b.kind, cmds, leases) =>
         ran'[h] = Append(ran[h], [kind |-> b.kind, cmds |-> list])
  BY DEF Runs, HelperTypeOK
<1> QED
  BY <1>3, <1>4, <1>5

\* An empty line sends the batch off.
LEMMA EmptyLineKeepsTalking ==
    ASSUME HelperTypeOK, NEW h \in Helper, TalksOf(h), EmptyLine(h)
    PROVE  TalksOf(h)'
<1>1. /\ Hears(h, "blank")
      /\ RunPushBatch(h) \/ RunFetchBatch(h) \/ NothingToRun(h)
      /\ UNCHANGED <<at, says, mode>>
      /\ stdin'[h] = Tail(stdin[h])
  BY DEF EmptyLine, Hears, sessionVars, gitVars, HelperTypeOK
<1>2. CASE BetweenBatches(h)
  <2>1. stdin'[h] = <<>>
    BY <1>1, <1>2, HearsBetween
  <2>2. UNCHANGED <<ran, pushCmds, fetchCmds, casRefs>>
    BY <1>1, <1>2 DEF BetweenBatches, Nothing, RunPushBatch, RunFetchBatch, NothingToRun
  <2> QED
    BY <1>1, <1>2, <2>1, <2>2 DEF TalksOf, BetweenBatches, Nothing, NoLeases
<1>3. ASSUME NEW b \in Batches, NEW k \in Nat, k < Len(BatchLines(b)), AmidBatch(h, b, k)
      PROVE  BetweenBatches(h)'
  <2>1. /\ Heard(h) = BatchLines(b)[k + 1]
        /\ Len(stdin'[h]) = Len(BatchLines(b)) - (k + 1)
    BY <1>1, <1>3, ReadsOn
  <2>2. /\ k = Leases(b) + Len(b.cmds)
        /\ Leases(b) \in Nat /\ Len(b.cmds) \in Nat \ {0}
        /\ Len(BatchLines(b)) = Leases(b) + Len(b.cmds) + 1
        /\ b.kind \in {"push", "fetch"}
    BY <1>1, <1>3, <2>1, LineAt, LeaseOrderType, BatchType, LinesShape DEF Hears, Heard
  <2>3. stdin'[h] = <<>>
    <3>1. Len(stdin'[h]) = 0
      BY <2>1, <2>2
    <3>2. stdin'[h] \in Seq(GitLine)
      BY <1>1, HearsKeepsStdin
    <3> QED
      BY <3>1, <3>2, EmptySeq
  <2> DEFINE mine   == IF b.kind = "push" THEN pushCmds[h] ELSE fetchCmds[h]
             others == IF b.kind = "push" THEN fetchCmds[h] ELSE pushCmds[h]
  <2>4. /\ others = <<>> /\ mode[h] = b.kind
        /\ Len(mine) = Len(b.cmds)
        /\ \A i \in 1..Len(b.cmds) : mine[i] = b.cmds[i].ref
    <3>1. k > Leases(b) /\ k - Leases(b) = Len(b.cmds)
      BY <2>2
    <3> QED
      BY <1>3, <3>1 DEF AmidBatch, HasRefs
  <2>5. mine \in Seq(Ref) /\ mine # <<>>
    BY <2>2, <2>4 DEF HelperTypeOK
  <2>6. \A i \in 1..Leases(b) : i <= k
    BY <2>2
  <2>7. CASE b.kind = "push"
    <3>1. RunPushBatch(h)
      BY <1>1, <2>4, <2>5, <2>7 DEF RunFetchBatch, NothingToRun
    <3>2. \A i \in 1..Len(b.cmds) : casRefs[h][mine[i]] = b.cmds[i].lease
      <4> SUFFICES ASSUME NEW i \in 1..Len(b.cmds)
                   PROVE  casRefs[h][b.cmds[i].ref] = b.cmds[i].lease
        BY <2>4
      <4>1. CASE i \in Leased(b)
        <5>1. PICK n \in 1..Leases(b) : LeaseOrder(b)[n] = i
          BY <4>1, LeaseOrderType
        <5> QED
          BY <1>3, <2>6, <5>1 DEF AmidBatch, HasLeases
      <4>2. CASE i \notin Leased(b)
        <5>1. b.cmds[i].lease = NoLease
          BY <4>2, BatchType DEF Leased
        <5>2. \A j \in DOMAIN b.cmds : b.cmds[j].ref = b.cmds[i].ref => j = i
          BY <2>7, HelperAssumption, BatchType
        <5>3. \A n \in 1..Leases(b) : b.cmds[LeaseOrder(b)[n]].ref # b.cmds[i].ref
          BY <4>2, <5>2, LeaseOrderType, BatchType
        <5>4. b.cmds[i].ref \in Ref
          BY BatchType
        <5> QED
          BY <1>3, <5>1, <5>3, <5>4 DEF AmidBatch, HasLeases
      <4> QED
        BY <4>1, <4>2
    <3>3. Runs(h, b.kind, mine, casRefs[h]) /\ casRefs[h] \in [Ref -> STRING \cup {NoLease}]
      BY <2>7, <3>1 DEF RunPushBatch, HelperTypeOK
    <3> HIDE DEF mine
    <3>4. ran'[h] = Append(ran[h], b)
      BY <2>4, <2>5, <3>2, <3>3, RunsWhatIsMeant
    <3>5. pushCmds'[h] = <<>> /\ fetchCmds'[h] = <<>> /\ casRefs'[h] = NoLeases'
      BY <2>4, <2>7, <3>1 DEF RunPushBatch, HelperTypeOK, NoLeases
    <3> QED
      BY <1>1, <1>3, <2>3, <3>4, <3>5 DEF AmidBatch, BetweenBatches, Nothing
  <2>8. CASE b.kind = "fetch"
    <3>1. RunFetchBatch(h)
      BY <1>1, <2>4, <2>5, <2>8 DEF RunPushBatch, NothingToRun
    <3>2. Leased(b) = {}
      BY <2>8, HelperAssumption
    <3>3. casRefs[h] = NoLeases
      <4>1. \A n \in 1..Leases(b) : FALSE
        BY <3>2, LeaseOrderType
      <4>2. \A r \in Ref : casRefs[h][r] = NoLease
        BY <1>3, <4>1 DEF AmidBatch, HasLeases
      <4> QED
        BY <4>2 DEF NoLeases, HelperTypeOK
    <3>4. \A i \in 1..Len(b.cmds) : NoLeases[mine[i]] = b.cmds[i].lease
      BY <2>4, <3>2, BatchType DEF Leased, NoLeases
    <3>5. Runs(h, b.kind, mine, NoLeases) /\ NoLeases \in [Ref -> STRING \cup {NoLease}]
      BY <2>8, <3>1 DEF RunFetchBatch, NoLeases
    <3> HIDE DEF mine
    <3>6. ran'[h] = Append(ran[h], b)
      BY <2>4, <2>5, <3>4, <3>5, RunsWhatIsMeant
    <3>7. pushCmds'[h] = <<>> /\ fetchCmds'[h] = <<>> /\ casRefs'[h] = NoLeases'
      BY <2>4, <2>8, <3>1, <3>3 DEF RunFetchBatch, HelperTypeOK, NoLeases
    <3> QED
      BY <1>1, <1>3, <2>3, <3>6, <3>7 DEF AmidBatch, BetweenBatches, Nothing
  <2> QED
    BY <2>2, <2>7, <2>8
<1> QED
  BY <1>2, <1>3 DEF TalksOf

\* The process is gone, and the conversation.
LEMMA HangsUpEndsTalk ==
    ASSUME HelperTypeOK, NEW h \in Helper, HangsUp(h)
    PROVE  TalksOf(h)'
BY DEF HangsUp, HelperTypeOK, TalksOf, BetweenBatches, Nothing, NoLeases

\* Who does not read leaves the conversation alone.
LEMMA TalkingFrame ==
    ASSUME NEW h \in Helper, TalksOf(h), at[h] = "read" => at'[h] = "read",
           UNCHANGED <<says[h], stdin[h], mode[h], pushCmds[h], fetchCmds[h],
                       casRefs[h], ran[h]>>
    PROVE  TalksOf(h)'
<1>1. CASE BetweenBatches(h)
  BY <1>1 DEF TalksOf, BetweenBatches, Nothing, NoLeases, ListLine, BlankLine, Line
<1>2. ASSUME NEW b \in Batches, NEW k \in Nat, k < Len(BatchLines(b)), AmidBatch(h, b, k)
      PROVE  AmidBatch(h, b, k)'
  BY <1>2 DEF AmidBatch, HasLeases, HasRefs
<1> QED
  BY <1>1, <1>2 DEF TalksOf

\* A session reads and git writes without losing the thread.
LEMMA HelperKeepsTalking ==
    ASSUME Typed, Talking, NEW g \in Helper, HelperStep(g)
    PROVE  Talking'
<1>0. /\ HelperTypeOK /\ S3SessionTypeOK
      /\ \A h \in Helper : TalksOf(h)
  BY DEF Typed, WorkstationTypeOK, Talking, TalksOf
<1>1. ASSUME NEW h \in Helper, h # g
      PROVE  TalksOf(h)'
  <2>1. UNCHANGED <<says[h], stdin[h], mode[h], pushCmds[h], fetchCmds[h],
                    casRefs[h], ran[h]>>
    BY <1>0, <1>1 DEF HelperStep, GitSays, ListCommand, CasOption, PushLine,
       FetchLine, EmptyLine, RunPushBatch, RunFetchBatch, NothingToRun, Runs,
       BatchRedirected, EndOfInput, SessionRaises, HangsUp, Hears, HelperTypeOK,
       protocolVars, gitVars, batchVars
  <2>2. UNCHANGED at[h]
    BY <1>1, HelperFrame
  <2> QED
    BY <1>0, <2>1, <2>2, TalkingFrame
<1>2. TalksOf(g)'
  <2>1. CASE S3SessionStep(g) /\ UNCHANGED protocolVars
    <3>1. at[g] # "read"
      BY <2>1 DEF S3SessionStep, StartSession, ReadRegion, DetectRegion, CacheRegion,
                  AfterInstall, GetManifest, DropRegion, ListFails
    <3> QED
      BY <1>0, <2>1, <3>1, TalkingFrame DEF protocolVars, gitVars, batchVars
  <2>2. CASE ListCommand(g)
    <3>1. Hears(g, "list") /\ UNCHANGED <<says, mode, pushCmds, fetchCmds, casRefs, ran>>
      BY <2>2 DEF ListCommand, gitVars, batchVars
    <3>2. BetweenBatches(g)
      <4>1. ASSUME NEW b \in Batches, NEW k \in Nat, k < Len(BatchLines(b)), AmidBatch(g, b, k)
            PROVE  FALSE
        BY <1>0, <3>1, <4>1, ReadsOn, LineAt DEF Hears, Heard
      <4> QED
        BY <1>0, <4>1 DEF TalksOf
    <3>3. stdin'[g] = <<>>
      BY <1>0, <3>1, <3>2, HearsBetween
    <3> QED
      BY <3>1, <3>2, <3>3 DEF TalksOf, BetweenBatches, Nothing, NoLeases
  <2>3. CASE GitSays(g) \/ CasOption(g) \/ PushLine(g) \/ FetchLine(g) \/ EmptyLine(g)
    BY <1>0, <2>3, GitKeepsTalking, CasKeepsTalking, RefKeepsTalking, EmptyLineKeepsTalking
  <2>4. CASE BatchRedirected(g) \/ EndOfInput(g) \/ SessionRaises(g)
    BY <1>0, <2>4, HangsUpEndsTalk DEF BatchRedirected, EndOfInput, SessionRaises
  <2> QED
    BY <2>1, <2>2, <2>3, <2>4 DEF HelperStep
<1> QED
  BY <1>1, <1>2 DEF Talking, TalksOf

\* Every step of the workstation keeps the conversations in order.
LEMMA StepKeepsTalking ==
    ASSUME Typed, Talking, [WorkstationNext]_workstationVars
    PROVE  Talking'
<1>1. CASE UNCHANGED <<at, protocolVars>>
  BY <1>1, TalkingFrame DEF Talking, TalksOf, protocolVars, gitVars, batchVars
<1>2. CASE \E h \in Helper : HelperStep(h) /\ UNCHANGED installVars
  BY <1>2, HelperKeepsTalking
<1> QED
  BY <1>1, <1>2 DEF WorkstationNext, BucketChanges, AutoInstalls, AllEnded,
     workstationVars, helperVars, sessionVars

\* Whatever batches git means and however many, with whatever leases and in
\* whatever order it sends these: each session runs the batches of its own
\* conversation, in their order and each with its leases, and none but them.
THEOREM BatchesRunAsMeant == WorkstationSpec => []BatchesAsMeant
<1>1. WorkstationInit => Typed /\ Talking
  <2>1. WorkstationInit => Talking
    BY DEF WorkstationInit, HelperInit, Talking, TalksOf, BetweenBatches, Nothing
  <2> QED
    BY <2>1, InitTyped
<1>2. Typed /\ Talking /\ [WorkstationNext]_workstationVars => (Typed /\ Talking)'
  BY StepKeepsType, StepKeepsTalking
<1>3. Typed /\ Talking => BatchesAsMeant
  <2> SUFFICES ASSUME Typed, Talking, NEW h \in Helper
               PROVE  /\ IsPrefix(ran[h], says[h])
                      /\ at[h] = "read" /\ stdin[h] = <<>> => ran[h] = says[h]
    BY DEF BatchesAsMeant
  <2>1. ran[h] \in Seq(Batch) /\ says[h] \in Seq(Batches) /\ HelperTypeOK
    BY DEF Typed, WorkstationTypeOK, HelperTypeOK
  <2>2. CASE BetweenBatches(h)
    BY <2>1, <2>2 DEF BetweenBatches, IsPrefix
  <2>3. ASSUME NEW b \in Batches, NEW k \in Nat, k < Len(BatchLines(b)), AmidBatch(h, b, k)
        PROVE  IsPrefix(ran[h], says[h]) /\ stdin[h] # <<>>
    <3>1. says[h] = Append(ran[h], b) /\ b \in Batch
      BY <2>3, BatchType DEF AmidBatch
    <3>2. stdin[h] # <<>>
      BY <2>1, <2>3, ReadsOn
    <3>3. /\ Append(ran[h], b) \in Seq(Batch)
          /\ Len(Append(ran[h], b)) = Len(ran[h]) + 1
          /\ \A i \in 1..Len(ran[h]) : Append(ran[h], b)[i] = ran[h][i]
          /\ Len(ran[h]) \in Nat
      BY <2>1, <3>1, AppendProperties, LenProperties
    <3>4. SubSeq(ran[h], 1, Len(ran[h])) = SubSeq(Append(ran[h], b), 1, Len(ran[h]))
      BY <2>1, <3>3
    <3>5. Len(ran[h]) <= Len(Append(ran[h], b))
      BY <3>3
    <3> QED
      BY <3>1, <3>2, <3>4, <3>5 DEF IsPrefix
  <2> QED
    BY <2>2, <2>3 DEF Talking, TalksOf
<1> QED
  BY <1>1, <1>2, <1>3, PTL DEF WorkstationSpec

=============================================================================
