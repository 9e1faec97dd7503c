---------------------------- MODULE ReportProofs ----------------------------
(***************************************************************************)
(* What a push may rely on once it is over: a commit reported ok stays in  *)
(* the history of its ref, and without lost replies the reports are exact. *)
(*                                                                         *)
(* Nobody remembers which commits were reported, so the first argument is  *)
(* about every later write: a ref that nobody has leave to rewrite only    *)
(* moves forward (PlainRefsAdvance), whoever wins the compare-and-swap.    *)
(***************************************************************************)
EXTENDS SafetyProofs

-----------------------------------------------------------------------------
\* A push's batch and an operator's command are what they were at the start.
LEMMA InputsConstant ==
    ASSUME [Next]_vars
    PROVE  UNCHANGED <<batch, task>>
<1>1. ASSUME NEW p \in Pushers, PusherStep(p) PROVE UNCHANGED <<batch, task>>
  <2>1. PushStep(p) /\ UNCHANGED task
    BY <1>1 DEF PusherStep, manageVars
  <2> QED
    BY <2>1 DEF PushStep, StartPush, PrepareDelete, PrepareRefused,
                PreparePack, PrepareFails, PushLoad, PushCommitted,
                PushRefused, PushExhausted, PushRaised, PushRejected,
                NextCommand, pushVars
<1>2. ASSUME NEW a \in Admins, OperatorStep(a) PROVE UNCHANGED <<batch, task>>
  <2>1. AdminStep(a) /\ UNCHANGED batch
    BY <1>2 DEF OperatorStep, pushVars
  <2> QED
    BY <2>1 DEF AdminStep, StartAdmin, AbortDelete, AdminLoad, AdminCommitted,
                AdminRefused, AdminFailed, AdminRejected, manageVars
<1> QED
  BY <1>1, <1>2 DEF Next, CompactorStep, OutliveGrace, UpgradeFormat,
                    Quiescent, vars, pushVars, manageVars

\* So the refs somebody has leave to rewrite are the same all along.
LEMMA RewritersConstant ==
    ASSUME [Next]_vars, NEW r
    PROVE  MayBeRewritten(r)' <=> MayBeRewritten(r)
BY InputsConstant DEF MayBeRewritten, Cmds

\* A ref that nobody forces, leases or deletes only moves forward, whatever
\* the clients that move it had read.
LEMMA PlainRefsAdvance ==
    ASSUME TypeInv, [Next]_vars, NEW r \in Ref, ~MayBeRewritten(r),
           manifest.refs[r] # None
    PROVE  /\ manifest'.refs[r] # None
           /\ IsAncestor(manifest.refs[r], manifest'.refs[r])
<1>0. /\ manifest \in Manifest
      /\ manifest.refs[r] \in Commit
      /\ IsAncestor(manifest.refs[r], manifest.refs[r])
  BY ReachAssumption DEF TypeInv, TypeOK, StoreTypeOK, Manifest, IsAncestor
<1>1. ASSUME NEW p \in Pushers, PushWrites(p)
      PROVE  /\ manifest'.refs[r] # None
             /\ IsAncestor(manifest.refs[r], manifest'.refs[r])
  <2> DEFINE acc == Accepted(p, manifest)
             b == batch[p]
  <2>1. b \in Batches /\ acc \subseteq 1 .. Len(b) /\ acc \subseteq Cmds(p)
    BY DEF TypeInv, TypeOK, PushTypeOK, Accepted, Pending, Cmds
  <2>2. manifest'.refs = UpdatedRefs(manifest, b, acc)
    BY <1>0, <1>1 DEF PushWrites, Replaces, PushCandidate, ApplyPushes, Manifest
  <2>3. CASE \A i \in acc : b[i].ref # r
    BY <1>0, <2>1, <2>2, <2>3, UpdatedRefsValue
  <2>4. ASSUME NEW i \in acc, b[i].ref = r
        PROVE  /\ manifest'.refs[r] # None
               /\ IsAncestor(manifest.refs[r], manifest'.refs[r])
    <3>1. manifest'.refs[r] = b[i].sha
      BY <1>0, <2>1, <2>2, <2>4, UpdatedRefsValue
    <3>2. ~Rejected(manifest, b[i])
      BY DEF Accepted
    <3>3. ~b[i].force /\ b[i].lease = NoLease /\ b[i].sha # None
      BY <2>1, <2>4 DEF MayBeRewritten
    <3>4. b[i].lease # manifest.refs[b[i].ref]
      BY <1>0, <2>4, <3>3, NoneAssumption
    <3> QED
      BY <2>4, <3>1, <3>2, <3>3, <3>4 DEF Rejected, NonFastForwardRefused
  <2> QED
    BY <2>3, <2>4
<1>2. ASSUME NEW a \in Admins, AdminWrites(a)
      PROVE  manifest'.refs[r] = manifest.refs[r]
  <2>1. /\ task[a].op \in Op /\ task[a].ref \in Ref
        /\ task[a].op # "delete" \/ task[a].ref # r
    BY AdminOpsAssumption DEF TypeInv, TypeOK, ManageTypeOK, MayBeRewritten
  <2>2. /\ manifest' = AdminCandidate(a)
        /\ base[a] = manifest
    BY <1>2 DEF AdminWrites, Replaces
  <2>3. \/ manifest' = ApplyDelete(manifest, task[a].ref) /\ task[a].ref # r
        \/ manifest' = ApplyProtect(manifest, task[a].ref)
        \/ manifest' = ApplyUnprotect(manifest, task[a].ref)
        \/ manifest' = SetHead(manifest, task[a].ref)
    BY <2>1, <2>2 DEF AdminCandidate, Op
  <2> QED
    BY <1>0, <2>1, <2>3
       DEF Manifest, ApplyDelete, ApplyProtect, ApplyUnprotect, SetHead
<1>3. ASSUME (\E c \in Compactors : CompactWrites(c)) \/ UpgradeFormat
      PROVE  manifest'.refs[r] = manifest.refs[r]
  BY <1>0, <1>3 DEF CompactWrites, Replaces, CompactCandidate, ApplyCompaction,
                    UpgradeFormat, Manifest
<1> QED
  BY <1>0, <1>1, <1>2, <1>3, ManifestSteps

\* A command only becomes ok with the PUT that sets its ref to its sha.
LEMMA OkWhenSet ==
    ASSUME TypeInv, [Next]_vars, NEW p \in Pushers, NEW i \in Ok(p)'
    PROVE  \/ i \in Ok(p)
           \/ manifest'.refs[batch[p][i].ref] = batch[p][i].sha
<1>0. /\ i \in Cmds(p)
      /\ result'[p][i] = "ok"
  BY InputsConstant DEF Ok, Cmds
<1>1. CASE result[p][i] = "ok"
  BY <1>0, <1>1 DEF Ok
<1>2. CASE UNCHANGED result
  BY <1>0, <1>2 DEF Ok
<1>3. ASSUME NEW q \in Pushers, PushStep(q), result[p][i] # "ok", result' # result
      PROVE  manifest'.refs[batch[p][i].ref] = batch[p][i].sha
  <2>1. ~ (PrepareDelete(q) \/ PrepareRefused(q) \/ PreparePack(q) \/ PrepareFails(q))
    BY <1>0, <1>3, PreparingReports
  <2>2. ~ (StartPush(q) \/ PushLoad(q) \/ PushRefused(q))
    BY <1>3 DEF StartPush, PushLoad, PushRefused, pushVars
  <2>3. ~ (PushExhausted(q) \/ PushRaised(q) \/ PushRejected(q))
    <3>1. ~ \E how : Report(q, how, {})
      BY <1>0, <1>3 DEF Report, TypeInv, TypeOK, PushTypeOK
    <3> QED
      BY <3>1 DEF PushExhausted, PushRaised, PushRejected
  <2>4. PushCommitted(q)
    BY <1>3, <2>1, <2>2, <2>3 DEF PushStep
  <2>5. /\ manifest = base[q]
        /\ manifest' = PushCandidate(q)
        /\ Report(q, "committed", Accepted(q, base[q]))
    BY <2>4 DEF PushCommitted, PutCommitted, Stored
  <2>6. p = q /\ i \in Accepted(q, manifest)
    BY <1>0, <1>3, <2>5 DEF Report, TypeInv, TypeOK, PushTypeOK
  <2>7. /\ batch[q] \in Batches
        /\ Accepted(q, manifest) \subseteq 1 .. Len(batch[q])
        /\ manifest \in Manifest
    BY DEF TypeInv, TypeOK, StoreTypeOK, PushTypeOK, Accepted, Pending, Cmds
  <2>8. manifest'.refs = UpdatedRefs(manifest, batch[q], Accepted(q, manifest))
    BY <2>5, <2>7 DEF PushCandidate, ApplyPushes, Manifest
  <2> QED
    BY <2>6, <2>7, <2>8, UpdatedRefsValue
<1> QED
  BY <1>1, <1>2, <1>3
     DEF Next, PusherStep, OperatorStep, CompactorStep, OutliveGrace,
         UpgradeFormat, Quiescent, vars, pushVars

\* Every step keeps what was reported ok in the history of its ref.
LEMMA NextLosesNoUpdate ==
    ASSUME TypeInv, NoLostUpdate, [Next]_vars
    PROVE  NoLostUpdate'
<1>0. /\ UNCHANGED batch
      /\ manifest \in Manifest
      /\ manifest' \in Manifest
  BY InputsConstant, NextTypes DEF TypeInv, TypeOK, StoreTypeOK
<1> SUFFICES ASSUME NEW p \in Pushers, NEW i \in Ok(p)',
                    ~MayBeRewritten(batch[p][i].ref)
             PROVE  /\ manifest'.refs[batch[p][i].ref] # None
                    /\ IsAncestor(batch[p][i].sha, manifest'.refs[batch[p][i].ref])
  BY <1>0, RewritersConstant DEF NoLostUpdate
<1> DEFINE cmd == batch[p][i]
<1>1. /\ i \in Cmds(p)
      /\ cmd.ref \in Ref
      /\ cmd.sha \in Commit
      /\ cmd.sha # None
  <2>1. i \in Cmds(p) /\ batch[p] \in Batches
    BY <1>0 DEF Ok, Cmds, TypeInv, TypeOK, PushTypeOK
  <2>2. cmd.sha # None
    BY <2>1 DEF MayBeRewritten
  <2> QED
    BY <2>1, <2>2, BatchFacts DEF Cmds
<1>2. CASE manifest'.refs[cmd.ref] = cmd.sha
  BY <1>1, <1>2, ReachAssumption DEF IsAncestor
<1>3. CASE i \in Ok(p)
  <2> DEFINE old == manifest.refs[cmd.ref]
             new == manifest'.refs[cmd.ref]
  <2>1. old # None /\ IsAncestor(cmd.sha, old)
    BY <1>3 DEF NoLostUpdate
  <2>2. new # None /\ IsAncestor(old, new)
    BY <1>1, <2>1, PlainRefsAdvance
  <2>3. new \in Commit /\ old \in Commit
    BY <1>0, <1>1, <2>1, <2>2 DEF Manifest
  <2> HIDE DEF cmd
  <2>4. cmd.sha \in Reach[new]
    BY <2>1, <2>2, <2>3, ReachAssumption DEF IsAncestor
  <2> QED
    BY <2>2, <2>4 DEF IsAncestor, cmd
<1> QED
  BY <1>2, <1>3, OkWhenSet

\* A commit that a push was told is stored stays in the history of its ref,
\* however many pushes race for it, unless somebody forces or deletes the ref.
THEOREM NoUpdateIsLost == Spec => []NoLostUpdate
<1>1. Init => NoLostUpdate
  BY DEF Init, PushInit, NoLostUpdate, Ok, Cmds
<1>2. TypeInv /\ NoLostUpdate /\ [Next]_vars => NoLostUpdate'
  BY NextLosesNoUpdate
<1> QED
  BY <1>1, <1>2, InitTypes, NextTypes, PTL DEF Spec
-----------------------------------------------------------------------------
(***************************************************************************)
(* Without lost replies the report is exact.  What has to be carried along *)
(* is that a push which is not over has stored nothing, however often its  *)
(* PUT was refused, and that an update that stored something says so.      *)
(***************************************************************************)
PushHonest(p) ==
    IF pc[p] = "done"
    THEN /\ Ok(p) = landed[p]
         /\ Pending(p, result[p]) = {}
         /\ outcome[p] # "committed" => landed[p] = {}
    ELSE /\ Ok(p) = {}
         /\ landed[p] = {}
         /\ outcome[p] # "exhausted"

\* An update that stored nothing reports no command ok, and leaves none open.
LEMMA FailureReported ==
    ASSUME TypeInv, NEW p \in Pushers, PushHonest(p), pc[p] \in {"load", "put"},
           NEW how, Report(p, how, {}), UNCHANGED <<batch, landed>>, pc'[p] = "done"
    PROVE  PushHonest(p)'
<1>1. Ok(p) = {} /\ landed'[p] = {}
  BY DEF PushHonest
<1>2. \A i \in Cmds(p) : result'[p][i] # "pending" /\ result'[p][i] # "ok"
  BY <1>1 DEF Report, Ok, TypeInv, TypeOK, PushTypeOK
<1>3. Ok(p)' = {} /\ Pending(p, result[p])' = {}
  BY <1>2 DEF Ok, Pending, Cmds
<1> QED
  BY <1>1, <1>3 DEF PushHonest

\* An acknowledged PUT is reported ok for the commands it applied, no others.
LEMMA CommitReported ==
    ASSUME TypeInv, NEW p \in Pushers, PushHonest(p), PushCommitted(p)
    PROVE  PushHonest(p)'
<1> DEFINE acc == Accepted(p, base[p])
<1>1. /\ pc[p] = "put"
      /\ pc'[p] = "done"
      /\ UNCHANGED batch
      /\ Report(p, "committed", acc)
      /\ p \in Client
  BY DEF PushCommitted, PutCommitted, Puts, EndUpdate, Goto, Client,
         TypeInv, TypeOK, StoreTypeOK
<1>2. Ok(p) = {} /\ landed[p] = {}
  BY <1>1 DEF PushHonest
<1>3. landed'[p] = acc /\ acc \subseteq Cmds(p)
  <2>1. landed' = [landed EXCEPT ![p] = @ \cup acc]
    BY CommittedLands
  <2>2. DOMAIN landed = Pushers
    BY DEF TypeInv, TypeOK, PushTypeOK
  <2> QED
    BY <1>2, <2>1, <2>2, CandidateType
<1>4. \A i \in acc : result[p][i] = "pending"
  BY DEF Accepted, Pending
<1> HIDE DEF acc
<1>5. \A i \in Cmds(p) : /\ result'[p][i] = "ok" <=> i \in acc
                         /\ result'[p][i] # "pending"
  BY <1>1, <1>2, <1>4 DEF Report, Ok, TypeInv, TypeOK, PushTypeOK
<1>6. Ok(p)' = acc /\ Pending(p, result[p])' = {}
  BY <1>1, <1>3, <1>5 DEF Ok, Pending, Cmds
<1>7. outcome'[p] = "committed"
  BY <1>1 DEF Report, TypeInv, TypeOK, PushTypeOK
<1> QED
  BY <1>1, <1>3, <1>6, <1>7 DEF PushHonest

\* The steps of a push, for the push itself.
LEMMA MoverHonest ==
    ASSUME ~LostReplies, TypeInv, NEW p \in Pushers, PushHonest(p), PushStep(p)
    PROVE  PushHonest(p)'
<1>0. /\ p \in Client
      /\ pc \in [Client -> PusherPC \cup AdminPC \cup CompactorPC]
  BY DEF Client, TypeInv, TypeOK, StoreTypeOK
<1>1. CASE StartPush(p) \/ PushLoad(p)
  BY <1>0, <1>1 DEF StartPush, PushLoad, LoadManifest, Goto, pushVars,
                    PushHonest, Ok, Cmds
<1>2. CASE PrepareDelete(p) \/ PrepareRefused(p) \/ PreparePack(p) \/ PrepareFails(p)
  <2>1. pc[p] = "prepare" /\ \E res : NextCommand(p, res)
    BY <1>2 DEF PrepareDelete, PrepareRefused, PreparePack, PrepareFails,
                Preparing
  <2>2. PICK res : NextCommand(p, res)
    BY <2>1
  <2>3. Ok(p)' = {} /\ landed'[p] = {} /\ UNCHANGED <<batch, outcome>>
    <3>1. UNCHANGED <<batch, outcome, landed>>
      BY <2>2 DEF NextCommand
    <3>2. Ok(p) = {} /\ landed[p] = {}
      BY <2>1 DEF PushHonest
    <3> QED
      BY <1>2, <3>1, <3>2, PreparingReports DEF Ok, Cmds
  <2>4. pc'[p] = "done" => Pending(p, result[p])' = {}
    BY <1>0, <2>1, <2>2 DEF NextCommand, Goto, Pending, Cmds, TypeInv, TypeOK,
                            PushTypeOK
  <2> QED
    BY <2>1, <2>3, <2>4 DEF PushHonest
<1>3. CASE PushRefused(p)
  <2>1. pc[p] = "put" /\ pc'[p] = "load" /\ UNCHANGED <<batch, result, outcome>>
    BY <1>0, <1>3 DEF PushRefused, PutRefused, Puts, Goto
  <2>2. UNCHANGED landed
    BY <1>3 DEF PushRefused, PutRefused, NotAcknowledged, Landing
  <2> QED
    BY <2>1, <2>2 DEF PushHonest, Ok, Cmds
<1>4. CASE PushCommitted(p)
  BY <1>4, CommitReported
<1>5. CASE PushExhausted(p) \/ PushRaised(p) \/ PushRejected(p)
  <2>1. /\ pc[p] \in {"load", "put"}
        /\ EndUpdate(p, "done")
        /\ UNCHANGED batch
        /\ \E how : Report(p, how, {})
    BY <1>5 DEF PushExhausted, PushRaised, PushRejected, PutExhausted,
                PutRaised, UpdateRaised, MutatorRejects, Puts
  <2>2. UNCHANGED landed
    BY <1>5 DEF PushExhausted, PushRaised, PushRejected, PutExhausted,
                PutRaised, UpdateRaised, NotAcknowledged, Landing
  <2>3. pc'[p] = "done"
    BY <1>0, <2>1 DEF EndUpdate, Goto
  <2> QED
    BY <2>1, <2>2, <2>3, FailureReported
<1> QED
  BY <1>1, <1>2, <1>3, <1>4, <1>5 DEF PushStep

\* Every step keeps the reports honest.
LEMMA NextHonest ==
    ASSUME ~LostReplies, TypeInv, \A p \in Pushers : PushHonest(p), [Next]_vars
    PROVE  \A p \in Pushers : PushHonest(p)'
<1> SUFFICES ASSUME NEW q \in Pushers PROVE PushHonest(q)'
  OBVIOUS
<1>1. CASE PusherStep(q)
  BY <1>1, MoverHonest DEF PusherStep
<1>2. CASE Stays(q)
  BY <1>2 DEF Stays, PushHonest, Ok, Pending, Cmds
<1> QED
  BY <1>1, <1>2, StepsAreOwn, ClientAssumption DEF Client

\* It holds at the start, when nothing is stored or reported.
LEMMA InitHonest == Init => \A p \in Pushers : PushHonest(p)
BY DEF Init, StoreInit, PushInit, PushHonest, Ok, Cmds, Client

\* Without lost replies, a helper that has ended has reported every command,
\* and ok for exactly those its PUT has applied.
THEOREM ReportsAreExact ==
    ASSUME ~LostReplies
    PROVE  Spec => []ReportsHonest
<1> DEFINE Inv == \A p \in Pushers : PushHonest(p)
<1>1. Inv => ReportsHonest
  BY DEF PushHonest, ReportsHonest
<1>2. TypeInv /\ Inv /\ [Next]_vars => Inv'
  BY NextHonest
<1>3. Init => Inv
  BY InitHonest
<1> HIDE DEF Inv
<1> QED
  BY <1>1, <1>2, <1>3, InitTypes, NextTypes, PTL DEF Spec

\* Then CasExhaustedError is right that nothing was committed: the lost reply
\* that the run exhausted_commit finds is what it takes to make it wrong.
THEOREM ExhaustedCommitsNothing ==
    ASSUME ~LostReplies
    PROVE  Spec => []ExhaustedMeansUncommitted
<1> DEFINE Inv == \A p \in Pushers : PushHonest(p)
<1>1. Inv => ExhaustedMeansUncommitted
  BY DEF PushHonest, ExhaustedMeansUncommitted
<1>2. TypeInv /\ Inv /\ [Next]_vars => Inv'
  BY NextHonest
<1>3. Init => Inv
  BY InitHonest
<1> HIDE DEF Inv
<1> QED
  BY <1>1, <1>2, <1>3, InitTypes, NextTypes, PTL DEF Spec
=============================================================================
