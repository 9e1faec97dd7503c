-------------------------------- MODULE Push --------------------------------
(***************************************************************************)
(* git push: one batch of the remote helper (S3Remote.process_push_cmds in *)
(* src/git_remote_s3/remote.py).  The helper reads the manifest once, then *)
(* builds and uploads one pack per ref against that snapshot, and at last  *)
(* commits every surviving ref in one compare-and-swap.                    *)
(***************************************************************************)
EXTENDS WalStore

CONSTANT Batches  \* what git may hand to a helper: sequences of Command

ASSUME BatchAssumption ==
    \A b \in Batches :
        /\ b \in Seq(Command)
        /\ b # <<>>
        /\ \A i, j \in 1 .. Len(b) : b[i].ref = b[j].ref => i = j

VARIABLES
    batch,    \* batch[p]: the push commands of p's batch
    cursor,   \* cursor[p]: the command p prepares next
    pack,     \* pack[p][i]: the pack uploaded for command i ({}: no entry)
    result,   \* result[p][i]: the line reported to git for command i
    outcome,  \* outcome[p]: how p's update ended
    landed    \* landed[p]: the commands S3 has applied (not seen by p)

pushVars == <<batch, cursor, pack, result, outcome, landed>>

Cmds(p) == 1 .. Len(batch[p])

Result == {"pending", "ok", "error"}

Outcome == {"none", "committed", "rejected", "exhausted", "raised"}

PusherPC == {"idle", "prepare", "load", "put", "done"}

PushTypeOK ==
    /\ batch \in [Pushers -> Batches]
    /\ DOMAIN cursor = Pushers
    /\ DOMAIN pack = Pushers
    /\ DOMAIN result = Pushers
    /\ outcome \in [Pushers -> Outcome]
    /\ DOMAIN landed = Pushers
    /\ \A p \in Pushers : /\ cursor[p] \in 1 .. Len(batch[p]) + 1
                          /\ pack[p] \in [Cmds(p) -> Pack]
                          /\ result[p] \in [Cmds(p) -> Result]
                          /\ landed[p] \subseteq Cmds(p)

PushInit ==
    /\ batch \in [Pushers -> Batches]
    /\ cursor = [p \in Pushers |-> 1]
    /\ pack = [p \in Pushers |-> [i \in Cmds(p) |-> {}]]
    /\ result = [p \in Pushers |-> [i \in Cmds(p) |-> "pending"]]
    /\ outcome = [p \in Pushers |-> "none"]
    /\ landed = [p \in Pushers |-> {}]

-----------------------------------------------------------------------------
StartPush(p) ==
    /\ pc[p] = "idle"
    /\ snap' = [snap EXCEPT ![p] = manifest]
    /\ Goto(p, "prepare")
    /\ UNCHANGED <<bucketVars, attempt, base, pushVars>>

\* Mutant: the refs earlier in the batch count as held by the remote.
PackObjectsAfterBatch(p, m, sha) ==
    LET earlier == {batch[p][i].sha : i \in 1 .. cursor[p] - 1} \ {None} IN
    (Reach[sha] \ UNION {Reach[h] : h \in (Tips(m) \cup earlier) \cap Holds[p]})
        \cap Holds[p]

\* Mutant: nothing is excluded.
PackObjectsAll(p, m, sha) == Reach[sha] \cap Holds[p]

\* git pack-objects <sha> ^<have>...: the tips of the snapshot that the clone
\* does not hold are dropped from the exclusions.
PackObjects(p, m, sha) ==
    (Reach[sha] \ UNION {Reach[h] : h \in Tips(m) \cap Holds[p]}) \cap Holds[p]

Preparing(p) == pc[p] = "prepare"

Current(p) == batch[p][cursor[p]]

Pending(p, res) == {i \in Cmds(p) : res[i] = "pending"}

\* Command i is dealt with; after the last one the surviving commands commit.
NextCommand(p, res) ==
    /\ result' = [result EXCEPT ![p] = res]
    /\ cursor' = [cursor EXCEPT ![p] = @ + 1]
    /\ IF cursor[p] < Len(batch[p]) THEN UNCHANGED <<pc, snap>>
       ELSE /\ Goto(p, IF Pending(p, res) = {} THEN "done" ELSE "load")
            /\ snap' = [snap EXCEPT ![p] = EmptyManifest]
    /\ UNCHANGED <<manifest, attempt, base, batch, outcome, landed>>

Fails(p) == [result[p] EXCEPT ![cursor[p]] = "error"]

\* A deletion carries no objects and meets no pre-flight check.
PrepareDelete(p) ==
    /\ Preparing(p)
    /\ Current(p).sha = None
    /\ NextCommand(p, result[p])
    /\ UNCHANGED <<packs, young, pack>>

\* The pre-flight verdict, against the snapshot; the authoritative one is the
\* mutator's.
Doomed(p) == \/ p \in Shallow
             \/ Current(p).sha \notin Holds[p]
             \/ Rejected(snap[p], Current(p))

PrepareRefused(p) ==
    /\ Preparing(p)
    /\ Current(p).sha # None
    /\ Doomed(p)
    /\ NextCommand(p, Fails(p))
    /\ UNCHANGED <<packs, young, pack>>

\* Builds the pack and uploads it; an empty pack leaves a refs-only update.
PreparePack(p) ==
    LET pk == PackObjects(p, snap[p], Current(p).sha) IN
    /\ Preparing(p)
    /\ Current(p).sha # None
    /\ ~Doomed(p)
    /\ IF pk = {} THEN UNCHANGED <<packs, young, pack>>
       ELSE /\ StorePack(pk)
            /\ pack' = [pack EXCEPT ![p][cursor[p]] = pk]
    /\ NextCommand(p, result[p])

\* git cannot build the pack, or the upload fails, stored or not: this ref
\* fails and the batch goes on.
PrepareFails(p) ==
    LET pk == PackObjects(p, snap[p], Current(p).sha) IN
    /\ Preparing(p)
    /\ Current(p).sha # None
    /\ ~Doomed(p)
    /\ \/ UNCHANGED <<packs, young>>
       \/ LostReplies /\ pk # {} /\ StorePack(pk)
    /\ NextCommand(p, Fails(p))
    /\ UNCHANGED pack

-----------------------------------------------------------------------------
\* Mutant: the pre-flight verdict is final.
AcceptedPreflight(p, m) == Pending(p, result[p])

\* The mutator: every verdict is taken again, against the manifest to replace.
Accepted(p, m) == {i \in Pending(p, result[p]) : ~Rejected(m, batch[p][i])}

PushCandidate(p) ==
    ApplyPushes(base[p], batch[p], pack[p], Accepted(p, base[p]))

\* Mutant: a commit is reported for every command that reached it.
ReportBatch(p, how, done) ==
    /\ outcome' = [outcome EXCEPT ![p] = how]
    /\ result' = [result EXCEPT ![p] =
          [i \in Cmds(p) |-> IF result[p][i] # "pending" THEN result[p][i]
                             ELSE IF how = "committed" THEN "ok" ELSE "error"]]

\* Mutant: an exhausted update is not taken for a failure.
ReportExhaustedOk(p, how, done) ==
    /\ outcome' = [outcome EXCEPT ![p] = how]
    /\ result' = [result EXCEPT ![p] =
          [i \in Cmds(p) |-> IF result[p][i] # "pending" THEN result[p][i]
                             ELSE IF i \in done \/ how = "exhausted" THEN "ok"
                             ELSE "error"]]

\* The update has ended: report ok for the commands in done and an error for
\* the other survivors.
Report(p, how, done) ==
    /\ outcome' = [outcome EXCEPT ![p] = how]
    /\ result' = [result EXCEPT ![p] =
          [i \in Cmds(p) |-> IF result[p][i] # "pending" THEN result[p][i]
                             ELSE IF i \in done THEN "ok" ELSE "error"]]

\* landed follows what S3 applied, whatever p was told.
Landing(p) ==
    landed' = IF manifest' = manifest THEN landed
              ELSE [landed EXCEPT ![p] = @ \cup Accepted(p, base[p])]

PushLoad(p) == LoadManifest(p) /\ UNCHANGED pushVars

PushCommitted(p) ==
    /\ Accepted(p, base[p]) # {}
    /\ PutCommitted(p, PushCandidate(p), "done")
    /\ Report(p, "committed", Accepted(p, base[p]))
    /\ Landing(p)
    /\ UNCHANGED <<packs, young, batch, cursor, pack>>

PushRefused(p) ==
    /\ Accepted(p, base[p]) # {}
    /\ PutRefused(p, PushCandidate(p))
    /\ Landing(p)
    /\ UNCHANGED <<packs, young, batch, cursor, pack, result, outcome>>

PushExhausted(p) ==
    /\ Accepted(p, base[p]) # {}
    /\ PutExhausted(p, PushCandidate(p), "done")
    /\ Report(p, "exhausted", {})
    /\ Landing(p)
    /\ UNCHANGED <<packs, young, batch, cursor, pack>>

\* A ClientError, or an error of the store.  (Any other exception ends the
\* helper: a helper that takes no more steps, and reports nothing.)
PushRaised(p) ==
    /\ \/ /\ pc[p] = "put" => Accepted(p, base[p]) # {}
          /\ UpdateRaised(p, "done")
       \/ /\ Accepted(p, base[p]) # {}
          /\ PutRaised(p, PushCandidate(p), "done")
    /\ Report(p, "raised", {})
    /\ Landing(p)
    /\ UNCHANGED <<packs, young, batch, cursor, pack>>

PushRejected(p) ==
    /\ MutatorRejects(p, "done")
    /\ Accepted(p, base[p]) = {}
    /\ Report(p, "rejected", {})
    /\ UNCHANGED <<packs, young, batch, cursor, pack, landed>>

PushStep(p) ==
    \/ StartPush(p)
    \/ PrepareDelete(p)
    \/ PrepareRefused(p)
    \/ PreparePack(p)
    \/ PrepareFails(p)
    \/ PushLoad(p)
    \/ PushCommitted(p)
    \/ PushRefused(p)
    \/ PushExhausted(p)
    \/ PushRaised(p)
    \/ PushRejected(p)
=============================================================================
