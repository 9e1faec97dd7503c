------------------------------- MODULE Manage -------------------------------
(***************************************************************************)
(* git-s3 delete-branch, protect, unprotect and head: one compare-and-swap *)
(* each (ManageBranch and ManageHead in src/git_remote_s3/manage.py).      *)
(***************************************************************************)
EXTENDS WalStore

CONSTANT AdminOps  \* the commands an operator may run: records [op, ref]

Op == {"delete", "protect", "unprotect", "head"}

ASSUME AdminOpsAssumption == AdminOps \subseteq [op : Op, ref : Ref]

VARIABLE task  \* task[a]: the command of admin a

manageVars == <<task>>

AdminPC == {"idle", "load", "put", "done"}

ManageTypeOK == task \in [Admins -> AdminOps]

ManageInit == task \in [Admins -> AdminOps]

-----------------------------------------------------------------------------
\* Branch commands look once for the branch, head only for the repository.
MayStart(a, m) ==
    /\ Exists(m)
    /\ task[a].op = "head" \/ task[a].ref \in LiveRefs(m)

StartAdmin(a) ==
    /\ pc[a] = "idle"
    /\ Goto(a, IF MayStart(a, manifest) THEN "load" ELSE "done")
    /\ UNCHANGED <<bucketVars, attempt, snap, base, manageVars>>

\* delete_branch asks for a confirmation after the look, and may be refused it.
AbortDelete(a) ==
    /\ pc[a] = "load"
    /\ task[a].op = "delete"
    /\ attempt[a] = 0
    /\ Goto(a, "done")
    /\ UNCHANGED <<bucketVars, attempt, snap, base, manageVars>>

AdminCandidate(a) ==
    LET r == task[a].ref IN
    CASE task[a].op = "delete"    -> ApplyDelete(base[a], r)
      [] task[a].op = "protect"   -> ApplyProtect(base[a], r)
      [] task[a].op = "unprotect" -> ApplyUnprotect(base[a], r)
      [] task[a].op = "head"      -> SetHead(base[a], r)

\* Only set_head looks at the refs again in its mutator.
HeadRejected(a) ==
    task[a].op = "head" /\ task[a].ref \notin LiveRefs(base[a])

AdminLoad(a) == LoadManifest(a) /\ UNCHANGED manageVars

AdminCommitted(a) ==
    /\ ~HeadRejected(a)
    /\ PutCommitted(a, AdminCandidate(a), "done")
    /\ UNCHANGED <<packs, young, manageVars>>

AdminRefused(a) ==
    /\ ~HeadRejected(a)
    /\ PutRefused(a, AdminCandidate(a))
    /\ UNCHANGED <<packs, young, manageVars>>

AdminFailed(a) ==
    /\ \/ UpdateRaised(a, "done")
       \/ /\ ~HeadRejected(a)
          /\ \/ PutExhausted(a, AdminCandidate(a), "done")
             \/ PutRaised(a, AdminCandidate(a), "done")
    /\ UNCHANGED <<packs, young, manageVars>>

AdminRejected(a) ==
    /\ HeadRejected(a)
    /\ MutatorRejects(a, "done")
    /\ UNCHANGED <<packs, young, manageVars>>

AdminStep(a) ==
    \/ StartAdmin(a)
    \/ AbortDelete(a)
    \/ AdminLoad(a)
    \/ AdminCommitted(a)
    \/ AdminRefused(a)
    \/ AdminFailed(a)
    \/ AdminRejected(a)
=============================================================================
