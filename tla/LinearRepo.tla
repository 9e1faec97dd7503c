----------------------------- MODULE LinearRepo -----------------------------
(***************************************************************************)
(* What git-remote-s3 promises of a repository, seen through git: its refs,*)
(* its protected refs and its default branch change in atomic steps, and   *)
(* each step is allowed by the very state it replaces.  There is no bucket *)
(* here, no pack, no retry and no client: a push is one step, a compaction *)
(* is none at all.                                                         *)
(***************************************************************************)
EXTENDS Integers, Sequences

CONSTANTS Ref, Commit, Reach, None, NoLease, Batches, AdminOps

VARIABLES refs, protected, head

vars == <<refs, protected, head>>

Init == /\ refs \in [Ref -> Commit \cup {None}]
        /\ protected \in SUBSET Ref
        /\ head \in Ref \cup {None}

-----------------------------------------------------------------------------
FastForward(cmd) == refs[cmd.ref] = None \/ refs[cmd.ref] \in Reach[cmd.sha]

\* History may be replaced only where the pusher says so, by a "+" or by
\* naming the sha to replace, and never on a protected ref.
MayRewrite(cmd) == /\ cmd.force \/ cmd.lease # NoLease
                   /\ cmd.ref \notin protected

LeaseHeld(cmd) == cmd.lease = NoLease \/ cmd.lease = refs[cmd.ref]

Authorised(cmd) ==
    /\ LeaseHeld(cmd)
    /\ IF cmd.sha = None THEN refs[cmd.ref] # None
       ELSE FastForward(cmd) \/ MayRewrite(cmd)

\* One push: the commands in acc, all of them or nothing.  The first ref ever
\* pushed becomes the default branch.
Publish(b, acc) ==
    LET pushed  == {i \in acc : b[i].sha # None}
        deleted == {b[i].ref : i \in acc \ pushed} IN
    /\ acc # {}
    /\ \A i \in acc : Authorised(b[i])
    /\ refs' \in [Ref -> Commit \cup {None}]
    /\ \A i \in acc : refs'[b[i].ref] = b[i].sha
    /\ \A r \in Ref : (\A i \in acc : b[i].ref # r) => refs'[r] = refs[r]
    /\ protected' = protected \ deleted
    /\ IF head = None /\ pushed # {}
       THEN \E i \in pushed : /\ \A j \in pushed : i <= j
                              /\ head' = b[i].ref
       ELSE head' = head

DeleteBranch(r) == /\ refs' = [refs EXCEPT ![r] = None]
                   /\ protected' = protected \ {r}
                   /\ UNCHANGED head

Protect(r) == protected' = protected \cup {r} /\ UNCHANGED <<refs, head>>

Unprotect(r) == protected' = protected \ {r} /\ UNCHANGED <<refs, head>>

\* The default branch is set to a ref that is there.
SetDefault(r) == refs[r] # None /\ head' = r /\ UNCHANGED <<refs, protected>>

Operate(t) ==
    \/ t.op = "delete" /\ DeleteBranch(t.ref)
    \/ t.op = "protect" /\ Protect(t.ref)
    \/ t.op = "unprotect" /\ Unprotect(t.ref)
    \/ t.op = "head" /\ SetDefault(t.ref)

Next == \/ \E b \in Batches : \E acc \in SUBSET (1 .. Len(b)) : Publish(b, acc)
        \/ \E t \in AdminOps : Operate(t)

Spec == Init /\ [][Next]_vars
=============================================================================
