------------------------------- MODULE Gitwal -------------------------------
(***************************************************************************)
(* The manifest of a repository (gitwal.json) and its pure transitions:    *)
(* src/git_remote_s3/gitwal.py, with the verdicts a push takes against one *)
(* manifest (src/git_remote_s3/remote.py, _push_rejection and its helpers).*)
(*                                                                         *)
(* Abstractions.  A commit stands for itself and for the trees and blobs   *)
(* it introduces; Reach[c] is everything reachable from c.  A pack is the  *)
(* set of commits it carries: its key is a checksum of its content, so     *)
(* equal packs are one object.  The entry log is kept as a set; the order  *)
(* of the list is the order of the seq numbers, which ValidManifest says   *)
(* are distinct.  An entry's provenance (kind, tips, by, at, bytes) decides*)
(* nothing and is left out.                                                *)
(***************************************************************************)
EXTENDS Integers, FiniteSets, Sequences

CONSTANTS
    Ref,             \* full ref names
    Commit,          \* commits (shas)
    Reach,           \* Reach[c]: the commits reachable from c, c included
    None,            \* the absent sha or ref (Python's None, and "" in a lease)
    NoLease,         \* the lease of a ref the push holds no lease on
    SupportedFormat  \* the newest manifest format this client may rewrite

ASSUME ReachAssumption ==
    /\ Reach \in [Commit -> SUBSET Commit]
    /\ \A c \in Commit : c \in Reach[c]
    /\ \A c \in Commit : \A d \in Reach[c] : Reach[d] \subseteq Reach[c]

ASSUME NoneAssumption == /\ None \notin Commit
                         /\ None \notin Ref
                         /\ NoLease \notin Commit \cup {None}

ASSUME FormatAssumption == SupportedFormat \in Nat

-----------------------------------------------------------------------------
Pack == SUBSET Commit

Entry == [seq : Nat, pack : Pack \ {{}}]

Manifest == [format    : Nat,
             seq       : Nat,
             head      : Ref \cup {None},
             refs      : [Ref -> Commit \cup {None}],
             protected : SUBSET Ref,
             entries   : SUBSET Entry]

\* Manifest(): what the code starts from when gitwal.json does not exist.  It
\* also stands for the missing object itself, whose seq no written one has.
EmptyManifest == [format    |-> SupportedFormat,
                  seq       |-> 0,
                  head      |-> None,
                  refs      |-> [r \in Ref |-> None],
                  protected |-> {},
                  entries   |-> {}]

Exists(m) == m.seq > 0

Writable(m) == m.format <= SupportedFormat

Named(m) == {e.pack : e \in m.entries}

LiveRefs(m) == {r \in Ref : m.refs[r] # None}

Tips(m) == {m.refs[r] : r \in LiveRefs(m)}

\* pack_all: everything reachable from every ref, packed once.
BasePack(m) == UNION {Reach[t] : t \in Tips(m)}

-----------------------------------------------------------------------------
(***************************************************************************)
(* A push command is [ref, sha, force, lease]: sha = None deletes the ref; *)
(* lease is the sha the ref was leased against (None: leased as absent) or *)
(* NoLease.  A batch is a sequence of them, one per ref.                   *)
(***************************************************************************)
Command == [ref : Ref, sha : Commit \cup {None}, force : BOOLEAN,
            lease : Commit \cup {None, NoLease}]

\* git merge-base --is-ancestor: false too when the clone lacks the ancestor.
IsAncestor(a, d) == a \in Reach[d]

\* Mutant: an absent ref breaks no lease.
LeaseViolatedIfPresent(m, cmd) ==
    /\ cmd.lease # NoLease
    /\ m.refs[cmd.ref] # None
    /\ cmd.lease # m.refs[cmd.ref]

LeaseViolated(m, cmd) ==
    /\ cmd.lease # NoLease
    /\ cmd.lease # m.refs[cmd.ref]

\* Mutant: a lease that holds lifts the protection too.
NonFastForwardRefusedUnleased(m, cmd) ==
    \/ ~cmd.force /\ cmd.lease # m.refs[cmd.ref]
    \/ cmd.force /\ cmd.ref \in m.protected

\* Only asked of an update that is not a fast-forward.
NonFastForwardRefused(m, cmd) ==
    \/ ~cmd.force /\ cmd.lease # m.refs[cmd.ref]
    \/ cmd.ref \in m.protected

Rejected(m, cmd) ==
    \/ LeaseViolated(m, cmd)
    \/ cmd.sha = None /\ m.refs[cmd.ref] = None
    \/ /\ cmd.sha # None
       /\ m.refs[cmd.ref] # None
       /\ ~IsAncestor(m.refs[cmd.ref], cmd.sha)
       /\ NonFastForwardRefused(m, cmd)

-----------------------------------------------------------------------------
(***************************************************************************)
(* A batch folded into one manifest: the accepted updates, then one entry  *)
(* per pack that no entry names yet, each with a seq of its own, then the  *)
(* accepted deletions.                                                     *)
(***************************************************************************)
Updates(cmds, acc) == {i \in acc : cmds[i].sha # None}

Deletions(cmds, acc) == {i \in acc : cmds[i].sha = None}

\* Mutant: the packs of one batch are not compared with each other.
FreshUnclaimed(m, pack, acc) ==
    {i \in acc : pack[i] # {} /\ pack[i] \notin Named(m)}

\* The accepted commands whose pack becomes an entry: of several that carry
\* the same pack the first one only, and none whose pack is already named.
Fresh(m, pack, acc) ==
    {i \in acc : /\ pack[i] # {}
                 /\ pack[i] \notin Named(m)
                 /\ \A j \in acc : j < i => pack[j] # pack[i]}

Rank(i, S) == Cardinality({j \in S : j <= i})

First(S) == CHOOSE i \in S : \A j \in S : i <= j

UpdatedRefs(m, cmds, acc) ==
    [r \in Ref |-> IF \E i \in acc : cmds[i].ref = r
                   THEN cmds[CHOOSE i \in acc : cmds[i].ref = r].sha
                   ELSE m.refs[r]]

\* The first ref pushed to a repository without a default branch becomes it.
UpdatedHead(m, cmds, acc) ==
    IF m.head = None /\ Updates(cmds, acc) # {}
    THEN cmds[First(Updates(cmds, acc))].ref
    ELSE m.head

\* Mutant: a push that appends no entry leaves seq alone.
PushBumpsByEntry(m, cmds, pack, acc) == Cardinality(Fresh(m, pack, acc))

PushBumps(m, cmds, pack, acc) ==
    IF Updates(cmds, acc) = {} THEN 0
    ELSE IF Fresh(m, pack, acc) = {} THEN 1
    ELSE Cardinality(Fresh(m, pack, acc))

ApplyPushes(m, cmds, pack, acc) ==
    LET fresh == Fresh(m, pack, acc) IN
    [m EXCEPT
       !.seq       = @ + PushBumps(m, cmds, pack, acc)
                       + Cardinality(Deletions(cmds, acc)),
       !.head      = UpdatedHead(m, cmds, acc),
       !.refs      = UpdatedRefs(m, cmds, acc),
       !.protected = @ \ {cmds[i].ref : i \in Deletions(cmds, acc)},
       !.entries   = @ \cup {[seq  |-> m.seq + Rank(i, fresh),
                              pack |-> pack[i]] : i \in fresh}]

-----------------------------------------------------------------------------
\* The other transitions.  Every one of them raises seq by one.
ApplyDelete(m, r) == [m EXCEPT !.seq = @ + 1, !.refs[r] = None,
                               !.protected = @ \ {r}]

ApplyProtect(m, r) == [m EXCEPT !.seq = @ + 1, !.protected = @ \cup {r}]

ApplyUnprotect(m, r) == [m EXCEPT !.seq = @ + 1, !.protected = @ \ {r}]

SetHead(m, r) == [m EXCEPT !.seq = @ + 1, !.head = r]

ApplyCompaction(m, pk) ==
    [m EXCEPT !.seq = @ + 1, !.entries = {[seq |-> m.seq + 1, pack |-> pk]}]

\* Mutant: every pack that was live is taken for superseded.
SupersededAll(m, compacted) == Named(m)

SupersededPacks(m, compacted) == Named(m) \ Named(compacted)

\* validate(): the errors, not the warnings, a doctor reports on the entry log.
ValidEntries(m) ==
    /\ \A e, f \in m.entries : e.seq = f.seq \/ e.pack = f.pack => e = f
    /\ \A e \in m.entries : e.seq <= m.seq
=============================================================================
