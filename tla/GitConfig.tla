----------------------------- MODULE GitConfig -----------------------------
(***************************************************************************)
(* What the processes on one clone share: the keys of its git config that  *)
(* this program reads and writes for one remote.  And what they cannot     *)
(* see change: the bucket that a DNS alias in the remote's URL stands for, *)
(* and the region each bucket is in.                                       *)
(*                                                                         *)
(* A git config command is atomic (git locks the file); two are not.       *)
(***************************************************************************)
EXTENDS Naturals

CONSTANTS
    Bucket,       \* bucket names
    Dns,          \* a DNS bucket alias
    Region,       \* AWS regions
    None,         \* an unset key; the region of a client that is not pinned
    Ours,         \* git-lfs-s3
    Foreign,      \* another LFS agent, and an LFS endpoint that is not ours
    Clones,       \* the clones a run may start with, and their remotes
    MaxMoves      \* bound: how often the bucket behind the remote changes

\* The synthetic endpoint has the bucket component of a URL in it; one
\* rendered from an alias differs from one rendered from its bucket.
LfsUrl == Bucket \cup {Dns}

Config ==
    [region : Region \cup {None},            \* remote.<name>.s3region
     path   : BOOLEAN,                       \* lfs.customtransfer.git-lfs-s3.path
     agent  : {None, Ours, Foreign},         \* lfs.standalonetransferagent
     lfsurl : LfsUrl \cup {None, Foreign},   \* remote.<name>.lfsurl
     bound  : SUBSET LfsUrl]                 \* lfs.<url>.standalonetransferagent

ASSUME GitConfigAssumption ==
    /\ Bucket # {}
    /\ Dns \notin Bucket
    /\ None \notin Bucket \cup Region \cup {Dns, Ours, Foreign}
    /\ Foreign \notin Bucket \cup {Dns, Ours}
    /\ Clones \subseteq [config : Config, name : LfsUrl, dns : Bucket,
                         home : [Bucket -> Region]]
    /\ MaxMoves \in Nat

VARIABLES
    config,  \* the clone's git config
    name,    \* the bucket component of the remote's URL
    dns,     \* the bucket that Dns resolves to
    home,    \* home[b]: the region bucket b is in
    moves    \* how often dns or home has changed

remoteVars == <<name, dns, home, moves>>
configVars == <<config, remoteVars>>

ConfigTypeOK ==
    /\ config \in Config
    /\ name \in LfsUrl
    /\ dns \in Bucket
    /\ home \in [Bucket -> Region]
    /\ moves \in 0..MaxMoves

ConfigInit ==
    /\ \E c \in Clones : /\ config = c.config /\ name = c.name
                        /\ dns = c.dns /\ home = c.home
    /\ moves = 0

-----------------------------------------------------------------------------
\* resolve_bucket_alias.
Resolved == IF name = Dns THEN dns ELSE name

\* The owner of the bucket re-creates it in another region, or points the
\* alias at another bucket.
MoveBucket(r) ==
    /\ moves < MaxMoves
    /\ home[Resolved] # r
    /\ home' = [home EXCEPT ![Resolved] = r]
    /\ moves' = moves + 1
    /\ UNCHANGED <<config, name, dns>>

Repoint(b) ==
    /\ moves < MaxMoves
    /\ name = Dns /\ dns # b
    /\ dns' = b
    /\ moves' = moves + 1
    /\ UNCHANGED <<config, name, home>>
=============================================================================
