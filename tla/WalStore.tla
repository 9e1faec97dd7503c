------------------------------ MODULE WalStore ------------------------------
(***************************************************************************)
(* The bucket, as far as one repository uses it, and the compare-and-swap  *)
(* loop every writer of gitwal.json goes through (WalStore.update in       *)
(* src/git_remote_s3/walstore.py).  A client is one process; each of its   *)
(* S3 requests is one step, and the steps of all clients interleave.       *)
(*                                                                         *)
(* The ETag is a function of the content and no content comes back (seq    *)
(* grows with every write), so If-Match: <etag> is "the manifest is still  *)
(* the one I read", and If-None-Match: * the same with EmptyManifest.      *)
(***************************************************************************)
EXTENDS Gitwal

CONSTANTS
    Pushers, Admins, Compactors,  \* disjoint sets of client processes
    Holds,                        \* Holds[c]: the commits in client c's clone
    Shallow,                      \* the clients whose clone is shallow
    Attempts,                     \* WalStore.attempts (the default is 8)
    LostReplies,                  \* whether S3 may apply a PUT whose reply
                                  \* the client never gets
    GracePasses                   \* whether packs outlive the grace period

Client == Pushers \cup Admins \cup Compactors

ASSUME ClientAssumption ==
    /\ Pushers \cap Admins = {}
    /\ Pushers \cap Compactors = {}
    /\ Admins \cap Compactors = {}
    /\ Attempts \in Nat \ {0}
    /\ LostReplies \in BOOLEAN
    /\ GracePasses \in BOOLEAN

\* A clone that is not shallow has the whole history of what it has.
ASSUME HoldsAssumption ==
    /\ Holds \in [Client -> SUBSET Commit]
    /\ Shallow \subseteq Client
    /\ \A c \in Client \ Shallow : \A d \in Holds[c] : Reach[d] \subseteq Holds[c]

VARIABLES
    manifest,  \* the content of gitwal.json; EmptyManifest when there is none
    packs,     \* the objects under packs/
    young,     \* those whose LastModified is within the grace period
    pc,        \* pc[c]: where client c is
    attempt,   \* attempt[c]: the refused PUTs of c's update so far
    snap,      \* snap[c]: the manifest c read before it went to work
    base       \* base[c]: the manifest c's current attempt mutates

bucketVars == <<manifest, packs, young>>
casVars    == <<pc, attempt, base>>
storeVars  == <<manifest, packs, young, pc, attempt, snap, base>>

StoreTypeOK(PC) ==
    /\ manifest \in Manifest
    /\ packs \subseteq Pack
    /\ young \subseteq packs
    /\ pc \in [Client -> PC]
    /\ attempt \in [Client -> 0 .. Attempts - 1]
    /\ snap \in [Client -> Manifest]
    /\ base \in [Client -> Manifest]

StoreInit(m, stored) ==
    /\ manifest = m
    /\ packs = stored
    /\ young = {}
    /\ pc = [c \in Client |-> "idle"]
    /\ attempt = [c \in Client |-> 0]
    /\ snap = [c \in Client |-> EmptyManifest]
    /\ base = [c \in Client |-> EmptyManifest]

-----------------------------------------------------------------------------
\* The bucket.  upload_file is unconditional, and makes an old pack young.
StorePack(pk) == /\ packs' = packs \cup {pk}
                 /\ young' = young \cup {pk}

DropPack(pk) == /\ packs' = packs \ {pk}
                /\ young' = young \ {pk}

-----------------------------------------------------------------------------
Goto(c, label) == pc' = [pc EXCEPT ![c] = label]

\* One iteration of update() starts with a GET.
LoadManifest(c) ==
    /\ pc[c] = "load"
    /\ base' = [base EXCEPT ![c] = manifest]
    /\ Goto(c, "put")
    /\ UNCHANGED <<bucketVars, attempt, snap>>

\* update() returns or raises: the locals of the work it ends die and the caller goes on at label.
EndUpdate(c, label) ==
    /\ Goto(c, label)
    /\ attempt' = [attempt EXCEPT ![c] = 0]
    /\ base' = [base EXCEPT ![c] = EmptyManifest]
    /\ snap' = [snap EXCEPT ![c] = EmptyManifest]

\* Mutant: the PUT carries no condition.
StoredUnconditionally(c, candidate) == manifest' = candidate

\* S3 evaluates the condition of c's PUT, which holds, and stores the body.
Stored(c, candidate) ==
    /\ manifest = base[c]
    /\ manifest' = candidate

\* Mutant: the format is not looked at.
PutsAnyFormat(c) == pc[c] = "put"

\* require_writable lets the mutator build a candidate.
Puts(c) == pc[c] = "put" /\ Writable(base[c])

PutCommitted(c, candidate, label) ==
    /\ Puts(c)
    /\ Stored(c, candidate)
    /\ EndUpdate(c, label)

\* A PUT the client takes for not applied.  It was not, or its reply was lost
\* and the SDK's own retry of it met the ETag its first sending had replaced.
NotAcknowledged(c, candidate) ==
    \/ UNCHANGED manifest
    \/ LostReplies /\ Stored(c, candidate)

\* Mutant: one attempt too many.
PutRefusedOnceMore(c, candidate) ==
    /\ Puts(c)
    /\ attempt[c] < Attempts
    /\ NotAcknowledged(c, candidate)
    /\ attempt' = [attempt EXCEPT ![c] = @ + 1]
    /\ base' = [base EXCEPT ![c] = EmptyManifest]
    /\ Goto(c, "load")
    /\ UNCHANGED snap

\* Mutant: the attempts are not counted.
PutRefusedUncounted(c, candidate) ==
    /\ Puts(c)
    /\ NotAcknowledged(c, candidate)
    /\ base' = [base EXCEPT ![c] = EmptyManifest]
    /\ Goto(c, "load")
    /\ UNCHANGED <<attempt, snap>>

\* 412, 409 or 404: load again and re-run the mutator while attempts remain.
PutRefused(c, candidate) ==
    /\ Puts(c)
    /\ attempt[c] + 1 < Attempts
    /\ NotAcknowledged(c, candidate)
    /\ attempt' = [attempt EXCEPT ![c] = @ + 1]
    /\ base' = [base EXCEPT ![c] = EmptyManifest]
    /\ Goto(c, "load")
    /\ UNCHANGED snap

PutExhausted(c, candidate, label) ==
    /\ Puts(c)
    /\ attempt[c] + 1 = Attempts
    /\ NotAcknowledged(c, candidate)
    /\ EndUpdate(c, label)

\* Any other answer to the PUT raises.
PutRaised(c, candidate, label) ==
    /\ Puts(c)
    /\ NotAcknowledged(c, candidate)
    /\ EndUpdate(c, label)

\* The GET raises, or the manifest is not this client's to rewrite.
UpdateRaised(c, label) ==
    /\ pc[c] = "load" \/ (pc[c] = "put" /\ ~Writable(base[c]))
    /\ EndUpdate(c, label)
    /\ UNCHANGED manifest

\* The mutator raises Reject: the loop ends at once.
MutatorRejects(c, label) ==
    /\ pc[c] = "put"
    /\ EndUpdate(c, label)
    /\ UNCHANGED manifest
=============================================================================
