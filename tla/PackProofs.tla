----------------------------- MODULE PackProofs -----------------------------
(***************************************************************************)
(* No compaction deletes a pack that is named or about to be.              *)
(*                                                                         *)
(* Compactions delete by key and packs are content-addressed, so a pack    *)
(* that is built again while it is being deleted is lost (the runs         *)
(* repush_during_compaction and sweep_race).  The theorems are that this   *)
(* is the only way: where nobody builds a pack that is on its way in or    *)
(* out (PacksBuiltAnew) and no reply is lost, any number of pushes,        *)
(* compactions and sweeps keep every pack that matters.                    *)
(*                                                                         *)
(* The argument keeps three sets of packs apart: the named ones, the ones  *)
(* in flight and the condemned ones.  A pack gets from the first into the  *)
(* third by a commit, when it is in nobody else's hands; from the second   *)
(* into the first by a commit, and never into the third, for it is young   *)
(* for as long as a sweep could look at it.                                *)
(***************************************************************************)
EXTENDS SafetyProofs

\* The base pack c may yet commit, the packs it has decided to delete, and
\* those it is about to look at.
Based(c) == IF pc[c] \in {"load", "put"} /\ snap[c].entries = manifest.entries
            THEN {BasePack(snap[c])} ELSE {}

Doom(c) == (IF pc[c] = "delete" THEN todo[c] ELSE {}) \cup doomed[c]

Sought(c) == IF pc[c] = "stat" THEN todo[c] ELSE {}

\* Where a pack can be, and where it cannot be at the same time.
PacksApart ==
    /\ Named(manifest) \subseteq packs
    /\ \A p \in Pushers : PushPacks(p) \subseteq young
    /\ \A c \in Compactors : Based(c) \subseteq young
    /\ \A c \in Compactors : Doom(c) \cap Named(manifest) = {}
    /\ \A c \in Compactors : Sought(c) \cap Named(manifest) \subseteq young
    /\ \A c, d \in Compactors : Doom(c) \cap Based(d) = {}
    /\ \A c \in Compactors : \A p \in Pushers : Doom(c) \cap PushPacks(p) = {}
    /\ \A c \in Compactors : \A p \in Pushers : Based(c) \cap PushPacks(p) = {}
    /\ \A p \in Pushers : PushPacks(p) \cap Named(manifest) = {}
    /\ \A p \in Pushers : \A q \in Pushers \ {p} : PushPacks(p) \cap PushPacks(q) = {}

\* No snapshot is ahead of the manifest, and a helper starts empty-handed.
Behind ==
    /\ \A c \in Compactors : \A e \in snap[c].entries : e.seq <= manifest.seq
    /\ \A p \in Pushers : pc[p] = "idle" => \A i \in Cmds(p) : pack[p][i] = {}

-----------------------------------------------------------------------------
(***************************************************************************)
(* The moves of packs between these sets.                                  *)
(***************************************************************************)
PushesLess  == \A p \in Pushers : PushPacks(p)' \subseteq PushPacks(p)
BasesLess   == \A c \in Compactors : Based(c)' \subseteq Based(c)
DoomsLess   == \A c \in Compactors : Doom(c)' \subseteq Doom(c)
SeeksLess   == \A c \in Compactors : Sought(c)' \subseteq Sought(c)
BucketStays == packs' = packs /\ young' = young

\* Packs leave: what is deleted was condemned, what gets old is nobody's.
LEMMA PacksLeave ==
    ASSUME TypeInv, PacksApart, PushesLess, BasesLess, DoomsLess,
           \A c \in Compactors : \A pk \in Sought(c)' :
               pk \in Sought(c) \/ pk \notin Named(manifest),
           Named(manifest') \subseteq Named(manifest),
           \A pk \in packs \ packs' : \E c \in Compactors : pk \in Doom(c),
           \A pk \in young \ young' :
               \/ \E c \in Compactors : pk \in Doom(c)
               \/ /\ \A c \in Compactors : pk \notin Based(c) \cup Sought(c)
                  /\ \A p \in Pushers : pk \notin PushPacks(p)
    PROVE  PacksApart'
<1> USE DEF PushesLess, BasesLess, DoomsLess
<1>1. Named(manifest') \subseteq packs'
  BY DEF PacksApart
<1>2. \A p \in Pushers : PushPacks(p)' \subseteq young'
  BY DEF PacksApart
<1>3. \A c \in Compactors : Based(c)' \subseteq young'
  BY DEF PacksApart
<1>4. \A c \in Compactors : Sought(c)' \cap Named(manifest') \subseteq young'
  BY DEF PacksApart
<1>5. Named(manifest)' = Named(manifest')
  BY DEF Named
<1> QED
  BY <1>1, <1>2, <1>3, <1>4, <1>5 DEF PacksApart

\* A push uploads a pack that nobody has to do with.
LEMMA PushUploads ==
    ASSUME TypeInv, PacksApart, NEW p \in Pushers, NEW pk, StorePack(pk),
           PushPacks(p)' \subseteq PushPacks(p) \cup {pk},
           \A q \in Pushers \ {p} : PushPacks(q)' \subseteq PushPacks(q),
           BasesLess, DoomsLess, SeeksLess, UNCHANGED manifest,
           pk \notin Named(manifest),
           \A q \in Pushers \ {p} : pk \notin PushPacks(q),
           \A c \in Compactors : pk \notin Based(c) \cup Doom(c)
    PROVE  PacksApart'
<1>1. packs \subseteq packs' /\ young \subseteq young' /\ pk \in young'
  BY DEF StorePack
<1>2. \A q \in Pushers : PushPacks(q)' \subseteq young'
  BY <1>1 DEF PacksApart
<1>3. \A c \in Compactors : Based(c)' \subseteq young'
  BY <1>1 DEF PacksApart, BasesLess
<1>4. Named(manifest)' = Named(manifest)
  BY DEF Named
<1>5. \A c \in Compactors : \A q \in Pushers : Doom(c)' \cap PushPacks(q)' = {}
  BY DEF PacksApart, DoomsLess
<1>6. \A c \in Compactors : \A q \in Pushers : Based(c)' \cap PushPacks(q)' = {}
  BY DEF PacksApart, BasesLess
<1>7. \A q \in Pushers : PushPacks(q)' \cap Named(manifest) = {}
  BY DEF PacksApart
<1>8. \A q \in Pushers : \A r \in Pushers \ {q} : PushPacks(q)' \cap PushPacks(r)' = {}
  BY DEF PacksApart
<1>9. /\ \A c \in Compactors : Sought(c)' \cap Named(manifest) \subseteq young'
      /\ \A c \in Compactors : Doom(c)' \cap Named(manifest) = {}
      /\ \A c, d \in Compactors : Doom(c)' \cap Based(d)' = {}
      /\ Named(manifest) \subseteq packs'
  BY <1>1 DEF PacksApart, SeeksLess, DoomsLess, BasesLess
<1> QED
  BY <1>2, <1>3, <1>4, <1>5, <1>6, <1>7, <1>8, <1>9 DEF PacksApart

\* A compaction uploads a base pack that is not condemned and no push's.
LEMMA BaseUploads ==
    ASSUME TypeInv, PacksApart, NEW c \in Compactors, NEW pk, StorePack(pk),
           Based(c)' \subseteq {pk},
           \A d \in Compactors \ {c} : Based(d)' \subseteq Based(d),
           PushesLess, DoomsLess, SeeksLess, UNCHANGED manifest,
           \A p \in Pushers : pk \notin PushPacks(p),
           \A d \in Compactors : pk \notin Doom(d)
    PROVE  PacksApart'
<1>1. packs \subseteq packs' /\ young \subseteq young' /\ pk \in young'
  BY DEF StorePack
<1>2. \A q \in Pushers : PushPacks(q)' \subseteq young'
  BY <1>1 DEF PacksApart, PushesLess
<1>3. \A d \in Compactors : Based(d)' \subseteq young'
  BY <1>1 DEF PacksApart
<1>4. Named(manifest)' = Named(manifest)
  BY DEF Named
<1>5. \A d, e \in Compactors : Doom(d)' \cap Based(e)' = {}
  BY DEF PacksApart, DoomsLess
<1>6. \A d \in Compactors : \A q \in Pushers : Based(d)' \cap PushPacks(q)' = {}
  BY DEF PacksApart, PushesLess
<1>7. /\ \A d \in Compactors : Sought(d)' \cap Named(manifest) \subseteq young'
      /\ \A d \in Compactors : Doom(d)' \cap Named(manifest) = {}
      /\ Named(manifest) \subseteq packs'
  BY <1>1 DEF PacksApart, SeeksLess, DoomsLess
<1>8. /\ \A d \in Compactors : \A q \in Pushers : Doom(d)' \cap PushPacks(q)' = {}
      /\ \A q \in Pushers : PushPacks(q)' \cap Named(manifest) = {}
      /\ \A q \in Pushers : \A r \in Pushers \ {q} : PushPacks(q)' \cap PushPacks(r)' = {}
  BY DEF PacksApart, PushesLess, DoomsLess
<1> QED
  BY <1>2, <1>3, <1>4, <1>5, <1>6, <1>7, <1>8 DEF PacksApart

\* A push commits: its packs are named, and nobody else's.
LEMMA PushNames ==
    ASSUME TypeInv, PacksApart, NEW p \in Pushers,
           Named(manifest') \subseteq Named(manifest) \cup PushPacks(p),
           PushPacks(p)' = {}, PushesLess, BasesLess, DoomsLess, SeeksLess,
           BucketStays
    PROVE  PacksApart'
<1> USE DEF PushesLess, BasesLess, DoomsLess, SeeksLess, BucketStays
<1>1. young \subseteq packs
  BY DEF TypeInv, TypeOK, StoreTypeOK
<1>2. Named(manifest') \subseteq packs
  BY <1>1 DEF PacksApart
<1>3. \A c \in Compactors : /\ Doom(c)' \cap Named(manifest') = {}
                            /\ Sought(c)' \cap Named(manifest') \subseteq young
  BY DEF PacksApart
<1>4. \A q \in Pushers : PushPacks(q)' \cap Named(manifest') = {}
  BY DEF PacksApart
<1>5. Named(manifest)' = Named(manifest')
  BY DEF Named
<1>6. /\ \A q \in Pushers : PushPacks(q)' \subseteq young
      /\ \A c \in Compactors : Based(c)' \subseteq young
      /\ \A c, d \in Compactors : Doom(c)' \cap Based(d)' = {}
  BY DEF PacksApart
<1>7. /\ \A c \in Compactors : \A q \in Pushers : Doom(c)' \cap PushPacks(q)' = {}
      /\ \A c \in Compactors : \A q \in Pushers : Based(c)' \cap PushPacks(q)' = {}
      /\ \A q \in Pushers : \A r \in Pushers \ {q} : PushPacks(q)' \cap PushPacks(r)' = {}
  BY DEF PacksApart
<1> QED
  BY <1>2, <1>3, <1>4, <1>5, <1>6, <1>7 DEF PacksApart

\* A compaction commits: its base pack alone is named, what was named before is
\* condemned, and every other compaction has lost.
LEMMA BaseNames ==
    ASSUME TypeInv, PacksApart, NEW c \in Compactors,
           Named(manifest') = Based(c),
           Doom(c)' \subseteq Doom(c) \cup (Named(manifest) \ Based(c)),
           \A d \in Compactors \ {c} : Doom(d)' \subseteq Doom(d),
           \A d \in Compactors : Based(d)' = {},
           PushesLess, SeeksLess, BucketStays
    PROVE  PacksApart'
<1> USE DEF PushesLess, SeeksLess, BucketStays
<1>1. young \subseteq packs
  BY DEF TypeInv, TypeOK, StoreTypeOK
<1>2. Named(manifest') \subseteq packs
  BY <1>1 DEF PacksApart
<1>3. \A d \in Compactors : /\ Doom(d)' \cap Named(manifest') = {}
                            /\ Sought(d)' \cap Named(manifest') \subseteq young
  BY DEF PacksApart
<1>4. \A q \in Pushers : PushPacks(q)' \cap Named(manifest') = {}
  BY DEF PacksApart
<1>5. Named(manifest)' = Named(manifest')
  BY DEF Named
<1>6. \A d \in Compactors : \A q \in Pushers : Doom(d)' \cap PushPacks(q)' = {}
  BY DEF PacksApart
<1>7. /\ \A q \in Pushers : PushPacks(q)' \subseteq young
      /\ \A q \in Pushers : \A r \in Pushers \ {q} : PushPacks(q)' \cap PushPacks(r)' = {}
  BY DEF PacksApart
<1> QED
  BY <1>2, <1>3, <1>4, <1>5, <1>6, <1>7 DEF PacksApart

\* A sweep condemns an orphan that is old: it is in nobody's hands.
LEMMA SweepCondemns ==
    ASSUME TypeInv, PacksApart, NEW c \in Compactors, NEW pk \in Sought(c) \ young,
           Doom(c)' \subseteq Doom(c) \cup {pk},
           \A d \in Compactors \ {c} : Doom(d)' \subseteq Doom(d),
           PushesLess, BasesLess, SeeksLess, BucketStays, UNCHANGED manifest
    PROVE  PacksApart'
<1> USE DEF PushesLess, BasesLess, SeeksLess, BucketStays
<1>1. Named(manifest)' = Named(manifest)
  BY DEF Named
<1>2. pk \notin Named(manifest)
  BY DEF PacksApart
<1>3. /\ \A p \in Pushers : pk \notin PushPacks(p)
      /\ \A d \in Compactors : pk \notin Based(d)
  BY DEF PacksApart
<1>4. \A d \in Compactors : Doom(d)' \subseteq Doom(d) \cup {pk}
  OBVIOUS
<1>5. /\ \A d \in Compactors : Doom(d)' \cap Named(manifest) = {}
      /\ \A d, e \in Compactors : Doom(d)' \cap Based(e)' = {}
      /\ \A d \in Compactors : \A p \in Pushers : Doom(d)' \cap PushPacks(p)' = {}
  BY <1>2, <1>3, <1>4 DEF PacksApart
<1>6. /\ Named(manifest) \subseteq packs
      /\ \A p \in Pushers : PushPacks(p)' \subseteq young
      /\ \A d \in Compactors : Based(d)' \subseteq young
      /\ \A d \in Compactors : Sought(d)' \cap Named(manifest) \subseteq young
  BY DEF PacksApart
<1>7. /\ \A d \in Compactors : \A p \in Pushers : Based(d)' \cap PushPacks(p)' = {}
      /\ \A p \in Pushers : PushPacks(p)' \cap Named(manifest) = {}
      /\ \A p \in Pushers : \A q \in Pushers \ {p} : PushPacks(p)' \cap PushPacks(q)' = {}
  BY DEF PacksApart
<1> QED
  BY <1>1, <1>5, <1>6, <1>7 DEF PacksApart

-----------------------------------------------------------------------------
(***************************************************************************)
(* What the clients that do not move have in hand.                         *)
(***************************************************************************)

\* What is in a client's hands is among what is in anybody's.
LEMMA InHands ==
    ASSUME TypeInv
    PROVE  /\ \A c \in Compactors : Based(c) \subseteq BasesInFlight \cap InFlight
           /\ \A c \in Compactors : Doom(c) \subseteq Condemned
           /\ \A c \in Compactors : Sought(c) \subseteq Candidates
           /\ \A p \in Pushers : PushPacks(p) \subseteq InFlight
<1>1. ASSUME NEW c \in Compactors
      PROVE  Based(c) \subseteq BasesInFlight \cap InFlight
  <2> DEFINE bases == {BasePack(snap[d]) :
                         d \in {e \in Compactors : pc[e] \in {"load", "put"}}}
  <2>1. CASE pc[c] \in {"load", "put"} /\ snap[c].entries = manifest.entries
    <3>1. BasePack(snap[c]) \in BasesInFlight
      BY <2>1 DEF BasesInFlight
    <3>2. BasePack(snap[c]) \in bases
      BY <2>1
    <3>3. bases \subseteq InFlight
      BY DEF InFlight
    <3> QED
      BY <2>1, <3>1, <3>2, <3>3 DEF Based
  <2> QED
    BY <2>1 DEF Based
<1>2. ASSUME NEW c \in Compactors
      PROVE  Doom(c) \subseteq Condemned
  <2>1. doomed[c] \subseteq Condemned
    <3>1. doomed[c] \subseteq UNION {doomed[d] : d \in Compactors}
      OBVIOUS
    <3> QED
      BY <3>1 DEF Condemned
  <2>2. ASSUME pc[c] = "delete"
        PROVE  todo[c] \subseteq Condemned
    <3>1. c \in {d \in Compactors : pc[d] = "delete"}
      BY <2>2
    <3>2. todo[c] \subseteq UNION {todo[d] : d \in {e \in Compactors : pc[e] = "delete"}}
      BY <3>1
    <3> QED
      BY <3>2 DEF Condemned
  <2> QED
    BY <2>1, <2>2 DEF Doom
<1>3. ASSUME NEW c \in Compactors
      PROVE  Sought(c) \subseteq Candidates
  BY DEF Sought, Candidates
<1>4. ASSUME NEW p \in Pushers
      PROVE  PushPacks(p) \subseteq InFlight
  <2>1. PushPacks(p) \subseteq UNION {PushPacks(q) : q \in Pushers}
    OBVIOUS
  <2> QED
    BY <2>1 DEF InFlight
<1> QED
  BY <1>1, <1>2, <1>3, <1>4

\* A base pack can only be committed against the log it was built from, and a
\* log that has been replaced does not come back.
LEMMA BaseOfLog ==
    ASSUME TypeInv, Behind, [Next]_vars, NEW c \in Compactors,
           snap'[c] = snap[c],
           pc'[c] \in {"load", "put"} => pc[c] \in {"load", "put"}
    PROVE  /\ Based(c)' \subseteq Based(c)
           /\ manifest'.entries # manifest.entries => Based(c)' = {}
<1>0. /\ snap[c] \in Manifest /\ manifest.seq \in Nat
      /\ \A e \in snap[c].entries : e.seq \in Nat
  BY DEF TypeInv, TypeOK, StoreTypeOK, Manifest, Entry, Client
<1>1. ASSUME manifest'.entries # manifest.entries
      PROVE  snap[c].entries # manifest'.entries
  <2>1. PICK e \in manifest'.entries : e.seq > manifest.seq
    BY <1>1, LogMovesOn
  <2>2. e \notin snap[c].entries
    BY <1>0, <2>1 DEF Behind
  <2> QED
    BY <2>1, <2>2
<1>2. Based(c)' = IF pc'[c] \in {"load", "put"} /\ snap[c].entries = manifest'.entries
                  THEN {BasePack(snap[c])} ELSE {}
  BY DEF Based
<1> QED
  BY <1>1, <1>2 DEF Based

\* A client that does not move keeps what it has.
LEMMA HandsStay ==
    ASSUME TypeInv, Behind, [Next]_vars, NEW d \in Client, Stays(d)
    PROVE  /\ d \in Pushers => PushPacks(d)' = PushPacks(d)
           /\ d \in Compactors => /\ Based(d)' \subseteq Based(d)
                                  /\ Doom(d)' = Doom(d)
                                  /\ Sought(d)' = Sought(d)
                                  /\ manifest'.entries # manifest.entries
                                       => Based(d)' = {}
<1>1. d \in Pushers => PushPacks(d)' = PushPacks(d)
  BY DEF Stays, PushPacks, Cmds
<1>2. ASSUME d \in Compactors
      PROVE  /\ Doom(d)' = Doom(d)
             /\ Sought(d)' = Sought(d)
  BY <1>2 DEF Stays, Doom, Sought
<1>3. ASSUME d \in Compactors
      PROVE  /\ Based(d)' \subseteq Based(d)
             /\ manifest'.entries # manifest.entries => Based(d)' = {}
  BY <1>3, BaseOfLog DEF Stays
<1> QED
  BY <1>1, <1>2, <1>3

\* A push leaves the others what they have.
LEMMA PushLeaves ==
    ASSUME TypeInv, Behind, NEW p \in Pushers, PusherStep(p)
    PROVE  /\ \A q \in Pushers \ {p} : PushPacks(q)' = PushPacks(q)
           /\ BasesLess /\ DoomsLess /\ SeeksLess
<1>1. [Next]_vars
  BY DEF Next
<1>2. \A d \in Client \ {p} : Stays(d)
  BY PushFrame
<1>3. \A c \in Compactors : c \in Client \ {p}
  BY ClientAssumption DEF Client
<1>4. \A q \in Pushers : q \in Client
  BY DEF Client
<1> QED
  BY <1>1, <1>2, <1>3, <1>4, HandsStay DEF BasesLess, DoomsLess, SeeksLess

\* Nothing of the packs is an operator command's.
LEMMA AdminLeaves ==
    ASSUME TypeInv, Behind, NEW a \in Admins, OperatorStep(a)
    PROVE  PushesLess /\ BasesLess /\ DoomsLess /\ SeeksLess
<1>1. [Next]_vars
  BY DEF Next
<1>2. \A d \in Client \ {a} : Stays(d)
  BY AdminFrame
<1>3. \A d \in Pushers \cup Compactors : d \in Client \ {a}
  BY ClientAssumption DEF Client
<1> QED
  BY <1>1, <1>2, <1>3, HandsStay
     DEF PushesLess, BasesLess, DoomsLess, SeeksLess

\* A compaction leaves the others what they have, unless it commits: then the
\* other compactions have lost.
LEMMA CompactLeaves ==
    ASSUME TypeInv, Behind, NEW c \in Compactors, CompactorStep(c)
    PROVE  /\ PushesLess
           /\ \A d \in Compactors \ {c} :
                 /\ Based(d)' \subseteq Based(d)
                 /\ Doom(d)' = Doom(d)
                 /\ Sought(d)' = Sought(d)
                 /\ manifest'.entries # manifest.entries => Based(d)' = {}
<1>1. [Next]_vars
  BY DEF Next
<1>2. \A d \in Client \ {c} : Stays(d)
  BY CompactFrame
<1>3. \A p \in Pushers : p \in Client \ {c}
  BY ClientAssumption DEF Client
<1>4. \A d \in Compactors : d \in Client
  BY DEF Client
<1> QED
  BY <1>1, <1>2, <1>3, <1>4, HandsStay DEF PushesLess

\* The clock and the newer client leave everything to everybody.
LEMMA EnvironmentLeaves ==
    ASSUME TypeInv, Behind,
           \/ \E pk \in young : OutliveGrace(pk)
           \/ UpgradeFormat
           \/ UNCHANGED vars
    PROVE  PushesLess /\ BasesLess /\ DoomsLess /\ SeeksLess
<1>1. [Next]_vars
  BY DEF Next
<1>2. \A d \in Client : Stays(d)
  BY DEF OutliveGrace, UpgradeFormat, vars, storeVars, casVars, pushVars,
         compactVars, Stays
<1>3. \A d \in Pushers \cup Compactors : d \in Client
  BY DEF Client
<1> QED
  BY <1>1, <1>2, <1>3, HandsStay
     DEF PushesLess, BasesLess, DoomsLess, SeeksLess

-----------------------------------------------------------------------------
(***************************************************************************)
(* The steps, one lemma for each kind of client.                           *)
(***************************************************************************)

\* A push only names packs of its own.
LEMMA ApplyPushesNamesOwn ==
    ASSUME NEW m \in Manifest, NEW b, NEW pk, NEW acc
    PROVE  Named(ApplyPushes(m, b, pk, acc))
               \subseteq Named(m) \cup ({pk[i] : i \in acc} \ {{}})
<1> DEFINE fresh == Fresh(m, pk, acc)
<1>1. fresh \subseteq acc /\ \A i \in fresh : pk[i] # {}
  BY DEF Fresh
<1>2. ApplyPushes(m, b, pk, acc).entries = m.entries \cup
        {[seq |-> m.seq + Rank(i, fresh), pack |-> pk[i]] : i \in fresh}
  BY DEF ApplyPushes, Manifest
<1> HIDE DEF fresh
<1> QED
  BY <1>1, <1>2 DEF Named

\* The steps of a push keep the packs apart.
LEMMA PusherKeepsApart ==
    ASSUME ~LostReplies, TypeInv, Behind, PacksApart, BuildsAnew,
           NEW p \in Pushers, PusherStep(p)
    PROVE  PacksApart'
<1>0. /\ \A q \in Pushers \ {p} : PushPacks(q)' = PushPacks(q)
      /\ BasesLess /\ DoomsLess /\ SeeksLess
      /\ PushStep(p)
      /\ p \in Client
      /\ pc \in [Client -> PusherPC \cup AdminPC \cup CompactorPC]
  BY PushLeaves DEF PusherStep, Client, TypeInv, TypeOK, StoreTypeOK
<1>1. ASSUME PushPacks(p)' \subseteq PushPacks(p), UNCHANGED manifest, BucketStays
      PROVE  PacksApart'
  BY <1>0, <1>1, PacksLeave DEF PushesLess, SeeksLess, BucketStays
<1>2. CASE StartPush(p)
  <2>1. PushPacks(p)' = {}
    BY <1>2 DEF StartPush, Behind, PushPacks, pushVars, Cmds
  <2> QED
    BY <1>1, <1>2, <2>1 DEF StartPush, bucketVars, BucketStays
<1>3. CASE PrepareDelete(p) \/ PrepareRefused(p) \/ PrepareFails(p)
  <2>1. /\ UNCHANGED <<pack, batch, manifest>>
        /\ BucketStays
        /\ pc[p] = "prepare"
    BY <1>3 DEF PrepareDelete, PrepareRefused, PrepareFails, NextCommand,
                Preparing, BucketStays
  <2>2. PushPacks(p)' \subseteq PushPacks(p)
    BY <2>1 DEF PushPacks, Cmds
  <2> QED
    BY <1>1, <2>1, <2>2
<1>4. CASE PreparePack(p)
  <2> DEFINE pk == PackObjects(p, snap[p], Current(p).sha)
  <2>1. /\ pc[p] = "prepare"
        /\ UNCHANGED <<batch, manifest>>
        /\ IF pk = {} THEN UNCHANGED <<packs, young, pack>>
           ELSE /\ StorePack(pk)
                /\ pack' = [pack EXCEPT ![p][cursor[p]] = pk]
    BY <1>4 DEF PreparePack, Preparing, NextCommand
  <2>2. pk \notin Named(manifest) \cup Condemned \cup BasesInFlight
                  \cup (UNION {PushPacks(q) : q \in Pushers \ {p}})
    BY <1>4 DEF BuildsAnew
  <2> HIDE DEF pk
  <2>3. CASE pk = {}
    <3>1. PushPacks(p)' \subseteq PushPacks(p)
      BY <2>1, <2>3 DEF PushPacks, Cmds
    <3> QED
      BY <1>1, <2>1, <2>3, <3>1 DEF BucketStays
  <2>4. CASE pk # {}
    <3>1. PushPacks(p)' \subseteq PushPacks(p) \cup {pk}
      <4>1. \A i \in Cmds(p) : pack'[p][i] = pack[p][i] \/ pack'[p][i] = pk
        BY <2>1, <2>4 DEF TypeInv, TypeOK, PushTypeOK
      <4> QED
        BY <2>1, <4>1 DEF PushPacks, Cmds
    <3>2. \A c \in Compactors : pk \notin Based(c) \cup Doom(c)
      BY <2>2, InHands
    <3>3. \A q \in Pushers \ {p} : pk \notin PushPacks(q)
      BY <2>2
    <3>4. StorePack(pk) /\ UNCHANGED manifest /\ pk \notin Named(manifest)
      BY <2>1, <2>2, <2>4
    <3> QED
      BY <1>0, <3>1, <3>2, <3>3, <3>4, PushUploads
  <2> QED
    BY <2>3, <2>4
<1>5. CASE PushLoad(p) \/ PushRefused(p)
  <2>1. /\ UNCHANGED <<pack, batch, manifest>>
        /\ BucketStays
        /\ pc[p] \in {"load", "put"}
    BY <1>5 DEF PushLoad, LoadManifest, PushRefused, PutRefused, Puts,
                NotAcknowledged, bucketVars, pushVars, BucketStays
  <2>2. PushPacks(p)' \subseteq PushPacks(p)
    BY <2>1 DEF PushPacks, Cmds
  <2> QED
    BY <1>1, <2>1, <2>2
<1>6. CASE PushExhausted(p) \/ PushRaised(p) \/ PushRejected(p)
  <2>1. /\ EndUpdate(p, "done")
        /\ UNCHANGED manifest
        /\ BucketStays
    BY <1>6 DEF PushExhausted, PushRaised, PushRejected, PutExhausted,
                PutRaised, UpdateRaised, MutatorRejects, NotAcknowledged,
                BucketStays
  <2>2. PushPacks(p)' = {}
    BY <1>0, <2>1 DEF EndUpdate, Goto, PushPacks
  <2> QED
    BY <1>1, <2>1, <2>2
<1>7. CASE PushCommitted(p)
  <2>1. /\ EndUpdate(p, "done")
        /\ pc[p] = "put"
        /\ manifest' = ApplyPushes(manifest, batch[p], pack[p],
                                   Accepted(p, manifest))
        /\ BucketStays
    BY <1>7 DEF PushCommitted, PutCommitted, Puts, Stored, PushCandidate,
                BucketStays
  <2>2. PushPacks(p)' = {}
    BY <1>0, <2>1 DEF EndUpdate, Goto, PushPacks
  <2>3. Named(manifest') \subseteq Named(manifest) \cup PushPacks(p)
    <3>1. manifest \in Manifest /\ Accepted(p, manifest) \subseteq Cmds(p)
      BY DEF TypeInv, TypeOK, StoreTypeOK, Accepted, Pending
    <3>2. {pack[p][i] : i \in Accepted(p, manifest)} \ {{}} \subseteq PushPacks(p)
      BY <2>1, <3>1 DEF PushPacks
    <3> QED
      BY <2>1, <3>1, <3>2, ApplyPushesNamesOwn
  <2> QED
    BY <1>0, <2>1, <2>2, <2>3, PushNames DEF PushesLess
<1> QED
  BY <1>0, <1>2, <1>3, <1>4, <1>5, <1>6, <1>7 DEF PushStep

\* An operator command has no packs: it leaves the log as it is.
LEMMA AdminKeepsApart ==
    ASSUME TypeInv, Behind, PacksApart, NEW a \in Admins, OperatorStep(a)
    PROVE  PacksApart'
<1>1. PushesLess /\ BasesLess /\ DoomsLess /\ SeeksLess
  BY AdminLeaves
<1>2. BucketStays
  BY DEF OperatorStep, AdminStep, StartAdmin, AbortDelete, AdminLoad,
         LoadManifest, AdminCommitted, AdminRefused, AdminFailed,
         AdminRejected, bucketVars, BucketStays
<1>3. Named(manifest') = Named(manifest)
  BY AdminManifestSteps, AdminKeepsLog DEF OperatorStep, Named
<1> QED
  BY <1>1, <1>2, <1>3, PacksLeave DEF SeeksLess, BucketStays

\* The clock spares what is in flight and what a sweep looks at.
LEMMA EnvironmentKeepsApart ==
    ASSUME TypeInv, Behind, PacksApart,
           \/ \E pk \in young : OutliveGrace(pk)
           \/ UpgradeFormat
           \/ UNCHANGED vars
    PROVE  PacksApart'
<1>1. PushesLess /\ BasesLess /\ DoomsLess /\ SeeksLess
  BY EnvironmentLeaves
<1>2. Named(manifest') = Named(manifest)
  <2>1. UNCHANGED manifest \/ UpgradeFormat
    BY DEF OutliveGrace, vars, storeVars
  <2>2. UpgradeFormat => manifest'.entries = manifest.entries
    BY DEF UpgradeFormat, TypeInv, TypeOK, StoreTypeOK, Manifest
  <2> QED
    BY <2>1, <2>2 DEF Named
<1>3. packs' = packs
  BY DEF OutliveGrace, UpgradeFormat, vars, storeVars
<1>4. ASSUME NEW pk \in young \ young'
      PROVE  /\ \A c \in Compactors : pk \notin Based(c) \cup Sought(c)
             /\ \A p \in Pushers : pk \notin PushPacks(p)
  <2>1. pk \notin InFlight \cup Candidates
    BY <1>4 DEF OutliveGrace, UpgradeFormat, vars, storeVars
  <2> QED
    BY <2>1, InHands
<1> QED
  BY <1>1, <1>2, <1>3, <1>4, PacksLeave DEF SeeksLess

\* The steps of a compaction keep the packs apart.
LEMMA CompactorKeepsApart ==
    ASSUME ~LostReplies, TypeInv, LogValid, Behind, PacksApart, BuildsAnew,
           NEW c \in Compactors, CompactorStep(c)
    PROVE  PacksApart'
<1>0. /\ PushesLess
      /\ \A d \in Compactors \ {c} :
            /\ Based(d)' \subseteq Based(d)
            /\ Doom(d)' = Doom(d)
            /\ Sought(d)' = Sought(d)
            /\ manifest'.entries # manifest.entries => Based(d)' = {}
      /\ CompactStep(c)
      /\ c \in Client
      /\ pc \in [Client -> PusherPC \cup AdminPC \cup CompactorPC]
      /\ snap \in [Client -> Manifest]
      /\ todo \in [Compactors -> SUBSET Pack]
      /\ doomed \in [Compactors -> SUBSET Pack]
  BY CompactLeaves DEF CompactorStep, Client, TypeInv, TypeOK, StoreTypeOK,
                       CompactTypeOK
\* A step that only takes packs out of c's hands.
<1>1. ASSUME UNCHANGED <<manifest, packs, young>>,
             Based(c)' \subseteq Based(c), Doom(c)' \subseteq Doom(c),
             Sought(c)' \cap Named(manifest) \subseteq Sought(c)
      PROVE  PacksApart'
  <2>1. BasesLess /\ DoomsLess
    BY <1>0, <1>1 DEF BasesLess, DoomsLess
  <2>2. \A d \in Compactors : \A pk \in Sought(d)' :
           pk \in Sought(d) \/ pk \notin Named(manifest)
    BY <1>0, <1>1
  <2> QED
    BY <1>0, <1>1, <2>1, <2>2, PacksLeave
<1>2. CASE StartCompact(c) \/ UploadBaseFails(c)
  <2>1. /\ UNCHANGED <<manifest, packs, young, todo, doomed>>
        /\ pc'[c] \in {"upload", "done"}
    BY <1>0, <1>2 DEF StartCompact, UploadBaseFails, Goto, bucketVars, compactVars
  <2>2. Based(c)' = {} /\ Sought(c)' = {} /\ Doom(c)' \subseteq Doom(c)
    BY <2>1 DEF Based, Sought, Doom
  <2> QED
    BY <1>1, <2>1, <2>2
<1>3. CASE UploadBase(c)
  <2> DEFINE pk == BasePack(snap[c])
  <2>1. /\ StorePack(pk)
        /\ pc'[c] = "load"
        /\ UNCHANGED <<manifest, snap, todo, doomed>>
    BY <1>0, <1>3 DEF UploadBase, Goto, compactVars
  <2>2. /\ \A d \in Compactors : pk \notin Doom(d)
        /\ \A p \in Pushers : pk \notin PushPacks(p)
    <3>1. pk \notin Condemned \cup (UNION {PushPacks(p) : p \in Pushers})
      BY <1>3 DEF BuildsAnew
    <3> QED
      BY <3>1, InHands
  <2>3. Based(c)' \subseteq {pk} /\ Sought(c)' = {} /\ Doom(c)' \subseteq Doom(c)
    BY <2>1 DEF Based, Sought, Doom
  <2>4. DoomsLess /\ SeeksLess
    BY <1>0, <2>3 DEF DoomsLess, SeeksLess
  <2> HIDE DEF pk
  <2> QED
    BY <1>0, <2>1, <2>2, <2>3, <2>4, BaseUploads
<1>4. CASE \/ CompactLoad(c) \/ CompactRefused(c) \/ CompactFailed(c)
           \/ CompactRejected(c)
  <2>1. UNCHANGED <<manifest, packs, young, todo, doomed>>
    BY <1>4 DEF CompactLoad, LoadManifest, CompactRefused, PutRefused,
                CompactFailed, UpdateRaised, PutExhausted, PutRaised,
                NotAcknowledged, CompactRejected, MutatorRejects,
                bucketVars, compactVars
  <2>2. /\ pc[c] \in {"load", "put"}
        /\ \/ pc'[c] \in {"load", "put"} /\ snap'[c] = snap[c]
           \/ pc'[c] = "done"
    BY <1>0, <1>4 DEF CompactLoad, LoadManifest, CompactRefused, PutRefused,
                CompactFailed, UpdateRaised, PutExhausted, PutRaised, Puts,
                CompactRejected, MutatorRejects, EndUpdate, Goto
  <2>3. /\ Based(c)' \subseteq Based(c) /\ Sought(c)' = {}
        /\ Doom(c)' \subseteq Doom(c)
    BY <2>1, <2>2 DEF Based, Sought, Doom
  <2> QED
    BY <1>1, <2>1, <2>3
<1>5. CASE CompactCommitted(c)
  <2> DEFINE pk == BasePack(snap[c])
             dead == SupersededPacks(base[c], CompactCandidate(c))
  <2>1. /\ pc[c] = "put" /\ pc'[c] = "delete"
        /\ base[c] = manifest /\ ~FingerprintMoved(c)
        /\ manifest' = ApplyCompaction(manifest, pk)
        /\ todo' = [todo EXCEPT ![c] = dead]
        /\ UNCHANGED <<packs, young, doomed>>
    BY <1>0, <1>5 DEF CompactCommitted, PutCommitted, Puts, Stored, EndUpdate,
                      Goto, CompactCandidate
  <2>2. manifest \in Manifest /\ manifest.seq \in Nat
    BY DEF TypeInv, TypeOK, StoreTypeOK, Manifest
  <2>3. manifest'.entries = {[seq |-> manifest.seq + 1, pack |-> pk]}
    BY <2>1, <2>2 DEF ApplyCompaction, Manifest
  <2>4. snap[c].entries = manifest.entries
    BY <2>1 DEF FingerprintMoved, Fingerprint
  <2>5. Based(c) = {pk} /\ Based(c)' = {} /\ Sought(c)' = {}
    BY <2>1, <2>4 DEF Based, Sought
  <2>6. Named(manifest') = {pk}
    BY <2>3 DEF Named
  <2>7. dead = Named(manifest) \ {pk}
    BY <2>1, <2>6 DEF SupersededPacks, CompactCandidate
  <2>8. Doom(c)' \subseteq Doom(c) \cup (Named(manifest) \ Based(c))
    <3>1. todo'[c] = dead /\ doomed'[c] = doomed[c]
      BY <1>0, <2>1
    <3> QED
      BY <2>5, <2>7, <3>1 DEF Doom
  <2>9. manifest'.entries # manifest.entries
    <3>1. [seq |-> manifest.seq + 1, pack |-> pk] \notin manifest.entries
      BY <2>2 DEF LogValid, ValidEntries, Manifest, Entry
    <3> QED
      BY <2>3, <3>1
  <2>10. /\ \A d \in Compactors : Based(d)' = {}
         /\ \A d \in Compactors \ {c} : Doom(d)' \subseteq Doom(d)
         /\ SeeksLess
    BY <1>0, <2>5, <2>9 DEF SeeksLess
  <2> HIDE DEF pk, dead
  <2> QED
    BY <1>0, <2>1, <2>5, <2>6, <2>8, <2>10, BaseNames DEF BucketStays
<1>6. CASE DeleteSuperseded(c) \/ ReapOrphan(c)
  <2>1. PICK pk \in Doom(c) :
          /\ DropPack(pk) \/ UNCHANGED <<packs, young>>
          /\ UNCHANGED <<manifest, pc, snap>>
          /\ todo' = [todo EXCEPT ![c] = @ \ {pk}] \/ UNCHANGED todo
          /\ doomed' = [doomed EXCEPT ![c] = @ \ {pk}] \/ UNCHANGED doomed
    BY <1>6 DEF DeleteSuperseded, ReapOrphan, Doom, casVars
  <2>2. todo'[c] \subseteq todo[c] /\ doomed'[c] \subseteq doomed[c]
    BY <1>0, <2>1
  <2>3. /\ Based(c)' \subseteq Based(c) /\ Doom(c)' \subseteq Doom(c)
        /\ Sought(c)' \subseteq Sought(c)
    BY <2>1, <2>2 DEF Based, Doom, Sought
  <2>4. BasesLess /\ DoomsLess /\ SeeksLess
    BY <1>0, <2>3 DEF BasesLess, DoomsLess, SeeksLess
  <2>5. packs \ packs' \subseteq {pk} /\ young \ young' \subseteq {pk}
    BY <2>1 DEF DropPack
  <2> QED
    BY <1>0, <2>1, <2>4, <2>5, PacksLeave DEF SeeksLess
<1>7. CASE ListPacks(c) \/ RereadManifest(c) \/ EndSweep(c)
  <2>1. /\ UNCHANGED <<manifest, packs, young, snap, doomed>>
        /\ pc'[c] \in {"reread", "stat", "done"}
    BY <1>0, <1>7 DEF ListPacks, RereadManifest, EndSweep, Goto, bucketVars
  <2>2. Based(c)' = {} /\ Doom(c)' \subseteq Doom(c)
    BY <2>1 DEF Based, Doom
  <2>3. pc'[c] = "stat" => todo'[c] \cap Named(manifest) = {}
    BY <1>0, <1>7 DEF ListPacks, RereadManifest, EndSweep, Goto
  <2>4. Sought(c)' \cap Named(manifest) = {}
    BY <2>3 DEF Sought
  <2> QED
    BY <1>1, <2>1, <2>2, <2>4
<1>8. CASE StatPack(c)
  <2>1. PICK pk \in todo[c] :
          /\ pc[c] = "stat"
          /\ todo' = [todo EXCEPT ![c] = @ \ {pk}]
          /\ \/ /\ pk \in packs \ young
                /\ doomed' = [doomed EXCEPT ![c] = @ \cup {pk}]
             \/ UNCHANGED doomed
          /\ UNCHANGED <<manifest, packs, young, pc, snap>>
    BY <1>8 DEF StatPack, bucketVars, casVars
  <2>2. /\ Based(c)' \subseteq Based(c) /\ Sought(c)' \subseteq Sought(c)
        /\ pk \in Sought(c)
    BY <1>0, <2>1 DEF Based, Sought
  <2>3. CASE UNCHANGED doomed
    <3>1. Doom(c)' \subseteq Doom(c)
      BY <1>0, <2>1, <2>3 DEF Doom
    <3> QED
      BY <1>1, <2>1, <2>2, <3>1
  <2>4. CASE pk \notin young /\ doomed' = [doomed EXCEPT ![c] = @ \cup {pk}]
    <3>1. Doom(c)' \subseteq Doom(c) \cup {pk}
      BY <1>0, <2>1, <2>4 DEF Doom
    <3>2. BasesLess /\ SeeksLess
      BY <1>0, <2>2 DEF BasesLess, SeeksLess
    <3>3. pk \in Sought(c) \ young /\ BucketStays /\ UNCHANGED manifest
      BY <2>1, <2>2, <2>4 DEF BucketStays
    <3> QED
      BY <1>0, <3>1, <3>2, <3>3, SweepCondemns
  <2> QED
    BY <2>1, <2>3, <2>4
<1> QED
  BY <1>0, <1>2, <1>3, <1>4, <1>5, <1>6, <1>7, <1>8 DEF CompactStep

-----------------------------------------------------------------------------
(***************************************************************************)
(* The theorems.                                                           *)
(***************************************************************************)
\* What every step keeps, given that nobody builds a pack anew.
Kept == TypeInv /\ Behind /\ PacksApart

\* At first nobody has anything in hand.
LEMMA InitKept == ASSUME Init PROVE Kept
<1>1. TypeInv
  BY InitTypes
<1>2. PICK s \in Seeds : StoreInit(s.manifest, s.packs)
  BY DEF Init
<1>3. /\ manifest = s.manifest /\ packs = s.packs /\ young = {}
      /\ \A c \in Client : pc[c] = "idle" /\ snap[c] = EmptyManifest
  BY <1>2 DEF StoreInit
<1>4. Behind
  BY <1>3 DEF Behind, EmptyManifest, Client, Init, PushInit
<1>5. /\ \A p \in Pushers : PushPacks(p) = {}
      /\ \A c \in Compactors : Based(c) = {} /\ Doom(c) = {} /\ Sought(c) = {}
  BY <1>3 DEF PushPacks, Based, Doom, Sought, Client, Init, CompactInit
<1>6. Named(manifest) \subseteq packs
  BY <1>3, SeedAssumption
<1> QED
  BY <1>1, <1>4, <1>5, <1>6 DEF Kept, PacksApart

\* A helper that has started does not start again.
LEMMA PusherMoves ==
    ASSUME NEW p \in Pushers, PusherStep(p), p \in Client, DOMAIN pc = Client
    PROVE  pc'[p] # "idle"
<1>1. ASSUME NEW res, Preparing(p), NextCommand(p, res) PROVE pc'[p] # "idle"
  BY <1>1 DEF Preparing, NextCommand, Goto
<1>2. CASE \/ PrepareDelete(p) \/ PrepareRefused(p) \/ PreparePack(p)
           \/ PrepareFails(p)
  BY <1>1, <1>2 DEF PrepareDelete, PrepareRefused, PreparePack, PrepareFails
<1>3. CASE StartPush(p) \/ PushLoad(p) \/ PushRefused(p)
  BY <1>3 DEF StartPush, PushLoad, LoadManifest, PushRefused, PutRefused, Goto
<1>4. CASE PushCommitted(p) \/ PushExhausted(p) \/ PushRaised(p) \/ PushRejected(p)
  BY <1>4 DEF PushCommitted, PushExhausted, PushRaised, PushRejected,
              PutCommitted, PutExhausted, PutRaised, UpdateRaised,
              MutatorRejects, EndUpdate, Goto
<1> QED
  BY <1>2, <1>3, <1>4 DEF PusherStep, PushStep

\* A snapshot is a manifest the bucket has had, so its log is not ahead.
LEMMA NextBehind ==
    ASSUME TypeInv, LogValid, Behind, [Next]_vars
    PROVE  Behind'
<1>0. /\ snap \in [Client -> Manifest]
      /\ manifest \in Manifest /\ manifest.seq \in Nat
      /\ pc \in [Client -> PusherPC \cup AdminPC \cup CompactorPC]
  BY DEF TypeInv, TypeOK, StoreTypeOK, Manifest
<1>1. manifest'.seq \in Nat /\ manifest'.seq >= manifest.seq
  <2>1. TypeInv'
    BY NextTypes
  <2>2. manifest'.seq \in Nat
    BY <2>1 DEF TypeInv, TypeOK, StoreTypeOK, Manifest
  <2>3. manifest' = manifest \/ manifest'.seq > manifest.seq
    BY WritesRaiseSeq
  <2> QED
    BY <1>0, <2>2, <2>3
<1>2. ASSUME NEW c \in Compactors
      PROVE  snap'[c] \in {snap[c], manifest, EmptyManifest}
  <2>1. c \in Client /\ c \notin Pushers \cup Admins
    BY ClientAssumption DEF Client
  <2>2. CASE Stays(c)
    BY <2>2 DEF Stays
  <2>3. CASE CompactorStep(c)
    BY <1>0, <2>1, <2>3
       DEF CompactorStep, CompactStep, StartCompact, UploadBase, UploadBaseFails,
           CompactLoad, LoadManifest, CompactCommitted, PutCommitted,
           CompactRefused, PutRefused, CompactFailed, UpdateRaised, PutExhausted,
           PutRaised, CompactRejected, MutatorRejects, EndUpdate,
           DeleteSuperseded, ListPacks, RereadManifest, StatPack, ReapOrphan,
           EndSweep, casVars, bucketVars, compactVars
  <2> QED
    BY <2>1, <2>2, <2>3, StepsAreOwn
<1>3. ASSUME NEW c \in Compactors, NEW e \in snap'[c].entries
      PROVE  e.seq <= manifest'.seq
  <2>1. e.seq <= manifest.seq /\ e.seq \in Nat
    <3>1. CASE snap'[c] = snap[c]
      BY <1>0, <1>3, <3>1 DEF Behind, Client, Manifest, Entry
    <3>2. CASE snap'[c] = manifest
      BY <1>0, <1>3, <3>2 DEF LogValid, ValidEntries, Manifest, Entry
    <3>3. CASE snap'[c] = EmptyManifest
      BY <1>3, <3>3 DEF EmptyManifest
    <3> QED
      BY <1>2, <3>1, <3>2, <3>3
  <2> QED
    BY <1>0, <1>1, <2>1
<1>4. ASSUME NEW p \in Pushers, pc'[p] = "idle", NEW i \in Cmds(p)'
      PROVE  pack'[p][i] = {}
  <2>1. p \in Client /\ p \notin Admins \cup Compactors
    BY ClientAssumption DEF Client
  <2>2. CASE Stays(p)
    BY <1>4, <2>1, <2>2 DEF Stays, Behind, Cmds
  <2>3. CASE PusherStep(p)
    <3>1. pc'[p] # "idle"
      BY <1>0, <2>1, <2>3, PusherMoves
    <3> QED
      BY <1>4, <3>1
  <2> QED
    BY <2>1, <2>2, <2>3, StepsAreOwn
<1> QED
  BY <1>3, <1>4 DEF Behind

\* Every step keeps the packs apart.
LEMMA NextKeepsApart ==
    ASSUME ~LostReplies, Kept, LogValid, [Next]_vars, [BuildsAnew]_vars
    PROVE  Kept'
<1>1. TypeInv /\ Behind /\ PacksApart
  BY DEF Kept
<1>2. TypeInv' /\ Behind'
  BY <1>1, NextTypes, NextBehind
<1>3. PacksApart'
  <2>1. CASE \/ \E pk \in young : OutliveGrace(pk)
             \/ UpgradeFormat
             \/ UNCHANGED vars
    BY <1>1, <2>1, EnvironmentKeepsApart
  <2>2. ASSUME BuildsAnew, NEW p \in Pushers, PusherStep(p) PROVE PacksApart'
    BY <1>1, <2>2, PusherKeepsApart
  <2>3. ASSUME NEW a \in Admins, OperatorStep(a) PROVE PacksApart'
    BY <1>1, <2>3, AdminKeepsApart
  <2>4. ASSUME BuildsAnew, NEW c \in Compactors, CompactorStep(c) PROVE PacksApart'
    BY <1>1, <2>4, CompactorKeepsApart
  <2> QED
    BY <2>1, <2>2, <2>3, <2>4 DEF Next, Quiescent
<1> QED
  BY <1>2, <1>3 DEF Kept

\* Every pack the manifest names is in the bucket, always: pushes, commands,
\* compactions and sweeps may interleave as they like, and packs may outlive
\* the grace period at any moment, as long as nobody builds a pack that is on
\* its way in or out and no reply is lost.
THEOREM NothingNamedIsLost ==
    ASSUME ~LostReplies
    PROVE  Spec /\ PacksBuiltAnew => []NoMissingPack
<1>1. Kept => NoMissingPack
  BY DEF Kept, PacksApart, NoMissingPack
<1> QED
  BY <1>1, InitKept, NextKeepsApart, LogAlwaysValid, PTL
     DEF Spec, PacksBuiltAnew

\* Nor is a pack that a push or a compaction has uploaded deleted before the
\* commit that names it, however long the update is retried.
THEOREM NothingInFlightIsLost ==
    ASSUME ~LostReplies
    PROVE  Spec /\ PacksBuiltAnew => []InFlightKept
<1>1. Kept => InFlightKept
  <2> SUFFICES ASSUME Kept, NEW pk \in (UNION {PushPacks(p) : p \in Pushers})
                                        \cup BasesInFlight
               PROVE  pk \in packs
    BY DEF InFlightKept
  <2>1. PacksApart /\ young \subseteq packs
    BY DEF Kept, TypeInv, TypeOK, StoreTypeOK
  <2>2. CASE pk \in UNION {PushPacks(p) : p \in Pushers}
    <3>1. PICK p \in Pushers : pk \in PushPacks(p)
      BY <2>2
    <3> QED
      BY <2>1, <3>1 DEF PacksApart
  <2>3. CASE pk \in BasesInFlight
    <3>1. PICK c \in Compactors : pk \in Based(c)
      BY <2>3 DEF BasesInFlight, Based
    <3> QED
      BY <2>1, <3>1 DEF PacksApart
  <2> QED
    BY <2>2, <2>3
<1> QED
  BY <1>1, InitKept, NextKeepsApart, LogAlwaysValid, PTL
     DEF Spec, PacksBuiltAnew

\* Only a pack some compaction has condemned is ever deleted.
LEMMA OnlyDoomedGo ==
    ASSUME [Next]_vars, NEW pk \in packs \ packs'
    PROVE  \E c \in Compactors : pk \in Doom(c)
<1>1. CASE \/ \E q \in young : OutliveGrace(q)
           \/ UpgradeFormat
           \/ UNCHANGED vars
  BY <1>1 DEF OutliveGrace, UpgradeFormat, vars, storeVars
<1>2. ASSUME NEW p \in Pushers, PushStep(p) PROVE packs \subseteq packs'
  BY <1>2 DEF PushStep, StartPush, PrepareDelete, PrepareRefused,
              PreparePack, PrepareFails, PushLoad, LoadManifest,
              PushCommitted, PushRefused, PushExhausted, PushRaised,
              PushRejected, StorePack, bucketVars
<1>3. ASSUME NEW a \in Admins, AdminStep(a) PROVE packs' = packs
  BY <1>3 DEF AdminStep, StartAdmin, AbortDelete, AdminLoad, LoadManifest,
              AdminCommitted, AdminRefused, AdminFailed, AdminRejected,
              bucketVars
<1>4. ASSUME NEW c \in Compactors, CompactStep(c) PROVE pk \in Doom(c)
  <2>1. DeleteSuperseded(c) \/ ReapOrphan(c) \/ packs \subseteq packs'
    BY <1>4 DEF CompactStep, StartCompact, UploadBase, UploadBaseFails,
                CompactLoad, LoadManifest, CompactCommitted, CompactRefused,
                CompactFailed, CompactRejected, ListPacks, RereadManifest,
                StatPack, EndSweep, StorePack, bucketVars
  <2> QED
    BY <2>1 DEF DeleteSuperseded, ReapOrphan, DropPack, Doom
<1> QED
  BY <1>1, <1>2, <1>3, <1>4
     DEF Next, PusherStep, OperatorStep, CompactorStep, Quiescent

\* No step deletes a pack the manifest names: what is deleted was condemned,
\* and what is condemned is never named again.
THEOREM DeletionsSpareNamed ==
    ASSUME ~LostReplies
    PROVE  Spec /\ PacksBuiltAnew => DeletesSpareNamed
<1>1. ASSUME Kept, [Next]_vars
      PROVE  \A pk \in packs \ packs' : pk \notin Named(manifest)
  BY <1>1, OnlyDoomedGo DEF Kept, PacksApart
<1> QED
  BY <1>1, InitKept, NextKeepsApart, LogAlwaysValid, PTL
     DEF Spec, PacksBuiltAnew, DeletesSpareNamed

-----------------------------------------------------------------------------
(***************************************************************************)
(* Pushes and commands alone: nothing is ever deleted, and replies may be  *)
(* lost.                                                                   *)
(***************************************************************************)

\* A push is about to name packs it has uploaded, and no others.
LEMMA PushUploadsFirst ==
    ASSUME TypeInv, Behind, NEW p \in Pushers, PusherStep(p),
           NEW pk \in PushPacks(p)'
    PROVE  pk \in PushPacks(p) \/ pk \in packs'
<1>0. p \in Client /\ pc \in [Client -> PusherPC \cup AdminPC \cup CompactorPC]
  BY DEF Client, TypeInv, TypeOK, StoreTypeOK
<1>1. ASSUME pc[p] \in {"prepare", "load", "put"}, UNCHANGED <<pack, batch>>
      PROVE  pk \in PushPacks(p)
  BY <1>1 DEF PushPacks, Cmds
<1>2. CASE StartPush(p)
  BY <1>2 DEF StartPush, Behind, PushPacks, pushVars, Cmds
<1>3. CASE PrepareDelete(p) \/ PrepareRefused(p) \/ PrepareFails(p)
  BY <1>1, <1>3 DEF PrepareDelete, PrepareRefused, PrepareFails, NextCommand,
                    Preparing
<1>4. CASE PreparePack(p)
  <2> DEFINE new == PackObjects(p, snap[p], Current(p).sha)
  <2>1. /\ pc[p] = "prepare"
        /\ UNCHANGED batch
        /\ \/ UNCHANGED pack
           \/ /\ new \in packs'
              /\ pack' = [pack EXCEPT ![p][cursor[p]] = new]
    BY <1>4 DEF PreparePack, Preparing, NextCommand, StorePack
  <2> HIDE DEF new
  <2>2. ASSUME new \in packs', pack' = [pack EXCEPT ![p][cursor[p]] = new]
        PROVE  pk \in PushPacks(p) \/ pk \in packs'
    <3>1. \A i \in Cmds(p) : pack'[p][i] = pack[p][i] \/ pack'[p][i] = new
      BY <2>1, <2>2 DEF TypeInv, TypeOK, PushTypeOK
    <3> QED
      BY <2>1, <2>2, <3>1 DEF PushPacks, Cmds
  <2> QED
    BY <1>1, <2>1, <2>2
<1>5. CASE PushLoad(p) \/ PushRefused(p)
  BY <1>1, <1>5 DEF PushLoad, LoadManifest, PushRefused, PutRefused, Puts,
                    pushVars
<1>6. CASE PushCommitted(p) \/ PushExhausted(p) \/ PushRaised(p) \/ PushRejected(p)
  <2>1. EndUpdate(p, "done")
    BY <1>6 DEF PushCommitted, PushExhausted, PushRaised, PushRejected,
                PutCommitted, PutExhausted, PutRaised, UpdateRaised,
                MutatorRejects
  <2>2. pc'[p] = "done"
    BY <1>0, <2>1 DEF EndUpdate, Goto
  <2> QED
    BY <2>2 DEF PushPacks
<1> QED
  BY <1>2, <1>3, <1>4, <1>5, <1>6 DEF PusherStep, PushStep

\* What is named, or about to be, is in the bucket.
Uploaded == Named(manifest) \cup (UNION {PushPacks(p) : p \in Pushers}) \subseteq packs

\* No step but a compaction's takes a pack away, and none names what is not there.
LEMMA NextKeepsUploaded ==
    ASSUME Compactors = {}, TypeInv, Behind, Uploaded, [Next]_vars
    PROVE  Uploaded'
<1>1. packs \subseteq packs'
  BY OnlyDoomedGo
<1>2. ASSUME NEW p \in Pushers PROVE PushPacks(p)' \subseteq packs'
  <2>1. PushPacks(p) \subseteq packs
    BY DEF Uploaded
  <2>2. CASE Stays(p)
    BY <1>1, <2>1, <2>2 DEF Stays, PushPacks, Cmds
  <2>3. CASE PusherStep(p)
    BY <1>1, <2>1, <2>3, PushUploadsFirst
  <2>4. p \in Client /\ p \notin Admins
    BY ClientAssumption DEF Client
  <2> QED
    BY <2>2, <2>3, <2>4, StepsAreOwn
<1>3. Named(manifest') \subseteq packs'
  <2>0. manifest \in Manifest /\ Named(manifest) \subseteq packs
    BY DEF TypeInv, TypeOK, StoreTypeOK, Uploaded
  <2>1. ASSUME NEW p \in Pushers, PushWrites(p)
        PROVE  Named(manifest') \subseteq packs
    <3>1. /\ pc[p] = "put" /\ Accepted(p, manifest) \subseteq Cmds(p)
          /\ manifest' = ApplyPushes(manifest, batch[p], pack[p],
                                     Accepted(p, manifest))
      BY <2>1 DEF PushWrites, Replaces, PushCandidate, Accepted, Pending
    <3>2. {pack[p][i] : i \in Accepted(p, manifest)} \ {{}} \subseteq PushPacks(p)
      BY <3>1 DEF PushPacks
    <3>3. PushPacks(p) \subseteq packs
      BY DEF Uploaded
    <3> QED
      BY <2>0, <3>1, <3>2, <3>3, ApplyPushesNamesOwn
  <2>2. ASSUME manifest'.entries = manifest.entries
        PROVE  Named(manifest') \subseteq packs
    BY <2>0, <2>2 DEF Named
  <2>3. UpgradeFormat => manifest'.entries = manifest.entries
    BY <2>0 DEF UpgradeFormat, Manifest
  <2> QED
    BY <1>1, <2>1, <2>2, <2>3, ManifestSteps, AdminKeepsLog
<1>4. Named(manifest)' = Named(manifest')
  BY DEF Named
<1> QED
  BY <1>2, <1>3, <1>4 DEF Uploaded

\* Where nobody compacts, no pack the manifest names is ever missing, whatever
\* is pushed, dropped and pushed again, and whichever replies are lost.
THEOREM PushesNameWhatTheyUploaded ==
    ASSUME Compactors = {}
    PROVE  Spec => []NoMissingPack
<1>1. Init => TypeInv /\ Behind /\ Uploaded
  <2> SUFFICES ASSUME Init PROVE TypeInv /\ Behind /\ Uploaded
    OBVIOUS
  <2>1. TypeInv /\ Behind /\ Named(manifest) \subseteq packs
    BY InitKept DEF Kept, PacksApart
  <2>2. \A p \in Pushers : PushPacks(p) = {}
    BY DEF Init, StoreInit, PushPacks, Client
  <2> QED
    BY <2>1, <2>2 DEF Uploaded
<1>2. Uploaded => NoMissingPack
  BY DEF Uploaded, NoMissingPack
<1> QED
  BY <1>1, <1>2, NextTypes, NextBehind, NextKeepsUploaded, LogAlwaysValid, PTL
     DEF Spec
=============================================================================
