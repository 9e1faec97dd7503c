------------------------------- MODULE Helper -------------------------------
(***************************************************************************)
(* A session of the remote helper (process_cmd and main in                 *)
(* src/git_remote_s3/remote.py): git writes lines to its standard input,   *)
(* and the helper collects them into batches, each with its leases, which  *)
(* an empty line sends off.  What a batch then does is Push and Fetch.     *)
(*                                                                         *)
(* git is not part of the code: it is modelled from what process_cmd reads *)
(* and by the batches it means, of which it writes the lines one batch at  *)
(* a time.                                                                 *)
(***************************************************************************)
EXTENDS S3Session, SequencesExt

CONSTANTS
    Ref,      \* refs
    NoLease,  \* a ref is pushed without a lease
    Batches,  \* the batches git may mean
    MaxTalk   \* bound: how many of them in one session

\* One push or fetch; a lease is the commit the ref is expected at.
Batch == [kind : {"push", "fetch"}, cmds : Seq([ref : Ref, lease : STRING \cup {NoLease}])]

\* The refs of a batch that are pushed with a lease.
Leased(b) == {i \in DOMAIN b.cmds : b.cmds[i].lease # NoLease}

\* git sends no empty batch, fetches without leases, and refuses to push two
\* commits to one ref.
ASSUME HelperAssumption ==
    /\ MaxTalk \in Nat
    /\ Batches \subseteq Batch
    /\ \A b \in Batches :
          /\ b.cmds # <<>>
          /\ b.kind = "fetch" => Leased(b) = {}
          /\ b.kind = "push" => \A i, j \in DOMAIN b.cmds :
                                  b.cmds[i].ref = b.cmds[j].ref => i = j

Line(what, r, l) == [op |-> what, ref |-> r, lease |-> l]
ListLine  == Line("list", None, NoLease)
BlankLine == Line("blank", None, NoLease)

GitLine == {ListLine, BlankLine} \cup
           [op : {"cas", "push", "fetch"}, ref : Ref, lease : STRING \cup {NoLease}]

\* What git writes: the leases of a batch, then its refs, then an empty line.
BatchLines(b) ==
    LET leased == SetToSeq(Leased(b)) IN
    [i \in 1..Len(leased) |->
        Line("cas", b.cmds[leased[i]].ref, b.cmds[leased[i]].lease)]
    \o [i \in 1..Len(b.cmds) |-> Line(b.kind, b.cmds[i].ref, NoLease)]
    \o <<BlankLine>>

VARIABLES
    says,      \* says[h]: the batches git means h to run
    stdin,     \* stdin[h]: the lines git has written that h has not read
    closed,    \* closed[h]: whether git writes no more
    mode,      \* mode[h]: "push" or "fetch", after the first line of that kind
    pushCmds,  \* pushCmds[h]: the refs of the push lines h has collected
    fetchCmds, \* fetchCmds[h]: those of the fetch lines
    casRefs,   \* casRefs[h]: the lease of each ref
    ran        \* ran[h]: the batches h has run

gitVars      == <<says, closed>>
batchVars    == <<mode, pushCmds, fetchCmds, casRefs, ran>>
protocolVars == <<gitVars, stdin, batchVars>>
helperVars   == <<sessionVars, protocolVars>>

NoLeases == [r \in Ref |-> NoLease]

HelperTypeOK ==
    /\ says \in [Helper -> Seq(Batches)]
    /\ \A h \in Helper : Len(says[h]) <= MaxTalk
    /\ stdin \in [Helper -> Seq(GitLine)]
    /\ \A h \in Helper : stdin[h] # <<>> =>
          stdin[h][Len(stdin[h])] \in {ListLine, BlankLine}
    /\ closed \in [Helper -> BOOLEAN]
    /\ mode \in [Helper -> {"none", "push", "fetch"}]
    /\ pushCmds \in [Helper -> Seq(Ref)]
    /\ fetchCmds \in [Helper -> Seq(Ref)]
    /\ casRefs \in [Helper -> [Ref -> STRING \cup {NoLease}]]
    /\ ran \in [Helper -> Seq(Batch)]

HelperInit ==
    /\ says = [h \in Helper |-> <<>>]
    /\ stdin = [h \in Helper |-> <<ListLine>>]
    /\ closed = [h \in Helper |-> FALSE]
    /\ mode = [h \in Helper |-> "none"]
    /\ pushCmds = [h \in Helper |-> <<>>]
    /\ fetchCmds = [h \in Helper |-> <<>>]
    /\ casRefs = [h \in Helper |-> NoLeases]
    /\ ran = [h \in Helper |-> <<>>]

-----------------------------------------------------------------------------
\* git waits for the answers to one batch before it writes the next, and says
\* good-bye with an empty line.
GitSays(h) ==
    /\ at[h] = "read" /\ stdin[h] = <<>> /\ ~closed[h]
    /\ \/ \E b \in Batches :
             /\ Len(says[h]) < MaxTalk
             /\ says' = [says EXCEPT ![h] = Append(@, b)]
             /\ stdin' = [stdin EXCEPT ![h] = BatchLines(b)]
             /\ UNCHANGED closed
       \/ /\ stdin' = [stdin EXCEPT ![h] = <<BlankLine>>]
          /\ closed' = [closed EXCEPT ![h] = TRUE]
          /\ UNCHANGED says
    /\ UNCHANGED <<config, sessionVars, batchVars>>

\* process_cmd: h reads the next line.
Hears(h, what) ==
    /\ at[h] = "read"
    /\ stdin[h] # <<>>
    /\ Head(stdin[h]).op = what
    /\ stdin' = [stdin EXCEPT ![h] = Tail(@)]

Heard(h) == Head(stdin[h])

ListCommand(h) ==
    /\ Hears(h, "list")
    /\ List(h)
    /\ UNCHANGED <<config, gitVars, batchVars>>

CasOption(h) ==
    /\ Hears(h, "cas")
    /\ casRefs' = [casRefs EXCEPT ![h][Heard(h).ref] = Heard(h).lease]
    /\ UNCHANGED <<config, sessionVars, gitVars, mode, pushCmds, fetchCmds, ran>>

\* The first push line after a fetch starts a new batch, and the reverse.
PushLine(h) ==
    /\ Hears(h, "push")
    /\ mode' = [mode EXCEPT ![h] = "push"]
    /\ pushCmds' = [pushCmds EXCEPT ![h] =
                       Append(IF mode[h] = "push" THEN @ ELSE <<>>, Heard(h).ref)]
    /\ UNCHANGED <<config, sessionVars, gitVars, fetchCmds, casRefs, ran>>

FetchLine(h) ==
    /\ Hears(h, "fetch")
    /\ mode' = [mode EXCEPT ![h] = "fetch"]
    /\ fetchCmds' = [fetchCmds EXCEPT ![h] =
                        Append(IF mode[h] = "fetch" THEN @ ELSE <<>>, Heard(h).ref)]
    /\ UNCHANGED <<config, sessionVars, gitVars, pushCmds, casRefs, ran>>

-----------------------------------------------------------------------------
\* A batch reaches the bucket, or the session ends.
Reaches(h) == ~Redirected(h, client[h]) /\ ~Redirected(h, StoreRegion(h))

\* The batch as the helper has understood it.
Runs(h, what, cmds, leases) ==
    ran' = [ran EXCEPT ![h] =
               Append(@, [kind |-> what,
                          cmds |-> [i \in 1..Len(cmds) |->
                                      [ref |-> cmds[i], lease |-> leases[cmds[i]]]]])]

\* Mutant: the leases outlive the batch.
RunPushBatchKeepsLeases(h) ==
    /\ mode[h] = "push" /\ pushCmds[h] # <<>>
    /\ Runs(h, "push", pushCmds[h], casRefs[h])
    /\ pushCmds' = [pushCmds EXCEPT ![h] = <<>>]
    /\ UNCHANGED <<fetchCmds, casRefs>>

RunPushBatch(h) ==
    /\ mode[h] = "push" /\ pushCmds[h] # <<>>
    /\ Runs(h, "push", pushCmds[h], casRefs[h])
    /\ pushCmds' = [pushCmds EXCEPT ![h] = <<>>]
    /\ casRefs' = [casRefs EXCEPT ![h] = NoLeases]
    /\ UNCHANGED fetchCmds

RunFetchBatch(h) ==
    /\ mode[h] = "fetch" /\ fetchCmds[h] # <<>>
    /\ Runs(h, "fetch", fetchCmds[h], NoLeases)
    /\ fetchCmds' = [fetchCmds EXCEPT ![h] = <<>>]
    /\ UNCHANGED <<pushCmds, casRefs>>

NothingToRun(h) ==
    /\ ~(mode[h] = "push" /\ pushCmds[h] # <<>>)
    /\ ~(mode[h] = "fetch" /\ fetchCmds[h] # <<>>)
    /\ UNCHANGED <<ran, pushCmds, fetchCmds, casRefs>>

EmptyLine(h) ==
    /\ Hears(h, "blank")
    /\ Reaches(h)
    /\ RunPushBatch(h) \/ RunFetchBatch(h) \/ NothingToRun(h)
    /\ UNCHANGED <<config, sessionVars, gitVars, mode>>

\* The process ends, and git's conversation with it.
HangsUp(h) ==
    /\ says' = [says EXCEPT ![h] = <<>>]
    /\ stdin' = [stdin EXCEPT ![h] = <<>>]
    /\ closed' = [closed EXCEPT ![h] = TRUE]
    /\ mode' = [mode EXCEPT ![h] = "none"]
    /\ pushCmds' = [pushCmds EXCEPT ![h] = <<>>]
    /\ fetchCmds' = [fetchCmds EXCEPT ![h] = <<>>]
    /\ casRefs' = [casRefs EXCEPT ![h] = NoLeases]
    /\ ran' = [ran EXCEPT ![h] = <<>>]

BatchRedirected(h) ==
    /\ at[h] = "read" /\ stdin[h] # <<>> /\ Heard(h) = BlankLine
    /\ ~Reaches(h)
    /\ Exits(h, "redirected")
    /\ HangsUp(h)
    /\ UNCHANGED config

\* git closes the pipe.
EndOfInput(h) ==
    /\ at[h] = "read"
    /\ closed[h] /\ stdin[h] = <<>>
    /\ Exits(h, "done")
    /\ HangsUp(h)
    /\ UNCHANGED config

\* Anything S3 or a git subprocess raises ends the session.
SessionRaises(h) ==
    /\ at[h] \in {"config", "get", "read"}
    /\ Exits(h, "done")
    /\ HangsUp(h)
    /\ UNCHANGED config

HelperStep(h) ==
    /\ \/ S3SessionStep(h) /\ UNCHANGED protocolVars
       \/ GitSays(h)
       \/ ListCommand(h)
       \/ CasOption(h)
       \/ PushLine(h)
       \/ FetchLine(h)
       \/ EmptyLine(h)
       \/ BatchRedirected(h)
       \/ EndOfInput(h)
       \/ SessionRaises(h)
    /\ UNCHANGED remoteVars
=============================================================================
