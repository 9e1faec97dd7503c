--------------------------- MODULE MCWorkstation ---------------------------
(***************************************************************************)
(* A small instance of Workstation.                                      *)
(***************************************************************************)
EXTENDS Workstation, TLC

Symmetry == Permutations(Helper)

Pushes(cmds)  == [kind |-> "push", cmds |-> cmds]
Fetches(refs) == [kind |-> "fetch",
                  cmds |-> [i \in 1..Len(refs) |-> [ref |-> refs[i], lease |-> NoLease]]]
Plain(r)     == [ref |-> r, lease |-> NoLease]
Expecting(r) == [ref |-> r, lease |-> "c1"]

MCBatches == {Pushes(<<Plain("main")>>),
              Pushes(<<Expecting("main"), Plain("side")>>),
              Fetches(<<"main", "side">>)}

Unset == [region |-> None, path |-> FALSE, agent |-> None, lfsurl |-> None,
          bound |-> {}]

\* An alias for a bucket that an older version has installed LFS for, and that
\* has moved since; a bucket; a clone that belongs to another agent.
MCClones == {[config |-> Unset, name |-> "dns", dns |-> "b1",
              home |-> [b1 |-> "r1", b2 |-> "r2"]],
             [config |-> [Unset EXCEPT !.region = "r2", !.path = TRUE,
                                       !.lfsurl = "b1", !.bound = {"b1"}],
              name |-> "dns", dns |-> "b1", home |-> [b1 |-> "r1", b2 |-> "r2"]],
             [config |-> [Unset EXCEPT !.path = TRUE, !.lfsurl = "b1",
                                       !.bound = {"b1"}],
              name |-> "b1", dns |-> "b2", home |-> [b1 |-> "r1", b2 |-> "r1"]],
             [config |-> [Unset EXCEPT !.agent = Foreign],
              name |-> "b1", dns |-> "b2", home |-> [b1 |-> "r1", b2 |-> "r1"]],
             [config |-> [Unset EXCEPT !.lfsurl = Foreign],
              name |-> "b1", dns |-> "b2", home |-> [b1 |-> "r1", b2 |-> "r1"]]}

\* Once a session has its refs it does not touch the config: its batches are
\* followed while no other process is at work, and in the first session.
OneTalks ==
    \A h \in Helper : says[h] # <<>> =>
        /\ \A l \in Helper \ {h} : at[l] = "idle"
        /\ \A i \in Installers : wiring[i] \in {"idle", "done"}

\* It takes three sessions for one to put back a region that another has just
\* dropped: one that caches it before the bucket moves, one that detects it
\* then, and one that drops it.  They run where there is no LFS to install, and
\* are followed until they have listed the refs.
ThirdSession ==
    (\A h \in Helper : at[h] # "idle") /\ (\E h \in Helper : Live(h)) =>
        /\ config.agent = Foreign
        /\ \A i \in Installers : wiring[i] = "idle"
        /\ \A h \in Helper : at[h] = "read" => stdin[h] = <<ListLine>>
=============================================================================
