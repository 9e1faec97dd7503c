---------------------------- MODULE Workstation ----------------------------
(***************************************************************************)
(* One clone and everything that runs on it: sessions of the remote helper *)
(* (Helper, S3Session), each with the LFS installation it does unasked, and *)
(* git-lfs-s3 install (LfsInstall), all on one git config, while the bucket *)
(* behind the remote may change (GitConfig).                               *)
(***************************************************************************)
EXTENDS Helper

workstationVars == <<configVars, installVars, helperVars>>

\* WorkstationTypeOK: the git config and what the helper sessions and the
\* installations hold in memory are values the program can have; of the lines
\* git has written, a list or an empty line is always the last.
WorkstationTypeOK ==
    ConfigTypeOK /\ LfsInstallTypeOK /\ S3SessionTypeOK /\ HelperTypeOK

WorkstationInit == ConfigInit /\ InstallInit /\ S3SessionInit /\ HelperInit

\* The sessions that run when the bucket moves are not calm any more.
BucketChanges ==
    /\ (\E r \in Region : MoveBucket(r)) \/ (\E b \in Bucket : Repoint(b))
    /\ calm' = [h \in Helper |-> calm[h] /\ ~Live(h)]
    /\ UNCHANGED <<installVars, at, s3Vars, protocolVars>>

\* A session that has built its client installs the LFS agent.
AutoInstalls(h) ==
    /\ at[h] = "lfs"
    /\ StartAuto(h) \/ InstallerStep(h)
    /\ UNCHANGED <<remoteVars, helperVars>>

\* Every session and every installer has ended.
AllEnded ==
    /\ \A h \in Helper : at[h] \in {"done", "redirected"}
    /\ \A i \in Installers : wiring[i] = "done"
    /\ UNCHANGED workstationVars

WorkstationNext ==
    \/ BucketChanges
    \/ \E h \in Helper : HelperStep(h) /\ UNCHANGED installVars
    \/ \E h \in Helper : AutoInstalls(h)
    \/ \E w \in Installers : InstallerStep(w) /\ UNCHANGED helperVars
    \/ AllEnded

WorkstationSpec == WorkstationInit /\ [][WorkstationNext]_workstationVars
-----------------------------------------------------------------------------
\* BatchesAsMeant: the helper runs the batches that git means, in git's order,
\* each with its own leases and no other, whatever was said before them; and
\* all of them once it has read every line.
BatchesAsMeant ==
    \A h \in Helper :
        /\ IsPrefix(ran[h], says[h])
        /\ at[h] = "read" /\ stdin[h] = <<>> => ran[h] = says[h]

\* CalmNeverRedirected: "Only a bucket that moved region can make the cache
\* wrong": whatever stale region earlier sessions have left in the config, and
\* whoever writes and drops it at the same time, a session fails because of a
\* wrong region only when in its own time the bucket moved, git config failed,
\* or a session that such a thing had happened to wrote the region.
CalmNeverRedirected ==
    [][\A h \in Helper :
          Live(h) /\ at'[h] = "redirected" => ~calm[h]]_workstationVars

Settled == \A w \in Writer : wiring[w] \notin {"url", "agent"}

\* QuietMeansBound: once no installation is at work, an endpoint of ours in the
\* config has the transfer agent bound to it, or LFS would contact a host that
\* does not exist; in whatever order sessions and installers interleave, and
\* whatever older versions have written.  (Unless a write was lost: then
\* nothing repairs it but git-lfs-s3 install.)
QuietMeansBound ==
    Settled /\ ~torn /\ config.lfsurl \in LfsUrl =>
        config.path /\ config.lfsurl \in config.bound
=============================================================================
