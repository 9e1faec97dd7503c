----------------------------- MODULE LfsInstall -----------------------------
(***************************************************************************)
(* Wiring the LFS transfer agent into the git config of a clone:           *)
(* git-lfs-s3 install with and without --remote (install in                *)
(* src/git_remote_s3/lfs.py), and what every first session of the remote   *)
(* helper does unasked (maybe_install_lfs_agent in remote.py).  Each is a  *)
(* few git config commands one after the other, of which any may fail.     *)
(***************************************************************************)
EXTENDS GitConfig

CONSTANTS
    Sessions,    \* helper sessions, which install unasked
    Installers   \* processes that run git-lfs-s3 install

ASSUME LfsInstallAssumption == Sessions \cap Installers = {}

Writer == Sessions \cup Installers

VARIABLES
    wiring,   \* wiring[w]: where the installation by w is
    kind,     \* kind[w]: which of the installations it is
    retired,  \* retired[w]: the endpoint whose binding w takes away at the end
    torn      \* whether a write that an endpoint relies on was lost (history)

installVars == <<wiring, kind, retired, torn>>

LfsInstallTypeOK ==
    /\ wiring \in [Writer -> {"idle", "agent?", "url?", "path", "url", "agent",
                              "unset", "done"}]
    /\ kind \in [Writer -> {"auto", "scoped", "unscoped"}]
    /\ retired \in [Writer -> LfsUrl \cup {None}]
    /\ torn \in BOOLEAN

InstallInit ==
    /\ wiring = [w \in Writer |-> "idle"]
    /\ kind = [w \in Writer |-> "auto"]
    /\ retired = [w \in Writer |-> None]
    /\ torn = FALSE

-----------------------------------------------------------------------------
Wire(w, label) == wiring' = [wiring EXCEPT ![w] = label]

\* The installation is over, or was refused.
Ends(w) ==
    /\ Wire(w, "done")
    /\ kind' = [kind EXCEPT ![w] = "auto"]
    /\ retired' = [retired EXCEPT ![w] = None]

Goes(w, label) == Wire(w, label) /\ UNCHANGED <<kind, retired>>

\* maybe_install_lfs_agent keeps out of what somebody else has set up.
StartAuto(w) ==
    /\ w \in Sessions
    /\ wiring[w] = "idle"
    /\ Wire(w, "agent?")
    /\ UNCHANGED <<config, kind, retired, torn>>

CheckAgent(w) ==
    /\ wiring[w] = "agent?"
    /\ IF config.agent = Foreign THEN Ends(w) ELSE Goes(w, "url?")
    /\ UNCHANGED <<config, torn>>

CheckUrl(w) ==
    /\ wiring[w] = "url?"
    /\ IF config.lfsurl # None THEN Ends(w) ELSE Goes(w, "path")
    /\ UNCHANGED <<config, torn>>

\* Mutant: the binding under the resolved bucket goes in any case.
RetiresAlways(existing, legacy) == existing = legacy

\* Older versions rendered the endpoint from the resolved bucket; its binding
\* is taken away unless it is the one just written.
Retires(existing, legacy) == existing = legacy /\ legacy # name

StartScoped(w) ==
    LET existing == config.lfsurl
        legacy   == Resolved IN
    /\ w \in Installers
    /\ wiring[w] = "idle"
    /\ IF existing \in {None, name, legacy}
       THEN /\ Wire(w, "path")
            /\ kind' = [kind EXCEPT ![w] = "scoped"]
            /\ retired' = [retired EXCEPT ![w] =
                              IF Retires(existing, legacy) THEN legacy ELSE None]
       ELSE Ends(w)
    /\ UNCHANGED <<config, torn>>

StartUnscoped(w) ==
    /\ w \in Installers
    /\ wiring[w] = "idle"
    /\ Wire(w, "path")
    /\ kind' = [kind EXCEPT ![w] = "unscoped"]
    /\ UNCHANGED <<config, retired, torn>>

-----------------------------------------------------------------------------
\* A git config command fails: the helper goes on, install exits.
WriteFails(w, label) ==
    /\ IF kind[w] = "auto" /\ label # "done" THEN Goes(w, label) ELSE Ends(w)
    /\ UNCHANGED config

SetPath(w) ==
    LET next == IF kind[w] = "unscoped" THEN "agent" ELSE "url" IN
    /\ wiring[w] = "path"
    /\ \/ /\ Goes(w, next)
          /\ config' = [config EXCEPT !.path = TRUE]
          /\ UNCHANGED torn
       \/ WriteFails(w, next) /\ torn' = (torn \/ kind[w] = "auto")

SetUrl(w) ==
    /\ wiring[w] = "url"
    /\ \/ Goes(w, "agent") /\ config' = [config EXCEPT !.lfsurl = name]
       \/ WriteFails(w, "agent")
    /\ UNCHANGED torn

SetAgent(w) ==
    /\ wiring[w] = "agent"
    /\ \/ /\ IF retired[w] # None THEN Goes(w, "unset") ELSE Ends(w)
          /\ config' = IF kind[w] = "unscoped" THEN [config EXCEPT !.agent = Ours]
                       ELSE [config EXCEPT !.bound = @ \cup {name}]
          /\ UNCHANGED torn
       \/ WriteFails(w, "done") /\ torn' = (torn \/ kind[w] # "unscoped")

\* _git_config_unset_all tells nobody when it fails.
UnsetLegacy(w) ==
    /\ wiring[w] = "unset"
    /\ Ends(w)
    /\ \/ config' = [config EXCEPT !.bound = @ \ {retired[w]}]
       \/ UNCHANGED config
    /\ UNCHANGED torn

InstallerStep(w) ==
    /\ \/ CheckAgent(w)
       \/ CheckUrl(w)
       \/ StartScoped(w)
       \/ StartUnscoped(w)
       \/ SetPath(w)
       \/ SetUrl(w)
       \/ SetAgent(w)
       \/ UnsetLegacy(w)
    /\ UNCHANGED remoteVars
=============================================================================
