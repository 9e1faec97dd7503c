----------------------------- MODULE S3Session -----------------------------
(***************************************************************************)
(* How a session of the remote helper gets its S3 client (_ensure_s3 and   *)
(* _build_s3_client in src/git_remote_s3/remote.py), pinned to the region  *)
(* that is cached in the git config or detected, and how the list command, *)
(* the first to reach S3, repairs a cached region that is stale            *)
(* (list_refs, _retry_without_cached_region).                              *)
(***************************************************************************)
EXTENDS LfsInstall

CONSTANT Unbuilt  \* no client yet

Helper == Sessions

ASSUME S3SessionAssumption == Unbuilt \notin Region \cup {None}

VARIABLES
    at,          \* at[h]: where session h is
    bucket,      \* bucket[h]: the bucket the remote's name resolved to
    client,      \* client[h]: the region h's client is pinned to
    store,       \* store[h]: the region of the client its WalStore was given
    fromConfig,  \* fromConfig[h]: whether that region was the cached one
    attempt,     \* attempt[h]: how often list has been tried before
    calm         \* calm[h]: in h's time the bucket has not moved, h has not failed
                 \* to drop the cached region, and no session that is not calm
                 \* has written one (history)

s3Vars == <<bucket, client, store, fromConfig, attempt>>
sessionVars == <<at, s3Vars, calm>>

S3SessionTypeOK ==
    /\ at \in [Helper -> {"idle", "read", "config", "detect", "cache", "lfs",
                          "get", "done", "redirected"}]
    /\ bucket \in [Helper -> Bucket \cup {None}]
    /\ client \in [Helper -> Region \cup {None, Unbuilt}]
    /\ store \in [Helper -> Region \cup {None, Unbuilt}]
    /\ fromConfig \in [Helper -> BOOLEAN]
    /\ attempt \in [Helper -> 0..1]
    /\ calm \in [Helper -> BOOLEAN]

S3SessionInit ==
    /\ at = [h \in Helper |-> "idle"]
    /\ bucket = [h \in Helper |-> None]
    /\ client = [h \in Helper |-> Unbuilt]
    /\ store = [h \in Helper |-> Unbuilt]
    /\ fromConfig = [h \in Helper |-> FALSE]
    /\ attempt = [h \in Helper |-> 0]
    /\ calm = [h \in Helper |-> TRUE]

-----------------------------------------------------------------------------
Goto(h, label) == at' = [at EXCEPT ![h] = label]

Live(h) == at[h] \notin {"idle", "done", "redirected"}

\* The process ends, and what it holds with it.
Exits(h, how) ==
    /\ Goto(h, how)
    /\ bucket' = [bucket EXCEPT ![h] = None]
    /\ client' = [client EXCEPT ![h] = Unbuilt]
    /\ store' = [store EXCEPT ![h] = Unbuilt]
    /\ fromConfig' = [fromConfig EXCEPT ![h] = FALSE]
    /\ attempt' = [attempt EXCEPT ![h] = 0]
    /\ calm' = [calm EXCEPT ![h] = TRUE]

\* git starts the helper.
StartSession(h) ==
    /\ at[h] = "idle"
    /\ Goto(h, "read")
    /\ UNCHANGED <<config, s3Vars, calm>>

\* The list command: the first one resolves the alias, then builds the client.
List(h) ==
    /\ IF client[h] = Unbuilt
       THEN Goto(h, "config") /\ bucket' = [bucket EXCEPT ![h] = Resolved]
       ELSE Goto(h, "get") /\ UNCHANGED bucket
    /\ attempt' = [attempt EXCEPT ![h] = 0]
    /\ UNCHANGED <<client, store, fromConfig, calm>>

\* The client is built.  The first time the LFS agent is installed next.
Builds(h, region) ==
    /\ client' = [client EXCEPT ![h] = region]
    /\ Goto(h, IF attempt[h] = 0 THEN "lfs" ELSE "get")

ReadRegion(h) ==
    /\ at[h] = "config"
    /\ fromConfig' = [fromConfig EXCEPT ![h] = config.region # None]
    /\ IF config.region # None THEN Builds(h, config.region)
       ELSE Goto(h, "detect") /\ UNCHANGED client
    /\ UNCHANGED <<config, bucket, store, attempt, calm>>

\* HeadBucket, which may tell nothing: then no region is pinned.  A session
\* gets here once, so that the cache of the answer is of no consequence.
DetectRegion(h) ==
    /\ at[h] = "detect"
    /\ \/ Builds(h, None)
       \/ /\ client' = [client EXCEPT ![h] = home[bucket[h]]]
          /\ Goto(h, "cache")
    /\ UNCHANGED <<config, bucket, store, fromConfig, attempt, calm>>

\* The region is written to the config, or git config fails and nobody minds.
CacheRegion(h) ==
    /\ at[h] = "cache"
    /\ \/ /\ config' = [config EXCEPT !.region = client[h]]
          /\ calm' = [l \in Helper |-> calm[l] /\ (calm[h] \/ ~Live(l))]
       \/ UNCHANGED <<config, calm>>
    /\ Builds(h, client[h])
    /\ UNCHANGED <<bucket, store, fromConfig, attempt>>

AfterInstall(h) ==
    /\ at[h] = "lfs"
    /\ wiring[h] = "done"
    /\ Goto(h, "get")
    /\ UNCHANGED <<config, s3Vars, calm>>

-----------------------------------------------------------------------------
\* A client that is pinned to another region is redirected; one that is not
\* pinned finds the bucket.
Redirected(h, region) == region \notin {None, home[bucket[h]]}

\* The store is built around the client the first time it is used.
StoreRegion(h) == IF store[h] = Unbuilt THEN client[h] ELSE store[h]

GetManifest(h) ==
    /\ at[h] = "get"
    /\ ~Redirected(h, StoreRegion(h))
    /\ store' = [store EXCEPT ![h] = StoreRegion(h)]
    /\ Goto(h, "read")
    /\ UNCHANGED <<config, bucket, client, fromConfig, attempt, calm>>

\* Mutant: list is tried again however often it has been.
MayRetryForEver(h) == fromConfig[h]

\* _retry_without_cached_region: once, and only if the region was cached.
MayRetry(h) == attempt[h] = 0 /\ fromConfig[h]

\* Mutant: the store keeps the client it was built around.
DropRegionOnly(h) ==
    /\ at[h] = "get"
    /\ Redirected(h, StoreRegion(h))
    /\ MayRetry(h)
    /\ config' = [config EXCEPT !.region = None]
    /\ store' = [store EXCEPT ![h] = StoreRegion(h)]
    /\ attempt' = [attempt EXCEPT ![h] = @ + 1]
    /\ Goto(h, "config")
    /\ UNCHANGED <<bucket, client, fromConfig, calm>>

\* The redirect of list's GET drops the cached region, unless git config
\* fails, and a new client and a new store are built.
DropRegion(h) ==
    /\ at[h] = "get"
    /\ Redirected(h, StoreRegion(h))
    /\ MayRetry(h)
    /\ \/ config' = [config EXCEPT !.region = None] /\ UNCHANGED calm
       \/ UNCHANGED config /\ calm' = [calm EXCEPT ![h] = FALSE]
    /\ store' = [store EXCEPT ![h] = Unbuilt]
    /\ attempt' = [attempt EXCEPT ![h] = @ + 1]
    /\ Goto(h, "config")
    /\ UNCHANGED <<bucket, client, fromConfig>>

ListFails(h) ==
    /\ at[h] = "get"
    /\ Redirected(h, StoreRegion(h))
    /\ ~MayRetry(h)
    /\ Exits(h, "redirected")
    /\ UNCHANGED config

S3SessionStep(h) ==
    \/ StartSession(h)
    \/ ReadRegion(h)
    \/ DetectRegion(h)
    \/ CacheRegion(h)
    \/ AfterInstall(h)
    \/ GetManifest(h)
    \/ DropRegion(h)
    \/ ListFails(h)
=============================================================================
