# git-remote-s3 in TLA+

This directory is a formal model of git-remote-s3: TLA+ modules for the
components that share state through S3, TLC runs that check them on small
instances, and theorems that the TLA+ proof system (TLAPS) checks for every
instance. File names such as `remote.py` are those of `git_remote_s3/`.

    tlc -workers 2 -config push_race.cfg MCRepo      # any run of the tables below
    tlapm SafetyProofs.tla                           # any *Proofs module

## The system

A repository is one object, `<prefix>/gitwal.json` (the *manifest*), and the
packs it names under `<prefix>/packs/`. There is no server and no lock. Every
client is a process on somebody's machine; they meet only in S3 requests.

| Component | State it keeps | Operations | Talks to | Correct when |
|---|---|---|---|---|
| Manifest (`gitwal.py`) | format, seq, head, refs, protected refs, entry log | pure transitions: push, delete, protect, unprotect, set head, compaction; validation | – | each transition raises seq; no seq and no pack is twice in the log |
| Manifest store (`walstore.py`) | the object and its ETag; attempts, the manifest being mutated | `load`, `update` (GET, mutate, conditional PUT, again on 412/409/404), `create` | S3 | a PUT replaces only the manifest its mutator was given; ends after 8 attempts; a newer format is left alone |
| Push (`remote.py`, `git.py`) | the batch, its packs, verdicts and results; the snapshot it built the packs against | `process_push_cmds`: prepare each ref, upload, one commit for all | store, packs, git | no update lost; protection and leases hold at the commit; reports true; every ref keeps its history |
| Operator commands (`manage.py`) | – | delete-branch, protect, unprotect, head | store | as pushes |
| Compaction and sweep (`manage.py`) | snapshot, base pack, superseded packs, orphan candidates | `compact`: pack everything, commit, delete what it superseded, sweep old orphans | store, packs | never deletes a pack that is named, or that a push is about to name |
| Fetch (`remote.py`) | the clone's objects; the imported-seq mark in git config | list, load, download in parallel, index, verify, fall back, record | store (read), packs (read), git config | delivers complete history or says it did not; the mark is only a hint; ends |
| Migration (`manage.py`) | – | `migrate` (legacy bundles to a manifest), `--finalize` (delete the legacy keys) | S3, `create` | nothing a legacy client pushed is lost silently |
| Doctor (`manage.py`) | – | reads the manifest, lists the packs, reports | S3 | no false alarm, no missed one |
| Helper session (`remote.py`) | batches of push and fetch lines, leases, the cached region | `process_cmd`, `cmd_option`, `list` with one retry | git by pipe, push, fetch | a lease serves its own batch only; a moved bucket is found again |
| LFS agent and install (`lfs.py`) | git config, LFS objects in S3 | upload (HEAD, then PUT), download, install | git-lfs, S3 | uploads are idempotent, installation too |
| Addressing (`common.py`) | per-process caches | URLs, DNS aliases, bucket regions, access grants | DNS, STS, git config | the same remote is the same bucket everywhere |
| git wrappers (`git.py`) | – | `pack-objects`, `index-pack`, `merge-base`, `rev-list` | git | – |

What is hard here: everything is optimistic. A push decides what its pack may
leave out, and what it is allowed to do, from a manifest it read seconds or
minutes before; compaction deletes from a listing that is old when it is used; a
fetch downloads what an old log names; the clock (the grace period) stands in for
knowledge of who is still at work; a PUT may have been applied although its
reply never came; and any process may stop between any two requests.
`PROJECT.json` lists these hazards one by one, at the line where each bites,
with the properties that watch it.

## The modules

    LinearRepo            what git is promised (abstract)
        ^ refined by
      Repo  =  Push + Manage + Compact      Clones    = Repo + Fetch
                  \      |      /            Migration = Repo + Migrate + Doctor
                      WalStore
                         |                  Workstation = Helper
                       Gitwal                               |
                                              S3Session - LfsInstall - GitConfig

| Module | Models | State |
|---|---|---|
| `Gitwal` | `gitwal.py` and the verdicts of `remote.py` (`_push_rejection`, `_apply_pushes`) | none: operators on a manifest |
| `WalStore` | `walstore.py` and the bucket | `manifest`, `packs`, `young`; per client `pc`, `attempt`, `snap`, `base` |
| `Push` | `process_push_cmds`, `_prepare_push`, `_commit_pushes` | `batch`, `cursor`, `pack`, `result`, `outcome`, and the history variable `landed` |
| `Manage` | `ManageBranch`, `ManageHead` | `task` |
| `Compact` | `Compact.run`, `find_orphans`, `delete_packs` | `superseded`, `todo`, `doomed` |
| `Repo` | all of these at once on one repository, the clock, a client of a later release; the properties | – |
| `LinearRepo` | the promise: refs, protection and default branch change in atomic, authorised steps | `refs`, `protected`, `head` |
| `Fetch` | `process_fetch_cmds` and what it calls; `git gc` | `objects`, `mark` per clone; `at`, `wanted`, `read`, `older`, `pending`, `got`, `ended` per fetch |
| `Clones` | a repository and the clones that fetch from it; the properties of fetch | – |
| `Migrate` | `Migrate.run_migrate`, `run_finalize` and what they call; `WalStore.create`; clients of the old format (external) | `legacy`, `unsent`; `stage`, `draft`, `doubt`, `answer` per migrate; `step`, `checked`, `condemned` per `--finalize` |
| `Doctor` | `Doctor.run`, `report_manifest`, `report_packs` | `visit`, `inspected`, `listing`, `verdict` |
| `Migration` | a repository that is migrated and audited; the properties of both | – |
| `GitConfig` | the keys of a clone's git config, the DNS alias and the region of the bucket | `config`, `name`, `dns`, `home`, `moves` |
| `LfsInstall` | `install` of `lfs.py`, `maybe_install_lfs_agent` | `wiring`, `kind`, `retired`, and the history variable `torn` |
| `S3Session` | `_ensure_s3`, `_build_s3_client`, `list_refs`, `_retry_without_cached_region` | `at`, `bucket`, `client`, `store`, `fromConfig`, `attempt`, and the history variable `calm` |
| `Helper` | `process_cmd`, `cmd_option`, `main`; git's end of the pipe (external) | `says`, `stdin`, `closed`; `mode`, `pushCmds`, `fetchCmds`, `casRefs`, `ran` |
| `Workstation` | sessions and installers on one clone; their properties | – |
| `MCRepo`, `MCClones`, `MCMigration`, `MCWorkstation` | the instances TLC checks | – |
| `RepoProofs`, `SafetyProofs`, `ReportProofs`, `ResolveProofs`, `PackProofs` | theorems about `Repo` | – |
| `ClonesProofs`, `MigrationProofs`, `WorkstationProofs` | theorems about `Clones`, `Migration`, `Workstation` | – |

**Steps.** One action is what a process does up to and including its next S3
request, so the requests of all processes interleave freely.
`WalStore.update` is `LoadManifest` (the GET), then one of `PutCommitted`,
`PutRefused` (412, 409 or 404 with attempts left), `PutExhausted`, `PutRaised`,
`UpdateRaised` (the GET failed, or `require_writable` refused), and
`MutatorRejects`. Push, Manage and Compact give it their mutator as a
*candidate* manifest and their own bookkeeping. In `Push`, `PrepareDelete`,
`PrepareRefused`, `PreparePack` and `PrepareFails` deal with one command each, in
order; `Accepted` is the mutator's own verdict, taken anew against `base[p]` at
every attempt; `Report` is what git is told. `landed` records what S3 applied
and is read by no action. In `Compact` the deletes, the listing, the second read
and each HEAD are steps of their own. In `Fetch` so are the two reads of the
manifest, each download, each index-pack, the verification and the write of the
mark. `Migrate` has a step for each listing, read, upload and PUT, and one for
each key that `--finalize` deletes; `Doctor` one for each of its two reads. On a
workstation the shared state is the git config, and each `git config` command is
a step; a line that the helper reads is one too. `Helper` gives a batch to Push
or Fetch by appending it to `ran`: what it then does is in their modules, so a
`batch` of `Push` is one that `BatchesAsMeant` speaks of.

**Abstractions.** They are the same everywhere:

* A commit stands for itself and the trees and blobs it introduces. `Reach` is
  any reflexive and transitive relation on commits. A pack is the set of commits
  it carries: its key is a checksum of its content, so building it again is
  writing the same object.
* The entry log is a set; its order is that of the seq numbers. What an entry
  says of its origin decides nothing and is left out.
* The ETag is the content. This is sound because no content comes back: `SeqGrows`
  is checked and proved. `If-None-Match: *` is the same comparison with
  `EmptyManifest`, whose seq no stored manifest has.
* A crash is a process that takes no further step: without fairness every
  behaviour contains it. Nothing a client keeps in memory matters afterwards.
* A refused PUT, `PutRefused`, needs no rival: S3 answers 409 or 503 as it likes,
  and with `LostReplies` the SDK's second sending of an applied PUT is refused by
  its own first.
* `young` is the set of packs whose `LastModified` is within the grace period.
  `OutliveGrace` takes a pack out of it, but not one that a client is about to
  name or a sweep is about to look at: the period (24 hours) is taken to be
  longer than a push, and than a sweep's HEADs. It is a constant of a run
  whether packs get old at all (`GracePasses`).
* Delays, progress meters, logs, identities and message texts are left out. The
  pages of a listing count as one request.

## The runs

The instances share five commits (c1 <- c2 <- c3, and c4, c5 beside c2) and two
refs. Two attempts instead of eight are enough for a refused first attempt, a
commit at the second and an exhausted budget. Two clients that write are enough
for any property that one step of one client and the stale knowledge of another
can break; three kinds of client at once where a third has to prepare the ground.
Starting repositories are made by the transitions themselves (`Pushed`,
`ApplyDelete`, ...), so they are ones the program can be in.

| Run | Shows | Size |
|---|---|---|
| `push_race` | On an empty and on a forked repository, five batches with plain, forced, leased, deleting and doubled commands; one clone lacks c4; PUTs are applied and never acknowledged. `RefsResolve`, `LogValid`, `NoLostUpdate`, `OkMeansApplied`, `SeqGrows`, `ProtectedNeverRewound`, and every step a step of `LinearRepo`. | 2 pushes, 1 operator |
| `compact_race` | `NoMissingPack` and `InFlightKept` with packs that get old; `AlarmMeansReplaced`: a doctor that reads and lists meanwhile cries wolf over no log that is still there; and `PacksBuiltAnew`, the assumption under which all three are proved. | 1 push and 2 compactions, or 1 of each and a doctor (`DoctorOrSecondCompactor`) |
| `finishes` | A batch of two refs, an operator and a compaction that drops the objects of a deleted branch; a later release may take the manifest over at any moment: `TypeOK`, `RefsResolve`, `ReportsHonest`, `FutureFormatUntouched`, `EveryClientFinishes`. | one of each |
| `fetch_race` | Two fetches into one clone while a push and a compaction work: `MarkSound`, `MissingMeansReplaced`, `FetchTypeOK`. | 2 fetches, 1 push, 1 compaction |
| `stale_mark` | A clone that is empty or once had all, with a mark of 0, 2 or 9 on a log of three entries, is fetched into while gc prunes and a branch goes, with its objects: `FetchDelivers`, `IncompleteMeansGone`, and the fallback comes to an end, `EveryFetchEnds`. | 1 fetch, 1 operator, 1 compaction |
| `migrate_race` | A legacy repository whose default branch is `side`, with up to five keys still to come, two bundles of one ref, one the migrator's clone has not, and a lone `PROTECTED#` marker among them; a push may create the manifest first; replies are lost: `RefsResolve`, `NoLostUpdate`, `FinalizeLosesNothing`. | 1 migrate, 1 `--finalize`, 1 push, 1 compaction |
| `workstation` | Sessions of up to two batches, five clones (with an alias, with a stale region, set up by an older version or by somebody else), one move of the bucket or its alias: `BatchesAsMeant`, `CalmNeverRedirected`, `QuietMeansBound`. | 2 sessions and 1 installer, or 3 sessions where there is no LFS to install (`ThirdSession`) |

Three bounds are state constraints. `DoctorOrSecondCompactor` keeps the doctor and
the second compaction apart, which meet only in the packs. `OneTalks` follows the
batches of the first session only, and while nothing else is at work: once a
session has listed the refs it neither reads nor writes what the others share, and
what earlier ones leave behind is among the starting clones. `ThirdSession` lets a
third session start only in the clone whose LFS belongs to another agent, with no
installer, and follows the three until they have listed the refs: it takes three
for one to put back a region that another has just dropped, and what they then
share is the region alone.

Deadlock is checked in all runs: only when every client has ended may nothing
more happen (`Quiescent`, `AllEnded`). In `Migration` that speaks of the clients
of the manifest; a `--finalize` waits for an answer of migrate that may not come.

**Fairness.** `finishes` assumes weak fairness of each process, `stale_mark` of
the fetch alone: a process that is not killed goes on, for boto3's calls return
or raise (they have timeouts) and nothing waits for another client. Nothing is
assumed of the clock, of `git gc`, of newer clients, or of which request wins;
under fairness of a process as a whole its requests may fail for ever, so what
ends it is the attempt budget, the finite batch and the shrinking list of older
entries. That is what the mutants of those runs take away.

**What `compact_race` assumes.** No reply is lost (`LostReplies`), and no pack is
built that is on its way in or out: a push builds none that the manifest names,
that a compaction is about to name or delete, or that another push has built, and
a compaction none that a push has built or that is about to be deleted. This is
`PacksBuiltAnew`. It speaks of what is pushed, not of what the code does, so it is
a hypothesis of the theorems; the run shows that its pushes and compactions, in
every interleaving, meet it, so that the theorems speak of them. Both assumptions
are necessary: `repush_during_compaction` shows it of the second. With lost
replies, a push whose first PUT was applied unawares is retried after a compaction
has superseded and deleted its pack; the retry then finds its ref in place and its
pack unnamed, and appends an entry for a pack that is gone. The cause is the same:
a pack is uploaded once and never looked at again before it is named.
`MissingMeansReplaced` is checked and proved under the same assumptions, and so is
`AlarmMeansReplaced`, for doctor is right to call such a log corrupt. The base
pack of a compaction is only promised while the compaction can still commit
(`BasesInFlight`): once the log has moved on it will be rejected, and its pack is
an orphan like any other.

**What `migrate_race` assumes.** The old clients stop once migrate begins
(`LegacyStops`), and the operator finalizes upon the answer "migrated" only
(`FinalizeAfter`). Both are necessary. A legacy push after migrate's listing is
not in the manifest, and `--finalize`, which lists again, deletes it; that both
formats are "live and correct at once" (README) holds of each by itself only. The
second is `finalize_race`, below. A `--finalize` whose deletions fail half-way can
be run again; what it deletes is looked up key by key in the manifest of that
moment, `CarriedOver`, unless a client of the manifest has leave to rewrite the
ref, drop its protection or choose another default branch. The manifest's head
must be the very branch that the legacy `HEAD` names, if that has a bundle; a
`HEAD` that names no branch is left out, by migrate as well.

**What `workstation` assumes.** git lists first and waits for the answers to a
batch before it writes the next one, as the comments of `remote.py` say. A
session is *calm* as long as, in its time, the bucket has not moved, its own `git
config --unset` has not failed, and no session that is not calm has written a
region; `CalmNeverRedirected` says that a calm session never fails because of a
wrong one, whatever earlier sessions have left and whoever writes and drops it
meanwhile. The last condition is the slow session: it detects the region, the
bucket moves, a later session drops the stale region, the slow one writes its
own, and the later one, whose single retry this was, fails. The code does that,
and a session that comes after both repairs it. It takes a session before the
move that has cached the region, the slow one and the one that fails, which is
why there are three: without the condition TLC finds `CalmNeverRedirected`
violated on this instance. `torn` records that a write was lost between an
endpoint and its agent: the helper writes them one after the other, best effort,
and takes a set endpoint for configured ever after; `git-lfs-s3 install --remote`
is the repair. A session given a URL has no section in the config and shares
nothing with the others, so it is left out; so is the variable that turns the
automatic installation off.

### Where the code and its documentation part

Five runs are expected to fail; each refutes one sentence of the repository.

* `delete_under_push`: a push builds its pack on top of `main`; `main` is deleted
  and a compaction drops its objects; the push's commit, which reads the manifest
  anew, finds no ref, accepts, and re-creates `main` at a tip whose older history
  no pack has (`RefsResolve`). The pack is built once, against the first read,
  while the verdicts are taken again at every attempt, the first included.
* `repush_during_compaction`: compaction deletes what it superseded without a
  grace period and without looking again; a push that has just built one of these
  packs anew names it after the compaction's commit (`NoMissingPack`).
* `sweep_race`: the sweep HEADs every candidate, then deletes them all; the
  README says that each pack's age is re-checked immediately before its delete
  (`DeletesSpareNamed`).
* `exhausted_commit`: `CasExhaustedError` says "nothing was committed"; after a
  lost reply on the last attempt, it was (`ExhaustedMeansUncommitted`).
* `finalize_race`: a legacy repository looks empty to a new client, whose first
  push creates a manifest; migrate then says "this repo has already been
  migrated", `--finalize` finds that manifest valid, and deletes the bundles of
  branches nobody has carried over (`FinalizeLosesNothing`).

Smaller ones that no run is about: `report_packs` calls a missing pack "the only
finding in this format that exits non-zero", but schema errors do as well;
`_retry_without_cached_region` says that "only a bucket that moved region" makes
the cache wrong, but an alias that is pointed elsewhere does too; a `create()`
whose reply was lost reports a manifest "created by another client"; and
`install --remote` knows the endpoint of an older version by the bucket the alias
resolves to *today*, so once the alias has been pointed elsewhere it refuses what
the README says it migrates.

## The proofs

All are for any refs, commits, reachability, clients, batches, operator commands,
seeds, attempts, clones, legacy keys, sessions and installers. The assumptions
are the named ASSUMEs of the modules, which TLC evaluates in every run: commits
reach themselves and transitively (`ReachAssumption`), a clone that is not
shallow is complete (`HoldsAssumption`), git sends no ref twice in a batch and no
empty batch (`BatchAssumption`, `HelperAssumption`), a run starts from a sound
repository (`SeedAssumption`, `SeedSeqAssumption`) or, where there is something
to migrate, from none (`NoManifestAssumption`), and of the legacy keys only
bundles have a tip and none is there twice (`MigrateAssumption`). What a theorem
assumes beyond these is in the table.

| Theorem | Says | Where |
|---|---|---|
| `TypeCorrect` | `TypeOK` | – |
| `FutureFormatSafe` | a newer format is never rewritten | – |
| `SeqAlwaysGrows` | every rewrite raises seq | – |
| `ProtectionHolds` | no step rewinds a protected ref | – |
| `ReportsAreTrue` | `OkMeansApplied` | – |
| `LogAlwaysValid` | `LogValid` | – |
| `RepoIsLinear` | `ImplementsLinearRepo` | – |
| `NoUpdateIsLost` | `NoLostUpdate` | – |
| `ReportsAreExact` | `ReportsHonest` | no reply is lost |
| `ExhaustedCommitsNothing` | `ExhaustedMeansUncommitted` | no reply is lost |
| `RefsAlwaysResolve` | `RefsResolve` | `NeverAllThree`: not all of push, rewrite, compaction |
| `NothingNamedIsLost` | `NoMissingPack` | no reply is lost, `PacksBuiltAnew` |
| `NothingInFlightIsLost` | `InFlightKept` | the same |
| `DeletionsSpareNamed` | `DeletesSpareNamed` | the same |
| `PushesNameWhatTheyUploaded` | `NoMissingPack` | nobody compacts |
| `FetchTypeCorrect` | `FetchTypeOK` | – |
| `FetchesDeliver` | `FetchDelivers` | – |
| `MarkAlwaysSound` | `MarkSound` | gc prunes nothing, marks start at 0 |
| `MissingIsReplaced` | `MissingMeansReplaced` | no reply is lost, `PacksBuiltAnew` |
| `IncompleteIsGone` | `IncompleteMeansGone` | `NeverAllThree` |
| `MigrationTyped` | `MigrateTypeOK` | – |
| `FinalizingLosesNothing` | `FinalizeLosesNothing` | as `migrate_race`: `LegacyStops`, only "migrated" is finalized |
| `MigrationLosesNoUpdate` | `NoLostUpdate`, with `create()` | – |
| `MigratedRefsResolve` | `RefsResolve`, with `create()` | `NeverAllThree` |
| `AlarmsMeanReplaced` | `AlarmMeansReplaced` | no reply is lost, `PacksBuiltAnew`, there is nothing to migrate |
| `WorkstationTyped` | `WorkstationTypeOK` | – |
| `BatchesRunAsMeant` | `BatchesAsMeant` | – |
| `QuietEndpointIsBound` | `QuietMeansBound` | `StartsWhole`: an endpoint of ours in the clone at the start has its agent |
| `OnlyMovesRedirect` | `CalmNeverRedirected` | – |

**The compare-and-swap** (`SafetyProofs`). `ManifestSteps`: whatever a client has
read, the manifest only ever changes from a state to a transition of that very
state, because the PUT is conditional. Each safety property is then a fact about
one transition of `Gitwal`. `LogValid` is not inductive by itself: a push raises
seq by its entries *and* its deletions, so its entries keep numbers of their own
only because a deletion never carries a pack (`PacksAreUpdates`). `TypeInv` adds
to `TypeOK` that a helper that prepares has a command left, and that a compaction
at work has refs to pack.

**Reports** (`ReportProofs`). Nobody remembers what was reported, so `NoLostUpdate`
is about every later write: a ref nobody has leave to rewrite only moves forward
(`PlainRefsAdvance`), whoever wins. For the exact reports the invariant is that a
push which is not over has stored nothing, however often it was refused, and that
one that has stored something says so (`PushHonest`).

**Objects** (`ResolveProofs`). A push leaves out of its pack what the snapshot's
refs reach. `ResolveInv` says that all of this lasts until the push names its
pack. It does where nobody compacts, since the log only grows, and where nobody
rewrites a ref, since what the refs reach only grows and a compaction keeps it.
With pushes, rewrites and compactions together it does not, as `delete_under_push`
shows with one of each; the theorem shows that it takes all three.

**Packs** (`PackProofs`). `PacksApart` is the division of the bucket: what the
manifest names, what pushes and compactions are to name, and what is condemned or
sought by a sweep do not meet, and all but the condemned are there and, while they
are in flight, young. `Behind` says that no client has read a log ahead of the
manifest, and that an entry which has left the log does not come back
(`LogMovesOn`): so a sweep's second read of the manifest makes a candidate an
orphan for good, unless somebody builds it again.

**Fetch** (`ClonesProofs`). An entry is always numbered above every manifest
before it (`LogSteps`), so the log a fetch has read holds every entry up to its
seq that a later log still has; once the fetch has indexed what it planned, that
is all in the clone, and this is what the mark then claims (`MarkInv`). A pack can
only be missing from a log that has lost an entry since, and does not get it back
(`NextMissing`). A fetch that has run out of older entries has indexed its whole
log (`Whole`), and its log is complete for its refs, so a tip that does not resolve
is none of them.

**Migration** (`MigrationProofs`). Once the old clients have stopped, legacy keys
only get fewer, so what a draft has taken over from a listing still covers them
when it is created (`DraftCarries`). From then on the manifest has it and keeps
it (`CarriedStays`): plain refs advance, protection stays where nobody may drop
it, and the default branch stays the one it is where no operator may choose
another (`HeadStays`). That the draft has the right one (`HeadDrafted`) rests on
there being a single `HEAD` among the legacy keys (`KeysDistinct`). `CreateInv`
says that there is nothing where a manifest can be created, so a push's view of
the empty repository misses nothing afterwards. Doctor's argument is that of a
fetch's missing pack.

**Workstation** (`WorkstationProofs`). `Wired`: an installer past its endpoint is
about to bind its agent to that very endpoint, and one that unbinds something has
bound another. `Steady`: what a calm session has resolved and detected is where
the bucket is; it trusts a stale region only while it may still retry, and the
one it then reads from the config is right, because whoever writes a stale region
is not calm and leaves nobody calm that it meets (`OthersSpareCalm`). `Talking`:
what git has still to write, what is in the pipe and what the helper has
collected make up, in this order, the batch git means, with its leases ahead of
its refs. TLC checked the three on `workstation` before they were proved.

Only model-checked: `EveryClientFinishes` and `EveryFetchEnds`, since liveness
under fairness is out of the prover's reach, and `PacksBuiltAnew`, which is an
assumption about what is pushed. Out of reach too is that the lists of entries,
batches and keys get shorter for any length, by induction over data; no theorem
needs it, as `BatchesAsMeant` is stated of positions in the batch.

## Not modelled, and why

* JSON parsing, unknown fields and entry provenance; message texts; progress.
* URL parsing and the Access Grants plugin: configuration without state. The
  manifest writer of a session is a second client with the same region and other
  credentials, which the model does not tell apart.
* LFS transfers: upload is a HEAD and a PUT of a key named by its content, which
  nothing ever deletes, and download a GET; no order of them can go wrong. The
  URL rewriting of git-lfs-s3 is parsing.
* Errors of boto3 other than a `ClientError`, a timeout say: the helper dies of
  them, which is a process that takes no further step. The mark of a fetch may
  fail to be written, silently, as in the code.
* The cache of detected regions in `common.py`: a session detects at most once,
  since its one retry follows a region that came from the config.
* Packing, hashing and the object format: git's own.
* Partial clones: what such a clone lacks git downloads when it is asked to pack.
* `git gc` while a fetch into the same clone is under way: git spares objects
  that are newer than its expiry of two weeks.
* Two commands of one push for the same ref: git does not send them.
* An operator who follows migrate's advice to roll back, by hand, while new
  clients push; a user who edits the git config while a session installs.

## Plan

1. **A fetch as a refinement** of an atomic import, as pushes are of `LinearRepo`.
2. **Weaker assumptions for packs**: which pushes meet `PacksBuiltAnew` can be said
   of the batches and seeds (no tip is pushed that was dropped before), and proved
   from there.
3. **Packs under migration**: `NoMissingPack` and `AlarmMeansReplaced` with a draft
   in flight, which the grace period would have to cover as it does a push's pack.
