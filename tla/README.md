# A TLA+ model of the Bunny CLI monorepo

This directory holds TLA+ modules for the parts of the repository whose
correctness depends on order: what happens when a run is interrupted, an answer
is lost, two processes meet, or a decision is taken from a listing that is no
longer true. The modules are translated from the TypeScript sources; paths below
are relative to the repository root.

The model covers seven parts:

* the **Stream import engine** (`packages/stream-import`), which moves a video
  library from another service into Bunny Stream, unattended, across crashes and
  retries, and promises never to import a video twice, and the **lock** that keeps
  two runs off one state file;
* the **deploys of a static site** (`packages/cli/src/commands/sites`), where
  several processes change one state file, a storage zone and a routing rule
  without a lock, and production must always serve a whole deploy;
* the **provisioning of sites**: create, import, migrate and delete over storage
  zones, pull zones and edge rules, each command safe to run again;
* **custom hostnames** (`core/hostnames`, `sites/domains`): attach a name, repoint
  DNS, wait for it, get a certificate, force HTTPS, record the domain;
* **database migrations** (`commands/db/migrations`) and the batch of the database
  client they rest on, as an implementation of an abstract migration history;
* **apps** (`commands/apps`): build, push, create, patch and deploy, over
  `bunny.jsonc` and the manifest;
* **sandboxes** (`packages/sandbox`): provisioning, environment, ports, and many
  calls over one cached SSH connection.

## 1. The system

A Bun/TypeScript monorepo: one CLI (`packages/cli`) and the libraries it uses.

| Part | State it keeps | Operations | Hard behaviour | What makes it correct | Modelled |
| --- | --- | --- | --- | --- | --- |
| Stream import engine `packages/stream-import/src/migration.ts`, `source-index.ts`, `status.ts` | the journal file (`MigrationState`), its memory copy, the library listing of the run | `getSummary`, `runMigration` and its passes, `refreshMigrationState` | crash at any await, lost answers, timeouts that abandon work, pauses, worker pool, stale listing | no duplicates, every created video can be found again, tags that do not lie, runs that end | yes |
| State lock and state file `state.ts` | `<state>.lock`, `<state>` | `acquireStateLock`, `release`, `load`, `save` | processes racing on one path, dead holders, reused pids | one run per state file, no lock that stays for ever | lock yes, file partly |
| Stream client `bunny-stream.ts` | none | list (paged), create, fetch, tag, delete, poll | indeterminate outcomes, pages that shift | every outcome is told apart from "unknown" | partly |
| HTTP and pacing `http.ts`, `rate-limit.ts` | rate-limit window | request with retries, throttle | retry budget, clock | bounded attempts, no retry of what may have happened | no |
| Import sources `packages/stream-import-*` | none | list videos, produce a URL | paging, expiring URLs | each video listed once | no |
| Import tools and commands `packages/cli/src/tools/stream/import`, `commands/stream/import` | import configuration, service session | start, status, watch | a session shared by summary and run | lock held while the journal is written | partly |
| Sites: deploys `commands/sites/deploy.ts`, `deployments` | `_bunny/site.json` in a storage zone, edge rules, deploy folders | deploy, publish, prune, delete | read-check-write of the state file without a lock | the current deploy exists and is never pruned; concurrent deploys keep each other's records | partly |
| Sites: provisioning `commands/sites/api.ts`, `create.ts`, `migrate.ts`, `delete.ts` | storage zone, pull zone, rules, router script, marker | create, create `--from-zone`, migrate, delete | half-done creation of several resources, overlapping commands, ignored writes | a rerun completes the work; a site is guarded before it is marked; records survive a migration | yes |
| Sites: domains and custom hostnames `sites/domains`, `core/hostnames` | hostnames, certificates and Force SSL of a pull zone, DNS records, the recorded domain | add, ssl, remove, setup of a first deploy | eventual DNS and issuance, ignored writes, lost answers | no endless wait, no name left unrouted, no HTTPS without a certificate | yes, wildcard companions and listings aside |
| Database migrations `commands/db/migrations` | tracking table, files on disk | apply, `db create --template` | failure inside a batch, edited files, two appliers, lost answers | each migration applied once, whole, in order | yes |
| Database client, adapter, REST, OpenAPI, shell, studio `packages/database-*` | connection, transaction baton | query, batch, transaction | a transaction whose stream is lost | all or nothing | the batch only |
| Apps `commands/apps`, `packages/config` | `bunny.jsonc`, `.bunny/app.json`, the image registry, the app | deploy, push, pull, link, unlink, delete, undeploy | partial failure, files edited and commands overlapping | no image runs that was not pushed; no second app | partly |
| Sandbox `packages/sandbox`, `commands/sandbox` | the app, `known_hosts`, cached connection, attempt and SFTP promise | create, calls, environment, ports, delete, disconnect | events of old connections, aborts while a channel opens, a create that fails half way | nothing stale is reused, no command outlives its call, the app can be got back | partly |
| Scripts, storage, DNS, pull zone and Stream commands | remote resources, local manifests | create, link, sync, upload | partial failure of multi-step commands | a rerun completes the work | no |
| CLI core, authentication, configuration, OpenAPI client, framework detector, packaging | configuration file, manifests | reading, writing, rendering | little | formatting and I/O | no |

### How the import works, and who talks to whom

A host (the CLI, or any program using the package) builds a `MigrationService`
over a *source*, a *Bunny Stream client* and a *state store*, takes the *state
lock*, and calls `runMigration`:

1. discover the source's videos, list the library (`loadSourceIndex`); the
   listing yields the **source index** (the best copy tagged with each source ID),
   the untagged videos, and the dead copies;
2. resume the saved journal (`requeueFailed`, `recoverLostFetches`) or start
   fresh keeping only what a dead run left untagged (`adoptOrphans`);
3. create collections, saving after each;
4. add entries for new videos, reconcile entries with the index
   (`reconcileWithBunny`, deleting stuck copies under `retryStalled`), save;
5. a pool of workers takes each entry through *clean* (delete dead copies under
   `cleanFailed`) → *lookup* (ask the source for a URL) → journal the fetch →
   *fetch* → journal the GUID → *tag*; each save is a whole-file write;
6. optionally wait until Bunny has encoded everything;
7. fail what the source no longer lists, save the overall status, release.

Each arrow is an await: the process may die there, the host may pause the run
there, `withTimeout` may abandon the worker there, and the request that was sent
lives on without it. What outlives a run is the journal, the library and the
requests still on their way.

### How a site is provisioned and deployed

`create` makes a storage zone, a pull zone over it, the edge rules that hide the
state file and unpublished deploys, and last the state file `_bunny/site.json`,
which is the marker every other command finds the site by. It has no transaction:
run again after a failure it looks for what is there. `create --from-zone` puts
the rules and the marker on an existing zone; `migrate` turns a site of the older
kind, routed by an Edge Script, into one routed by rules, and keeps its records;
`delete` removes pull zone and storage zone, or with `--keep-storage` the marker.

The state file lists the deploys and names the `current` and the `previous` one;
`deploys/<id>/` holds their files; a rewrite rule of the pull zone says which of
them production serves, and two settings of the storage zone which page answers a
miss. A deploy reads the state, decides under which ID its bytes go, empties and
fills the prefix, records the deploy, retargets the rule, sets the not-found page
and writes the state again; a publish does the second half; delete and prune
remove files and then records. There is no lock. `writeRemoteState` compares the
file with what it read last and merges the records when it changed; destructive
commands read the state again after the user confirmed. Any request may fail,
which ends the command where it is.

### How a hostname, a database, an app and a sandbox change

* A **hostname** is attached to the pull zone, then DNS is looked at: an outside
  domain waits for its owner, one in Bunny DNS is repointed by adding the new
  record, reading it back and removing the old one. While DNS is awaited a
  certificate is asked for now and then; Force SSL is switched on only when the
  zone shows a certificate. The state file records the production domain last.
* **Migrations**: `apply` reads the directory, then the tracking table, refuses
  drift, and sends each pending file as one batch: BEGIN IMMEDIATE, the statements,
  the INSERT of the tracking row, COMMIT, ROLLBACK, each step with a condition on
  the steps before it. The server runs it; the answer may not arrive.
* An **app** is deployed from `bunny.jsonc`: containers with a dockerfile are built
  and pushed, the app is created or patched, and deployed. The manifest keeps the
  ID of the app, `bunny.jsonc` keeps intent and never the refs of a run.
* A **sandbox** is an app with an SSH agent. `create` posts it, waits for an
  address and for SSH, exposes ports, and deletes the app when a step fails. All
  calls of the object share one `SshTransport`: the connection, the attempt under
  way and the SFTP promise are cached in fields which the events of every
  connection, old ones too, update.

## 2. Modules

| Module | Models | Source |
| --- | --- | --- |
| `ImportJournal` | entries, library records, and the pure passes as operators over them | `source-index.ts`, `status.ts`, the synchronous passes of `migration.ts` |
| `StreamImport` | runs as interleaved steps between awaits, over journal, library and network | `migration.ts`, outcomes of `bunny-stream.ts`, `streamImportStatus` |
| `StateLock` | `acquireStateLock`, `claimStaleLock`, `release`, one system call per action | `state.ts` |
| `SiteDeploys` | deploy, publish, delete and prune as interleaved requests over state file, storage and rule | `sites/api.ts`, `deploy.ts`, `deployments/*.ts`, `constants.ts`, `uploader.ts` |
| `SiteProvision` | create, import, migrate and delete over zones, rules, router and marker | `sites/api.ts`, `create.ts`, `migrate.ts`, `delete.ts`, `interactive.ts` |
| `Hostnames` | add, ssl, remove and setup over pull zone, DNS, certificate and recorded domain | `core/hostnames/client.ts`, `flow.ts`, `bunny-dns.ts`, `commands.ts`, `sites/domains` |
| `MigrationHistory` | the abstract promise: a log that grows by whole migrations, each once | `engine.ts` |
| `DbMigrations` | apply and `db create --template` step by step, and the server running their batches | `db/migrations/*.ts`, `db/templates.ts`, `database-client/src/client.ts`, `protocol.ts` |
| `AppDeploy` | deploy, push, pull, link, unlink, delete and undeploy over the two files, registry and app | `apps/deploy.ts`, `config.ts`, `walkthrough.ts`, `config/src/convert.ts`, ... |
| `SshTransport` | one cached SSH connection under many calls, event by event | `sandbox/src/transport.ts` |
| `Sandbox` | provisioning, environment, endpoints and delete, over `SshTransport` | `sandbox.ts`, `provision.ts`, `known-hosts.ts`, `commands/sandbox/url/remove.ts` |
| `MCStreamImport`, `MCSiteDeploys`, `MCZones`, `MCDatabases`, `MCApps` | instances for TLC: options, lengths, symmetry | |
| `StreamImportProofs`, `StateLockProofs`, `SiteDeploysProofs`, `SiteProvisionProofs`, `HostnamesProofs`, `DbMigrationsProofs`, `AppDeployProofs`, `SandboxProofs` | the theorems | |

`Sandbox` EXTENDS `SshTransport`: an action of the platform and the call it makes
are one step, and the state of the app decides whether anything answers at the
other end of a connection. `DbMigrations` instantiates `MigrationHistory` with the
committed rows and statements; `LandsWhole` is the refinement.

Definitions named `...Only`, `...Anyway`, `...Nothing` and the like under the
comment "Mutant" are mutated forms of the definition beside them, against which
the properties were tried; no specification uses them.

### `ImportJournal` and `StreamImport`: the correspondence

* `lib` is the library: a sequence of records whose index stands for the GUID. A
  deleted video keeps its record with health `gone`. `src` is what a video really
  was created from (`None` for somebody else's upload) and is read by no action
  of the engine, only by properties.
* `Health` is what `videoHealth`, `isPermanentFailure` and `isStalled` can tell
  apart: processing, stalled, finished, failed, rejected.
* `journal` is the state file, `mem` is `this.state`. Whether the two agree at an
  await is part of what is checked.
* An entry keeps `status`, the GUID (`vid`), `pending` (the time of an unanswered
  fetch, 0 for none), `attempts` and `permanent`.
* `net` holds fetch requests sent and not yet handled. They are not tied to a
  live process: a request may land after its sender crashed or gave up.
* `w[v]` is the await the worker of `v` is suspended in: `clean`, `lookup`,
  `sent`, `tag`, `await` (polling); `late` and `latetag` are work abandoned by
  `withTimeout` whose request is still alive.
* `epoch` is a coarse clock. Two moments in one epoch are within `CLOCK_SKEW_MS`
  (five minutes) of each other, so `at >= pending` is the code's comparison with
  the skew allowed for.
* `service` is the listing a summarised service keeps (`getSummary` followed by
  `runMigration` on the same object, `loadSourceIndex`'s early return).

One action is the code from one await to the next, with the save that ends it,
because JavaScript is not preempted in between. Actions of the run are gathered in
`RunStep`; the host, Bunny and the world in `World`.

Abstracted: titles are compared as the code compares them but are model values;
descriptions, thumbnails, collection names, progress and plan figures are left
out; a request's retries inside the HTTP layer are one request; a save is atomic
(the code writes a temporary file and renames it).

### `StateLock`

Each `fs` call of `acquireStateLock`, `claimStaleLock` and `release` is an action
(`Create`/`Write` are the two steps of `writeFileSync` with `wx`). Inodes are
explicit, since the protocol renames and links files. The initial states have no
lock file, or one left by an earlier process: empty, with a dead pid, or with a
pid that is in use again, possibly the importing process's own.

### `SiteDeploys`

* `state` is the state file. Its etag is a hash of it, so a process's `etag` is
  the state it read or wrote last. Records keep the ID, the content hash, whether
  the deploy is a single-page app, and the creation time as a number.
* `files[id][path]` is the content the file at that path came from; a deploy is
  whole when it has exactly the paths of its hash. `live` is the rule's target.
* `job[p]` is the command process `p` runs: the request it waits for (`pc`), its
  copy of the state (`st`), and what it hands to its next write (`promotedTo`,
  `removed`). `Check` and `Put` are the two requests of `writeRemoteState`.
* `DeployNew`, `DeployReplacing` and `DeployUploaded` are the outcomes of
  `resolveDeployTarget`; a confirmation is taken for granted where the code asks.
  Refusals change nothing and are no actions.
* A failed request, a timeout and a kill look the same to everybody else: `Die`.

Abstracted: the deploy ID of a request is given, not computed; the purge, the wait
for the edge and the cache settings; `notFound` distinguishes the single-page mode
from the rest; the domain, which no decision about deploys reads.

### `SiteProvision`

* `zone[z]` is a storage zone: whether it is there, the site name its own name was
  made from, and what its state file says: nothing, a site of the current format
  (name, pull zone, how many records), or a router-era one. `pull[q]` is a pull
  zone: origin, rules, whether the router script is attached.
* `cmd[p].pc` is the request a command waits for; `todo` the rules still to be
  upserted. `Create … Mark` is `createSite`, `Import`, `PlanImport` and `Recheck`
  are `create --from-zone`, `Migrate … DeleteRouter` is `migrateSite`, `Delete …
  DeleteZone` is `deleteSiteResources` with the link the command drops.
* `TargetGone` is a request about something another command deleted; `Dies` a
  request that fails, whose answer is lost, or the end of the process. Listings may
  miss a zone (`GoesBlind`): the code warns and goes on.
* `OldDeploy` is a deploy of an older CLI to the router-era site.

The two lookups by name pattern are operators over `name`; regions, cache times and
settings of pages are left out.

### `Hostnames`

* `on`, `cert`, `forced` are what the pull zone has; `records[h]` the routing
  records of a name in Bunny DNS, with the type, whether they route here and
  whether they are enabled; `dns[h]` whether the zone is Bunny's and delegated;
  `domain` what the state file records.
* `cmd[p].pc` is the request or prompt a command is at. A prompt may be answered
  either way. `back` is where a certificate attempt returns to: the wait, the live
  branch or the end. `tick` and `tries` count the wait and the certificate attempts.
* An API write may be accepted and ignored (`Point`, `Replace`), and an answer lost
  after its effect.

### `DbMigrations`

* `dir` is the migrations directory, `run[p]` a command: what it read of the
  directory, what is left to apply. `req[p]` is a batch at the server: the step it
  is at, the steps that succeeded, whether its transaction is open and what it
  would commit. `Due` is the condition `#batch` puts on each step.
* The server runs a step, fails it, or skips it when its condition does not hold;
  one write transaction is open at a time; the stream, and with it an open
  transaction, ends with the request (`EndRequest`).
* `Dies` is a killed client and a lost answer: the server goes on.

The two foreign-key pragmas around a batch, globs, and how checksums normalise line
ends are left out; a file is a model value, so its checksum is its identity.

### `AppDeploy`

* `config` is `bunny.jsonc` (containers, each with a dockerfile or an image),
  `manifest` is `.bunny/app.json`, `registry` the built refs that were pushed,
  `app[a]` the templates of an app and what it runs since its last deploy.
* `cmd[p].toml` is the run's copy of the config, with the refs of the images it
  built; `stripTransientFields` is what a save keeps. `Persist` writes a file at the
  points the code does: after the walkthrough, before the build, after the create.
* `Edit` is the user changing `bunny.jsonc` between commands.

Registries as records, environment, endpoints, regions, volumes and prompts are
data the decisions above do not read.

### `SshTransport` and `Sandbox`

* `conn`, `connecting` and `sftpChannel` are the three fields of the class. The
  SFTP field holds a promise: that of the lane which opens the channel, one resolved
  on a connection, or a rejected one. `net[c]` is what became of a connection,
  which the fields may no longer name.
* A lane is a call that may be under way. `call[k].pc` is what it awaits: the
  attempt (`ready`), another lane's SFTP promise (`joined`), its channel
  (`opening`), the answer (`running`), or the pause between attempts. `running[k]`
  is whether its command runs in the sandbox: the thing the code cannot see.
* `Connected`, `Refused`, `Broken`, `Closed`, `ExecOpens`, `SftpOpens`, `OpenFails`,
  `SftpCloses`, `Exits`, `Answered` are events of ssh2; an event runs its handler to
  the end, so it is one action. `Broken` and the `close` that follows it are two, and
  anything may come between them.
* `Sandbox` adds the app, its environment and endpoints, the pinned host key and
  `task[k]`, the API call a lane is at. A request fails, or its answer is lost.
  Replacing the environment restarts the container, which breaks connections.

Not in the model: detached commands and their streams, what files hold, writing
several files in one call (the model writes one), the record the CLI keeps in its
configuration and the interactive `ssh`.

## 3. What is checked

| Run | Question |
| --- | --- |
| `MCImportRecovery` | Do crashes, timeouts, lost answers and pauses over three runs ever cost a duplicate or lose a video? (`NoDuplicate`, `Recoverable`, `WriteAhead`) |
| `MCImportFolders` | Do whole-library and folder runs over one journal, a shrinking source and vanishing videos keep tags truthful and folder runs in their folder? (`TruthfulTags`, `ScopeRespected`) |
| `MCImportLifecycle` | One video through every outcome Bunny can give it, with `cleanFailed`, `retryStalled`, waiting runs and a foreign upload of the same title (`CompletedIsFinished`, `SkipsImported`, `RejectedLeftAlone`, `DeletesOnlyDead`) |
| `MCImportEnds` | Does every run end? (`RunEnds`, under fairness of the run) |
| `MCStateLock` | Is the lock exclusive, does a release keep off others' locks, does a dead lock get reclaimed? (`MutualExclusion`, `ReleaseKeepsOthers`, `DeadLockReclaimed`) |
| `MCSiteDeploys` | With two commands beside each other and a failure anywhere, are records kept, true, and complete? (`RecordsKept`, `RecordsVouch`, `RecordsWhole`, `PointersRecorded`) |
| `MCSiteAlone` | Commands one after another with two failures: does a publish that ends well repair everything, and is production ever half written? (`PublishSettles`, `ServesWhole`) |
| `MCZones` | Four commands over the zones of one account with two failures: are sites guarded before they are marked, is a router gone before the rules serve, are there ever two of one, does the marker outlive the pull zone, do the records survive a migration? (`SitesGuarded`, `RouterDetached`, `OneEach`, `WayBack`, `LegacyKept`) |
| `MCHostnames` | Two commands on one hostname with a fault: is it ever left unrouted or reported as pointed when it is not, is HTTPS forced without a certificate, is the domain recorded, does every command end? (`NeverUnrouted`, `PointedRoutesHere`, `ForcedHasCert`, `AddRecordsDomain`, `DomainOnZone`, `HostnamesEnd`) |
| `MCDatabases` | Two commands while the directory is edited and anything fails: do batches implement `MigrationHistory`, do rows follow filename order, is success true, does a transaction ever stay open? (`LandsWhole`, `HistoryIsPrefix`, `SuccessIsApplied`, `ApplyEnds`) |
| `MCApps` | Commands over one directory and edits between them, with a fault: does an app ever run an image that was not pushed, does a failed first deploy ever lead to a second app? (`RunsPushed`, `OneApp`) |
| `MCSandbox` | A create and two calls over three connections with a fault: is anything reused that is over, does a command outlive its call, can an app be got back, do calls end? (`NothingStale`, `NoOrphanCommand`, `Retrievable`, `CallsEnd`) |

All hold. The type invariants are proved (section 4) rather than run. Every
invariant and every action property in the table is also the statement of a
theorem; only the five that say that something ends are left to TLC alone.

### Bounds, and why they are enough

Named constants bound everything that could grow: `MaxVideos` (videos ever
created), `MaxRuns`, `MaxEpoch`, `MaxForeign`, `MaxCrashes` (crashes and timeouts
together), `MaxCalls`, `MaxCommands`, `MaxFaults`, `MaxEdits`, and the sets of
processes, IDs, connections and inodes.

* *Recovery*: two source videos, three copies, three runs, two faults, two epochs.
  A duplicate takes a first copy that gets lost (one run, one fault) and a second
  run that fails to find it; a third run and a second fault leave room for a
  recovery that is itself interrupted. Two epochs make "older than the fetch" and
  "not older" both happen. Bunny may only finish videos here: with a dead copy
  `NoDuplicate` does not hold (section 5).
* *Folders*: the same without faults, where the listing may shrink, videos may be
  removed, and a run may be for the folder.
* *Lifecycle*: one source video is enough for what is about its copies: a tagged
  one, a dead one, an orphan and a foreign one among three.
* *Ends*: the widest instance, with late landing and summaries, over two runs.
* *Lock*: two importers and a dead pid, four calls, one crash: a call of each before
  a crash, and one of each after it. `EmptyReads = FALSE` says that nobody opens the
  lock file between its creation and its write, and `Reentrant = FALSE` that no
  process acquires a lock it holds, which the CLI never does; without either mutual
  exclusion fails (section 5).
* *Site deploys*: two processes, four commands, one failure; three IDs, two
  contents of different sizes, so that an ID can be replaced, an upload be half
  done and a deploy's bytes be found under another ID. The two processes are
  symmetric. Deploys and publishes may overlap (`Beside`); what replaces or removes
  runs alone, since a prune beside a deploy brings records back (section 5).
  `AtomicWrites = TRUE` says that nobody writes the state file between another
  writer's check and its upload; without it a record can be lost, as the code has
  no conditional write. `RecordsVouch`, `RecordsWhole` and `PointersRecorded` hold
  without it too.
* *Site alone*: one process, five commands, two failures: enough to leave the rule,
  the not-found page and the state on three different deploys and publish again.
* *Zones*: two processes, four commands, two failures, two names, a foreign zone with
  its pull zone, a router-era site, two zones and two pull zones still to be created.
  A create that fails twice and a third attempt, or a migrate, a delete and a
  create, fit, and so does an import of what a failed create left. The two names
  keep sites apart that an import renames: `orderly`, the history of commands run
  in turn on which `OneEach` depends, ends when one does (section 5). Processes,
  names, new zones and new pull zones are symmetric; the two action properties do
  not tell symmetric values apart. Two million states.
* *Hostnames*: two processes, two commands, one fault, one name, three record IDs;
  the wait has two ticks with a certificate asked for at each, two attempts at the
  end. No wildcard.
* *Databases*: two runs of one or two processes, two edits, two file names, one body
  of one statement and one that does not parse; a second edit can add a file before,
  after, or change the first. A batch of one statement already has five steps, each
  of which may fail.
* *Apps*: two processes, three commands or edits, one fault, two containers, two app
  IDs, two built refs and one published elsewhere, symmetric where alike.
* *Sandbox*: two lanes, three connections, a create and two more calls, one fault.
  A stale event takes an old connection and a newer one; the third is there so that
  the attempt after those is not kept waiting by the bound.

`LateLanding = FALSE` in the safety runs of the import says that a request which is
still unhandled when a later run lists the library never takes effect. With it
`TRUE` nothing the engine could do would prevent a duplicate, as it cannot see the
request; the code counts on listing time being well past request time.

Runs say `CHECK_DEADLOCK FALSE` because a system whose commands are used up stops.

### Fairness

* *Import*: weak fairness of `RunStep` only: some step of the run under way is
  taken if one stays possible. Every request carries a timeout, every wait has a
  deadline (`withTimeout`, `waitForVideoProcessing`), and `runPool`'s loops go on
  until their queue is empty. Nothing is assumed of Bunny, the source or the host.
* *Lock*: each process's system calls are fair, and a holder releases.
* *Hostnames*: `Steps(p)`: requests are answered or fail, timers fire, and prompts
  are answered. Nothing is assumed of DNS or of the certificate authority.
* *Databases*: `Command(p)` and `Server(p)`: the client goes on and the server works
  on what it was sent. Nobody has to start, edit or die.
* *Sandbox*: `GoesOn(k)` (the program goes on, its timers fire, ssh2 reports what
  became of a request), the deadline of a wait, the container starting, and for
  each connection that an attempt ends in `ready` or `error` and that a failed,
  broken or ended connection is closed. A command of the user may run for ever and
  is left out; `mkdir` is not. That ssh2 never drops an attempt without an event is
  an assumption about the library: if it closed one before `ready` without an
  `error`, `connecting` would stay pending for ever.

## 4. What is proved

The proof modules are checked by TLAPS for every value of the constants that
satisfies the assumptions named in each model. TLC checked every property first.

Some theorems have hypotheses (ASSUME ... PROVE) beside those assumptions. Each is
one under which the code's own reasoning works, and the run of the property satisfies
it. Where something was seen to go wrong without it, section 5 says what.

| Hypothesis | Says | Theorems |
| --- | --- | --- |
| `TellingTitles` | source videos have titles of their own, nobody else uploads under them | `TagsTruthful`, `OnceImported`, `CopiesRecoverable` |
| `NothingDies` | Bunny fails or rejects no video | `OnceImported`, `CopiesRecoverable` |
| `StaysDown` | what failed or got stuck does not recover, nobody but a run removes videos | `DeletesTheDead` |
| `FinishedStays` | a finished video is not processed again | `CompletedTruly` |
| `DeadStays` | what failed stays failed, or is removed | `ImportedNotFetched` |
| `~LateLanding` | no request is still unhandled when a later run lists the library | `OnceImported`, `CopiesRecoverable` |
| `~Summaries` | a run lists the library itself | `ImportedNotFetched`, `OnceImported`, `CopiesRecoverable` |
| `TwoImporters` | two processes alive, none acquires what it holds, none reads a lock without a pid | `ExclusiveLock`, `ReleaseIsOwn` |
| `AtomicWrites` | nobody writes between a writer's check and its upload | `NoRecordLost`, `LegacyAlwaysKept` |
| `Additive` | only deploys and publishes overlap, and deploys of one ID then have the same content | `TargetsRecorded`, `NeverMixed`, `AllPublishable` |
| `Overlap = {}` | commands run one at a time | `WholeIsServed`, `PromotionSettles` |
| `LegacyName \notin Names` | no site is created under the router-era site's name | `DetachedAlways`, `LegacyAlwaysKept`, `OneOfEach` |

### `StreamImportProofs`

* `TypeCorrect`: `Spec => []TypeOK`; everything ever saved satisfies the schema.
* `JournaledBeforeSent`: `[]WriteAhead`. No fetch of the run under way is
  outstanding that the journal on disk does not record.
* `PoolsJournaled`: `[]JournalCurrent`. While the pools run, the journal on
  disk is the run's memory.
* `FolderRunsInScope`: `ScopeRespected`. `RejectedNotFetched`: `RejectedLeftAlone`.
* `TagsTruthful`: `[]TruthfulTags`. `CompletedTruly`: `[]CompletedIsFinished`.
* `DeletesTheDead`: `DeletesOnlyDead`. `ImportedNotFetched`: `SkipsImported`.
* `OnceImported`: `[]NoDuplicate`. `CopiesRecoverable`: `[]Recoverable`.

The invariants build on one another:

* `IInv`, for write-ahead: `RequestsStarted` (no request names a run that
  has not started), `NothingEarly` (before the queue phase no worker works),
  `FetchersQueue` and `ToFetchIsFresh` (only the queue phase fetches, and a video
  still to be picked has no live worker or request), `AnswersHandled`,
  `OutstandingKnown` (an outstanding request has a worker behind it or an entry that
  still says so) and `JournalCurrent`, which makes a statement about memory one about
  the disk.
* `RunInv`, for what a run decides: its listing and index are of the library
  (`ListingsTaken`), which fields an entry of each status has (`EntriesShapely`) and
  a worker at each await (`WorkersShapely`), what it discovered is in its folder, and
  `QueuedCleared`: what is queued has no tagged copy, or one that the run may replace.
* `TruthInv`, for what things come from: every record of a listing (`TrueListings`),
  entry (`OwnEntries`) and answer (`OwnAnswers`) is of the video it is taken for. The
  lemma on `findLostFetch` is where titles must tell videos apart: they are all that a
  listing offers of an untagged copy.
* `KeptIn(H)`, for old listings: if Bunny moves nothing out of the healths `H`, what
  was listed with one of them still has one. Instances of it justify deleting and
  completing from a listing taken long before.
* `FinishedInv`: an entry that is completed records a video that is finished, or was
  until somebody removed it.
* `OneInv`: at most one copy under a tag works (`OneTagged`); until a run queues
  anything its index has that copy (`WorkingIndexed`); and a video that is queued or
  handed off has no working tagged copy but the one its own entry records (`Anew`).
* `CopyInv` says the same of all copies, tagged or not, in two parts. What outlasts a
  run: one copy, one request at most, and an untagged copy is recorded on disk. What
  the run under way knows: after the recovery pass it has every copy in its entry or
  its index (`Passed`), a queued video has no copy but that of its entry
  (`Uncopied`), and an answer is the only copy (`Answered`). `LoadPasses` proves the
  step between the two, from a crash anywhere to a run that knows all; `NothingDies`
  is needed there, since a dead tagged copy hides the untagged one from it.

`WorkerMoves` gathers what any worker may do in one step, `LibrarySteps` and
`CopySteps` what any step may do to the library; the later proofs go through these
few cases in place of two dozen actions.

### `StateLockProofs`

* `LockTypeCorrect`: types, for every leftover lock and any crash.
* `ExclusiveLock`: `[]MutualExclusion`. `ReleaseIsOwn`: `ReleaseKeepsOthers`. Both for
  `TwoImporters`, and any number of dead pids, calls and crashes.

`LockStands` is the argument: the lock of a live holder is at its path, or under the
name to which the other process moved it by mistake and from where it will link it
back (`Relink`), and the path is then free. `NewStands` says the same of a lock file
that has no pid yet, which the other process moved away before it could tell whose
it was. `SeenIsStale` says that what a process is about to take for stale does not
carry the pid of another live one. A third process could create a lock while the
path is free, hence the hypothesis.

### `SiteDeploysProofs`

* `SiteTypeCorrect`: `[]TypeOK`; no deploy ID is recorded twice, which every
  lookup and filter by ID relies on.
* `NoRecordLost`: `RecordsKept`, assuming `AtomicWrites`. However many
  commands overlap and wherever they fail, a record leaves the state file only for
  a writer that removed or replaced it.
* `TargetsRecorded`: `[]PointersRecorded`. `NeverMixed`: `[]RecordsVouch`.
  `AllPublishable`: `[]RecordsWhole`. These need no `AtomicWrites`, only `Additive`.
* `WholeIsServed`: `[]ServesWhole`. `PromotionSettles`: `PublishSettles`.

`JobsOK` says of each command that its copy of the state still has every record of
the file it last read, except those it removed (`Kept`); a writer that finds the
file unchanged uploads its copy as it is. `OneWriter` says that between a writer's
check and its upload the file is what the writer merged with; it is the only place
`AtomicWrites` is used. `MergeKeeps` is the lemma about the merge.

`AInv` says of every command that its copy records its own pointers and holds only
deploys somebody asked for, and that a command which may not overlap is alone and has
the file's state (`LoneOnes`). `Fitting` says that each file under an ID which the
state file or a command's copy knows is of the known content or missing; `Healing` that
what is incomplete is being filled or removed, unless something failed. `AloneInv`
follows a promotion: what it leaves as it was, and what it has set, at each request.

### `SiteProvisionProofs`

* `ProvisionTypeCorrect`: types. `GuardedAlways`: `[]SitesGuarded`.
* `DetachedAlways`: `[]RouterDetached`, assuming that no site is created under the
  router-era site's name (the limit of section 5 below).
* `LegacyAlwaysKept`: `LegacyKept`, assuming that and `AtomicWrites`.
* `WayBackAlways`: `WayBack`, for commands that run one after another.
* `OneOfEach`: `[]OneEach`, assuming that no site is created under the router-era
  site's name, which would resume its zone.

`Fit` is what a command has made sure of and others cannot take away: its pull zone
was created (an ID is never used twice), has the rules upserted so far, and has no
script; the zone it is about to write holds no router-era state but the one it read.
It survives any step because a pull zone's rules only grow while it is there
(`Forward`) and no router-era state is written but by an older CLI (`Onward`).
`Vouched` says the same of what a state file names, which is the property; `Lone`
adds what a command knows while no other runs: that the zone it marks is no site,
and that the one it deletes still names the pull zone it deleted.

`Single` is why a failed create is taken up and not repeated. `Sites` says of the
account that a zone has one pull zone, a name one zone and one listed site, and that
a site which was created is in the zone of its own name; it is on that last fact
that the lookup by name pattern (`api.ts:558`) relies, and an import under another
name breaks it. `Knowing` says of the command at work what its scan has excluded:
that no site has its name, no other zone either, no pull zone the zone it creates one for.

### `HostnamesProofs`

* `HostnamesTypeCorrect`: types, and record IDs that are each used once per name.
* `PointedTruly`: `[]PointedRoutesHere`, for any number of overlapping commands.
* `StaysRouted`: `NeverUnrouted`.
* `ForcedCertified`: `ForcedHasCert`. `DomainServed`: `[]DomainOnZone`.
  `DomainRecorded`: `AddRecordsDomain`. These are about commands that run one after
  another, wherever each stops; the properties say so themselves (`orderly`), and the
  theorems have no hypothesis of their own.

Records change only by `Added`, `Turned` and `Removed`; a command about to remove
the old record has read back that the new one routes (`Knows`), and what it read
stays true because no other step takes away a record that routes here (`Lasting`).

`Ordered` is what holds while commands run in turn. It says that the recorded domain
is attached unless a removal is on its way to `Unhook`, that the command at work
knows whether its hostname is on the zone from the step at which it attached or saw
it, and that one which asked for a certificate has it or could not look.

### `DbMigrationsProofs`

* `MigrationsTypeCorrect`: types.
* `ImplementsHistory`: `Spec => LandsWhole`, the refinement of `MigrationHistory`:
  only a COMMIT whose condition held changes the committed database, by one whole
  migration with its row; every other step stutters.
* `HistoryInOrder`: `[]HistoryIsPrefix`. `SuccessfulApply`: `[]SuccessIsApplied`.

The invariant says of a batch which steps have succeeded at the step it is at, hence
what its transaction would commit (`Due` is decided by it alone), that at most one
transaction is open and what it began with is what is committed (`HeldBack`), and of
a command (`CommandOK`) that what it read is in the directory while that only grows,
and that what it reports is recorded.

### `AppDeployProofs`

* `AppsTypeCorrect`; `OnlyPushedRuns`: `[]RunsPushed`; `KnowsItsApp`: `[]OneApp`.

Every built ref held outside the steps from build to push is pushed: in the configs
of commands, in `bunny.jsonc`, in templates and in what runs; the registry only
grows. `OneInv` says that while commands run in turn an app that is there is named
by the manifest or by the one command at work.

### `SandboxProofs`

* `SandboxTypeCorrect`; `CachesFresh`: `[]NothingStale`; `NoOrphans`:
  `[]NoOrphanCommand`; `AlwaysRetrievable`: `[]Retrievable`.

The invariant has two halves, as the state has. `TInv`, of the transport, adds that
a call which waits on a connection names one; each event has a lemma. `PInv`, of the
platform, adds that one create is at work and until the object is made, which steps
each operation may be at (so that the app is there after the POST), and that a
replacement of the environment in flight holds the token.

### Only model-checked

Liveness: `RunEnds`, `DeadLockReclaimed`, `HostnamesEnd`, `ApplyEnds` and `CallsEnd`.
They need fairness and ENABLED, which TLAPS does not reach. Induction over data is
out of its reach too; no theorem above rests on it.

## 5. Known limits of the code, met while modelling

These hold no run of their own; the constants allow most to be reproduced. Where a
sentence of the repository says otherwise it is quoted.

Import:

* **Dead shadow.** The fetch of a video fails in Bunny; a later run fetches it
  again and crashes before the tag. The next run's index holds the dead tagged
  copy, so `adoptOrphans` skips the orphan (`migration.ts:511`), or on a resume
  `reconcileWithBunny` forgets its GUID (`:762`), and a third copy is fetched: two
  working copies. `migration.ts:490`: "A fresh run re-tags videos a dead run left in
  Bunny untagged, so a crash between fetch and tag never costs a duplicate."
  (`HealthSteps` with failures in `MCImportRecovery`.)
* **Attempts.** `startFetch` counts the attempt before the source lookup
  (`migration.ts:934`); a pause during the lookup puts the entry back, "back to
  pending, untouched" (`:864`), but keeps the count, so pauses exhaust
  `MAX_IMPORT_ATTEMPTS` for a video that was never fetched.
* A service that was summarised keeps its listing for a later run
  (`migration.ts:193`); an import that finishes in between is not seen, and its
  videos are fetched again. (`Summaries = TRUE`, two runs.)
* Two lost fetches with one title are matched to nothing; but if one of the two is
  refetched and lost again, the match looks unique and may be the other's copy
  (`migration.ts:560-562`). (`OneTitle`, three runs, one epoch.)
* An entry whose recorded video was deleted in Bunny is resumed at tagging for ever.
* `retryStalled` decides from the listing: a stuck copy that finishes before the
  delete is deleted all the same (`HealthSteps <- Revives`), though
  `packages/stream-import/README.md:77` says "Neither deletes anything else".
* A listing is paged; a deletion between two pages can hide a video.

Lock:

* **Empty lock file.** `writeFileSync` creates the file before it writes the pid
  (`state.ts:176`). A process that reads in between sees no pid, takes the lock for
  stale and renames it away: both hold it (`EmptyReads = TRUE`), against "two runs
  cannot share one state file" (`packages/stream-import/README.md:77`).
* With three importers on one state file, the moment in which a live lock is away
  under the claimant's name lets a third create a new one (`state.ts:211`); a
  holder that releases at that moment leaves a lock put back that nobody holds.
* A process that acquires while it holds can do so in that same moment, and its first
  release then removes the lock of both calls (`Reentrant = TRUE`, four calls). The
  CLI acquires once.
* If a pid is used again during another process's `claimStaleLock`, the claimant
  takes the new lock for the stale one, since the pid is all it compares.

Site deploys:

* **Prune beside a deploy.** `removedIds` protects a prune's own write, but the
  deploy that read the state before the prune keeps the removed record among its
  own and writes it back (`api.ts:159`), against "a prune racing a deploy doesn't
  resurrect pruned records" (`api.ts:136`). If it was promoting that deploy,
  production is left on an empty prefix. A replacement does the same.
* **Deleting what is served.** The rule is retargeted before the state is told
  (`deploy.ts:549`). A deploy that dies in between leaves production on a deploy that
  is neither `current` nor `previous`, and `delete` removes it, against "delete one
  deploy (never current/previous)" (`README.md:83`).
* `writeRemoteState` checks and writes in two requests; a write in between is lost
  (`AtomicWrites = FALSE` violates `RecordsKept`).
* Two overlapping publishes may write the state in another order than they
  retargeted the rule, and `current` then names the deploy production does not
  serve. Of two, the other is still the rollback target and safe from deletion; of
  three, or when a redeploy of the live deploy was one of them, it may be neither.
* The not-found page is compared with what was fetched before the rule was
  retargeted, so an overlapping publish can leave it on the other deploy.
* A delete that dies after its files are gone leaves the record, and a deploy of
  the same bytes then skips the upload and publishes an empty prefix.

Provisioning:

* A create under the name of a router-era site resumes its zone and replaces the
  legacy state (`api.ts:560`; `Names = {legacy}` violates `LegacyKept` and
  `RouterDetached`), against "one already carrying state is never re-provisioned"
  (`api.ts:540`).
* Two overlapping creates of one name can leave two pull zones on one zone. A create
  that resumes a zone does not look for other pull zones on it, as import does
  (`api.ts:762`).
* A migrate that dies after it detached the router never deletes the script on a
  rerun (`api.ts:1071`: "fully resumable").
* When the pull zone is deleted and the storage zone is not, the site is found by no
  command, and a create of its name refuses.
* A zone kept by `--keep-storage` is resumed by a later create of the same name.
* A zone that a failed create left can be imported under another name. A create of
  the first name then makes a second zone of that name; after deletes with
  `--keep-storage` both are half-finished creates of one name (`OneEach` without the
  last conjunct of `orderly`).

Hostnames:

* Setup records a wildcard domain (`domains/index.ts:93`), against "A wildcard is
  never a site's production URL" (`domains/index.ts:109`).
* `findBunnyDnsZone` keeps the first routing record only: a name with A and AAAA
  records keeps one of them when it is repointed.
* The hook that records the domain does not run when the listing after a successful
  attach fails (`client.ts:174`); a setup whose wait throws leaves the hostname
  attached and unrecorded.
* `enableSsl` may decide from hostnames fetched earlier.

Databases:

* A run whose answer is lost after the COMMIT reports its file as still pending
  (`apply.ts:268`); it is recorded.

Apps:

* A lost answer to the create, or two overlapping first deploys, leave an app the
  directory does not know. A DELETE whose answer is lost leaves the manifest naming
  an app that is gone.
* `--no-push` is ignored on the first deploy of an app with several containers and in
  redeploy mode (`deploy.ts:410-470`; `APPS.md:127`).
* The rollback hint is never shown: it is computed from the app after the PATCH
  (`deploy.ts:720`), against `deploy.ts:694` and `APPS.md:43`.
* The registries picked in a first deploy are not persisted (`deploy.ts:374`).
* A PATCH and `apps push` send `image: ""` for containers with a dockerfile
  (`convert.ts:112`), against `deploy.ts:848`; the first container of the config is
  matched to the first template, whatever their names; `apps pull` pins containers
  that have a dockerfile; a draft persisted after a concurrent unlink links again.

Sandbox:

* `close()` while an attempt is under way leaves the connection it becomes open
  (`transport.ts:285`); the `close` of an old connection forgets a newer one, which
  then stays open unused (`transport.ts:348`).
* A create that fails after SSH was reached neither closes its connection nor removes
  the pinned key (`sandbox.ts:119-137`). `known-hosts.ts:148`: "A stale pin is
  harmless; the next connect re-checks it." It is not when the address is given to
  another sandbox: that one is refused until the line is removed by hand.
* Two overlapping `setEnv` lose the variables of one (`sandbox.ts:347`).
* `findEndpointId` takes a failed listing for an empty one and adds the endpoint again.
* A lost answer to the create leaves an app nobody knows; `sandbox create` under a
  name in use overwrites the only record of the older one (`commands/sandbox/create.ts:97`);
  `sandbox delete` of an app that is gone fails for ever and keeps the record
  (`commands/sandbox/delete.ts:73`).

## 6. Not modelled, and the plan

Not modelled: everything that renders, prompts or parses; import sources (the model
lets a source list any set and any lookup fail); metadata and collections; commands
that send one request; the database studio, shell and REST layers; generated and
packaged code.

Planned, in this order:

1. **`ImportPromise`**: the abstract specification of an import (per source video:
   absent, being fetched, imported, given up; never imported twice) with a
   refinement mapping from `StreamImport`, proved from `CopyInv` step by step.
2. `OnceImported` for a Bunny that fails videos, as far as the dead shadow of
   section 5 leaves one: for runs that finish what they resume.
3. `PublishSettles` for deploys beside each other, under a weaker conclusion.
4. Detached commands of a sandbox and its record in the configuration file; the
   transactions of the database client; `storage` sync and chunked Stream uploads.
5. Paged listings, the retry budget of `http.ts` and the rate limiter.
