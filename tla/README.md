# Clotho in TLA+

Clotho is a forge for people and agents: git-compatible repositories on a
jj-based engine, a merge queue, CI runs ("Actions") in remote sandboxes, content
addressed storage for large files, and REST and MCP gateways in front of them.
This directory models the parts of it that keep state across processes and
failures, checks them with TLC on small instances, and proves the most important
properties with TLAPS for every size.

File names below are relative to `crates/`; `gateway` stands for
`clotho-api-gateway/src`.

## 1. Inventory

| Component | State it keeps | Operations | What is hard about it |
|---|---|---|---|
| Action runs (`gateway/actions.rs`, `ci.rs`) | tables `action_runs` (with lease columns), `action_logs`; one task and one heartbeat per dispatched run; the commit status in Forgejo | create, claim, renew, execute, finish, log, notify, report; a recovery poll in every replica | replicas race for one row; leases lapse under a live worker; any await may be the last; result, log, notification and status are separate writes |
| Manual starts with an idempotency key (`gateway/idempotency.rs`, `actions.rs`) | table `idempotency_records` | look up, validate, transaction, replay, conflict, hourly cleanup | concurrent first requests, lost answers, branches that move between try and retry, expiry |
| Webhook admission (`gateway/webhooks.rs`, `ci.rs`) | table `webhook_deliveries` | verify, resolve, reserve, compare, schedule, clean up | duplicated and racing deliveries, a reservation that is durable before the run it stands for |
| VCS engine (`clotho-vcs/src/engine.rs`) | jj operation log and views, commits, `refs/heads/main` of the backing git repository | `load_repo` (merging and importing), `commit`, `checkpoint`, `restore_to`, `integrate_commit`, reads | no lock over a call; operations diverge; git is written after the operation; plain git writers |
| Merge queue (`clotho-merge-queue/src/lib.rs`) | one in-memory lock per repository | `submit_change` | the lock lives on a handler's stack, the integration does not |
| Hub imports (`gateway/hub.rs`) | table `hub_import_jobs` with leases | create, recover, claim, renew, preflight, progress, commit, submit, finish | the same lease protocol; commit and submission are outside its fence; progress restarts at a takeover |
| Arachne storage (`clotho-storage/src/engine.rs`, `gateway/arachne.rs`) | xorbs and shards in an object store, a shared in-memory and on-disk shard manager | upload (chunk, deduplicate, flush), download ranges, restart | concurrent uploads flush one another's entries; acknowledgement against durability; range arithmetic on u64 |
| Pull requests and merge policy (`gateway/pulls.rs`, `merge_policy.rs`) | table `repo_merge_policies`; pulls live in Forgejo | evaluate policy, merge, upsert policy | the head may move between check and merge; unreadable inputs read as empty |
| Repositories and organisations (`gateway/lib.rs`, `repos.rs`, `control.rs`) | tables `repos`, `orgs`, `org_memberships`, `repo_permissions`, `activity_events`; VCS and Forgejo repositories, webhooks | create, adopt, update, delete, list by pages | several stores and no transaction over them; check-then-insert of names; rows that move under a cursor |
| Agent identity (`clotho-agent-gateway/src/identity.rs`, `admin.rs`) | agents, tokens, scopes, audit log | register, mint, revoke, re-scope, disable, authorise | revocation against calls under way |
| Agent gateway (`clotho-agent-gateway/src/mcp.rs`, `rest.rs`) | none | MCP tools as calls of the services or of the REST edge | judged twice, by scopes read at different times; an audit entry after the work |
| User authentication (`gateway/auth.rs`, `auth_provider/`, `agent_rest.rs`) | tables `api_tokens`, `clerk_user_links`, `clerk_org_links` | resolve, sign in, mint, revoke, bootstrap | first sign-ins that race; permissions looked up after the credential |
| Releases and the HF-compatible API (`gateway/releases.rs`, `hf_compat.rs`) | table `repo_releases` | create, resolve a revision, serve byte ranges | a branch that moves during creation; two lookups of a client's session; a body that breaks after its headers |
| Secrets, providers (`gateway/secrets.rs`, `providers.rs`) | table `secrets` | create, rotate, describe, delete, connect, disconnect, resolve with precedence | delete and insert without a transaction; several names of one provider |
| Notifications (`gateway/notifications.rs`) | table `notifications` | notify, list, mark read | sent from the finish of a run |
| Compute (`clotho-compute`) | provider registry, remembered health of the bridge, sandboxes at the provider | choose a provider, create, upload, execute, delete | a sandbox must go on every exit path; a choice by stale health |
| Semantic diff, issues, labels, milestones, helpers, CLI, front ends | none | pure functions, proxies, clients | nothing that outlives a request |

How they interact: a push makes Forgejo call the webhook; admission spawns
`ci::run`, which creates an Action run; a manual start creates one through the
idempotency transaction. A run's task exports the commit from the VCS engine,
executes it through the compute service, writes Postgres and reports to Forgejo.
Its credentials are secrets that are resolved at that moment. A Hub import commits
and submits by itself, storing large files in Arachne first; releases and CI read
them back through their pointers. Agents reach the engine and the queue through
MCP tools, everything else through the REST edge, which asks the agent gateway
again; the CLI and people call the edge. A merged pull request moves main, and a
release freezes a commit of it. Forgejo serves and writes the very git repository that backs
the engine.

## 2. Modules

    LeasedJob            what a durable leased job promises
      ^ implemented by
    ActionRuns           action_runs, tasks, heartbeats, Forgejo statuses
    HubImports           hub_import_jobs, workers, unfenced landings
    IdempotentStart      one run per key and retention window
    WebhookAdmission     one CI start per reservation of a delivery id
    JjRepo               jj-lib as the engine uses it (external)
    VcsEngine            one repository behind engine and merge queue
    ArachneStorage       uploads, shard index, object store, downloads
    RepoLifecycle        repositories over Postgres, engine and Forgejo
    ApiSurface           routes and tools, and what each asks of its caller
    Access               identities, tokens, permissions, tool calls, audit
    Publishing           merge policy and merges, releases, downloads
    SandboxExecution     secrets, provider choice, sandboxes
    *Proofs              theorems about one of them each; StorageProofs
                         about both stores, ArachneStorage and VcsEngine,
                         AdmissionProofs about IdempotentStart and
                         WebhookAdmission
    MC*                  the same specifications with their instances

### ActionRuns

`runs`, `logs`, `notified` are the tables; `tasks` holds, for every spawned
`run_existing`, its program counter, its locals and its heartbeat; `forgejo` the
newest `clotho-ci` status per commit. One action stands for one await point of the
code: `ClaimRun`/`ClaimLost` for `claim_run`, `PostPending`, `Execute`,
`FinishRun`/`FinishStale` for the load and the fenced update in `finish_run`,
`WriteLog`, `Notify`, `PostFinal`, `Renew`/`RenewLost` for the heartbeat,
`Recover` for the poll. Each fallible call has a second action for its failure,
and claim and finish a third for an update that took effect while its answer was
lost. `Hang` is a call that never answers: no client of the gateway has a timeout,
so the task stays where it is while its heartbeat goes on (`HeldByHung`). `Crash`
stops a replica with everything it runs.

Abstractions. A lease is null, live or expired instead of a timestamp; it expires
freely once its holder is silent, and otherwise only as a counted fault. Worker
ids are the names of the task slots, and a slot is used again only when no row
names it. The workflow's steps, its secrets and its output are the three
conclusions `execute` can produce. Columns that never meet a guard are left out.
The load before the fenced update in `finish_run` is one step with it: the
columns it carries over are written by nobody else.

### IdempotentStart

`records` is `idempotency_records` for one organisation and principal, `runs` the
runs created, `reqs` the handlers under way. A handler takes the fingerprint,
looks the key up, validates (resolving the branch to a commit), begins the
transaction and commits it. `now()` in Postgres is the start of a transaction,
and an insert waits for the other inserter: what is expired is fixed in `BeginRun`,
what conflicts is decided in `CommitInsert`/`CommitReplay`. What the module has in
common with `WebhookAdmission` carries a name of its own (`StartSpec`, `Null`,
`RequestAt`), since `AdmissionProofs` extends both.

### WebhookAdmission

`deliveries` is `webhook_deliveries`, `repos` the repositories under the one name
the payloads mention, `calls` the handlers, `ci` the detached task of each call up
to its durable run (from there on it is `ActionRuns!CreateRun`). A signature is
the payload it was made for. `Expire`, `DeleteRepo` (with the cascade of migration
1018) and `CleanupExpired` end reservations, `Crash` ends handlers and tasks. A
client that hangs up drops its handler at whatever await it has reached: `Drop`,
`DropCommitted` when the reservation's commit was sent already, `DropCleaned` when
the cleanup was. That is no fault of the system and is not counted as one.

### JjRepo and VcsEngine

A commit is an index into an append-only sequence with its change id, parents,
ancestors and the set of changes whose edits its tree contains. An operation has a
view (heads, bookmark `main`, the git ref last seen) and its ancestors in the
log. A ref target is a set, so that conflicted refs exist. `JjRepo` says what the
engine relies on: `merge_ref_targets`, `rebase_descendants`, the merge of diverged
views. jj-lib itself is not part of the repository. `Gone` and `Successors` tell a
commit that was rewritten once, or abandoned, from one that two calls rewrote at
the same time: such a commit is no head any more and leaves its parents as heads,
but nothing moves from it, and a ref to it becomes a conflict of the two. A commit
that is lost does not move with what it was built on (`Moving`), and one whose
parents stay where they are stays as well.

An engine call is four steps, between which other calls, pushes, crashes and
cancelled clients happen: `LoadAtHead`/`LoadMerging`, `NothingToImport`/`Import`,
the call's own operation (`CommitCall`, `CheckpointCall`, `RestoreCall`,
`IntegrateFastForward`, `IntegrateRebase`, `Read`), and `Mirror` for
`mirror_main_ref`. `Begin` and `TakeTurn` are the merge queue. The module's `VcsInit`, `VcsNext`, `VcsSpec` and so on carry the component's
name, so that a module can extend it together with another. `Overlap = FALSE`
makes calls one at a time, which separates what overlap breaks from what does
not.

Left out: file conflicts (they are recorded, and never stop a call); the
submission of a commit that main has already built on (`IntegrateOutOfScope` ends
such a call: what jj-lib makes of rebasing a commit onto its own descendant is
not in this repository); clients that name several parents; pushes that are not
fast-forward.

### HubImports

`jobs` is the table, `workers` the tasks of `spawn_job` with their heartbeat,
`landed` the attempts whose commit main has got. Every fenced update
(`Preflight`, `ImportFile`, `RecordCommit`, `Finish`) asks `Holds`; `CommitFiles`,
which may fast-forward main itself (`Land`), and `Submit` do not, as in the code.
`LandUnacknowledged` is either of them when its answer is lost: the import counts as
failed and main has its files. `Hang` is a call that never answers, as in `ActionRuns`. `Init` also has rows of an earlier release,
running without a lease or with a request that cannot be read.
`epoch` counts the claims of a job; the table has no such column, and the model
needs it only to name attempts. Discovery, filters and limits are the number of
files that remain, or a failure.

### ArachneStorage

A content is a sequence of chunks and stands for its hash. `memory` and `disk`
are the shard manager's two halves, `shards` and `xorbs` the object store. An
upload puts a xorb, indexes it, indexes its file and flushes: `Flush` takes
everything in memory, also what other uploads added, and `PutShard` stores it;
`FlushNothing` answers without waiting for whoever took its entries. `Restart`
rebuilds the index, with or without the data directory. `adrift` is a history:
entries whose shard never reached the store. Downloads are segment by segment
with the code's arithmetic on words of width `MaxWord`. The range a client asked
for ends where `BeginDownload` says, with the clamp of `download_inner`: what is
checked is that the segments make up that range, not the clamp itself.

### RepoLifecycle

Three stores: the tables, `vcs` and `projects` with `hooks`. Each statement and
each remote call of `create_org`, `create_repo`, `update_repo` and `delete_repo`
is one action, with `CallFails` between any two, and nothing is undone, as in the
code. The clock of `updated_at` ticks; `walk` is a client that follows
`next_cursor`: `Rest` is what follows its cursor, `Page` what of it fits on a page,
and `twice` a history of what it was shown again. Deleting keeps the engine's repository: the name stays burnt.

### ApiSurface and Access

`ApiSurface` is the table of what handlers require of a human (`need`) and which
tool they name for an agent, and of which MCP tool forwards to which route.
`Access` has the tables of identities and a record per call. A tool call is
authenticated (`ToolCall`), judged by the scopes read then (`RunTool`), forwarded
(`Edge` reads the present scopes), served and audited. A human call resolves its
credential, is looked up in memberships and grants, and is served. A Clerk session
that is new inserts, looks again and links, statement by statement. `late` and
`touched` are histories for the properties: the calls that were past their last
check when something was revoked, and those whose token changed on the way.

### Publishing

`pull`, `statuses`, `reviews` and `main` are Forgejo's; they move under the
requests (`PushHead`, `ReportStatus`, `ReviewPull`). `merge_pull` is five calls
with the decision between the fourth and the fifth; `upsert_merge_policy` a read
and a write; `create_release` one call per file; a Hub session two requests of one
client. A payload in the store may be short or corrupt by the time it is
streamed. `calm` is a history: nobody changed what a merge works on since its
first read. `Deserved` says what the policy promises, from the tables themselves and
with the two exceptions of the code: a status other than `success`, `pending`,
`failure` and `error` (Forgejo's `warning`) does not block, and an approval that its
reviewer withdrew still counts (`Withdrew`).

### SandboxExecution

`secrets` maps owner and name to the request that stored the value. An upsert is
a check, a delete, an insert and a reload; a connect repeats that for each name in
the order of a hash map. `Names` is the catalog of what each provider reads;
`Upstreams` are the sets of names the bridge's upstreams require. A connect stores
the names its request carries, which are those of an upstream and whatever others it
adds (`Connectable`): one connect may name what the next leaves alone. Upstreams may
share names, a provider may read those of several, and two providers the same ones,
as `daytona` and `computesdk` do: disconnecting `computesdk` takes `DAYTONA_API_KEY`
from `daytona` too (`secrets.rs:891`). The job reads its names one by one, a
repository that is not found or whose name is ambiguous (`FindNoRepo`) sends it to
the bootstrap organisation, `Dispatch` is the registry's choice, and the sandbox's life follows `run_job`: create, wait, upload,
execute, delete. `could` is a history of the values each key had while the job
resolved, `strays` of the names for which no repository was found, `beside` of the
requests that overlapped.

## 3. Runs

| Run | Bounds | Distinct states | What it shows |
|---|---|---|---|
| `runs_safety` | 2 runs of 1 commit, 2 replicas, 3 task slots, 1 fault | 297,227 | holder, result, log and notification invariants, finality, refinement of `LeasedJob` across crashes, lapsed leases and failed writes; and, without failures, a commit status that is the conclusion of a finished run |
| `runs_liveness` | 1 run, 2 slots, 2 faults, fairness | 50,173 | every run finishes, unless a call without an answer keeps it inside the task that holds it |
| `idempotent_start` | 3 requests, 1 key, 2 intents, 1 expiry, 1 change of branch or configuration | 81,236 | one run per key and window; answers name the run that exists; no false conflicts |
| `webhook_admission` | 3 calls, 1 id, 2 payloads (one a deletion), 2 repositories, 2 replicas, 1 ended reservation, 1 fault | 818,059 | one start per reservation; only signed, admitted pushes start; retries judged by content; a push that was acknowledged and never ran was lost by its winner, whose handler was dropped or failed |
| `vcs_serial` | 3 calls of all kinds one at a time, 1 fault, 1 push | 356,429 | landed changes stay on main across crashes, failed mirrors and pushes, with their edits unless a commit was made on several heads or a change submitted again on top of itself; main and its git record agree |
| `vcs_overlap` | 3 overlapping calls of all kinds, 1 fault, 1 push among calls that neither commit nor restore | 937,513 | the operation log loses nothing; acknowledged commits stay visible; submissions run alone, and the queue keeps their landings, as long as no client gives up, nobody commits or restores, and no checkpoint overlaps a push |
| `hub_imports` | 1 job of up to 2 files, 2 replicas, 2 workers, 2 faults, fairness | 152,866 | progress is the holder's; success means landed; repeated landings need faults; `LeasedJob` is implemented; every import ends, unless a call without an answer keeps it inside the worker that holds it |
| `storage` | 3 uploads of 2 payloads that share a chunk, 1 download, 5 ranges, xorbs of 1 chunk, words up to 5, 1 fault | 699,267 | no dangling reference; acknowledged files are stored and readable except for entries whose shard was lost; pointers and ranges are exact |
| `repo_lifecycle` | 2 requests, 2 names, 2 organisations, 2 users, up to 2 repositories at the start, pages of 1, 1 tick, 1 fault | 1,176,656 | rows are backed by engine and Forgejo; names stay unambiguous although check and index do not guarantee it (the engine's `init_repo` does); orphans come from failures or deletions; page walks are complete |
| `access` | 2 calls of 11 kinds, 2 agent tokens, 2 API tokens, 2 sessions of one person, 2 repositories, 1 fault | 710,020 | no effect that was not allowed at its last check; audit entries are true; refusals at the edge have a cause; sign-ins agree; listing is reading |
| `publishing` | 2 requests of 5 kinds, 3 commits, 2 versions (one named like a commit), 2 reviewers, 3 moves, 1 fault, offsets up to 2 | 925,264 | undisturbed merges are deserved, warnings and withdrawn approvals apart; releases are one commit's tree; versions are created once; bodies are exactly what was asked for; Hub sessions agree unless a release is labelled with the commit they were told |
| `sandbox_execution` | 2 requests, 1 job, 2 providers, 2 upstreams, connects with one or both of 2 names, 2 files, 2 commands, 1 fault, 1 change of the bridge | 1,006,933 | secrets vanish only on request or by a failed replacement; credentials that are always named together are of one connect; jobs use stored ones, at their provider only; sandboxes are torn down; verdicts are earned |

Some properties a run checks are conjunctions of named parts, each with its own
comment in the module; all of them begin with the module's type invariant except
the last three.

| Property | Parts |
|---|---|
| `KeysAreHonoured` | `TypeOK`, `OneRunPerWindow`, `ConflictMeansOtherIntent` |
| `PushesStartOnce` | `TypeOK`, `OneStartPerReservation`, `StartedIsAdmitted` |
| `MainKeepsLandings` | `TypeOK`, `MainMatchesRecord`, `LandedStaysOnMain` |
| `ImportsAreAccounted` | `TypeOK`, `ProgressIsHolders`, `SucceededIsLanded`, `LandingsAreCounted` |
| `AcknowledgedIsSafe` | `TypeOK`, `PointersAreWhole`, `AcknowledgedIsReadable`, `AcknowledgedIsKept` |
| `RowsAreSound` | `TypeOK`, `NamesAreUnambiguous`, `RowsAreBacked`, `UntaggedHasACause` |
| `DecisionsAgree` | `TypeOK`, `RefusalsHaveACause`, `ListingAgreesWithReading` |
| `ReleasesAreHonoured` | `TypeOK`, `ReleasesAreSnapshots`, `CreationsAreHonoured` |
| `SecretsAreKept` | `TypeOK`, `SecretsVanishOnlyOnRequest`, `CreationsExclude`, `CredentialsAreWhole` |
| `TurnsAreEnough` | `SubmissionsRunAlone`, `QueueKeepsLandings` |
| `KeysReachTheirJob` | `JobUsesStoredKeys`, `KeysStayWithTheirProvider` |
| `SandboxesEndWell` | `SandboxesAreTornDown`, `VerdictsAreEarned` |

Why the bounds are enough. The lease protocols' races are between the holder, a
successor and a third task that was dispatched late: three slots (two suffice for
imports, whose properties compare a stale and a present worker). One lapse, lost
answer or crash makes a stale worker or an orphaned run; the liveness run allows
two, and the theorems any number. A key or a delivery id is contested by a winner,
a racer and a late retry: three requests, with a second window after an expiry. In
the engine a lost update takes two calls, and three give a merge of diverged
operations somebody to publish beside it. A shard is flushed by one upload, empty
for a second and refilled by a third. Every other race in the handlers is between
two requests, or one request and the world: two requests and the moves of the
world are there, and a page walk needs two rows and pages of one. Two commands and
two files tell first from last. Deadlock checking is off in all runs: the models
stop when their requests, calls and fault budgets are used up, as the system does
when nobody asks for anything.

Reductions. Symmetry is used for task slots, replicas, requests, calls, tokens and
repositories, never in a run with a liveness property. `PushesApart` in
`MCVcsEngine` bounds the overlap run: a push, which `QueueKeepsLandings` is about,
happens there only while nobody commits or restores; `vcs_serial` has pushes among
calls of all kinds. Two instances leave out
combinations of steps that do not meet. `Related` in `MCPublishing`: a merge or a
policy update beside a download shares no variable with it (creating a release
meets both, and is combined with both); and where main is at the start, at the
first release or past it, matters to releases and downloads only, so merges start
from its base; and to a release only that a merge moves main, not what it was judged
by, so around these two the world moves once, and three times around others. `MCSandboxExecution`: `Related` keeps to
requests for the names of one upstream, required or optional, but for the
disconnection of a provider that reads more, and to a job for the first provider
that reads them, since rows of different names never meet; a job for the bridge has
its names written and erased all at once, and nobody writes beside one whose
repository is not found, since it reads the bootstrap organisation's rows, which no
request of the model writes; after the job was handed over nothing of it reads
`secrets` or `reqs`, so `Apart` lets the requests rest and `Seen` leaves them out
of the fingerprint, and the bridge moves only for a job that may use it. All
properties of that module relate either the requests and secrets, before or
without the hand-over, or the job and its sandbox.

Fairness (`FairSpec` in `ActionRuns` and `HubImports`). The runtime polls spawned
tasks, and the calls they await answer, with a result or an error: weak fairness of
each task's own steps and of its heartbeat. That is not taken for granted, since
neither the Forgejo client (`forgejo.rs:273`) nor the gRPC channels (`lib.rs:171`)
have a timeout: `Hang` ends the progress of a task at any of its calls, and then
nothing but a crash or a heartbeat that ends releases the job. The liveness
properties name that, and say that nothing else keeps a job from its end, and that
it resumes once the hung task has lost it. Time passes: weak fairness of the expiry of a
lease nobody renews. The recovery loop polls every five seconds in every replica:
strong fairness of `Recover` per run, strong only because the model's finite
slots, unlike `tokio::spawn`, can be momentarily exhausted. Faults are finitely
many and never fair.

### Known disagreements between the code and its words

The properties above state what holds. In these cases a comment, a document or a
message promises more than the code does; each was met while modelling, and the
property named there states what does hold, with the exception as part of its
statement or of the states it speaks of; where none is named, the code is modelled
as it is and no property depends on the promise.

| Where | What is said | What the code does |
|---|---|---|
| `gateway/ci.rs:174`, `actions.rs:485` | "discarded result from stale Action worker" | the stale worker still posts its conclusion as the commit's final status (`FaultFreeOutcome` covers runs without a fault) |
| `gateway/ci.rs:9` | "report `success`/`failure` back to the commit" | the post is made once after the row is terminal; if it is lost the commit stays pending |
| `gateway/webhooks.rs:130`, `api.md` | the first request "schedules one CI run" | a failure between the reservation and the run loses it, and exact retries are replays for a day (`FailedAfterReserving` in `LostRunsHaveACause`) |
| `gateway/webhooks.rs:107`, `api.md` | the same | a client that hangs up while the handler awaits `cleanup_expired` drops it after its reservation is committed and before the task is spawned: the push has no run and its retries are replays, with nothing failing (`"dropped"` in `LostRunsHaveACause`) |
| `gateway/ci.rs:78`, `hub.rs:502`, `api.md:259` | "an expired job is reclaimed automatically" | the heartbeat is a task of its own: while a call without a timeout never answers, it goes on renewing, the lease does not expire, and the job stays running (`HeldByHung` in `EveryRunFinishes` and `EveryImportEnds`) |
| `api.md:260` | "a healthy worker cannot be stolen" from | a heartbeat ends at its first failed renewal, and the lease of a healthy worker then expires (`RenewFails`) |
| `gateway/hub.rs:554` | "Hub import job failed" | `vcs.commit` or `submit_change` may have moved main before the import failed: its files are on main (`SucceededIsLanded` holds in one direction only) |
| `clotho-vcs/src/engine.rs:827` | "The merge-queue serializes calls to this per repo" | a plain commit that overlaps it may mirror an older main over the landing, and the next load imports that (`QueueKeepsLandings` is about submissions alone) |
| `clotho-merge-queue/src/lib.rs:69` | "Everything after the await runs alone for this repo" | a client that goes away frees the turn while its integration runs on (`SubmissionsRunAlone`) |
| `clotho-vcs/src/engine.rs:385` | "a merge commit if there are several" heads | it has all heads as parents and the tree of one of them (`LandedEditsStay`) |
| `clotho-vcs/src/engine.rs:996` | the import in `load_repo` only fires for external changes | a load between another call's operation and its mirror imports the engine's own older ref |
| `clotho-merge-queue/src/lib.rs:3` | landing on the shared main history "goes through this queue" | two late checkpoints that overlap pushes may bring back a main that was left behind; the merge then moves main off its git ref, and a later submission is rebased on the moved main, past what landed before it (`QueueKeepsLandings` excludes a checkpoint beside a push; it takes eight calls and three pushes) |
| `clotho-vcs/src/engine.rs:824` | "otherwise rebase it on top" | a change submitted again on top of itself has no difference from its parent left, and main's tree loses its edits (`Plain` in `LandedEditsStay`) |
| MCP tool `commit` | not landed until `submit_change` runs | `commit` fast-forwards main whenever the new commit descends from it |
| `clotho-storage/src/engine.rs:255` | files "survive restarts from the object store alone" | an upload whose entries another upload flushed is acknowledged before that shard is stored (`AcknowledgedIsKept`) |
| `gateway/control.rs:1316` | "tailscale network mode requires at least one tag" | an update that names tags and no mode is validated as public (`UntaggedHasACause`) |
| `api.md:330` | "explicit Clotho versions and release commit IDs are supported" as revisions | `validate_version` (`releases.rs:81`) lets a release be labelled with another release's commit id, and the newest match of label or commit is served (`Labelled` in `HubSessionsAgree`) |
| `gateway/secrets.rs:1256` | "already exists; use rotate instead" | two racing creations both succeed (`CreationsExclude`) |
| `gateway/merge_policy.rs:108` | "distinct reviewers whose latest submitted review is APPROVED" | it counts the first review of each that Forgejo lists, so that an approval which its reviewer withdrew later still counts, and one that came later does not (`Withdrew` in `MergesAreDeserved`) |
| `gateway/merge_policy.rs:80` | "all actions must pass before merge" | no status may be pending, failing or in error, and there must be one; any other state, such as Forgejo's `warning`, passes (`MergesAreDeserved` allows `warning`) |
| `gateway/merge_policy.rs:1`, `pulls.rs:258` | "enforced at merge time" | the merge call names no commit: a head that moved since it was judged is merged (`calm` in `MergesAreDeserved`) |
| `gateway/merge_policy.rs:149` | the fields of an update are optional | it reads, merges and writes every column: of two that overlap one is lost |
| `gateway/merge_policy.rs` | `protect_default_branch` is part of the policy | no handler consults it |
| `gateway/secrets.rs:1085` | "Fall back to bootstrap org when repo isn't in control plane" | so does a repository whose lookup merely failed or whose name is ambiguous: a job of an organisation is paid with the bootstrap organisation's credentials (`strays` in `JobUsesStoredKeys`) |
| `gateway/secrets.rs:1026` | connecting an upstream stores its credentials | only those names that its request carries: optional ones that an earlier connect stored stay beside the new ones (`NamedTogether` in `CredentialsAreWhole`) |

## 4. Proofs

Every theorem holds for all values of the constants, that is for any number of
jobs, requests, replicas, faults and so on, under the named assumptions of its
module. Those say that bounds are natural numbers, that sizes and limits are
positive, that `None` (an absent value) is not one of the values it stands in for,
nor, for a column that may be null, a record of the table, and what the code
guarantees about its inputs: payloads are not empty, ranges are pairs of words, updates have the fields of
`UpdateRepoRequest`, a deletion is one of the payloads, the bootstrap organisation
and its operator are there. For `SandboxExecution` they are what the catalog
guarantees: an upstream requires names that some provider reads, and every provider
reads some. `Access` assumes that credentials are told apart by
their form, that a session's role is one of two (`map_org_role`), and that whoever
asks asks for a tool or for a route of the table. `Publishing` assumes that every
commit has a tree of files, that the base and the heads are among the commits, and
that no commit is called `main`: an id is a digest. `ExistingAssumption` of `RepoLifecycle` says that
finitely many repositories were there at the start, named by other ids than those
of the requests.

Each module proves one inductive invariant, `IInv`, and the properties from it:
`InitIInv` (it holds at the start), `StepIInv` (one lemma per action keeps it),
`InvariantHolds`, then a theorem per property. `IInv` was checked by TLC on the
run's instance before it was proved.

| Module | Theorems | What is proved |
|---|---|---|
| `ActionRunsProofs` | `TypeCorrect`, `HolderTheorem`, `ResultTheorem`, `LogTheorem`, `NotificationTheorem`, `FinalTheorem`, `OutcomeTheorem`, `RefinementTheorem` | the safety properties of `runs_safety`, and `LeasedJob` |
| `HubImportsProofs` | `AccountedTheorem`, `RefinementTheorem` | `ImportsAreAccounted`, and `LeasedJob` |
| `AdmissionProofs` (`IdempotentStart`) | `HonouredTheorem`, `TruthTheorem` | `KeysAreHonoured`, `AnswersAreTrue` |
| `AdmissionProofs` (`WebhookAdmission`) | `StartOnceTheorem`, `JudgedTheorem`, `NothingLostTheorem` | `PushesStartOnce`, `RetriesAreJudgedByContent`, `LostRunsHaveACause` |
| `StorageProofs` (`ArachneStorage`) | `ResolveTheorem`, `AcknowledgedTheorem`, `DownloadsTheorem` | `ReferencesResolve`, `AcknowledgedIsSafe`, `DownloadsAreExact` |
| `RepoLifecycleProofs` | `RowsTheorem`, `OrphansTheorem`, `CreationsTheorem`, `WalksTheorem` | `RowsAreSound`, `OrphansHaveACause`, `AnsweredCreations`, `WalksAreComplete` |
| `AccessProofs` | `EffectsTheorem`, `DecisionsTheorem`, `AuditTheorem`, `SignInsTheorem` | `EffectsWereAllowed`, `DecisionsAgree`, `AuditIsTrue`, `SignInsAgree` |
| `PublishingProofs` | `MergesTheorem`, `ReleasesTheorem`, `DownloadsTheorem`, `SessionsTheorem` | `MergesAreDeserved`, `ReleasesAreHonoured`, `DownloadsAreExact`, `HubSessionsAgree` |
| `SandboxExecutionProofs` | `KeptTheorem`, `KeysTheorem`, `EndTheorem` | `SecretsAreKept`, `KeysReachTheirJob`, `SandboxesEndWell` |
| `StorageProofs` (`VcsEngine`) | `OpLogTheorem` | `OpLogComplete` |
| `StorageProofs` (`VcsEngine`, calls one at a time) | `MainTheorem`, `EditsTheorem` | `MainKeepsLandings`, `LandedEditsStay` |
| `StorageProofs` (`VcsEngine`, any overlap) | `VisibleTheorem`, `TurnsTheorem` | `CommitsStayVisible`, `TurnsAreEnough` |

No property is inductive alone. What each `IInv` adds, and why:

**Leases** (`ActionRuns`, `HubImports`). That a late result is refused depends on
whom a row names: `RowHolder` says that the named slot is empty or runs this row's
newest attempt, which holds because nothing is spawned into a slot a row names.
For runs, `Recorder` says that a task past recording finds its own result in the
row and is the only one, `Unclaimed` that there are no attempts before the first
claim, and `RowSteps` sums up what a step may do to a row; finality and
refinement follow from it. `OutcomeTheorem` has an invariant of its own on top,
`Undisturbed`: as long as nothing failed, no job has a second holder (`OneHolder`),
and whoever is past recording is the task that posts the row's conclusion
(`Settled`, `Posted`). Imports do not fence their landings, so that repeated
landings must be bounded differently: `Counted` says that every attempt after the
first was paid for by a fault, and that a job that is abandoned (its lease expired or
its holder no longer renews) has a fault to spare. `RowProgress` and
`WorkerProgress` tie the counters of the row to what its holder has left to do.

**Reservations** (`IdempotentStart`, `WebhookAdmission`). The property counts: a key
has started no more runs than records of it expired, and one more while a live
record keeps others out (`KeysCounted`, `Counted`). The count would break if a transaction that
saw an expired record deleted a live one. `DeadRecordIsExpired` and `DeadIsExpired`
exclude it: records are
named after the request that inserted them, which never inserts another, so what
was expired when the transaction began is expired or gone. `RecordsAreTrue` and
`RowsAreTrue` carry what a record says to the run or the call it was made for.
`WinnerSchedules` says what becomes of a reservation's winner: it is about to spawn
its task, has done so, failed, or was dropped by its client. The
induction on the number of runs is the library's arithmetic of finite sets.

**Storage** (`ArachneStorage`). `EntriesResolve` is about the index in memory, on
disk and in the store at once, because entries wander between them in steps of
several uploads. `UploadSound` says how an upload's segments, the xorb it is
filling and what it still has to chunk make up the content (`Covers`), and that
what it took for its shard is on disk. `DiskAccounted` names where an entry on
disk is also to be found: in the store, in an upload's hands, or among those
whose shard was lost. `Faithful` is the loop invariant of `download_inner`: the
bytes sent are those of the range up to the segment the loop has reached
(`Reached`), and the segments left are the last ones of the file (`Remaining`). It
rests on lemmas about the layout of a content of chunks of one size in bytes.

**Names** (`RepoLifecycle`). Neither the look at the table nor the table keeps two
creations of one name apart; `init_repo` does, because it refuses a name it has
ever seen. `HeldAlone` says that the creation that made a repository holds its
name alone until its row is there: no second creation, no row, and no update or
deletion knows the name. `RequestSound` says that whoever knows a row by name and
id knows a seeded repository and a finished insertion, so nobody can hold the name
again, and a deletion that comes to remove the project finds no row of the name.
`Progress` follows an insertion to its grant, or to a deletion that may have
erased both; `OrphansHaveACause` is inductive with it. `WalkSound` says that what
the client was shown is not after its cursor and what it has yet to see is, since
a row that is touched moves to the present, which the cursor has passed. That the
rows cut off a page come after its last one (`PageCut`) is a fact about
cardinalities in a total order. Frames sum up a step: `Moves` (the request's
record), `Stores`, `Rows`, `Tables`; the invariant is proved from these, and each
action only shows its frame.

**Calls** (`Access`). A check and its effect are apart, so `Checked` says of a call at
each place what its last check has found and that it is still so, or that a change
is entered as too late for it. Every change of a table is shown to be entered for the
calls it concerns (`TokensKept`, `MembersKept`), and one lemma (`OtherKept`) carries
all calls but the moving one through any such change. `Refusable` does the same
for a tool call on its way to the edge, and needs that the table of routes names
there the tool the gateway judged (`ToolOfRoute`, proved over the whole table).
`Audited` ties the entry to where the call is. `Joined` and `Rows` say that a
signed-in user has the row of the session's name and a link leads to the row of the
name it was made for; names are unique, so two sessions under one name meet in one
row. The proof showed that this is all there is: sessions of one Clerk user that
come under two names may settle on two users, since the last to link decides
(`auth_provider/clerk.rs:404`), and `SignInsAgree` says "under one name" for that.

**Merges, releases, downloads** (`Publishing`). Every handler reads several times and
acts on what it read, so `Sound` says of each request what its reads so far have
established. `MergeSound` is the chain behind `MergesAreDeserved`: as long as nobody
disturbed it, a merge holds the head, the policy and the statuses that still are
there, or an empty list where a read failed. An empty list only makes a policy
stricter, which is why failing reads do no harm: no statuses do not pass
(`EvaluateMergePolicy` asks for one), no reviews do not approve; and counting first
reviews counts nobody but those who approve and those who withdrew
(`CountedApproveOrWithdrew`).
`CreateSound` is the loop invariant of `artifact_manifest`: the files read and the
files left make up the tree of the one commit that was listed. `CreatedApart`, two
insertions of one version cannot both have happened, needs `Tidy`: rows are one
commit's tree each and one per version. Rows are only added, so what a client was
told stays true; `DownloadSound` follows a session from listing (`Listing`) through
the version it goes on with (`Leads`) to the file and the range (`Found`). What
`ParseByteRange` selects is compared with the definition of the header for every
size and offset. `OthersKept` carries the requests that do not move, `Stepped` puts
the invariant together after a step of one. The proof found what the run's versions
had hidden: a version label may be a commit id, and then a session may be served
from the release so labelled. `Labelled` names that, the run now has such a version,
and the disagreement is listed above.

**Secrets and sandboxes** (`SandboxExecution`). A promise about finished requests
is not inductive while requests delete and insert statement by statement, so the
invariant speaks key by key of what each request has done so far: `Written` and
`Erased` are the keys it is past, `Gone` those it may have left without a row.
`Vanish` says that a written key has its row unless some request left it without;
`Exclude` that two creations that found no row overlapped or a third request
disturbed them; `Together` that as long as no two connects or disconnects
overlapped, the one under way has its own rows right, and names that every request
names together are stored together (`Alike`) unless it is at work on them. A statement of one request is one lemma, which shows four facts about
the rows (`WritesHonestly`, `PassesCheck`, `KeepsOwn`, `OwnKeysOnly`); one further
lemma carries the invariant over all requests from these. `Resolves` is the loop
invariant of the resolution: the credentials found so far and the names still to be
looked up make up the provider's names, and `could` holds what each row has now, so
that a row that changes under the lookup is accounted for. `Box` follows files and
exit codes through the sandbox's life. Two things came out of the attempt: with
three requests, two creations of one name that never overlapped can both succeed
without any erasure, when a rotation that ran beside the first deletes its row
between them (`Disturbs` names that, and the run's two requests could not show
it); and a provider's names are not one connect's, since providers share names and a
request may leave optional ones out, which is why `CredentialsAreWhole` is about
names that are always named together.

**Operation log** (`VcsEngine`). Calls publish on operations that ceased to be heads
long ago, so the invariant `LogInv` adds that operations and calls name only
operations of the log, and `PublishKeepsLog` is the one lemma about
`Transaction::commit`.

**One call at a time** (`VcsEngine`). `MainTheorem` and `EditsTheorem` are proved under
`~Overlap`, which is what `vcs_serial` checks: with overlapping calls
`LandedStaysOnMain` is false (the first row of the engine in the disagreements
above). They hold for any number of calls of every kind, pushes, crashes, failed mirrors
and cancelled clients. `SerialInv` has four parts. `StoreInv`: the graph is
`WellFormed`, and in a graph without merge commits a tree is its history
(`TreesFollow`), which is where edits come from. `LineInv`: the log is one line, every
operation's main is one commit and is the git ref it records (`SettledOp`).
`CallsInv`: `Sound` says of a call at each place what its operation has to do with
the last one and with git, and that main as it is about to be mirrored holds what
landed. And git holds what landed. Rewriting is a fold over the graph: `MoveAllKeeps` and
`RebaseDescendantsKeeps` say that it extends the graph by well-formed commits, each
with the change of what it stands for, and `RebaseKeeps` that a rebased commit has
the history of its new parent and itself. The attempt refuted what
`LandedEditsStay` said before (a change submitted again on top of itself has no
difference to its parent any more, so its edits go); `Plain` names that.

**What overlapping calls keep in sight** (`VcsEngine`). `VisibleTheorem` holds for any
number of calls of every kind and any interleaving, pushes, crashes and failures; only a
restore ends what it says, as the property does. What is acknowledged is not inductive:
the merge of two operations could hide the commit again. `LogShows` is what is needed:
every operation shows, of each commit that an operation before it showed, that commit
or a newer one of its change (`Keeps`, transitive along the log). The heart is
`MergeShows`. Of all commits of a change that either side of a merge shows, take the
newest. If one side had lost it since the common ancestor, that side would show a newer
one still, by `Keeps`; so neither lost it, and `MergeKeepsSight` says that what neither
side lost is visible in the merged view, as it was or moved. That in turn is about the
rewriting (`KeptInSight`): with each commit that moves, all that is visible above it moves
(`Rewriting`), moved commits stay built on their moved parents (`HasMoved`, by induction
along the fold), and between a commit that stays and one that moves a parent is left
behind as a head (`LeftBehind`). The heads of the log are merged in a loop; `MergeShown`
is its invariant. Two things came out of the attempt. The newest commit matters: that
a commit of the change stays is not inductive, an older one may be hidden by one side and
a newer one by the other. And `Moving` had let a commit move that the other side had
rewritten in its own way, which jj does not do; the definition was corrected.

**The merge queue** (`VcsEngine`). `TurnsTheorem` holds for any number of overlapping
submissions, reads, checkpoints and pushes. Its first half, that submissions run
alone, is `AloneInv`: as long as nothing failed, whoever is inside `IntegrateCommit`
holds the turn. The second half is hard because the turn does not cover the rest:
a read or a checkpoint may have loaded an old operation, publish on it long after a
submission has landed, and leave a head that the next call merges. `Core`, which holds while
`QueueKeepsLandings` promises something (`Calm`), says why this loses nothing.

- What the log looks like (`CalmLog`). No commit has two parents, and an operation is
  the first one, a merge of all heads (above everything before it: `Total`), an import
  on one of these, or a call's own operation on one of these two (`Shape`). What an
  earlier operation showed and a later one does not was rewritten by a submission,
  and was not on the line of the main which that submission had loaded (`Seen`,
  `Cut`).
- What later merges may not do (`PinInv`). The main that a submission builds on, or has
  built on, is pinned: the operations not below it show mains on its line, or are
  merges beside it that still show a main its import has left. `MergedInLine` and
  `LeftForGood` say that a merge does not move main off that line, by
  `merge_ref_targets`: of two mains on one line the descendant wins, and a main that
  only one side has left is left. So what a merge hides is off the line of main, and
  main is never among what is rewritten (`MainStays`).
- Where a submission stands (`Holder`). What it loaded (`LoadOK`), what it works on
  (`WorkOK`) and what it is about to mirror (`MirrorOK`) hold what landed and are
  above every pinned main, as is plain git's main (`Above`, `Holds`). Without pushes no
  operation is ahead of plain git, except by what is being mirrored (`LineOnly`), and
  that is why a checkpoint may overlap a submission but not a push.

TLC finds `AloneInv` and `Calm => Core` true on the overlap run's instance without
commits and restores (261,122 states). The proof asked for one assumption, `CallersAssumption`
(`None`, nobody's turn, is not a caller).

Model-checked only: liveness (`EveryRunFinishes`, `EveryImportEnds`). Temporal
reasoning under fairness and `ENABLED` are outside the prover. Every safety property
and every action property that a run checks is proved.

## 5. Plan

Done: both lease protocols against one abstract specification, the admission
protocols, the engine with the merge queue, storage, provisioning, access,
publishing, secrets and sandboxes; proofs of every safety property of all of them,
and of both refinements.

Left: nothing that a run checks except liveness, which stays with TLC. Among what
could be added to the models, file conflicts and pushes that are not fast-forward
would change most of what is proved about the engine.

## 6. Not modelled

The semantic diff engine (a function of tree-sitter parse trees, which no small
finite set stands for); the listings of the HF-compatible API and of activity,
runs, notifications and releases (single queries, formatted); what issues, labels
and milestones contain (calls of Forgejo; who may make them is in `Access`); the
text of LFS pointers, cards, manifests and workflow scripts; cryptography of
secrets, tokens and signatures; request ids and error formatting; telemetry; the
CLI, the demo, the web and SDK packages and the JavaScript bridges. In the engine:
file conflicts, clients that name several parents, and the submission of a commit
that main has already built on, which jj-lib decides.
