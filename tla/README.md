# A TLA+ model of the agentic platform

This directory is a verification development kept beside the platform's code.
It models the parts of the platform where several processes, a database, a
broker and a clock interact, model-checks them with TLC on small instances, and
proves every safety property with TLAPS for any number of runs, workers,
requests, documents, calls and attempts.

`PROJECT.json` is the machine-readable index: every run with its properties,
the source lines behind every definition, hazards and theorems.

## 1. The system

The platform admits *runs* (durable units of work) over an API, delivers them
to workers through an outbox, a relay and Celery on Redis, and executes them
under leases in Postgres. Around that core it meters model spend, gates tool
calls behind capabilities and approvals, versions the builds of a document
collection and answers questions from them, drafts and publishes taxonomies,
evaluates itself against golden sets, releases revisions by canary and keeps a
hash-chained audit log.

| Component | State it keeps | Operations | Shared with |
|---|---|---|---|
| Run leases (`correctness/leases.py`) | row of `run`: status, attempt, leased_by, lease_expires_at, available_at, cancel_requested_at | acquire, acquire_specific, heartbeat, complete, fail, acknowledge_cancellation, reap_expired | workers, sweep, API |
| Worker runtime (`apps/worker/runner.py`) | the `LeasedRun` in memory, a heartbeat thread | `_execute_leased_body` and its except branches | leases, handlers, checkpoints |
| Cancellation (`api/routes/runs.py`, `correctness/cancellation.py`) | cancel_requested_at | cancel_run, cancellation_point | workers, tools |
| Outbox and relay (`correctness/outbox.py`, `apps/relay`) | table `outbox`, last_enqueued_at | enqueue_run, drain | broker |
| Celery task and sweep (`apps/worker/tasks.py`) | messages, last_enqueued_at | execute_run, sweep | leases, relay, retention |
| Side-effect claims (`correctness/side_effects.py`) | table `side_effect` | perform_once | leases (the reaper releases claims) |
| Budget ledger and model chain (`observability/ledger.py`, `llm.py`) | `llm_usage`, `budget_reservation`, a cached window per process | reserve, release, settle, record, status, set_caps | providers, response cache |
| Tool runtime and approvals (`agent/tools.py`, `api/routes/approvals.py`) | `tool_execution`, `tool_approval`, executor threads | invoke, decide | runs, capabilities |
| Capabilities (`identity/capabilities.py`) | `capability_grant` | allows, grant, revoke | tool runtime, reviews |
| Collection builds (`corpus/builds.py`, `workloads/reindex`) | `collection_build`, `chunk` | begin, copy, ingest, promote, fail, reap | documents |
| Documents (`api/routes/documents.py`) | `document`, objects, queued rebuilds | create, delete, purge | builds, object store |
| Answering (`workloads/chat`, `workloads/graphrag`, `scaling/cache.py`) | the process's graph cache, responses in Redis | answer, build_graph, retrieve, invalidate | builds, taxonomies, gaps |
| Onboarding (`workloads/onboarding`, `api/routes/onboarding.py`) | `onboarding_session`, `onboarding_artifact` | start, draft, edit, approve, publish, cancel, curate, seed | runs, golden sets, graph |
| Golden sets (`gates/datasets.py`, `labels.py`, `annotator.py`, `corpus/gaps.py`) | `eval_dataset`, `eval_item_label`, `unanswered_question` | put, draft answers, review, mine gaps, purge | onboarding, evaluation |
| Evaluation gate (`gates/runner.py`, `promotion.py`, `governance/continuous_eval.py`) | `eval_run`, `eval_baseline`, `continuous_eval_policy` | start, run, promote, schedule, update policy | golden sets, runs |
| Canary (`release/canary.py`) | table `release` | register, start_canary, supervise, rollback, promote | router |
| Audit chain (`observability/audit.py`, migration 0023) | `audit_event`, `audit_chain_anchor` | append, verify, retention | every request |

Hard behaviours: a worker that stalls past its lease and wakes up; crashes
between any two transactions; duplicate, lost and late pointers; marks made
from a stale read; effects whose outcome is unknown; calls that outlive their
reservation; threads that a timeout abandons but cannot stop; rebuilds, purges,
uploads and readers of one collection at once; endpoints that write what they
decided from a row read earlier; versions, labels and marks written one after
the other; caches beside a corpus that changes; overlapping promotions,
supervisors and retention passes. `PROJECT.json` lists each as a hazard at its line.

What makes each correct is stated by the properties of section 3; section 6
says what is not modelled and why.

## 2. Modules

| Module | Models | Rests on |
|---|---|---|
| `RunLifecycle` | abstract: what the platform promises about a run | |
| `RunStore` | the `run` row and every statement that writes it, as guard and new row | |
| `RunWorkers` | workers, heartbeat threads, reaper, cancel endpoint, clock | `RunStore`; implements `RunLifecycle` |
| `RunDelivery` | outbox, relay replicas, broker, Celery tasks, overlapping sweeps | `RunStore`; implements `RunLifecycle` |
| `EffectClaims` | `perform_once` under leases that may be lost | `RunStore` |
| `BudgetLedger` | one tenant's reservations and usage | |
| `ToolRuntime` | grants, receipts, approvals, reviewers, executor threads | |
| `CollectionBuilds` | versions and chunks of one collection | |
| `Serving` | a question, the graph cache, the response cache, published taxonomies | composes `CollectionBuilds` |
| `Documents` | rows, objects and rebuilds of one collection | |
| `Onboarding` | sessions of a domain, their artifacts and runs, the requests on them | |
| `GoldenSet` | versions, labels and gaps of one golden set, its editors | |
| `EvalGate` | runs, baseline and policy of one golden set | |
| `Canary` | revisions and traffic | |
| `AuditChain` | one tenant's chain, its anchor, retention, verification | |
| `RunStoreProofs` | lemmas: what each statement does to one row | `RunStore`, TLAPS |
| `RunWorkersProofs`, `RunDeliveryProofs`, `EffectClaimsProofs` | theorems about the module of that name | that module, `RunStoreProofs`, TLAPS |
| `OnboardingProofs` | theorems about `Onboarding` | `Onboarding`, TLAPS |
| `AgentProofs` | lemmas about sums; theorems about `ToolRuntime` and `BudgetLedger` | both, TLAPS |
| `CorpusProofs` | theorems about `Serving` with `CollectionBuilds`, and about `Documents` | both, TLAPS |
| `GovernanceProofs` | theorems about `EvalGate`, `GoldenSet`, `Canary` and `AuditChain` | those modules, TLAPS |
| `MC...` | values and symmetry for TLC | the module of that name |

The modules that share a proof module have no name in common (`DocumentsInit`,
`LedgerInit`, `CanaryInit`, ... beside `Init`).

One SQL statement, or one transaction under a lock that covers all it reads, is
one step; everything between two transactions is a point where others run. An
operator with a suffix such as `...Unfenced` or `...IgnoringCancel` is a
variant with a plausible bug, used by no specification: substituted for its
original it shows that a property notices.

### Time

No module has a numeric clock. A row keeps the result of each comparison the
code makes (`lease_live`, `due`, `enqueued` relative to available_at and to
LOST_POINTER_AFTER, `live` of a claim, reservation or approval), and an action
of the environment (`Expire`, `Due`, `Age`, `Lapse`, `ApprovalLapses`, `Ages`)
lets it change. Any order of deadlines is therefore explored, more than a real
clock produces; the one assumption that excludes some is a constant (below).

### RunLifecycle

The abstract specification says of each run which moves it may make, and lets one
step move several runs, or none: `reap_expired` takes back every lease that has
run out in one statement, and the commit of a drain marks a whole batch.

### RunStore and RunWorkers

`worker[w]` holds the phase of `_execute_leased_body` and the `LeasedRun`
(run, attempt) the worker was given; it is not refreshed when the row changes,
which is the point. `gen[w]` is the process incarnation: `worker_id()` puts a
fresh uuid in every id, so a restarted process never passes an old fence.
`beat[w]` is the heartbeat thread; a thread that dies of an exception does not
set `lost` (`"dead"`). Trouble is a set of separate actions: an exception
before the heartbeat starts, in a cancellation point, in a checkpoint append
(the lease write in `finally` still happens), in the lease write itself, a
crash. An exception of the last checkpoint append, after `complete`, leaves the
row as `Complete` does. A heartbeat still in flight after the `with` block can
only extend a lease the same worker id still holds.

### RunDelivery

A drain is one transaction: it locks the rows it selects (`SKIP LOCKED`), sends
pointers at once and makes its marks visible at the commit; what else would write
such a row waits, and comes before or after it. A mark is `now()`, the drain's
begin: the model puts it before the due time of a run that was attempted already.
A drain that began after the retry came due marks it later, with the same
outcome, since its pointer is then out as well. The task that executes a run is
one step with any of the outcomes of `RunWorkers`, an exception that leaves the
row leased included. The sweep publishes and marks in separate transactions.
Left out: batch sizes (LIMIT), tenant-fair order, publish_attempts and the
backlog reports.

### EffectClaims

The handler executes a plan of steps, as `workloads/echo` does, one repeatable
and one that needs reconciliation. `landed` is the far end. `perform_once`
looks at the claim and never at the lease, so a superseded attempt acts beside
its successor. claimed_by, attempt and result of a claim are only reported.
Two history variables carry the exceptions of the properties: `unclear` (steps
whose effect was applied although it raised) and `outlived` (runs reaped from a
process that was still alive).

### BudgetLedger

One tenant; tokens stand for both ceilings. `charged` of a call is what its
provider has charged and no row shows yet. An answer may be dropped after the
charge (`AnswerIsDropped`: an exception in `llm.py:267-282`, which is raised again
without a record, or a crash) and a settle may fail; both leave the charge in no
row, and the reservation in place until its TTL. A dispatch that fails without a
charge leaves its reservation in the same way. An embedding is a call that does
not ask the cache and, when the provider reports no usage, is recorded with its
estimate, where a chat is recorded with nothing. `ReserveRefused` rolls back the
expiry UPDATE of its transaction.

History variables: `spent`, what was charged today; `over`, tokens recorded beyond
what was held for the call that used them; `unreported`, what rows without a usage
block leave out. `ledger.check` is called by no code of the platform and left out,
and so is the cached window of `status()`, which only reports read.

### ToolRuntime

The receipt per idempotency key is written together with the consumption of the
approval. The handler's thread is separate from the request: a timeout closes
the receipt while the thread may still act. Receipts are replayed on tool and
arguments; the run is not compared. The first cancellation point and the look-up
of the receipt are one step: the look-up does not depend on a cancellation
between the two. `granted` is the table of grants: `Invoke` and `Review` check
the capability when they begin and not again, `Grant` and `Revoke` (or an
expiry) come at any time. Audit rows and checkpoints are left out.

### CollectionBuilds and Documents

A chunk is its text: `chunking.canonical_id` is a hash of it, so that documents
may share chunks (`Says` gives the texts of each), and a build has each text once,
as a row of the document that brought it first (`ON CONFLICT DO NOTHING`, in the
copy and in the ingest). Several rebuilds run at once, one per upload and attempts
that outlived their lease. Version numbers are `max + 1` of the rows that exist,
so they are reused after a reap, as in the code. Losing the race in `begin` raises
outside the `try`, so that job ends without cleanup. `crossed` is a history
variable: another rebuild has reaped this one's version, writes to it too, or
has left chunks under its number.

`CollectionBuilds` has the steps of a rebuild and takes documents as they come,
their bytes at hand. `Documents` has the steps of an upload and a purge; of a rebuild it has
that it begins (and so sees the rows as they are) or is cancelled before, and
what it makes of them is the other module's matter. An upload enters `Documents` when its
bytes are stored; queued rebuilds are counted, since all of them do the same.
`unseen` is a history variable: the rows changed since a rebuild last began, but
for uploads of bytes that the collection has had.

### Serving

`Serving` extends `CollectionBuilds`: each of its steps is one of the corpus, of
a publish, or of the one request that is followed. A request reads the live
version and its rows in two statements. In graph mode (`graphrag.answer`) it
then takes the cached graph for the fingerprint of its documents, or reads the
published artifacts and builds and stores one; the signals of hybrid retrieval
read the live version again, and `contribute` drops what was not loaded. In
dense mode (`chat.answer`) the rows go straight into the prompt. Retrieval
returns any subset of what it may see: ranking is left out. An answer is kept in
the response cache under `llm._cache_key`. `known` is the taxonomy at this
process's last invalidate; a publish by another process, or one that dies before
it invalidates, is a publish that no invalidate follows. History: `late`, for the
one exception of `GraphFollowsPublish`, and `due` of a request, the rows it can
still expect (`StillDue`).

`MCServing` has two instances in one run, since their product is out of reach: two
rebuilds at once over three versions, under a request followed through its two
reads; and one rebuild over two versions under whole requests, both modes, both
caches and a publish.

### Onboarding

An endpoint is a step that reads (and checks) and a step that writes, since both
are in one READ COMMITTED transaction without a row lock; the CHECK constraints
and unique indexes are evaluated by the write. Each statement of a publish sees
the rows of its own moment. `StartRead` and `StartWrite` contain `enqueue_run`
with its look-up of the idempotency key, its `ON CONFLICT` and the run the loser
gets.

A session has an artifact of each kind, the schema and the instance table, known
by who wrote it and from which attempt or edit; beside a person's version the
drafter's is retained. An edit writes the schema, and the instance table only if
it retypes; `schema_edited_by` and `schema_edited_at` name the last edit, whatever
it wrote. The drafting worker puts each artifact in a transaction of its own, and
its `set_status` has no condition; a worker may outlive its lease. A retype starts
from the table that is there: the model names its last writer, and types an
earlier person gave may still be in it. Left out: the predicate map and the
extraction cache, which no edit touches, and that retention frees the
idempotency key of a run that ended long ago.

### GoldenSet and EvalGate

A version of a golden set is its content: who wrote each expected answer, if
anybody. Saving a content that exists changes nothing. An editor (annotator,
reviewer, miner, curator) loads the latest version and saves in a later
transaction, then writes labels or marks in another; seeding from a session reads
the candidates and saves in two transactions. A review may save an empty answer,
which is an edit like others. The latest version is by `created_at`, the begin of
the transaction that saved it, so that a save may land behind one that committed
before it (`Place`), and retention deletes old versions (`PurgeVersion`). `held` (questions that
were ever in a version) and `edited` (items whose review was saved, or saved and
then cut off) are history variables. A label's `confirmed` flag and its origin
are left out, they decide nothing here.

`EvalGate` keeps only the number of the latest version. `promote_run` takes any
run for any golden set, so a run may also be of another set's version, which is
version 0. Which items are usable and what a run scores are nondeterministic
within what `runner.run` and the judge allow: a metric without a denominator is
missing. `promote_run` loads the run whatever its status, reads the baseline
later, compares what it loaded, and upserts later still. Due times are ticks that are left.

### Canary

Starts, rollbacks and promotions overlap, each in a session of its own: one
statement reads the active revision, later ones write both rows by name, without
a lock and without looking at a status. `start_canary` takes any revision,
registered or not. A tick of `supervise` decides from what the observations of the
canary and of the baseline it was given show at that moment, which is
nondeterministic, and goes on to a rollback or a promotion. Its callers name a
canary and the active revision.

### AuditChain

An event's id stands for its digest (digests are taken to be collision-free).
`at` is the transaction's begin, ids are taken later, under the lock: the two
orders may differ. Retention takes no advisory lock, and passes overlap: each
takes its boundary, then deletes up to it and moves the anchor. `late` is a
history variable: the anchor was last set by a pass whose boundary was deleted
already. The anchor's count of deleted events is only reported and left out. The
trigger that forbids changing events is assumed: tampering is not an action. Of
`platform_enforce_retention` this module has the audit part, `GoldenSet` that of
gaps and versions.

## 3. Runs

| Run | Instance | Shows |
|---|---|---|
| `RunWorkers` | 1 run, 2 workers, 3 attempts | no attempt is worked on twice; a success carries the latest attempt's result; a live lease is ended by its holder only; refinement of `RunLifecycle` (cancellation, attempt limit and terminal statuses included); every run ends; an accepted cancellation ends in `cancelled` |
| `RunDelivery` | 1 run, 2 attempts, 2 relays, 2 workers, 2 sweeps, 1 loss or late mark | a task keeps its run while its lease lives, whatever duplicate or late pointers, sweeps and drains come; refinement of `RunLifecycle`; a run that never started is started although pointers are lost and the relay is owed nothing; when nothing is lost and the relay works, every attempt is picked up |
| `EffectClaims` | 1 run, 2 workers, 3 attempts, a plan of two steps | reconciled effects land at most once and never beside another attempt; a success has all effects; no retry is turned away by a dead attempt's claim |
| `BudgetLedger` | 3 calls (one interactive, one an embedding), ceilings 0, 5 and 7, a midnight | commitments stay under the ceiling but for what was recorded beyond a reservation; so do the charges themselves, whatever answers are dropped or settled late, but for three named amounts |
| `ToolRuntime` | 2 requests, 2 keys, 3 people, 1 approval, a gated and an ungated tool, 1 grant | one effect per key; each gated execution has an approval of its own, by a reviewer other than its requester; a reported success is real |
| `Serving` | 2 documents that share a text, 2 texts; 2 rebuilds, 3 versions under a reader, or 1 rebuild, 2 versions under questions with caches and a publish | what is promoted is complete; the collection stays served; a reader finds the build it was told of; an answer is made of one build; a published taxonomy reaches the graph |
| `Documents` | 2 names, 2 contents, 3 rows, 1 upload at a time, 2 purges | current documents have their bytes; no change goes without a rebuild; a purge leaves no bytes behind |
| `Onboarding` | 2 sessions, 2 people, 2 workers, 2 requests, 2 keys; 2 edits and 1 retry of the first session | maker is never checker, of the schema and, but for one case, of the instance table; one run per idempotency key; one live taxonomy |
| `GoldenSet` | 1 question, 1 gap, 2 editors, 3 versions kept, 3 requests | labels tell which reviews were saved; a gap leaves the backlog only as an item |
| `EvalGate` | 2 runs, 2 promotions, a version of this set and one of another, a cited and an uncited item, 2 intervals | an unforced baseline is a completed, scored run; it is no worse than the one it replaced; evaluations fall due for ever |
| `Canary` | 3 revisions, slices of 10, 2 overlapping operations, 2 starts | traffic adds up but for operations out of turn; a breach ends in a rollback |
| `AuditChain` | 2 writers, 2 overlapping passes, 1 verifier, 5 events, batch 2 | the chain neither forks nor, until a pass is overtaken, fails to verify; no false alarm while the anchor stands |

### Limits the properties state

Where the code keeps a promise only up to a case, the property names the case
instead of assuming it away, so that TLC checks that there is no other one:

- `ReconciledOnce`: the `failed` branch of `perform_once` claims a step again
  whatever its policy (`side_effects.py:226`), so an effect that raised after
  it landed is repeated also under NEEDS_RECONCILIATION.
- `NoDeadClaimInTheWay`: a retry that meets the claim of an attempt that was
  alive when it was reaped gets `EffectAlreadyRunning`, which `runner.py:308`
  turns into a terminal failure. The records of `perform_once`
  (`side_effects.py:263`) are not fenced either: a superseded attempt can turn
  its successor's `completed` into `failed`.
- `WithinCeiling`: a request without max_tokens reserves a default but is
  dispatched without a limit (`llm.py:222`); a call that outlives its
  reservation is settled from `expired` after its headroom went to others
  (`ledger.py:326`); an interactive call during an outage is unmetered
  (`ledger.py:255`).
- `ChargesWithinCeiling`: what was recorded beyond a reservation (above), what the
  row of a chat without a usage block leaves out, and the blind spot: a charge
  whose answer was dropped or whose settle failed (`llm.py:267-282`) is in no row,
  and after the TTL no reservation stands for it either.
- `PromotedIsComplete`: documents that share a text share its row, and the row
  belongs to the first (`workload.py:175`, `:226`). If that one is withdrawn,
  the copy drops the row, and the other document is read again only if it has no
  row left at all (`workload.py:90-94`): with one row left it stays without the
  shared text. The property therefore promises each document a row, or all its
  texts. A rebuild that was crossed by another may promote less.
- `StaysServed`: nothing serialises rebuilds of a collection. One reaps another's
  `building` row, and the promotion of that one retires the live build and finds no
  row to make live (`builds.py:167`), where `builds.py:3-4` says that exactly one
  build is live at a time.
- `ReadersKeepTheirBuild`: the `except` of the reindex workload also covers what
  follows the promotion (`reindex/workload.py:300`); `builds.fail` then deletes
  the chunks of the version just promoted, under its readers. A reader loses its
  build as well when it is overtaken by two promotions, or by one of an older
  build, for which `reap` keeps the wrong predecessor.
- `GraphFollowsPublish`: a graph build that read its artifacts before the publish
  stores them after it (`graphrag/service.py:192`). `invalidate` reaches the
  process that handles the request and no other, and the rebuild's own call runs
  in the worker, whose cache answers nothing.
- `AttemptsArePickedUp`: the sweep re-publishes a retry once (`tasks.py:136`); a
  pointer lost after that is never replaced, since the age test applies to
  attempt 0 only. Its docstring (`tasks.py:107-109`) promises that any pending
  run is picked up "whatever Redis did or failed to do". The sweep's mark is a
  transaction of its own without a condition (`tasks.py:154`): arriving after the
  run was leased, failed and came due again, it hides the new attempt in the same
  way. Both count as losses.
- `ExecutionsAreApproved`: nothing looks at the requester's grant again, so that an
  approval asked for by somebody whose grant was revoked since stays usable.
- `MakerIsNotChecker`: the row names the last editor only (`store.py:437-443`). Who
  retyped the instance table (`store.py:399-435`) may approve it once somebody
  else has edited the schema.
- `OneLiveTaxonomy`: `set_status` is unconditional (`store.py:139`), so a late
  draft takes a published session down, and revives a cancelled one: cancelling
  a session does not cancel its run.
- `KeyAdmitsOnce`: a session started with a key that was used before names the old
  run and stays `drafting`, which blocks further drafts of the domain; so does a
  run that is cancelled or dies before the workload's `try`.
- `ReviewsAreRemembered`: a review that dies between its save and its label leaves
  an edit without one, and an empty answer is an edit: it is saved blank and
  labelled `sme_edited` (`eval.py:323`, `:342`).
- `SeededGapsAreItems`: a crash between save and mark leaves the gap open although
  it is an item; mining it again returns early and marks nothing, and retention
  may purge it (`eval.py:434`).
- `NoSilentRegression`: the upsert does not look at the baseline again
  (`promotion.py:212`), so the slower of two overlapping promotions was compared
  with something else. Falling by less than the tolerance each time adds up. A
  forced promotion may be of a run that has not finished.
- `CurrentHasBytes`, `ChangesAreRebuilt`: objects and rebuild keys are named by
  content (`documents.py:360`, `:251`), so purging one document takes the bytes
  of another with the same content, and bytes uploaded again queue no rebuild. A
  rebuild that is cancelled, or begins and fails for good, is not replaced.
- `TrafficIsWhole`: an operation is out of turn when the revision it read as active,
  or its candidate, was moved by another, or another canary is live. Its writes
  (`canary.py:210-255`) then leave weights that do not add up, no active revision
  or two, where the comment of migration 0011 (`:70`) says that the two live
  revisions must sum to 100.
- `BreachEndsInRollback`: a verdict to promote that was reached before the breach
  showed is still carried out.
- `ChainVerifies`: the anchor upsert does not compare
  (`0023_governance_controls.py:408`), so that of two overlapping passes the slower
  one moves the anchor back over deleted rows, and what is left does not verify
  until the next pass deletes something; `0023:105-106` says that retention does
  not turn tamper evidence off. Two beat and two maintenance replicas are deployed.
- `NoFalseAlarm`: `verify_chain` reads the anchor and the rows in two
  statements (`audit.py:341`); a retention pass between them looks like
  tampering, and so does an anchor that an overtaken pass has set.

Two promises of the code are not stated as properties, since what is left of them
is a single guard. `store.py:338-341` says that what was approved is what is
published: an edit that read `draft_ready` before the approval writes after it
(`onboarding/store.py:391`), and so does a drafting attempt that outlived its
lease. `annotator.py:223-225` says that a stale report cannot overwrite work done
in between: an answer saved after an editor loaded the set is overwritten by that
editor's save (`eval.py:276`); curation writes a whole payload back in the same
way, and `seed_eval_set` replaces the whole set. Both interleavings are in the
models.

The instance of `Serving` has one request at a time: `engine.set_context` binds the
caller in a global of the process (`engine.py:78`), and concurrent graph builds of
a tenant share the directory `tenant_root` names.

### Bounds

`MaxAttempts` 3: a first attempt, a retry, and an attempt after a superseded
one; 2 in `RunDelivery` and `Onboarding`, where one retry tells the cases apart.
Two workers: the stalled holder and its successor. `MaxPointers` 2 (a
duplicate), `MaxLosses` 1. Three calls under a ceiling that
fits two, or one, or none: `set_caps` accepts 0. Two keys
and two requests for one approval, three people so that two can review.
`MaxVersion` 3 of builds: live, predecessor and new, the numbers of reaped ones
being used again. Two rebuilds: the one that reaps and the one that is reaped. Two
documents in `Serving`, so that builds can differ and an answer can mix them, with
one text in common and one that only the second has.
Three rows in `Documents`: one, its replacement or another, and the first bytes
again. Two sessions: the incumbent and the next taxonomy. Two people are enough
for maker and checker, and two edits for one to hide the other, before, between
or after an approval's read and write. Three versions of a golden set and three
requests after a put: answered, reviewed, overwritten, with retention in between. Two
runs and two promotions: each may be the other's baseline. Three revisions and
two starts: two canaries may meet. `MaxEvents` 5 with a retention batch of 2: two
passes and a remainder. `MaxNights` 1. Deadlock is not checked: in every instance
all requests may be finished, or a bound be reached. Symmetry is used only in
runs without liveness properties.

The largest state spaces are those of
`Onboarding` (2.6 million distinct states), `Serving` (2.5), `Documents` (2.0) and `BudgetLedger` (1.3).

Every module has a `TypeOK`, which says what its variables hold. It is proved
where section 4 has theorems and is otherwise documentation, no property of a run.

### Fairness

*Workers*: an idle worker polls; a handler ends, because Celery's
`task_time_limit` kills it otherwise; the code after it runs. *Sweep*: beat
schedules it every 30 seconds, so reap, select, publish and mark happen again
and again, though any single one may fail (strong fairness for what others may
disable). *Broker*: a queued pointer is delivered; a task that keeps being
delivered does not die every time. *Time* passes. *Relay*: owed nothing in
`AdmittedRunsStart`; `AttemptsArePickedUp` adds that its loop goes on
(`RelayFairness`). *Canary*: every canary's pipeline runs supervise on its schedule,
an operation that does not fail goes on to its end, and failures do not recur for
ever. *Continuous evaluation*: beat calls `schedule_due` for ever. Heartbeats, cancel requests and the API are owed nothing.

## 4. Proofs

Every theorem holds for any sets of runs, workers, requests and so on, and any
value of the bounds, from the assumptions the modules state about their
constants: that the null values (`NoRun`, `NoRow`, ...) are not ordinary ones,
that bounds are natural numbers, that `MaxAttempts > 0`. `EffectClaims` takes
its plan to be a sequence of steps and `EvalGate` its cited items to be a finite
set. `BudgetLedger` does not assume that its calls are finitely many: that those
begun are is part of its invariant.

Each proof has an inductive invariant, the theorem that it holds, type correctness
and the theorems below. TLC checked each invariant on the instance of the run
before it was proved.

| Module | Invariant | Holds | Types |
|---|---|---|---|
| `RunWorkersProofs` | `IInv` | `Invariance` | `TypeCorrect` |
| `RunDeliveryProofs`, `EffectClaimsProofs`, `OnboardingProofs` | `IInv` | `InvariantHolds` | `TypeCorrect` |
| `AgentProofs`: tools | `ToolInv` | `ToolsHold` | `ToolTypeCorrect` |
| `AgentProofs`: ledger | `LedgerInv` | `LedgerHolds` | `LedgerTypeCorrect` |
| `CorpusProofs`: answering | `BuildsInv`, `ServingInv`, `ReaderInv` | `ServingHolds` | `ServingTypeCorrect` |
| `CorpusProofs`: documents | `RoutesInv` | `RoutesHold` | `RoutesTypeCorrect` |
| `GovernanceProofs`: evaluation | `GateInv` | `GateHolds` | `GateTypeCorrect` |
| `GovernanceProofs`: golden set | `GoldenSetInv` | `GoldenSetHolds` | in the invariant |
| `GovernanceProofs`: canary | `CanaryInv` | with the types | `CanaryTypeCorrect` |
| `GovernanceProofs`: audit chain | `ChainInv` | `ChainHolds` | `ChainTypeCorrect` |

| Module | Theorem | States |
|---|---|---|
| `RunWorkersProofs` | `AttemptsAreExclusive` | `OneCurrentAttempt` |
| | `FenceIsSound` | `ResultOfLastAttempt` |
| | `LiveLeasesAreSafe` | `LiveLeaseIsTheHolders` (a property of steps) |
| | `Refinement` | `ImplementsLifecycle` |
| | `CancellationHolds`, `PendingCanBeLeased` | an accepted cancellation is never turned into anything else; a pending run has an attempt left |
| `RunDeliveryProofs` | `HoldersAreLeftAlone` | `HoldersKeepTheirRun` (a property of steps) |
| | `Refinement` | `ImplementsLifecycle` |
| `EffectClaimsProofs` | `ReconciledAtMostOnce` | `ReconciledOnce` |
| | `SuccessMeansDone` | `SuccessIsComplete` |
| | `DeadClaimsAreReleased` | `NoDeadClaimInTheWay` |
| `AgentProofs` | `EffectIsOnce` | `OneEffectPerKey` |
| | `GatedIsApproved` | `ExecutionsAreApproved` |
| | `SuccessIsTrue` | `SuccessIsReal` |
| | `CeilingHolds` | `WithinCeiling` |
| | `ChargesStayWithinCeiling` | `ChargesWithinCeiling` |
| `OnboardingProofs` | `MakerNeverChecks` | `MakerIsNotChecker` |
| | `OneRunForAKey` | `KeyAdmitsOnce` |
| | `LiveTaxonomyIsOne` | `OneLiveTaxonomy` |
| `GovernanceProofs` | `BaselineMeasured` | `BaselineIsScored` |
| | `NothingRegresses` | `NoSilentRegression` |
| | `ScoresAreFinal` | a row with a score never changes again |
| | `ReviewsStand` | `ReviewsAreRemembered` |
| | `SeededGapsStand` | `SeededGapsAreItems` |
| | `TrafficAddsUp` | `TrafficIsWhole` (a property of steps) |
| | `ChainStaysSound` | `ChainVerifies` |
| | `AlarmsAreStale` | `NoFalseAlarm` |
| `CorpusProofs` | `AnswersKeepToTheirBuild` | `AnswersAreOfOneBuild` |
| | `PublishReachesTheGraph` | `GraphFollowsPublish` |
| | `PromotedHasAll` | `PromotedIsComplete` |
| | `CollectionStaysServed` | `StaysServed` (a property of steps) |
| | `ReadersFindTheirBuild` | `ReadersKeepTheirBuild` |
| | `CurrentRowsHaveBytes` | `CurrentHasBytes` |
| | `ChangesReachARebuild` | `ChangesAreRebuilt` |
| | `PurgedBytesAreGone` | `ErasedIsGone` |

### The rows of runs

`RunStoreProofs` argues by who writes a row. *Bystanders* (API, reaper, clock,
heartbeat) and *holders* (complete, fail, acknowledge) are each shown once to
turn a good row into a good row (`RowInv`: a cancelled request, an exhausted
attempt and a lease exclude each other as the statements assume;
`BystandersSettle`, `HolderSettles`) and to take a step of `RunLifecycle` or
none (`BystandersRefine`, `HolderRefines`). The three modules over the table
follow by one lemma per group of actions, row by row, which is why a statement
that writes many rows costs nothing extra.

The properties are not inductive alone. That a success carries the latest
attempt's result depends on the fence, and the fence compares worker ids, not
attempts: what is needed is that a worker whose id is on the row holds the
row's current attempt (`FenceIsCurrent`; `LeaseNamesAttempt` in the other two).
That in turn needs that an id on a row belongs to no other incarnation and that
what a worker remembers is an attempt that was really started, never later than
the row's (`Engaged`, `Remembered`).

`perform_once` never looks at the lease, so each promise of `EffectClaims` has an
invariant of its own beside these. While an attempt holds a step that needs
reconciliation its claim says started, and nobody else holds it (`OneHolder`);
what a plan has passed was applied (`PassedIsApplied`); and a run nobody was
robbed of has one living process, whose own every live claim is
(`AliveIsHolder`, `LiveClaimIsOwn`).

### The other components

*Tools.* Of all requests with a key only the one whose INSERT of the receipt went
through executes, and nobody takes its place when it dies (`OneExecutor`). The
handler's thread outlives its request and is followed on its own (`ThreadInv`),
the approval from its insertion to its consumption (`ApprovalInv`, `Signed`).

*Budget.* `WithinCeiling` compares a sum over reservations, so it must be known that
taking one call out of a sum takes out what that call holds, in whatever order
the fold goes. The library's induction rules are out of reach, so this is proved
from the recursive function behind the fold: it exists, it is the same on all
sets that contain a set, and a smallest set on which a claim about it fails
leads to a smaller one (`FoldExists`, `SumUnfolds`, `SumWithout`, `SumOfSame`).
Every step then moves one call. `WithinCeiling` alone does not survive midnight,
where usage and excess are forgotten and reservations are not: what is held must
have been below a ceiling by itself (`HeldIsBelow`). A ceiling of 0, which
`set_caps` accepts, is a case of its own. For the charges it must be known where
each is: in a row, left out of one, or with the call that made it
(`ChargesAreSomewhere`); what a live reservation does not cover of the last is
the blind spot (`HoldsCoverCharges`).

*Onboarding.* An endpoint decides on a row it read earlier, so the decision is
backed by what cannot change in between: the CHECK constraints, what the request
saw and the unique key of a run. For maker and checker each artifact a person wrote
is tied to the number of its edit: no later than the last one the row records, and
if it is that one, by the editor the row names (`SessionInv`).

*Evaluation.* A promotion writes what it decided from rows it read. It may,
because a row with a score is final (`ScoresAreFinal`), so that the verdict of an
unforced promotion is still true of the rows when it is written
(`VerdictsStand`).

*Golden set.* An editor saves a version first and labels or marks later, so what it
is about to say must be on record already (`EditorInv`), and what the labels and
marks say stays so (`SayingsInv`). Retention deletes versions, so neither can be
about those that are there: it is about what was ever saved.

*Canary.* An operation is what its session says it is (`OperationInv`). Each write
of one that is in turn moves the two shares together, or moves the whole of the
traffic (`InTurnKeepsTheSplit`).

*Audit chain.* The predecessor a writer has read is the newest event, or the
anchor if none is left, until it inserts, because it has the lock (`LinkInv`). Events
are deleted from the front (`PrefixInv`), and the anchor is one of those deleted
(`AnchorInv`): the last, unless an overtaken pass has set it (`FirstInv`). Deleting
a prefix leaves a chain from the new anchor: the least event left, which exists by
well-founded induction (`LeastExists`), follows it. A verification compares rows
with an anchor of now or of before, and complains only of one of before
(`VerifierInv`).

*Answering.* What is said of an answer and of the graph cache holds whatever the
corpus does (`ServingInv`): an answer in the cache was made from the sources it is
stored under, a prompt from the documents loaded first, and a graph under way is
of the taxonomy known or late. Of a rebuild that nobody has crossed, its version
is its own, its row is what its phase made it, and what it has written is
accounted for phase by phase, beside documents that change (`RebuildInv`); `max + 1` alone does not
give this, since a reap frees numbers. Of the others nothing is known but that
they are crossed, which is why `crossed` has to be kept. `RowsInv` is about the
table: one build is live at most, and a row is of a document that has its text. The build a
reader was told of is live or the newest of those superseded, the two that `reap`
keeps, as long as anything is due to it (`ReaderInv`). That the set of builds has
a largest one is proved by well-founded induction on numbers (`MinExists`,
`MaxFacts`).

*Documents.* An upload between its two writes counts on bytes a purge may remove
(`UploadHasBytes`: then a document with the same bytes was withdrawn). A purge
between its two counts on the object being gone, which an upload may bring back:
every object is led to by a row that no purge has its removal behind it for
(`LedTo`). And a change counts on its key being fresh: a key is there only
because the change it stands for was made (`KeysAreUsed`).

### Only model-checked

- Liveness (`RunsFinish`, `CancelFinishes`, `AdmittedRunsStart`,
  `AttemptsArePickedUp`, `BreachEndsInRollback`, `EvaluationsRecur`): fairness is out of
  the prover's reach.

Nothing else: every invariant and every property of steps that a run checks is
also a theorem, for the specification as it is, without further hypotheses.

## 5. Plan

Done: the modules above, in the order leases, delivery, effects, budget, tools,
builds, documents, canary, audit, then onboarding, golden sets, the evaluation
gate, answering and capabilities; the theorems of section 4.

Next: the safety half of `AttemptsArePickedUp`, as an invariant of `RunDelivery`
(where a pending attempt's pointer can be while nothing was lost).

## 6. Not modelled

- The checkpoint store: an append-only log; its writer without the lock, `save`,
  has no caller in the platform, and no decision reads a checkpoint back.
- The conversation store of chat (append, trim, expiry): a turn is appended by one
  statement, and what trimming loses is context of the next prompt.
- The rate limiter: one atomic script over a window that nothing else reads.
- Scores: metrics, the judge's prompt, cassettes; the ranking of retrieval; the
  engine that drafts a taxonomy and extracts relations (vendored). Their results
  are nondeterministic within what the calling code accepts.
- Chunking, tokenising and pricing: functions over text and floats.
- Retention of tables other than the audit log, golden-set versions and the gaps; role changes and
  token verification; LIMITs, batch sizes and tenant-fair order of the relay and
  the sweep; the cost ceiling beside the token ceiling and the window `status()`
  caches for reports.
- Telemetry, settings, database plumbing, the migrator, scripts: no state that a
  decision of the platform depends on.
