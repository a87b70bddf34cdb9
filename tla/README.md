# Formal models of daftari

Daftari is an MCP server over a vault of markdown documents.  Agents and people
call its tools over stdio or HTTP; every write ends in a file, a row of a
rebuildable SQLite index, a git commit and lines in append-only logs under
`.daftari/`.  This directory holds TLA+ models of the parts of it that are
concurrent or must survive failures, the TLC runs that check them, and TLAPS
proofs of their main invariants.

Paths below are relative to the repository; `tla/` is this directory.

## 1. Inventory

| Part | Source | State it keeps | Operations | What is hard |
|---|---|---|---|---|
| Write path | `src/tools/write.ts` (`performWrite`) and the tools on it, `src/tools/positions.ts` | the documents | load, compose, lease, check, write, index, commit, log, release, retry | every `await` is a point where another call runs; each step may fail |
| File leases | `src/access/locks.ts` | `.daftari/locks.db`: path, holder, expiry | acquire (fail fast), release by holder, purge of lapsed rows | 60 s TTL against unbounded queueing; holders that die |
| Commit chain | `src/utils/git.ts` | a promise chain per vault; git index and HEAD | `commit` | a failing or hung link; attribution |
| Provenance ledger | `src/curation/provenance.ts` | JSONL, append-only | `recordProvenance` | holes and false entries |
| Process lock | `src/lifecycle/lock.ts`, `src/index.ts` | `.daftari/process.lock` | acquire, take over, release, shutdown | stale files, pid reuse, read-then-unlink |
| Staged actions | `src/curation/staged-actions.ts`, `src/tools/staged-actions.ts` | `.daftari/staged-actions.jsonl`, latest line wins | stage, ratify, reject, expire | decisions on what may no longer be pending; replay over a changed document |
| Tension log | `src/curation/tension.ts` | markdown log | append, resolve (rewrite whole file under a lease) | append against rewrite, ids |
| Positions | `src/curation/positions.ts`, `src/tools/positions.ts` | a list in a document's frontmatter, plus tensions | assert, consolidate | document and tension log must agree |
| Supersede chains, merge | `src/curation/supersede-chains.ts`, `src/tools/write.ts` | links between documents | deprecate, supersede, unsupersede, merge | the loop check reads before any lease; several files per call, one commit |
| Readers of chains | `src/curation/chains.ts`, `validity.ts`, `src/search/current-source.ts`, `valid-at-source.ts`, `suppression.ts` | none | lint findings, `vault_chains`, search's current and valid-at source | five walks of one graph, each with rules of its own |
| Edges, consumes edges | `src/curation/edges.ts`, `consumes.ts` | JSONL, latest wins | append, mint | as staged actions |
| Search index | `src/search/reindex.ts`, `index-state.ts`, `src/storage/index-db.ts` | SQLite, freshness manifest, one status cell | index one document, reindex all | stale upserts, work deferred during a reindex, a manifest newer than its rows |
| Watcher | `src/search/watcher.ts`, `self-write.ts` | debounce timers, deferred events, self-write notes | dispatch an event | a note consumed by the wrong event; a drain that never comes |
| HTTP serve | `src/serve/index.ts`, `limits.ts`, `auth-log.ts` | request slots, token buckets, audit appends | admit, refuse, release, close | slots leaked or released twice when a client leaves; a shutdown that waits for ever |
| Ingest integrations | `src/integrations/` | webhook queue, state file with cursor and hashes, review file | receive, drain, reconcile, poll, close | which failure may move the cursor; what a stored hash certifies; lost or eternal events |
| Sleep cycle, consolidation, distill | `src/sleep`, `src/consolidate`, `src/distill` | state files, run ledgers | staged proposals, scans | restarts between two steps |
| Board, federation, audit, attest, witness, eval, view, ... | the other directories | little or none of the vault's | reports, converters, renderers | mostly pure |

Interaction.  Every tool that writes a document goes through `performWrite`
(`vault_merge` has a path of its own).  `performWrite` takes a file lease, feeds
the index, joins the commit chain and appends provenance.  `vault_ratify` runs a
write tool in the name of the ratifier; the sleep cycle, distill and the
integrations only stage.  The process lock decides which process does any of
this: the in-process commit chain is sound only because one process owns a
vault.  The watcher sees the files `performWrite` writes and must tell them from
an editor's; the full pass of the indexer defers its events.  Over HTTP every
call first passes the serve gate, which also admits the webhooks that fill the
integrations' queue; a drained event becomes a reconciliation whose distillate
is staged.

`PROJECT.json` lists every component with its state of modelling and every
hazard at its line, those no property covers yet included.

## 2. Modules

| Module | What it is |
|---|---|
| `AtomicStore` | abstract: what a caller of a write tool is promised |
| `WritePath` | the write path with leases, commit chain, ledger and process death |
| `ProcessLock` | the process lock and the way out of a holder |
| `StagedActions` | the queue from staging to decision |
| `Positions` | positions on a document, the tension log, and consolidation |
| `Chains` | the graph of `superseded_by` pointers and the loop guard's walk |
| `Supersede` | the tools that set those pointers, with `vault_merge` file by file |
| `Readers` | what `vault_lint`, `vault_chains` and search make of pointers and validity windows |
| `ReactiveIndex` | the index's three writers: tools, watcher, full pass |
| `ServeGate` | admission of HTTP requests, limits, audit lines, shutdown |
| `Integrations` | webhook queue, cycle, and the reconciliation of a provider |
| `WritePathProofs`, `ProcessLockProofs`, `StagedActionsProofs`, `PositionsProofs`, `ReactiveIndexProofs`, `ServeGateProofs`, `IntegrationsProofs` | theorems about the modules they are named after |
| `ChainsProofs` | theorems about `Supersede` and `Readers`, which share the lemmas about walks |
| `MC...` | what TLC needs beside the `.cfg` files: symmetry sets and the inputs enumerated |

`Supersede` and `Readers` extend `Chains`: the one writes the graph the other
reads.  `WritePath` instantiates `AtomicStore`, and `StagedActions`, `Positions`
and `Supersede` (where it writes a single file) use its promise, a write in one
step.

In every module an action is the code between two points where other code can
run: two `await`s in the modules of one process and one event loop, two system
calls in `ProcessLock` (several processes).  `Readers` is about pure functions:
its one action puts a document into the vault, so that TLC meets every vault of
the bound.  A definition
whose name contains `Bug` is no part of a specification.  It is the definition
after it with a plausible mistake and is used by the mutants of `PROJECT.json`,
each of which TLC refutes.

### WritePath

A call goes `idle -> loaded -> leased -> checked -> writing -> written ->
indexed -> queued -> logging -> releasing -> done`.  The text of a document is
the *set of contributions* it carries.  A call that composes a text adds its own
name to what it loaded; two texts have one sha256 exactly when the sets are
equal, and the empty set is the file `writeFile` has truncated and not filled.
That is all the properties need: a lost update is a name that disappears.

| Code | Model |
|---|---|
| `vault_read` returning `version` | `Read` |
| `loadTargetDocument`, or the first read of `writeDocument` | `LoadExplicit`, `LoadDefaulted`, `LoadUnchecked` |
| `vaultPatch`'s own stale check | `PatchStale` |
| ignored path, validation, RBAC, shadow mode | `Decline` |
| `acquireLock` | `Acquire`, `Contend` |
| hash comparison under the lease, `rejectStale` | `Check`, `RejectStale` |
| leak gate | `RejectLeak` |
| `writeFile`: truncate, then write | `Truncate`, `Fill`, `WriteFails` |
| `indexDocument` | `IndexDoc` |
| `withCommitLock`, `commit` | `Enqueue`, `Commit`, `SkipCommit` |
| `recordProvenance` | `LogWrite` |
| `finally { releaseLock }`, the answer, `retryOnStale` | `Release` |
| TTL | `Lapse` |
| death of the process | `Crash` |

Abstractions.

* The row of a lapsed lease and no row are one state, since `purgeExpired` runs
  before every look at the table.  `Lapse` frees the path although its call goes
  on working; with `LeaseMayLapse = FALSE` only the leases of dead calls lapse.
* The tools that take the hash of their own load (`vault_append`,
  `vault_promote`, `vault_set_confidence`, `vault_assert`, ...) are one kind,
  "defaulted".  A first load may find a truncated file; the model goes on, where
  some tools would refuse the empty document.  The model has those behaviours
  and more.
* `IndexDoc` reads the file and may fail.  A provenance append is assumed to
  succeed: `recordProvenance` returns its error and `performWrite` ignores it.
* A retry is counted once per call, as `retryOnStale` does.
* Documents are not deleted, and creation is a write to a document already there.

### ProcessLock

A member of `Procs` is one incarnation of daftari. Lockfiles carry a pid and a
`startedAt`, so each is named after its creator; pids are assigned by `Init` in
every way, and two incarnations may share one as long as they do not live at the
same time, which is how pid reuse and the always-pid-1 container arise.
`tryCreateExclusive` is `Create` and `Fill`; `acquireLock`'s loop is `Inspect`,
`Refuse`, `Signal`, `Wait`, `Dismiss`, `Compare`, `Unlink`; the shutdown
handlers and `releaseLock` are `Terminate`, `Shutdown`, `Drained`,
`ReleaseCheck`, `ReleaseUnlink`. A SIGTERM that arrives before the handlers are
installed kills. `MaxAttempts` is 3 where the code has 5: a first attempt, one
between, and the last, which alone behaves differently. The theorems hold for
any number. `ps` is assumed to answer, and the recognition of a foreign process
that has the pid of a dead daftari is part of `Suspects` (such a process is
simply not in `Procs`).

### StagedActions

The log is a sequence of readable lines, `[id, what, by]`.  A line that does not
parse is skipped by every reader and left out; `ragged` says that the file ends
in half a line, which swallows the next one appended.  (A tear at exactly the
newline, which loses nothing of its own line, is not modelled apart.)  The five
kinds of a proposal are how its dispatch treats the document:

| Kind | Who | Dispatch |
|---|---|---|
| guarded | propose-only `vault_write`, `vault_patch`, `vault_assert` of a document that exists | staged text, with the `base_version` read when it was staged |
| snapshot | `vault_stage_action` of type write, distill, a propose-only create | staged text, no `base_version` |
| merge | `vault_stage_action` of type merge | staged body over the target's, compared only with what `vaultMerge` reads at dispatch |
| fresh | promote, deprecate, confidence-up, unsupersede | computed from the document when dispatched, checked |
| blind | supersede, repin | computed when dispatched, not checked |

A staged text has two reads behind it.  `Compose` is the caller's, from which it
made the text (`base`); `Anchor` is that of the tool which stages a guarded one
and takes the hash of what it reads (`version`).  In `vault_assert` and
`vault_patch` the text is made from the second read, in `vault_write` it is still
the caller's, and `Anchor` leaves either possible.  The text of a write or merge
replaces the target's wholly in the model; in the code frontmatter fields that a
write's payload does not name survive, so that the model loses no less than the
code.  The sources a merge marks as superseded are computed at dispatch and are
the business of `Supersede`.

The write tool inside a dispatch is one step: that is what `AtomicStore`
promises and `WritePath` is shown to implement.  The tier-0 gate, and whether
the write tool refuses, are free choices (`Keep`).  Nothing forces a call to go
on, so a process that dies is a behaviour in which its calls take no further
step.  The tension logged about a contention is not modelled here: whether it
can be logged changes nothing in the queue.

### Positions

One claim document and the entries of `.daftari/tensions.md` about it.  A
position is `[by, stance, next, of]`: its principal, its stance, the id that
supersedes it, and the call that took it, which stands for statement, date and
sources.

| Code | Model |
|---|---|
| `loadTargetDocument`, also for the retry | `Load` |
| `retryOnStale` | `Stale` |
| `applyAssert`, `isContested`, the cap | `Asserted` |
| the direct write of `vault_assert` | `WriteAssert` |
| propose-only: staged, and ratified later | `StageAssert`, `LandStaged` |
| one pair: list, skip if covered, log, retry on the lease | `ListForPair`, `AddTension`, `AddFails`, `AddContended` |
| `listTensions`, `qualifyingDissentTensions` | `Weigh`, `Batch`, `Adjudicates` |
| the write of `vault_consolidate` | `WriteConsolidation` |
| `resolveTension`: lease, read, truncate, fill, release | `TakeLease`, `LeaseContended`, `ReadLog`, `TruncateLog`, `RewriteLog`, `RewriteFails` |
| `vault_tension_resolve`, `daftari court` | `BeginRuling` |
| TTL, or the death of the holder | `Lapse` |

Abstractions.

* The write of the document is one step, as in `StagedActions`, with a second
  outcome in which the text has landed and the commit has failed, so that the
  call is an error and nothing follows.
* `addTension` is one step: the code between its lease and its append does not
  await.  `listTensions` takes no lease and may see a truncated log.
* Entries of other kinds and about other documents are left out; they only use
  up numbers.
* A caller names the id of a tension that is in the log.  Other ids end in an
  error without effect.
* `damaged` records that a rewrite of the log failed half way, died, or went on
  after its lease had lapsed.  That loses tensions, in the code as in the model;
  the properties of the log are about the rest.
* Nothing forces a call to go on: a dead call takes no further step.

### Supersede

A document is its pointer, its status and the call that wrote it last; `Torn` is
a file truncated and not yet filled.

| Code | Model |
|---|---|
| what a call is asked, and what its schema refuses | `Request`, `Proper` |
| `refuseSupersedeLoop` over `loadDocuments` | `SeenPointers`, `SeenEdits`, `CheckLoop` |
| loading, one file after the other | `Read` |
| refusals before any lease | `Decline` |
| leases, in path order, all or none | `TakeLeases` |
| stale and leak checks under the leases, `retryOnStale` | `Verify`, `Sworn`, `LeakRefused` |
| the writes, target first | `Open`, `Fill`, `WriteThrows` |
| index, one commit, provenance, answer, release | `Commit` |
| TTL of a dead call's lease; death | `Lapse`, `Crash` |

Abstractions.

* Pointers are canonical paths.  `vault_supersede` stores the path as it was
  typed; how the readers see such a spelling is in `Readers`.
* Leases of live calls do not lapse here (`WritePath` has that), and `Read`, the
  index, the provenance lines and the answer take no step of their own.
* `loadDocuments` is one step.  In the code a call may join a scan that another
  began (`src/curation/vault-docs.ts:160`), so that the guard may miss an
  answered write: a loop can then arise from calls made one after the other,
  although the comment before `refuseSupersedeLoop` expects it of concurrent
  calls only.  `ChainsEnd` excuses a loop that a call could not see as it is
  (`unseen`); a joined scan widens that window and is no new kind of loop.
* A `vault_supersede` with an explicit base version is not modelled.

### Readers

A path is its document's number.  `exact` says that a pointer spells the path
of its target exactly; otherwise only `resolveLink` follows it.  Rows of the
index are those documents (that they agree with the files is `ReactiveIndex`).

| Code | Model |
|---|---|
| `supersedeEdges`, `supersedeChainFindings` | `EdgesOf`, `LoopFindings`, `HeadsByEnd`, `EndFindings` |
| `computeChains` | `WalkEnd`, `Depth`, `Ends`, `Feeding`, `ChainsOf` |
| `resolveCurrentSource` | `CurrentSource` |
| `resolveValidAtSource`, forward and backward | `Covers`, `Forward`, `Frontier`, `Backward`, `ValidAtSource` |
| `computeValidity`, `validityConflicts` | `Malformed`, `Inverted`, `InWindow`, `PairFindings` |
| `applySupersededSuppression` | `Sources`, `Kept`, `Demoted`, `Suppressed` |

Two things the models show and no document denies: a successor spelled in a way
only `resolveLink` follows is an end for `vault_chains` and search and a step for
lint, so `ChainsMatchSearch` and `GuardAgreesWithLint` are stated for what each
can follow; and an overlap of windows is also reported when the successor's
window lies wholly before.

### ReactiveIndex

| Code | Model |
|---|---|
| `startVaultServices`: a trusted manifest, or a background pass | `Start` |
| the watcher's debounce timers | `ForeignChange`, `TimerFires` |
| self-write notes | `OwnWrite`, `NoteExpires`, `Swallowed` |
| parking during a pass, the one-shot drain | `TimerFires`, `Leave` |
| `indexDocument`: read, embed, replace the rows, patch the manifest | `ReadFile`, `ReplaceRows`, `PatchManifest`, `FileGone` |
| the re-stat of an unlinked path | `Restat` |
| `reindexAll` and its waiting callers | `ReindexCalled`, `ListFiles`, `StageFile`, `CommitRows`, `WriteManifest`, `Leave` |
| an error in any of them; a stop or death | `Fails`, `Stop` |

Abstractions.

* A version stands for content and modification time together; an edit that
  keeps the time is not seen by the manifest, in the code too.
* chokidar reports a change when it happens, once; what it coalesces or loses is
  not modelled.  The stat before an eviction and the eviction are one step, and
  so are the stats of the manifest.
* A change of the fields fingerprint, which forces a pass, is not modelled.
* A drain starts a call for every parked path that a free slot of `WatchJobs`
  takes.

`IndexSettles` names five reasons why rows may stay behind, and each can happen:
`trusted` (a start believes a manifest that is newer than the rows: the entry is
stat'ed after the rows were made of an earlier read, and a stop came before the
event), `unwatched` (an edit with no watcher), `overtaken` (an older read
committed after a newer one), `swallowed` (a note that no event of its own
consumed takes a foreign event), `failed`.

### ServeGate

A connection carries one request at a time, in the phases between the awaits of
`handle`.

| Code | Model |
|---|---|
| `handle`: rate and failure limits, authentication | `Knock`, `Spend`, `Authenticated`, `Fail`, `Admit` |
| slots, the release on 'close' and 'finish' | `Slots`, `Flushed`, `Leave` |
| the public routes and their registry | `Deliver`, `TakeFromRegistry` |
| bodies, with and without a deadline | `LoginRead`, `BodyRead`, `Unheard` |
| token buckets, sweep, eviction, idle expiry | `Tick`, `Refilled`, `ChargePenalty`, `PenaltyAllows` |
| `close()` | `Stop`, `ListenerClosed`, `Drained`, `AppendsDone` |

The instance has OAuth, where authentication waits for a key set.  Buckets
refill in whole ticks; a public route, a login page and a managed route stand
for the others; answers 404 and 405 and the rebinding guard are left out.
`IdleTicks >= Burst` is assumed: with the defaults a bucket is full after 20
seconds and expires after ten minutes.  A configured burst of more than ten
minutes' rate is outside the model; the expiry would then give a burst early.
Principals and remotes are disjoint sets, since their buckets are.  The history
variables name what the code does not promise:

* a managed request whose client leaves while it authenticates keeps its slot
  (`cuts`): the response's 'close' has fired before `src/serve/index.ts:990`
  listens for it.  `SlotsExact` holds but for these;
* such a request may also append an audit line after `close()` has returned
  (`straggled`), where the comment at `src/serve/index.ts:1472` says that none
  is in flight; `QuietAfterClose` excludes the rest;
* failures that overlap pass the check of the penalty box together
  (`overlapped`); `FailuresBounded` counts the others;
* bodies on the board's routes and the login page have no deadline, and Node
  stops enforcing its own after `server.close()`: `ShutdownEnds` has a client
  that does not hold its body back for ever.

### Integrations

A revision is the number of a document's last change at the provider, a text the
number of the change that brought it, its hash the same number.  `feed` selects
an adapter that lists (`notion.ts`) or one that follows a feed of changes behind
a cursor and fills itself from a list at first (`google.ts`).  `microsoft.ts` is
not modelled: its roots shared as single items start at `token=latest` with
nothing seeded, and start over so after a 410 (`microsoft.ts:977-982`,
`1462-1470`), so that a full discovery does not list what is there.
`CursorHonest` and `Learns` say nothing of it.

| Code | Model |
|---|---|
| `enqueue`, `wake()`, the interval | `Accept`, `Poll`, `Woken` |
| `cycle`, `drain`, `snapshotBatches`, `mergeHints` | `CycleStarts`, `Acknowledge`, `Struck`, `Exhausted`, `Retried` |
| `do ... while (rerunRequested && !closing)`, `close()` | `NextCycle`, `Close` |
| `discover` of the adapters | `Discover`, `List`, `Listed`, `Changed`, `Found` |
| sources no longer found | `Gone`, `RecordUnavailable`, `MarkUnavailable` |
| the skip guard, the time limit | `Current`, `Consider`, `RunsOut` |
| fetch, limits, `markSourceFailure` | `FetchPage`, `FetchFailed`, `FetchFails`, `Failed` |
| hash, pending write, distill, certified write | `Fetched`, `Distill`, `Distilled` |
| the cursor | `Finish` |

Abstractions.

* One provider: a batch is made per provider and each has its own state.
* Every change has a revision of its own.  This is assumed of the provider:
  Google's is a version number, Notion's the coarse `last_edited_time`
  (`notion.ts:295`), under which a second edit within its resolution would look
  like no change.
* A distillation stages all its claims or fails; a document that is gone may
  still answer a fetch.  A state file that cannot be written ends the cycle as
  `Aborts` does, with the failures of tokens and discovery.
* The end of the loop and its `.finally` are one step: nothing runs between
  them but microtasks.
* Lifecycle hints and `rediscover: true` fall back to, or include, a full
  discovery (`engine.ts:897`) and are taken as one.
* The pruning of processed events (30 days, 20 000) would let an old event in
  again, which costs a cycle.  Webhook registration and verification, OAuth,
  enrollment and extraction are not modelled.

### AtomicStore

A guarded call adds its change to the current text in one step or does nothing;
a blind one replaces the text by one composed from something it saw; the caller
is told which.  A write that dies half way may lose the working copy of its
target (`Lose`), and nothing else does.  `WritePath!ImplementsStore` is the
refinement: a document that some call has truncated and not filled maps to the
text that call is writing, so the abstract write takes effect when the file is
opened.  When a lease lapses under a working call two calls may write one file,
and the promise is gone: `late`, which `WritePath` maps to the calls that
overran, says when, and from then on the store does anything (`Overstay`).

## 3. Runs

| Run | Properties | Instance |
|---|---|---|
| `failures` | `CommitsExact`, `NoLostUpdate`, `LeaseDiscipline`, `AnswerTruthful`, `ImplementsStore`, `NothingHangs` | 2 calls, 1 document, 1 crash, leases lapse |
| `process` | `HolderRecorded`, `LoneStarterServes`, `AcquireSettles` | 2 incarnations, 2 pids, 3 attempts |
| `process_onevault` | `OneHolder` is violated | 3 incarnations, no overstaying |
| `staged_queue` | `IdsDistinct`, `ContestsNamed`, `RatifiedWasApplied`, `DecidedOnOpen`, `ChangesSurvive` | 2 proposals, 2 ratifiers, 1 edit, 1 failing append |
| `staged_replay` | `ReplayRejected` is violated | the same |
| `positions` | `PositionIntegrity`, `PositionsKept`, `ConflictsRecorded`, `LedgerKeeps`, `DissentCarried` | 2 asserts, 1 consolidation, 1 ruling, 2 principals, 1 lapse, 1 fault |
| `supersede` | `ChainsEnd`, `NothingOverwritten`, `MergeWhole` | 2 calls of 5 kinds, 3 documents, 1 crash |
| `readers` | `LintSound`, `HiddenUnseen`, `ChainsMatchSearch`, `ValidAtHonest`, `SuppressionKeepsAll` | every vault of 3 documents, every set of readable ones |
| `index` | `IndexSettles`, `DrainArmed`, `EventsSettle` | 1 file with 2 versions, 1 tool, 1 watcher call, 2 passes, 2 starts |
| `serve` | `SlotsExact`, `AuditedOnce`, `LimitsHold`, `QuietAfterClose`, `ServerSettles` | 2 connections, 3 requests, 1 tick, boxes of 1 |
| `integrations` | `CursorHonest`, `CertifiedUnlessHidden`, `EventsServed`, `Learns`, `QueueSettles` | 2 documents, 2 changes, 1 event, 2 attempts, 2 failures, 1 crash |
| `integrations_retried` | `FailuresRetried` is violated | 1 document, 2 changes, 1 failure |

What the properties say is in the comment before each.  Some are conjunctions of
named parts that belong together, given here in parentheses; each module's
`TypeOK` is a part of one of them or proved.  In short:

* **Write path.**  At most one live lease per document and none left behind
  (`LeaseDiscipline`); no guarded write drops a change, whatever interleaves
  (`NoLostUpdate`: the excuses it grants are named, a lapsed lease, a write that
  died half way, a blind write composed without the change); the answer and the
  ledger tell the truth (`AnswerTruthful`); a commit in a call's name holds what
  that call composed unless a lease lapsed (`CommitsExact`); nothing hangs
  (`NothingHangs`: `EveryCallAnswers`, `PathsUnwedge`); and all of it is an
  atomic store (`ImplementsStore`).
* **Process lock.**  Who works on the vault is named by the lockfile, unless a
  taker gave up waiting for it or unlinked its lockfile in mistake for another
  (`HolderRecorded`, with those two as history variables); a process alone in
  the world gets the vault, whatever it finds there but an empty file
  (`LoneStarterServes`); acquiring ends (`AcquireSettles`).
* **Queue.**  Ids are never reused for a readable proposal, contention is never
  silent, "ratified" is never false history, nobody decides what was already
  decided when he looked, and ratification drops a change only through a
  snapshot, a merge, a guarded text staged after the change by a caller that had
  read before it, or a blind type (`ChangesSurvive`).
* **Positions.**  No position is overwritten, and one is superseded only by its
  own principal (`PositionsKept`); flags, cap, mirror and dissent follow from
  the positions, so that the position checks of `vault_lint` stay silent
  (`PositionIntegrity`); of two live positions in conflict there is a tension,
  unless the later assert has said that it could not log it
  (`ConflictsRecorded`); no tension is lost, numbered twice or reopened
  (`LedgerKeeps`); what is resolved as consolidated is carried in the ratified
  dissent (`DissentCarried`).
* **Chains.**  A loop arises only of a pointer some call could not have seen
  (`ChainsEnd`); a guarded tool overwrites only what it has read
  (`NothingOverwritten`); a merge is whole (`MergeWhole`: a refusal has changed
  nothing, no source points to a target that was not written, and git ends with
  all of an answered merge and nothing of any other, unless a write or commit
  failed: `RefusalsWriteNothing`, `TargetFirst`, `HistoryWhole`).
* **Readers.**  Lint reports every superseded document, every loop the guard
  would refuse, and every gap or overlap of a hand-off (`LintSound`:
  `LintTellsAll`, `GuardAgreesWithLint`, `HandoffsAudited`); what is told of
  readable documents does not depend on what a hidden one says (`HiddenUnseen`,
  which compares the chains that have a readable predecessor, without their
  `hidden` field);
  chains and search name the same end, whoever reads (`ChainsMatchSearch`); a
  valid-at answer covers its day, is readable and the nearest, and there is none
  only where none is in reach (`ValidAtHonest`); suppression drops and doubles
  nothing and puts heads first (`SuppressionKeepsAll`).
* **Index.**  Rows at rest are the file, five named reasons aside
  (`IndexSettles`); a parked event is behind a running pass (`DrainArmed`) and
  is drained (`EventsSettle`).
* **Serve gate.**  The counters are the requests that hold a slot
  (`SlotsExact`), each request leaves one audit line (`AuditedOnce`), no bucket
  gives more than its burst and refill but by eviction (`LimitsHold`:
  `RateHeld`, `FailuresBounded`), slots come free and `close()` returns
  (`ServerSettles`: `SlotsFree`, `ShutdownEnds`), with nothing left to append
  (`QuietAfterClose`).
* **Integrations.**  The cursor does not pass what was not learned
  (`CursorHonest`); a hash is of a text that was distilled
  (`CertifiedUnlessHidden`); an event leaves the queue served or after its last
  attempt (`EventsServed`); what the provider holds is learned (`Learns`); events
  do leave, and the cycle ends after `close()` (`QueueSettles`: `EventsLeave`,
  `CycleEnds`).

Bounds, and why they do.  Two calls on one document interfere at every step and
one of them retries against the other; that a third call, or a document beside
it, adds nothing to who holds a lease or whose change is lost is proved, for
every set of calls and documents (`LeaseDisciplineHolds`, `NoLostUpdateHolds`).
One crash separates calls of before and after; a second one finds no state the
first could not leave.  Two incarnations are a leftover and a taker; that the
lockfile names the holder is proved for any number, and the finding needs the
third.  Two proposals are what contends; two ratifiers what races; one edit what
makes a proposal stale; one torn append can swallow any line.  Two asserts and
the snapshot of a legacy document give every pair of stances, a conflict of
three, and a batch of two; one consolidation and one ruling are the two that
rewrite the log, and meet the asserts that append to it.  One lapse and one
fault are enough for each excuse to arise, alone and together.  Three documents
are a merge's two sources and target, and the smallest graph with a loop beside
a path that leads into it.  One file is enough for the index, whose paths share
nothing but the passes and the status; a tool, a watcher call and two passes
are one of each that can hold an old read, and a second caller that waits.  Two
connections with three requests of two principals and two remotes fill boxes of
one entry and evict, and a slot of two is shared and used up.  Two changes of a
document give a revision distilled and a revision failed; two documents give a
page of which one part fails; two failures are a failure and its retry's.  All
bounds on behaviours are constants.  Deadlock is not checked: a system in which
every call has answered, or every process has ended, stops.

Symmetry is used for safety runs only, over calls, documents, incarnations and
pids, proposals and ratifiers, which the specifications never tell apart.

### Fairness

`WritePath!FairSpec` is weakly fair to each call that has begun and to the lapse
of leases.  A begun call is a JavaScript promise chain whose awaits all settle:
file system calls return, a git subprocess is bounded by a timeout, and the
chain link always resolves.  A caller's first step and its use of a version it
has read are not fair.  A TTL elapses by itself.  `ProcessLock!FairSpec` is
weakly fair to each started process: its loop has no unbounded wait, `waitForExit`
being bounded.  `ReactiveIndex!Spec` is fair to the steps of jobs and to timers,
for the same reason; nobody is obliged to edit, to call or to start.
`ServeGate!Spec` is fair to the server's own steps, and to a client as far as
`ShutdownEnds` says: on the routes whose bodies have no deadline the client
sends its body or leaves.  `Integrations!Spec` is fair to the cycle's steps,
whose requests and distillations have timeouts, and to the interval, which is a
timer.  Changes, webhooks, failures and crashes are free, and run out by their
bounds.  No fairness is assumed of the queue: nothing in the code obliges a
ratifier or a sweep to run, so no liveness is claimed there.  None is claimed of
`Positions` and `Supersede` either: their calls wait for nothing but the steps
`WritePath` already covers, and a bounded number of retries.

### Disagreements between code and documentation

Three are shown by runs:

1. `process_onevault`: the comment of `acquireLock` says the stale-takeover race
   is closed.  `removeLockIfUnchanged` narrows it to the two system calls
   between comparison and unlink, where it remains.
2. `staged_replay`: the comment in `vaultRatify` says a replay against a changed
   document is rejected, but for proposals older than the field.  Writes staged
   by `vault_stage_action` or distill never carry it.
3. `integrations_retried`: the guide says that failed sources remain retryable
   rather than being marked current.  `markSourceFailure` puts the failed
   revision beside the hash of the one before, and the skip guard takes the two
   for one: the revision is not fetched again, and the cursor passes it.  Only
   a source without a hash, as all are on their first fetch, is retried.

The models contain others, named by a history variable or an excuse of a
property rather than by a run:

* a late commit (`CommitsExact`, `overran`): the architecture document says it
  "can never sweep up, or misattribute, a file some other request wrote"; a lease
  that lapses in the commit queue lets another call write the same file;
* a staged merge (`ChangesSurvive`): the comment on `baseVersion`
  (`src/curation/staged-actions.ts:109-113`) counts merge among the types that
  recompute their mutation from a fresh load when they are ratified.  The
  dispatch hands `vaultMerge` the body as it was staged
  (`src/tools/staged-actions.ts:709-719`), which replaces the target's: an edit
  made since is gone, and nothing is stale, because `vaultMerge` compares only
  with its own read;
* a propose-only `vault_write` (`ChangesSurvive`): the description of
  `base_version` (`src/tools/write.ts:3442-3445`) says that a write whose document
  no longer matches the version it was composed against is rejected.  The
  propose-only branch takes the argument, does not compare it, and stages with
  the hash of what it reads itself (`write.ts:1292`, `1361`): the ratification
  overwrites what came between the caller's read and the staging;
* a lockfile created by a process that died before writing its content is not
  replaced, though the deployment guide says stale locks are
  (`LoneStarterServes`);
* a positional tension of a staged assert does not fire "when the ratified write
  lands", as the comment in `vaultAssert` has it: `vault_ratify` lands it
  through `vaultWrite`, which logs none (`ConflictsRecorded`);
* the index may trust a manifest newer than its rows, and a self-write note may
  swallow a foreign edit (`IndexSettles`);
* a slot is lost to a client that leaves while it authenticates, and an audit
  line may be appended after `close()` (`SlotsExact`, `QuietAfterClose`);
* a joined scan may hide an answered write from the loop guard, and a pointer
  spelled otherwise reads as dangling outside lint (`Supersede`, `Readers`).

## 4. Proofs

TLAPS checks the following for every value of the constants, from the named
assumptions of each module alone (one theorem has a hypothesis of its own, named
below).  Every safety property and action property of the passing runs is a
theorem.

**`WritePathProofs`.**  `TypeCorrect`.  `LeaseDisciplineHolds` needs
`LeaseInv`: a live holder is
the one in the table, and who is in the table is at work on that document or
died at it.  `NoLostUpdateHolds` needs `UpdateInv` on top of it:

* `Protocol`: the pc of a call tells what it has done (landed, torn, answered);
* `Fresh`: a change that has not been written out is in no file and in no text
  of another call;
* `Based`: a guarded call whose base is still what the file holds has kept all
  of it, which is what makes the hash comparison worth something;
* `Guarding`: from its check on, a guarded call under its lease carries every
  change that landed on its document, or that change is excused.

`Guarding` is where the two meet: by `LeaseInv` nobody else writes the file
between a check and the write it guards.  There is one lemma for each action
that disturbs these and one for all that do not.

`AnswerTruthfulHolds` needs `AnswerInv`: what a call will answer follows from
where it is (`Outcome`), and a change that did not land is in no file, row or
commit (`Traceless`), which rests on `Fresh`.  `CommitsExactHolds` needs
`FileInv`: while no lease on it has lapsed, a file is empty as long as it is
being written (`InFile`), holds from then to the commit what its writer composed
(`InName`), and a guarded call composed from just the bytes its base names
(`Exact`).

`ImplementsStoreHolds` is the refinement of `AtomicStore`, with one lemma for
each step of `WritePath` that maps to one of the store and one for those that
stutter.  The proof found the abstract specification wrong, where two calls could
not show it: `Update` used to keep just what the document held, but a guarded
call may have loaded a file that an interrupted write left empty, meet another
empty file at its check, and so write back a text it saw in between.  One more
call makes it happen, and TLC with three calls refuted the former `Update` and
accepts the present one.

**`ProcessLockProofs`.**  `TypeCorrect`, where the bound on attempts needs that
a process still in the loop has one left; `HolderRecordedHolds`, where a process
that has created its file and not yet filled it is included.
`LoneStarterServesHolds` assumes that there are at least two attempts (the code
has five): a process alone uses one to remove what it found and one to create
its own file (`Unhindered`), and only a file without content, which it may not
judge, keeps it in the loop (`Torn`).

**`StagedActionsProofs`.**  `TypeCorrect` needs that an id is at most the number
of proposals staged so far (`Typed`), since `nextStagedId` is one more than the
greatest in the log; that a greatest exists is proved from the well-foundedness
of `<`.  `IdsDistinctHolds`, `ContestsNamedHolds`, `RatifiedWasAppliedHolds` and
`DecidedOnOpenHolds` follow from `QueueInv`: a proposal is the first line of its
id (`First`), who has written a line has nothing left to write (`Settled`), a
call about to decide found no decision when it looked (`Watched`), and a call
past its dispatch has changed the document (`Landed`).  `First` carries the
rest: it makes an open id one with a single line, so that the contenders read
from the rebuilt queue are all there are.  `ChangesSurviveHolds` needs `Survive`:
whatever a proposal owes, its own change once applied and the edits made since
it was staged, is in the document, or was dropped by a snapshot or a merge that
was composed without it, by a guarded text whose caller had read before it and
staged after it, or by a blind type that had loaded before it.
The excuse may not rest on a load still to come (`Through`), or a later load
would withdraw it.

**`PositionsProofs`.**  `PositionIntegrityHolds` rests on `Integrity`, which is
`PositionIntegrity` with the `Shape` of a document: its ids are consecutive,
from 0 where the first assert took a snapshot and from 1 otherwise.  Hence the
id `nextPositionId` picks is new (`NextIsLast`), and an assert adds one position
and touches only the live one of its own principal (`ApplyAssertShape`).  Three
steps write the document, and each composes from what the document still is
(`DocSteps`): this is where the hash comparison enters.  `PositionsKeptHolds`
follows from the same lemmas.

* `LedgerKeepsHolds` needs `Ledger`: a log that no fault has damaged holds each
  tension ever logged once, and each ruling; and while a rewrite has the file
  truncated, the text in the hands of the one holder of the lease does.
* `ConflictsRecordedHolds` needs `Owing`: an assert past its write has, for each
  live position its own conflicts with, the tension still on its list, logged,
  or given up in its answer.  The proof shows that the look an assert takes at
  the log for an open tension of the same pair never finds one: a pair names the
  position just added, whose id is new.
* `DissentCarriedHolds` needs `Carrying`: of every tension a consolidation is to
  resolve, one of the two principals stands in the dissent it ratified
  (`Carries`), which stays so although positions are superseded afterwards,
  because pointers lead upwards and each chain keeps one end (`Chains`).

**`ReactiveIndexProofs`.**  `ParkedIsArmed`, from `Backed`: the status says
"indexing" only while a pass that announced itself runs, and an event is parked
only behind that status.  A pass that joins another, ends early or dies must not
take the mark of the one still running with it.  `TypeCorrect` adds that only the
five named reasons excuse stale rows, and that a self-write note names a file: a
write tool's job keeps the path it was admitted with until it is over (`Sited`).
`IndexSettlesHolds` needs `Cared`: rows that are not excused are those of the
file and no job holds an outdated read of it, or some job will yet read the file
or has read it as it is, or an event is under way that no note will swallow.
With it goes that equal version numbers mean equal files (`Dated`) and that the
event whose timer runs says whether the file is there (`Told`).

**`ChainsProofs`, the writers.**  `TypeCorrect`, `NothingOverwrittenHolds` and
`MergeWholeHolds`, for any number of calls and documents.  The invariant says of
one call (`Local`): its documents are leased to it (`Owns`); what it has still to
write is a list without repetitions, a merge's target first (`Plan`); what a
guarded call has yet to open is as it read it (`Untouched`); what it has filled
still bears its name (`Filled`); and who bears the name of a merge, beside the
target, came after the target (`Signed`).  A step of one call leaves all of this
to the others, since it writes only what is leased to it: that is `Others`, and
the rest is one lemma per action.

`ChainsEndHolds` needs `Loops`: as long as a call that passed the loop check has
not written, no loop of the pointers it is about to leave avoids the documents
it did not see as they are (`Cleared`), and what it has filled points where it
meant to (`AsMeant`).  Under it are lemmas about the graph alone: the guard's
walk visits all of a loop, which has no more members than there are documents,
and a loop of a changed graph that meets no changed pointer was there before.
`LintedLoopsExcused` puts the two modules together: each loop that `vault_lint`
would report of what these tools leave holds a pointer `ChainsEnd` excuses.

**`ChainsProofs`, the readers.**  These use `ReadersAssumption`, the writers'
theorems `SupersedeAssumption`; both share `ChainsAssumption`.  The vault is
arbitrary, so the invariant is no more than its type (`Documents`), and the
proofs are about the walks.  A walk of a pointer map first makes some hops to
documents it has not met and then ends or comes back to one of them (`Way`,
`WayExists`); so it has a last document (`WayEnds`) or one loop that everything
on it shares (`WayTurns`, `LoopAtIs`).

* `LintSoundHolds`: every chain that ends hangs from a head, the start of a walk
  that comes to it from as far as any does (`HeadExists`); of a pointer the guard
  lets through, a loop of the new graph misses the edited document, so it was
  there before (`LoopWithout`).
* `HiddenUnseenHolds` and `ChainsMatchSearchHolds`: the readable part of a walk
  along exact paths is its `Trail`, and what stops it is gone, hidden, or a
  document already met (`EndCases`).  `TrailEnd` and `TrailDepth` say what
  `vault_chains` makes of each case, `TrailSource` what search does.  Two vaults
  that say the same of what is readable have the same trails (`TrailAlike`), and
  a superseded document is in the chain of its trail's end and in no other
  (`ChainIsOne`).
* `ValidAtHonestHolds`: `walkForward` stops no later than at the nearest document
  that covers the day (`ForwardIs`).  The breadth-first frontier at hop `n` is
  exactly the documents whose own walk first meets the seed at hop `n`
  (`ReachingOpens`, `FrontierIs`), which uses that a first meeting takes fewer
  hops than there are documents (`RowMeets`).
* `SuppressionKeepsAllHolds`: the head a hit is replaced by is itself current
  (`HeadIsCurrent`), so what is kept and what is demoted share nothing (`KeptIs`,
  `DemotedIs`).

Two things came of these proofs.  `HandoffsAudited` was false of a document whose
`valid_from` is no date: `validityConflicts` reports the endpoint and compares
nothing else, so the property now has that case, and `MCReaders` such documents.
And `ValidAtHonest` now says of "no-cover" that nothing covers the day ahead as
well as behind.

**`ServeGateProofs`.**  `SlotsExactHolds`, `AuditedOnceHolds` and
`QuietAfterCloseHolds` follow from `GateInv`: where a connection is tells which
slot its request holds and whether it has written its audit line (`RequestsOK`),
the counters are the numbers of those requests (`CountsOK`), and after `close()`
only requests it has named go on (`ShutdownOK`).  `LimitsHoldHolds` needs
`LimitInv`.  Its core is a balance (`Balanced`): what a key has been given and
what its bucket still holds are together never more than its burst, the ticks
gone by, and one burst for each eviction; a key without a bucket counts as full.
So creating a bucket costs nothing, an eviction is paid by the burst it is
counted for, and the idle sweep must drop only full buckets: a bucket has
refilled since it was last used, because `IdleTicks >= Burst` (`Refilling`).  For
the penalty box, who passed it and met no failure of its remote since would pass
it still (`Warned`); the failures that overlapped are the history variable's.

**`IntegrationsProofs`.**  `EventsServedHolds` needs `QueueOK`: the attempts on
record are the batches that failed, no event is forgotten between two of them,
and what the cycle serves is still in the queue file.
`CertifiedUnlessHiddenHolds` needs `CertInv`, whose middle is `InHand`: the
revision was read before the text, so a text whose revision the provider still
shows is the text of it.  `CursorHonestHolds` needs `CursorInv`: every document
that changed at or before the cursor is in the state file with its revision and
some hash (`UpTo`), the page of a feed is what the provider showed at the token
(`Paged`), and what is fetched has changed since the cursor (`Ahead`).  It is
proved for the adapter that lists and the one that follows a feed, as they are
modelled, and for any number of changes, failures and deaths of the process.

Data.  The library's induction theorems cannot be used with these provers.  What
is recursive over numbers is proved about with the least-number principle
instead (the least `n` at which a claim fails): `Walk`, `ChainEnd`, the batch of
a consolidation, the buckets that a sweep leaves, the frontier of a valid-at
query, the kept and the demoted hits.  That such a recursion has a solution at all
is `Recursion` in `ChainsProofs`, for a recursion whose steps are a table.

Only model-checked: the liveness properties, since fairness and ENABLED are out of
the prover's reach.

## 5. Not modelled

Multi-process writers to one vault beyond the process lock are out of scope in
the code's own documentation.  Edges and consumes edges are a JSONL log of
latest lines, as the queue is, with synchronous appends.  The consolidation
engine, the sleep cycle's scans and distill's extraction stage proposals, which
`StagedActions` has, and otherwise compute scores.  Distill's own state file
(`distill/state.ts`) is not modelled: it is read before the proposals are staged
and written after, so that a claim recorded as landed in between, by a review in
another process, is lost from it, and an interrupted staging is repeated; its
callers' answers tell of neither.  It is the next module of the plan.  The board, federation,
erase, attest, witness, receipts, the storage back ends and the command-line
tools read, render, convert or call an external service.  Schema, frontmatter
and path handling are pure text.  Ranking is numeric.

## 6. Plan

In this order.

1. `Distill` (`src/distill/state.ts`, `propose.ts`, `extract.ts`, `cli.ts`): chunks,
   budgets, the manifest that lets an interrupted staging resume, the record of
   landed claims, and a review that runs beside a distillation.
2. `Consolidate` (`src/consolidate/state.ts`, `admit.ts`): the generation of
   notes over restarts.
3. `Federation` (`src/federation/mount-index.ts`): the index of a mount against
   its vault.

To run: `tlc -config <run>.cfg <module>.tla` for each run of `PROJECT.json`, and
`tlapm <module>.tla` for the modules whose names end in `Proofs`.
