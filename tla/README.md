# North Star Group: formal models

TLA+ models of `src/src/private_ai_company`, checked with TLC and, where a
result should hold for every size, proved with TLAPS. Paths below are relative
to that package unless they start with `src/`.

`PROJECT.json` holds the machine-readable side: the runs, the mutated forms each
property is tested with, the source lines behind every definition, the hazards,
the findings and the theorems.

## 1. The system

A local multi-agent "company". A human command reaches the gateway, the
orchestrator turns it into an executive task with work orders, a durable DAG
runner executes the orders on a thread pool through governed executors, model
providers are called behind circuit breakers, and money is reserved in an
append-only ledger. Results are verified and reported. Publication, novels and
batches are workflows on top of the same ledgers and checkpoints.

| Component | State it keeps | Operations | Talks to | What is hard | What makes it correct |
|---|---|---|---|---|---|
| DAG runner, `dag.py`, `task_ledger.py` | checkpoint file, event ledger, in-memory state, thread pool | `run`, resume, cancel, `_refresh_readiness`, `_compensate`, `_save` | executors, task ledger | two threads per node after a timeout, crash between event and checkpoint, rollback that fails half way | calls only on durable dependencies, settled nodes stay, attempts bounded, rollback complete and in order, the task's verdict fits its nodes |
| Economic budget, `economic_ledger.py` | `entries.jsonl`, `_reservations` | `preflight`, `reserve`, `release`, `commit`, `append` | governed executor | decision outside the lock, retry with the same key, excess over the estimate, crash between two appends | spent and reserved money under each cap, holds end as they should, commits final |
| Governed executor, `governed_dag.py` | none of its own | `execute_with_dependencies` | economic budget, legacy budget, executor | error paths around a paid call | a call runs only under a counted reservation, which is settled when it ends |
| Legacy budget, `budget.py` | `budget.jsonl` | `check`, `append` | governed executor | an append refused after the money is spent | total under the cap |
| Provider routing, `providers.py` | circuit store, registry, `attempted` per request | `refresh_expired`, `before_call`, `record_success`, `record_failure`, `route`, `complete` | adapters | late outcomes of concurrent calls, stale routes, restart | rest periods, bounded fallback, refusals only for cause |
| Command gateway, `ceo_api.py` | `_records`, pool of one worker, company events | `submit`, `_execute`, status | orchestrator, company events | queue lost in a crash, duplicate ids, an announcement that differs from the checkpoint | a command executes once and its end is told truly |
| Orchestrator, `orchestrator.py`, `executive.py` | task checkpoint, task ledger | `run`, `_persist`, resume | DAG runner, acceptance, gateway | two writes per stage, resumption in the wrong state, two processes on one id | final states final, reports earned, ledger ahead of checkpoint |
| Company events, `company_events.py` | `events.jsonl`, sequence numbers | `append`, `list` | gateway | torn last line | sequence without gaps, one event per key |
| Publication, `publication.py`, `platform_adapter.py` | `events.jsonl`, manifests, checkpoints, bindings | candidate, prepare, dispatch, resume, withdraw, export | shadow transport, economic ledger | crash between an event and what follows it, replay of receipts, lease limits | one accepted receipt and one economic fact per action, leases honoured |
| State spine, `state_spine.py`, `storage.py` | run, department, task, event, checkpoint and artifact files, SQLite index, archives | create, register, append, checkpoint, recover, rebuild, export, archive, restore | workflows | files and index written one after the other, other threads and crashes in between | rows are backed by files, recovery accuses for cause, a restore is whole or nothing |
| Task graph, `task_graph.py`, `semantic_planner.py` | none | `decide_task_graph`, `execute_intent` | gateway | order of the gates | nothing is dispatched that a gate refuses |
| Novel workflow, `novel_mvp.py` | spine run, registry, checkpoint, accepted contents, evidence, economic facts | submit, resume, the nodes context, draft, quality and artifact, restore | spine, DAG runner, economic ledger | five stores written one after the other, a request file that changes, calls on two chapters at once | accepted chapters are earned, the registry is true, facts stay |
| Novel studio, `novel_studio.py`, `novel_knowledge.py` | project, catalog, seed, bible, chapter jobs | register, review, save seed, bootstrap, assemble bible, assemble context | knowledge catalog | inputs that change between the stages of a workflow, a budget, files written in place | a bible rests on approved materials of one moment, a context on one bible |
| Novel director, `novel_director.py` | transcripts | chat | model | none | - |
| Novel operations, `novel_operations.py` | event log of one operation, chapter files | proposals, selection, buffer, confirmation, advance, export, restore | production batch, economic ledger, models | one advance writes a chapter, releases another and slides the window, and may stop after any of it | canon, window, digest and files agree; what is released was audited |
| Production batch, `production_batch.py` | `production/events.jsonl`, chapter files, release files | `submit`, `resume`, `revise_slot`, `assemble_release`, `publish_release`, `withdraw_release` | novel workflow, economic ledger, publication | memory and log written one after the other, keys that name a second, a crash inside a draft | accepted chapters stay, a release holds exactly them, one live release, the log explains the memory |
| Organization, `organization.py`, `root.py`, `contracts.py` | static documents | load, validate | all | none over time | well-formed structure |
| Executors and tools, `executors.py`, `business_executors.py`, `tools.py`, `permissions.py`, `research_browser.py` | artifacts | one call of one node | DAG runner | the outcome may be anything | permissions before effects |
| Communication, `communication.py`, `internal_ir.py` | audit file | translate, record | executors | none concurrent | nothing lost in translation |
| Trace, acceptance, evaluations, `trace.py`, `acceptance.py`, `external_evaluations.py`, `work_products.py` | documents | validate, record | orchestrator | none concurrent | verdicts follow the documents |
| Shell, `cli.py`, `doctor.py`, `compatibility.py`, `_hashing.py`, `src/scripts/` | none | parse, report, export | all | none | - |

Only part of this is modelled; section 7 says what is not and why.

## 2. Modules

```
DagTask                 what a DAG task promises
  ^ implemented by
DurableDag              the runner, its checkpoint, its pool, crashes
  MCDurableDag          plans for TLC
  DurableDagProofs      theorems
EconomicBudget          reservations and the governed calls that make them
  MCEconomicBudget
NovelStudio             materials, seed, bible, chapter context
  MCNovelStudio
Totals                  sums over sets, which both of these use
BudgetProofs            theorems about both: caps, holds, token budgets
ProviderCircuit         circuits, router, fallback
  MCProviderCircuit
  ProviderCircuitProofs
CeoTask                 gateway + orchestrator + task ledger of one task id
NovelOperations         rolling production: window, audits, releases, restore
RequestProofs           theorems about both, which requests of ceo_api.py start
ShadowAction            what the publication ledger promises of one action
  ^ implemented by
Publication             candidates, actions, leases, attempts, receipts
  MCPublication
  PublicationProofs
ProductionBatch         slots, revisions, releases of one batch
  MCProductionBatch
  ProductionBatchProofs
StateSpine              files, index, archives, restore
  MCStateSpine
  StateSpineProofs
NovelChapter            one chapter: spine run, runner, registry, economic facts
  NovelChapterProofs
```

**DurableDag** (`dag.py`). `disk` is the checkpoint, `mem` the `state`
dictionary, `future` and `abandoned` the pool. One action per stretch of
`run` between two points where something else can be seen: each `_save` is one
action, each collected future one, each node the refresh or the rollback visits
one. A crash may fall between any two. Executors may return any status, raise,
or hang, and so may `compensate`, which the runner calls on its own thread. **DagTask** is what a reader of the checkpoint may rely on; the
refinement maps node states that are not final to `pending`.

**EconomicBudget** (`economic_ledger.py`, `governed_dag.py`). `entry` holds the
ledger by idempotency key, `latest` the last state per reservation as
`_running_state` reads it, `cache` is `_reservations`. A call walks through
preflight (two reads), reserve, execute, commit (two appends) or release. `now`
is there because the payload of an entry contains its second, which decides
whether a repeated key is a replay or a conflict. A node is called again after an
exception, beside a call that timed out and runs on, and after a restart, in the
same second or a later one (`MayFollow`).

**ProviderCircuit** (`providers.py`). Operations of the health manager hold its
lock and are one action each. A request keeps its route (`choice`) and
`attempted` across them. Counters saturate at their thresholds, above which the
code does not tell values apart. One capability can degrade, and `Demanding`
says which requests need it. Whether there is a health store is chosen in the initial
state (`stored`): `create_runtime_app` gives its provider none (`ceo_api.py:1507`,
`providers.py:1048`), and then a restart forgets every circuit.

**CeoTask** (`ceo_api.py`, `orchestrator.py`, `executive.py`,
`task_ledger.py`). One task id and everybody who may run it: submissions to the
gateway, command-line processes, resumptions. `_persist` is two actions, event
and checkpoint. The ledger is the set of stages it has events for; the DAG is
one step with an outcome, since DurableDag shows what happens inside. `submit`
runs under the gateway's lock and is one action. A command may also be refused before
anything is written (`CheckNew`, `orchestrator.py:297-318`); the gateway then records
and announces a failure of which there is no checkpoint. The event
`execution-resumed` changes no state and is left out.

**Publication** (`publication.py`, `platform_adapter.py`). A service keeps the
events it has loaded and appends to a common log; a dispatch is cut where
`dispatch_shadow` and `_dispatch_locked` write: the action, the call of the
transport, the attempt, the receipt, the economic fact, the checkpoint. Leases
are values with the seconds they are valid in, and the transport may answer
anything. **ShadowAction** says that an action is settled at most once, never
changes its verdict, and has an economic fact only when it was accepted.

**ProductionBatch** (`production_batch.py`). `mem` is `_batches` and `_releases`,
`disk` what a replay of the events written so far yields, `keys` their
idempotency keys, some of which name the second. Operations hold the service's
lock, so a step is what lies between two writes and `op` tells how far the
holder is. The novel workflow is a step that accepts, blocks, or refuses
because a run of that number exists. The state string of the whole batch is
written for the reader and no operation looks at it, so it is left out, as are
the `running` marks no one sees under the lock; those that an exception leaves behind
(`DraftRaises`) are the variable `left`.

**StateSpine** (`state_spine.py`). The files are one set of variables, `index`
another, and every operation writes a file in one step and a row in the next.
Each thread has a spine of its own and nothing serialises them: a writer
registers, appends and checkpoints, a keeper recovers, rebuilds, exports,
archives and restores a run under `target`, a root that run has to itself. `recover`
reads the record of a snapshot, its checkpoint and the artifacts in steps of their own.
A restore of two runs under one root is not modelled. A fault is the death of one
thread between two writes, or the loss of the database.

**NovelChapter** (`novel_mvp.py`, with the keys of `economic_ledger.py`).
Composes what DurableDag and StateSpine show in full: the chain of nodes leaves
one node at a time, so the runner is a count of completed nodes and its
checkpoint `disk`; the spine is what the workflow keeps in it (`run`, `store`,
`evidence`). Every registration of the artifact node is a step, and the ledger
answers a known key with a replay or a refusal. A payload carries the second it
is made in, which is why the clock is there. Tasks in `Shared` have one group root, as
those of the mounted service have (`ceo_api.py:1535-1537`), so that one may find the
department bound to the run of another; the registry entry is written in place and a
crash may tear it.

**NovelOperations** (`novel_operations.py`, the audited release of
`production_batch.py`, the request handlers of `ceo_api.py`). A request replays
the log into `mem`, works on it, and appends all of it as its last act, so what
it writes elsewhere before that (a chapter file, a version fact, stored bytes, a
release) survives it. An advance is a step per such write. A crash may cut an append
short (`tail`), and a restore finds the shared folder under its root or not (`bare`).

**NovelStudio** (`novel_studio.py`, `novel_knowledge.py`). Everything runs on
one event loop. `busy` is the second of two files that are written without an
await; between the stages of a workflow anything else may happen, and what a
workflow has read before is in `mem`. `_load_skill` raises where a skill file is
missing; this checkout has no `skills` folder (`novel_studio.py:727-731`), so in it
bootstrap and bible take that path each time, and the model has both. Selection under the token budget is an
operator over every possible ranking. A crash leaves the file being written
unreadable (`torn`).

## 3. Runs

| Run | What it asks |
|---|---|
| `dag` | A chain, a node beside it and a join, two workers, a retry, timeouts, hanging executors, pauses, cancellation, rollback, a crash: dependencies, attempt budget, rollback, verdict, DagTask, and every task settles unless a compensation hangs. |
| `econ_parallel` | Two paid nodes, two workers, retries beside a running call or in the second of a restart, a call that costs less or more than estimated: bounded overrun, holds end, commits are charged. |
| `econ_race` | *violated*: two preflights pass on one remainder. |
| `circuit` | Three requests, two providers one of which only a single request may use, two probes to recover, a restart with or without a health store and a clock that may stop: refusals, rest periods, every request ends. |
| `ceo` | A command submitted twice, a command line with the same id, two resumptions, two crashes, commands refused before they begin: reports earned, announcements true, one execution, ledger ahead of checkpoint, every command reported, an interrupted one taken up again. |
| `publication` | Two actions of one candidate, two leases, retries, withdrawals, a crash: budget of calls, rate window, lease cap, effects grounded in what is on file, ShadowAction, no call after a withdrawn candidate. |
| `publication_crash` | *violated*: an acceptance can stay without its economic fact. |
| `batch` | Three slots, one optional, a refused draft, one that raises, revisions, a crash, two seconds: releases faithful and single, memory replayable, and the batch completes. |
| `spine` | A writer beside a keeper, and a death or a lost index anywhere: rows are backed, a quiet index agrees with the files, recovery and restore. |
| `chapter` | Two chapters whose calls interleave over one root and one ledger, a crash, which may tear the registry, or a changed request, a second that passes: accepted contents are earned, the registry is true, facts stay, every submission with a readable entry ends. |
| `operations` | Proposals to the third advance over a window of three, two faults of any kind, torn appends among them, a restore under another root: canon, window, digest, files and releases agree, the novel rolls on. |
| `studio` | Two bibles, a bootstrap and contexts over a project that changes under them, a crash in any write: bibles approved and of one piece, runs counted, contexts within budget and grounded in one bible. |

What the properties say is stated above each of them. Some are conjunctions of
named parts; each part has its comment, and a mutation of the code that breaks it
(in `PROJECT.json`, under the name of the conjunction):

| Property | Parts |
|---|---|
| `VerdictIsTrue` (`dag`) | `NoNodeLeftOpen`, `VerdictMatchesNodes`, `RollbackComplete` |
| `RecordsAgree` (`ceo`) | `LedgerExplainsCheckpoint`, `ReportIsEarned`, `AnnouncedTruly` |
| `BudgetsRespected`, `EffectsAreGrounded` (`publication`) | `CallsBounded`, `WindowRespected`, `LeaseRespected`; `FactsAreGrounded`, `CallsAreGrounded` |
| `ReleaseIsSound` (`batch`) | `OneLiveRelease`, `ReleaseIsFaithful` |
| `RestoreIsSound` (`spine`) | `RestoreAllOrNothing`, `RestoredIsWhole` |
| `AcceptedIsSound`, `RegistryIsTrue` (`chapter`) | `AcceptedIsEarned`, `AcceptedBounded`; `RegistryTruth`, `RestoredAgrees` |
| `WindowIsTrue`, `ReleasesAreAudited` (`operations`) | `WindowFollowsCanon`, `BufferIsOnFile`; `ReleasedAsAudited`, `AuditedOnce`, `ReleasesAhead` |
| `BibleIsSound`, `ContextIsSound` (`studio`) | `BibleIsApproved`, `BibleIsWhole`; `ContextFits`, `ContextIsGrounded` |

Every module has a type invariant, which documents the values its variables take
(`TypeOK`; `StudioTypeOK` and `OperationsTypeOK` in NovelStudio and NovelOperations,
whose names must not clash with those of the modules they are proved beside). The
runner's is a property of `dag` and a theorem, and those of EconomicBudget,
ProviderCircuit, CeoTask, Publication and NovelStudio are theorems too; those of the
other modules hold in their runs when the invariant is added. Except for the runner's
they are left out of the configurations, whose properties say more.

Where the code does not keep what one would first write down, the property names
the exception:

* `EveryTaskSettles` (DurableDag) leaves out a run that is inside a call of
  `compensate` (`dag.py:259`): it has no timeout, and one that hangs holds the run up.
* `OverrunBounded` (EconomicBudget) leaves out what a node spends whose retry was
  handed, within the second of its first call, the entry of a reservation since
  committed or released (`reused`); `NoLeakedHold` leaves out a completed call
  whose excess was refused. Both happen.
* `RestsAfterFailures` (ProviderCircuit) counts the failures of this process where
  there is no health store, as in the shipped runtime, and of all where there is.
* `AnnouncedTruly` (CeoTask) has a failure announced over a failed checkpoint or over a
  task of which nothing was begun.
* `WindowRespected` (Publication) leaves out actions that were resumed: rate limit
  and lease cap are looked at only when an action is created.
* `SlotsAreReplayed` (ProductionBatch) speaks of slots, and not of a `running` mark that
  an exception left. Releases do differ
  between memory and log: a second publication of a release has the key of the
  first, and a release assembled again within its second has the id of the one withdrawn.
* `VerdictMatchesNodes` (DurableDag) leaves out a task that was cancelled when all its
  nodes were completed, in a rollback that a crash cut short: run again without the
  cancellation, it is reported completed over nodes that were undone (`dag.py:292`).
* `AcceptedIsEarned` and `EverySubmissionEnds` (NovelChapter) leave out a task
  whose request file was changed under a running call: each node reads it anew.
  `EverySubmissionEnds` begins with the registry entry and leaves out a torn one.
* `DraftedOnce` and `RollsOn` (NovelOperations) leave out an operation that is
  `Stuck`: after a crash between the version fact and the release, the retry
  carries another second under the same key and is refused every time. `RollsOn` also
  leaves out a log that a crash tore and a restored root without the shared folder:
  neither can go on.
* `FilesFirst` and `QuietIndexAgrees` (StateSpine) leave out a department that two
  threads have been registering at once (`contested`), until the index is rebuilt and
  nobody registers it.
* `QuietIndexAgrees` (StateSpine) leaves out the row of the run, which
  `archive_run` writes after the file, and `RestoredIsWhole` speaks of exports
  taken while nobody writes.
* `RecoverFailsForCause` (StateSpine) has two causes beside a torn checkpoint: its writer
  has the snapshot still to write, or has written a newer one since `recover`, which
  takes no lock, read the old one.

**Bounds.** Crashes and other faults are capped at one or two: one to reach each
recovery path, a second, where it is affordable, to interrupt it. Four nodes
are a chain, a node beside it and a join of both. Two workers are enough for
two attempts of one node to overlap. Clocks are as long as a rest period and a
step more; two seconds are enough for a key to be repeated or not. Two actions
are what a rate window of one tells apart. A batch has at least three slots;
one of them is optional, since only required ones decide. The buffer of
NovelOperations holds three chapters, not the five of the code: three have an oldest, a
newest and one between, and three advances slide every one of them out.
Two kinds of evidence stand for the four of NovelChapter, registered by the same
loop. One writer and one keeper suffice in `spine`, since each task has one
writer and a second task changes no file of the first; what writers do share, the
department of a root, is left to the proofs, which have any number of writers. In NovelChapter
one of the two chapters, `Disturbed`, is also paused and may have its request changed;
the other is interrupted by crashes only. In NovelStudio two materials give bibles with
different sources, and the budget admits some rankings and not others. Where a count
could matter beyond these (attempts, requests, plan size) the property is proved instead
of enlarged; `FallbackIsBounded`, at most `MaximumAttempts` distinct providers for each
request, is only proved.

**One service and more.** `ceo_api.py` opens a service per request, for publication, the
batch and novel operations, and nothing keeps two apart. Each decides on the events it
has loaded, so with two at once `BudgetsRespected`, `ImplementsShadowAction`,
`NoCallOnceWithdrawn` (`publication`), `WindowIsTrue`, `ReleasesAreAudited` and
`DraftedOnce` (`operations`) are false: a budget is spent twice, an action settled
twice, a chapter drafted twice. `publication`, `operations` and `batch` therefore have
one service or one request at a time, and what they show holds of requests that follow
one another, over crashes. What survives services beside each other is proved for any
number of them (section 5): facts and calls rest on events that are on file
(`EffectsAreGrounded`, which `publication` also checks), every event of an operation is
one whole operation (`EventsAreWhole`), and nothing is released unconfirmed
(`ConfirmedFirst`). The last two are theorems without a run: for one request at a time
their parts are parts of what `operations` checks. Two calls on one chapter are not
modelled.

**Symmetry** is used in `publication`, over its two actions, which have the
same candidate, in `econ_parallel`, over nodes of one category and estimate, and
in `studio`, over materials and the runs of the bible, which
are only compared; none of them has a liveness property, and the action properties
treat all members alike.

**Deadlock checking** is off where behaviours end: a settled task, an ended
request, a novel after its last advance, a project whose file is torn and a
stopped bounded clock have no further step.

## 4. Fairness

* DAG: `WF(RunnerStep)`, the runner's own thread. Its waits end because
  `future.result(timeout)` raises, so neither the pool nor an executor is
  assumed to make progress, and nobody is assumed to call `run` again. There is no
  fairness on a step that waits for `compensate`, which has no timeout.
* Circuits: each request's thread runs, and a call of an adapter returns since
  every adapter has a timeout. No fairness on the clock.
* CeoTask: each thread runs; the DAG run inside it returns, which is
  `EveryTaskSettles` of DurableDag: a compensation that hangs is assumed away here. A resumption is attempted when it can be:
  `InterruptedIsResumed` says that it then comes to something.
* ProductionBatch: an operation that holds the lock runs on, the batch is
  submitted, and it is resumed again and again while it is not complete. The
  last is strong fairness, since another operation may hold the lock. The quality gate
  refuses a bounded number of drafts, which the code does not promise:
  `BatchCompletes` says that nothing else stands in the way.
* NovelChapter: a call that runs goes on, and an open task is resumed while it is
  open (`EverySubmissionEnds`).
* NovelOperations: a request that is served goes on, and the owner goes on asking
  (`RollsOn`); drafts are bounded, which only ends the asking.
* Publication, StateSpine, NovelStudio, EconomicBudget: no liveness, nobody is
  bound to come back.

## 5. Proofs

All proofs are machine-checked with no step left open. Each theorem holds for every
value of the constants that its module's named assumption allows (a plan is acyclic,
thresholds are positive, ranks are distinct, bounds are numbers) and, where it has one,
under the hypothesis named with it.

| Module | Theorems | Hypothesis |
|---|---|---|
| `DurableDagProofs` | `TypeCorrect`, `DependenciesFirstHolds`, `SettledForeverHolds`, `AttemptBudgetHolds` | |
| | `VerdictIsTrueHolds`, `RollbackOrderHolds`, `ImplementsDagTaskHolds` | `InOrder` |
| `BudgetProofs` | `BudgetTypes`, `NoLeakedHoldHolds`, `CommittedIsChargedHolds`, `OverrunIsBounded` | |
| | `StudioTypesHold`, `BibleSoundHolds`, `CountsTrueHolds`, `ContextSoundHolds` | |
| `ProviderCircuitProofs` | `RestsAfterFailuresHolds`, `FallbackIsBoundedHolds`, `RefusedForCauseHolds`, `CircuitTypes` | |
| `RequestProofs` | `RecordsAgreeHolds`, `ExecutedOnceHolds`, `TaskTypes`, `EventsAreWholeHolds`, `ConfirmedFirstHolds` | |
| `PublicationProofs` | `PublicationTypes`, `EffectsAreGroundedHolds` | |
| `ProductionBatchProofs` | `SlotsAreReplayedHolds`, `ReleaseIsSoundHolds` | |
| `StateSpineProofs` | `FilesFirstHolds`, `QuietIndexAgreesHolds`, `RestoreIsSoundHolds`, `RecoverFailsForCauseHolds` | |
| `NovelChapterProofs` | `AcceptedIsSoundHolds`, `RegistryIsTrueHolds`, `FactsAreKeptHolds` | |

**DurableDagProofs.** Dependencies first is not inductive, since it speaks of
the checkpoint while calls start from memory. `CoreInv` adds that what the
checkpoint holds as final is in memory as final too, that the statuses in
memory run ahead of it only forwards, and that a queued or running future has its
dependencies in the checkpoint. Compensation is why the invariant speaks of
`completed` and `compensated` together. For the budget of attempts, `BudgetInv`
relates three counts of a node: calls begun, attempts in memory and attempts in the
checkpoint. Memory is at most one ahead, and only between a launch and its save, so
a crash takes back at most one. For the verdict, `VerdictInv` says at each place of
the loop which nodes have been looked at and what holds of them, and that memory and
checkpoint differ in one node of the rollback at most; the refinement of DagTask
follows from it. `InOrder` says that a plan lists a node after its dependencies:
`_refresh_readiness` makes one pass in the order of the plan, and without it the
verdict is wrong (section 6).

**BudgetProofs, EconomicBudget.** That holds end and commits are charged does not depend
on what preflight allows. `HoldInv`
says that a reservation the ledger has as active was neither committed nor released,
so that nothing refuses its release; `OwnerInv` gives it a call that has not settled
it yet, and `LockInv` and `ChargeInv` cover the moment between the two appends of a
commit. `OverrunBounded` does depend on it. `OverInv` says that in each category there
is a set of readers whose decisions may come too late: any other reader has read so much
that it will be refused, and if all of the set reserve, what is spent, held and about to
be charged (`Tally`) is over the cap by no more than the estimates of `Workers - 1` calls.
A reading that still finds room starts the set anew with all who read; a decision takes
its call out of it. A node whose key is known adds nothing by reserving again, so only
nodes never reserved count for what is to come (`Fresh`), also when a retry runs beside
its first call; `SettledInv` says that the cache and the ledger agree on which holds are
active, but for the nodes handed a settled one. `ExcessInv` says that a cost above its estimate fits under the cap
while it is being committed. The sums are folds over sets (`Totals`): that adding a member
adds its value, and what follows for subsets and for bounded members, is proved once and
the rest is arithmetic on those facts.

**BudgetProofs, NovelStudio.** `PlaceInv` and `PartsInv` say which parts of a bible a run
holds at each stage and what they were made from, `CountInv` by how much the counts of
`project.json` and the runs differ while one is being recorded and after a crash, `QueryInv`
and `JobsInv` what a context has read and written. The trimming of a context goes through
the ranked snippets one by one (`Chosen`): that this recursion has a solution, and that at
each place what was left out does not fit and never will (`Fits`), is proved by counting
up the places.

**ProviderCircuitProofs.** `RestInv`: the manager's count is at least the number of
failures since the last success, and a provider at the threshold is open until its
rest is over, or half open after it. `FallbackAll`: calls are within `attempted`, which
grows by one provider per turn and only below the bound. `CauseInv`: a provider that
was attempted was called or seen out of service, and while a request looks for a
route, an open circuit is one it has seen shut or one whose rest is not over. Without a store a restart
begins the count anew. The types
(`CircuitTypes`) include that an open circuit has a time at which it may be tried again.

**RequestProofs, CeoTask.** The event of a stage is written before its checkpoint (`EventFirst`),
which holds for any number of processes. The rest is about runs that follow one
another (`OneAtATime`, a condition of the properties themselves): one run at most is
live, the gateway's record stands for it, and it has found no task before it unless
it is a resumption; a run refused before it wrote anything leaves none behind.

**RequestProofs, NovelOperations.** Each event is a copy of the whole operation, so what
the log holds depends on what a request read, what it did to its copy, and what others
wrote meanwhile. `EventInv` speaks of the log and of each copy, and of nothing they have
in common: both are `Shaped` (a buffer of the chapters after the canon, a canon in order,
a digest of the buffer, one audit per chapter), and a copy that was advanced has one audit
more. It is inductive for any number of requests, since a request changes only its own
copy and appends it whole; `EventsAreWholeHolds` follows. `ConfirmInv` adds that a
confirmed copy comes from an event that was confirmed: whichever requests overwrite
each other, only a copy that is confirmed advances (`ConfirmedFirstHolds`).

**PublicationProofs.** `GroundInv` is about any number of services: what a service has
read is on file (`SeenIsOnFile`), in every log a receipt follows the creation of its
action (`ReceiptsFollow`), and an operation at work on an action has read its creation
and no receipt of it. Of what other services append meanwhile it says nothing, and
nothing is needed: a fact is bound only behind the receipt the service itself wrote.

**ProductionBatchProofs.** An event is dropped when its key is known, and some keys name
only the second. `BatchInv` therefore says what each known key tells of the log:
after an attempt's key, that there are that many attempts; after the key of a slot's
status, that the slot has that status or is accepted, which no operation touches; after
the key of a withdrawal, that the release is not live. Memory and log agree on the slots
after every step, and on releases in one direction: what is live in the log is live in
memory, so that an assembly that finds none in memory makes the only one. Of the
operation that holds the lock the invariant says what it has written so far, so that an
accepted slot has its facts, its content and its attempt when its status is recorded.
`LeftInv`: a slot that an exception left `running` has no accepted draft.

**StateSpineProofs.** `SpineInv` has one invariant per table of the index: rows are at most
what the files say, and while nothing was lost they differ only in what a thread between
its two writes is about to write. Nothing is assumed of who registers what: a department
is `contested` from when a second thread begins to register it, and `MemberInv` speaks
of the others. `RecoverInv` says that what `recover` has read is overtaken by later
snapshots only, and that the contents it has listed stay.

**NovelChapterProofs.** Tasks share only the ledger, which only grows, so the invariant is
about one task, and a step of another leaves it alone (`Frame`). `TaskInv` goes with a
task from stage to stage: where its operation is, what the checkpoint holds by then, that
every accepted content was earned, how many there are against crashes, which facts its
artifact has, and what the registry may say.

**Only model-checked.** Liveness and what depends on it are out of the prover's reach
(`EveryTaskSettles`, `EveryRequestEnds`, `EveryCommandReported`, `InterruptedIsResumed`,
`BatchCompletes`, `EverySubmissionEnds`, `RollsOn`). The properties that are true of one
service only (`BudgetsRespected`, `ImplementsShadowAction`, `NoCallOnceWithdrawn`,
`WindowIsTrue`, `ReleasesAreAudited`, `DraftedOnce`) are left to their runs: a theorem
about them would need an assumption that the HTTP service does not keep. Every other
property of a passing run is stated by a theorem. So are the type invariants named in section 3; those of
ProductionBatch, StateSpine, NovelChapter and NovelOperations were only model-checked,
their invariants in the proofs carry the types they need. The induction theorems of the
library take an operator and no installed prover can use them; where a proof needs
induction over data (the places of a ranking, the largest of a set of estimates) it takes
the least counterexample instead (`WFMin` on the naturals), a first-order argument.

## 6. Disagreements between code and documents

Each is a run whose property restates a sentence of the repository; the sentence
and the lines are in `PROJECT.json` under `findings`.

* `reserve` decides outside the lock and two threads overdraw a cap (`econ_race`).
* A crash after an accepted receipt leaves it without its economic fact for
  good (`publication_crash`).

Seen in the models without a run of their own:

* A crash between `dag-node-finished` (`dag.py:374`) and the checkpoint has the
  node executed again, against `state_spine.py:14`; `AttemptBudget` bounds it.
* A cancelled task whose rollback a crash cuts short ends `completed` over compensated
  nodes when it is run again without the cancellation.
* A task interrupted in a state other than `execute` is refused by every resumption,
  and a command still in the gateway's queue is lost in a restart.
* A `compensate` that hangs holds the runner's own thread, and the run never ends.
* The circuits of the shipped runtime, which has no health store, are forgotten in a
  restart.
* `future.cancel` does not stop a running call: a retry can run beside it.
* A late retryable failure closes a circuit that a non-retryable one has opened.
* `is_archived` asks the index: once it is lost, an archived run takes writes until
  `open_run` or a rebuild.
* The guard of `novel_mvp.py:940` against a second accepted artifact never refuses, and
  a crash between `create_run` and the registry, or in the write of the registry entry
  (`novel_mvp.py:1000-1003`), loses the submission for good.
* Under one group root the department of the first chapter's run refuses every other
  (`state_spine.py:741-745`), and what refuses it leaves the file of the run behind. The
  mounted novel service has one root for all its requests (`ceo_api.py:1535-1537`).
* The verdicts of audits and of the targeted review hold nothing back
  (`novel_operations.py:1435`).
* A restored novel names releases that the export did not take along, and under a new
  root it can be read and confirmed but never advances: `shared/` and
  `runtime/novel-studio` are not in the export (`novel_operations.py:1666-1725`).
* An append to an event log cut short by a crash makes every later request refuse the
  log, in novel operations (`:481`), where it is modelled, and in publication (`:138`)
  and the batch (`:515`), where an append is one step.
* Of two assemblies the one that ends last is the current bible, and two contexts
  under one job write the same files.
* A plan listed dependents first can end `failed` with a node still `waiting`.
* A retry within one second executes under a reservation the ledger has committed or
  released, and what it spends is outside every cap.
* A completed call whose excess is refused leaves its reservation active.
* Two processes given one task id can both execute it.
* A withdrawn action without a receipt can still be resumed and accepted.
* A second publication of a release is not in the log and a restart forgets it.
* `register_department` (`state_spine.py:725-754`) looks for the department and then
  writes it, without a lock: two runs that register one name at once leave a file of the
  second and a row of the first. The drafts of a batch have a root each and do not meet
  it; the requests of the mounted novel service share one and can.
* A draft of a batch that raises leaves its slot `running` in memory; the next resume
  takes it up.

## 7. Not modelled, and the plan

What is left, by the weight of the behaviour:

1. Export, restore and rebuild of publication and batch.
2. `TaskGraph`: the ordered gates of `task_graph.py` and `semantic_planner.py` as an
   operator, against a reference definition.
3. The legacy budget and its place in the governed executor; company events as a
   file, with sequence numbers and torn lines.
4. Two services of one batch at once, as far as properties survive them, and appends
   of publication and batch that a crash or a full disk cuts short.

Not planned: HTTP adapters and routes, SQLite itself, browsers, document
validators, static organization data, scripts. They are input and output, or
pure functions of documents with no behaviour over time. What the executors of a node
compute is an arbitrary outcome in DurableDag.
