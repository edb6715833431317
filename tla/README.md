# Maxwell Daemon in TLA+

A verification project for `src/maxwell_daemon` and its merge scripts: TLA+ modules
translated from the Python source, TLC configurations that model-check them on
small instances, and theorems about the task daemon, the fleet coordinator, what a
run goes through, what agents change, records and the services around the daemon that
the TLA+ proof system checks for every value of the constants.

| file | what it is |
|---|---|
| `TaskDaemon.tla` | the standalone task daemon: submission, bounded queue, workers, execution, stalls and retries, operator requests, retention, crash and recovery |
| `TaskPromise.tla` | what the daemon promises of a task, as its durable record shows it (abstract); `TaskDaemon` ends with the mapping under which it implements it |
| `TaskDaemon_proofs.tla`, `TaskDaemonSafety_proofs.tla` | the inductive invariants of `TaskDaemon`, the theorems, and the refinement |
| `FleetCoordinator.tla` | the coordinator role: the dispatch tick over a fleet of machines and a network that loses and delays messages |
| `FleetCoordinator_proofs.tla` | its inductive invariant and the theorems |
| `WorkerPool.tla` | what `TaskDaemon` takes as one step: scaling with stop sentinels and both kinds of stop, the steps of a put from another thread |
| `BackendCalls.tla`, `GateRuntime.tla`, `SandboxChecks.tla`, `SshPool.tla`, `PromptContext.tla` | what a run goes through |
| `Execution_proofs.tla` | the invariants of these components but the last, and the theorems about them together |
| `ActionLifecycle.tla`, `DelegateSessions.tla`, `IssueRun.tla`, `AgentLoop.tla`, `MergeGuard.tla` | what a run changes, up to the merged pull request |
| `Changes_proofs.tla` | the invariants of `ActionLifecycle` and of both halves of `DelegateSessions`, and the theorems about them |
| `AuditLog.tla`, `RepoMemory.tla`, `WorkRecords.tla`, `StateBackup.tla`, `TaskGraphRun.tla`, `ToolCalls.tla`, `MemoryUpkeep.tla` | records |
| `RequestLimits.tla`, `Choices.tla` | decisions: requests, nodes, backends, budgets, models |
| `Planning.tla`, `Evidence.tla` | what goes before a task, and evidence about the agents |
| `Stores_proofs.tla` | the invariants of `WorkRecords`' workspaces and of `TaskGraphRun` behind the theorem about them |
| `Webhooks.tla`, `ApiClients.tla`, `Discovery.tla`, `RunBudget.tla`, `ControlPlane.tla`, `GithubAccess.tla`, `Launch.tla`, `Histories.tla` | the services around the daemon |
| `Services_proofs.tla` | the invariants of these services and the theorems about them together |
| `CountingLemmas.tla` | lemmas those proofs share: least elements, largest elements, sums and unions over finite sets, sequences |
| `MCTaskDaemon.tla`, `MCExecution.tla`, `MCChanges.tla`, `MCStores.tla`, `MCServices.tla` | instances for TLC |
| `*.cfg` | one configuration per run |
| `PROJECT.json` | components, runs, mutants, map to the source, findings, hazards, theorems |

Run `tlc -config TaskDaemon_safety.cfg MCTaskDaemon` for a run (the table below names
module and configuration of each) and `tlapm M.tla` for the proofs of a module `M`
whose name ends in `_proofs`, and of `CountingLemmas`.

## The system

Maxwell Daemon accepts coding tasks (prompts and GitHub issues), queues them, and
runs them with language-model backends on a few workers, on one machine or spread
over a fleet. The core of the program is `daemon/` with `core/task_store.py`; the
rest are collaborators of a run, records of what was done, or services around it.

### Inventory

**Task daemon** (`daemon/runner.py`, `submission.py`, `worker.py`,
`maintenance.py`, `retry_policy.py`, `task_models.py`).
*State*: `_tasks` (live task objects by id), `_queue` (a bounded
`PriorityQueue` of `(priority, task)`), the worker coroutines,
`_active_execution_tasks`, `_stalled_task_ids`, background loops.
*Operations*: `submit`, `submit_issue`, `submit_threadsafe`, `submit_issue_ab`,
the worker loop (claim, mark RUNNING, execute, save), `cancel_task`,
`retry_task`, `waive_task`, `reprioritize_task`, `set_worker_count`, stall
reconcile loop, retention loop, live eviction loop, `start`, `recover`, `stop`.
*Interaction*: API handlers call it on its event loop, other threads through
`call_soon_threadsafe`; it writes every status change to the task store and
publishes events. *Hard*: puts deferred past the reply, a bounded queue that the
consumers also put into, cancellation racing the end of a run, store writes that
fail half-way through a transition, eviction from memory while dependents wait,
crashes between writes. *Correct when*: a task runs on one worker at a time, is
never lost, is not rerun after a side effect, is retried within its budget, runs
after its dependencies and within its kind's cap, and what is on disk agrees with
memory.

**Task store** (`core/task_store.py`). *State*: one SQLite row per task.
*Operations*: `save`, `update_status`, `delete`, `prune`, `recover_pending`, all
atomic; each may fail. *Correct when*: a restart finds every queued task and
fails every interrupted one.

**Fleet coordinator** (`daemon/fleet_coordinator.py`, `fleet/*`). *State*: tasks in
DISPATCHED with a machine name, heartbeats, per-machine clients. *Operations*: the
dispatch tick (probe, requeue stale, plan, submit, mark). *Hard*: lost replies,
stale snapshots across awaits, machines that come back. *Correct when*: a task
runs on one machine, capacity is respected and released, an unreachable machine's
tasks are taken over only when safe.

**A run's collaborators.** A semaphore per backend with retries on rate limits
(`backends/concurrency.py`), tool loops of two backends with a message history
that is condensed (`backends/agent_loop.py`, `ollama_agent_loop.py`,
`condensation.py`), external agents loaded from plugins (`external_adapter.py`,
`external_plugins.py`), a pool of SSH sessions (`ssh/session.py`), the outline,
sections and file packs of a prompt (`gh/context.py`, `gh/repo_schematic.py`,
`context/packs.py`), gates, gauntlets and critics with the sandboxed commands
behind them (`core/gates.py`, `gauntlets.py`, `critics.py`, `sandbox/`). *Hard*:
calls that hold a slot while the limit changes, critics that time out while others
end, one lock over all hosts, evidence shared by gates. *Correct when*: slots,
sessions and evidence have one owner, and a verdict is earned.

**Changes** (`core/action*.py`, `reverter.py`, `tools/`, `core/delegate_lifecycle.py`,
`gh/executor.py`, `gh/workspace.py`, `editing/diff_formats.py`,
`scripts/automerge_guard.py`, `scripts/requeue_stalled_merges.py`,
`executor/pr_merge_daemon.py`). Actions with an approval status machine, sessions
under leases, the run of an issue from a checkout to a draft pull request, the
edits in a model's answer, and the merge of the pull request. *Hard*: crashes between
an effect and its record, two owners of one session, a working tree left dirty, a
pull request that moves under the guard. *Correct when*: a tool that has the action service does
nothing without approval and flag, nothing is pushed untested, nothing merged past a reviewer's hold.

**Records** (`audit.py`, `core/work_item*`, `workspace*`, `artifacts.py`, `backup.py`,
`memory/`, `core/memory_annealer.py`, `fleet/memory.py`, `director/task_graph*`,
`tools/mcp.py`, `hooks.py`, `session/log.py`, `conversation/store.py`). *Hard*:
files and rows written one after the other, with crashes, failed writes and second
writers between. *Correct when*: what is recorded is true and can be read back.

**Decisions** (`api/rate_limit.py`, `fleet/capabilities.py`, `core/resource_broker.py`,
`core/budget.py`, `router.py`, `token_budget.py`). Choices made from
snapshots that age and budgets others spend from meanwhile.

**Services** (`gh/webhook.py`, `triggers/`, `cli/issues.py`, `cli/batch_dispatch.py`,
`api/routes/*`, `core/auth_session_store.py`, `daemon/scheduler.py`, `gh/discovery.py`,
`events.py`, `gh/client.py`, `tools/gh_proxy.py`, `launcher.py`, `config/loader.py`,
`daemon/single_instance.py`). *Hard*: repeated deliveries, lost answers, clocks that
jump, clients that are slow or gone, processes that share a storage root. *Correct
when*: what is asked for is done once, and what a client is told is so.

**Planning** (`director/`, `core/cross_audit.py`, `recipes.py`, `core/template_store.py`) and
**what equips a run** (`core/cost_alerter.py`, `cost_evaluator.py`, `model_routing/`,
`mcp/client/`, `daemon/workspace_hooks.py`, `gh/workspace.py`, `evals/`, `tdd_gate.py`).
*Hard*: plans with cycles and duplicates, issue numbers known only as they are created,
months that turn over between two alerts, catalogues searched under three criteria at
once, tools copied while servers are still being connected, a clone whose preparation
failed. *Correct when*: a plan is carried out whole or refused, a model can do what is
required and is paid for, and a clone that could not be prepared fails the attempt that
made it.

`PROJECT.json` lists every component with its status, and under `hazards` what
in this code is hard to test, each at its line.

## Runs

| run | module and configuration | properties | expected |
|---|---|---|---|
| `task_safety` | `MCTaskDaemon`, `TaskDaemon_safety.cfg` | `TypeOK`, `ExclusiveExecution`, `OneEntryPerTask`, `StoreAgrees`, `NoSilentRerun`, `RetryBudget`, `NothingStranded`, `RoomForRequeue`, `CompletedIsFinal`, `KeepsPromise` | hold |
| `task_scheduling` | `MCTaskDaemon`, `TaskDaemon_scheduling.cfg` | `DependenciesMet`, `KindCapRespected`, `RoomForRequeue`, `UrgentFirst` | hold |
| `task_liveness` | `MCTaskDaemon`, `TaskDaemon_liveness.cfg` | `EventuallySettled`, `QueuedWorkIsNotLost` | hold |
| `fleet` | `FleetCoordinator`, `FleetCoordinator_fleet.cfg` | `TypeOK`, `PlacementIsReal`, `DoublePlacementIsExplained`, `CapacityRespected`, `CancelIsKept` | hold |
| `execution` | `MCExecution`, `Execution_components.cfg` | `ExecutionTypeOK`, `WorkIsHandedOnce`, `VerdictsAreEarned`, `TextsAreFaithful`, `WorkEnds` | hold |
| `changes` | `MCChanges`, `Changes_components.cfg` | `ChangesTypeOK`, `EffectsAreAccounted`, `SessionsAreContinued`, `ChangesAreJudged`, `ChangesStand` | hold |
| `stores` | `MCStores`, `Stores_components.cfg` | `StoresTypeOK`, `HistoryIsKept`, `ChoicesAreSound`, `RecordsMoveLegally` | hold |
| `services` | `MCServices`, `Services_components.cfg` | `ServicesTypeOK`, `RequestsAreHonoured`, `WhatIsKeptIsTrue`, `ServicesMoveOn` | hold |
| `retry_requeues` | `MCTaskDaemon`, `TaskDaemon_retry.cfg` | `RetriedIsScheduled` | violated |
| `lock_order` | `MCExecution`, `Execution_lock.cfg` | `LoopIsNotHeldUp` | violated |
| `fleet_probe` | `FleetCoordinator`, `FleetCoordinator_probe.cfg` | `EventuallyPlaced` | violated |
| `actions_stalled` | `ActionLifecycle`, `Actions_stalled.cfg` | `SideEffectsEndRetries` | violated |

`execution`, `changes`, `stores` and `services` each check several components
that share no state in the code, or none the properties speak of. A behaviour of such a
run picks one component (`active`) and the others stay as they start, so TLC
explores the sum of the state spaces, not their product, and a run's
property is the conjunction of its components' properties. The interactions that
do matter are inside one module: actions with the stall retry
(`ActionLifecycle`), an issue's run with the task's retries (`IssueRun`), scaling with
the queue (`WorkerPool`), the control plane with the worker (`ControlPlane`), runs
with the ledger and the reload (`RunBudget`), the guard with the shepherd and
the requeue script (`MergeGuard`).

Every property of a passing run has a mutant in `PROJECT.json`: a definition with a
plausible bug under which TLC finds the property violated. Besides, each
conjunct of a conjunction has a mutated form of its own next to the definition it
changes, commented "Mutated form of ...", under which that conjunct fails in
the same instance.

Deadlock is not checked: every component may have nothing to do, or have used up
its bound.

## TaskDaemon

### How the model corresponds to the code

| variable | code |
|---|---|
| `mode` | the process runs, or is down between a crash or stop and the next start |
| `obj[t]` | the `Task` object: status, priority, `retry_count`, `side_effects_started`; it outlives its removal from `_tasks`, as queue entries and workers still refer to it |
| `live` | the keys of `_tasks` |
| `row[t]` | the row in SQLite |
| `queue` | the entries of `_queue` |
| `pending` | entries on their way: callbacks of `call_soon_threadsafe` that will put one, `how` saying whether the loop itself, a waiting thread, or a thread already refused stands behind it; and what a worker's `queue.get` has taken for it or its `queue.put` has no room for (`how` is the worker) |
| `delayed` | `_delayed` coroutines asleep in a retry backoff |
| `deferred` | the local list `deferred` of `_claim_next_queued_task` |
| `pc`, `cur` | where each worker coroutine is, and the task in its hand |
| `granted`, `affected`, `faults`, `crashes` | history: operator retries, runs that reported a side effect, failed writes, crashes |

The daemon is one asyncio event loop. A coroutine gives up the loop only where it
really suspends, so an action of the model is the code between two such points,
with every store write in it. Some stretches without a suspension contain
several store writes, and a crash or another thread may fall between them; these are
split into actions, and `HoldsLoop` names the worker states in which no other
coroutine may run. `LoopFree` guards everything else that runs on the loop.
Only thread submissions (`SubmitFromThread`, `RollBack`) and crashes ignore it.

| stage | actions | code |
|---|---|---|
| submission | `SubmitOnLoop`, `SubmitFromThread`, `PutEntry`, `FailSaturated`, `RejectPut`, `RollBack` | `submission.py`, `_fail_saturated_task` |
| claim | `Take`, `SkipStale`, `FailDependent`, `Defer`, `Claim`, `EndDrain`, `EndDrainWaiting`, `PutBack` | `_claim_next_queued_task`, `_restore_deferred` |
| run | `MarkRunning`, `RequeueUnmarked`, `RequeueWaiting`, `StartExecution`, `AbandonExecution`, `MarkSideEffects`, `FinishExecution`, `SaveOutcome` | `_run_one_task`, `_execute`, `mark_task_side_effects_started` |
| stall | `CancelStalled`, `Unwind`, `FailStalled`, `RequeueStalled`, `BumpRetry`, `EndBackoff` | `_reconcile_stalled_runs`, `_handle_stalled_task`, `retry_policy.py` |
| operator | `CancelTask`, `RetryTask`, `Reprioritize` | `cancel_task`, `retry_task`, `reprioritize_task` |
| retention | `Evict`, `Prune` | `_live_eviction_loop`, `aprune_retained_history` |
| restart | `Crash`, `Recover`, `RecoverFails` | `stop`, `start`, `recover`, `recover_pending` |

Claims: the worker pops entries in priority order and either drops, fails, sets
aside or claims each; the entries set aside return when it claims one or
finds the queue empty. The order of entries is the heap's: the entry's own priority, then
`Task.__lt__` on the task's current priority; creation time is left open.

Store writes are `Save` (the whole object) and `UpdateStatus` (the status
alone). `SaveOrLose` is a write whose failure the code logs and swallows;
where the code reacts to a failure there is a separate action with `StoreFault`.

### The promise

`TaskPromise` says what somebody who reads only the task table may see: a status
per task, whether the work has had an effect no operator has waived, and whether a
write has been lost. A task starts only from `queued`, completes only from
`running`, never leaves `completed`, comes back to `queued` by itself only without
an effect, and a start of the daemon fails exactly what was running. After a lost
write the record may lag, and the outcomes other than completion may come in
another order (`From`); a start and a completion still may not.

`TaskDaemon` maps `status` to the rows, `spoiled` to `affected \ granted`
and `lossy` to `faults > 0`. Moves of queue entries, claims, backoffs and whatever
else lives in memory only are stutters. The mapping holds because each write of a
row follows the object, and the object is kept by one worker at a time.

### Assumptions

- `GetSuspends` says which Python runs the daemon (`pyproject.toml:10` allows 3.10 and
  later). From 3.12 on `wait_for(queue.get())` takes an available entry without
  suspending (`FALSE`: the worker takes and decides in one step). Up to 3.11 the getter
  runs in a task of its own, and other coroutines run while the entry is in flight
  (`TRUE`: `Take`, then the decision). `get_nowait`, by which a drain goes on once it has
  set something aside, never suspends. The theorems hold for both.
- API handlers are coroutines of the daemon's loop, and
  `EventBus.publish` does not suspend.
- A cancelled execution raises `CancelledError` at its next step; backends that
  swallow it are not modelled. Elapsed time is not modelled: a stall, a
  retention age or the end of a backoff may come at any moment.
- `finished_at` is stamped no later than the worker lets go of a task, and retention ages
  are longer than the tail of a run, so what a worker still holds is not evicted
  or pruned.
- A row is pruned days after its task was settled, so after every put and
  backoff that was scheduled for it.
- A task id is not reused while an object or row of that id exists
  (`_reject_duplicate_task_id` looks at live memory and at the store).
- `Crash` stands for a killed process and for `stop(drain=False)`.

### Bounds

`MaxFaults` (failed writes), `MaxCrashes`, and `Retryable` with one operator
retry per task bound what the environment does; they are constants of the
specification, so the theorems hold for all their values. Ids return to use
only after a roll-back or a prune, which keeps the state space finite.

### Instances

| run | instance |
|---|---|
| `task_safety` | 2 tasks (one depends on the other), 2 workers, 2 priorities, depth 1, 1 retry, 1 operator retry, 2 faults, 1 crash, eviction, pruning |
| `task_scheduling` | 3 tasks after one that has completed (three dependencies, two of a kind capped at 1), 2 workers, 2 priorities, depth 2, eviction |
| `task_liveness` | 2 tasks (one depends on the other), 2 workers, depth 2, 1 retry, 1 crash, fairness |

Two tasks on a queue of depth 1 are enough for every saturation case: a put that finds
the queue full, a thread refused, a retry that finds its place taken. Two workers
are enough for every race over one task. `GetSuspends` is `TRUE` in the three of them, the case
with more interleavings; what `RoomForRequeue` says for `FALSE` is proved (`Room`). Three tasks are
needed for a claim that passes over one entry to take another while a third waits, and for a drain
that sets aside more than the queue has room for. `task_scheduling` starts when a fourth task, on
which two of the three depend, has completed and may be evicted (`SpecLater`, from a state that
every daemon with such a task can come to). In `task_liveness`
there is no symmetry, as it is unsound for liveness; its queue is as deep as there
are tasks, because with more rows than places the daemon does not
come up at all, and because with fewer a worker may wait for room for ever (both see below).

### What the code does not do

`retry_requeues`: `retry_task` puts nothing on the queue, so a task an operator
retries waits for the next restart (`runner.py:912`, against `runner.py:899`).

Visible in the model, without a run of their own (the properties they break are stated at the end
of `TaskDaemon.tla`):

- Where `queue.get` suspends, producers may fill the queue between the get and the put by which a
  worker returns a task whose RUNNING write failed, or the last entry it had set aside. The worker
  then waits for room; once every worker does, no one is left to make any (`worker.py:74`,
  `runner.py:377`), and against `worker.py:57-58` the task is not retried: one worker, two tasks, a
  queue of depth 1 and one failed write are enough (`UnmarkedIsRetried`). The docstring of
  `_restore_deferred` knows of the race (`runner.py:366-371`) and awaits the put so that nothing is
  dropped. `RoomForRequeue` says how far it goes: with what a drain set aside the queue is one entry
  over its depth at most, and from Python 3.12 on not at all.
- A dependent whose dependency was evicted from live memory is deferred for ever
  (`runner.py:400`, against `SPEC.md:86-93`), and so is one whose dependency was
  pruned or, settled, is not recovered.
- With more queued rows than `max_queue_depth` the daemon never starts
  (`runner.py:583`, against `task_store.py:4-5`).
- With an operator retry, a changed priority has two workers run one task
  (`runner.py:1023`, against `runner.py:1004-1006`).
- The second entry that a changed priority puts may find the queue full: its task is then failed,
  also when a worker runs it by the first entry (`FailSaturated` after `Reprioritize`).
- A cancelled task turns `failed` when its deferred put finds the queue full
  (`FailSaturated`, `submission.py:70`).
- After a failed second RUNNING write the task stays running in no worker's hand
  (`AbandonExecution`, `worker.py:100`).
- A claim goes by the priority of the entry, which `reprioritize_task` leaves in
  the queue.

### Fairness

`FairSpec` assumes strong fairness of each worker's own steps, of each task's
scheduled puts and of the end of its backoff, and weak fairness of `Recover`.
asyncio runs its ready callbacks first in, first out, so a coroutine or callback
that is ready again and again gets a turn, while others keep taking
the loop in between: hence strong fairness, on each worker and each
task. A run always ends, since a backend call returns, raises, or falls silent and is
cancelled by the stall loop. A thread that was refused rolls back. A daemon that
is down is started again. Nothing is assumed of clients and operators,
store faults, crashes and retention.

### What is proved

`TaskDaemon_proofs.tla` and `TaskDaemonSafety_proofs.tla` prove, for every set of tasks and
workers, every dependency graph, kind cap, queue depth, retry budget and number of faults
and crashes (from `ConstantsAssumption` alone: the types of the constants, and that the tasks
are finitely many):

| theorem | property |
|---|---|
| `TypeCorrect` | `Spec => []TypeOK` |
| `OneEntry` | `Spec => []OneEntryPerTask` |
| `Exclusive` | `Spec => []ExclusiveExecution` |
| `Budget` | `Spec => []RetryBudget` |
| `EffectsNotRepeated` | `Spec => []NoSilentRerun` |
| `Safety` | `Spec => []SafeInv` (the invariant the ones below rest on) |
| `RowsAgree` | `Spec => []StoreAgrees` |
| `NoneStranded` | `Spec => []NothingStranded` |
| `Dependencies` | `Spec => []DependenciesMet` |
| `KindCap` | `Spec => []KindCapRespected` |
| `Room` | `Spec => []RoomForRequeue` |
| `CompletedStays` | `Spec => CompletedIsFinal` |
| `MostUrgentFirst` | `Spec => UrgentFirst` |
| `Refinement` | `Spec => KeepsPromise` (every behaviour is one of `TaskPromise`) |

*Exclusive execution.* That no two workers hold one task is not inductive: a worker
gets its task from the queue, so nothing that is on the queue may be in another hand,
and what is on the queue came from a put, a backoff, or a worker. The
invariant has to follow a task through all the places it can be:
`OneEntryPerTask`, a token for each task that moves and is never copied. It needs
three companions: `HandInv` (a worker has a task exactly in the states past a
claim), `TrackedInv` (what is on its way has an object, so a submission, which
requires that there is none, makes a first token), and `DownInv` (nothing is on
its way while the process is down, so recovery makes first tokens). Together
with `TypeOK` they are `IInv`.

*Retry budget.* `BudgetInv` adds that in the two states between the policy's
decision and the count the task is below its budget; exclusivity keeps any other
worker from counting in between.

*Side effects.* `EffectsInv` adds that the flag stays up in memory as long as the
object lasts, that a task claimed or about to be retried has had no unforgiven
effect, and that a run which may still have its first one is recorded as running:
so a crash finds it running, and fails it, even when the write of the flag was lost.

*Rows and places.* What a task's place says of its status is `StatusInv` in memory and
`RowInv` on disk, one clause for each place, with what a lost write can make of it. They
need each other and `IInv`: a claim reads the object of the one token there is, and only
exclusivity says that the row it saves is not another worker's. `LoopInv` says that one worker
has the loop at a time, since otherwise a claim could be made while another's entries are
set aside. `PrioInv`, that an entry carries its task's priority, makes the order of the
heap the order of the tasks. These four are `SafeInv`. `StoreAgrees` and
`NothingStranded` are then preserved by themselves: a step that would break one leaves a place
without its clause.

*Limits.* `DeferInv` adds that what was set aside stays ineligible until it is put back,
which is what makes the choice of `Claim` the most urgent one. `RoomInv` counts: where the get
keeps the loop, the places of the queue are enough for what is on it and what was taken from it;
where it suspends, for all but one entry, since a drain takes its first entry while others may
run and the rest without. For the cap,
the workers that run a task of a kind inject into the running tasks of the kind (`HandsCounted`,
by exclusivity), and the claim has counted those.

*Refinement.* Each step of `Next` changes the rows in one of a few ways (`Saves`, `Writes`, `Lags`,
`Interrupts`), and each of these is a step of `TaskPromise` or a stutter (`PromiseStep`).
`StatusInv` and `RowInv` give the guards of the promise: that a row which becomes `running` was
`queued`, that one which becomes `completed` was `running` unless a write was lost before.

Each `...Step` lemma proves one conjunct preserved, action by action; the
`...Effect` lemmas say what the helpers of the actions do to objects and rows.

*Only model-checked*: the liveness properties (out of reach of the prover).
`Reprioritize` is a move beside `Next`, in `SpecReprioritize`: a changed priority puts a second
entry of its task on the queue, so that `PrioInv` and `OneEntryPerTask` fail by design. Only
`retry_requeues` uses that specification; its trace changes no priority.

## FleetCoordinator

### How the model corresponds to the code

| variable | code |
|---|---|
| `mode` | the coordinator's process runs or is down |
| `obj[t]`, `row[t]` | status and `dispatched_to` of the `Task` object and of its row |
| `pending`, `depth` | puts scheduled on the loop, and the local `_queue`: a coordinator has no workers, so it only fills |
| `pc`, `probe`, `todo`, `load`, `ask` | the dispatch tick: the probes' results, the snapshot of queued tasks not placed yet, the machines' load in the plan, the submission it waits for |
| `late` | requests whose sender has given up and which may still arrive |
| `up`, `remote` | the machines: running or not, and what each has made of each task |
| `suspected`, `troubles` | history: tasks whose placement was in doubt, all troubles |

| stage | actions | code |
|---|---|---|
| submission, operators | `Submit`, `PutEntry`, `FailSaturated`, `CancelTask`, `RetryTask` | `submission.py`, `_fail_saturated_task`, `cancel_task`, `retry_task` |
| probe | `ProbeAnswered`, `ProbeLost` | `_dispatch_tick`, `RemoteDaemonClient.health_check` |
| take-back and plan | `Plan`, `PlanAborts` | `_dispatch_tick`, `_handle_stale_dispatched_task`, `run_loop` |
| dispatch | `Send`, `EndTick`, `MarkDispatched`, `LeaveUnmarked`, `RequestFails` | `FleetDispatcher.plan`, `_dispatch_tick`, `submit_task` |
| machines | `Deliver`, `DeliverLate`, `Refuse`, `RemoteRun`, `MachineDown`, `MachineUp` | the API's `submit_task`, `_reject_duplicate_task_id`, the machine's own workers |
| restart | `Crash`, `Recover` | `stop`, `recover`, `recover_pending` |

The tick suspends at the probes, at each submission and between two ticks. Between the last
probe's answer and the first submission it runs without a suspension, so
that `Plan` is one action (a failed write inside it is `PlanAborts`). The
dispatcher's greedy loop depends on the snapshot alone; its assignments are therefore
chosen one by one, each when it is sent (`MostFree`), which the plan made in advance
cannot be told apart from. Which task comes first is left open.

- A machine is a daemon in the worker role, which `TaskDaemon` models; here it is what it
  does with a submission. No result of a run is ever sent to the coordinator, so a
  run is one step (`RemoteRun`) and nothing depends on how it ends.
- No code in the repository sends heartbeats to the coordinator, so whether a machine
  was heard of in the last three intervals is a choice (`silent` in `Plan`).
- The flag `side_effects_started` of the coordinator's object is never raised, so
  the branch that fails a stale task is never taken and is left out.
- A put scheduled before a request has run before the answer to it comes
  (`Answered`): the loop runs its callbacks in order, and a network answer takes a turn
  of the loop.
- `depends_on` plays no part: the coordinator plans from status alone.
- Left out: tags (the coordinator asks for none), configuration reload, eviction of
  settled tasks, the capability registry and fleet memory.

### Instance

2 tasks, 2 machines with 1 slot each, a queue of depth 2; in `fleet` 1 operator retry and 2
troubles, in `fleet_probe` neither, and fairness.

A trouble (`MaxTroubles`) is a lost message, a refused submission, a machine or
coordinator failure, or a failed write. One lost answer followed by a crash, or two
answers lost in a row, is the worst that one task of one dispatch can meet; the
second machine is where it ends up twice. With one slot each the machines are full
together, so that a slot counted wrongly is seen. `HealthRoute` says whether the
machines serve the path of the probe. The daemons of this repository do not, so nothing is ever
dispatched, which is what `fleet_probe` shows; `fleet` assumes machines that do (a proxy, another
release), to check what lies behind the probe. The safety properties hold either way. The queue is as deep as there are tasks:
see below for what happens when it is not. Each task is retried by an
operator at most once (`Retryable`).

*Capacity.* `CapacityRespected` counts what a machine has taken, not what the coordinator has
marked. Beyond its slots there are only tasks the coordinator has let go of (`LetGo`): those whose
whereabouts were in doubt once (an answer lost, taken back, restored after a failed write,
retried: `suspected`), and those that were cancelled or failed here while their submission was under way,
which the machine keeps all the same (`fleet_coordinator.py:262-277`).

Fairness (of `fleet_probe`): weak fairness of `Loop` (the event loop and the tick go on as long as the
process runs, `run_loop` survives every exception), of `Deliver` (a running
machine answers or the request fails by its timeout), of `MachineUp` and `Recover`
(what is down is started again). Nothing is assumed of clients, operators, troubles and
late requests.

### What the code does not do

`fleet_probe`: the client probes `/api/v1/health`, a path the API does not serve, so every
machine is unhealthy and no task is placed (`fleet/client.py:37`, against
`fleet/client.py:10`).

Visible in the model, without a run of their own:

- A task whose machine has begun it is taken back for another machine,
  as its side effects are never reported (`fleet_coordinator.py:308`, against
  `SPEC.md:12-14`).
- A task that its machine has run stays dispatched and keeps its slot
  (`fleet_coordinator.py:207`, against `SPEC.md:78-83`).
- Nobody takes entries off the coordinator's queue, so
  after `max_queue_depth` submissions every later task is failed (`FailSaturated`).

### What is proved

`FleetCoordinator_proofs.tla`, for every set of tasks and machines, all capacities and depths, and
any number of troubles, from `FleetAssumption` (the types of the constants, finitely many tasks):

| theorem | property |
|---|---|
| `FleetInvariance` | `Spec => []FleetInv` |
| `FleetTypes` | `Spec => []TypeOK` |
| `PlacementsAreReal` | `Spec => []PlacementIsReal` |
| `PlacedOnceUnlessInDoubt` | `Spec => []DoublePlacementIsExplained` |
| `SlotsAreRespected` | `Spec => []CapacityRespected` |
| `CancellationsAreKept` | `Spec => CancelIsKept` |

`FleetInv` has, beside the types and the tick's own states (`TickInv`):

- `RealInv`: an answer "submitted" is known to the machine that gave it, so the placement
  recorded from it is real. Machines forget nothing, so it stays so.
- `UnknownInv`: a task without a row has never left the coordinator. Only a new task has
  none, and a row is written before the put, so the first dispatch is of an unheard task.
- `DoubtInv`: what is in no doubt is, while it waits, unheard (`SentOnce`), and while it is asked
  for has been heard by the machine asked only. It holds in the snapshot `todo` also after the
  task has been cancelled or retried meanwhile, and in the rows while the process is down. A
  late request leaves its task in doubt, so delivering it disturbs nobody else.
- `WaitInv`: what the tick is about to send, or has sent, waits here or was cancelled or failed.
- `HeldInv`: what a machine has taken, other than the task asked for and what the coordinator has let go
  of, is marked dispatched to it, in memory or, while the process is down, in its row.
- `LoadInv`: the tick's count covers what a machine has taken and what is under way to it, and both
  together fit its slots. The count is read once, before the submissions, and stays an upper bound as
  nothing else places a task; `HeldInv` makes it cover what was there before.

*Outside the proofs*: `EventuallyPlaced` is liveness, and false of the code (`fleet_probe`).

# The components

Each section names the state and the actions with the code they stand for (`PROJECT.json`'s
map has the lines), what is checked, and what a reader may trip over:
behaviour of the code that the model shows and a document or a reader might expect
otherwise. Variables commented "history" record what happened for a property to
speak of it; no action's guard reads them, except for the bounds.

## What a run goes through (`execution`)

### WorkerPool

`set_worker_count`, `start`, `stop` (`daemon/runner.py`) against the worker's loop
(`daemon/worker.py`). `loops` is each worker coroutine ever made, `tracked` is
`_workers`, `entries` the queue with tasks and stop sentinels, `scaling` the requests
that wait for room to put their next sentinel. `ScaleUp`, `ScaleDown`, `GoOnScaling`,
`WorkerTurn`, `BeginStop`, `EndDraining`, `EndStop`.

*Checked*: `WorkersMatchTarget` (the workers that go on after all sentinels are taken are
as many as were asked for last, and never none), `StopInterrupts`, `ScalingEnds`. Any worker
may take any sentinel, while `set_worker_count` forgets the last ones of the list:
a worker so forgotten, with a task in hand, is not cancelled by `stop`; the properties
except exactly that, and requests that cross each other over a full queue. A stop cancels the workers
that are in the list when the cancelling begins; one that a request adds while it waits for them
is left to itself.
*Bounds*: 3 workers at first, up to 5, a queue of 1, two requests to scale, so that
one must wait for room and the other can cross it. A draining stop does not refuse
submissions (`runner.py:599`), which the model shows by `SubmitWork` while draining.

### WorkerPool: the handoff

`submit` and `reprioritize_task` from threads. `lockedBy` is `_tasks_lock`, `eventLoop`
whether the loop is blocked on it, `callbacks` the puts scheduled by
`call_soon_threadsafe`. `TrackTask`, `SchedulePut`, `RunScheduledPut`, `ReturnFromPut`,
`RollBackSubmission`, `GiveUp` (the 60 s), `LockAndSchedulePut`, `WantLock`, `GetLock`,
`ClaimEntry`.

*Checked*: `AnswersAreTrue`, `LoopWaitsForReprioritizeOnly`. *Violated* (`lock_order`):
`LoopIsNotHeldUp`. `reprioritize_task` enqueues with the lock in hand; off the loop it
waits up to 60 s for a put that the loop cannot run while it waits for the
lock (`runner.py:1008`, against `submission.py:287-289`). The lock is a plain
`threading.Lock`, and the wait ends only by the thread's timeout.
A thread that gave up after 60 s knows nothing of its task: it may start, or stay queued
for ever when its late put is refused.

### BackendCalls: the slots of a backend

`backends/concurrency.py`: `sems` the semaphores made so far, `cached` the one that new
calls get, `ticket` the one each call holds or waits for. `AcquireSlot`,
`BackendAnswers` (success, error, rate limit with backoff), `CancelWaiting`, `SetLimit`.
`asyncio.Semaphore` is external: a release hands its slot to the first in the queue.

*Checked*: `InFlightIsBounded`, `EveryCallEnds`. `set_limit` drops a semaphore that is
held, so calls of the old and the new limit add up for a while; the property allows
that and no more. A call keeps its slot while it backs off.

### GateRuntime

`core/gates.py`, `core/critics.py` (`gates`), and the record in `core/gauntlets.py`
(`gauntlet`). `EndCritic` lets critics end in any order or time out, `RunPanelGate`
aggregates, `SkipGate` skips behind a required failure, `Decide`; `AppendGate`, `StartGate`,
`CompleteGate`, `WaiveGate`, `Finalize` are the record's operations.

*Checked*: `PassIsEarned`, `PassIsNotOvertaken`. Not kept by the code, stated as
`PassedMeansPassed` (`gauntlets.py:520`): a gauntlet may be finalized as passed with
required gates pending, running or in error.

### SandboxChecks

`sandbox/gates.py`, `policy.py`, `runner.py`: one adapter serves several gates and keeps
one captured result (`capture`). `Refuse`, `Deny`, `Start`, `CommandEnds` (exit code, timeout,
start failure), `Finish`, `Cancel`. The event loop is given up only while a command runs,
and that is where another gate's command may put its own result.

*Checked*: `EvidenceIsItsOwn`, `SandboxPassIsEarned`, `SummariesAreRedacted` (output
is a sequence of units in which a secret takes two, so that a cut can fall into one).
*To know*: a gate that names both a task and a work item fails only after its command
ran; a failed save of the artifact reports failure for a passed command; cancelling a
gate leaves its command running; the command's environment is only the gate's metadata.
Nothing in `src/` wires the adapter.

### BackendCalls: external agents

`backends/external_adapter.py`, `external_plugins.py`. `LoadStarts`, `LoadPlugin`,
`LoadFails`, `BeginAgentRun`, `PluginAnswers`, `WrapperAnswers`, `WrapperUnavailable`,
`CancelAgentRun`, `TakeResult`.

*Checked*: `HonestRunsKeepRules`, for adapters that declare each operation as what it is.
The document (`docs/development/external-agent-adapters.md:64-66`) says it of all
(`RunsKeepRules`, not kept: an adapter that declares a writing operation read-only is
believed). Loading that fails half way leaves the earlier plugins registered; a
rejected read-only run loses its `changed_files`; a cancel records nothing. Not wired.

### SshPool

`ssh/session.py` behind `api/routes/ssh.py`: `conns`, `pooled`, the one `poolLock` over all
hosts, `errand`. `Ask`, `Enter`, `Connects`, `ConnectFails`, `ClosesOldSession`, `CloseFails`,
`RunEnds`, `GivesUpWaiting`, `Breaks`, `GetsOld`.

*Checked*: `PoolOwnsItsSessions`, `PoolIsShared`. *To know*: a broken session stays pooled
until its TTL, a close that fails leaks the new connection (`lostSight`), `close_all` is
used by nothing.

### PromptContext

`gh/repo_schematic.py` and `gh/context.py` (`prompt`): a source file is the sequence of
declarations its language's patterns find, a text its length. One step, `BuildContext`,
over all inputs of the instance. `context/packs.py` (`pack`): `Measure`, `Digest`, `ReadFile`
against `EditFile`.

*Checked*: `OutlineIsTrue`, `SectionsFit`, `RelevantAreBest`, `PackIsBounded`,
`PackIsOfOneMoment`. *To know*: the shares of a prompt add up to 115 percent of the limit
that `context.py:101` promises; a relevant file that is gone from disk is not replaced
by the next; a file that grew after it was measured is read whole. `TopCount` is 2
where the code shows 5, so that three paths suffice.

### What is proved of these components

`Execution_proofs.tla` proves for every number of workers, threads, calls, backends, runs,
operators, sessions, critics, gates and checks, from the assumptions of the component modules: types
of their constants; that scalings are to 1 to 64 workers, which the request checks; that those who
submit and those who reprioritize differ and none is the task queued from the start; that the free lock
is no operator; that wrappers are adapters, and adapters that are not declare what they do; that
critics with a deadline and required critics are critics and required gates gates:

| theorem | property |
|---|---|
| `ExecutionInvariant` | `ExecutionSpec => []ExecutionInv` |
| `WorkIsAlwaysHandedOnce` | `ExecutionSpec => []WorkIsHandedOnce` |
| `VerdictsAreAlwaysEarned` | `ExecutionSpec => []VerdictsAreEarned` |

A behaviour of `MCExecution` moves one component and leaves the others alone
(`EachMovesOrStays`), so the conjunction of the components' invariants is one of the whole:

- `PoolInv`: the list of workers is in the order they were made, and a worker that goes on is
  listed or was cut off by a scale-down. `CountInv` is the account behind `WorkersMatchTarget`: the
  loops alive are the sentinels on the queue and the tracked ones, or, while a request
  that no other crosses is putting its sentinels, those on the queue, those to come and its
  target. Each taken sentinel ends one loop, whichever worker takes it.
- `HandoffInv`: a scheduled put belongs to a thread that waits for it or has given up
  (`ScheduledInv`), and each task is in the places its thread's answer says (`PlaceInv`).
- `SlotInv`: a queue of a semaphore holds waiters of that semaphore, each once (`QueueInv`);
  its holders and its free slots add up to the limit under which it was made (`AccountInv`), also when
  a release hands its slot to the first that waits, or a waiter is cancelled in the
  middle of the queue.
- `AgentInv`: what runs was validated and has reported nothing; what completed under an
  honest declaration kept its rules.
- `SshInv`: the holder of the lock is the only one that connects or closes and has found
  nothing to share (`SshLockInv`), so the pool gets one session for each key (`OwnerInv`).
- `GatesInv`: gates end in order, and one is blocked or skipped only behind a required
  failure (`GateOrderInv`). For `gauntlet`, `PassIsNotOvertaken` is inductive itself.
- `SandboxInv`: what a check has reported came from its own command, along its plan (`CheckInv`).

*Only model-checked*: `ExecutionTypeOK` and `TextsAreFaithful` (the outline, the sections and the pack
of a prompt are computed by folds, sorting and choices over data, which would need induction), and
`WorkEnds` (liveness).

## What a run changes (`changes`)

### ActionLifecycle

`core/actions.py`, `action_policy.py`, `action_service.py`, `action_store.py`,
`reverter.py`, `tools/builtins.py`, `api/routes/actions.py`. Each write of the store is a
compare-and-set and a step of its own; `ToolStep` goes through propose, approve, RUNNING,
flag, effect, outcome, any of which may fail; around it `OperatorApproves`,
`OperatorRejects`, `CancelRun`, `StallRetry`, `TakeHold`/`Restore`/`MarkReverted` (a
revert), `ActionCrash`.

A tool asks for an action only if it was built with an action service and its task's id
(`builtins.py:160, 251, 383`); the calls of such tools are `Wired`. Any other call has its
effect at once: `StartDirect`, `ActDirectly`, `ReturnDirectly`, with no action, approval or
flag. What the repository ships is not wired: the agent loops and the router build their tools
with neither (`agent_loop.py:310-312, 488-490`, `router.py:44-65`), the MCP server without an id
(`mcp/server/__init__.py:50`), and only tests give both. `Changes_components.cfg` has calls of both sorts on one
task and one file (three wired, `write_file`, a service's action and a command; one direct command); the
properties speak of the wired ones, next to direct ones that change the same files.

*Violated* (`actions_stalled`, two commands of one task in the shipped wiring, `Wired = {}`):
`SideEffectsEndRetries`. The task of a tool that had its effect directly is retried after a stall
(against `maintenance.py:208-210`). *Not kept*: `SideEffectsAreRecorded`, which
`docs/reference/action-ledger.md:3-5` says of every edit and command; in the same run such an
effect has no action on record.

*Checked* (of wired calls): `EffectIsPermitted`, `EffectIsFlagged`, `RunningIsAccountedFor`,
`RevertedIsUndone`, `RetriedIsUntouched`, `DecisionsStand`. The flag goes up after RUNNING and
before the effect; a write of the flag that fails is the one case in which an effect is
unflagged on disk (`unsaved`). An approval of a pending proposal carries nothing out.

### DelegateSessions

`core/delegate_lifecycle.py`, both halves. `sessions`: `DelegateLifecycleService` over SQLite;
an operation is its checks followed by its writes (`writes`), between which another owner
may act or the process die: `CreateSession`, `AcquireLease`, `Heartbeat`,
`RecordCheckpoint`, `RecoverSession`, `CompleteSession`, `ExpireSession` and the `Write...`
steps. `leases`: the in-memory manager with a clock: `AcquireInMemory`, `RenewLease`,
`ReleaseLease`, `TakeOver`, `ExpireLease`, `LookUp`.

*Checked*: `RunningHasItsLease`, `SupersededIsContinued`, `FinishedStaysFinished`,
`LeasesFollowOneAnother`. *To know*: the lease is saved before the session's transition is
validated, so a refused one leaves an open lease (`refused`); an owner whose lease is past its
time but not marked expired still passes the check; a released recoverable lease may be
taken over; `expire_lease` asks no owner and may end a lease twice; `recoverable` and
`takeover_allowed` behave alike.

### What is proved of these components

`Changes_proofs.tla` proves, for every set of actions, tasks and files, of sessions and owners, and
for every bound, from `ActionAssumption` and `DelegateAssumption` (types of the constants, and that
what stands for no action or no session is none):

| theorem | property |
|---|---|
| `ChangesInvariant` | `ChangesSpec => []ChangesInv` |
| `EffectsAreAlwaysAccounted` | `ChangesSpec => []EffectsAreAccounted` |
| `SessionsAreAlwaysContinued` | `ChangesSpec => []SessionsAreContinued` |
| `ChangesAlwaysStand` | `ChangesSpec => ChangesStand` |

- `ActionInv`: from its approval on an action moves with its call only (`CallInv`): where the call is
  determines the row, and a call past its approval was approved by the policy, since an approval by an
  operator carries nothing out. The flag is up before the effect, in memory no longer than on
  disk or in a write that failed (`FlagInv`): so a stall retry, which asks that the flag is down,
  follows no effect of a wired call. What is reversed was applied and had kept what to put back
  (`ReversalInv`).
- `SessionsInv`: the properties speak of rows between operations, but rows are read by one step and
  written by a later one. So the invariant says of each owner what it has still to write (`Work`:
  one of the thirteen tails an operation can have) and that it may still be written (`CanSave`,
  `CanGrant` and so on): the row unmakes no session and undoes no end, it names the lease it
  will be under, and a session is retired only when its successor is there. Only a session
  that two were at (`overlapped`), that was cut off (`halved`) or was refused its status
  (`refused`) escapes the part about leases. `Apart` says that owners at work on one session are known to
  overlap, so a step of one leaves what another may write as it is (`Undisturbed`,
  `WorkGoesOn`). `RowsInv` and `QuietInv` are what the rows satisfy all along and between
  operations.
- `ManagerInv`: a lease that is not in the table is over (`HistoryOK`), which is why the
  next one begins after it.

*Only model-checked*: `ChangesTypeOK` and `ChangesAreJudged` (the answers of the issue executor and of
the agent loops, the guard's timeline and the patterns of a diff are computed by filters, choices
and recursive functions over sequences, which would need induction).

### IssueRun

`gh/executor.py`, `gh/workspace.py`: `BeginRun`, `EnsureClone`, `Draft`, `MakeBranch`, `Apply`,
`RunTests`, `CommitAndPush`, `OpenPR`, `StopRun` (a failure, cancel or crash at any
point), for several tasks of one issue, each retried in the checkout its last run left. A
diff is the number of the answer it came with, a tree the set of diffs it holds; git
and gh are external.

*Checked*: `PushedIsTested`. *To know*: a dirty staged tree of an earlier run is part
of the retry's tree and commit, and of what the tests see; the plan in the pull request may be
an earlier answer's (`PlanIsOfWhatIsPushed`, not kept, `executor.py:546`); the "applied
diff" artifact may be stale; a rerun fails at creating the pull request; a dry run always
fails; a plan-mode pull request needs a branch nobody pushed; a failed `after_create` hook
is never run again.

### IssueRun: the edits in an answer

`editing/diff_formats.py`. `WriteBlock` and `WriteProse` grow an answer in one of the formats;
`text` is what the patterns tell apart of each line, `meant` what the writer means; one
line of one block may be lost or garbled.

*Checked*: `ReadAsWritten`, `DamageIsRefused` (with the exceptions they name). *To know*: a lost
`REPLACE` marker merges two blocks and a lost `SEARCH` marker drops one, both silently; a lost
separator is hidden by one in the new text; prose after a unified diff goes into its last
hunk; an answer of whole files that contains a diff is read as that diff.
Nothing in `src/` wires the module.

### AgentLoop

`backends/agent_loop.py`, `condensation.py`, `core/budget.py`, `core/ledger.py` (`loop`):
`PassDeadline`, `Condense`, `CallModel`, `AnswerTurn`, `RunTools`, `BookRun`, `PruneLedger`, of two
loops that share the ledger. `backends/ollama_agent_loop.py` (`local`): `LocalDeadline`,
`LocalCondense`, `LocalCall`, `LocalAnswer`, `LocalTool`.

*Checked*: `OneTurnBeyond`, `CallsAreAnswered`, `LocalCallsAreAnswered`. *To know*: an odd
`keep_recent` cuts between a call and its answer, which leaves an answer without its
call; `stream()` asks no budget; the router builds loops without ledger and
enforcer; an unknown tool's name ends the run; the local loop summarizes the task
itself away (`TaskIsRetained`, not kept, `condensation.py:42`).

### MergeGuard

`scripts/automerge_guard.py` and `requeue_stalled_merges.py` (`PassMoves`: a pass reads
the pull request, suites, timeline and verdict call by call, then arms, merges or disarms),
`executor/pr_merge_daemon.py` (`ShepherdReads`, `ShepherdActs`), and `GitHubMoves`: pushes,
reviews, disarms, closings, the clock. Two events may share a second.

*Checked*: `GuardKeepsItsWord`. *To know*: the head is pinned for the merge but not for
the deletion of the branch, so commits pushed after the merge go with it; the
shepherd arms without asking the guard (`FleetArmsWereCleared`, not kept,
`automerge_guard.py:23-24` against `pr_merge_daemon.py:198`).

## Records, decisions and planning (`stores`)

### AuditLog

`audit.py`: `AppendEntry`, `CutAppend` (a failed write or a kill within it), `Rotate`,
`RotateInVain`, `RestartAudit`, `Expire`. A hash is what it is computed from, so two hashes
are equal exactly when their inputs are. A line without its end is joined with the next entry, which
the verification then reports. *Checked*: `ChainHolds`.

### RequestLimits

`api/rate_limit.py`: `RefuseForAuth`, `TakeAuthToken`, `RefuseForGroup`, `TakeGroupToken`,
`EndRequest` (with the refund), `Hit`, `EndChecked`, `Tick`; a token is divided into parts
so that refills need no fractions. *Checked*: `LimitsHold`. *To know*: requests in flight
hold a token of the authentication bucket each, so more than its burst of successful ones at
a time get 429.

### Choices: the nodes of a fleet

`fleet/capabilities.py`: `Capture`, `Register`, `Heartbeat`, `MarkOffline`, `RemoveNode`,
`ClockTick`; the selection is an operator over the state. *Checked*: `ChoiceIsSound`.
The dispatcher of the fleet does not use the registry.

### Choices: the backends of accounts

`core/resource_broker.py`: `RouteWork`, `SnapshotAccount`. *Checked*:
`BudgetHoldsButForStaleness`. Scores are ordered, not computed. Not wired.

### RepoMemory

`memory/repo_memory.py`: `Propose`, `Review`, `CheckEntry`, `EnterEntry`, `RecordProposal`,
`AddEntry`, `EditorDies`, `Lapses`, `TakeSnapshot`. *Checked*: `AcceptedIsRemembered`,
`SnapshotIsSound`. *To know*: a crash between the two appends of an acceptance leaves the
proposal pending for ever; a torn line makes later reads raise; what was superseded
stays hidden after its successor has expired.

### WorkRecords

`core/work_item_store.py` and its endpoints (`CreateWorkItem`, `PatchWorkItem`,
`TransitionWorkItem`), `core/workspace_store.py` (`CreateWorkspace`, `ReadWorkspace`,
`UpdateWorkspace`, `InsertCheckpoint`, `CountCheckpoint`, `WriterDies`). *Checked*:
`RowsCanBeRead`, `CheckpointsAreCounted`, `WorkspaceMovesAlongTable`. Not kept:
`InvalidTransitionsAreRejected` (`docs/architecture/work-items.md:18`; creating an item anew
or patching its criteria goes around the table). `WorkspaceStore` is not wired.

### StateBackup

`core/artifacts.py`, `core/backup.py`: `WriteBlob`, `InsertRow`, `LoseWriter`, `StartExport`,
`CopyStage`, `AbandonExport`, `PackArchive`, `StartRestore`, `RestoreStage`, `AbandonRestore`,
`DamageArchive`. *Checked*: `RecordedArtifactsExist`. *To know*: an archive with a missing
component passes the verification; an unforced restore gives up half way.

### ToolCalls

`tools/mcp.py`'s registry and `hooks.py` (`tools`: `Invoke`, which looks up the tool (`SpecOf`) and asks the policy (`Permits`), `PreHook`,
`RunHandler`, `PostHook`, `CancelCall`; `hooks`: `LoadHooks`, `BeginHookRun`, `RunCommand`). *Checked*:
`ToolRecordsAreTrue`, `GatesAreNotDropped`. *To know*: an exception of a post_tool runner is not
caught, so its call has an effect and no record; the `approval_tier` argument is ignored, and the
default registry passes no tier; the hooks around a session are run by nothing.

### TaskGraphRun

`director/task_graphs.py`, `task_graph_runner.py`, `task_graph_service.py`,
`task_graph_store.py`: `BeginCreation`, `EndCreation`, `StartGraph`, `RunStep` (a node with its
attempts, timeouts, blocking and artifact), `RunLost`, `ArtifactLost`. *Checked*:
`CompletedIsComplete`, `CompletedIsKept`, `TemplatesFindTheirInputs`. RUNNING is never
stored, so two starts overlap and the later end wins; the properties say what holds all the
same.

### MemoryUpkeep

`core/memory_annealer.py` (`anneal`: `WriteLog`, `AnnealReads`, `Summarized`, `WriteState`,
`Purge`), `memory/embeddings.py` (`cache`, `rank`). *Checked*: `DigestedBeforePurged`,
`VectorsAreOfTheirModel`, `RankIgnoresScale`. *To know*: logs written while the summarizer is
awaited are purged unread (`overlooked`, which the property excepts); the state file is
written anew without the previous digest; the CLI and the daemon may anneal at once;
two users of the cache may pay twice; the embeddings are wired to nothing and nothing in
`src/` writes raw logs.

### MemoryUpkeep: the memory of runs

`memory/`, `fleet/memory.py`: `BeginRun`, `Assemble`, `AssembleFails`, `DraftPlan`,
`OpenPullRequest`, `Record`, `RecordGivenUp`, `RecordLate`, `Settle`, `RunFails`,
`WorkerRestarts`. *Checked*: `TaughtByWhatWorked`, `PadIsOfThisAttempt`. *To know*: the
outcome is "completed" once the pull request is open, where `episodic.py:8` speaks of merged ones;
a run may be shown its own earlier episode; a late record may replace a newer one; a
lost record is dropped silently; the scratch pad is never shown to a model
(`executor.py:282`); `RepoProfile.learn` is called by nothing.

### Planning: from a vision to issues

`director/decomposer.py`, `types.py`, `issue_adapter.py`, `reconciler.py`. `draft` is the model's
answer, which a retry may replace; the search for cycles (`colour`, `stack`) and Kahn's sort
(`queue`, `waiting`, `ordered`) take a step at a time; `issues` are GitHub's, among them those
that others open meanwhile, and `numbers` what this try knows of them. *Checked*: `PlanIsJudged` (a plan
is refused exactly for an id twice, a reference to nothing or a cycle), `IssuesReferBack`,
`NothingIsDropped`. *To know*: an issue call that fails leaves the issues before it open and
forgets their numbers, so that a second try opens them again.

### Evidence: cross-audits

`core/cross_audit.py`, `roles.py`: the matrix of roles and backends, calls that answer or fail in any
order, agreement by content. *Checked*: `AuditIsWhole` (every target has one report, its own,
whatever failed).

### Planning: recipes and templates

`recipes.py`, `core/template_store.py`: the sweep of a directory, the binding of parameters by their
declared types, the rendering, and templates on disk over built-in ones. *Checked*:
`InvocationsAreDeclared`, `BuiltinsAreOffered`. *Not kept*: `SweepSurvives`. A recipe
that is no UTF-8 raises `UnicodeDecodeError` out of the sweep, which passes over
`RecipeLoadError` only (`recipes.py:169`, against `:158`). *To know*: a default is not
checked against the declared type; a placeholder without a parameter stays in the text.

### Choices: what is spent

`core/cost_alerter.py`, `core/cost_evaluator.py` and the forecast of `core/ledger.py`: money is
spent (`Spend`), hours and months pass (`HourPasses`), `EvaluateFires`, `EvaluateIsQuiet`,
`ChooseModel`, `UseNamedModel`. *Checked*: `AlertsAreSpaced` (no level twice within its window, and
what an evaluation finds was told then or within the window), `AdviceIsPaidFor` (the best tier up to the one
asked for that what is left pays for). *Not kept*: `EscalationFires`. Each level has a
clock of its own, so after a breach late in a month the breach that follows the new month's warning is
muted (`cost_alerter.py:80`, against `:78-79`). *To know*: an alert counts as fired before it is sent, so one
whose delivery fails is not sent again within the window; a monthly limit of 0 counts as
breached at once by the alerts and as no limit by the choice of a model, which then has 100 dollars. Spending is
in whole dollars, time in whole hours, a month has three hours.

### Choices: the routes of a call

`model_routing/heuristic.py` (`RouteModel`: complexity, capabilities and latency over the catalogues of
three providers) and `router.py`, `scorer.py` (`SelectProfile`: the policy's filters, scores,
fallbacks). Neither keeps state: a behaviour is a question and its answer, and TLC
asks every one of the instance. Complexities are counted in halves, scores in units of 1/6000, so
that both are whole numbers. *Checked*: `BalancedCovers`, `PlanIsOrdered`. *Not kept*:
`FastIsQualified`. With the tier "fast" the first entry of the catalogue is taken, whatever it
lacks (`heuristic.py:226`, against `:26`). *To know*: the "quality" tier takes the last entry in
the same way, which for OpenAI has no vision; a local profile of the best cost class and a remote one
are scored alike in quality.

### ToolCalls: tools of other servers

`mcp/client/__init__.py` with the registry of `tools/mcp.py`: `PassOver`, `Connect`, `ConnectFails`, `ListTools`,
`ListFails`, `StopServers`; a loop takes a copy of what is known (`AttachTools`) and calls it
(`CallTool`). Workers start before the manager does (`runner.py:524-525`), so a loop may begin with no tools, or
with some. *Checked*: `NamesMeanOneTool` (a name means one tool in every loop, although server `a` with
tool `b__x` and server `a__b` with tool `x` make the same name), `ToolsAreOfTheirServer`.
*To know*: of two tools with one name the later is dropped with a warning; a server that failed is not
tried again; a loop in progress does not see servers connected later. `mcp/client.py` is shadowed by
the package of that name and is never imported.

### WorkRecords: the directory of a task

`daemon/workspace_hooks.py`, `gh/workspace.py` and the ends of `daemon/worker.py`'s `_execute`: `Clone` or `Fetch`,
the commands of each hook, the run, `CancelAttempt` anywhere, `CleanUp`. *Checked*: `RunsAreHooked` (no task runs
after a failed command of its `before_run` or with one left out, and hooks afterwards change no outcome),
`FreshCloneIsPrepared` (the attempt that makes its clone goes on only if every `after_create` command
succeeded). *To know*: that is all; a clone whose `after_create` failed stays, and the task's next
attempt fetches it and runs in a directory that was never prepared (`gh/workspace.py:103`). A cancellation that falls into
`ensure_clone` runs no `after_run`; the hooks after a run are those that the run left in the directory;
nothing in the program calls `cleanup_old`, and its age limit is taken to exceed an attempt.

### Evidence: evaluations and the TDD gate

`evals/` with its two routes, and `tdd_gate.py`: `BeginEval`, `RunScenario`, `SaveRunFile`, `SaveResults`,
`EvalCrashes`, `ReadLeaderboard`; `RunRed`, `Implement`, `RunGreen`. *Checked*: `ChecksSuffice` (a
scenario that requires checks, all of which pass, is passed), `BoardIsOfWholeRuns` (a run cut off between its two files is not on the board), `GreenWasRed`. *To
know*: a part of the score with nothing to count is worth nothing (`evals/scoring.py:32-44`), so a scenario that
requires no check never gets more than 75 of the 80 points needed: the suites in `evals/suites`
require none and always fail, though `docs/development/eval-harness.md:36` has them run in CI. A
scenario asked for twice with its workspace kept raises. The
route answers "started" also for an id that does not exist.

### What is proved of these components

`Stores_proofs.tla`, for every set of writers, creators and starters, all graphs and bounds, from no
assumption:

| theorem | property |
|---|---|
| `StoresInvariant` | `StoresSpec => []StoresInv` |
| `RecordsAlwaysMoveLegally` | `StoresSpec => RecordsMoveLegally` |

- `WriterInv`: what a writer is about to set follows, in the table, what it has seen. Its update asks
  that the row still says so, whatever the row has said in between.
- `AloneInv`: unless a start or a creation fell into another one, a run has the graph to itself, and the
  record it will overwrite is not of a completed graph. The exception is what the code allows: RUNNING
  is never stored, so a second start is not refused.

*Only model-checked*: `StoresTypeOK`, `HistoryIsKept`, `ChoicesAreSound`. The chain of the audit log, a
snapshot of memory, the layers of a graph, a ranking and the hits of a window are computed by filters,
folds, sorted sequences and choices, which would need induction.

## Services (`services`)

### Webhooks

`hooks`: `gh/webhook.py` (`Deliver`, `DeliverInPart`) and `triggers/webhook.py`
(`TriggerTask`, `TriggerBlank` for what names no repository, `TriggerDuplicate`, `TriggerFails`,
`ForgetKeys`). `doors`: `cli/issues.py`,
`cli/batch_dispatch.py`, `api/routes/issues.py`, `submit_issue_ab` (`StartBatch`, `RepoListed`,
`Preview`, `PostBatch`, `PostDry`, `CreateIssue`, `DispatchCreated`, `DispatchOne`, `RaceBackends`,
`IssueCloses`).

*Checked*: `HooksSubmitOnce`, `DoorsKeepCount`. *To know*: a route whose submission failed
is submitted by GitHub's redelivery together with those that did not fail; a key is remembered before
its task is submitted, so a retry after a failure is told "duplicate"
(`DuplicateHasAFirst`, not kept, `triggers/webhook.py:17-20`). An issue created whose
dispatch fails is left, and a retry creates a second; the dispatch command loses the
`dry_run` of a file (`DryRunIsKept`, not kept); the cap on stories holds for the scan
only, file items come on top and may repeat what was scanned (`CapIsForTheRun`, not kept,
`cli/issues.py:118`); a plan of more than 100 items is refused whole; an answer later than 30 s
counts as failed, and a retry submits again; a listing that fails counts as empty; an A/B
run that fails half way leaves its earlier tasks queued, the last possibly without its group
on disk.

### ApiClients: sessions

`api/routes/auth.py`, `core/auth_session_store.py`, `auth.py`: `IssueToken`, `RefreshToken`,
`RevokeToken`, `RevokeAll`, `Expire`, `OpenSocket`, `CloseSocket`. *Checked*: `RevokedStaysOut`.
*To know*: revoking a refresh token leaves its access tokens valid, and a socket stays
open after the revocation of its token.

### Discovery

`daemon/scheduler.py`, `gh/discovery.py` (`discovery`: `ScanMoves`, `ListFails`, `SubmitFails`,
`CancelScan`, `RestartDiscovery`), `triggers/cron.py` (`cron`: `ClockTicks`, `SetClock`, `SleepToMinute`,
`CronTick`, `StartCron`, `StopCron`, `AddTrigger`, `RemoveTrigger`). The sleep is measured by
another clock than the wall clock that says what minute it is. *Checked*: `DiscoveredOnce`,
`NewestAreDispatched`, `MinutesAreFiredOnce`. *To know*: a pass with a failed
submission may leave the dedup file unwritten (`PassesAreFiled`, not kept, `scheduler.py:70-72`); an older issue waits behind
open ones that were submitted long ago; a failed submission of a minute is not made up;
an out-of-range value in an expression raises out of the whole tick
(`InvalidIsSkipped`, not kept, `cron.py:92-97`). The scheduler of cron is not wired.

### ApiClients: the feed

`events.py`, `api/routes/events.py`: `Publish`, `Connect`, `TurnAway`, `Subscribe`, `TakeEvent`,
`SendEvent`, `HangUp`. *Checked*: `FeedIsFaithful`, `GoneMakeRoom`. *To know*: a handler that waits
for an event does not notice that its client has gone, so a quiet daemon keeps the places
of clients that left.

### RunBudget

`daemon/worker.py`, `core/budget.py`, `router.py`, `ledger.py`, `token_budget.py`,
`model_selector.py`: `TakeRun`, `StartRun`, `SelectModel`, `SelectFails`, `EndPrompt`,
`EndUnrecorded`, `FailRun`, `ReloadConfig`, `PruneLedger`, `PassTime`. A task may name its model
(`wanted`), which goes before any configuration; and a run leaves its backend and model on the task
(`AskedAgain`), so a retry (`again`) names them, and after a reload still does. *Checked*: `OverrunIsBounded`,
`RoutedBySnapshot` (backend and model are the task's own, or those of the configuration the worker
captured), `AdviceIsPayable`. *Not kept*: `InFlightKeepsItsConfig`. The run of an
issue that names no model is routed with the configuration its worker captured, and then looks up the
backend's tiers in the router in force (`_execute_issue`, `worker.py:347`, against
`runner.py:315-317`); the run of a prompt keeps to its snapshot. *To know*: `route()` never gets
`budget_percent`, so `fallback_backend` is never taken; issue runs and chat record no
cost; a retention of 30 days prunes a month of 31; a limit of 0 refuses nothing; the
allocator recommends opus when nothing is affordable, and goes one step down only.
The allocator is not wired.

### ControlPlane

`api/routes/control_plane.py` with `waive_task`, `cancel_task`, `retry_task`: `Look` at a page, then
`PressRetry`, `PressWaive`, `PressCancel` by what it showed, while the task is taken, ends,
stalls, is retried, evicted or lost (`TakeJob`, `EndJob`, `StallJob`, `RetryStalled`,
`EvictJob`, `RestartJob`). *Checked*: `WaivedFailureStays`, `PageIsTrue`. *To know*: the guard
`expected_status` cannot tell a second failure from the first; a retry whose save is lost leaves
the waiver in the row; a stall retry drops a waiver given while its event was
published; cancelling a cancelled task succeeds; a retry enqueues nothing
(`retry_requeues`); abort tries running tasks as well, of which none is cancelled.

### GithubAccess

`gh/client.py`, `tools/gh_proxy.py` (`github`: `Request`, `Succeeds`, `Fails`, `Refused`, `WakeUp`,
`Abandon`), `github_auth.py` (`token`: `AskToken`, `TokenComes`, `FetchFails`). GitHub is
external: it admits so many calls in a window, and may perform a call without answering.
*Checked*: `CallsAreAccounted`, `AsksAfterReset`, `TokensLast`. *To know*: a call that was
killed by its timeout may have been performed; a proxied call that is cancelled performs
and is not audited; an error text that merely names 429 is retried; the proxy and the
installation token are not wired.

### Launch

`launcher.py`, `config/loader.py`, `daemon/single_instance.py`: from `Begin` over `AddPip`,
`Install`, `InitLooks`, `InitWrites`, `ReadConfig`, `KeepSecret`, `Rewrite`, `DoctorEnds`,
`ServeStarts` to `Guard`, `Claim`, `Stamp`, `Recover`, `Work`, `StopBegins`, `Drain`, `Release`,
with `Killed` anywhere, `Edit` (the operator writes the file) and `Reuse` (another program
gets a dead one's process id). *Checked*: `RecoveryIsAlone`, `KeysSurvive`. *To know*: a reused
process id makes a daemon refuse to start though it is alone (`RestartIsNotBlocked`, not kept,
`single_instance.py:10-12` against `:93-98`); an interrupted creation of the environment leaves an
interpreter without pip that is never repaired without uv; of two launchers the second's
`init` fails if a configuration appeared meanwhile, and two may overwrite each other; what an operator writes during a
key's migration is lost. `Killed` takes the launcher and its command together; the
dashboard's thread is left out.

### Histories

`session/log.py` (`session`: `OpenLog`, `AppendEvent`, `OwnerKilled`), `conversation/store.py`
(`conversation`: `AppendLoads`, `SaveRow`, `SaveEmpties`, `SaveFills`, `DeleteConversation`,
`ClientKilled`). *Checked*: `NumbersIncrease`, `TranscriptIsKept`, `ConversationIsKept`. *To
know*: two logs open on one session give the same number twice; a torn line swallows
the next event; the JSON store empties its file before it fills it, which loses the
history on a kill and shows an empty one meanwhile; an append is load, append and
save, so clients that cross lose messages; a line without its end is joined with the next one, and
both count as one that cannot be read; a file of the JSON store that cannot be parsed reads as an
empty history, which the next save makes final (`SaveIsLost` is a save cut off before it empties
the file). Neither store is wired.

### What is proved of these components

`Services_proofs.tla` proves for any number of events, routes, keys, operators, repositories, tokens,
clients, issues, triggers, workers, backends, configurations, calls, launchers, owners and clients of a
conversation, and for every value of the bounds. It assumes what the component modules assume of their
constants: types; that no backend, process id, launcher or key is called "none"; that an A/B run
names two backends or more and none twice; that the prices of the three models rise; that a token
lives longer than its margin and the longest wait for an answer (an hour against 5 minutes and a
timeout); that a torn or unreadable line is no event.

| theorem | property |
|---|---|
| `ServicesInvariant` | `ServicesSpec => []ServicesInv` |
| `ServicesTyped` | `ServicesSpec => []ServicesTypeOK` |
| `RequestsAreAlwaysHonoured` | `ServicesSpec => []RequestsAreHonoured` |
| `WhatIsKeptIsAlwaysTrue` | `ServicesSpec => []WhatIsKeptIsTrue` |

Each component has an invariant `...Inv`, a lemma `...Initial`, a lemma `...Step` and a lemma that
the invariant implies the component's properties (`...Holds`):

- `HookInv`: an event not yet delivered has no task, and a key's task that no lapse accounts for is one
  whose key is remembered. `DoorInv`: what an operator was told adds up, and of an A/B run all tasks but
  the last carry their group (`Grouped`).
- `AuthInv`: a token that no row revokes descends from a pair issued after the last revocation of its
  subject; a refresh makes rows and revokes one in the same step. `FeedInv`: what a client has got,
  what is being sent, what waits and what was dropped are together, in order, all that was published
  since it came (`Accounts`, `WayOf`), and the count of places is the number of handlers.
- `DiscoveryInv`: an issue is submitted once for each time it was forgotten and once while it is
  remembered. `CronInv`: a minute still to come, or in which the loop will wake, has fired only before
  the clock was last set (`Ahead`), and as long as nobody sets it and nothing holds the loop up, the
  sleep ends in the next minute (`WakesFor`), so none is left out (`Covers`).
- `BudgetInv`: what runs was chosen under the configuration its worker took (`Routed`), and
  the spending of the month is at most the largest limit and the costs of the runs started before it
  was reached; a step of a run adds a row to a sum over rows and takes the run out of a sum over
  workers. `ControlInv`: while no write was lost, the row is the task or lacks the
  end that its worker is about to write (`Unwritten`).
- `GithubInv`: a call is performed once more than it was refused afterwards at most (`CallCounts`), and one
  that sleeps wakes after the reset it was told, or the wait was cut by its cap (`CallWaits`).
  `TokenInv`: what is cached or in a hand ends within the life of a token.
- `LaunchInv`: whoever is past the lock holds it (`LockIsHeld`), whatever process ids are reused; and the
  last key is in the file or in the keyring, and in what every load under way has read
  (`KeyIsKept`), unless an edit overtook one.
- `SessionInv`: the next number of a log open alone is above every number in its file, and
  no more events are missing from it than writes were cut off. `ConversationInv`: unless clients crossed or a
  save was cut off, the file is what was told, or one client is about to fill it with that.

`CountingLemmas.tla` holds the facts about finite sets, sums (`SumFunctionOnSet`), largest elements,
`RemoveFirst`, `FlattenSeq` and quotients that these proofs need. Each is proved from a least counterexample
(`LeastNatural`) instead of an induction theorem, by showing that the function the operator
chooses exists and is the only one (`SumExists`, `SumIsUnique`, `ChainExists`).

*Only model-checked*: `ServicesMoveOn` (liveness).

## Bounds

Bounds are named constants (`Max...`), given in the configurations. They limit what
the environment does (requests, edits, failures, crashes, ticks), never what the code
may do in answer. Two of each kind of actor is the rule, since every race found in the code is
one of two; three are used where a third sees what two did (calls to a backend with a limit
of 2, critics, HTTP requests over a burst of 2, files of a pack). One crash or failed
write falls between any two steps of any operation; two are allowed where the second
can hit the repair of the first (audit log, memory upkeep, session log). Queues and limits
are 1 or 2, so that the full case is an ordinary one. What is left
out by a bound: three owners of one session, longer agent loops (3 and 4 turns), other graphs of nodes
than the templates, a diamond and a cycle, and longer clocks (`MaxWall`,
`MaxTime`, `MaxHour` cover two to three periods of what they measure).

The runs of components explore 0.1 million (`execution`), 0.3 million (`services`), 0.8 million
(`changes`) and half a million (`stores`) distinct states, each in one to four minutes.

Symmetry: `Worker` in the runs of safety of the daemon, `Owner` (of sessions) in `changes`;
none in the runs with liveness.

## Fairness

`TaskDaemon` and `FleetCoordinator` state theirs in their sections. In `execution`: weak
fairness of each worker's turn (the event loop runs what is ready), strong fairness of
a request to scale that waits for room (asyncio wakes its putters in order), weak
fairness of a backend's answer (a call returns, raises or times out), strong
fairness of entering the SSH pool's lock (granted in order), weak fairness of opening and
closing a session. In `services`: weak fairness of a scan that has begun (each of its
calls ends or times out) and of a handler that has an event to take or to send. `changes` and
`stores` check safety and action properties and assume none. Nowhere is anything
assumed of users, operators, failures or crashes.

## Not modelled, and why

- *Cost reports*: sums over the ledger and estimates that nothing acts on (the alerts are in
  `Choices`).
- *Quality gates and workflows of GitHub*: checks in a subprocess, templates written to a
  repository.
- *The execution sandbox, the MCP server, provider adapters*: process and protocol I/O around a
  run, which is modelled by the outcomes it reports.
- *Checks, browser, graphs*: offline tooling.
- *Logging, metrics, tracing, UI, desktop app, extensions, deployment*: no effect on the
  state the properties speak of.
- Within modelled components: tags and reload of the fleet, the croniter syntax,
  streaming and provider payloads of the agent loops, static tokens and the
  encoding of a JWT, signatures and payloads of webhooks, listings and filters. Each component's
  note in `PROJECT.json` says so.

What is called not kept above is stated in its module for a reader, and TLC finds it
violated in an instance like that of its run; only the four violations in the table of
runs are kept as runs of their own. Beside those
named above there are `DependentIsReleased` and `RestartSucceeds` (`TaskDaemon`),
`TakenBackIsUnaffected` and `DispatchedIsSettled` (`FleetCoordinator`).

## Plan

Proved: every safety and action property of the runs `task_safety`, `task_scheduling` and
`fleet`, the refinement of `TaskPromise`, of `execution` what does not compute texts, of `changes`
what does not judge data, of `stores` how records move, and all of `services`. What a fold, a
choice or a sum returns can be proved without an induction theorem (`CountingLemmas`); what remains with
TLC beside liveness is `TextsAreFaithful`, `ChangesAreJudged`, `HistoryIsKept` and `ChoicesAreSound`, which
speak of sorted and filtered sequences of data. Next would be the type invariants of the three
other compositions and the chain of the audit log.
