----------------------------- MODULE TaskDaemon -----------------------------
(***************************************************************************)
(* The standalone task daemon of maxwell_daemon/daemon: submission, the    *)
(* bounded priority queue, the worker loop, execution, stall detection and *)
(* bounded retry, the operator's cancel and retry, live eviction, pruning, *)
(* and crash recovery from the SQLite task store.                          *)
(*                                                                         *)
(* The daemon runs on one asyncio event loop.  A coroutine keeps the loop  *)
(* until it awaits something that suspends, so what happens between two    *)
(* suspension points is either one action or a chain of actions during     *)
(* which the worker "holds the loop" (HoldsLoop) and nothing else on the   *)
(* loop can run.  A crash may fall between any two actions of a chain; a   *)
(* thread outside the loop may interleave with it.                         *)
(*                                                                         *)
(* asyncio.wait_for(queue.get()) hands over an entry without a suspension  *)
(* when the queue is not empty since Python 3.12, the Docker image's.      *)
(* Python 3.10 and 3.11, which pyproject.toml and CI admit as well, run    *)
(* the get in a task of its own, and other coroutines and callbacks run    *)
(* before the worker has its entry.  GetSuspends says which.               *)
(***************************************************************************)
EXTENDS Naturals, FiniteSets

CONSTANTS
    Task,          \* task ids
    NoTask,        \* a worker with no task in hand
    Worker,        \* the worker coroutines
    Prio,          \* priorities, lower is more urgent
    KindOf,        \* the kind key of each task: prompt, plan or implement
    Cap,           \* agent.concurrency_by_kind, a partial map from kind keys
    DependsOn,     \* depends_on of each task
    MaxDepth,      \* agent.max_queue_depth
    GetSuspends,   \* wait_for gives the loop away with an entry taken
    MaxRetries,    \* RetryPolicy.max_retries
    LiveEviction,  \* task_live_retention_seconds > 0
    Retention,     \* task_retention_days > 0
    Retryable,     \* bound: tasks an operator may retry, each one once
    MaxFaults,     \* bound: failed store writes
    MaxCrashes     \* bound: crashes or stops of the process

ASSUME ConstantsAssumption ==
    /\ NoTask \notin Task
    /\ IsFiniteSet(Task)
    /\ IsFiniteSet(Worker)
    /\ {"loop", "thread", "rejected"} \cap Worker = {}
    /\ Prio \subseteq Nat
    /\ DependsOn \in [Task -> SUBSET Task]
    /\ \A k \in DOMAIN Cap : Cap[k] \in Nat
    /\ MaxDepth \in Nat \ {0}
    /\ GetSuspends \in BOOLEAN
    /\ MaxRetries \in Nat
    /\ LiveEviction \in BOOLEAN
    /\ Retention \in BOOLEAN
    /\ Retryable \subseteq Task
    /\ MaxFaults \in Nat
    /\ MaxCrashes \in Nat

VARIABLES
    mode,      \* "up" while the process runs, "down" between crash and start
    obj,       \* the Task objects in memory, by id
    live,      \* the keys of Daemon._tasks
    row,       \* the durable rows of the task store
    queue,     \* the entries of the PriorityQueue
    pending,   \* what the loop will come back to: scheduled puts, and entries
               \* a worker holds while it waits for its turn or for room
    delayed,   \* tasks asleep in their retry backoff
    deferred,  \* entries the claiming worker has set aside
    pc,        \* where each worker is
    cur,       \* the task in each worker's hand
    granted,   \* history: tasks an operator retried
    affected,  \* history: tasks whose runs reported a side effect
    faults,    \* history: failed store writes so far
    crashes    \* history: crashes so far

memory == <<obj, live>>
places == <<queue, pending, delayed, deferred>>
workers == <<pc, cur>>
history == <<granted, affected, crashes>>
vars == <<mode, memory, row, places, workers, history, faults>>

-----------------------------------------------------------------------------
(* Task objects and rows *)

Terminal == {"completed", "failed", "cancelled"}
TaskStatus == {"queued", "running"} \cup Terminal

\* A Task object, or a row; status "none" says there is none.
Record == [status  : TaskStatus \cup {"none"},
           prio    : Prio \cup {0},
           retries : Nat,
           effects : {"none", "started"}]

NoRecord == [status |-> "none", prio |-> 0, retries |-> 0, effects |-> "none"]
Fresh(p) == [status |-> "queued", prio |-> p, retries |-> 0, effects |-> "none"]

Entry == [task : Task, prio : Prio \cup {0}]
\* how: put by a callback of the loop itself, by a callback a thread waits
\* for, already refused and about to be rolled back by that thread, or held by
\* a worker.
Scheduling == {"loop", "thread", "rejected"}
Put == [task : Task, prio : Prio \cup {0}, how : Scheduling \cup Worker]

HeldBy(e, w) == [task |-> e.task, prio |-> e.prio, how |-> w]

\* Mutated form of EntryOf: the two halves of the entry swapped.
EntryOfSwapped(t) == [task |-> obj[t].prio, prio |-> t]
EntryOf(t) == [task |-> t, prio |-> obj[t].prio]

\* Worker states in which its coroutine has the event loop to itself.
HoldsLoop == {"draining", "claimed", "retrying", "bumping"}
\* Worker states in which the task's coroutine is alive.
Running == {"starting", "executing", "cancelling"}
\* Worker states in which its coroutine waits at the queue, with nothing, with
\* an entry that queue.get took for it, or with one that queue.put has no
\* room for.
AtQueue == {"idle", "taken", "waiting"}
WorkerState == AtQueue \cup {"finishing", "unwound"} \cup HoldsLoop \cup Running

LoopFree == mode = "up" /\ \A w \in Worker : pc[w] \notin HoldsLoop

Held(t) == \E w \in Worker : cur[w] = t

-----------------------------------------------------------------------------
(* The task store.  save writes the whole object; a write may fail (disk   *)
(* full, lock contention) while faults remain.                             *)

Save(t) == row' = [row EXCEPT ![t] = obj'[t]] /\ UNCHANGED faults

StoreFault == faults < MaxFaults /\ faults' = faults + 1 /\ UNCHANGED row

\* A write whose failure the code logs and swallows.
SaveOrLose(t) == Save(t) \/ StoreFault

\* update_status raises KeyError when the row is gone.
UpdateStatus(t, s) ==
    /\ row[t].status # "none"
    /\ row' = [row EXCEPT ![t].status = s]
    /\ UNCHANGED faults
UpdateFails(t) == StoreFault \/ (row[t].status = "none" /\ UNCHANGED <<row, faults>>)

SetStatus(t, s) == obj' = [obj EXCEPT ![t].status = s] /\ UNCHANGED live

-----------------------------------------------------------------------------
(* Submission *)

Track(t, p, how) ==
    /\ obj[t] = NoRecord
    /\ row[t] = NoRecord
    /\ obj' = [obj EXCEPT ![t] = Fresh(p)]
    /\ live' = live \cup {t}
    /\ Save(t)
    /\ pending' = pending \cup {[task |-> t, prio |-> p, how |-> how]}
    /\ granted' = granted \ {t}
    /\ affected' = affected \ {t}
    /\ UNCHANGED <<mode, queue, delayed, deferred, workers, crashes>>

\* submit and submit_issue from a request handler: the put is deferred to a
\* later iteration of the loop.
SubmitOnLoop(t, p) == LoopFree /\ Track(t, p, "loop")

\* submit from another thread, which then waits for the put.
SubmitFromThread(t, p) == mode = "up" /\ Track(t, p, "thread")

\* Mutated form of PutEntry: the queue takes entries beyond its depth.
PutUnbounded(e) ==
    /\ LoopFree
    /\ e \in pending
    /\ e.how \in {"loop", "thread"}
    /\ queue' = queue \cup {[task |-> e.task, prio |-> e.prio]}
    /\ pending' = pending \ {e}
    /\ UNCHANGED <<mode, memory, row, delayed, deferred, workers, history, faults>>

\* The callback runs and there is room.
PutEntry(e) ==
    /\ LoopFree
    /\ e \in pending
    /\ e.how \in {"loop", "thread"}
    /\ Cardinality(queue) < MaxDepth
    /\ queue' = queue \cup {[task |-> e.task, prio |-> e.prio]}
    /\ pending' = pending \ {e}
    /\ UNCHANGED <<mode, memory, row, delayed, deferred, workers, history, faults>>

\* Mutated form of FailSaturated: the entry is dropped silently (#972).
DropSaturated(e) ==
    /\ LoopFree
    /\ e \in pending
    /\ e.how = "loop"
    /\ Cardinality(queue) >= MaxDepth
    /\ pending' = pending \ {e}
    /\ UNCHANGED <<mode, memory, row, queue, delayed, deferred, workers, history, faults>>

\* The callback runs and the queue is full: the task is failed.
FailSaturated(e) ==
    /\ LoopFree
    /\ e \in pending
    /\ e.how = "loop"
    /\ Cardinality(queue) >= MaxDepth
    /\ SetStatus(e.task, "failed")
    /\ SaveOrLose(e.task)
    /\ pending' = pending \ {e}
    /\ UNCHANGED <<mode, queue, delayed, deferred, workers, history>>

\* The callback runs for a thread and the queue is full: the thread gets
\* QueueSaturationError ...
RejectPut(e) ==
    /\ LoopFree
    /\ e \in pending
    /\ e.how = "thread"
    /\ Cardinality(queue) >= MaxDepth
    /\ pending' = (pending \ {e}) \cup {[e EXCEPT !.how = "rejected"]}
    /\ UNCHANGED <<mode, memory, row, queue, delayed, deferred, workers, history, faults>>

\* ... and takes the submission back; the deletions follow a lookup in
\* _tasks, which raises when the task was evicted meanwhile.
RollBack(e) ==
    /\ mode = "up"
    /\ e \in pending
    /\ e.how = "rejected"
    /\ IF e.task \in live
         THEN /\ obj' = [obj EXCEPT ![e.task] = NoRecord]
              /\ live' = live \ {e.task}
              /\ row' = [row EXCEPT ![e.task] = NoRecord]
         ELSE UNCHANGED <<memory, row>>
    /\ pending' = pending \ {e}
    /\ UNCHANGED <<mode, queue, delayed, deferred, workers, history, faults>>

-----------------------------------------------------------------------------
(* Claiming: one worker drains the queue in priority order until it finds a *)
(* task it may run, holding the loop, and then restores what it set aside.  *)

CanTake(w) ==
    \/ pc[w] = "draining"
    \/ pc[w] = "idle" /\ LoopFree /\ ~GetSuspends

\* Mutated form of IsNext: any entry may come next.
IsAny(e) == e \in queue

\* The queue's next entry.  heapq compares the entry's priority, then the
\* task's current one (Task.__lt__), then creation time, left open here.
IsNext(e) ==
    /\ e \in queue
    /\ \A f \in queue :
          \/ e.prio < f.prio
          \/ e.prio = f.prio /\ obj[e.task].prio <= obj[f.task].prio

FailedDependency(t) ==
    \E d \in DependsOn[t] \cap live : obj[d].status \in {"failed", "cancelled"}

\* Mutated form of DependenciesPending: a dependency no longer in memory is
\* taken for completed.
DependenciesUnfinished(t) ==
    \E d \in DependsOn[t] \cap live : obj[d].status # "completed"

DependenciesPending(t) ==
    \E d \in DependsOn[t] : d \notin live \/ obj[d].status # "completed"

RunningOfKind(k) == {t \in live : obj[t].status = "running" /\ KindOf[t] = k}

\* Mutated form of AtKindCap: off by one.
AboveKindCap(t) ==
    /\ KindOf[t] \in DOMAIN Cap
    /\ Cardinality(RunningOfKind(KindOf[t])) > Cap[KindOf[t]]

AtKindCap(t) ==
    /\ KindOf[t] \in DOMAIN Cap
    /\ Cardinality(RunningOfKind(KindOf[t])) >= Cap[KindOf[t]]

\* The get takes an entry, and the loop goes on before the worker has it.
Take(w, e) ==
    /\ GetSuspends
    /\ LoopFree
    /\ pc[w] = "idle"
    /\ IsNext(e)
    /\ queue' = queue \ {e}
    /\ pending' = pending \cup {HeldBy(e, w)}
    /\ pc' = [pc EXCEPT ![w] = "taken"]
    /\ UNCHANGED <<mode, memory, row, delayed, deferred, cur, history, faults>>

\* The worker has entry e to decide about: it takes the next one off the queue
\* there and then, or goes on with the one the get took for it.
Obtain(w, e) ==
    \/ CanTake(w) /\ IsNext(e) /\ UNCHANGED pending
    \/ /\ pc[w] = "taken" /\ LoopFree
       /\ HeldBy(e, w) \in pending
       /\ pending' = pending \ {HeldBy(e, w)}

\* Once it holds nothing, a worker whose get suspends is back where it began.
Dropped == IF GetSuspends /\ deferred = {} THEN "idle" ELSE "draining"

\* The entry's task is no longer queued: the entry is dropped.
SkipStale(w, e) ==
    /\ Obtain(w, e)
    /\ obj[e.task].status # "queued"
    /\ queue' = queue \ {e}
    /\ pc' = [pc EXCEPT ![w] = Dropped]
    /\ UNCHANGED <<mode, memory, row, delayed, deferred, cur, history, faults>>

\* A dependency failed or was cancelled: the dependent fails too.
FailDependent(w, e) ==
    /\ Obtain(w, e)
    /\ obj[e.task].status = "queued"
    /\ FailedDependency(e.task)
    /\ queue' = queue \ {e}
    /\ SetStatus(e.task, "failed")
    /\ SaveOrLose(e.task)
    /\ pc' = [pc EXCEPT ![w] = Dropped]
    /\ UNCHANGED <<mode, delayed, deferred, cur, history>>

\* Dependencies are unfinished or the kind is at its cap: set aside.
Defer(w, e) ==
    /\ Obtain(w, e)
    /\ obj[e.task].status = "queued"
    /\ ~FailedDependency(e.task)
    /\ DependenciesPending(e.task) \/ AtKindCap(e.task)
    /\ queue' = queue \ {e}
    /\ deferred' = deferred \cup {e}
    /\ pc' = [pc EXCEPT ![w] = "draining"]
    /\ UNCHANGED <<mode, memory, row, delayed, cur, history, faults>>

\* The task is claimed and the entries set aside go back.
Claim(w, e) ==
    /\ Obtain(w, e)
    /\ obj[e.task].status = "queued"
    /\ ~FailedDependency(e.task)
    /\ ~DependenciesPending(e.task)
    /\ ~AtKindCap(e.task)
    /\ queue' = (queue \ {e}) \cup deferred
    /\ deferred' = {}
    /\ SetStatus(e.task, "running")
    /\ pc' = [pc EXCEPT ![w] = "claimed"]
    /\ cur' = [cur EXCEPT ![w] = e.task]
    /\ UNCHANGED <<mode, row, delayed, history, faults>>

\* Mutated form of EndDrain: the entries set aside are lost (#973).
EndDrainLosing(w) ==
    /\ pc[w] = "draining"
    /\ queue = {}
    /\ queue' = {}
    /\ deferred' = {}
    /\ pc' = [pc EXCEPT ![w] = "idle"]
    /\ UNCHANGED <<mode, memory, row, pending, delayed, cur, history, faults>>

\* Nothing to claim: the entries set aside go back ...
EndDrain(w) ==
    /\ pc[w] = "draining"
    /\ queue = {}
    /\ Cardinality(deferred) <= MaxDepth
    /\ queue' = deferred
    /\ deferred' = {}
    /\ pc' = [pc EXCEPT ![w] = "idle"]
    /\ UNCHANGED <<mode, memory, row, pending, delayed, cur, history, faults>>

\* ... but the last one has to wait for room when the queue was refilled
\* before the worker had its first entry.
EndDrainWaiting(w) ==
    /\ pc[w] = "draining"
    /\ queue = {}
    /\ Cardinality(deferred) > MaxDepth
    /\ \E e \in deferred : /\ queue' = deferred \ {e}
                           /\ pending' = pending \cup {HeldBy(e, w)}
    /\ deferred' = {}
    /\ pc' = [pc EXCEPT ![w] = "waiting"]
    /\ UNCHANGED <<mode, memory, row, delayed, cur, history, faults>>

\* queue.put wakes when there is room, and tries again.
PutBack(w) ==
    /\ LoopFree
    /\ pc[w] = "waiting"
    /\ Cardinality(queue) < MaxDepth
    /\ \E e \in pending : /\ e.how = w
                          /\ queue' = queue \cup {[task |-> e.task, prio |-> e.prio]}
                          /\ pending' = pending \ {e}
    /\ pc' = [pc EXCEPT ![w] = "idle"]
    /\ UNCHANGED <<mode, memory, row, delayed, deferred, cur, history, faults>>

-----------------------------------------------------------------------------
(* Execution *)

Release(w) ==
    /\ pc' = [pc EXCEPT ![w] = "idle"]
    /\ cur' = [cur EXCEPT ![w] = NoTask]

\* _run_one_task records RUNNING and starts the execution coroutine ...
MarkRunning(w) ==
    /\ pc[w] = "claimed"
    /\ UpdateStatus(cur[w], "running")
    /\ pc' = [pc EXCEPT ![w] = "starting"]
    /\ UNCHANGED <<mode, memory, places, cur, history>>

\* ... or, when that write fails, puts the task back ...
RequeueUnmarked(w) ==
    /\ pc[w] = "claimed"
    /\ Cardinality(queue) < MaxDepth
    /\ UpdateFails(cur[w])
    /\ SetStatus(cur[w], "queued")
    /\ queue' = queue \cup {EntryOf(cur[w])}
    /\ Release(w)
    /\ UNCHANGED <<mode, pending, delayed, deferred, history>>

\* ... or waits for the room to do so.
RequeueWaiting(w) ==
    /\ pc[w] = "claimed"
    /\ Cardinality(queue) >= MaxDepth
    /\ UpdateFails(cur[w])
    /\ SetStatus(cur[w], "queued")
    /\ pending' = pending \cup {HeldBy(EntryOf(cur[w]), w)}
    /\ pc' = [pc EXCEPT ![w] = "waiting"]
    /\ cur' = [cur EXCEPT ![w] = NoTask]
    /\ UNCHANGED <<mode, queue, delayed, deferred, history>>

\* The first step of _execute records RUNNING a second time ...
StartExecution(w) ==
    /\ LoopFree
    /\ pc[w] = "starting"
    /\ SetStatus(cur[w], "running")
    /\ UpdateStatus(cur[w], "running")
    /\ pc' = [pc EXCEPT ![w] = "executing"]
    /\ UNCHANGED <<mode, places, cur, history>>

\* ... and when that write fails the exception reaches the worker loop, which
\* logs it and goes on; the task keeps its status.
AbandonExecution(w) ==
    /\ LoopFree
    /\ pc[w] = "starting"
    /\ UpdateFails(cur[w])
    /\ SetStatus(cur[w], "running")
    /\ Release(w)
    /\ UNCHANGED <<mode, places, history>>

\* The run reports its first irreversible side effect.
MarkSideEffects(w) ==
    /\ LoopFree
    /\ pc[w] = "executing"
    /\ cur[w] \in live
    /\ obj[cur[w]].effects = "none"
    /\ obj' = [obj EXCEPT ![cur[w]].effects = "started"]
    /\ SaveOrLose(cur[w])
    /\ affected' = affected \cup {cur[w]}
    /\ UNCHANGED <<mode, live, places, workers, granted, crashes>>

\* The run ends; its after_run hook may still be going.
FinishExecution(w, outcome) ==
    /\ LoopFree
    /\ pc[w] = "executing"
    /\ SetStatus(cur[w], outcome)
    /\ pc' = [pc EXCEPT ![w] = "finishing"]
    /\ UNCHANGED <<mode, row, places, cur, history, faults>>

\* The final save; a failure is logged and the memory status stands.
SaveOutcome(w) ==
    /\ LoopFree
    /\ pc[w] = "finishing"
    /\ UNCHANGED memory
    /\ SaveOrLose(cur[w])
    /\ Release(w)
    /\ UNCHANGED <<mode, places, history>>

-----------------------------------------------------------------------------
(* Stalls *)

\* Mutated form of CancelStalled: the reconcile loop requeues the task itself
\* while its run is still unwinding.
CancelAndRequeueStalled(w) ==
    /\ LoopFree
    /\ pc[w] = "executing"
    /\ obj[cur[w]].status = "running"
    /\ SetStatus(cur[w], "queued")
    /\ Save(cur[w])
    /\ delayed' = delayed \cup {cur[w]}
    /\ pc' = [pc EXCEPT ![w] = "cancelling"]
    /\ UNCHANGED <<mode, queue, pending, deferred, cur, history>>

\* The reconcile loop finds the run silent for too long and cancels it.
CancelStalled(w) ==
    /\ LoopFree
    /\ pc[w] = "executing"
    /\ cur[w] \in live
    /\ obj[cur[w]].status = "running"
    /\ pc' = [pc EXCEPT ![w] = "cancelling"]
    /\ UNCHANGED <<mode, memory, row, places, cur, history, faults>>

\* CancelledError passes through _execute, whose finally clause saves.
Unwind(w) ==
    /\ LoopFree
    /\ pc[w] = "cancelling"
    /\ UNCHANGED memory
    /\ SaveOrLose(cur[w])
    /\ pc' = [pc EXCEPT ![w] = "unwound"]
    /\ UNCHANGED <<mode, places, cur, history>>

\* Mutated form of ShouldRetry: one retry too many.
ShouldRetryOnceMore(t) ==
    /\ obj[t].effects = "none"
    /\ obj[t].retries <= MaxRetries

\* Mutated form of ShouldRetry: side effects are not asked about (#971).
ShouldRetryAnyway(t) == obj[t].retries < MaxRetries

ShouldRetry(t) ==
    /\ obj[t].effects = "none"
    /\ obj[t].retries < MaxRetries

\* The worker fails the stalled task, and goes on to retry it if it may.
FailStalled(w) ==
    /\ LoopFree
    /\ pc[w] = "unwound"
    /\ SetStatus(cur[w], "failed")
    /\ SaveOrLose(cur[w])
    /\ IF ShouldRetry(cur[w]) /\ cur[w] \in live
         THEN pc' = [pc EXCEPT ![w] = "retrying"] /\ UNCHANGED cur
         ELSE Release(w)
    /\ UNCHANGED <<mode, places, history>>

\* retry_task, called by the stall handler; when its save fails the exception
\* leaves the handler and the task is not scheduled.
RequeueStalled(w) ==
    /\ pc[w] = "retrying"
    /\ SetStatus(cur[w], "queued")
    /\ \/ Save(cur[w]) /\ pc' = [pc EXCEPT ![w] = "bumping"] /\ UNCHANGED cur
       \/ StoreFault /\ Release(w)
    /\ UNCHANGED <<mode, places, history>>

\* The retry is counted and the delayed put scheduled.
BumpRetry(w) ==
    /\ pc[w] = "bumping"
    /\ obj' = [obj EXCEPT ![cur[w]].retries = @ + 1]
    /\ SaveOrLose(cur[w])
    /\ delayed' = delayed \cup {cur[w]}
    /\ Release(w)
    /\ UNCHANGED <<mode, live, queue, pending, deferred, history>>

\* The backoff is over: the put is scheduled with the task's priority.
EndBackoff(t) ==
    /\ LoopFree
    /\ t \in delayed
    /\ delayed' = delayed \ {t}
    /\ pending' = pending \cup {[task |-> t, prio |-> obj[t].prio, how |-> "loop"]}
    /\ UNCHANGED <<mode, memory, row, queue, deferred, workers, history, faults>>

-----------------------------------------------------------------------------
(* Operator requests *)

\* Mutated form of CancelTask: the row is not updated.
CancelInMemory(t) ==
    /\ LoopFree
    /\ t \in live
    /\ obj[t].status \in {"queued", "cancelled"}
    /\ SetStatus(t, "cancelled")
    /\ UNCHANGED <<mode, row, places, workers, history, faults>>

\* Only a queued task can be cancelled; cancelling it again writes the row
\* again.  When that write fails the request fails too, but the object stays
\* cancelled.
CancelTask(t) ==
    /\ LoopFree
    /\ t \in live
    /\ obj[t].status \in {"queued", "cancelled"}
    /\ SetStatus(t, "cancelled")
    /\ UpdateStatus(t, "cancelled") \/ UpdateFails(t)
    /\ UNCHANGED <<mode, places, workers, history>>

\* Mutated form of RetryTask: the task is also put on the queue, though the
\* worker whose run failed may still be in its after_run hook.
RetryAndEnqueueTask(t) ==
    /\ LoopFree
    /\ t \in (live \cap Retryable) \ granted
    /\ obj[t].status = "failed"
    /\ SetStatus(t, "queued")
    /\ SaveOrLose(t)
    /\ pending' = pending \cup {[task |-> t, prio |-> obj[t].prio, how |-> "loop"]}
    /\ granted' = granted \cup {t}
    /\ UNCHANGED <<mode, queue, delayed, deferred, workers, affected, crashes>>

\* retry_task on behalf of an operator.  Nothing is put on the queue.
RetryTask(t) ==
    /\ LoopFree
    /\ t \in (live \cap Retryable) \ granted
    /\ obj[t].status = "failed"
    /\ SetStatus(t, "queued")
    /\ SaveOrLose(t)
    /\ granted' = granted \cup {t}
    /\ UNCHANGED <<mode, places, workers, affected, crashes>>

-----------------------------------------------------------------------------
(* Retention *)

\* finished_at is stamped once no worker has the task in hand.
Retired(t) == obj[t].status \in Terminal /\ ~Held(t)

\* The live eviction loop drops old terminal tasks from memory.
Evict(t) ==
    /\ LoopFree
    /\ LiveEviction
    /\ t \in live
    /\ Retired(t)
    /\ live' = live \ {t}
    /\ UNCHANGED <<mode, obj, row, places, workers, history, faults>>

\* The retention loop also deletes terminal rows, once they are days old: long
\* after every put and every backoff scheduled before.
Prune(t) ==
    /\ LoopFree
    /\ Retention
    /\ row[t].status \in Terminal
    /\ ~Held(t)
    /\ t \notin delayed
    /\ \A e \in pending : e.task # t \/ e.how \in Worker
    /\ live' = IF Retired(t) THEN live \ {t} ELSE live
    /\ row' = [row EXCEPT ![t] = NoRecord]
    /\ UNCHANGED <<mode, obj, places, workers, history, faults>>

-----------------------------------------------------------------------------
(* Crash and recovery *)

\* The process dies, or stop cancels its workers: memory is gone.
Crash ==
    /\ mode = "up"
    /\ crashes < MaxCrashes
    /\ crashes' = crashes + 1
    /\ mode' = "down"
    /\ obj' = [t \in Task |-> NoRecord]
    /\ live' = {}
    /\ queue' = {}
    /\ pending' = {}
    /\ delayed' = {}
    /\ deferred' = {}
    /\ pc' = [w \in Worker |-> "idle"]
    /\ cur' = [w \in Worker |-> NoTask]
    /\ UNCHANGED <<row, granted, affected, faults>>

\* Mutated form of FailInterrupted: every row that is not queued fails.
FailUnqueued ==
    row' = [t \in Task |->
              IF row[t].status \in {"queued", "none"}
                THEN row[t] ELSE [row[t] EXCEPT !.status = "failed"]]

\* Mutated form of FailInterrupted: interrupted runs are queued again.
RequeueInterrupted ==
    row' = [t \in Task |->
              IF row[t].status = "running" THEN [row[t] EXCEPT !.status = "queued"]
                                           ELSE row[t]]

\* TaskStore.recover_pending: interrupted runs fail ...
FailInterrupted ==
    row' = [t \in Task |->
              IF row[t].status = "running" THEN [row[t] EXCEPT !.status = "failed"]
                                           ELSE row[t]]

\* ... and the queued rows come back.
Recoverable == {t \in Task : row[t].status = "queued"}

\* Mutated form of Recover: the tasks are tracked again but not enqueued.
RecoverUnqueued ==
    /\ mode = "down"
    /\ Cardinality(Recoverable) <= MaxDepth
    /\ FailInterrupted
    /\ mode' = "up"
    /\ obj' = [t \in Task |-> IF t \in Recoverable THEN row[t] ELSE NoRecord]
    /\ live' = Recoverable
    /\ UNCHANGED <<places, workers, history, faults>>

Recover ==
    /\ mode = "down"
    /\ Cardinality(Recoverable) <= MaxDepth
    /\ FailInterrupted
    /\ mode' = "up"
    /\ obj' = [t \in Task |-> IF t \in Recoverable THEN row[t] ELSE NoRecord]
    /\ live' = Recoverable
    /\ queue' = {[task |-> t, prio |-> row[t].prio] : t \in Recoverable}
    /\ UNCHANGED <<pending, delayed, deferred, workers, history, faults>>

\* More queued rows than the queue holds: start raises QueueSaturationError.
RecoverFails ==
    /\ mode = "down"
    /\ Cardinality(Recoverable) > MaxDepth
    /\ FailInterrupted
    /\ UNCHANGED <<mode, memory, places, workers, history, faults>>

-----------------------------------------------------------------------------

Init ==
    /\ mode = "up"
    /\ obj = [t \in Task |-> NoRecord]
    /\ live = {}
    /\ row = [t \in Task |-> NoRecord]
    /\ queue = {}
    /\ pending = {}
    /\ delayed = {}
    /\ deferred = {}
    /\ pc = [w \in Worker |-> "idle"]
    /\ cur = [w \in Worker |-> NoTask]
    /\ granted = {}
    /\ affected = {}
    /\ faults = 0
    /\ crashes = 0

Drain(w) ==
    \/ \E e \in queue : Take(w, e)
    \/ \E e \in Entry : \/ SkipStale(w, e)
                        \/ FailDependent(w, e)
                        \/ Defer(w, e)
                        \/ Claim(w, e)
    \/ EndDrain(w)
    \/ EndDrainWaiting(w)

Execute(w) ==
    \/ MarkRunning(w)
    \/ RequeueUnmarked(w)
    \/ RequeueWaiting(w)
    \/ StartExecution(w)
    \/ AbandonExecution(w)
    \/ MarkSideEffects(w)
    \/ \E outcome \in {"completed", "failed"} : FinishExecution(w, outcome)
    \/ SaveOutcome(w)

HandleStall(w) ==
    \/ CancelStalled(w)
    \/ Unwind(w)
    \/ FailStalled(w)
    \/ RequeueStalled(w)
    \/ BumpRetry(w)

RunPut(e) == PutEntry(e) \/ FailSaturated(e) \/ RejectPut(e) \/ RollBack(e)

Submit(t) == \E p \in Prio : SubmitOnLoop(t, p) \/ SubmitFromThread(t, p)

Next ==
    \/ \E w \in Worker : Drain(w) \/ PutBack(w) \/ Execute(w) \/ HandleStall(w)
    \/ \E e \in pending : RunPut(e)
    \/ \E t \in Task : \/ Submit(t)
                       \/ EndBackoff(t)
                       \/ CancelTask(t)
                       \/ RetryTask(t)
                       \/ Evict(t)
                       \/ Prune(t)
    \/ Crash
    \/ Recover
    \/ RecoverFails

Spec == Init /\ [][Next]_vars

\* asyncio serves its ready callbacks first in, first out, so a coroutine or
\* callback that is ready time and again gets its turn; every backend call
\* returns, raises, or falls silent and is cancelled by the stall loop; a
\* thread whose put was refused rolls back; a daemon that is down is started.
\* A worker that waits for room is woken when some is made, and may find it
\* taken again.
\* Requests of clients and operators, crashes and retention are not fair.
Fairness ==
    /\ \A w \in Worker : /\ SF_vars(Drain(w) \/ Execute(w) \/ HandleStall(w))
                         /\ WF_vars(PutBack(w))
    /\ \A t \in Task : /\ SF_vars(EndBackoff(t))
                       /\ SF_vars(\E e \in pending : e.task = t /\ RunPut(e))
    /\ WF_vars(Recover)

FairSpec == Spec /\ Fairness

-----------------------------------------------------------------------------
(* The daemon with reprioritize_task, called on the event loop.  The        *)
(* PriorityQueue cannot be changed in place, so the method puts a second    *)
(* entry and leaves the first where it is.                                  *)

EntryAt(t, p) == \E e \in queue \cup deferred \cup pending : e.task = t /\ e.prio = p

\* A caller knows the task's id once its submission has returned.
Submitted(t) == \A e \in pending : e.task = t => e.how \notin {"thread", "rejected"}

\* Mutated form of Reprioritize: the new priority is not saved.
ReprioritizeInMemory(t, p) ==
    /\ LoopFree
    /\ t \in live
    /\ obj[t].status = "queued"
    /\ Submitted(t)
    /\ ~EntryAt(t, p)
    /\ obj' = [obj EXCEPT ![t].prio = p]
    /\ pending' = pending \cup {[task |-> t, prio |-> p, how |-> "loop"]}
    /\ UNCHANGED <<mode, live, row, queue, delayed, deferred, workers, history, faults>>

\* The put of the second entry is deferred to a later iteration of the loop.
\* Bound: entries are a set, so no second entry equal to a first one.
Reprioritize(t, p) ==
    /\ LoopFree
    /\ t \in live
    /\ obj[t].status = "queued"
    /\ Submitted(t)
    /\ ~EntryAt(t, p)
    /\ obj' = [obj EXCEPT ![t].prio = p]
    /\ Save(t)
    /\ pending' = pending \cup {[task |-> t, prio |-> p, how |-> "loop"]}
    /\ UNCHANGED <<mode, live, queue, delayed, deferred, workers, history>>

NextReprioritize == Next \/ \E t \in Task, p \in Prio : Reprioritize(t, p)

SpecReprioritize == Init /\ [][NextReprioritize]_vars

-----------------------------------------------------------------------------
(* Properties *)

TypeOK ==
    /\ mode \in {"up", "down"}
    /\ obj \in [Task -> Record]
    /\ live \subseteq Task
    /\ row \in [Task -> Record]
    /\ queue \subseteq Entry
    /\ pending \subseteq Put
    /\ delayed \subseteq Task
    /\ deferred \subseteq Entry
    /\ pc \in [Worker -> WorkerState]
    /\ cur \in [Worker -> Task \cup {NoTask}]
    /\ granted \subseteq Task
    /\ affected \subseteq Task
    /\ faults \in 0..MaxFaults
    /\ crashes \in 0..MaxCrashes

\* No two workers ever have the same task in hand: whatever the order of
\* stalls, retries, failed writes, operator requests and crashes, a task is
\* executed by one worker at a time (worker.py, maintenance.py, runner.py).
ExclusiveExecution ==
    \A v, w \in Worker : v # w /\ cur[v] = cur[w] => cur[v] = NoTask

\* The ways a task is on its way to a worker, or with one.
Scheduled(t) ==
    \/ \E e \in queue \cup deferred \cup pending : e.task = t
    \/ t \in delayed
    \/ Held(t)

\* No task is on its way to a worker twice: over the queue, the entries set
\* aside, the scheduled puts, the backoffs and the workers' hands, a task
\* occurs at most once.  It is what makes ExclusiveExecution inductive.
OneEntryPerTask ==
    /\ ExclusiveExecution
    /\ \A e, f \in queue \cup deferred : e.task = f.task => e = f
    /\ \A e, f \in pending : e.task = f.task => e = f
    /\ queue \cap deferred = {}
    /\ \A e \in queue \cup deferred, f \in pending : e.task # f.task
    /\ \A e \in queue \cup deferred \cup pending :
          e.task \notin delayed /\ ~Held(e.task)
    /\ \A t \in delayed : ~Held(t)

\* A task in a worker's hand had all its dependencies completed, and they
\* still are, however memory was evicted or recovered in between.
DependenciesMet ==
    \A w \in Worker :
        cur[w] # NoTask => \A d \in DependsOn[cur[w]] : obj[d].status = "completed"

\* The workers that run a task of a capped kind never exceed the cap
\* (_count_running_tasks_locked and the claim).
KindCapRespected ==
    \A k \in DOMAIN Cap :
        Cardinality({w \in Worker : /\ pc[w] \in Running \cup {"claimed", "unwound"}
                                    /\ KindOf[cur[w]] = k}) <= Cap[k]

\* A worker can put back what it took.  Where the get keeps the loop, no
\* producer comes between: the queue with the entries set aside stays within
\* its depth, the await queue.put of _run_one_task and of _restore_deferred
\* never blocks, and the workers cannot all wait for room that only they make.
\* Where it does not, producers may refill the queue meanwhile, but a drain
\* still has at most one entry more than fits.
RoomForRequeue ==
    /\ Cardinality(queue) <= MaxDepth
    /\ Cardinality(queue) + Cardinality(deferred) <= IF GetSuspends THEN MaxDepth + 1
                                                                    ELSE MaxDepth
    /\ ~GetSuspends =>
          \A w \in Worker : /\ pc[w] # "waiting"
                            /\ pc[w] = "claimed" => Cardinality(queue) < MaxDepth

\* While no write has failed, the row of every live task that no worker has
\* in hand is exactly its object: a crash between two requests loses nothing.
StoreAgrees ==
    faults = 0 =>
        \A t \in live : ~Held(t) => row[t] = obj[t]

\* A task whose run reported a side effect is never queued again, in memory or
\* on disk, unless an operator retried it: neither a stall retry nor crash
\* recovery repeats the effect, even when writes of the store fail (#971).
NoSilentRerun ==
    \A t \in affected \ granted : obj[t].status # "queued" /\ row[t].status # "queued"

\* A stalled task is retried automatically at most MaxRetries times.
RetryBudget ==
    \A t \in Task : obj[t].retries <= MaxRetries /\ row[t].retries <= MaxRetries

\* While no write has failed, a queued task is on its way to a worker (unless
\* an operator retried it) and a running one is in a worker's hand: no
\* interleaving of saturation, cancellation and stall retries strands a task
\* (#972, #973).
NothingStranded ==
    faults = 0 =>
        \A t \in live :
            /\ obj[t].status = "queued" /\ t \notin granted => Scheduled(t)
            /\ obj[t].status = "running" => Held(t)

\* A completed task stays completed, in memory while the process runs and in
\* its row until it is pruned.
CompletedIsFinal ==
    [][\A t \in Task :
        /\ obj[t].status = "completed" /\ mode' = "up" => obj'[t].status = "completed"
        /\ row[t].status = "completed" => row'[t].status \in {"completed", "none"}]_vars

Eligible(t) ==
    /\ obj[t].status = "queued"
    /\ ~FailedDependency(t)
    /\ ~DependenciesPending(t)
    /\ ~AtKindCap(t)

\* A worker that claims a task off the queue leaves no more urgent entry behind
\* that is eligible, in the queue or set aside.
UrgentFirst ==
    [][\A w \in Worker : pc[w] \in {"idle", "draining"} /\ pc'[w] = "claimed" =>
        \A e \in queue \cup deferred :
            Eligible(e.task) => obj[cur'[w]].prio <= e.prio]_vars

\* A queued task whose dependencies have all been submitted ends up terminal,
\* or a refused submission took it or a dependency back.
EventuallySettled ==
    \A t \in Task :
        (obj[t].status = "queued" /\ \A d \in DependsOn[t] : obj[d].status # "none")
          ~> \/ obj[t].status \in Terminal \cup {"none"}
             \/ \E d \in DependsOn[t] : obj[d].status = "none"

\* A queued row ends up terminal, or is taken back by its submitter, however
\* often the daemon goes down and comes up again in between; the one exception
\* waits for a dependency the daemon has not heard of, or forgot when it restarted.
QueuedWorkIsNotLost ==
    \A t \in Task :
        row[t].status = "queued"
          ~> \/ row[t].status \in Terminal \cup {"none"}
             \/ \E d \in DependsOn[t] : obj[d].status = "none"

-----------------------------------------------------------------------------
(* The task daemon keeps what TaskPromise promises: the record of a task is  *)
(* its row, and an effect counts until an operator retries the task.         *)

recorded == [t \in Task |-> row[t].status]

Promise == INSTANCE TaskPromise WITH
    status <- recorded, spoiled <- affected \ granted, lossy <- faults > 0

\* Whatever the order of stalls, retries, failed writes, operator requests,
\* crashes and recoveries, every step of the daemon is, seen through the rows,
\* a step the promise allows (SPEC.md:75-95).
KeepsPromise == Promise!Spec

-----------------------------------------------------------------------------
(* What the repository says of the daemon and the code does not do *)

\* runner.py:899: retry_task requeues a failed task.  It sets the status and
\* saves, but puts no entry on the queue.
RetriedIsScheduled ==
    \A t \in granted \cap live : obj[t].status = "queued" => Scheduled(t)

\* worker.py:57-58: a task whose RUNNING write failed is put back "so it is
\* retried rather than silently lost".  Where the get suspends, producers may
\* have filled the queue since the task was taken; once every worker waits for
\* room this way, no worker is left to make any.
UnmarkedIsRetried ==
    \A w \in Worker : pc[w] = "waiting" ~> pc[w] # "waiting"

\* SPEC.md:86-93: a queued task runs once its dependencies are completed and
\* fails when one has failed.  The claim looks dependencies up in live memory
\* only, so one that was evicted first holds its dependent back for good.
DependentIsReleased ==
    \A t \in Task :
        (obj[t].status = "queued" /\ \A d \in DependsOn[t] : obj[d].status \in Terminal)
          ~> obj[t].status # "queued"

\* task_store.py:4-5: a restart does not lose queued work.  With more queued
\* rows than the queue holds, start raises and the daemon never comes up.
RestartSucceeds == mode = "down" ~> mode = "up"

\* runner.py:1004-1006: an entry already dequeued is harmless, the task object
\* being the source of truth.  A task that failed, that an operator retries
\* while the worker that dequeued it is still in its after_run hook, is queued
\* again, and the entry reprioritize_task puts has a second worker run it.
DequeuedEntryIsHarmless == ExclusiveExecution

=============================================================================
