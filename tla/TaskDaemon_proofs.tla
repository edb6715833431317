------------------------- MODULE TaskDaemon_proofs -------------------------
(* Machine-checked theorems about the specification of TaskDaemon. *)
EXTENDS TaskDaemon, TLAPS

-----------------------------------------------------------------------------
(* The inductive invariant *)

\* A worker has a task in hand exactly in the states past a claim.
HandInv ==
    \A w \in Worker : cur[w] = NoTask <=> pc[w] \in {"idle", "taken", "waiting", "draining"}

\* While the process is down nothing is on its way to a worker.
DownInv ==
    mode = "down" =>
        /\ queue = {} /\ pending = {} /\ delayed = {} /\ deferred = {}
        /\ \A w \in Worker : cur[w] = NoTask

\* What is on its way to a worker has a task object.
Known(t) == obj[t].status # "none"
TrackedInv ==
    /\ \A e \in queue \cup deferred \cup pending : Known(e.task)
    /\ \A t \in delayed : Known(t)
    /\ \A w \in Worker : cur[w] # NoTask => Known(cur[w])

IInv == TypeOK /\ HandInv /\ DownInv /\ TrackedInv /\ OneEntryPerTask

\* A stall retry about to be made, or to be counted, is within the budget.
BudgetInv ==
    /\ RetryBudget
    /\ \A w \in Worker :
          pc[w] \in {"retrying", "bumping"} => obj[cur[w]].retries < MaxRetries

\* The flag of a run that had a side effect stays up as long as its object
\* lasts; a task that may go back to queued has had none; and a run that may
\* have its first one is recorded as started.
EffectsInv ==
    /\ NoSilentRerun
    /\ \A t \in affected \ granted : Known(t) => obj[t].effects = "started"
    /\ \A w \in Worker :
          /\ pc[w] \in {"claimed", "retrying"} => cur[w] \notin affected \ granted
          /\ pc[w] = "executing" => /\ obj[cur[w]].status = "running"
                                    /\ row[cur[w]].status # "queued"

-----------------------------------------------------------------------------
(* What the helpers of the actions do *)

\* Writing the status of one task touches no other field and no other task.
LEMMA StatusChange ==
    ASSUME NEW f \in [Task -> Record], NEW t \in Task, NEW s \in TaskStatus,
           NEW g, g = [f EXCEPT ![t].status = s]
    PROVE  /\ g \in [Task -> Record]
           /\ g[t].status = s
           /\ \A u \in Task : /\ g[u].prio = f[u].prio
                             /\ g[u].retries = f[u].retries
                             /\ g[u].effects = f[u].effects
           /\ \A u \in Task \ {t} : g[u] = f[u]
<1> DEFINE r == [f[t] EXCEPT !.status = s]
<1>1. f[t] \in Record
  OBVIOUS
<1>2. r = [status |-> s, prio |-> f[t].prio, retries |-> f[t].retries, effects |-> f[t].effects]
  BY <1>1 DEF Record
<1>3. r \in Record
  BY <1>1, <1>2 DEF Record
<1>4. g = [f EXCEPT ![t] = r]
  OBVIOUS
<1> HIDE DEF r
<1>5. g \in [Task -> Record] /\ g[t] = r /\ \A u \in Task \ {t} : g[u] = f[u]
  BY <1>3, <1>4
<1>6. /\ r.status = s
      /\ r.prio = f[t].prio
      /\ r.retries = f[t].retries
      /\ r.effects = f[t].effects
  BY <1>2
<1> QED
  BY <1>5, <1>6

\* Raising the side-effect flag of one task touches nothing else.
LEMMA EffectsChange ==
    ASSUME NEW f \in [Task -> Record], NEW t \in Task,
           NEW g, g = [f EXCEPT ![t].effects = "started"]
    PROVE  /\ g \in [Task -> Record]
           /\ g[t].effects = "started"
           /\ \A u \in Task : /\ g[u].status = f[u].status
                             /\ g[u].prio = f[u].prio
                             /\ g[u].retries = f[u].retries
           /\ \A u \in Task \ {t} : g[u] = f[u]
<1> DEFINE r == [f[t] EXCEPT !.effects = "started"]
<1>1. f[t] \in Record
  OBVIOUS
<1>2. /\ r \in Record
      /\ r.status = f[t].status
      /\ r.prio = f[t].prio
      /\ r.retries = f[t].retries
      /\ r.effects = "started"
  BY <1>1 DEF Record
<1>3. g = [f EXCEPT ![t] = r]
  OBVIOUS
<1> HIDE DEF r
<1> QED
  BY <1>2, <1>3

\* Counting one retry of a task touches nothing else.
LEMMA RetriesChange ==
    ASSUME NEW f \in [Task -> Record], NEW t \in Task,
           NEW g, g = [f EXCEPT ![t].retries = @ + 1]
    PROVE  /\ g \in [Task -> Record]
           /\ g[t].retries = f[t].retries + 1
           /\ \A u \in Task : /\ g[u].status = f[u].status
                             /\ g[u].prio = f[u].prio
                             /\ g[u].effects = f[u].effects
           /\ \A u \in Task \ {t} : g[u] = f[u]
<1> DEFINE r == [f[t] EXCEPT !.retries = @ + 1]
<1>1. f[t] \in Record
  OBVIOUS
<1>2. /\ r \in Record
      /\ r.status = f[t].status
      /\ r.prio = f[t].prio
      /\ r.effects = f[t].effects
      /\ r.retries = f[t].retries + 1
  BY <1>1 DEF Record
<1>3. g = [f EXCEPT ![t] = r]
  OBVIOUS
<1> HIDE DEF r
<1> QED
  BY <1>2, <1>3

\* A worker past its claim holds a task.
LEMMA HandTyped ==
    ASSUME TypeOK, HandInv, NEW w \in Worker, pc[w] \notin {"idle", "taken", "waiting", "draining"}
    PROVE  cur[w] \in Task
BY DEF TypeOK, HandInv

\* The entry a worker decides about is the queue's, or the one it has held.
LEMMA ObtainEffect ==
    ASSUME TypeOK, NEW w \in Worker, NEW e \in Entry, Obtain(w, e)
    PROVE  /\ \/ e \in queue /\ pending' = pending
              \/ HeldBy(e, w) \in pending /\ pending' = pending \ {HeldBy(e, w)}
           /\ pending' \subseteq pending
           /\ HeldBy(e, w).task = e.task
           /\ e.task \in Task
           /\ pc[w] \in {"idle", "draining", "taken"}
           /\ Dropped \in {"idle", "draining"}
BY DEF TypeOK, Obtain, CanTake, IsNext, HeldBy, Dropped, Entry

\* Its task has a task object.
LEMMA ObtainKnown ==
    ASSUME TypeOK, TrackedInv, NEW w \in Worker, NEW e \in Entry, Obtain(w, e)
    PROVE  Known(e.task)
BY ObtainEffect DEF TrackedInv

\* With the entry taken, its task is nowhere else.
LEMMA ObtainOne ==
    ASSUME TypeOK, OneEntryPerTask, NEW w \in Worker, NEW e \in Entry, Obtain(w, e)
    PROVE  /\ \A f \in (queue \ {e}) \cup deferred \cup pending' : f.task # e.task
           /\ e.task \notin delayed
           /\ ~Held(e.task)
<1>1. CASE e \in queue /\ pending' = pending
  BY <1>1 DEF OneEntryPerTask
<1>2. CASE HeldBy(e, w) \in pending /\ pending' = pending \ {HeldBy(e, w)}
  BY <1>2, ObtainEffect DEF OneEntryPerTask
<1> QED
  BY <1>1, <1>2, ObtainEffect

\* _set_status (the task object) changes the status of that object only.
LEMMA SetStatusEffect ==
    ASSUME TypeOK, NEW t \in Task, NEW s \in TaskStatus, SetStatus(t, s)
    PROVE  /\ obj' \in [Task -> Record]
           /\ live' = live
           /\ obj'[t].status = s
           /\ \A u \in Task : /\ obj'[u].prio = obj[u].prio
                             /\ obj'[u].retries = obj[u].retries
                             /\ obj'[u].effects = obj[u].effects
           /\ \A u \in Task \ {t} : obj'[u] = obj[u]
BY StatusChange DEF TypeOK, SetStatus

\* A task object that is there stays there when its status is set.
LEMMA StatusKeepsKnown ==
    ASSUME TypeOK, NEW t \in Task, NEW s \in TaskStatus, SetStatus(t, s)
    PROVE  \A u \in Task : Known(u) => Known(u)'
<1>1. obj'[t].status # "none"
  BY SetStatusEffect DEF TaskStatus, Terminal
<1> QED
  BY <1>1, SetStatusEffect DEF Known

\* A store call that fails leaves the table as it was.
LEMMA FaultEffect ==
    ASSUME TypeOK, StoreFault
    PROVE  row' = row /\ faults' \in 0..MaxFaults
BY ConstantsAssumption DEF TypeOK, StoreFault

\* A save whose error is swallowed writes the task's row, or leaves it, and no
\* other row.
LEMMA SaveEffect ==
    ASSUME TypeOK, NEW t \in Task, obj' \in [Task -> Record], SaveOrLose(t)
    PROVE  /\ row' \in [Task -> Record]
           /\ faults' \in 0..MaxFaults
           /\ \A u \in Task : row'[u] \in {row[u], obj'[u]}
           /\ \A u \in Task \ {t} : row'[u] = row[u]
BY FaultEffect DEF TypeOK, SaveOrLose, Save

\* An update of a row that fails leaves the table as it was.
LEMMA UpdateFailsEffect ==
    ASSUME TypeOK, NEW t \in Task, UpdateFails(t)
    PROVE  row' = row /\ faults' \in 0..MaxFaults
BY FaultEffect DEF TypeOK, UpdateFails

\* A status update writes that field of that row only.
LEMMA UpdateEffect ==
    ASSUME TypeOK, NEW t \in Task, NEW s \in TaskStatus, UpdateStatus(t, s)
    PROVE  /\ row' \in [Task -> Record]
           /\ faults' = faults
           /\ row'[t].status = s
           /\ \A u \in Task : row'[u].retries = row[u].retries
           /\ \A u \in Task \ {t} : row'[u] = row[u]
BY StatusChange DEF TypeOK, UpdateStatus

\* Submission creates a queued task object with no retries and no side effect,
\* and touches no other task.
LEMMA TrackEffect ==
    ASSUME TypeOK, NEW t \in Task, NEW p \in Prio, NEW how \in {"loop", "thread"},
           Track(t, p, how)
    PROVE  /\ obj[t].status = "none" /\ row[t].status = "none"
           /\ obj' \in [Task -> Record]
           /\ row' \in [Task -> Record]
           /\ row'[t] = obj'[t]
           /\ obj'[t].status = "queued"
           /\ obj'[t].prio = p
           /\ obj'[t].retries = 0
           /\ \A u \in Task \ {t} : obj'[u] = obj[u] /\ row'[u] = row[u]
           /\ live' = live \cup {t}
           /\ pending' = pending \cup {[task |-> t, prio |-> p, how |-> how]}
           /\ granted' = granted \ {t}
           /\ affected' = affected \ {t}
           /\ UNCHANGED <<mode, queue, delayed, deferred, pc, cur, faults, crashes>>
<1>1. /\ Fresh(p) \in Record
      /\ Fresh(p).status = "queued"
      /\ Fresh(p).prio = p
      /\ Fresh(p).retries = 0
  BY DEF Fresh, Record, TaskStatus
<1>2. obj' = [obj EXCEPT ![t] = Fresh(p)] /\ row' = [row EXCEPT ![t] = obj'[t]]
  BY DEF Track, Save
<1> QED
  BY <1>1, <1>2 DEF TypeOK, Track, Save, NoRecord, workers

\* Marking a run's side effects sets the flag of the task in hand only, and
\* leaves every route to a worker as it was.
LEMMA MarkEffect ==
    ASSUME TypeOK, HandInv, NEW w \in Worker, MarkSideEffects(w)
    PROVE  /\ cur[w] \in Task
           /\ obj' \in [Task -> Record]
           /\ obj'[cur[w]].effects = "started"
           /\ \A u \in Task : /\ obj'[u].status = obj[u].status
                             /\ obj'[u].prio = obj[u].prio
                             /\ obj'[u].retries = obj[u].retries
           /\ \A u \in Task \ {cur[w]} : obj'[u] = obj[u]
           /\ pc[w] = "executing"
           /\ SaveOrLose(cur[w])
           /\ affected' = affected \cup {cur[w]}
           /\ UNCHANGED <<mode, live, queue, pending, delayed, deferred, pc, cur, granted, crashes>>
BY EffectsChange, HandTyped DEF TypeOK, MarkSideEffects, places, workers

\* A worker whose put has to wait gives its task up as queued, and holds the
\* entry.
LEMMA WaitingEffect ==
    ASSUME TypeOK, HandInv, NEW w \in Worker, RequeueWaiting(w)
    PROVE  /\ cur[w] \in Task
           /\ pc[w] = "claimed"
           /\ obj' \in [Task -> Record]
           /\ obj'[cur[w]].status = "queued"
           /\ \A u \in Task : /\ obj'[u].prio = obj[u].prio
                             /\ obj'[u].retries = obj[u].retries
                             /\ obj'[u].effects = obj[u].effects
           /\ \A u \in Task \ {cur[w]} : obj'[u] = obj[u]
           /\ faults' \in 0..MaxFaults
           /\ pending' = pending \cup
                           {[task |-> cur[w], prio |-> obj[cur[w]].prio, how |-> w]}
           /\ pc' = [pc EXCEPT ![w] = "waiting"]
           /\ cur' = [cur EXCEPT ![w] = NoTask]
           /\ UNCHANGED <<mode, live, row, queue, delayed, deferred, granted, affected, crashes>>
<1>1. cur[w] \in Task /\ pc[w] = "claimed" /\ "queued" \in TaskStatus
  BY HandTyped DEF RequeueWaiting, TaskStatus
<1>2. row' = row /\ faults' \in 0..MaxFaults
  BY <1>1, UpdateFailsEffect DEF RequeueWaiting
<1>3. /\ obj' \in [Task -> Record] /\ live' = live
      /\ obj'[cur[w]].status = "queued"
      /\ \A u \in Task : /\ obj'[u].prio = obj[u].prio
                        /\ obj'[u].retries = obj[u].retries
                        /\ obj'[u].effects = obj[u].effects
      /\ \A u \in Task \ {cur[w]} : obj'[u] = obj[u]
  BY <1>1, SetStatusEffect DEF RequeueWaiting
<1> QED
  BY <1>1, <1>2, <1>3 DEF RequeueWaiting, HeldBy, EntryOf, history

\* Counting a stall retry raises one counter by one, keeps the flag, and puts
\* the task to sleep in its backoff.
LEMMA BumpEffect ==
    ASSUME TypeOK, HandInv, NEW w \in Worker, BumpRetry(w)
    PROVE  /\ cur[w] \in Task
           /\ obj' \in [Task -> Record]
           /\ obj'[cur[w]].retries = obj[cur[w]].retries + 1
           /\ \A u \in Task : /\ obj'[u].status = obj[u].status
                             /\ obj'[u].prio = obj[u].prio
                             /\ obj'[u].effects = obj[u].effects
           /\ \A u \in Task \ {cur[w]} : obj'[u] = obj[u]
           /\ pc[w] = "bumping"
           /\ SaveOrLose(cur[w])
           /\ delayed' = delayed \cup {cur[w]}
           /\ Release(w)
           /\ UNCHANGED <<mode, live, queue, pending, deferred, granted, affected, crashes>>
BY RetriesChange, HandTyped DEF TypeOK, BumpRetry, history

\* Recovery's sweep of interrupted rows keeps every retry counter and flag, and
\* touches the status of running rows only.
LEMMA InterruptedEffect ==
    ASSUME TypeOK, FailInterrupted
    PROVE  /\ row' \in [Task -> Record]
           /\ \A t \in Task :
                 /\ row'[t].retries = row[t].retries
                 /\ row'[t].status =
                       IF row[t].status = "running" THEN "failed" ELSE row[t].status
<1> DEFINE r(t) == IF row[t].status = "running" THEN [row[t] EXCEPT !.status = "failed"]
                                                ELSE row[t]
<1>1. \A t \in Task : row[t] \in Record
  BY DEF TypeOK
<1>2. \A t \in Task : /\ r(t) \in Record
                      /\ r(t).retries = row[t].retries
                      /\ r(t).status =
                           IF row[t].status = "running" THEN "failed" ELSE row[t].status
  BY <1>1 DEF Record, TaskStatus, Terminal
<1>3. row' = [t \in Task |-> r(t)]
  BY DEF FailInterrupted
<1> HIDE DEF r
<1> QED
  BY <1>2, <1>3

\* The absent record is a record.
LEMMA NoRecordTyped == NoRecord \in Record /\ NoRecord.status = "none" /\ NoRecord.retries = 0
BY DEF NoRecord, Record

-----------------------------------------------------------------------------
(* Every step preserves every part of the invariants *)

\* Every step keeps every variable in its type.
LEMMA TypeStep ==
    ASSUME TypeOK, HandInv, [Next]_vars
    PROVE  TypeOK'
<1>1. ASSUME NEW w \in Worker, NEW e \in Entry, SkipStale(w, e)
      PROVE  TypeOK'
  BY <1>1, ObtainEffect DEF SkipStale, memory, history, HoldsLoop, TypeOK, WorkerState, AtQueue
<1>2. ASSUME NEW w \in Worker, NEW e \in Entry, FailDependent(w, e)
      PROVE  TypeOK'
  <2>1. /\ e.task \in Task /\ "failed" \in TaskStatus
        /\ pending' \subseteq pending /\ Dropped \in WorkerState
    BY <1>2, ObtainEffect DEF FailDependent, TaskStatus, Terminal, WorkerState, AtQueue, HoldsLoop
  <2> QED
    BY <1>2, <2>1, SaveEffect, SetStatusEffect DEF FailDependent, history, TypeOK
<1>3. ASSUME NEW w \in Worker, NEW e \in Entry, Defer(w, e)
      PROVE  TypeOK'
  BY <1>3, ObtainEffect DEF Defer, memory, history, HoldsLoop, TypeOK, WorkerState, AtQueue
<1>4. ASSUME NEW w \in Worker, NEW e \in Entry, Claim(w, e)
      PROVE  TypeOK'
  BY <1>4, ObtainEffect, SetStatusEffect DEF Claim, history, HoldsLoop, TypeOK, Entry,
      WorkerState, AtQueue, TaskStatus
<1>5. ASSUME NEW w \in Worker, EndDrain(w) PROVE TypeOK'
  BY <1>5 DEF EndDrain, memory, history, TypeOK, WorkerState, AtQueue
<1>6. ASSUME NEW w \in Worker, MarkRunning(w) PROVE TypeOK'
  BY <1>6, UpdateEffect DEF MarkRunning, memory, places, history, TypeOK,
      HandInv, WorkerState, AtQueue, Running, TaskStatus
<1>7. ASSUME NEW w \in Worker, RequeueUnmarked(w) PROVE TypeOK'
  BY <1>7, UpdateFailsEffect, SetStatusEffect DEF RequeueUnmarked, history, EntryOf,
      Release, TypeOK, HandInv, Entry, WorkerState, AtQueue, TaskStatus, Record
<1>8. ASSUME NEW w \in Worker, StartExecution(w) PROVE TypeOK'
  BY <1>8, UpdateEffect, SetStatusEffect DEF StartExecution, places, history,
      TypeOK, HandInv, WorkerState, AtQueue, Running, TaskStatus
<1>9. ASSUME NEW w \in Worker, AbandonExecution(w) PROVE TypeOK'
  BY <1>9, UpdateFailsEffect, SetStatusEffect DEF AbandonExecution, places, history,
      Release, TypeOK, HandInv, WorkerState, AtQueue, TaskStatus
<1>10. ASSUME NEW w \in Worker, MarkSideEffects(w) PROVE TypeOK'
  BY <1>10, SaveEffect, MarkEffect DEF TypeOK
<1>11. ASSUME NEW w \in Worker, NEW o \in {"completed", "failed"},
             FinishExecution(w, o)
      PROVE  TypeOK'
  BY <1>11, SetStatusEffect DEF FinishExecution, places, history, TypeOK,
      HandInv, WorkerState, AtQueue, TaskStatus, Terminal
<1>12. ASSUME NEW w \in Worker, SaveOutcome(w) PROVE TypeOK'
  BY <1>12, SaveEffect DEF SaveOutcome, memory, places, history, Release,
      TypeOK, HandInv, WorkerState, AtQueue
<1>13. ASSUME NEW w \in Worker, CancelStalled(w) PROVE TypeOK'
  BY <1>13 DEF CancelStalled, memory, places, history, TypeOK, WorkerState, AtQueue,
      Running
<1>14. ASSUME NEW w \in Worker, Unwind(w) PROVE TypeOK'
  BY <1>14, SaveEffect DEF Unwind, memory, places, history, TypeOK, HandInv,
      WorkerState, AtQueue
<1>15. ASSUME NEW w \in Worker, FailStalled(w) PROVE TypeOK'
  BY <1>15, SaveEffect, SetStatusEffect DEF FailStalled, places, history,
      LoopFree, Release, HoldsLoop, TypeOK, HandInv, WorkerState, AtQueue, TaskStatus,
      Terminal
<1>16. ASSUME NEW w \in Worker, RequeueStalled(w) PROVE TypeOK'
  BY <1>16, SetStatusEffect, SaveEffect DEF RequeueStalled, SaveOrLose, places,
      history, Release, TypeOK, HandInv, WorkerState, AtQueue, HoldsLoop, TaskStatus
<1>17. ASSUME NEW w \in Worker, BumpRetry(w) PROVE TypeOK'
  BY <1>17, SaveEffect, BumpEffect DEF Release, TypeOK, WorkerState, AtQueue
<1>18. ASSUME NEW e \in pending, PutEntry(e) PROVE TypeOK'
  BY <1>18 DEF PutEntry, memory, workers, history, TypeOK, Entry, Put
<1>19. ASSUME NEW e \in pending, FailSaturated(e) PROVE TypeOK'
  BY <1>19, SaveEffect, SetStatusEffect DEF FailSaturated, workers, history,
      TypeOK, Put, TaskStatus, Terminal
<1>20. ASSUME NEW e \in pending, RejectPut(e) PROVE TypeOK'
  BY <1>20 DEF RejectPut, memory, workers, history, TypeOK, Put, Scheduling
<1>21. ASSUME NEW e \in pending, RollBack(e) PROVE TypeOK'
  BY <1>21, NoRecordTyped DEF RollBack, memory, workers, history, TypeOK
<1>22. ASSUME NEW t \in Task, NEW p \in Prio, SubmitOnLoop(t, p) PROVE TypeOK'
  BY <1>22, TrackEffect DEF SubmitOnLoop, TypeOK, Put, Scheduling
<1>23. ASSUME NEW t \in Task, NEW p \in Prio, SubmitFromThread(t, p)
      PROVE  TypeOK'
  BY <1>23, TrackEffect DEF SubmitFromThread, TypeOK, Put, Scheduling
<1>24. ASSUME NEW t \in Task, EndBackoff(t) PROVE TypeOK'
  BY <1>24 DEF EndBackoff, memory, workers, history, TypeOK, Put, Record, Scheduling
<1>25. ASSUME NEW t \in Task, CancelTask(t) PROVE TypeOK'
  BY <1>25, UpdateFailsEffect, UpdateEffect, SetStatusEffect DEF CancelTask, places,
      workers, history, TypeOK, TaskStatus, Terminal
<1>26. ASSUME NEW t \in Task, RetryTask(t) PROVE TypeOK'
  BY <1>26, SaveEffect, SetStatusEffect DEF RetryTask, places, workers, TypeOK,
      TaskStatus
<1>27. ASSUME NEW t \in Task, Evict(t) PROVE TypeOK'
  BY <1>27 DEF Evict, places, workers, history, TypeOK
<1>28. ASSUME NEW t \in Task, Prune(t) PROVE TypeOK'
  BY <1>28, NoRecordTyped DEF Prune, places, workers, history, TypeOK
<1>29. CASE Crash
  BY <1>29, NoRecordTyped, ConstantsAssumption DEF Crash, TypeOK, WorkerState, AtQueue
<1>30. CASE Recover
  BY <1>30, InterruptedEffect, NoRecordTyped DEF Recover, workers, history,
      Recoverable, TypeOK, Entry, Record
<1>31. CASE RecoverFails
  BY <1>31, InterruptedEffect DEF RecoverFails, memory, places, workers,
      history, TypeOK
<1>32. CASE UNCHANGED vars
  BY <1>32 DEF vars, memory, places, workers, history, TypeOK
<1>33. ASSUME NEW w \in Worker, NEW e \in queue, Take(w, e) PROVE TypeOK'
  BY <1>33 DEF Take, HeldBy, memory, history, TypeOK, WorkerState, AtQueue, Entry, Put
<1>34. ASSUME NEW w \in Worker, EndDrainWaiting(w) PROVE TypeOK'
  BY <1>34 DEF EndDrainWaiting, HeldBy, memory, history, TypeOK, WorkerState, AtQueue, Entry, Put
<1>35. ASSUME NEW w \in Worker, RequeueWaiting(w) PROVE TypeOK'
  <2>1. obj[cur[w]].prio \in Prio \cup {0}
    BY <1>35, WaitingEffect DEF TypeOK, Record
  <2> QED
    BY <1>35, <2>1, WaitingEffect DEF TypeOK, WorkerState, AtQueue, Put
<1>36. ASSUME NEW w \in Worker, PutBack(w) PROVE TypeOK'
  BY <1>36 DEF PutBack, memory, history, TypeOK, WorkerState, AtQueue, Entry, Put
<1> QED
  BY <1>1, <1>2, <1>3, <1>4, <1>5, <1>6, <1>7, <1>8, <1>9, <1>10, <1>11, <1>12,
      <1>13, <1>14, <1>15, <1>16, <1>17, <1>18, <1>19, <1>20, <1>21, <1>22, <1>23,
      <1>24, <1>25, <1>26, <1>27, <1>28, <1>29, <1>30, <1>31, <1>32, <1>33, <1>34,
      <1>35, <1>36, Zenon DEF Next, Drain, Execute, HandleStall, RunPut, Submit

\* Every step keeps a task in hand exactly where a claim has been made.
LEMMA HandStep ==
    ASSUME TypeOK, HandInv, [Next]_vars
    PROVE  HandInv'
<1>1. ASSUME NEW w \in Worker, NEW e \in Entry, SkipStale(w, e)
      PROVE  HandInv'
  BY <1>1, ObtainEffect DEF SkipStale, HandInv, TypeOK
<1>2. ASSUME NEW w \in Worker, NEW e \in Entry, FailDependent(w, e)
      PROVE  HandInv'
  BY <1>2, ObtainEffect DEF FailDependent, HandInv, TypeOK
<1>3. ASSUME NEW w \in Worker, NEW e \in Entry, Defer(w, e)
      PROVE  HandInv'
  BY <1>3, ObtainEffect DEF Defer, HandInv, TypeOK
<1>4. ASSUME NEW w \in Worker, NEW e \in Entry, Claim(w, e)
      PROVE  HandInv'
  BY <1>4, ObtainEffect, ConstantsAssumption DEF Claim, HandInv, TypeOK
<1>5. ASSUME NEW w \in Worker, EndDrain(w) PROVE HandInv'
  BY <1>5 DEF EndDrain, HandInv
<1>6. ASSUME NEW w \in Worker, MarkRunning(w) PROVE HandInv'
  BY <1>6 DEF MarkRunning, HandInv
<1>7. ASSUME NEW w \in Worker, RequeueUnmarked(w) PROVE HandInv'
  BY <1>7 DEF RequeueUnmarked, Release, HandInv, TypeOK
<1>8. ASSUME NEW w \in Worker, StartExecution(w) PROVE HandInv'
  BY <1>8 DEF StartExecution, HandInv
<1>9. ASSUME NEW w \in Worker, AbandonExecution(w) PROVE HandInv'
  BY <1>9 DEF AbandonExecution, Release, HandInv, TypeOK
<1>10. ASSUME NEW w \in Worker, MarkSideEffects(w) PROVE HandInv'
  BY <1>10 DEF MarkSideEffects, workers, HandInv
<1>11. ASSUME NEW w \in Worker, NEW o \in {"completed", "failed"},
             FinishExecution(w, o)
      PROVE  HandInv'
  BY <1>11 DEF FinishExecution, HandInv
<1>12. ASSUME NEW w \in Worker, SaveOutcome(w) PROVE HandInv'
  BY <1>12 DEF SaveOutcome, Release, HandInv, TypeOK
<1>13. ASSUME NEW w \in Worker, CancelStalled(w) PROVE HandInv'
  BY <1>13 DEF CancelStalled, HandInv
<1>14. ASSUME NEW w \in Worker, Unwind(w) PROVE HandInv'
  BY <1>14 DEF Unwind, HandInv
<1>15. ASSUME NEW w \in Worker, FailStalled(w) PROVE HandInv'
  BY <1>15 DEF FailStalled, Release, HandInv, TypeOK
<1>16. ASSUME NEW w \in Worker, RequeueStalled(w) PROVE HandInv'
  BY <1>16 DEF RequeueStalled, Release, HandInv, TypeOK
<1>17. ASSUME NEW w \in Worker, BumpRetry(w) PROVE HandInv'
  BY <1>17 DEF BumpRetry, Release, HandInv, TypeOK
<1>18. ASSUME NEW e \in pending, PutEntry(e) PROVE HandInv'
  BY <1>18 DEF PutEntry, workers, HandInv
<1>19. ASSUME NEW e \in pending, FailSaturated(e) PROVE HandInv'
  BY <1>19 DEF FailSaturated, workers, HandInv
<1>20. ASSUME NEW e \in pending, RejectPut(e) PROVE HandInv'
  BY <1>20 DEF RejectPut, workers, HandInv
<1>21. ASSUME NEW e \in pending, RollBack(e) PROVE HandInv'
  BY <1>21 DEF RollBack, workers, HandInv
<1>22. ASSUME NEW t \in Task, NEW p \in Prio, SubmitOnLoop(t, p) PROVE HandInv'
  BY <1>22 DEF SubmitOnLoop, Track, workers, HandInv
<1>23. ASSUME NEW t \in Task, NEW p \in Prio, SubmitFromThread(t, p)
      PROVE  HandInv'
  BY <1>23 DEF SubmitFromThread, Track, workers, HandInv
<1>24. ASSUME NEW t \in Task, EndBackoff(t) PROVE HandInv'
  BY <1>24 DEF EndBackoff, workers, HandInv
<1>25. ASSUME NEW t \in Task, CancelTask(t) PROVE HandInv'
  BY <1>25 DEF CancelTask, workers, HandInv
<1>26. ASSUME NEW t \in Task, RetryTask(t) PROVE HandInv'
  BY <1>26 DEF RetryTask, workers, HandInv
<1>27. ASSUME NEW t \in Task, Evict(t) PROVE HandInv'
  BY <1>27 DEF Evict, workers, HandInv
<1>28. ASSUME NEW t \in Task, Prune(t) PROVE HandInv'
  BY <1>28 DEF Prune, workers, HandInv
<1>29. CASE Crash
  BY <1>29 DEF Crash, HandInv
<1>30. CASE Recover
  BY <1>30 DEF Recover, workers, HandInv
<1>31. CASE RecoverFails
  BY <1>31 DEF RecoverFails, workers, HandInv
<1>32. CASE UNCHANGED vars
  BY <1>32 DEF vars, workers, HandInv
<1>33. ASSUME NEW w \in Worker, NEW e \in queue, Take(w, e) PROVE HandInv'
  BY <1>33 DEF Take, HeldBy, memory, history, HandInv, TypeOK
<1>34. ASSUME NEW w \in Worker, EndDrainWaiting(w) PROVE HandInv'
  BY <1>34 DEF EndDrainWaiting, HeldBy, memory, history, HandInv, TypeOK
<1>35. ASSUME NEW w \in Worker, RequeueWaiting(w) PROVE HandInv'
  BY <1>35, WaitingEffect, ConstantsAssumption DEF HandInv, TypeOK
<1>36. ASSUME NEW w \in Worker, PutBack(w) PROVE HandInv'
  BY <1>36 DEF PutBack, memory, history, HandInv, TypeOK
<1> QED
  BY <1>1, <1>2, <1>3, <1>4, <1>5, <1>6, <1>7, <1>8, <1>9, <1>10, <1>11, <1>12,
      <1>13, <1>14, <1>15, <1>16, <1>17, <1>18, <1>19, <1>20, <1>21, <1>22, <1>23,
      <1>24, <1>25, <1>26, <1>27, <1>28, <1>29, <1>30, <1>31, <1>32, <1>33, <1>34,
      <1>35, <1>36, Zenon DEF Next, Drain, Execute, HandleStall, RunPut, Submit

\* Nothing is routed to a worker while the process is down.
LEMMA DownStep ==
    ASSUME TypeOK, HandInv, DownInv, [Next]_vars
    PROVE  DownInv'
<1>1. ASSUME NEW w \in Worker, NEW e \in Entry, SkipStale(w, e)
      PROVE  DownInv'
  BY <1>1, ObtainEffect DEF SkipStale, DownInv
<1>2. ASSUME NEW w \in Worker, NEW e \in Entry, FailDependent(w, e)
      PROVE  DownInv'
  BY <1>2, ObtainEffect DEF FailDependent, DownInv
<1>3. ASSUME NEW w \in Worker, NEW e \in Entry, Defer(w, e)
      PROVE  DownInv'
  BY <1>3, ObtainEffect DEF Defer, DownInv
<1>4. ASSUME NEW w \in Worker, NEW e \in Entry, Claim(w, e)
      PROVE  DownInv'
  BY <1>4, ObtainEffect DEF Claim, DownInv
<1>5. ASSUME NEW w \in Worker, EndDrain(w) PROVE DownInv'
  BY <1>5 DEF EndDrain, DownInv
<1>6. ASSUME NEW w \in Worker, MarkRunning(w) PROVE DownInv'
  BY <1>6 DEF MarkRunning, DownInv, HandInv
<1>7. ASSUME NEW w \in Worker, RequeueUnmarked(w) PROVE DownInv'
  BY <1>7 DEF RequeueUnmarked, DownInv, HandInv
<1>8. ASSUME NEW w \in Worker, StartExecution(w) PROVE DownInv'
  BY <1>8 DEF StartExecution, DownInv, HandInv
<1>9. ASSUME NEW w \in Worker, AbandonExecution(w) PROVE DownInv'
  BY <1>9 DEF AbandonExecution, DownInv, HandInv
<1>10. ASSUME NEW w \in Worker, MarkSideEffects(w) PROVE DownInv'
  BY <1>10 DEF MarkSideEffects, DownInv, HandInv
<1>11. ASSUME NEW w \in Worker, NEW o \in {"completed", "failed"},
             FinishExecution(w, o)
      PROVE  DownInv'
  BY <1>11 DEF FinishExecution, DownInv, HandInv
<1>12. ASSUME NEW w \in Worker, SaveOutcome(w) PROVE DownInv'
  BY <1>12 DEF SaveOutcome, DownInv, HandInv
<1>13. ASSUME NEW w \in Worker, CancelStalled(w) PROVE DownInv'
  BY <1>13 DEF CancelStalled, DownInv, HandInv
<1>14. ASSUME NEW w \in Worker, Unwind(w) PROVE DownInv'
  BY <1>14 DEF Unwind, DownInv, HandInv
<1>15. ASSUME NEW w \in Worker, FailStalled(w) PROVE DownInv'
  BY <1>15 DEF FailStalled, DownInv, HandInv
<1>16. ASSUME NEW w \in Worker, RequeueStalled(w) PROVE DownInv'
  BY <1>16 DEF RequeueStalled, DownInv, HandInv
<1>17. ASSUME NEW w \in Worker, BumpRetry(w) PROVE DownInv'
  BY <1>17 DEF BumpRetry, DownInv, HandInv
<1>18. ASSUME NEW e \in pending, PutEntry(e) PROVE DownInv'
  BY <1>18 DEF PutEntry, DownInv
<1>19. ASSUME NEW e \in pending, FailSaturated(e) PROVE DownInv'
  BY <1>19 DEF FailSaturated, DownInv
<1>20. ASSUME NEW e \in pending, RejectPut(e) PROVE DownInv'
  BY <1>20 DEF RejectPut, DownInv
<1>21. ASSUME NEW e \in pending, RollBack(e) PROVE DownInv'
  BY <1>21 DEF RollBack, DownInv
<1>22. ASSUME NEW t \in Task, NEW p \in Prio, SubmitOnLoop(t, p) PROVE DownInv'
  BY <1>22 DEF SubmitOnLoop, LoopFree, Track, DownInv
<1>23. ASSUME NEW t \in Task, NEW p \in Prio, SubmitFromThread(t, p)
      PROVE  DownInv'
  BY <1>23 DEF SubmitFromThread, Track, DownInv
<1>24. ASSUME NEW t \in Task, EndBackoff(t) PROVE DownInv'
  BY <1>24 DEF EndBackoff, DownInv
<1>25. ASSUME NEW t \in Task, CancelTask(t) PROVE DownInv'
  BY <1>25 DEF CancelTask, LoopFree, DownInv
<1>26. ASSUME NEW t \in Task, RetryTask(t) PROVE DownInv'
  BY <1>26 DEF RetryTask, LoopFree, DownInv
<1>27. ASSUME NEW t \in Task, Evict(t) PROVE DownInv'
  BY <1>27 DEF Evict, LoopFree, DownInv
<1>28. ASSUME NEW t \in Task, Prune(t) PROVE DownInv'
  BY <1>28 DEF Prune, LoopFree, DownInv
<1>29. CASE Crash
  BY <1>29 DEF Crash, DownInv
<1>30. CASE Recover
  BY <1>30 DEF Recover, DownInv
<1>31. CASE RecoverFails
  BY <1>31 DEF RecoverFails, places, workers, DownInv
<1>32. CASE UNCHANGED vars
  BY <1>32 DEF vars, places, workers, DownInv
<1>33. ASSUME NEW w \in Worker, NEW e \in queue, Take(w, e) PROVE DownInv'
  BY <1>33 DEF Take, HeldBy, memory, history, DownInv, HandInv
<1>34. ASSUME NEW w \in Worker, EndDrainWaiting(w) PROVE DownInv'
  BY <1>34 DEF EndDrainWaiting, HeldBy, memory, history, DownInv, HandInv
<1>35. ASSUME NEW w \in Worker, RequeueWaiting(w) PROVE DownInv'
  BY <1>35, WaitingEffect, ConstantsAssumption DEF DownInv
<1>36. ASSUME NEW w \in Worker, PutBack(w) PROVE DownInv'
  BY <1>36 DEF PutBack, memory, history, DownInv, HandInv
<1> QED
  BY <1>1, <1>2, <1>3, <1>4, <1>5, <1>6, <1>7, <1>8, <1>9, <1>10, <1>11, <1>12,
      <1>13, <1>14, <1>15, <1>16, <1>17, <1>18, <1>19, <1>20, <1>21, <1>22, <1>23,
      <1>24, <1>25, <1>26, <1>27, <1>28, <1>29, <1>30, <1>31, <1>32, <1>33, <1>34,
      <1>35, <1>36, Zenon DEF Next, Drain, Execute, HandleStall, RunPut, Submit

\* Whatever is routed to a worker keeps its task object (Prune and RollBack
\* never drop one that is on its way).
LEMMA TrackedStep ==
    ASSUME TypeOK, HandInv, DownInv, TrackedInv, OneEntryPerTask, [Next]_vars
    PROVE  TrackedInv'
<1>1. ASSUME NEW w \in Worker, NEW e \in Entry, SkipStale(w, e)
      PROVE  TrackedInv'
  BY <1>1, ObtainEffect DEF SkipStale, memory, TrackedInv, Known
<1>2. ASSUME NEW w \in Worker, NEW e \in Entry, FailDependent(w, e)
      PROVE  TrackedInv'
  <2>1. e.task \in Task /\ "failed" \in TaskStatus /\ pending' \subseteq pending
    BY <1>2, ObtainEffect DEF FailDependent, TaskStatus, Terminal
  <2>2. \A u \in Task : Known(u) => Known(u)'
    BY <1>2, <2>1, StatusKeepsKnown DEF FailDependent
  <2> QED
    BY <1>2, <2>1, <2>2 DEF FailDependent, TrackedInv, TypeOK, Entry, Put
<1>3. ASSUME NEW w \in Worker, NEW e \in Entry, Defer(w, e)
      PROVE  TrackedInv'
  <2>1. Known(e.task) /\ pending' \subseteq pending
    BY <1>3, ObtainKnown, ObtainEffect DEF Defer
  <2> QED
    BY <1>3, <2>1 DEF Defer, memory, TrackedInv, Known
<1>4. ASSUME NEW w \in Worker, NEW e \in Entry, Claim(w, e)
      PROVE  TrackedInv'
  <2>1. e.task \in Task /\ "running" \in TaskStatus /\ pending' \subseteq pending
    BY <1>4, ObtainEffect DEF Claim, TaskStatus
  <2>2. \A u \in Task : Known(u) => Known(u)'
    BY <1>4, <2>1, StatusKeepsKnown DEF Claim
  <2>3. Known(e.task)
    BY <1>4, ObtainKnown DEF Claim
  <2> QED
    BY <1>4, <2>1, <2>2, <2>3 DEF Claim, TrackedInv, TypeOK, Entry, Put
<1>5. ASSUME NEW w \in Worker, EndDrain(w) PROVE TrackedInv'
  BY <1>5 DEF EndDrain, memory, TrackedInv, Known
<1>6. ASSUME NEW w \in Worker, MarkRunning(w) PROVE TrackedInv'
  BY <1>6 DEF MarkRunning, memory, places, TrackedInv, Known
<1>7. ASSUME NEW w \in Worker, RequeueUnmarked(w) PROVE TrackedInv'
  BY <1>7, SetStatusEffect DEF RequeueUnmarked, EntryOf, Release, TrackedInv,
      Known, TypeOK, HandInv, Entry, Put, TaskStatus
<1>8. ASSUME NEW w \in Worker, StartExecution(w) PROVE TrackedInv'
  BY <1>8, SetStatusEffect DEF StartExecution, places, TrackedInv, Known,
      TypeOK, HandInv, Entry, Put, TaskStatus
<1>9. ASSUME NEW w \in Worker, AbandonExecution(w) PROVE TrackedInv'
  BY <1>9, SetStatusEffect DEF AbandonExecution, places, Release, TrackedInv,
      Known, TypeOK, HandInv, Entry, Put, TaskStatus
<1>10. ASSUME NEW w \in Worker, MarkSideEffects(w) PROVE TrackedInv'
  BY <1>10, MarkEffect DEF TrackedInv, Known, TypeOK, Entry, Put
<1>11. ASSUME NEW w \in Worker, NEW o \in {"completed", "failed"},
             FinishExecution(w, o)
      PROVE  TrackedInv'
  BY <1>11, SetStatusEffect DEF FinishExecution, places, TrackedInv, Known,
      TypeOK, HandInv, Entry, Put, TaskStatus, Terminal
<1>12. ASSUME NEW w \in Worker, SaveOutcome(w) PROVE TrackedInv'
  BY <1>12 DEF SaveOutcome, memory, places, Release, TrackedInv, Known
<1>13. ASSUME NEW w \in Worker, CancelStalled(w) PROVE TrackedInv'
  BY <1>13 DEF CancelStalled, memory, places, TrackedInv, Known
<1>14. ASSUME NEW w \in Worker, Unwind(w) PROVE TrackedInv'
  BY <1>14 DEF Unwind, memory, places, TrackedInv, Known
<1>15. ASSUME NEW w \in Worker, FailStalled(w) PROVE TrackedInv'
  BY <1>15, SetStatusEffect DEF FailStalled, places, Release, TrackedInv,
      Known, TypeOK, HandInv, Entry, Put, TaskStatus, Terminal
<1>16. ASSUME NEW w \in Worker, RequeueStalled(w) PROVE TrackedInv'
  BY <1>16, HandTyped, SetStatusEffect DEF RequeueStalled, places, Release,
      TrackedInv, Known, TypeOK, Entry, Put, TaskStatus
<1>17. ASSUME NEW w \in Worker, BumpRetry(w) PROVE TrackedInv'
  <2>1. cur[w] \in Task /\ Known(cur[w])
    BY <1>17, HandTyped, BumpEffect, ConstantsAssumption DEF TrackedInv
  <2>2. \A u \in Task : Known(u) => Known(u)'
    BY <1>17, BumpEffect DEF Known
  <2> QED
    BY <1>17, <2>1, <2>2, BumpEffect DEF Release, TrackedInv, TypeOK, Entry, Put
<1>18. ASSUME NEW e \in pending, PutEntry(e) PROVE TrackedInv'
  BY <1>18 DEF PutEntry, memory, workers, TrackedInv, Known
<1>19. ASSUME NEW e \in pending, FailSaturated(e) PROVE TrackedInv'
  <2>1. e.task \in Task /\ "failed" \in TaskStatus
    BY <1>19 DEF TypeOK, Put, TaskStatus, Terminal
  <2>2. \A u \in Task : Known(u) => Known(u)'
    BY <1>19, <2>1, StatusKeepsKnown DEF FailSaturated
  <2> QED
    BY <1>19, <2>2 DEF FailSaturated, workers, TrackedInv, TypeOK, Entry, Put
<1>20. ASSUME NEW e \in pending, RejectPut(e) PROVE TrackedInv'
  BY <1>20 DEF RejectPut, memory, workers, TrackedInv, Known, TypeOK, Put
<1>21. ASSUME NEW e \in pending, RollBack(e) PROVE TrackedInv'
  BY <1>21 DEF RollBack, memory, workers, TrackedInv, Known, TypeOK,
      OneEntryPerTask, Held, Entry, Put
<1>22. ASSUME NEW t \in Task, NEW p \in Prio, SubmitOnLoop(t, p)
      PROVE  TrackedInv'
  BY <1>22, TrackEffect DEF SubmitOnLoop, TrackedInv, Known, TypeOK, Entry, Put
<1>23. ASSUME NEW t \in Task, NEW p \in Prio, SubmitFromThread(t, p)
      PROVE  TrackedInv'
  BY <1>23, TrackEffect DEF SubmitFromThread, TrackedInv, Known, TypeOK, Entry,
      Put
<1>24. ASSUME NEW t \in Task, EndBackoff(t) PROVE TrackedInv'
  BY <1>24 DEF EndBackoff, memory, workers, TrackedInv, Known
<1>25. ASSUME NEW t \in Task, CancelTask(t) PROVE TrackedInv'
  BY <1>25, SetStatusEffect DEF CancelTask, places, workers, TrackedInv, Known,
      TypeOK, Entry, Put, TaskStatus, Terminal
<1>26. ASSUME NEW t \in Task, RetryTask(t) PROVE TrackedInv'
  BY <1>26, SetStatusEffect DEF RetryTask, places, workers, TrackedInv, Known,
      TypeOK, Entry, Put, TaskStatus
<1>27. ASSUME NEW t \in Task, Evict(t) PROVE TrackedInv'
  BY <1>27 DEF Evict, places, workers, TrackedInv, Known
<1>28. ASSUME NEW t \in Task, Prune(t) PROVE TrackedInv'
  BY <1>28 DEF Prune, places, workers, TrackedInv, Known
<1>29. CASE Crash
  BY <1>29 DEF Crash, TrackedInv
<1>30. CASE Recover
  BY <1>30 DEF Recover, workers, Recoverable, TrackedInv, Known, DownInv
<1>31. CASE RecoverFails
  BY <1>31 DEF RecoverFails, places, workers, TrackedInv, DownInv
<1>32. CASE UNCHANGED vars
  BY <1>32 DEF vars, memory, places, workers, Known, TrackedInv
<1>33. ASSUME NEW w \in Worker, NEW e \in queue, Take(w, e) PROVE TrackedInv'
  BY <1>33 DEF Take, HeldBy, memory, history, TrackedInv, Known, TypeOK, Entry, Put
<1>34. ASSUME NEW w \in Worker, EndDrainWaiting(w) PROVE TrackedInv'
  BY <1>34 DEF EndDrainWaiting, HeldBy, memory, history, TrackedInv, Known, TypeOK, Entry, Put
<1>35. ASSUME NEW w \in Worker, RequeueWaiting(w) PROVE TrackedInv'
  <2>1. Known(cur[w])
    BY <1>35, WaitingEffect, ConstantsAssumption DEF TrackedInv
  <2>2. \A u \in Task : Known(u) => Known(u)'
    BY <1>35, WaitingEffect DEF Known
  <2> QED
    BY <1>35, <2>1, <2>2, WaitingEffect DEF TrackedInv, TypeOK, Entry, Put
<1>36. ASSUME NEW w \in Worker, PutBack(w) PROVE TrackedInv'
  BY <1>36 DEF PutBack, memory, history, TrackedInv, Known, TypeOK, Entry, Put
<1> QED
  BY <1>1, <1>2, <1>3, <1>4, <1>5, <1>6, <1>7, <1>8, <1>9, <1>10, <1>11, <1>12,
      <1>13, <1>14, <1>15, <1>16, <1>17, <1>18, <1>19, <1>20, <1>21, <1>22, <1>23,
      <1>24, <1>25, <1>26, <1>27, <1>28, <1>29, <1>30, <1>31, <1>32, <1>33, <1>34,
      <1>35, <1>36, Zenon DEF Next, Drain, Execute, HandleStall, RunPut, Submit

\* No step gives a task a second route to a worker.
LEMMA EntryStep ==
    ASSUME TypeOK, HandInv, DownInv, TrackedInv, OneEntryPerTask, [Next]_vars
    PROVE  OneEntryPerTask'
<1>1. ASSUME NEW w \in Worker, NEW e \in Entry, SkipStale(w, e)
      PROVE  OneEntryPerTask'
  <2>1. /\ pending' \subseteq pending /\ e.task \notin delayed /\ ~Held(e.task)
        /\ \A f \in (queue \ {e}) \cup deferred \cup pending' : f.task # e.task
    BY <1>1, ObtainEffect, ObtainOne DEF SkipStale
  <2> QED
    BY <1>1, <2>1 DEF SkipStale, OneEntryPerTask, ExclusiveExecution, Held
<1>2. ASSUME NEW w \in Worker, NEW e \in Entry, FailDependent(w, e)
      PROVE  OneEntryPerTask'
  <2>1. /\ pending' \subseteq pending /\ e.task \notin delayed /\ ~Held(e.task)
        /\ \A f \in (queue \ {e}) \cup deferred \cup pending' : f.task # e.task
    BY <1>2, ObtainEffect, ObtainOne DEF FailDependent
  <2> QED
    BY <1>2, <2>1 DEF FailDependent, OneEntryPerTask, ExclusiveExecution, Held
<1>3. ASSUME NEW w \in Worker, NEW e \in Entry, Defer(w, e)
      PROVE  OneEntryPerTask'
  <2>1. /\ pending' \subseteq pending /\ e.task \notin delayed /\ ~Held(e.task)
        /\ \A f \in (queue \ {e}) \cup deferred \cup pending' : f.task # e.task
    BY <1>3, ObtainEffect, ObtainOne DEF Defer
  <2> QED
    BY <1>3, <2>1 DEF Defer, OneEntryPerTask, ExclusiveExecution, Held
<1>4. ASSUME NEW w \in Worker, NEW e \in Entry, Claim(w, e)
      PROVE  OneEntryPerTask'
  <2>1. /\ pending' \subseteq pending /\ e.task \notin delayed /\ ~Held(e.task)
        /\ \A f \in (queue \ {e}) \cup deferred \cup pending' : f.task # e.task
    BY <1>4, ObtainEffect, ObtainOne DEF Claim
  <2> QED
    BY <1>4, <2>1 DEF Claim, OneEntryPerTask, ExclusiveExecution, Held, TypeOK
<1>5. ASSUME NEW w \in Worker, EndDrain(w) PROVE OneEntryPerTask'
  BY <1>5 DEF EndDrain, OneEntryPerTask, ExclusiveExecution, Held
<1>6. ASSUME NEW w \in Worker, MarkRunning(w) PROVE OneEntryPerTask'
  BY <1>6 DEF MarkRunning, places, OneEntryPerTask, ExclusiveExecution, Held
<1>7. ASSUME NEW w \in Worker, RequeueUnmarked(w) PROVE OneEntryPerTask'
  BY <1>7, ConstantsAssumption DEF RequeueUnmarked, EntryOf, Release,
      OneEntryPerTask, ExclusiveExecution, Held, TypeOK, HandInv, Entry, Put
<1>8. ASSUME NEW w \in Worker, StartExecution(w) PROVE OneEntryPerTask'
  BY <1>8 DEF StartExecution, places, OneEntryPerTask, ExclusiveExecution, Held
<1>9. ASSUME NEW w \in Worker, AbandonExecution(w) PROVE OneEntryPerTask'
  BY <1>9, ConstantsAssumption DEF AbandonExecution, places, Release,
      OneEntryPerTask, ExclusiveExecution, Held, TypeOK, Entry, Put
<1>10. ASSUME NEW w \in Worker, MarkSideEffects(w) PROVE OneEntryPerTask'
  BY <1>10 DEF MarkSideEffects, places, workers, OneEntryPerTask,
      ExclusiveExecution, Held
<1>11. ASSUME NEW w \in Worker, NEW o \in {"completed", "failed"},
             FinishExecution(w, o)
      PROVE  OneEntryPerTask'
  BY <1>11 DEF FinishExecution, places, OneEntryPerTask, ExclusiveExecution,
      Held
<1>12. ASSUME NEW w \in Worker, SaveOutcome(w) PROVE OneEntryPerTask'
  BY <1>12, ConstantsAssumption DEF SaveOutcome, places, Release,
      OneEntryPerTask, ExclusiveExecution, Held, TypeOK, Entry, Put
<1>13. ASSUME NEW w \in Worker, CancelStalled(w) PROVE OneEntryPerTask'
  BY <1>13 DEF CancelStalled, places, OneEntryPerTask, ExclusiveExecution, Held
<1>14. ASSUME NEW w \in Worker, Unwind(w) PROVE OneEntryPerTask'
  BY <1>14 DEF Unwind, places, OneEntryPerTask, ExclusiveExecution, Held
<1>15. ASSUME NEW w \in Worker, FailStalled(w) PROVE OneEntryPerTask'
  BY <1>15, ConstantsAssumption DEF FailStalled, places, Release,
      OneEntryPerTask, ExclusiveExecution, Held, TypeOK, Entry, Put
<1>16. ASSUME NEW w \in Worker, RequeueStalled(w) PROVE OneEntryPerTask'
  BY <1>16, ConstantsAssumption DEF RequeueStalled, places, Release,
      OneEntryPerTask, ExclusiveExecution, Held, TypeOK, Entry, Put
<1>17. ASSUME NEW w \in Worker, BumpRetry(w) PROVE OneEntryPerTask'
  BY <1>17, ConstantsAssumption DEF BumpRetry, Release, OneEntryPerTask,
      ExclusiveExecution, Held, TypeOK, HandInv, Entry, Put
<1>18. ASSUME NEW e \in pending, PutEntry(e) PROVE OneEntryPerTask'
  BY <1>18 DEF PutEntry, workers, OneEntryPerTask, ExclusiveExecution, Held
<1>19. ASSUME NEW e \in pending, FailSaturated(e) PROVE OneEntryPerTask'
  BY <1>19 DEF FailSaturated, workers, OneEntryPerTask, ExclusiveExecution,
      Held
<1>20. ASSUME NEW e \in pending, RejectPut(e) PROVE OneEntryPerTask'
  BY <1>20 DEF RejectPut, workers, OneEntryPerTask, ExclusiveExecution, Held,
      TypeOK, Put
<1>21. ASSUME NEW e \in pending, RollBack(e) PROVE OneEntryPerTask'
  BY <1>21 DEF RollBack, workers, OneEntryPerTask, ExclusiveExecution, Held
<1>22. ASSUME NEW t \in Task, NEW p \in Prio, SubmitOnLoop(t, p)
      PROVE  OneEntryPerTask'
  BY <1>22, ConstantsAssumption DEF SubmitOnLoop, Track, workers, NoRecord,
      OneEntryPerTask, ExclusiveExecution, Held, TrackedInv, Known
<1>23. ASSUME NEW t \in Task, NEW p \in Prio, SubmitFromThread(t, p)
      PROVE  OneEntryPerTask'
  BY <1>23, ConstantsAssumption DEF SubmitFromThread, Track, workers, NoRecord,
      OneEntryPerTask, ExclusiveExecution, Held, TrackedInv, Known
<1>24. ASSUME NEW t \in Task, EndBackoff(t) PROVE OneEntryPerTask'
  BY <1>24 DEF EndBackoff, workers, OneEntryPerTask, ExclusiveExecution, Held
<1>25. ASSUME NEW t \in Task, CancelTask(t) PROVE OneEntryPerTask'
  BY <1>25 DEF CancelTask, places, workers, OneEntryPerTask,
      ExclusiveExecution, Held
<1>26. ASSUME NEW t \in Task, RetryTask(t) PROVE OneEntryPerTask'
  BY <1>26 DEF RetryTask, places, workers, OneEntryPerTask, ExclusiveExecution,
      Held
<1>27. ASSUME NEW t \in Task, Evict(t) PROVE OneEntryPerTask'
  BY <1>27 DEF Evict, places, workers, Held, OneEntryPerTask,
      ExclusiveExecution
<1>28. ASSUME NEW t \in Task, Prune(t) PROVE OneEntryPerTask'
  BY <1>28 DEF Prune, places, workers, Held, OneEntryPerTask,
      ExclusiveExecution
<1>29. CASE Crash
  BY <1>29 DEF Crash, OneEntryPerTask, ExclusiveExecution
<1>30. CASE Recover
  BY <1>30, ConstantsAssumption DEF Recover, workers, Recoverable,
      OneEntryPerTask, ExclusiveExecution, Held, DownInv
<1>31. CASE RecoverFails
  BY <1>31 DEF RecoverFails, places, workers, OneEntryPerTask,
      ExclusiveExecution, DownInv
<1>32. CASE UNCHANGED vars
  BY <1>32 DEF vars, places, workers, ExclusiveExecution, Held, OneEntryPerTask
<1>33. ASSUME NEW w \in Worker, NEW e \in queue, Take(w, e) PROVE OneEntryPerTask'
  BY <1>33 DEF Take, HeldBy, memory, history, OneEntryPerTask, ExclusiveExecution, Held, TypeOK, Entry, Put
<1>34. ASSUME NEW w \in Worker, EndDrainWaiting(w) PROVE OneEntryPerTask'
  BY <1>34 DEF EndDrainWaiting, HeldBy, memory, history, OneEntryPerTask, ExclusiveExecution, Held, TypeOK, Entry, Put
<1>35. ASSUME NEW w \in Worker, RequeueWaiting(w) PROVE OneEntryPerTask'
  <2>1. /\ cur[w] \in Task /\ cur[w] # NoTask
        /\ \A v \in Worker \ {w} : cur[v] # cur[w]
    BY <1>35, WaitingEffect, ConstantsAssumption DEF OneEntryPerTask, ExclusiveExecution
  <2>2. \A u \in Task : Held(u)' <=> Held(u) /\ u # cur[w]
    BY <1>35, <2>1, WaitingEffect, ConstantsAssumption DEF Held, TypeOK
  <2>3. ExclusiveExecution'
    BY <1>35, WaitingEffect DEF OneEntryPerTask, ExclusiveExecution, TypeOK
  <2>4. \A f \in queue \cup deferred \cup pending : f.task \in Task /\ f.task # cur[w]
    BY <2>1 DEF OneEntryPerTask, Held, TypeOK, Entry, Put
  <2>5. cur[w] \notin delayed
    BY <2>1 DEF OneEntryPerTask, Held
  <2> QED
    BY <1>35, <2>1, <2>2, <2>3, <2>4, <2>5, WaitingEffect DEF OneEntryPerTask, TypeOK
<1>36. ASSUME NEW w \in Worker, PutBack(w) PROVE OneEntryPerTask'
  BY <1>36 DEF PutBack, memory, history, OneEntryPerTask, ExclusiveExecution, Held, TypeOK, Entry, Put
<1> QED
  BY <1>1, <1>2, <1>3, <1>4, <1>5, <1>6, <1>7, <1>8, <1>9, <1>10, <1>11, <1>12,
      <1>13, <1>14, <1>15, <1>16, <1>17, <1>18, <1>19, <1>20, <1>21, <1>22, <1>23,
      <1>24, <1>25, <1>26, <1>27, <1>28, <1>29, <1>30, <1>31, <1>32, <1>33, <1>34,
      <1>35, <1>36, Zenon DEF Next, Drain, Execute, HandleStall, RunPut, Submit

\* No step retries a task beyond its budget.
LEMMA BudgetStep ==
    ASSUME TypeOK, HandInv, DownInv, TrackedInv, OneEntryPerTask, BudgetInv, [Next]_vars
    PROVE  BudgetInv'
<1>1. ASSUME NEW w \in Worker, NEW e \in Entry, SkipStale(w, e)
      PROVE  BudgetInv'
  BY <1>1, ObtainEffect DEF SkipStale, memory, BudgetInv, RetryBudget, TypeOK
<1>2. ASSUME NEW w \in Worker, NEW e \in Entry, FailDependent(w, e)
      PROVE  BudgetInv'
  <2>1. e.task \in Task /\ "failed" \in TaskStatus /\ Dropped \notin {"retrying", "bumping"}
    BY <1>2, ObtainEffect DEF FailDependent, TaskStatus, Terminal
  <2> QED
    BY <1>2, <2>1, SaveEffect, SetStatusEffect DEF FailDependent, BudgetInv,
        RetryBudget, TypeOK, HandInv
<1>3. ASSUME NEW w \in Worker, NEW e \in Entry, Defer(w, e)
      PROVE  BudgetInv'
  BY <1>3, ObtainEffect DEF Defer, memory, BudgetInv, RetryBudget
<1>4. ASSUME NEW w \in Worker, NEW e \in Entry, Claim(w, e)
      PROVE  BudgetInv'
  BY <1>4, ObtainEffect, SetStatusEffect DEF Claim, BudgetInv, RetryBudget, TypeOK, HandInv,
      TaskStatus
<1>5. ASSUME NEW w \in Worker, EndDrain(w) PROVE BudgetInv'
  BY <1>5 DEF EndDrain, memory, BudgetInv, RetryBudget
<1>6. ASSUME NEW w \in Worker, MarkRunning(w) PROVE BudgetInv'
  BY <1>6, UpdateEffect DEF MarkRunning, memory, BudgetInv, RetryBudget,
      TypeOK, HandInv, TaskStatus
<1>7. ASSUME NEW w \in Worker, RequeueUnmarked(w) PROVE BudgetInv'
  <2>1. cur[w] \in Task /\ "queued" \in TaskStatus
    BY <1>7, HandTyped DEF RequeueUnmarked, TaskStatus
  <2>2. /\ \A u \in Task : obj'[u].retries = obj[u].retries
        /\ row' = row
        /\ Release(w)
    BY <1>7, <2>1, UpdateFailsEffect, SetStatusEffect DEF RequeueUnmarked
  <2>3. ASSUME NEW v \in Worker, pc'[v] \in {"retrying", "bumping"}
        PROVE  obj'[cur'[v]].retries < MaxRetries
    <3>1. pc[v] = pc'[v] /\ cur'[v] = cur[v] /\ cur[v] \in Task
      BY <2>2, <2>3, HandTyped DEF Release, TypeOK
    <3> QED
      BY <2>2, <2>3, <3>1 DEF BudgetInv
  <2> QED
    BY <2>2, <2>3 DEF BudgetInv, RetryBudget
<1>8. ASSUME NEW w \in Worker, StartExecution(w) PROVE BudgetInv'
  BY <1>8, UpdateEffect, SetStatusEffect DEF StartExecution, LoopFree,
      HoldsLoop, BudgetInv, RetryBudget, TypeOK, HandInv, TaskStatus
<1>9. ASSUME NEW w \in Worker, AbandonExecution(w) PROVE BudgetInv'
  BY <1>9, UpdateFailsEffect, SetStatusEffect DEF AbandonExecution, Release,
      BudgetInv, RetryBudget, TypeOK, HandInv, DownInv, TaskStatus
<1>10. ASSUME NEW w \in Worker, MarkSideEffects(w) PROVE BudgetInv'
  <2>1. /\ cur[w] \in Task
        /\ obj' \in [Task -> Record]
        /\ \A u \in Task : obj'[u].retries = obj[u].retries
        /\ SaveOrLose(cur[w])
        /\ UNCHANGED <<pc, cur>>
    BY <1>10, MarkEffect
  <2>2. RetryBudget'
    BY <2>1, SaveEffect DEF BudgetInv, RetryBudget
  <2> QED
    BY <2>1, <2>2, HandTyped DEF BudgetInv
<1>11. ASSUME NEW w \in Worker, NEW o \in {"completed", "failed"},
             FinishExecution(w, o)
      PROVE  BudgetInv'
  BY <1>11, SetStatusEffect DEF FinishExecution, BudgetInv, RetryBudget,
      TypeOK, HandInv, TaskStatus, Terminal
<1>12. ASSUME NEW w \in Worker, SaveOutcome(w) PROVE BudgetInv'
  BY <1>12, SaveEffect DEF SaveOutcome, memory, Release, BudgetInv,
      RetryBudget, TypeOK, HandInv
<1>13. ASSUME NEW w \in Worker, CancelStalled(w) PROVE BudgetInv'
  BY <1>13 DEF CancelStalled, memory, BudgetInv, RetryBudget
<1>14. ASSUME NEW w \in Worker, Unwind(w) PROVE BudgetInv'
  BY <1>14, SaveEffect DEF Unwind, memory, BudgetInv, RetryBudget, TypeOK,
      HandInv
<1>15. ASSUME NEW w \in Worker, FailStalled(w) PROVE BudgetInv'
  <2>1. cur[w] \in Task /\ pc[w] = "unwound"
    BY <1>15, HandTyped DEF FailStalled
  <2>2. /\ obj' \in [Task -> Record]
        /\ \A u \in Task : obj'[u].retries = obj[u].retries
    BY <1>15, <2>1, SetStatusEffect DEF FailStalled, TaskStatus, Terminal
  <2>3. ASSUME NEW t \in Task
        PROVE  obj'[t].retries <= MaxRetries /\ row'[t].retries <= MaxRetries
    BY <1>15, <2>1, <2>2, SaveEffect DEF FailStalled, BudgetInv, RetryBudget
  <2>4. ASSUME NEW v \in Worker, pc'[v] \in {"retrying", "bumping"}
        PROVE  obj'[cur'[v]].retries < MaxRetries
    <3>1. CASE v = w
      <4>1. cur'[w] = cur[w] /\ obj[cur[w]].retries < MaxRetries
        BY <1>15, <2>4, <3>1 DEF FailStalled, ShouldRetry, Release, TypeOK
      <4> QED
        BY <2>1, <2>2, <3>1, <4>1
    <3>2. CASE v # w
      <4>1. pc[v] = pc'[v] /\ cur'[v] = cur[v]
        BY <1>15, <3>2 DEF FailStalled, Release, TypeOK
      <4>2. cur[v] \in Task
        BY <2>4, <4>1, HandTyped
      <4> QED
        BY <2>2, <2>4, <4>1, <4>2 DEF BudgetInv
    <3> QED
      BY <3>1, <3>2
  <2> QED
    BY <2>3, <2>4 DEF BudgetInv, RetryBudget
<1>16. ASSUME NEW w \in Worker, RequeueStalled(w) PROVE BudgetInv'
  <2>1. cur[w] \in Task /\ pc[w] = "retrying"
    BY <1>16, HandTyped DEF RequeueStalled
  <2>2. /\ obj' \in [Task -> Record]
        /\ \A u \in Task : obj'[u].retries = obj[u].retries
    BY <1>16, <2>1, SetStatusEffect DEF RequeueStalled, TaskStatus
  <2>3. SaveOrLose(cur[w])
    BY <1>16 DEF RequeueStalled, SaveOrLose
  <2>4. ASSUME NEW t \in Task
        PROVE  obj'[t].retries <= MaxRetries /\ row'[t].retries <= MaxRetries
    BY <2>1, <2>2, <2>3, SaveEffect DEF BudgetInv, RetryBudget
  <2>5. ASSUME NEW v \in Worker, pc'[v] \in {"retrying", "bumping"}
        PROVE  obj'[cur'[v]].retries < MaxRetries
    <3>1. cur'[v] = cur[v] /\ pc[v] \in {"retrying", "bumping"}
      BY <1>16, <2>1, <2>5 DEF RequeueStalled, Release, TypeOK
    <3>2. cur[v] \in Task
      BY <3>1, HandTyped
    <3> QED
      BY <2>2, <3>1, <3>2 DEF BudgetInv
  <2> QED
    BY <2>4, <2>5 DEF BudgetInv, RetryBudget
<1>17. ASSUME NEW w \in Worker, BumpRetry(w) PROVE BudgetInv'
  <2>1. /\ cur[w] \in Task
        /\ pc[w] = "bumping"
        /\ obj' \in [Task -> Record]
        /\ obj'[cur[w]].retries = obj[cur[w]].retries + 1
        /\ \A u \in Task \ {cur[w]} : obj'[u] = obj[u]
        /\ SaveOrLose(cur[w])
        /\ Release(w)
    BY <1>17, BumpEffect
  <2>2. obj'[cur[w]].retries <= MaxRetries
    BY <2>1, ConstantsAssumption DEF BudgetInv, TypeOK, Record
  <2>3. ASSUME NEW t \in Task
        PROVE  obj'[t].retries <= MaxRetries /\ row'[t].retries <= MaxRetries
    BY <2>1, <2>2, SaveEffect DEF BudgetInv, RetryBudget
  <2>4. ASSUME NEW v \in Worker, pc'[v] \in {"retrying", "bumping"}
        PROVE  obj'[cur'[v]].retries < MaxRetries
    <3>1. v # w /\ pc[v] = pc'[v] /\ cur'[v] = cur[v]
      BY <2>1, <2>4 DEF Release, TypeOK
    <3>2. cur[v] \in Task /\ cur[v] # cur[w]
      BY <2>1, <2>4, <3>1, HandTyped, ConstantsAssumption
      DEF OneEntryPerTask, ExclusiveExecution
    <3> QED
      BY <2>1, <2>4, <3>1, <3>2 DEF BudgetInv
  <2> QED
    BY <2>3, <2>4 DEF BudgetInv, RetryBudget
<1>18. ASSUME NEW e \in pending, PutEntry(e) PROVE BudgetInv'
  BY <1>18 DEF PutEntry, memory, workers, BudgetInv, RetryBudget
<1>19. ASSUME NEW e \in pending, FailSaturated(e) PROVE BudgetInv'
  BY <1>19, SaveEffect, SetStatusEffect DEF FailSaturated, workers, BudgetInv,
      RetryBudget, TypeOK, HandInv, DownInv, OneEntryPerTask,
      ExclusiveExecution, Put, TaskStatus, Terminal
<1>20. ASSUME NEW e \in pending, RejectPut(e) PROVE BudgetInv'
  BY <1>20 DEF RejectPut, memory, workers, BudgetInv, RetryBudget
<1>21. ASSUME NEW e \in pending, RollBack(e) PROVE BudgetInv'
  BY <1>21, NoRecordTyped, ConstantsAssumption DEF RollBack, memory, workers,
      BudgetInv, RetryBudget, TypeOK, HandInv, DownInv, OneEntryPerTask, Held
<1>22. ASSUME NEW t \in Task, NEW p \in Prio, SubmitOnLoop(t, p)
      PROVE  BudgetInv'
  <2>1. /\ obj' \in [Task -> Record]
        /\ row'[t] = obj'[t]
        /\ obj'[t].retries = 0
        /\ obj[t].status = "none"
        /\ \A u \in Task \ {t} : obj'[u] = obj[u] /\ row'[u] = row[u]
        /\ UNCHANGED <<pc, cur>>
    BY <1>22, TrackEffect DEF SubmitOnLoop
  <2>2. RetryBudget'
    BY <2>1, ConstantsAssumption DEF BudgetInv, RetryBudget
  <2>3. ASSUME NEW w \in Worker, pc'[w] \in {"retrying", "bumping"}
        PROVE  obj'[cur'[w]].retries < MaxRetries
    <3>1. cur[w] \in Task /\ obj[cur[w]].retries < MaxRetries
      BY <2>1, <2>3, HandTyped DEF BudgetInv
    <3>2. cur[w] # t
      BY <2>1, <3>1, ConstantsAssumption DEF TrackedInv, Known
    <3> QED
      BY <2>1, <3>1, <3>2
  <2> QED
    BY <2>2, <2>3 DEF BudgetInv
<1>23. ASSUME NEW t \in Task, NEW p \in Prio, SubmitFromThread(t, p)
      PROVE  BudgetInv'
  <2>1. /\ obj' \in [Task -> Record]
        /\ row'[t] = obj'[t]
        /\ obj'[t].retries = 0
        /\ obj[t].status = "none"
        /\ \A u \in Task \ {t} : obj'[u] = obj[u] /\ row'[u] = row[u]
        /\ UNCHANGED <<pc, cur>>
    BY <1>23, TrackEffect DEF SubmitFromThread
  <2>2. RetryBudget'
    BY <2>1, ConstantsAssumption DEF BudgetInv, RetryBudget
  <2>3. ASSUME NEW w \in Worker, pc'[w] \in {"retrying", "bumping"}
        PROVE  obj'[cur'[w]].retries < MaxRetries
    <3>1. cur[w] \in Task /\ obj[cur[w]].retries < MaxRetries
      BY <2>1, <2>3, HandTyped DEF BudgetInv
    <3>2. cur[w] # t
      BY <2>1, <3>1, ConstantsAssumption DEF TrackedInv, Known
    <3> QED
      BY <2>1, <3>1, <3>2
  <2> QED
    BY <2>2, <2>3 DEF BudgetInv
<1>24. ASSUME NEW t \in Task, EndBackoff(t) PROVE BudgetInv'
  BY <1>24 DEF EndBackoff, memory, workers, BudgetInv, RetryBudget
<1>25. ASSUME NEW t \in Task, CancelTask(t) PROVE BudgetInv'
  BY <1>25, UpdateFailsEffect, UpdateEffect, SetStatusEffect DEF CancelTask, workers,
      BudgetInv, RetryBudget, TypeOK, HandInv, TaskStatus, Terminal
<1>26. ASSUME NEW t \in Task, RetryTask(t) PROVE BudgetInv'
  BY <1>26, SaveEffect, SetStatusEffect DEF RetryTask, workers, LoopFree,
      BudgetInv, RetryBudget, TypeOK, HandInv, DownInv, TaskStatus
<1>27. ASSUME NEW t \in Task, Evict(t) PROVE BudgetInv'
  BY <1>27 DEF Evict, workers, BudgetInv, RetryBudget
<1>28. ASSUME NEW t \in Task, Prune(t) PROVE BudgetInv'
  BY <1>28, NoRecordTyped, ConstantsAssumption DEF Prune, workers, BudgetInv,
      RetryBudget
<1>29. CASE Crash
  BY <1>29, NoRecordTyped, ConstantsAssumption DEF Crash, BudgetInv,
      RetryBudget
<1>30. CASE Recover
  BY <1>30, InterruptedEffect, NoRecordTyped, ConstantsAssumption DEF Recover,
      workers, BudgetInv, RetryBudget, HandInv, DownInv
<1>31. CASE RecoverFails
  BY <1>31, InterruptedEffect DEF RecoverFails, memory, workers, BudgetInv,
      RetryBudget
<1>32. CASE UNCHANGED vars
  BY <1>32 DEF vars, memory, workers, BudgetInv, RetryBudget
<1>33. ASSUME NEW w \in Worker, NEW e \in queue, Take(w, e) PROVE BudgetInv'
  BY <1>33 DEF Take, HeldBy, memory, history, BudgetInv, RetryBudget
<1>34. ASSUME NEW w \in Worker, EndDrainWaiting(w) PROVE BudgetInv'
  BY <1>34 DEF EndDrainWaiting, HeldBy, memory, history, BudgetInv, RetryBudget
<1>35. ASSUME NEW w \in Worker, RequeueWaiting(w) PROVE BudgetInv'
  BY <1>35, WaitingEffect, HandTyped DEF BudgetInv, RetryBudget, TypeOK
<1>36. ASSUME NEW w \in Worker, PutBack(w) PROVE BudgetInv'
  BY <1>36 DEF PutBack, memory, history, BudgetInv, RetryBudget
<1> QED
  BY <1>1, <1>2, <1>3, <1>4, <1>5, <1>6, <1>7, <1>8, <1>9, <1>10, <1>11, <1>12,
      <1>13, <1>14, <1>15, <1>16, <1>17, <1>18, <1>19, <1>20, <1>21, <1>22, <1>23,
      <1>24, <1>25, <1>26, <1>27, <1>28, <1>29, <1>30, <1>31, <1>32, <1>33, <1>34,
      <1>35, <1>36, Zenon DEF Next, Drain, Execute, HandleStall, RunPut, Submit

\* No step puts a task back in the queue after a side effect nobody waived.
LEMMA EffectsStep ==
    ASSUME TypeOK, HandInv, DownInv, TrackedInv, OneEntryPerTask, EffectsInv, [Next]_vars
    PROVE  EffectsInv'
<1>1. ASSUME NEW w \in Worker, NEW e \in Entry, SkipStale(w, e)
      PROVE  EffectsInv'
  BY <1>1, ObtainEffect DEF SkipStale, memory, history, EffectsInv, NoSilentRerun, Known, TypeOK
<1>2. ASSUME NEW w \in Worker, NEW e \in Entry, FailDependent(w, e)
      PROVE  EffectsInv'
  <2>1. /\ e.task \in Task /\ "failed" \in TaskStatus /\ Known(e.task)
        /\ Dropped \notin {"claimed", "retrying", "executing"}
    BY <1>2, ObtainEffect, ObtainKnown DEF FailDependent, TaskStatus, Terminal
  <2> QED
    BY <1>2, <2>1, SaveEffect, SetStatusEffect, ObtainOne DEF FailDependent, history,
        EffectsInv, NoSilentRerun, Known, TypeOK, HandInv, Held
<1>3. ASSUME NEW w \in Worker, NEW e \in Entry, Defer(w, e)
      PROVE  EffectsInv'
  BY <1>3, ObtainEffect DEF Defer, memory, history, EffectsInv, NoSilentRerun, Known
<1>4. ASSUME NEW w \in Worker, NEW e \in Entry, Claim(w, e)
      PROVE  EffectsInv'
  BY <1>4, ObtainEffect, ObtainOne, SetStatusEffect DEF Claim, history, EffectsInv, NoSilentRerun,
      Known, TypeOK, HandInv, Held, TaskStatus
<1>5. ASSUME NEW w \in Worker, EndDrain(w) PROVE EffectsInv'
  BY <1>5 DEF EndDrain, memory, history, EffectsInv, NoSilentRerun, Known
<1>6. ASSUME NEW w \in Worker, MarkRunning(w) PROVE EffectsInv'
  BY <1>6, UpdateEffect DEF MarkRunning, memory, history, EffectsInv,
      NoSilentRerun, Known, TypeOK, HandInv, TaskStatus
<1>7. ASSUME NEW w \in Worker, RequeueUnmarked(w) PROVE EffectsInv'
  <2>1. cur[w] \in Task /\ cur[w] \notin affected \ granted
    BY <1>7, HandTyped DEF RequeueUnmarked, EffectsInv
  <2>2. /\ obj' \in [Task -> Record]
        /\ \A u \in Task : obj'[u].effects = obj[u].effects
        /\ \A u \in Task \ {cur[w]} : obj'[u] = obj[u]
        /\ row' = row
        /\ UNCHANGED <<granted, affected>>
    BY <1>7, <2>1, SetStatusEffect, UpdateFailsEffect DEF RequeueUnmarked, TaskStatus, history
  <2>3. /\ NoSilentRerun'
        /\ \A t \in affected' \ granted' : Known(t)' => obj'[t].effects = "started"
    BY <2>1, <2>2 DEF TypeOK, EffectsInv, NoSilentRerun, Known
  <2>4. ASSUME NEW v \in Worker, pc'[v] \in {"claimed", "retrying", "executing"}
        PROVE  /\ pc'[v] \in {"claimed", "retrying"} => cur'[v] \notin affected' \ granted'
               /\ pc'[v] = "executing" => /\ obj'[cur'[v]].status = "running"
                                           /\ row'[cur'[v]].status # "queued"
    <3>1. v # w /\ pc[v] = pc'[v] /\ cur'[v] = cur[v]
      BY <1>7, <2>4 DEF RequeueUnmarked, Release, TypeOK
    <3>2. cur[v] \in Task /\ cur[v] # cur[w]
      BY <2>1, <2>4, <3>1, HandTyped, ConstantsAssumption
      DEF OneEntryPerTask, ExclusiveExecution
    <3> QED
      BY <2>2, <2>4, <3>1, <3>2 DEF EffectsInv
  <2> QED
    BY <2>3, <2>4 DEF EffectsInv
<1>8. ASSUME NEW w \in Worker, StartExecution(w) PROVE EffectsInv'
  <2>1. cur[w] \in Task /\ "running" \in TaskStatus /\ pc[w] = "starting"
    BY <1>8, HandTyped DEF StartExecution, TaskStatus
  <2>2. /\ obj' \in [Task -> Record]
        /\ obj'[cur[w]].status = "running" /\ row'[cur[w]].status = "running"
        /\ \A u \in Task : obj'[u].effects = obj[u].effects
        /\ \A u \in Task \ {cur[w]} : obj'[u] = obj[u] /\ row'[u] = row[u]
        /\ UNCHANGED <<granted, affected, cur>>
    BY <1>8, <2>1, SetStatusEffect, UpdateEffect DEF StartExecution, history
  <2>3. Known(cur[w])
    BY <2>1 DEF TrackedInv, HandInv
  <2>4. /\ NoSilentRerun'
        /\ \A t \in affected' \ granted' : Known(t)' => obj'[t].effects = "started"
    BY <2>1, <2>2, <2>3 DEF TypeOK, EffectsInv, NoSilentRerun, Known
  <2>5. ASSUME NEW v \in Worker, pc'[v] \in {"claimed", "retrying", "executing"}
        PROVE  /\ pc'[v] \in {"claimed", "retrying"} => cur'[v] \notin affected' \ granted'
               /\ pc'[v] = "executing" => /\ obj'[cur'[v]].status = "running"
                                           /\ row'[cur'[v]].status # "queued"
    <3>1. CASE v = w
      BY <1>8, <2>1, <2>2, <3>1 DEF StartExecution, TypeOK
    <3>2. CASE v # w
      <4>1. pc[v] = pc'[v] /\ cur'[v] = cur[v]
        BY <1>8, <2>2, <3>2 DEF StartExecution, TypeOK
      <4>2. cur[v] \in Task /\ cur[v] # cur[w]
        BY <2>1, <2>5, <3>2, <4>1, HandTyped, ConstantsAssumption
        DEF OneEntryPerTask, ExclusiveExecution
      <4> QED
        BY <2>2, <2>5, <4>1, <4>2 DEF EffectsInv
    <3> QED
      BY <3>1, <3>2
  <2> QED
    BY <2>4, <2>5 DEF EffectsInv
<1>9. ASSUME NEW w \in Worker, AbandonExecution(w) PROVE EffectsInv'
  <2>1. cur[w] \in Task /\ "running" \in TaskStatus /\ pc[w] = "starting"
    BY <1>9, HandTyped DEF AbandonExecution, TaskStatus
  <2>2. /\ obj' \in [Task -> Record]
        /\ \A u \in Task : obj'[u].effects = obj[u].effects
        /\ \A u \in Task \ {cur[w]} : obj'[u] = obj[u]
        /\ obj'[cur[w]].status = "running"
        /\ row' = row
        /\ UNCHANGED <<granted, affected>>
    BY <1>9, <2>1, SetStatusEffect, UpdateFailsEffect DEF AbandonExecution, history
  <2>3. Known(cur[w])
    BY <2>1 DEF TrackedInv, HandInv
  <2>4. /\ NoSilentRerun'
        /\ \A t \in affected' \ granted' : Known(t)' => obj'[t].effects = "started"
    BY <2>1, <2>2, <2>3 DEF TypeOK, EffectsInv, NoSilentRerun, Known
  <2>5. ASSUME NEW v \in Worker, pc'[v] \in {"claimed", "retrying", "executing"}
        PROVE  /\ pc'[v] \in {"claimed", "retrying"} => cur'[v] \notin affected' \ granted'
               /\ pc'[v] = "executing" => /\ obj'[cur'[v]].status = "running"
                                           /\ row'[cur'[v]].status # "queued"
    <3>1. v # w /\ pc[v] = pc'[v] /\ cur'[v] = cur[v]
      BY <1>9, <2>5 DEF AbandonExecution, Release, TypeOK
    <3>2. cur[v] \in Task /\ cur[v] # cur[w]
      BY <2>1, <2>5, <3>1, HandTyped, ConstantsAssumption
      DEF OneEntryPerTask, ExclusiveExecution
    <3> QED
      BY <2>2, <2>5, <3>1, <3>2 DEF EffectsInv
  <2> QED
    BY <2>4, <2>5 DEF EffectsInv
<1>10. ASSUME NEW w \in Worker, MarkSideEffects(w) PROVE EffectsInv'
  BY <1>10, SaveEffect, MarkEffect DEF EffectsInv, NoSilentRerun, Known,
      TypeOK, HandInv, OneEntryPerTask, ExclusiveExecution
<1>11. ASSUME NEW w \in Worker, NEW o \in {"completed", "failed"},
             FinishExecution(w, o)
      PROVE  EffectsInv'
  BY <1>11, SetStatusEffect DEF FinishExecution, history, EffectsInv,
      NoSilentRerun, Known, TypeOK, HandInv, OneEntryPerTask,
      ExclusiveExecution, TaskStatus, Terminal
<1>12. ASSUME NEW w \in Worker, SaveOutcome(w) PROVE EffectsInv'
  BY <1>12, SaveEffect DEF SaveOutcome, memory, history, Release, EffectsInv,
      NoSilentRerun, Known, TypeOK, HandInv
<1>13. ASSUME NEW w \in Worker, CancelStalled(w) PROVE EffectsInv'
  BY <1>13 DEF CancelStalled, memory, history, EffectsInv, NoSilentRerun, Known
<1>14. ASSUME NEW w \in Worker, Unwind(w) PROVE EffectsInv'
  BY <1>14, SaveEffect DEF Unwind, memory, history, EffectsInv, NoSilentRerun,
      Known, TypeOK, HandInv
<1>15. ASSUME NEW w \in Worker, FailStalled(w) PROVE EffectsInv'
  BY <1>15, SaveEffect, SetStatusEffect DEF FailStalled, history, LoopFree,
      Release, ShouldRetry, HoldsLoop, EffectsInv, NoSilentRerun, Known,
      TypeOK, HandInv, TrackedInv, OneEntryPerTask, ExclusiveExecution,
      TaskStatus, Terminal
<1>16. ASSUME NEW w \in Worker, RequeueStalled(w) PROVE EffectsInv'
  <2>1. cur[w] \in Task /\ cur[w] \notin affected \ granted
    BY <1>16, HandTyped DEF RequeueStalled, EffectsInv
  <2>2. /\ obj' \in [Task -> Record]
        /\ \A u \in Task : obj'[u].effects = obj[u].effects
        /\ \A u \in Task \ {cur[w]} : obj'[u] = obj[u]
        /\ UNCHANGED <<granted, affected>>
    BY <1>16, <2>1, SetStatusEffect DEF RequeueStalled, TaskStatus, history
  <2>3. SaveOrLose(cur[w])
    BY <1>16 DEF RequeueStalled, SaveOrLose
  <2>4. \A u \in Task \ {cur[w]} : row'[u] = row[u]
    BY <2>1, <2>2, <2>3, SaveEffect
  <2>5. /\ NoSilentRerun'
        /\ \A t \in affected' \ granted' : Known(t)' => obj'[t].effects = "started"
    BY <2>1, <2>2, <2>4 DEF TypeOK, EffectsInv, NoSilentRerun, Known
  <2>6. ASSUME NEW v \in Worker, pc'[v] \in {"claimed", "retrying", "executing"}
        PROVE  /\ pc'[v] \in {"claimed", "retrying"} => cur'[v] \notin affected' \ granted'
               /\ pc'[v] = "executing" => /\ obj'[cur'[v]].status = "running"
                                           /\ row'[cur'[v]].status # "queued"
    <3>1. v # w /\ pc[v] = pc'[v] /\ cur'[v] = cur[v]
      BY <1>16, <2>6 DEF RequeueStalled, Release, TypeOK
    <3>2. cur[v] \in Task /\ cur[v] # cur[w]
      BY <2>1, <2>6, <3>1, HandTyped, ConstantsAssumption
      DEF OneEntryPerTask, ExclusiveExecution
    <3> QED
      BY <2>2, <2>4, <2>6, <3>1, <3>2 DEF EffectsInv
  <2> QED
    BY <2>5, <2>6 DEF EffectsInv
<1>17. ASSUME NEW w \in Worker, BumpRetry(w) PROVE EffectsInv'
  <2>1. /\ cur[w] \in Task
        /\ obj' \in [Task -> Record]
        /\ \A u \in Task : /\ obj'[u].status = obj[u].status
                          /\ obj'[u].effects = obj[u].effects
        /\ SaveOrLose(cur[w])
        /\ Release(w)
        /\ UNCHANGED <<granted, affected>>
    BY <1>17, BumpEffect
  <2>2. /\ NoSilentRerun'
        /\ \A t \in affected' \ granted' : Known(t)' => obj'[t].effects = "started"
    BY <2>1, SaveEffect DEF TypeOK, EffectsInv, NoSilentRerun, Known
  <2>3. ASSUME NEW v \in Worker, pc'[v] \in {"claimed", "retrying", "executing"}
        PROVE  /\ pc'[v] \in {"claimed", "retrying"} => cur'[v] \notin affected' \ granted'
               /\ pc'[v] = "executing" => /\ obj'[cur'[v]].status = "running"
                                           /\ row'[cur'[v]].status # "queued"
    <3>1. v # w /\ pc[v] = pc'[v] /\ cur'[v] = cur[v]
      BY <2>1, <2>3 DEF Release, TypeOK
    <3>2. cur[v] \in Task /\ cur[v] # cur[w]
      BY <2>1, <2>3, <3>1, HandTyped, ConstantsAssumption
      DEF OneEntryPerTask, ExclusiveExecution
    <3> QED
      BY <2>1, <2>3, <3>1, <3>2, SaveEffect DEF EffectsInv
  <2> QED
    BY <2>2, <2>3 DEF EffectsInv
<1>18. ASSUME NEW e \in pending, PutEntry(e) PROVE EffectsInv'
  BY <1>18 DEF PutEntry, memory, workers, history, EffectsInv, NoSilentRerun,
      Known
<1>19. ASSUME NEW e \in pending, FailSaturated(e) PROVE EffectsInv'
  BY <1>19, SaveEffect, SetStatusEffect DEF FailSaturated, workers, history,
      LoopFree, HoldsLoop, EffectsInv, NoSilentRerun, Known, TypeOK, HandInv,
      TrackedInv, OneEntryPerTask, Held, Put, TaskStatus, Terminal
<1>20. ASSUME NEW e \in pending, RejectPut(e) PROVE EffectsInv'
  BY <1>20 DEF RejectPut, memory, workers, history, EffectsInv, NoSilentRerun,
      Known
<1>21. ASSUME NEW e \in pending, RollBack(e) PROVE EffectsInv'
  BY <1>21, NoRecordTyped DEF RollBack, memory, workers, history, EffectsInv,
      NoSilentRerun, Known, TypeOK, HandInv, OneEntryPerTask, Held
<1>22. ASSUME NEW t \in Task, NEW p \in Prio, SubmitOnLoop(t, p)
      PROVE  EffectsInv'
  BY <1>22, TrackEffect DEF SubmitOnLoop, EffectsInv, NoSilentRerun, Known,
      TypeOK, HandInv
<1>23. ASSUME NEW t \in Task, NEW p \in Prio, SubmitFromThread(t, p)
      PROVE  EffectsInv'
  BY <1>23, TrackEffect DEF SubmitFromThread, EffectsInv, NoSilentRerun, Known,
      TypeOK, HandInv
<1>24. ASSUME NEW t \in Task, EndBackoff(t) PROVE EffectsInv'
  BY <1>24 DEF EndBackoff, memory, workers, history, EffectsInv, NoSilentRerun,
      Known
<1>25. ASSUME NEW t \in Task, CancelTask(t) PROVE EffectsInv'
  <2>1. "cancelled" \in TaskStatus
    BY DEF TaskStatus, Terminal
  <2>2. /\ obj[t].status \in {"queued", "cancelled"}
        /\ \A u \in Task : obj'[u].effects = obj[u].effects
        /\ obj'[t].status = "cancelled"
        /\ \A u \in Task \ {t} : obj'[u] = obj[u]
        /\ UNCHANGED <<pc, cur, granted, affected>>
    BY <1>25, <2>1, SetStatusEffect DEF CancelTask, workers, history
  <2>3. /\ \A u \in Task \ {t} : row'[u] = row[u]
        /\ row'[t].status \in {row[t].status, "cancelled"}
    BY <1>25, <2>1, UpdateFailsEffect, UpdateEffect DEF CancelTask
  <2>4. /\ NoSilentRerun'
        /\ \A u \in affected' \ granted' : Known(u)' => obj'[u].effects = "started"
    BY <2>2, <2>3 DEF EffectsInv, NoSilentRerun, Known, TypeOK
  <2>5. ASSUME NEW w \in Worker, pc[w] = "executing"
        PROVE  obj'[cur[w]].status = "running" /\ row'[cur[w]].status # "queued"
    <3>1. cur[w] \in Task \ {t}
      BY <2>2, <2>5, HandTyped DEF EffectsInv
    <3> QED
      BY <2>2, <2>3, <2>5, <3>1 DEF EffectsInv
  <2> QED
    BY <2>2, <2>4, <2>5 DEF EffectsInv
<1>26. ASSUME NEW t \in Task, RetryTask(t) PROVE EffectsInv'
  BY <1>26, SaveEffect, SetStatusEffect DEF RetryTask, workers, LoopFree,
      EffectsInv, NoSilentRerun, Known, TypeOK, HandInv, TaskStatus
<1>27. ASSUME NEW t \in Task, Evict(t) PROVE EffectsInv'
  BY <1>27 DEF Evict, workers, history, EffectsInv, NoSilentRerun, Known
<1>28. ASSUME NEW t \in Task, Prune(t) PROVE EffectsInv'
  BY <1>28, NoRecordTyped DEF Prune, workers, history, EffectsInv,
      NoSilentRerun, Known
<1>29. CASE Crash
  BY <1>29, NoRecordTyped DEF Crash, EffectsInv, NoSilentRerun, Known, TypeOK
<1>30. CASE Recover
  <2>1. /\ \A t \in Task : row'[t].status =
                             IF row[t].status = "running" THEN "failed" ELSE row[t].status
        /\ UNCHANGED <<pc, cur, granted, affected>>
    BY <1>30, InterruptedEffect DEF Recover, workers, history
  <2>2. \A t \in Task : \/ row[t].status = "queued"
                       \/ obj'[t] = NoRecord
    BY <1>30 DEF Recover, Recoverable
  <2>3. \A t \in affected \ granted : row[t].status # "queued" /\ obj'[t].status = "none"
    BY <2>2, NoRecordTyped DEF TypeOK, EffectsInv, NoSilentRerun
  <2>4. /\ NoSilentRerun'
        /\ \A t \in affected' \ granted' : Known(t)' => obj'[t].effects = "started"
    BY <2>1, <2>3 DEF TypeOK, NoSilentRerun, Known
  <2>5. \A w \in Worker : pc[w] \in {"idle", "taken", "waiting", "draining"}
    BY <1>30 DEF Recover, DownInv, HandInv
  <2> QED
    BY <2>1, <2>4, <2>5 DEF EffectsInv
<1>31. CASE RecoverFails
  BY <1>31, InterruptedEffect DEF RecoverFails, memory, workers, history,
      EffectsInv, NoSilentRerun, Known, TypeOK, HandInv
<1>32. CASE UNCHANGED vars
  BY <1>32 DEF vars, memory, workers, history, EffectsInv, Known, NoSilentRerun
<1>33. ASSUME NEW w \in Worker, NEW e \in queue, Take(w, e) PROVE EffectsInv'
  BY <1>33 DEF Take, HeldBy, memory, history, EffectsInv, NoSilentRerun, Known
<1>34. ASSUME NEW w \in Worker, EndDrainWaiting(w) PROVE EffectsInv'
  BY <1>34 DEF EndDrainWaiting, HeldBy, memory, history, EffectsInv, NoSilentRerun, Known
<1>35. ASSUME NEW w \in Worker, RequeueWaiting(w) PROVE EffectsInv'
  <2>1. cur[w] \notin affected \ granted
    BY <1>35, WaitingEffect DEF EffectsInv
  <2>2. /\ NoSilentRerun'
        /\ \A t \in affected' \ granted' : Known(t)' => obj'[t].effects = "started"
    BY <1>35, <2>1, WaitingEffect DEF TypeOK, EffectsInv, NoSilentRerun, Known
  <2>3. ASSUME NEW v \in Worker, pc'[v] \in {"claimed", "retrying", "executing"}
        PROVE  /\ pc'[v] \in {"claimed", "retrying"} => cur'[v] \notin affected' \ granted'
               /\ pc'[v] = "executing" => /\ obj'[cur'[v]].status = "running"
                                           /\ row'[cur'[v]].status # "queued"
    <3>1. v # w /\ pc[v] = pc'[v] /\ cur'[v] = cur[v]
      BY <1>35, <2>3, WaitingEffect DEF TypeOK
    <3>2. cur[v] \in Task /\ cur[v] # cur[w]
      BY <1>35, <2>3, <3>1, HandTyped, WaitingEffect, ConstantsAssumption
      DEF OneEntryPerTask, ExclusiveExecution
    <3> QED
      BY <1>35, <2>3, <3>1, <3>2, WaitingEffect DEF EffectsInv
  <2> QED
    BY <2>2, <2>3 DEF EffectsInv
<1>36. ASSUME NEW w \in Worker, PutBack(w) PROVE EffectsInv'
  BY <1>36 DEF PutBack, memory, history, EffectsInv, NoSilentRerun, Known
<1> QED
  BY <1>1, <1>2, <1>3, <1>4, <1>5, <1>6, <1>7, <1>8, <1>9, <1>10, <1>11, <1>12,
      <1>13, <1>14, <1>15, <1>16, <1>17, <1>18, <1>19, <1>20, <1>21, <1>22, <1>23,
      <1>24, <1>25, <1>26, <1>27, <1>28, <1>29, <1>30, <1>31, <1>32, <1>33, <1>34,
      <1>35, <1>36, Zenon DEF Next, Drain, Execute, HandleStall, RunPut, Submit

-----------------------------------------------------------------------------
(* The theorems *)

\* The initial states satisfy the three invariants.
THEOREM InitInv == Init => IInv /\ BudgetInv /\ EffectsInv
<1> SUFFICES ASSUME Init PROVE IInv /\ BudgetInv /\ EffectsInv
  OBVIOUS
<1>1. TypeOK
  BY ConstantsAssumption, NoRecordTyped DEF Init, TypeOK, WorkerState, AtQueue
<1>2. HandInv /\ DownInv /\ TrackedInv
  BY DEF Init, HandInv, DownInv, TrackedInv
<1>3. OneEntryPerTask
  BY DEF Init, OneEntryPerTask, ExclusiveExecution
<1>4. BudgetInv /\ EffectsInv
  BY ConstantsAssumption, NoRecordTyped
  DEF Init, BudgetInv, RetryBudget, EffectsInv, NoSilentRerun
<1> QED
  BY <1>1, <1>2, <1>3, <1>4 DEF IInv

\* The inductive invariant is preserved by every step.
THEOREM IInvInductive == IInv /\ [Next]_vars => IInv'
BY TypeStep, HandStep, DownStep, TrackedStep, EntryStep DEF IInv

\* IInv holds in every reachable state, for every set of tasks and workers,
\* queue depth, retry budget and number of faults and crashes.
THEOREM Invariance == Spec => []IInv
<1>1. Init => IInv
  BY InitInv
<1>2. IInv /\ [Next]_vars => IInv'
  BY IInvInductive
<1> QED
  BY <1>1, <1>2, PTL DEF Spec

\* Every variable keeps its type.
THEOREM TypeCorrect == Spec => []TypeOK
<1>1. IInv => TypeOK
  BY DEF IInv
<1> QED
  BY <1>1, Invariance, PTL

\* No task is on its way to a worker twice.
THEOREM OneEntry == Spec => []OneEntryPerTask
<1>1. IInv => OneEntryPerTask
  BY DEF IInv
<1> QED
  BY <1>1, Invariance, PTL

\* A task is executed by one worker at a time (worker.py, runner.py).
THEOREM Exclusive == Spec => []ExclusiveExecution
<1>1. IInv => ExclusiveExecution
  BY DEF IInv, OneEntryPerTask
<1> QED
  BY <1>1, Invariance, PTL

\* A stalled task is retried at most MaxRetries times (maintenance.py).
THEOREM Budget == Spec => []RetryBudget
<1>1. Init => BudgetInv
  BY InitInv
<1>2. IInv /\ BudgetInv /\ [Next]_vars => BudgetInv'
  BY BudgetStep DEF IInv
<1>3. BudgetInv => RetryBudget
  BY DEF BudgetInv
<1> QED
  BY <1>1, <1>2, <1>3, Invariance, PTL DEF Spec

\* A run that reported a side effect is not silently repeated (maintenance.py,
\* task_store.py).
THEOREM EffectsNotRepeated == Spec => []NoSilentRerun
<1>1. Init => EffectsInv
  BY InitInv
<1>2. IInv /\ EffectsInv /\ [Next]_vars => EffectsInv'
  BY EffectsStep DEF IInv
<1>3. EffectsInv => NoSilentRerun
  BY DEF EffectsInv
<1> QED
  BY <1>1, <1>2, <1>3, Invariance, PTL DEF Spec

=============================================================================
