----------------------- MODULE TaskDaemonSafety_proofs -----------------------
(* More machine-checked theorems about the specification of TaskDaemon: what *)
(* is on disk, what waits, who has the loop, the limits, and the refinement  *)
(* of TaskPromise.                                                           *)
EXTENDS TaskDaemon_proofs, FiniteSetTheorems

-----------------------------------------------------------------------------
(* What a task's place says of its status, in memory and on disk *)

Routed == queue \cup deferred \cup pending

\* From the claim to the end of a stalled run's unwinding.
Working == {"claimed", "unwound"} \cup Running

\* What a worker's place says of the task in its hand.  While the after_run
\* hook of a failed run is going an operator may retry the task, and cancel it.
WorkerInv(w) ==
    /\ pc[w] \in Working => obj[cur[w]].status = "running"
    /\ pc[w] = "finishing" =>
          obj[cur[w]].status \in IF cur[w] \in granted THEN TaskStatus \ {"running"}
                                                       ELSE {"completed", "failed"}
    /\ pc[w] = "retrying" => obj[cur[w]].status = "failed" /\ cur[w] \in live
    /\ pc[w] = "bumping" => obj[cur[w]].status = "queued"

\* A task that waits or runs is live, and what waits for a worker is queued or
\* was cancelled.
StatusInv ==
    /\ \A t \in Task : obj[t].status \in {"queued", "running"} => t \in live
    /\ mode = "down" => live = {} /\ obj = [t \in Task |-> NoRecord]
    /\ \A e \in Routed : obj[e.task].status \in {"queued", "cancelled"}
    /\ \A t \in delayed : obj[t].status \in {"queued", "cancelled"}
    /\ \A w \in Worker : WorkerInv(w)

\* What a worker's place says of the row of the task in its hand.
HandRow(w) ==
    /\ pc[w] \in {"claimed", "bumping"} => row[cur[w]].status = "queued"
    /\ pc[w] \in Running \cup {"unwound"} => row[cur[w]].status = "running"
    /\ pc[w] = "retrying" =>
          \/ row[cur[w]].status = "failed"
          \/ faults > 0 /\ row[cur[w]].status = "running"
    /\ pc[w] = "finishing" =>
          \/ /\ row[cur[w]].status = "running"
             /\ faults = 0 => obj[cur[w]].status \in {"completed", "failed"}
          \/ /\ row[cur[w]].status \in {"queued", "cancelled"}
             /\ obj[cur[w]].status \in {"queued", "cancelled"}
             /\ faults = 0 => row[cur[w]].status = obj[cur[w]].status

\* How far a row may lag behind its task.
RowInv ==
    /\ \A t \in Task : row[t].status = "completed" => obj[t].status \in {"completed", "none"}
    /\ \A t \in live : obj[t].status = "failed" => row[t].status # "none"
    /\ \A e \in Routed : obj[e.task].status = "queued" => row[e.task].status = "queued"
    /\ \A e \in pending : e.how \notin Worker => row[e.task].status \in {"queued", "cancelled"}
    /\ \A t \in delayed :
          /\ row[t].status \in {"queued", "cancelled"}
          /\ obj[t].status = "queued" => row[t].status = "queued"
    /\ \A w \in Worker : HandRow(w)

-----------------------------------------------------------------------------
(* Who has the event loop, and what the queue holds *)

\* One worker has the loop at a time, and entries are set aside only while
\* one drains the queue.
LoopInv ==
    /\ \A v, w \in Worker : pc[v] \in HoldsLoop /\ pc[w] \in HoldsLoop => v = w
    /\ deferred # {} => \E w \in Worker : pc[w] = "draining"

\* An entry carries its task's priority (no task is reprioritized here).
PrioInv == \A e \in Routed : e.prio = obj[e.task].prio

\* What was set aside stays ineligible until it is back on the queue.
DeferInv == \A e \in deferred : DependenciesPending(e.task) \/ AtKindCap(e.task)

\* The workers that run a task of a kind.
Hands(k) == {w \in Worker : pc[w] \in Working /\ KindOf[cur[w]] = k}

\* The queue is finite and within its bounds, and no get keeps an entry from
\* its worker unless it suspends.
RoomInv ==
    /\ IsFiniteSet(queue)
    /\ IsFiniteSet(deferred)
    /\ ~GetSuspends => \A w \in Worker : pc[w] # "taken"
    /\ RoomForRequeue

SafeInv == StatusInv /\ RowInv /\ LoopInv /\ PrioInv

-----------------------------------------------------------------------------
(* Steps *)

\* A worker keeps the task in its hand, lets go of it, or claims one.
HandMove(v) ==
    \/ /\ cur'[v] = cur[v]
       /\ pc'[v] \in Working => pc[v] \in Working
       /\ pc'[v] = "claimed" => pc[v] = "claimed"
    \/ cur'[v] = NoTask /\ pc'[v] \in AtQueue
    \/ \E e \in Entry : Claim(v, e)

\* Entries go from place to place or are dropped, and nothing else happens.
Moved ==
    /\ \A f \in Routed' : \E g \in Routed : g.task = f.task /\ g.prio = f.prio
    /\ \A f \in pending' : f.how \in Worker \/ f \in pending
    /\ \A v \in Worker : pc'[v] = pc[v] \/ pc'[v] \in AtQueue \cup {"draining"}
    /\ UNCHANGED <<mode, obj, live, row, delayed, cur, granted, affected, faults>>

\* No entry is dropped.
NoneDropped == \A f \in Routed : \E g \in Routed' : g.task = f.task

\* What is completed stays so.
Settled ==
    \A t \in Task :
        /\ obj[t].status = "completed" /\ mode' = "up" => obj'[t].status = "completed"
        /\ row[t].status = "completed" => row'[t].status \in {"completed", "none"}

-----------------------------------------------------------------------------
(* What the helpers of the actions do to the rows *)

\* A save whose error is swallowed writes the row or counts a fault.
LEMMA SaveCases ==
    ASSUME TypeOK, NEW t \in Task, SaveOrLose(t)
    PROVE  /\ \A u \in Task \ {t} : row'[u] = row[u]
           /\ \/ row'[t] = obj'[t] /\ faults' = faults
              \/ row' = row /\ faults' = faults + 1
           /\ faults \in Nat
BY ConstantsAssumption DEF TypeOK, SaveOrLose, Save, StoreFault

\* An update of a row fails on a fault, or because the row is not there.
LEMMA UpdateFailsCases ==
    ASSUME TypeOK, NEW t \in Task, UpdateFails(t)
    PROVE  /\ row' = row
           /\ \/ faults' = faults + 1
              \/ row[t].status = "none" /\ faults' = faults
           /\ faults \in Nat
BY ConstantsAssumption DEF TypeOK, UpdateFails, StoreFault

-----------------------------------------------------------------------------
(* What the steps of a drain do *)

\* The entry a worker decides about was on its way to a worker, and its task
\* is not elsewhere.
LEMMA ObtainFacts ==
    ASSUME IInv, NEW w \in Worker, NEW e \in Entry, Obtain(w, e)
    PROVE  /\ e.task \in Task
           /\ \E f \in Routed : f.task = e.task /\ f.prio = e.prio
           /\ pending' \subseteq pending
           /\ \A f \in (queue \ {e}) \cup deferred \cup pending' :
                  f \in Routed /\ f.task \in Task /\ f.task # e.task
           /\ e.task \notin delayed
           /\ \A v \in Worker : cur[v] # e.task
           /\ cur[w] = NoTask
           /\ pc[w] \in {"idle", "draining", "taken"}
           /\ Dropped \in {"idle", "draining"}
<1>1. TypeOK /\ OneEntryPerTask /\ HandInv
  BY DEF IInv
<1>2. \E f \in Routed : f.task = e.task /\ f.prio = e.prio
  <2>1. CASE e \in queue
    BY <2>1 DEF Routed
  <2>2. CASE HeldBy(e, w) \in pending
    <3>1. HeldBy(e, w).task = e.task /\ HeldBy(e, w).prio = e.prio
      BY DEF HeldBy
    <3> QED
      BY <2>2, <3>1 DEF Routed
  <2> QED
    BY <1>1, <2>1, <2>2, ObtainEffect
<1>3. \A f \in (queue \ {e}) \cup deferred \cup pending' :
          f \in Routed /\ f.task \in Task /\ f.task # e.task
  BY <1>1, ObtainEffect, ObtainOne DEF Routed, TypeOK, Entry, Put
<1> QED
  BY <1>1, <1>2, <1>3, ObtainEffect, ObtainOne DEF Held, HandInv

\* A dependent that fails leaves the queue for good.
LEMMA FailEffect ==
    ASSUME IInv, NEW w \in Worker, NEW e \in Entry, FailDependent(w, e)
    PROVE  /\ e.task \in Task
           /\ SaveOrLose(e.task)
           /\ obj[e.task].status = "queued" /\ obj'[e.task].status = "failed"
           /\ \A u \in Task : obj'[u].prio = obj[u].prio
           /\ \A u \in Task \ {e.task} : obj'[u] = obj[u]
           /\ \A f \in Routed' : f \in Routed /\ f.task \in Task /\ f.task # e.task
           /\ \E f \in Routed : f.task = e.task /\ f.prio = e.prio
           /\ queue' = queue \ {e} /\ pending' \subseteq pending /\ deferred' = deferred
           /\ e.task \notin delayed /\ delayed \subseteq Task
           /\ \A v \in Worker : cur[v] # e.task
           /\ pc' = [pc EXCEPT ![w] = Dropped]
           /\ Dropped \in {"idle", "draining"} /\ pc[w] \in {"idle", "draining", "taken"}
           /\ UNCHANGED <<mode, live, delayed, cur, granted, affected>>
<1>1. /\ e.task \in Task /\ "failed" \in TaskStatus /\ TypeOK
      /\ queue' = queue \ {e} /\ deferred' = deferred
      /\ SetStatus(e.task, "failed") /\ SaveOrLose(e.task)
      /\ obj[e.task].status = "queued"
      /\ pc' = [pc EXCEPT ![w] = Dropped]
      /\ UNCHANGED <<mode, delayed, cur, granted, affected>>
  BY DEF FailDependent, history, IInv, TypeOK, Entry, TaskStatus, Terminal
<1>2. \A f \in Routed' : f \in Routed /\ f.task \in Task /\ f.task # e.task
  BY <1>1, ObtainFacts DEF FailDependent, Routed
<1> QED
  BY <1>1, <1>2, ObtainFacts, SetStatusEffect DEF FailDependent, TypeOK

\* A claim takes its task out of every other place.
LEMMA ClaimEffect ==
    ASSUME IInv, NEW w \in Worker, NEW e \in Entry, Claim(w, e)
    PROVE  /\ e.task \in Task /\ e.task # NoTask
           /\ obj[e.task].status = "queued" /\ obj'[e.task].status = "running"
           /\ \A u \in Task : obj'[u].prio = obj[u].prio
           /\ \A u \in Task \ {e.task} : obj'[u] = obj[u]
           /\ \A f \in Routed' : f \in Routed /\ f.task \in Task /\ f.task # e.task
           /\ \E f \in Routed : f.task = e.task /\ f.prio = e.prio
           /\ pending' \subseteq pending /\ deferred' = {}
           /\ queue' = (queue \ {e}) \cup deferred
           /\ e.task \notin delayed /\ delayed \subseteq Task
           /\ \A v \in Worker : cur[v] # e.task
           /\ cur[w] = NoTask /\ pc[w] \in {"idle", "draining", "taken"}
           /\ pc' = [pc EXCEPT ![w] = "claimed"]
           /\ cur' = [cur EXCEPT ![w] = e.task]
           /\ UNCHANGED <<mode, live, row, delayed, granted, affected, faults>>
<1>1. /\ e.task \in Task /\ e.task # NoTask /\ "running" \in TaskStatus /\ TypeOK
      /\ queue' = (queue \ {e}) \cup deferred /\ deferred' = {}
      /\ SetStatus(e.task, "running")
      /\ obj[e.task].status = "queued"
      /\ pc' = [pc EXCEPT ![w] = "claimed"]
      /\ cur' = [cur EXCEPT ![w] = e.task]
      /\ UNCHANGED <<mode, row, delayed, granted, affected, faults>>
  BY ConstantsAssumption DEF Claim, history, IInv, TypeOK, Entry, TaskStatus
<1>2. \A f \in Routed' : f \in Routed /\ f.task \in Task /\ f.task # e.task
  BY <1>1, ObtainFacts DEF Claim, Routed
<1> QED
  BY <1>1, <1>2, ObtainFacts, SetStatusEffect DEF Claim, TypeOK

\* Dropping a stale entry leaves the others where they are.
LEMMA SkipMoves ==
    ASSUME IInv, NEW w \in Worker, NEW e \in Entry, SkipStale(w, e)
    PROVE  Moved
<1>1. \A f \in Routed' : f \in Routed
  BY ObtainFacts DEF SkipStale, Routed
<1> QED
  BY <1>1, ObtainFacts DEF SkipStale, Moved, memory, history, AtQueue, IInv, TypeOK

\* Setting an entry aside drops none.
LEMMA DeferMoves ==
    ASSUME IInv, NEW w \in Worker, NEW e \in Entry, Defer(w, e)
    PROVE  Moved /\ NoneDropped
<1>1. queue' = queue \ {e} /\ deferred' = deferred \cup {e} /\ e \in deferred'
  BY DEF Defer
<1>2. \A f \in Routed' : \E g \in Routed : g.task = f.task /\ g.prio = f.prio
  BY <1>1, ObtainFacts DEF Defer, Routed
<1>3. \A f \in Routed : f \in Routed' \/ f.task = e.task
  BY <1>1, ObtainEffect DEF Defer, Routed, IInv
<1>4. NoneDropped
  BY <1>1, <1>3 DEF NoneDropped, Routed
<1> QED
  BY <1>2, <1>4, ObtainFacts DEF Defer, Moved, memory, history, IInv, TypeOK

\* Nor does a get that suspends with it.
LEMMA TakeMoves ==
    ASSUME IInv, NEW w \in Worker, NEW e \in queue, Take(w, e)
    PROVE  Moved /\ NoneDropped
<1> DEFINE h == HeldBy(e, w)
<1>1. /\ queue' = queue \ {e} /\ pending' = pending \cup {h} /\ deferred' = deferred
      /\ h.task = e.task /\ h.prio = e.prio /\ h.how = w
      /\ pc' = [pc EXCEPT ![w] = "taken"]
      /\ UNCHANGED <<mode, obj, live, row, delayed, cur, granted, affected, faults>>
  BY DEF Take, HeldBy, memory, history
<1> HIDE DEF h
<1>2. e \in Routed /\ h \in Routed'
  BY <1>1 DEF Routed
<1>3. \A f \in Routed' : f \in Routed \/ f = h
  BY <1>1 DEF Routed
<1>4. \A f \in Routed : f \in Routed' \/ f = e
  BY <1>1 DEF Routed
<1> QED
  BY <1>1, <1>2, <1>3, <1>4 DEF Moved, NoneDropped, AtQueue, IInv, TypeOK

\* Nor does a drain that ends with one entry too many.
LEMMA WaitMoves ==
    ASSUME IInv, NEW w \in Worker, EndDrainWaiting(w)
    PROVE  Moved /\ NoneDropped
<1>1. PICK e \in deferred : /\ queue' = deferred \ {e}
                           /\ pending' = pending \cup {HeldBy(e, w)}
  BY DEF EndDrainWaiting
<1> DEFINE h == HeldBy(e, w)
<1>2. /\ queue = {} /\ deferred' = {} /\ queue' = deferred \ {e}
      /\ pending' = pending \cup {h}
      /\ h.task = e.task /\ h.prio = e.prio /\ h.how = w
      /\ pc' = [pc EXCEPT ![w] = "waiting"]
      /\ UNCHANGED <<mode, obj, live, row, delayed, cur, granted, affected, faults>>
  BY <1>1 DEF EndDrainWaiting, HeldBy, memory, history
<1> HIDE DEF h
<1>3. e \in Routed /\ h \in Routed'
  BY <1>2 DEF Routed
<1>4. \A f \in Routed' : f \in Routed \/ f = h
  BY <1>2 DEF Routed
<1>5. \A f \in Routed : f \in Routed' \/ f = e
  BY <1>2 DEF Routed
<1> QED
  BY <1>2, <1>3, <1>4, <1>5 DEF Moved, NoneDropped, AtQueue, IInv, TypeOK

\* Nor does the put that waited for room.
LEMMA BackMoves ==
    ASSUME IInv, NEW w \in Worker, PutBack(w)
    PROVE  Moved /\ NoneDropped
<1>1. PICK e \in pending : /\ queue' = queue \cup {[task |-> e.task, prio |-> e.prio]}
                          /\ pending' = pending \ {e}
  BY DEF PutBack
<1> DEFINE h == [task |-> e.task, prio |-> e.prio]
<1>2. /\ queue' = queue \cup {h} /\ pending' = pending \ {e} /\ deferred' = deferred
      /\ h.task = e.task /\ h.prio = e.prio
      /\ pc' = [pc EXCEPT ![w] = "idle"]
      /\ UNCHANGED <<mode, obj, live, row, delayed, cur, granted, affected, faults>>
  BY <1>1 DEF PutBack, memory, history
<1> HIDE DEF h
<1>3. e \in Routed /\ h \in Routed'
  BY <1>2 DEF Routed
<1>4. \A f \in Routed' : f \in Routed \/ f = h
  BY <1>2 DEF Routed
<1>5. \A f \in Routed : f \in Routed' \/ f = e
  BY <1>2 DEF Routed
<1> QED
  BY <1>2, <1>3, <1>4, <1>5 DEF Moved, NoneDropped, AtQueue, IInv, TypeOK

\* Moving entries disturbs no part of the invariant that speaks of their tasks.
LEMMA MovedKeeps ==
    ASSUME IInv, Moved
    PROVE  /\ StatusInv => StatusInv'
           /\ RowInv => RowInv'
           /\ StoreAgrees => StoreAgrees'
           /\ PrioInv => PrioInv'
           /\ NothingStranded /\ NoneDropped => NothingStranded'
           /\ Settled
           /\ \A v \in Worker : HandMove(v)
<1>1. \A f \in Routed' : \E g \in Routed : g.task = f.task /\ g.prio = f.prio
  BY DEF Moved
<1>2. /\ \A f \in pending' : f.how \in Worker \/ f \in pending
      /\ \A v \in Worker : pc'[v] = pc[v] \/ pc'[v] \in AtQueue \cup {"draining"}
      /\ UNCHANGED <<mode, obj, live, row, delayed, cur, granted, affected, faults>>
  BY DEF Moved
<1>3. StatusInv => StatusInv'
  <2>1. ASSUME StatusInv, NEW v \in Worker PROVE WorkerInv(v)'
    BY <1>2, <2>1 DEF StatusInv, WorkerInv, AtQueue, Working, Running
  <2> QED
    BY <1>1, <1>2, <2>1 DEF StatusInv
<1>4. RowInv => RowInv'
  <2>1. ASSUME RowInv, NEW v \in Worker PROVE HandRow(v)'
    BY <1>2, <2>1 DEF RowInv, HandRow, AtQueue, Running
  <2> QED
    BY <1>1, <1>2, <2>1 DEF RowInv
<1>5. StoreAgrees => StoreAgrees'
  BY <1>2 DEF StoreAgrees, Held
<1>6. PrioInv => PrioInv'
  BY <1>1, <1>2 DEF PrioInv
<1>7. NothingStranded /\ NoneDropped => NothingStranded'
  <2>1. ASSUME NoneDropped, NEW u, Scheduled(u) PROVE Scheduled(u)'
    BY <1>2, <2>1 DEF NoneDropped, Scheduled, Routed, Held
  <2> QED
    BY <1>2, <2>1 DEF NothingStranded, Held
<1>8. Settled
  BY <1>2 DEF Settled
<1>9. \A v \in Worker : HandMove(v)
  BY <1>2 DEF HandMove, AtQueue, Working, Running
<1> QED
  BY <1>3, <1>4, <1>5, <1>6, <1>7, <1>8, <1>9

-----------------------------------------------------------------------------
(* Every step preserves every part of the invariant *)

\* Every step keeps the status of a task in line with its place.
LEMMA StatusStep ==
    ASSUME IInv, StatusInv, [Next]_vars
    PROVE  StatusInv'
<1>1. ASSUME NEW w \in Worker, NEW e \in Entry, SkipStale(w, e)
      PROVE  StatusInv'
  BY <1>1, SkipMoves, MovedKeeps
<1>2. ASSUME NEW w \in Worker, NEW e \in Entry, FailDependent(w, e)
      PROVE  StatusInv'
  <2>1. ASSUME NEW v \in Worker PROVE WorkerInv(v)'
    BY <1>2, <2>1, FailEffect DEF IInv, TypeOK, HandInv, StatusInv, WorkerInv, Working, Running
  <2> QED
    BY <1>2, <2>1, FailEffect, NoRecordTyped DEF StatusInv, IInv, DownInv
<1>3. ASSUME NEW w \in Worker, NEW e \in Entry, Defer(w, e)
      PROVE  StatusInv'
  BY <1>3, DeferMoves, MovedKeeps
<1>4. ASSUME NEW w \in Worker, NEW e \in Entry, Claim(w, e)
      PROVE  StatusInv'
  <2>1. ASSUME NEW v \in Worker PROVE WorkerInv(v)'
    BY <1>4, <2>1, ClaimEffect DEF IInv, TypeOK, HandInv, StatusInv, WorkerInv, Working, Running
  <2> QED
    BY <1>4, <2>1, ClaimEffect, NoRecordTyped DEF StatusInv, IInv, DownInv
<1>5. ASSUME NEW w \in Worker, EndDrain(w) PROVE StatusInv'
  BY <1>5 DEF EndDrain, memory, history, IInv, StatusInv, WorkerInv, Routed,
      Working, Running, TypeOK, HandInv, OneEntryPerTask, ExclusiveExecution,
      Held, Entry, Put, TaskStatus, Terminal
<1>6. ASSUME NEW w \in Worker, MarkRunning(w) PROVE StatusInv'
  BY <1>6 DEF MarkRunning, memory, places, history, IInv, StatusInv, WorkerInv,
      Routed, Working, Running, TypeOK, HandInv, OneEntryPerTask,
      ExclusiveExecution, Held, Entry, Put, TaskStatus, Terminal
<1>7. ASSUME NEW w \in Worker, RequeueUnmarked(w) PROVE StatusInv'
  BY <1>7, SetStatusEffect DEF RequeueUnmarked, history, Release, EntryOf, IInv,
      StatusInv, WorkerInv, Routed, Working, Running, TypeOK, HandInv,
      OneEntryPerTask, ExclusiveExecution, Held, Entry, Put, TaskStatus, Terminal
<1>8. ASSUME NEW w \in Worker, StartExecution(w) PROVE StatusInv'
  BY <1>8, SetStatusEffect DEF StartExecution, places, history, LoopFree, IInv,
      StatusInv, WorkerInv, Routed, Working, Running, TypeOK, HandInv,
      OneEntryPerTask, ExclusiveExecution, Held, Entry, Put, TaskStatus, Terminal
<1>9. ASSUME NEW w \in Worker, AbandonExecution(w) PROVE StatusInv'
  BY <1>9, SetStatusEffect DEF AbandonExecution, places, history, Release,
      LoopFree, IInv, StatusInv, WorkerInv, Routed, Working, Running, TypeOK,
      HandInv, OneEntryPerTask, ExclusiveExecution, Held, Entry, Put, TaskStatus,
      Terminal
<1>10. ASSUME NEW w \in Worker, MarkSideEffects(w) PROVE StatusInv'
  BY <1>10, MarkEffect DEF MarkSideEffects, places, workers, LoopFree, IInv,
      StatusInv, WorkerInv, Routed, Working, Running, TypeOK, HandInv,
      OneEntryPerTask, ExclusiveExecution, Held, Entry, Put, TaskStatus, Terminal
<1>11. ASSUME NEW w \in Worker, NEW o \in {"completed", "failed"},
             FinishExecution(w, o)
      PROVE  StatusInv'
  BY <1>11, SetStatusEffect DEF FinishExecution, places, history, LoopFree, IInv,
      StatusInv, WorkerInv, Routed, Working, Running, TypeOK, HandInv,
      OneEntryPerTask, ExclusiveExecution, Held, Entry, Put, TaskStatus, Terminal
<1>12. ASSUME NEW w \in Worker, SaveOutcome(w) PROVE StatusInv'
  BY <1>12 DEF SaveOutcome, memory, places, history, Release, LoopFree, IInv,
      StatusInv, WorkerInv, Routed, Working, Running, TypeOK, HandInv,
      OneEntryPerTask, ExclusiveExecution, Held, Entry, Put, TaskStatus, Terminal
<1>13. ASSUME NEW w \in Worker, CancelStalled(w) PROVE StatusInv'
  BY <1>13 DEF CancelStalled, memory, places, history, LoopFree, IInv, StatusInv,
      WorkerInv, Routed, Working, Running, TypeOK, HandInv, OneEntryPerTask,
      ExclusiveExecution, Held, Entry, Put, TaskStatus, Terminal
<1>14. ASSUME NEW w \in Worker, Unwind(w) PROVE StatusInv'
  BY <1>14 DEF Unwind, memory, places, history, LoopFree, IInv, StatusInv,
      WorkerInv, Routed, Working, Running, TypeOK, HandInv, OneEntryPerTask,
      ExclusiveExecution, Held, Entry, Put, TaskStatus, Terminal
<1>15. ASSUME NEW w \in Worker, FailStalled(w) PROVE StatusInv'
  BY <1>15, SetStatusEffect DEF FailStalled, places, history, Release, LoopFree,
      ShouldRetry, IInv, StatusInv, WorkerInv, Routed, Working, Running, TypeOK,
      HandInv, OneEntryPerTask, ExclusiveExecution, Held, Entry, Put, TaskStatus,
      Terminal
<1>16. ASSUME NEW w \in Worker, RequeueStalled(w) PROVE StatusInv'
  BY <1>16, SetStatusEffect DEF RequeueStalled, places, history, Release, IInv,
      StatusInv, WorkerInv, Routed, Working, Running, TypeOK, HandInv,
      OneEntryPerTask, ExclusiveExecution, Held, Entry, Put, TaskStatus, Terminal
<1>17. ASSUME NEW w \in Worker, BumpRetry(w) PROVE StatusInv'
  BY <1>17, BumpEffect DEF BumpRetry, history, Release, IInv, StatusInv,
      WorkerInv, Routed, Working, Running, TypeOK, HandInv, OneEntryPerTask,
      ExclusiveExecution, Held, Entry, Put, TaskStatus, Terminal
<1>18. ASSUME NEW e \in pending, PutEntry(e) PROVE StatusInv'
  BY <1>18 DEF PutEntry, memory, workers, history, LoopFree, IInv, StatusInv,
      WorkerInv, Routed, Working, Running, TypeOK, HandInv, OneEntryPerTask,
      ExclusiveExecution, Held, Entry, Put, TaskStatus, Terminal
<1>19. ASSUME NEW e \in pending, FailSaturated(e) PROVE StatusInv'
  BY <1>19, SetStatusEffect DEF FailSaturated, workers, history, LoopFree, IInv,
      StatusInv, WorkerInv, Routed, Working, Running, TypeOK, HandInv,
      OneEntryPerTask, ExclusiveExecution, Held, Entry, Put, TaskStatus, Terminal
<1>20. ASSUME NEW e \in pending, RejectPut(e) PROVE StatusInv'
  BY <1>20 DEF RejectPut, memory, workers, history, LoopFree, IInv, StatusInv,
      WorkerInv, Routed, Working, Running, TypeOK, HandInv, OneEntryPerTask,
      ExclusiveExecution, Held, Entry, Put, TaskStatus, Terminal
<1>21. ASSUME NEW e \in pending, RollBack(e) PROVE StatusInv'
  BY <1>21, NoRecordTyped DEF RollBack, memory, workers, history, IInv, StatusInv,
      WorkerInv, Routed, Working, Running, TypeOK, HandInv, OneEntryPerTask,
      ExclusiveExecution, Held, Entry, Put, TaskStatus, Terminal
<1>22. ASSUME NEW t \in Task, NEW p \in Prio, SubmitOnLoop(t, p)
      PROVE  StatusInv'
  BY <1>22, TrackEffect DEF SubmitOnLoop, LoopFree, IInv, StatusInv, WorkerInv,
      Routed, Working, Running, TypeOK, HandInv, OneEntryPerTask,
      ExclusiveExecution, Held, Entry, Put, TaskStatus, Terminal
<1>23. ASSUME NEW t \in Task, NEW p \in Prio, SubmitFromThread(t, p)
      PROVE  StatusInv'
  BY <1>23, TrackEffect DEF SubmitFromThread, IInv, StatusInv, WorkerInv, Routed,
      Working, Running, TypeOK, HandInv, OneEntryPerTask, ExclusiveExecution,
      Held, Entry, Put, TaskStatus, Terminal
<1>24. ASSUME NEW t \in Task, EndBackoff(t) PROVE StatusInv'
  BY <1>24 DEF EndBackoff, memory, workers, history, LoopFree, IInv, StatusInv,
      WorkerInv, Routed, Working, Running, TypeOK, HandInv, OneEntryPerTask,
      ExclusiveExecution, Held, Entry, Put, TaskStatus, Terminal
<1>25. ASSUME NEW t \in Task, CancelTask(t) PROVE StatusInv'
  <2>1. /\ LoopFree
        /\ obj[t].status \in {"queued", "cancelled"}
        /\ obj'[t].status = "cancelled"
        /\ \A u \in Task \ {t} : obj'[u] = obj[u]
        /\ UNCHANGED <<mode, live, queue, pending, delayed, deferred, pc, cur, granted>>
    BY <1>25, SetStatusEffect DEF IInv, CancelTask, places, workers, history, TaskStatus, Terminal
  <2>2. ASSUME NEW w \in Worker PROVE WorkerInv(w)'
    BY <2>1, <2>2 DEF IInv, TypeOK, HandInv, StatusInv, WorkerInv, LoopFree, HoldsLoop,
        Working, Running, TaskStatus, Terminal
  <2> QED
    BY <2>1, <2>2 DEF IInv, TypeOK, Entry, Put, StatusInv, Routed, LoopFree
<1>26. ASSUME NEW t \in Task, RetryTask(t) PROVE StatusInv'
  <2>1. /\ LoopFree
        /\ obj[t].status = "failed"
        /\ t \in live
        /\ obj'[t].status = "queued"
        /\ \A u \in Task \ {t} : obj'[u] = obj[u]
        /\ granted' = granted \cup {t}
        /\ UNCHANGED <<mode, live, queue, pending, delayed, deferred, pc, cur>>
    BY <1>26, SetStatusEffect DEF IInv, RetryTask, places, workers, TaskStatus
  <2>2. ASSUME NEW w \in Worker PROVE WorkerInv(w)'
    BY <2>1, <2>2 DEF IInv, TypeOK, HandInv, StatusInv, WorkerInv, LoopFree, HoldsLoop,
        Working, Running, TaskStatus, Terminal
  <2> QED
    BY <2>1, <2>2 DEF IInv, TypeOK, Entry, Put, StatusInv, Routed, LoopFree
<1>27. ASSUME NEW t \in Task, Evict(t) PROVE StatusInv'
  BY <1>27 DEF Evict, places, workers, history, LoopFree, Retired, IInv,
      StatusInv, WorkerInv, Routed, Working, Running, TypeOK, HandInv,
      OneEntryPerTask, ExclusiveExecution, Held, Entry, Put, TaskStatus, Terminal
<1>28. ASSUME NEW t \in Task, Prune(t) PROVE StatusInv'
  BY <1>28, NoRecordTyped DEF Prune, places, workers, history, LoopFree, Retired,
      IInv, StatusInv, WorkerInv, Routed, Working, Running, TypeOK, HandInv,
      OneEntryPerTask, ExclusiveExecution, Held, Entry, Put, TaskStatus, Terminal
<1>29. CASE Crash
  BY <1>29, NoRecordTyped DEF Crash, IInv, StatusInv, WorkerInv, Routed, Working,
      Running, TypeOK, HandInv, OneEntryPerTask, ExclusiveExecution, Held, Entry,
      Put, TaskStatus, Terminal
<1>30. CASE Recover
  <2>1. /\ \A t \in Task : obj'[t] = IF t \in Recoverable THEN row[t] ELSE NoRecord
        /\ live' = Recoverable
        /\ mode' = "up"
        /\ queue' = {[task |-> t, prio |-> row[t].prio] : t \in Recoverable}
        /\ UNCHANGED <<pending, delayed, deferred, pc, cur>>
    BY <1>30 DEF Recover, workers
  <2>2. pending = {} /\ delayed = {} /\ deferred = {}
    BY <1>30 DEF Recover, IInv, DownInv
  <2>3. \A w \in Worker : pc[w] \in AtQueue \cup {"draining"}
    BY <1>30 DEF Recover, IInv, DownInv, HandInv, AtQueue
  <2>4. \A e \in queue' : e.task \in Recoverable
    BY <2>1
  <2>5. \A t \in Recoverable : t \in Task /\ obj'[t].status = "queued"
    BY <2>1 DEF Recoverable
  <2> QED
    BY <2>1, <2>2, <2>3, <2>4, <2>5, NoRecordTyped
    DEF StatusInv, WorkerInv, Routed, Working, Running, AtQueue
<1>31. CASE RecoverFails
  BY <1>31 DEF RecoverFails, memory, places, workers, history, Recoverable, IInv,
      StatusInv, WorkerInv, Routed, Working, Running, TypeOK, HandInv,
      OneEntryPerTask, ExclusiveExecution, Held, Entry, Put, TaskStatus, Terminal
<1>32. CASE UNCHANGED vars
  BY <1>32 DEF vars, memory, places, workers, history, IInv, StatusInv, WorkerInv,
      Routed, Working, Running, TypeOK, HandInv, OneEntryPerTask,
      ExclusiveExecution, Held, Entry, Put, TaskStatus, Terminal
<1>33. ASSUME NEW w \in Worker, NEW e \in queue, Take(w, e) PROVE StatusInv'
  BY <1>33, TakeMoves, MovedKeeps
<1>34. ASSUME NEW w \in Worker, EndDrainWaiting(w) PROVE StatusInv'
  BY <1>34, WaitMoves, MovedKeeps
<1>35. ASSUME NEW w \in Worker, RequeueWaiting(w) PROVE StatusInv'
  <2>1. \A f \in Routed' : f \in Routed \/ f.task = cur[w]
    BY <1>35, WaitingEffect DEF Routed, IInv
  <2>2. ASSUME NEW v \in Worker PROVE WorkerInv(v)'
    BY <1>35, <2>2, WaitingEffect DEF IInv, TypeOK, HandInv, OneEntryPerTask, ExclusiveExecution,
        StatusInv, WorkerInv, Working, Running
  <2>3. \A f \in Routed : f.task # cur[w] /\ f.task \in Task
    BY DEF Routed, IInv, TypeOK, OneEntryPerTask, Held, Entry, Put
  <2>4. delayed \subseteq Task /\ cur[w] \notin delayed
    BY DEF IInv, TypeOK, OneEntryPerTask, Held
  <2>5. obj[cur[w]].status = "running"
    BY <1>35, WaitingEffect DEF IInv, StatusInv, WorkerInv, Working
  <2> QED
    BY <1>35, <2>1, <2>2, <2>3, <2>4, <2>5, WaitingEffect, NoRecordTyped DEF StatusInv, IInv, DownInv
<1>36. ASSUME NEW w \in Worker, PutBack(w) PROVE StatusInv'
  BY <1>36, BackMoves, MovedKeeps
<1> QED
  BY <1>1, <1>2, <1>3, <1>4, <1>5, <1>6, <1>7, <1>8, <1>9, <1>10, <1>11, <1>12,
      <1>13, <1>14, <1>15, <1>16, <1>17, <1>18, <1>19, <1>20, <1>21, <1>22, <1>23,
      <1>24, <1>25, <1>26, <1>27, <1>28, <1>29, <1>30, <1>31, <1>32, <1>33, <1>34,
      <1>35, <1>36, Zenon DEF Next, Drain, Execute, HandleStall, RunPut, Submit

\* Every step keeps the row of a task in line with its place.
LEMMA RowStep ==
    ASSUME IInv, StatusInv, RowInv, [Next]_vars
    PROVE  RowInv'
<1>1. ASSUME NEW w \in Worker, NEW e \in Entry, SkipStale(w, e)
      PROVE  RowInv'
  BY <1>1, SkipMoves, MovedKeeps
<1>2. ASSUME NEW w \in Worker, NEW e \in Entry, FailDependent(w, e)
      PROVE  RowInv'
  <2>1. /\ row[e.task].status = "queued" /\ row'[e.task].status \in {"queued", "failed"}
        /\ \A u \in Task \ {e.task} : row'[u] = row[u]
        /\ faults \in Nat /\ faults' \in {faults, faults + 1}
    BY <1>2, FailEffect, SaveCases DEF IInv, RowInv
  <2>2. ASSUME NEW v \in Worker PROVE HandRow(v)'
    <3>1. cur[v] # e.task /\ pc'[v] \in {pc[v], "idle", "draining"} /\ cur'[v] = cur[v]
      BY <1>2, FailEffect DEF IInv, TypeOK
    <3>2. pc[v] \notin {"idle", "draining", "taken", "waiting"} => cur[v] \in Task
      BY DEF IInv, TypeOK, HandInv
    <3> QED
      BY <1>2, <2>1, <3>1, <3>2, FailEffect DEF RowInv, HandRow, Running
  <2>3. live \subseteq Task /\ pending' \subseteq Routed'
    BY DEF IInv, TypeOK, Routed
  <2> QED
    BY <1>2, <2>1, <2>2, <2>3, FailEffect DEF RowInv
<1>3. ASSUME NEW w \in Worker, NEW e \in Entry, Defer(w, e)
      PROVE  RowInv'
  BY <1>3, DeferMoves, MovedKeeps
<1>4. ASSUME NEW w \in Worker, NEW e \in Entry, Claim(w, e)
      PROVE  RowInv'
  <2>1. row[e.task].status = "queued"
    BY <1>4, ClaimEffect DEF RowInv
  <2>2. ASSUME NEW v \in Worker PROVE HandRow(v)'
    BY <1>4, <2>1, <2>2, ClaimEffect DEF IInv, TypeOK, HandInv, RowInv, HandRow, Running
  <2> QED
    BY <1>4, <2>1, <2>2, ClaimEffect DEF IInv, TypeOK, RowInv
<1>5. ASSUME NEW w \in Worker, EndDrain(w) PROVE RowInv'
  BY <1>5 DEF EndDrain, memory, history, IInv, StatusInv, RowInv, WorkerInv,
      HandRow, Routed, Working, Running, HoldsLoop, TypeOK, HandInv,
      OneEntryPerTask, ExclusiveExecution, Held, Entry, Put, TaskStatus, Terminal
<1>6. ASSUME NEW w \in Worker, MarkRunning(w) PROVE RowInv'
  <2>1. /\ cur[w] \in Task /\ pc[w] = "claimed"
        /\ obj[cur[w]].status = "running" /\ row'[cur[w]].status = "running"
        /\ \A u \in Task \ {cur[w]} : row'[u] = row[u]
        /\ pc' = [pc EXCEPT ![w] = "starting"]
        /\ UNCHANGED <<obj, live, queue, deferred, pending, delayed, cur, faults>>
    BY <1>6, HandTyped, UpdateEffect DEF MarkRunning, memory, places, IInv, StatusInv, WorkerInv,
        Working, TaskStatus
  <2>2. ASSUME NEW v \in Worker PROVE HandRow(v)'
    BY <2>1, <2>2 DEF IInv, TypeOK, HandInv, OneEntryPerTask, ExclusiveExecution,
        StatusInv, RowInv, HandRow, WorkerInv, Working, Running, HoldsLoop, LoopFree,
        TaskStatus, Terminal
  <2>3. \A f \in Routed : f.task \in Task /\ f.task # cur[w]
    BY <2>1 DEF Routed, IInv, TypeOK, OneEntryPerTask, Held, Entry, Put
  <2>4. cur[w] \notin delayed /\ delayed \subseteq Task /\ live \subseteq Task
    BY <2>1 DEF IInv, TypeOK, OneEntryPerTask, Held
  <2> QED
    BY <2>1, <2>2, <2>3, <2>4 DEF RowInv, Routed
<1>7. ASSUME NEW w \in Worker, RequeueUnmarked(w) PROVE RowInv'
  BY <1>7, SetStatusEffect, UpdateFailsCases DEF RequeueUnmarked, history,
      Release, EntryOf, IInv, StatusInv, RowInv, WorkerInv, HandRow, Routed,
      Working, Running, HoldsLoop, TypeOK, HandInv, OneEntryPerTask,
      ExclusiveExecution, Held, Entry, Put, TaskStatus, Terminal
<1>8. ASSUME NEW w \in Worker, StartExecution(w) PROVE RowInv'
  <2>1. /\ cur[w] \in Task /\ pc[w] = "starting"
        /\ obj'[cur[w]].status = "running" /\ row'[cur[w]].status = "running"
        /\ \A u \in Task \ {cur[w]} : obj'[u] = obj[u] /\ row'[u] = row[u]
        /\ pc' = [pc EXCEPT ![w] = "executing"]
        /\ UNCHANGED <<live, queue, deferred, pending, delayed, cur, faults>>
    BY <1>8, HandTyped, SetStatusEffect, UpdateEffect DEF StartExecution, IInv, TaskStatus,
        places
  <2>2. ASSUME NEW v \in Worker PROVE HandRow(v)'
    BY <2>1, <2>2 DEF IInv, TypeOK, HandInv, OneEntryPerTask, ExclusiveExecution,
        StatusInv, RowInv, HandRow, WorkerInv, Working, Running, HoldsLoop, LoopFree,
        TaskStatus, Terminal
  <2>3. \A f \in Routed : f.task \in Task /\ f.task # cur[w]
    BY <2>1 DEF Routed, IInv, TypeOK, OneEntryPerTask, Held, Entry, Put
  <2>4. cur[w] \notin delayed /\ delayed \subseteq Task
    BY <2>1 DEF IInv, TypeOK, OneEntryPerTask, Held
  <2> QED
    BY <2>1, <2>2, <2>3, <2>4 DEF IInv, TypeOK, RowInv, Routed
<1>9. ASSUME NEW w \in Worker, AbandonExecution(w) PROVE RowInv'
  <2>1. /\ cur[w] \in Task /\ pc[w] = "starting"
        /\ obj'[cur[w]].status = "running"
        /\ \A u \in Task \ {cur[w]} : obj'[u] = obj[u]
        /\ pc' = [pc EXCEPT ![w] = "idle"] /\ cur' = [cur EXCEPT ![w] = NoTask]
        /\ row[cur[w]].status = "running" /\ faults' = faults + 1 /\ faults \in Nat
        /\ UNCHANGED <<live, row, queue, deferred, pending, delayed>>
    BY <1>9, HandTyped, SetStatusEffect, UpdateFailsCases DEF AbandonExecution, Release,
        IInv, RowInv, HandRow, Running, TaskStatus, places
  <2>2. ASSUME NEW v \in Worker PROVE HandRow(v)'
    BY <2>1, <2>2 DEF IInv, TypeOK, HandInv, OneEntryPerTask, ExclusiveExecution,
        StatusInv, RowInv, HandRow, WorkerInv, Working, Running, HoldsLoop, LoopFree,
        TaskStatus, Terminal
  <2>3. \A f \in Routed : f.task \in Task /\ f.task # cur[w]
    BY <2>1 DEF Routed, IInv, TypeOK, OneEntryPerTask, Held, Entry, Put
  <2>4. cur[w] \notin delayed /\ delayed \subseteq Task
    BY <2>1 DEF IInv, TypeOK, OneEntryPerTask, Held
  <2> QED
    BY <2>1, <2>2, <2>3, <2>4 DEF IInv, TypeOK, RowInv, Routed
<1>10. ASSUME NEW w \in Worker, MarkSideEffects(w) PROVE RowInv'
  <2>1. /\ cur[w] \in Task /\ pc[w] = "executing"
        /\ \A u \in Task : obj'[u].status = obj[u].status
        /\ obj[cur[w]].status = "running"
        /\ row[cur[w]].status = "running" /\ row'[cur[w]].status = "running"
        /\ \A u \in Task \ {cur[w]} : row'[u] = row[u]
        /\ faults \in Nat /\ faults' \in {faults, faults + 1}
        /\ UNCHANGED <<live, queue, deferred, pending, delayed, pc, cur>>
    BY <1>10, MarkEffect, SaveCases DEF IInv, StatusInv, WorkerInv, RowInv, HandRow,
        Working, Running
  <2>2. ASSUME NEW v \in Worker PROVE HandRow(v)'
    BY <2>1, <2>2 DEF IInv, TypeOK, HandInv, OneEntryPerTask, ExclusiveExecution,
        StatusInv, RowInv, HandRow, WorkerInv, Working, Running, HoldsLoop, LoopFree,
        TaskStatus, Terminal
  <2>3. \A f \in Routed : f.task \in Task /\ f.task # cur[w]
    BY <2>1 DEF Routed, IInv, TypeOK, OneEntryPerTask, Held, Entry, Put
  <2>4. cur[w] \notin delayed /\ delayed \subseteq Task
    BY <2>1 DEF IInv, TypeOK, OneEntryPerTask, Held
  <2> QED
    BY <2>1, <2>2, <2>3, <2>4 DEF IInv, TypeOK, RowInv, Routed
<1>11. ASSUME NEW w \in Worker, NEW o \in {"completed", "failed"},
             FinishExecution(w, o)
      PROVE  RowInv'
  BY <1>11, SetStatusEffect DEF FinishExecution, places, history, LoopFree, IInv,
      StatusInv, RowInv, WorkerInv, HandRow, Routed, Working, Running, HoldsLoop,
      TypeOK, HandInv, OneEntryPerTask, ExclusiveExecution, Held, Entry, Put,
      TaskStatus, Terminal
<1>12. ASSUME NEW w \in Worker, SaveOutcome(w) PROVE RowInv'
  BY <1>12, SaveCases DEF SaveOutcome, memory, places, history, Release, LoopFree,
      IInv, StatusInv, RowInv, WorkerInv, HandRow, Routed, Working, Running,
      HoldsLoop, TypeOK, HandInv, OneEntryPerTask, ExclusiveExecution, Held,
      Entry, Put, TaskStatus, Terminal
<1>13. ASSUME NEW w \in Worker, CancelStalled(w) PROVE RowInv'
  BY <1>13 DEF CancelStalled, memory, places, history, LoopFree, IInv, StatusInv,
      RowInv, WorkerInv, HandRow, Routed, Working, Running, HoldsLoop, TypeOK,
      HandInv, OneEntryPerTask, ExclusiveExecution, Held, Entry, Put, TaskStatus,
      Terminal
<1>14. ASSUME NEW w \in Worker, Unwind(w) PROVE RowInv'
  BY <1>14, SaveCases DEF Unwind, memory, places, history, LoopFree, IInv,
      StatusInv, RowInv, WorkerInv, HandRow, Routed, Working, Running, HoldsLoop,
      TypeOK, HandInv, OneEntryPerTask, ExclusiveExecution, Held, Entry, Put,
      TaskStatus, Terminal
<1>15. ASSUME NEW w \in Worker, FailStalled(w) PROVE RowInv'
  <2>1. /\ cur[w] \in Task /\ pc[w] = "unwound"
        /\ obj'[cur[w]].status = "failed"
        /\ \A u \in Task \ {cur[w]} : obj'[u] = obj[u] /\ row'[u] = row[u]
        /\ row[cur[w]].status = "running"
        /\ \/ row'[cur[w]].status = "failed" /\ faults' = faults
           \/ row' = row /\ faults' = faults + 1
        /\ faults \in Nat
        /\ \/ pc' = [pc EXCEPT ![w] = "retrying"] /\ cur' = cur
           \/ pc' = [pc EXCEPT ![w] = "idle"] /\ cur' = [cur EXCEPT ![w] = NoTask]
        /\ UNCHANGED <<live, queue, deferred, pending, delayed>>
    BY <1>15, HandTyped, SetStatusEffect, SaveCases DEF FailStalled, Release, IInv, RowInv, HandRow,
        Running, TaskStatus, Terminal, places
  <2>2. ASSUME NEW v \in Worker PROVE HandRow(v)'
    BY <2>1, <2>2 DEF IInv, TypeOK, HandInv, OneEntryPerTask, ExclusiveExecution,
        StatusInv, RowInv, HandRow, WorkerInv, Working, Running, HoldsLoop, LoopFree,
        TaskStatus, Terminal
  <2>3. \A f \in Routed : f.task \in Task /\ f.task # cur[w]
    BY <2>1 DEF Routed, IInv, TypeOK, OneEntryPerTask, Held, Entry, Put
  <2>4. cur[w] \notin delayed /\ delayed \subseteq Task /\ live \subseteq Task
    BY <2>1 DEF IInv, TypeOK, OneEntryPerTask, Held
  <2> QED
    BY <2>1, <2>2, <2>3, <2>4 DEF RowInv, Routed
<1>16. ASSUME NEW w \in Worker, RequeueStalled(w) PROVE RowInv'
  <2>1. /\ cur[w] \in Task /\ pc[w] = "retrying"
        /\ obj'[cur[w]].status = "queued"
        /\ \A u \in Task \ {cur[w]} : obj'[u] = obj[u] /\ row'[u] = row[u]
        /\ row[cur[w]].status \in {"failed", "running"}
        /\ \/ /\ row'[cur[w]].status = "queued"
              /\ pc' = [pc EXCEPT ![w] = "bumping"]
              /\ cur' = cur /\ faults' = faults
           \/ /\ row' = row /\ faults' = faults + 1
              /\ pc' = [pc EXCEPT ![w] = "idle"] /\ cur' = [cur EXCEPT ![w] = NoTask]
        /\ faults \in Nat
        /\ UNCHANGED <<live, queue, deferred, pending, delayed>>
    BY <1>16, HandTyped, SetStatusEffect, ConstantsAssumption DEF RequeueStalled,
        Release, Save, StoreFault, IInv, TypeOK, RowInv, HandRow, TaskStatus, places
  <2>2. ASSUME NEW v \in Worker PROVE HandRow(v)'
    BY <2>1, <2>2 DEF IInv, TypeOK, HandInv, OneEntryPerTask, ExclusiveExecution,
        StatusInv, RowInv, HandRow, WorkerInv, Working, Running, HoldsLoop, LoopFree,
        TaskStatus, Terminal
  <2>3. \A f \in Routed : f.task \in Task /\ f.task # cur[w]
    BY <2>1 DEF Routed, IInv, TypeOK, OneEntryPerTask, Held, Entry, Put
  <2>4. cur[w] \notin delayed /\ delayed \subseteq Task
    BY <2>1 DEF IInv, TypeOK, OneEntryPerTask, Held
  <2> QED
    BY <2>1, <2>2, <2>3, <2>4 DEF IInv, TypeOK, RowInv, Routed
<1>17. ASSUME NEW w \in Worker, BumpRetry(w) PROVE RowInv'
  <2>1. /\ cur[w] \in Task /\ pc[w] = "bumping"
        /\ \A u \in Task : obj'[u].status = obj[u].status
        /\ obj[cur[w]].status = "queued"
        /\ row[cur[w]].status = "queued" /\ row'[cur[w]].status = "queued"
        /\ \A u \in Task \ {cur[w]} : row'[u] = row[u]
        /\ pc' = [pc EXCEPT ![w] = "idle"] /\ cur' = [cur EXCEPT ![w] = NoTask]
        /\ delayed' = delayed \cup {cur[w]}
        /\ faults \in Nat /\ faults' \in {faults, faults + 1}
        /\ UNCHANGED <<live, queue, deferred, pending>>
    BY <1>17, BumpEffect, SaveCases DEF IInv, StatusInv, WorkerInv, RowInv, HandRow, Release
  <2>2. ASSUME NEW v \in Worker PROVE HandRow(v)'
    BY <2>1, <2>2 DEF IInv, TypeOK, HandInv, OneEntryPerTask, ExclusiveExecution,
        StatusInv, RowInv, HandRow, WorkerInv, Working, Running, HoldsLoop, LoopFree,
        TaskStatus, Terminal
  <2>3. \A f \in Routed : f.task \in Task /\ f.task # cur[w]
    BY <2>1 DEF Routed, IInv, TypeOK, OneEntryPerTask, Held, Entry, Put
  <2>4. cur[w] \notin delayed /\ delayed \subseteq Task
    BY <2>1 DEF IInv, TypeOK, OneEntryPerTask, Held
  <2> QED
    BY <2>1, <2>2, <2>3, <2>4 DEF IInv, TypeOK, RowInv, Routed
<1>18. ASSUME NEW e \in pending, PutEntry(e) PROVE RowInv'
  BY <1>18 DEF PutEntry, memory, workers, history, LoopFree, IInv, StatusInv,
      RowInv, WorkerInv, HandRow, Routed, Working, Running, HoldsLoop, TypeOK,
      HandInv, OneEntryPerTask, ExclusiveExecution, Held, Entry, Put, TaskStatus,
      Terminal
<1>19. ASSUME NEW e \in pending, FailSaturated(e) PROVE RowInv'
  <2>1. /\ e.task \in Task
        /\ obj[e.task].status \in {"queued", "cancelled"} /\ obj'[e.task].status = "failed"
        /\ row[e.task].status \in {"queued", "cancelled"}
        /\ row'[e.task].status \in {"queued", "cancelled", "failed"}
        /\ \A u \in Task \ {e.task} : obj'[u] = obj[u] /\ row'[u] = row[u]
        /\ pending' = pending \ {e}
        /\ faults \in Nat /\ faults' \in {faults, faults + 1}
        /\ UNCHANGED <<live, queue, deferred, delayed, pc, cur>>
    BY <1>19, SetStatusEffect, SaveCases, ConstantsAssumption DEF FailSaturated, IInv, TypeOK, Put,
        StatusInv, RowInv, Routed, TaskStatus, Terminal, workers
  <2>2. ASSUME NEW v \in Worker PROVE HandRow(v)'
    <3>1. cur[v] # e.task
      BY DEF IInv, OneEntryPerTask, Held
    <3> QED
      BY <2>1, <3>1 DEF IInv, TypeOK, HandInv, RowInv, HandRow, Running, HoldsLoop
  <2>3. \A f \in Routed' : f \in Routed /\ f.task \in Task /\ f.task # e.task
    BY <2>1 DEF Routed, IInv, TypeOK, OneEntryPerTask, Entry, Put
  <2>4. e.task \notin delayed /\ delayed \subseteq Task
    BY DEF IInv, TypeOK, OneEntryPerTask
  <2> QED
    BY <2>1, <2>2, <2>3, <2>4 DEF IInv, TypeOK, RowInv, Routed
<1>20. ASSUME NEW e \in pending, RejectPut(e) PROVE RowInv'
  <2> DEFINE h == [e EXCEPT !.how = "rejected"]
  <2>1. /\ pending' = (pending \ {e}) \cup {h} /\ e.how = "thread"
        /\ UNCHANGED <<obj, live, row, queue, deferred, delayed, pc, cur, faults>>
    BY <1>20 DEF RejectPut, memory, workers
  <2>2. h.task = e.task /\ e.how \notin Worker
    BY <2>1, ConstantsAssumption DEF IInv, TypeOK, Put
  <2> HIDE DEF h
  <2>3. \A f \in Routed' : f \in Routed \/ f = h
    BY <2>1 DEF Routed
  <2>4. e \in Routed
    BY DEF Routed
  <2>5. \A v \in Worker : HandRow(v)'
    BY <2>1 DEF RowInv, HandRow
  <2> QED
    BY <2>1, <2>2, <2>3, <2>4, <2>5 DEF RowInv
<1>21. ASSUME NEW e \in pending, RollBack(e) PROVE RowInv'
  BY <1>21, NoRecordTyped DEF RollBack, memory, workers, history, IInv, StatusInv,
      RowInv, WorkerInv, HandRow, Routed, Working, Running, HoldsLoop, TypeOK,
      HandInv, OneEntryPerTask, ExclusiveExecution, Held, Entry, Put, TaskStatus,
      Terminal
<1>22. ASSUME NEW t \in Task, NEW p \in Prio, SubmitOnLoop(t, p) PROVE RowInv'
  <2>1. /\ \A u \in Task \ {t} : obj'[u] = obj[u] /\ row'[u] = row[u]
        /\ obj[t].status = "none"
        /\ obj'[t].status = "queued" /\ row'[t].status = "queued"
        /\ live' = live \cup {t}
        /\ pending' = pending \cup {[task |-> t, prio |-> p, how |-> "loop"]}
        /\ UNCHANGED <<queue, deferred, delayed, pc, cur, faults>>
    BY <1>22, TrackEffect DEF SubmitOnLoop, IInv
  <2>2. \A f \in Routed : f.task \in Task /\ f.task # t
    BY <2>1 DEF Routed, IInv, TypeOK, TrackedInv, Known, Entry, Put
  <2>3. t \notin delayed /\ delayed \subseteq Task
    BY <2>1 DEF IInv, TypeOK, TrackedInv, Known
  <2>4. ASSUME NEW v \in Worker PROVE HandRow(v)'
    <3>1. cur[v] # NoTask => cur[v] \in Task /\ cur[v] # t
      BY <2>1 DEF IInv, TypeOK, TrackedInv, Known
    <3> QED
      BY <2>1, <3>1 DEF IInv, TypeOK, HandInv, RowInv, HandRow, Running, HoldsLoop
  <2> QED
    BY <2>1, <2>2, <2>3, <2>4 DEF RowInv, Routed, IInv, TypeOK
<1>23. ASSUME NEW t \in Task, NEW p \in Prio, SubmitFromThread(t, p)
      PROVE  RowInv'
  <2>1. /\ \A u \in Task \ {t} : obj'[u] = obj[u] /\ row'[u] = row[u]
        /\ obj[t].status = "none"
        /\ obj'[t].status = "queued" /\ row'[t].status = "queued"
        /\ live' = live \cup {t}
        /\ pending' = pending \cup {[task |-> t, prio |-> p, how |-> "thread"]}
        /\ UNCHANGED <<queue, deferred, delayed, pc, cur, faults>>
    BY <1>23, TrackEffect DEF SubmitFromThread, IInv
  <2>2. \A f \in Routed : f.task \in Task /\ f.task # t
    BY <2>1 DEF Routed, IInv, TypeOK, TrackedInv, Known, Entry, Put
  <2>3. t \notin delayed /\ delayed \subseteq Task
    BY <2>1 DEF IInv, TypeOK, TrackedInv, Known
  <2>4. ASSUME NEW v \in Worker PROVE HandRow(v)'
    <3>1. cur[v] # NoTask => cur[v] \in Task /\ cur[v] # t
      BY <2>1 DEF IInv, TypeOK, TrackedInv, Known
    <3> QED
      BY <2>1, <3>1 DEF IInv, TypeOK, HandInv, RowInv, HandRow, Running, HoldsLoop
  <2> QED
    BY <2>1, <2>2, <2>3, <2>4 DEF RowInv, Routed, IInv, TypeOK
<1>24. ASSUME NEW t \in Task, EndBackoff(t) PROVE RowInv'
  BY <1>24 DEF EndBackoff, memory, workers, history, LoopFree, IInv, StatusInv,
      RowInv, WorkerInv, HandRow, Routed, Working, Running, HoldsLoop, TypeOK,
      HandInv, OneEntryPerTask, ExclusiveExecution, Held, Entry, Put, TaskStatus,
      Terminal
<1>25. ASSUME NEW t \in Task, CancelTask(t) PROVE RowInv'
  <2>1. /\ LoopFree /\ obj[t].status \in {"queued", "cancelled"} /\ t \in live
        /\ obj'[t].status = "cancelled"
        /\ \A u \in Task \ {t} : obj'[u] = obj[u] /\ row'[u] = row[u]
        /\ faults \in Nat
        /\ \/ row'[t].status = "cancelled" /\ row[t].status # "none" /\ faults' = faults
           \/ row' = row /\ faults' = faults + 1
           \/ row' = row /\ faults' = faults /\ row[t].status = "none"
        /\ UNCHANGED <<live, queue, deferred, pending, delayed, pc, cur, granted>>
    BY <1>25, SetStatusEffect, UpdateEffect, UpdateFailsCases, ConstantsAssumption DEF CancelTask,
        UpdateStatus, IInv, TypeOK, TaskStatus, Terminal, places, workers, history
  <2>2. ASSUME NEW v \in Worker PROVE HandRow(v)'
    BY <2>1, <2>2 DEF IInv, TypeOK, HandInv, OneEntryPerTask, ExclusiveExecution,
        StatusInv, RowInv, HandRow, WorkerInv, Working, Running, HoldsLoop, LoopFree,
        TaskStatus, Terminal
  <2>3. Routed' = Routed /\ \A f \in Routed : f.task \in Task
    BY <2>1 DEF Routed, IInv, TypeOK, Entry, Put
  <2>4. delayed \subseteq Task
    BY DEF IInv, TypeOK
  <2> QED
    BY <2>1, <2>2, <2>3, <2>4 DEF IInv, TypeOK, RowInv, Routed
<1>26. ASSUME NEW t \in Task, RetryTask(t) PROVE RowInv'
  <2>1. /\ LoopFree /\ obj[t].status = "failed" /\ t \in live
        /\ obj'[t].status = "queued"
        /\ \A u \in Task \ {t} : obj'[u] = obj[u] /\ row'[u] = row[u]
        /\ faults \in Nat
        /\ \/ row'[t].status = "queued" /\ faults' = faults
           \/ row' = row /\ faults' = faults + 1
        /\ UNCHANGED <<live, queue, deferred, pending, delayed, pc, cur>>
    BY <1>26, SetStatusEffect, SaveCases DEF RetryTask, IInv, TypeOK, TaskStatus, places,
        workers
  <2>2. ASSUME NEW v \in Worker PROVE HandRow(v)'
    BY <2>1, <2>2 DEF IInv, TypeOK, HandInv, OneEntryPerTask, ExclusiveExecution,
        StatusInv, RowInv, HandRow, WorkerInv, Working, Running, HoldsLoop, LoopFree,
        TaskStatus, Terminal
  <2>3. Routed' = Routed /\ \A f \in Routed : f.task \in Task /\ f.task # t
    BY <2>1 DEF Routed, IInv, TypeOK, Entry, Put, StatusInv
  <2>4. delayed \subseteq Task /\ t \notin delayed
    BY <2>1 DEF IInv, TypeOK, StatusInv
  <2> QED
    BY <2>1, <2>2, <2>3, <2>4 DEF IInv, TypeOK, RowInv, Routed
<1>27. ASSUME NEW t \in Task, Evict(t) PROVE RowInv'
  BY <1>27 DEF Evict, places, workers, history, LoopFree, Retired, IInv,
      StatusInv, RowInv, WorkerInv, HandRow, Routed, Working, Running, HoldsLoop,
      TypeOK, HandInv, OneEntryPerTask, ExclusiveExecution, Held, Entry, Put,
      TaskStatus, Terminal
<1>28. ASSUME NEW t \in Task, Prune(t) PROVE RowInv'
  BY <1>28, NoRecordTyped DEF Prune, places, workers, history, LoopFree, Retired,
      IInv, StatusInv, RowInv, WorkerInv, HandRow, Routed, Working, Running,
      HoldsLoop, TypeOK, HandInv, OneEntryPerTask, ExclusiveExecution, Held,
      Entry, Put, TaskStatus, Terminal
<1>29. CASE Crash
  BY <1>29, NoRecordTyped DEF Crash, IInv, StatusInv, RowInv, WorkerInv, HandRow,
      Routed, Working, Running, HoldsLoop, TypeOK, HandInv, OneEntryPerTask,
      ExclusiveExecution, Held, Entry, Put, TaskStatus, Terminal
<1>30. CASE Recover
  <2>1. /\ \A t \in Task : obj'[t] = IF t \in Recoverable THEN row[t] ELSE NoRecord
        /\ \A t \in Task : row'[t].status =
                             IF row[t].status = "running" THEN "failed" ELSE row[t].status
        /\ live' = Recoverable
        /\ queue' = {[task |-> t, prio |-> row[t].prio] : t \in Recoverable}
        /\ pending' = {} /\ delayed' = {} /\ deferred' = {}
        /\ \A w \in Worker : pc'[w] \in AtQueue \cup {"draining"}
    BY <1>30, InterruptedEffect DEF Recover, workers, IInv, DownInv, HandInv, AtQueue
  <2>2. \A e \in queue' : e.task \in Recoverable
    BY <2>1
  <2>3. \A t \in Recoverable : t \in Task /\ row[t].status = "queued"
    BY DEF Recoverable
  <2>4. \A w \in Worker : HandRow(w)'
    BY <2>1 DEF HandRow, Running, AtQueue
  <2> QED
    BY <2>1, <2>2, <2>3, <2>4, NoRecordTyped DEF RowInv, Routed
<1>31. CASE RecoverFails
  <2>1. /\ \A t \in Task : row'[t].status =
                             IF row[t].status = "running" THEN "failed" ELSE row[t].status
        /\ live' = {} /\ queue' = {} /\ pending' = {} /\ delayed' = {} /\ deferred' = {}
        /\ \A w \in Worker : pc'[w] \in AtQueue \cup {"draining"}
        /\ obj' = obj
    BY <1>31, InterruptedEffect DEF RecoverFails, memory, places, workers, IInv, DownInv,
        HandInv, StatusInv, AtQueue
  <2>2. \A w \in Worker : HandRow(w)'
    BY <2>1 DEF HandRow, Running, AtQueue
  <2> QED
    BY <2>1, <2>2 DEF RowInv, Routed
<1>32. CASE UNCHANGED vars
  BY <1>32 DEF vars, memory, places, workers, history, IInv, StatusInv, RowInv,
      WorkerInv, HandRow, Routed, Working, Running, HoldsLoop, TypeOK, HandInv,
      OneEntryPerTask, ExclusiveExecution, Held, Entry, Put, TaskStatus, Terminal
<1>33. ASSUME NEW w \in Worker, NEW e \in queue, Take(w, e) PROVE RowInv'
  BY <1>33, TakeMoves, MovedKeeps
<1>34. ASSUME NEW w \in Worker, EndDrainWaiting(w) PROVE RowInv'
  BY <1>34, WaitMoves, MovedKeeps
<1>35. ASSUME NEW w \in Worker, RequeueWaiting(w) PROVE RowInv'
  <2>1. \A f \in Routed' : f \in Routed \/ f.task = cur[w]
    BY <1>35, WaitingEffect DEF Routed, IInv
  <2>2. \A f \in pending' : f \in pending \/ f.how = w
    BY <1>35, WaitingEffect DEF IInv
  <2>3. row[cur[w]].status = "queued" /\ cur[w] \in Task
    BY <1>35, WaitingEffect DEF IInv, RowInv, HandRow
  <2>4. ASSUME NEW v \in Worker PROVE HandRow(v)'
    <3>1. CASE v = w
      BY <1>35, <3>1, WaitingEffect DEF IInv, TypeOK, HandRow, Running
    <3>2. CASE v # w
      <4>1. pc'[v] = pc[v] /\ cur'[v] = cur[v]
        BY <1>35, <3>2, WaitingEffect DEF IInv, TypeOK
      <4>2. cur[v] # NoTask => cur[v] \in Task /\ cur[v] # cur[w]
        BY <3>2 DEF IInv, TypeOK, OneEntryPerTask, ExclusiveExecution
      <4>3. pc[v] \notin {"idle", "draining", "taken", "waiting"} => cur[v] # NoTask
        BY DEF IInv, HandInv
      <4>4. faults' # 0 \/ faults' = faults
        BY <1>35, <2>3, UpdateFailsCases DEF RequeueWaiting, IInv
      <4>5. faults \in Nat /\ faults' \in Nat
        BY <1>35, <2>3, UpdateFailsCases DEF RequeueWaiting, IInv
      <4> QED
        BY <1>35, <2>3, <4>1, <4>2, <4>3, <4>4, <4>5, WaitingEffect DEF IInv, RowInv, HandRow, Running
    <3> QED
      BY <3>1, <3>2
  <2>5. \A f \in Routed : f.task # cur[w] /\ f.task \in Task
    BY DEF Routed, IInv, TypeOK, OneEntryPerTask, Held, Entry, Put
  <2>6. delayed \subseteq Task /\ cur[w] \notin delayed
    BY DEF IInv, TypeOK, OneEntryPerTask, Held
  <2>7. pending \subseteq Routed /\ live \subseteq Task
    BY DEF Routed, IInv, TypeOK
  <2> QED
    BY <1>35, <2>1, <2>2, <2>3, <2>4, <2>5, <2>6, <2>7, WaitingEffect DEF IInv, RowInv
<1>36. ASSUME NEW w \in Worker, PutBack(w) PROVE RowInv'
  BY <1>36, BackMoves, MovedKeeps
<1> QED
  BY <1>1, <1>2, <1>3, <1>4, <1>5, <1>6, <1>7, <1>8, <1>9, <1>10, <1>11, <1>12,
      <1>13, <1>14, <1>15, <1>16, <1>17, <1>18, <1>19, <1>20, <1>21, <1>22, <1>23,
      <1>24, <1>25, <1>26, <1>27, <1>28, <1>29, <1>30, <1>31, <1>32, <1>33, <1>34,
      <1>35, <1>36, Zenon DEF Next, Drain, Execute, HandleStall, RunPut, Submit

\* Every step that loses no write keeps the rows of waiting tasks up to date.
LEMMA AgreeStep ==
    ASSUME IInv, StatusInv, RowInv, StoreAgrees, [Next]_vars
    PROVE  StoreAgrees'
<1>1. ASSUME NEW w \in Worker, NEW e \in Entry, SkipStale(w, e)
      PROVE  StoreAgrees'
  BY <1>1, SkipMoves, MovedKeeps
<1>2. ASSUME NEW w \in Worker, NEW e \in Entry, FailDependent(w, e)
      PROVE  StoreAgrees'
  <2>1. /\ \A u \in Task \ {e.task} : row'[u] = row[u]
        /\ (row'[e.task] = obj'[e.task] /\ faults' = faults) \/ faults' > 0
    BY <1>2, FailEffect, SaveCases DEF IInv
  <2> QED
    BY <1>2, <2>1, FailEffect DEF StoreAgrees, Held, IInv, TypeOK
<1>3. ASSUME NEW w \in Worker, NEW e \in Entry, Defer(w, e)
      PROVE  StoreAgrees'
  BY <1>3, DeferMoves, MovedKeeps
<1>4. ASSUME NEW w \in Worker, NEW e \in Entry, Claim(w, e)
      PROVE  StoreAgrees'
  <2>1. Held(e.task)' /\ \A u \in Task : Held(u) => Held(u)'
    BY <1>4, ClaimEffect, ConstantsAssumption DEF Held, IInv, TypeOK
  <2> QED
    BY <1>4, <2>1, ClaimEffect DEF StoreAgrees, IInv, TypeOK
<1>5. ASSUME NEW w \in Worker, EndDrain(w) PROVE StoreAgrees'
  BY <1>5 DEF EndDrain, memory, history, IInv, RowInv, HandRow, StoreAgrees,
      Working, Running, HoldsLoop, TypeOK, HandInv, OneEntryPerTask,
      ExclusiveExecution, Held, Entry, Put, StatusInv, Routed, TaskStatus,
      Terminal
<1>6. ASSUME NEW w \in Worker, MarkRunning(w) PROVE StoreAgrees'
  BY <1>6, UpdateEffect DEF MarkRunning, memory, places, history, IInv, RowInv,
      HandRow, StoreAgrees, Working, Running, HoldsLoop, TypeOK, HandInv,
      OneEntryPerTask, ExclusiveExecution, Held, Entry, Put, StatusInv, Routed,
      TaskStatus, Terminal
<1>7. ASSUME NEW w \in Worker, RequeueUnmarked(w) PROVE StoreAgrees'
  BY <1>7, SetStatusEffect, UpdateFailsCases DEF RequeueUnmarked, history,
      Release, EntryOf, IInv, RowInv, HandRow, StoreAgrees, Working, Running,
      HoldsLoop, TypeOK, HandInv, OneEntryPerTask, ExclusiveExecution, Held,
      Entry, Put, StatusInv, Routed, TaskStatus, Terminal
<1>8. ASSUME NEW w \in Worker, StartExecution(w) PROVE StoreAgrees'
  BY <1>8, SetStatusEffect, UpdateEffect DEF StartExecution, places, history,
      LoopFree, IInv, RowInv, HandRow, StoreAgrees, Working, Running, HoldsLoop,
      TypeOK, HandInv, OneEntryPerTask, ExclusiveExecution, Held, Entry, Put,
      StatusInv, Routed, TaskStatus, Terminal
<1>9. ASSUME NEW w \in Worker, AbandonExecution(w) PROVE StoreAgrees'
  BY <1>9, SetStatusEffect, UpdateFailsCases DEF AbandonExecution, places,
      history, Release, LoopFree, IInv, RowInv, HandRow, StoreAgrees, Working,
      Running, HoldsLoop, TypeOK, HandInv, OneEntryPerTask, ExclusiveExecution,
      Held, Entry, Put, StatusInv, Routed, TaskStatus, Terminal
<1>10. ASSUME NEW w \in Worker, MarkSideEffects(w) PROVE StoreAgrees'
  BY <1>10, MarkEffect, SaveCases DEF MarkSideEffects, places, workers, LoopFree,
      IInv, RowInv, HandRow, StoreAgrees, Working, Running, HoldsLoop, TypeOK,
      HandInv, OneEntryPerTask, ExclusiveExecution, Held, Entry, Put, StatusInv,
      Routed, TaskStatus, Terminal
<1>11. ASSUME NEW w \in Worker, NEW o \in {"completed", "failed"},
             FinishExecution(w, o)
      PROVE  StoreAgrees'
  BY <1>11, SetStatusEffect DEF FinishExecution, places, history, LoopFree, IInv,
      RowInv, HandRow, StoreAgrees, Working, Running, HoldsLoop, TypeOK, HandInv,
      OneEntryPerTask, ExclusiveExecution, Held, Entry, Put, StatusInv, Routed,
      TaskStatus, Terminal
<1>12. ASSUME NEW w \in Worker, SaveOutcome(w) PROVE StoreAgrees'
  BY <1>12, SaveCases DEF SaveOutcome, memory, places, history, Release, LoopFree,
      IInv, RowInv, HandRow, StoreAgrees, Working, Running, HoldsLoop, TypeOK,
      HandInv, OneEntryPerTask, ExclusiveExecution, Held, Entry, Put, StatusInv,
      Routed, TaskStatus, Terminal
<1>13. ASSUME NEW w \in Worker, CancelStalled(w) PROVE StoreAgrees'
  BY <1>13 DEF CancelStalled, memory, places, history, LoopFree, IInv, RowInv,
      HandRow, StoreAgrees, Working, Running, HoldsLoop, TypeOK, HandInv,
      OneEntryPerTask, ExclusiveExecution, Held, Entry, Put, StatusInv, Routed,
      TaskStatus, Terminal
<1>14. ASSUME NEW w \in Worker, Unwind(w) PROVE StoreAgrees'
  BY <1>14, SaveCases DEF Unwind, memory, places, history, LoopFree, IInv, RowInv,
      HandRow, StoreAgrees, Working, Running, HoldsLoop, TypeOK, HandInv,
      OneEntryPerTask, ExclusiveExecution, Held, Entry, Put, StatusInv, Routed,
      TaskStatus, Terminal
<1>15. ASSUME NEW w \in Worker, FailStalled(w) PROVE StoreAgrees'
  BY <1>15, SetStatusEffect, SaveCases DEF FailStalled, places, history, Release,
      LoopFree, ShouldRetry, IInv, RowInv, HandRow, StoreAgrees, Working, Running,
      HoldsLoop, TypeOK, HandInv, OneEntryPerTask, ExclusiveExecution, Held,
      Entry, Put, StatusInv, Routed, TaskStatus, Terminal
<1>16. ASSUME NEW w \in Worker, RequeueStalled(w) PROVE StoreAgrees'
  <2>1. /\ cur[w] \in Task
        /\ \A u \in Task \ {cur[w]} : obj'[u] = obj[u] /\ row'[u] = row[u]
        /\ cur' = cur \/ faults' > 0
        /\ faults' = faults \/ faults' > 0
        /\ UNCHANGED <<live, queue, pending, delayed, deferred, granted>>
    BY <1>16, HandTyped, SetStatusEffect, ConstantsAssumption DEF RequeueStalled, Release, Save,
        StoreFault, IInv, TypeOK, TaskStatus, places, history
  <2>2. Held(cur[w])
    BY DEF Held
  <2> QED
    BY <2>1, <2>2 DEF StoreAgrees, Held, IInv, TypeOK
<1>17. ASSUME NEW w \in Worker, BumpRetry(w) PROVE StoreAgrees'
  BY <1>17, BumpEffect, SaveCases DEF BumpRetry, history, Release, IInv, RowInv,
      HandRow, StoreAgrees, Working, Running, HoldsLoop, TypeOK, HandInv,
      OneEntryPerTask, ExclusiveExecution, Held, Entry, Put, StatusInv, Routed,
      TaskStatus, Terminal
<1>18. ASSUME NEW e \in pending, PutEntry(e) PROVE StoreAgrees'
  BY <1>18 DEF PutEntry, memory, workers, history, LoopFree, IInv, RowInv,
      HandRow, StoreAgrees, Working, Running, HoldsLoop, TypeOK, HandInv,
      OneEntryPerTask, ExclusiveExecution, Held, Entry, Put, StatusInv, Routed,
      TaskStatus, Terminal
<1>19. ASSUME NEW e \in pending, FailSaturated(e) PROVE StoreAgrees'
  BY <1>19, SetStatusEffect, SaveCases DEF FailSaturated, workers, history,
      LoopFree, IInv, RowInv, HandRow, StoreAgrees, Working, Running, HoldsLoop,
      TypeOK, HandInv, OneEntryPerTask, ExclusiveExecution, Held, Entry, Put,
      StatusInv, Routed, TaskStatus, Terminal
<1>20. ASSUME NEW e \in pending, RejectPut(e) PROVE StoreAgrees'
  BY <1>20 DEF RejectPut, memory, workers, history, LoopFree, IInv, RowInv,
      HandRow, StoreAgrees, Working, Running, HoldsLoop, TypeOK, HandInv,
      OneEntryPerTask, ExclusiveExecution, Held, Entry, Put, StatusInv, Routed,
      TaskStatus, Terminal
<1>21. ASSUME NEW e \in pending, RollBack(e) PROVE StoreAgrees'
  BY <1>21, NoRecordTyped DEF RollBack, memory, workers, history, IInv, RowInv,
      HandRow, StoreAgrees, Working, Running, HoldsLoop, TypeOK, HandInv,
      OneEntryPerTask, ExclusiveExecution, Held, Entry, Put, StatusInv, Routed,
      TaskStatus, Terminal
<1>22. ASSUME NEW t \in Task, NEW p \in Prio, SubmitOnLoop(t, p)
      PROVE  StoreAgrees'
  BY <1>22, TrackEffect DEF SubmitOnLoop, LoopFree, IInv, RowInv, HandRow,
      StoreAgrees, Working, Running, HoldsLoop, TypeOK, HandInv, OneEntryPerTask,
      ExclusiveExecution, Held, Entry, Put, StatusInv, Routed, TaskStatus,
      Terminal
<1>23. ASSUME NEW t \in Task, NEW p \in Prio, SubmitFromThread(t, p)
      PROVE  StoreAgrees'
  BY <1>23, TrackEffect DEF SubmitFromThread, IInv, RowInv, HandRow, StoreAgrees,
      Working, Running, HoldsLoop, TypeOK, HandInv, OneEntryPerTask,
      ExclusiveExecution, Held, Entry, Put, StatusInv, Routed, TaskStatus,
      Terminal
<1>24. ASSUME NEW t \in Task, EndBackoff(t) PROVE StoreAgrees'
  BY <1>24 DEF EndBackoff, memory, workers, history, LoopFree, IInv, RowInv,
      HandRow, StoreAgrees, Working, Running, HoldsLoop, TypeOK, HandInv,
      OneEntryPerTask, ExclusiveExecution, Held, Entry, Put, StatusInv, Routed,
      TaskStatus, Terminal
<1>25. ASSUME NEW t \in Task, CancelTask(t) PROVE StoreAgrees'
  <2>1. /\ t \in live
        /\ obj[t].status \in {"queued", "cancelled"}
        /\ obj' = [obj EXCEPT ![t].status = "cancelled"]
        /\ faults \in Nat
        /\ \/ row' = [row EXCEPT ![t].status = "cancelled"] /\ faults' = faults
           \/ row' = row /\ faults' = faults + 1
           \/ row' = row /\ faults' = faults /\ row[t].status = "none"
        /\ UNCHANGED <<live, cur>>
    BY <1>25, UpdateFailsCases, ConstantsAssumption DEF CancelTask, SetStatus, UpdateStatus, IInv,
        TypeOK, places, workers, history
  <2>2. \A u \in Task \ {t} : obj'[u] = obj[u] /\ row'[u] = row[u]
    BY <2>1 DEF IInv, TypeOK
  <2>3. obj[t] = row[t] /\ row' = [row EXCEPT ![t].status = "cancelled"] => obj'[t] = row'[t]
    BY <2>1 DEF IInv, TypeOK
  <2>4. obj[t] = row[t] => row[t].status # "none"
    BY <2>1
  <2> QED
    BY <2>1, <2>2, <2>3, <2>4 DEF StoreAgrees, Held, IInv, TypeOK
<1>26. ASSUME NEW t \in Task, RetryTask(t) PROVE StoreAgrees'
  BY <1>26, SetStatusEffect, SaveCases DEF RetryTask, places, workers, LoopFree,
      IInv, RowInv, HandRow, StoreAgrees, Working, Running, HoldsLoop, TypeOK,
      HandInv, OneEntryPerTask, ExclusiveExecution, Held, Entry, Put, StatusInv,
      Routed, TaskStatus, Terminal
<1>27. ASSUME NEW t \in Task, Evict(t) PROVE StoreAgrees'
  BY <1>27 DEF Evict, places, workers, history, LoopFree, Retired, IInv, RowInv,
      HandRow, StoreAgrees, Working, Running, HoldsLoop, TypeOK, HandInv,
      OneEntryPerTask, ExclusiveExecution, Held, Entry, Put, StatusInv, Routed,
      TaskStatus, Terminal
<1>28. ASSUME NEW t \in Task, Prune(t) PROVE StoreAgrees'
  BY <1>28, NoRecordTyped DEF Prune, places, workers, history, LoopFree, Retired,
      IInv, RowInv, HandRow, StoreAgrees, Working, Running, HoldsLoop, TypeOK,
      HandInv, OneEntryPerTask, ExclusiveExecution, Held, Entry, Put, StatusInv,
      Routed, TaskStatus, Terminal
<1>29. CASE Crash
  BY <1>29, NoRecordTyped DEF Crash, IInv, RowInv, HandRow, StoreAgrees, Working,
      Running, HoldsLoop, TypeOK, HandInv, OneEntryPerTask, ExclusiveExecution,
      Held, Entry, Put, StatusInv, Routed, TaskStatus, Terminal
<1>30. CASE Recover
  <2>1. /\ \A t \in Task : obj'[t] = IF t \in Recoverable THEN row[t] ELSE NoRecord
        /\ \A t \in Task : row[t].status # "running" => row'[t] = row[t]
        /\ live' = Recoverable
        /\ queue' = {[task |-> t, prio |-> row[t].prio] : t \in Recoverable}
        /\ pending' = {} /\ deferred' = {}
    BY <1>30 DEF Recover, FailInterrupted, IInv, DownInv
  <2>2. \A t \in Recoverable : t \in Task /\ row[t].status = "queued"
    BY DEF Recoverable
  <2> QED
    BY <2>1, <2>2 DEF StoreAgrees
<1>31. CASE RecoverFails
  BY <1>31, InterruptedEffect DEF RecoverFails, memory, places, workers, history,
      Recoverable, IInv, RowInv, HandRow, StoreAgrees, Working, Running,
      HoldsLoop, TypeOK, HandInv, OneEntryPerTask, ExclusiveExecution, Held,
      Entry, Put, StatusInv, Routed, TaskStatus, Terminal
<1>32. CASE UNCHANGED vars
  BY <1>32 DEF vars, memory, places, workers, history, IInv, RowInv, HandRow,
      StoreAgrees, Working, Running, HoldsLoop, TypeOK, HandInv, OneEntryPerTask,
      ExclusiveExecution, Held, Entry, Put, StatusInv, Routed, TaskStatus,
      Terminal
<1>33. ASSUME NEW w \in Worker, NEW e \in queue, Take(w, e) PROVE StoreAgrees'
  BY <1>33, TakeMoves, MovedKeeps
<1>34. ASSUME NEW w \in Worker, EndDrainWaiting(w) PROVE StoreAgrees'
  BY <1>34, WaitMoves, MovedKeeps
<1>35. ASSUME NEW w \in Worker, RequeueWaiting(w) PROVE StoreAgrees'
  <2>1. row[cur[w]].status = "queued" /\ cur[w] \in Task /\ UpdateFails(cur[w])
    BY <1>35, WaitingEffect DEF RequeueWaiting, IInv, RowInv, HandRow
  <2>2. faults' > 0
    BY <2>1, UpdateFailsCases DEF IInv
  <2> QED
    BY <2>2 DEF StoreAgrees
<1>36. ASSUME NEW w \in Worker, PutBack(w) PROVE StoreAgrees'
  BY <1>36, BackMoves, MovedKeeps
<1> QED
  BY <1>1, <1>2, <1>3, <1>4, <1>5, <1>6, <1>7, <1>8, <1>9, <1>10, <1>11, <1>12,
      <1>13, <1>14, <1>15, <1>16, <1>17, <1>18, <1>19, <1>20, <1>21, <1>22, <1>23,
      <1>24, <1>25, <1>26, <1>27, <1>28, <1>29, <1>30, <1>31, <1>32, <1>33, <1>34,
      <1>35, <1>36, Zenon DEF Next, Drain, Execute, HandleStall, RunPut, Submit

\* Every step that loses no write leaves each waiting task with its place.
LEMMA StrandedStep ==
    ASSUME IInv, StatusInv, RowInv, NothingStranded, [Next]_vars
    PROVE  NothingStranded'
<1>1. ASSUME NEW w \in Worker, NEW e \in Entry, SkipStale(w, e)
      PROVE  NothingStranded'
  <2>1. \A u \in Task \ {e.task} : Scheduled(u) => Scheduled(u)'
    <3>1. \A f \in Routed : f \in Routed' \/ f.task = e.task
      BY <1>1, ObtainEffect DEF SkipStale, Routed, IInv
    <3> QED
      BY <1>1, <3>1, SkipMoves DEF Moved, Scheduled, Routed, Held
  <2>2. obj[e.task].status # "queued" /\ ~Held(e.task)
    BY <1>1, ObtainFacts DEF SkipStale, Held
  <2> QED
    BY <1>1, <2>1, <2>2, SkipMoves DEF Moved, NothingStranded, Held, IInv, TypeOK
<1>2. ASSUME NEW w \in Worker, NEW e \in Entry, FailDependent(w, e)
      PROVE  NothingStranded'
  <2>1. \A u \in Task \ {e.task} : Scheduled(u) => Scheduled(u)'
    <3>1. \A f \in Routed : f \in Routed' \/ f.task = e.task
      BY <1>2, ObtainEffect DEF FailDependent, Routed, IInv
    <3> QED
      BY <1>2, <3>1, FailEffect DEF Scheduled, Routed, Held
  <2>2. faults' = faults \/ faults' > 0
    BY <1>2, FailEffect, SaveCases DEF IInv
  <2> QED
    BY <1>2, <2>1, <2>2, FailEffect DEF NothingStranded, Held, IInv, TypeOK
<1>3. ASSUME NEW w \in Worker, NEW e \in Entry, Defer(w, e)
      PROVE  NothingStranded'
  BY <1>3, DeferMoves, MovedKeeps
<1>4. ASSUME NEW w \in Worker, NEW e \in Entry, Claim(w, e)
      PROVE  NothingStranded'
  <2>1. Held(e.task)' /\ \A u \in Task : Held(u) => Held(u)'
    BY <1>4, ClaimEffect, ConstantsAssumption DEF Held, IInv, TypeOK
  <2>2. \A u \in Task \ {e.task} : Scheduled(u) => Scheduled(u)'
    <3>1. \A f \in Routed : f \in Routed' \/ f.task = e.task
      BY <1>4, ObtainEffect DEF Claim, Routed, IInv
    <3> QED
      BY <1>4, <2>1, <3>1, ClaimEffect DEF Scheduled, Routed
  <2> QED
    BY <1>4, <2>1, <2>2, ClaimEffect DEF NothingStranded, IInv, TypeOK
<1>5. ASSUME NEW w \in Worker, EndDrain(w) PROVE NothingStranded'
  BY <1>5 DEF EndDrain, memory, history, IInv, RowInv, HandRow, NothingStranded,
      Scheduled, StatusInv, WorkerInv, Running, Working, TypeOK, HandInv,
      OneEntryPerTask, Held, Entry, Put, TaskStatus, Terminal
<1>6. ASSUME NEW w \in Worker, MarkRunning(w) PROVE NothingStranded'
  BY <1>6, UpdateEffect DEF MarkRunning, memory, places, history, IInv, RowInv,
      HandRow, NothingStranded, Scheduled, StatusInv, WorkerInv, Running, Working,
      TypeOK, HandInv, OneEntryPerTask, Held, Entry, Put, TaskStatus, Terminal
<1>7. ASSUME NEW w \in Worker, RequeueUnmarked(w) PROVE NothingStranded'
  BY <1>7, SetStatusEffect, UpdateFailsCases DEF RequeueUnmarked, history,
      Release, EntryOf, IInv, RowInv, HandRow, NothingStranded, Scheduled,
      StatusInv, WorkerInv, Running, Working, TypeOK, HandInv, OneEntryPerTask,
      Held, Entry, Put, TaskStatus, Terminal
<1>8. ASSUME NEW w \in Worker, StartExecution(w) PROVE NothingStranded'
  BY <1>8, SetStatusEffect, UpdateEffect DEF StartExecution, places, history,
      LoopFree, IInv, RowInv, HandRow, NothingStranded, Scheduled, StatusInv,
      WorkerInv, Running, Working, TypeOK, HandInv, OneEntryPerTask, Held, Entry,
      Put, TaskStatus, Terminal
<1>9. ASSUME NEW w \in Worker, AbandonExecution(w) PROVE NothingStranded'
  BY <1>9, SetStatusEffect, UpdateFailsCases DEF AbandonExecution, places,
      history, Release, LoopFree, IInv, RowInv, HandRow, NothingStranded,
      Scheduled, StatusInv, WorkerInv, Running, Working, TypeOK, HandInv,
      OneEntryPerTask, Held, Entry, Put, TaskStatus, Terminal
<1>10. ASSUME NEW w \in Worker, MarkSideEffects(w) PROVE NothingStranded'
  BY <1>10, MarkEffect, SaveCases DEF MarkSideEffects, places, workers, LoopFree,
      IInv, RowInv, HandRow, NothingStranded, Scheduled, StatusInv, WorkerInv,
      Running, Working, TypeOK, HandInv, OneEntryPerTask, Held, Entry, Put,
      TaskStatus, Terminal
<1>11. ASSUME NEW w \in Worker, NEW o \in {"completed", "failed"},
             FinishExecution(w, o)
      PROVE  NothingStranded'
  BY <1>11, SetStatusEffect DEF FinishExecution, places, history, LoopFree, IInv,
      RowInv, HandRow, NothingStranded, Scheduled, StatusInv, WorkerInv, Running,
      Working, TypeOK, HandInv, OneEntryPerTask, Held, Entry, Put, TaskStatus,
      Terminal
<1>12. ASSUME NEW w \in Worker, SaveOutcome(w) PROVE NothingStranded'
  BY <1>12, SaveCases DEF SaveOutcome, memory, places, history, Release, LoopFree,
      IInv, RowInv, HandRow, NothingStranded, Scheduled, StatusInv, WorkerInv,
      Running, Working, TypeOK, HandInv, OneEntryPerTask, Held, Entry, Put,
      TaskStatus, Terminal
<1>13. ASSUME NEW w \in Worker, CancelStalled(w) PROVE NothingStranded'
  BY <1>13 DEF CancelStalled, memory, places, history, LoopFree, IInv, RowInv,
      HandRow, NothingStranded, Scheduled, StatusInv, WorkerInv, Running, Working,
      TypeOK, HandInv, OneEntryPerTask, Held, Entry, Put, TaskStatus, Terminal
<1>14. ASSUME NEW w \in Worker, Unwind(w) PROVE NothingStranded'
  BY <1>14, SaveCases DEF Unwind, memory, places, history, LoopFree, IInv, RowInv,
      HandRow, NothingStranded, Scheduled, StatusInv, WorkerInv, Running, Working,
      TypeOK, HandInv, OneEntryPerTask, Held, Entry, Put, TaskStatus, Terminal
<1>15. ASSUME NEW w \in Worker, FailStalled(w) PROVE NothingStranded'
  BY <1>15, SetStatusEffect, SaveCases DEF FailStalled, places, history, Release,
      LoopFree, ShouldRetry, IInv, RowInv, HandRow, NothingStranded, Scheduled,
      StatusInv, WorkerInv, Running, Working, TypeOK, HandInv, OneEntryPerTask,
      Held, Entry, Put, TaskStatus, Terminal
<1>16. ASSUME NEW w \in Worker, RequeueStalled(w) PROVE NothingStranded'
  <2>1. /\ cur[w] \in Task
        /\ \A u \in Task \ {cur[w]} : obj'[u] = obj[u] /\ row'[u] = row[u]
        /\ cur' = cur \/ faults' > 0
        /\ faults' = faults \/ faults' > 0
        /\ UNCHANGED <<live, queue, pending, delayed, deferred, granted>>
    BY <1>16, HandTyped, SetStatusEffect, ConstantsAssumption DEF RequeueStalled, Release, Save,
        StoreFault, IInv, TypeOK, TaskStatus, places, history
  <2>2. Held(cur[w])
    BY DEF Held
  <2>3. faults' = 0 => cur' = cur /\ faults = 0
    BY <2>1
  <2>4. cur' = cur => \A u \in Task : Scheduled(u) => Scheduled(u)'
    BY <2>1 DEF Scheduled, Held
  <2>5. cur' = cur => Held(cur[w])' /\ Scheduled(cur[w])'
    BY <2>2 DEF Held, Scheduled
  <2>6. cur' = cur => \A u \in Task : Held(u) => Held(u)'
    BY DEF Held
  <2> QED
    BY <2>1, <2>3, <2>4, <2>5, <2>6 DEF NothingStranded, IInv, TypeOK
<1>17. ASSUME NEW w \in Worker, BumpRetry(w) PROVE NothingStranded'
  BY <1>17, BumpEffect, SaveCases DEF BumpRetry, history, Release, IInv, RowInv,
      HandRow, NothingStranded, Scheduled, StatusInv, WorkerInv, Running, Working,
      TypeOK, HandInv, OneEntryPerTask, Held, Entry, Put, TaskStatus, Terminal
<1>18. ASSUME NEW e \in pending, PutEntry(e) PROVE NothingStranded'
  <2> DEFINE f == [task |-> e.task, prio |-> e.prio]
  <2>1. /\ queue' = queue \cup {f} /\ pending' = pending \ {e}
        /\ UNCHANGED <<obj, live, deferred, delayed, cur, granted, faults>>
    BY <1>18 DEF PutEntry, memory, workers, history
  <2>2. f \in queue' /\ f.task = e.task
    BY <2>1
  <2> HIDE DEF f
  <2>3. ASSUME NEW u \in Task, Scheduled(u) PROVE Scheduled(u)'
    <3>1. CASE u = e.task
      BY <2>2, <3>1 DEF Scheduled
    <3>2. CASE u # e.task
      BY <2>1, <2>3, <3>2 DEF Scheduled, Held
    <3> QED
      BY <3>1, <3>2
  <2> QED
    BY <2>1, <2>3 DEF NothingStranded, Held, IInv, TypeOK
<1>19. ASSUME NEW e \in pending, FailSaturated(e) PROVE NothingStranded'
  BY <1>19, SetStatusEffect, SaveCases DEF FailSaturated, workers, history,
      LoopFree, IInv, RowInv, HandRow, NothingStranded, Scheduled, StatusInv,
      WorkerInv, Running, Working, TypeOK, HandInv, OneEntryPerTask, Held, Entry,
      Put, TaskStatus, Terminal
<1>20. ASSUME NEW e \in pending, RejectPut(e) PROVE NothingStranded'
  <2> DEFINE f == [e EXCEPT !.how = "rejected"]
  <2>1. /\ pending' = (pending \ {e}) \cup {f}
        /\ UNCHANGED <<obj, live, queue, deferred, delayed, cur, granted, faults>>
    BY <1>20 DEF RejectPut, memory, workers, history
  <2>2. f \in pending' /\ f.task = e.task
    BY <2>1 DEF IInv, TypeOK, Put
  <2> HIDE DEF f
  <2>3. ASSUME NEW u \in Task, Scheduled(u) PROVE Scheduled(u)'
    <3>1. CASE u = e.task
      BY <2>2, <3>1 DEF Scheduled
    <3>2. CASE u # e.task
      BY <2>1, <2>3, <3>2 DEF Scheduled, Held
    <3> QED
      BY <3>1, <3>2
  <2> QED
    BY <2>1, <2>3 DEF NothingStranded, Held, IInv, TypeOK
<1>21. ASSUME NEW e \in pending, RollBack(e) PROVE NothingStranded'
  BY <1>21, NoRecordTyped DEF RollBack, memory, workers, history, IInv, RowInv,
      HandRow, NothingStranded, Scheduled, StatusInv, WorkerInv, Running, Working,
      TypeOK, HandInv, OneEntryPerTask, Held, Entry, Put, TaskStatus, Terminal
<1>22. ASSUME NEW t \in Task, NEW p \in Prio, SubmitOnLoop(t, p)
      PROVE  NothingStranded'
  <2> DEFINE f == [task |-> t, prio |-> p, how |-> "loop"]
  <2>1. /\ \A u \in Task \ {t} : obj'[u] = obj[u]
        /\ obj'[t].status = "queued"
        /\ live' = live \cup {t} /\ pending' = pending \cup {f}
        /\ granted' = granted \ {t}
        /\ UNCHANGED <<queue, deferred, delayed, cur, faults>>
    BY <1>22, TrackEffect DEF SubmitOnLoop, IInv
  <2>2. f \in pending' /\ f.task = t
    BY <2>1
  <2> HIDE DEF f
  <2>3. Scheduled(t)'
    BY <2>2 DEF Scheduled
  <2>4. ASSUME NEW u \in Task, Scheduled(u) PROVE Scheduled(u)'
    BY <2>1, <2>4 DEF Scheduled, Held
  <2> QED
    BY <2>1, <2>3, <2>4 DEF NothingStranded, Held, IInv, TypeOK
<1>23. ASSUME NEW t \in Task, NEW p \in Prio, SubmitFromThread(t, p)
      PROVE  NothingStranded'
  <2> DEFINE f == [task |-> t, prio |-> p, how |-> "thread"]
  <2>1. /\ \A u \in Task \ {t} : obj'[u] = obj[u]
        /\ obj'[t].status = "queued"
        /\ live' = live \cup {t} /\ pending' = pending \cup {f}
        /\ granted' = granted \ {t}
        /\ UNCHANGED <<queue, deferred, delayed, cur, faults>>
    BY <1>23, TrackEffect DEF SubmitFromThread, IInv
  <2>2. f \in pending' /\ f.task = t
    BY <2>1
  <2> HIDE DEF f
  <2>3. Scheduled(t)'
    BY <2>2 DEF Scheduled
  <2>4. ASSUME NEW u \in Task, Scheduled(u) PROVE Scheduled(u)'
    BY <2>1, <2>4 DEF Scheduled, Held
  <2> QED
    BY <2>1, <2>3, <2>4 DEF NothingStranded, Held, IInv, TypeOK
<1>24. ASSUME NEW t \in Task, EndBackoff(t) PROVE NothingStranded'
  <2> DEFINE f == [task |-> t, prio |-> obj[t].prio, how |-> "loop"]
  <2>1. /\ pending' = pending \cup {f} /\ delayed' = delayed \ {t}
        /\ UNCHANGED <<obj, live, queue, deferred, cur, granted, faults>>
    BY <1>24 DEF EndBackoff, memory, workers, history
  <2>2. f \in pending' /\ f.task = t
    BY <2>1
  <2> HIDE DEF f
  <2>3. ASSUME NEW u \in Task, Scheduled(u) PROVE Scheduled(u)'
    BY <2>1, <2>2, <2>3 DEF Scheduled, Held
  <2> QED
    BY <2>1, <2>3 DEF NothingStranded, Held, IInv, TypeOK
<1>25. ASSUME NEW t \in Task, CancelTask(t) PROVE NothingStranded'
  BY <1>25, SetStatusEffect, UpdateEffect, UpdateFailsCases DEF CancelTask,
      places, workers, history, LoopFree, IInv, RowInv, HandRow, NothingStranded,
      Scheduled, StatusInv, WorkerInv, Running, Working, TypeOK, HandInv,
      OneEntryPerTask, Held, Entry, Put, TaskStatus, Terminal
<1>26. ASSUME NEW t \in Task, RetryTask(t) PROVE NothingStranded'
  BY <1>26, SetStatusEffect, SaveCases DEF RetryTask, places, workers, LoopFree,
      IInv, RowInv, HandRow, NothingStranded, Scheduled, StatusInv, WorkerInv,
      Running, Working, TypeOK, HandInv, OneEntryPerTask, Held, Entry, Put,
      TaskStatus, Terminal
<1>27. ASSUME NEW t \in Task, Evict(t) PROVE NothingStranded'
  BY <1>27 DEF Evict, places, workers, history, LoopFree, Retired, IInv, RowInv,
      HandRow, NothingStranded, Scheduled, StatusInv, WorkerInv, Running, Working,
      TypeOK, HandInv, OneEntryPerTask, Held, Entry, Put, TaskStatus, Terminal
<1>28. ASSUME NEW t \in Task, Prune(t) PROVE NothingStranded'
  BY <1>28, NoRecordTyped DEF Prune, places, workers, history, LoopFree, Retired,
      IInv, RowInv, HandRow, NothingStranded, Scheduled, StatusInv, WorkerInv,
      Running, Working, TypeOK, HandInv, OneEntryPerTask, Held, Entry, Put,
      TaskStatus, Terminal
<1>29. CASE Crash
  BY <1>29, NoRecordTyped DEF Crash, IInv, RowInv, HandRow, NothingStranded,
      Scheduled, StatusInv, WorkerInv, Running, Working, TypeOK, HandInv,
      OneEntryPerTask, Held, Entry, Put, TaskStatus, Terminal
<1>30. CASE Recover
  <2>1. /\ \A t \in Task : obj'[t] = IF t \in Recoverable THEN row[t] ELSE NoRecord
        /\ \A t \in Task : row[t].status # "running" => row'[t] = row[t]
        /\ live' = Recoverable
        /\ queue' = {[task |-> t, prio |-> row[t].prio] : t \in Recoverable}
        /\ pending' = {} /\ deferred' = {}
    BY <1>30 DEF Recover, FailInterrupted, IInv, DownInv
  <2>2. \A t \in Recoverable : t \in Task /\ row[t].status = "queued"
    BY DEF Recoverable
  <2>3. ASSUME NEW u \in Recoverable PROVE Scheduled(u)'
    <3>1. [task |-> u, prio |-> row[u].prio] \in queue'
      BY <2>1
    <3> QED
      BY <3>1 DEF Scheduled
  <2> QED
    BY <2>1, <2>2, <2>3 DEF NothingStranded
<1>31. CASE RecoverFails
  BY <1>31, InterruptedEffect DEF RecoverFails, memory, places, workers, history,
      Recoverable, IInv, RowInv, HandRow, NothingStranded, Scheduled, StatusInv,
      WorkerInv, Running, Working, TypeOK, HandInv, OneEntryPerTask, Held, Entry,
      Put, TaskStatus, Terminal
<1>32. CASE UNCHANGED vars
  BY <1>32 DEF vars, memory, places, workers, history, IInv, RowInv, HandRow,
      NothingStranded, Scheduled, StatusInv, WorkerInv, Running, Working, TypeOK,
      HandInv, OneEntryPerTask, Held, Entry, Put, TaskStatus, Terminal
<1>33. ASSUME NEW w \in Worker, NEW e \in queue, Take(w, e) PROVE NothingStranded'
  BY <1>33, TakeMoves, MovedKeeps
<1>34. ASSUME NEW w \in Worker, EndDrainWaiting(w) PROVE NothingStranded'
  BY <1>34, WaitMoves, MovedKeeps
<1>35. ASSUME NEW w \in Worker, RequeueWaiting(w) PROVE NothingStranded'
  <2>1. row[cur[w]].status = "queued" /\ cur[w] \in Task /\ UpdateFails(cur[w])
    BY <1>35, WaitingEffect DEF RequeueWaiting, IInv, RowInv, HandRow
  <2>2. faults' > 0
    BY <2>1, UpdateFailsCases DEF IInv
  <2> QED
    BY <2>2 DEF NothingStranded
<1>36. ASSUME NEW w \in Worker, PutBack(w) PROVE NothingStranded'
  BY <1>36, BackMoves, MovedKeeps
<1> QED
  BY <1>1, <1>2, <1>3, <1>4, <1>5, <1>6, <1>7, <1>8, <1>9, <1>10, <1>11, <1>12,
      <1>13, <1>14, <1>15, <1>16, <1>17, <1>18, <1>19, <1>20, <1>21, <1>22, <1>23,
      <1>24, <1>25, <1>26, <1>27, <1>28, <1>29, <1>30, <1>31, <1>32, <1>33, <1>34,
      <1>35, <1>36, Zenon DEF Next, Drain, Execute, HandleStall, RunPut, Submit

\* Every step hands the loop to one worker at most.
LEMMA LoopStep ==
    ASSUME TypeOK, HandInv, LoopInv, [Next]_vars
    PROVE  LoopInv'
<1>1. ASSUME NEW w \in Worker, NEW e \in Entry, SkipStale(w, e)
      PROVE  LoopInv'
  BY <1>1 DEF SkipStale, memory, history, CanTake, Obtain, Dropped, LoopInv, TypeOK,
      HoldsLoop, Running, LoopFree
<1>2. ASSUME NEW w \in Worker, NEW e \in Entry, FailDependent(w, e)
      PROVE  LoopInv'
  BY <1>2 DEF FailDependent, memory, history, CanTake, Obtain, Dropped, LoopInv, TypeOK,
      HoldsLoop, Running, LoopFree
<1>3. ASSUME NEW w \in Worker, NEW e \in Entry, Defer(w, e)
      PROVE  LoopInv'
  BY <1>3 DEF Defer, memory, history, CanTake, Obtain, Dropped, LoopInv, TypeOK,
      HoldsLoop, Running, LoopFree
<1>4. ASSUME NEW w \in Worker, NEW e \in Entry, Claim(w, e)
      PROVE  LoopInv'
  BY <1>4 DEF Claim, memory, history, CanTake, Obtain, Dropped, LoopInv, TypeOK,
      HoldsLoop, Running, LoopFree
<1>5. ASSUME NEW w \in Worker, EndDrain(w) PROVE LoopInv'
  BY <1>5 DEF EndDrain, memory, history, LoopInv, TypeOK, HoldsLoop, Running,
      LoopFree
<1>6. ASSUME NEW w \in Worker, MarkRunning(w) PROVE LoopInv'
  BY <1>6 DEF MarkRunning, memory, places, history, LoopInv, TypeOK, HoldsLoop,
      Running, LoopFree
<1>7. ASSUME NEW w \in Worker, RequeueUnmarked(w) PROVE LoopInv'
  BY <1>7 DEF RequeueUnmarked, history, Release, EntryOf, LoopInv, TypeOK,
      HoldsLoop, Running, LoopFree
<1>8. ASSUME NEW w \in Worker, StartExecution(w) PROVE LoopInv'
  BY <1>8 DEF StartExecution, places, history, LoopFree, LoopInv, TypeOK,
      HoldsLoop, Running
<1>9. ASSUME NEW w \in Worker, AbandonExecution(w) PROVE LoopInv'
  BY <1>9 DEF AbandonExecution, places, history, Release, LoopFree, LoopInv,
      TypeOK, HoldsLoop, Running
<1>10. ASSUME NEW w \in Worker, MarkSideEffects(w) PROVE LoopInv'
  BY <1>10, MarkEffect DEF MarkSideEffects, places, workers, LoopFree, LoopInv,
      TypeOK, HoldsLoop, Running
<1>11. ASSUME NEW w \in Worker, NEW o \in {"completed", "failed"},
             FinishExecution(w, o)
      PROVE  LoopInv'
  BY <1>11 DEF FinishExecution, places, history, LoopFree, LoopInv, TypeOK,
      HoldsLoop, Running
<1>12. ASSUME NEW w \in Worker, SaveOutcome(w) PROVE LoopInv'
  BY <1>12 DEF SaveOutcome, memory, places, history, Release, LoopFree, LoopInv,
      TypeOK, HoldsLoop, Running
<1>13. ASSUME NEW w \in Worker, CancelStalled(w) PROVE LoopInv'
  BY <1>13 DEF CancelStalled, memory, places, history, LoopFree, LoopInv, TypeOK,
      HoldsLoop, Running
<1>14. ASSUME NEW w \in Worker, Unwind(w) PROVE LoopInv'
  BY <1>14 DEF Unwind, memory, places, history, LoopFree, LoopInv, TypeOK,
      HoldsLoop, Running
<1>15. ASSUME NEW w \in Worker, FailStalled(w) PROVE LoopInv'
  BY <1>15 DEF FailStalled, places, history, Release, LoopFree, ShouldRetry,
      LoopInv, TypeOK, HoldsLoop, Running
<1>16. ASSUME NEW w \in Worker, RequeueStalled(w) PROVE LoopInv'
  BY <1>16 DEF RequeueStalled, places, history, Release, LoopInv, TypeOK,
      HoldsLoop, Running, LoopFree
<1>17. ASSUME NEW w \in Worker, BumpRetry(w) PROVE LoopInv'
  BY <1>17, BumpEffect DEF BumpRetry, history, Release, LoopInv, TypeOK,
      HoldsLoop, Running, LoopFree
<1>18. ASSUME NEW e \in pending, PutEntry(e) PROVE LoopInv'
  BY <1>18 DEF PutEntry, memory, workers, history, LoopFree, LoopInv, TypeOK,
      HoldsLoop, Running
<1>19. ASSUME NEW e \in pending, FailSaturated(e) PROVE LoopInv'
  BY <1>19 DEF FailSaturated, workers, history, LoopFree, LoopInv, TypeOK,
      HoldsLoop, Running
<1>20. ASSUME NEW e \in pending, RejectPut(e) PROVE LoopInv'
  BY <1>20 DEF RejectPut, memory, workers, history, LoopFree, LoopInv, TypeOK,
      HoldsLoop, Running
<1>21. ASSUME NEW e \in pending, RollBack(e) PROVE LoopInv'
  BY <1>21 DEF RollBack, memory, workers, history, LoopInv, TypeOK, HoldsLoop,
      Running, LoopFree
<1>22. ASSUME NEW t \in Task, NEW p \in Prio, SubmitOnLoop(t, p) PROVE LoopInv'
  BY <1>22 DEF SubmitOnLoop, Track, LoopInv, workers
<1>23. ASSUME NEW t \in Task, NEW p \in Prio, SubmitFromThread(t, p)
      PROVE  LoopInv'
  BY <1>23 DEF SubmitFromThread, Track, LoopInv, workers
<1>24. ASSUME NEW t \in Task, EndBackoff(t) PROVE LoopInv'
  BY <1>24 DEF EndBackoff, memory, workers, history, LoopFree, LoopInv, TypeOK,
      HoldsLoop, Running
<1>25. ASSUME NEW t \in Task, CancelTask(t) PROVE LoopInv'
  BY <1>25 DEF CancelTask, places, workers, history, LoopFree, LoopInv, TypeOK,
      HoldsLoop, Running
<1>26. ASSUME NEW t \in Task, RetryTask(t) PROVE LoopInv'
  BY <1>26 DEF RetryTask, places, workers, LoopFree, LoopInv, TypeOK, HoldsLoop,
      Running
<1>27. ASSUME NEW t \in Task, Evict(t) PROVE LoopInv'
  BY <1>27 DEF Evict, places, workers, history, LoopFree, Retired, LoopInv,
      TypeOK, HoldsLoop, Running
<1>28. ASSUME NEW t \in Task, Prune(t) PROVE LoopInv'
  BY <1>28 DEF Prune, places, workers, history, LoopFree, Retired, LoopInv,
      TypeOK, HoldsLoop, Running
<1>29. CASE Crash
  BY <1>29 DEF Crash, LoopInv, TypeOK, HoldsLoop, Running, LoopFree
<1>30. CASE Recover
  BY <1>30 DEF Recover, workers, history, Recoverable, LoopInv, TypeOK, HoldsLoop,
      Running, LoopFree
<1>31. CASE RecoverFails
  BY <1>31 DEF RecoverFails, memory, places, workers, history, Recoverable,
      LoopInv, TypeOK, HoldsLoop, Running, LoopFree
<1>32. CASE UNCHANGED vars
  BY <1>32 DEF vars, memory, places, workers, history, LoopInv, TypeOK, HoldsLoop,
      Running, LoopFree
<1>33. ASSUME NEW w \in Worker, NEW e \in queue, Take(w, e) PROVE LoopInv'
  BY <1>33 DEF Take, LoopInv, TypeOK, HoldsLoop, LoopFree
<1>34. ASSUME NEW w \in Worker, EndDrainWaiting(w) PROVE LoopInv'
  BY <1>34 DEF EndDrainWaiting, LoopInv, TypeOK, HoldsLoop
<1>35. ASSUME NEW w \in Worker, RequeueWaiting(w) PROVE LoopInv'
  BY <1>35 DEF RequeueWaiting, LoopInv, TypeOK, HoldsLoop
<1>36. ASSUME NEW w \in Worker, PutBack(w) PROVE LoopInv'
  BY <1>36 DEF PutBack, LoopInv, TypeOK, HoldsLoop, LoopFree
<1> QED
  BY <1>1, <1>2, <1>3, <1>4, <1>5, <1>6, <1>7, <1>8, <1>9, <1>10, <1>11, <1>12,
      <1>13, <1>14, <1>15, <1>16, <1>17, <1>18, <1>19, <1>20, <1>21, <1>22, <1>23,
      <1>24, <1>25, <1>26, <1>27, <1>28, <1>29, <1>30, <1>31, <1>32, <1>33, <1>34,
      <1>35, <1>36, Zenon DEF Next, Drain, Execute, HandleStall, RunPut, Submit

\* Every step keeps the priority of an entry that of its task.
LEMMA PrioStep ==
    ASSUME IInv, PrioInv, [Next]_vars
    PROVE  PrioInv'
<1>1. ASSUME NEW w \in Worker, NEW e \in Entry, SkipStale(w, e)
      PROVE  PrioInv'
  BY <1>1, SkipMoves, MovedKeeps
<1>2. ASSUME NEW w \in Worker, NEW e \in Entry, FailDependent(w, e)
      PROVE  PrioInv'
  BY <1>2, FailEffect DEF PrioInv
<1>3. ASSUME NEW w \in Worker, NEW e \in Entry, Defer(w, e)
      PROVE  PrioInv'
  BY <1>3, DeferMoves, MovedKeeps
<1>4. ASSUME NEW w \in Worker, NEW e \in Entry, Claim(w, e)
      PROVE  PrioInv'
  BY <1>4, ClaimEffect DEF PrioInv
<1>5. ASSUME NEW w \in Worker, EndDrain(w) PROVE PrioInv'
  BY <1>5 DEF EndDrain, memory, history, IInv, PrioInv, Routed, TypeOK, HandInv,
      OneEntryPerTask, Held, Entry, Put, TaskStatus, Terminal
<1>6. ASSUME NEW w \in Worker, MarkRunning(w) PROVE PrioInv'
  BY <1>6 DEF MarkRunning, memory, places, history, IInv, PrioInv, Routed, TypeOK,
      HandInv, OneEntryPerTask, Held, Entry, Put, TaskStatus, Terminal
<1>7. ASSUME NEW w \in Worker, RequeueUnmarked(w) PROVE PrioInv'
  BY <1>7, SetStatusEffect DEF RequeueUnmarked, history, Release, EntryOf, IInv,
      PrioInv, Routed, TypeOK, HandInv, OneEntryPerTask, Held, Entry, Put,
      TaskStatus, Terminal
<1>8. ASSUME NEW w \in Worker, StartExecution(w) PROVE PrioInv'
  BY <1>8, SetStatusEffect DEF StartExecution, places, history, LoopFree, IInv,
      PrioInv, Routed, TypeOK, HandInv, OneEntryPerTask, Held, Entry, Put,
      TaskStatus, Terminal
<1>9. ASSUME NEW w \in Worker, AbandonExecution(w) PROVE PrioInv'
  BY <1>9, SetStatusEffect DEF AbandonExecution, places, history, Release,
      LoopFree, IInv, PrioInv, Routed, TypeOK, HandInv, OneEntryPerTask, Held,
      Entry, Put, TaskStatus, Terminal
<1>10. ASSUME NEW w \in Worker, MarkSideEffects(w) PROVE PrioInv'
  BY <1>10, MarkEffect DEF MarkSideEffects, places, workers, LoopFree, IInv,
      PrioInv, Routed, TypeOK, HandInv, OneEntryPerTask, Held, Entry, Put,
      TaskStatus, Terminal
<1>11. ASSUME NEW w \in Worker, NEW o \in {"completed", "failed"},
             FinishExecution(w, o)
      PROVE  PrioInv'
  BY <1>11, SetStatusEffect DEF FinishExecution, places, history, LoopFree, IInv,
      PrioInv, Routed, TypeOK, HandInv, OneEntryPerTask, Held, Entry, Put,
      TaskStatus, Terminal
<1>12. ASSUME NEW w \in Worker, SaveOutcome(w) PROVE PrioInv'
  BY <1>12 DEF SaveOutcome, memory, places, history, Release, LoopFree, IInv,
      PrioInv, Routed, TypeOK, HandInv, OneEntryPerTask, Held, Entry, Put,
      TaskStatus, Terminal
<1>13. ASSUME NEW w \in Worker, CancelStalled(w) PROVE PrioInv'
  BY <1>13 DEF CancelStalled, memory, places, history, LoopFree, IInv, PrioInv,
      Routed, TypeOK, HandInv, OneEntryPerTask, Held, Entry, Put, TaskStatus,
      Terminal
<1>14. ASSUME NEW w \in Worker, Unwind(w) PROVE PrioInv'
  BY <1>14 DEF Unwind, memory, places, history, LoopFree, IInv, PrioInv, Routed,
      TypeOK, HandInv, OneEntryPerTask, Held, Entry, Put, TaskStatus, Terminal
<1>15. ASSUME NEW w \in Worker, FailStalled(w) PROVE PrioInv'
  BY <1>15, SetStatusEffect DEF FailStalled, places, history, Release, LoopFree,
      ShouldRetry, IInv, PrioInv, Routed, TypeOK, HandInv, OneEntryPerTask, Held,
      Entry, Put, TaskStatus, Terminal
<1>16. ASSUME NEW w \in Worker, RequeueStalled(w) PROVE PrioInv'
  BY <1>16, SetStatusEffect DEF RequeueStalled, places, history, Release, IInv,
      PrioInv, Routed, TypeOK, HandInv, OneEntryPerTask, Held, Entry, Put,
      TaskStatus, Terminal
<1>17. ASSUME NEW w \in Worker, BumpRetry(w) PROVE PrioInv'
  BY <1>17, BumpEffect DEF BumpRetry, history, Release, IInv, PrioInv, Routed,
      TypeOK, HandInv, OneEntryPerTask, Held, Entry, Put, TaskStatus, Terminal
<1>18. ASSUME NEW e \in pending, PutEntry(e) PROVE PrioInv'
  BY <1>18 DEF PutEntry, memory, workers, history, LoopFree, IInv, PrioInv,
      Routed, TypeOK, HandInv, OneEntryPerTask, Held, Entry, Put, TaskStatus,
      Terminal
<1>19. ASSUME NEW e \in pending, FailSaturated(e) PROVE PrioInv'
  BY <1>19, SetStatusEffect DEF FailSaturated, workers, history, LoopFree, IInv,
      PrioInv, Routed, TypeOK, HandInv, OneEntryPerTask, Held, Entry, Put,
      TaskStatus, Terminal
<1>20. ASSUME NEW e \in pending, RejectPut(e) PROVE PrioInv'
  BY <1>20 DEF RejectPut, memory, workers, history, LoopFree, IInv, PrioInv,
      Routed, TypeOK, HandInv, OneEntryPerTask, Held, Entry, Put, TaskStatus,
      Terminal
<1>21. ASSUME NEW e \in pending, RollBack(e) PROVE PrioInv'
  BY <1>21, NoRecordTyped DEF RollBack, memory, workers, history, IInv, PrioInv,
      Routed, TypeOK, HandInv, OneEntryPerTask, Held, Entry, Put, TaskStatus,
      Terminal
<1>22. ASSUME NEW t \in Task, NEW p \in Prio, SubmitOnLoop(t, p) PROVE PrioInv'
  <2>1. /\ \A u \in Task \ {t} : obj'[u] = obj[u]
        /\ obj[t].status = "none" /\ obj'[t].prio = p
        /\ pending' = pending \cup {[task |-> t, prio |-> p, how |-> "loop"]}
        /\ UNCHANGED <<queue, deferred>>
    BY <1>22, TrackEffect DEF SubmitOnLoop, IInv
  <2>2. \A f \in Routed : f.task \in Task /\ f.task # t
    BY <2>1 DEF Routed, IInv, TypeOK, TrackedInv, Known, Entry, Put
  <2> QED
    BY <2>1, <2>2 DEF PrioInv, Routed
<1>23. ASSUME NEW t \in Task, NEW p \in Prio, SubmitFromThread(t, p)
      PROVE  PrioInv'
  <2>1. /\ \A u \in Task \ {t} : obj'[u] = obj[u]
        /\ obj[t].status = "none" /\ obj'[t].prio = p
        /\ pending' = pending \cup {[task |-> t, prio |-> p, how |-> "thread"]}
        /\ UNCHANGED <<queue, deferred>>
    BY <1>23, TrackEffect DEF SubmitFromThread, IInv
  <2>2. \A f \in Routed : f.task \in Task /\ f.task # t
    BY <2>1 DEF Routed, IInv, TypeOK, TrackedInv, Known, Entry, Put
  <2> QED
    BY <2>1, <2>2 DEF PrioInv, Routed
<1>24. ASSUME NEW t \in Task, EndBackoff(t) PROVE PrioInv'
  BY <1>24 DEF EndBackoff, memory, workers, history, LoopFree, IInv, PrioInv,
      Routed, TypeOK, HandInv, OneEntryPerTask, Held, Entry, Put, TaskStatus,
      Terminal
<1>25. ASSUME NEW t \in Task, CancelTask(t) PROVE PrioInv'
  BY <1>25, SetStatusEffect DEF CancelTask, places, workers, history, LoopFree,
      IInv, PrioInv, Routed, TypeOK, HandInv, OneEntryPerTask, Held, Entry, Put,
      TaskStatus, Terminal
<1>26. ASSUME NEW t \in Task, RetryTask(t) PROVE PrioInv'
  BY <1>26, SetStatusEffect DEF RetryTask, places, workers, LoopFree, IInv,
      PrioInv, Routed, TypeOK, HandInv, OneEntryPerTask, Held, Entry, Put,
      TaskStatus, Terminal
<1>27. ASSUME NEW t \in Task, Evict(t) PROVE PrioInv'
  BY <1>27 DEF Evict, places, workers, history, LoopFree, Retired, IInv, PrioInv,
      Routed, TypeOK, HandInv, OneEntryPerTask, Held, Entry, Put, TaskStatus,
      Terminal
<1>28. ASSUME NEW t \in Task, Prune(t) PROVE PrioInv'
  BY <1>28, NoRecordTyped DEF Prune, places, workers, history, LoopFree, Retired,
      IInv, PrioInv, Routed, TypeOK, HandInv, OneEntryPerTask, Held, Entry, Put,
      TaskStatus, Terminal
<1>29. CASE Crash
  BY <1>29, NoRecordTyped DEF Crash, IInv, PrioInv, Routed, TypeOK, HandInv,
      OneEntryPerTask, Held, Entry, Put, TaskStatus, Terminal
<1>30. CASE Recover
  <2>1. /\ \A t \in Recoverable : obj'[t] = row[t]
        /\ queue' = {[task |-> t, prio |-> row[t].prio] : t \in Recoverable}
        /\ pending' = {} /\ deferred' = {}
    BY <1>30 DEF Recover, Recoverable, IInv, DownInv
  <2> QED
    BY <2>1 DEF PrioInv, Routed
<1>31. CASE RecoverFails
  BY <1>31 DEF RecoverFails, memory, places, workers, history, Recoverable, IInv,
      PrioInv, Routed, TypeOK, HandInv, OneEntryPerTask, Held, Entry, Put,
      TaskStatus, Terminal
<1>32. CASE UNCHANGED vars
  BY <1>32 DEF vars, memory, places, workers, history, IInv, PrioInv, Routed,
      TypeOK, HandInv, OneEntryPerTask, Held, Entry, Put, TaskStatus, Terminal
<1>33. ASSUME NEW w \in Worker, NEW e \in queue, Take(w, e) PROVE PrioInv'
  BY <1>33, TakeMoves, MovedKeeps
<1>34. ASSUME NEW w \in Worker, EndDrainWaiting(w) PROVE PrioInv'
  BY <1>34, WaitMoves, MovedKeeps
<1>35. ASSUME NEW w \in Worker, RequeueWaiting(w) PROVE PrioInv'
  <2>1. \A f \in Routed' : f \in Routed \/ f = [task |-> cur[w], prio |-> obj[cur[w]].prio, how |-> w]
    BY <1>35, WaitingEffect DEF Routed, IInv
  <2>2. \A f \in Routed : f.task \in Task
    BY DEF Routed, IInv, TypeOK, Entry, Put
  <2> QED
    BY <1>35, <2>1, <2>2, WaitingEffect DEF PrioInv, IInv
<1>36. ASSUME NEW w \in Worker, PutBack(w) PROVE PrioInv'
  BY <1>36, BackMoves, MovedKeeps
<1> QED
  BY <1>1, <1>2, <1>3, <1>4, <1>5, <1>6, <1>7, <1>8, <1>9, <1>10, <1>11, <1>12,
      <1>13, <1>14, <1>15, <1>16, <1>17, <1>18, <1>19, <1>20, <1>21, <1>22, <1>23,
      <1>24, <1>25, <1>26, <1>27, <1>28, <1>29, <1>30, <1>31, <1>32, <1>33, <1>34,
      <1>35, <1>36, Zenon DEF Next, Drain, Execute, HandleStall, RunPut, Submit

\* Only a claim puts a task in a worker's hand.
LEMMA HandMoves ==
    ASSUME TypeOK, HandInv, NEW v \in Worker, [Next]_vars
    PROVE  HandMove(v)
<1>1. ASSUME NEW w \in Worker, NEW e \in Entry, SkipStale(w, e)
      PROVE  HandMove(v)
  BY <1>1 DEF SkipStale, memory, CanTake, Obtain, Dropped, history, TypeOK, HoldsLoop, Running,
      Working, HandMove, HandInv, AtQueue
<1>2. ASSUME NEW w \in Worker, NEW e \in Entry, FailDependent(w, e)
      PROVE  HandMove(v)
  BY <1>2 DEF FailDependent, CanTake, Obtain, Dropped, history, TypeOK, HoldsLoop, Running,
      Working, HandMove, HandInv, AtQueue
<1>3. ASSUME NEW w \in Worker, NEW e \in Entry, Defer(w, e)
      PROVE  HandMove(v)
  BY <1>3 DEF Defer, memory, CanTake, Obtain, Dropped, history, TypeOK, HoldsLoop, Running,
      Working, HandMove, HandInv, AtQueue
<1>4. ASSUME NEW w \in Worker, NEW e \in Entry, Claim(w, e)
      PROVE  HandMove(v)
  BY <1>4 DEF Claim, CanTake, Obtain, Dropped, history, TypeOK, HoldsLoop, Running,
      Working, HandMove, HandInv, AtQueue
<1>5. ASSUME NEW w \in Worker, EndDrain(w) PROVE HandMove(v)
  BY <1>5 DEF EndDrain, memory, history, TypeOK, HoldsLoop, Running, Working,
      HandMove, HandInv, AtQueue
<1>6. ASSUME NEW w \in Worker, MarkRunning(w) PROVE HandMove(v)
  BY <1>6 DEF MarkRunning, memory, places, history, TypeOK, HoldsLoop, Running,
      Working, HandMove, HandInv, AtQueue
<1>7. ASSUME NEW w \in Worker, RequeueUnmarked(w) PROVE HandMove(v)
  BY <1>7 DEF RequeueUnmarked, history, Release, EntryOf, TypeOK, HoldsLoop,
      Running, Working, HandMove, HandInv, AtQueue
<1>8. ASSUME NEW w \in Worker, StartExecution(w) PROVE HandMove(v)
  BY <1>8 DEF StartExecution, places, history, LoopFree, TypeOK, HoldsLoop,
      Running, Working, HandMove, HandInv, AtQueue
<1>9. ASSUME NEW w \in Worker, AbandonExecution(w) PROVE HandMove(v)
  BY <1>9 DEF AbandonExecution, places, history, Release, LoopFree, TypeOK,
      HoldsLoop, Running, Working, HandMove, HandInv, AtQueue
<1>10. ASSUME NEW w \in Worker, MarkSideEffects(w) PROVE HandMove(v)
  BY <1>10, MarkEffect DEF MarkSideEffects, places, workers, LoopFree, TypeOK,
      HoldsLoop, Running, Working, HandMove, HandInv, AtQueue
<1>11. ASSUME NEW w \in Worker, NEW o \in {"completed", "failed"},
             FinishExecution(w, o)
      PROVE  HandMove(v)
  BY <1>11 DEF FinishExecution, places, history, LoopFree, TypeOK, HoldsLoop,
      Running, Working, HandMove, HandInv, AtQueue
<1>12. ASSUME NEW w \in Worker, SaveOutcome(w) PROVE HandMove(v)
  BY <1>12 DEF SaveOutcome, memory, places, history, Release, LoopFree, TypeOK,
      HoldsLoop, Running, Working, HandMove, HandInv, AtQueue
<1>13. ASSUME NEW w \in Worker, CancelStalled(w) PROVE HandMove(v)
  BY <1>13 DEF CancelStalled, memory, places, history, LoopFree, TypeOK,
      HoldsLoop, Running, Working, HandMove, HandInv, AtQueue
<1>14. ASSUME NEW w \in Worker, Unwind(w) PROVE HandMove(v)
  BY <1>14 DEF Unwind, memory, places, history, LoopFree, TypeOK, HoldsLoop,
      Running, Working, HandMove, HandInv, AtQueue
<1>15. ASSUME NEW w \in Worker, FailStalled(w) PROVE HandMove(v)
  BY <1>15 DEF FailStalled, places, history, Release, LoopFree, ShouldRetry,
      TypeOK, HoldsLoop, Running, Working, HandMove, HandInv, AtQueue
<1>16. ASSUME NEW w \in Worker, RequeueStalled(w) PROVE HandMove(v)
  BY <1>16 DEF RequeueStalled, places, history, Release, TypeOK, HoldsLoop,
      Running, Working, HandMove, HandInv, AtQueue
<1>17. ASSUME NEW w \in Worker, BumpRetry(w) PROVE HandMove(v)
  BY <1>17, BumpEffect DEF BumpRetry, history, Release, TypeOK, HoldsLoop,
      Running, Working, HandMove, HandInv, AtQueue
<1>18. ASSUME NEW e \in pending, PutEntry(e) PROVE HandMove(v)
  BY <1>18 DEF PutEntry, memory, workers, history, LoopFree, TypeOK, HoldsLoop,
      Running, Working, HandMove, HandInv, AtQueue
<1>19. ASSUME NEW e \in pending, FailSaturated(e) PROVE HandMove(v)
  BY <1>19 DEF FailSaturated, workers, history, LoopFree, TypeOK, HoldsLoop,
      Running, Working, HandMove, HandInv, AtQueue
<1>20. ASSUME NEW e \in pending, RejectPut(e) PROVE HandMove(v)
  BY <1>20 DEF RejectPut, memory, workers, history, LoopFree, TypeOK, HoldsLoop,
      Running, Working, HandMove, HandInv, AtQueue
<1>21. ASSUME NEW e \in pending, RollBack(e) PROVE HandMove(v)
  BY <1>21 DEF RollBack, memory, workers, history, TypeOK, HoldsLoop, Running,
      Working, HandMove, HandInv, AtQueue
<1>22. ASSUME NEW t \in Task, NEW p \in Prio, SubmitOnLoop(t, p)
      PROVE  HandMove(v)
  BY <1>22 DEF SubmitOnLoop, Track, HandMove, workers
<1>23. ASSUME NEW t \in Task, NEW p \in Prio, SubmitFromThread(t, p)
      PROVE  HandMove(v)
  BY <1>23 DEF SubmitFromThread, Track, HandMove, workers
<1>24. ASSUME NEW t \in Task, EndBackoff(t) PROVE HandMove(v)
  BY <1>24 DEF EndBackoff, memory, workers, history, LoopFree, TypeOK, HoldsLoop,
      Running, Working, HandMove, HandInv, AtQueue
<1>25. ASSUME NEW t \in Task, CancelTask(t) PROVE HandMove(v)
  BY <1>25 DEF CancelTask, places, workers, history, LoopFree, TypeOK, HoldsLoop,
      Running, Working, HandMove, HandInv, AtQueue
<1>26. ASSUME NEW t \in Task, RetryTask(t) PROVE HandMove(v)
  BY <1>26 DEF RetryTask, places, workers, LoopFree, TypeOK, HoldsLoop, Running,
      Working, HandMove, HandInv, AtQueue
<1>27. ASSUME NEW t \in Task, Evict(t) PROVE HandMove(v)
  BY <1>27 DEF Evict, places, workers, history, LoopFree, Retired, TypeOK,
      HoldsLoop, Running, Working, HandMove, HandInv, AtQueue
<1>28. ASSUME NEW t \in Task, Prune(t) PROVE HandMove(v)
  BY <1>28 DEF Prune, places, workers, history, LoopFree, Retired, TypeOK,
      HoldsLoop, Running, Working, HandMove, HandInv, AtQueue
<1>29. CASE Crash
  BY <1>29 DEF Crash, TypeOK, HoldsLoop, Running, Working, HandMove, HandInv, AtQueue
<1>30. CASE Recover
  BY <1>30 DEF Recover, workers, history, Recoverable, TypeOK, HoldsLoop, Running,
      Working, HandMove, HandInv, AtQueue
<1>31. CASE RecoverFails
  BY <1>31 DEF RecoverFails, memory, places, workers, history, Recoverable,
      TypeOK, HoldsLoop, Running, Working, HandMove, HandInv, AtQueue
<1>32. CASE UNCHANGED vars
  BY <1>32 DEF vars, memory, places, workers, history, TypeOK, HoldsLoop, Running,
      Working, HandMove, HandInv, AtQueue
<1>33. ASSUME NEW w \in Worker, NEW e \in queue, Take(w, e) PROVE HandMove(v)
  BY <1>33 DEF Take, TypeOK, Working, Running, HandMove
<1>34. ASSUME NEW w \in Worker, EndDrainWaiting(w) PROVE HandMove(v)
  BY <1>34 DEF EndDrainWaiting, TypeOK, Working, Running, HandMove
<1>35. ASSUME NEW w \in Worker, RequeueWaiting(w) PROVE HandMove(v)
  BY <1>35, ConstantsAssumption DEF RequeueWaiting, TypeOK, HandMove, AtQueue
<1>36. ASSUME NEW w \in Worker, PutBack(w) PROVE HandMove(v)
  BY <1>36 DEF PutBack, TypeOK, Working, Running, HandMove
<1> QED
  BY <1>1, <1>2, <1>3, <1>4, <1>5, <1>6, <1>7, <1>8, <1>9, <1>10, <1>11, <1>12,
      <1>13, <1>14, <1>15, <1>16, <1>17, <1>18, <1>19, <1>20, <1>21, <1>22, <1>23,
      <1>24, <1>25, <1>26, <1>27, <1>28, <1>29, <1>30, <1>31, <1>32, <1>33, <1>34,
      <1>35, <1>36, Zenon DEF Next, Drain, Execute, HandleStall, RunPut, Submit

\* No step takes a completed task out of its state.
LEMMA CompletedStep ==
    ASSUME IInv, StatusInv, RowInv, [Next]_vars
    PROVE  Settled
<1>1. ASSUME NEW w \in Worker, NEW e \in Entry, SkipStale(w, e)
      PROVE  Settled
  BY <1>1, SkipMoves, MovedKeeps
<1>2. ASSUME NEW w \in Worker, NEW e \in Entry, FailDependent(w, e)
      PROVE  Settled
  <2>1. /\ row[e.task].status = "queued" /\ row'[e.task].status \in {"queued", "failed"}
        /\ \A u \in Task \ {e.task} : row'[u] = row[u]
        /\ faults \in Nat /\ faults' \in {faults, faults + 1}
    BY <1>2, FailEffect, SaveCases DEF IInv, RowInv
  <2> QED
    BY <1>2, <2>1, FailEffect DEF Settled
<1>3. ASSUME NEW w \in Worker, NEW e \in Entry, Defer(w, e)
      PROVE  Settled
  BY <1>3, DeferMoves, MovedKeeps
<1>4. ASSUME NEW w \in Worker, NEW e \in Entry, Claim(w, e)
      PROVE  Settled
  BY <1>4, ClaimEffect DEF Settled
<1>5. ASSUME NEW w \in Worker, EndDrain(w) PROVE Settled
  BY <1>5 DEF EndDrain, memory, history, IInv, Settled, StatusInv, WorkerInv,
      RowInv, HandRow, Routed, Running, Working, TypeOK, HandInv, HoldsLoop,
      OneEntryPerTask, Entry, Put, TaskStatus, Terminal
<1>6. ASSUME NEW w \in Worker, MarkRunning(w) PROVE Settled
  BY <1>6, UpdateEffect DEF MarkRunning, memory, places, history, IInv, Settled,
      StatusInv, WorkerInv, RowInv, HandRow, Routed, Running, Working, TypeOK,
      HandInv, HoldsLoop, OneEntryPerTask, Entry, Put, TaskStatus, Terminal
<1>7. ASSUME NEW w \in Worker, RequeueUnmarked(w) PROVE Settled
  BY <1>7, SetStatusEffect, UpdateFailsCases DEF RequeueUnmarked, history,
      Release, EntryOf, IInv, Settled, StatusInv, WorkerInv, RowInv, HandRow,
      Routed, Running, Working, TypeOK, HandInv, HoldsLoop, OneEntryPerTask,
      Entry, Put, TaskStatus, Terminal
<1>8. ASSUME NEW w \in Worker, StartExecution(w) PROVE Settled
  BY <1>8, SetStatusEffect, UpdateEffect DEF StartExecution, places, history,
      LoopFree, IInv, Settled, StatusInv, WorkerInv, RowInv, HandRow, Routed,
      Running, Working, TypeOK, HandInv, HoldsLoop, OneEntryPerTask, Entry, Put,
      TaskStatus, Terminal
<1>9. ASSUME NEW w \in Worker, AbandonExecution(w) PROVE Settled
  BY <1>9, SetStatusEffect, UpdateFailsCases DEF AbandonExecution, places,
      history, Release, LoopFree, IInv, Settled, StatusInv, WorkerInv, RowInv,
      HandRow, Routed, Running, Working, TypeOK, HandInv, HoldsLoop,
      OneEntryPerTask, Entry, Put, TaskStatus, Terminal
<1>10. ASSUME NEW w \in Worker, MarkSideEffects(w) PROVE Settled
  BY <1>10, MarkEffect, SaveCases DEF MarkSideEffects, places, workers, LoopFree,
      IInv, Settled, StatusInv, WorkerInv, RowInv, HandRow, Routed, Running,
      Working, TypeOK, HandInv, HoldsLoop, OneEntryPerTask, Entry, Put,
      TaskStatus, Terminal
<1>11. ASSUME NEW w \in Worker, NEW o \in {"completed", "failed"},
             FinishExecution(w, o)
      PROVE  Settled
  BY <1>11, SetStatusEffect DEF FinishExecution, places, history, LoopFree, IInv,
      Settled, StatusInv, WorkerInv, RowInv, HandRow, Routed, Running, Working,
      TypeOK, HandInv, HoldsLoop, OneEntryPerTask, Entry, Put, TaskStatus,
      Terminal
<1>12. ASSUME NEW w \in Worker, SaveOutcome(w) PROVE Settled
  BY <1>12, SaveCases DEF SaveOutcome, memory, places, history, Release, LoopFree,
      IInv, Settled, StatusInv, WorkerInv, RowInv, HandRow, Routed, Running,
      Working, TypeOK, HandInv, HoldsLoop, OneEntryPerTask, Entry, Put,
      TaskStatus, Terminal
<1>13. ASSUME NEW w \in Worker, CancelStalled(w) PROVE Settled
  BY <1>13 DEF CancelStalled, memory, places, history, LoopFree, IInv, Settled,
      StatusInv, WorkerInv, RowInv, HandRow, Routed, Running, Working, TypeOK,
      HandInv, HoldsLoop, OneEntryPerTask, Entry, Put, TaskStatus, Terminal
<1>14. ASSUME NEW w \in Worker, Unwind(w) PROVE Settled
  BY <1>14, SaveCases DEF Unwind, memory, places, history, LoopFree, IInv,
      Settled, StatusInv, WorkerInv, RowInv, HandRow, Routed, Running, Working,
      TypeOK, HandInv, HoldsLoop, OneEntryPerTask, Entry, Put, TaskStatus,
      Terminal
<1>15. ASSUME NEW w \in Worker, FailStalled(w) PROVE Settled
  BY <1>15, SetStatusEffect, SaveCases DEF FailStalled, places, history, Release,
      LoopFree, ShouldRetry, IInv, Settled, StatusInv, WorkerInv, RowInv, HandRow,
      Routed, Running, Working, TypeOK, HandInv, HoldsLoop, OneEntryPerTask,
      Entry, Put, TaskStatus, Terminal
<1>16. ASSUME NEW w \in Worker, RequeueStalled(w) PROVE Settled
  <2>1. /\ cur[w] \in Task /\ pc[w] = "retrying"
        /\ \A u \in Task \ {cur[w]} : obj'[u] = obj[u] /\ row'[u] = row[u]
    BY <1>16, HandTyped, SetStatusEffect DEF RequeueStalled, Save, StoreFault, IInv, TypeOK, TaskStatus
  <2>2. obj[cur[w]].status = "failed" /\ row[cur[w]].status # "completed"
    BY <2>1 DEF StatusInv, WorkerInv, RowInv, HandRow
  <2> QED
    BY <2>1, <2>2 DEF Settled
<1>17. ASSUME NEW w \in Worker, BumpRetry(w) PROVE Settled
  BY <1>17, BumpEffect, SaveCases DEF BumpRetry, history, Release, IInv, Settled,
      StatusInv, WorkerInv, RowInv, HandRow, Routed, Running, Working, TypeOK,
      HandInv, HoldsLoop, OneEntryPerTask, Entry, Put, TaskStatus, Terminal
<1>18. ASSUME NEW e \in pending, PutEntry(e) PROVE Settled
  BY <1>18 DEF PutEntry, memory, workers, history, LoopFree, IInv, Settled,
      StatusInv, WorkerInv, RowInv, HandRow, Routed, Running, Working, TypeOK,
      HandInv, HoldsLoop, OneEntryPerTask, Entry, Put, TaskStatus, Terminal
<1>19. ASSUME NEW e \in pending, FailSaturated(e) PROVE Settled
  BY <1>19, SetStatusEffect, SaveCases DEF FailSaturated, workers, history,
      LoopFree, IInv, Settled, StatusInv, WorkerInv, RowInv, HandRow, Routed,
      Running, Working, TypeOK, HandInv, HoldsLoop, OneEntryPerTask, Entry, Put,
      TaskStatus, Terminal
<1>20. ASSUME NEW e \in pending, RejectPut(e) PROVE Settled
  BY <1>20 DEF RejectPut, memory, workers, history, LoopFree, IInv, Settled,
      StatusInv, WorkerInv, RowInv, HandRow, Routed, Running, Working, TypeOK,
      HandInv, HoldsLoop, OneEntryPerTask, Entry, Put, TaskStatus, Terminal
<1>21. ASSUME NEW e \in pending, RollBack(e) PROVE Settled
  BY <1>21, NoRecordTyped DEF RollBack, memory, workers, history, IInv, Settled,
      StatusInv, WorkerInv, RowInv, HandRow, Routed, Running, Working, TypeOK,
      HandInv, HoldsLoop, OneEntryPerTask, Entry, Put, TaskStatus, Terminal
<1>22. ASSUME NEW t \in Task, NEW p \in Prio, SubmitOnLoop(t, p) PROVE Settled
  <2>1. /\ \A u \in Task \ {t} : obj'[u] = obj[u] /\ row'[u] = row[u]
        /\ obj[t].status = "none" /\ row[t].status = "none"
    BY <1>22, TrackEffect DEF SubmitOnLoop, IInv
  <2> QED
    BY <2>1 DEF Settled
<1>23. ASSUME NEW t \in Task, NEW p \in Prio, SubmitFromThread(t, p)
      PROVE  Settled
  <2>1. /\ \A u \in Task \ {t} : obj'[u] = obj[u] /\ row'[u] = row[u]
        /\ obj[t].status = "none" /\ row[t].status = "none"
    BY <1>23, TrackEffect DEF SubmitFromThread, IInv
  <2> QED
    BY <2>1 DEF Settled
<1>24. ASSUME NEW t \in Task, EndBackoff(t) PROVE Settled
  BY <1>24 DEF EndBackoff, memory, workers, history, LoopFree, IInv, Settled,
      StatusInv, WorkerInv, RowInv, HandRow, Routed, Running, Working, TypeOK,
      HandInv, HoldsLoop, OneEntryPerTask, Entry, Put, TaskStatus, Terminal
<1>25. ASSUME NEW t \in Task, CancelTask(t) PROVE Settled
  BY <1>25, SetStatusEffect, UpdateEffect, UpdateFailsCases DEF CancelTask,
      places, workers, history, LoopFree, IInv, Settled, StatusInv, WorkerInv,
      RowInv, HandRow, Routed, Running, Working, TypeOK, HandInv, HoldsLoop,
      OneEntryPerTask, Entry, Put, TaskStatus, Terminal
<1>26. ASSUME NEW t \in Task, RetryTask(t) PROVE Settled
  BY <1>26, SetStatusEffect, SaveCases DEF RetryTask, places, workers, LoopFree,
      IInv, Settled, StatusInv, WorkerInv, RowInv, HandRow, Routed, Running,
      Working, TypeOK, HandInv, HoldsLoop, OneEntryPerTask, Entry, Put,
      TaskStatus, Terminal
<1>27. ASSUME NEW t \in Task, Evict(t) PROVE Settled
  BY <1>27 DEF Evict, places, workers, history, LoopFree, Retired, IInv, Settled,
      StatusInv, WorkerInv, RowInv, HandRow, Routed, Running, Working, TypeOK,
      HandInv, HoldsLoop, OneEntryPerTask, Entry, Put, TaskStatus, Terminal
<1>28. ASSUME NEW t \in Task, Prune(t) PROVE Settled
  BY <1>28, NoRecordTyped DEF Prune, places, workers, history, LoopFree, Retired,
      IInv, Settled, StatusInv, WorkerInv, RowInv, HandRow, Routed, Running,
      Working, TypeOK, HandInv, HoldsLoop, OneEntryPerTask, Entry, Put,
      TaskStatus, Terminal
<1>29. CASE Crash
  BY <1>29, NoRecordTyped DEF Crash, IInv, Settled, StatusInv, WorkerInv, RowInv,
      HandRow, Routed, Running, Working, TypeOK, HandInv, HoldsLoop,
      OneEntryPerTask, Entry, Put, TaskStatus, Terminal
<1>30. CASE Recover
  <2>1. \A t \in Task : row'[t].status =
                             IF row[t].status = "running" THEN "failed" ELSE row[t].status
    BY <1>30, InterruptedEffect DEF Recover, IInv
  <2>2. \A t \in Task : obj[t].status = "completed" => obj'[t].status = "completed"
    BY <1>30, NoRecordTyped DEF Recover, StatusInv
  <2> QED
    BY <2>1, <2>2 DEF Settled
<1>31. CASE RecoverFails
  BY <1>31, InterruptedEffect DEF RecoverFails, memory, places, workers, history,
      Recoverable, IInv, Settled, StatusInv, WorkerInv, RowInv, HandRow, Routed,
      Running, Working, TypeOK, HandInv, HoldsLoop, OneEntryPerTask, Entry, Put,
      TaskStatus, Terminal
<1>32. CASE UNCHANGED vars
  BY <1>32 DEF vars, memory, places, workers, history, IInv, Settled, StatusInv,
      WorkerInv, RowInv, HandRow, Routed, Running, Working, TypeOK, HandInv,
      HoldsLoop, OneEntryPerTask, Entry, Put, TaskStatus, Terminal
<1>33. ASSUME NEW w \in Worker, NEW e \in queue, Take(w, e) PROVE Settled
  BY <1>33, TakeMoves, MovedKeeps
<1>34. ASSUME NEW w \in Worker, EndDrainWaiting(w) PROVE Settled
  BY <1>34, WaitMoves, MovedKeeps
<1>35. ASSUME NEW w \in Worker, RequeueWaiting(w) PROVE Settled
  <2>1. row' = row /\ obj[cur[w]].status = "running"
    BY <1>35, WaitingEffect DEF IInv, StatusInv, WorkerInv, Working
  <2> QED
    BY <1>35, <2>1, WaitingEffect DEF Settled, IInv
<1>36. ASSUME NEW w \in Worker, PutBack(w) PROVE Settled
  BY <1>36, BackMoves, MovedKeeps
<1> QED
  BY <1>1, <1>2, <1>3, <1>4, <1>5, <1>6, <1>7, <1>8, <1>9, <1>10, <1>11, <1>12,
      <1>13, <1>14, <1>15, <1>16, <1>17, <1>18, <1>19, <1>20, <1>21, <1>22, <1>23,
      <1>24, <1>25, <1>26, <1>27, <1>28, <1>29, <1>30, <1>31, <1>32, <1>33, <1>34,
      <1>35, <1>36, Zenon DEF Next, Drain, Execute, HandleStall, RunPut, Submit

\* While the loop is free nothing is set aside.
LEMMA NothingSetAside ==
    ASSUME LoopInv, LoopFree
    PROVE  deferred = {}
BY DEF LoopInv, LoopFree, HoldsLoop

\* Nor while a worker that holds the loop is past its draining.
LEMMA NothingSetAsideByOthers ==
    ASSUME LoopInv, NEW w \in Worker, pc[w] \in HoldsLoop \ {"draining"}
    PROVE  deferred = {}
BY DEF LoopInv, HoldsLoop

\* Every step that leaves an entry set aside leaves it ineligible.
LEMMA DeferStep ==
    ASSUME IInv, StatusInv, LoopInv, DeferInv, [Next]_vars
    PROVE  DeferInv'
<1>1. ASSUME NEW w \in Worker, NEW e \in Entry, SkipStale(w, e)
      PROVE  DeferInv'
  BY <1>1 DEF SkipStale, memory, DeferInv, DependenciesPending, AtKindCap,
      RunningOfKind
<1>2. ASSUME NEW w \in Worker, NEW e \in Entry, FailDependent(w, e)
      PROVE  DeferInv'
  <2>1. live \subseteq Task
    BY DEF IInv, TypeOK
  <2>2. \A k : RunningOfKind(k)' = RunningOfKind(k)
    BY <1>2, <2>1, FailEffect DEF RunningOfKind
  <2>3. \A f \in deferred : f.task \in Task /\ DependsOn[f.task] \subseteq Task
    BY ConstantsAssumption DEF IInv, TypeOK, Entry
  <2>4. \A f \in deferred : DependenciesPending(f.task) => DependenciesPending(f.task)'
    BY <1>2, <2>3, FailEffect DEF DependenciesPending
  <2> QED
    BY <1>2, <2>2, <2>4, FailEffect DEF DeferInv, AtKindCap
<1>3. ASSUME NEW w \in Worker, NEW e \in Entry, Defer(w, e)
      PROVE  DeferInv'
  BY <1>3 DEF Defer, memory, DeferInv, DependenciesPending, AtKindCap,
      RunningOfKind
<1>4. ASSUME NEW w \in Worker, NEW e \in Entry, Claim(w, e)
      PROVE  DeferInv'
  BY <1>4 DEF Claim, DeferInv
<1>5. ASSUME NEW w \in Worker, EndDrain(w) PROVE DeferInv'
  BY <1>5 DEF EndDrain, DeferInv
<1>6. ASSUME NEW w \in Worker, MarkRunning(w) PROVE DeferInv'
  BY <1>6, NothingSetAsideByOthers DEF MarkRunning, DeferInv, HoldsLoop, places
<1>7. ASSUME NEW w \in Worker, RequeueUnmarked(w) PROVE DeferInv'
  BY <1>7, NothingSetAsideByOthers DEF RequeueUnmarked, DeferInv, HoldsLoop
<1>8. ASSUME NEW w \in Worker, StartExecution(w) PROVE DeferInv'
  BY <1>8, NothingSetAside DEF StartExecution, places, DeferInv
<1>9. ASSUME NEW w \in Worker, AbandonExecution(w) PROVE DeferInv'
  BY <1>9, NothingSetAside DEF AbandonExecution, places, DeferInv
<1>10. ASSUME NEW w \in Worker, MarkSideEffects(w) PROVE DeferInv'
  BY <1>10, NothingSetAside DEF MarkSideEffects, places, DeferInv
<1>11. ASSUME NEW w \in Worker, NEW o \in {"completed", "failed"},
             FinishExecution(w, o)
      PROVE  DeferInv'
  BY <1>11, NothingSetAside DEF FinishExecution, places, DeferInv
<1>12. ASSUME NEW w \in Worker, SaveOutcome(w) PROVE DeferInv'
  BY <1>12, NothingSetAside DEF SaveOutcome, places, DeferInv
<1>13. ASSUME NEW w \in Worker, CancelStalled(w) PROVE DeferInv'
  BY <1>13, NothingSetAside DEF CancelStalled, places, DeferInv
<1>14. ASSUME NEW w \in Worker, Unwind(w) PROVE DeferInv'
  BY <1>14, NothingSetAside DEF Unwind, places, DeferInv
<1>15. ASSUME NEW w \in Worker, FailStalled(w) PROVE DeferInv'
  BY <1>15, NothingSetAside DEF FailStalled, places, DeferInv
<1>16. ASSUME NEW w \in Worker, RequeueStalled(w) PROVE DeferInv'
  BY <1>16, NothingSetAsideByOthers DEF RequeueStalled, DeferInv, HoldsLoop,
      places
<1>17. ASSUME NEW w \in Worker, BumpRetry(w) PROVE DeferInv'
  BY <1>17, NothingSetAsideByOthers DEF BumpRetry, DeferInv, HoldsLoop, places
<1>18. ASSUME NEW e \in pending, PutEntry(e) PROVE DeferInv'
  BY <1>18, NothingSetAside DEF PutEntry, DeferInv
<1>19. ASSUME NEW e \in pending, FailSaturated(e) PROVE DeferInv'
  BY <1>19, NothingSetAside DEF FailSaturated, DeferInv
<1>20. ASSUME NEW e \in pending, RejectPut(e) PROVE DeferInv'
  BY <1>20, NothingSetAside DEF RejectPut, DeferInv
<1>21. ASSUME NEW e \in pending, RollBack(e) PROVE DeferInv'
  <2>1. /\ e.task \in Task /\ obj[e.task].status \in {"queued", "cancelled"}
        /\ obj'[e.task].status \notin {"running", "completed"}
        /\ \A u \in Task \ {e.task} : obj'[u] = obj[u]
        /\ live' \in {live, live \ {e.task}} /\ deferred' = deferred
        /\ live \subseteq Task
    BY <1>21, NoRecordTyped DEF RollBack, memory, IInv, TypeOK, Put, StatusInv, Routed
  <2>2. \A k : RunningOfKind(k)' = RunningOfKind(k)
    BY <2>1 DEF RunningOfKind
  <2>3. \A f \in deferred : f.task \in Task /\ DependsOn[f.task] \subseteq Task
    BY ConstantsAssumption DEF IInv, TypeOK, Entry
  <2>4. \A f \in deferred : DependenciesPending(f.task) => DependenciesPending(f.task)'
    BY <2>1, <2>3 DEF DependenciesPending
  <2> QED
    BY <2>1, <2>2, <2>4 DEF DeferInv, AtKindCap
<1>22. ASSUME NEW t \in Task, NEW p \in Prio, SubmitOnLoop(t, p) PROVE DeferInv'
  BY <1>22, NothingSetAside DEF SubmitOnLoop, Track, DeferInv
<1>23. ASSUME NEW t \in Task, NEW p \in Prio, SubmitFromThread(t, p)
      PROVE  DeferInv'
  <2>1. /\ obj[t].status = "none" /\ obj'[t].status = "queued"
        /\ \A u \in Task \ {t} : obj'[u] = obj[u]
        /\ live' = live \cup {t} /\ deferred' = deferred
        /\ live \subseteq Task
    BY <1>23, TrackEffect DEF SubmitFromThread, IInv, TypeOK
  <2>2. \A k : RunningOfKind(k)' = RunningOfKind(k)
    BY <2>1 DEF RunningOfKind
  <2>3. \A f \in deferred : f.task \in Task /\ DependsOn[f.task] \subseteq Task
    BY ConstantsAssumption DEF IInv, TypeOK, Entry
  <2>4. \A f \in deferred : DependenciesPending(f.task) => DependenciesPending(f.task)'
    BY <2>1, <2>3 DEF DependenciesPending
  <2> QED
    BY <2>1, <2>2, <2>4 DEF DeferInv, AtKindCap
<1>24. ASSUME NEW t \in Task, EndBackoff(t) PROVE DeferInv'
  BY <1>24, NothingSetAside DEF EndBackoff, DeferInv
<1>25. ASSUME NEW t \in Task, CancelTask(t) PROVE DeferInv'
  BY <1>25, NothingSetAside DEF CancelTask, places, DeferInv
<1>26. ASSUME NEW t \in Task, RetryTask(t) PROVE DeferInv'
  BY <1>26, NothingSetAside DEF RetryTask, places, DeferInv
<1>27. ASSUME NEW t \in Task, Evict(t) PROVE DeferInv'
  BY <1>27, NothingSetAside DEF Evict, places, DeferInv
<1>28. ASSUME NEW t \in Task, Prune(t) PROVE DeferInv'
  BY <1>28, NothingSetAside DEF Prune, places, DeferInv
<1>29. CASE Crash
  BY <1>29 DEF Crash, DeferInv
<1>30. CASE Recover
  BY <1>30 DEF Recover, places, DeferInv, DownInv, IInv
<1>31. CASE RecoverFails
  BY <1>31 DEF RecoverFails, places, DeferInv, DownInv, IInv
<1>32. CASE UNCHANGED vars
  BY <1>32 DEF vars, memory, places, DeferInv, DependenciesPending, AtKindCap,
      RunningOfKind
<1>33. ASSUME NEW w \in Worker, NEW e \in queue, Take(w, e) PROVE DeferInv'
  BY <1>33, NothingSetAside DEF Take, DeferInv
<1>34. ASSUME NEW w \in Worker, EndDrainWaiting(w) PROVE DeferInv'
  BY <1>34 DEF EndDrainWaiting, DeferInv
<1>35. ASSUME NEW w \in Worker, RequeueWaiting(w) PROVE DeferInv'
  BY <1>35, NothingSetAsideByOthers DEF RequeueWaiting, DeferInv, HoldsLoop
<1>36. ASSUME NEW w \in Worker, PutBack(w) PROVE DeferInv'
  BY <1>36, NothingSetAside DEF PutBack, DeferInv
<1> QED
  BY <1>1, <1>2, <1>3, <1>4, <1>5, <1>6, <1>7, <1>8, <1>9, <1>10, <1>11, <1>12,
      <1>13, <1>14, <1>15, <1>16, <1>17, <1>18, <1>19, <1>20, <1>21, <1>22, <1>23,
      <1>24, <1>25, <1>26, <1>27, <1>28, <1>29, <1>30, <1>31, <1>32, <1>33, <1>34,
      <1>35, <1>36, Zenon DEF Next, Drain, Execute, HandleStall, RunPut, Submit

\* An element more adds one at most to the size of a finite set.
LEMMA AddOne ==
    ASSUME NEW S, IsFiniteSet(S), NEW x
    PROVE  /\ IsFiniteSet(S \cup {x})
           /\ Cardinality(S) \in Nat /\ Cardinality(S \cup {x}) \in Nat
           /\ Cardinality(S \cup {x}) <= Cardinality(S) + 1
<1>1. /\ IsFiniteSet(S \cup {x})
      /\ \/ Cardinality(S \cup {x}) = Cardinality(S)
         \/ Cardinality(S \cup {x}) = Cardinality(S) + 1
  BY FS_AddElement
<1>2. Cardinality(S) \in Nat
  BY FS_CardinalityType
<1> QED
  BY <1>1, <1>2

\* An element less takes one from its size.
LEMMA TakeOne ==
    ASSUME NEW S, IsFiniteSet(S), NEW x \in S
    PROVE  /\ IsFiniteSet(S \ {x})
           /\ Cardinality(S) \in Nat /\ Cardinality(S \ {x}) \in Nat
           /\ Cardinality(S \ {x}) = Cardinality(S) - 1
<1>1. IsFiniteSet(S \ {x}) /\ Cardinality(S \ {x}) = Cardinality(S) - 1
  BY FS_RemoveElement
<1> QED
  BY <1>1, FS_CardinalityType

\* A step that adds to neither set keeps the bounds.
LEMMA RoomKept ==
    ASSUME RoomInv, deferred' = deferred, queue' = queue \/ \E x : queue' = queue \ {x},
           ~GetSuspends => \A v \in Worker : pc'[v] \in {"claimed", "taken", "waiting"} => pc'[v] = pc[v]
    PROVE  RoomInv'
<1>1. /\ IsFiniteSet(queue) /\ IsFiniteSet(deferred)
      /\ IsFiniteSet(queue') /\ Cardinality(queue') <= Cardinality(queue)
  <2>1. queue' \subseteq queue
    OBVIOUS
  <2> QED
    BY <2>1, FS_Subset, FS_CardinalityType DEF RoomInv
<1>2. /\ Cardinality(queue) \in Nat /\ Cardinality(queue') \in Nat /\ Cardinality(deferred) \in Nat
  BY <1>1, FS_CardinalityType
<1>3. /\ Cardinality(queue) <= MaxDepth
      /\ Cardinality(queue) + Cardinality(deferred) <= IF GetSuspends THEN MaxDepth + 1 ELSE MaxDepth
      /\ ~GetSuspends => \A v \in Worker : /\ pc[v] # "taken" /\ pc[v] # "waiting"
                                            /\ pc[v] = "claimed" => Cardinality(queue) < MaxDepth
  BY DEF RoomInv, RoomForRequeue
<1>4. MaxDepth \in Nat /\ GetSuspends \in BOOLEAN
  BY ConstantsAssumption
<1>5. /\ Cardinality(queue') <= MaxDepth
      /\ Cardinality(queue') + Cardinality(deferred) <= IF GetSuspends THEN MaxDepth + 1 ELSE MaxDepth
      /\ Cardinality(queue) < MaxDepth => Cardinality(queue') < MaxDepth
  BY <1>1, <1>2, <1>3, <1>4
<1>6. ~GetSuspends => \A v \in Worker : /\ pc'[v] # "taken" /\ pc'[v] # "waiting"
                                         /\ pc'[v] = "claimed" => Cardinality(queue') < MaxDepth
  BY <1>3, <1>5
<1> QED
  BY <1>1, <1>5, <1>6 DEF RoomInv, RoomForRequeue

\* Nor does one that leaves nothing set aside and at most one entry more than
\* there was room for.
LEMMA RoomMade ==
    ASSUME RoomInv, deferred' = {}, IsFiniteSet(queue'), Cardinality(queue') <= MaxDepth,
           ~GetSuspends => \A v \in Worker : /\ pc'[v] \notin {"taken", "waiting"}
                                             /\ pc'[v] = "claimed" => Cardinality(queue') < MaxDepth
    PROVE  RoomInv'
<1>1. IsFiniteSet(deferred') /\ Cardinality(deferred') = 0 /\ Cardinality(queue') \in Nat
  BY FS_EmptySet, FS_CardinalityType
<1>2. MaxDepth \in Nat /\ GetSuspends \in BOOLEAN
  BY ConstantsAssumption
<1>3. Cardinality(queue') + Cardinality(deferred') <= IF GetSuspends THEN MaxDepth + 1 ELSE MaxDepth
  BY <1>1, <1>2
<1> QED
  BY <1>1, <1>3 DEF RoomInv, RoomForRequeue

\* Every step keeps room for an entry that may come back.
LEMMA RoomStep ==
    ASSUME IInv, LoopInv, RoomInv, [Next]_vars
    PROVE  RoomInv'
<1>1. ASSUME NEW w \in Worker, NEW e \in Entry, SkipStale(w, e)
      PROVE  RoomInv'
  <2>1. /\ queue' = queue \ {e} /\ deferred' = deferred
        /\ \A v \in Worker : pc'[v] \in {pc[v], "idle", "draining"}
    BY <1>1, ObtainFacts DEF SkipStale, IInv, TypeOK
  <2> QED
    BY <2>1, RoomKept
<1>2. ASSUME NEW w \in Worker, NEW e \in Entry, FailDependent(w, e)
      PROVE  RoomInv'
  <2>1. /\ queue' = queue \ {e} /\ deferred' = deferred
        /\ \A v \in Worker : pc'[v] \in {pc[v], "idle", "draining"}
    BY <1>2, FailEffect DEF IInv, TypeOK
  <2> QED
    BY <2>1, RoomKept
<1>3. ASSUME NEW w \in Worker, NEW e \in Entry, Defer(w, e)
      PROVE  RoomInv'
  <2>1. /\ queue' = queue \ {e} /\ deferred' = deferred \cup {e}
        /\ \A v \in Worker : pc'[v] \in {pc[v], "draining"}
    BY <1>3 DEF Defer, IInv, TypeOK
  <2>2. /\ IsFiniteSet(deferred') /\ Cardinality(deferred') <= Cardinality(deferred) + 1
        /\ Cardinality(deferred) \in Nat /\ Cardinality(deferred') \in Nat
    BY <2>1, AddOne DEF RoomInv
  <2>3. /\ MaxDepth \in Nat /\ Cardinality(queue) \in Nat
        /\ Cardinality(queue) <= MaxDepth
        /\ Cardinality(queue) + Cardinality(deferred) <= IF GetSuspends THEN MaxDepth + 1 ELSE MaxDepth
        /\ GetSuspends \in BOOLEAN
    BY FS_CardinalityType, ConstantsAssumption DEF RoomInv, RoomForRequeue
  <2>4. /\ IsFiniteSet(queue') /\ Cardinality(queue') \in Nat
        /\ Cardinality(queue') <= MaxDepth
        /\ Cardinality(queue') + Cardinality(deferred') <= IF GetSuspends THEN MaxDepth + 1 ELSE MaxDepth
        /\ ~GetSuspends => \A v \in Worker : pc[v] = "claimed" => Cardinality(queue') < MaxDepth
    <3>1. CASE e \in queue
      <4>1. IsFiniteSet(queue') /\ Cardinality(queue') \in Nat /\ Cardinality(queue') = Cardinality(queue) - 1
        BY <2>1, <3>1, TakeOne DEF RoomInv
      <4> QED
        BY <2>2, <2>3, <4>1 DEF RoomInv, RoomForRequeue
    <3>2. CASE e \notin queue
      <4>1. queue' = queue
        BY <2>1, <3>2
      <4>2. pc[w] = "taken" /\ LoopFree
        BY <1>3, <3>2 DEF Defer, Obtain, IsNext
      <4>3. deferred = {} /\ GetSuspends
        BY <2>3, <4>2, NothingSetAside DEF RoomInv
      <4>4. Cardinality(deferred) = 0
        BY <4>3, FS_EmptySet
      <4> QED
        BY <2>2, <2>3, <4>1, <4>3, <4>4 DEF RoomInv
    <3> QED
      BY <3>1, <3>2
  <2> QED
    BY <2>1, <2>2, <2>4 DEF RoomInv, RoomForRequeue
<1>4. ASSUME NEW w \in Worker, NEW e \in Entry, Claim(w, e)
      PROVE  RoomInv'
  <2>1. /\ queue' = (queue \ {e}) \cup deferred /\ deferred' = {}
        /\ pc' = [pc EXCEPT ![w] = "claimed"]
    BY <1>4, ClaimEffect
  <2> DEFINE q == queue \ {e}
  <2>2. IsFiniteSet(q) /\ Cardinality(q) \in Nat
    BY FS_Subset, FS_CardinalityType DEF RoomInv
  <2>3. /\ IsFiniteSet(queue')
        /\ Cardinality(queue') = Cardinality(q) + Cardinality(deferred)
                                   - Cardinality(q \cap deferred)
    BY <2>1, <2>2, FS_Union DEF RoomInv
  <2>4. /\ Cardinality(deferred) \in Nat /\ Cardinality(q \cap deferred) \in Nat
        /\ Cardinality(queue') \in Nat
    BY <2>2, <2>3, FS_CardinalityType, FS_Intersection DEF RoomInv
  <2>5. /\ MaxDepth \in Nat /\ Cardinality(queue) \in Nat
        /\ Cardinality(queue) <= MaxDepth
        /\ Cardinality(queue) + Cardinality(deferred) <= IF GetSuspends THEN MaxDepth + 1 ELSE MaxDepth
        /\ GetSuspends \in BOOLEAN
    BY FS_CardinalityType, ConstantsAssumption DEF RoomInv, RoomForRequeue
  <2>6. /\ Cardinality(q) + Cardinality(deferred) <= MaxDepth
        /\ ~GetSuspends => Cardinality(q) + Cardinality(deferred) < MaxDepth
    <3>1. CASE e \in queue
      <4>1. Cardinality(q) = Cardinality(queue) - 1
        BY <3>1, TakeOne DEF RoomInv
      <4> HIDE DEF q
      <4> QED
        BY <2>2, <2>4, <2>5, <4>1
    <3>2. CASE e \notin queue
      <4>1. q = queue
        BY <3>2
      <4>2. pc[w] = "taken" /\ LoopFree
        BY <1>4, <3>2 DEF Claim, Obtain, IsNext
      <4>3. deferred = {} /\ GetSuspends
        BY <2>5, <4>2, NothingSetAside DEF RoomInv
      <4>4. Cardinality(deferred) = 0
        BY <4>3, FS_EmptySet
      <4> QED
        BY <2>5, <4>1, <4>3, <4>4
    <3> QED
      BY <3>1, <3>2
  <2>7. /\ Cardinality(queue') <= MaxDepth
        /\ ~GetSuspends => Cardinality(queue') < MaxDepth
    <3> HIDE DEF q
    <3> QED
      BY <2>2, <2>3, <2>4, <2>5, <2>6
  <2>8. ~GetSuspends => \A v \in Worker : pc'[v] \notin {"taken", "waiting"}
    BY <2>1 DEF RoomInv, RoomForRequeue, IInv, TypeOK
  <2> QED
    BY <2>1, <2>3, <2>7, <2>8, RoomMade
<1>5. ASSUME NEW w \in Worker, EndDrain(w) PROVE RoomInv'
  <2>1. /\ queue' = deferred /\ deferred' = {} /\ Cardinality(deferred) <= MaxDepth
        /\ pc[w] = "draining" /\ pc' = [pc EXCEPT ![w] = "idle"]
    BY <1>5 DEF EndDrain
  <2>2. \A v \in Worker : pc'[v] # "claimed"
    BY <2>1 DEF LoopInv, HoldsLoop, IInv, TypeOK
  <2>3. ~GetSuspends => \A v \in Worker : pc'[v] \notin {"taken", "waiting"}
    BY <2>1 DEF RoomInv, RoomForRequeue, IInv, TypeOK
  <2>4. IsFiniteSet(queue') /\ Cardinality(queue') <= MaxDepth
    BY <2>1 DEF RoomInv
  <2> QED
    BY <2>1, <2>2, <2>3, <2>4, RoomMade
<1>6. ASSUME NEW w \in Worker, MarkRunning(w) PROVE RoomInv'
  BY <1>6 DEF MarkRunning, places, RoomInv, RoomForRequeue, IInv, TypeOK
<1>7. ASSUME NEW w \in Worker, RequeueUnmarked(w) PROVE RoomInv'
  <2>1. queue' = queue \cup {EntryOf(cur[w])} /\ Cardinality(queue) < MaxDepth
    BY <1>7 DEF RequeueUnmarked
  <2>2. /\ IsFiniteSet(queue') /\ Cardinality(queue') <= Cardinality(queue) + 1
        /\ Cardinality(queue) \in Nat /\ Cardinality(queue') \in Nat
    BY <2>1, AddOne DEF RoomInv
  <2>3. Cardinality(queue') <= MaxDepth
    BY <2>1, <2>2, ConstantsAssumption
  <2>4. /\ pc[w] = "claimed" /\ pc' = [pc EXCEPT ![w] = "idle"] /\ deferred' = deferred
    BY <1>7 DEF RequeueUnmarked, Release
  <2>5. deferred = {} /\ \A v \in Worker : pc'[v] # "claimed"
    BY <2>4, NothingSetAsideByOthers DEF LoopInv, HoldsLoop, IInv, TypeOK
  <2>6. ~GetSuspends => \A v \in Worker : pc'[v] \notin {"taken", "waiting"}
    BY <2>4 DEF RoomInv, RoomForRequeue, IInv, TypeOK
  <2> QED
    BY <2>2, <2>3, <2>4, <2>5, <2>6, RoomMade
<1>8. ASSUME NEW w \in Worker, StartExecution(w) PROVE RoomInv'
  BY <1>8 DEF StartExecution, places, RoomInv, RoomForRequeue, IInv, TypeOK
<1>9. ASSUME NEW w \in Worker, AbandonExecution(w) PROVE RoomInv'
  BY <1>9 DEF AbandonExecution, places, Release, RoomInv, RoomForRequeue, IInv,
      TypeOK
<1>10. ASSUME NEW w \in Worker, MarkSideEffects(w) PROVE RoomInv'
  BY <1>10 DEF MarkSideEffects, places, workers, RoomInv, RoomForRequeue, IInv,
      TypeOK
<1>11. ASSUME NEW w \in Worker, NEW o \in {"completed", "failed"},
             FinishExecution(w, o)
      PROVE  RoomInv'
  BY <1>11 DEF FinishExecution, places, RoomInv, RoomForRequeue, IInv, TypeOK
<1>12. ASSUME NEW w \in Worker, SaveOutcome(w) PROVE RoomInv'
  BY <1>12 DEF SaveOutcome, places, Release, RoomInv, RoomForRequeue, IInv, TypeOK
<1>13. ASSUME NEW w \in Worker, CancelStalled(w) PROVE RoomInv'
  BY <1>13 DEF CancelStalled, places, RoomInv, RoomForRequeue, IInv, TypeOK
<1>14. ASSUME NEW w \in Worker, Unwind(w) PROVE RoomInv'
  BY <1>14 DEF Unwind, places, RoomInv, RoomForRequeue, IInv, TypeOK
<1>15. ASSUME NEW w \in Worker, FailStalled(w) PROVE RoomInv'
  BY <1>15 DEF FailStalled, places, Release, RoomInv, RoomForRequeue, IInv, TypeOK
<1>16. ASSUME NEW w \in Worker, RequeueStalled(w) PROVE RoomInv'
  BY <1>16 DEF RequeueStalled, places, Release, RoomInv, RoomForRequeue, IInv,
      TypeOK
<1>17. ASSUME NEW w \in Worker, BumpRetry(w) PROVE RoomInv'
  BY <1>17 DEF BumpRetry, Release, RoomInv, RoomForRequeue, IInv, TypeOK
<1>18. ASSUME NEW e \in pending, PutEntry(e) PROVE RoomInv'
  <2>1. /\ queue' = queue \cup {[task |-> e.task, prio |-> e.prio]}
        /\ Cardinality(queue) < MaxDepth
    BY <1>18 DEF PutEntry
  <2>2. /\ IsFiniteSet(queue') /\ Cardinality(queue') <= Cardinality(queue) + 1
        /\ Cardinality(queue) \in Nat /\ Cardinality(queue') \in Nat
    BY <2>1, AddOne DEF RoomInv
  <2>3. Cardinality(queue') <= MaxDepth
    BY <2>1, <2>2, ConstantsAssumption
  <2>4. deferred' = {} /\ pc' = pc /\ \A v \in Worker : pc[v] # "claimed"
    BY <1>18, NothingSetAside DEF PutEntry, LoopFree, HoldsLoop, workers
  <2>5. ~GetSuspends => \A v \in Worker : pc'[v] \notin {"taken", "waiting"}
    BY <2>4 DEF RoomInv, RoomForRequeue
  <2> QED
    BY <2>2, <2>3, <2>4, <2>5, RoomMade
<1>19. ASSUME NEW e \in pending, FailSaturated(e) PROVE RoomInv'
  BY <1>19 DEF FailSaturated, workers, RoomInv, RoomForRequeue, IInv, TypeOK
<1>20. ASSUME NEW e \in pending, RejectPut(e) PROVE RoomInv'
  BY <1>20 DEF RejectPut, workers, RoomInv, RoomForRequeue, IInv, TypeOK
<1>21. ASSUME NEW e \in pending, RollBack(e) PROVE RoomInv'
  BY <1>21 DEF RollBack, workers, RoomInv, RoomForRequeue, IInv, TypeOK
<1>22. ASSUME NEW t \in Task, NEW p \in Prio, SubmitOnLoop(t, p) PROVE RoomInv'
  BY <1>22 DEF SubmitOnLoop, Track, workers, RoomInv, RoomForRequeue, IInv, TypeOK
<1>23. ASSUME NEW t \in Task, NEW p \in Prio, SubmitFromThread(t, p)
      PROVE  RoomInv'
  BY <1>23 DEF SubmitFromThread, Track, workers, RoomInv, RoomForRequeue, IInv,
      TypeOK
<1>24. ASSUME NEW t \in Task, EndBackoff(t) PROVE RoomInv'
  BY <1>24 DEF EndBackoff, workers, RoomInv, RoomForRequeue, IInv, TypeOK
<1>25. ASSUME NEW t \in Task, CancelTask(t) PROVE RoomInv'
  BY <1>25 DEF CancelTask, places, workers, RoomInv, RoomForRequeue, IInv, TypeOK
<1>26. ASSUME NEW t \in Task, RetryTask(t) PROVE RoomInv'
  BY <1>26 DEF RetryTask, places, workers, RoomInv, RoomForRequeue, IInv, TypeOK
<1>27. ASSUME NEW t \in Task, Evict(t) PROVE RoomInv'
  BY <1>27 DEF Evict, places, workers, RoomInv, RoomForRequeue, IInv, TypeOK
<1>28. ASSUME NEW t \in Task, Prune(t) PROVE RoomInv'
  BY <1>28 DEF Prune, places, workers, RoomInv, RoomForRequeue, IInv, TypeOK
<1>29. CASE Crash
  <2>1. queue' = {} /\ deferred' = {} /\ \A w \in Worker : pc'[w] = "idle"
    BY <1>29 DEF Crash
  <2> QED
    BY <2>1, FS_EmptySet, RoomMade, ConstantsAssumption
<1>30. CASE Recover
  <2> DEFINE f == [t \in Recoverable |-> [task |-> t, prio |-> row[t].prio]]
  <2>1. /\ queue' = {[task |-> t, prio |-> row[t].prio] : t \in Recoverable}
        /\ Cardinality(Recoverable) <= MaxDepth
        /\ deferred' = {}
        /\ pc' = pc /\ \A w \in Worker : pc[w] # "claimed"
    BY <1>30, ConstantsAssumption DEF Recover, workers, IInv, DownInv, HandInv
  <2>2. f \in Surjection(Recoverable, queue')
    BY <2>1 DEF Surjection
  <2>3. IsFiniteSet(Recoverable)
    BY FS_Subset, ConstantsAssumption DEF Recoverable
  <2>4. IsFiniteSet(queue') /\ Cardinality(queue') <= Cardinality(Recoverable)
    BY <2>2, <2>3, FS_Surjection
  <2>5. Cardinality(queue') \in Nat /\ Cardinality(Recoverable) \in Nat
    BY <2>3, <2>4, FS_CardinalityType
  <2>6. Cardinality(queue') <= MaxDepth
    BY <2>1, <2>4, <2>5, ConstantsAssumption
  <2>7. ~GetSuspends => \A v \in Worker : pc'[v] \notin {"taken", "waiting"}
    BY <2>1 DEF RoomInv, RoomForRequeue
  <2> QED
    BY <2>1, <2>4, <2>6, <2>7, RoomMade
<1>31. CASE RecoverFails
  BY <1>31 DEF RecoverFails, places, workers, RoomInv, RoomForRequeue, IInv,
      TypeOK
<1>32. CASE UNCHANGED vars
  BY <1>32 DEF vars, places, workers, RoomInv, RoomForRequeue
<1>33. ASSUME NEW w \in Worker, NEW e \in queue, Take(w, e) PROVE RoomInv'
  <2>1. queue' = queue \ {e} /\ deferred' = deferred /\ GetSuspends
    BY <1>33 DEF Take
  <2> QED
    BY <2>1, RoomKept
<1>34. ASSUME NEW w \in Worker, EndDrainWaiting(w) PROVE RoomInv'
  <2>1. PICK e \in deferred : queue' = deferred \ {e}
    BY <1>34 DEF EndDrainWaiting
  <2>2. queue = {} /\ Cardinality(deferred) > MaxDepth /\ deferred' = {}
    BY <1>34 DEF EndDrainWaiting
  <2>3. /\ IsFiniteSet(queue') /\ Cardinality(queue') = Cardinality(deferred) - 1
        /\ Cardinality(deferred) \in Nat /\ Cardinality(queue) = 0
    BY <2>1, <2>2, TakeOne, FS_EmptySet DEF RoomInv
  <2>4. GetSuspends /\ Cardinality(deferred) <= MaxDepth + 1
    BY <2>2, <2>3, ConstantsAssumption DEF RoomInv, RoomForRequeue
  <2>5. Cardinality(queue') <= MaxDepth
    BY <2>3, <2>4, ConstantsAssumption
  <2> QED
    BY <2>2, <2>3, <2>4, <2>5, RoomMade
<1>35. ASSUME NEW w \in Worker, RequeueWaiting(w) PROVE RoomInv'
  <2>1. pc[w] = "claimed" /\ Cardinality(queue) >= MaxDepth /\ UNCHANGED <<queue, deferred>>
    BY <1>35 DEF RequeueWaiting
  <2>2. Cardinality(queue) \in Nat /\ MaxDepth \in Nat
    BY FS_CardinalityType, ConstantsAssumption DEF RoomInv
  <2>3. GetSuspends
    BY <2>1, <2>2, ConstantsAssumption DEF RoomInv, RoomForRequeue
  <2> QED
    BY <2>1, <2>3, RoomKept
<1>36. ASSUME NEW w \in Worker, PutBack(w) PROVE RoomInv'
  <2>1. PICK x : queue' = queue \cup {x} /\ Cardinality(queue) < MaxDepth
    BY <1>36 DEF PutBack
  <2>2. /\ IsFiniteSet(queue') /\ Cardinality(queue') <= Cardinality(queue) + 1
        /\ Cardinality(queue) \in Nat /\ Cardinality(queue') \in Nat
    BY <2>1, AddOne DEF RoomInv
  <2>3. Cardinality(queue') <= MaxDepth
    BY <2>1, <2>2, ConstantsAssumption
  <2>4. deferred' = {} /\ GetSuspends
    BY <1>36, NothingSetAside, ConstantsAssumption DEF PutBack, RoomInv, RoomForRequeue
  <2> QED
    BY <2>2, <2>3, <2>4, RoomMade
<1> QED
  BY <1>1, <1>2, <1>3, <1>4, <1>5, <1>6, <1>7, <1>8, <1>9, <1>10, <1>11, <1>12,
      <1>13, <1>14, <1>15, <1>16, <1>17, <1>18, <1>19, <1>20, <1>21, <1>22, <1>23,
      <1>24, <1>25, <1>26, <1>27, <1>28, <1>29, <1>30, <1>31, <1>32, <1>33, <1>34,
      <1>35, <1>36, Zenon DEF Next, Drain, Execute, HandleStall, RunPut, Submit

\* The workers that run tasks of a kind are no more than the running tasks of
\* that kind.
LEMMA HandsCounted ==
    ASSUME IInv, StatusInv, NEW k
    PROVE  /\ IsFiniteSet(RunningOfKind(k))
           /\ Cardinality(Hands(k)) <= Cardinality(RunningOfKind(k))
<1> DEFINE f == [w \in Hands(k) |-> cur[w]]
<1>1. IsFiniteSet(RunningOfKind(k))
  BY FS_Subset, ConstantsAssumption DEF RunningOfKind, IInv, TypeOK
<1>2. \A w \in Hands(k) : cur[w] \in RunningOfKind(k) /\ cur[w] # NoTask
  BY ConstantsAssumption DEF Hands, Working, Running, RunningOfKind, StatusInv, WorkerInv, IInv, TypeOK,
      HandInv
<1>3. \A v, w \in Hands(k) : cur[v] = cur[w] => v = w
  BY <1>2 DEF Hands, IInv, OneEntryPerTask, ExclusiveExecution
<1>4. f \in Injection(Hands(k), RunningOfKind(k))
  BY <1>2, <1>3 DEF Injection, IsInjective
<1> QED
  BY <1>1, <1>4, FS_Injection

\* Every step keeps the running tasks of a kind within its cap.
LEMMA CapStep ==
    ASSUME IInv, StatusInv, KindCapRespected, [Next]_vars
    PROVE  KindCapRespected'
<1> SUFFICES ASSUME NEW k \in DOMAIN Cap PROVE Cardinality(Hands(k)') <= Cap[k]
  BY DEF KindCapRespected, Hands, Working
<1>1. IsFiniteSet(Hands(k)) /\ Cardinality(Hands(k)) <= Cap[k] /\ Cap[k] \in Nat
  BY FS_Subset, ConstantsAssumption DEF KindCapRespected, Hands, Working
<1>2. CASE \E w \in Worker : \E e \in Entry : Claim(w, e) /\ KindOf[e.task] = k
  <2>1. PICK w \in Worker, e \in Entry : Claim(w, e) /\ KindOf[e.task] = k
    BY <1>2
  <2>2. Cardinality(RunningOfKind(k)) < Cap[k]
    BY <1>1, <2>1, HandsCounted, FS_CardinalityType DEF Claim, AtKindCap
  <2>3. Hands(k)' \subseteq Hands(k) \cup {w}
    BY <2>1 DEF Claim, Hands, IInv, TypeOK
  <2>4. /\ IsFiniteSet(Hands(k) \cup {w})
        /\ Cardinality(Hands(k) \cup {w}) <= Cardinality(Hands(k)) + 1
    BY <1>1, AddOne
  <2>5. Cardinality(Hands(k)') <= Cardinality(Hands(k) \cup {w})
    BY <2>3, <2>4, FS_Subset
  <2>6. /\ Cardinality(Hands(k)) \in Nat
        /\ Cardinality(RunningOfKind(k)) \in Nat
        /\ Cardinality(Hands(k) \cup {w}) \in Nat
        /\ Cardinality(Hands(k)') \in Nat
    BY <1>1, <2>3, <2>4, HandsCounted, FS_CardinalityType, FS_Subset
  <2> QED
    BY <1>1, <2>2, <2>4, <2>5, <2>6, HandsCounted
<1>3. CASE ~\E w \in Worker : \E e \in Entry : Claim(w, e) /\ KindOf[e.task] = k
  <2>1. ASSUME NEW v \in Hands(k)' PROVE v \in Hands(k)
    <3>1. v \in Worker /\ pc'[v] \in Working /\ KindOf[cur'[v]] = k
      BY <2>1 DEF Hands
    <3>2. HandMove(v)
      BY <3>1, HandMoves DEF IInv
    <3>3. CASE \E e \in Entry : Claim(v, e)
      BY <1>3, <3>1, <3>3 DEF Claim, IInv, TypeOK
    <3>4. CASE ~\E e \in Entry : Claim(v, e)
      BY <3>1, <3>2, <3>4 DEF HandMove, AtQueue, Hands, Working, Running
    <3> QED
      BY <3>3, <3>4
  <2>2. Cardinality(Hands(k)') <= Cardinality(Hands(k))
    BY <1>1, <2>1, FS_Subset
  <2>3. Cardinality(Hands(k)) \in Nat /\ Cardinality(Hands(k)') \in Nat
    BY <1>1, <2>1, FS_CardinalityType, FS_Subset
  <2> QED
    BY <1>1, <2>2, <2>3
<1> QED
  BY <1>2, <1>3

\* No step takes away a dependency of a task in hand, and a claim finds them
\* all completed.
LEMMA DependenciesStep ==
    ASSUME IInv, StatusInv, RowInv, DependenciesMet, [Next]_vars
    PROVE  DependenciesMet'
<1>1. Settled /\ DownInv'
  BY CompletedStep, DownStep DEF IInv
<1> SUFFICES ASSUME NEW w \in Worker, cur'[w] # NoTask, NEW d \in DependsOn[cur'[w]]
             PROVE  obj'[d].status = "completed"
  BY DEF DependenciesMet
<1>2. mode' = "up"
  BY <1>1, TypeStep DEF DownInv, IInv, TypeOK
<1>3. HandMove(w)
  BY HandMoves DEF IInv
<1>4. CASE cur'[w] = cur[w]
  <2>1. cur[w] \in Task /\ d \in Task
    BY <1>4, ConstantsAssumption DEF IInv, TypeOK
  <2> QED
    BY <1>1, <1>2, <1>4, <2>1 DEF DependenciesMet, Settled
<1>5. CASE \E e \in Entry : Claim(w, e)
  <2>1. PICK e \in Entry : Claim(w, e)
    BY <1>5
  <2>2. e.task \in Task /\ cur'[w] = e.task /\ d \in Task
    BY <2>1, ConstantsAssumption DEF Claim, IInv, TypeOK, Entry
  <2>3. obj[d].status = "completed"
    BY <2>1, <2>2 DEF Claim, DependenciesPending
  <2> QED
    BY <1>1, <1>2, <2>2, <2>3 DEF Settled
<1> QED
  BY <1>3, <1>4, <1>5 DEF HandMove

\* A claim takes an entry that no eligible one precedes.
LEMMA UrgentStep ==
    ASSUME IInv, PrioInv, DeferInv, [Next]_vars,
           NEW w \in Worker, pc[w] \in {"idle", "draining"}, pc'[w] = "claimed",
           NEW f \in queue \cup deferred, Eligible(f.task)
    PROVE  obj[cur'[w]].prio <= f.prio
<1>1. HandMove(w)
  BY HandMoves DEF IInv
<1>2. PICK e \in Entry : Claim(w, e)
  BY <1>1 DEF HandMove, AtQueue
<1>3. IsNext(e) /\ cur'[w] = e.task
  BY <1>2 DEF Claim, Obtain, IInv, TypeOK
<1>6. e.prio = obj[e.task].prio
  BY <1>3 DEF IsNext, PrioInv, Routed
<1>4. e.prio \in Nat /\ f.prio \in Nat
  <2>1. Prio \cup {0} \subseteq Nat
    BY ConstantsAssumption
  <2>2. e.prio \in Prio \cup {0} /\ f.prio \in Prio \cup {0}
    BY DEF IInv, TypeOK, Entry
  <2> QED
    BY <2>1, <2>2
<1>5. f \in queue
  BY DEF DeferInv, Eligible
<1> QED
  BY <1>3, <1>4, <1>5, <1>6 DEF IsNext

-----------------------------------------------------------------------------
(* The theorems *)

\* Where a task is, what its row says, who has the loop and what the entries
\* carry hold in the initial states ...
LEMMA InitSafe == Init => SafeInv
<1> SUFFICES ASSUME Init PROVE SafeInv
  OBVIOUS
<1>1. StatusInv /\ RowInv
  BY NoRecordTyped DEF Init, StatusInv, WorkerInv, Working, RowInv, HandRow, Running, Routed
<1>2. LoopInv /\ PrioInv
  BY DEF Init, LoopInv, HoldsLoop, PrioInv, Routed
<1> QED
  BY <1>1, <1>2 DEF SafeInv

\* ... and in every reachable state.
THEOREM Safety == Spec => []SafeInv
<1>1. IInv /\ SafeInv /\ [Next]_vars => SafeInv'
  BY StatusStep, RowStep, LoopStep, PrioStep DEF SafeInv, IInv
<1> QED
  BY <1>1, InitSafe, Invariance, PTL DEF Spec

\* A crash between two requests loses nothing while the store works
\* (task_store.py, runner.py).
THEOREM RowsAgree == Spec => []StoreAgrees
<1>1. Init => StoreAgrees
  BY DEF Init, StoreAgrees
<1>2. IInv /\ SafeInv /\ StoreAgrees /\ [Next]_vars => StoreAgrees'
  BY AgreeStep DEF SafeInv
<1> QED
  BY <1>1, <1>2, Invariance, Safety, PTL DEF Spec

\* No queued or running task is left without a place while the store works
\* (#972, #973).
THEOREM NoneStranded == Spec => []NothingStranded
<1>1. Init => NothingStranded
  BY DEF Init, NothingStranded
<1>2. IInv /\ SafeInv /\ NothingStranded /\ [Next]_vars => NothingStranded'
  BY StrandedStep DEF SafeInv
<1> QED
  BY <1>1, <1>2, Invariance, Safety, PTL DEF Spec

\* A task runs only while all its dependencies are completed (worker.py).
THEOREM Dependencies == Spec => []DependenciesMet
<1>1. Init => DependenciesMet
  BY DEF Init, DependenciesMet
<1>2. IInv /\ SafeInv /\ DependenciesMet /\ [Next]_vars => DependenciesMet'
  BY DependenciesStep DEF SafeInv
<1> QED
  BY <1>1, <1>2, Invariance, Safety, PTL DEF Spec

\* No more runs of a kind than its cap, for every cap and number of workers
\* (worker.py).
THEOREM KindCap == Spec => []KindCapRespected
<1>1. Init => KindCapRespected
  <2> SUFFICES ASSUME Init, NEW k \in DOMAIN Cap PROVE Cardinality(Hands(k)) <= Cap[k]
    BY DEF KindCapRespected, Hands, Working
  <2>1. Hands(k) = {}
    BY DEF Init, Hands, Working, Running
  <2> QED
    BY <2>1, FS_EmptySet, ConstantsAssumption
<1>2. IInv /\ SafeInv /\ KindCapRespected /\ [Next]_vars => KindCapRespected'
  BY CapStep DEF SafeInv
<1> QED
  BY <1>1, <1>2, Invariance, Safety, PTL DEF Spec

\* The queue with what a drain set aside never exceeds its depth by more than
\* the one entry a suspending get may hold back; where the get does not suspend
\* a claimed task always finds room to go back (worker.py, runner.py).
THEOREM Room == Spec => []RoomForRequeue
<1>1. Init => RoomInv
  BY FS_EmptySet, ConstantsAssumption DEF Init, RoomInv, RoomForRequeue
<1>2. IInv /\ SafeInv /\ RoomInv /\ [Next]_vars => RoomInv'
  BY RoomStep DEF SafeInv
<1>3. RoomInv => RoomForRequeue
  BY DEF RoomInv
<1> QED
  BY <1>1, <1>2, <1>3, Invariance, Safety, PTL DEF Spec

\* A completed task stays completed (worker.py, maintenance.py, task_store.py).
THEOREM CompletedStays == Spec => CompletedIsFinal
<1>1. IInv /\ SafeInv /\ [Next]_vars => [Settled]_vars
  BY CompletedStep DEF SafeInv
<1> QED
  BY <1>1, Invariance, Safety, PTL DEF Spec, CompletedIsFinal, Settled

\* The most urgent eligible entry is claimed first (runner.py, worker.py).
THEOREM MostUrgentFirst == Spec => UrgentFirst
<1>1. Init => DeferInv
  BY DEF Init, DeferInv
<1>2. IInv /\ SafeInv /\ DeferInv /\ [Next]_vars => DeferInv'
  BY DeferStep DEF SafeInv
<1> DEFINE Urgent == \A w \in Worker : pc[w] \in {"idle", "draining"} /\ pc'[w] = "claimed" =>
                        \A e \in queue \cup deferred :
                            Eligible(e.task) => obj[cur'[w]].prio <= e.prio
<1>3. IInv /\ SafeInv /\ DeferInv /\ [Next]_vars => Urgent
  BY UrgentStep DEF SafeInv
<1>4. Spec => []DeferInv
  BY <1>1, <1>2, Invariance, Safety, PTL DEF Spec
<1>5. Spec => [][Urgent]_vars
  BY <1>3, <1>4, Invariance, Safety, PTL DEF Spec
<1> QED
  BY <1>5 DEF UrgentFirst

-----------------------------------------------------------------------------
(* The refinement of TaskPromise, step by step *)

\* A step the promise allows, or a stutter of what it sees.
Promised == [Promise!Next]_(Promise!promise)

SameSpoiled == affected' \ granted' = affected \ granted

\* A step that leaves the rows, or their statuses, is a stutter or a lost write.
LEMMA Lags ==
    ASSUME recorded' = recorded, SameSpoiled, faults \in Nat, faults' \in {faults, faults + 1}
    PROVE  Promised
<1>1. CASE faults' = faults
  BY <1>1 DEF Promised, Promise!promise, SameSpoiled
<1>2. CASE faults' = faults + 1
  <2>1. faults' > 0
    BY <1>2
  <2> QED
    BY <2>1 DEF Promised, Promise!Next, Promise!Lose, Promise!MayLose, SameSpoiled
<1> QED
  BY <1>1, <1>2

\* A step that writes one row changes one record.
LEMMA RecordsOne ==
    ASSUME NEW t \in Task, \A u \in Task \ {t} : row'[u] = row[u]
    PROVE  /\ recorded' = [recorded EXCEPT ![t] = row'[t].status]
           /\ row'[t].status = row[t].status => recorded' = recorded
BY DEF recorded

\* What is on record is the status of the row.
LEMMA RecordOf == \A t \in Task : recorded[t] = row[t].status
BY DEF recorded

\* The writes that the promise allows without an operator's word.
Allowed(t, s) ==
    \/ row[t].status = "queued" /\ s = "running"
    \/ row[t].status = "running" /\ s = "completed"
    \/ /\ s = "failed"
       /\ \/ row[t].status \in {"queued", "running", "cancelled"}
          \/ faults > 0 /\ row[t].status \notin {"none", "completed"}
    \/ /\ s = "cancelled"
       /\ \/ row[t].status = "queued"
          \/ faults > 0 /\ row[t].status \notin {"none", "completed"}
    \/ /\ s = "queued" /\ t \notin affected \ granted
       /\ \/ row[t].status = "failed"
          \/ faults > 0 /\ row[t].status \notin {"none", "completed"}
    \/ row[t].status # "running" /\ s = "none"
    \/ row[t].status = s

\* Such a write is a step of the promise.
LEMMA Writes ==
    ASSUME NEW t \in Task, Allowed(t, row'[t].status), SameSpoiled, faults' = faults,
           \A u \in Task \ {t} : row'[u] = row[u]
    PROVE  Promised
<1> DEFINE s == row'[t].status
<1>1. recorded' = [recorded EXCEPT ![t] = s] /\ (row[t].status = s => recorded' = recorded)
  BY RecordsOne
<1>2. recorded[t] = row[t].status
  BY RecordOf
<1>3. Promise!Records(t, s)
  BY <1>1 DEF Promise!Records
<1>4. CASE row[t].status = s
  BY <1>1, <1>4 DEF Promised, Promise!promise, SameSpoiled
<1>5. CASE row[t].status = "queued" /\ s = "running"
  BY <1>2, <1>3, <1>5 DEF Promised, Promise!Next, Promise!Start, SameSpoiled
<1>6. CASE row[t].status = "running" /\ s = "completed"
  BY <1>2, <1>3, <1>6 DEF Promised, Promise!Next, Promise!Complete, SameSpoiled
<1>7. CASE s = "failed" /\ Promise!From(t, {"queued", "running", "cancelled"})
  BY <1>3, <1>7 DEF Promised, Promise!Next, Promise!Fail, SameSpoiled
<1>8. CASE s = "cancelled" /\ Promise!From(t, {"queued"})
  BY <1>3, <1>8 DEF Promised, Promise!Next, Promise!Cancel, SameSpoiled
<1>9. CASE s = "queued" /\ t \notin affected \ granted /\ Promise!From(t, {"failed"})
  BY <1>3, <1>9 DEF Promised, Promise!Next, Promise!Requeue, SameSpoiled
<1>10. CASE s = "none" /\ row[t].status # "running"
  BY <1>2, <1>3, <1>10 DEF Promised, Promise!Next, Promise!Forget, SameSpoiled
<1> QED
  BY <1>2, <1>4, <1>5, <1>6, <1>7, <1>8, <1>9, <1>10 DEF Allowed, Promise!From

\* A save, and a save that is lost, are steps of the promise when the write is.
LEMMA Saves ==
    ASSUME TypeOK, NEW t \in Task, SaveOrLose(t), Allowed(t, obj'[t].status), SameSpoiled
    PROVE  Promised
<1>1. CASE row' = row /\ faults' = faults + 1
  BY <1>1, SaveCases, Lags DEF recorded
<1>2. CASE row'[t] = obj'[t] /\ faults' = faults
  BY <1>2, SaveCases, Writes
<1> QED
  BY <1>1, <1>2, SaveCases

\* Recovery fails what was interrupted, as the promise says.
LEMMA Interrupts ==
    ASSUME TypeOK, FailInterrupted, SameSpoiled, faults' = faults
    PROVE  Promised
<1>1. \A t \in Task : row'[t].status =
                        IF row[t].status = "running" THEN "failed" ELSE row[t].status
  BY InterruptedEffect
<1>2. recorded' = [t \in Task |-> IF recorded[t] = "running" THEN "failed" ELSE recorded[t]]
  BY <1>1 DEF recorded
<1> QED
  BY <1>2 DEF Promised, Promise!Next, Promise!Interrupt, SameSpoiled

\* Failed writes are counted.
LEMMA FaultsNat == TypeOK => faults \in Nat
BY ConstantsAssumption DEF TypeOK

\* Every step of the daemon is a step of the promise, or a stutter.
LEMMA PromiseStep ==
    ASSUME IInv, SafeInv, EffectsInv, StoreAgrees, [Next]_vars
    PROVE  Promised
<1>1. ASSUME NEW w \in Worker, NEW e \in Entry, SkipStale(w, e)
      PROVE  Promised
  BY <1>1, SkipMoves, Lags, FaultsNat DEF Moved, SameSpoiled, recorded, IInv
<1>2. ASSUME NEW w \in Worker, NEW e \in Entry, FailDependent(w, e)
      PROVE  Promised
  <2>1. row[e.task].status = "queued" /\ SameSpoiled
    BY <1>2, FailEffect DEF SameSpoiled, SafeInv, RowInv
  <2> QED
    BY <1>2, <2>1, FailEffect, Saves DEF IInv, Allowed
<1>3. ASSUME NEW w \in Worker, NEW e \in Entry, Defer(w, e)
      PROVE  Promised
  BY <1>3, DeferMoves, Lags, FaultsNat DEF Moved, SameSpoiled, recorded, IInv
<1>4. ASSUME NEW w \in Worker, NEW e \in Entry, Claim(w, e)
      PROVE  Promised
  BY <1>4, ClaimEffect, Lags, FaultsNat DEF SameSpoiled, recorded, IInv
<1>5. ASSUME NEW w \in Worker, EndDrain(w) PROVE Promised
  BY <1>5, Lags, FaultsNat DEF EndDrain, memory, history, SameSpoiled, recorded,
      IInv
<1>6. ASSUME NEW w \in Worker, MarkRunning(w) PROVE Promised
  <2>1. /\ cur[w] \in Task
        /\ row[cur[w]].status = "queued" /\ row'[cur[w]].status = "running"
        /\ \A u \in Task \ {cur[w]} : row'[u] = row[u]
        /\ faults' = faults /\ SameSpoiled
    BY <1>6, HandTyped, UpdateEffect DEF MarkRunning, history, SameSpoiled,
        IInv, SafeInv, RowInv, HandRow, TaskStatus
  <2> QED
    BY <2>1, Writes DEF Allowed
<1>7. ASSUME NEW w \in Worker, RequeueUnmarked(w) PROVE Promised
  BY <1>7, HandTyped, UpdateFailsCases, Lags DEF RequeueUnmarked, IInv, history,
      recorded, SameSpoiled
<1>8. ASSUME NEW w \in Worker, StartExecution(w) PROVE Promised
  <2>1. /\ cur[w] \in Task
        /\ row[cur[w]].status = "running" /\ row'[cur[w]].status = "running"
        /\ \A u \in Task \ {cur[w]} : row'[u] = row[u]
        /\ faults' = faults /\ SameSpoiled
    BY <1>8, HandTyped, UpdateEffect DEF StartExecution, history, SameSpoiled,
        IInv, SafeInv, RowInv, HandRow, Running, TaskStatus
  <2> QED
    BY <2>1, Writes DEF Allowed
<1>9. ASSUME NEW w \in Worker, AbandonExecution(w) PROVE Promised
  BY <1>9, HandTyped, UpdateFailsCases, Lags DEF AbandonExecution, IInv, history,
      recorded, SameSpoiled
<1>10. ASSUME NEW w \in Worker, MarkSideEffects(w) PROVE Promised
  <2>1. /\ cur[w] \in Task
        /\ row[cur[w]].status = "running" /\ obj'[cur[w]].status = "running"
        /\ SaveOrLose(cur[w])
        /\ affected' = affected \cup {cur[w]} /\ granted' = granted
    BY <1>10, MarkEffect DEF IInv, SafeInv, StatusInv, WorkerInv, RowInv, HandRow, Working, Running
  <2>2. /\ recorded' = recorded
        /\ faults \in Nat
        /\ faults' \in {faults, faults + 1}
    BY <2>1, SaveCases, RecordsOne DEF IInv, recorded
  <2>3. CASE cur[w] \in granted
    BY <2>1, <2>2, <2>3, Lags DEF SameSpoiled
  <2>4. CASE cur[w] \notin granted
    <3>1. affected' \ granted' = (affected \ granted) \cup {cur[w]}
      BY <2>1, <2>4
    <3>2. recorded[cur[w]] # "queued"
      BY <2>1, RecordOf
    <3>3. CASE faults' = faults
      BY <2>1, <2>2, <3>1, <3>2, <3>3 DEF Promised, Promise!Next, Promise!Affect
    <3>4. CASE faults' = faults + 1
      <4>1. faults' > 0
        BY <2>2, <3>4
      <4> QED
        BY <2>1, <2>2, <3>1, <3>2, <4>1
        DEF Promised, Promise!Next, Promise!Affect, Promise!MayLose
    <3> QED
      BY <2>2, <3>3, <3>4
  <2> QED
    BY <2>3, <2>4
<1>11. ASSUME NEW w \in Worker, NEW o \in {"completed", "failed"},
             FinishExecution(w, o)
      PROVE  Promised
  BY <1>11, Lags, FaultsNat DEF FinishExecution, places, history, LoopFree,
      SameSpoiled, recorded, IInv
<1>12. ASSUME NEW w \in Worker, SaveOutcome(w) PROVE Promised
  <2>1. /\ cur[w] \in Task /\ pc[w] = "finishing"
        /\ SaveOrLose(cur[w]) /\ obj' = obj
        /\ SameSpoiled
        /\ faults \in Nat
    BY <1>12, HandTyped, FaultsNat DEF SaveOutcome, memory, history, SameSpoiled, IInv
  <2>2. obj[cur[w]].status \in {"completed", "failed", "queued", "cancelled"}
    BY <2>1 DEF SafeInv, StatusInv, WorkerInv, TaskStatus, Terminal
  <2>3. obj[cur[w]].status = "queued" => cur[w] \in granted
    BY <2>1 DEF SafeInv, StatusInv, WorkerInv
  <2>4. Allowed(cur[w], obj'[cur[w]].status)
    BY <2>1, <2>2, <2>3 DEF SafeInv, RowInv, HandRow, Allowed
  <2> QED
    BY <2>1, <2>4, Saves DEF IInv
<1>13. ASSUME NEW w \in Worker, CancelStalled(w) PROVE Promised
  BY <1>13, Lags, FaultsNat DEF CancelStalled, memory, places, history, LoopFree,
      SameSpoiled, recorded, IInv
<1>14. ASSUME NEW w \in Worker, Unwind(w) PROVE Promised
  <2>1. /\ cur[w] \in Task
        /\ SaveOrLose(cur[w])
        /\ obj'[cur[w]].status = "running" /\ row[cur[w]].status = "running"
        /\ SameSpoiled
    BY <1>14, HandTyped DEF Unwind, memory, history, SameSpoiled,
        IInv, SafeInv, StatusInv, WorkerInv, RowInv, HandRow,
        Working, Running
  <2> QED
    BY <2>1, Saves DEF IInv, Allowed
<1>15. ASSUME NEW w \in Worker, FailStalled(w) PROVE Promised
  <2>1. /\ cur[w] \in Task
        /\ SaveOrLose(cur[w])
        /\ obj'[cur[w]].status = "failed" /\ row[cur[w]].status = "running"
        /\ SameSpoiled
    BY <1>15, HandTyped, SetStatusEffect DEF FailStalled, history, SameSpoiled,
        IInv, SafeInv, StatusInv, WorkerInv, RowInv, HandRow,
        Working, Running, TaskStatus, Terminal
  <2> QED
    BY <2>1, Saves DEF IInv, Allowed
<1>16. ASSUME NEW w \in Worker, RequeueStalled(w) PROVE Promised
  <2>1. /\ cur[w] \in Task /\ pc[w] = "retrying"
        /\ obj'[cur[w]].status = "queued"
        /\ SaveOrLose(cur[w])
        /\ SameSpoiled
    BY <1>16, HandTyped, SetStatusEffect DEF RequeueStalled, SaveOrLose, history, SameSpoiled, IInv,
        TaskStatus
  <2>2. cur[w] \notin affected \ granted
    BY <2>1 DEF EffectsInv
  <2>3. Allowed(cur[w], obj'[cur[w]].status)
    BY <2>1, <2>2 DEF SafeInv, RowInv, HandRow, Allowed
  <2> QED
    BY <2>1, <2>3, Saves DEF IInv
<1>17. ASSUME NEW w \in Worker, BumpRetry(w) PROVE Promised
  <2>1. /\ cur[w] \in Task
        /\ SaveOrLose(cur[w])
        /\ obj'[cur[w]].status = "queued" /\ row[cur[w]].status = "queued"
        /\ SameSpoiled
    BY <1>17, BumpEffect DEF SameSpoiled, IInv, SafeInv, StatusInv, WorkerInv, RowInv, HandRow
  <2> QED
    BY <2>1, Saves DEF IInv, Allowed
<1>18. ASSUME NEW e \in pending, PutEntry(e) PROVE Promised
  BY <1>18, Lags, FaultsNat DEF PutEntry, memory, workers, history, LoopFree,
      SameSpoiled, recorded, IInv
<1>19. ASSUME NEW e \in pending, FailSaturated(e) PROVE Promised
  <2>1. /\ e.task \in Task
        /\ SaveOrLose(e.task)
        /\ obj'[e.task].status = "failed"
        /\ row[e.task].status \in {"queued", "cancelled"}
        /\ SameSpoiled
    BY <1>19, SetStatusEffect, ConstantsAssumption DEF FailSaturated, history, SameSpoiled,
        IInv, TypeOK, Put, SafeInv, RowInv, TaskStatus, Terminal
  <2> QED
    BY <2>1, Saves DEF IInv, Allowed
<1>20. ASSUME NEW e \in pending, RejectPut(e) PROVE Promised
  BY <1>20, Lags, FaultsNat DEF RejectPut, memory, workers, history, LoopFree,
      SameSpoiled, recorded, IInv
<1>21. ASSUME NEW e \in pending, RollBack(e) PROVE Promised
  <2>1. /\ e.task \in Task /\ row[e.task].status # "running"
        /\ row'[e.task].status \in {row[e.task].status, "none"}
        /\ \A u \in Task \ {e.task} : row'[u] = row[u]
        /\ faults' = faults /\ SameSpoiled
    BY <1>21, NoRecordTyped, ConstantsAssumption
    DEF RollBack, history, SameSpoiled, IInv, TypeOK, Put, SafeInv, RowInv
  <2> QED
    BY <2>1, Writes DEF Allowed
<1>22. ASSUME NEW t \in Task, NEW p \in Prio, SubmitOnLoop(t, p) PROVE Promised
  <2>1. /\ row[t].status = "none" /\ row'[t].status = "queued"
        /\ \A u \in Task \ {t} : row'[u] = row[u]
        /\ affected' \ granted' = (affected \ granted) \ {t}
        /\ faults' = faults
    BY <1>22, TrackEffect DEF SubmitOnLoop, IInv
  <2>2. recorded[t] = "none" /\ recorded' = [recorded EXCEPT ![t] = "queued"]
    BY <2>1, RecordOf, RecordsOne
  <2> QED
    BY <2>1, <2>2 DEF Promised, Promise!Next, Promise!Accept, Promise!Records
<1>23. ASSUME NEW t \in Task, NEW p \in Prio, SubmitFromThread(t, p)
      PROVE  Promised
  <2>1. /\ row[t].status = "none" /\ row'[t].status = "queued"
        /\ \A u \in Task \ {t} : row'[u] = row[u]
        /\ affected' \ granted' = (affected \ granted) \ {t}
        /\ faults' = faults
    BY <1>23, TrackEffect DEF SubmitFromThread, IInv
  <2>2. recorded[t] = "none" /\ recorded' = [recorded EXCEPT ![t] = "queued"]
    BY <2>1, RecordOf, RecordsOne
  <2> QED
    BY <2>1, <2>2 DEF Promised, Promise!Next, Promise!Accept, Promise!Records
<1>24. ASSUME NEW t \in Task, EndBackoff(t) PROVE Promised
  BY <1>24, Lags, FaultsNat DEF EndBackoff, memory, workers, history, LoopFree,
      SameSpoiled, recorded, IInv
<1>25. ASSUME NEW t \in Task, CancelTask(t) PROVE Promised
  <2>1. /\ t \in live /\ obj[t].status \in {"queued", "cancelled"}
        /\ \/ /\ row[t].status # "none" /\ row'[t].status = "cancelled" /\ faults' = faults
              /\ \A u \in Task \ {t} : row'[u] = row[u]
           \/ row' = row /\ faults' \in {faults, faults + 1}
        /\ faults \in Nat
        /\ SameSpoiled
    BY <1>25, UpdateEffect, UpdateFailsCases, FaultsNat DEF CancelTask, UpdateStatus, history,
        SameSpoiled, IInv, TaskStatus, Terminal
  <2>2. CASE row' = row
    BY <2>1, <2>2, Lags DEF recorded
  <2>3. row[t].status # "completed"
    BY <2>1 DEF SafeInv, RowInv
  <2>4. faults = 0 => row[t].status \in {"queued", "cancelled"}
    <3>1. CASE Held(t)
      <4>1. PICK v \in Worker : cur[v] = t
        BY <3>1 DEF Held
      <4>2. pc[v] \notin AtQueue \cup {"draining"} /\ pc[v] \in WorkerState
        BY <4>1, ConstantsAssumption DEF IInv, TypeOK, HandInv, AtQueue
      <4> QED
        BY <2>1, <4>1, <4>2 DEF WorkerState, AtQueue, SafeInv, StatusInv, WorkerInv, RowInv, HandRow, Working,
            Running, HoldsLoop
    <3>2. CASE ~Held(t)
      BY <2>1, <3>2 DEF StoreAgrees
    <3> QED
      BY <3>1, <3>2
  <2>5. CASE row'[t].status = "cancelled" /\ faults' = faults
    BY <2>1, <2>2, <2>3, <2>4, <2>5, Writes DEF Allowed
  <2> QED
    BY <2>1, <2>2, <2>5
<1>26. ASSUME NEW t \in Task, RetryTask(t) PROVE Promised
  <2>1. /\ t \in live /\ obj[t].status = "failed" /\ obj'[t].status = "queued"
        /\ SaveOrLose(t)
        /\ affected' \ granted' = (affected \ granted) \ {t}
    BY <1>26, SetStatusEffect DEF RetryTask, IInv, TaskStatus
  <2>2. faults = 0 => row[t].status \in {"failed", "running"}
    <3>1. CASE Held(t)
      <4>1. PICK v \in Worker : cur[v] = t
        BY <3>1 DEF Held
      <4>2. pc[v] \notin AtQueue \cup {"draining"} /\ pc[v] \in WorkerState
        BY <4>1, ConstantsAssumption DEF IInv, TypeOK, HandInv, AtQueue
      <4> QED
        BY <2>1, <4>1, <4>2 DEF WorkerState, AtQueue, SafeInv, StatusInv, WorkerInv, RowInv, HandRow, Working,
            Running, HoldsLoop
    <3>2. CASE ~Held(t)
      BY <2>1, <3>2 DEF StoreAgrees
    <3> QED
      BY <3>1, <3>2
  <2>3. row[t].status \notin {"none", "completed"} /\ faults \in Nat
    BY <2>1, FaultsNat DEF SafeInv, RowInv, IInv
  <2>4. Promise!From(t, {"running", "failed"})
    BY <2>2, <2>3, RecordOf DEF Promise!From
  <2>5. CASE row' = row /\ faults' = faults + 1
    <3>1. recorded' = recorded /\ faults' > 0
      BY <2>3, <2>5 DEF recorded
    <3> QED
      BY <2>1, <2>4, <3>1 DEF Promised, Promise!Next, Promise!Waive, Promise!MayLose
  <2>6. CASE row'[t] = obj'[t] /\ faults' = faults
    <3>1. recorded' = [recorded EXCEPT ![t] = "queued"]
      BY <2>1, <2>6, SaveCases, RecordsOne DEF IInv
    <3> QED
      BY <2>1, <2>4, <2>6, <3>1 DEF Promised, Promise!Next, Promise!Waive, Promise!Records
  <2> QED
    BY <2>1, <2>5, <2>6, SaveCases DEF IInv
<1>27. ASSUME NEW t \in Task, Evict(t) PROVE Promised
  BY <1>27, Lags, FaultsNat DEF Evict, places, workers, history, LoopFree,
      Retired, SameSpoiled, recorded, IInv
<1>28. ASSUME NEW t \in Task, Prune(t) PROVE Promised
  <2>1. /\ row[t].status \in Terminal /\ row'[t].status = "none"
        /\ \A u \in Task \ {t} : row'[u] = row[u]
        /\ faults' = faults /\ SameSpoiled
    BY <1>28, NoRecordTyped DEF Prune, history, SameSpoiled, IInv, TypeOK
  <2> QED
    BY <2>1, Writes DEF Allowed, Terminal
<1>29. CASE Crash
  BY <1>29, Lags, FaultsNat DEF Crash, SameSpoiled, recorded, IInv
<1>30. CASE Recover
  BY <1>30, Interrupts DEF Recover, IInv, history, SameSpoiled
<1>31. CASE RecoverFails
  BY <1>31, Interrupts DEF RecoverFails, IInv, history, SameSpoiled
<1>32. CASE UNCHANGED vars
  BY <1>32, Lags, FaultsNat DEF vars, memory, places, workers, history,
      SameSpoiled, recorded, IInv
<1>33. ASSUME NEW w \in Worker, NEW e \in queue, Take(w, e) PROVE Promised
  BY <1>33, TakeMoves, Lags, FaultsNat DEF Moved, SameSpoiled, recorded, IInv
<1>34. ASSUME NEW w \in Worker, EndDrainWaiting(w) PROVE Promised
  BY <1>34, WaitMoves, Lags, FaultsNat DEF Moved, SameSpoiled, recorded, IInv
<1>35. ASSUME NEW w \in Worker, RequeueWaiting(w) PROVE Promised
  BY <1>35, WaitingEffect, UpdateFailsCases, Lags DEF RequeueWaiting, SameSpoiled, recorded, IInv
<1>36. ASSUME NEW w \in Worker, PutBack(w) PROVE Promised
  BY <1>36, BackMoves, Lags, FaultsNat DEF Moved, SameSpoiled, recorded, IInv
<1> QED
  BY <1>1, <1>2, <1>3, <1>4, <1>5, <1>6, <1>7, <1>8, <1>9, <1>10, <1>11, <1>12,
      <1>13, <1>14, <1>15, <1>16, <1>17, <1>18, <1>19, <1>20, <1>21, <1>22, <1>23,
      <1>24, <1>25, <1>26, <1>27, <1>28, <1>29, <1>30, <1>31, <1>32, <1>33, <1>34,
      <1>35, <1>36, Zenon DEF Next, Drain, Execute, HandleStall, RunPut, Submit

\* The task daemon implements TaskPromise: seen through its rows, every step is
\* one the promise allows (worker.py, maintenance.py, runner.py, task_store.py).
THEOREM Refinement == Spec => KeepsPromise
<1>1. Init => Promise!Init
  <2> SUFFICES ASSUME Init PROVE Promise!Init
    OBVIOUS
  <2>1. recorded = [t \in Task |-> "none"] /\ affected \ granted = {} /\ ~(faults > 0)
    BY NoRecordTyped DEF Init, recorded
  <2> QED
    BY <2>1 DEF Promise!Init
<1>2. IInv /\ SafeInv /\ EffectsInv /\ StoreAgrees /\ [Next]_vars
        => [Promise!Next]_(Promise!promise)
  BY PromiseStep DEF Promised
<1>3. Spec => []EffectsInv
  <2>1. Init => EffectsInv
    BY InitInv
  <2>2. IInv /\ EffectsInv /\ [Next]_vars => EffectsInv'
    BY EffectsStep DEF IInv
  <2> QED
    BY <2>1, <2>2, Invariance, PTL DEF Spec
<1> QED
  BY <1>1, <1>2, <1>3, Invariance, Safety, RowsAgree, PTL DEF Spec, KeepsPromise, Promise!Spec

=============================================================================
