----------------------------- MODULE WorkerPool -----------------------------
(***************************************************************************)
(* The number of workers and the end of the daemon: set_worker_count, the   *)
(* stop sentinels it puts on the task queue, and stop with and without      *)
(* drain (daemon/runner.py), against the loop of a worker                   *)
(* (daemon/worker.py).  The tasks themselves are TaskDaemon's: here a queue *)
(* entry is a task or a sentinel, and sentinels sort first.                 *)
(*                                                                         *)
(* A put into a full queue waits, so a scale-down is two steps or more, and *)
(* other requests come between them; everything else runs to its end on the *)
(* event loop.                                                             *)
(*                                                                         *)
(* The second part has the steps of a put from another thread.              *)
(***************************************************************************)
EXTENDS Naturals, Sequences, FiniteSets

CONSTANTS
    PoolCaller,   \* requests to scale that may be under way at a time
    Targets,      \* worker counts they ask for
    FirstCount,   \* worker_count of start
    QueueDepth,   \* max_queue_depth
    MaxWorkers,   \* bound: worker coroutines ever created
    MaxWork,      \* bound: tasks submitted
    MaxScalings   \* bound: calls of set_worker_count

ASSUME PoolAssumption ==
    /\ Targets \subseteq 1..64
    /\ MaxWorkers \in Nat /\ FirstCount \in 1..MaxWorkers
    /\ QueueDepth \in Nat \ {0}
    /\ MaxWork \in Nat /\ MaxScalings \in Nat

VARIABLES
    daemon,       \* running, draining, cancelling or stopped
    loops,        \* the state of each worker coroutine made so far
    tracked,      \* _workers: the coroutines the daemon knows
    awaited,      \* those a drain waits for, or a stop has cancelled
    entries,      \* tasks and sentinels on the queue
    scaling,      \* sentinels each request still has to put, and its target
    submitted,    \* history: tasks submitted
    scalings,     \* history: calls of set_worker_count
    crossed       \* history: a request came into another one, or into a stop

poolVars == <<daemon, loops, tracked, awaited, entries, scaling, submitted, scalings, crossed>>

-----------------------------------------------------------------------------
NoScaling == [todo |-> 0, target |-> 0]
Scaling == {c \in PoolCaller : scaling[c] # NoScaling}
OnQueue == entries.tasks + entries.stops
Room == IF OnQueue < QueueDepth THEN QueueDepth - OnQueue ELSE 0

IsLoop(w, s) == w \in DOMAIN loops /\ loops[w] = s
Becomes(w, s) == loops' = [loops EXCEPT ![w] = s]
AliveLoops == {w \in DOMAIN loops : loops[w] # "gone"}
Members(q) == {q[i] : i \in DOMAIN q}

\* Submission is not closed by a stop; a full queue refuses.
SubmitWork ==
    /\ daemon # "stopped"
    /\ submitted < MaxWork
    /\ Room > 0
    /\ entries' = [entries EXCEPT !.tasks = @ + 1]
    /\ submitted' = submitted + 1
    /\ UNCHANGED <<daemon, loops, tracked, awaited, scaling, scalings, crossed>>

-----------------------------------------------------------------------------
(* The loop of a worker *)

TakeWork(w) ==
    /\ IsLoop(w, "ready")
    /\ entries.stops = 0 /\ entries.tasks > 0
    /\ entries' = [entries EXCEPT !.tasks = @ - 1]
    /\ Becomes(w, "busy")
    /\ UNCHANGED <<daemon, tracked, awaited, scaling, submitted, scalings, crossed>>

EndWork(w) ==
    /\ IsLoop(w, "busy")
    /\ Becomes(w, "ready")
    /\ UNCHANGED <<daemon, tracked, awaited, entries, scaling, submitted, scalings, crossed>>

\* Mutated form of TakeSentinel: the sentinel stays on the queue.
TakeSentinelAndKeep(w) ==
    /\ IsLoop(w, "ready")
    /\ entries.stops > 0
    /\ Becomes(w, "gone")
    /\ UNCHANGED <<daemon, tracked, awaited, entries, scaling, submitted, scalings, crossed>>
\* Whichever worker comes first takes a sentinel, tracked or not.
TakeSentinel(w) ==
    /\ IsLoop(w, "ready")
    /\ entries.stops > 0
    /\ entries' = [entries EXCEPT !.stops = @ - 1]
    /\ Becomes(w, "gone")
    /\ UNCHANGED <<daemon, tracked, awaited, scaling, submitted, scalings, crossed>>

LeaveLoop(w) ==
    /\ IsLoop(w, "ready")
    /\ daemon # "running"
    /\ OnQueue = 0
    /\ Becomes(w, "gone")
    /\ UNCHANGED <<daemon, tracked, awaited, entries, scaling, submitted, scalings, crossed>>

-----------------------------------------------------------------------------
(* set_worker_count *)

Request ==
    /\ daemon # "stopped"
    /\ scalings < MaxScalings
    /\ scalings' = scalings + 1
    /\ crossed' = (crossed \/ Scaling # {} \/ daemon # "running")

ScaleUp(c, n) ==
    /\ scaling[c] = NoScaling
    /\ n >= Len(tracked)
    /\ Len(loops) + n - Len(tracked) <= MaxWorkers
    /\ Request
    /\ LET more == n - Len(tracked)
       IN /\ loops' = loops \o [i \in 1..more |-> "ready"]
          /\ tracked' = tracked \o [i \in 1..more |-> Len(loops) + i]
    /\ UNCHANGED <<daemon, awaited, entries, scaling, submitted>>

\* Puts what there is room for; with the last sentinel the list of workers is
\* cut to the target.
PutSentinels(c, todo, n) ==
    LET put == IF todo < Room THEN todo ELSE Room
    IN /\ entries' = [entries EXCEPT !.stops = @ + put]
       /\ IF put = todo
          THEN /\ scaling' = [scaling EXCEPT ![c] = NoScaling]
               /\ tracked' = IF n < Len(tracked) THEN SubSeq(tracked, 1, n) ELSE tracked
          ELSE /\ scaling' = [scaling EXCEPT ![c] = [todo |-> todo - put, target |-> n]]
               /\ UNCHANGED tracked

\* Mutated form of ScaleDown: one sentinel, whatever the target.
ScaleDownByOne(c, n) ==
    /\ scaling[c] = NoScaling
    /\ n < Len(tracked)
    /\ Request
    /\ PutSentinels(c, 1, n)
    /\ UNCHANGED <<daemon, loops, awaited, submitted>>
ScaleDown(c, n) ==
    /\ scaling[c] = NoScaling
    /\ n < Len(tracked)
    /\ Request
    /\ PutSentinels(c, Len(tracked) - n, n)
    /\ UNCHANGED <<daemon, loops, awaited, submitted>>

GoOnScaling(c) ==
    /\ scaling[c] # NoScaling
    /\ Room > 0
    /\ PutSentinels(c, scaling[c].todo, scaling[c].target)
    /\ UNCHANGED <<daemon, loops, awaited, submitted, scalings, crossed>>

-----------------------------------------------------------------------------
(* stop *)

BeginStop(drain) ==
    /\ daemon = "running"
    /\ daemon' = IF drain THEN "draining" ELSE "cancelling"
    /\ awaited' = Members(tracked)
    /\ crossed' = (crossed \/ Scaling # {})
    /\ UNCHANGED <<loops, tracked, entries, scaling, submitted, scalings>>

EndLoops(ws) == loops' = [w \in DOMAIN loops |-> IF w \in ws THEN "gone" ELSE loops[w]]

\* Those awaited are gone by themselves, or the timeout cancels them; then the
\* workers that are in the list by now are cancelled.
EndDraining ==
    /\ daemon = "draining"
    /\ daemon' = "cancelling"
    /\ EndLoops(awaited)
    /\ awaited' = Members(tracked)
    /\ UNCHANGED <<tracked, entries, scaling, submitted, scalings, crossed>>

\* Mutated form of EndStop: the workers are awaited and not cancelled.
EndStopPatiently ==
    /\ daemon = "cancelling"
    /\ daemon' = "stopped"
    /\ tracked' = <<>>
    /\ UNCHANGED <<loops, awaited, entries, scaling, submitted, scalings, crossed>>
\* Those that were cancelled have ended, and the list is cleared: a worker that a
\* request added in the meantime is left to itself.
EndStop ==
    /\ daemon = "cancelling"
    /\ daemon' = "stopped"
    /\ EndLoops(awaited)
    /\ tracked' = <<>>
    /\ UNCHANGED <<awaited, entries, scaling, submitted, scalings, crossed>>

-----------------------------------------------------------------------------
PoolInit ==
    /\ daemon = "running"
    /\ loops = [i \in 1..FirstCount |-> "ready"]
    /\ tracked = [i \in 1..FirstCount |-> i]
    /\ awaited = {}
    /\ entries = [tasks |-> 0, stops |-> 0]
    /\ scaling = [c \in PoolCaller |-> NoScaling]
    /\ submitted = 0
    /\ scalings = 0
    /\ crossed = FALSE

WorkerTurn(w) == TakeWork(w) \/ EndWork(w) \/ TakeSentinel(w) \/ LeaveLoop(w)

PoolNext ==
    \/ SubmitWork
    \/ \E w \in 1..MaxWorkers : WorkerTurn(w)
    \/ \E c \in PoolCaller, n \in Targets : ScaleUp(c, n) \/ ScaleDown(c, n)
    \/ \E c \in PoolCaller : GoOnScaling(c)
    \/ \E drain \in BOOLEAN : BeginStop(drain)
    \/ EndDraining \/ EndStop

PoolSpec == PoolInit /\ [][PoolNext]_poolVars

-----------------------------------------------------------------------------
(* Properties *)

PoolTypeOK ==
    /\ daemon \in {"running", "draining", "cancelling", "stopped"}
    /\ Len(loops) <= MaxWorkers
    /\ \A w \in DOMAIN loops : loops[w] \in {"ready", "busy", "gone"}
    /\ Members(tracked) \cup awaited \subseteq DOMAIN loops
    /\ OnQueue \in 0..QueueDepth
    /\ scaling \in [PoolCaller -> [todo : 0..MaxWorkers, target : Targets \cup {0}]]
    /\ submitted \in 0..MaxWork /\ scalings \in 0..MaxScalings
    /\ crossed \in BOOLEAN

Unsent(c) == scaling[c].todo
\* The workers that go on once the sentinels are taken are as many as the
\* last request asked for, though any worker may have taken any sentinel and
\* the list may name others than those that are left; so the pool never runs
\* empty.  Requests that cross each other over a full queue break it.
WorkersMatchTarget ==
    daemon = "running" /\ ~crossed =>
        /\ \A c \in PoolCaller : Scaling \subseteq {c} =>
              Cardinality(AliveLoops) = entries.stops + (IF Scaling = {} THEN Len(tracked)
                                                      ELSE Unsent(c) + scaling[c].target)
        /\ AliveLoops # {}

\* A request to scale returns, though it may have to wait for room on the
\* queue: as long as the daemon runs, some worker goes on and makes room.
ScalingEnds ==
    \A c \in PoolCaller : scaling[c] # NoScaling ~>
        scaling[c] = NoScaling \/ crossed \/ daemon # "running"

\* runner.py:600-602: without drain the workers are cancelled at once and tasks in
\* flight are interrupted, so that none runs on once stop returns, but for those
\* that a request to scale cut from the list with a task in hand, or added to it
\* while the daemon was stopping.
StopInterrupts ==
    daemon = "stopped" =>
        \A w \in DOMAIN loops :
            loops[w] = "busy" => scalings > 0 /\ \E n \in Targets \cup {FirstCount} : w > n

-----------------------------------------------------------------------------
(***************************************************************************)
(* Threads that submit or reprioritize tasks while the event loop runs      *)
(* (daemon/submission.py, Daemon.reprioritize_task).  The put happens on    *)
(* the loop; the thread waits for its result, at most 60 seconds.  submit   *)
(* tracks the task under _tasks_lock and waits without it; reprioritize     *)
(* waits with it, and a coroutine that wants the lock then holds up the     *)
(* loop.  TaskDaemon has these calls one step long; here are their steps.   *)
(***************************************************************************)
CONSTANTS
    Submitter,     \* threads that submit one task each, named like its thread
    Reprioritizer, \* threads that reprioritize a task queued before
    OldTask,       \* that task
    HandoffDepth   \* max_queue_depth

ASSUME HandoffAssumption ==
    /\ Submitter \cap Reprioritizer = {}
    /\ OldTask \notin Submitter \cup Reprioritizer
    /\ HandoffDepth \in Nat \ {0}

VARIABLES
    lockedBy,     \* who holds _tasks_lock, or "nobody"
    eventLoop,    \* free, or blocked on the lock
    asked,        \* where each thread's call is
    callbacks,    \* puts scheduled on the loop, in order
    known,        \* tasks in _tasks with a row, and what they are
    entered,      \* tasks with an entry on the queue, with how many
    dropped       \* history: puts refused after their thread had given up

handoffVars == <<lockedBy, eventLoop, asked, callbacks, known, entered, dropped>>

-----------------------------------------------------------------------------
Caller == Submitter \cup Reprioritizer
TaskOfCall(c) == IF c \in Submitter THEN c ELSE OldTask
InQueue == Cardinality(entered)
Asks(c, s) == asked' = [asked EXCEPT ![c] = s]

\* Mutated form of TrackTask: the lock is held until the put is done.
TrackTaskAndHold(c) ==
    /\ c \in Submitter
    /\ asked[c] = "idle"
    /\ lockedBy = "nobody"
    /\ lockedBy' = c
    /\ known' = [known EXCEPT ![c] = "queued"]
    /\ Asks(c, "tracked")
    /\ UNCHANGED <<eventLoop, callbacks, entered, dropped>>
\* Save and track under the lock, which is released again.
TrackTask(c) ==
    /\ c \in Submitter
    /\ asked[c] = "idle"
    /\ lockedBy = "nobody"
    /\ known' = [known EXCEPT ![c] = "queued"]
    /\ Asks(c, "tracked")
    /\ UNCHANGED <<lockedBy, eventLoop, callbacks, entered, dropped>>

SchedulePut(c) ==
    /\ asked[c] = "tracked"
    /\ callbacks' = Append(callbacks, c)
    /\ Asks(c, "waiting")
    /\ UNCHANGED <<lockedBy, eventLoop, known, entered, dropped>>

LockAndSchedulePut(c) ==
    /\ c \in Reprioritizer
    /\ asked[c] = "idle"
    /\ lockedBy = "nobody"
    /\ known[OldTask] = "queued"
    /\ lockedBy' = c
    /\ callbacks' = Append(callbacks, c)
    /\ Asks(c, "waiting")
    /\ UNCHANGED <<eventLoop, known, entered, dropped>>

\* The result is in; reprioritize saves after it has released the lock.
Unlock(c) == lockedBy' = IF lockedBy = c THEN "nobody" ELSE lockedBy
ReturnFromPut(c) ==
    /\ asked[c] = "put"
    /\ Asks(c, "returned")
    /\ Unlock(c)
    /\ UNCHANGED <<eventLoop, callbacks, known, entered, dropped>>

\* A refused submission is taken back under the lock; a refused entry of
\* reprioritize changes nothing but the priority in memory.
RollBackSubmission(c) ==
    /\ asked[c] = "full"
    /\ \/ c \in Submitter /\ lockedBy = "nobody" /\ known' = [known EXCEPT ![c] = "none"]
       \/ c \in Reprioritizer /\ UNCHANGED known
    /\ Asks(c, "refused")
    /\ Unlock(c)
    /\ UNCHANGED <<eventLoop, callbacks, entered, dropped>>

\* Mutated form of GiveUp: the thread takes its task back, as if it were refused.
GiveUpAsRefused(c) ==
    /\ asked[c] = "waiting"
    /\ Asks(c, "full")
    /\ UNCHANGED <<lockedBy, eventLoop, callbacks, known, entered, dropped>>
\* After 60 seconds the thread raises; what it scheduled stays scheduled.
GiveUp(c) ==
    /\ asked[c] = "waiting"
    /\ Asks(c, "raised")
    /\ Unlock(c)
    /\ UNCHANGED <<eventLoop, callbacks, known, entered, dropped>>

-----------------------------------------------------------------------------
(* The event loop *)

\* Mutated form of RunScheduledPut: a full queue is not looked at.
RunScheduledPutAnyway ==
    /\ eventLoop = "free"
    /\ callbacks # <<>>
    /\ callbacks' = Tail(callbacks)
    /\ entered' = entered \cup {Head(callbacks)}
    /\ asked' = [asked EXCEPT ![Head(callbacks)] = IF @ = "waiting" THEN "put" ELSE @]
    /\ UNCHANGED <<lockedBy, eventLoop, known, dropped>>
RunScheduledPut ==
    /\ eventLoop = "free"
    /\ callbacks # <<>>
    /\ callbacks' = Tail(callbacks)
    /\ LET c == Head(callbacks)
       IN \/ /\ InQueue < HandoffDepth
             /\ entered' = entered \cup {c}
             /\ asked' = [asked EXCEPT ![c] = IF @ = "waiting" THEN "put" ELSE @]
             /\ UNCHANGED dropped
          \/ /\ InQueue >= HandoffDepth
             /\ asked' = [asked EXCEPT ![c] = IF @ = "waiting" THEN "full" ELSE @]
             /\ dropped' = IF asked[c] = "waiting" THEN dropped ELSE dropped \cup {c}
             /\ UNCHANGED entered
    /\ UNCHANGED <<lockedBy, eventLoop, known>>

\* A worker takes an entry, then needs the lock: the whole loop waits for it.
WantLock ==
    /\ eventLoop = "free"
    /\ lockedBy # "nobody"
    /\ entered # {}
    /\ eventLoop' = "blocked"
    /\ UNCHANGED <<lockedBy, asked, callbacks, known, entered, dropped>>

GetLock ==
    /\ eventLoop = "blocked"
    /\ lockedBy = "nobody"
    /\ eventLoop' = "free"
    /\ UNCHANGED <<lockedBy, asked, callbacks, known, entered, dropped>>

\* An entry whose task is queued starts it, another one is skipped.
ClaimEntry(e) ==
    /\ eventLoop = "free"
    /\ lockedBy = "nobody"
    /\ e \in entered
    /\ entered' = entered \ {e}
    /\ LET t == IF e \in Caller THEN TaskOfCall(e) ELSE e
       IN known' = IF known[t] = "queued" THEN [known EXCEPT ![t] = "started"] ELSE known
    /\ UNCHANGED <<lockedBy, eventLoop, asked, callbacks, dropped>>

-----------------------------------------------------------------------------
HandoffInit ==
    /\ lockedBy = "nobody"
    /\ eventLoop = "free"
    /\ asked = [c \in Caller |-> "idle"]
    /\ callbacks = <<>>
    /\ known = [t \in Submitter \cup {OldTask} |-> IF t = OldTask THEN "queued" ELSE "none"]
    /\ entered = {OldTask}
    /\ dropped = {}

HandoffNext ==
    \/ \E c \in Caller : \/ TrackTask(c) \/ SchedulePut(c) \/ LockAndSchedulePut(c)
                         \/ ReturnFromPut(c) \/ RollBackSubmission(c) \/ GiveUp(c)
    \/ RunScheduledPut \/ WantLock \/ GetLock
    \/ \E e \in Caller \cup {OldTask} : ClaimEntry(e)

HandoffSpec == HandoffInit /\ [][HandoffNext]_handoffVars

-----------------------------------------------------------------------------
(* Properties *)

HandoffTypeOK ==
    /\ lockedBy \in Caller \cup {"nobody"}
    /\ eventLoop \in {"free", "blocked"}
    /\ asked \in [Caller -> {"idle", "tracked", "waiting", "put", "full", "returned",
                             "refused", "raised"}]
    /\ \A i \in DOMAIN callbacks : callbacks[i] \in Caller
    /\ known \in [Submitter \cup {OldTask} -> {"none", "queued", "started"}]
    /\ entered \subseteq Caller \cup {OldTask} /\ InQueue <= HandoffDepth
    /\ dropped \subseteq Caller

\* What a submitting thread is told is what happens: a refused task is gone
\* and never starts, an accepted one has its entry until it starts.  A thread
\* that gave up knows nothing: its task may start, or stay queued for ever if
\* the late put was refused.
AnswersAreTrue ==
    \A c \in Submitter :
        /\ asked[c] = "refused" => known[c] = "none" /\ c \notin entered
        /\ asked[c] = "returned" => known[c] = "started" \/ c \in entered
        /\ known[c] = "queued" /\ c \notin entered =>
              asked[c] \in {"tracked", "waiting", "full"} \/ c \in dropped
                 \/ \E i \in DOMAIN callbacks : callbacks[i] = c

\* The loop stands still for want of the lock only while reprioritize_task
\* holds it: a submission never waits for the loop with the lock in hand.
LoopWaitsForReprioritizeOnly ==
    eventLoop = "blocked" /\ lockedBy # "nobody" => lockedBy \in Reprioritizer

\* submission.py:286-289: holding the lock across the cross-thread enqueue can
\* deadlock the loop, so the put must happen outside it.  reprioritize_task
\* waits for the loop with the lock in hand.
LoopIsNotHeldUp ==
    eventLoop = "blocked" => ~\E c \in Caller : lockedBy = c /\ asked[c] = "waiting"
=============================================================================
