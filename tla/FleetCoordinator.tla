-------------------------- MODULE FleetCoordinator --------------------------
(***************************************************************************)
(* The coordinator role: a daemon without workers that probes the machines *)
(* of its fleet, takes tasks back from machines that fell silent, and       *)
(* sends queued tasks to machines with free slots                           *)
(* (daemon/fleet_coordinator.py, fleet/dispatcher.py, fleet/client.py).     *)
(*                                                                         *)
(* One coroutine runs the dispatch tick; it suspends at the probes and at   *)
(* each submission, and there requests of clients and operators come        *)
(* between.  A machine is a daemon in the worker role, seen as what it does *)
(* with a submission: it takes a task id it does not know and may run it,   *)
(* and answers 409 to an id it knows.  Nothing a run does, its side effects *)
(* and its outcome included, is reported back, so a run is one step here.   *)
(* Requests and answers may be lost or late, machines go down and come up,  *)
(* and the coordinator may crash between any two steps.                     *)
(*                                                                         *)
(* Nothing raises side_effects_started on the coordinator's own object of   *)
(* a task that runs elsewhere, so the branch that fails a stale task        *)
(* (fleet_coordinator.py:308-324) is never taken.                           *)
(***************************************************************************)
EXTENDS Naturals, FiniteSets

CONSTANTS
    Task,         \* task ids
    Machine,      \* fleet.machines
    NoTask,       \* no submission under way
    NoMachine,    \* a task on no machine
    Capacity,     \* the capacity of each machine
    MaxDepth,     \* agent.max_queue_depth of the coordinator
    HealthRoute,  \* whether the machines serve the path the probe asks for
    Retryable,    \* bound: tasks an operator may retry, each one once
    MaxTroubles   \* bound: lost messages, machine failures, failed writes, crashes

ASSUME FleetAssumption ==
    /\ IsFiniteSet(Task)
    /\ NoTask \notin Task
    /\ NoMachine \notin Machine
    /\ Capacity \in [Machine -> Nat]
    /\ MaxDepth \in Nat \ {0}
    /\ HealthRoute \in BOOLEAN
    /\ Retryable \subseteq Task
    /\ MaxTroubles \in Nat

VARIABLES
    mode,       \* "up" while the coordinator runs
    obj,        \* the coordinator's Task objects: status and dispatched_to
    row,        \* their durable rows
    pending,    \* tasks whose put is scheduled on the loop
    depth,      \* entries on the coordinator's local queue, which nobody takes
    pc,         \* where the dispatch tick is
    probe,      \* what the probe of each machine found
    todo,       \* queued tasks of the tick's snapshot that are not placed yet
    load,       \* the tick's count of each machine's tasks
    ask,        \* the submission the tick waits for
    late,       \* submissions given up on that may still arrive
    up,         \* machines that are running
    remote,     \* what each machine has made of each task
    suspected,  \* history: tasks taken back, retried, or whose answer was lost
    troubles    \* history: troubles so far

memory == <<obj, pending, depth>>
tick == <<pc, probe, todo, load, ask>>
fleet == <<up, remote>>
vars == <<mode, memory, row, tick, late, fleet, suspected, troubles>>

-----------------------------------------------------------------------------
(* Tasks and their rows *)

Status == {"none", "queued", "dispatched", "failed", "cancelled"}
Record == [status : Status, at : Machine \cup {NoMachine}]

NoRecord == [status |-> "none", at |-> NoMachine]
Queued == [status |-> "queued", at |-> NoMachine]
Dispatched(m) == [status |-> "dispatched", at |-> m]

QueuedTasks == {t \in Task : obj[t].status = "queued"}
Placed(m) == {t \in Task : obj[t] = Dispatched(m)}

NoAsk == [task |-> NoTask, machine |-> NoMachine, answer |-> "none"]

Trouble == troubles < MaxTroubles /\ troubles' = troubles + 1
StoreFault == Trouble /\ UNCHANGED row
Save(t) == row' = [row EXCEPT ![t] = obj'[t]] /\ UNCHANGED troubles

\* A write whose failure is logged and swallowed, or reported to an operator
\* while the object keeps its change.
SaveOrLose(t) == Save(t) \/ StoreFault

-----------------------------------------------------------------------------
(* Requests of clients and operators, and the deferred put *)

Submit(t) ==
    /\ mode = "up"
    /\ obj[t] = NoRecord
    /\ row[t] = NoRecord
    /\ obj' = [obj EXCEPT ![t] = Queued]
    /\ Save(t)
    /\ pending' = pending \cup {t}
    /\ UNCHANGED <<mode, depth, tick, late, fleet, suspected>>

\* Mutated form of PutEntry: the bound is not looked at.
PutUnbounded(t) ==
    /\ mode = "up"
    /\ t \in pending
    /\ depth' = depth + 1
    /\ pending' = pending \ {t}
    /\ UNCHANGED <<mode, obj, row, tick, late, fleet, suspected, troubles>>
\* The scheduled put runs and there is room ...
PutEntry(t) ==
    /\ mode = "up"
    /\ t \in pending
    /\ depth < MaxDepth
    /\ depth' = depth + 1
    /\ pending' = pending \ {t}
    /\ UNCHANGED <<mode, obj, row, tick, late, fleet, suspected, troubles>>

\* ... or there is none, and the task is failed.
FailSaturated(t) ==
    /\ mode = "up"
    /\ t \in pending
    /\ depth >= MaxDepth
    /\ obj' = [obj EXCEPT ![t].status = "failed"]
    /\ SaveOrLose(t)
    /\ pending' = pending \ {t}
    /\ UNCHANGED <<mode, depth, tick, late, fleet, suspected>>

CancelTask(t) ==
    /\ mode = "up"
    /\ obj[t].status \in {"queued", "cancelled"}
    /\ obj' = [obj EXCEPT ![t].status = "cancelled"]
    /\ \/ row' = [row EXCEPT ![t].status = "cancelled"] /\ UNCHANGED troubles
       \/ StoreFault
    /\ UNCHANGED <<mode, pending, depth, tick, late, fleet, suspected>>

\* The coordinator plans from its task table, so that a retried task is
\* placed again although it is put on no queue.
RetryTask(t) ==
    /\ mode = "up"
    /\ t \in Retryable \ suspected
    /\ obj[t].status = "failed"
    /\ obj' = [obj EXCEPT ![t] = Queued]
    /\ SaveOrLose(t)
    /\ suspected' = suspected \cup {t}
    /\ UNCHANGED <<mode, pending, depth, tick, late, fleet>>

-----------------------------------------------------------------------------
(* The dispatch tick: probe every machine, now or after the pause between   *)
(* two ticks ...                                                             *)

Probed(m, found) ==
    /\ mode = "up"
    /\ pc = "probing"
    /\ probe[m] = "asked"
    /\ probe' = [probe EXCEPT ![m] = found]
    /\ UNCHANGED <<mode, memory, row, pc, todo, load, ask, late, fleet, suspected>>

ProbeAnswered(m) ==
    /\ Probed(m, IF HealthRoute /\ m \in up THEN "healthy" ELSE "unhealthy")
    /\ UNCHANGED troubles

ProbeLost(m) == Probed(m, "unhealthy") /\ m \in up /\ Trouble

(* ... take back the tasks of machines that neither answer nor were heard of *)
(* for three heartbeat intervals (silent), ...                               *)

AllProbed == mode = "up" /\ pc = "probing" /\ \A m \in Machine : probe[m] # "asked"

Stale(silent) ==
    {t \in Task : /\ obj[t].status = "dispatched"
                  /\ obj[t].at \in silent
                  /\ probe[obj[t].at] = "unhealthy"}

TakeBack(S) ==
    /\ obj' = [t \in Task |-> IF t \in S THEN Queued ELSE obj[t]]
    /\ suspected' = suspected \cup S

\* Mutated form of LoadOf: what runs already is not counted.
LoadIgnored == [m \in Machine |-> 0]
LoadOf == [m \in Machine |-> Cardinality(Placed(m)')]

Plan(silent) ==
    /\ AllProbed
    /\ TakeBack(Stale(silent))
    /\ row' = [t \in Task |-> IF t \in Stale(silent) THEN Queued ELSE row[t]]
    /\ pending' = pending \cup Stale(silent)
    /\ todo' = QueuedTasks'
    /\ load' = LoadOf
    /\ pc' = "dispatching"
    /\ UNCHANGED <<mode, depth, probe, ask, late, fleet, troubles>>

\* The write for t fails after those for S: the exception ends the tick.
PlanAborts(silent) ==
    /\ AllProbed
    /\ \E t \in Stale(silent) : \E S \in SUBSET (Stale(silent) \ {t}) :
          /\ TakeBack(S \cup {t})
          /\ row' = [u \in Task |-> IF u \in S THEN Queued ELSE row[u]]
          /\ pending' = pending \cup S
    /\ Trouble
    /\ pc' = "probing"
    /\ probe' = [m \in Machine |-> "asked"]
    /\ UNCHANGED <<mode, depth, todo, load, ask, late, fleet>>

(* ... and send the queued ones out, one after the other.  The plan depends *)
(* on nothing but the snapshot, so each step of its greedy loop is taken    *)
(* when its assignment is sent; the order of task ids is left open.         *)

HasSlot(m) == probe[m] = "healthy" /\ load[m] < Capacity[m]
MostFree(m) ==
    /\ HasSlot(m)
    /\ \A n \in Machine : HasSlot(n) => Capacity[n] - load[n] <= Capacity[m] - load[m]

Send(t, m) ==
    /\ mode = "up"
    /\ pc = "dispatching"
    /\ t \in todo
    /\ MostFree(m)
    /\ todo' = todo \ {t}
    /\ load' = [load EXCEPT ![m] = @ + 1]
    /\ ask' = [task |-> t, machine |-> m, answer |-> "none"]
    /\ pc' = "asking"
    /\ UNCHANGED <<mode, memory, row, probe, late, fleet, suspected, troubles>>

Forget == /\ pc' = "probing"
          /\ probe' = [m \in Machine |-> "asked"]
          /\ todo' = {}
          /\ load' = [m \in Machine |-> 0]
          /\ ask' = NoAsk

EndTick ==
    /\ mode = "up"
    /\ pc = "dispatching"
    /\ todo = {} \/ \A m \in Machine : ~HasSlot(m)
    /\ Forget
    /\ UNCHANGED <<mode, memory, row, late, fleet, suspected, troubles>>

\* The tick has its answer.  A put scheduled before the request was sent has
\* run by now.
Answered ==
    /\ mode = "up"
    /\ pc = "asking"
    /\ ask.answer # "none"
    /\ ask.task \notin pending
    /\ pc' = "dispatching"
    /\ ask' = NoAsk
    /\ UNCHANGED <<mode, pending, depth, probe, todo, load, late, fleet, suspected>>

\* Mutated form of Markable: without a second look at the task (#978d).
MarkableUnchecked == ask.answer = "submitted"
\* Mutated form of Markable: whatever the machine answered.
MarkableAnyway == obj[ask.task].status = "queued"
\* The snapshot is old by now, so the task must still be queued (#978d).
Markable == ask.answer = "submitted" /\ obj[ask.task].status = "queued"

MarkDispatched ==
    /\ Answered
    /\ Markable
    /\ obj' = [obj EXCEPT ![ask.task] = Dispatched(ask.machine)]
    /\ SaveOrLose(ask.task)

LeaveUnmarked == Answered /\ ~Markable /\ UNCHANGED <<obj, row, troubles>>

\* The submission under way, when it has not arrived yet.
OnItsWay == IF ask # NoAsk /\ ask.answer = "none" THEN {<<ask.machine, ask.task>>} ELSE {}

\* RemoteDaemonError: the machine is down, or the request or its answer is
\* lost; a request that was sent may still arrive.
RequestFails ==
    /\ mode = "up"
    /\ pc = "asking"
    /\ \/ /\ ask.machine \notin up
          /\ ask.answer = "none"
          /\ UNCHANGED <<late, suspected, troubles>>
       \/ /\ Trouble
          /\ suspected' = suspected \cup {ask.task}
          /\ late' \in {late, late \cup OnItsWay}
    /\ pc' = "dispatching"
    /\ ask' = NoAsk
    /\ UNCHANGED <<mode, memory, row, probe, todo, load, fleet>>

-----------------------------------------------------------------------------
(* The machines *)

\* A machine takes an id it does not know.
Receive(m, t) ==
    /\ m \in up
    /\ remote' = [remote EXCEPT ![m][t] = IF @ = "none" THEN "queued" ELSE @]
    /\ UNCHANGED <<mode, memory, row, pc, probe, todo, load, up, suspected, troubles>>

Deliver ==
    /\ pc = "asking"
    /\ ask.answer = "none"
    /\ Receive(ask.machine, ask.task)
    /\ ask' = [ask EXCEPT !.answer = IF remote[ask.machine][ask.task] = "none"
                                     THEN "submitted" ELSE "error"]
    /\ UNCHANGED late

DeliverLate(m, t) ==
    /\ <<m, t>> \in late
    /\ Receive(m, t)
    /\ late' = late \ {<<m, t>>}
    /\ UNCHANGED ask

\* The machine answers an error (401, 422, 500) and takes nothing.
Refuse ==
    /\ pc = "asking"
    /\ ask.answer = "none"
    /\ ask.machine \in up
    /\ Trouble
    /\ ask' = [ask EXCEPT !.answer = "error"]
    /\ UNCHANGED <<mode, memory, row, pc, probe, todo, load, late, fleet, suspected>>

RemoteRun(m, t) ==
    /\ m \in up
    /\ remote[m][t] = "queued"
    /\ remote' = [remote EXCEPT ![m][t] = "run"]
    /\ UNCHANGED <<mode, memory, row, tick, late, up, suspected, troubles>>

MachineDown(m) ==
    /\ m \in up
    /\ Trouble
    /\ up' = up \ {m}
    /\ UNCHANGED <<mode, memory, row, tick, late, remote, suspected>>

\* A machine that comes up again knows the tasks it knew.
MachineUp(m) ==
    /\ m \notin up
    /\ up' = up \cup {m}
    /\ UNCHANGED <<mode, memory, row, tick, late, remote, suspected, troubles>>

-----------------------------------------------------------------------------
(* Crash and restart of the coordinator *)

\* The answer to a submission under way is lost, and so is what was not saved.
Crash ==
    /\ mode = "up"
    /\ Trouble
    /\ mode' = "down"
    /\ obj' = [t \in Task |-> NoRecord]
    /\ pending' = {}
    /\ depth' = 0
    /\ Forget
    /\ late' \in {late, late \cup OnItsWay}
    /\ suspected' = suspected \cup {t \in Task : ask.task = t \/ row[t] # obj[t]}
    /\ UNCHANGED <<row, fleet>>

\* Mutated form of Restored: dispatched tasks come back as queued ones.
RestoredAsQueued(t) == IF row[t].status \in {"queued", "dispatched"} THEN Queued ELSE NoRecord
\* Dispatched tasks keep their machine; settled ones stay in the store.
Restored(t) == IF row[t].status \in {"queued", "dispatched"} THEN row[t] ELSE NoRecord

\* Queued rows are put on the local queue; more of them than it holds stop
\* the start.
Recover ==
    /\ mode = "down"
    /\ Cardinality({t \in Task : row[t].status = "queued"}) <= MaxDepth
    /\ mode' = "up"
    /\ obj' = [t \in Task |-> Restored(t)]
    /\ depth' = Cardinality({t \in Task : row[t].status = "queued"})
    /\ UNCHANGED <<row, pending, tick, late, fleet, suspected, troubles>>

-----------------------------------------------------------------------------
Init ==
    /\ mode = "up"
    /\ obj = [t \in Task |-> NoRecord]
    /\ row = [t \in Task |-> NoRecord]
    /\ pending = {}
    /\ depth = 0
    /\ pc = "probing"
    /\ probe = [m \in Machine |-> "asked"]
    /\ todo = {}
    /\ load = [m \in Machine |-> 0]
    /\ ask = NoAsk
    /\ late = {}
    /\ up = Machine
    /\ remote = [m \in Machine |-> [t \in Task |-> "none"]]
    /\ suspected = {}
    /\ troubles = 0

Client == \E t \in Task : Submit(t) \/ CancelTask(t) \/ RetryTask(t)

\* The callbacks of the loop and the coroutine of the tick.
Loop ==
    \/ \E t \in Task : PutEntry(t) \/ FailSaturated(t)
    \/ \E m \in Machine : ProbeAnswered(m) \/ ProbeLost(m)
    \/ \E silent \in SUBSET Machine : Plan(silent) \/ PlanAborts(silent)
    \/ \E t \in Task, m \in Machine : Send(t, m)
    \/ EndTick
    \/ MarkDispatched
    \/ LeaveUnmarked
    \/ RequestFails

Fleet ==
    \/ Deliver
    \/ Refuse
    \/ \E m \in Machine : MachineDown(m) \/ MachineUp(m)
    \/ \E m \in Machine, t \in Task : DeliverLate(m, t) \/ RemoteRun(m, t)

Next == Client \/ Loop \/ Fleet \/ Crash \/ Recover

Spec == Init /\ [][Next]_vars

\* The loop runs its coroutines and callbacks, a request to a running machine
\* is answered, machines and the coordinator are started again.  Clients,
\* troubles and what the machines make of their tasks are not fair.
Fairness ==
    /\ WF_vars(Loop)
    /\ WF_vars(Deliver)
    /\ \A m \in Machine : WF_vars(MachineUp(m))
    /\ WF_vars(Recover)

FairSpec == Spec /\ Fairness

-----------------------------------------------------------------------------
(* Properties *)

TypeOK ==
    /\ mode \in {"up", "down"}
    /\ obj \in [Task -> Record]
    /\ row \in [Task -> Record]
    /\ pending \subseteq Task
    /\ depth \in 0..MaxDepth
    /\ pc \in {"probing", "dispatching", "asking"}
    /\ probe \in [Machine -> {"asked", "healthy", "unhealthy"}]
    /\ todo \subseteq Task
    /\ load \in [Machine -> Nat]
    /\ ask \in [task : Task, machine : Machine, answer : {"none", "submitted", "error"}]
               \cup {NoAsk}
    /\ late \subseteq Machine \X Task
    /\ up \subseteq Machine
    /\ remote \in [Machine -> [Task -> {"none", "queued", "run"}]]
    /\ suspected \subseteq Task
    /\ troubles \in 0..MaxTroubles

\* A task the coordinator has on a machine, in memory or on disk, is one the
\* machine has taken: no failure has it wait for, or hold a slot for, a task
\* that never arrived.
PlacementIsReal ==
    \A t \in Task, m \in Machine :
        Dispatched(m) \in {obj[t], row[t]} => remote[m][t] # "none"

\* Two machines have the same task only when its first machine was given up,
\* its answer or the record of it was lost, or an operator retried it: a tick
\* alone, a failed save or a restart never places a task twice.
DoublePlacementIsExplained ==
    \A t \in Task : \A m, n \in Machine :
        m # n /\ remote[m][t] # "none" /\ remote[n][t] # "none" => t \in suspected

\* The coordinator has let go of a task that a machine may still have: it is in
\* doubt where the task is, or the task was cancelled or failed here while its
\* submission was under way.
Settled == {"cancelled", "failed"}
LetGo == {t \in Task : \/ t \in suspected
                       \/ obj[t].status \in Settled
                       \/ row[t].status \in Settled}

\* Whatever is lost or late, fails to be saved or is restored after a crash, a
\* machine has taken more tasks than its slots only where the coordinator has
\* let go of the others: what it has not let go of it counts, marked or not
\* (fleet_coordinator.py:206-221, fleet/dispatcher.py).
CapacityRespected ==
    \A m \in Machine :
        Cardinality({t \in Task \ LetGo : remote[m][t] # "none"}) <= Capacity[m]

\* A cancellation that falls between the snapshot and the answer is not
\* overwritten (#978d, SPEC.md:88-89).
CancelIsKept ==
    [][\A t \in Task : obj[t].status = "cancelled" => obj'[t].status # "dispatched"]_vars

-----------------------------------------------------------------------------
(* What the repository says of the fleet and the code does not do *)

\* "Handles the coordinator role: probing remote workers, dispatching queued
\* tasks to healthy machines" (fleet_coordinator.py:3-4): with machines that
\* run and have slots for all tasks a queued task is placed, settled, or its
\* whereabouts are in doubt.  No daemon serves the path of the probe
\* (fleet/client.py:37), and the fleet takes no task.
EventuallyPlaced ==
    \A t \in Task : obj[t].status = "queued" ~> obj[t].status # "queued" \/ t \in suspected

\* SPEC.md:12-14 and ADR-006: a stale task is taken back for another machine
\* only while its side effects have not started.  The coordinator never learns
\* that they have.
TakenBackIsUnaffected ==
    [][\A t \in Task, m \in Machine :
          obj[t] = Dispatched(m) /\ obj'[t] = Queued => remote[m][t] # "run"]_vars

\* SPEC.md:75-82: a dispatched task ends completed or failed.  Nothing takes a
\* task that its machine has run out of DISPATCHED, and its slot stays taken.
DispatchedIsSettled ==
    \A t \in Task, m \in Machine :
        obj[t] = Dispatched(m) /\ remote[m][t] = "run" ~> obj[t] # Dispatched(m)

-----------------------------------------------------------------------------
(* A capacity for TLC *)

\* Each machine has one slot.
OneSlotEach == [m \in Machine |-> 1]
=============================================================================
