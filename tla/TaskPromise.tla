---------------------------- MODULE TaskPromise ----------------------------
(* What the task daemon promises of its tasks, as their durable rows tell   *)
(* it: a task is accepted, started, settled and forgotten; completion is    *)
(* reached only from a started run and is never left; work that has had an  *)
(* effect comes back only on an operator's word; and an interruption fails  *)
(* exactly the runs it interrupts.  Once a write has been lost a record may *)
(* lag behind its task, and the order of the other outcomes with it.        *)

CONSTANT Task

VARIABLES
    status,   \* what is on record of each task
    spoiled,  \* the tasks whose work had an effect that no operator has waived
    lossy     \* whether a write has been lost

promise == <<status, spoiled, lossy>>

Init ==
    /\ status = [t \in Task |-> "none"]
    /\ spoiled = {}
    /\ lossy = FALSE

From(t, S) == status[t] \in S \/ (lossy /\ status[t] \notin {"none", "completed"})

Records(t, s) ==
    /\ status' = [status EXCEPT ![t] = s]
    /\ UNCHANGED lossy

MayLose == UNCHANGED status /\ lossy' = TRUE

Accept(t) ==
    /\ status[t] = "none"
    /\ Records(t, "queued")
    /\ spoiled' = spoiled \ {t}

Start(t) == status[t] = "queued" /\ Records(t, "running") /\ UNCHANGED spoiled

\* The work has its effect.  Queued work cannot: it has not been started.
Affect(t) ==
    /\ status[t] # "queued"
    /\ spoiled' = spoiled \cup {t}
    /\ UNCHANGED <<status, lossy>> \/ MayLose \/ Records(t, "running")

Complete(t) == status[t] = "running" /\ Records(t, "completed") /\ UNCHANGED spoiled

\* Also a cancelled task, when its put finds the queue full.
Fail(t) ==
    /\ From(t, {"queued", "running", "cancelled"})
    /\ Records(t, "failed")
    /\ UNCHANGED spoiled

Cancel(t) == From(t, {"queued"}) /\ Records(t, "cancelled") /\ UNCHANGED spoiled

\* The daemon tries again by itself.
Requeue(t) ==
    /\ From(t, {"failed"})
    /\ t \notin spoiled
    /\ Records(t, "queued")
    /\ UNCHANGED spoiled

\* An operator takes the risk, perhaps before the failure is on record.
Waive(t) ==
    /\ From(t, {"running", "failed"})
    /\ Records(t, "queued") \/ MayLose
    /\ spoiled' = spoiled \ {t}

\* The daemon comes up again.
Interrupt ==
    /\ status' = [t \in Task |-> IF status[t] = "running" THEN "failed" ELSE status[t]]
    /\ UNCHANGED <<spoiled, lossy>>

\* A refused submission is taken back; what is settled is pruned.
Forget(t) == status[t] # "running" /\ Records(t, "none") /\ UNCHANGED spoiled

Lose == MayLose /\ UNCHANGED spoiled

Next ==
    \/ \E t \in Task : \/ Accept(t) \/ Start(t) \/ Affect(t) \/ Complete(t) \/ Fail(t)
                       \/ Cancel(t) \/ Requeue(t) \/ Waive(t) \/ Forget(t)
    \/ Interrupt
    \/ Lose

Spec == Init /\ [][Next]_promise
=============================================================================
