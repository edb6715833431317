---------------------------- MODULE MCTaskDaemon ----------------------------
(* Instances of TaskDaemon for TLC. *)
EXTENDS TaskDaemon, TLC

CONSTANTS t1, t2, t3, t4, w1, w2

\* t2 depends on t1, and t1 and t3 on t4 where there is a t4; t2 is a prompt,
\* the others are implement runs.
MCDependsOn == [t \in Task |-> CASE t = t2 -> {t1}
                                 [] t = t4 -> {}
                                 [] OTHER -> {t4} \cap Task]
MCKindOf == [t \in Task |-> IF t = t2 THEN "prompt" ELSE "implement"]
MCCap == [k \in {"implement"} |-> 1]

Symmetry == Permutations(Worker)

\* A state every daemon with a t4 can come to: t4 was submitted and has
\* completed, and is still in live memory, from which it may be evicted.
InitLater ==
    /\ mode = "up"
    /\ obj = [t \in Task |-> IF t = t4 THEN [Fresh(0) EXCEPT !.status = "completed"]
                                       ELSE NoRecord]
    /\ live = {t4}
    /\ row = obj
    /\ queue = {} /\ pending = {} /\ delayed = {} /\ deferred = {}
    /\ pc = [w \in Worker |-> "idle"]
    /\ cur = [w \in Worker |-> NoTask]
    /\ granted = {} /\ affected = {}
    /\ faults = 0 /\ crashes = 0

SpecLater == InitLater /\ [][Next]_vars
=============================================================================
