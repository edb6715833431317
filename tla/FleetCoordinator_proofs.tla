----------------------- MODULE FleetCoordinator_proofs -----------------------
(* Machine-checked theorems about the specification of FleetCoordinator. *)
EXTENDS FleetCoordinator, FiniteSetTheorems, TLAPS

-----------------------------------------------------------------------------
(* The inductive invariants *)

\* No machine has heard of the task.
Unheard(t) == \A m \in Machine : remote[m][t] = "none"

\* The tick waits for an answer exactly while a submission is under way, and
\* between a crash and the next start nothing is in memory.
TickInv ==
    /\ pc = "asking" <=> ask # NoAsk
    /\ mode = "down" => pc = "probing" /\ obj = [t \in Task |-> NoRecord]

\* What a machine said it has taken it has taken.
RealInv ==
    /\ PlacementIsReal
    /\ ask.answer = "submitted" => remote[ask.machine][ask.task] # "none"

\* A task without a row was never submitted.
UnknownInv ==
    \A t \in Task : row[t].status = "none" =>
        /\ obj[t].status = "none" /\ t \notin pending \cup todo /\ ask.task # t
        /\ Unheard(t) /\ \A m \in Machine : <<m, t>> \notin late

\* A task whose whereabouts are in no doubt has been sent to no machine while
\* it waits, and to one at most once it was sent.
SentOnce(t) ==
    /\ obj[t].status = "queued" /\ ask.task # t => Unheard(t)
    /\ t \in todo => Unheard(t)
    /\ ask.task = t =>
          /\ ask.answer # "submitted" => Unheard(t)
          /\ \A m \in Machine \ {ask.machine} : remote[m][t] = "none"
    /\ mode = "down" /\ row[t].status = "queued" => Unheard(t)

\* A request that is late leaves its task in doubt.
DoubtInv ==
    /\ ask.task \notin todo
    /\ \A m \in Machine, t \in Task : <<m, t>> \in late => t \in suspected
    /\ \A t \in Task \ suspected : SentOnce(t)
    /\ DoublePlacementIsExplained

\* What the tick is about to send or has sent waits here or was settled, and
\* what is settled on disk alone is in doubt, unless it is not in memory.
WaitInv ==
    /\ pc = "probing" => todo = {}
    /\ \A t \in Task : t \in todo \/ ask.task = t =>
          obj[t].status \in {"queued"} \cup Settled
    /\ \A t \in Task \ suspected :
          row[t].status \in Settled => obj[t].status \in {"none"} \cup Settled

\* What a machine has, other than the task the tick waits for, is counted for
\* it unless the coordinator has let go of it.
HeldInv ==
    \A t \in Task, m \in Machine :
        remote[m][t] # "none" /\ ask.task # t /\ t \notin LetGo =>
            Dispatched(m) = (IF mode = "up" THEN obj[t] ELSE row[t])

Taken(m) == {t \in Task : remote[m][t] # "none" /\ ask.task # t /\ t \notin LetGo}

\* What a machine has been sent, and may answer, in this tick.
Asked(m) == IF ask.machine = m THEN 1 ELSE 0

\* The tick's count covers what a machine has and what is under way to it, and
\* a slot is taken only when one is free.
LoadInv ==
    \A m \in Machine :
        /\ Cardinality(Taken(m)) + Asked(m) <= Capacity[m]
        /\ pc # "probing" => Cardinality(Taken(m)) + Asked(m) <= load[m]

FleetInv == /\ TypeOK /\ TickInv /\ RealInv /\ UnknownInv /\ DoubtInv
            /\ WaitInv /\ HeldInv /\ LoadInv

-----------------------------------------------------------------------------
(* Records, and the submission under way *)

\* The records that the actions write are records.
LEMMA RecordsTyped ==
    /\ NoRecord \in Record /\ Queued \in Record
    /\ \A m \in Machine : Dispatched(m) \in Record
BY DEF NoRecord, Queued, Dispatched, Record, Status

\* Changing the status of a task's record leaves the other records alone.
LEMMA StatusChange ==
    ASSUME NEW f \in [Task -> Record], NEW t \in Task, NEW s \in Status
    PROVE  LET g == [f EXCEPT ![t].status = s] IN
           /\ g \in [Task -> Record]
           /\ g[t].status = s /\ g[t].at = f[t].at
           /\ \A u \in Task \ {t} : g[u] = f[u]
BY DEF Record

\* While the tick waits there is a task and a machine it has asked.
LEMMA AskTyped ==
    ASSUME TypeOK, TickInv, pc = "asking" \/ ask.answer # "none" \/ ask.machine \in Machine
    PROVE  /\ ask \in [task : Task, machine : Machine, answer : {"none", "submitted", "error"}]
           /\ ask.task \in Task /\ ask.machine \in Machine
           /\ ask.task # NoTask /\ ask.machine # NoMachine
BY FleetAssumption DEF TypeOK, TickInv, NoAsk

-----------------------------------------------------------------------------
(* What the steps that change tasks do to objects and rows *)

\* A trouble is counted up to its bound.
LEMMA TroubleTyped ==
    ASSUME TypeOK, Trouble
    PROVE  troubles' \in 0..MaxTroubles
BY FleetAssumption DEF TypeOK, Trouble

\* Other tasks keep object and row, and the task's row follows its object
\* unless the write is lost.
Follows(t) ==
    /\ obj' \in [Task -> Record] /\ row' \in [Task -> Record]
    /\ \A u \in Task \ {t} : obj'[u] = obj[u] /\ row'[u] = row[u]
    /\ \/ /\ obj[t] = row[t] => obj'[t] = row'[t]
          /\ row'[t].status = obj'[t].status
       \/ row' = row
    /\ troubles' \in 0..MaxTroubles

\* A change of one task with a write that may be lost.
LEMMA SaveFollows ==
    ASSUME TypeOK, NEW t \in Task, SaveOrLose(t), obj' \in [Task -> Record],
           \A u \in Task \ {t} : obj'[u] = obj[u]
    PROVE  Follows(t) /\ (row'[t] = obj'[t] \/ row' = row)
<1>1. CASE Save(t)
  <2>1. row' \in [Task -> Record] /\ row'[t] = obj'[t] /\ \A u \in Task \ {t} : row'[u] = row[u]
    BY <1>1 DEF TypeOK, Save
  <2>2. troubles' \in 0..MaxTroubles
    BY <1>1 DEF Save, TypeOK
  <2> QED
    BY <2>1, <2>2 DEF Follows
<1>2. CASE StoreFault
  BY <1>2, TroubleTyped DEF TypeOK, StoreFault, Follows
<1> QED
  BY <1>1, <1>2 DEF SaveOrLose

\* An unknown task becomes queued, in memory and on disk.
LEMMA SubmitEffect ==
    ASSUME TypeOK, NEW t \in Task, Submit(t)
    PROVE  /\ Follows(t)
           /\ obj[t] = NoRecord /\ row[t] = NoRecord
           /\ obj'[t] = Queued /\ row'[t] = Queued
<1>1. /\ obj' \in [Task -> Record] /\ obj'[t] = Queued
      /\ \A u \in Task \ {t} : obj'[u] = obj[u]
  BY RecordsTyped DEF TypeOK, Submit
<1>2. SaveOrLose(t) /\ row'[t] = obj'[t]
  BY DEF Submit, SaveOrLose, Save, TypeOK
<1> QED
  BY <1>1, <1>2, SaveFollows DEF Submit

\* Cancelling writes the status alone, so that a row follows only where it
\* agreed before.
LEMMA CancelEffect ==
    ASSUME TypeOK, NEW t \in Task, CancelTask(t)
    PROVE  /\ Follows(t)
           /\ obj[t].status \in {"queued", "cancelled"}
           /\ obj'[t].status = "cancelled"
<1>1. "cancelled" \in Status
  BY DEF Status
<1>2. /\ obj' \in [Task -> Record] /\ obj'[t].status = "cancelled" /\ obj'[t].at = obj[t].at
      /\ \A u \in Task \ {t} : obj'[u] = obj[u]
  BY <1>1, StatusChange DEF TypeOK, CancelTask
<1>3. CASE row' = [row EXCEPT ![t].status = "cancelled"] /\ UNCHANGED troubles
  <2>1. /\ row' \in [Task -> Record] /\ row'[t].status = "cancelled" /\ row'[t].at = row[t].at
        /\ \A u \in Task \ {t} : row'[u] = row[u]
    BY <1>1, <1>3, StatusChange DEF TypeOK
  <2>2. obj[t] = row[t] => obj'[t] = row'[t]
    BY <1>2, <2>1 DEF Record
  <2> QED
    BY <1>2, <1>3, <2>1, <2>2 DEF Follows, TypeOK, CancelTask
<1>4. CASE StoreFault
  BY <1>2, <1>4, TroubleTyped DEF Follows, TypeOK, CancelTask, StoreFault
<1> QED
  BY <1>3, <1>4 DEF CancelTask

\* A put that finds no room fails its task.
LEMMA SaturatedEffect ==
    ASSUME TypeOK, NEW t \in Task, FailSaturated(t)
    PROVE  /\ Follows(t) /\ (row'[t] = obj'[t] \/ row' = row)
           /\ obj'[t].status = "failed"
<1>1. /\ obj' \in [Task -> Record] /\ obj'[t].status = "failed"
      /\ \A u \in Task \ {t} : obj'[u] = obj[u]
  <2>1. "failed" \in Status
    BY DEF Status
  <2> QED
    BY <2>1, StatusChange DEF TypeOK, FailSaturated
<1> QED
  BY <1>1, SaveFollows DEF FailSaturated

\* A retry queues a failed task.
LEMMA RetryEffect ==
    ASSUME TypeOK, NEW t \in Task, RetryTask(t)
    PROVE  /\ Follows(t) /\ (row'[t] = obj'[t] \/ row' = row)
           /\ obj[t].status = "failed" /\ obj'[t] = Queued
<1>1. /\ obj' \in [Task -> Record] /\ obj'[t] = Queued
      /\ \A u \in Task \ {t} : obj'[u] = obj[u]
  BY RecordsTyped DEF TypeOK, RetryTask
<1> QED
  BY <1>1, SaveFollows DEF RetryTask

\* The tick marks the queued task it asked about, once that was taken.
LEMMA MarkEffect ==
    ASSUME TypeOK, TickInv, MarkDispatched
    PROVE  /\ ask.task \in Task /\ ask.machine \in Machine
           /\ Follows(ask.task)
           /\ (row'[ask.task] = obj'[ask.task] \/ row' = row)
           /\ obj[ask.task].status = "queued" /\ ask.answer = "submitted"
           /\ obj'[ask.task] = Dispatched(ask.machine)
<1>1. ask.task \in Task /\ ask.machine \in Machine
  BY AskTyped DEF MarkDispatched, Answered
<1>2. /\ obj' \in [Task -> Record] /\ obj'[ask.task] = Dispatched(ask.machine)
      /\ \A u \in Task \ {ask.task} : obj'[u] = obj[u]
  BY <1>1, RecordsTyped DEF TypeOK, MarkDispatched
<1> QED
  BY <1>1, <1>2, SaveFollows DEF MarkDispatched, Markable

\* What is taken back was placed, and is queued in memory and on disk.
LEMMA PlanEffect ==
    ASSUME TypeOK, NEW silent \in SUBSET Machine, Plan(silent)
    PROVE  /\ obj' \in [Task -> Record] /\ row' \in [Task -> Record]
           /\ \A t \in Stale(silent) :
                 /\ obj[t].status = "dispatched" /\ t \in suspected'
                 /\ obj'[t] = Queued /\ row'[t] = Queued
           /\ \A t \in Task \ Stale(silent) : obj'[t] = obj[t] /\ row'[t] = row[t]
           /\ suspected \subseteq suspected'
BY RecordsTyped DEF TypeOK, Plan, TakeBack, Stale

\* A tick whose write failed has taken some stale tasks back, and the row of
\* one of them lags.
LEMMA AbortEffect ==
    ASSUME TypeOK, NEW silent \in SUBSET Machine, PlanAborts(silent)
    PROVE  /\ obj' \in [Task -> Record] /\ row' \in [Task -> Record]
           /\ suspected \subseteq suspected'
           /\ \A t \in pending' : t \in pending \/ row'[t] = Queued
           /\ \A t \in Task :
                 \/ obj'[t] = obj[t] /\ row'[t] = row[t]
                 \/ /\ obj[t].status = "dispatched" /\ obj'[t] = Queued /\ t \in suspected'
                    /\ row'[t] \in {row[t], Queued}
           /\ troubles' \in 0..MaxTroubles
BY RecordsTyped, TroubleTyped DEF TypeOK, PlanAborts, TakeBack, Stale

\* Every step keeps the types.
LEMMA TypeStep ==
    ASSUME TypeOK, TickInv, [Next]_vars
    PROVE  TypeOK'
<1>1. ASSUME NEW t \in Task, Submit(t) PROVE TypeOK'
  BY <1>1, SubmitEffect DEF Submit, Follows, TypeOK, tick, fleet
<1>2. ASSUME NEW t \in Task, CancelTask(t) PROVE TypeOK'
  BY <1>2, CancelEffect DEF CancelTask, Follows, TypeOK, tick, fleet
<1>3. ASSUME NEW t \in Task, RetryTask(t) PROVE TypeOK'
  BY <1>3, RetryEffect DEF RetryTask, Follows, TypeOK, tick, fleet
<1>4. ASSUME NEW t \in Task, PutEntry(t) PROVE TypeOK'
  BY <1>4, FleetAssumption DEF PutEntry, tick, fleet, TypeOK
<1>5. ASSUME NEW t \in Task, FailSaturated(t) PROVE TypeOK'
  BY <1>5, SaturatedEffect DEF FailSaturated, Follows, TypeOK, tick, fleet
<1>6. ASSUME NEW m \in Machine, ProbeAnswered(m) PROVE TypeOK'
  BY <1>6 DEF ProbeAnswered, Probed, memory, fleet, TypeOK
<1>7. ASSUME NEW m \in Machine, ProbeLost(m) PROVE TypeOK'
  BY <1>7, TroubleTyped DEF ProbeLost, Probed, Trouble, memory, fleet, TypeOK
<1>8. ASSUME NEW silent \in SUBSET Machine, Plan(silent) PROVE TypeOK'
  <2>1. \A m \in Machine : Cardinality(Placed(m)') \in Nat
    <3> SUFFICES ASSUME NEW m \in Machine PROVE Cardinality(Placed(m)') \in Nat
      OBVIOUS
    <3> QED
      BY FS_Subset, FS_CardinalityType, FleetAssumption DEF Placed
  <2> QED
    BY <1>8, <2>1, PlanEffect DEF Plan, TakeBack, Stale, QueuedTasks, LoadOf, fleet, TypeOK
<1>9. ASSUME NEW silent \in SUBSET Machine, PlanAborts(silent) PROVE TypeOK'
  BY <1>9, AbortEffect DEF PlanAborts, TakeBack, Stale, TypeOK, fleet
<1>10. ASSUME NEW t \in Task, NEW m \in Machine, Send(t, m) PROVE TypeOK'
  BY <1>10 DEF Send, memory, fleet, TypeOK
<1>11. ASSUME EndTick PROVE TypeOK'
  BY <1>11 DEF EndTick, Forget, memory, fleet, TypeOK, NoAsk
<1>12. ASSUME MarkDispatched PROVE TypeOK'
  BY <1>12, MarkEffect DEF MarkDispatched, Answered, Follows, TypeOK, fleet
<1>13. ASSUME LeaveUnmarked PROVE TypeOK'
  BY <1>13, AskTyped DEF LeaveUnmarked, Answered, Markable, fleet, TypeOK
<1>14. ASSUME RequestFails PROVE TypeOK'
  BY <1>14, AskTyped, TroubleTyped DEF RequestFails, OnItsWay, Trouble,
      memory, fleet, TypeOK
<1>15. ASSUME Deliver PROVE TypeOK'
  BY <1>15, AskTyped DEF Deliver, Receive, memory, TypeOK
<1>16. ASSUME Refuse PROVE TypeOK'
  BY <1>16, AskTyped, TroubleTyped DEF Refuse, Trouble, TypeOK, memory, fleet
<1>17. ASSUME NEW m \in Machine, MachineDown(m) PROVE TypeOK'
  BY <1>17, TroubleTyped DEF MachineDown, Trouble, memory, tick, TypeOK
<1>18. ASSUME NEW m \in Machine, MachineUp(m) PROVE TypeOK'
  BY <1>18 DEF MachineUp, memory, tick, TypeOK
<1>19. ASSUME NEW m \in Machine, NEW t \in Task, DeliverLate(m, t) PROVE TypeOK'
  BY <1>19 DEF DeliverLate, Receive, memory, TypeOK
<1>20. ASSUME NEW m \in Machine, NEW t \in Task, RemoteRun(m, t) PROVE TypeOK'
  BY <1>20 DEF RemoteRun, memory, tick, TypeOK
<1>21. ASSUME Crash PROVE TypeOK'
  BY <1>21, RecordsTyped, FleetAssumption, AskTyped, TroubleTyped DEF Crash, Forget,
      OnItsWay, Trouble, fleet, TypeOK
<1>22. ASSUME Recover PROVE TypeOK'
  <2>1. Cardinality({t \in Task : row[t].status = "queued"}) \in 0..MaxDepth
    BY <1>22, FS_Subset, FS_CardinalityType, FleetAssumption DEF Recover
  <2>2. obj' \in [Task -> Record]
    BY <1>22, RecordsTyped DEF Recover, Restored, TypeOK
  <2> QED
    BY <1>22, <2>1, <2>2 DEF Recover, tick, fleet, TypeOK
<1>23. CASE UNCHANGED vars
  BY <1>23 DEF vars, memory, tick, fleet, TypeOK
<1> QED
  BY <1>1, <1>2, <1>3, <1>4, <1>5, <1>6, <1>7, <1>8, <1>9, <1>10, <1>11, <1>12,
      <1>13, <1>14, <1>15, <1>16, <1>17, <1>18, <1>19, <1>20, <1>21, <1>22, <1>23
      DEF Next, Client, Loop, Fleet


\* A record says whether it is placed, and where.
LEMMA RecordKinds ==
    /\ NoRecord.status = "none" /\ Queued.status = "queued"
    /\ \A m \in Machine : Dispatched(m).status = "dispatched" /\ Dispatched(m).at = m
BY DEF NoRecord, Queued, Dispatched

\* Every step keeps the tick in line with its submission.
LEMMA TickStep ==
    ASSUME TypeOK, TickInv, [Next]_vars
    PROVE  TickInv'
<1>1. ASSUME NEW t \in Task, Submit(t) PROVE TickInv'
  BY <1>1 DEF Submit, TickInv, tick, fleet
<1>2. ASSUME NEW t \in Task, CancelTask(t) PROVE TickInv'
  BY <1>2 DEF CancelTask, TickInv, tick, fleet
<1>3. ASSUME NEW t \in Task, RetryTask(t) PROVE TickInv'
  BY <1>3 DEF RetryTask, TickInv, tick, fleet
<1>4. ASSUME NEW t \in Task, PutEntry(t) PROVE TickInv'
  BY <1>4 DEF PutEntry, tick, fleet, TickInv
<1>5. ASSUME NEW t \in Task, FailSaturated(t) PROVE TickInv'
  BY <1>5 DEF FailSaturated, TickInv, tick, fleet
<1>6. ASSUME NEW m \in Machine, ProbeAnswered(m) PROVE TickInv'
  BY <1>6 DEF ProbeAnswered, Probed, memory, fleet, TickInv
<1>7. ASSUME NEW m \in Machine, ProbeLost(m) PROVE TickInv'
  BY <1>7 DEF ProbeLost, Probed, Trouble, memory, fleet, TickInv
<1>8. ASSUME NEW silent \in SUBSET Machine, Plan(silent) PROVE TickInv'
  BY <1>8 DEF Plan, AllProbed, TickInv, fleet
<1>9. ASSUME NEW silent \in SUBSET Machine, PlanAborts(silent) PROVE TickInv'
  BY <1>9 DEF PlanAborts, AllProbed, TickInv, fleet
<1>10. ASSUME NEW t \in Task, NEW m \in Machine, Send(t, m) PROVE TickInv'
  BY <1>10, FleetAssumption DEF Send, memory, fleet, TickInv, NoAsk
<1>11. ASSUME EndTick PROVE TickInv'
  BY <1>11 DEF EndTick, Forget, TickInv, memory, fleet
<1>12. ASSUME MarkDispatched PROVE TickInv'
  BY <1>12, MarkEffect DEF MarkDispatched, Answered, TickInv, fleet
<1>13. ASSUME LeaveUnmarked PROVE TickInv'
  BY <1>13 DEF LeaveUnmarked, Answered, Markable, fleet, TickInv
<1>14. ASSUME RequestFails PROVE TickInv'
  BY <1>14 DEF RequestFails, OnItsWay, Trouble, memory, fleet, TickInv
<1>15. ASSUME Deliver PROVE TickInv'
  BY <1>15, AskTyped DEF Deliver, Receive, memory, TickInv, NoAsk, TypeOK
<1>16. ASSUME Refuse PROVE TickInv'
  BY <1>16, AskTyped DEF Refuse, Trouble, memory, fleet, TickInv, NoAsk,
      TypeOK
<1>17. ASSUME NEW m \in Machine, MachineDown(m) PROVE TickInv'
  BY <1>17 DEF MachineDown, Trouble, memory, tick, TickInv
<1>18. ASSUME NEW m \in Machine, MachineUp(m) PROVE TickInv'
  BY <1>18 DEF MachineUp, memory, tick, TickInv
<1>19. ASSUME NEW m \in Machine, NEW t \in Task, DeliverLate(m, t) PROVE TickInv'
  BY <1>19 DEF DeliverLate, Receive, memory, TickInv
<1>20. ASSUME NEW m \in Machine, NEW t \in Task, RemoteRun(m, t) PROVE TickInv'
  BY <1>20 DEF RemoteRun, memory, tick, TickInv
<1>21. ASSUME Crash PROVE TickInv'
  BY <1>21 DEF Crash, Forget, TickInv, fleet
<1>22. ASSUME Recover PROVE TickInv'
  BY <1>22 DEF Recover, Restored, tick, fleet, TickInv
<1>23. CASE UNCHANGED vars
  BY <1>23 DEF vars, memory, tick, fleet, TickInv
<1> QED
  BY <1>1, <1>2, <1>3, <1>4, <1>5, <1>6, <1>7, <1>8, <1>9, <1>10, <1>11, <1>12,
      <1>13, <1>14, <1>15, <1>16, <1>17, <1>18, <1>19, <1>20, <1>21, <1>22, <1>23
      DEF Next, Client, Loop, Fleet

\* Every step keeps the record of a placement true.
LEMMA RealStep ==
    ASSUME TypeOK, TickInv, RealInv, [Next]_vars
    PROVE  RealInv'
<1>1. ASSUME NEW t \in Task, Submit(t) PROVE RealInv'
  <2>1. \A u \in Task, n \in Machine :
           Dispatched(n) \in {obj'[u], row'[u]} => Dispatched(n) \in {obj[u], row[u]}
    BY <1>1, SubmitEffect, RecordKinds DEF Follows
  <2> QED
    BY <1>1, <2>1 DEF Submit, RealInv, PlacementIsReal, NoAsk, tick, fleet
<1>2. ASSUME NEW t \in Task, CancelTask(t) PROVE RealInv'
  <2>1. \A u \in Task, n \in Machine :
           Dispatched(n) \in {obj'[u], row'[u]} => Dispatched(n) \in {obj[u], row[u]}
    BY <1>2, CancelEffect, RecordKinds DEF Follows
  <2> QED
    BY <1>2, <2>1 DEF CancelTask, RealInv, PlacementIsReal, NoAsk, tick, fleet
<1>3. ASSUME NEW t \in Task, RetryTask(t) PROVE RealInv'
  <2>1. \A u \in Task, n \in Machine :
           Dispatched(n) \in {obj'[u], row'[u]} => Dispatched(n) \in {obj[u], row[u]}
    BY <1>3, RetryEffect, RecordKinds DEF Follows
  <2> QED
    BY <1>3, <2>1 DEF RetryTask, RealInv, PlacementIsReal, NoAsk, tick, fleet
<1>4. ASSUME NEW t \in Task, PutEntry(t) PROVE RealInv'
  BY <1>4 DEF PutEntry, tick, fleet, RealInv, PlacementIsReal
<1>5. ASSUME NEW t \in Task, FailSaturated(t) PROVE RealInv'
  <2>1. \A u \in Task, n \in Machine :
           Dispatched(n) \in {obj'[u], row'[u]} => Dispatched(n) \in {obj[u], row[u]}
    BY <1>5, SaturatedEffect, RecordKinds DEF Follows
  <2> QED
    BY <1>5, <2>1 DEF FailSaturated, RealInv, PlacementIsReal, NoAsk, tick, fleet
<1>6. ASSUME NEW m \in Machine, ProbeAnswered(m) PROVE RealInv'
  BY <1>6 DEF ProbeAnswered, Probed, memory, fleet, RealInv, PlacementIsReal
<1>7. ASSUME NEW m \in Machine, ProbeLost(m) PROVE RealInv'
  BY <1>7 DEF ProbeLost, Probed, Trouble, memory, fleet, RealInv, PlacementIsReal
<1>8. ASSUME NEW silent \in SUBSET Machine, Plan(silent) PROVE RealInv'
  BY <1>8, PlanEffect, RecordKinds DEF Plan, RealInv, PlacementIsReal, fleet
<1>9. ASSUME NEW silent \in SUBSET Machine, PlanAborts(silent) PROVE RealInv'
  <2>1. \A u \in Task, n \in Machine :
           Dispatched(n) \in {obj'[u], row'[u]} => Dispatched(n) \in {obj[u], row[u]}
    BY <1>9, AbortEffect, RecordKinds
  <2> QED
    BY <1>9, <2>1 DEF PlanAborts, RealInv, PlacementIsReal, NoAsk, fleet
<1>10. ASSUME NEW t \in Task, NEW m \in Machine, Send(t, m) PROVE RealInv'
  BY <1>10 DEF Send, memory, fleet, RealInv, PlacementIsReal
<1>11. ASSUME EndTick PROVE RealInv'
  BY <1>11 DEF EndTick, Forget, memory, fleet, RealInv, PlacementIsReal, NoAsk
<1>12. ASSUME MarkDispatched PROVE RealInv'
  <2>1. /\ \A u \in Task \ {ask.task} : obj'[u] = obj[u] /\ row'[u] = row[u]
        /\ row'[ask.task] \in {row[ask.task], obj'[ask.task]}
    BY <1>12, MarkEffect DEF Follows
  <2>2. \A n \in Machine : obj'[ask.task] = Dispatched(n) => n = ask.machine
    BY <1>12, MarkEffect, RecordKinds
  <2>3. remote' = remote /\ ask' = NoAsk /\ remote[ask.machine][ask.task] # "none"
    BY <1>12, MarkEffect DEF MarkDispatched, Answered, RealInv, fleet
  <2>4. PlacementIsReal'
    BY <2>1, <2>2, <2>3 DEF RealInv, PlacementIsReal
  <2> QED
    BY <2>3, <2>4 DEF RealInv, NoAsk
<1>13. ASSUME LeaveUnmarked PROVE RealInv'
  BY <1>13 DEF LeaveUnmarked, Answered, Markable, fleet, RealInv, PlacementIsReal,
      NoAsk
<1>14. ASSUME RequestFails PROVE RealInv'
  BY <1>14 DEF RequestFails, OnItsWay, Trouble, memory, fleet, RealInv,
      PlacementIsReal, NoAsk
<1>15. ASSUME Deliver PROVE RealInv'
  BY <1>15, AskTyped DEF Deliver, Receive, memory, RealInv, PlacementIsReal, TypeOK
<1>16. ASSUME Refuse PROVE RealInv'
  BY <1>16, AskTyped DEF Refuse, Trouble, memory, fleet, RealInv,
      PlacementIsReal, TypeOK
<1>17. ASSUME NEW m \in Machine, MachineDown(m) PROVE RealInv'
  BY <1>17 DEF MachineDown, Trouble, memory, tick, RealInv, PlacementIsReal
<1>18. ASSUME NEW m \in Machine, MachineUp(m) PROVE RealInv'
  BY <1>18 DEF MachineUp, memory, tick, RealInv, PlacementIsReal
<1>19. ASSUME NEW m \in Machine, NEW t \in Task, DeliverLate(m, t) PROVE RealInv'
  BY <1>19, FleetAssumption DEF DeliverLate, Receive, memory, RealInv,
      PlacementIsReal, TypeOK
<1>20. ASSUME NEW m \in Machine, NEW t \in Task, RemoteRun(m, t) PROVE RealInv'
  BY <1>20 DEF RemoteRun, memory, tick, RealInv, PlacementIsReal, TypeOK
<1>21. ASSUME Crash PROVE RealInv'
  BY <1>21, RecordKinds DEF Crash, Forget, OnItsWay, Trouble, fleet, RealInv,
      PlacementIsReal, NoAsk
<1>22. ASSUME Recover PROVE RealInv'
  BY <1>22, RecordKinds DEF Recover, Restored, tick, fleet, RealInv, PlacementIsReal
<1>23. CASE UNCHANGED vars
  BY <1>23 DEF vars, memory, tick, fleet, RealInv, PlacementIsReal
<1> QED
  BY <1>1, <1>2, <1>3, <1>4, <1>5, <1>6, <1>7, <1>8, <1>9, <1>10, <1>11, <1>12,
      <1>13, <1>14, <1>15, <1>16, <1>17, <1>18, <1>19, <1>20, <1>21, <1>22, <1>23
      DEF Next, Client, Loop, Fleet

\* Every step leaves a task without a row unknown everywhere.
LEMMA UnknownStep ==
    ASSUME TypeOK, TickInv, UnknownInv, [Next]_vars
    PROVE  UnknownInv'
<1>1. ASSUME NEW t \in Task, Submit(t) PROVE UnknownInv'
  <2>1. \A u \in Task : row'[u].status = "none" =>
           row[u].status = "none" /\ (obj[u].status = "none" => obj'[u].status = "none")
    BY <1>1, SubmitEffect, RecordKinds DEF Follows, UnknownInv
  <2> QED
    BY <1>1, <2>1, SubmitEffect, RecordKinds DEF Submit, UnknownInv, Unheard, tick,
        fleet
<1>2. ASSUME NEW t \in Task, CancelTask(t) PROVE UnknownInv'
  <2>1. \A u \in Task : row'[u].status = "none" =>
           row[u].status = "none" /\ (obj[u].status = "none" => obj'[u].status = "none")
    BY <1>2, CancelEffect, RecordKinds DEF Follows, UnknownInv
  <2> QED
    BY <1>2, <2>1, CancelEffect, RecordKinds DEF CancelTask, UnknownInv, Unheard, tick,
        fleet
<1>3. ASSUME NEW t \in Task, RetryTask(t) PROVE UnknownInv'
  <2>1. \A u \in Task : row'[u].status = "none" =>
           row[u].status = "none" /\ (obj[u].status = "none" => obj'[u].status = "none")
    BY <1>3, RetryEffect, RecordKinds DEF Follows, UnknownInv
  <2> QED
    BY <1>3, <2>1, RetryEffect, RecordKinds DEF RetryTask, UnknownInv, Unheard, tick,
        fleet
<1>4. ASSUME NEW t \in Task, PutEntry(t) PROVE UnknownInv'
  BY <1>4 DEF PutEntry, tick, fleet, UnknownInv, Unheard
<1>5. ASSUME NEW t \in Task, FailSaturated(t) PROVE UnknownInv'
  <2>1. row[t].status # "none"
    BY <1>5 DEF FailSaturated, UnknownInv
  <2>2. \A u \in Task \ {t} : obj'[u] = obj[u] /\ row'[u] = row[u]
    BY <1>5, SaturatedEffect DEF Follows
  <2>3. row'[t].status # "none"
    BY <1>5, <2>1, SaturatedEffect
  <2> QED
    BY <1>5, <2>1, <2>2, <2>3 DEF FailSaturated, UnknownInv, Unheard, tick, fleet
<1>6. ASSUME NEW m \in Machine, ProbeAnswered(m) PROVE UnknownInv'
  BY <1>6 DEF ProbeAnswered, Probed, memory, fleet, UnknownInv, Unheard
<1>7. ASSUME NEW m \in Machine, ProbeLost(m) PROVE UnknownInv'
  BY <1>7 DEF ProbeLost, Probed, Trouble, memory, fleet, UnknownInv, Unheard
<1>8. ASSUME NEW silent \in SUBSET Machine, Plan(silent) PROVE UnknownInv'
  <2>1. \A u \in Task : row'[u].status = "none" =>
           row[u].status = "none" /\ (obj[u].status = "none" => obj'[u].status = "none")
    BY <1>8, PlanEffect, RecordKinds DEF UnknownInv
  <2> QED
    BY <1>8, <2>1, PlanEffect, RecordKinds DEF Plan, AllProbed, QueuedTasks, fleet,
        UnknownInv, Unheard
<1>9. ASSUME NEW silent \in SUBSET Machine, PlanAborts(silent) PROVE UnknownInv'
  <2>1. \A u \in Task : row'[u].status = "none" =>
           row[u].status = "none" /\ (obj[u].status = "none" => obj'[u].status = "none")
    BY <1>9, AbortEffect, RecordKinds DEF UnknownInv
  <2> QED
    BY <1>9, <2>1, AbortEffect, RecordKinds DEF PlanAborts, fleet, UnknownInv, Unheard
<1>10. ASSUME NEW t \in Task, NEW m \in Machine, Send(t, m) PROVE UnknownInv'
  BY <1>10, FleetAssumption DEF Send, memory, fleet, UnknownInv, Unheard
<1>11. ASSUME EndTick PROVE UnknownInv'
  BY <1>11, FleetAssumption DEF EndTick, Forget, memory, fleet, UnknownInv, Unheard,
      NoAsk
<1>12. ASSUME MarkDispatched PROVE UnknownInv'
  <2>1. \A u \in Task : row'[u].status = "none" =>
           row[u].status = "none" /\ (obj[u].status = "none" => obj'[u].status = "none")
    BY <1>12, MarkEffect, RecordKinds DEF Follows, UnknownInv
  <2> QED
    BY <1>12, <2>1, FleetAssumption DEF MarkDispatched, Answered, NoAsk, fleet,
        UnknownInv, Unheard
<1>13. ASSUME LeaveUnmarked PROVE UnknownInv'
  BY <1>13, FleetAssumption DEF LeaveUnmarked, Answered, Markable, fleet,
      UnknownInv, Unheard, NoAsk
<1>14. ASSUME RequestFails PROVE UnknownInv'
  BY <1>14, FleetAssumption, AskTyped DEF RequestFails, OnItsWay, Trouble,
      memory, fleet, UnknownInv, Unheard, NoAsk
<1>15. ASSUME Deliver PROVE UnknownInv'
  BY <1>15, AskTyped DEF Deliver, Receive, memory, UnknownInv, Unheard, TypeOK
<1>16. ASSUME Refuse PROVE UnknownInv'
  BY <1>16, AskTyped DEF Refuse, Trouble, memory, fleet, UnknownInv, Unheard,
      TypeOK
<1>17. ASSUME NEW m \in Machine, MachineDown(m) PROVE UnknownInv'
  BY <1>17 DEF MachineDown, Trouble, memory, tick, UnknownInv, Unheard
<1>18. ASSUME NEW m \in Machine, MachineUp(m) PROVE UnknownInv'
  BY <1>18 DEF MachineUp, memory, tick, UnknownInv, Unheard
<1>19. ASSUME NEW m \in Machine, NEW t \in Task, DeliverLate(m, t) PROVE UnknownInv'
  BY <1>19 DEF DeliverLate, Receive, memory, UnknownInv, Unheard, TypeOK
<1>20. ASSUME NEW m \in Machine, NEW t \in Task, RemoteRun(m, t) PROVE UnknownInv'
  BY <1>20 DEF RemoteRun, memory, tick, UnknownInv, Unheard, TypeOK
<1>21. ASSUME Crash PROVE UnknownInv'
  BY <1>21, FleetAssumption, RecordKinds DEF Crash, Forget, OnItsWay, Trouble,
      fleet, UnknownInv, Unheard, NoAsk
<1>22. ASSUME Recover PROVE UnknownInv'
  BY <1>22, RecordKinds DEF Recover, Restored, tick, fleet, UnknownInv, Unheard
<1>23. CASE UNCHANGED vars
  BY <1>23 DEF vars, memory, tick, fleet, UnknownInv, Unheard
<1> QED
  BY <1>1, <1>2, <1>3, <1>4, <1>5, <1>6, <1>7, <1>8, <1>9, <1>10, <1>11, <1>12,
      <1>13, <1>14, <1>15, <1>16, <1>17, <1>18, <1>19, <1>20, <1>21, <1>22, <1>23
      DEF Next, Client, Loop, Fleet

\* Every step sends a task to a second machine only when it is in doubt.
LEMMA DoubtStep ==
    ASSUME TypeOK, TickInv, UnknownInv, DoubtInv, [Next]_vars
    PROVE  DoubtInv'
<1>1. ASSUME NEW t \in Task, Submit(t) PROVE DoubtInv'
  BY <1>1, SubmitEffect, RecordKinds DEF Submit, Follows, DoubtInv, SentOnce,
      Unheard, DoublePlacementIsExplained, UnknownInv, tick, fleet
<1>2. ASSUME NEW t \in Task, CancelTask(t) PROVE DoubtInv'
  BY <1>2, CancelEffect, RecordKinds DEF CancelTask, Follows, DoubtInv, SentOnce,
      Unheard, DoublePlacementIsExplained, tick, fleet
<1>3. ASSUME NEW t \in Task, RetryTask(t) PROVE DoubtInv'
  BY <1>3, RetryEffect, RecordKinds DEF RetryTask, Follows, DoubtInv, SentOnce,
      Unheard, DoublePlacementIsExplained, tick, fleet
<1>4. ASSUME NEW t \in Task, PutEntry(t) PROVE DoubtInv'
  BY <1>4 DEF PutEntry, tick, fleet, DoubtInv, SentOnce, Unheard,
      DoublePlacementIsExplained
<1>5. ASSUME NEW t \in Task, FailSaturated(t) PROVE DoubtInv'
  BY <1>5, SaturatedEffect, RecordKinds DEF FailSaturated, Follows, DoubtInv,
      SentOnce, Unheard, DoublePlacementIsExplained, tick, fleet
<1>6. ASSUME NEW m \in Machine, ProbeAnswered(m) PROVE DoubtInv'
  BY <1>6 DEF ProbeAnswered, Probed, memory, fleet, DoubtInv, SentOnce, Unheard,
      DoublePlacementIsExplained
<1>7. ASSUME NEW m \in Machine, ProbeLost(m) PROVE DoubtInv'
  BY <1>7 DEF ProbeLost, Probed, Trouble, memory, fleet, DoubtInv, SentOnce,
      Unheard, DoublePlacementIsExplained
<1>8. ASSUME NEW silent \in SUBSET Machine, Plan(silent) PROVE DoubtInv'
  <2>1. /\ ask = NoAsk /\ ask' = NoAsk /\ mode' = "up" /\ remote' = remote /\ late' = late
        /\ todo' = {u \in Task : obj'[u].status = "queued"}
    BY <1>8 DEF Plan, AllProbed, TickInv, QueuedTasks, fleet
  <2>2. /\ suspected \subseteq suspected'
        /\ \A u \in Task \ suspected' : obj'[u] = obj[u]
    BY <1>8, PlanEffect
  <2> QED
    BY <2>1, <2>2, FleetAssumption DEF NoAsk, DoubtInv, SentOnce, Unheard,
        DoublePlacementIsExplained
<1>9. ASSUME NEW silent \in SUBSET Machine, PlanAborts(silent) PROVE DoubtInv'
  <2>1. /\ ask' = ask /\ mode' = "up" /\ remote' = remote /\ late' = late /\ todo' = todo
    BY <1>9 DEF PlanAborts, AllProbed, fleet
  <2>2. /\ suspected \subseteq suspected'
        /\ \A u \in Task \ suspected' : obj'[u] = obj[u]
    BY <1>9, AbortEffect
  <2> QED
    BY <2>1, <2>2 DEF DoubtInv, SentOnce, Unheard, DoublePlacementIsExplained
<1>10. ASSUME NEW t \in Task, NEW m \in Machine, Send(t, m) PROVE DoubtInv'
  BY <1>10, FleetAssumption DEF Send, memory, fleet, DoubtInv, SentOnce, Unheard,
      DoublePlacementIsExplained, TickInv, NoAsk
<1>11. ASSUME EndTick PROVE DoubtInv'
  BY <1>11, FleetAssumption DEF EndTick, Forget, memory, fleet, DoubtInv, SentOnce,
      Unheard, DoublePlacementIsExplained, NoAsk, TickInv
<1>12. ASSUME MarkDispatched PROVE DoubtInv'
  <2>1. /\ ask' = NoAsk /\ mode' = "up" /\ remote' = remote
        /\ todo' = todo /\ late' = late /\ suspected' = suspected
    BY <1>12 DEF MarkDispatched, Answered, fleet
  <2>2. \A u \in Task : obj'[u].status = "queued" => obj[u].status = "queued" /\ u # ask.task
    BY <1>12, MarkEffect, RecordKinds DEF Follows
  <2> QED
    BY <2>1, <2>2, FleetAssumption DEF NoAsk, TypeOK, DoubtInv, SentOnce, Unheard,
        DoublePlacementIsExplained
<1>13. ASSUME LeaveUnmarked PROVE DoubtInv'
  BY <1>13, FleetAssumption, AskTyped DEF LeaveUnmarked, Answered, Markable, fleet,
      DoubtInv, SentOnce, Unheard, DoublePlacementIsExplained, NoAsk, TypeOK
<1>14. ASSUME RequestFails PROVE DoubtInv'
  <2>1. /\ ask' = NoAsk /\ mode' = "up" /\ remote' = remote /\ obj' = obj /\ todo' = todo
        /\ suspected \subseteq suspected'
        /\ ask.task \in suspected' \/ ask.answer = "none"
        /\ late' \subseteq late \cup {<<ask.machine, ask.task>>}
        /\ late' = late \/ ask.task \in suspected'
    BY <1>14 DEF RequestFails, OnItsWay, memory, fleet
  <2> QED
    BY <2>1, FleetAssumption DEF NoAsk, TypeOK, DoubtInv, SentOnce, Unheard,
        DoublePlacementIsExplained
<1>15. ASSUME Deliver PROVE DoubtInv'
  <2> DEFINE t == ask.task
             n == ask.machine
  <2>1. t \in Task /\ n \in Machine
    BY <1>15, AskTyped DEF Deliver
  <2>2. /\ ask'.task = t /\ ask'.machine = n
        /\ mode' = mode /\ obj' = obj /\ row' = row /\ todo' = todo
        /\ late' = late /\ suspected' = suspected
        /\ ask.answer = "none" /\ mode # "down"
        /\ remote[n][t] = "none" => ask'.answer = "submitted"
    BY <1>15, AskTyped DEF Deliver, Receive, TickInv, memory
  <2>3. \A k \in Machine, u \in Task : k # n \/ u # t => remote'[k][u] = remote[k][u]
    BY <1>15, <2>1 DEF Deliver, Receive, TypeOK
  <2>4. ASSUME NEW u \in Task \ suspected PROVE SentOnce(u)'
    <3>1. CASE u = t
      BY <2>1, <2>2, <2>3, <3>1 DEF DoubtInv, SentOnce, Unheard
    <3>2. CASE u # t
      BY <2>2, <2>3, <3>2 DEF DoubtInv, SentOnce, Unheard
    <3> QED
      BY <3>1, <3>2
  <2>5. DoublePlacementIsExplained'
    BY <2>1, <2>2, <2>3 DEF DoubtInv, SentOnce, DoublePlacementIsExplained
  <2> QED
    BY <2>2, <2>4, <2>5 DEF DoubtInv
<1>16. ASSUME Refuse PROVE DoubtInv'
  BY <1>16, AskTyped DEF Refuse, Trouble, memory, fleet, DoubtInv, SentOnce,
      Unheard, DoublePlacementIsExplained, TypeOK
<1>17. ASSUME NEW m \in Machine, MachineDown(m) PROVE DoubtInv'
  BY <1>17 DEF MachineDown, Trouble, memory, tick, DoubtInv, SentOnce,
      Unheard, DoublePlacementIsExplained
<1>18. ASSUME NEW m \in Machine, MachineUp(m) PROVE DoubtInv'
  BY <1>18 DEF MachineUp, memory, tick, DoubtInv, SentOnce, Unheard,
      DoublePlacementIsExplained
<1>19. ASSUME NEW m \in Machine, NEW t \in Task, DeliverLate(m, t) PROVE DoubtInv'
  BY <1>19 DEF DeliverLate, Receive, memory, DoubtInv, SentOnce, Unheard,
      DoublePlacementIsExplained, TypeOK
<1>20. ASSUME NEW m \in Machine, NEW t \in Task, RemoteRun(m, t) PROVE DoubtInv'
  BY <1>20 DEF RemoteRun, memory, tick, DoubtInv, SentOnce, Unheard,
      DoublePlacementIsExplained, TypeOK
<1>21. ASSUME Crash PROVE DoubtInv'
  BY <1>21, FleetAssumption, RecordKinds, AskTyped DEF Crash, Forget, OnItsWay,
      Trouble, fleet, DoubtInv, SentOnce, Unheard, DoublePlacementIsExplained,
      NoAsk, TypeOK
<1>22. ASSUME Recover PROVE DoubtInv'
  BY <1>22, RecordKinds DEF Recover, Restored, tick, fleet, DoubtInv, SentOnce,
      Unheard, DoublePlacementIsExplained
<1>23. CASE UNCHANGED vars
  BY <1>23 DEF vars, memory, tick, fleet, DoubtInv, SentOnce, Unheard,
      DoublePlacementIsExplained
<1> QED
  BY <1>1, <1>2, <1>3, <1>4, <1>5, <1>6, <1>7, <1>8, <1>9, <1>10, <1>11, <1>12,
      <1>13, <1>14, <1>15, <1>16, <1>17, <1>18, <1>19, <1>20, <1>21, <1>22, <1>23
      DEF Next, Client, Loop, Fleet


\* What the coordinator has let go of it does not take up again.
LEMMA LetGoStep ==
    ASSUME TypeOK, TickInv, WaitInv, [Next]_vars
    PROVE  LetGo \subseteq LetGo'
<1>1. ASSUME NEW t \in Task, Submit(t) PROVE LetGo \subseteq LetGo'
  BY <1>1, SubmitEffect, RecordKinds
      DEF Submit, Follows, LetGo, Settled
<1>2. ASSUME NEW t \in Task, CancelTask(t) PROVE LetGo \subseteq LetGo'
  BY <1>2, CancelEffect
      DEF CancelTask, Follows, LetGo, Settled
<1>3. ASSUME NEW t \in Task, RetryTask(t) PROVE LetGo \subseteq LetGo'
  BY <1>3, RetryEffect
      DEF RetryTask, Follows, LetGo, Settled
<1>4. ASSUME NEW t \in Task, FailSaturated(t) PROVE LetGo \subseteq LetGo'
  BY <1>4, SaturatedEffect
      DEF FailSaturated, Follows, LetGo, Settled
<1>5. ASSUME NEW silent \in SUBSET Machine, Plan(silent) PROVE LetGo \subseteq LetGo'
  BY <1>5, PlanEffect, RecordKinds
      DEF Plan, AllProbed, LetGo, Settled
<1>6. ASSUME NEW silent \in SUBSET Machine, PlanAborts(silent) PROVE LetGo \subseteq LetGo'
  BY <1>6, AbortEffect, RecordKinds
      DEF PlanAborts, AllProbed, LetGo, Settled
<1>7. ASSUME MarkDispatched PROVE LetGo \subseteq LetGo'
  BY <1>7, MarkEffect, RecordKinds
      DEF MarkDispatched, Answered, Follows, LetGo, Settled, WaitInv
<1>8. ASSUME Crash PROVE LetGo \subseteq LetGo'
  BY <1>8, RecordKinds
      DEF Crash, Forget, LetGo, Settled, TypeOK
<1>9. ASSUME Recover PROVE LetGo \subseteq LetGo'
  BY <1>9, RecordKinds
      DEF Recover, Restored, LetGo, Settled, TickInv, TypeOK
<1>10. CASE UNCHANGED <<obj, row>> /\ suspected \subseteq suspected'
  BY <1>10 DEF LetGo
<1>11. CASE \/ EndTick \/ LeaveUnmarked \/ RequestFails \/ Deliver \/ Refuse
            \/ UNCHANGED vars
            \/ \E t \in Task : PutEntry(t)
            \/ \E m \in Machine : ProbeAnswered(m) \/ ProbeLost(m)
            \/ \E m \in Machine : MachineDown(m) \/ MachineUp(m)
            \/ \E t \in Task, m \in Machine : Send(t, m)
            \/ \E m \in Machine, t \in Task : DeliverLate(m, t) \/ RemoteRun(m, t)
  <2>1. UNCHANGED <<obj, row>>
    BY <1>11 DEF vars, memory, PutEntry, ProbeAnswered, ProbeLost, Probed, Send, EndTick,
        LeaveUnmarked, RequestFails, Deliver, DeliverLate, Receive, Refuse, MachineDown,
        MachineUp, RemoteRun
  <2>2. CASE RequestFails
    BY <1>10, <2>1, <2>2 DEF RequestFails
  <2>3. CASE ~RequestFails
    <3>1. UNCHANGED suspected
      BY <1>11, <2>3 DEF vars, PutEntry, ProbeAnswered, ProbeLost, Probed, Send, EndTick,
          LeaveUnmarked, Answered, Deliver, DeliverLate, Receive, Refuse, MachineDown,
          MachineUp, RemoteRun
    <3> QED
      BY <1>10, <2>1, <3>1
  <2> QED
    BY <2>2, <2>3
<1> QED
  BY <1>1, <1>2, <1>3, <1>4, <1>5, <1>6, <1>7, <1>8, <1>9, <1>11 DEF Next, Client, Loop,
      Fleet

\* Every step keeps what the tick is about to send in line with the tasks.
LEMMA WaitStep ==
    ASSUME TypeOK, TickInv, UnknownInv, DoubtInv, WaitInv, [Next]_vars
    PROVE  WaitInv'
<1>1. ASSUME NEW t \in Task, Submit(t) PROVE WaitInv'
  <2>1. /\ t \notin todo /\ ask.task # t
        /\ \A u \in Task \ {t} : obj'[u] = obj[u] /\ row'[u] = row[u]
        /\ row'[t].status = "queued"
    BY <1>1, SubmitEffect, RecordKinds DEF UnknownInv, Follows
  <2>2. pc' = pc /\ todo' = todo /\ ask' = ask /\ suspected' = suspected
    BY <1>1 DEF Submit, tick
  <2> QED
    BY <2>1, <2>2 DEF WaitInv, Settled
<1>2. ASSUME NEW t \in Task, CancelTask(t) PROVE WaitInv'
  BY <1>2, CancelEffect
      DEF CancelTask, Follows, WaitInv, Settled, memory, tick, fleet
<1>3. ASSUME NEW t \in Task, RetryTask(t) PROVE WaitInv'
  BY <1>3, RetryEffect, RecordKinds
      DEF RetryTask, Follows, WaitInv, Settled, memory, tick, fleet
<1>4. ASSUME NEW t \in Task, PutEntry(t) PROVE WaitInv'
  BY <1>4
      DEF PutEntry, WaitInv, Settled, memory, tick, fleet
<1>5. ASSUME NEW t \in Task, FailSaturated(t) PROVE WaitInv'
  BY <1>5, SaturatedEffect
      DEF FailSaturated, Follows, WaitInv, Settled, memory, tick, fleet
<1>6. ASSUME NEW m \in Machine, ProbeAnswered(m) PROVE WaitInv'
  BY <1>6
      DEF ProbeAnswered, Probed, WaitInv, Settled, memory, tick, fleet
<1>7. ASSUME NEW m \in Machine, ProbeLost(m) PROVE WaitInv'
  BY <1>7
      DEF ProbeLost, Probed, WaitInv, Settled, memory, tick, fleet
<1>8. ASSUME NEW silent \in SUBSET Machine, Plan(silent) PROVE WaitInv'
  BY <1>8, PlanEffect, RecordKinds, FleetAssumption
      DEF Plan, AllProbed, WaitInv, Settled, memory, tick, fleet, QueuedTasks, TickInv,
          NoAsk
<1>9. ASSUME NEW silent \in SUBSET Machine, PlanAborts(silent) PROVE WaitInv'
  <2>1. /\ todo' = {} /\ ask' = NoAsk
        /\ suspected \subseteq suspected'
        /\ \A u \in Task \ suspected' : obj'[u] = obj[u] /\ row'[u] = row[u]
    BY <1>9, AbortEffect DEF PlanAborts, AllProbed, TickInv, WaitInv
  <2> QED
    BY <2>1, FleetAssumption DEF WaitInv, NoAsk
<1>10. ASSUME NEW t \in Task, NEW m \in Machine, Send(t, m) PROVE WaitInv'
  BY <1>10
      DEF Send, WaitInv, Settled, memory, tick, fleet, TickInv
<1>11. ASSUME EndTick PROVE WaitInv'
  BY <1>11, FleetAssumption
      DEF EndTick, Forget, WaitInv, Settled, memory, tick, fleet, NoAsk, TypeOK
<1>12. ASSUME MarkDispatched PROVE WaitInv'
  <2>1. /\ todo' = todo /\ ask' = NoAsk /\ pc' = "dispatching" /\ suspected' = suspected
    BY <1>12 DEF MarkDispatched, Answered
  <2>2. /\ \A u \in Task \ {ask.task} : obj'[u] = obj[u] /\ row'[u] = row[u]
        /\ obj[ask.task].status = "queued" /\ ask.task \in Task
        /\ row'[ask.task].status \in {"dispatched", row[ask.task].status}
    BY <1>12, MarkEffect, RecordKinds DEF Follows
  <2> QED
    BY <2>1, <2>2, FleetAssumption DEF WaitInv, Settled, NoAsk, DoubtInv
<1>13. ASSUME LeaveUnmarked PROVE WaitInv'
  BY <1>13, FleetAssumption
      DEF LeaveUnmarked, Answered, Markable, WaitInv, Settled, memory, tick, fleet, NoAsk,
          TypeOK
<1>14. ASSUME RequestFails PROVE WaitInv'
  BY <1>14, FleetAssumption
      DEF RequestFails, OnItsWay, WaitInv, Settled, memory, tick, fleet, NoAsk, TypeOK
<1>15. ASSUME Deliver PROVE WaitInv'
  BY <1>15
      DEF Deliver, Receive, WaitInv, Settled, memory, tick, fleet
<1>16. ASSUME Refuse PROVE WaitInv'
  BY <1>16
      DEF Refuse, WaitInv, Settled, memory, tick, fleet
<1>17. ASSUME NEW m \in Machine, MachineDown(m) PROVE WaitInv'
  BY <1>17
      DEF MachineDown, WaitInv, Settled, memory, tick, fleet
<1>18. ASSUME NEW m \in Machine, MachineUp(m) PROVE WaitInv'
  BY <1>18
      DEF MachineUp, WaitInv, Settled, memory, tick, fleet
<1>19. ASSUME NEW m \in Machine, NEW t \in Task, DeliverLate(m, t) PROVE WaitInv'
  BY <1>19
      DEF DeliverLate, Receive, WaitInv, Settled, memory, tick, fleet
<1>20. ASSUME NEW m \in Machine, NEW t \in Task, RemoteRun(m, t) PROVE WaitInv'
  BY <1>20
      DEF RemoteRun, WaitInv, Settled, memory, tick, fleet
<1>21. ASSUME Crash PROVE WaitInv'
  BY <1>21, RecordKinds, FleetAssumption
      DEF Crash, Forget, WaitInv, Settled, memory, tick, fleet, NoAsk, TypeOK
<1>22. ASSUME Recover PROVE WaitInv'
  BY <1>22, RecordKinds, FleetAssumption
      DEF Recover, Restored, WaitInv, Settled, memory, tick, fleet, TickInv, UnknownInv,
          NoAsk
<1>23. CASE UNCHANGED vars
  BY <1>23 DEF vars, memory, tick, fleet, WaitInv
<1> QED
  BY <1>1, <1>2, <1>3, <1>4, <1>5, <1>6, <1>7, <1>8, <1>9, <1>10, <1>11, <1>12,
      <1>13, <1>14, <1>15, <1>16, <1>17, <1>18, <1>19, <1>20, <1>21, <1>22, <1>23
      DEF Next, Client, Loop, Fleet

\* Every step counts what a machine gets, or lets go of it.
LEMMA HeldStep ==
    ASSUME TypeOK, TickInv, UnknownInv, DoubtInv, WaitInv, HeldInv, [Next]_vars
    PROVE  HeldInv'
<1> USE LetGoStep
<1>1. ASSUME NEW t \in Task, Submit(t) PROVE HeldInv'
  BY <1>1, SubmitEffect, RecordKinds
      DEF Submit, Follows, HeldInv, memory, tick, fleet, LetGo, Settled, UnknownInv, Unheard
<1>2. ASSUME NEW t \in Task, CancelTask(t) PROVE HeldInv'
  BY <1>2, CancelEffect
      DEF CancelTask, Follows, HeldInv, memory, tick, fleet, LetGo, Settled
<1>3. ASSUME NEW t \in Task, RetryTask(t) PROVE HeldInv'
  BY <1>3, RetryEffect, RecordKinds
      DEF RetryTask, Follows, HeldInv, memory, tick, fleet, LetGo, Settled
<1>4. ASSUME NEW t \in Task, PutEntry(t) PROVE HeldInv'
  BY <1>4
      DEF PutEntry, HeldInv, memory, tick, fleet
<1>5. ASSUME NEW t \in Task, FailSaturated(t) PROVE HeldInv'
  BY <1>5, SaturatedEffect
      DEF FailSaturated, Follows, HeldInv, memory, tick, fleet, LetGo, Settled
<1>6. ASSUME NEW m \in Machine, ProbeAnswered(m) PROVE HeldInv'
  BY <1>6
      DEF ProbeAnswered, Probed, HeldInv, memory, tick, fleet
<1>7. ASSUME NEW m \in Machine, ProbeLost(m) PROVE HeldInv'
  BY <1>7
      DEF ProbeLost, Probed, HeldInv, memory, tick, fleet
<1>8. ASSUME NEW silent \in SUBSET Machine, Plan(silent) PROVE HeldInv'
  <2>1. /\ ask = NoAsk /\ ask' = NoAsk /\ mode = "up" /\ mode' = "up" /\ remote' = remote
    BY <1>8 DEF Plan, AllProbed, TickInv, fleet
  <2>2. \A u \in Task \ LetGo' : u \notin LetGo /\ obj'[u] = obj[u]
    BY <1>8, PlanEffect DEF LetGo
  <2> QED
    BY <2>1, <2>2 DEF HeldInv
<1>9. ASSUME NEW silent \in SUBSET Machine, PlanAborts(silent) PROVE HeldInv'
  BY <1>9, AbortEffect, RecordKinds
      DEF PlanAborts, AllProbed, HeldInv, memory, tick, fleet, LetGo, Settled, TickInv
<1>10. ASSUME NEW t \in Task, NEW m \in Machine, Send(t, m) PROVE HeldInv'
  <2>1. /\ ask = NoAsk /\ mode' = mode /\ remote' = remote /\ obj' = obj /\ row' = row
    BY <1>10 DEF Send, memory, fleet, TickInv
  <2> QED
    BY <2>1, FleetAssumption DEF HeldInv, NoAsk
<1>11. ASSUME EndTick PROVE HeldInv'
  <2>1. /\ ask' = ask /\ mode' = mode /\ remote' = remote /\ obj' = obj /\ row' = row
    BY <1>11 DEF EndTick, Forget, memory, fleet, TickInv
  <2> QED
    BY <2>1 DEF HeldInv
<1>12. ASSUME MarkDispatched PROVE HeldInv'
  BY <1>12, MarkEffect, RecordKinds, FleetAssumption
      DEF MarkDispatched, Answered, Follows, HeldInv, memory, tick, fleet, LetGo, Settled,
          NoAsk, TypeOK, TickInv, DoubtInv, SentOnce, Unheard, WaitInv
<1>13. ASSUME LeaveUnmarked PROVE HeldInv'
  BY <1>13, FleetAssumption, AskTyped
      DEF LeaveUnmarked, Answered, Markable, HeldInv, memory, tick, fleet, LetGo, Settled,
          NoAsk, TypeOK, TickInv, DoubtInv, SentOnce, Unheard, WaitInv
<1>14. ASSUME RequestFails PROVE HeldInv'
  <2>1. /\ mode' = mode /\ remote' = remote /\ obj' = obj /\ row' = row
        /\ suspected \subseteq suspected'
        /\ ask.task \in suspected' \/ ask.answer = "none"
    BY <1>14 DEF RequestFails, memory, fleet
  <2>2. ASSUME NEW n \in Machine, NEW u \in Task \ LetGo', remote[n][u] # "none"
        PROVE  u \notin LetGo /\ ask.task # u
    BY <2>1, <2>2 DEF LetGo, DoubtInv, SentOnce, Unheard
  <2> QED
    BY <2>1, <2>2 DEF HeldInv
<1>15. ASSUME Deliver PROVE HeldInv'
  BY <1>15, AskTyped
      DEF Deliver, Receive, HeldInv, memory, tick, fleet, TypeOK, DoubtInv, LetGo
<1>16. ASSUME Refuse PROVE HeldInv'
  BY <1>16, AskTyped
      DEF Refuse, HeldInv, memory, tick, fleet
<1>17. ASSUME NEW m \in Machine, MachineDown(m) PROVE HeldInv'
  BY <1>17
      DEF MachineDown, HeldInv, memory, tick, fleet
<1>18. ASSUME NEW m \in Machine, MachineUp(m) PROVE HeldInv'
  BY <1>18
      DEF MachineUp, HeldInv, memory, tick, fleet
<1>19. ASSUME NEW m \in Machine, NEW t \in Task, DeliverLate(m, t) PROVE HeldInv'
  BY <1>19
      DEF DeliverLate, Receive, HeldInv, memory, tick, fleet, TypeOK, DoubtInv, LetGo
<1>20. ASSUME NEW m \in Machine, NEW t \in Task, RemoteRun(m, t) PROVE HeldInv'
  BY <1>20
      DEF RemoteRun, HeldInv, memory, tick, fleet, TypeOK, DoubtInv, LetGo
<1>21. ASSUME Crash PROVE HeldInv'
  BY <1>21, RecordKinds, FleetAssumption
      DEF Crash, Forget, HeldInv, memory, tick, fleet, LetGo, Settled, NoAsk, TypeOK,
          TickInv
<1>22. ASSUME Recover PROVE HeldInv'
  BY <1>22, RecordKinds
      DEF Recover, Restored, HeldInv, memory, tick, fleet, LetGo, Settled, TickInv
<1>23. CASE UNCHANGED vars
  BY <1>23 DEF vars, memory, tick, fleet, HeldInv, LetGo
<1> QED
  BY <1>1, <1>2, <1>3, <1>4, <1>5, <1>6, <1>7, <1>8, <1>9, <1>10, <1>11, <1>12,
      <1>13, <1>14, <1>15, <1>16, <1>17, <1>18, <1>19, <1>20, <1>21, <1>22, <1>23
      DEF Next, Client, Loop, Fleet

-----------------------------------------------------------------------------
(* Counting *)

\* What a machine has can be counted.
LEMMA Counted ==
    ASSUME NEW m \in Machine
    PROVE  IsFiniteSet(Taken(m)) /\ Cardinality(Taken(m)) \in Nat
BY FleetAssumption, FS_Subset, FS_CardinalityType DEF Taken

\* A step after which the machine has nothing new.
LEMMA NothingTaken ==
    ASSUME NEW m \in Machine,
           \A t \in Task : t \in Taken(m)' => t \in Taken(m)
    PROVE  /\ Cardinality(Taken(m)') \in Nat
           /\ Cardinality(Taken(m)') <= Cardinality(Taken(m))
<1>1. Taken(m)' \subseteq Taken(m)
  BY DEF Taken
<1> QED
  BY <1>1, Counted, FS_Subset, FS_CardinalityType

\* A step after which it has one task more.
LEMMA OneTaken ==
    ASSUME NEW m \in Machine, NEW t \in Task,
           \A u \in Task \ {t} : u \in Taken(m)' => u \in Taken(m)
    PROVE  /\ Cardinality(Taken(m)') \in Nat
           /\ Cardinality(Taken(m)') <= Cardinality(Taken(m)) + 1
<1>1. Taken(m)' \subseteq Taken(m) \cup {t}
  BY DEF Taken
<1>2. /\ IsFiniteSet(Taken(m) \cup {t})
      /\ Cardinality(Taken(m) \cup {t}) \in Nat
      /\ Cardinality(Taken(m) \cup {t}) <= Cardinality(Taken(m)) + 1
  <2>1. /\ IsFiniteSet(Taken(m) \cup {t})
        /\ \/ Cardinality(Taken(m) \cup {t}) = Cardinality(Taken(m))
           \/ Cardinality(Taken(m) \cup {t}) = Cardinality(Taken(m)) + 1
    BY Counted, FS_AddElement
  <2> QED
    BY <2>1, Counted
<1>3. Cardinality(Taken(m)') \in Nat /\ Cardinality(Taken(m)') <= Cardinality(Taken(m) \cup {t})
  BY <1>1, <1>2, FS_Subset, FS_CardinalityType
<1> QED
  BY <1>2, <1>3, Counted

\* A step that leaves the tick alone and after which no machine has anything new.
LEMMA QuietLoad ==
    ASSUME TypeOK, LoadInv, pc # "probing" \/ pc' = "probing", load' = load \/ pc' = "probing",
           \A n \in Machine : Asked(n)' = Asked(n) \/ Asked(n)' = 0,
           \A n \in Machine, t \in Task : t \in Taken(n)' => t \in Taken(n)
    PROVE  LoadInv'
<1> SUFFICES ASSUME NEW n \in Machine
    PROVE  /\ Cardinality(Taken(n)') + Asked(n)' <= Capacity[n]
           /\ pc' # "probing" => Cardinality(Taken(n)') + Asked(n)' <= load'[n]
  BY DEF LoadInv
<1>1. /\ Cardinality(Taken(n)') \in Nat
      /\ Cardinality(Taken(n)') <= Cardinality(Taken(n))
  BY NothingTaken
<1>2. Asked(n) \in {0, 1} /\ (Asked(n)' = Asked(n) \/ Asked(n)' = 0)
  BY DEF Asked
<1>3. Capacity[n] \in Nat /\ load[n] \in Nat /\ Cardinality(Taken(n)) \in Nat
  BY Counted, FleetAssumption DEF TypeOK
<1> QED
  BY <1>1, <1>2, <1>3 DEF LoadInv

\* Every step counts what is sent, and sends no more than there are slots.
LEMMA LoadStep ==
    ASSUME TypeOK, TickInv, UnknownInv, DoubtInv, WaitInv, HeldInv, LoadInv, [Next]_vars
    PROVE  LoadInv'
<1> USE LetGoStep
<1>1. ASSUME NEW t \in Task, Submit(t) PROVE LoadInv'
  <2>1. \A n \in Machine, u \in Task : u \in Taken(n)' => u \in Taken(n)
    BY <1>1
        DEF Submit, memory, tick, fleet, Taken
  <2>2. /\ pc # "probing" \/ pc' = "probing"
        /\ load' = load \/ pc' = "probing"
        /\ \A n \in Machine : Asked(n)' = Asked(n) \/ Asked(n)' = 0
    BY <1>1 DEF Submit, memory, tick, fleet, Asked
  <2> QED
    BY <2>1, <2>2, QuietLoad
<1>2. ASSUME NEW t \in Task, CancelTask(t) PROVE LoadInv'
  <2>1. \A n \in Machine, u \in Task : u \in Taken(n)' => u \in Taken(n)
    BY <1>2
        DEF CancelTask, memory, tick, fleet, Taken
  <2>2. /\ pc # "probing" \/ pc' = "probing"
        /\ load' = load \/ pc' = "probing"
        /\ \A n \in Machine : Asked(n)' = Asked(n) \/ Asked(n)' = 0
    BY <1>2 DEF CancelTask, memory, tick, fleet, Asked
  <2> QED
    BY <2>1, <2>2, QuietLoad
<1>3. ASSUME NEW t \in Task, RetryTask(t) PROVE LoadInv'
  <2>1. \A n \in Machine, u \in Task : u \in Taken(n)' => u \in Taken(n)
    BY <1>3
        DEF RetryTask, memory, tick, fleet, Taken
  <2>2. /\ pc # "probing" \/ pc' = "probing"
        /\ load' = load \/ pc' = "probing"
        /\ \A n \in Machine : Asked(n)' = Asked(n) \/ Asked(n)' = 0
    BY <1>3 DEF RetryTask, memory, tick, fleet, Asked
  <2> QED
    BY <2>1, <2>2, QuietLoad
<1>4. ASSUME NEW t \in Task, PutEntry(t) PROVE LoadInv'
  <2>1. \A n \in Machine, u \in Task : u \in Taken(n)' => u \in Taken(n)
    BY <1>4
        DEF PutEntry, memory, tick, fleet, Taken
  <2>2. /\ pc # "probing" \/ pc' = "probing"
        /\ load' = load \/ pc' = "probing"
        /\ \A n \in Machine : Asked(n)' = Asked(n) \/ Asked(n)' = 0
    BY <1>4 DEF PutEntry, memory, tick, fleet, Asked
  <2> QED
    BY <2>1, <2>2, QuietLoad
<1>5. ASSUME NEW t \in Task, FailSaturated(t) PROVE LoadInv'
  <2>1. \A n \in Machine, u \in Task : u \in Taken(n)' => u \in Taken(n)
    BY <1>5
        DEF FailSaturated, memory, tick, fleet, Taken
  <2>2. /\ pc # "probing" \/ pc' = "probing"
        /\ load' = load \/ pc' = "probing"
        /\ \A n \in Machine : Asked(n)' = Asked(n) \/ Asked(n)' = 0
    BY <1>5 DEF FailSaturated, memory, tick, fleet, Asked
  <2> QED
    BY <2>1, <2>2, QuietLoad
<1>6. ASSUME NEW m \in Machine, ProbeAnswered(m) PROVE LoadInv'
  <2>1. \A n \in Machine, u \in Task : u \in Taken(n)' => u \in Taken(n)
    BY <1>6
        DEF ProbeAnswered, Probed, memory, tick, fleet, Taken
  <2>2. /\ pc # "probing" \/ pc' = "probing"
        /\ load' = load \/ pc' = "probing"
        /\ \A n \in Machine : Asked(n)' = Asked(n) \/ Asked(n)' = 0
    BY <1>6 DEF ProbeAnswered, Probed, memory, tick, fleet, Asked
  <2> QED
    BY <2>1, <2>2, QuietLoad
<1>7. ASSUME NEW m \in Machine, ProbeLost(m) PROVE LoadInv'
  <2>1. \A n \in Machine, u \in Task : u \in Taken(n)' => u \in Taken(n)
    BY <1>7
        DEF ProbeLost, Probed, memory, tick, fleet, Taken
  <2>2. /\ pc # "probing" \/ pc' = "probing"
        /\ load' = load \/ pc' = "probing"
        /\ \A n \in Machine : Asked(n)' = Asked(n) \/ Asked(n)' = 0
    BY <1>7 DEF ProbeLost, Probed, memory, tick, fleet, Asked
  <2> QED
    BY <2>1, <2>2, QuietLoad
<1>8. ASSUME NEW silent \in SUBSET Machine, Plan(silent) PROVE LoadInv'
  <2>1. /\ ask = NoAsk /\ ask' = NoAsk /\ mode' = "up" /\ remote' = remote
        /\ \A n \in Machine : load'[n] = Cardinality(Placed(n)')
    BY <1>8 DEF Plan, AllProbed, TickInv, LoadOf, fleet
  <2>2. \A n \in Machine : Asked(n)' = 0 /\ Asked(n) = 0
    BY <2>1, FleetAssumption DEF Asked, NoAsk
  <2>3. ASSUME NEW n \in Machine
        PROVE  /\ Cardinality(Taken(n)') \in Nat
               /\ Cardinality(Taken(n)') <= Cardinality(Taken(n))
               /\ Cardinality(Taken(n)') <= Cardinality(Placed(n)')
               /\ Cardinality(Placed(n)') \in Nat
    <3>1. Taken(n)' \subseteq Taken(n)
      BY <2>1 DEF Taken
    <3>2. Taken(n)' \subseteq Placed(n)'
      BY <2>1, HeldStep DEF HeldInv, Taken, Placed
    <3>3. IsFiniteSet(Placed(n)') /\ Cardinality(Placed(n)') \in Nat
      BY FleetAssumption, FS_Subset, FS_CardinalityType DEF Placed
    <3> QED
      BY <3>1, <3>2, <3>3, Counted, FS_Subset, FS_CardinalityType
  <2> QED
    BY <2>1, <2>2, <2>3, Counted, FleetAssumption DEF LoadInv
<1>9. ASSUME NEW silent \in SUBSET Machine, PlanAborts(silent) PROVE LoadInv'
  <2>1. \A n \in Machine, u \in Task : u \in Taken(n)' => u \in Taken(n)
    BY <1>9
        DEF PlanAborts, AllProbed, memory, tick, fleet, Taken
  <2>2. /\ pc # "probing" \/ pc' = "probing"
        /\ load' = load \/ pc' = "probing"
        /\ \A n \in Machine : Asked(n)' = Asked(n) \/ Asked(n)' = 0
    BY <1>9 DEF PlanAborts, AllProbed, memory, tick, fleet, Asked
  <2> QED
    BY <2>1, <2>2, QuietLoad
<1>10. ASSUME NEW t \in Task, NEW m \in Machine, Send(t, m) PROVE LoadInv'
  <2>1. /\ ask = NoAsk /\ pc # "probing"
        /\ \A n \in Machine : /\ Asked(n) = 0 /\ Asked(n)' = (IF n = m THEN 1 ELSE 0)
                              /\ load'[n] = (IF n = m THEN load[m] + 1 ELSE load[n])
        /\ load[m] < Capacity[m]
    BY <1>10, FleetAssumption DEF Send, TickInv, NoAsk, Asked, TypeOK, MostFree, HasSlot
  <2>2. \A n \in Machine, u \in Task : u \in Taken(n)' => u \in Taken(n)
    BY <1>10, <2>1, FleetAssumption DEF Send, Taken, NoAsk, fleet
  <2>3. \A n \in Machine : /\ Cardinality(Taken(n)') \in Nat
                           /\ Cardinality(Taken(n)') <= Cardinality(Taken(n))
    BY <2>2, NothingTaken
  <2> QED
    BY <2>1, <2>3, Counted, FleetAssumption DEF LoadInv, TypeOK
<1>11. ASSUME EndTick PROVE LoadInv'
  <2>1. \A n \in Machine, u \in Task : u \in Taken(n)' => u \in Taken(n)
    BY <1>11 DEF EndTick, Forget, memory, fleet, Taken, TickInv
  <2>2. /\ pc # "probing" \/ pc' = "probing"
        /\ load' = load \/ pc' = "probing"
        /\ \A n \in Machine : Asked(n)' = Asked(n) \/ Asked(n)' = 0
    BY <1>11, FleetAssumption, AskTyped DEF EndTick, Forget, memory, tick, fleet, Asked,
        NoAsk
  <2> QED
    BY <2>1, <2>2, QuietLoad
<1>12. ASSUME MarkDispatched PROVE LoadInv'
  <2>1. /\ pc # "probing" /\ load' = load /\ ask' = NoAsk /\ remote' = remote
        /\ ask.task \in Task
    BY <1>12, MarkEffect DEF MarkDispatched, Answered, fleet
  <2>2. \A n \in Machine : Asked(n)' = 0
    BY <2>1, FleetAssumption DEF Asked, NoAsk
  <2>3. ASSUME NEW n \in Machine
        PROVE  /\ Cardinality(Taken(n)') \in Nat
               /\ Cardinality(Taken(n)') <= Cardinality(Taken(n)) + Asked(n)
    <3>1. \A u \in Task \ {ask.task} : u \in Taken(n)' => u \in Taken(n)
      BY <2>1 DEF Taken
    <3>2. CASE n = ask.machine
      BY <2>1, <3>1, <3>2, OneTaken, Counted DEF Asked
    <3>3. CASE n # ask.machine
      <4>1. ask.task \notin Taken(n)'
        BY <2>1, <3>3 DEF DoubtInv, SentOnce, Taken, LetGo
      <4> QED
        BY <3>1, <3>3, <4>1, NothingTaken, Counted DEF Asked
    <3> QED
      BY <3>2, <3>3
  <2> QED
    BY <2>1, <2>2, <2>3, Counted, FleetAssumption DEF LoadInv, TypeOK, Asked
<1>13. ASSUME LeaveUnmarked PROVE LoadInv'
  <2>1. \A n \in Machine, u \in Task : u \in Taken(n)' => u \in Taken(n)
    BY <1>13, FleetAssumption, AskTyped, RecordKinds
        DEF LeaveUnmarked, Answered, Markable, memory, tick, fleet, Taken, NoAsk, LetGo,
            DoubtInv, SentOnce, Unheard, WaitInv, Settled, TypeOK
  <2>2. /\ pc # "probing" \/ pc' = "probing"
        /\ load' = load \/ pc' = "probing"
        /\ \A n \in Machine : Asked(n)' = Asked(n) \/ Asked(n)' = 0
    BY <1>13, FleetAssumption, AskTyped DEF LeaveUnmarked, Answered, Markable, memory,
        tick, fleet, Asked, NoAsk
  <2> QED
    BY <2>1, <2>2, QuietLoad
<1>14. ASSUME RequestFails PROVE LoadInv'
  <2>1. \A n \in Machine, u \in Task : u \in Taken(n)' => u \in Taken(n)
    BY <1>14, FleetAssumption, AskTyped
        DEF RequestFails, OnItsWay, memory, tick, fleet, Taken, NoAsk, LetGo, DoubtInv,
            SentOnce, Unheard, WaitInv, Settled, TypeOK
  <2>2. /\ pc # "probing" \/ pc' = "probing"
        /\ load' = load \/ pc' = "probing"
        /\ \A n \in Machine : Asked(n)' = Asked(n) \/ Asked(n)' = 0
    BY <1>14, FleetAssumption, AskTyped DEF RequestFails, OnItsWay, memory, tick, fleet,
        Asked, NoAsk
  <2> QED
    BY <2>1, <2>2, QuietLoad
<1>15. ASSUME Deliver PROVE LoadInv'
  <2>1. \A n \in Machine, u \in Task : u \in Taken(n)' => u \in Taken(n)
    BY <1>15, AskTyped
        DEF Deliver, Receive, memory, tick, fleet, Taken, TypeOK, DoubtInv, LetGo
  <2>2. /\ pc # "probing" \/ pc' = "probing"
        /\ load' = load \/ pc' = "probing"
        /\ \A n \in Machine : Asked(n)' = Asked(n) \/ Asked(n)' = 0
    BY <1>15, FleetAssumption, AskTyped DEF Deliver, Receive, memory, tick, fleet, Asked
  <2> QED
    BY <2>1, <2>2, QuietLoad
<1>16. ASSUME Refuse PROVE LoadInv'
  <2>1. \A n \in Machine, u \in Task : u \in Taken(n)' => u \in Taken(n)
    BY <1>16, AskTyped
        DEF Refuse, memory, tick, fleet, Taken
  <2>2. /\ pc # "probing" \/ pc' = "probing"
        /\ load' = load \/ pc' = "probing"
        /\ \A n \in Machine : Asked(n)' = Asked(n) \/ Asked(n)' = 0
    BY <1>16, FleetAssumption, AskTyped DEF Refuse, memory, tick, fleet, Asked
  <2> QED
    BY <2>1, <2>2, QuietLoad
<1>17. ASSUME NEW m \in Machine, MachineDown(m) PROVE LoadInv'
  <2>1. \A n \in Machine, u \in Task : u \in Taken(n)' => u \in Taken(n)
    BY <1>17
        DEF MachineDown, memory, tick, fleet, Taken
  <2>2. /\ pc # "probing" \/ pc' = "probing"
        /\ load' = load \/ pc' = "probing"
        /\ \A n \in Machine : Asked(n)' = Asked(n) \/ Asked(n)' = 0
    BY <1>17 DEF MachineDown, memory, tick, fleet, Asked
  <2> QED
    BY <2>1, <2>2, QuietLoad
<1>18. ASSUME NEW m \in Machine, MachineUp(m) PROVE LoadInv'
  <2>1. \A n \in Machine, u \in Task : u \in Taken(n)' => u \in Taken(n)
    BY <1>18
        DEF MachineUp, memory, tick, fleet, Taken
  <2>2. /\ pc # "probing" \/ pc' = "probing"
        /\ load' = load \/ pc' = "probing"
        /\ \A n \in Machine : Asked(n)' = Asked(n) \/ Asked(n)' = 0
    BY <1>18 DEF MachineUp, memory, tick, fleet, Asked
  <2> QED
    BY <2>1, <2>2, QuietLoad
<1>19. ASSUME NEW m \in Machine, NEW t \in Task, DeliverLate(m, t) PROVE LoadInv'
  <2>1. \A n \in Machine, u \in Task : u \in Taken(n)' => u \in Taken(n)
    BY <1>19
        DEF DeliverLate, Receive, memory, tick, fleet, Taken, TypeOK, DoubtInv, LetGo
  <2>2. /\ pc # "probing" \/ pc' = "probing"
        /\ load' = load \/ pc' = "probing"
        /\ \A n \in Machine : Asked(n)' = Asked(n) \/ Asked(n)' = 0
    BY <1>19 DEF DeliverLate, Receive, memory, tick, fleet, Asked
  <2> QED
    BY <2>1, <2>2, QuietLoad
<1>20. ASSUME NEW m \in Machine, NEW t \in Task, RemoteRun(m, t) PROVE LoadInv'
  <2>1. \A n \in Machine, u \in Task : u \in Taken(n)' => u \in Taken(n)
    BY <1>20
        DEF RemoteRun, memory, tick, fleet, Taken, TypeOK, DoubtInv, LetGo
  <2>2. /\ pc # "probing" \/ pc' = "probing"
        /\ load' = load \/ pc' = "probing"
        /\ \A n \in Machine : Asked(n)' = Asked(n) \/ Asked(n)' = 0
    BY <1>20 DEF RemoteRun, memory, tick, fleet, Asked
  <2> QED
    BY <2>1, <2>2, QuietLoad
<1>21. ASSUME Crash PROVE LoadInv'
  <2>1. \A n \in Machine, u \in Task : u \in Taken(n)' => u \in Taken(n)
    BY <1>21, FleetAssumption
        DEF Crash, Forget, memory, tick, fleet, Taken, NoAsk, LetGo
  <2>2. /\ pc # "probing" \/ pc' = "probing"
        /\ load' = load \/ pc' = "probing"
        /\ \A n \in Machine : Asked(n)' = Asked(n) \/ Asked(n)' = 0
    BY <1>21, FleetAssumption, AskTyped DEF Crash, Forget, memory, tick, fleet, Asked, NoAsk
  <2> QED
    BY <2>1, <2>2, QuietLoad
<1>22. ASSUME Recover PROVE LoadInv'
  <2>1. \A n \in Machine, u \in Task : u \in Taken(n)' => u \in Taken(n)
    BY <1>22
        DEF Recover, Restored, memory, tick, fleet, Taken
  <2>2. /\ pc # "probing" \/ pc' = "probing"
        /\ load' = load \/ pc' = "probing"
        /\ \A n \in Machine : Asked(n)' = Asked(n) \/ Asked(n)' = 0
    BY <1>22 DEF Recover, Restored, memory, tick, fleet, Asked
  <2> QED
    BY <2>1, <2>2, QuietLoad
<1>23. CASE UNCHANGED vars
  BY <1>23 DEF vars, memory, tick, fleet, LoadInv, Asked, Taken, LetGo
<1> QED
  BY <1>1, <1>2, <1>3, <1>4, <1>5, <1>6, <1>7, <1>8, <1>9, <1>10, <1>11, <1>12,
      <1>13, <1>14, <1>15, <1>16, <1>17, <1>18, <1>19, <1>20, <1>21, <1>22, <1>23
      DEF Next, Client, Loop, Fleet

\* A task is placed only from queued, and a start brings back only what was
\* queued or placed when the coordinator went down.
LEMMA CancelStep ==
    ASSUME TypeOK, TickInv, [Next]_vars
    PROVE  \A t \in Task : obj[t].status = "cancelled" => obj'[t].status # "dispatched"
<1>1. CASE \E t \in Task : Submit(t) \/ CancelTask(t) \/ RetryTask(t) \/ FailSaturated(t)
  <2> PICK t \in Task : Submit(t) \/ CancelTask(t) \/ RetryTask(t) \/ FailSaturated(t)
    BY <1>1
  <2>1. /\ \A u \in Task \ {t} : obj'[u] = obj[u]
        /\ obj'[t].status # "dispatched"
    BY SubmitEffect, CancelEffect, RetryEffect, SaturatedEffect, RecordKinds DEF Follows
  <2> QED
    BY <2>1
<1>2. CASE \E silent \in SUBSET Machine : Plan(silent) \/ PlanAborts(silent)
  <2> PICK silent \in SUBSET Machine : Plan(silent) \/ PlanAborts(silent)
    BY <1>2
  <2>1. \A t \in Task : obj'[t] \in {obj[t], Queued}
    BY PlanEffect, AbortEffect
  <2> QED
    BY <2>1, RecordKinds
<1>3. CASE MarkDispatched
  BY <1>3, MarkEffect DEF Follows
<1>4. CASE Crash
  BY <1>4, RecordKinds DEF Crash
<1>5. CASE Recover
  BY <1>5, RecordKinds DEF Recover, TickInv
<1>6. CASE UNCHANGED obj
  BY <1>6
<1> QED
  BY <1>1, <1>2, <1>3, <1>4, <1>5, <1>6 DEF Next, Client, Loop, Fleet, vars, memory,
      PutEntry, ProbeAnswered, ProbeLost, Probed, Send, EndTick, LeaveUnmarked,
      RequestFails, Deliver, DeliverLate, Receive, Refuse, MachineDown, MachineUp,
      RemoteRun


-----------------------------------------------------------------------------
(* The theorems *)

\* Nothing is known, sent or placed in the beginning.
LEMMA InitFleet == Init => FleetInv
<1> SUFFICES ASSUME Init PROVE FleetInv
  OBVIOUS
<1>1. TypeOK
  <2>1. obj \in [Task -> Record] /\ row \in [Task -> Record]
    BY RecordsTyped DEF Init
  <2>2. probe \in [Machine -> {"asked", "healthy", "unhealthy"}] /\ load \in [Machine -> Nat]
    BY DEF Init
  <2>3. remote \in [Machine -> [Task -> {"none", "queued", "run"}]]
    BY DEF Init
  <2>4. depth \in 0..MaxDepth /\ troubles \in 0..MaxTroubles
    BY FleetAssumption DEF Init
  <2> QED
    BY <2>1, <2>2, <2>3, <2>4 DEF Init, TypeOK
<1>2. TickInv
  BY DEF Init, TickInv
<1>3. RealInv /\ UnknownInv /\ WaitInv /\ HeldInv
  BY RecordKinds, FleetAssumption DEF Init, RealInv, PlacementIsReal, NoAsk, UnknownInv,
      Unheard, WaitInv, HeldInv, Settled
<1>4. DoubtInv
  BY FleetAssumption DEF Init, DoubtInv, SentOnce, Unheard, NoAsk,
      DoublePlacementIsExplained
<1>5. LoadInv
  <2>1. \A m \in Machine : Taken(m) = {} /\ Asked(m) = 0
    BY FleetAssumption DEF Init, Taken, Asked, NoAsk
  <2> QED
    BY <2>1, FS_EmptySet, FleetAssumption DEF Init, LoadInv
<1> QED
  BY <1>1, <1>2, <1>3, <1>4, <1>5 DEF FleetInv

\* The inductive invariant: the tick and its submission, what machines have
\* heard of which task, what rows say, and the tick's count of slots.
THEOREM FleetInvariance == Spec => []FleetInv
<1>1. FleetInv /\ [Next]_vars => FleetInv'
  BY TypeStep, TickStep, RealStep, UnknownStep, DoubtStep, WaitStep,
      HeldStep, LoadStep DEF FleetInv
<1> QED
  BY <1>1, InitFleet, PTL DEF Spec

\* Every variable keeps its type (fleet_coordinator.py).
THEOREM FleetTypes == Spec => []TypeOK
<1>1. FleetInv => TypeOK
  BY DEF FleetInv
<1> QED
  BY <1>1, FleetInvariance, PTL

\* What the coordinator has on a machine the machine has taken, whatever is
\* lost, late or crashes (fleet_coordinator.py, fleet/client.py).
THEOREM PlacementsAreReal == Spec => []PlacementIsReal
<1>1. FleetInv => PlacementIsReal
  BY DEF FleetInv, RealInv
<1> QED
  BY <1>1, FleetInvariance, PTL

\* Only a task whose whereabouts were in doubt is ever on two machines
\* (fleet_coordinator.py).
THEOREM PlacedOnceUnlessInDoubt == Spec => []DoublePlacementIsExplained
<1>1. FleetInv => DoublePlacementIsExplained
  BY DEF FleetInv, DoubtInv
<1> QED
  BY <1>1, FleetInvariance, PTL

\* Beyond its slots a machine has only what the coordinator has let go of, for
\* any number of tasks, machines and slots (fleet_coordinator.py:206-221).
THEOREM SlotsAreRespected == Spec => []CapacityRespected
<1>1. FleetInv => CapacityRespected
  <2> SUFFICES ASSUME FleetInv, NEW m \in Machine
      PROVE  Cardinality({t \in Task \ LetGo : remote[m][t] # "none"}) <= Capacity[m]
    BY DEF CapacityRespected
  <2> DEFINE H == {t \in Task \ LetGo : remote[m][t] # "none"}
  <2>1. /\ IsFiniteSet(Taken(m)) /\ Cardinality(Taken(m)) \in Nat /\ Capacity[m] \in Nat
        /\ Cardinality(Taken(m)) + Asked(m) <= Capacity[m]
    BY Counted, FleetAssumption DEF FleetInv, LoadInv
  <2>2. CASE ask.machine = m
    <3>1. ask.task \in Task
      BY <2>2, AskTyped DEF FleetInv
    <3>2. H \subseteq Taken(m) \cup {ask.task}
      BY DEF Taken
    <3>3. /\ IsFiniteSet(Taken(m) \cup {ask.task})
          /\ \/ Cardinality(Taken(m) \cup {ask.task}) = Cardinality(Taken(m))
             \/ Cardinality(Taken(m) \cup {ask.task}) = Cardinality(Taken(m)) + 1
      BY <2>1, FS_AddElement
    <3>4. /\ Cardinality(H) \in Nat
          /\ Cardinality(H) <= Cardinality(Taken(m) \cup {ask.task})
      BY <3>2, <3>3, FS_Subset, FS_CardinalityType
    <3> QED
      BY <2>1, <2>2, <3>3, <3>4 DEF Asked
  <2>3. CASE ask.machine # m
    <3>1. H \subseteq Taken(m)
      BY <2>3 DEF Taken, FleetInv, DoubtInv, SentOnce, LetGo
    <3>2. Cardinality(H) \in Nat /\ Cardinality(H) <= Cardinality(Taken(m))
      BY <2>1, <3>1, FS_Subset, FS_CardinalityType
    <3> QED
      BY <2>1, <2>3, <3>2 DEF Asked
  <2> QED
    BY <2>2, <2>3
<1> QED
  BY <1>1, FleetInvariance, PTL

\* What is cancelled is never marked dispatched (#978d,
\* fleet_coordinator.py).
THEOREM CancellationsAreKept == Spec => CancelIsKept
<1> DEFINE Kept == \A t \in Task : obj[t].status = "cancelled" => obj'[t].status # "dispatched"
<1>1. FleetInv /\ [Next]_vars => [Kept]_vars
  <2> SUFFICES ASSUME FleetInv, [Next]_vars PROVE [Kept]_vars
    OBVIOUS
  <2> QED
    BY CancelStep DEF FleetInv
<1>2. Spec => [][Kept]_vars
  BY <1>1, FleetInvariance, PTL DEF Spec
<1> QED
  BY <1>2 DEF CancelIsKept
=============================================================================
