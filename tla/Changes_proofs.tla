--------------------------- MODULE Changes_proofs ---------------------------
(***************************************************************************)
(* Proofs about the components in which agents change things: actions and   *)
(* their approval, delegate sessions, and leases in memory.  The steps of   *)
(* an operation on sessions interleave with those of others, so what its    *)
(* owner has still to write, and from which rows it was determined, is part *)
(* of the invariant.  A behaviour of MCChanges moves one component and      *)
(* leaves the others alone, so the conjunction is inductive.                *)
(***************************************************************************)
EXTENDS MCChanges, FiniteSetTheorems, SequenceTheorems, WellFoundedInduction, TLAPS

-----------------------------------------------------------------------------
(* Actions *)

\* Where a tool call is says what the store holds of its action: from its
\* approval on only the call itself can move it, and it was approved by the policy.
\* A call without the service has no action there.
CallInv ==
    \A a \in Act :
        /\ call[a] = "idle" => action[a].status = "none"
        /\ call[a] = "proposed" => action[a].status \in {"proposed", "approved", "rejected"}
        /\ call[a] = "approved" => action[a].status = "approved"
        /\ call[a] \in {"marked", "ready", "done", "broken"} => action[a].status = "running"
        /\ call[a] \in {"approved", "marked", "ready", "done", "broken"} =>
              action[a].by = "policy" /\ ~RequiresApproval(a)
        /\ action[a].status # "none" => a \in Wired
        /\ call[a] \in {"direct", "acted"} => a \notin Wired

\* The flag is raised before the effect; in memory it is lost only with all runs.
FlagInv ==
    /\ flagged.memory \subseteq flagged.disk \cup unsaved
    /\ \A a \in Wired : a \in effects \/ call[a] \in {"ready", "done", "broken"} =>
          /\ TaskOf[a] \in flagged.disk \cup unsaved
          /\ attempt[TaskOf[a]] = "first" => TaskOf[a] \in flagged.memory

\* Only what was applied is reversed.
ReversalInv ==
    /\ \A a \in held \cup restored : action[a].status \in {"applied", "reverted"}
    /\ \A a \in held : EditsFiles(a)
    /\ \A a \in Act : /\ EditsFiles(a)
                      /\ call[a] = "done" \/ action[a].status \in {"applied", "reverted"}
                      => inverse[a] # "none"
    /\ \A a \in Act : action[a].status = "reverted" => a \in restored
    /\ \A a \in restored : tree[FileOf[a]] = a => \E b \in restored : inverse[b] = a

ActionInv ==
    /\ ActionTypeOK /\ CallInv /\ FlagInv /\ ReversalInv
    /\ EffectIsPermitted /\ RunningIsAccountedFor

\* Nothing is proposed, and no run is under way.
LEMMA ActionInitial == ActionInit => ActionInv
<1> SUFFICES ASSUME ActionInit PROVE ActionInv
  OBVIOUS
<1> USE ActionAssumption
<1>1. ActionTypeOK
  BY DEF ActionInit, ActionTypeOK, ActionStatus
<1>2. CallInv /\ FlagInv /\ ReversalInv /\ EffectIsPermitted /\ RunningIsAccountedFor
  BY DEF ActionInit, CallInv, FlagInv, ReversalInv, EffectIsPermitted,
     RunningIsAccountedFor
<1> QED
  BY <1>1, <1>2 DEF ActionInv

\* Every step keeps the types.
LEMMA ActionTypesKept == ActionInv /\ [ActionNext]_actionVars => ActionTypeOK'
<1> SUFFICES ASSUME ActionInv, [ActionNext]_actionVars PROVE ActionTypeOK'
  OBVIOUS
<1> DEFINE Goal == ActionTypeOK'
<1> USE ActionAssumption
<1> USE DEF ActionInv
<1>1. ASSUME NEW a \in Act, Propose(a) PROVE Goal
  BY <1>1 DEF Propose, At, GoTo, actionHistory, workspace, ReversalInv, ActionTypeOK,
     ActionStatus
<1>2. ASSUME NEW a \in Act, LeavePending(a) PROVE Goal
  BY <1>2 DEF LeavePending, At, GoTo, EndsProposed, actionHistory, workspace,
     ReversalInv, ActionTypeOK, ActionStatus
<1>3. ASSUME NEW a \in Act, Skip(a) PROVE Goal
  <2>1. CASE May(a, "skipped") /\ Put(a, "skipped") /\ GoTo(a, "over") /\ UNCHANGED cut
    BY <1>3, <2>1 DEF Skip, May, Put, GoTo, workspace, NextStatuses, ActionTypeOK,
       ActionStatus
  <2>2. CASE CutOff(a)
    BY <1>3, <2>2 DEF Skip, CutOff, GoTo, workspace, ActionTypeOK, ActionStatus
  <2> QED
    BY <1>3, <2>1, <2>2 DEF Skip
<1>4. ASSUME NEW a \in Act, AutoApprove(a) PROVE Goal
  <2>1. CASE May(a, "approved") /\ Approve(a, "policy") /\ GoTo(a, "approved") /\ UNCHANGED cut
    BY <1>4, <2>1 DEF AutoApprove, At, May, Approve, GoTo, workspace, NextStatuses,
       ActionTypeOK, ActionStatus
  <2>2. CASE CutOff(a)
    BY <1>4, <2>2 DEF AutoApprove, CutOff, GoTo, workspace, ActionTypeOK, ActionStatus
  <2> QED
    BY <1>4, <2>1, <2>2 DEF AutoApprove
<1>5. ASSUME NEW a \in Act, MarkRunning(a) PROVE Goal
  BY <1>5 DEF MarkRunning, At, GoTo, May, Put, actionHistory, workspace, NextStatuses,
     ReversalInv, ActionTypeOK, ActionStatus
<1>6. ASSUME NEW a \in Act, RaiseFlag(a) PROVE Goal
  <2>1. flagged' \in [memory : SUBSET ActTask, disk : SUBSET ActTask]
    <3>1. flagged \in [memory : SUBSET ActTask, disk : SUBSET ActTask] /\ TaskOf[a] \in ActTask
      BY DEF ActionTypeOK
    <3>2. [flagged EXCEPT !.memory = @ \cup {TaskOf[a]}]
             \in [memory : SUBSET ActTask, disk : SUBSET ActTask]
      BY <3>1
    <3>3. [memory |-> flagged.memory \cup {TaskOf[a]}, disk |-> flagged.disk \cup {TaskOf[a]}]
             \in [memory : SUBSET ActTask, disk : SUBSET ActTask]
      BY <3>1
    <3>4. CASE UNCHANGED flagged
      BY <3>1, <3>4
    <3>5. CASE flagged' = [flagged EXCEPT !.memory = @ \cup {TaskOf[a]}]
      BY <3>2, <3>5
    <3>6. CASE flagged' = [memory |-> flagged.memory \cup {TaskOf[a]},
                           disk |-> flagged.disk \cup {TaskOf[a]}]
      BY <3>3, <3>6
    <3> QED
      BY ONLY <1>6, <3>4, <3>5, <3>6 DEF RaiseFlag
  <2>2. call' \in [Act -> {"idle", "proposed", "approved", "marked", "ready",
                         "done", "broken", "direct", "acted", "over"}]
    BY <1>6 DEF RaiseFlag, GoTo, ActionTypeOK
  <2>3. cut' \subseteq Act /\ unsaved' \subseteq ActTask /\ mishaps' \in 0..MaxMishaps
    <3>1. TaskOf[a] \in ActTask /\ mishaps \in 0..MaxMishaps
      BY DEF ActionTypeOK
    <3>2. CASE UNCHANGED <<cut, unsaved, mishaps>>
      BY <3>2 DEF ActionTypeOK
    <3>3. CASE Mishap /\ cut' = cut \cup {a} /\ unsaved' = unsaved \cup {TaskOf[a]}
      BY <3>1, <3>3 DEF Mishap, ActionTypeOK
    <3> QED
      BY ONLY <1>6, <3>2, <3>3 DEF RaiseFlag
  <2> QED
    BY <1>6, <2>1, <2>2, <2>3 DEF RaiseFlag, workspace, ActionTypeOK
<1>7. ASSUME NEW a \in Act, TakeEffect(a) PROVE Goal
  <2>1. /\ tree' \in [File -> Act \cup {"original", "absent"}]
        /\ inverse' \in [Act -> Act \cup {"original", "absent", "none"}]
    BY <1>7 DEF TakeEffect, ActionTypeOK
  <2>2. call' \in [Act -> {"idle", "proposed", "approved", "marked", "ready",
                         "done", "broken", "direct", "acted", "over"}]
    BY <1>7 DEF TakeEffect, GoTo, ActionTypeOK
  <2> QED
    BY <1>7, <2>1, <2>2 DEF TakeEffect, ActionTypeOK
<1>8. ASSUME NEW a \in Act, FailEffect(a) PROVE Goal
  BY <1>8 DEF FailEffect, At, GoTo, Mishap, workspace, ReversalInv, ActionTypeOK,
     ActionStatus
<1>9. ASSUME NEW a \in Act, RaiseUnhandled(a) PROVE Goal
  BY <1>9 DEF RaiseUnhandled, At, CutOff, Mishap, workspace, GoTo, ReversalInv,
     ActionTypeOK, ActionStatus
<1>10. ASSUME NEW a \in Act, MarkApplied(a) PROVE Goal
  BY <1>10 DEF MarkApplied, At, GoTo, May, Put, actionHistory, workspace, NextStatuses,
     ReversalInv, ActionTypeOK, ActionStatus
<1>11. ASSUME NEW a \in Act, MarkFailed(a) PROVE Goal
  BY <1>11 DEF MarkFailed, At, GoTo, May, Put, actionHistory, workspace, NextStatuses,
     ReversalInv, ActionTypeOK, ActionStatus
<1>12. ASSUME NEW a \in Act, WriteFails(a) PROVE Goal
  BY <1>12 DEF WriteFails, At, GoTo, CutOff, Mishap, EndsProposed, workspace,
     ReversalInv, ActionTypeOK, ActionStatus
<1>13. ASSUME NEW a \in Act, OperatorApproves(a) PROVE Goal
  BY <1>13 DEF OperatorApproves, May, Approve, actionHistory, workspace, NextStatuses,
     ReversalInv, ActionTypeOK, ActionStatus
<1>14. ASSUME NEW a \in Act, OperatorRejects(a) PROVE Goal
  BY <1>14 DEF OperatorRejects, May, Put, actionHistory, workspace, NextStatuses,
     ReversalInv, ActionTypeOK, ActionStatus
<1>15. ASSUME NEW a \in Act, CancelRun(a) PROVE Goal
  BY <1>15, SMTT(30) DEF CancelRun, CutOff, Mishap, Awaiting, GoTo, ReversalInv,
     ActionTypeOK,
     ActionStatus
<1>16. ASSUME NEW a \in Act, TakeHold(a) PROVE Goal
  BY <1>16 DEF TakeHold, EditsFiles, actionLedger, actionHistory, ReversalInv,
     ActionTypeOK, ActionStatus
<1>17. ASSUME NEW a \in Act, Restore(a) PROVE Goal
  BY <1>17 DEF Restore, actionLedger, actionHistory, ReversalInv, ActionTypeOK,
     ActionStatus
<1>18. ASSUME NEW a \in Act, MarkReverted(a) PROVE Goal
  BY <1>18 DEF MarkReverted, May, Put, actionHistory, workspace, NextStatuses,
     ReversalInv, ActionTypeOK, ActionStatus
<1>19. ASSUME NEW t \in ActTask, StallRetry(t) PROVE Goal
  BY <1>19 DEF StallRetry, Awaiting, InCall, workspace, ReversalInv, ActionTypeOK,
     ActionStatus
<1>20. ASSUME ActionCrash PROVE Goal
  BY <1>20 DEF ActionCrash, Mishap, InCall, ReversalInv, ActionTypeOK, ActionStatus
<1>21. ASSUME UNCHANGED actionVars PROVE Goal
  BY <1>21 DEF actionVars, actionLedger, workspace, actionHistory, ReversalInv,
     ActionTypeOK, ActionStatus
<1>22. ASSUME NEW a \in Act, StartDirect(a) PROVE Goal
  BY <1>22 DEF StartDirect, At, GoTo, workspace, actionHistory, ReversalInv, ActionTypeOK,
      ActionStatus
<1>23. ASSUME NEW a \in Act, ActDirectly(a) PROVE Goal
  BY <1>23 DEF ActDirectly, At, GoTo, ReversalInv, ActionTypeOK, ActionStatus
<1>24. ASSUME NEW a \in Act, ReturnDirectly(a) PROVE Goal
  BY <1>24 DEF ReturnDirectly, At, GoTo, workspace, actionHistory, ReversalInv,
      ActionTypeOK, ActionStatus
<1> QED
  BY <1>1, <1>2, <1>3, <1>4, <1>5, <1>6, <1>7, <1>8, <1>9, <1>10, <1>11, <1>12, <1>13,
     <1>14, <1>15, <1>16, <1>17, <1>18, <1>19, <1>20, <1>21, <1>22, <1>23,
     <1>24 DEF ActionNext, ToolStep

\* A step of a call moves its action along the same way; those of others cannot
\* move an action that its call has in hand.
LEMMA CallInvKept == ActionInv /\ [ActionNext]_actionVars => CallInv'
<1> SUFFICES ASSUME ActionInv, [ActionNext]_actionVars PROVE CallInv'
  OBVIOUS
<1> DEFINE Goal == CallInv'
<1> USE ActionAssumption
<1> USE DEF ActionInv
<1>1. ASSUME NEW a \in Act, Propose(a) PROVE Goal
  BY <1>1 DEF Propose, At, GoTo, actionHistory, workspace, CallInv, ActionTypeOK,
     RequiresApproval, EditsFiles
<1>2. ASSUME NEW a \in Act, LeavePending(a) PROVE Goal
  BY <1>2 DEF LeavePending, At, GoTo, EndsProposed, actionHistory, workspace, CallInv,
     ActionTypeOK, RequiresApproval, EditsFiles
<1>3. ASSUME NEW a \in Act, Skip(a) PROVE Goal
  BY <1>3 DEF Skip, At, GoTo, CutOff, May, Put, EndsProposed, Allowed, workspace,
     NextStatuses, CallInv, ActionTypeOK, RequiresApproval, EditsFiles
<1>4. ASSUME NEW a \in Act, AutoApprove(a) PROVE Goal
  BY <1>4 DEF AutoApprove, At, GoTo, CutOff, May, Approve, RequiresApproval, workspace,
     NextStatuses, CallInv, ActionTypeOK, EditsFiles
<1>5. ASSUME NEW a \in Act, MarkRunning(a) PROVE Goal
  BY <1>5 DEF MarkRunning, At, GoTo, May, Put, actionHistory, workspace, NextStatuses,
     CallInv, ActionTypeOK, RequiresApproval, EditsFiles
<1>6. ASSUME NEW a \in Act, RaiseFlag(a) PROVE Goal
  BY <1>6 DEF RaiseFlag, At, GoTo, Mishap, workspace, CallInv, ActionTypeOK,
     RequiresApproval, EditsFiles
<1>7. ASSUME NEW a \in Act, TakeEffect(a) PROVE Goal
  BY <1>7 DEF TakeEffect, At, GoTo, EditsFiles, CallInv, ActionTypeOK, RequiresApproval
<1>8. ASSUME NEW a \in Act, FailEffect(a) PROVE Goal
  BY <1>8 DEF FailEffect, At, GoTo, Mishap, workspace, CallInv, ActionTypeOK,
     RequiresApproval, EditsFiles
<1>9. ASSUME NEW a \in Act, RaiseUnhandled(a) PROVE Goal
  BY <1>9 DEF RaiseUnhandled, At, CutOff, Mishap, workspace, GoTo, CallInv,
     ActionTypeOK, RequiresApproval, EditsFiles
<1>10. ASSUME NEW a \in Act, MarkApplied(a) PROVE Goal
  BY <1>10 DEF MarkApplied, At, GoTo, May, Put, actionHistory, workspace, NextStatuses,
     CallInv, ActionTypeOK, RequiresApproval, EditsFiles
<1>11. ASSUME NEW a \in Act, MarkFailed(a) PROVE Goal
  BY <1>11 DEF MarkFailed, At, GoTo, May, Put, actionHistory, workspace, NextStatuses,
     CallInv, ActionTypeOK, RequiresApproval, EditsFiles
<1>12. ASSUME NEW a \in Act, WriteFails(a) PROVE Goal
  BY <1>12 DEF WriteFails, At, GoTo, CutOff, Mishap, EndsProposed, workspace, CallInv,
     ActionTypeOK, RequiresApproval, EditsFiles
<1>13. ASSUME NEW a \in Act, OperatorApproves(a) PROVE Goal
  BY <1>13 DEF OperatorApproves, May, Approve, actionHistory, workspace, NextStatuses,
     CallInv, ActionTypeOK, RequiresApproval, EditsFiles
<1>14. ASSUME NEW a \in Act, OperatorRejects(a) PROVE Goal
  BY <1>14 DEF OperatorRejects, May, Put, actionHistory, workspace, NextStatuses,
     CallInv, ActionTypeOK, RequiresApproval, EditsFiles
<1>15. ASSUME NEW a \in Act, CancelRun(a) PROVE Goal
  BY <1>15 DEF CancelRun, CutOff, Mishap, Awaiting, GoTo, CallInv, ActionTypeOK,
     RequiresApproval, EditsFiles
<1>16. ASSUME NEW a \in Act, TakeHold(a) PROVE Goal
  BY <1>16 DEF TakeHold, EditsFiles, actionLedger, actionHistory, CallInv, ActionTypeOK,
     RequiresApproval
<1>17. ASSUME NEW a \in Act, Restore(a) PROVE Goal
  BY <1>17 DEF Restore, actionLedger, actionHistory, CallInv, ActionTypeOK,
     RequiresApproval, EditsFiles
<1>18. ASSUME NEW a \in Act, MarkReverted(a) PROVE Goal
  BY <1>18 DEF MarkReverted, May, Put, actionHistory, workspace, NextStatuses, CallInv,
     ActionTypeOK, RequiresApproval, EditsFiles
<1>19. ASSUME NEW t \in ActTask, StallRetry(t) PROVE Goal
  BY <1>19 DEF StallRetry, Awaiting, InCall, workspace, CallInv, ActionTypeOK,
     RequiresApproval, EditsFiles
<1>20. ASSUME ActionCrash PROVE Goal
  BY <1>20 DEF ActionCrash, Mishap, InCall, CallInv, ActionTypeOK, RequiresApproval,
     EditsFiles
<1>21. ASSUME UNCHANGED actionVars PROVE Goal
  BY <1>21 DEF actionVars, actionLedger, workspace, actionHistory, CallInv,
     ActionTypeOK, RequiresApproval, EditsFiles
<1>22. ASSUME NEW a \in Act, StartDirect(a) PROVE Goal
  BY <1>22 DEF StartDirect, At, GoTo, workspace, actionHistory, CallInv, ActionTypeOK,
      RequiresApproval, EditsFiles
<1>23. ASSUME NEW a \in Act, ActDirectly(a) PROVE Goal
  BY <1>23 DEF ActDirectly, At, GoTo, CallInv, ActionTypeOK, RequiresApproval, EditsFiles
<1>24. ASSUME NEW a \in Act, ReturnDirectly(a) PROVE Goal
  BY <1>24 DEF ReturnDirectly, At, GoTo, workspace, actionHistory, CallInv, ActionTypeOK,
      RequiresApproval, EditsFiles
<1> QED
  BY <1>1, <1>2, <1>3, <1>4, <1>5, <1>6, <1>7, <1>8, <1>9, <1>10, <1>11, <1>12, <1>13,
     <1>14, <1>15, <1>16, <1>17, <1>18, <1>19, <1>20, <1>21, <1>22, <1>23,
     <1>24 DEF ActionNext, ToolStep

\* The flag is raised before the effect, and on disk before in memory.
LEMMA FlagInvKept == ActionInv /\ [ActionNext]_actionVars => FlagInv'
<1> SUFFICES ASSUME ActionInv, [ActionNext]_actionVars PROVE FlagInv'
  OBVIOUS
<1> DEFINE Goal == FlagInv'
<1> USE ActionAssumption
<1> USE DEF ActionInv
<1>1. ASSUME NEW a \in Act, Propose(a) PROVE Goal
  BY <1>1 DEF Propose, At, GoTo, actionHistory, workspace, FlagInv, ActionTypeOK
<1>2. ASSUME NEW a \in Act, LeavePending(a) PROVE Goal
  BY <1>2 DEF LeavePending, At, GoTo, EndsProposed, actionHistory, workspace, FlagInv,
     ActionTypeOK
<1>3. ASSUME NEW a \in Act, Skip(a) PROVE Goal
  BY <1>3 DEF Skip, At, GoTo, CutOff, May, Put, EndsProposed, Allowed, workspace,
     NextStatuses, FlagInv, ActionTypeOK
<1>4. ASSUME NEW a \in Act, AutoApprove(a) PROVE Goal
  BY <1>4 DEF AutoApprove, At, GoTo, CutOff, May, Approve, RequiresApproval, workspace,
     NextStatuses, FlagInv, ActionTypeOK
<1>5. ASSUME NEW a \in Act, MarkRunning(a) PROVE Goal
  BY <1>5 DEF MarkRunning, At, GoTo, May, Put, actionHistory, workspace, NextStatuses,
     FlagInv, ActionTypeOK
<1>6. ASSUME NEW a \in Act, RaiseFlag(a) PROVE Goal
  BY <1>6 DEF RaiseFlag, At, GoTo, Mishap, workspace, FlagInv, ActionTypeOK
<1>7. ASSUME NEW a \in Act, TakeEffect(a) PROVE Goal
  BY <1>7 DEF TakeEffect, At, GoTo, EditsFiles, FlagInv, ActionTypeOK
<1>8. ASSUME NEW a \in Act, FailEffect(a) PROVE Goal
  BY <1>8 DEF FailEffect, At, GoTo, Mishap, workspace, FlagInv, ActionTypeOK
<1>9. ASSUME NEW a \in Act, RaiseUnhandled(a) PROVE Goal
  BY <1>9 DEF RaiseUnhandled, At, CutOff, Mishap, workspace, GoTo, FlagInv, ActionTypeOK
<1>10. ASSUME NEW a \in Act, MarkApplied(a) PROVE Goal
  BY <1>10 DEF MarkApplied, At, GoTo, May, Put, actionHistory, workspace, NextStatuses,
     FlagInv, ActionTypeOK
<1>11. ASSUME NEW a \in Act, MarkFailed(a) PROVE Goal
  BY <1>11 DEF MarkFailed, At, GoTo, May, Put, actionHistory, workspace, NextStatuses,
     FlagInv, ActionTypeOK
<1>12. ASSUME NEW a \in Act, WriteFails(a) PROVE Goal
  BY <1>12 DEF WriteFails, At, GoTo, CutOff, Mishap, EndsProposed, workspace, FlagInv,
     ActionTypeOK
<1>13. ASSUME NEW a \in Act, OperatorApproves(a) PROVE Goal
  BY <1>13 DEF OperatorApproves, May, Approve, actionHistory, workspace, NextStatuses,
     FlagInv, ActionTypeOK
<1>14. ASSUME NEW a \in Act, OperatorRejects(a) PROVE Goal
  BY <1>14 DEF OperatorRejects, May, Put, actionHistory, workspace, NextStatuses,
     FlagInv, ActionTypeOK
<1>15. ASSUME NEW a \in Act, CancelRun(a) PROVE Goal
  BY <1>15, TaskOf[a] \in ActTask DEF CancelRun, CutOff, Mishap, Awaiting, GoTo, CallInv,
     FlagInv, ActionTypeOK
<1>16. ASSUME NEW a \in Act, TakeHold(a) PROVE Goal
  BY <1>16 DEF TakeHold, EditsFiles, actionLedger, actionHistory, FlagInv, ActionTypeOK
<1>17. ASSUME NEW a \in Act, Restore(a) PROVE Goal
  BY <1>17 DEF Restore, actionLedger, actionHistory, FlagInv, ActionTypeOK
<1>18. ASSUME NEW a \in Act, MarkReverted(a) PROVE Goal
  BY <1>18 DEF MarkReverted, May, Put, actionHistory, workspace, NextStatuses, FlagInv,
     ActionTypeOK
<1>19. ASSUME NEW t \in ActTask, StallRetry(t) PROVE Goal
  BY <1>19 DEF StallRetry, Awaiting, InCall, workspace, FlagInv, ActionTypeOK
<1>20. ASSUME ActionCrash PROVE Goal
  BY <1>20 DEF ActionCrash, Mishap, InCall, FlagInv, ActionTypeOK
<1>21. ASSUME UNCHANGED actionVars PROVE Goal
  BY <1>21 DEF actionVars, actionLedger, workspace, actionHistory, FlagInv, ActionTypeOK
<1>22. ASSUME NEW a \in Act, StartDirect(a) PROVE Goal
  BY <1>22 DEF StartDirect, At, GoTo, workspace, actionHistory, FlagInv, ActionTypeOK
<1>23. ASSUME NEW a \in Act, ActDirectly(a) PROVE Goal
  BY <1>23 DEF ActDirectly, At, GoTo, CallInv, FlagInv, ActionTypeOK
<1>24. ASSUME NEW a \in Act, ReturnDirectly(a) PROVE Goal
  BY <1>24 DEF ReturnDirectly, At, GoTo, workspace, actionHistory, FlagInv, ActionTypeOK
<1> QED
  BY <1>1, <1>2, <1>3, <1>4, <1>5, <1>6, <1>7, <1>8, <1>9, <1>10, <1>11, <1>12, <1>13,
     <1>14, <1>15, <1>16, <1>17, <1>18, <1>19, <1>20, <1>21, <1>22, <1>23,
     <1>24 DEF ActionNext, ToolStep

\* A reversal starts from an applied action, and what it puts back was there.
LEMMA ReversalInvKept == ActionInv /\ [ActionNext]_actionVars => ReversalInv'
<1> SUFFICES ASSUME ActionInv, [ActionNext]_actionVars PROVE ReversalInv'
  OBVIOUS
<1> DEFINE Goal == ReversalInv'
<1> USE ActionAssumption
<1> USE DEF ActionInv
<1>1. ASSUME NEW a \in Act, Propose(a) PROVE Goal
  BY <1>1 DEF Propose, At, GoTo, actionHistory, workspace, ReversalInv, CallInv,
     EditsFiles, ActionTypeOK
<1>2. ASSUME NEW a \in Act, LeavePending(a) PROVE Goal
  BY <1>2 DEF LeavePending, At, GoTo, EndsProposed, actionHistory, workspace,
     ReversalInv, CallInv, EditsFiles, ActionTypeOK
<1>3. ASSUME NEW a \in Act, Skip(a) PROVE Goal
  <2>1. CASE May(a, "skipped") /\ Put(a, "skipped") /\ GoTo(a, "over") /\ UNCHANGED cut
    BY <1>3, <2>1 DEF Skip, May, Put, GoTo, workspace, NextStatuses, ReversalInv, CallInv,
       EditsFiles, ActionTypeOK
  <2>2. CASE CutOff(a)
    BY <1>3, <2>2 DEF Skip, CutOff, GoTo, workspace, ReversalInv, CallInv, EditsFiles,
       ActionTypeOK
  <2> QED
    BY <1>3, <2>1, <2>2 DEF Skip
<1>4. ASSUME NEW a \in Act, AutoApprove(a) PROVE Goal
  <2>1. CASE May(a, "approved") /\ Approve(a, "policy") /\ GoTo(a, "approved") /\ UNCHANGED cut
    BY <1>4, <2>1 DEF AutoApprove, At, May, Approve, GoTo, workspace, NextStatuses,
       ReversalInv, CallInv, EditsFiles, ActionTypeOK
  <2>2. CASE CutOff(a)
    BY <1>4, <2>2 DEF AutoApprove, CutOff, GoTo, workspace, ReversalInv, CallInv,
       EditsFiles, ActionTypeOK
  <2> QED
    BY <1>4, <2>1, <2>2 DEF AutoApprove
<1>5. ASSUME NEW a \in Act, MarkRunning(a) PROVE Goal
  BY <1>5 DEF MarkRunning, At, GoTo, May, Put, actionHistory, workspace, NextStatuses,
     ReversalInv, CallInv, EditsFiles, ActionTypeOK
<1>6. ASSUME NEW a \in Act, RaiseFlag(a) PROVE Goal
  BY <1>6 DEF RaiseFlag, At, GoTo, Mishap, workspace, ReversalInv, CallInv, EditsFiles,
     ActionTypeOK
<1>7. ASSUME NEW a \in Act, TakeEffect(a) PROVE Goal
  BY <1>7 DEF TakeEffect, At, GoTo, EditsFiles, ReversalInv, CallInv, ActionTypeOK
<1>8. ASSUME NEW a \in Act, FailEffect(a) PROVE Goal
  BY <1>8 DEF FailEffect, At, GoTo, Mishap, workspace, ReversalInv, CallInv, EditsFiles,
     ActionTypeOK
<1>9. ASSUME NEW a \in Act, RaiseUnhandled(a) PROVE Goal
  BY <1>9 DEF RaiseUnhandled, At, CutOff, Mishap, workspace, GoTo, ReversalInv, CallInv,
     EditsFiles, ActionTypeOK
<1>10. ASSUME NEW a \in Act, MarkApplied(a) PROVE Goal
  BY <1>10 DEF MarkApplied, At, GoTo, May, Put, actionHistory, workspace, NextStatuses,
     ReversalInv, CallInv, EditsFiles, ActionTypeOK
<1>11. ASSUME NEW a \in Act, MarkFailed(a) PROVE Goal
  BY <1>11 DEF MarkFailed, At, GoTo, May, Put, actionHistory, workspace, NextStatuses,
     ReversalInv, CallInv, EditsFiles, ActionTypeOK
<1>12. ASSUME NEW a \in Act, WriteFails(a) PROVE Goal
  BY <1>12 DEF WriteFails, At, GoTo, CutOff, Mishap, EndsProposed, workspace,
     ReversalInv, CallInv, EditsFiles, ActionTypeOK
<1>13. ASSUME NEW a \in Act, OperatorApproves(a) PROVE Goal
  BY <1>13 DEF OperatorApproves, May, Approve, actionHistory, workspace, NextStatuses,
     ReversalInv, CallInv, EditsFiles, ActionTypeOK
<1>14. ASSUME NEW a \in Act, OperatorRejects(a) PROVE Goal
  BY <1>14 DEF OperatorRejects, May, Put, actionHistory, workspace, NextStatuses,
     ReversalInv, CallInv, EditsFiles, ActionTypeOK
<1>15. ASSUME NEW a \in Act, CancelRun(a) PROVE Goal
  BY <1>15 DEF CancelRun, CutOff, Mishap, Awaiting, GoTo, ReversalInv, CallInv,
     EditsFiles, ActionTypeOK
<1>16. ASSUME NEW a \in Act, TakeHold(a) PROVE Goal
  BY <1>16 DEF TakeHold, EditsFiles, actionLedger, actionHistory, ReversalInv, CallInv,
     ActionTypeOK
<1>17. ASSUME NEW a \in Act, Restore(a) PROVE Goal
  BY <1>17 DEF Restore, actionLedger, actionHistory, ReversalInv, CallInv, EditsFiles,
     ActionTypeOK
<1>18. ASSUME NEW a \in Act, MarkReverted(a) PROVE Goal
  BY <1>18 DEF MarkReverted, May, Put, actionHistory, workspace, NextStatuses,
     ReversalInv, CallInv, EditsFiles, ActionTypeOK
<1>19. ASSUME NEW t \in ActTask, StallRetry(t) PROVE Goal
  BY <1>19 DEF StallRetry, Awaiting, InCall, workspace, ReversalInv, CallInv,
     EditsFiles, ActionTypeOK
<1>20. ASSUME ActionCrash PROVE Goal
  BY <1>20 DEF ActionCrash, Mishap, InCall, ReversalInv, CallInv, EditsFiles, ActionTypeOK
<1>21. ASSUME UNCHANGED actionVars PROVE Goal
  BY <1>21 DEF actionVars, actionLedger, workspace, actionHistory, ReversalInv, CallInv,
     EditsFiles, ActionTypeOK
<1>22. ASSUME NEW a \in Act, StartDirect(a) PROVE Goal
  BY <1>22 DEF StartDirect, At, GoTo, workspace, actionHistory, ReversalInv, CallInv,
      EditsFiles, ActionTypeOK
<1>23. ASSUME NEW a \in Act, ActDirectly(a) PROVE Goal
  BY <1>23 DEF ActDirectly, At, GoTo, ReversalInv, CallInv, EditsFiles, ActionTypeOK
<1>24. ASSUME NEW a \in Act, ReturnDirectly(a) PROVE Goal
  BY <1>24 DEF ReturnDirectly, At, GoTo, workspace, actionHistory, ReversalInv, CallInv,
      EditsFiles, ActionTypeOK
<1> QED
  BY <1>1, <1>2, <1>3, <1>4, <1>5, <1>6, <1>7, <1>8, <1>9, <1>10, <1>11, <1>12, <1>13,
     <1>14, <1>15, <1>16, <1>17, <1>18, <1>19, <1>20, <1>21, <1>22, <1>23,
     <1>24 DEF ActionNext, ToolStep

\* An effect follows the approval of its call.
LEMMA EffectsStayPermitted == ActionInv /\ [ActionNext]_actionVars => EffectIsPermitted'
<1> SUFFICES ASSUME ActionInv, [ActionNext]_actionVars PROVE EffectIsPermitted'
  OBVIOUS
<1> DEFINE Goal == EffectIsPermitted'
<1> USE ActionAssumption
<1> USE DEF ActionInv
<1>1. ASSUME NEW a \in Act, Propose(a) PROVE Goal
  BY <1>1 DEF Propose, At, GoTo, actionHistory, workspace, EffectIsPermitted, CallInv,
     ActionTypeOK, RequiresApproval, Allowed, EditsFiles
<1>2. ASSUME NEW a \in Act, LeavePending(a) PROVE Goal
  BY <1>2 DEF LeavePending, At, GoTo, EndsProposed, actionHistory, workspace,
     EffectIsPermitted, CallInv, ActionTypeOK, RequiresApproval, Allowed, EditsFiles
<1>3. ASSUME NEW a \in Act, Skip(a) PROVE Goal
  BY <1>3, SMTT(30) DEF Skip, At, GoTo, CutOff, May, Put, EndsProposed, Allowed, workspace,
     NextStatuses, EffectIsPermitted, CallInv, ActionTypeOK, RequiresApproval,
     EditsFiles
<1>4. ASSUME NEW a \in Act, AutoApprove(a) PROVE Goal
  BY <1>4 DEF AutoApprove, At, GoTo, CutOff, May, Approve, RequiresApproval, workspace,
     NextStatuses, EffectIsPermitted, CallInv, ActionTypeOK, Allowed, EditsFiles
<1>5. ASSUME NEW a \in Act, MarkRunning(a) PROVE Goal
  BY <1>5 DEF MarkRunning, At, GoTo, May, Put, actionHistory, workspace, NextStatuses,
     EffectIsPermitted, CallInv, ActionTypeOK, RequiresApproval, Allowed, EditsFiles
<1>6. ASSUME NEW a \in Act, RaiseFlag(a) PROVE Goal
  BY <1>6 DEF RaiseFlag, At, GoTo, Mishap, workspace, EffectIsPermitted, CallInv,
     ActionTypeOK, RequiresApproval, Allowed, EditsFiles
<1>7. ASSUME NEW a \in Act, TakeEffect(a) PROVE Goal
  BY <1>7 DEF TakeEffect, At, GoTo, EditsFiles, EffectIsPermitted, CallInv,
     ActionTypeOK, RequiresApproval, Allowed
<1>8. ASSUME NEW a \in Act, FailEffect(a) PROVE Goal
  BY <1>8 DEF FailEffect, At, GoTo, Mishap, workspace, EffectIsPermitted, CallInv,
     ActionTypeOK, RequiresApproval, Allowed, EditsFiles
<1>9. ASSUME NEW a \in Act, RaiseUnhandled(a) PROVE Goal
  BY <1>9 DEF RaiseUnhandled, At, CutOff, Mishap, workspace, GoTo, EffectIsPermitted,
     CallInv, ActionTypeOK, RequiresApproval, Allowed, EditsFiles
<1>10. ASSUME NEW a \in Act, MarkApplied(a) PROVE Goal
  BY <1>10 DEF MarkApplied, At, GoTo, May, Put, actionHistory, workspace, NextStatuses,
     EffectIsPermitted, CallInv, ActionTypeOK, RequiresApproval, Allowed, EditsFiles
<1>11. ASSUME NEW a \in Act, MarkFailed(a) PROVE Goal
  BY <1>11 DEF MarkFailed, At, GoTo, May, Put, actionHistory, workspace, NextStatuses,
     EffectIsPermitted, CallInv, ActionTypeOK, RequiresApproval, Allowed, EditsFiles
<1>12. ASSUME NEW a \in Act, WriteFails(a) PROVE Goal
  BY <1>12 DEF WriteFails, At, GoTo, CutOff, Mishap, EndsProposed, workspace,
     EffectIsPermitted, CallInv, ActionTypeOK, RequiresApproval, Allowed, EditsFiles
<1>13. ASSUME NEW a \in Act, OperatorApproves(a) PROVE Goal
  BY <1>13 DEF OperatorApproves, May, Approve, actionHistory, workspace, NextStatuses,
     EffectIsPermitted, CallInv, ActionTypeOK, RequiresApproval, Allowed, EditsFiles
<1>14. ASSUME NEW a \in Act, OperatorRejects(a) PROVE Goal
  BY <1>14 DEF OperatorRejects, May, Put, actionHistory, workspace, NextStatuses,
     EffectIsPermitted, CallInv, ActionTypeOK, RequiresApproval, Allowed, EditsFiles
<1>15. ASSUME NEW a \in Act, CancelRun(a) PROVE Goal
  BY <1>15 DEF CancelRun, CutOff, Mishap, Awaiting, GoTo, EffectIsPermitted, CallInv,
     ActionTypeOK, RequiresApproval, Allowed, EditsFiles
<1>16. ASSUME NEW a \in Act, TakeHold(a) PROVE Goal
  BY <1>16 DEF TakeHold, EditsFiles, actionLedger, actionHistory, EffectIsPermitted,
     CallInv, ActionTypeOK, RequiresApproval, Allowed
<1>17. ASSUME NEW a \in Act, Restore(a) PROVE Goal
  BY <1>17 DEF Restore, actionLedger, actionHistory, EffectIsPermitted, CallInv,
     ActionTypeOK, RequiresApproval, Allowed, EditsFiles
<1>18. ASSUME NEW a \in Act, MarkReverted(a) PROVE Goal
  BY <1>18 DEF MarkReverted, May, Put, actionHistory, workspace, NextStatuses,
     EffectIsPermitted, CallInv, ActionTypeOK, RequiresApproval, Allowed, EditsFiles
<1>19. ASSUME NEW t \in ActTask, StallRetry(t) PROVE Goal
  BY <1>19 DEF StallRetry, Awaiting, InCall, workspace, EffectIsPermitted, CallInv,
     ActionTypeOK, RequiresApproval, Allowed, EditsFiles
<1>20. ASSUME ActionCrash PROVE Goal
  BY <1>20 DEF ActionCrash, Mishap, InCall, EffectIsPermitted, CallInv, ActionTypeOK,
     RequiresApproval, Allowed, EditsFiles
<1>21. ASSUME UNCHANGED actionVars PROVE Goal
  BY <1>21 DEF actionVars, actionLedger, workspace, actionHistory, EffectIsPermitted,
     CallInv, ActionTypeOK, RequiresApproval, Allowed, EditsFiles
<1>22. ASSUME NEW a \in Act, StartDirect(a) PROVE Goal
  BY <1>22 DEF StartDirect, At, GoTo, workspace, actionHistory, EffectIsPermitted,
      CallInv, ActionTypeOK, RequiresApproval, Allowed, EditsFiles
<1>23. ASSUME NEW a \in Act, ActDirectly(a) PROVE Goal
  BY <1>23 DEF ActDirectly, At, GoTo, EffectIsPermitted, CallInv, ActionTypeOK,
      RequiresApproval, Allowed, EditsFiles
<1>24. ASSUME NEW a \in Act, ReturnDirectly(a) PROVE Goal
  BY <1>24 DEF ReturnDirectly, At, GoTo, workspace, actionHistory, EffectIsPermitted,
      CallInv, ActionTypeOK, RequiresApproval, Allowed, EditsFiles
<1> QED
  BY <1>1, <1>2, <1>3, <1>4, <1>5, <1>6, <1>7, <1>8, <1>9, <1>10, <1>11, <1>12, <1>13,
     <1>14, <1>15, <1>16, <1>17, <1>18, <1>19, <1>20, <1>21, <1>22, <1>23,
     <1>24 DEF ActionNext, ToolStep

\* A running action is left by its call, or by a crash that is remembered.
LEMMA RunningStaysAccountedFor == ActionInv /\ [ActionNext]_actionVars => RunningIsAccountedFor'
<1> SUFFICES ASSUME ActionInv, [ActionNext]_actionVars PROVE RunningIsAccountedFor'
  OBVIOUS
<1> DEFINE Goal == RunningIsAccountedFor'
<1> USE ActionAssumption
<1> USE DEF ActionInv
<1>1. ASSUME NEW a \in Act, Propose(a) PROVE Goal
  BY <1>1 DEF Propose, At, GoTo, actionHistory, workspace, RunningIsAccountedFor,
     CallInv, ActionTypeOK, InCall
<1>2. ASSUME NEW a \in Act, LeavePending(a) PROVE Goal
  BY <1>2 DEF LeavePending, At, GoTo, EndsProposed, actionHistory, workspace,
     RunningIsAccountedFor, CallInv, ActionTypeOK, InCall
<1>3. ASSUME NEW a \in Act, Skip(a) PROVE Goal
  BY <1>3 DEF Skip, At, GoTo, CutOff, May, Put, EndsProposed, Allowed, workspace,
     NextStatuses, RunningIsAccountedFor, CallInv, ActionTypeOK, InCall
<1>4. ASSUME NEW a \in Act, AutoApprove(a) PROVE Goal
  BY <1>4 DEF AutoApprove, At, GoTo, CutOff, May, Approve, RequiresApproval, workspace,
     NextStatuses, RunningIsAccountedFor, CallInv, ActionTypeOK, InCall
<1>5. ASSUME NEW a \in Act, MarkRunning(a) PROVE Goal
  BY <1>5 DEF MarkRunning, At, GoTo, May, Put, actionHistory, workspace, NextStatuses,
     RunningIsAccountedFor, CallInv, ActionTypeOK, InCall
<1>6. ASSUME NEW a \in Act, RaiseFlag(a) PROVE Goal
  BY <1>6 DEF RaiseFlag, At, GoTo, Mishap, workspace, RunningIsAccountedFor, CallInv,
     ActionTypeOK, InCall
<1>7. ASSUME NEW a \in Act, TakeEffect(a) PROVE Goal
  BY <1>7 DEF TakeEffect, At, GoTo, EditsFiles, RunningIsAccountedFor, CallInv,
     ActionTypeOK, InCall
<1>8. ASSUME NEW a \in Act, FailEffect(a) PROVE Goal
  BY <1>8 DEF FailEffect, At, GoTo, Mishap, workspace, RunningIsAccountedFor, CallInv,
     ActionTypeOK, InCall
<1>9. ASSUME NEW a \in Act, RaiseUnhandled(a) PROVE Goal
  BY <1>9 DEF RaiseUnhandled, At, CutOff, Mishap, workspace, GoTo,
     RunningIsAccountedFor, CallInv, ActionTypeOK, InCall
<1>10. ASSUME NEW a \in Act, MarkApplied(a) PROVE Goal
  BY <1>10 DEF MarkApplied, At, GoTo, May, Put, actionHistory, workspace, NextStatuses,
     RunningIsAccountedFor, CallInv, ActionTypeOK, InCall
<1>11. ASSUME NEW a \in Act, MarkFailed(a) PROVE Goal
  BY <1>11 DEF MarkFailed, At, GoTo, May, Put, actionHistory, workspace, NextStatuses,
     RunningIsAccountedFor, CallInv, ActionTypeOK, InCall
<1>12. ASSUME NEW a \in Act, WriteFails(a) PROVE Goal
  BY <1>12 DEF WriteFails, At, GoTo, CutOff, Mishap, EndsProposed, workspace,
     RunningIsAccountedFor, CallInv, ActionTypeOK, InCall
<1>13. ASSUME NEW a \in Act, OperatorApproves(a) PROVE Goal
  BY <1>13 DEF OperatorApproves, May, Approve, actionHistory, workspace, NextStatuses,
     RunningIsAccountedFor, CallInv, ActionTypeOK, InCall
<1>14. ASSUME NEW a \in Act, OperatorRejects(a) PROVE Goal
  BY <1>14 DEF OperatorRejects, May, Put, actionHistory, workspace, NextStatuses,
     RunningIsAccountedFor, CallInv, ActionTypeOK, InCall
<1>15. ASSUME NEW a \in Act, CancelRun(a) PROVE Goal
  BY <1>15 DEF CancelRun, CutOff, Mishap, Awaiting, GoTo, RunningIsAccountedFor,
     CallInv, ActionTypeOK, InCall
<1>16. ASSUME NEW a \in Act, TakeHold(a) PROVE Goal
  BY <1>16 DEF TakeHold, EditsFiles, actionLedger, actionHistory, RunningIsAccountedFor,
     CallInv, ActionTypeOK, InCall
<1>17. ASSUME NEW a \in Act, Restore(a) PROVE Goal
  BY <1>17 DEF Restore, actionLedger, actionHistory, RunningIsAccountedFor, CallInv,
     ActionTypeOK, InCall
<1>18. ASSUME NEW a \in Act, MarkReverted(a) PROVE Goal
  BY <1>18 DEF MarkReverted, May, Put, actionHistory, workspace, NextStatuses,
     RunningIsAccountedFor, CallInv, ActionTypeOK, InCall
<1>19. ASSUME NEW t \in ActTask, StallRetry(t) PROVE Goal
  BY <1>19 DEF StallRetry, Awaiting, InCall, workspace, RunningIsAccountedFor, CallInv,
     ActionTypeOK
<1>20. ASSUME ActionCrash PROVE Goal
  BY <1>20 DEF ActionCrash, Mishap, InCall, RunningIsAccountedFor, CallInv, ActionTypeOK
<1>21. ASSUME UNCHANGED actionVars PROVE Goal
  BY <1>21 DEF actionVars, actionLedger, workspace, actionHistory,
     RunningIsAccountedFor, CallInv, ActionTypeOK, InCall
<1>22. ASSUME NEW a \in Act, StartDirect(a) PROVE Goal
  BY <1>22 DEF StartDirect, At, GoTo, workspace, actionHistory, RunningIsAccountedFor,
      CallInv, ActionTypeOK, InCall
<1>23. ASSUME NEW a \in Act, ActDirectly(a) PROVE Goal
  BY <1>23 DEF ActDirectly, At, GoTo, RunningIsAccountedFor, CallInv, ActionTypeOK, InCall
<1>24. ASSUME NEW a \in Act, ReturnDirectly(a) PROVE Goal
  BY <1>24 DEF ReturnDirectly, At, GoTo, workspace, actionHistory, RunningIsAccountedFor,
      CallInv, ActionTypeOK, InCall
<1> QED
  BY <1>1, <1>2, <1>3, <1>4, <1>5, <1>6, <1>7, <1>8, <1>9, <1>10, <1>11, <1>12, <1>13,
     <1>14, <1>15, <1>16, <1>17, <1>18, <1>19, <1>20, <1>21, <1>22, <1>23,
     <1>24 DEF ActionNext, ToolStep

\* Every step of the tools, of operators, of the watchdog and of a crash keeps it.
LEMMA ActionStep == ActionInv /\ [ActionNext]_actionVars => ActionInv'
  BY ActionTypesKept, CallInvKept, FlagInvKept, ReversalInvKept, EffectsStayPermitted,
     RunningStaysAccountedFor DEF ActionInv

\* What the run checks of actions follows.
LEMMA ActionPromises ==
    ActionInv => /\ EffectIsPermitted /\ EffectIsFlagged
                 /\ RunningIsAccountedFor /\ RevertedIsUndone
  BY DEF ActionInv, ActionTypeOK, FlagInv, ReversalInv, EffectIsFlagged, RevertedIsUndone

\* A retry asks that the flag is down, and what had an effect has raised it.
LEMMA RetriedAreUntouched ==
    ASSUME ActionInv, [ActionNext]_actionVars, NEW b \in Wired
    PROVE  attempt'[TaskOf[b]] = "second" /\ attempt[TaskOf[b]] = "first" => b \notin effects
<1> DEFINE Goal == attempt'[TaskOf[b]] = "second" /\ attempt[TaskOf[b]] = "first" => b \notin effects
<1> USE ActionAssumption
<1> USE DEF ActionInv
<1>1. ASSUME NEW a \in Act, Propose(a) PROVE Goal
  BY <1>1 DEF Propose, At, GoTo, actionHistory, workspace, FlagInv, ActionTypeOK
<1>2. ASSUME NEW a \in Act, LeavePending(a) PROVE Goal
  BY <1>2 DEF LeavePending, At, GoTo, EndsProposed, actionHistory, workspace, FlagInv,
     ActionTypeOK
<1>3. ASSUME NEW a \in Act, Skip(a) PROVE Goal
  BY <1>3 DEF Skip, At, GoTo, CutOff, May, Put, EndsProposed, Allowed, workspace,
     NextStatuses, FlagInv, ActionTypeOK
<1>4. ASSUME NEW a \in Act, AutoApprove(a) PROVE Goal
  BY <1>4 DEF AutoApprove, At, GoTo, CutOff, May, Approve, RequiresApproval, workspace,
     NextStatuses, FlagInv, ActionTypeOK
<1>5. ASSUME NEW a \in Act, MarkRunning(a) PROVE Goal
  BY <1>5 DEF MarkRunning, At, GoTo, May, Put, actionHistory, workspace, NextStatuses,
     FlagInv, ActionTypeOK
<1>6. ASSUME NEW a \in Act, RaiseFlag(a) PROVE Goal
  BY <1>6 DEF RaiseFlag, At, GoTo, Mishap, workspace, FlagInv, ActionTypeOK
<1>7. ASSUME NEW a \in Act, TakeEffect(a) PROVE Goal
  BY <1>7 DEF TakeEffect, At, GoTo, EditsFiles, FlagInv, ActionTypeOK
<1>8. ASSUME NEW a \in Act, FailEffect(a) PROVE Goal
  BY <1>8 DEF FailEffect, At, GoTo, Mishap, workspace, FlagInv, ActionTypeOK
<1>9. ASSUME NEW a \in Act, RaiseUnhandled(a) PROVE Goal
  BY <1>9 DEF RaiseUnhandled, At, CutOff, Mishap, workspace, GoTo, FlagInv, ActionTypeOK
<1>10. ASSUME NEW a \in Act, MarkApplied(a) PROVE Goal
  BY <1>10 DEF MarkApplied, At, GoTo, May, Put, actionHistory, workspace, NextStatuses,
     FlagInv, ActionTypeOK
<1>11. ASSUME NEW a \in Act, MarkFailed(a) PROVE Goal
  BY <1>11 DEF MarkFailed, At, GoTo, May, Put, actionHistory, workspace, NextStatuses,
     FlagInv, ActionTypeOK
<1>12. ASSUME NEW a \in Act, WriteFails(a) PROVE Goal
  BY <1>12 DEF WriteFails, At, GoTo, CutOff, Mishap, EndsProposed, workspace, FlagInv,
     ActionTypeOK
<1>13. ASSUME NEW a \in Act, OperatorApproves(a) PROVE Goal
  BY <1>13 DEF OperatorApproves, May, Approve, actionHistory, workspace, NextStatuses,
     FlagInv, ActionTypeOK
<1>14. ASSUME NEW a \in Act, OperatorRejects(a) PROVE Goal
  BY <1>14 DEF OperatorRejects, May, Put, actionHistory, workspace, NextStatuses,
     FlagInv, ActionTypeOK
<1>15. ASSUME NEW a \in Act, CancelRun(a) PROVE Goal
  BY <1>15 DEF CancelRun, CutOff, Mishap, Awaiting, GoTo, FlagInv, ActionTypeOK
<1>16. ASSUME NEW a \in Act, TakeHold(a) PROVE Goal
  BY <1>16 DEF TakeHold, EditsFiles, actionLedger, actionHistory, FlagInv, ActionTypeOK
<1>17. ASSUME NEW a \in Act, Restore(a) PROVE Goal
  BY <1>17 DEF Restore, actionLedger, actionHistory, FlagInv, ActionTypeOK
<1>18. ASSUME NEW a \in Act, MarkReverted(a) PROVE Goal
  BY <1>18 DEF MarkReverted, May, Put, actionHistory, workspace, NextStatuses, FlagInv,
     ActionTypeOK
<1>19. ASSUME NEW t \in ActTask, StallRetry(t) PROVE Goal
  BY <1>19 DEF StallRetry, Awaiting, InCall, workspace, FlagInv, ActionTypeOK
<1>20. ASSUME ActionCrash PROVE Goal
  BY <1>20 DEF ActionCrash, Mishap, InCall, FlagInv, ActionTypeOK
<1>21. ASSUME UNCHANGED actionVars PROVE Goal
  BY <1>21 DEF actionVars, actionLedger, workspace, actionHistory, FlagInv, ActionTypeOK
<1>22. ASSUME NEW a \in Act, StartDirect(a) PROVE Goal
  BY <1>22 DEF StartDirect, At, GoTo, workspace, actionHistory, FlagInv, ActionTypeOK
<1>23. ASSUME NEW a \in Act, ActDirectly(a) PROVE Goal
  BY <1>23 DEF ActDirectly, At, GoTo, FlagInv, ActionTypeOK
<1>24. ASSUME NEW a \in Act, ReturnDirectly(a) PROVE Goal
  BY <1>24 DEF ReturnDirectly, At, GoTo, workspace, actionHistory, FlagInv, ActionTypeOK
<1> QED
  BY <1>1, <1>2, <1>3, <1>4, <1>5, <1>6, <1>7, <1>8, <1>9, <1>10, <1>11, <1>12, <1>13,
     <1>14, <1>15, <1>16, <1>17, <1>18, <1>19, <1>20, <1>21, <1>22, <1>23,
     <1>24 DEF ActionNext, ToolStep

\* No step leads out of a rejected, skipped, reverted or failed action.
LEMMA DecisionsAreKept ==
    ASSUME ActionInv, [ActionNext]_actionVars, NEW b \in Act
    PROVE  action[b].status \in {"rejected", "skipped", "reverted", "failed"}
               => action'[b].status = action[b].status
<1> DEFINE Goal == action[b].status \in {"rejected", "skipped", "reverted", "failed"}
               => action'[b].status = action[b].status
<1> USE ActionAssumption
<1> USE DEF ActionInv
<1>1. ASSUME NEW a \in Act, Propose(a) PROVE Goal
  BY <1>1 DEF Propose, At, GoTo, actionHistory, workspace, CallInv, ActionTypeOK
<1>2. ASSUME NEW a \in Act, LeavePending(a) PROVE Goal
  BY <1>2 DEF LeavePending, At, GoTo, EndsProposed, actionHistory, workspace, CallInv,
     ActionTypeOK
<1>3. ASSUME NEW a \in Act, Skip(a) PROVE Goal
  BY <1>3 DEF Skip, At, GoTo, CutOff, May, Put, EndsProposed, Allowed, workspace,
     NextStatuses, CallInv, ActionTypeOK
<1>4. ASSUME NEW a \in Act, AutoApprove(a) PROVE Goal
  <2>1. CASE May(a, "approved") /\ Approve(a, "policy")
    BY <2>1 DEF May, Approve, NextStatuses, ActionTypeOK
  <2>2. CASE CutOff(a)
    BY <2>2 DEF CutOff
  <2> QED
    BY <1>4, <2>1, <2>2 DEF AutoApprove
<1>5. ASSUME NEW a \in Act, MarkRunning(a) PROVE Goal
  BY <1>5 DEF MarkRunning, At, GoTo, May, Put, actionHistory, workspace, NextStatuses,
     CallInv, ActionTypeOK
<1>6. ASSUME NEW a \in Act, RaiseFlag(a) PROVE Goal
  BY <1>6 DEF RaiseFlag, At, GoTo, Mishap, workspace, CallInv, ActionTypeOK
<1>7. ASSUME NEW a \in Act, TakeEffect(a) PROVE Goal
  BY <1>7 DEF TakeEffect, At, GoTo, EditsFiles, CallInv, ActionTypeOK
<1>8. ASSUME NEW a \in Act, FailEffect(a) PROVE Goal
  BY <1>8 DEF FailEffect, At, GoTo, Mishap, workspace, CallInv, ActionTypeOK
<1>9. ASSUME NEW a \in Act, RaiseUnhandled(a) PROVE Goal
  BY <1>9 DEF RaiseUnhandled, At, CutOff, Mishap, workspace, GoTo, CallInv, ActionTypeOK
<1>10. ASSUME NEW a \in Act, MarkApplied(a) PROVE Goal
  BY <1>10 DEF MarkApplied, At, GoTo, May, Put, actionHistory, workspace, NextStatuses,
     CallInv, ActionTypeOK
<1>11. ASSUME NEW a \in Act, MarkFailed(a) PROVE Goal
  BY <1>11 DEF MarkFailed, At, GoTo, May, Put, actionHistory, workspace, NextStatuses,
     CallInv, ActionTypeOK
<1>12. ASSUME NEW a \in Act, WriteFails(a) PROVE Goal
  BY <1>12 DEF WriteFails, At, GoTo, CutOff, Mishap, EndsProposed, workspace, CallInv,
     ActionTypeOK
<1>13. ASSUME NEW a \in Act, OperatorApproves(a) PROVE Goal
  BY <1>13 DEF OperatorApproves, May, Approve, actionHistory, workspace, NextStatuses,
     CallInv, ActionTypeOK
<1>14. ASSUME NEW a \in Act, OperatorRejects(a) PROVE Goal
  BY <1>14 DEF OperatorRejects, May, Put, actionHistory, workspace, NextStatuses,
     CallInv, ActionTypeOK
<1>15. ASSUME NEW a \in Act, CancelRun(a) PROVE Goal
  BY <1>15 DEF CancelRun, CutOff, Mishap, Awaiting, GoTo, CallInv, ActionTypeOK
<1>16. ASSUME NEW a \in Act, TakeHold(a) PROVE Goal
  BY <1>16 DEF TakeHold, EditsFiles, actionLedger, actionHistory, CallInv, ActionTypeOK
<1>17. ASSUME NEW a \in Act, Restore(a) PROVE Goal
  BY <1>17 DEF Restore, actionLedger, actionHistory, CallInv, ActionTypeOK
<1>18. ASSUME NEW a \in Act, MarkReverted(a) PROVE Goal
  BY <1>18 DEF MarkReverted, May, Put, actionHistory, workspace, NextStatuses, CallInv,
     ActionTypeOK
<1>19. ASSUME NEW t \in ActTask, StallRetry(t) PROVE Goal
  BY <1>19 DEF StallRetry, Awaiting, InCall, workspace, CallInv, ActionTypeOK
<1>20. ASSUME ActionCrash PROVE Goal
  BY <1>20 DEF ActionCrash, Mishap, InCall, CallInv, ActionTypeOK
<1>21. ASSUME UNCHANGED actionVars PROVE Goal
  BY <1>21 DEF actionVars, actionLedger, workspace, actionHistory, CallInv, ActionTypeOK
<1>22. ASSUME NEW a \in Act, StartDirect(a) PROVE Goal
  BY <1>22 DEF StartDirect, At, GoTo, workspace, actionHistory, CallInv, ActionTypeOK
<1>23. ASSUME NEW a \in Act, ActDirectly(a) PROVE Goal
  BY <1>23 DEF ActDirectly, At, GoTo, CallInv, ActionTypeOK
<1>24. ASSUME NEW a \in Act, ReturnDirectly(a) PROVE Goal
  BY <1>24 DEF ReturnDirectly, At, GoTo, workspace, actionHistory, CallInv, ActionTypeOK
<1> QED
  BY <1>1, <1>2, <1>3, <1>4, <1>5, <1>6, <1>7, <1>8, <1>9, <1>10, <1>11, <1>12, <1>13,
     <1>14, <1>15, <1>16, <1>17, <1>18, <1>19, <1>20, <1>21, <1>22, <1>23,
     <1>24 DEF ActionNext, ToolStep

-----------------------------------------------------------------------------
(* Delegate sessions: what each owner still has to write *)

LeaseRow == [owner : Owner, policy : {"abandon", "recoverable"}, lapsed : BOOLEAN]

RowsTypeOK ==
    /\ session \in [Session -> SessionRow]
    /\ lease \in [Session -> Seq(LeaseRow)]
    /\ open \in [Session -> Seq(Nat)]
    /\ notes \in [Session -> 0..MaxNotes]
    /\ writes = [o \in Owner |-> writes[o]]

\* Sessions that one operation at a time has worked on, to its end.
Clean(s) == s \notin overlapped \cup refused \cup halved

\* A row agrees with the leases that are open.
Fits(row, leases) ==
    /\ row.status = "running" => leases = <<row.lease>>
    /\ leases # <<>> => Len(leases) = 1 /\ row.status \in {"leased", "running"}

Continued(s) == \E n \in Session : session[n].prior = s /\ session[n].note > 0

\* A row that may be written for s, however old what was read is: a session is
\* never unmade, keeps the one it continues, and if it continues one it has a
\* checkpoint to do so from.
Sound(s, row) ==
    /\ row \in SessionRow
    /\ row.status # "none"
    /\ row.prior \in Session => row.note > 0
    /\ session[s].status # "none" => row.prior = session[s].prior

\* A row that undoes no end, unless another operation came in between.
Ends(s, row) ==
    s \notin overlapped /\ session[s].status \in Terminal => row.status = session[s].status

Earned(s, row) == row.status = "superseded" => Continued(s)

CanSave(s, row) ==
    Sound(s, row) /\ Ends(s, row) /\ Earned(s, row) /\ (Clean(s) => Fits(row, open[s]))
CanGrant(s, row) ==
    /\ Sound(s, row) /\ Earned(s, row) /\ session[s].status # "none"
    /\ s \notin overlapped => row = session[s]
    /\ Clean(s) => open[s] = <<>> /\ row.status # "running"
CanRenew(s, k) ==
    /\ session[s].status # "none" /\ k \in Nat
    /\ Clean(s) => open[s] = <<k>> /\ Fits(session[s], open[s])
CanClose(s, k, row) ==
    /\ Sound(s, row) /\ Ends(s, row) /\ Earned(s, row) /\ session[s].status # "none"
    /\ Clean(s) => open[s] = <<k>> /\ row.status # "running"
CanNote(s, k, row) ==
    /\ Sound(s, row) /\ Ends(s, row) /\ Earned(s, row) /\ session[s].status # "none"
    /\ k \in 0..MaxNotes
    /\ Clean(s) => Fits(row, open[s]) /\ Fits(session[s], open[s])
CanRetire(s, row) ==
    /\ Sound(s, row) /\ Ends(s, row) /\ row.status = "superseded"
    /\ session[s].status # "none"
    /\ Clean(s) => open[s] = <<>>
CanSucceed(n, row, s) ==
    /\ row \in SessionRow /\ row.status = "queued" /\ row.prior = s /\ row.note > 0
    /\ session[n].status = "none"
CanGoOn(n) ==
    session[n].status # "none" /\ (Clean(n) => Fits(session[n], open[n]))

\* What is left of an operation on one session.
ShortWork(w, s) ==
    \/ \E row \in SessionRow : w = <<SaveSession(s, row)>> /\ CanSave(s, row)
    \/ \E policy \in {"abandon", "recoverable"}, row \in SessionRow :
          w = <<Grant(s, policy, row)>> /\ CanGrant(s, row)
    \/ \E k \in Nat : w = <<Renew(s, k), Reread(s, k)>> /\ CanRenew(s, k)
    \/ \E k \in Nat : w = <<Reread(s, k)>> /\ CanRenew(s, k)
    \/ \E k \in Nat, row \in SessionRow :
          w = <<Close(s, k), SaveSession(s, row)>> /\ CanClose(s, k, row)
    \/ \E k \in Nat, row \in SessionRow :
          w = <<Note(s, k), SaveSession(s, row)>> /\ CanNote(s, k, row)

\* What is left of a recovery whose successor is leased next, or started.
LateWork(w, n) ==
    \/ w = <<Then(n, "acquire"), Then(n, "run")>> /\ CanGoOn(n)
    \/ \E policy \in {"abandon", "recoverable"}, row \in SessionRow :
          w = <<Grant(n, policy, row), Then(n, "run")>> /\ CanGrant(n, row)
    \/ \E row \in SessionRow :
          w = <<SaveSession(n, row), Then(n, "run")>> /\ CanSave(n, row)
    \/ w = <<Then(n, "run")>> /\ CanGoOn(n)

\* What is left of a recovery that has still to retire s.
EarlyWork(w, s, n) ==
    \/ \E new, old \in SessionRow :
          /\ w = <<SaveSession(n, new), SaveSession(s, old), Then(n, "acquire"), Then(n, "run")>>
          /\ CanSucceed(n, new, s) /\ CanRetire(s, old)
    \/ \E old \in SessionRow :
          /\ w = <<SaveSession(s, old), Then(n, "acquire"), Then(n, "run")>>
          /\ CanRetire(s, old) /\ Continued(s) /\ CanGoOn(n)

Work(o) ==
    \/ writes[o] = <<>>
    \/ \E s \in Session : ShortWork(writes[o], s) \/ LateWork(writes[o], s)
    \/ \E s \in Session : \E n \in Session \ {s} : EarlyWork(writes[o], s, n)

\* Two operations on one session are known to have overlapped.
Apart ==
    \A o \in Owner : \A p \in Owner \ {o} : Touched(o) \cap Touched(p) \subseteq overlapped

RowsInv ==
    \A s \in Session :
        /\ session[s].prior \in Session => session[s].note > 0
        /\ session[s].status = "superseded" => Continued(s)
        /\ session[s].status = "none" =>
              /\ session[s] = NoRow /\ open[s] = <<>>
              /\ \A o, p \in Owner : s \in Touched(o) \cap Touched(p) => o = p

QuietInv == \A s \in Session : Clean(s) /\ Quiet(s) => Fits(session[s], open[s])

SessionsInv ==
    RowsTypeOK /\ (\A o \in Owner : Work(o)) /\ Apart /\ RowsInv /\ QuietInv

\* Sessions that w works on.
On(w) == {w[i].on : i \in DOMAIN w}

\* Touched is On, of what an owner still has to write.
LEMMA TouchedIsOn == \A o : Touched(o) = On(writes[o])
  BY DEF Touched, On

\* The sessions of short lists of writes.
LEMMA OnTuples ==
    /\ On(<<>>) = {}
    /\ \A a : On(<<a>>) = {a.on}
    /\ \A a, b : On(<<a, b>>) = {a.on, b.on}
    /\ \A a, b, c : On(<<a, b, c>>) = {a.on, b.on, c.on}
    /\ \A a, b, c, d : On(<<a, b, c, d>>) = {a.on, b.on, c.on, d.on}
<1>1. On(<<>>) = {}
  BY DEF On
<1>2. ASSUME NEW a PROVE On(<<a>>) = {a.on}
  <2> DEFINE w == <<a>>
  <2>1. DOMAIN w = {1} /\ w[1] = a
    OBVIOUS
  <2> QED
    BY ONLY <2>1 DEF On
<1>3. ASSUME NEW a, NEW b PROVE On(<<a, b>>) = {a.on, b.on}
  <2> DEFINE w == <<a, b>>
  <2>1. DOMAIN w = {1, 2} /\ w[1] = a /\ w[2] = b
    OBVIOUS
  <2> HIDE DEF w
  <2>2. On(w) = {a.on, b.on}
    BY <2>1 DEF On
  <2> QED
    BY <2>2 DEF w
<1>4. ASSUME NEW a, NEW b, NEW c PROVE On(<<a, b, c>>) = {a.on, b.on, c.on}
  <2> DEFINE w == <<a, b, c>>
  <2>1. DOMAIN w = {1, 2, 3} /\ w[1] = a /\ w[2] = b /\ w[3] = c
    OBVIOUS
  <2> HIDE DEF w
  <2>2. On(w) = {a.on, b.on, c.on}
    BY <2>1 DEF On
  <2> QED
    BY <2>2 DEF w
<1>5. ASSUME NEW a, NEW b, NEW c, NEW d
      PROVE  On(<<a, b, c, d>>) = {a.on, b.on, c.on, d.on}
  <2> DEFINE w == <<a, b, c, d>>
  <2>1. DOMAIN w = {1, 2, 3, 4} /\ w[1] = a /\ w[2] = b /\ w[3] = c /\ w[4] = d
    OBVIOUS
  <2> HIDE DEF w
  <2>2. On(w) = {a.on, b.on, c.on, d.on}
    BY <2>1 DEF On
  <2> QED
    BY <2>2 DEF w
<1> QED
  BY <1>1, <1>2, <1>3, <1>4, <1>5

\* First and further elements of short lists.
LEMMA HeadAndTail ==
    /\ \A a : Head(<<a>>) = a /\ Tail(<<a>>) = <<>> /\ <<a>> # <<>>
    /\ \A a, b : Head(<<a, b>>) = a /\ Tail(<<a, b>>) = <<b>> /\ <<a, b>> # <<>>
    /\ \A a, b, c : /\ Head(<<a, b, c>>) = a /\ Tail(<<a, b, c>>) = <<b, c>>
                    /\ <<a, b, c>> # <<>>
    /\ \A a, b, c, d : /\ Head(<<a, b, c, d>>) = a /\ Tail(<<a, b, c, d>>) = <<b, c, d>>
                       /\ <<a, b, c, d>> # <<>>
  OBVIOUS

\* A list of open leases without one of them.
LEMMA RemovedTheOnly == ASSUME NEW k PROVE RemoveFirst(<<k>>, k) = <<>>
<1>1. {i \in 1..Len(<<k>>) : <<k>>[i] = k} = {1}
  OBVIOUS
<1>2. Min({1}) = 1
  BY DEF Min
<1>3. RemoveAt(<<k>>, 1) = <<>>
  BY DEF RemoveAt
<1> QED
  BY <1>1, <1>2, <1>3 DEF RemoveFirst, SelectInSeq

\* Removing one leaves a list of the same set.
LEMMA RemovedFromSeq ==
    ASSUME NEW S, NEW s \in Seq(S), NEW k
    PROVE  RemoveFirst(s, k) \in Seq(S)
<1> DEFINE I == {i \in 1..Len(s) : s[i] = k}
<1>1. CASE I = {}
  BY <1>1 DEF RemoveFirst
<1>2. CASE I # {}
  <2>0. I \subseteq Nat
    OBVIOUS
  <2>1. PICK m \in I : \A i \in I : ~(<<i, m>> \in OpToRel(<, Nat))
    BY <1>2, <2>0, NatLessThanWellFounded, WFMin
  <2>2. ASSUME NEW i \in I PROVE m <= i
    <3>1. i \in Nat /\ m \in Nat
      BY <2>0
    <3>2. ~(i < m)
      BY <2>1, <3>1 DEF OpToRel
    <3> QED
      BY <3>1, <3>2
  <2>3. Min(I) \in 1..Len(s)
    BY <2>1, <2>2 DEF Min
  <2>4. \A i \in 1..Len(s) : RemoveAt(s, i) \in Seq(S)
    BY DEF RemoveAt
  <2> QED
    BY <1>2, <2>3, <2>4 DEF RemoveFirst, SelectInSeq
<1> QED
  BY <1>1, <1>2

\* What a step of another operation may do to the rows an operation works on.
Undisturbed(s) ==
    /\ s \notin overlapped' \/ session[s].status = "none" =>
          session'[s] = session[s] /\ open'[s] = open[s]
    /\ session[s].status # "none" =>
          session'[s].status # "none" /\ session'[s].prior = session[s].prior
    /\ Continued(s) => Continued(s)'
    /\ overlapped \subseteq overlapped' /\ refused \subseteq refused' /\ halved \subseteq halved'

\* So what may be written still may be.
LEMMA StillCan ==
    ASSUME NEW s, Undisturbed(s)
    PROVE  /\ \A row : CanSave(s, row) => CanSave(s, row)'
           /\ \A row : CanGrant(s, row) => CanGrant(s, row)'
           /\ \A k : CanRenew(s, k) => CanRenew(s, k)'
           /\ \A k, row : CanClose(s, k, row) => CanClose(s, k, row)'
           /\ \A k, row : CanNote(s, k, row) => CanNote(s, k, row)'
           /\ \A row : CanRetire(s, row) => CanRetire(s, row)'
           /\ \A row, p : CanSucceed(s, row, p) => CanSucceed(s, row, p)'
           /\ CanGoOn(s) => CanGoOn(s)'
<1>1. \A row : /\ Sound(s, row) => Sound(s, row)'
               /\ Ends(s, row) => Ends(s, row)'
               /\ Earned(s, row) => Earned(s, row)'
  BY DEF Undisturbed, Sound, Ends, Earned
<1>2. /\ Clean(s)' => Clean(s)
      /\ Clean(s)' => session'[s] = session[s] /\ open'[s] = open[s]
  BY DEF Undisturbed, Clean
<1>3. session[s].status # "none" => session'[s].status # "none"
  BY DEF Undisturbed
<1>4. s \notin overlapped' => s \notin overlapped /\ session'[s] = session[s]
  BY DEF Undisturbed
<1>5. session[s].status = "none" => session'[s] = session[s]
  BY DEF Undisturbed
<1>6. \A row : CanSave(s, row) => CanSave(s, row)'
  BY <1>1, <1>2 DEF CanSave, Fits
<1>7. \A row : CanGrant(s, row) => CanGrant(s, row)'
  BY <1>1, <1>2, <1>3, <1>4 DEF CanGrant
<1>8. \A k : CanRenew(s, k) => CanRenew(s, k)'
  BY <1>2, <1>3 DEF CanRenew, Fits
<1>9. \A k, row : CanClose(s, k, row) => CanClose(s, k, row)'
  BY <1>1, <1>2, <1>3 DEF CanClose
<1>10. \A k, row : CanNote(s, k, row) => CanNote(s, k, row)'
  BY <1>1, <1>2, <1>3 DEF CanNote, Fits
<1>11. \A row : CanRetire(s, row) => CanRetire(s, row)'
  BY <1>1, <1>2, <1>3 DEF CanRetire
<1>12. \A row, p : CanSucceed(s, row, p) => CanSucceed(s, row, p)'
  BY <1>5 DEF CanSucceed
<1>13. CanGoOn(s) => CanGoOn(s)'
  BY <1>2, <1>3 DEF CanGoOn, Fits
<1> QED
  BY <1>6, <1>7, <1>8, <1>9, <1>10, <1>11, <1>12, <1>13

\* What is left of an operation names the sessions it works on.
LEMMA WorkIsOn ==
    ASSUME NEW w, NEW s
    PROVE  /\ ShortWork(w, s) \/ LateWork(w, s) => s \in On(w)
           /\ \A n : EarlyWork(w, s, n) => s \in On(w) /\ n \in On(w)
           /\ ShortWork(w, s) \/ LateWork(w, s) => On(w) = {s}
           /\ \A n : EarlyWork(w, s, n) => On(w) = {s, n}
<1>1. ShortWork(w, s) => On(w) = {s}
  BY OnTuples DEF ShortWork, SaveSession, Grant, Renew, Reread, Close, Note
<1>2. LateWork(w, s) => On(w) = {s}
  BY OnTuples DEF LateWork, SaveSession, Grant, Then
<1>3. \A n : EarlyWork(w, s, n) => On(w) = {s, n}
  BY OnTuples DEF EarlyWork, SaveSession, Then
<1> QED
  BY <1>1, <1>2, <1>3

\* An operation whose sessions are left undisturbed may go on as it was.
LEMMA WorkGoesOn ==
    ASSUME NEW p \in Owner, Work(p), UNCHANGED writes[p],
           \A s \in Session : s \in Touched(p) => Undisturbed(s)
    PROVE  Work(p)'
<1> DEFINE w == writes[p]
<1>1. Touched(p) = On(w)
  BY TouchedIsOn
<1>2. CASE w = <<>>
  BY <1>2 DEF Work
<1>3. ASSUME NEW s \in Session, ShortWork(w, s) PROVE Work(p)'
  <2>1. Undisturbed(s)
    BY <1>1, <1>3, WorkIsOn
  <2>2. ShortWork(w, s)'
    BY <1>3, <2>1, StillCan DEF ShortWork, SaveSession, Grant, Renew, Reread, Close, Note
  <2> QED
    BY <2>2 DEF Work
<1>4. ASSUME NEW s \in Session, LateWork(w, s) PROVE Work(p)'
  <2>1. Undisturbed(s)
    BY <1>1, <1>4, WorkIsOn
  <2>2. LateWork(w, s)'
    BY <1>4, <2>1, StillCan DEF LateWork, SaveSession, Grant, Then
  <2> QED
    BY <2>2 DEF Work
<1>5. ASSUME NEW s \in Session, NEW n \in Session \ {s}, EarlyWork(w, s, n) PROVE Work(p)'
  <2>1. Undisturbed(s) /\ Undisturbed(n)
    BY <1>1, <1>5, WorkIsOn
  <2>2. EarlyWork(w, s, n)'
    BY <1>5, <2>1, StillCan DEF EarlyWork, SaveSession, Then, Undisturbed
  <2> QED
    BY <2>2 DEF Work
<1> QED
  BY <1>2, <1>3, <1>4, <1>5 DEF Work

\* Rows that stay theirs continue what they continued.
LEMMA StaysContinued ==
    ASSUME SessionsInv, NEW s \in Session, Continued(s),
           \A n \in Session : session[n].status # "none" => session'[n].prior = session[n].prior,
           \A n \in Session : session'[n].prior \in Session => session'[n].note > 0
    PROVE  Continued(s)'
<1>1. PICK n \in Session : session[n].prior = s
  BY DEF Continued
<1>2. session[n].status # "none"
  BY <1>1, DelegateAssumption DEF SessionsInv, RowsInv, NoRow
<1>3. session'[n].prior = s /\ session'[n].note > 0
  BY <1>1, <1>2
<1> QED
  BY <1>3 DEF Continued

\* A write of o that leaves its own work and the rows it has done with in order
\* leaves everything in order.
LEMMA WriteKeeps ==
    ASSUME SessionsInv, NEW o \in Owner, NEW rest,
           writes' = [writes EXCEPT ![o] = rest],
           RowsTypeOK',
           On(rest) \subseteq On(writes[o]),
           overlapped \subseteq overlapped', refused \subseteq refused', halved \subseteq halved',
           \A s \in Session : s \notin On(writes[o]) =>
               session'[s] = session[s] /\ open'[s] = open[s],
           \A s \in Session : session[s].status # "none" =>
               session'[s].status # "none" /\ session'[s].prior = session[s].prior,
           \A s \in Session : session'[s].prior \in Session => session'[s].note > 0,
           \A s \in Session : session'[s].status = "none" =>
               session'[s] = session[s] /\ open'[s] = open[s],
           \A s \in Session : s \in On(writes[o]) /\ session'[s].status = "superseded" =>
               Continued(s)',
           \A s \in Session : s \in On(writes[o]) \ On(rest) /\ Clean(s)' =>
               Fits(session'[s], open'[s]),
           Work(o)'
    PROVE  SessionsInv'
<1>1. \A s \in Session : Continued(s) => Continued(s)'
  BY StaysContinued
<1>2. /\ writes'[o] = rest
      /\ \A p \in Owner : p # o => writes'[p] = writes[p]
  BY DEF SessionsInv, RowsTypeOK
<1>3. /\ \A p \in Owner : Touched(p) = On(writes[p])
      /\ \A p \in Owner : Touched(p)' = On(writes'[p])
  BY TouchedIsOn DEF Touched, On
<1>4. /\ Touched(o)' \subseteq Touched(o)
      /\ \A p \in Owner : p # o => Touched(p)' = Touched(p)
  BY <1>2, <1>3
<1>5. ASSUME NEW p \in Owner, p # o PROVE Work(p)'
  <2>1. ASSUME NEW s \in Session, s \in Touched(p) PROVE Undisturbed(s)
    <3>1. s \in On(writes[o]) => s \in overlapped /\ session[s].status # "none"
      BY <1>3, <1>5, <2>1 DEF SessionsInv, Apart, RowsInv
    <3> QED
      BY <1>1, <3>1 DEF Undisturbed
  <2> QED
    BY <1>2, <1>5, <2>1, WorkGoesOn DEF SessionsInv
<1>6. Apart'
  BY <1>4 DEF SessionsInv, Apart
<1>7. RowsInv'
  <2>1. ASSUME NEW s \in Session PROVE session'[s].status = "superseded" => Continued(s)'
    BY <1>1 DEF SessionsInv, RowsInv
  <2>2. ASSUME NEW s \in Session, session'[s].status = "none"
        PROVE  /\ session'[s] = NoRow /\ open'[s] = <<>>
               /\ \A p, q \in Owner : s \in Touched(p)' \cap Touched(q)' => p = q
    <3>1. session[s].status = "none"
      BY <2>2
    <3> QED
      BY <1>4, <2>2, <3>1 DEF SessionsInv, RowsInv
  <2> QED
    BY <2>1, <2>2 DEF RowsInv, NoRow
<1>8. QuietInv'
  <2> SUFFICES ASSUME NEW s \in Session, Clean(s)', Quiet(s)'
               PROVE  Fits(session'[s], open'[s])
    BY DEF QuietInv, Fits
  <2>1. Clean(s)
    BY DEF Clean
  <2>2. CASE s \in On(writes[o])
    BY <1>2, <1>3, <2>2 DEF Quiet
  <2>3. CASE s \notin On(writes[o])
    <3>1. Quiet(s)
      BY <1>3, <1>4, <2>3 DEF Quiet
    <3> QED
      BY <2>1, <2>3, <3>1 DEF SessionsInv, QuietInv
  <2> QED
    BY <2>2, <2>3
<1> QED
  BY <1>5, <1>6, <1>7, <1>8 DEF SessionsInv

\* What an operation that begins knows of the sessions it has to itself.
LEMMA BeginsClean ==
    ASSUME SessionsInv, NEW o \in Owner, NEW S, NEW todo, Begin(o, S, todo)
    PROVE  /\ UNCHANGED delegateRows /\ UNCHANGED <<refused, halved>>
           /\ writes'[o] = todo /\ writes[o] = <<>>
           /\ \A p \in Owner : p # o => writes'[p] = writes[p]
           /\ overlapped \subseteq overlapped'
           /\ \A s \in S \cap Session : s \notin overlapped' => Quiet(s)
           /\ \A s \in S \cap Session : Clean(s)' => Fits(session[s], open[s])
<1>1. /\ UNCHANGED delegateRows /\ UNCHANGED <<refused, halved>>
      /\ writes'[o] = todo /\ writes[o] = <<>>
      /\ \A p \in Owner : p # o => writes'[p] = writes[p]
      /\ overlapped \subseteq overlapped'
  BY DEF Begin, SessionsInv, RowsTypeOK, Overlap
<1>2. Touched(o) = {}
  BY <1>1, TouchedIsOn, OnTuples
<1>3. ASSUME NEW s \in S, s \notin overlapped' PROVE Quiet(s)
  BY <1>2, <1>3 DEF Begin, Overlap, Quiet
<1>4. ASSUME NEW s \in S \cap Session, Clean(s)' PROVE Fits(session[s], open[s])
  BY <1>1, <1>3, <1>4 DEF Clean, SessionsInv, QuietInv
<1> QED
  BY <1>1, <1>3, <1>4

\* Nothing is written when an operation begins.
LEMMA BeginKeeps ==
    ASSUME SessionsInv, NEW o \in Owner, NEW S \in SUBSET Session, NEW todo,
           Begin(o, S, todo), On(todo) = S, Work(o)',
           \A s \in S : session[s].status = "none" => Quiet(s)
    PROVE  SessionsInv'
<1>1. /\ UNCHANGED <<session, lease, open, notes>> /\ UNCHANGED <<refused, halved>>
      /\ writes'[o] = todo /\ writes[o] = <<>>
      /\ \A p \in Owner : p # o => writes'[p] = writes[p]
      /\ overlapped \subseteq overlapped'
  BY BeginsClean DEF delegateRows
<1>2. /\ \A p \in Owner : Touched(p) = On(writes[p])
      /\ \A p \in Owner : Touched(p)' = On(writes'[p])
  BY TouchedIsOn DEF Touched, On
<1>3. /\ Touched(o) = {} /\ Touched(o)' = S
      /\ \A p \in Owner : p # o => Touched(p)' = Touched(p)
  BY <1>1, <1>2, OnTuples
<1>4. \A s \in Session : Undisturbed(s)
  BY <1>1 DEF Undisturbed, Continued
<1>5. \A p \in Owner : p # o => Work(p)'
  BY <1>1, <1>4, WorkGoesOn DEF SessionsInv
<1>6. Apart'
  <2> SUFFICES ASSUME NEW p \in Owner, NEW q \in Owner \ {p}, NEW s \in Touched(p)' \cap Touched(q)'
               PROVE  s \in overlapped'
    BY DEF Apart
  <2>1. CASE p # o /\ q # o
    BY <1>1, <1>3, <2>1 DEF SessionsInv, Apart
  <2>2. CASE p = o
    BY <1>3, <2>2 DEF Begin, Overlap
  <2>3. CASE q = o
    BY <1>3, <2>3 DEF Begin, Overlap
  <2> QED
    BY <2>1, <2>2, <2>3
<1>7. RowsInv'
  <2>1. ASSUME NEW s \in Session, session[s].status = "none", NEW p \in Owner, NEW q \in Owner,
               s \in Touched(p)' \cap Touched(q)'
        PROVE  p = q
    BY <1>3, <2>1 DEF SessionsInv, RowsInv, Quiet
  <2> QED
    BY <1>1, <2>1 DEF SessionsInv, RowsInv, Continued
<1>8. QuietInv'
  BY <1>1, <1>3 DEF SessionsInv, QuietInv, Clean, Quiet
<1>9. RowsTypeOK'
  BY <1>1 DEF SessionsInv, RowsTypeOK, Begin
<1> QED
  BY <1>5, <1>6, <1>7, <1>8, <1>9, <1>1 DEF SessionsInv

\* The row of a session is one that may be written for it.
LEMMA OwnRowIsSound ==
    ASSUME SessionsInv, NEW s \in Session, session[s].status # "none"
    PROVE  Sound(s, session[s]) /\ Earned(s, session[s])
  BY DEF SessionsInv, RowsTypeOK, RowsInv, Sound, Earned

\* So is that row with another status or lease.
LEMMA ChangedRowIsSound ==
    ASSUME SessionsInv, NEW s \in Session, session[s].status # "none",
           NEW row \in SessionRow, row.prior = session[s].prior, row.note = session[s].note,
           row.status # "none"
    PROVE  Sound(s, row)
  BY DEF SessionsInv, RowsTypeOK, RowsInv, Sound

\* An open lease is on a session that is there.
LEMMA LeasedIsThere ==
    ASSUME SessionsInv, NEW s \in Session, open[s] # <<>>
    PROVE  session[s].status # "none" /\ Current(s) \in Nat
           /\ (Len(open[s]) = 1 => open[s] = <<Current(s)>>)
<1>1. session[s].status # "none"
  BY DEF SessionsInv, RowsInv
<1>2. open[s] \in Seq(Nat)
  BY DEF SessionsInv, RowsTypeOK
<1>3. Current(s) \in Nat /\ (Len(open[s]) = 1 => open[s] = <<Current(s)>>)
  BY <1>2 DEF Current
<1> QED
  BY <1>1, <1>3

\* Rows that do not change may still be written, if nothing overlaps.
LEMMA BeginsSound ==
    ASSUME NEW s, NEW row, UNCHANGED delegateRows, overlapped \subseteq overlapped'
    PROVE  /\ Sound(s, row) => Sound(s, row)'
           /\ Earned(s, row) => Earned(s, row)'
           /\ Ends(s, row) => Ends(s, row)'
  BY DEF delegateRows, Sound, Earned, Ends, Continued

\* A step along the table undoes no end.
LEMMA MovesEndNothing ==
    ASSUME NEW s, NEW row, row.status \in SessionMoves(session[s].status)
    PROVE  Ends(s, row)
  BY DEF Ends, SessionMoves, Terminal

\* create_session: nobody else uses the id.
LEMMA CreateSessionKeeps ==
    ASSUME SessionsInv, NEW o \in Owner, NEW s \in Session, CreateSession(o, s)
    PROVE  SessionsInv'
<1> DEFINE row == [NoRow EXCEPT !.status = "queued"]
<1> DEFINE todo == <<SaveSession(s, row)>>
<1>1. Begin(o, {s}, todo) /\ session[s].status = "none" /\ Quiet(s)
  BY DEF CreateSession, Fresh, Quiet
<1>2. /\ UNCHANGED delegateRows /\ writes'[o] = todo /\ overlapped \subseteq overlapped'
      /\ Clean(s)' => Fits(session[s], open[s])
  BY <1>1, BeginsClean
<1>3. /\ row = [status |-> "queued", lease |-> 0, prior |-> NoSession, note |-> 0]
      /\ row \in SessionRow
  BY DelegateAssumption DEF NoRow, SessionRow, SessionStatus
<1>4. Sound(s, row) /\ Ends(s, row) /\ Earned(s, row)
  BY <1>1, <1>3, DelegateAssumption DEF Sound, Ends, Earned, Terminal
<1>5. open[s] = <<>>
  BY <1>1 DEF SessionsInv, RowsInv
<1>6. CanSave(s, row)'
  BY <1>2, <1>3, <1>4, <1>5, BeginsSound DEF CanSave, Fits, delegateRows
<1>7. Work(o)'
  BY <1>2, <1>3, <1>6 DEF Work, ShortWork
<1>8. On(todo) = {s}
  BY OnTuples DEF SaveSession
<1> QED
  BY <1>1, <1>7, <1>8, BeginKeeps

\* acquire_lease: the row it read is carried to the write.
LEMMA AcquireLeaseKeeps ==
    ASSUME SessionsInv, NEW o \in Owner, NEW s \in Session,
           NEW policy \in {"abandon", "recoverable"}, AcquireLease(o, s, policy)
    PROVE  SessionsInv'
<1> DEFINE row == session[s]
<1> DEFINE todo == <<Grant(s, policy, row)>>
<1>1. Begin(o, {s}, todo) /\ session[s].status # "none" /\ open[s] = <<>>
  BY DEF AcquireLease, MayAcquire
<1>2. /\ UNCHANGED delegateRows /\ writes'[o] = todo /\ overlapped \subseteq overlapped'
      /\ Clean(s)' => Fits(session[s], open[s])
  BY <1>1, BeginsClean
<1>3. Sound(s, row) /\ Earned(s, row) /\ row \in SessionRow
  BY <1>1, OwnRowIsSound DEF Sound
<1>4. Clean(s)' => row.status # "running"
  BY <1>1, <1>2 DEF Fits
<1>5. CanGrant(s, row)'
  BY <1>1, <1>2, <1>3, <1>4, BeginsSound DEF CanGrant, delegateRows
<1>6. Work(o)'
  BY <1>2, <1>3, <1>5 DEF Work, ShortWork, delegateRows
<1>7. On(todo) = {s}
  BY OnTuples DEF Grant
<1> QED
  BY <1>1, <1>6, <1>7, BeginKeeps

\* mark_running, which a recovery does too.
LEMMA RunningRow ==
    ASSUME SessionsInv, NEW o \in Owner, NEW s \in Session, MayRun(o, s)
    PROVE  /\ session[s].status # "none" /\ AsRunning(s) \in SessionRow
           /\ Sound(s, AsRunning(s)) /\ Ends(s, AsRunning(s)) /\ Earned(s, AsRunning(s))
           /\ Fits(session[s], open[s]) => Fits(AsRunning(s), open[s])
<1>1. /\ open[s] # <<>> /\ session[s].status # "none" /\ Current(s) \in Nat
      /\ Len(open[s]) = 1 => open[s] = <<Current(s)>>
  BY LeasedIsThere DEF MayRun, HeldBy
<1>2. session[s] \in SessionRow
  BY DEF SessionsInv, RowsTypeOK
<1>3. /\ AsRunning(s) \in SessionRow
      /\ AsRunning(s).status = "running" /\ AsRunning(s).lease = Current(s)
      /\ AsRunning(s).prior = session[s].prior /\ AsRunning(s).note = session[s].note
  BY <1>1, <1>2 DEF AsRunning, SessionRow, SessionStatus
<1>4. Sound(s, AsRunning(s))
  BY <1>1, <1>3, ChangedRowIsSound
<1>5. Ends(s, AsRunning(s)) /\ Earned(s, AsRunning(s))
  BY <1>3, MovesEndNothing DEF MayRun, Earned
<1>6. Fits(session[s], open[s]) => Fits(AsRunning(s), open[s])
  BY <1>1, <1>3 DEF Fits
<1> QED
  BY <1>1, <1>3, <1>4, <1>5, <1>6

\* mark_running.
LEMMA MarkRunningSessionKeeps ==
    ASSUME SessionsInv, NEW o \in Owner, NEW s \in Session, MarkRunningSession(o, s)
    PROVE  SessionsInv'
<1>0. PICK row : row = AsRunning(s)
  OBVIOUS
<1> DEFINE todo == <<SaveSession(s, row)>>
<1>1. Begin(o, {s}, todo) /\ MayRun(o, s)
  BY <1>0 DEF MarkRunningSession
<1>2. /\ UNCHANGED delegateRows /\ writes'[o] = todo /\ overlapped \subseteq overlapped'
      /\ Clean(s)' => Fits(session[s], open[s])
  BY <1>1, BeginsClean
<1>3. /\ session[s].status # "none" /\ row \in SessionRow
      /\ Sound(s, row) /\ Ends(s, row) /\ Earned(s, row)
      /\ Fits(session[s], open[s]) => Fits(row, open[s])
  BY <1>0, <1>1, RunningRow
<1>4. CanSave(s, row)'
  BY <1>2, <1>3, BeginsSound DEF CanSave, Fits, delegateRows
<1>5. Work(o)'
  BY <1>2, <1>3, <1>4 DEF Work, ShortWork
<1>6. On(todo) = {s}
  BY OnTuples DEF SaveSession
<1> QED
  BY <1>1, <1>3, <1>5, <1>6, BeginKeeps

\* heartbeat: it renews the lease it read.
LEMMA HeartbeatKeeps ==
    ASSUME SessionsInv, NEW o \in Owner, NEW s \in Session, Heartbeat(o, s)
    PROVE  SessionsInv'
<1>0. PICK k : k = Current(s)
  OBVIOUS
<1> DEFINE todo == <<Renew(s, k), Reread(s, k)>>
<1>1. Begin(o, {s}, todo) /\ open[s] # <<>>
  BY <1>0 DEF Heartbeat, HeldBy
<1>2. /\ UNCHANGED delegateRows /\ writes'[o] = todo /\ overlapped \subseteq overlapped'
      /\ Clean(s)' => Fits(session[s], open[s])
  BY <1>1, BeginsClean
<1>3. /\ session[s].status # "none" /\ k \in Nat
      /\ Len(open[s]) = 1 => open[s] = <<k>>
  BY <1>0, <1>1, LeasedIsThere
<1>4. CanRenew(s, k)'
  BY <1>1, <1>2, <1>3 DEF CanRenew, Fits, delegateRows
<1>5. Work(o)'
  BY <1>2, <1>3, <1>4 DEF Work, ShortWork
<1>6. On(todo) = {s}
  BY OnTuples DEF Renew, Reread
<1> QED
  BY <1>1, <1>3, <1>5, <1>6, BeginKeeps

\* record_checkpoint: the row names the checkpoint that is written first.
LEMMA RecordCheckpointKeeps ==
    ASSUME SessionsInv, NEW o \in Owner, NEW s \in Session, RecordCheckpoint(o, s)
    PROVE  SessionsInv'
<1>0. PICK k, row : k = notes[s] + 1 /\ row = [session[s] EXCEPT !.note = k]
  OBVIOUS
<1> DEFINE todo == <<Note(s, k), SaveSession(s, row)>>
<1>1. Begin(o, {s}, todo) /\ session[s].status \in {"leased", "running", "paused"}
  BY <1>0 DEF RecordCheckpoint
<1>2. /\ UNCHANGED delegateRows /\ writes'[o] = todo /\ overlapped \subseteq overlapped'
      /\ Clean(s)' => Fits(session[s], open[s])
  BY <1>1, BeginsClean
<1>3. session[s] \in SessionRow /\ k \in 0..MaxNotes /\ k > 0
  BY <1>0, DelegateAssumption DEF SessionsInv, RowsTypeOK, RecordCheckpoint
<1>4. /\ row \in SessionRow
      /\ row.status = session[s].status /\ row.lease = session[s].lease
      /\ row.prior = session[s].prior /\ row.note = k
  BY <1>0, <1>3 DEF SessionRow
<1>5. Sound(s, row) /\ Ends(s, row) /\ Earned(s, row)
  BY <1>1, <1>3, <1>4 DEF Sound, Ends, Earned
<1>6. CanNote(s, k, row)'
  BY <1>1, <1>2, <1>3, <1>4, <1>5, BeginsSound DEF CanNote, Fits, delegateRows
<1>7. k \in Nat
  BY <1>3, DelegateAssumption
<1>8. Work(o)'
  BY <1>2, <1>4, <1>6, <1>7 DEF Work, ShortWork
<1>9. On(todo) = {s}
  BY OnTuples DEF Note, SaveSession
<1> QED
  BY <1>1, <1>8, <1>9, BeginKeeps

\* The end of a lease, expired or with its session.
LEMMA ClosingKeeps ==
    ASSUME SessionsInv, NEW o \in Owner, NEW s \in Session, open[s] # <<>>,
           NEW status \in {"paused", "abandoned", "completed"},
           status \in SessionMoves(session[s].status),
           Begin(o, {s}, <<Close(s, Current(s)),
                           SaveSession(s, [session[s] EXCEPT !.status = status, !.lease = 0])>>)
    PROVE  SessionsInv'
<1>0. PICK k, row : k = Current(s) /\ row = [session[s] EXCEPT !.status = status, !.lease = 0]
  OBVIOUS
<1> DEFINE todo == <<Close(s, k), SaveSession(s, row)>>
<1>1. Begin(o, {s}, todo)
  BY <1>0
<1>2. /\ UNCHANGED delegateRows /\ writes'[o] = todo /\ overlapped \subseteq overlapped'
      /\ Clean(s)' => Fits(session[s], open[s])
  BY <1>1, BeginsClean
<1>3. /\ session[s].status # "none" /\ k \in Nat
      /\ Len(open[s]) = 1 => open[s] = <<k>>
  BY <1>0, LeasedIsThere
<1>4. session[s] \in SessionRow
  BY DEF SessionsInv, RowsTypeOK
<1>5. /\ row \in SessionRow /\ row.status = status
      /\ row.prior = session[s].prior /\ row.note = session[s].note
  BY <1>0, <1>4 DEF SessionRow, SessionStatus
<1>6. On(todo) = {s}
  BY OnTuples DEF Close, SaveSession
<1>8. Sound(s, row) /\ Ends(s, row) /\ Earned(s, row)
  BY <1>3, <1>5, ChangedRowIsSound, MovesEndNothing DEF Earned
<1>9. CanClose(s, k, row)'
  BY <1>2, <1>3, <1>5, <1>8, BeginsSound DEF CanClose, Fits, delegateRows
<1>10. Work(o)'
  BY <1>2, <1>3, <1>5, <1>9 DEF Work, ShortWork
<1> QED
  BY <1>1, <1>3, <1>6, <1>10, BeginKeeps

\* expire_session.
LEMMA ExpireSessionKeeps ==
    ASSUME SessionsInv, NEW o \in Owner, NEW s \in Session, ExpireSession(o, s)
    PROVE  SessionsInv'
  BY ClosingKeeps DEF ExpireSession, Expired

\* complete_session.
LEMMA CompleteSessionKeeps ==
    ASSUME SessionsInv, NEW o \in Owner, NEW s \in Session, CompleteSession(o, s)
    PROVE  SessionsInv'
  BY ClosingKeeps DEF CompleteSession, HeldBy

\* recover_session: the successor comes first.
LEMMA RecoverSessionKeeps ==
    ASSUME SessionsInv, NEW o \in Owner, NEW s \in Session, NEW n \in Session \ {s},
           RecoverSession(o, s, n)
    PROVE  SessionsInv'
<1>0. PICK new, old :
         /\ new = [NoRow EXCEPT !.status = "queued", !.prior = s, !.note = notes[s]]
         /\ old = [session[s] EXCEPT !.status = "superseded"]
  OBVIOUS
<1> DEFINE todo == <<SaveSession(n, new), SaveSession(s, old), Then(n, "acquire"), Then(n, "run")>>
<1>1. /\ Begin(o, {s, n}, todo) /\ session[s].status = "paused" /\ notes[s] > 0
      /\ session[n].status = "none" /\ Quiet(n)
  BY <1>0 DEF RecoverSession, Recovery, Fresh, Quiet
<1>2. /\ UNCHANGED delegateRows /\ writes'[o] = todo /\ overlapped \subseteq overlapped'
      /\ Clean(s)' => Fits(session[s], open[s])
  BY <1>1, BeginsClean
<1>3. session[s] \in SessionRow /\ notes[s] \in 0..MaxNotes
  BY DEF SessionsInv, RowsTypeOK
<1>4. /\ new \in SessionRow /\ new.status = "queued" /\ new.prior = s /\ new.note > 0
  <2>1. new = [status |-> "queued", lease |-> 0, prior |-> s, note |-> notes[s]]
    BY <1>0 DEF NoRow
  <2> QED
    BY <1>1, <1>3, <2>1 DEF SessionRow, SessionStatus
<1>5. /\ old \in SessionRow /\ old.status = "superseded"
      /\ old.prior = session[s].prior /\ old.note = session[s].note
  BY <1>0, <1>3 DEF SessionRow, SessionStatus
<1>6. On(todo) = {s, n}
  BY OnTuples DEF SaveSession, Then
<1>7. Sound(s, old) /\ Ends(s, old)
  BY <1>1, <1>5, ChangedRowIsSound, MovesEndNothing DEF SessionMoves
<1>8. CanRetire(s, old)'
  BY <1>1, <1>2, <1>5, <1>7, BeginsSound DEF CanRetire, Fits, delegateRows
<1>9. CanSucceed(n, new, s)'
  BY <1>1, <1>2, <1>4 DEF CanSucceed, delegateRows
<1>10. Work(o)'
  BY <1>2, <1>4, <1>5, <1>8, <1>9 DEF Work, EarlyWork
<1> QED
  BY <1>1, <1>6, <1>10, BeginKeeps

-----------------------------------------------------------------------------
(* Delegate sessions: the writes, one at a time *)

\* What is left of an operation tells what its next write is.
LEMMA DueWork ==
    ASSUME NEW o \in Owner, Work(o)
    PROVE  /\ Due(o, "save") =>
                 \/ \E s \in Session, row \in SessionRow :
                       writes[o] = <<SaveSession(s, row)>> /\ CanSave(s, row)
                 \/ \E s \in Session, row \in SessionRow :
                       writes[o] = <<SaveSession(s, row), Then(s, "run")>> /\ CanSave(s, row)
                 \/ \E s \in Session : \E n \in Session \ {s} : EarlyWork(writes[o], s, n)
           /\ Due(o, "grant") =>
                 \E s \in Session, policy \in {"abandon", "recoverable"}, row \in SessionRow :
                    /\ CanGrant(s, row)
                    /\ \/ writes[o] = <<Grant(s, policy, row)>>
                       \/ writes[o] = <<Grant(s, policy, row), Then(s, "run")>>
           /\ Due(o, "renew") =>
                 \E s \in Session, k \in Nat :
                    writes[o] = <<Renew(s, k), Reread(s, k)>> /\ CanRenew(s, k)
           /\ Due(o, "reread") =>
                 \E s \in Session, k \in Nat : writes[o] = <<Reread(s, k)>> /\ CanRenew(s, k)
           /\ Due(o, "close") =>
                 \E s \in Session, k \in Nat, row \in SessionRow :
                    writes[o] = <<Close(s, k), SaveSession(s, row)>> /\ CanClose(s, k, row)
           /\ Due(o, "note") =>
                 \E s \in Session, k \in Nat, row \in SessionRow :
                    writes[o] = <<Note(s, k), SaveSession(s, row)>> /\ CanNote(s, k, row)
           /\ Due(o, "acquire") \/ Due(o, "run") =>
                 \E s \in Session :
                    /\ CanGoOn(s)
                    /\ \/ /\ writes[o] = <<Then(s, "acquire"), Then(s, "run")>>
                          /\ Due(o, "acquire") /\ ~Due(o, "run")
                       \/ /\ writes[o] = <<Then(s, "run")>>
                          /\ Due(o, "run") /\ ~Due(o, "acquire")
<1>0. /\ \A s, row : SaveSession(s, row).do = "save"
      /\ \A s, policy, row : Grant(s, policy, row).do = "grant"
      /\ \A s, k : Renew(s, k).do = "renew" /\ Reread(s, k).do = "reread"
      /\ \A s, k : Close(s, k).do = "close" /\ Note(s, k).do = "note"
      /\ \A s, op : Then(s, op).do = op
  BY DEF SaveSession, Grant, Renew, Reread, Close, Note, Then
<1>1. CASE writes[o] = <<>>
  BY <1>1 DEF Due
<1>2. ASSUME NEW s \in Session, ShortWork(writes[o], s)
      PROVE  \/ \E row \in SessionRow :
                   writes[o] = <<SaveSession(s, row)>> /\ CanSave(s, row) /\ Head(writes[o]).do = "save"
             \/ \E policy \in {"abandon", "recoverable"}, row \in SessionRow :
                   /\ writes[o] = <<Grant(s, policy, row)>> /\ CanGrant(s, row)
                   /\ Head(writes[o]).do = "grant"
             \/ \E k \in Nat : /\ writes[o] = <<Renew(s, k), Reread(s, k)>> /\ CanRenew(s, k)
                               /\ Head(writes[o]).do = "renew"
             \/ \E k \in Nat : /\ writes[o] = <<Reread(s, k)>> /\ CanRenew(s, k)
                               /\ Head(writes[o]).do = "reread"
             \/ \E k \in Nat, row \in SessionRow :
                   /\ writes[o] = <<Close(s, k), SaveSession(s, row)>> /\ CanClose(s, k, row)
                   /\ Head(writes[o]).do = "close"
             \/ \E k \in Nat, row \in SessionRow :
                   /\ writes[o] = <<Note(s, k), SaveSession(s, row)>> /\ CanNote(s, k, row)
                   /\ Head(writes[o]).do = "note"
  BY <1>0, <1>2, HeadAndTail DEF ShortWork
<1>3. ASSUME NEW s \in Session, LateWork(writes[o], s)
      PROVE  \/ /\ writes[o] = <<Then(s, "acquire"), Then(s, "run")>> /\ CanGoOn(s)
                /\ Head(writes[o]).do = "acquire"
             \/ \E policy \in {"abandon", "recoverable"}, row \in SessionRow :
                   /\ writes[o] = <<Grant(s, policy, row), Then(s, "run")>> /\ CanGrant(s, row)
                   /\ Head(writes[o]).do = "grant"
             \/ \E row \in SessionRow :
                   /\ writes[o] = <<SaveSession(s, row), Then(s, "run")>> /\ CanSave(s, row)
                   /\ Head(writes[o]).do = "save"
             \/ writes[o] = <<Then(s, "run")>> /\ CanGoOn(s) /\ Head(writes[o]).do = "run"
  BY <1>0, <1>3, HeadAndTail DEF LateWork
<1>4. ASSUME NEW s \in Session, NEW n \in Session \ {s}, EarlyWork(writes[o], s, n)
      PROVE  Head(writes[o]).do = "save"
  BY <1>0, <1>4, HeadAndTail DEF EarlyWork
<1> QED
  BY <1>1, <1>2, <1>3, <1>4 DEF Work, Due

\* save_session of a sound row.
LEMMA SaveKeeps ==
    ASSUME SessionsInv, NEW o \in Owner, NEW s \in Session, NEW row, NEW rest,
           s \in On(writes[o]), On(rest) \subseteq On(writes[o]),
           session' = [session EXCEPT ![s] = row],
           writes' = [writes EXCEPT ![o] = rest],
           UNCHANGED <<lease, open, notes, overlapped, refused, halved, cuts>>,
           Sound(s, row), Earned(s, row),
           \A z \in Session : z \in On(writes[o]) \ On(rest) /\ Clean(z) =>
               Fits(session'[z], open[z]),
           Work(o)'
    PROVE  SessionsInv'
<1>1. /\ RowsTypeOK' /\ session'[s] = row
      /\ \A z \in Session : z # s => session'[z] = session[z]
  BY DEF SessionsInv, RowsTypeOK, Sound
<1>2. \A z \in Session : session[z].status # "none" =>
          session'[z].status # "none" /\ session'[z].prior = session[z].prior
  BY <1>1 DEF Sound
<1>3. \A z \in Session : session'[z].prior \in Session => session'[z].note > 0
  BY <1>1 DEF Sound, SessionsInv, RowsInv
<1>4. \A z \in Session : session'[z].status = "superseded" => Continued(z)
  BY <1>1 DEF Earned, SessionsInv, RowsInv
<1>5. \A z \in Session : session'[z].status = "superseded" => Continued(z)'
  BY <1>2, <1>3, <1>4, StaysContinued
<1>6. \A z \in Session : session'[z].status = "none" =>
          session'[z] = session[z] /\ open'[z] = open[z]
  BY <1>1 DEF Sound
<1>7. \A z : Clean(z)' => Clean(z)
  BY DEF Clean
<1>8. \A z \in Session : z \in On(writes[o]) \ On(rest) /\ Clean(z)' => Fits(session'[z], open'[z])
  BY <1>7
<1>9. \A z \in Session : z \notin On(writes[o]) => session'[z] = session[z] /\ open'[z] = open[z]
  BY <1>1
<1> QED
  BY <1>1, <1>2, <1>3, <1>5, <1>6, <1>8, <1>9, WriteKeeps

\* A session row is saved: by one of the operations, or by a recovery, whose
\* second one needs the first.
LEMMA WriteSessionKeeps ==
    ASSUME SessionsInv, NEW o \in Owner, WriteSession(o)
    PROVE  SessionsInv'
<1>0. /\ Work(o) /\ Due(o, "save")
      /\ writes = [p \in Owner |-> writes[p]] /\ session \in [Session -> SessionRow]
      /\ UNCHANGED <<lease, open, notes, overlapped, refused, halved, cuts>>
  BY DEF SessionsInv, RowsTypeOK, WriteSession
<1>a. ASSUME NEW s, NEW row, NEW rest, Head(writes[o]) = SaveSession(s, row), Tail(writes[o]) = rest
      PROVE  /\ session' = [session EXCEPT ![s] = row]
             /\ writes' = [writes EXCEPT ![o] = rest] /\ writes'[o] = rest
  <2>1. Head(writes[o]).on = s /\ Head(writes[o]).row = row
    BY <1>a DEF SaveSession
  <2>2. session' = [session EXCEPT ![s] = row] /\ writes' = [writes EXCEPT ![o] = rest]
    BY <1>a, <2>1 DEF WriteSession, Goes
  <2> QED
    BY <1>0, <2>2
<1>b. ASSUME NEW z \in Session, UNCHANGED session[z]
      PROVE  /\ \A row : CanRetire(z, row) => CanRetire(z, row)'
             /\ CanGoOn(z) => CanGoOn(z)'
  BY <1>0, <1>b DEF CanRetire, CanGoOn, Clean, Sound, Ends, Fits
<1>1. ASSUME NEW s \in Session, NEW row \in SessionRow,
             writes[o] = <<SaveSession(s, row)>>, CanSave(s, row)
      PROVE  SessionsInv'
  <2>1. /\ session' = [session EXCEPT ![s] = row]
        /\ writes' = [writes EXCEPT ![o] = <<>>] /\ writes'[o] = <<>>
    <3>1. Head(writes[o]) = SaveSession(s, row) /\ Tail(writes[o]) = <<>>
      BY <1>1, HeadAndTail
    <3> QED
      BY <1>a, <3>1
  <2>2. On(writes[o]) = {s} /\ On(<<>>) = {}
    BY <1>1, OnTuples DEF SaveSession
  <2>3. Work(o)' /\ session'[s] = row
    BY <1>0, <2>1 DEF Work
  <2> QED
    BY <1>0, <1>1, <2>1, <2>2, <2>3, SaveKeeps DEF CanSave
<1>2. ASSUME NEW s \in Session, NEW row \in SessionRow,
             writes[o] = <<SaveSession(s, row), Then(s, "run")>>, CanSave(s, row)
      PROVE  SessionsInv'
  <2> DEFINE rest == <<Then(s, "run")>>
  <2>1. /\ session' = [session EXCEPT ![s] = row]
        /\ writes' = [writes EXCEPT ![o] = rest] /\ writes'[o] = rest
    <3>1. Head(writes[o]) = SaveSession(s, row) /\ Tail(writes[o]) = rest
      BY <1>2, HeadAndTail
    <3> QED
      BY <1>a, <3>1
  <2>2. On(writes[o]) = {s} /\ On(rest) = {s}
    BY <1>2, OnTuples DEF SaveSession, Then
  <2>3. session'[s] = row
    BY <1>0, <2>1
  <2>4. CanGoOn(s)'
    BY <1>0, <1>2, <2>3 DEF CanGoOn, CanSave, Sound, Clean, Fits
  <2>5. Work(o)'
    BY <2>1, <2>4 DEF Work, LateWork
  <2> QED
    BY <1>0, <1>2, <2>1, <2>2, <2>5, SaveKeeps DEF CanSave
<1>3. ASSUME NEW s \in Session, NEW n \in Session \ {s}, NEW new \in SessionRow,
             NEW old \in SessionRow,
             writes[o] = <<SaveSession(n, new), SaveSession(s, old),
                           Then(n, "acquire"), Then(n, "run")>>,
             CanSucceed(n, new, s), CanRetire(s, old)
      PROVE  SessionsInv'
  <2> DEFINE rest == <<SaveSession(s, old), Then(n, "acquire"), Then(n, "run")>>
  <2>1. /\ session' = [session EXCEPT ![n] = new]
        /\ writes' = [writes EXCEPT ![o] = rest] /\ writes'[o] = rest
    <3>1. Head(writes[o]) = SaveSession(n, new) /\ Tail(writes[o]) = rest
      BY <1>3, HeadAndTail
    <3> QED
      BY <1>a, <3>1
  <2>2. On(writes[o]) = {s, n} /\ On(rest) = {s, n}
    BY <1>3, OnTuples DEF SaveSession, Then
  <2>3. session'[n] = new /\ session'[s] = session[s]
    BY <1>0, <2>1
  <2>4. Sound(n, new) /\ Earned(n, new) /\ open[n] = <<>>
    BY <1>3 DEF CanSucceed, Sound, Earned, SessionsInv, RowsInv
  <2>5. CanGoOn(n)'
    BY <1>0, <1>3, <2>3, <2>4 DEF CanGoOn, CanSucceed, Fits
  <2>6. CanRetire(s, old)' /\ Continued(s)'
    BY <1>3, <1>b, <2>3 DEF Continued, CanSucceed
  <2>7. Work(o)'
    BY <2>1, <2>5, <2>6 DEF Work, EarlyWork
  <2> QED
    BY <1>0, <2>1, <2>2, <2>4, <2>7, SaveKeeps
<1>4. ASSUME NEW s \in Session, NEW n \in Session \ {s}, NEW old \in SessionRow,
             writes[o] = <<SaveSession(s, old), Then(n, "acquire"), Then(n, "run")>>,
             CanRetire(s, old), Continued(s), CanGoOn(n)
      PROVE  SessionsInv'
  <2> DEFINE rest == <<Then(n, "acquire"), Then(n, "run")>>
  <2>1. /\ session' = [session EXCEPT ![s] = old]
        /\ writes' = [writes EXCEPT ![o] = rest] /\ writes'[o] = rest
    <3>1. Head(writes[o]) = SaveSession(s, old) /\ Tail(writes[o]) = rest
      BY <1>4, HeadAndTail
    <3> QED
      BY <1>a, <3>1
  <2>2. On(writes[o]) = {s, n} /\ On(rest) = {n}
    BY <1>4, OnTuples DEF SaveSession, Then
  <2>3. session'[s] = old /\ session'[n] = session[n]
    BY <1>0, <2>1
  <2>4. Clean(s) => Fits(session'[s], open[s])
    BY <1>4, <2>3 DEF CanRetire, Fits
  <2>5. Work(o)'
    BY <1>4, <1>b, <2>1, <2>3 DEF Work, LateWork
  <2>6. Sound(s, old) /\ Earned(s, old)
    BY <1>4 DEF CanRetire, Earned
  <2> QED
    BY <1>0, <2>1, <2>2, <2>4, <2>5, <2>6, SaveKeeps
<1> QED
  BY <1>0, <1>1, <1>2, <1>3, <1>4, DueWork DEF EarlyWork

\* A write that leaves the session rows as they are, and may change the open
\* leases of s.
LEMMA LeaseWriteKeeps ==
    ASSUME SessionsInv, NEW o \in Owner, NEW s \in Session, NEW rest,
           On(writes[o]) = {s}, On(rest) \subseteq {s},
           session[s].status # "none",
           UNCHANGED session, writes' = [writes EXCEPT ![o] = rest], RowsTypeOK',
           overlapped \subseteq overlapped', refused \subseteq refused', halved \subseteq halved',
           \A z \in Session : z # s => open'[z] = open[z],
           s \notin On(rest) /\ Clean(s)' => Fits(session[s], open'[s]),
           Work(o)'
    PROVE  SessionsInv'
<1>1. \A z \in Session : session[z].status = "superseded" => Continued(z)'
  BY DEF SessionsInv, RowsInv, Continued
<1>2. \A z \in Session : session[z].prior \in Session => session[z].note > 0
  BY DEF SessionsInv, RowsInv
<1> QED
  BY <1>1, <1>2, WriteKeeps

\* What a write that changes no session row leaves as it is.
LEMMA SameRowsSound ==
    ASSUME UNCHANGED session, overlapped \subseteq overlapped'
    PROVE  \A s, row : /\ Sound(s, row) => Sound(s, row)'
                       /\ Earned(s, row) => Earned(s, row)'
                       /\ Ends(s, row) => Ends(s, row)'
  BY DEF Sound, Earned, Ends, Continued

\* Writes of one owner change those of no other.
LEMMA WritesTyped ==
    ASSUME RowsTypeOK, NEW o \in Owner, NEW rest, writes' = [writes EXCEPT ![o] = rest]
    PROVE  /\ writes' = [p \in Owner |-> writes'[p]] /\ writes'[o] = rest
           /\ \A p \in Owner : p # o => writes'[p] = writes[p]
  BY DEF RowsTypeOK

\* A write put before another.
LEMMA TwoInOne == \A a, b : <<a>> \o <<b>> = <<a, b>>
<1> SUFFICES ASSUME NEW a, NEW b PROVE <<a>> \o <<b>> = <<a, b>>
  OBVIOUS
<1>1. <<a>> \in Seq({a, b}) /\ <<b>> \in Seq({a, b}) /\ <<a, b>> \in Seq({a, b})
  OBVIOUS
<1>2. Len(<<a>>) = 1 /\ Len(<<b>>) = 1 /\ Len(<<a, b>>) = 2
  OBVIOUS
<1>3. PICK c : c = <<a>> \o <<b>>
  OBVIOUS
<1>4. c \in Seq({a, b}) /\ Len(c) = 2
  BY <1>1, <1>2, <1>3, ConcatProperties
<1>5. \A i \in 1..2 : c[i] = <<a, b>>[i]
  <2>1. \A i \in 1..2 : c[i] = IF i <= 1 THEN <<a>>[i] ELSE <<b>>[i - 1]
    BY <1>1, <1>2, <1>3, ConcatProperties
  <2>2. c[1] = a /\ c[2] = b
    BY <2>1
  <2>3. \A i \in 1..2 : i = 1 \/ i = 2
    OBVIOUS
  <2> QED
    BY <2>2, <2>3
<1>6. c = <<a, b>>
  BY <1>1, <1>2, <1>4, <1>5, SeqEqual
<1> QED
  BY <1>3, <1>6

\* A lease is saved; where the status is refused, that is remembered.
LEMMA WriteGrantKeeps ==
    ASSUME SessionsInv, NEW o \in Owner, WriteGrant(o)
    PROVE  SessionsInv'
<1>1. /\ Due(o, "grant") /\ Work(o) /\ RowsTypeOK
      /\ UNCHANGED <<session, notes, overlapped, halved, cuts>>
  BY DEF SessionsInv, WriteGrant
<1>2. PICK s \in Session, policy \in {"abandon", "recoverable"}, row \in SessionRow :
         /\ CanGrant(s, row)
         /\ \/ writes[o] = <<Grant(s, policy, row)>>
            \/ writes[o] = <<Grant(s, policy, row), Then(s, "run")>>
  BY <1>1, DueWork
<1>3. PICK tail \in {<<>>, <<Then(s, "run")>>} :
         Head(writes[o]) = Grant(s, policy, row) /\ Tail(writes[o]) = tail
  <2>1. CASE writes[o] = <<Grant(s, policy, row)>>
    BY <2>1, HeadAndTail
  <2>2. CASE writes[o] = <<Grant(s, policy, row), Then(s, "run")>>
    BY <2>2, HeadAndTail
  <2> QED
    BY <1>2, <2>1, <2>2
<1>4. /\ Head(writes[o]).on = s /\ Head(writes[o]).policy = policy /\ Head(writes[o]).row = row
      /\ On(writes[o]) = {s}
  <2>1. Grant(s, policy, row).on = s /\ Then(s, "run").on = s
    BY DEF Grant, Then
  <2>2. On(writes[o]) = {s}
    <3>1. On(<<Grant(s, policy, row)>>) = {Grant(s, policy, row).on}
      BY OnTuples
    <3>2. On(<<Grant(s, policy, row), Then(s, "run")>>)
             = {Grant(s, policy, row).on, Then(s, "run").on}
      BY OnTuples
    <3> QED
      BY <1>2, <2>1, <3>1, <3>2
  <2>3. /\ Head(writes[o]).on = s /\ Head(writes[o]).policy = policy
        /\ Head(writes[o]).row = row
    BY ONLY <1>3 DEF Grant
  <2> QED
    BY <2>2, <2>3
<1>5. PICK new, legal, leased, key, rest :
         /\ new = [owner |-> o, policy |-> policy, lapsed |-> FALSE]
         /\ legal = ("leased" \in SessionMoves(row.status))
         /\ leased = [row EXCEPT !.status = "leased"]
         /\ key = Len(lease[s]) + 1
         /\ rest = IF legal THEN <<SaveSession(s, leased)>> \o tail ELSE <<>>
  OBVIOUS
<1>6. /\ lease' = [lease EXCEPT ![s] = Append(lease[s], new)]
      /\ open' = [open EXCEPT ![s] = <<key>> \o open[s]]
      /\ writes' = [writes EXCEPT ![o] = rest]
      /\ refused' = IF legal THEN refused ELSE refused \cup {s}
  BY <1>3, <1>4, <1>5 DEF WriteGrant, Goes
<1>7. /\ new \in LeaseRow /\ key \in Nat
      /\ lease[s] \in Seq(LeaseRow) /\ open[s] \in Seq(Nat)
  <2>1. lease[s] \in Seq(LeaseRow) /\ open[s] \in Seq(Nat)
    BY <1>1 DEF RowsTypeOK
  <2>2. key \in Nat
    BY <1>5, <2>1
  <2>3. new \in LeaseRow
    BY ONLY <1>5, o \in Owner, policy \in {"abandon", "recoverable"} DEF LeaseRow
  <2> QED
    BY <2>1, <2>2, <2>3
<1>8. Append(lease[s], new) \in Seq(LeaseRow) /\ <<key>> \o open[s] \in Seq(Nat)
  BY <1>7
<1>9. writes'[o] = rest /\ RowsTypeOK'
  BY <1>1, <1>6, <1>8, WritesTyped DEF RowsTypeOK
<1>10. /\ open'[s] = <<key>> \o open[s] /\ \A z \in Session : z # s => open'[z] = open[z]
  BY <1>1, <1>6 DEF RowsTypeOK
<1>11. open[s] = <<>> => open'[s] = <<key>>
  BY <1>10
<1>12. /\ leased \in SessionRow /\ leased.status = "leased"
       /\ leased.prior = row.prior /\ leased.note = row.note
  BY <1>5 DEF SessionRow, SessionStatus
<1>13. CASE ~legal
  <2>1. rest = <<>> /\ s \in refused'
    BY <1>5, <1>6, <1>13
  <2>2. On(rest) = {} /\ ~Clean(s)' /\ Work(o)'
    BY <1>9, <2>1, OnTuples DEF Clean, Work
  <2>3. session[s].status # "none" /\ refused \subseteq refused'
    BY <1>2, <1>6 DEF CanGrant
  <2> QED
    BY <1>1, <1>4, <1>6, <1>9, <1>10, <2>2, <2>3, LeaseWriteKeeps
<1>14. CASE legal
  <2>1. rest = <<SaveSession(s, leased)>> \/ rest = <<SaveSession(s, leased), Then(s, "run")>>
    <3>1. \A a : <<a>> \o <<>> = <<a>>
      OBVIOUS
    <3>2. \A a, b : <<a>> \o <<b>> = <<a, b>>
      BY TwoInOne
    <3>3. rest = <<SaveSession(s, leased)>> \o tail
      BY <1>5, <1>14
    <3>4. tail = <<>> \/ tail = <<Then(s, "run")>>
      BY <1>3
    <3> QED
      BY ONLY <3>1, <3>2, <3>3, <3>4
  <2>2. On(rest) = {s}
    BY <2>1, OnTuples DEF SaveSession, Then
  <2>3. session[s].status # "none" /\ refused' = refused
    BY <1>2, <1>6, <1>14 DEF CanGrant
  <2>4. Sound(s, leased) /\ Earned(s, leased)
    BY <1>2, <1>12 DEF CanGrant, Sound, Earned
  <2>5. Ends(s, leased)
    <3>1. s \notin overlapped => row = session[s]
      BY <1>2 DEF CanGrant
    <3>2. "leased" \in SessionMoves(row.status)
      BY <1>5, <1>14
    <3> QED
      BY <1>12, <3>1, <3>2 DEF Ends, SessionMoves, Terminal
  <2>6. Clean(s)' => Fits(leased, open'[s])
    <3>1. Clean(s)' => open[s] = <<>>
      BY <1>1, <1>2, <2>3 DEF CanGrant, Clean
    <3>2. \A a : <<a>> # <<>> /\ Len(<<a>>) = 1
      OBVIOUS
    <3>3. open'[s] = <<key>> => Fits(leased, open'[s])
      BY <1>12, <3>2 DEF Fits
    <3> QED
      BY <1>11, <3>1, <3>3
  <2>7. CanSave(s, leased)'
    BY <1>1, <2>4, <2>5, <2>6, SameRowsSound DEF CanSave, Fits
  <2>8. Work(o)'
    BY <1>9, <1>12, <2>1, <2>7 DEF Work, ShortWork, LateWork
  <2> QED
    BY <1>1, <1>4, <1>6, <1>9, <1>10, <2>2, <2>3, <2>8, LeaseWriteKeeps
<1> QED
  BY <1>13, <1>14, <1>5

\* A lease that has lapsed, or has not any more, is still a lease.
LEMMA LeasesTyped ==
    ASSUME RowsTypeOK, NEW s \in Session, NEW k, NEW b \in BOOLEAN
    PROVE  [lease EXCEPT ![s][k].lapsed = b] \in [Session -> Seq(LeaseRow)]
<1>1. lease[s] \in Seq(LeaseRow)
  BY DEF RowsTypeOK
<1>2. [lease[s] EXCEPT ![k].lapsed = b] \in Seq(LeaseRow)
  <2>1. lease[s] \in [1..Len(lease[s]) -> LeaseRow] /\ Len(lease[s]) \in Nat
    BY <1>1
  <2>2. \A i \in 1..Len(lease[s]) : [lease[s][i] EXCEPT !.lapsed = b] \in LeaseRow
    BY <2>1 DEF LeaseRow
  <2>3. [lease[s] EXCEPT ![k].lapsed = b] \in [1..Len(lease[s]) -> LeaseRow]
    BY <2>1, <2>2
  <2> QED
    BY <2>1, <2>3, SeqDef
<1> QED
  BY <1>2 DEF RowsTypeOK

\* A lease is renewed: it stays the only one.
LEMMA WriteRenewalKeeps ==
    ASSUME SessionsInv, NEW o \in Owner, WriteRenewal(o)
    PROVE  SessionsInv'
<1>1. /\ Due(o, "renew") /\ Work(o) /\ RowsTypeOK
      /\ UNCHANGED <<session, notes, overlapped, refused, halved, cuts>>
  BY DEF SessionsInv, WriteRenewal
<1>2. PICK s \in Session, k \in Nat : writes[o] = <<Renew(s, k), Reread(s, k)>> /\ CanRenew(s, k)
  BY <1>1, DueWork
<1> DEFINE rest == <<Reread(s, k)>>
<1>3. Head(writes[o]) = Renew(s, k) /\ Tail(writes[o]) = rest
  BY <1>2, HeadAndTail
<1>4. /\ Head(writes[o]).on = s /\ Head(writes[o]).key = k
      /\ On(writes[o]) = {s} /\ On(rest) = {s}
  BY <1>2, <1>3, OnTuples DEF Renew, Reread
<1>5. /\ lease' = [lease EXCEPT ![s][k].lapsed = FALSE]
      /\ open' = [open EXCEPT ![s] = <<k>> \o RemoveFirst(open[s], k)]
      /\ writes' = [writes EXCEPT ![o] = rest]
  BY <1>3, <1>4 DEF WriteRenewal, Goes, Without
<1>6. <<k>> \o RemoveFirst(open[s], k) \in Seq(Nat)
  <2>1. RemoveFirst(open[s], k) \in Seq(Nat)
    BY <1>1, RemovedFromSeq DEF RowsTypeOK
  <2> QED
    BY <2>1
<1>7. writes'[o] = rest /\ RowsTypeOK'
  BY <1>1, <1>5, <1>6, LeasesTyped, WritesTyped DEF RowsTypeOK
<1>8. /\ open'[s] = <<k>> \o RemoveFirst(open[s], k)
      /\ \A z \in Session : z # s => open'[z] = open[z]
  BY <1>1, <1>5 DEF RowsTypeOK
<1>9. open[s] = <<k>> => open'[s] = <<k>>
  <2>1. RemoveFirst(<<k>>, k) = <<>>
    BY RemovedTheOnly
  <2>2. <<k>> \o <<>> = <<k>>
    OBVIOUS
  <2> QED
    BY <1>8, <2>1, <2>2
<1>10. CanRenew(s, k)'
  BY <1>1, <1>2, <1>9 DEF CanRenew, Clean, Fits
<1>11. Work(o)'
  BY <1>7, <1>10 DEF Work, ShortWork
<1>12. session[s].status # "none"
  BY <1>2 DEF CanRenew
<1> QED
  BY <1>1, <1>4, <1>5, <1>7, <1>8, <1>11, <1>12, LeaseWriteKeeps

\* heartbeat reads the session, with its lease open.
LEMMA ReadForHeartbeatKeeps ==
    ASSUME SessionsInv, NEW o \in Owner, ReadForHeartbeat(o)
    PROVE  SessionsInv'
<1>1. /\ Due(o, "reread") /\ Work(o) /\ RowsTypeOK
      /\ UNCHANGED <<session, lease, open, notes, overlapped, refused, halved, cuts>>
  BY DEF SessionsInv, ReadForHeartbeat, delegateRows
<1>2. PICK s \in Session, k \in Nat : writes[o] = <<Reread(s, k)>> /\ CanRenew(s, k)
  BY <1>1, DueWork
<1>3. PICK row : row = [session[s] EXCEPT !.lease = k,
                                          !.status = IF @ = "leased" THEN "running" ELSE @]
  OBVIOUS
<1> DEFINE rest == <<SaveSession(s, row)>>
<1>4. Head(writes[o]) = Reread(s, k) /\ On(writes[o]) = {s} /\ On(rest) = {s}
  BY <1>2, HeadAndTail, OnTuples DEF Reread, SaveSession
<1>5. writes' = [writes EXCEPT ![o] = rest]
  <2>1. Head(writes[o]).on = s /\ Head(writes[o]).key = k
    BY <1>4 DEF Reread
  <2> QED
    BY <1>3, <2>1 DEF ReadForHeartbeat, Goes
<1>6. writes'[o] = rest /\ RowsTypeOK'
  BY <1>1, <1>5, WritesTyped DEF RowsTypeOK
<1>7. session[s] \in SessionRow /\ session[s].status # "none"
  BY <1>1, <1>2 DEF RowsTypeOK, CanRenew
<1>8. /\ row \in SessionRow
      /\ row.prior = session[s].prior /\ row.note = session[s].note /\ row.lease = k
      /\ row.status = IF session[s].status = "leased" THEN "running" ELSE session[s].status
  BY <1>3, <1>7 DEF SessionRow, SessionStatus
<1>9. Sound(s, row)
  BY <1>7, <1>8, ChangedRowIsSound
<1>10. Ends(s, row) /\ Earned(s, row)
  <2>1. Earned(s, session[s])
    BY <1>7, OwnRowIsSound
  <2> QED
    BY <1>8, <2>1 DEF Ends, Earned, Terminal
<1>11. Clean(s) => Fits(row, open[s])
  BY <1>2, <1>8 DEF CanRenew, Fits
<1>12. CanSave(s, row)'
  BY <1>1, <1>9, <1>10, <1>11, SameRowsSound DEF CanSave, Clean, Fits
<1>13. Work(o)'
  BY <1>6, <1>8, <1>12 DEF Work, ShortWork
<1> QED
  BY <1>1, <1>4, <1>5, <1>6, <1>7, <1>13, LeaseWriteKeeps

\* A lease is closed: none is left.
LEMMA WriteClosingKeeps ==
    ASSUME SessionsInv, NEW o \in Owner, WriteClosing(o)
    PROVE  SessionsInv'
<1>1. /\ Due(o, "close") /\ Work(o) /\ RowsTypeOK
      /\ UNCHANGED <<session, lease, notes, overlapped, refused, halved, cuts>>
  BY DEF SessionsInv, WriteClosing
<1>2. PICK s \in Session, k \in Nat, row \in SessionRow :
         writes[o] = <<Close(s, k), SaveSession(s, row)>> /\ CanClose(s, k, row)
  BY <1>1, DueWork
<1> DEFINE rest == <<SaveSession(s, row)>>
<1>3. Head(writes[o]) = Close(s, k) /\ Tail(writes[o]) = rest
  BY <1>2, HeadAndTail
<1>4. /\ Head(writes[o]).on = s /\ Head(writes[o]).key = k
      /\ On(writes[o]) = {s} /\ On(rest) = {s}
  BY <1>2, <1>3, OnTuples DEF Close, SaveSession
<1>5. /\ open' = [open EXCEPT ![s] = RemoveFirst(open[s], k)]
      /\ writes' = [writes EXCEPT ![o] = rest]
  BY <1>3, <1>4 DEF WriteClosing, Goes, Without
<1>6. RemoveFirst(open[s], k) \in Seq(Nat)
  BY <1>1, RemovedFromSeq DEF RowsTypeOK
<1>7. writes'[o] = rest /\ RowsTypeOK'
  BY <1>1, <1>5, <1>6, WritesTyped DEF RowsTypeOK
<1>8. /\ open'[s] = RemoveFirst(open[s], k)
      /\ \A z \in Session : z # s => open'[z] = open[z]
  BY <1>1, <1>5 DEF RowsTypeOK
<1>9. open[s] = <<k>> => open'[s] = <<>>
  BY <1>8, RemovedTheOnly
<1>10. CanSave(s, row)'
  BY <1>1, <1>2, <1>9, SameRowsSound DEF CanClose, CanSave, Clean, Fits
<1>11. Work(o)'
  BY <1>7, <1>10 DEF Work, ShortWork
<1>12. session[s].status # "none"
  BY <1>2 DEF CanClose
<1> QED
  BY <1>1, <1>4, <1>5, <1>7, <1>8, <1>11, <1>12, LeaseWriteKeeps

\* A checkpoint is written, or its id was taken.
LEMMA WriteNoteKeeps ==
    ASSUME SessionsInv, NEW o \in Owner, WriteNote(o)
    PROVE  SessionsInv'
<1>1. /\ Due(o, "note") /\ Work(o) /\ RowsTypeOK
      /\ UNCHANGED <<session, lease, open, overlapped, refused, halved, cuts>>
  BY DEF SessionsInv, WriteNote
<1>2. PICK s \in Session, k \in Nat, row \in SessionRow :
         writes[o] = <<Note(s, k), SaveSession(s, row)>> /\ CanNote(s, k, row)
  BY <1>1, DueWork
<1>3. Head(writes[o]) = Note(s, k) /\ Tail(writes[o]) = <<SaveSession(s, row)>>
  BY <1>2, HeadAndTail
<1>4. /\ Head(writes[o]).on = s /\ Head(writes[o]).key = k /\ On(writes[o]) = {s}
      /\ On(<<SaveSession(s, row)>>) = {s} /\ On(<<>>) = {}
  BY <1>2, <1>3, OnTuples DEF Note, SaveSession
<1>5. PICK rest \in {<<SaveSession(s, row)>>, <<>>} :
         writes' = [writes EXCEPT ![o] = rest]
  BY <1>3 DEF WriteNote, Goes
<1>6. notes' \in [Session -> 0..MaxNotes]
  BY <1>1, <1>2, <1>4 DEF WriteNote, RowsTypeOK, CanNote
<1>7. writes'[o] = rest /\ RowsTypeOK'
  BY <1>1, <1>5, <1>6, WritesTyped DEF RowsTypeOK
<1>8. CanSave(s, row)'
  BY <1>1, <1>2, SameRowsSound DEF CanNote, CanSave, Clean, Fits
<1>9. Work(o)'
  BY <1>7, <1>8 DEF Work, ShortWork
<1>10. Clean(s)' => Fits(session[s], open'[s])
  BY <1>1, <1>2 DEF CanNote, Clean
<1>11. session[s].status # "none"
  BY <1>2 DEF CanNote
<1> QED
  BY <1>1, <1>4, <1>5, <1>7, <1>9, <1>10, <1>11, LeaseWriteKeeps

\* A recovery goes on with its successor, or is refused and remembered.
LEMMA GoOnRecoveringKeeps ==
    ASSUME SessionsInv, NEW o \in Owner, GoOnRecovering(o)
    PROVE  SessionsInv'
<1>1. /\ Due(o, "acquire") \/ Due(o, "run")
      /\ Work(o) /\ RowsTypeOK
      /\ UNCHANGED <<session, lease, open, notes, refused, cuts>>
  BY DEF SessionsInv, GoOnRecovering, delegateRows
<1>2. PICK s \in Session :
         /\ CanGoOn(s)
         /\ \/ /\ writes[o] = <<Then(s, "acquire"), Then(s, "run")>>
               /\ Due(o, "acquire") /\ ~Due(o, "run")
            \/ /\ writes[o] = <<Then(s, "run")>>
               /\ Due(o, "run") /\ ~Due(o, "acquire")
  BY <1>1, DueWork
<1>3. Head(writes[o]).on = s /\ On(writes[o]) = {s} /\ On(<<>>) = {}
  <2>1. Then(s, "acquire").on = s /\ Then(s, "run").on = s
    BY DEF Then
  <2>2. On(<<Then(s, "run")>>) = {Then(s, "run").on} /\ On(<<>>) = {}
    BY OnTuples
  <2>3. On(<<Then(s, "acquire"), Then(s, "run")>>)
           = {Then(s, "acquire").on, Then(s, "run").on}
    BY OnTuples
  <2>4. Head(writes[o]) = Then(s, "acquire") \/ Head(writes[o]) = Then(s, "run")
    BY <1>2, HeadAndTail
  <2> QED
    BY <1>2, <2>1, <2>2, <2>3, <2>4
<1>4. overlapped \subseteq overlapped' /\ halved \subseteq halved'
  BY DEF GoOnRecovering, Overlap
<1>5. session[s] \in SessionRow /\ session[s].status # "none"
  BY <1>1, <1>2 DEF RowsTypeOK, CanGoOn
<1>6. ASSUME writes' = [writes EXCEPT ![o] = <<>>], s \in halved' PROVE SessionsInv'
  <2>1. writes'[o] = <<>> /\ RowsTypeOK'
    BY <1>1, <1>6, WritesTyped DEF RowsTypeOK
  <2>2. Work(o)' /\ ~Clean(s)'
    BY <1>6, <2>1 DEF Work, Clean
  <2> QED
    BY <1>1, <1>3, <1>4, <1>5, <1>6, <2>1, <2>2, LeaseWriteKeeps
<1>7. CASE writes[o] = <<Then(s, "acquire"), Then(s, "run")>> /\ Due(o, "acquire")
  <2> DEFINE rest == <<Grant(s, "recoverable", session[s]), Then(s, "run")>>
  <2>1. Tail(writes[o]) = <<Then(s, "run")>>
    BY <1>7, HeadAndTail
  <2>2. \/ ~MayAcquire(s) /\ writes' = [writes EXCEPT ![o] = <<>>] /\ s \in halved'
        \/ MayAcquire(s) /\ writes' = [writes EXCEPT ![o] = rest]
    <3>1. \A a, b : <<a>> \o <<b>> = <<a, b>>
      BY TwoInOne
    <3>2. /\ writes' = [writes EXCEPT ![o] = IF MayAcquire(s)
                                            THEN <<Grant(s, "recoverable", session[s])>> \o Tail(writes[o])
                                            ELSE <<>>]
          /\ halved' = IF MayAcquire(s) THEN halved ELSE halved \cup {s}
      BY <1>3, <1>7 DEF GoOnRecovering, Goes
    <3>3. <<Grant(s, "recoverable", session[s])>> \o Tail(writes[o]) = rest
      BY <2>1, <3>1
    <3> QED
      BY <3>2, <3>3
  <2>3. ASSUME MayAcquire(s), writes' = [writes EXCEPT ![o] = rest] PROVE SessionsInv'
    <3>1. writes'[o] = rest /\ RowsTypeOK'
      BY <1>1, <2>3, WritesTyped DEF RowsTypeOK
    <3>2. On(rest) = {s}
      BY OnTuples DEF Grant, Then
    <3>3. open[s] = <<>> /\ Sound(s, session[s]) /\ Earned(s, session[s])
      BY <1>5, <2>3, OwnRowIsSound DEF MayAcquire
    <3>4. Clean(s)' => session[s].status # "running"
      BY <1>1, <1>2, <1>4, <3>3 DEF CanGoOn, Clean, Fits
    <3>5. CanGrant(s, session[s])'
      BY <1>1, <1>4, <1>5, <3>3, <3>4, SameRowsSound DEF CanGrant
    <3>6. Work(o)'
      BY <1>1, <1>5, <3>1, <3>5 DEF Work, LateWork
    <3> QED
      BY <1>1, <1>3, <1>4, <1>5, <2>3, <3>1, <3>2, <3>6, LeaseWriteKeeps
  <2> QED
    BY <1>6, <2>2, <2>3
<1>8. CASE writes[o] = <<Then(s, "run")>> /\ ~Due(o, "acquire")
  <2>0. PICK row : row = AsRunning(s)
    OBVIOUS
  <2> DEFINE rest == <<SaveSession(s, row)>>
  <2>1. Tail(writes[o]) = <<>> /\ <<SaveSession(s, row)>> \o <<>> = rest
    BY <1>8, HeadAndTail
  <2>2. \/ ~MayRun(o, s) /\ writes' = [writes EXCEPT ![o] = <<>>] /\ s \in halved'
        \/ MayRun(o, s) /\ writes' = [writes EXCEPT ![o] = rest]
    <3>1. /\ writes' = [writes EXCEPT ![o] = IF MayRun(o, s)
                                            THEN <<SaveSession(s, AsRunning(s))>> \o Tail(writes[o])
                                            ELSE <<>>]
          /\ halved' = IF MayRun(o, s) THEN halved ELSE halved \cup {s}
      BY <1>3, <1>8 DEF GoOnRecovering, Goes
    <3> QED
      BY <2>0, <2>1, <3>1
  <2>3. ASSUME MayRun(o, s), writes' = [writes EXCEPT ![o] = rest] PROVE SessionsInv'
    <3>1. writes'[o] = rest /\ RowsTypeOK'
      BY <1>1, <2>3, WritesTyped DEF RowsTypeOK
    <3>2. On(rest) = {s}
      BY OnTuples DEF SaveSession
    <3>3. /\ row \in SessionRow /\ Sound(s, row) /\ Ends(s, row) /\ Earned(s, row)
          /\ Fits(session[s], open[s]) => Fits(row, open[s])
      BY <2>0, <2>3, RunningRow
    <3>4. CanSave(s, row)'
      BY <1>1, <1>2, <1>4, <3>3, SameRowsSound DEF CanGoOn, CanSave, Clean, Fits
    <3>5. Work(o)'
      BY <3>1, <3>3, <3>4 DEF Work, ShortWork
    <3> QED
      BY <1>1, <1>3, <1>4, <1>5, <2>3, <3>1, <3>2, <3>5, LeaseWriteKeeps
  <2> QED
    BY <1>6, <2>2, <2>3
<1> QED
  BY <1>2, <1>7, <1>8

\* An operation that is cut short is remembered on every session it was at.
LEMMA CutShortKeeps ==
    ASSUME SessionsInv, NEW o \in Owner, CutShort(o)
    PROVE  SessionsInv'
<1>1. /\ UNCHANGED <<session, lease, open, notes, overlapped, refused>>
      /\ writes' = [writes EXCEPT ![o] = <<>>] /\ RowsTypeOK
      /\ halved' = halved \cup Touched(o)
  BY DEF CutShort, Goes, delegateRows, SessionsInv
<1>2. writes'[o] = <<>> /\ RowsTypeOK' /\ On(<<>>) = {} /\ Touched(o) = On(writes[o])
  BY <1>1, WritesTyped, OnTuples, TouchedIsOn DEF RowsTypeOK
<1>3. Work(o)' /\ \A s \in On(writes[o]) : ~Clean(s)'
  BY <1>1, <1>2 DEF Work, Clean
<1>4. \A z \in Session : session[z].status = "superseded" => Continued(z)'
  BY <1>1 DEF SessionsInv, RowsInv, Continued
<1>5. \A z \in Session : session[z].prior \in Session => session[z].note > 0
  BY DEF SessionsInv, RowsInv
<1> QED
  BY <1>1, <1>2, <1>3, <1>4, <1>5, WriteKeeps

\* A lease that lapses changes no row.
LEMMA LapseKeeps ==
    ASSUME SessionsInv, NEW s \in Session, Lapse(s)
    PROVE  SessionsInv'
<1>1. /\ UNCHANGED <<session, open, notes, writes, overlapped, refused, halved, cuts>>
      /\ lease' = [lease EXCEPT ![s][Current(s)].lapsed = TRUE] /\ RowsTypeOK
  BY DEF Lapse, SessionsInv
<1>2. RowsTypeOK'
  BY <1>1, LeasesTyped DEF RowsTypeOK
<1>3. \A z \in Session : Undisturbed(z)
  BY <1>1 DEF Undisturbed, Continued
<1>4. \A p \in Owner : Work(p)'
  BY <1>1, <1>3, WorkGoesOn DEF SessionsInv
<1>5. Apart' /\ RowsInv' /\ QuietInv'
  BY <1>1 DEF SessionsInv, Apart, RowsInv, QuietInv, Touched, Continued, Clean, Quiet, Fits
<1> QED
  BY <1>2, <1>4, <1>5 DEF SessionsInv

\* Nothing changes.
LEMMA SessionsStay == SessionsInv /\ UNCHANGED delegateVars => SessionsInv'
<1> SUFFICES ASSUME SessionsInv, UNCHANGED delegateVars PROVE SessionsInv'
  OBVIOUS
<1>1. UNCHANGED <<session, lease, open, notes, writes, overlapped, refused, halved, cuts>>
  BY DEF delegateVars, delegateRows
<1>2. \A z \in Session : Undisturbed(z)
  BY <1>1 DEF Undisturbed, Continued
<1>3. \A p \in Owner : Work(p)'
  BY <1>1, <1>2, WorkGoesOn DEF SessionsInv
<1>4. RowsTypeOK'
  BY <1>1 DEF SessionsInv, RowsTypeOK
<1>5. Apart' /\ RowsInv'
  BY <1>1 DEF SessionsInv, Apart, RowsInv, Touched, Continued
<1>6. QuietInv'
  BY <1>1 DEF SessionsInv, QuietInv, Touched, Clean, Quiet, Fits
<1> QED
  BY <1>3, <1>4, <1>5, <1>6 DEF SessionsInv

\* No session is there.
LEMMA SessionsInitial == DelegateInit => SessionsInv
<1> SUFFICES ASSUME DelegateInit PROVE SessionsInv
  OBVIOUS
<1>1. RowsTypeOK
  BY DelegateAssumption DEF DelegateInit, RowsTypeOK, NoRow, SessionRow, SessionStatus
<1>2. \A o \in Owner : Work(o) /\ Touched(o) = {}
  BY DEF DelegateInit, Work, Touched
<1>3. Apart /\ RowsInv /\ QuietInv
  BY <1>2, DelegateAssumption DEF DelegateInit, Apart, RowsInv, QuietInv, NoRow, Fits
<1> QED
  BY <1>1, <1>2, <1>3 DEF SessionsInv

\* Every step of an operation, of time and of a fault keeps it.
LEMMA SessionsStep == SessionsInv /\ [DelegateNext]_delegateVars => SessionsInv'
<1> SUFFICES ASSUME SessionsInv, [DelegateNext]_delegateVars PROVE SessionsInv'
  OBVIOUS
<1>1. ASSUME NEW o \in Owner, NEW s \in Session,
             \/ CreateSession(o, s) \/ MarkRunningSession(o, s) \/ Heartbeat(o, s)
             \/ RecordCheckpoint(o, s) \/ ExpireSession(o, s) \/ CompleteSession(o, s)
             \/ \E policy \in {"abandon", "recoverable"} : AcquireLease(o, s, policy)
             \/ \E n \in Session \ {s} : RecoverSession(o, s, n)
      PROVE  SessionsInv'
  BY <1>1, CreateSessionKeeps, MarkRunningSessionKeeps, HeartbeatKeeps,
     RecordCheckpointKeeps,
     ExpireSessionKeeps, CompleteSessionKeeps, AcquireLeaseKeeps, RecoverSessionKeeps
<1>2. ASSUME NEW o \in Owner,
             \/ WriteSession(o) \/ WriteGrant(o) \/ WriteRenewal(o) \/ ReadForHeartbeat(o)
             \/ WriteClosing(o) \/ WriteNote(o) \/ GoOnRecovering(o) \/ CutShort(o)
      PROVE  SessionsInv'
  BY <1>2, WriteSessionKeeps, WriteGrantKeeps, WriteRenewalKeeps, ReadForHeartbeatKeeps,
     WriteClosingKeeps, WriteNoteKeeps, GoOnRecoveringKeeps, CutShortKeeps
<1> QED
  BY <1>1, <1>2, LapseKeeps, SessionsStay DEF DelegateNext

\* What the run checks of sessions follows.
LEMMA SessionsPromises == SessionsInv => RunningHasItsLease /\ SupersededIsContinued
<1> SUFFICES ASSUME SessionsInv PROVE RunningHasItsLease /\ SupersededIsContinued
  OBVIOUS
<1>1. SupersededIsContinued
  BY DEF SessionsInv, RowsInv, Continued, SupersededIsContinued
<1>2. RunningHasItsLease
  BY DEF SessionsInv, QuietInv, Clean, Fits, RunningHasItsLease
<1> QED
  BY <1>1, <1>2

\* Only save_session changes a status, and it carries no row that undoes an end.
LEMMA FinishedAreKept ==
    ASSUME SessionsInv, [DelegateNext]_delegateVars, NEW s \in Session \ overlapped',
           session[s].status \in Terminal
    PROVE  session'[s].status = session[s].status
<1>1. CASE UNCHANGED session
  BY <1>1
<1>2. ASSUME NEW o \in Owner, WriteSession(o) PROVE session'[s].status = session[s].status
  <2>1. /\ Work(o) /\ Due(o, "save") /\ session \in [Session -> SessionRow]
        /\ s \notin overlapped
    BY <1>2 DEF SessionsInv, RowsTypeOK, WriteSession
  <2>2. ASSUME NEW z \in Session, NEW row, Head(writes[o]) = SaveSession(z, row),
               z = s => row.status = session[s].status
        PROVE  session'[s].status = session[s].status
    <3>1. Head(writes[o]).on = z /\ Head(writes[o]).row = row
      BY <2>2 DEF SaveSession
    <3>2. session' = [session EXCEPT ![z] = row]
      BY <1>2, <3>1 DEF WriteSession
    <3> QED
      BY <2>1, <2>2, <3>2
  <2>3. ASSUME NEW z \in Session, NEW row \in SessionRow, CanSave(z, row),
               \/ writes[o] = <<SaveSession(z, row)>>
               \/ writes[o] = <<SaveSession(z, row), Then(z, "run")>>
        PROVE  session'[s].status = session[s].status
    BY <2>1, <2>2, <2>3, HeadAndTail DEF CanSave, Ends
  <2>4. ASSUME NEW z \in Session, NEW n \in Session \ {z}, EarlyWork(writes[o], z, n)
        PROVE  session'[s].status = session[s].status
    BY <2>1, <2>2, <2>4, HeadAndTail DEF EarlyWork, CanRetire, CanSucceed, Ends, Terminal
  <2> QED
    BY <2>1, <2>3, <2>4, DueWork
<1>3. \A o, S, todo : Begin(o, S, todo) => UNCHANGED session
  BY DEF Begin, delegateRows
<1>4. ASSUME NEW o \in Owner, NEW z \in Session,
             \/ CreateSession(o, z) \/ MarkRunningSession(o, z) \/ Heartbeat(o, z)
             \/ RecordCheckpoint(o, z) \/ ExpireSession(o, z) \/ CompleteSession(o, z)
             \/ \E policy \in {"abandon", "recoverable"} : AcquireLease(o, z, policy)
             \/ \E n \in Session \ {z} : RecoverSession(o, z, n)
      PROVE  UNCHANGED session
  <2>1. /\ CreateSession(o, z) => UNCHANGED session
        /\ MarkRunningSession(o, z) => UNCHANGED session
        /\ Heartbeat(o, z) => UNCHANGED session
        /\ RecordCheckpoint(o, z) => UNCHANGED session
    BY <1>3 DEF CreateSession, MarkRunningSession, Heartbeat, RecordCheckpoint
  <2>2. /\ ExpireSession(o, z) => UNCHANGED session
        /\ CompleteSession(o, z) => UNCHANGED session
        /\ \A policy : AcquireLease(o, z, policy) => UNCHANGED session
        /\ \A n : RecoverSession(o, z, n) => UNCHANGED session
    BY <1>3 DEF ExpireSession, CompleteSession, AcquireLease, RecoverSession
  <2> QED
    BY <1>4, <2>1, <2>2
<1>5. ASSUME NEW o \in Owner,
             \/ WriteGrant(o) \/ WriteRenewal(o) \/ ReadForHeartbeat(o)
             \/ WriteClosing(o) \/ WriteNote(o) \/ GoOnRecovering(o) \/ CutShort(o)
      PROVE  UNCHANGED session
  BY <1>5 DEF WriteGrant, WriteRenewal, ReadForHeartbeat, WriteClosing, WriteNote,
     GoOnRecovering, CutShort, delegateRows
<1>6. ASSUME NEW z \in Session, Lapse(z) PROVE UNCHANGED session
  BY <1>6 DEF Lapse
<1>7. UNCHANGED delegateVars => UNCHANGED session
  BY DEF delegateVars, delegateRows
<1> QED
  BY <1>1, <1>2, <1>4, <1>5, <1>6, <1>7 DEF DelegateNext

-----------------------------------------------------------------------------
(* Leases in memory: one follows the other *)

GrantedLease == [owner : Owner, policy : {"abandon", "recoverable"}, since : Nat,
                 until : Nat, over : Nat, supersedes : SUBSET Owner]

\* What LeasesFollowOneAnother asks of a lease and the next one.
Follows(old, new) ==
    /\ new.since >= IF old.over # 0 THEN old.over ELSE old.until
    /\ new.supersedes # {} =>
          /\ new.supersedes = {old.owner}
          /\ old.policy = new.policy /\ new.policy # "abandon"

\* The leases g of a session at time t: one that is not in the table any more
\* is over, which is what lets another begin.
HistoryOK(g, there, t) ==
    /\ g \in Seq(GrantedLease)
    /\ \A k \in 1..Len(g) : g[k].over <= t
    /\ there => g # <<>>
    /\ g # <<>> /\ ~there => g[Len(g)].over # 0
    /\ \A k \in 2..Len(g) : Follows(g[k - 1], g[k])

ManagerInv ==
    /\ instant \in Nat \ {0}
    /\ granted = [s \in Session |-> granted[s]]
    /\ \A s \in Session : HistoryOK(granted[s], s \in inTable, instant)

\* The last lease changes in how long it lasts only.
LEMMA LastChanges ==
    ASSUME NEW g, NEW n, n = Len(g), NEW b, NEW t \in Nat, HistoryOK(g, b, t), g # <<>>,
           NEW last \in GrantedLease,
           last.owner = g[n].owner, last.policy = g[n].policy,
           last.since = g[n].since, last.supersedes = g[n].supersedes,
           last.over <= t, NEW there \in BOOLEAN, ~there => last.over # 0
    PROVE  /\ HistoryOK([g EXCEPT ![n] = last], there, t)
           /\ Len([g EXCEPT ![n] = last]) = n
           /\ [g EXCEPT ![n] = last][n] = last
<1>1. PICK h : h = [g EXCEPT ![n] = last]
  OBVIOUS
<1>2. g \in Seq(GrantedLease) /\ n \in Nat /\ n \in 1..Len(g)
  BY EmptySeq DEF HistoryOK
<1>3. /\ h \in Seq(GrantedLease) /\ Len(h) = n
      /\ \A j \in 1..n : h[j] = IF j = n THEN last ELSE g[j]
  BY <1>1, <1>2, ExceptSeq
<1>4. \A k \in 1..n : h[k].over <= t
  BY <1>3 DEF HistoryOK
<1>5. ASSUME NEW k \in 2..n PROVE Follows(h[k - 1], h[k])
  <2>1. k \in 1..n /\ k - 1 \in 1..n /\ k - 1 # n
    BY <1>2
  <2>2. h[k - 1] = g[k - 1] /\ Follows(g[k - 1], g[k])
    BY <1>3, <2>1 DEF HistoryOK
  <2>3. h[k] = IF k = n THEN last ELSE g[k]
    BY <1>3, <2>1
  <2> QED
    BY <2>2, <2>3 DEF Follows
<1>6. h # <<>> /\ h[n] = last
  BY <1>2, <1>3
<1>7. HistoryOK(h, there, t)
  BY <1>3, <1>4, <1>5, <1>6 DEF HistoryOK
<1> QED
  BY <1>1, <1>3, <1>6, <1>7

\* A lease that is ended, at whatever time it was to last to.
LEMMA EndedIsOver ==
    ASSUME ManagerInv, NEW s \in Session, granted[s] # <<>>
    PROVE  /\ HistoryOK(Ended(s), FALSE, instant) /\ Len(Ended(s)) = Len(granted[s])
           /\ Ended(s)[Len(granted[s])].owner = LastLease(s).owner
           /\ Ended(s)[Len(granted[s])].policy = LastLease(s).policy
<1>1. PICK g, n, last : /\ g = granted[s] /\ n = Len(g)
                        /\ last = [g[n] EXCEPT !.over = IF @ = 0 THEN instant ELSE @]
  OBVIOUS
<1>2. HistoryOK(g, s \in inTable, instant) /\ instant \in Nat \ {0} /\ g # <<>>
  BY <1>1 DEF ManagerInv
<1>3. g[n] \in GrantedLease /\ g[n].over <= instant
  <2>1. n \in 1..Len(g)
    BY <1>1, <1>2, EmptySeq DEF HistoryOK
  <2> QED
    BY <1>2, <2>1, ElementOfSeq DEF HistoryOK
<1>4. /\ last \in GrantedLease
      /\ last.owner = g[n].owner /\ last.policy = g[n].policy
      /\ last.since = g[n].since /\ last.supersedes = g[n].supersedes
      /\ last.over = IF g[n].over = 0 THEN instant ELSE g[n].over
  <2>1. /\ last = [g[n] EXCEPT !.over = IF g[n].over = 0 THEN instant ELSE g[n].over]
        /\ instant \in Nat
    BY <1>1, <1>2
  <2>2. g[n] \in GrantedLease
    BY <1>3
  <2> QED
    BY ONLY <2>1, <2>2 DEF GrantedLease
<1>5. last.over <= instant /\ last.over # 0
  BY <1>2, <1>3, <1>4
<1>6. Ended(s) = [g EXCEPT ![n] = last]
  BY <1>1 DEF Ended
<1>7. HistoryOK(Ended(s), FALSE, instant) /\ Len(Ended(s)) = n /\ Ended(s)[n] = last
  <2>1. instant \in Nat /\ n = Len(g)
    BY <1>1, <1>2
  <2>2. HistoryOK([g EXCEPT ![n] = last], FALSE, instant)
    BY <1>2, <1>4, <1>5, <2>1, LastChanges
  <2>3. Len([g EXCEPT ![n] = last]) = n /\ [g EXCEPT ![n] = last][n] = last
    BY <1>2, <1>4, <1>5, <2>1, LastChanges
  <2> QED
    BY <1>6, <2>2, <2>3
<1> QED
  BY <1>1, <1>4, <1>7 DEF LastLease

\* So where no lease holds, the last one is over once it has been looked up.
LEMMA LookedUpIsOver ==
    ASSUME ManagerInv, NEW s \in Session, Vacant(s)
    PROVE  /\ HistoryOK(LookedUp(s), FALSE, instant) /\ Len(LookedUp(s)) = Len(granted[s])
           /\ granted[s] # <<>> =>
                 /\ LookedUp(s)[Len(granted[s])].owner = LastLease(s).owner
                 /\ LookedUp(s)[Len(granted[s])].policy = LastLease(s).policy
<1>1. CASE s \in inTable
  <2>1. granted[s] # <<>> /\ LookedUp(s) = Ended(s)
    BY <1>1 DEF ManagerInv, HistoryOK, LookedUp, Vacant
  <2> QED
    BY <2>1, EndedIsOver
<1>2. CASE s \notin inTable
  <2>1. LookedUp(s) = granted[s] /\ HistoryOK(granted[s], FALSE, instant)
    BY <1>2 DEF ManagerInv, HistoryOK, LookedUp
  <2> QED
    BY <2>1 DEF LastLease
<1> QED
  BY <1>1, <1>2

\* A lease that is granted begins when the one before was over.
LEMMA LeaseGranted ==
    ASSUME NEW g, NEW t \in Nat, HistoryOK(g, FALSE, t),
           NEW new \in GrantedLease, new.since = t, new.over = 0,
           new.supersedes # {} =>
               /\ g # <<>> /\ new.supersedes = {g[Len(g)].owner}
               /\ g[Len(g)].policy = new.policy /\ new.policy # "abandon"
    PROVE  HistoryOK(Append(g, new), TRUE, t)
<1>1. PICK n, h : n = Len(g) /\ h = Append(g, new)
  OBVIOUS
<1>2. g \in Seq(GrantedLease) /\ n \in Nat
  BY <1>1, LenProperties DEF HistoryOK
<1>3. /\ h \in Seq(GrantedLease) /\ Len(h) = n + 1 /\ h # <<>>
      /\ h[n + 1] = new /\ \A j \in 1..n : h[j] = g[j]
  BY <1>1, <1>2, AppendProperties
<1>4. ASSUME NEW k \in 1..(n + 1) PROVE h[k].over <= t
  <2>1. CASE k = n + 1
    BY <1>3, <2>1
  <2>2. CASE k # n + 1
    <3>1. k \in 1..n
      BY <1>2, <2>2
    <3> QED
      BY <1>1, <1>3, <3>1 DEF HistoryOK
  <2> QED
    BY <2>1, <2>2
<1>5. ASSUME NEW k \in 2..(n + 1) PROVE Follows(h[k - 1], h[k])
  <2>0. k - 1 \in 1..n
    BY <1>2
  <2>1. CASE k = n + 1
    <3>1. k - 1 = n /\ n \in 1..n /\ h[k - 1] = g[n] /\ h[k] = new
      BY <1>2, <1>3, <2>0, <2>1
    <3>2. g[n].over <= t /\ g # <<>>
      BY <1>1, <1>2, <3>1 DEF HistoryOK
    <3>3. g[n].over # 0
      BY <1>1, <3>2 DEF HistoryOK
    <3>4. g[n].over \in Nat
      <4>1. g[n] \in GrantedLease
        BY <1>1, <1>2, <3>1, ElementOfSeq
      <4> QED
        BY <4>1 DEF GrantedLease
    <3> QED
      BY <1>1, <3>1, <3>2, <3>3, <3>4 DEF Follows
  <2>2. CASE k # n + 1
    <3>1. k \in 2..n /\ k \in 1..n
      BY <1>2, <2>2
    <3>2. h[k - 1] = g[k - 1] /\ h[k] = g[k]
      BY <1>3, <2>0, <3>1
    <3> QED
      BY <1>1, <3>1, <3>2 DEF HistoryOK
  <2> QED
    BY <2>1, <2>2
<1>6. HistoryOK(h, TRUE, t)
  BY <1>3, <1>4, <1>5 DEF HistoryOK
<1> QED
  BY <1>1, <1>6

\* The leases of one session change, those of the others stay.
LEMMA OneHistoryChanges ==
    ASSUME ManagerInv, NEW s \in Session, NEW g, granted' = [granted EXCEPT ![s] = g],
           HistoryOK(g, s \in inTable', instant),
           \A z \in Session \ {s} : z \in inTable' <=> z \in inTable, UNCHANGED instant
    PROVE  ManagerInv'
<1>1. granted = [z \in Session |-> granted[z]]
  BY DEF ManagerInv
<1>2. /\ granted' = [z \in Session |-> granted'[z]] /\ granted'[s] = g
      /\ \A z \in Session \ {s} : granted'[z] = granted[z]
  BY <1>1
<1>3. HistoryOK(g, s \in inTable', instant')
  OBVIOUS
<1>4. ASSUME NEW z \in Session \ {s} PROVE HistoryOK(granted'[z], z \in inTable', instant')
  <2>1. HistoryOK(granted[z], z \in inTable, instant)
    BY DEF ManagerInv
  <2> QED
    BY <1>2, <2>1 DEF HistoryOK
<1>5. \A z \in Session : HistoryOK(granted'[z], z \in inTable', instant')
  BY <1>2, <1>3, <1>4
<1>6. instant' \in Nat \ {0}
  BY DEF ManagerInv
<1> QED
  BY <1>2, <1>5, <1>6 DEF ManagerInv

\* current_lease.
LEMMA LookUpKeeps == ASSUME ManagerInv, NEW s \in Session, LookUp(s) PROVE ManagerInv'
<1>1. /\ inTable' = inTable \ {s} /\ UNCHANGED instant /\ Vacant(s)
      /\ granted' = [granted EXCEPT ![s] = LookedUp(s)]
  BY DEF LookUp, Vacant
<1>2. HistoryOK(LookedUp(s), FALSE, instant)
  BY <1>1, LookedUpIsOver
<1>3. HistoryOK(LookedUp(s), s \in inTable', instant)
  BY <1>1, <1>2 DEF HistoryOK
<1> QED
  BY <1>1, <1>3, OneHistoryChanges

\* release_lease and expire_lease.
LEMMA EndLeaseKeeps ==
    ASSUME ManagerInv, NEW s \in Session, NEW may, EndLease(s, may) PROVE ManagerInv'
<1>1. /\ inTable' = inTable \ {s} /\ UNCHANGED instant /\ granted[s] # <<>>
      /\ granted' = [granted EXCEPT ![s] = Ended(s)]
  BY DEF EndLease
<1>2. HistoryOK(Ended(s), FALSE, instant)
  BY <1>1, EndedIsOver
<1>3. HistoryOK(Ended(s), s \in inTable', instant)
  BY <1>1, <1>2 DEF HistoryOK
<1> QED
  BY <1>1, <1>3, OneHistoryChanges

\* renew_lease changes no lease but the last one.
LEMMA RenewLeaseKeeps ==
    ASSUME ManagerInv, NEW o \in Owner, NEW s \in Session, NEW ttl \in Ttl,
           RenewLease(o, s, ttl)
    PROVE  ManagerInv'
<1>1. PICK g, n, last : /\ g = granted[s] /\ n = Len(g)
                        /\ last = [g[n] EXCEPT !.until = instant + ttl]
  OBVIOUS
<1>2. /\ s \in inTable /\ UNCHANGED <<instant, inTable>>
      /\ granted' = [granted EXCEPT ![s] = [g EXCEPT ![n] = last]]
  BY <1>1 DEF RenewLease, Holding
<1>3. HistoryOK(g, TRUE, instant) /\ instant \in Nat /\ ttl \in Nat
  BY <1>1, <1>2, DelegateAssumption DEF ManagerInv, HistoryOK
<1>4. g # <<>> /\ n \in 1..Len(g)
  BY <1>1, <1>3, EmptySeq DEF HistoryOK
<1>5. g[n] \in GrantedLease /\ g[n].over <= instant
  BY <1>3, <1>4, ElementOfSeq DEF HistoryOK
<1>6. /\ last \in GrantedLease
      /\ last.owner = g[n].owner /\ last.policy = g[n].policy /\ last.over = g[n].over
      /\ last.since = g[n].since /\ last.supersedes = g[n].supersedes
  <2>1. last = [g[n] EXCEPT !.until = instant + ttl] /\ instant + ttl \in Nat
    BY <1>1, <1>3
  <2>2. g[n] \in GrantedLease
    BY <1>5
  <2> QED
    BY ONLY <2>1, <2>2 DEF GrantedLease
<1>7. HistoryOK([g EXCEPT ![n] = last], TRUE, instant)
  <2>1. last.over <= instant /\ n = Len(g) /\ instant \in Nat /\ TRUE \in BOOLEAN
    BY <1>1, <1>3, <1>5, <1>6
  <2> QED
    BY <1>3, <1>4, <1>6, <2>1, LastChanges
<1>8. HistoryOK([g EXCEPT ![n] = last], s \in inTable', instant)
  BY <1>2, <1>7 DEF HistoryOK
<1> QED
  BY <1>2, <1>8, OneHistoryChanges

\* A lease acquired or taken over.
LEMMA GrantInMemoryKeeps ==
    ASSUME ManagerInv, NEW o \in Owner, NEW s \in Session, NEW ttl \in Ttl,
           NEW policy \in {"abandon", "recoverable"}, NEW supersedes \in SUBSET Owner, Vacant(s),
           supersedes # {} =>
               /\ granted[s] # <<>> /\ supersedes = {LastLease(s).owner}
               /\ policy = LastLease(s).policy /\ policy # "abandon",
           GrantInMemory(s, NewLease(o, policy, ttl, supersedes))
    PROVE  ManagerInv'
<1>1. PICK g, new : g = LookedUp(s) /\ new = NewLease(o, policy, ttl, supersedes)
  OBVIOUS
<1>2. /\ HistoryOK(g, FALSE, instant) /\ Len(g) = Len(granted[s])
      /\ granted[s] # <<>> =>
            /\ g[Len(g)].owner = LastLease(s).owner
            /\ g[Len(g)].policy = LastLease(s).policy
  BY <1>1, LookedUpIsOver
<1>3. granted[s] # <<>> => g # <<>>
  <2>1. granted[s] \in Seq(GrantedLease)
    BY DEF ManagerInv, HistoryOK
  <2> QED
    BY <1>2, <2>1, EmptySeq
<1>4. instant \in Nat /\ ttl \in Nat
  BY DelegateAssumption DEF ManagerInv
<1>5. /\ new \in GrantedLease /\ new.since = instant /\ new.over = 0
      /\ new.supersedes = supersedes /\ new.policy = policy
  BY <1>1, <1>4 DEF NewLease, GrantedLease
<1>6. HistoryOK(Append(g, new), TRUE, instant)
  BY <1>2, <1>3, <1>4, <1>5, LeaseGranted
<1>7. /\ inTable' = inTable \cup {s} /\ UNCHANGED instant
      /\ granted' = [granted EXCEPT ![s] = Append(g, new)]
  BY <1>1 DEF GrantInMemory
<1>8. HistoryOK(Append(g, new), s \in inTable', instant)
  BY <1>6, <1>7 DEF HistoryOK
<1> QED
  BY <1>7, <1>8, OneHistoryChanges

\* acquire_lease.
LEMMA AcquireInMemoryKeeps ==
    ASSUME ManagerInv, NEW o \in Owner, NEW s \in Session, NEW ttl \in Ttl,
           NEW policy \in {"abandon", "recoverable"}, AcquireInMemory(o, s, policy, ttl)
    PROVE  ManagerInv'
  BY GrantInMemoryKeeps DEF AcquireInMemory

\* take_over: the owner and the policy are those of the lease before.
LEMMA TakeOverKeeps ==
    ASSUME ManagerInv, NEW o \in Owner, NEW s \in Session, NEW ttl \in Ttl, TakeOver(o, s, ttl)
    PROVE  ManagerInv'
<1>1. /\ Vacant(s) /\ granted[s] # <<>> /\ LastLease(s).policy # "abandon"
      /\ GrantInMemory(s, NewLease(o, LastLease(s).policy, ttl, {LastLease(s).owner}))
  BY DEF TakeOver
<1>2. LastLease(s) \in GrantedLease
  <2>1. granted[s] \in Seq(GrantedLease) /\ Len(granted[s]) \in 1..Len(granted[s])
    BY <1>1, EmptySeq DEF ManagerInv, HistoryOK
  <2> QED
    BY <2>1, ElementOfSeq DEF LastLease
<1>3. /\ LastLease(s).policy \in {"abandon", "recoverable"}
      /\ {LastLease(s).owner} \in SUBSET Owner
  BY <1>2 DEF GrantedLease
<1> QED
  BY <1>1, <1>3, GrantInMemoryKeeps

\* No lease has been granted.
LEMMA ManagerInitial == ManagerInit => ManagerInv
<1> SUFFICES ASSUME ManagerInit PROVE ManagerInv
  OBVIOUS
<1>1. \A s \in Session : granted[s] = <<>> /\ s \notin inTable
  BY DEF ManagerInit
<1>2. HistoryOK(<<>>, FALSE, instant)
  BY DEF HistoryOK
<1>3. \A s \in Session : HistoryOK(granted[s], s \in inTable, instant)
  BY <1>1, <1>2 DEF HistoryOK
<1> QED
  BY <1>3 DEF ManagerInit, ManagerInv

\* Every operation of the manager, and its clock, keep it.
LEMMA ManagerStep == ManagerInv /\ [ManagerNext]_managerVars => ManagerInv'
<1> SUFFICES ASSUME ManagerInv, [ManagerNext]_managerVars PROVE ManagerInv'
  OBVIOUS
<1>1. ASSUME NEW s \in Session, LookUp(s) \/ ExpireLease(s) PROVE ManagerInv'
  BY <1>1, LookUpKeeps, EndLeaseKeeps DEF ExpireLease
<1>2. ASSUME NEW s \in Session, NEW o \in Owner, ReleaseLease(o, s) PROVE ManagerInv'
  BY <1>2, EndLeaseKeeps DEF ReleaseLease
<1>3. ASSUME NEW s \in Session, NEW o \in Owner, NEW ttl \in Ttl,
             \/ RenewLease(o, s, ttl) \/ TakeOver(o, s, ttl)
             \/ \E policy \in {"abandon", "recoverable"} : AcquireInMemory(o, s, policy, ttl)
      PROVE  ManagerInv'
  BY <1>3, RenewLeaseKeeps, TakeOverKeeps, AcquireInMemoryKeeps
<1>4. ASSUME instant' = instant + 1 \/ UNCHANGED instant, UNCHANGED <<inTable, granted>>
      PROVE  ManagerInv'
  <2>1. instant \in Nat \ {0} /\ instant' \in Nat \ {0} /\ instant <= instant'
    BY <1>4 DEF ManagerInv
  <2>2. ASSUME NEW s \in Session PROVE HistoryOK(granted[s], s \in inTable, instant')
    <3>1. HistoryOK(granted[s], s \in inTable, instant)
      BY DEF ManagerInv
    <3>2. \A k \in 1..Len(granted[s]) : granted[s][k].over \in Nat
      <4>1. \A k \in 1..Len(granted[s]) : granted[s][k] \in GrantedLease
        BY <3>1, ElementOfSeq DEF HistoryOK
      <4> QED
        BY <4>1 DEF GrantedLease
    <3>3. \A k \in 1..Len(granted[s]) : granted[s][k].over <= instant'
      BY <2>1, <3>1, <3>2 DEF HistoryOK
    <3> QED
      BY <3>1, <3>3 DEF HistoryOK
  <2> QED
    BY <1>4, <2>1, <2>2 DEF ManagerInv
<1> QED
  BY <1>1, <1>2, <1>3, <1>4 DEF ManagerNext, managerVars

\* What the run checks of leases in memory follows.
LEMMA ManagerPromises == ManagerInv => LeasesFollowOneAnother
  BY DEF ManagerInv, HistoryOK, Follows, LeasesFollowOneAnother

-----------------------------------------------------------------------------
(* All of them *)

ChangesInv == ActionInv /\ SessionsInv /\ ManagerInv

\* All three start within their invariants.
LEMMA ChangesInitial == ChangesInit => ChangesInv
  BY ActionInitial, SessionsInitial, ManagerInitial DEF ChangesInit, ChangesInv

\* A step of all components is a step or a stutter of each.
LEMMA EachMovesOrStays ==
    ASSUME [ChangesNext]_ChangesVars
    PROVE  [ActionNext]_actionVars /\ [DelegateNext]_delegateVars /\ [ManagerNext]_managerVars
<1>1. CASE ChangesNext
  BY <1>1 DEF ChangesNext
<1>2. CASE UNCHANGED ChangesVars
  BY <1>2 DEF ChangesVars
<1> QED
  BY <1>1, <1>2

\* A step of one component keeps its own invariant and touches no other's.
LEMMA ChangesStep == ChangesInv /\ [ChangesNext]_ChangesVars => ChangesInv'
  BY EachMovesOrStays, ActionStep, SessionsStep, ManagerStep DEF ChangesInv

\* The inductive invariant of actions, sessions and leases holds, for every set of
\* actions, owners and sessions.
THEOREM ChangesInvariant == ChangesSpec => []ChangesInv
  BY ChangesInitial, ChangesStep, PTL DEF ChangesSpec

\* No effect of a tool that has the action service without the approval its tier
\* asks for and without its flag, however operators, the policy, a retry, a crash,
\* failing writes and tools without the service fall together; a running action is
\* in somebody's hands, and a reverted one has left nothing.
THEOREM EffectsAreAlwaysAccounted == ChangesSpec => []EffectsAreAccounted
<1>1. ChangesInv => EffectsAreAccounted
  BY ActionPromises DEF ChangesInv, EffectsAreAccounted
<1> QED
  BY <1>1, ChangesInvariant, PTL

\* A running session has its one lease and a superseded one its successor, for any
\* number of owners, and the leases in memory follow one another.
THEOREM SessionsAreAlwaysContinued == ChangesSpec => []SessionsAreContinued
<1>1. ChangesInv => SessionsAreContinued
  BY SessionsPromises, ManagerPromises DEF ChangesInv, SessionsAreContinued
<1> QED
  BY <1>1, ChangesInvariant, PTL

\* What may not be taken back is not: no retry follows an effect of a tool that has
\* the action service, an action that was rejected, skipped, reverted or failed
\* stays so, and a finished session finished.
THEOREM ChangesAlwaysStand == ChangesSpec => ChangesStand
<1>1. ASSUME ChangesInv, [ChangesNext]_ChangesVars
      PROVE  \A a \in Wired : attempt'[TaskOf[a]] = "second" /\ attempt[TaskOf[a]] = "first"
                               => a \notin effects
  BY <1>1, EachMovesOrStays, RetriedAreUntouched DEF ChangesInv
<1>2. ASSUME ChangesInv, [ChangesNext]_ChangesVars
      PROVE  \A a \in Act : action[a].status \in {"rejected", "skipped", "reverted", "failed"}
                               => action'[a].status = action[a].status
  BY <1>2, EachMovesOrStays, DecisionsAreKept DEF ChangesInv
<1>3. ASSUME ChangesInv, [ChangesNext]_ChangesVars
      PROVE  \A s \in Session \ overlapped' : session[s].status \in Terminal
                               => session'[s].status = session[s].status
  BY <1>3, EachMovesOrStays, FinishedAreKept DEF ChangesInv
<1>4. ChangesInv /\ [ChangesNext]_ChangesVars =>
         [\A a \in Wired : attempt'[TaskOf[a]] = "second" /\ attempt[TaskOf[a]] = "first"
                            => a \notin effects]_actionVars
  BY <1>1
<1>5. ChangesInv /\ [ChangesNext]_ChangesVars =>
         [\A a \in Act : action[a].status \in {"rejected", "skipped", "reverted", "failed"}
                            => action'[a].status = action[a].status]_actionVars
  BY <1>2
<1>6. ChangesInv /\ [ChangesNext]_ChangesVars =>
         [\A s \in Session \ overlapped' : session[s].status \in Terminal
                            => session'[s].status = session[s].status]_delegateVars
  BY <1>3
<1>7. ChangesSpec => RetriedIsUntouched
  BY <1>4, ChangesInvariant, PTL DEF ChangesSpec, RetriedIsUntouched
<1>8. ChangesSpec => DecisionsStand
  BY <1>5, ChangesInvariant, PTL DEF ChangesSpec, DecisionsStand
<1>9. ChangesSpec => FinishedStaysFinished
  BY <1>6, ChangesInvariant, PTL DEF ChangesSpec, FinishedStaysFinished
<1> QED
  BY <1>7, <1>8, <1>9 DEF ChangesStand

=============================================================================
