----------------------------- MODULE MCChanges -----------------------------
(***************************************************************************)
(* Instances for TLC of the components in which agents change things:      *)
(* actions and their approval, delegate sessions and their leases, the     *)
(* executor of issues, the agent loop, and the guard and shepherd of pull  *)
(* requests.  They share no state, so a behaviour picks one and the others *)
(* stay as they start.                                                     *)
(***************************************************************************)
EXTENDS ActionLifecycle, DelegateSessions, IssueRun, AgentLoop, MergeGuard,
        TLC

CONSTANTS a1, a2, a3, a4, x1, f1, s1, s2, o1, o2, t1, t2, l1, l2

VARIABLE active   \* the component that moves

ChangesVars ==
    <<active, actionVars, delegateVars, managerVars, issueVars, agentVars,
      localVars, mergeVars, patchVars>>

\* One task and one file: a write, an action the service carries out, and commands.
MCTaskOf == [a \in Act |-> x1]
MCFileOf == [a \in Act |-> f1]
MCToolOf == [a \in Act |-> CASE a = a1 -> "write_file" [] a = a2 -> "service" [] OTHER -> "run_bash"]

\* A session gets two leases, its successor one.
MCMaxLeases == [s \in Session |-> IF s = s1 THEN 2 ELSE 1]

\* An odd and an even number of messages to keep.
MCKeepRecent == [l \in Loop |-> IF l = l1 THEN 1 ELSE 2]

ChangesInit ==
    /\ active \in {"actions", "sessions", "leases", "issue", "loop", "local",
                  "merge", "patch"}
    /\ active # "actions" => /\ tier = "full-auto"
                              /\ tree = [f \in File |-> "absent"]
    /\ active # "merge" => pull = NewPull
    /\ active # "patch" => format = "udiff"
    /\ ActionInit /\ DelegateInit /\ ManagerInit /\ IssueInit
    /\ AgentInit /\ LocalInit /\ MergeInit /\ PatchInit

ChangesNext ==
    /\ UNCHANGED active
    /\ \/ active = "actions" /\ ActionNext
          /\ UNCHANGED <<delegateVars, managerVars, issueVars, agentVars,
                         localVars, mergeVars, patchVars>>
       \/ active = "sessions" /\ DelegateNext
          /\ UNCHANGED <<actionVars, managerVars, issueVars, agentVars,
                         localVars, mergeVars, patchVars>>
       \/ active = "leases" /\ ManagerNext
          /\ UNCHANGED <<actionVars, delegateVars, issueVars, agentVars,
                         localVars, mergeVars, patchVars>>
       \/ active = "issue" /\ IssueNext
          /\ UNCHANGED <<actionVars, delegateVars, managerVars, agentVars,
                         localVars, mergeVars, patchVars>>
       \/ active = "loop" /\ AgentNext
          /\ UNCHANGED <<actionVars, delegateVars, managerVars, issueVars,
                         localVars, mergeVars, patchVars>>
       \/ active = "local" /\ LocalNext
          /\ UNCHANGED <<actionVars, delegateVars, managerVars, issueVars,
                         agentVars, mergeVars, patchVars>>
       \/ active = "merge" /\ MergeNext
          /\ UNCHANGED <<actionVars, delegateVars, managerVars, issueVars,
                         agentVars, localVars, patchVars>>
       \/ active = "patch" /\ PatchNext
          /\ UNCHANGED <<actionVars, delegateVars, managerVars, issueVars,
                         agentVars, localVars, mergeVars>>

ChangesSpec == ChangesInit /\ [][ChangesNext]_ChangesVars

Symmetry == Permutations(Owner)

-----------------------------------------------------------------------------
\* Every variable of these components keeps its type.
ChangesTypeOK ==
    /\ ActionTypeOK /\ DelegateTypeOK /\ IssueTypeOK /\ AgentTypeOK
    /\ LocalTypeOK /\ MergeTypeOK /\ PatchTypeOK

\* action_service.py and action_policy.py: a tool that has the action service and
\* its task's id writes no file and runs no command without the approval its tier
\* asks for, each such effect has raised the task's side-effect flag, an action
\* that is running is in somebody's hands, and what a reverted action wrote is
\* gone, whatever tools without the service do to the same file meanwhile.
EffectsAreAccounted ==
    /\ EffectIsPermitted /\ EffectIsFlagged
    /\ RunningIsAccountedFor /\ RevertedIsUndone

\* delegate_lifecycle.py: a running session has its lease unless it was cut or
\* two owners were at it, one that was superseded is continued by another, and
\* the leases of a session in memory follow one another.
SessionsAreContinued ==
    RunningHasItsLease /\ SupersededIsContinued /\ LeasesFollowOneAnother

\* gh/executor.py, the agent loops, automerge_guard.py, diff_formats.py: what is
\* pushed has passed the tests of its own tree, every tool call of an agent is
\* answered in order and its loop goes one turn beyond the budget at most, no pull
\* request is merged, armed or left unreported past the guard's word, and the
\* edits read from an answer are those written in it.
ChangesAreJudged ==
    /\ PushedIsTested /\ CallsAreAnswered /\ LocalCallsAreAnswered /\ OneTurnBeyond
    /\ GuardKeepsItsWord /\ ReadAsWritten /\ DamageIsRefused

\* No task is tried again after a tool with the action service did something, a
\* decision over an action is not taken back, and a session that is over stays
\* over unless two owners were at it.
ChangesStand == RetriedIsUntouched /\ DecisionsStand /\ FinishedStaysFinished
=============================================================================
