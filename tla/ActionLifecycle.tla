--------------------------- MODULE ActionLifecycle ---------------------------
(***************************************************************************)
(* Reviewable side effects: a tool proposes an action, the policy or an     *)
(* operator decides it, the tool carries it out and records the outcome     *)
(* (core/actions.py, action_policy.py, action_service.py, action_store.py,  *)
(* reverter.py, tools/builtins.py, api/routes/actions.py).                  *)
(*                                                                         *)
(* Each write of the action store is one step, a compare-and-set on the     *)
(* status under the store's lock.  A tool call is a sequence of such steps  *)
(* between which operators decide, the stall watchdog gives the task a new  *)
(* attempt, writes fail and the daemon crashes.  What an action does is its *)
(* mark on a file; a command has no file that could be restored.            *)
(*                                                                         *)
(* All of this holds of a tool that was built with the action service and   *)
(* with the id of its task.  One built without them does its work at once,  *)
(* and that is what the agent loops and the MCP server of the repository    *)
(* build: Wired says which calls are of the first kind.                     *)
(***************************************************************************)
EXTENDS Naturals

CONSTANTS
    Act,          \* actions, one tool call each
    ActTask,      \* the tasks they belong to
    File,         \* files of the workspace
    TaskOf,       \* [Act -> ActTask]
    ToolOf,       \* [Act -> {"write_file", "edit_file", "run_bash", "service"}]
    FileOf,       \* [Act -> File]
    OutOfBounds,  \* actions outside the workspace or with a denied command
    DryRun,       \* actions proposed with dry_run
    Wired,        \* actions whose tool has the action service and its task's id
    Tiers,        \* values of tools.approval_tier to start from
    MaxMishaps    \* bound: failed writes, crashes and cancelled runs

ASSUME ActionAssumption ==
    /\ TaskOf \in [Act -> ActTask]
    /\ ToolOf \in [Act -> {"write_file", "edit_file", "run_bash", "service"}]
    /\ FileOf \in [Act -> File]
    /\ OutOfBounds \subseteq Act
    /\ DryRun \subseteq Act
    /\ Wired \subseteq Act
    /\ \A a \in Act : ToolOf[a] = "service" => a \in Wired
    /\ Tiers \subseteq {"suggest", "auto-edit", "full-auto"}
    /\ {"original", "absent", "none"} \cap Act = {}
    /\ MaxMishaps \in Nat

VARIABLES
    tier,       \* the approval mode of this daemon
    action,     \* the rows of the action store: status and who approved
    call,       \* where each tool call is
    flagged,    \* tasks with side_effects_started, in memory and on disk
    attempt,    \* the run of each task: its first or second, or none any more
    tree,       \* who wrote the present content of each file
    inverse,    \* the content an applied action keeps for its reversal
    held,       \* applied actions whose Action object a reverter holds
    restored,   \* actions whose inverse a reverter has written
    effects,    \* history: actions that took effect
    cut,        \* history: calls that ended in an exception or a crash
    unsaved,    \* history: tasks whose flag could not be written
    mishaps     \* history: mishaps so far

actionLedger == <<action, call, flagged>>
actionHistory == <<effects, cut, unsaved, mishaps>>
workspace == <<tree, inverse, held, restored>>
actionVars == <<tier, actionLedger, attempt, workspace, actionHistory>>

-----------------------------------------------------------------------------
(* The policy *)

ActionStatus == {"none", "proposed", "approved", "rejected", "running",
                 "applied", "failed", "reverted", "skipped"}

\* Mutated form of NextStatuses: a decision may be taken back.
NextStatusesLoose(s) ==
    CASE s = "proposed" -> {"approved", "rejected", "skipped"}
      [] s = "approved" -> {"running", "skipped"}
      [] s = "rejected" -> {"approved"}
      [] s = "running" -> {"applied", "failed"}
      [] s = "applied" -> {"reverted"}
      [] OTHER -> {}
NextStatuses(s) ==
    CASE s = "proposed" -> {"approved", "rejected", "skipped"}
      [] s = "approved" -> {"running", "skipped"}
      [] s = "running" -> {"applied", "failed"}
      [] s = "applied" -> {"reverted"}
      [] OTHER -> {}

EditsFiles(a) == ToolOf[a] \in {"write_file", "edit_file"}
Allowed(a) == a \notin OutOfBounds
RequiresApproval(a) ==
    \/ a \in OutOfBounds
    \/ a \in DryRun
    \/ tier = "suggest"
    \/ tier = "auto-edit" /\ ~EditsFiles(a)

-----------------------------------------------------------------------------
(* The action store *)

May(a, s) == s \in NextStatuses(action[a].status)
Put(a, s) == action' = [action EXCEPT ![a].status = s]
Approve(a, who) == action' = [action EXCEPT ![a] = [status |-> "approved", by |-> who]]

Mishap == mishaps < MaxMishaps /\ mishaps' = mishaps + 1

\* The tool's call is at stage s and goes on to stage s2.
At(a, s) == call[a] = s
GoTo(a, s) == call' = [call EXCEPT ![a] = s]

\* The call of a ends with an exception: nothing more is written.
CutOff(a) ==
    /\ GoTo(a, "over")
    /\ cut' = cut \cup {a}
    /\ UNCHANGED action

-----------------------------------------------------------------------------
(* A tool call *)

Propose(a) ==
    /\ At(a, "idle")
    /\ a \in Wired
    /\ attempt[TaskOf[a]] # "none"
    /\ action' = [action EXCEPT ![a].status = "proposed"]
    /\ GoTo(a, "proposed")
    /\ UNCHANGED <<tier, flagged, attempt, workspace, actionHistory>>

\* What may not run is skipped by a builtin tool, and left for an operator by
\* propose_and_maybe_run, which looks at requires_approval first.
EndsProposed(a) == RequiresApproval(a) /\ (Allowed(a) \/ ToolOf[a] = "service")

LeavePending(a) ==
    /\ At(a, "proposed")
    /\ EndsProposed(a)
    /\ GoTo(a, "over")
    /\ UNCHANGED <<tier, action, flagged, attempt, workspace, actionHistory>>

Skip(a) ==
    /\ At(a, "proposed")
    /\ ~Allowed(a) /\ ~EndsProposed(a)
    /\ \/ May(a, "skipped") /\ Put(a, "skipped") /\ GoTo(a, "over") /\ UNCHANGED cut
       \/ ~May(a, "skipped") /\ CutOff(a)
    /\ UNCHANGED <<tier, flagged, attempt, workspace, effects, unsaved, mishaps>>

\* Mutated form of AutoApprove: an operator's decision is not looked at.
AutoApproveBlind(a) ==
    /\ At(a, "proposed")
    /\ ~RequiresApproval(a)
    /\ Approve(a, "policy")
    /\ GoTo(a, "approved")
    /\ UNCHANGED <<tier, flagged, attempt, workspace, actionHistory>>
\* The policy approves, unless an operator was faster.
AutoApprove(a) ==
    /\ At(a, "proposed")
    /\ ~RequiresApproval(a)
    /\ \/ May(a, "approved") /\ Approve(a, "policy") /\ GoTo(a, "approved") /\ UNCHANGED cut
       \/ ~May(a, "approved") /\ CutOff(a)
    /\ UNCHANGED <<tier, flagged, attempt, workspace, effects, unsaved, mishaps>>

MarkRunning(a) ==
    /\ At(a, "approved")
    /\ May(a, "running")
    /\ Put(a, "running")
    /\ GoTo(a, "marked")
    /\ UNCHANGED <<tier, flagged, attempt, workspace, actionHistory>>

\* Mutated form of RaiseFlag: the flag stays in memory.
RaiseFlagInMemory(a) ==
    /\ At(a, "marked")
    /\ flagged' = [flagged EXCEPT !.memory = @ \cup {TaskOf[a]}]
    /\ GoTo(a, "ready")
    /\ UNCHANGED <<tier, action, attempt, workspace, actionHistory>>
\* on_side_effect_started: the task's flag is raised and saved once.
RaiseFlag(a) ==
    /\ At(a, "marked")
    /\ \/ /\ TaskOf[a] \in flagged.memory
          /\ UNCHANGED <<flagged, cut, unsaved, mishaps>>
          /\ GoTo(a, "ready")
       \/ /\ TaskOf[a] \notin flagged.memory
          /\ flagged' = [memory |-> flagged.memory \cup {TaskOf[a]},
                         disk |-> flagged.disk \cup {TaskOf[a]}]
          /\ GoTo(a, "ready")
          /\ UNCHANGED <<cut, unsaved, mishaps>>
       \/ /\ TaskOf[a] \notin flagged.memory
          /\ Mishap
          /\ flagged' = [flagged EXCEPT !.memory = @ \cup {TaskOf[a]}]
          /\ unsaved' = unsaved \cup {TaskOf[a]}
          /\ GoTo(a, "over")
          /\ cut' = cut \cup {a}
    /\ UNCHANGED <<tier, action, attempt, workspace, effects>>

\* The file is replaced, or the command is run: its own failure is known only
\* after it had its effect.
TakeEffect(a) ==
    /\ At(a, "ready")
    /\ effects' = effects \cup {a}
    /\ tree' = [tree EXCEPT ![FileOf[a]] = a]
    /\ inverse' = IF EditsFiles(a) THEN [inverse EXCEPT ![a] = tree[FileOf[a]]] ELSE inverse
    /\ \/ GoTo(a, "done")
       \/ ToolOf[a] \in {"run_bash", "service"} /\ GoTo(a, "broken")
    /\ UNCHANGED <<tier, action, flagged, attempt, held, restored, cut, unsaved, mishaps>>

\* The replacement of the file, or the executor, fails before it did anything.
FailEffect(a) ==
    /\ At(a, "ready")
    /\ Mishap
    /\ GoTo(a, "broken")
    /\ UNCHANGED <<tier, action, flagged, attempt, workspace, effects, cut, unsaved>>

\* An edit needs the file, checked before it is proposed; a write that cannot
\* read or prepare its target raises outside the handler that would record it,
\* and a direct call has nothing to record.
RaiseUnhandled(a) ==
    /\ call[a] \in {"ready", "direct"}
    /\ ToolOf[a] # "service"
    /\ Mishap
    /\ CutOff(a)
    /\ UNCHANGED <<tier, flagged, attempt, workspace, effects, unsaved>>

MarkApplied(a) ==
    /\ At(a, "done")
    /\ May(a, "applied")
    /\ Put(a, "applied")
    /\ GoTo(a, "over")
    /\ UNCHANGED <<tier, flagged, attempt, workspace, actionHistory>>

\* Mutated form of MarkFailed: a failed command is reported and not recorded.
MarkFailedForgotten(a) ==
    /\ At(a, "broken")
    /\ GoTo(a, "over")
    /\ UNCHANGED <<tier, action, flagged, attempt, workspace, actionHistory>>
MarkFailed(a) ==
    /\ At(a, "broken")
    /\ May(a, "failed")
    /\ Put(a, "failed")
    /\ GoTo(a, "over")
    /\ UNCHANGED <<tier, flagged, attempt, workspace, actionHistory>>

\* A write of the action store fails.  propose_and_maybe_run records the
\* failure of its last write as a failed action.
WriteFails(a) ==
    /\ call[a] \in {"proposed", "approved", "done", "broken"}
    /\ ~(At(a, "proposed") /\ EndsProposed(a))
    /\ Mishap
    /\ \/ ToolOf[a] = "service" /\ At(a, "done") /\ GoTo(a, "broken") /\ UNCHANGED <<action, cut>>
       \/ ~(ToolOf[a] = "service" /\ At(a, "done")) /\ CutOff(a)
    /\ UNCHANGED <<tier, flagged, attempt, workspace, effects, unsaved>>

-----------------------------------------------------------------------------
(* A call without the action service: not proposed, approved or flagged, and  *)
(* dry_run is not looked at                                                   *)

StartDirect(a) ==
    /\ At(a, "idle")
    /\ a \notin Wired
    /\ attempt[TaskOf[a]] # "none"
    /\ GoTo(a, "direct")
    /\ UNCHANGED <<tier, action, flagged, attempt, workspace, actionHistory>>

ActDirectly(a) ==
    /\ At(a, "direct")
    /\ effects' = effects \cup {a}
    /\ tree' = [tree EXCEPT ![FileOf[a]] = a]
    /\ GoTo(a, "acted")
    /\ UNCHANGED <<tier, action, flagged, attempt, inverse, held, restored, cut,
                   unsaved, mishaps>>

ReturnDirectly(a) ==
    /\ At(a, "acted")
    /\ GoTo(a, "over")
    /\ UNCHANGED <<tier, action, flagged, attempt, workspace, actionHistory>>

-----------------------------------------------------------------------------
(* Operators, the stall watchdog and crashes *)

OperatorApproves(a) ==
    /\ May(a, "approved")
    /\ Approve(a, "operator")
    /\ UNCHANGED <<tier, call, flagged, attempt, workspace, actionHistory>>

OperatorRejects(a) ==
    /\ May(a, "rejected")
    /\ Put(a, "rejected")
    /\ UNCHANGED <<tier, call, flagged, attempt, workspace, actionHistory>>

\* Calls that wait for something, where a cancellation lands.
Awaiting(a) ==
    /\ call[a] \in {"ready", "direct", "acted"}
    /\ ToolOf[a] \in {"run_bash", "service"}
InCall(a) == call[a] \notin {"idle", "over"}

\* Mutated form of StallRetry: the side-effect flag is not looked at.
StallRetryUnasked(t) ==
    /\ attempt[t] = "first"
    /\ \A a \in Act : TaskOf[a] = t /\ InCall(a) => Awaiting(a)
    /\ attempt' = [attempt EXCEPT ![t] = "second"]
    /\ LET stopped == {a \in Act : TaskOf[a] = t /\ Awaiting(a)}
       IN /\ call' = [a \in Act |-> IF a \in stopped THEN "over" ELSE call[a]]
          /\ cut' = cut \cup stopped
    /\ UNCHANGED <<tier, action, flagged, workspace, effects, unsaved, mishaps>>
\* A stalled run without side effects is cancelled and tried again; what it
\* was waiting for ends, sync tools run to their end first.
StallRetry(t) ==
    /\ attempt[t] = "first"
    /\ t \notin flagged.memory
    /\ \A a \in Act : TaskOf[a] = t /\ InCall(a) => Awaiting(a)
    /\ attempt' = [attempt EXCEPT ![t] = "second"]
    /\ LET stopped == {a \in Act : TaskOf[a] = t /\ Awaiting(a)}
       IN /\ call' = [a \in Act |-> IF a \in stopped THEN "over" ELSE call[a]]
          /\ cut' = cut \cup stopped
    /\ UNCHANGED <<tier, action, flagged, workspace, effects, unsaved, mishaps>>

\* An operator cancels the task while its command runs: the command may have
\* done its work or not, and nothing records it.  The run of the task is over.
CancelRun(a) ==
    /\ Awaiting(a)
    /\ Mishap
    /\ CutOff(a)
    /\ attempt' = [attempt EXCEPT ![TaskOf[a]] = "none"]
    /\ \/ effects' = effects \cup {a} /\ tree' = [tree EXCEPT ![FileOf[a]] = a]
       \/ UNCHANGED <<effects, tree>>
    /\ UNCHANGED <<tier, flagged, inverse, held, restored, unsaved>>

\* The daemon dies and starts again; running tasks come back failed, and no
\* action is touched.
ActionCrash ==
    /\ Mishap
    /\ \E a \in Act : call[a] # "idle"
    /\ call' = [a \in Act |-> IF InCall(a) THEN "over" ELSE call[a]]
    /\ cut' = cut \cup {a \in Act : InCall(a)}
    /\ flagged' = [flagged EXCEPT !.memory = flagged.disk]
    /\ held' = {}
    /\ attempt' = [t \in ActTask |-> "none"]
    /\ UNCHANGED <<tier, action, tree, inverse, restored, effects, unsaved>>

-----------------------------------------------------------------------------
(* Reversal: the object is looked at, the file restored, the row updated *)

TakeHold(a) ==
    /\ action[a].status = "applied"
    /\ EditsFiles(a)
    /\ held' = held \cup {a}
    /\ UNCHANGED <<tier, actionLedger, attempt, tree, inverse, restored, actionHistory>>

\* Mutated form of Restore: the content is not written back.
RestoreNothing(a) ==
    /\ a \in held
    /\ restored' = restored \cup {a}
    /\ UNCHANGED <<tier, actionLedger, attempt, tree, inverse, held, actionHistory>>
Restore(a) ==
    /\ a \in held
    /\ tree' = [tree EXCEPT ![FileOf[a]] = inverse[a]]
    /\ restored' = restored \cup {a}
    /\ UNCHANGED <<tier, actionLedger, attempt, inverse, held, actionHistory>>

MarkReverted(a) ==
    /\ a \in held \cap restored
    /\ May(a, "reverted")
    /\ Put(a, "reverted")
    /\ UNCHANGED <<tier, call, flagged, attempt, workspace, actionHistory>>

-----------------------------------------------------------------------------
ActionInit ==
    /\ tier \in Tiers
    /\ action = [a \in Act |-> [status |-> "none", by |-> "none"]]
    /\ call = [a \in Act |-> "idle"]
    /\ flagged = [memory |-> {}, disk |-> {}]
    /\ attempt = [t \in ActTask |-> "first"]
    /\ tree \in [File -> {"original", "absent"}]
    /\ inverse = [a \in Act |-> "none"]
    /\ held = {}
    /\ restored = {}
    /\ effects = {}
    /\ cut = {}
    /\ unsaved = {}
    /\ mishaps = 0

ToolStep(a) ==
    \/ Propose(a) \/ LeavePending(a) \/ Skip(a) \/ AutoApprove(a)
    \/ MarkRunning(a) \/ RaiseFlag(a)
    \/ TakeEffect(a) \/ FailEffect(a) \/ RaiseUnhandled(a)
    \/ MarkApplied(a) \/ MarkFailed(a) \/ WriteFails(a)
    \/ StartDirect(a) \/ ActDirectly(a) \/ ReturnDirectly(a)

ActionNext ==
    \/ \E a \in Act : ToolStep(a) \/ OperatorApproves(a) \/ OperatorRejects(a) \/ CancelRun(a)
    \/ \E a \in Act : TakeHold(a) \/ Restore(a) \/ MarkReverted(a)
    \/ \E t \in ActTask : StallRetry(t)
    \/ ActionCrash

ActionSpec == ActionInit /\ [][ActionNext]_actionVars

-----------------------------------------------------------------------------
(* Properties *)

ActionTypeOK ==
    /\ tier \in Tiers
    /\ action \in [Act -> [status : ActionStatus, by : {"none", "policy", "operator"}]]
    /\ call \in [Act -> {"idle", "proposed", "approved", "marked", "ready",
                         "done", "broken", "direct", "acted", "over"}]
    /\ flagged \in [memory : SUBSET ActTask, disk : SUBSET ActTask]
    /\ attempt \in [ActTask -> {"first", "second", "none"}]
    /\ tree \in [File -> Act \cup {"original", "absent"}]
    /\ inverse \in [Act -> Act \cup {"original", "absent", "none"}]
    /\ held \subseteq Act
    /\ restored \subseteq Act
    /\ effects \subseteq Act
    /\ cut \subseteq Act
    /\ unsaved \subseteq ActTask
    /\ mishaps \in 0..MaxMishaps

\* Nothing a wired tool does takes effect that the policy did not let pass by
\* itself: an operator's rejection or approval that races with the tool's own
\* approval stops the call, and an approval of a pending proposal carries nothing
\* out (the proposal_only contract of api/routes/actions.py).
EffectIsPermitted ==
    \A a \in effects \cap Wired :
        /\ Allowed(a)
        /\ ~RequiresApproval(a)
        /\ action[a].by = "policy"
        /\ action[a].status \in {"running", "applied", "failed", "reverted"}

\* A task whose wired tools have done something is known to have side effects in
\* memory and on disk, or writing that down was tried and failed: no crash
\* between the steps of a tool call has it look untouched.
EffectIsFlagged ==
    \A a \in effects \cap Wired : TaskOf[a] \in flagged.disk \cup unsaved

\* An action that stays RUNNING is one a tool still works on, or one whose
\* call was cut short: no orderly end of a tool leaves it open.
RunningIsAccountedFor ==
    \A a \in Act : action[a].status = "running" => InCall(a) \/ a \in cut

\* The stall watchdog never gives another attempt to a task whose wired tools
\* have done something, however the flag and the tool's steps interleave.
RetriedIsUntouched ==
    [][\A a \in Wired : attempt'[TaskOf[a]] = "second" /\ attempt[TaskOf[a]] = "first"
                       => a \notin effects]_actionVars

\* An action that was rejected, skipped or reverted stays so, whoever else was
\* about to approve or run it: only the store's table of transitions is between
\* an operator's rejection and the policy's approval of the same proposal.
DecisionsStand ==
    [][\A a \in Act : action[a].status \in {"rejected", "skipped", "reverted", "failed"}
                     => action'[a].status = action[a].status]_actionVars

\* What a reverted action wrote is gone from its file, unless a later action
\* over it was reverted after it and put it back.
RevertedIsUndone ==
    \A a \in Act : action[a].status = "reverted" /\ tree[FileOf[a]] = a
        => \E b \in restored : inverse[b] = a

-----------------------------------------------------------------------------
(* What the repository says of its actions, and runs of the tools as its agent *)
(* loops build them show otherwise.                                            *)

\* docs/reference/action-ledger.md:3-5 says of the ledger that it turns file
\* edits, shell commands and other side effects into explicit action records
\* before they can affect a workspace.
SideEffectsAreRecorded == \A a \in effects : action[a].status # "none"

\* daemon/maintenance.py:208-210 says of a stalled task that, once it has started
\* side effects, it must not be retried, for a second run would repeat them.
SideEffectsEndRetries ==
    [][\A a \in Act : attempt'[TaskOf[a]] = "second" /\ attempt[TaskOf[a]] = "first"
                     => a \notin effects]_actionVars

-----------------------------------------------------------------------------
(* Constants for TLC *)

\* Commands of one task.
OneTask == [a \in Act |-> CHOOSE x \in ActTask : TRUE]
AllCommands == [a \in Act |-> "run_bash"]
OneFile == [a \in Act |-> CHOOSE f \in File : TRUE]
=============================================================================
