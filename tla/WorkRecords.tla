----------------------------- MODULE WorkRecords -----------------------------
(***************************************************************************)
(* What a task leaves behind it: the records of work items and workspaces, *)
(* and the directory it works in with the commands of its hooks.           *)
(***************************************************************************)
EXTENDS Naturals, FiniteSets, Sequences

-----------------------------------------------------------------------------
(***************************************************************************)
(* The durable records around a task: work items (core/work_items.py,       *)
(* core/work_item_store.py and their endpoints) and workspaces with their   *)
(* checkpoints (core/workspaces.py, core/workspace_store.py).               *)
(*                                                                         *)
(* The endpoints of work items run one at a time on the daemon's loop.      *)
(* Workspaces are changed by writers with connections of their own: a       *)
(* transition reads a row and updates it if its status is still the same,   *)
(* a checkpoint is a row and then a count.  Each statement is a commit.     *)
(***************************************************************************)

CONSTANTS
    WorkItem,
    Writer,          \* connections to the one workspace's row
    MaxCheckpoints,  \* bound: checkpoints
    MaxWriterDeaths  \* bound: writers that die between two statements

ASSUME RecordsAssumption == MaxCheckpoints \in Nat /\ MaxWriterDeaths \in Nat

VARIABLES
    items,           \* the rows of work_items
    recreated,       \* history: items that were created over an old row
    workspace,       \* the row of the workspace: status and number of checkpoints
    checkpoints,     \* the number of rows of workspace_checkpoints
    writer,          \* what each writer has read
    writerDeaths     \* history: writers that died so far

recordVars == <<items, recreated, workspace, checkpoints, writer, writerDeaths>>

-----------------------------------------------------------------------------
(* Work items *)

ItemStatus ==
    {"draft", "needs_refinement", "refined", "in_progress", "blocked", "done", "cancelled"}
NoItem == [status |-> "none", criteria |-> FALSE, started |-> FALSE, completed |-> FALSE]

AllowedTransitions(status) ==
    CASE status = "draft" -> {"needs_refinement"}
      [] status = "needs_refinement" -> {"refined", "cancelled"}
      [] status = "refined" -> {"in_progress", "cancelled"}
      [] status = "in_progress" -> {"done", "blocked", "cancelled"}
      [] status = "blocked" -> {"needs_refinement", "refined", "cancelled"}
      [] OTHER -> {}

\* Mutated form of MeetsContract: validation is skipped, as model_copy does.
MeetsContractUnchecked(item) == TRUE
\* The validator of WorkItem
MeetsContract(item) ==
    /\ item.status = "refined" => item.criteria
    /\ item.status = "in_progress" => item.started
    /\ item.status = "done" => item.completed

\* The id is the client's if it gives one: a row that is there is overwritten.
CreateWorkItem(i, criteria) ==
    /\ items' = [items EXCEPT ![i] =
          [status |-> "draft", criteria |-> criteria, started |-> FALSE, completed |-> FALSE]]
    /\ recreated' = IF items[i] = NoItem THEN recreated ELSE recreated \cup {i}
    /\ UNCHANGED <<workspace, checkpoints, writer, writerDeaths>>

PatchWorkItem(i, criteria) ==
    LET patched == [items[i] EXCEPT !.criteria = criteria]
    IN /\ items[i] # NoItem
       /\ MeetsContract(patched)
       /\ items' = [items EXCEPT ![i] = patched]
       /\ UNCHANGED <<recreated, workspace, checkpoints, writer, writerDeaths>>

TransitionWorkItem(i, target) ==
    LET moved == [items[i] EXCEPT
                    !.status = target,
                    !.started = @ \/ target = "in_progress",
                    !.completed = @ \/ target \in {"done", "cancelled"}]
    IN /\ items[i] # NoItem
       /\ target \in AllowedTransitions(items[i].status)
       /\ MeetsContract(moved)
       /\ items' = [items EXCEPT ![i] = moved]
       /\ UNCHANGED <<recreated, workspace, checkpoints, writer, writerDeaths>>

-----------------------------------------------------------------------------
(* Workspaces *)

WorkspaceStatus ==
    {"creating", "ready", "dirty", "committed", "failed", "archived", "deleted"}
NoWorkspace == [status |-> "none", count |-> 0]
NoRead == [at |-> "idle", seen |-> "none", target |-> "none"]

WorkspaceTransitions(status) ==
    CASE status = "creating" -> {"ready", "failed"}
      [] status = "ready" -> {"dirty", "committed", "failed", "archived"}
      [] status = "dirty" -> {"ready", "committed", "failed", "archived"}
      [] status = "committed" -> {"dirty", "archived"}
      [] status = "failed" -> {"archived", "deleted"}
      [] status = "archived" -> {"deleted"}
      [] OTHER -> {}

\* create_session: a task has one workspace for ever, a second insert fails.
CreateWorkspace(w) ==
    /\ writer[w] = NoRead
    /\ workspace = NoWorkspace
    /\ workspace' = [status |-> "creating", count |-> 0]
    /\ UNCHANGED <<items, recreated, checkpoints, writer, writerDeaths>>

ReadWorkspace(w, target) ==
    /\ writer[w] = NoRead
    /\ workspace # NoWorkspace
    /\ target \in WorkspaceTransitions(workspace.status)
    /\ writer' = [writer EXCEPT ![w] =
                    [at |-> "update", seen |-> workspace.status, target |-> target]]
    /\ UNCHANGED <<items, recreated, workspace, checkpoints, writerDeaths>>

\* Mutated form of StillAsRead: the update names the row and not its status.
StillAsReadAnyhow(w) == TRUE
StillAsRead(w) == workspace.status = writer[w].seen

\* No row matches: "changed concurrently", and nothing is written.
UpdateWorkspace(w) ==
    /\ writer[w].at = "update"
    /\ workspace' = IF StillAsRead(w) THEN [workspace EXCEPT !.status = writer[w].target]
                    ELSE workspace
    /\ writer' = [writer EXCEPT ![w] = NoRead]
    /\ UNCHANGED <<items, recreated, checkpoints, writerDeaths>>

InsertCheckpoint(w) ==
    /\ writer[w] = NoRead
    /\ workspace # NoWorkspace
    /\ checkpoints < MaxCheckpoints
    /\ checkpoints' = checkpoints + 1
    /\ writer' = [writer EXCEPT ![w] = [NoRead EXCEPT !.at = "count"]]
    /\ UNCHANGED <<items, recreated, workspace, writerDeaths>>

\* Mutated form of CountCheckpoint: the new count is the one read before.
CountCheckpointAsRead(w) ==
    /\ writer[w].at = "count"
    /\ workspace' = [workspace EXCEPT !.count = checkpoints]
    /\ writer' = [writer EXCEPT ![w] = NoRead]
    /\ UNCHANGED <<items, recreated, checkpoints, writerDeaths>>
CountCheckpoint(w) ==
    /\ writer[w].at = "count"
    /\ workspace' = [workspace EXCEPT !.count = @ + 1]
    /\ writer' = [writer EXCEPT ![w] = NoRead]
    /\ UNCHANGED <<items, recreated, checkpoints, writerDeaths>>

WriterDies(w) ==
    /\ writer[w] # NoRead
    /\ writerDeaths < MaxWriterDeaths
    /\ writer' = [writer EXCEPT ![w] = NoRead]
    /\ writerDeaths' = writerDeaths + 1
    /\ UNCHANGED <<items, recreated, workspace, checkpoints>>

-----------------------------------------------------------------------------
RecordsInit ==
    /\ items = [i \in WorkItem |-> NoItem]
    /\ recreated = {}
    /\ workspace = NoWorkspace
    /\ checkpoints = 0
    /\ writer = [w \in Writer |-> NoRead]
    /\ writerDeaths = 0

ItemsNext ==
    \E i \in WorkItem :
       \/ \E criteria \in BOOLEAN : CreateWorkItem(i, criteria) \/ PatchWorkItem(i, criteria)
       \/ \E target \in ItemStatus : TransitionWorkItem(i, target)

WriterNext ==
    \E w \in Writer :
       \/ CreateWorkspace(w) \/ UpdateWorkspace(w)
       \/ \E target \in WorkspaceStatus : ReadWorkspace(w, target)
       \/ InsertCheckpoint(w) \/ CountCheckpoint(w) \/ WriterDies(w)

RecordsNext == ItemsNext \/ WriterNext

RecordsSpec == RecordsInit /\ [][RecordsNext]_recordVars

-----------------------------------------------------------------------------
(* Properties *)

RecordsTypeOK ==
    /\ \A i \in WorkItem : items[i].status \in ItemStatus \cup {"none"}
    /\ recreated \subseteq WorkItem
    /\ workspace.status \in WorkspaceStatus \cup {"none"}
    /\ workspace.count \in 0..MaxCheckpoints
    /\ checkpoints \in 0..MaxCheckpoints
    /\ \A w \in Writer : writer[w].at \in {"idle", "update", "count"}
    /\ writerDeaths \in 0..MaxWriterDeaths

\* Every row of work_items can be read back: its values pass the validator,
\* which would otherwise fail every listing that meets the row.
RowsCanBeRead ==
    \A i \in WorkItem : items[i] # NoItem =>
        /\ items[i].status = "refined" => items[i].criteria
        /\ items[i].status = "in_progress" => items[i].started
        /\ items[i].status = "done" => items[i].completed

\* The count of checkpoints is right up to those whose writer is between the row
\* and the count, or died there.
CheckpointsAreCounted ==
    /\ workspace.count + Cardinality({w \in Writer : writer[w].at = "count"}) <= checkpoints
    /\ checkpoints <= workspace.count + writerDeaths
                        + Cardinality({w \in Writer : writer[w].at = "count"})

\* A workspace's status moves along the table, whatever other writers change
\* between the read and the update.
WorkspaceMovesAlongTable ==
    [][workspace'.status # workspace.status /\ workspace # NoWorkspace =>
          workspace'.status \in WorkspaceTransitions(workspace.status)]_recordVars

\* docs/architecture/work-items.md:18: "Invalid transitions are rejected by the
\* model/store boundary."
InvalidTransitionsAreRejected ==
    [][\A i \in WorkItem :
          items'[i].status # items[i].status /\ items[i] # NoItem =>
              items'[i].status \in AllowedTransitions(items[i].status)]_recordVars

-----------------------------------------------------------------------------
(***************************************************************************)
(* The directory of a task and the commands that a repository has run in it: *)
(* after_create once it is cloned, before_run and after_run around each run, *)
(* before_remove when an old directory is cleaned up (daemon/worker.py,      *)
(* gh/workspace.py, daemon/workspace_hooks.py).                              *)
(*                                                                         *)
(* The hooks of a directory are read anew each time, from a file in it: they *)
(* are {}, or {h} where h is how many commands each kind of hook has.        *)
(***************************************************************************)

CONSTANTS HookTask,      \* tasks that run in a clone of their own
          LocalTask,     \* tasks that run in the repository's configured path
          HookFile,      \* hooks that a directory may hold
          GlobalHooks,   \* the daemon's, for a directory that has none or a broken file
          MaxRuns        \* bound: attempts of each task

VARIABLES directory,   \* of each task: whether it is there, its hooks, and (history)
                       \* whether its after_create commands all succeeded
          lifeStep,        \* of each task: what is done, and the command that is next
          runs,        \* history: attempts of each task
          ran,         \* history: the commands of this attempt, and whether each succeeded
          runOutcome      \* of the last attempt

lifeVars == <<directory, lifeStep, runs, ran, runOutcome>>

Tasks == HookTask \cup LocalTask
Kind == {"after_create", "before_run", "after_run", "before_remove"}
Gone == [there |-> FALSE, hooks |-> {}, prepared |-> FALSE]
AtStage(stage) == [stage |-> stage, command |-> 1]

LifeInit ==
    /\ directory \in [Tasks -> {Gone} \cup
                         [there : {TRUE}, hooks : HookFile, prepared : {TRUE}]]
    /\ \A t \in Tasks : directory[t].there <=> t \in LocalTask
    /\ lifeStep = [t \in Tasks |-> AtStage("idle")] /\ runs = [t \in Tasks |-> 0]
    /\ ran = [t \in Tasks |-> <<>>] /\ runOutcome = [t \in Tasks |-> "none"]

-----------------------------------------------------------------------------
\* load_hooks_config: the file of the directory, or the daemon's hooks where it has some
\* and the caller passes them on, which ensure_clone and cleanup_old do not.
HooksOf(t, kind) ==
    IF directory[t].hooks # {} THEN (CHOOSE h \in directory[t].hooks : TRUE)[kind]
    ELSE IF kind \in {"before_run", "after_run"} THEN GlobalHooks[kind] ELSE 0

Fatal(kind) == kind \in {"after_create", "before_run"}

BeginAttempt(t) ==
    /\ lifeStep[t].stage = "idle" /\ runs[t] < MaxRuns
    /\ runs' = [runs EXCEPT ![t] = @ + 1]
    /\ ran' = [ran EXCEPT ![t] = <<>>]
    /\ runOutcome' = [runOutcome EXCEPT ![t] = "none"]
    /\ lifeStep' = [lifeStep EXCEPT ![t] = AtStage(IF t \in LocalTask THEN "before_run" ELSE "clone")]
    /\ UNCHANGED directory

\* ensure_clone: a clone that is there is fetched, and is taken as it is; another is
\* cloned, and its after_create commands are run.
Fetch(t) ==
    /\ lifeStep[t].stage = "clone" /\ directory[t].there
    /\ lifeStep' = [lifeStep EXCEPT ![t] = AtStage("before_run")]
    /\ UNCHANGED <<directory, runs, ran, runOutcome>>

Clone(t) ==
    /\ lifeStep[t].stage = "clone" /\ ~directory[t].there
    /\ \E file \in HookFile :
          directory' = [directory EXCEPT ![t] =
                           [there |-> TRUE, hooks |-> file, prepared |-> FALSE]]
    /\ lifeStep' = [lifeStep EXCEPT ![t] = AtStage("after_create")]
    /\ UNCHANGED <<runs, ran, runOutcome>>

\* git fails: _execute has no path, and runs no hooks.
CloneFails(t) ==
    /\ lifeStep[t].stage = "clone"
    /\ lifeStep' = [lifeStep EXCEPT ![t] = AtStage("idle")]
    /\ runOutcome' = [runOutcome EXCEPT ![t] = "failed"]
    /\ UNCHANGED <<directory, runs, ran>>

-----------------------------------------------------------------------------
\* execute_hooks: the commands of a hook one after the other.
Hooking(t) == lifeStep[t].stage \in Kind
Left(t) == Hooking(t) /\ lifeStep[t].command <= HooksOf(t, lifeStep[t].stage)
Noted(t, ok) == Append(ran[t], [kind |-> lifeStep[t].stage, ok |-> ok])

CommandSucceeds(t) ==
    /\ Left(t)
    /\ ran' = [ran EXCEPT ![t] = Noted(t, TRUE)]
    /\ lifeStep' = [lifeStep EXCEPT ![t].command = @ + 1]
    /\ UNCHANGED <<directory, runs, runOutcome>>

\* One that exits otherwise, does not parse, does not start or is killed for its time: if
\* the hook is fatal the attempt fails, and after_run follows if there is a path to it.
StageAfter(kind, ok) ==
    CASE kind = "after_create" -> IF ok THEN "before_run" ELSE "idle"
      [] kind = "before_run" -> IF ok THEN "run" ELSE "after_run"
      [] kind \in {"after_run", "before_remove"} -> "idle"

\* Mutated form of StageAfter: a failed before_run is passed over.
StageAfterAnyhow(kind, ok) ==
    CASE kind = "after_create" -> IF ok THEN "before_run" ELSE "idle"
      [] kind = "before_run" -> "run"
      [] kind \in {"after_run", "before_remove"} -> "idle"

CommandFails(t) ==
    /\ Left(t)
    /\ ran' = [ran EXCEPT ![t] = Noted(t, FALSE)]
    /\ IF Fatal(lifeStep[t].stage)
       THEN /\ lifeStep' = [lifeStep EXCEPT ![t] = AtStage(StageAfter(lifeStep[t].stage, FALSE))]
            /\ runOutcome' = [runOutcome EXCEPT ![t] = "failed"]
       ELSE /\ lifeStep' = [lifeStep EXCEPT ![t].command = @ + 1]
            /\ UNCHANGED runOutcome
    /\ UNCHANGED <<directory, runs>>

HookEnds(t) ==
    /\ Hooking(t) /\ ~Left(t)
    /\ lifeStep' = [lifeStep EXCEPT ![t] = AtStage(StageAfter(lifeStep[t].stage, TRUE))]
    /\ directory' = CASE lifeStep[t].stage = "after_create" ->
                            [directory EXCEPT ![t].prepared = TRUE]
                      [] lifeStep[t].stage = "before_remove" -> [directory EXCEPT ![t] = Gone]
                      [] OTHER -> directory
    /\ UNCHANGED <<runs, ran, runOutcome>>

\* The run itself, which may rewrite the directory's hooks, and fail.
RunEnds(t) ==
    /\ lifeStep[t].stage = "run"
    /\ \E file \in HookFile \cup {directory[t].hooks} :
          directory' = [directory EXCEPT ![t].hooks = file]
    /\ runOutcome' \in {[runOutcome EXCEPT ![t] = o] : o \in {"completed", "failed"}}
    /\ lifeStep' = [lifeStep EXCEPT ![t] = AtStage("after_run")]
    /\ UNCHANGED <<runs, ran>>

\* Cancelled once the path is known, after_run still runs; cancelled in that, no more.
CancelAttempt(t) ==
    /\ lifeStep[t].stage \in {"clone", "after_create", "before_run", "run", "after_run"}
    /\ lifeStep' = [lifeStep EXCEPT ![t] = AtStage(IF lifeStep[t].stage \in {"before_run", "run"}
                                      THEN "after_run" ELSE "idle")]
    /\ runOutcome' = [runOutcome EXCEPT ![t] = IF @ = "none" THEN "cancelled" ELSE @]
    /\ UNCHANGED <<directory, runs, ran>>

\* cleanup_old, of a directory that has not been changed for long, by a job of its own:
\* its age is taken to be more than an attempt may last.
CleanUp(t) ==
    /\ t \in HookTask /\ lifeStep[t].stage = "idle" /\ directory[t].there
    /\ lifeStep' = [lifeStep EXCEPT ![t] = AtStage("before_remove")]
    /\ ran' = [ran EXCEPT ![t] = <<>>]
    /\ UNCHANGED <<directory, runs, runOutcome>>

LifeStep(t) ==
    \/ BeginAttempt(t) \/ Fetch(t) \/ Clone(t) \/ CloneFails(t)
    \/ CommandSucceeds(t) \/ CommandFails(t) \/ HookEnds(t)
    \/ RunEnds(t) \/ CancelAttempt(t) \/ CleanUp(t)

LifeNext == \E t \in Tasks : LifeStep(t)

LifeSpec == LifeInit /\ [][LifeNext]_lifeVars

-----------------------------------------------------------------------------
\* Every variable keeps its type.
LifeTypeOK ==
    /\ \A t \in Tasks : directory[t].hooks \in HookFile \cup {{}}
    /\ \A t \in Tasks : lifeStep[t].stage \in Kind \cup {"idle", "clone", "run"}
    /\ runs \in [Tasks -> 0..MaxRuns]
    /\ runOutcome \in [Tasks -> {"none", "completed", "failed", "cancelled"}]

\* No task runs after a command of its before_run has failed, none with a command left
\* out, and what comes after the run never undoes how it ended.
Ok(t, kind) == {i \in DOMAIN ran[t] : ran[t][i].kind = kind /\ ran[t][i].ok}
NotOk(t, kind) == {i \in DOMAIN ran[t] : ran[t][i].kind = kind /\ ~ran[t][i].ok}

RunsAreHooked ==
    \A t \in Tasks :
        /\ lifeStep[t].stage = "run" \/ runOutcome[t] = "completed" =>
              NotOk(t, "before_run") = {}
        /\ lifeStep[t].stage = "run" =>
              Cardinality(Ok(t, "before_run")) = HooksOf(t, "before_run")
        /\ NotOk(t, "after_create") \cup NotOk(t, "before_run") # {}
           /\ lifeStep[t].stage # "before_remove" => runOutcome[t] = "failed"

\* An attempt that makes its clone goes on only when each of its after_create commands
\* has succeeded.  (A later attempt takes the clone it finds for a prepared one.)
FreshCloneIsPrepared ==
    \A t \in HookTask :
        lifeStep[t].stage \in {"before_run", "run", "after_run"} =>
            /\ NotOk(t, "after_create") = {}
            /\ runs[t] = 1 => directory[t].prepared
=============================================================================
