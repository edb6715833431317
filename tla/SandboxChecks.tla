---------------------------- MODULE SandboxChecks ----------------------------
(***************************************************************************)
(* Gates that run a validation command in the sandbox (sandbox/gates.py,    *)
(* policy.py, runner.py).  One adapter serves several gates; it reads the   *)
(* command from a gate's metadata, asks the policy, runs the command with a *)
(* time limit and reports what it saw.  Its event loop is given up only     *)
(* while a command runs.                                                    *)
(***************************************************************************)
EXTENDS Naturals, FiniteSets, Sequences, SequencesExt

CONSTANTS
    Check,         \* gates run by the adapter
    Metadata,      \* what gates ask for
    Output,        \* what a command may print: sequences of units
    SummaryUnits,  \* output_summary_bytes
    Stored         \* whether the adapter has an artifact store

\* What a gate's metadata asks for: a policy by name, a workspace, limits that are
\* positive or not, a command, a directory inside the workspace or outside of it,
\* and the task and the work item it is run for.
AskedFor == [policy : BOOLEAN, root : {"none", "missing", "directory"}, limits : BOOLEAN,
             command : {"none", "malformed", "unclosed", "empty", "denied", "destructive",
                        "plain"},
             inside : BOOLEAN, owners : 0..2]

ASSUME SandboxAssumption ==
    /\ Metadata \subseteq AskedFor /\ SummaryUnits \in Nat \ {0} /\ Stored \in BOOLEAN
    /\ \A out \in Output : out \in Seq({"text", "sec", "ret"})

VARIABLES
    requested,   \* the metadata of each gate that was run
    checkStage,  \* "idle", "running", "done" or "cancelled" of each gate
    process,     \* what became of the gate's command
    printed,     \* what it printed
    capture,     \* _capture.last_result: the gate whose result it is, if any
    report,      \* the GateAdapterResult of each gate
    stored       \* gates whose execution is kept as an artifact

sandboxVars == <<requested, checkStage, process, printed, capture, report, stored>>

NoMetadata == [policy |-> FALSE, root |-> "none", limits |-> TRUE, command |-> "none",
               inside |-> FALSE, owners |-> 0]
NoReport == [passed |-> FALSE, status |-> "none", of |-> {}, summary |-> << >>]

-----------------------------------------------------------------------------
\* SandboxGateAdapter.run reads the metadata.  Without a policy and a workspace no
\* command is looked for; it is None when there is none, neither in the metadata
\* nor among the presets, and when it is no list of words.  A quotation that is
\* never closed raises.
Sited(a) == a.policy /\ a.root # "none"
Commanded(a) == a.command \notin {"none", "malformed"}
Raises(a) == Sited(a) /\ a.command = "unclosed"

\* No policy is made of a workspace that is no directory or of limits that are
\* not positive.
Sound(a) == a.root = "directory" /\ a.limits
MayAsk(a) == Sited(a) /\ Commanded(a) /\ ~Raises(a) /\ Sound(a)

\* WorkspacePolicy.resolve_inside and CommandPolicy.validate.
Inside(a) == a.inside
Allowed(a) == a.command \notin {"denied", "destructive"}

\* SandboxPolicy.validate_command, in its order.
ValidationNamesOnly(a) ==
    IF a.command \in {"empty", "denied"} THEN "policy_denied"
    ELSE IF ~a.inside THEN "path_denied" ELSE "passed"

Validation(a) ==
    IF a.command = "empty" THEN "policy_denied"
    ELSE IF ~Inside(a) THEN "path_denied"
    ELSE IF ~Allowed(a) THEN "policy_denied"
    ELSE "passed"

\* EnvPolicy.redact: a secret is found only when it stands there whole.
Redacted(out) ==
    LET Whole(i) == i \in 1..(Len(out) - 1) /\ out[i] = "sec" /\ out[i + 1] = "ret"
    IN  FlattenSeq([i \in DOMAIN out |-> IF Whole(i) THEN <<"redacted">>
                                         ELSE IF Whole(i - 1) THEN << >> ELSE <<out[i]>>])

\* SandboxPolicy.summarize_output: the last units of what was printed.
LastOf(out) == SubSeq(out, Len(out) - SummaryUnits + 1, Len(out))
Shortened(out) == IF Len(out) <= SummaryUnits THEN out ELSE LastOf(out)
SummaryCutFirst(out) == Redacted(Shortened(out))
Summary(out) == Shortened(Redacted(out))

\* SandboxCommandRunner.run: the status of a finished command.
ResultStatus(end) ==
    CASE end = "timed_out" -> "timeout"
      [] end = "not started" -> "error"
      [] end = "zero" -> "passed"
      [] end = "nonzero" -> "failed"

Reports(c, status, passed) ==
    report' = [report EXCEPT ![c] =
                  [passed |-> passed, status |-> status,
                   of |-> capture',
                   summary |-> IF capture' = {} THEN << >>
                               ELSE Summary(printed'[CHOOSE d \in capture' : TRUE])]]

-----------------------------------------------------------------------------
Takes(c, a) == checkStage[c] = "idle" /\ requested' = [requested EXCEPT ![c] = a]

\* The gate fails before anything is asked, or its adapter raises.
Refuse(c, a) ==
    /\ Takes(c, a) /\ ~MayAsk(a)
    /\ checkStage' = [checkStage EXCEPT ![c] = "done"]
    /\ report' = [report EXCEPT ![c].status = IF Raises(a) THEN "raised" ELSE "failure"]
    /\ UNCHANGED <<process, printed, capture, stored>>

\* The last result is forgotten before the policy is asked.
ForgetNothing == UNCHANGED capture
Forget == capture' = {}

Deny(c, a) ==
    /\ Takes(c, a) /\ MayAsk(a) /\ Validation(a) # "passed"
    /\ checkStage' = [checkStage EXCEPT ![c] = "done"]
    /\ Forget
    /\ UNCHANGED <<process, printed, stored>>
    /\ Reports(c, Validation(a), FALSE)

Start(c, a) ==
    /\ Takes(c, a) /\ MayAsk(a) /\ Validation(a) = "passed"
    /\ checkStage' = [checkStage EXCEPT ![c] = "running"]
    /\ Forget
    /\ process' = [process EXCEPT ![c] = "running"]
    /\ UNCHANGED <<printed, report, stored>>

\* The command ends by itself, is killed at its time limit, or did not start.
CommandEnds(c) ==
    /\ process[c] = "running"
    /\ \E end \in {"zero", "nonzero", "timed_out", "not started"} :
       \E out \in IF end \in {"zero", "nonzero"} THEN Output ELSE {<< >>} :
           /\ process' = [process EXCEPT ![c] = end]
           /\ printed' = [printed EXCEPT ![c] = out]
    /\ UNCHANGED <<requested, checkStage, capture, report, stored>>

\* Keeping the execution can fail, and fails for a gate that names both a task
\* and a work item; the command has run by then.
Keeps(c) == Stored /\ requested[c].owners # 0

\* The adapter takes the result and reports it without giving up the loop.
Finish(c) ==
    /\ checkStage[c] = "running" /\ process[c] # "running"
    /\ checkStage' = [checkStage EXCEPT ![c] = "done"]
    /\ capture' = {c}
    /\ UNCHANGED <<requested, process, printed>>
    /\ \/ /\ Keeps(c) => requested[c].owners = 1
          /\ stored' = IF Keeps(c) THEN stored \cup {c} ELSE stored
          /\ Reports(c, ResultStatus(process[c]), ResultStatus(process[c]) = "passed")
       \/ /\ Keeps(c)
          /\ UNCHANGED stored
          /\ report' = [report EXCEPT ![c].status = "failure"]

\* Whoever awaits the gate is cancelled: its command is left running.
Cancel(c) ==
    /\ checkStage[c] = "running"
    /\ checkStage' = [checkStage EXCEPT ![c] = "cancelled"]
    /\ UNCHANGED <<requested, process, printed, capture, report, stored>>

-----------------------------------------------------------------------------
SandboxInit ==
    /\ requested = [c \in Check |-> NoMetadata]
    /\ checkStage = [c \in Check |-> "idle"]
    /\ process = [c \in Check |-> "none"]
    /\ printed = [c \in Check |-> << >>]
    /\ capture = {}
    /\ report = [c \in Check |-> NoReport]
    /\ stored = {}

SandboxNext ==
    \E c \in Check :
        \/ \E a \in Metadata : Refuse(c, a) \/ Deny(c, a) \/ Start(c, a)
        \/ CommandEnds(c) \/ Finish(c) \/ Cancel(c)

SandboxSpec == SandboxInit /\ [][SandboxNext]_sandboxVars

-----------------------------------------------------------------------------
Ends == {"zero", "nonzero", "timed_out", "not started"}
Statuses == {"none", "failure", "raised", "passed", "failed", "timeout", "error",
             "policy_denied", "path_denied"}

\* The variables hold what the adapter and its commands can hold.
SandboxTypeOK ==
    /\ requested \in [Check -> Metadata \cup {NoMetadata}]
    /\ checkStage \in [Check -> {"idle", "running", "done", "cancelled"}]
    /\ process \in [Check -> Ends \cup {"none", "running"}]
    /\ printed \in [Check -> Output \cup {<< >>}]
    /\ Cardinality(capture) <= 1
    /\ \A c \in Check : report[c].passed \in BOOLEAN /\ report[c].status \in Statuses
    /\ stored \subseteq Check

\* The evidence of a gate is of its own command, although gates share the
\* adapter's one captured result; a gate whose command was refused has none.
EvidenceIsItsOwn ==
    \A c \in Check : report[c].of \subseteq IF process[c] \in Ends THEN {c} ELSE {}

\* A gate passes only when its own command ran inside the workspace, was no
\* refused one and exited with zero; a kept execution is of a command that ran.
SandboxPassIsEarned ==
    /\ \A c \in Check :
           /\ report[c].passed => process[c] = "zero"
           /\ process[c] # "none" => requested[c].inside /\ requested[c].command = "plain"
    /\ \A c \in stored : process[c] \in Ends /\ report[c].status # "failure"

\* Commands print whole secrets here: nothing is left of one in a summary, also
\* where the summary was cut.
SummariesAreRedacted ==
    \A c \in Check : ToSet(report[c].summary) \cap {"sec", "ret"} = {}
=============================================================================
