----------------------------- MODULE GateRuntime -----------------------------
(***************************************************************************)
(* A gauntlet as it is executed (core/gates.py): gates one after the other, *)
(* a required failure skipping the rest, waivers turning failures into      *)
(* passes; one gate is a panel of critics that run at the same time, each    *)
(* with its timeout, and whose findings are aggregated when all have ended  *)
(* (core/critics.py).  And the record that is kept of one                   *)
(* (core/gauntlets.py).                                                     *)
(***************************************************************************)
EXTENDS Naturals, Sequences, FiniteSets

CONSTANTS
    GateCount,      \* gates, in order
    PanelGate,      \* the gate whose adapter is the panel
    RequiredGate,   \* required gates
    WaivedGate,     \* gates with a waiver
    ContinueOn,     \* continue_on_failure
    Critic,         \* critics of the panel
    RequiredCritic, \* those required
    TimedCritic,    \* those with a timeout
    MissingCritic,  \* those no adapter is registered for
    PolicyBlocks,   \* blocking_severities of the policy
    OptionalBlocks  \* optional_issue_is_blocking

ASSUME GateAssumption ==
    /\ GateCount \in Nat \ {0}
    /\ PanelGate \in 1..GateCount
    /\ RequiredGate \cup WaivedGate \subseteq 1..GateCount
    /\ ContinueOn \in BOOLEAN /\ OptionalBlocks \in BOOLEAN
    /\ RequiredCritic \cup TimedCritic \cup MissingCritic \subseteq Critic

VARIABLES
    gateAt,      \* the gate under way, GateCount + 1 when all are done
    blocked,     \* a required gate has failed
    outcome,     \* the status of each gate so far
    criticRun,   \* of each critic of the panel: its status and worst finding
    decision     \* "none", or how the gauntlet ended

gateVars == <<gateAt, blocked, outcome, criticRun, decision>>

-----------------------------------------------------------------------------
Blocking == {"p0", "p1"}
NoRun == <<"waiting", "none">>

(* The panel *)

\* A critic answers as it likes: it cannot pass with a blocking finding, but it
\* can fail with none.
Answers == {<<"passed", f>> : f \in {"none", "p2"}}
           \cup {<<"failed", f>> : f \in {"none", "p0", "p1", "p2"}}

EndCritic(c) ==
    /\ decision = "none" /\ gateAt = PanelGate /\ ~blocked
    /\ criticRun[c] = NoRun
    /\ \E r \in (IF c \in MissingCritic THEN {<<"missing", "none">>}
                 ELSE Answers \cup {<<"error", "none">>}
                      \cup {<<"timed_out", "none">> : t \in TimedCritic \cap {c}}) :
          criticRun' = [criticRun EXCEPT ![c] = r]
    /\ UNCHANGED <<gateAt, blocked, outcome, decision>>

\* Mutated form of ExecutionFinding: an error of a critic is never blocking.
ExecutionFindingMild(c) == IF OptionalBlocks THEN "p1" ELSE "p2"
\* What a critic that did not answer is counted as.
ExecutionFinding(c) == IF c \in RequiredCritic \/ OptionalBlocks THEN "p1" ELSE "p2"

Findings ==
    {criticRun[c][2] : c \in Critic}
    \cup {ExecutionFinding(c) : c \in {d \in Critic :
             criticRun[d][1] \in {"timed_out", "missing", "error"}}}

\* The policy's own blocking severities must agree with those of the verdict,
\* or its constructor raises.
PanelVerdict ==
    LET passed == Findings \cap PolicyBlocks = {}
    IN IF passed # (Findings \cap Blocking = {}) THEN "raises"
       ELSE IF passed THEN "passed" ELSE "failed"

-----------------------------------------------------------------------------
(* The gauntlet *)

Waivable(g, result) == IF result = "failed" /\ g \in WaivedGate THEN "waived" ELSE result

EndGate(g, result) ==
    LET s == Waivable(g, result)
    IN /\ outcome' = [outcome EXCEPT ![g] = s]
       /\ blocked' = (s = "failed" /\ g \in RequiredGate /\ ~ContinueOn)
       /\ gateAt' = g + 1
       /\ UNCHANGED decision

\* An adapter that raises ends the run without a decision.
Aborts == decision' = "raised" /\ UNCHANGED <<gateAt, blocked, outcome>>

RunPlainGate ==
    /\ decision = "none" /\ gateAt \in (1..GateCount) \ {PanelGate} /\ ~blocked
    /\ (\E result \in {"passed", "failed"} : EndGate(gateAt, result)) \/ Aborts
    /\ UNCHANGED criticRun

RunPanelGate ==
    /\ decision = "none" /\ gateAt = PanelGate /\ ~blocked
    /\ \A c \in Critic : criticRun[c] # NoRun
    /\ IF PanelVerdict = "raises" THEN Aborts ELSE EndGate(gateAt, PanelVerdict)
    /\ UNCHANGED criticRun

SkipGate ==
    /\ decision = "none" /\ gateAt \in 1..GateCount /\ blocked
    /\ outcome' = [outcome EXCEPT ![gateAt] = "skipped"]
    /\ gateAt' = gateAt + 1
    /\ UNCHANGED <<blocked, criticRun, decision>>

Decide ==
    /\ decision = "none" /\ gateAt = GateCount + 1
    /\ decision' = IF \E g \in RequiredGate : outcome[g] = "failed" THEN "failed" ELSE "passed"
    /\ UNCHANGED <<gateAt, blocked, outcome, criticRun>>

GatesInit ==
    /\ gateAt = 1
    /\ blocked = FALSE
    /\ outcome = [g \in 1..GateCount |-> "pending"]
    /\ criticRun = [c \in Critic |-> NoRun]
    /\ decision = "none"

GatesNext ==
    \/ \E c \in Critic : EndCritic(c)
    \/ RunPlainGate \/ RunPanelGate \/ SkipGate \/ Decide

GatesSpec == GatesInit /\ [][GatesNext]_gateVars

-----------------------------------------------------------------------------
(* Properties *)

GatesTypeOK ==
    /\ gateAt \in 1..(GateCount + 1)
    /\ blocked \in BOOLEAN
    /\ outcome \in [1..GateCount -> {"pending", "passed", "failed", "waived", "skipped"}]
    /\ criticRun \in [Critic -> {"waiting", "passed", "failed", "timed_out", "missing", "error"}
                                \X (Blocking \cup {"none", "p2"})]
    /\ decision \in {"none", "passed", "failed", "raised"}

\* A gauntlet passes only when every required gate ran and passed or was waived,
\* none skipped behind another's failure; and its panel, unless waived, only when
\* each required critic answered in time and no critic at all had a blocking
\* finding, whatever the order they ended in and however many optional ones
\* timed out.
PassIsEarned ==
    /\ decision = "passed" => \A g \in RequiredGate : outcome[g] \in {"passed", "waived"}
    /\ outcome[PanelGate] = "passed" =>
          \A c \in Critic :
             /\ criticRun[c][2] \notin Blocking
             /\ c \in RequiredCritic => criticRun[c][1] \in {"passed", "failed"}
    /\ decision = "failed" => \E g \in RequiredGate : outcome[g] = "failed"

-----------------------------------------------------------------------------
\* The record of a gauntlet and its gate runs (core/gauntlets.py): started,
\* completed, waived and appended in any order by whoever holds the store, and
\* finalized at any time, more than once.  The records are immutable: a change
\* makes a new gauntlet, whose constructor may refuse it, and the store keeps the
\* old one then.

CONSTANTS
    Gate,         \* gates, each run once at most
    Required      \* those that must not fail

ASSUME GauntletAssumption == Required \subseteq Gate

VARIABLES
    gateStatus,   \* the status of each gate's run, or "absent"
    gauntlet,     \* the gauntlet's status
    failedOnce    \* history: gates that have failed

gauntletVars == <<gateStatus, gauntlet, failedOnce>>

-----------------------------------------------------------------------------
GateTransitions ==
    [pending |-> {"running", "blocked"},
     running |-> {"passed", "failed", "blocked", "error"},
     failed |-> {"waived"},
     absent |-> {}, passed |-> {}, blocked |-> {}, waived |-> {}, error |-> {}]

CompletedGate == {"passed", "failed", "waived", "error"}

Unwaived(gs) == {g \in Required : gs[g] = "failed"}

\* Mutated form of Constructible: the constructor looks at nothing.
ConstructibleAnyhow(gs, status) == TRUE
\* GauntletRun.__post_init__ refuses a passed gauntlet with a failed gate.
Constructible(gs, status) ==
    status \in {"passed", "passed_with_waivers"} => Unwaived(gs) = {}

\* Every change makes a new gauntlet, and is not made when that is refused.
Replace(g, s) ==
    LET gs == [gateStatus EXCEPT ![g] = s]
    IN /\ Constructible(gs, gauntlet)
       /\ gateStatus' = gs
       /\ UNCHANGED gauntlet

AppendGate(g) ==
    /\ gateStatus[g] = "absent"
    /\ Replace(g, "pending")
    /\ UNCHANGED failedOnce

StartGate(g) ==
    /\ "running" \in GateTransitions[gateStatus[g]]
    /\ Replace(g, "running")
    /\ UNCHANGED failedOnce

\* A gate is completed as passed, failed or error; blocked is not completed.
CompleteGate(g) ==
    \E s \in (CompletedGate \ {"waived"}) \cap GateTransitions[gateStatus[g]] :
        /\ Replace(g, s)
        /\ failedOnce' = IF s = "failed" THEN failedOnce \cup {g} ELSE failedOnce

WaiveGate(g) ==
    /\ "waived" \in GateTransitions[gateStatus[g]]
    /\ Replace(g, "waived")
    /\ UNCHANGED failedOnce

Finalize ==
    /\ gauntlet' = IF Unwaived(gateStatus) # {} THEN "failed"
                   ELSE IF \E g \in Gate : gateStatus[g] = "waived" THEN "passed_with_waivers"
                   ELSE "passed"
    /\ UNCHANGED <<gateStatus, failedOnce>>

GauntletInit ==
    /\ gateStatus \in [Gate -> {"absent", "pending"}]
    /\ gauntlet = "pending"
    /\ failedOnce = {}

GauntletNext ==
    \/ \E g \in Gate : AppendGate(g) \/ StartGate(g) \/ CompleteGate(g) \/ WaiveGate(g)
    \/ Finalize

GauntletSpec == GauntletInit /\ [][GauntletNext]_gauntletVars

-----------------------------------------------------------------------------
(* Properties *)

GauntletTypeOK ==
    /\ gateStatus \in [Gate -> DOMAIN GateTransitions]
    /\ gauntlet \in {"pending", "passed", "passed_with_waivers", "failed"}
    /\ failedOnce \subseteq Gate

\* Whatever is appended, run or waived after the verdict: a gauntlet recorded as
\* passed has no required gate that has ever failed, and one recorded as passed
\* with waivers only such as were waived; a failure once recorded shows for ever.
PassIsNotOvertaken ==
    /\ gauntlet = "passed" \/ gauntlet = "passed_with_waivers" =>
          \A g \in Required \cap failedOnce : gateStatus[g] = "waived"
    /\ \A g \in failedOnce : gateStatus[g] \in {"failed", "waived"}

\* gauntlets.py:520 and the module's first lines (fail-closed): "All required
\* gates passed."  A gauntlet may be finalized with gates pending, running or
\* in error.
PassedMeansPassed ==
    gauntlet = "passed" => \A g \in Required : gateStatus[g] = "passed"
=============================================================================
