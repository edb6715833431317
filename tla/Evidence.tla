------------------------------ MODULE Evidence ------------------------------
(***************************************************************************)
(* Evidence about the work of agents: the answers of several backends side *)
(* by side, evaluations on scenarios, and tests that fail before a change. *)
(***************************************************************************)
EXTENDS Naturals, Sequences, FiniteSets

-----------------------------------------------------------------------------
(***************************************************************************)
(* CrossAuditService.run: one prompt goes to every role and backend at once; *)
(* each call is routed, bound to its role and answered, or fails, by itself, *)
(* and the report has them in the order of the targets with a comparison of  *)
(* what was answered.                                                        *)
(*                                                                         *)
(* A content is [text, view]: the view is the text without its spacing and   *)
(* case, which is what is compared.                                          *)
(***************************************************************************)

CONSTANTS KnownRole, KnownBackend,
          ToolRole,        \* roles that require tool use
          ToolBackend,     \* backends that support it
          EnabledBackend,  \* sequence: the backends the configuration enables
          Content,         \* what backends answer
          DefaultRole      \* the role of a call that names none

VARIABLES auditCall,    \* where the call of run is
          targets,      \* the calls to make, in order
          answers,      \* what has come back for each, by position
          crossReport   \* the report, once there is one

crossVars == <<auditCall, targets, answers, crossReport>>

NoReport == [results |-> <<>>, views |-> {}, exit |-> 2]
Pending == [kind |-> "pending"]
Failed == [kind |-> "failed"]
Succeeded(content) == [kind |-> "ok", content |-> content]

CrossInit ==
    auditCall = "idle" /\ targets = <<>> /\ answers = <<>> /\ crossReport = NoReport

\* _build_targets: every role with every backend, the roles outermost.
Matrix(roles, backends) ==
    [k \in 1..(Len(roles) * Len(backends)) |->
        [role |-> roles[((k - 1) \div Len(backends)) + 1],
         backend |-> backends[((k - 1) % Len(backends)) + 1]]]

OrElse(given, default) == IF given = <<>> THEN default ELSE given

\* The command names roles and backends, or neither.
Short(S) == {<<>>} \cup {<<x>> : x \in S} \cup {<<x, y>> : x, y \in S}

BeginAudit ==
    /\ auditCall = "idle"
    /\ \E roles \in Short(KnownRole), backends \in Short(KnownBackend) :
          targets' = Matrix(OrElse(roles, <<DefaultRole>>), OrElse(backends, EnabledBackend))
    /\ answers' = [i \in DOMAIN targets' |-> Pending]
    /\ auditCall' = IF targets' = <<>> THEN "refused" ELSE "gathering"
    /\ UNCHANGED crossReport

\* RolePlayer checks that the backend can do what the role requires.
Playable(target) == target.role \in ToolRole => target.backend \in ToolBackend

TargetAnswers(i) ==
    /\ auditCall = "gathering" /\ answers[i] = Pending
    /\ Playable(targets[i])
    /\ \E k \in DOMAIN EnabledBackend : targets[i].backend = EnabledBackend[k]
    /\ \E c \in Content : answers' = [answers EXCEPT ![i] = Succeeded(c)]
    /\ UNCHANGED <<auditCall, targets, crossReport>>

\* A backend that is unknown, disabled, unfit for the role or that raises.
TargetFails(i) ==
    /\ auditCall = "gathering" /\ answers[i] = Pending
    /\ answers' = [answers EXCEPT ![i] = Failed]
    /\ UNCHANGED <<auditCall, targets, crossReport>>

\* The caller is interrupted: the exception is not an Exception of a target.
AuditCancelled ==
    /\ auditCall = "gathering"
    /\ auditCall' = "cancelled"
    /\ UNCHANGED <<targets, answers, crossReport>>

\* gather returns when every target has, _summarize compares the views of those that
\* succeeded, and the command exits with 0 if any did.
ReportAudit ==
    /\ auditCall = "gathering" /\ \A i \in DOMAIN answers : answers[i] # Pending
    /\ LET well == {i \in DOMAIN answers : answers[i].kind = "ok"}
       IN  crossReport' =
              [results |-> [i \in DOMAIN targets |-> [target |-> targets[i], is |-> answers[i]]],
               views |-> {answers[i].content.view : i \in well},
               exit |-> IF well = {} THEN 1 ELSE 0]
    /\ auditCall' = "reported"
    /\ UNCHANGED <<targets, answers>>

CrossNext ==
    \/ BeginAudit \/ AuditCancelled \/ ReportAudit
    \/ \E i \in DOMAIN targets : TargetAnswers(i) \/ TargetFails(i)

CrossSpec == CrossInit /\ [][CrossNext]_crossVars

-----------------------------------------------------------------------------
\* Every variable keeps its type.
CrossTypeOK ==
    /\ auditCall \in {"idle", "refused", "gathering", "cancelled", "reported"}
    /\ DOMAIN answers = DOMAIN targets
    /\ \A i \in DOMAIN answers : answers[i].kind \in {"pending", "failed", "ok"}

\* What succeeded is in the report, at the place of its own target, whichever call
\* answered first and whatever became of the others; only a target that can play its
\* role succeeds; the command fails only when all of them failed; and views are said
\* to agree only if no two texts differ in more than spacing and case.
AuditIsWhole ==
    auditCall = "reported" =>
        /\ DOMAIN crossReport.results = DOMAIN targets
        /\ \A i \in DOMAIN targets :
              LET result == crossReport.results[i]
              IN  /\ result.target = targets[i]
                  /\ result.is.kind = "ok" => result.is = answers[i] /\ Playable(targets[i])
        /\ crossReport.exit = 0 <=> \E i \in DOMAIN answers : answers[i].kind = "ok"
        /\ Cardinality(crossReport.views) = 1 =>
              \A i, j \in DOMAIN answers :
                  answers[i].kind = "ok" /\ answers[j].kind = "ok" =>
                      answers[i].content.view = answers[j].content.view

-----------------------------------------------------------------------------
(***************************************************************************)
(* Evidence about the agents: EvalRunner runs scenarios with a scripted      *)
(* agent, scores them and stores what it found, for a leaderboard to read;   *)
(* TddGate runs the tests of a change before and after it is made.           *)
(***************************************************************************)

CONSTANTS Scenario,    \* list_scenarios: the starters, then the suites of files
          Ask,         \* lists of ids that an operator asks for: <<>> for all
          Weights,     \* of the default profile: what each part of a score counts
          Tries        \* bound: runs, and cycles of the gate

VARIABLES evalRun,     \* the run: its scenarios, its results so far, and where it is
          evalDirs,    \* workspaces of the run that are on disk
          storedRuns,      \* of each run that was begun: which of its files are written
          leaderboard, \* the last answer of the leaderboard: the runs it took in
          tddCycle        \* the gate's cycle: where it is, and what the tests said

evalVars == <<evalRun, evalDirs, storedRuns, leaderboard, tddCycle>>

IdleEval == [at |-> "idle", scenarios |-> <<>>, results |-> <<>>, keep |-> FALSE]
IdleCycle == [at |-> "red", red |-> "none", green |-> "none", verdict |-> "none"]

EvalInit ==
    /\ evalRun = IdleEval /\ evalDirs = {} /\ storedRuns = <<>> /\ leaderboard = {}
    /\ tddCycle = IdleCycle

-----------------------------------------------------------------------------
\* _resolve_scenarios: all of them, or for each id the first that has it.
IdsKnown(ids) == \A k \in DOMAIN ids : \E i \in DOMAIN Scenario : Scenario[i].id = ids[k]
FirstWith(id) == CHOOSE i \in DOMAIN Scenario :
    Scenario[i].id = id /\ \A j \in 1..(i - 1) : Scenario[j].id # id
Resolved(ids) ==
    IF ids = <<>> THEN Scenario ELSE [k \in DOMAIN ids |-> Scenario[FirstWith(ids[k])]]

BeginEval ==
    /\ evalRun.at \in {"idle", "raised", "saved"} /\ Len(storedRuns) < Tries
    /\ \E ids \in Ask, keep \in BOOLEAN :
          /\ IdsKnown(ids)
          /\ evalRun' = [at |-> "running", scenarios |-> Resolved(ids), results |-> <<>>,
                         keep |-> keep]
    /\ storedRuns' = Append(storedRuns, {}) /\ evalDirs' = {}
    /\ UNCHANGED <<leaderboard, tddCycle>>

\* An id that no scenario has: KeyError, before there is a run.
RefuseEval ==
    /\ evalRun.at = "idle" /\ \E ids \in Ask : ~IdsKnown(ids)
    /\ evalRun' = [IdleEval EXCEPT !.at = "raised"]
    /\ UNCHANGED <<evalDirs, storedRuns, leaderboard, tddCycle>>

\* score_observation, of what the scripted agent did: every required check passes, every
\* artifact is written, tests are added if they are required, nothing else is touched.
\* A part with nothing to count is worth nothing.
Share(weight, count) == IF count = 0 THEN 0 ELSE weight
ScoreOf(scenario) ==
    Weights.acceptance + Share(Weights.checks, scenario.checks) + Weights.minimality
    + Weights.tests + Share(Weights.artifacts, scenario.artifacts)

NextScenario == evalRun.scenarios[Len(evalRun.results) + 1]
Remaining1 == evalRun.at = "running" /\ Len(evalRun.results) < Len(evalRun.scenarios)

RunScenario ==
    /\ Remaining1 /\ NextScenario.id \notin evalDirs
    /\ evalRun' = [evalRun EXCEPT !.results = Append(@,
                      [id |-> NextScenario.id, score |-> ScoreOf(NextScenario),
                       passed |-> ScoreOf(NextScenario) >= 80])]
    /\ evalDirs' = IF evalRun.keep THEN evalDirs \cup {NextScenario.id} ELSE evalDirs
    /\ UNCHANGED <<storedRuns, leaderboard, tddCycle>>

\* The workspace of an id is made once: FileExistsError, if it was kept.
ScenarioAgain ==
    /\ Remaining1 /\ NextScenario.id \in evalDirs
    /\ evalRun' = [evalRun EXCEPT !.at = "raised"]
    /\ UNCHANGED <<evalDirs, storedRuns, leaderboard, tddCycle>>

\* EvalRunStore.save: run.json, then results.json; a crash may come between them.
SaveRunFile ==
    /\ evalRun.at = "running" /\ ~Remaining1
    /\ storedRuns' = [storedRuns EXCEPT ![Len(storedRuns)] = {"run"}]
    /\ evalRun' = [evalRun EXCEPT !.at = "saving"]
    /\ UNCHANGED <<evalDirs, leaderboard, tddCycle>>

SaveResults ==
    /\ evalRun.at = "saving"
    /\ storedRuns' = [storedRuns EXCEPT ![Len(storedRuns)] = @ \cup {"results"}]
    /\ evalRun' = [evalRun EXCEPT !.at = "saved"]
    /\ UNCHANGED <<evalDirs, leaderboard, tddCycle>>

EvalCrashes ==
    /\ evalRun.at \in {"running", "saving"}
    /\ evalRun' = [IdleEval EXCEPT !.at = "raised"]
    /\ UNCHANGED <<evalDirs, storedRuns, leaderboard, tddCycle>>

\* get_eval_leaderboard: runs whose files are not all there are passed over.
ReadLeaderboard ==
    /\ leaderboard' = {r \in DOMAIN storedRuns : storedRuns[r] = {"run", "results"}}
    /\ UNCHANGED <<evalRun, evalDirs, storedRuns, tddCycle>>

-----------------------------------------------------------------------------
\* verify_red_green: the tests must fail before the change, which is then made, and are
\* run again; what they say then is reported and not raised.
Outcome == {"passed", "failed"}

RunRed ==
    /\ tddCycle.at = "red"
    /\ \E said \in Outcome :
          tddCycle' = IF said = "passed"
                   THEN [tddCycle EXCEPT !.at = "violation", !.red = said]
                   ELSE [tddCycle EXCEPT !.at = "implement", !.red = said]
    /\ UNCHANGED <<evalRun, evalDirs, storedRuns, leaderboard>>

Implement ==
    /\ tddCycle.at = "implement"
    /\ \E stage \in {"green", "raised"} : tddCycle' = [tddCycle EXCEPT !.at = stage]
    /\ UNCHANGED <<evalRun, evalDirs, storedRuns, leaderboard>>

RunGreen ==
    /\ tddCycle.at = "green"
    /\ \E said \in Outcome :
          tddCycle' = [tddCycle EXCEPT !.at = "reported", !.green = said,
                       !.verdict = IF tddCycle.red # "passed" THEN "honest" ELSE "dishonest"]
    /\ UNCHANGED <<evalRun, evalDirs, storedRuns, leaderboard>>

EvalNext ==
    \/ BeginEval \/ RefuseEval \/ RunScenario \/ ScenarioAgain
    \/ SaveRunFile \/ SaveResults \/ EvalCrashes \/ ReadLeaderboard
    \/ RunRed \/ Implement \/ RunGreen

EvalSpec == EvalInit /\ [][EvalNext]_evalVars

-----------------------------------------------------------------------------
\* Every variable keeps its type.
EvalTypeOK ==
    /\ evalRun.at \in {"idle", "running", "saving", "saved", "raised"}
    /\ Len(evalRun.results) <= Len(evalRun.scenarios)
    /\ Len(storedRuns) <= Tries /\ leaderboard \subseteq DOMAIN storedRuns
    /\ tddCycle.red \in Outcome \cup {"none"} /\ tddCycle.green \in Outcome \cup {"none"}

\* A scenario that requires checks is passed when the scripted agent has passed them,
\* whether or not it expects artifacts.
ChecksSuffice ==
    \A k \in DOMAIN evalRun.results :
        evalRun.scenarios[k].checks > 0 => evalRun.results[k].passed

\* The leaderboard takes in no run that was not completed, each of its scenarios with a
\* result, and a scenario asked for twice is run twice unless its workspace was kept.
BoardIsOfWholeRuns ==
    /\ \A r \in leaderboard : storedRuns[r] = {"run", "results"}
    /\ evalRun.at \in {"saving", "saved"} =>
          /\ Len(evalRun.results) = Len(evalRun.scenarios)
          /\ \A k \in DOMAIN evalRun.results :
                evalRun.results[k].id = evalRun.scenarios[k].id
          /\ evalRun.keep => Cardinality(evalDirs) = Len(evalRun.scenarios)

\* A cycle that is reported was red first, and its change was made in between.
GreenWasRed == tddCycle.at = "reported" => tddCycle.red = "failed" /\ tddCycle.verdict = "honest"
=============================================================================
