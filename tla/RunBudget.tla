------------------------------- MODULE RunBudget -------------------------------
(***************************************************************************)
(* What a run costs and which backend and model it gets: the worker takes   *)
(* the configuration in force (daemon/worker.py, daemon/runner.py), asks    *)
(* the budget (core/budget.py) and the router (core/router.py) once its     *)
(* workspace is ready, and records the cost afterwards (core/ledger.py),    *)
(* while the configuration is reloaded and old rows are pruned.             *)
(***************************************************************************)
EXTENDS Integers, FiniteSets, Sequences, SequencesExt, FiniteSetsExt, Functions

CONSTANTS
    Runner,      \* the workers
    Backend,     \* names of backends
    Loadable,    \* backends whose SDK is installed
    Setting,     \* configurations the file may hold
    Config,      \* Config[s]: the configuration s, see ConfigOK
    Asked,       \* what tasks ask: see AskOK
    MaxCost,     \* the most one run costs
    MonthTicks,  \* ticks of a month
    TaskCost,    \* what a typical task costs with each model of the allocator
    Dollar,      \* one dollar in the same unit
    MaxNow,      \* bound: ticks
    MaxTaken,    \* bound: tasks taken
    MaxLimit,    \* bound: monthly limits the allocator is asked about
    MaxSize      \* bound: typical tasks that one call is as large as

Tiers == {"simple", "moderate", "complex"}

ConfigOK(c) ==
    /\ c.limited \in BOOLEAN /\ c.limit \in Nat /\ c.hardStop \in BOOLEAN
    /\ c.known \subseteq Backend /\ c.enabled \subseteq c.known
    /\ c.default \in c.known /\ c.repoBackend \in c.known \cup {"none"}
    /\ c.tiers \in [c.known -> SUBSET Tiers]
    /\ c.retention \in Nat

\* A model is named by the configuration, the backend and the entry it comes from; a
\* task may name one itself.
NoModel == <<"none", "none", "none">>
NamedModel == <<"named", "named", "named">>

AskOK(a) ==
    /\ a.kind \in {"prompt", "issue"} /\ a.inRepo \in BOOLEAN
    /\ a.override \in Backend \cup {"none"} /\ a.wanted \in {NoModel, NamedModel}

ASSUME BudgetAssumption ==
    /\ \A s \in Setting : ConfigOK(Config[s])
    /\ Loadable \subseteq Backend /\ "none" \notin Backend
    /\ \A a \in Asked : AskOK(a)
    /\ MaxCost \in Nat \ {0} /\ MonthTicks \in Nat \ {0}
    /\ IsFiniteSet(Runner) /\ Runner # {}
    /\ TaskCost \in [{"haiku", "sonnet", "opus"} -> Nat] /\ Dollar \in Nat
    /\ TaskCost["haiku"] <= TaskCost["sonnet"] /\ TaskCost["sonnet"] <= TaskCost["opus"]
    /\ {MaxNow, MaxTaken, MaxLimit, MaxSize} \subseteq Nat

VARIABLES
    inForce,    \* the configuration in force
    run,        \* what each worker runs
    rows,       \* cost_records: number, cost and time of each row
    lastRow,    \* the number of the row written last
    now,
    pruned,     \* history: cost of this month's rows that were pruned
    limits,     \* history: the limits that runs of this month were let through under
    takenRuns,  \* history: tasks taken so far
    again       \* what tasks that are to be retried ask

runVars == <<inForce, run, rows, lastRow, now, pruned, limits, takenRuns, again>>

-----------------------------------------------------------------------------
NoRun == [at |-> "idle", setting |-> "none", kind |-> "none", override |-> "none",
          inRepo |-> FALSE, wanted |-> NoModel, backend |-> "none", model |-> NoModel,
          tiersOf |-> "none", under |-> 0]

MonthStart == MonthTicks * (now \div MonthTicks)
CostOf(rs) == SumFunction([r \in rs |-> r.cost])
ThisMonth == {r \in rows : r.at >= MonthStart}
MonthToDate == CostOf(ThisMonth)

\* check: a limit of zero is never exceeded.
Exceeded(s) ==
    Config[s].limited /\ Config[s].limit > 0 /\ MonthToDate >= Config[s].limit
\* Mutated form of Refuses: the limit is not asked again after the workspace is ready.
RefusesNothing(s) == FALSE
Refuses(s) == Config[s].hardStop /\ Exceeded(s)
\* The limit that a run is let through under, 0 for none.
LimitOf(s) == IF Config[s].hardStop /\ Config[s].limited THEN Config[s].limit ELSE 0

\* _choose_name: no caller supplies a utilisation, so no fallback is ever chosen.
ChooseName(s, override, inRepo) ==
    IF override # "none" THEN override
    ELSE IF inRepo /\ Config[s].repoBackend # "none" THEN Config[s].repoBackend
    ELSE Config[s].default

\* route and create: an unknown override, a backend that is disabled and one whose
\* SDK is missing each fail the run.
Routable(s, b) == b \in Config[s].enabled /\ b \in Loadable

\* Mutated form of ModelFor: the configuration goes before the task.
ModelForAll(s, b, inRepo, wanted) ==
    <<s, b, IF inRepo /\ Config[s].repoBackend = b THEN "repo" ELSE "default">>
\* The model that the task names, if it does, comes first.
ModelFor(s, b, inRepo, wanted) ==
    IF wanted # NoModel THEN wanted
    ELSE <<s, b, IF inRepo /\ Config[s].repoBackend = b THEN "repo" ELSE "default">>

TierChain == [simple   |-> <<"simple", "moderate", "complex">>,
              moderate |-> <<"moderate", "simple", "complex">>,
              complex  |-> <<"complex", "moderate", "simple">>]
TiersIn(s, b) == IF b \in Config[s].known THEN Config[s].tiers[b] ELSE {}

\* select_model: the first tier of the chain that has a model.
SelectTier(s, b, tier) ==
    SelectSeq(TierChain[tier], LAMBDA t : t \in TiersIn(s, b))[1]

-----------------------------------------------------------------------------
\* The allocator (core/token_budget.py): what is left of the month pays for a
\* typical task with a model, and a month of which three quarters are spent is tight.
Left(limit, spent) == Max({limit - spent, 0})
Affords(limit, spent, m) == TaskCost[m] < Left(limit, spent)
Tight(limit, spent) == limit > 0 /\ 4 * spent >= 3 * limit

\* Mutated form of Recommended: in a tight month nobody asks what a task costs.
RecommendedInTight(limit, spent) ==
    IF Tight(limit, spent) THEN "sonnet"
    ELSE IF Affords(limit, spent, "haiku") THEN "haiku" ELSE "opus"
\* check_budget: the dearest model is the one left over when none can be paid.
Recommended(limit, spent) ==
    IF Tight(limit, spent) /\ Affords(limit, spent, "sonnet") THEN "sonnet"
    ELSE IF Affords(limit, spent, "haiku") THEN "haiku"
    ELSE IF Affords(limit, spent, "sonnet") THEN "sonnet"
    ELSE "opus"

\* A call may take a twentieth of the limit, and what is left at most.
IsOverAllocation(limit, spent, cost) ==
    IF limit = 0 THEN cost > Dollar ELSE cost > Left(limit, spent) \/ 20 * cost > limit

\* token_budget_for_task: one step down, and one only.
TaskModel(limit, spent, size) ==
    LET m == Recommended(limit, spent)
    IN IF ~IsOverAllocation(limit, spent, size * TaskCost[m]) THEN m
       ELSE IF m = "opus" THEN "sonnet" ELSE "haiku"

-----------------------------------------------------------------------------
\* The worker captures the configuration in force; then it clones and runs hooks.
TakeRun(w, ask) ==
    /\ run[w].at = "idle" /\ takenRuns < MaxTaken
    /\ run' = [run EXCEPT ![w] = [NoRun EXCEPT !.at = "readies", !.setting = inForce,
                  !.kind = ask.kind, !.override = ask.override, !.inRepo = ask.inRepo,
                  !.wanted = ask.wanted]]
    /\ takenRuns' = takenRuns + 1
    /\ again' = again \ {ask}
    /\ UNCHANGED <<inForce, rows, lastRow, now, pruned, limits>>

\* Mutated form of RouteWith: the router is the one in force, the budget the captured.
RouteWithLive(w) == inForce
RouteWith(w) == run[w].setting

\* The run of an issue that names no model looks the tiers up in the router in force
\* now.
StartRun(w) ==
    LET s == run[w].setting
        b == ChooseName(RouteWith(w), run[w].override, run[w].inRepo)
        selects == /\ run[w].kind = "issue" /\ run[w].wanted = NoModel
                   /\ TiersIn(inForce, b) # {}
    IN  /\ run[w].at = "readies"
        /\ IF Refuses(s) \/ ~Routable(RouteWith(w), b)
           THEN /\ run' = [run EXCEPT ![w] = NoRun]
                /\ UNCHANGED limits
           ELSE /\ run' = [run EXCEPT
                      ![w].at = IF selects THEN "selects" ELSE "runs",
                      ![w].backend = b,
                      ![w].model = ModelFor(RouteWith(w), b, run[w].inRepo, run[w].wanted),
                      ![w].tiersOf = IF selects THEN inForce ELSE "none",
                      ![w].under = LimitOf(s)]
                /\ limits' = limits \cup {LimitOf(s)}
        /\ UNCHANGED <<inForce, rows, lastRow, now, pruned, takenRuns, again>>

\* get_issue has come back, or failed: then the default model stays.
SelectModel(w, tier) ==
    /\ run[w].at = "selects"
    /\ run' = [run EXCEPT ![w].at = "runs", ![w].tiersOf = "none",
                  ![w].model = <<run[w].tiersOf, run[w].backend,
                                 SelectTier(run[w].tiersOf, run[w].backend, tier)>>]
    /\ UNCHANGED <<inForce, rows, lastRow, now, pruned, limits, takenRuns, again>>

SelectFails(w) ==
    /\ run[w].at = "selects"
    /\ run' = [run EXCEPT ![w].at = "runs", ![w].tiersOf = "none"]
    /\ UNCHANGED <<inForce, rows, lastRow, now, pruned, limits, takenRuns, again>>

\* The backend has answered a prompt, and the cost is recorded.
EndPrompt(w, cost) ==
    /\ run[w].at = "runs" /\ run[w].kind = "prompt"
    /\ lastRow' = lastRow + 1
    /\ rows' = rows \cup {[id |-> lastRow', cost |-> cost, at |-> now]}
    /\ run' = [run EXCEPT ![w] = NoRun]
    /\ UNCHANGED <<inForce, now, pruned, limits, takenRuns, again>>

\* The end of an issue's run records no cost, nor does a run that failed or whose
\* row could not be written.
EndUnrecorded(w) ==
    /\ run[w].at = "runs"
    /\ run' = [run EXCEPT ![w] = NoRun]
    /\ UNCHANGED <<inForce, rows, lastRow, now, pruned, limits, takenRuns, again>>

\* What a task asks once its run has taken a backend and, but for an issue whose
\* model is still to be selected, a model: both stay with the task.
AskedAgain(w) ==
    [kind |-> run[w].kind, override |-> run[w].backend, inRepo |-> run[w].inRepo,
     wanted |-> IF run[w].at = "selects" THEN run[w].wanted ELSE run[w].model]

InFlight == {w \in Runner : run[w].at \in {"selects", "runs"}}

\* A run that fails or stalls, and is retried.
FailRun(w) ==
    /\ w \in InFlight /\ takenRuns < MaxTaken
    /\ again' = again \cup {AskedAgain(w)}
    /\ run' = [run EXCEPT ![w] = NoRun]
    /\ UNCHANGED <<inForce, rows, lastRow, now, pruned, limits, takenRuns>>

ReloadConfig(s) ==
    /\ s # inForce
    /\ inForce' = s
    /\ UNCHANGED <<run, rows, lastRow, now, pruned, limits, takenRuns, again>>

\* Rows older than the retention are deleted, be they of this month or not.
PruneLedger ==
    LET cutoff == now - Config[inForce].retention
        old == {r \in rows : r.at < cutoff}
    IN  /\ Config[inForce].retention > 0 /\ old # {}
        /\ rows' = rows \ old
        /\ pruned' = pruned + CostOf(old \cap ThisMonth)
        /\ UNCHANGED <<inForce, run, lastRow, now, limits, takenRuns, again>>

PassTime ==
    /\ now < MaxNow
    /\ now' = now + 1
    /\ IF now' % MonthTicks = 0
       THEN /\ pruned' = 0
            /\ limits' = {run[w].under : w \in InFlight}
       ELSE UNCHANGED <<pruned, limits>>
    /\ UNCHANGED <<inForce, run, rows, lastRow, takenRuns, again>>

BudgetInit ==
    /\ inForce \in Setting
    /\ run = [w \in Runner |-> NoRun]
    /\ rows = {} /\ lastRow = 0 /\ now = 0
    /\ pruned = 0 /\ limits = {} /\ takenRuns = 0 /\ again = {}

BudgetNext ==
    \/ \E w \in Runner :
          \/ \E ask \in Asked \cup again : TakeRun(w, ask)
          \/ StartRun(w) \/ SelectFails(w) \/ EndUnrecorded(w) \/ FailRun(w)
          \/ \E t \in Tiers : SelectModel(w, t)
          \/ \E c \in 1..MaxCost : EndPrompt(w, c)
    \/ \E s \in Setting : ReloadConfig(s)
    \/ PruneLedger \/ PassTime

BudgetSpec == BudgetInit /\ [][BudgetNext]_runVars

-----------------------------------------------------------------------------
(* Properties *)

BudgetTypeOK ==
    /\ inForce \in Setting
    /\ \A w \in Runner : run[w].at \in {"idle", "readies", "selects", "runs"}
                         /\ (run[w].at # "idle" => run[w].setting \in Setting)
    /\ \A r \in rows : r.id \in 1..lastRow /\ r.cost \in 1..MaxCost /\ r.at \in 0..now
    /\ pruned \in Nat /\ limits \subseteq Nat

\* core/budget.py:79-88, daemon/worker.py:144, 192: the check comes before the run
\* and the record after it, so a hard limit can be overrun; but what the month has
\* recorded stays below the highest limit a run was let through under plus one run
\* per worker, whatever is reloaded meanwhile, as long as nothing of the month is
\* pruned and none of its runs was let through without a limit.
OverrunIsBounded ==
    pruned = 0 /\ 0 \notin limits =>
        MonthToDate + Cardinality(InFlight) * MaxCost
            < Max(limits \cup {0}) + Cardinality(Runner) * MaxCost

\* core/router.py:66-115, daemon/worker.py:145-153, 348: what runs was enabled and
\* chosen under the configuration the worker captured, whatever is in force by now.
\* A task that names a model gets that one, prompt or issue, and so does one that is
\* retried after a reload with the backend and model its first run took; the model of
\* any other prompt is the captured configuration's, for that backend.
RoutedBySnapshot ==
    \A w \in InFlight :
        LET s == run[w].setting IN
        /\ run[w].backend \in Config[s].enabled
        /\ run[w].override \in {"none", run[w].backend}
        /\ run[w].wanted # NoModel => run[w].model = run[w].wanted
        /\ run[w].wanted = NoModel /\ run[w].kind = "prompt" =>
              run[w].model[1] = s /\ run[w].model[2] = run[w].backend

\* core/token_budget.py:126-199: with any limit and any sum spent, the model that the
\* allocator names for a task of any size is one that the rest of the month pays a
\* typical task with, unless there is none.
AdviceIsPayable ==
    \A limit \in 0..MaxLimit, spent \in 0..MaxLimit, size \in 1..MaxSize :
        Affords(limit, spent, TaskModel(limit, spent, size))
            \/ \A m \in DOMAIN TaskCost : ~Affords(limit, spent, m)

\* daemon/runner.py:311-317: "in-flight workers always see a consistent pair ... they
\* complete with the old config": no run whose task names no model mixes the backend of
\* one configuration with the model of another.
InFlightKeepsItsConfig ==
    \A w \in InFlight : run[w].wanted = NoModel => run[w].model[1] = run[w].setting
=============================================================================
