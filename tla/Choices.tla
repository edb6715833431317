------------------------------- MODULE Choices -------------------------------
(***************************************************************************)
(* Where work goes and what it may cost: the nodes of a fleet, the         *)
(* backends of accounts, the models of a month, and the routes of a call.  *)
(***************************************************************************)
EXTENDS Integers, FiniteSets, Sequences, SequencesExt

-----------------------------------------------------------------------------
(***************************************************************************)
(* The registry of fleet nodes (fleet/capabilities.py): snapshots of nodes *)
(* that reach it late and in any order, peers marked offline, and the      *)
(* selection of a node for a repository and a tool.  Repositories, tools   *)
(* and capabilities are abstracted to the set of nodes that admit a        *)
(* request; node names to their order; the explanation to the nodes it says *)
(* were rejected, each with its reasons.                                    *)
(***************************************************************************)

CONSTANTS
    NodeCount,     \* nodes 1..NodeCount, in the order of their names
    MaxSessions,   \* max_concurrent_sessions of each
    StaleAfter,    \* heartbeat_stale_after_seconds of each, in ticks
    Scale,         \* what a free session weighs against a tick of freshness
    MaxClock,      \* bound: ticks
    MaxFlying      \* bound: snapshots under way at once

FleetNode == 1..NodeCount

ASSUME RegistryAssumption ==
    /\ NodeCount \in Nat \ {0}
    /\ MaxSessions \in [FleetNode -> Nat \ {0}]
    /\ StaleAfter \in [FleetNode -> Nat \ {0}]
    /\ {Scale, MaxClock, MaxFlying} \subseteq Nat

VARIABLES
    clock,     \* the time
    nodes,     \* what the registry holds of each node, or NotRegistered
    flying,    \* snapshots captured and not yet handed in
    newest,    \* history: the latest heartbeat handed in for each node
    down       \* history: nodes marked offline with no word of them since

registryVars == <<clock, nodes, flying, newest, down>>

-----------------------------------------------------------------------------
NotRegistered == [active |-> 0, beat |-> 0, peer |-> "absent"]

ClockTick ==
    /\ clock < MaxClock
    /\ clock' = clock + 1
    /\ UNCHANGED <<nodes, flying, newest, down>>

\* A node takes a snapshot of itself, with Tailscale's status or without.
Capture(n) ==
    /\ Cardinality(flying) < MaxFlying
    /\ \E active \in 0..MaxSessions[n], peer \in {"none", "online", "offline"} :
          flying' = flying \cup {[node |-> n, active |-> active, beat |-> clock, peer |-> peer]}
    /\ UNCHANGED <<clock, nodes, newest, down>>

Reported(s) == [active |-> s.active, beat |-> s.beat, peer |-> s.peer]
Heard(s) ==
    /\ newest' = [newest EXCEPT ![s.node] = IF s.beat > @ THEN s.beat ELSE @]
    /\ flying' = flying \ {s}

\* register and upsert replace all that is known of a node.
Register(s) ==
    /\ nodes' = [nodes EXCEPT ![s.node] = Reported(s)]
    /\ down' = down \ {s.node}
    /\ Heard(s)
    /\ UNCHANGED clock

\* Mutated form of Heartbeat: a snapshot without a status forgets the old one.
HeartbeatForgetting(s) ==
    /\ nodes[s.node] # NotRegistered
    /\ nodes' = [nodes EXCEPT ![s.node] = Reported(s)]
    /\ down' = IF s.peer = "none" THEN down ELSE down \ {s.node}
    /\ Heard(s)
    /\ UNCHANGED clock
\* A snapshot without a status keeps the status the registry has, and an older
\* snapshot replaces a newer one.
Heartbeat(s) ==
    /\ nodes[s.node] # NotRegistered
    /\ nodes' = [nodes EXCEPT ![s.node] =
                   [Reported(s) EXCEPT !.peer = IF s.peer = "none" THEN nodes[s.node].peer ELSE @]]
    /\ down' = IF s.peer = "none" THEN down ELSE down \ {s.node}
    /\ Heard(s)
    /\ UNCHANGED clock

MarkOffline(n) ==
    /\ nodes[n] # NotRegistered
    /\ nodes' = [nodes EXCEPT ![n].peer = "offline"]
    /\ down' = down \cup {n}
    /\ UNCHANGED <<clock, flying, newest>>

RemoveNode(n) ==
    /\ nodes' = [nodes EXCEPT ![n] = NotRegistered]
    /\ UNCHANGED <<clock, flying, newest, down>>

-----------------------------------------------------------------------------
(* Selection *)

Age(n) == clock - nodes[n].beat
\* Why a node is not eligible; the repository, the tool and the capabilities it
\* lacks are one reason.
Reasons(n, admitting) ==
    {why \in {"admission", "sessions", "heartbeat", "offline"} :
        CASE why = "admission" -> n \notin admitting
          [] why = "sessions" -> nodes[n].active >= MaxSessions[n]
          [] why = "heartbeat" -> Age(n) > StaleAfter[n]
          [] why = "offline" -> nodes[n].peer = "offline"}

Room(n) == MaxSessions[n] - nodes[n].active
Score(n) == Room(n) * Scale + StaleAfter[n] - Age(n)

\* Mutated form of Preferred: freshness counts before free sessions.
PreferredFresh(n, m) == Age(n) < Age(m) \/ (Age(n) = Age(m) /\ n <= m)
Preferred(n, m) == Score(n) > Score(m) \/ (Score(n) = Score(m) /\ n <= m)

\* The nodes that admit the request are looked at in order, the best one kept;
\* nothing is written, not even that the node will have a session more.
Registered == {n \in FleetNode : nodes[n] # NotRegistered}
FitFor(admitting) == {n \in Registered : Reasons(n, admitting) = {}}
Selected(admitting) ==
    CHOOSE n \in FitFor(admitting) : \A m \in FitFor(admitting) : Preferred(n, m)

\* What a reader of the registry's status is shown of a node, and in all: the
\* node that would be selected, the views, and the nodes said to be rejected.
View(n, admitting) ==
    [node |-> n, eligible |-> Reasons(n, admitting) = {}, reasons |-> Reasons(n, admitting),
     active |-> nodes[n].active, age |-> Age(n), peer |-> nodes[n].peer]
Rejected(admitting) == {n \in Registered : Reasons(n, admitting) # {}}
Description(admitting) ==
    [selected |-> IF FitFor(admitting) = {} THEN {} ELSE {View(Selected(admitting), admitting)},
     nodes |-> {View(n, admitting) : n \in Registered},
     rejections |-> Rejected(admitting)]

RegistryInit ==
    /\ clock = 0
    /\ nodes = [n \in FleetNode |-> NotRegistered]
    /\ flying = {}
    /\ newest = [n \in FleetNode |-> 0]
    /\ down = {}

RegistryNext ==
    \/ ClockTick
    \/ \E n \in FleetNode : Capture(n) \/ MarkOffline(n) \/ RemoveNode(n)
    \/ \E s \in flying : Register(s) \/ Heartbeat(s)

RegistrySpec == RegistryInit /\ [][RegistryNext]_registryVars

-----------------------------------------------------------------------------
(* Properties *)

RegistryTypeOK ==
    /\ clock \in 0..MaxClock
    /\ \A n \in FleetNode : nodes[n].active \in 0..MaxSessions[n] /\ nodes[n].beat \in 0..clock
    /\ \A s \in flying : s.node \in FleetNode /\ s.beat \in 0..clock
    /\ newest \in [FleetNode -> 0..MaxClock]
    /\ down \subseteq FleetNode

\* However late and in whatever order snapshots come in: a node shown as selected
\* has not been marked offline with no word of it since, it has been heard of
\* within its limit, no other eligible node has more sessions free, and what the
\* status says of the nodes adds up to the choice.
ChoiceIsSound ==
    \A admitting \in SUBSET Registered :
        LET shown == Description(admitting)
            eligible == {view \in shown.nodes : view.eligible}
        IN /\ (shown.selected = {}) = (eligible = {})
           /\ {view.node : view \in eligible} = Registered \ shown.rejections
           /\ \A best \in shown.selected :
                 /\ best \in eligible
                 /\ best.node \notin down
                 /\ clock - newest[best.node] <= StaleAfter[best.node]
                 /\ (\A n \in FleetNode : StaleAfter[n] < Scale) =>
                       \A view \in eligible : Room(view.node) <= Room(best.node)

-----------------------------------------------------------------------------
(***************************************************************************)
(* Routing of work to provider accounts under budgets and quotas           *)
(* (core/resource_broker.py).  The broker decides from snapshots of what    *)
(* was spent; what it routes is spent whether or not a later snapshot has   *)
(* seen it.  Capabilities are abstracted to the backends that have those a  *)
(* request needs; latency and names to the order of the backends.           *)
(***************************************************************************)

CONSTANTS
    BackendCount,   \* backends 1..BackendCount, by latency and name
    Provider,       \* provider accounts
    ProviderOf,     \* the account of each backend
    Cost,           \* estimated_cost_usd of each backend
    Budget,         \* monthly_budget_usd of each account, NoBudget for none
    NoBudget,
    Local,          \* local accounts
    Unusable,       \* accounts disabled, not configured, forbidden or not allowed
    PreferLocal,    \* prefer_local of the policy
    HardBudget,     \* hard_budget of the policy
    TaskMax,        \* max_spend_per_task_usd
    MonthMax,       \* max_spend_per_month_usd
    Quota,          \* units of quota each account has
    MaxSpend        \* bound: what is spent in all

Offer == 1..BackendCount

ASSUME BrokerAssumption ==
    /\ BackendCount \in Nat \ {0}
    /\ ProviderOf \in [Offer -> Provider]
    /\ Cost \in [Offer -> Nat]
    /\ NoBudget \notin Nat /\ Budget \in [Provider -> Nat \cup {NoBudget}]
    /\ Local \subseteq Provider /\ Unusable \subseteq Provider
    /\ PreferLocal \in BOOLEAN /\ HardBudget \in BOOLEAN
    /\ {TaskMax, MonthMax, MaxSpend} \subseteq Nat
    /\ Quota \in [Provider -> Nat]

VARIABLES
    outlay,     \* what has been spent on each account this month
    quotaLeft,  \* units of quota each account has left
    snapshots,  \* the latest snapshot of each account, or NoSnapshot
    unseen      \* history: what was routed to an account behind its snapshot's back

brokerVars == <<outlay, quotaLeft, snapshots, unseen>>

-----------------------------------------------------------------------------
NoSnapshot == [spent |-> 0, quota |-> 0, taken |-> FALSE]

Projected(b) == snapshots[ProviderOf[b]].spent + Cost[b]
Known(p) == snapshots[p].taken

\* Mutated form of OverAccount: the cost of the work itself is not counted.
OverAccountBefore(b) ==
    LET p == ProviderOf[b]
    IN Budget[p] # NoBudget /\ HardBudget /\ Known(p) /\ snapshots[p].spent >= Budget[p]
\* An account's budget may not be reached, the policy's may.
OverAccount(b) ==
    LET p == ProviderOf[b]
    IN Budget[p] # NoBudget /\ HardBudget /\ Known(p) /\ Projected(b) >= Budget[p]
OverPolicy(b) == HardBudget /\ Known(ProviderOf[b]) /\ Projected(b) > MonthMax

Runnable(b) ==
    LET p == ProviderOf[b]
    IN /\ p \notin Unusable
       /\ Cost[b] <= TaskMax
       /\ ~OverPolicy(b)
       /\ Budget[p] # NoBudget => Known(p)
       /\ ~OverAccount(b)
       /\ Known(p) => snapshots[p].quota > 0

Before(b, c) ==
    LET far(o) == IF PreferLocal /\ ProviderOf[o] \in Local THEN 0 ELSE 1
    IN \/ far(b) < far(c)
       \/ far(b) = far(c) /\ (Cost[b] < Cost[c] \/ (Cost[b] = Cost[c] /\ b <= c))

\* The best of the capable backends that may run, and the work done there.
RouteWork(capable) ==
    \E b \in {c \in capable : Runnable(c)} :
        LET p == ProviderOf[b]
        IN /\ \A c \in capable : Runnable(c) => Before(b, c)
           /\ outlay[p] + Cost[b] <= MaxSpend
           /\ outlay' = [outlay EXCEPT ![p] = @ + Cost[b]]
           /\ quotaLeft' = [quotaLeft EXCEPT ![p] = IF @ = 0 THEN 0 ELSE @ - 1]
           /\ unseen' = [unseen EXCEPT ![p] = @ + outlay[p] - snapshots[p].spent]
           /\ UNCHANGED snapshots

\* A broker is built again with a new snapshot of an account.
SnapshotAccount(p) ==
    /\ snapshots' = [snapshots EXCEPT ![p] =
                       [spent |-> outlay[p], quota |-> quotaLeft[p], taken |-> TRUE]]
    /\ UNCHANGED <<outlay, quotaLeft, unseen>>

BrokerInit ==
    /\ outlay = [p \in Provider |-> 0]
    /\ quotaLeft = Quota
    /\ snapshots = [p \in Provider |-> NoSnapshot]
    /\ unseen = [p \in Provider |-> 0]

BrokerNext ==
    \/ \E capable \in SUBSET Offer : RouteWork(capable)
    \/ \E p \in Provider : SnapshotAccount(p)

BrokerSpec == BrokerInit /\ [][BrokerNext]_brokerVars

-----------------------------------------------------------------------------
(* Properties *)

BrokerTypeOK ==
    /\ outlay \in [Provider -> 0..MaxSpend]
    /\ quotaLeft \in [Provider -> Nat]
    /\ \A p \in Provider : snapshots[p].spent \in 0..MaxSpend /\ snapshots[p].taken \in BOOLEAN
    /\ unseen \in [Provider -> Nat]

\* Under a hard budget an account is never filled, and the month's limit never
\* passed, by more than what its snapshots had not seen when work was routed to
\* it; nothing at all is routed to an account with a budget and no snapshot.
BudgetHoldsButForStaleness ==
    HardBudget =>
        \A p \in Provider :
            /\ Budget[p] # NoBudget /\ outlay[p] > 0 =>
                  Known(p) /\ outlay[p] < Budget[p] + unseen[p]
            /\ Known(p) /\ Budget[p] # NoBudget => outlay[p] <= MonthMax + unseen[p]

-----------------------------------------------------------------------------
(***************************************************************************)
(* Watching what is spent: CostAlerter tells people of a month that goes     *)
(* over its limit, at most once in a while, and CostEvaluator picks a model  *)
(* that what is left of the month pays for.                                  *)
(***************************************************************************)

CONSTANTS MonthlyLimit,   \* limits of a month, in dollars: {} for none, or one number
          PerTaskLimit,   \* what a task may cost: {} or one number of dollars
          Webhook,        \* whether there is a webhook to tell people by
          WarnPercent,    \* the warn multiplier: 110 in the code
          Debounce,       \* hours in which a level is not fired again
          MonthHours,     \* hours of a month
          TierModel,      \* tier_map: the models of some tiers
          DefaultModel,   \* the model that the router decides on
          CallPrice,      \* what a call of each model costs, by the task's length
          Spending,       \* what a run may cost
          MaxHour,        \* bound: hours watched
          MaxSpent        \* bound: no run is paid for beyond it in a month

ASSUME SpendAssumption ==
    /\ \A limit \in MonthlyLimit : limit \subseteq Nat
    /\ PerTaskLimit \subseteq Nat /\ Webhook \in BOOLEAN
    /\ MonthHours \in Nat \ {0} /\ {Debounce, WarnPercent, MaxHour, MaxSpent} \subseteq Nat

VARIABLES limitUsd,    \* the limit of the month
          hour,        \* hours since the watch began
          monthSpent,  \* CostLedger.month_to_date
          lastFired,   \* _last_fired: for each level {} or the hour it was fired
          fired,       \* the alerts that evaluate has returned, in order
          evaluated,   \* the last evaluation: its hour and its level
          advised      \* the last choice of a model

spendVars == <<limitUsd, hour, monthSpent, lastFired, fired, evaluated, advised>>

AlertLevel == {"warn", "breached"}
Tier == <<"simple", "moderate", "complex">>
NoAdvice == [tier |-> 0, model |-> DefaultModel, asked |-> 0, size |-> 1, left |-> 0]

SpendInit ==
    /\ limitUsd \in MonthlyLimit /\ hour = 0 /\ monthSpent = 0
    /\ lastFired = [level \in AlertLevel |-> {}] /\ fired = <<>>
    /\ evaluated = [at |-> 0, level |-> "none"]
    /\ advised = NoAdvice

-----------------------------------------------------------------------------
\* A run is paid for; an hour passes, and a month begins with nothing spent.
Spend ==
    /\ \E cost \in Spending : monthSpent' = monthSpent + cost
    /\ monthSpent < MaxSpent
    /\ UNCHANGED <<limitUsd, hour, lastFired, fired, evaluated, advised>>

HourPasses ==
    /\ hour < MaxHour
    /\ hour' = hour + 1
    /\ monthSpent' = IF hour' % MonthHours = 0 THEN 0 ELSE monthSpent
    /\ UNCHANGED <<limitUsd, lastFired, fired, evaluated, advised>>

\* forecast_month_end: what is spent, over the part of the month that has passed, which
\* counts as a minute at the least.  The forecast is over the warning when this holds.
MinutesIn == IF hour % MonthHours = 0 THEN 1 ELSE 60 * (hour % MonthHours)
ForecastWarns ==
    \E limit \in limitUsd :
        monthSpent * MonthHours * 60 * 100 >= limit * WarnPercent * MinutesIn

Level ==
    IF \E limit \in limitUsd : monthSpent >= limit THEN "breached"
    ELSE IF ForecastWarns THEN "warn" ELSE "none"

\* evaluate returns an alert unless there is no webhook or its level was fired within the
\* window, and notes at once that it has, whatever becomes of the alert.
Recent == {l \in AlertLevel : \E h \in lastFired[l] : hour - h < Debounce}
Mutes(level) == ~Webhook \/ level \notin AlertLevel \ Recent

\* Mutated form of Mutes: an alert of any level mutes the others.
MutesAll(level) == ~Webhook \/ level \notin AlertLevel \/ Recent # {}

EvaluateFires ==
    /\ ~Mutes(Level)
    /\ lastFired' = [lastFired EXCEPT ![Level] = {hour}]
    /\ fired' = Append(fired, [level |-> Level, at |-> hour])
    /\ evaluated' = [at |-> hour, level |-> Level]
    /\ UNCHANGED <<limitUsd, hour, monthSpent, advised>>

EvaluateIsQuiet ==
    /\ Mutes(Level)
    /\ evaluated' = [at |-> hour, level |-> Level]
    /\ UNCHANGED <<limitUsd, hour, monthSpent, lastFired, fired, advised>>

-----------------------------------------------------------------------------
\* token_budget_for_task: what is left of the month, or a hundred dollars if it has no
\* limit, and no more than a task may cost; a limit of nothing counts as none.
Least(S) == CHOOSE n \in S : \A m \in S : n <= m
Remaining ==
    IF limitUsd \ {0} = {} THEN {100}
    ELSE {IF monthSpent >= limit THEN 0 ELSE limit - monthSpent : limit \in limitUsd}
SafeAllocation == Least(Remaining \cup (PerTaskLimit \ {0}))

ModelOf(tier) == IF Tier[tier] \in DOMAIN TierModel THEN TierModel[Tier[tier]]
                 ELSE DefaultModel
EstCallCost(tier, size) == CallPrice[ModelOf(tier)] * size

\* choose_model: the model that the task names, or the tier that the task's complexity
\* asks for, or one below, or one below that, while what is left does not pay for a call.
Lowered(tier, from, size) ==
    IF tier = from /\ SafeAllocation < EstCallCost(tier, size) THEN tier - 1 ELSE tier
TierFor(asked, size) == Lowered(Lowered(asked, 3, size), 2, size)

ChooseModel ==
    /\ \E asked \in DOMAIN Tier, size \in {1, 2} :
          LET tier == TierFor(asked, size) IN
          advised' = [tier |-> tier, model |-> ModelOf(tier), asked |-> asked,
                      size |-> size, left |-> SafeAllocation]
    /\ UNCHANGED <<limitUsd, hour, monthSpent, lastFired, fired, evaluated>>

UseNamedModel ==
    /\ \E named \in DOMAIN CallPrice : advised' = [NoAdvice EXCEPT !.model = named]
    /\ UNCHANGED <<limitUsd, hour, monthSpent, lastFired, fired, evaluated>>

SpendNext ==
    \/ Spend \/ HourPasses
    \/ EvaluateFires \/ EvaluateIsQuiet
    \/ ChooseModel \/ UseNamedModel

SpendSpec == SpendInit /\ [][SpendNext]_spendVars

-----------------------------------------------------------------------------
\* Every variable keeps its type.
SpendTypeOK ==
    /\ hour \in 0..MaxHour /\ monthSpent \in Nat
    /\ \A l \in AlertLevel : lastFired[l] \in {{}} \cup {{h} : h \in 0..hour}
    /\ evaluated.level \in AlertLevel \cup {"none"} /\ evaluated.at <= hour
    /\ advised.tier \in 0..3

\* People are not told of one level twice within the window, and of an evaluation that
\* finds a level they are told, then or within the window before it.
AlertsAreSpaced ==
    /\ \A i, j \in DOMAIN fired :
          i < j /\ fired[i].level = fired[j].level =>
            fired[j].at - fired[i].at >= Debounce
    /\ evaluated.level \in AlertLevel /\ Webhook =>
          \E i \in DOMAIN fired :
             /\ fired[i].level = evaluated.level
             /\ fired[i].at <= evaluated.at
             /\ fired[i].at = evaluated.at \/ evaluated.at - fired[i].at < Debounce

\* The model chosen is of the best tier, up to the one asked for, whose call was paid for
\* by what was left when it was chosen, and of the simplest if none was.
AdviceIsPaidFor ==
    advised.tier # 0 =>
        LET Paid == {t \in 1..advised.asked : EstCallCost(t, advised.size) <= advised.left}
        IN  /\ advised.tier = IF Paid = {} THEN 1 ELSE CHOOSE t \in Paid : \A u \in Paid : u <= t
            /\ advised.model = ModelOf(advised.tier)

\* cost_alerter.py:78-79: escalating from a warning to a breach always fires.  A breach
\* at the end of a month mutes the one that follows the next month's warning.
EscalationFires ==
    evaluated.level = "breached" /\ Webhook => fired[Len(fired)].level = "breached"

-----------------------------------------------------------------------------
(***************************************************************************)
(* Which model a call is routed to: route_model picks one of a provider's    *)
(* catalogue by complexity, capabilities and latency; select_profile filters *)
(* the profiles that a policy allows, scores them for a task and orders      *)
(* them, the best first and the others to fall back on.                      *)
(*                                                                         *)
(* A complexity is counted in halves, so that 7 is between the tiers.        *)
(***************************************************************************)

CONSTANTS Catalogue,   \* catalogues of providers: sequences of models
          Required,    \* sets of capabilities that are asked for
          Profiles,    \* lists of profiles, in the order they are given
          RoutingPolicy,      \* routing policies
          Signature    \* signatures of tasks, and {} for none: the scorer's preset, too

VARIABLES routeAsked, routed,    \* a question to route_model, and its answer
          profilesAsked, decision   \* a question to select_profile, and its answer

routeVars == <<routeAsked, routed, profilesAsked, decision>>

RouteOption(name, caps, min) == [name |-> name, caps |-> caps, min |-> 2 * min]
NoRoute == [catalogue |-> <<>>]
NoDecision == [plan |-> <<>>, rejected |-> {}]

RoutesInit ==
    routeAsked = NoRoute /\ routed = 0 /\ profilesAsked = NoRoute /\ decision = NoDecision

-----------------------------------------------------------------------------
\* Neither keeps any state: a behaviour is one question and its answer.
NothingAsked == routeAsked = NoRoute /\ profilesAsked = NoRoute

\* _complexity_tier, by the highest complexity of the tier.
Ceiling(complexity) ==
    IF complexity <= 6 THEN 6 ELSE IF complexity <= 12 THEN 12 ELSE 20

Clamped(complexity) == IF complexity < 0 THEN 0 ELSE IF complexity > 20 THEN 20 ELSE complexity

Covering(catalogue, required) == {i \in DOMAIN catalogue : required \subseteq catalogue[i].caps}
CoverScore(option, required) == Cardinality(option.caps \cap required)

\* _min_complexity_for_capabilities: of the first model that has them all, or the top.
MinComplexity(catalogue, required) ==
    IF required = {} THEN 0
    ELSE IF Covering(catalogue, required) = {} THEN 14
    ELSE catalogue[Min(Covering(catalogue, required))].min

Effective(asked) ==
    LET least == MinComplexity(asked.catalogue, asked.required)
        own == Clamped(asked.complexity)
    IN  IF own >= least THEN own ELSE least

\* Mutated form of Effective: the capabilities raise no complexity.
EffectiveOwn(asked) == Clamped(asked.complexity)

\* _select_balanced: the last model that the complexity reaches, unless one within the
\* tier has more of what is required: then the first of those that have the most.
SelectBalanced(asked) ==
    LET models == asked.catalogue
        reached == {i \in DOMAIN models : models[i].min <= Effective(asked)}
        base == IF reached = {} THEN 1 ELSE Max(reached)
        CoverOf(i) == CoverScore(models[i], asked.required)
        within == {i \in DOMAIN models : models[i].min <= Ceiling(Effective(asked))}
        better == {i \in within : CoverOf(i) > CoverOf(base)}
        best == {i \in better : \A j \in better : CoverOf(j) <= CoverOf(i)}
    IN  IF better = {} THEN base ELSE Min(best)

RouteModel ==
    /\ NothingAsked
    /\ \E models \in Catalogue, complexity \in -1..21, required \in Required,
          latency \in {"fast", "balanced", "quality"} :
          routeAsked' = [catalogue |-> models, complexity |-> complexity,
                         required |-> required, latency |-> latency]
    /\ routed' = CASE routeAsked'.latency = "fast" -> 1
                   [] routeAsked'.latency = "quality" -> Len(routeAsked'.catalogue)
                   [] routeAsked'.latency = "balanced" -> SelectBalanced(routeAsked')
    /\ UNCHANGED <<profilesAsked, decision>>

-----------------------------------------------------------------------------
\* select_profile: a profile is allowed by the policy, and has the benchmark it asks for,
\* which is {} for a profile without one, and for one that is not a finite number.
Benched(profile, policy) ==
    \A least \in policy.minBench : \E score \in profile.bench : score >= least

Allowed(profile, policy) ==
    /\ profile.enabled
    /\ profile.deployment \in policy.deployments
    /\ policy.required \subseteq profile.caps
    /\ profile.cost <= policy.maxCost
    /\ profile.risk >= policy.risk
    /\ Benched(profile, policy)

\* RoutingScorer.score, in units that make it whole: of what the tokens cost, of quality,
\* which is taken from the cost, and of speed, weighed by the preset.
Weight(preset, profile) ==
    CASE preset = "economy" -> [cost |-> -10, quality |-> 1, speed |-> 1]
      [] preset = "premium" -> [cost |-> -1, quality |-> 10, speed |-> 1]
      [] preset = "balanced" -> [cost |-> -5, quality |-> 5, speed |-> 2]
      [] preset = "local-first" ->
            IF profile.deployment = "local" THEN [cost |-> 0, quality |-> 0, speed |-> 10]
            ELSE [cost |-> -1, quality |-> 1, speed |-> 0]

PolicyFit(profile, task) ==
    LET w == Weight(task.preset, profile)
        remote == profile.deployment = "remote"
    IN  w.cost * (IF remote THEN 6 * profile.cost * task.tokens ELSE 0)
        + w.quality * 2000 * profile.cost
        + w.speed * (IF remote THEN 3000 ELSE 6000)
        - (IF remote /\ task.interactive THEN 30000 ELSE 0)

\* With a scorer and a signature, those without a gap and the higher score first, else
\* the cheaper first; each sort keeps the order of equals, or goes by the id.
Gapless(profile, tasks) == \A task \in tasks : task.required \subseteq profile.caps

PlansBefore(profiles, tasks, i, j) ==
    IF tasks = {}
    THEN \/ profiles[i].cost < profiles[j].cost
         \/ profiles[i].cost = profiles[j].cost /\ profiles[i].id < profiles[j].id
    ELSE \E task \in tasks :
            \/ PolicyFit(profiles[i], task) > PolicyFit(profiles[j], task)
            \/ PolicyFit(profiles[i], task) = PolicyFit(profiles[j], task) /\ i < j

SelectProfile ==
    /\ NothingAsked
    /\ \E profiles \in Profiles, policy \in RoutingPolicy, tasks \in Signature :
          LET kept == {i \in DOMAIN profiles : /\ Allowed(profiles[i], policy)
                                               /\ Gapless(profiles[i], tasks)}
          IN  /\ profilesAsked' = [catalogue |-> profiles, policy |-> policy, tasks |-> tasks]
              /\ decision' = [plan |-> SortSeq(SetToSeq(kept),
                                               LAMBDA i, j : PlansBefore(profiles, tasks, i, j)),
                              rejected |-> DOMAIN profiles \ kept]
    /\ UNCHANGED <<routeAsked, routed>>

RoutesNext == RouteModel \/ SelectProfile

RoutesSpec == RoutesInit /\ [][RoutesNext]_routeVars

-----------------------------------------------------------------------------
\* Every variable keeps its type.
RoutesTypeOK ==
    /\ routed \in 0..Len(routeAsked.catalogue)
    /\ \A k \in DOMAIN decision.plan : decision.plan[k] \in DOMAIN profilesAsked.catalogue

\* Unless latency decides, a model that lacks a required capability is picked only if no
\* model of the catalogue has them all, however complex the task.
BalancedCovers ==
    routed # 0 /\ routeAsked.latency = "balanced"
    /\ Covering(routeAsked.catalogue, routeAsked.required) # {} =>
        routeAsked.required \subseteq routeAsked.catalogue[routed].caps

\* The plan falls back in the order of the scores, on profiles that the policy allows and
\* that lack nothing the task needs; a profile is in the plan once or is rejected.
PlanIsOrdered ==
    profilesAsked # NoRoute =>
        LET profiles == profilesAsked.catalogue
            plan == decision.plan
        IN  /\ \A k, l \in DOMAIN plan :
                  k < l => /\ plan[k] # plan[l]
                           /\ ~PlansBefore(profiles, profilesAsked.tasks, plan[l], plan[k])
            /\ \A k \in DOMAIN plan : Allowed(profiles[plan[k]], profilesAsked.policy)
            /\ DOMAIN profiles = decision.rejected \cup {plan[k] : k \in DOMAIN plan}
            /\ decision.rejected \cap {plan[k] : k \in DOMAIN plan} = {}

\* heuristic.py:26: "fast" picks the smallest model that meets the requirements.  The
\* code takes the first of the catalogue.
FastIsQualified ==
    routed # 0 /\ routeAsked.latency = "fast"
    /\ Covering(routeAsked.catalogue, routeAsked.required) # {} =>
        routeAsked.required \subseteq routeAsked.catalogue[routed].caps
=============================================================================
