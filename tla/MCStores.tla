------------------------------ MODULE MCStores ------------------------------
(***************************************************************************)
(* Instances for TLC of the components that keep records and limits: the   *)
(* audit log, request limits, the capability registry, the resource broker, *)
(* repository memory and its upkeep, work items and workspaces, state      *)
(* backups, tool calls and hooks, and task graphs; and of what goes before *)
(* a task and beside it: plans and their issues, cross-audits, recipes and *)
(* templates, what is spent and on which model, the tools of other servers, *)
(* workspaces with their hooks, evaluations.  They share no state, so a     *)
(* behaviour picks one of them and the others stay as they start.          *)
(***************************************************************************)
EXTENDS AuditLog, RequestLimits, Choices, RepoMemory, WorkRecords, StateBackup,
        ToolCalls, TaskGraphRun, MemoryUpkeep, Planning, Evidence, TLC

CONSTANTS e1, e2, p1, p2, w1, w2, i1, b1, s1, s2

VARIABLE active   \* the component that moves

StoresVars ==
    <<active, auditVars, limitVars, registryVars, brokerVars, memoryVars,
      recordVars, backupVars, toolVars, hookVars, graphVars, annealVars,
      cacheVars, ranked, runMemoryVars,
      directorVars, crossVars, recipeVars, spendVars, routeVars, serverVars,
      lifeVars, evalVars>>

\* Two nodes, the second with room for two sessions.
MCMaxSessions == <<1, 2>>
MCStaleAfter == <<1, 1>>

\* Two backends of an account with a budget, one of a local account without.
MCProviderOf == <<"cloud", "cloud", "local">>
MCCost == <<1, 2, 2>>
MCBudget == [p \in Provider |-> IF p = "cloud" THEN 4 ELSE NoBudget]
MCQuota == [p \in Provider |-> 3]

\* The second entry replaces the first, which is too long for a snapshot by itself.
MCCarries == p1 :> 1 @@ p2 :> 2
MCSupersedes == <<{}, {1}>>
MCTokens == <<2, 1>>

\* Two data directories, the first with an audit log.
MCOther == [p \in Place |-> IF p = p1 THEN {"audit"} ELSE {}]

\* A call with two hooks before and two after, an unknown tool, one that the policy
\* of read-only tools (ToolPolicy.readonly_default) denies because it is not
\* classified, and one whose registry only suggests.
MCSpecOf == [c \in ToolCall |->
              [capabilities |-> IF c = "denied" THEN {} ELSE {"repo_read"},
               risk |-> 0, approval |-> FALSE]]
MCPolicy == [deniedTools |-> {}, allowedTools |-> ToolCall, deniedCapabilities |-> {},
             allowedCapabilities |-> {"repo_read", "file_read", "github_read"},
             unclassified |-> FALSE, risk |-> 0]
MCPreHooks == [c \in ToolCall |-> IF c = "hooked" THEN 2 ELSE 0]
MCPostHooks == [c \in ToolCall |-> IF c = "hooked" THEN 2 ELSE 0]
MCApprovalTier == [c \in ToolCall |-> IF c = "suggested" THEN "suggest" ELSE "full-auto"]

\* A diamond with a node whose inputs come from two others, and a cycle.
MCGraphs ==
    {[planner |-> NodeOf({}, {}, "plan"),
      implementer |-> NodeOf({"planner"}, {"plan"}, "diff"),
      implement_qa |-> NodeOf({"planner"}, {"diff"}, "diff"),
      qa |-> NodeOf({"implement_qa", "implementer"}, {"diff"}, "handoff")],
     [planner |-> NodeOf({"qa"}, {}, "plan"), qa |-> NodeOf({"planner"}, {}, "plan")]}

\* Two models of one width; scores of three texts.
MCModel == {[name |-> "small", dimensions |-> 3], [name |-> "large", dimensions |-> 3]}
MCFts == b1 :> 0 @@ s1 :> 2 @@ s2 :> 3
MCCos == b1 :> 4 @@ s1 :> 1 @@ s2 :> -1

\* Every issue has a term of every other.
MCRelated == [t \in MemoryTask |-> MemoryTask]

\* Plans of one story: three tasks with every choice of what each depends on, a task
\* twice among them, and plans that are not well formed.
EntityOf(id, under, needs) == [id |-> id, under |-> under, needs |-> needs]
PlanOf(needs) ==
    [epics |-> <<EntityOf("e", "", <<>>)>>, stories |-> <<EntityOf("s", "e", <<>>)>>,
     tasks |-> [i \in DOMAIN needs |-> EntityOf(<<"t", "u", "v">>[i], "s", needs[i])]]
MCNeeds == {<<>>, <<"t">>, <<"u">>, <<"v">>, <<"v", "t">>, <<"u", "v">>, <<"u", "u">>}
MCPlan ==
    {PlanOf(<<a, b, c>>) : a, b, c \in MCNeeds}
    \cup {PlanOf(<<>>), PlanOf(<<<<"w">>>>),
          [PlanOf(<<<<>>>>) EXCEPT !.stories[1].under = "f"],
          [PlanOf(<<<<>>>>) EXCEPT !.tasks[1].under = "e"],
          [PlanOf(<<<<>>>>) EXCEPT !.tasks[1].id = "s"]}
MCEarlier == {PlanOf(<<<<"u">>, <<"t">>, <<"u">>>>)}

\* Two enabled backends, the first without tools, and three contents, two of a view.
MCEnabled == <<"plain", "tools">>
MCContent == {[text |-> "a", view |-> "a"], [text |-> "A", view |-> "a"],
              [text |-> "b", view |-> "b"]}

\* A recipe with a parameter of every sort, and directories with one file that cannot
\* be used; a template of the program's own, and files for it and for another.
ParameterOf(type, required, default) ==
    [type |-> type, required |-> required, default |-> default]
MCRecipe ==
    [kind |-> "recipe",
     parameters |-> [path |-> ParameterOf("string", TRUE, {}),
                     runs |-> ParameterOf("integer", FALSE, {"three"}),
                     rate |-> ParameterOf("number", FALSE, {"text"}),
                     dry |-> ParameterOf("boolean", FALSE, {})],
     instructions |-> [i \in 1..5 |->
        [kind |-> IF i = 5 THEN "text" ELSE "placeholder",
         name |-> <<"path", "runs", "dry", "typo", "">>[i]]]]
MCFolder ==
    {<<>>, <<[kind |-> "malformed"], MCRecipe>>, <<MCRecipe, [kind |-> "unreadable"]>>,
     <<[kind |-> "other"]>>}
MCKindOf == [text |-> "str", three |-> "int", half |-> "float", yes |-> "bool"]
MCTemplateFolder ==
    {<<>>, <<[kind |-> "broken"], [kind |-> "template", id |-> "audit"]>>,
     <<[kind |-> "template", id |-> "own"], [kind |-> "template", id |-> "own"]>>}
RecipesAtRest == folder = <<>> /\ templates = TemplatesOf(<<>>)

\* A month of three hours with a limit, without one and with a limit of nothing; calls
\* that a month's end does not pay for, and a tier without a model of its own.
MCMonthlyLimit == {{}, {0}, {5}}
MCTierModel == [simple |-> "haiku", complex |-> "opus"]
MCCallPrice == [haiku |-> 1, sonnet |-> 2, opus |-> 3]
SpendAtRest == limitUsd = {}

\* The catalogues of the code, and one whose tiers leave out what the next has.
MCCatalogue ==
    {<<RouteOption("haiku", {"tools", "code"}, 0),
       RouteOption("sonnet", {"tools", "code", "vision", "long"}, 4),
       RouteOption("opus", {"tools", "code", "vision", "long"}, 7)>>,
     <<RouteOption("mini", {"tools", "code", "vision"}, 0),
       RouteOption("gpt-4o", {"tools", "code", "vision", "long"}, 4),
       RouteOption("o1", {"tools", "code", "long"}, 7)>>,
     <<RouteOption("coder", {"tools", "code"}, 0), RouteOption("small", {"tools", "code"}, 0),
       RouteOption("large", {"tools", "code", "long"}, 4)>>}
MCRequired == SUBSET {"tools", "vision", "long", "audio"}

\* Profiles that differ in what a policy looks at, two of them equal but for their ids.
ProfileOf(id, deployment, cost, risk, bench) ==
    [id |-> id, enabled |-> TRUE, deployment |-> deployment, caps |-> {"code"},
     cost |-> cost, risk |-> risk, bench |-> bench]
MCProfile ==
    {ProfileOf(2, "local", 0, 1, {4}), ProfileOf(1, "remote", 1, 2, {}),
     ProfileOf(3, "remote", 3, 2, {6}),
     [ProfileOf(4, "remote", 1, 2, {5}) EXCEPT !.caps = {"code", "vision"}],
     [ProfileOf(5, "remote", 1, 1, {5}) EXCEPT !.enabled = FALSE]}
MCProfiles == {ps \in MCProfile \X MCProfile \X MCProfile :
                  Cardinality({ps[1], ps[2], ps[3]}) = 3}
MCRoutingPolicy ==
    [deployments : {{"local", "remote"}, {"remote"}}, required : {{}, {"vision"}},
     maxCost : {1, 3}, risk : {1, 2}, minBench : {{}, {5}}]
MCSignature ==
    {{}} \cup {{task} : task \in [preset : {"economy", "balanced", "premium", "local-first"},
                                required : {{}}, tokens : {2}, interactive : BOOLEAN]}
               \cup {{[preset |-> "balanced", required |-> {"vision"}, tokens |-> 2,
                       interactive |-> FALSE]}}

\* Four servers: two whose names and tools make one name, one that is off, and one whose
\* transport lacks its address.
ServerCalled(name, enabled, url) ==
    [name |-> name, enabled |-> enabled, transport |-> "http", command |-> FALSE, url |-> url]
MCServerOf == <<ServerCalled("a", TRUE, TRUE), ServerCalled("a__b", TRUE, TRUE),
                ServerCalled("c", FALSE, TRUE), ServerCalled("d", TRUE, FALSE)>>
MCOffers == {<<"b__x", "y">>, <<"x", "y", "x">>}
MCFullName ==
    [pair \in {"a", "a__b"} \X {"b__x", "x", "y"} |-> pair[1] \o "__" \o pair[2]]

\* Workspaces with hooks, without, and with those of the daemon.
HooksWith(create, before, after) ==
    [after_create |-> create, before_run |-> before, after_run |-> after,
     before_remove |-> 1]
MCHookFile == {{}, {HooksWith(1, 2, 1)}, {HooksWith(1, 0, 0)}}
MCGlobalHooks == HooksWith(1, 1, 1)
LifeAtRest == \A t \in LocalTask : directory[t].hooks = {}

\* Two starters, and a suite of a file, which requires no checks.
MCScenario == <<[id |-> "s1", checks |-> 1, artifacts |-> 1],
                [id |-> "s2", checks |-> 2, artifacts |-> 0],
                [id |-> "y1", checks |-> 0, artifacts |-> 1]>>
MCAsk == {<<>>, <<"s2">>, <<"s1", "s1">>, <<"y1", "typo">>}
MCWeights == [acceptance |-> 40, checks |-> 25, minimality |-> 15, tests |-> 10,
              artifacts |-> 10]

StoresInit ==
    /\ active \in {"audit", "limits", "registry", "broker", "memory",
                  "items", "records", "backup", "tools", "hooks", "graphs", "anneal",
                  "cache", "rank", "episodes", "director", "cross", "recipes",
                  "spend", "routes", "servers", "clones", "checkouts", "evals"}
    /\ active # "hooks" => hookFile = [s \in HookSection |-> "absent"]
    /\ active # "cache" => model = (CHOOSE m \in Model : TRUE)
    /\ AuditInit /\ LimitInit /\ RegistryInit /\ BrokerInit /\ MemoryInit
    /\ RecordsInit /\ BackupInit /\ ToolInit /\ HookInit /\ GraphInit
    /\ AnnealInit /\ CacheInit /\ RankInit /\ RunMemoryInit
    /\ DirectorInit /\ CrossInit /\ RecipesInit
    /\ SpendInit /\ RoutesInit /\ ServersInit /\ LifeInit /\ EvalInit
    /\ active # "recipes" => RecipesAtRest
    /\ active # "spend" => SpendAtRest
    /\ active # "checkouts" => LifeAtRest

\* What is planned and what equips a run, and what keeps records and limits.
PlanningStays ==
    UNCHANGED <<directorVars, crossVars, recipeVars, spendVars, routeVars,
                serverVars, lifeVars, evalVars>>
StoresStay ==
    UNCHANGED <<auditVars, limitVars, registryVars, brokerVars, memoryVars,
                recordVars, backupVars, toolVars, hookVars, graphVars,
                annealVars, cacheVars, ranked, runMemoryVars>>

StoresNext ==
    /\ UNCHANGED active
    /\ \/ active = "audit" /\ AuditNext /\ PlanningStays
          /\ UNCHANGED <<limitVars, registryVars, brokerVars, memoryVars,
                         recordVars, backupVars, toolVars, hookVars, graphVars,
                         annealVars, cacheVars, ranked, runMemoryVars>>
       \/ active = "limits" /\ LimitNext /\ PlanningStays
          /\ UNCHANGED <<auditVars, registryVars, brokerVars, memoryVars,
                         recordVars, backupVars, toolVars, hookVars, graphVars,
                         annealVars, cacheVars, ranked, runMemoryVars>>
       \/ active = "registry" /\ RegistryNext /\ PlanningStays
          /\ UNCHANGED <<auditVars, limitVars, brokerVars, memoryVars,
                         recordVars, backupVars, toolVars, hookVars, graphVars,
                         annealVars, cacheVars, ranked, runMemoryVars>>
       \/ active = "broker" /\ BrokerNext /\ PlanningStays
          /\ UNCHANGED <<auditVars, limitVars, registryVars, memoryVars,
                         recordVars, backupVars, toolVars, hookVars, graphVars,
                         annealVars, cacheVars, ranked, runMemoryVars>>
       \/ active = "memory" /\ MemoryNext /\ PlanningStays
          /\ UNCHANGED <<auditVars, limitVars, registryVars, brokerVars,
                         recordVars, backupVars, toolVars, hookVars, graphVars,
                         annealVars, cacheVars, ranked, runMemoryVars>>
       \/ /\ \/ active = "items" /\ ItemsNext
             \/ active = "records" /\ WriterNext
          /\ PlanningStays
          /\ UNCHANGED <<auditVars, limitVars, registryVars, brokerVars,
                         memoryVars, backupVars, toolVars, hookVars, graphVars,
                         annealVars, cacheVars, ranked, runMemoryVars>>
       \/ active = "backup" /\ BackupNext /\ PlanningStays
          /\ UNCHANGED <<auditVars, limitVars, registryVars, brokerVars,
                         memoryVars, recordVars, toolVars, hookVars, graphVars,
                         annealVars, cacheVars, ranked, runMemoryVars>>
       \/ active = "tools" /\ ToolNext /\ PlanningStays
          /\ UNCHANGED <<auditVars, limitVars, registryVars, brokerVars,
                         memoryVars, recordVars, backupVars, hookVars,
                         graphVars, annealVars, cacheVars, ranked,
                         runMemoryVars>>
       \/ active = "hooks" /\ HookNext /\ PlanningStays
          /\ UNCHANGED <<auditVars, limitVars, registryVars, brokerVars,
                         memoryVars, recordVars, backupVars, toolVars,
                         graphVars, annealVars, cacheVars, ranked,
                         runMemoryVars>>
       \/ active = "graphs" /\ GraphNext /\ PlanningStays
          /\ UNCHANGED <<auditVars, limitVars, registryVars, brokerVars,
                         memoryVars, recordVars, backupVars, toolVars,
                         hookVars, annealVars, cacheVars, ranked, runMemoryVars>>
       \/ active = "anneal" /\ AnnealNext /\ PlanningStays
          /\ UNCHANGED <<auditVars, limitVars, registryVars, brokerVars,
                         memoryVars, recordVars, backupVars, toolVars,
                         hookVars, graphVars, cacheVars, ranked, runMemoryVars>>
       \/ active = "cache" /\ CacheNext /\ PlanningStays
          /\ UNCHANGED <<auditVars, limitVars, registryVars, brokerVars,
                         memoryVars, recordVars, backupVars, toolVars,
                         hookVars, graphVars, annealVars, ranked, runMemoryVars>>
       \/ active = "rank" /\ RankNext /\ PlanningStays
          /\ UNCHANGED <<auditVars, limitVars, registryVars, brokerVars,
                         memoryVars, recordVars, backupVars, toolVars,
                         hookVars, graphVars, annealVars, cacheVars,
                         runMemoryVars>>
       \/ active = "episodes" /\ RunMemoryNext /\ PlanningStays
          /\ UNCHANGED <<auditVars, limitVars, registryVars, brokerVars,
                         memoryVars, recordVars, backupVars, toolVars,
                         hookVars, graphVars, annealVars, cacheVars, ranked>>
       \/ active = "director" /\ DirectorNext /\ StoresStay
          /\ UNCHANGED <<crossVars, recipeVars, spendVars, routeVars,
                         serverVars, lifeVars, evalVars>>
       \/ active = "cross" /\ CrossNext /\ StoresStay
          /\ UNCHANGED <<directorVars, recipeVars, spendVars, routeVars,
                         serverVars, lifeVars, evalVars>>
       \/ active = "recipes" /\ RecipesNext /\ StoresStay
          /\ UNCHANGED <<directorVars, crossVars, spendVars, routeVars,
                         serverVars, lifeVars, evalVars>>
       \/ active = "spend" /\ SpendNext /\ StoresStay
          /\ UNCHANGED <<directorVars, crossVars, recipeVars, routeVars,
                         serverVars, lifeVars, evalVars>>
       \/ active = "routes" /\ RoutesNext /\ StoresStay
          /\ UNCHANGED <<directorVars, crossVars, recipeVars, spendVars,
                         serverVars, lifeVars, evalVars>>
       \/ active = "servers" /\ ServersNext /\ StoresStay
          /\ UNCHANGED <<directorVars, crossVars, recipeVars, spendVars,
                         routeVars, lifeVars, evalVars>>
       \/ /\ \/ active = "clones" /\ \E t \in HookTask : LifeStep(t)
             \/ active = "checkouts" /\ \E t \in LocalTask : LifeStep(t)
          /\ StoresStay
          /\ UNCHANGED <<directorVars, crossVars, recipeVars, spendVars,
                         routeVars, serverVars, evalVars>>
       \/ active = "evals" /\ EvalNext /\ StoresStay
          /\ UNCHANGED <<directorVars, crossVars, recipeVars, spendVars,
                         routeVars, serverVars, lifeVars>>

StoresSpec == StoresInit /\ [][StoresNext]_StoresVars

-----------------------------------------------------------------------------
\* Every variable of these components keeps its type.
StoresTypeOK ==
    /\ AuditTypeOK /\ LimitTypeOK /\ RegistryTypeOK /\ BrokerTypeOK
    /\ MemoryTypeOK /\ RecordsTypeOK /\ BackupTypeOK /\ ToolTypeOK
    /\ GraphTypeOK /\ UpkeepTypeOK /\ RunMemoryTypeOK
    /\ DirectorTypeOK /\ CrossTypeOK /\ RecipesTypeOK /\ SpendTypeOK
    /\ RoutesTypeOK /\ ServersTypeOK /\ LifeTypeOK /\ EvalTypeOK

\* What is recorded can be relied on: the audit log's chain shows every wound, an
\* accepted proposal is remembered and a snapshot shows what is in force, every
\* row can be read back and checkpoints are counted, an artifact that is recorded
\* exists in a restored backup, a completed graph has every output in the store,
\* no log is purged before it was digested, and what a run is shown of earlier
\* ones is of runs that worked; the issues of a plan name each other in the order
\* they are opened and none is missing, a cross-audit reports every target, and
\* evidence about the agents is of whole runs and honest cycles.
HistoryIsKept ==
    /\ ChainHolds
    /\ AcceptedIsRemembered /\ SnapshotIsSound
    /\ RowsCanBeRead /\ CheckpointsAreCounted
    /\ RecordedArtifactsExist
    /\ CompletedIsComplete /\ TemplatesFindTheirInputs
    /\ DigestedBeforePurged
    /\ TaughtByWhatWorked /\ PadIsOfThisAttempt
    /\ IssuesReferBack /\ NothingIsDropped
    /\ AuditIsWhole /\ BoardIsOfWholeRuns /\ GreenWasRed

\* What is decided rests on what holds: requests stay within their limits, work
\* goes to nodes and backends that can take it and within an account's budget but
\* for what its snapshot had not seen, a tool's record is true of its call, no
\* hook is dropped, an embedding is of the model in force, and a rank does not
\* depend on the scale of its scores; a plan is refused exactly for what is wrong
\* with it, an invocation of a recipe is given what the recipe declares, people
\* are told of a month that goes over its limit and not too often, a model is
\* chosen that is paid for, that can do what is required and that the policy
\* allows, a tool's name means one tool in every loop, no task runs past a
\* before_run hook that failed nor, in a clone its own attempt made, past an
\* after_create hook, and an evaluation that passes its checks is passed.
ChoicesAreSound ==
    /\ LimitsHold /\ ChoiceIsSound /\ BudgetHoldsButForStaleness
    /\ ToolRecordsAreTrue /\ GatesAreNotDropped
    /\ VectorsAreOfTheirModel /\ RankIgnoresScale
    /\ PlanIsJudged /\ InvocationsAreDeclared /\ BuiltinsAreOffered
    /\ AlertsAreSpaced /\ AdviceIsPaidFor /\ BalancedCovers /\ PlanIsOrdered
    /\ NamesMeanOneTool /\ ToolsAreOfTheirServer
    /\ RunsAreHooked /\ FreshCloneIsPrepared /\ ChecksSuffice

\* A workspace moves along its table, and a completed graph stays completed
\* unless somebody starts or creates it anew.
RecordsMoveLegally == WorkspaceMovesAlongTable /\ CompletedIsKept
=============================================================================
