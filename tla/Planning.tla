------------------------------ MODULE Planning ------------------------------
(***************************************************************************)
(* Before there is a task: a vision becomes a plan and the plan issues on  *)
(* GitHub, and recipes and templates are read from files and invoked.      *)
(***************************************************************************)
EXTENDS Naturals, Sequences, FiniteSets

-----------------------------------------------------------------------------
(***************************************************************************)
(* From a vision to GitHub issues: Director.plan asks a decomposer (a model, *)
(* so the answer can be anything) and validates what it answers;             *)
(* materialise_plan creates an issue for every epic, story and task, tasks   *)
(* after the tasks they depend on.                                           *)
(*                                                                         *)
(* An entity is [id, under, needs]: its id, the id of its parent ("" for an  *)
(* epic) and the ids its depends_on names (tasks only).  Searching for a     *)
(* cycle and sorting are loops without an await: one iteration is one step,  *)
(* and no other action reads what they write.                                *)
(***************************************************************************)

CONSTANTS Plan,        \* decompositions the decomposer may answer
          Earlier,     \* decompositions a caller has from elsewhere
          MaxTries,    \* bound: calls of materialise_plan
          MaxOthers    \* bound: issues other people open meanwhile

VARIABLES planStage,   \* where the caller is: see Stages
          draft,       \* the decomposition in hand
          validated,   \* validate() has returned for it
          colour, stack,            \* of the search for a cycle
          waiting, ready, ordered,  \* of the sort: in_degree, ready, ordered
          queue,       \* entities the loop under way has yet to create
          numbers,     \* the mapping from ids to issue numbers
          planTries,   \* calls of materialise_plan so far
          issues       \* the repository's issues, by number

searchVars == <<colour, stack>>
sortVars == <<waiting, ready, ordered>>
issueVars == <<queue, numbers, planTries, issues>>
directorVars == <<planStage, draft, validated, searchVars, sortVars, issueVars>>

Stages == {"idle", "searching", "planned", "refused", "parents", "sorting",
           "tasks", "done", "failed"}

NoFunction == [x \in {} |-> 0]
IdsOf(entities) == {entities[i].id : i \in DOMAIN entities}
IdSequence(entities) == [i \in DOMAIN entities |-> entities[i].id]
EntitiesOf(p) == p.epics \o p.stories \o p.tasks
TaskNamed(p, id) == p.tasks[CHOOSE i \in DOMAIN p.tasks : p.tasks[i].id = id]
Elements(s) == {s[i] : i \in DOMAIN s}

\* _check_unique_ids, per level and over all of them.
UniqueIds(ids) == \A i, j \in DOMAIN ids : ids[i] = ids[j] => i = j

\* What Decomposition.validate checks before it looks for cycles.
WellFormed(p) ==
    /\ UniqueIds(IdSequence(EntitiesOf(p)))
    /\ \A i \in DOMAIN p.stories : p.stories[i].under \in IdsOf(p.epics)
    /\ \A i \in DOMAIN p.tasks :
          /\ p.tasks[i].under \in IdsOf(p.stories)
          /\ Elements(p.tasks[i].needs) \subseteq IdsOf(p.tasks)

DirectorInit ==
    /\ planStage = "idle" /\ draft = [epics |-> <<>>, stories |-> <<>>, tasks |-> <<>>]
    /\ validated = FALSE
    /\ colour = NoFunction /\ stack = <<>>
    /\ waiting = NoFunction /\ ready = <<>> /\ ordered = <<>>
    /\ queue = <<>> /\ numbers = NoFunction /\ planTries = 0
    /\ issues = <<>>

-----------------------------------------------------------------------------
\* A blank vision, a decomposer that raises, and an answer that is not well formed
\* end the call.
PlanRefused ==
    /\ planStage = "idle"
    /\ planStage' = "refused"
    /\ \/ UNCHANGED draft
       \/ \E p \in Plan : ~WellFormed(p) /\ draft' = p
    /\ UNCHANGED <<validated, searchVars, sortVars, issueVars>>

PlanAnswered ==
    /\ planStage = "idle"
    /\ \E p \in Plan :
          /\ WellFormed(p)
          /\ draft' = p
          /\ colour' = [t \in IdsOf(p.tasks) |-> "white"]
    /\ planStage' = "searching"
    /\ UNCHANGED <<validated, stack, sortVars, issueVars>>

\* A caller can materialise a decomposition of its own, which nobody validated; ids
\* that name two entities are left out.
PlanHandedOver ==
    /\ planStage = "idle"
    /\ \E p \in Earlier : WellFormed(p) /\ draft' = p
    /\ planStage' = "planned"
    /\ UNCHANGED <<validated, searchVars, sortVars, issueVars>>

\* _check_no_cycles: depth first from the first task that is still white, by colours.
Frame(id) == [node |-> id, pending |-> TaskNamed(draft, id).needs]

Push(id) ==
    /\ colour' = [colour EXCEPT ![id] = "grey"]
    /\ stack' = Append(stack, Frame(id))

SearchFrom ==
    /\ planStage = "searching" /\ stack = <<>>
    /\ \E i \in DOMAIN draft.tasks :
          /\ colour[draft.tasks[i].id] = "white"
          /\ \A j \in 1..(i - 1) : colour[draft.tasks[j].id] # "white"
          /\ Push(draft.tasks[i].id)
    /\ UNCHANGED <<planStage, draft, validated, sortVars, issueVars>>

SearchTop == stack[Len(stack)]
Searching == planStage = "searching" /\ stack # <<>>

SearchBack ==
    /\ Searching /\ SearchTop.pending = <<>>
    /\ colour' = [colour EXCEPT ![SearchTop.node] = "black"]
    /\ stack' = SubSeq(stack, 1, Len(stack) - 1)
    /\ UNCHANGED <<planStage, draft, validated, sortVars, issueVars>>

\* Mutated form of Follow: two colours, so that a task reached before counts as a cycle.
FollowTwoColours(nxt) ==
    LET rest == [stack EXCEPT ![Len(stack)].pending = SubSeq(@, 1, Len(@) - 1)]
    IN  \/ /\ colour[nxt] # "white"
           /\ planStage' = "refused" /\ stack' = <<>> /\ UNCHANGED colour
        \/ /\ colour[nxt] = "white"
           /\ stack' = Append(rest, Frame(nxt))
           /\ colour' = [colour EXCEPT ![nxt] = "grey"]
           /\ UNCHANGED planStage

\* The dependency that is looked at is the last of those pending.
Follow(nxt) ==
    LET rest == [stack EXCEPT ![Len(stack)].pending = SubSeq(@, 1, Len(@) - 1)]
    IN  \/ /\ colour[nxt] = "grey"
           /\ planStage' = "refused" /\ stack' = <<>> /\ UNCHANGED colour
        \/ /\ colour[nxt] = "white"
           /\ stack' = Append(rest, Frame(nxt))
           /\ colour' = [colour EXCEPT ![nxt] = "grey"]
           /\ UNCHANGED planStage
        \/ /\ colour[nxt] = "black"
           /\ stack' = rest /\ UNCHANGED <<planStage, colour>>

SearchOn ==
    /\ Searching /\ SearchTop.pending # <<>>
    /\ Follow(SearchTop.pending[Len(SearchTop.pending)])
    /\ UNCHANGED <<draft, validated, sortVars, issueVars>>

PlanValidated ==
    /\ planStage = "searching" /\ stack = <<>>
    /\ \A id \in DOMAIN colour : colour[id] # "white"
    /\ planStage' = "planned" /\ validated' = TRUE
    /\ UNCHANGED <<draft, searchVars, sortVars, issueVars>>

-----------------------------------------------------------------------------
\* materialise_plan: epics, then stories.  A caller whose call failed may call again,
\* with an empty mapping.
Materialise ==
    /\ planStage \in {"planned", "failed"} /\ planTries < MaxTries
    /\ planStage' = "parents" /\ planTries' = planTries + 1
    /\ queue' = draft.epics \o draft.stories
    /\ numbers' = NoFunction
    /\ UNCHANGED <<draft, validated, searchVars, sortVars, issues>>

\* _story_body and _task_body: the issues that the mapping knows.
IssueOf(entity) ==
    [of |-> entity.id, try |-> planTries,
     partOf |-> {numbers[id] : id \in {entity.under} \cap DOMAIN numbers},
     dependsOn |-> {numbers[id] : id \in Elements(entity.needs) \cap DOMAIN numbers}]

CreateIssue ==
    /\ planStage \in {"parents", "tasks"} /\ queue # <<>>
    /\ issues' = Append(issues, IssueOf(Head(queue)))
    /\ numbers' = [id \in DOMAIN numbers \cup {Head(queue).id} |->
                      IF id = Head(queue).id THEN Len(issues) + 1 ELSE numbers[id]]
    /\ queue' = Tail(queue)
    /\ UNCHANGED <<planStage, draft, validated, searchVars, sortVars, planTries>>

\* The call raises, before or after GitHub has made the issue: the mapping is lost.
CreateIssueFails ==
    /\ planStage \in {"parents", "tasks"} /\ queue # <<>>
    /\ planStage' = "failed"
    /\ issues' \in {issues, Append(issues, IssueOf(Head(queue)))}
    /\ queue' = <<>> /\ numbers' = NoFunction
    /\ UNCHANGED <<draft, validated, searchVars, sortVars, planTries>>

\* _tasks_in_topo_order: how often a task names another, and the tasks without one.
Times(id, dep) ==
    LET needs == TaskNamed(draft, id).needs
    IN  Cardinality({i \in DOMAIN needs : needs[i] = dep})

InPlanOrder(P) == SelectSeq(IdSequence(draft.tasks), LAMBDA id : id \in P)

\* Mutated form of SortTasks: a dependency that is named twice counts once.
SortTasksOnce ==
    /\ planStage = "parents" /\ queue = <<>>
    /\ planStage' = "sorting"
    /\ waiting' = [id \in IdsOf(draft.tasks) |->
                      Cardinality(Elements(TaskNamed(draft, id).needs))]
    /\ ready' = InPlanOrder({id \in IdsOf(draft.tasks) : TaskNamed(draft, id).needs = <<>>})
    /\ ordered' = <<>>
    /\ UNCHANGED <<draft, validated, searchVars, queue, numbers, planTries, issues>>

SortTasks ==
    /\ planStage = "parents" /\ queue = <<>>
    /\ planStage' = "sorting"
    /\ waiting' = [id \in IdsOf(draft.tasks) |-> Len(TaskNamed(draft, id).needs)]
    /\ ready' = InPlanOrder({id \in IdsOf(draft.tasks) : TaskNamed(draft, id).needs = <<>>})
    /\ ordered' = <<>>
    /\ UNCHANGED <<draft, validated, searchVars, issueVars>>

\* One round of the sort: the first task that is ready releases those that only
\* waited for it.
Released(id) ==
    {c \in IdsOf(draft.tasks) : Times(c, id) > 0 /\ waiting[c] = Times(c, id)}

TakeReady ==
    /\ planStage = "sorting" /\ ready # <<>>
    /\ LET id == Head(ready)
       IN  /\ ordered' = Append(ordered, id)
           /\ waiting' = [c \in DOMAIN waiting |-> waiting[c] - Times(c, id)]
           /\ ready' = Tail(ready) \o InPlanOrder(Released(id))
    /\ UNCHANGED <<planStage, draft, validated, searchVars, issueVars>>

\* Tasks on a cycle come last, in the order of the plan.
Sorted == ordered \o InPlanOrder(IdsOf(draft.tasks) \ Elements(ordered))

TasksSorted ==
    /\ planStage = "sorting" /\ ready = <<>>
    /\ planStage' = "tasks"
    /\ queue' = [i \in DOMAIN Sorted |-> TaskNamed(draft, Sorted[i])]
    /\ UNCHANGED <<draft, validated, searchVars, sortVars, numbers, planTries, issues>>

PlanMaterialised ==
    /\ planStage = "tasks" /\ queue = <<>>
    /\ planStage' = "done"
    /\ UNCHANGED <<draft, validated, searchVars, sortVars, issueVars>>

\* Somebody else opens an issue between two of the calls.
OtherIssue ==
    /\ planStage \in {"parents", "tasks"}
    /\ Cardinality({n \in DOMAIN issues : issues[n].try = 0}) < MaxOthers
    /\ issues' = Append(issues, [of |-> "", try |-> 0, partOf |-> {}, dependsOn |-> {}])
    /\ UNCHANGED <<planStage, draft, validated, searchVars, sortVars, queue, numbers, planTries>>

DirectorNext ==
    \/ PlanRefused \/ PlanAnswered \/ PlanHandedOver
    \/ SearchFrom \/ SearchBack \/ SearchOn \/ PlanValidated
    \/ Materialise \/ CreateIssue \/ CreateIssueFails
    \/ SortTasks \/ TakeReady \/ TasksSorted \/ PlanMaterialised \/ OtherIssue

DirectorSpec == DirectorInit /\ [][DirectorNext]_directorVars

-----------------------------------------------------------------------------
\* Every variable keeps its type.
DirectorTypeOK ==
    /\ planStage \in Stages /\ validated \in BOOLEAN
    /\ \A id \in DOMAIN colour : colour[id] \in {"white", "grey", "black"}
    /\ \A id \in DOMAIN waiting : waiting[id] \in Nat
    /\ \A id \in DOMAIN numbers : numbers[id] \in DOMAIN issues
    /\ planTries \in 0..MaxTries

\* No tasks depend on each other in a circle: a set of tasks, each of which names one
\* of the set, is empty.
WithoutCycle(p) ==
    \A S \in SUBSET IdsOf(p.tasks) :
        (\A id \in S : Elements(TaskNamed(p, id).needs) \cap S # {}) => S = {}

\* validate() returns exactly for the plans that are well formed and without a cycle:
\* the search by colours neither misses a cycle nor takes two ways to one task for one.
PlanIsJudged ==
    /\ validated => WellFormed(draft) /\ WithoutCycle(draft)
    /\ planStage = "refused" /\ WellFormed(draft) /\ draft.tasks # <<>> => ~WithoutCycle(draft)

\* The number of an entity's issue of the try under way.
IssuesOfTry(id) == {n \in DOMAIN issues : issues[n].of = id /\ issues[n].try = planTries}

\* Every issue of a validated plan names the issues, opened before it in the same try,
\* of its parent and of every task it depends on, whoever opens issues in between and
\* however often an earlier try has failed.
IssuesReferBack ==
    validated =>
        \A n \in DOMAIN issues : issues[n].try # 0 =>
            \A i \in DOMAIN EntitiesOf(draft) :
                LET e == EntitiesOf(draft)[i]
                    Of(numbersOf) == {issues[m].of : m \in numbersOf}
                IN  issues[n].of = e.id =>
                        /\ Of(issues[n].partOf) = {e.under} \ {""}
                        /\ Of(issues[n].dependsOn) = Elements(e.needs)
                        /\ \A m \in issues[n].partOf \cup issues[n].dependsOn :
                              m < n /\ issues[m].try = issues[n].try

\* A plan that is materialised has one issue of this try for every entity, cycle or
\* not, and the mapping tells which.
NothingIsDropped ==
    planStage = "done" =>
        \A i \in DOMAIN EntitiesOf(draft) :
            LET id == EntitiesOf(draft)[i].id
            IN  id \in DOMAIN numbers /\ IssuesOfTry(id) = {numbers[id]}

-----------------------------------------------------------------------------
(***************************************************************************)
(* Recipes and task templates: what is read from a directory of files that   *)
(* people write, and what an invocation of a recipe is given.                *)
(*                                                                         *)
(* A file of recipes is of a kind: "recipe", "malformed" (load_recipe raises *)
(* RecipeLoadError: bad YAML, a field that is missing or of a wrong type),   *)
(* "unreadable" (path.read_text raises: bytes that are not UTF-8, no         *)
(* permission) or "other" (a directory, another suffix).  A file of          *)
(* templates is "broken" or holds a template's id.  A value is one of        *)
(* Value, of a kind of its own.                                              *)
(***************************************************************************)

CONSTANTS Folder,       \* directories of recipes: sequences of files, in sorted order
          Value, KindOf,   \* values, and the kind of each: "str", "int", "float", "bool"
          Builtin,      \* ids of the templates that come with the program
          TemplateFolder   \* directories of templates: sequences of files, in any order

VARIABLES folder, recipes,    \* the directory, and load_recipe_directory's answer
          sweep,              \* how the sweep ended
          recipe, supplied,   \* the recipe invoked, and what its caller supplies
          bound,              \* the parameters bind_parameters resolved
          invocation,         \* how the invocation ended
          rendered,           \* the instructions, by piece
          templates           \* the template store: ids to where each is from

recipeVars == <<folder, recipes, sweep, recipe, supplied, bound, invocation, rendered,
                templates>>

Empty == [x \in {} |-> 0]
NoRecipe == [kind |-> "none"]

\* TemplateStore: the built-in templates, then those of files, each for its id; a file
\* that does not load, for whatever reason, is passed over.
TemplatesOf(files) ==
    LET FilesWith(id) == {i \in DOMAIN files : files[i].kind = "template" /\ files[i].id = id}
        Held == {files[i].id : i \in {j \in DOMAIN files : files[j].kind = "template"}}
    IN  [id \in Builtin \cup Held |->
            IF FilesWith(id) = {} THEN 0
            ELSE CHOOSE i \in FilesWith(id) : \A j \in FilesWith(id) : j <= i]

RecipesInit ==
    /\ folder \in Folder /\ recipes = <<>> /\ sweep = "none"
    /\ recipe = NoRecipe /\ supplied = Empty /\ bound = Empty
    /\ invocation = "none" /\ rendered = <<>>
    /\ templates \in {TemplatesOf(files) : files \in TemplateFolder}

-----------------------------------------------------------------------------
\* load_recipe_directory: files in order; RecipeLoadError passes a file over, any other
\* exception leaves the sweep.
Unreadable == {i \in DOMAIN folder : folder[i].kind = "unreadable"}

LoadRecipes ==
    /\ sweep = "none" /\ Unreadable = {}
    /\ recipes' = SelectSeq(folder, LAMBDA file : file.kind = "recipe")
    /\ sweep' = "returned"
    /\ UNCHANGED <<folder, recipe, supplied, bound, invocation, rendered, templates>>

LoadRaises ==
    /\ sweep = "none" /\ Unreadable # {}
    /\ sweep' = "raised"
    /\ UNCHANGED <<folder, recipes, recipe, supplied, bound, invocation, rendered, templates>>

\* _type_matches: a boolean is no number.
TypeMatches(value, type) ==
    KindOf[value] \in CASE type = "string" -> {"str"}
                        [] type = "boolean" -> {"bool"}
                        [] type = "integer" -> {"int"}
                        [] type = "number" -> {"int", "float"}

InvokeRecipe ==
    /\ sweep = "returned" /\ invocation = "none"
    /\ \E i \in DOMAIN recipes : recipe' = recipes[i]
    /\ \E names \in SUBSET (DOMAIN recipe'.parameters \cup {"undeclared"}) :
          supplied' \in [names -> Value]
    /\ invocation' = "asked"
    /\ UNCHANGED <<folder, recipes, sweep, bound, rendered, templates>>

\* bind_parameters: nothing undeclared, what is supplied has its type, what is required
\* is supplied; a default stands in for what is not.
Declared == DOMAIN recipe.parameters

Bindable ==
    /\ DOMAIN supplied \subseteq Declared
    /\ \A p \in DOMAIN supplied : TypeMatches(supplied[p], recipe.parameters[p].type)
    /\ \A p \in Declared : recipe.parameters[p].required => p \in DOMAIN supplied

HasDefault(p) == recipe.parameters[p].default # {}

BindParameters ==
    /\ invocation = "asked" /\ Bindable
    /\ bound' = [p \in DOMAIN supplied \cup {q \in Declared : HasDefault(q)} |->
                    IF p \in DOMAIN supplied THEN supplied[p]
                    ELSE CHOOSE v \in recipe.parameters[p].default : TRUE]
    /\ invocation' = "bound"
    /\ UNCHANGED <<folder, recipes, sweep, recipe, supplied, rendered, templates>>

RefuseParameters ==
    /\ invocation = "asked" /\ ~Bindable
    /\ invocation' = "refused"
    /\ UNCHANGED <<folder, recipes, sweep, recipe, supplied, bound, rendered, templates>>

\* render_instructions: one pass, so that a value is not searched for placeholders; a
\* placeholder of what is not bound stays as it is written.
Rendered(piece) ==
    IF piece.kind = "placeholder" /\ piece.name \in DOMAIN bound
    THEN [kind |-> "value", value |-> bound[piece.name]] ELSE piece

RenderInstructions ==
    /\ invocation = "bound"
    /\ rendered' = [i \in DOMAIN recipe.instructions |-> Rendered(recipe.instructions[i])]
    /\ invocation' = "rendered"
    /\ UNCHANGED <<folder, recipes, sweep, recipe, supplied, bound, templates>>

RecipesNext ==
    \/ LoadRecipes \/ LoadRaises
    \/ InvokeRecipe \/ BindParameters \/ RefuseParameters \/ RenderInstructions

RecipesSpec == RecipesInit /\ [][RecipesNext]_recipeVars

-----------------------------------------------------------------------------
\* Every variable keeps its type.
RecipesTypeOK ==
    /\ folder \in Folder /\ sweep \in {"none", "returned", "raised"}
    /\ invocation \in {"none", "asked", "refused", "bound", "rendered"}
    /\ \A p \in DOMAIN bound : bound[p] \in Value

\* What is rendered holds no value but of a declared parameter, of its declared type if
\* a caller supplied it, and keeps no placeholder of a parameter that is required or
\* has a default, whatever was supplied.
InvocationsAreDeclared ==
    invocation = "rendered" =>
        /\ DOMAIN bound \subseteq Declared
        /\ \A i \in DOMAIN rendered :
              LET piece == recipe.instructions[i]
                  Declares == piece.kind = "placeholder" /\ piece.name \in Declared
              IN  /\ rendered[i].kind = "value" =>
                        /\ Declares
                        /\ piece.name \in DOMAIN supplied =>
                              TypeMatches(rendered[i].value, recipe.parameters[piece.name].type)
                  /\ Declares /\ (recipe.parameters[piece.name].required \/ HasDefault(piece.name)) =>
                        rendered[i].kind = "value"

\* No template that comes with the program is ever missing, whatever the files hold.
BuiltinsAreOffered == Builtin \subseteq DOMAIN templates

\* recipes.py:158-159: one bad recipe never kills the whole sweep.  One that cannot be
\* read as UTF-8 does.
SweepSurvives == sweep # "raised"
=============================================================================
