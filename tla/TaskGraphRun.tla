---------------------------- MODULE TaskGraphRun ----------------------------
(***************************************************************************)
(* Delivery graphs of sub-agent roles: templates, their validation and      *)
(* order, one run of a graph node by node, and the stored record a run      *)
(* reads at its start and overwrites at its end (director/task_graphs.py,   *)
(* task_graph_runner.py, task_graph_service.py, task_graph_store.py).       *)
(*                                                                         *)
(* One graph id.  Its record may be created again under the same id, with   *)
(* another template, and several callers may start it: the endpoints of one *)
(* daemon do so in turn, on its loop, and users of the service in other     *)
(* threads or processes, on the same store, at any time.  RUNNING is never  *)
(* stored, so that the check of a start knows finished runs only.           *)
(***************************************************************************)
EXTENDS Naturals, Sequences, FiniteSets

CONSTANTS
    Starter,      \* callers of start
    Creator,      \* callers of create_from_work_item
    Custom,       \* graphs besides the templates: node -> [deps, needs, out]
    MaxRetries,   \* max_retries of every node
    MaxStarts,    \* bound: runs of the graph
    MaxCreations, \* bound: creations under its id
    MaxLosses     \* bound: artifacts and runs that are lost

ASSUME GraphAssumption ==
    /\ MaxRetries \in 0..5
    /\ MaxStarts \in Nat
    /\ MaxCreations \in Nat
    /\ MaxLosses \in Nat

VARIABLES
    record,       \* the stored graph: its nodes, status and node runs
    making,       \* the node runs each creator has read and not yet written back
    run,          \* the run each starter carries out
    stored,       \* artifacts in the store: starter, start number and node
    starts,       \* history: starts so far
    creations,    \* history: creations so far
    superposed,   \* history: a start or creation fell into a run or a creation
    losses        \* history: losses so far

graphVars == <<record, making, run, stored, starts, creations, superposed, losses>>

-----------------------------------------------------------------------------
(* Templates *)

Rank == [implement_qa |-> 1, implementer |-> 2, planner |-> 3, qa |-> 4,
         reviewer |-> 5, security |-> 6]
NodeOf(deps, needs, out) == [deps |-> deps, needs |-> needs, out |-> out]

Micro == [implement_qa |-> NodeOf({}, {}, "handoff")]
Standard ==
    [planner |-> NodeOf({}, {}, "plan"),
     implementer |-> NodeOf({"planner"}, {"plan"}, "diff"),
     qa |-> NodeOf({"implementer"}, {"diff"}, "test_result"),
     reviewer |-> NodeOf({"qa"}, {"test_result"}, "handoff")]
SecuritySensitive ==
    [planner |-> NodeOf({}, {}, "plan"),
     implementer |-> NodeOf({"planner"}, {"plan"}, "diff"),
     qa |-> NodeOf({"implementer"}, {"diff"}, "test_result"),
     security |-> NodeOf({"qa"}, {"test_result"}, "check_result"),
     reviewer |-> NodeOf({"security"}, {"check_result"}, "handoff")]

SelectTemplate(risk, criteria, labelled) ==
    CASE risk \in {"high", "critical"} \/ labelled -> SecuritySensitive
      [] risk = "low" /\ criteria <= 2 /\ ~labelled -> Micro
      [] OTHER -> Standard

Templates == {Micro, Standard, SecuritySensitive}

-----------------------------------------------------------------------------
(* Order: layer by layer, each one sorted by node id *)

Nodes(g) == DOMAIN g

\* The nodes of the first i layers.
Layers(g) ==
    LET f[i \in 0..Cardinality(Nodes(g))] ==
            IF i = 0 THEN {} ELSE {n \in Nodes(g) : g[n].deps \subseteq f[i - 1]}
    IN f
\* A graph with an unknown dependency, one on itself or a cycle is refused.
ValidGraph(g) ==
    /\ Nodes(g) # {}
    /\ \A n \in Nodes(g) : g[n].deps \subseteq Nodes(g) \ {n}
    /\ Layers(g)[Cardinality(Nodes(g))] = Nodes(g)

\* Mutated form of NextLayer: all nodes at once, by id only.
NextLayerOfAll(g, done) == Nodes(g) \ done
\* The layer after the nodes in done, all of them from earlier layers.
NextLayer(g, done) == {n \in Nodes(g) \ done : g[n].deps \subseteq done}

-----------------------------------------------------------------------------
(* Creation and starts *)

NoGraph == [graph |-> <<>>, status |-> "none", runs |-> <<>>]
IdleRun == [phase |-> "idle", graph |-> <<>>, layer |-> {}, id |-> 0, tries |-> 0, runs |-> <<>>,
         status |-> "queued"]

Superpose(others) == superposed' = (superposed \/ others)
AtRest == (\A s \in Starter : run[s] = IdleRun) /\ \A c \in Creator : making[c] = <<>>

\* Creation under an id in use keeps the node runs it reads ...
BeginCreation(c) ==
    /\ making[c] = <<>>
    /\ creations < MaxCreations
    /\ creations' = creations + 1
    /\ making' = [making EXCEPT ![c] = <<record.runs>>]
    /\ Superpose(~AtRest)
    /\ UNCHANGED <<record, run, stored, starts, losses>>

\* Mutated form of EndCreation: a graph created again keeps its old status.
EndCreationKeepingStatus(c) ==
    /\ making[c] # <<>>
    /\ \E g \in Templates \cup Custom :
          /\ ValidGraph(g)
          /\ record' = [graph |-> g, runs |-> Head(making[c]),
                        status |-> IF record.status = "none" THEN "queued" ELSE record.status]
    /\ making' = [making EXCEPT ![c] = <<>>]
    /\ UNCHANGED <<run, stored, starts, creations, superposed, losses>>
\* ... and sets the graph, queued again.
EndCreation(c) ==
    /\ making[c] # <<>>
    /\ \/ \E risk \in {"low", "medium", "critical"}, criteria \in {1, 3},
             labelled \in BOOLEAN :
             record' = [graph |-> SelectTemplate(risk, criteria, labelled),
                        status |-> "queued", runs |-> Head(making[c])]
       \/ \E g \in Custom : ValidGraph(g) /\ record' = [graph |-> g, status |-> "queued",
                                                        runs |-> Head(making[c])]
    /\ making' = [making EXCEPT ![c] = <<>>]
    /\ UNCHANGED <<run, stored, starts, creations, superposed, losses>>

\* Mutated form of StartGraph: the status is not looked at.
StartGraphAnyway(s) ==
    /\ run[s] = IdleRun
    /\ starts < MaxStarts
    /\ record # NoGraph
    /\ run' = [run EXCEPT ![s] = [IdleRun EXCEPT !.phase = "node", !.graph = record.graph,
                                                 !.layer = NextLayer(record.graph, {}),
                                                 !.id = starts + 1]]
    /\ starts' = starts + 1
    /\ Superpose(~AtRest)
    /\ UNCHANGED <<record, making, stored, creations, losses>>
StartGraph(s) ==
    /\ run[s] = IdleRun
    /\ starts < MaxStarts
    /\ record.status \in {"queued", "blocked"}
    /\ run' = [run EXCEPT ![s] = [IdleRun EXCEPT !.phase = "node", !.graph = record.graph,
                                                 !.layer = NextLayer(record.graph, {}),
                                                 !.id = starts + 1]]
    /\ starts' = starts + 1
    /\ Superpose(~AtRest)
    /\ UNCHANGED <<record, making, stored, creations, losses>>

-----------------------------------------------------------------------------
(* One run: the least node of the present layer, then the next layer *)

Doing(s) == CHOOSE n \in run[s].layer : \A m \in run[s].layer : Rank[n] <= Rank[m]
RunNodes(s) == {run[s].runs[i].node : i \in DOMAIN run[s].runs}
Kinds(s) == {run[s].graph[n].out : n \in RunNodes(s)}
NodeReady(s) ==
    LET n == run[s].graph[Doing(s)] IN n.deps \subseteq RunNodes(s) /\ n.needs \subseteq Kinds(s)
ArtifactOf(s, n) == <<run[s].id, n>>
InputsStored(s) == \A n \in run[s].graph[Doing(s)].deps : ArtifactOf(s, n) \in stored

AtNode(s) == run[s].phase = "node" /\ run[s].layer # {}

LayerAfter(s) ==
    LET rest == run[s].layer \ {Doing(s)}
    IN IF rest = {} THEN NextLayer(run[s].graph, RunNodes(s) \cup {Doing(s)}) ELSE rest

\* The run of the present node ends, and with it the graph unless it completed.
RunLog(s, status) == Append(run[s].runs, [node |-> Doing(s), status |-> status])
EndsRun(s, status) ==
    run' = [run EXCEPT ![s] = [@ EXCEPT !.phase = "over", !.status = "blocked",
                                        !.runs = RunLog(s, status)]]
RaisesRun(s) == run' = [run EXCEPT ![s] = IdleRun]

BlockNode(s) ==
    /\ AtNode(s)
    /\ ~NodeReady(s)
    /\ EndsRun(s, "blocked")
    /\ UNCHANGED <<record, making, stored, starts, creations, superposed, losses>>

\* An artifact of a dependency that cannot be read ends the run with an error.
InputUnreadable(s) ==
    /\ AtNode(s)
    /\ NodeReady(s)
    /\ ~InputsStored(s)
    /\ RaisesRun(s)
    /\ UNCHANGED <<record, making, stored, starts, creations, superposed, losses>>

NodeSucceeds(s) ==
    /\ AtNode(s)
    /\ NodeReady(s)
    /\ run[s].tries > 0 \/ InputsStored(s)
    /\ stored' = stored \cup {ArtifactOf(s, Doing(s))}
    /\ run' = [run EXCEPT ![s] = [@ EXCEPT !.tries = 0, !.layer = LayerAfter(s),
                                         !.runs = RunLog(s, "completed")]]
    /\ UNCHANGED <<record, making, starts, creations, superposed, losses>>

\* Mutated form of NodeFails: a node that used up its attempts is passed over.
NodePassedOver(s) ==
    /\ AtNode(s)
    /\ NodeReady(s)
    /\ run[s].tries > 0 \/ InputsStored(s)
    /\ IF run[s].tries < MaxRetries
       THEN run' = [run EXCEPT ![s].tries = @ + 1]
       ELSE run' = [run EXCEPT ![s] = [@ EXCEPT !.tries = 0, !.layer = LayerAfter(s),
                                         !.runs = RunLog(s, "failed")]]
    /\ UNCHANGED <<record, making, stored, starts, creations, superposed, losses>>
\* Mutated form of NodeFails: one attempt too many.
NodeFailsOnceMore(s) ==
    /\ AtNode(s)
    /\ NodeReady(s)
    /\ run[s].tries > 0 \/ InputsStored(s)
    /\ IF run[s].tries <= MaxRetries THEN run' = [run EXCEPT ![s].tries = @ + 1]
                                     ELSE EndsRun(s, "failed")
    /\ UNCHANGED <<record, making, stored, starts, creations, superposed, losses>>
\* An error or an empty text: max_retries more attempts.
NodeFails(s) ==
    /\ AtNode(s)
    /\ NodeReady(s)
    /\ run[s].tries > 0 \/ InputsStored(s)
    /\ IF run[s].tries < MaxRetries THEN run' = [run EXCEPT ![s].tries = @ + 1]
                                    ELSE EndsRun(s, "failed")
    /\ UNCHANGED <<record, making, stored, starts, creations, superposed, losses>>

AllNodesRun(s) ==
    /\ run[s].phase = "node"
    /\ ~AtNode(s)
    /\ run' = [run EXCEPT ![s] = [@ EXCEPT !.phase = "over", !.status = "completed"]]
    /\ UNCHANGED <<record, making, stored, starts, creations, superposed, losses>>

\* The whole record is overwritten with the graph as it was at the start.
SaveRecord(s) ==
    /\ run[s].phase = "over"
    /\ record' = [graph |-> run[s].graph, status |-> run[s].status, runs |-> run[s].runs]
    /\ run' = [run EXCEPT ![s] = IdleRun]
    /\ UNCHANGED <<making, stored, starts, creations, superposed, losses>>

-----------------------------------------------------------------------------
(* Losses *)

\* A run ends with an exception, its last write fails, or its process dies:
\* the record still says what it said at the start.
RunLost(s) ==
    /\ run[s] # IdleRun
    /\ losses < MaxLosses
    /\ losses' = losses + 1
    /\ RaisesRun(s)
    /\ UNCHANGED <<record, making, stored, starts, creations, superposed>>

ArtifactLost(a) ==
    /\ losses < MaxLosses
    /\ losses' = losses + 1
    /\ stored' = stored \ {a}
    /\ UNCHANGED <<record, making, run, starts, creations, superposed>>

-----------------------------------------------------------------------------
GraphInit ==
    /\ record = NoGraph
    /\ making = [c \in Creator |-> <<>>]
    /\ run = [s \in Starter |-> IdleRun]
    /\ stored = {}
    /\ starts = 0
    /\ creations = 0
    /\ superposed = FALSE
    /\ losses = 0

RunStep(s) ==
    \/ BlockNode(s) \/ InputUnreadable(s) \/ NodeSucceeds(s) \/ NodeFails(s)
    \/ AllNodesRun(s) \/ SaveRecord(s)

GraphNext ==
    \/ \E c \in Creator : BeginCreation(c) \/ EndCreation(c)
    \/ \E s \in Starter : StartGraph(s) \/ RunStep(s) \/ RunLost(s)
    \/ \E a \in stored : ArtifactLost(a)

GraphSpec == GraphInit /\ [][GraphNext]_graphVars

-----------------------------------------------------------------------------
(* Properties *)

NodeRunsOK(log) ==
    \A i \in DOMAIN log : /\ log[i].node \in DOMAIN Rank
                          /\ log[i].status \in {"completed", "failed", "blocked"}
GraphTypeOK ==
    /\ record.status \in {"none", "queued", "blocked", "completed"}
    /\ NodeRunsOK(record.runs)
    /\ \A s \in Starter : /\ run[s].phase \in {"idle", "node", "over"}
                          /\ run[s].tries \in 0..MaxRetries
                          /\ NodeRunsOK(run[s].runs)
    /\ stored \subseteq (1..MaxStarts) \X DOMAIN Rank
    /\ starts \in 0..MaxStarts
    /\ creations \in 0..MaxCreations
    /\ superposed \in BOOLEAN
    /\ losses \in 0..MaxLosses

\* A graph that is stored as completed has a completed run of every one of its
\* nodes, each after those it depends on, also when it was created again under
\* its id or two starts of it overlapped.
CompletedIsComplete ==
    record.status = "completed" =>
        /\ {record.runs[i].node : i \in DOMAIN record.runs} = Nodes(record.graph)
        /\ \A i \in DOMAIN record.runs :
              /\ record.runs[i].status = "completed"
              /\ \A d \in record.graph[record.runs[i].node].deps :
                    \E j \in 1..(i - 1) : record.runs[j].node = d

\* The order and the artifacts of the built-in templates fit together: no
\* node of theirs is ever blocked for want of a dependency or of an artifact.
TemplatesFindTheirInputs ==
    \A s \in Starter : run[s].graph \in Templates /\ AtNode(s) => NodeReady(s)

\* A completed graph is run again, or loses that status, only if a start or a
\* creation fell into another one, or it is created again: RUNNING is not
\* stored, and the record is overwritten at the end of a run.
CompletedIsKept ==
    [][record.status = "completed" /\ ~superposed' =>
          \/ record'.status = "completed" /\ starts' = starts
          \/ \E c \in Creator : making[c] # <<>>]_graphVars
=============================================================================
