---------------------------- MODULE Stores_proofs ----------------------------
(***************************************************************************)
(* Proofs about the components that keep records: workspaces and task       *)
(* graphs.  A behaviour of MCStores moves one component and leaves the      *)
(* others alone, so the conjunction of their invariants is one of the whole.*)
(***************************************************************************)
EXTENDS MCStores, TLAPS

-----------------------------------------------------------------------------
(* Workspaces *)

WriterRead ==
    [at : {"idle", "update", "count"}, seen : WorkspaceStatus \cup {"none"},
     target : WorkspaceStatus \cup {"none"}]

\* What a writer is about to set follows, in the table, what it has seen.
WriterInv ==
    /\ workspace \in [status : WorkspaceStatus \cup {"none"}, count : Nat]
    /\ writer \in [Writer -> WriterRead]
    /\ \A w \in Writer : writer[w].at = "update" =>
          writer[w].target \in WorkspaceTransitions(writer[w].seen)

\* No workspace is there, and nobody has read it.
LEMMA WriterInitial == RecordsInit => WriterInv
  BY DEF RecordsInit, WriterInv, NoWorkspace, NoRead, WriterRead

\* Each writer changes what it has read itself.
LEMMA WriterStep == WriterInv /\ [RecordsNext]_recordVars => WriterInv'
<1> SUFFICES ASSUME WriterInv, [RecordsNext]_recordVars PROVE WriterInv'
  OBVIOUS
<1>1. ASSUME NEW i \in WorkItem, NEW criteria \in BOOLEAN,
             CreateWorkItem(i, criteria) \/ PatchWorkItem(i, criteria)
      PROVE  WriterInv'
  BY <1>1 DEF CreateWorkItem, PatchWorkItem, WriterInv
<1>2. ASSUME NEW i \in WorkItem, NEW target \in ItemStatus, TransitionWorkItem(i, target)
      PROVE  WriterInv'
  BY <1>2 DEF TransitionWorkItem, WriterInv
<1>3. ASSUME NEW w \in Writer, CreateWorkspace(w) PROVE WriterInv'
  BY <1>3 DEF CreateWorkspace, WriterInv, WorkspaceStatus
<1>4. ASSUME NEW w \in Writer, UpdateWorkspace(w) PROVE WriterInv'
  BY <1>4 DEF UpdateWorkspace, WriterInv, WriterRead, NoRead, WorkspaceTransitions,
     WorkspaceStatus
<1>5. ASSUME NEW w \in Writer, NEW target \in WorkspaceStatus, ReadWorkspace(w, target)
      PROVE  WriterInv'
  BY <1>5 DEF ReadWorkspace, WriterInv, WriterRead
<1>6. ASSUME NEW w \in Writer, InsertCheckpoint(w) PROVE WriterInv'
  BY <1>6 DEF InsertCheckpoint, WriterInv, WriterRead, NoRead
<1>7. ASSUME NEW w \in Writer, CountCheckpoint(w) PROVE WriterInv'
  BY <1>7 DEF CountCheckpoint, WriterInv, WriterRead, NoRead
<1>8. ASSUME NEW w \in Writer, WriterDies(w) PROVE WriterInv'
  BY <1>8 DEF WriterDies, WriterInv, WriterRead, NoRead
<1>9. CASE UNCHANGED recordVars
  BY <1>9 DEF recordVars, WriterInv
<1> QED
  BY <1>1, <1>2, <1>3, <1>4, <1>5, <1>6, <1>7, <1>8, <1>9 DEF RecordsNext,
     ItemsNext, WriterNext

\* The update names the status that was read, so what it sets is a move from it.
LEMMA WorkspaceMoves ==
    ASSUME WriterInv, [RecordsNext]_recordVars,
           workspace'.status # workspace.status, workspace # NoWorkspace
    PROVE  workspace'.status \in WorkspaceTransitions(workspace.status)
<1>1. ASSUME NEW w \in Writer, UpdateWorkspace(w)
      PROVE  workspace'.status \in WorkspaceTransitions(workspace.status)
  BY <1>1 DEF UpdateWorkspace, StillAsRead, WriterInv
<1>2. ASSUME NEW w \in Writer, CountCheckpoint(w) PROVE FALSE
  BY <1>2 DEF CountCheckpoint, WriterInv
<1> QED
  BY <1>1, <1>2 DEF RecordsNext, ItemsNext, WriterNext, recordVars, CreateWorkItem, PatchWorkItem,
     TransitionWorkItem, CreateWorkspace, ReadWorkspace, InsertCheckpoint, WriterDies

-----------------------------------------------------------------------------
(* Task graphs *)

\* Unless a start or a creation fell into another one, a run has the graph to
\* itself, and the graph had not been completed when it started.
AloneInv ==
    /\ DOMAIN run = Starter /\ DOMAIN making = Creator
    /\ ~superposed => \A s \in Starter : run[s] # IdleRun =>
          /\ record.status # "completed"
          /\ \A t \in Starter \ {s} : run[t] = IdleRun
          /\ \A c \in Creator : making[c] = <<>>

\* Nobody runs the graph.
LEMMA AloneInitial == GraphInit => AloneInv
  BY DEF GraphInit, AloneInv

\* A step of a run is one of a run that is under way, and of no other.
LEMMA StepsOfARun ==
    ASSUME AloneInv, NEW s \in Starter, RunStep(s) \/ RunLost(s)
    PROVE  /\ run[s] # IdleRun
           /\ DOMAIN run' = Starter
           /\ \A t \in Starter \ {s} : run'[t] = run[t]
           /\ UNCHANGED <<making, superposed, starts>>
           /\ UNCHANGED record \/ run'[s] = IdleRun
<1>1. CASE AtNode(s) \/ run[s].phase = "over" \/ run[s].phase = "node"
  <2>1. run[s] # IdleRun
    BY <1>1 DEF AtNode, IdleRun
  <2> QED
    BY <2>1 DEF RunStep, RunLost, BlockNode, InputUnreadable, NodeSucceeds, NodeFails,
       AllNodesRun, SaveRecord, EndsRun, RaisesRun, AloneInv
<1>2. CASE RunLost(s)
  BY <1>2 DEF RunLost, RaisesRun, AloneInv
<1> QED
  BY <1>1, <1>2 DEF RunStep, BlockNode, InputUnreadable, NodeSucceeds, NodeFails,
     AllNodesRun, SaveRecord

\* A start and a creation ask whether anything is under way, and remember it.
LEMMA AloneStep == AloneInv /\ [GraphNext]_graphVars => AloneInv'
<1> SUFFICES ASSUME AloneInv, [GraphNext]_graphVars PROVE AloneInv'
  OBVIOUS
<1>1. ASSUME NEW c \in Creator, BeginCreation(c) PROVE AloneInv'
  BY <1>1 DEF BeginCreation, Superpose, AtRest, AloneInv
<1>2. ASSUME NEW c \in Creator, EndCreation(c) PROVE AloneInv'
  <2>1. DOMAIN making' = Creator /\ UNCHANGED <<run, superposed>>
    BY <1>2 DEF EndCreation, AloneInv
  <2>2. ~superposed => \A s \in Starter : run[s] = IdleRun
    BY <1>2 DEF EndCreation, AloneInv
  <2> QED
    BY <2>1, <2>2 DEF AloneInv
<1>3. ASSUME NEW s \in Starter, StartGraph(s) PROVE AloneInv'
  BY <1>3 DEF StartGraph, Superpose, AtRest, AloneInv
<1>4. ASSUME NEW s \in Starter, RunStep(s) \/ RunLost(s) PROVE AloneInv'
  BY <1>4, StepsOfARun DEF AloneInv
<1>5. ASSUME NEW a \in stored, ArtifactLost(a) PROVE AloneInv'
  BY <1>5 DEF ArtifactLost, AloneInv
<1>6. CASE UNCHANGED graphVars
  BY <1>6 DEF graphVars, AloneInv
<1> QED
  BY <1>1, <1>2, <1>3, <1>4, <1>5, <1>6 DEF GraphNext

\* A run that ends had started from a record that was not completed.
LEMMA CompletedStays ==
    ASSUME AloneInv, [GraphNext]_graphVars, record.status = "completed", ~superposed'
    PROVE  \/ record'.status = "completed" /\ starts' = starts
           \/ \E c \in Creator : making[c] # <<>>
<1>1. ASSUME NEW c \in Creator, BeginCreation(c) PROVE UNCHANGED <<record, starts>>
  BY <1>1 DEF BeginCreation
<1>2. ASSUME NEW c \in Creator, EndCreation(c) PROVE making[c] # <<>>
  BY <1>2 DEF EndCreation
<1>3. ASSUME NEW s \in Starter, StartGraph(s) PROVE FALSE
  BY <1>3 DEF StartGraph
<1>4. ASSUME NEW s \in Starter, RunStep(s) \/ RunLost(s) PROVE FALSE
  BY <1>4, StepsOfARun DEF AloneInv
<1>5. ASSUME NEW a \in stored, ArtifactLost(a) PROVE UNCHANGED <<record, starts>>
  BY <1>5 DEF ArtifactLost
<1> QED
  BY <1>1, <1>2, <1>3, <1>4, <1>5 DEF GraphNext, graphVars

-----------------------------------------------------------------------------
(* All of them *)

StoresInv == WriterInv /\ AloneInv

\* Each starts within its invariant.
LEMMA StoresInitial == StoresInit => StoresInv
  BY WriterInitial, AloneInitial DEF StoresInit, StoresInv

\* A step of all components is a step or a stutter of each.
LEMMA EachMovesOrStays ==
    ASSUME [StoresNext]_StoresVars
    PROVE  [RecordsNext]_recordVars /\ [GraphNext]_graphVars
<1>1. CASE StoresNext
  BY <1>1 DEF StoresNext, PlanningStays, StoresStay, RecordsNext
<1>2. CASE UNCHANGED StoresVars
  BY <1>2 DEF StoresVars
<1> QED
  BY <1>1, <1>2

\* A step of one component keeps its own invariant and touches no other's.
LEMMA StoresStep == StoresInv /\ [StoresNext]_StoresVars => StoresInv'
  BY EachMovesOrStays, WriterStep, AloneStep DEF StoresInv

\* The inductive invariant of workspaces and graphs holds, for every set of writers,
\* creators and starters.
THEOREM StoresInvariant == StoresSpec => []StoresInv
  BY StoresInitial, StoresStep, PTL DEF StoresSpec

\* A workspace moves along its table whatever other writers change between a read
\* and its update, and a completed graph stays completed unless somebody starts or
\* creates it anew.
THEOREM RecordsAlwaysMoveLegally == StoresSpec => RecordsMoveLegally
<1>1. StoresInv /\ [StoresNext]_StoresVars =>
         [workspace'.status # workspace.status /\ workspace # NoWorkspace =>
             workspace'.status \in WorkspaceTransitions(workspace.status)]_recordVars
  BY EachMovesOrStays, WorkspaceMoves DEF StoresInv
<1>2. StoresInv /\ [StoresNext]_StoresVars =>
         [record.status = "completed" /\ ~superposed' =>
             \/ record'.status = "completed" /\ starts' = starts
             \/ \E c \in Creator : making[c] # <<>>]_graphVars
  BY EachMovesOrStays, CompletedStays DEF StoresInv
<1>3. StoresSpec => WorkspaceMovesAlongTable
  BY <1>1, StoresInvariant, PTL DEF StoresSpec, WorkspaceMovesAlongTable
<1>4. StoresSpec => CompletedIsKept
  BY <1>2, StoresInvariant, PTL DEF StoresSpec, CompletedIsKept
<1> QED
  BY <1>3, <1>4 DEF RecordsMoveLegally

=============================================================================
