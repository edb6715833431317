---------------------------- MODULE MCExecution ----------------------------
(***************************************************************************)
(* Instances for TLC of the components that a run goes through: the worker *)
(* pool, the handoff of entries between threads and the event loop, the    *)
(* slots of a backend, gates, gauntlets and the checks they run, external  *)
(* agents, SSH sessions, and what a model is shown.  They share no state in *)
(* the code, so a behaviour picks one of them and the others stay as they  *)
(* start: TLC explores the sum of their state spaces.                      *)
(***************************************************************************)
EXTENDS WorkerPool, BackendCalls, GateRuntime, SandboxChecks,
        SshPool, PromptContext

CONSTANTS s1, s2, c1, c2, c3, g1, g2, g3

VARIABLE active   \* the component that moves

ExecutionVars ==
    <<active, poolVars, handoffVars, slotVars, gateVars, gauntletVars,
      sandboxVars, agentVars, sshVars, promptVars, packVars>>

\* What the checks of a gate ask for and what their command prints: a secret of
\* two units, alone and between text.
MCPlain == [policy |-> TRUE, root |-> "directory", limits |-> TRUE, command |-> "plain",
            inside |-> TRUE, owners |-> 1]
MCMetadata ==
    {MCPlain, [MCPlain EXCEPT !.owners = 2], [MCPlain EXCEPT !.inside = FALSE],
     [MCPlain EXCEPT !.command = "destructive"], [MCPlain EXCEPT !.root = "missing"],
     [MCPlain EXCEPT !.command = "unclosed"]}
MCOutput ==
    {<<"text">>, <<"sec", "ret", "text">>, <<"text", "sec", "ret", "text", "text">>,
     <<"sec", "ret", "sec", "ret">>}

\* An adapter that declares what it does, one that declares it oddly, and a wrapper.
MCDeclared ==
    [a \in {"edit", "odd"} |->
        IF a = "edit"
        THEN [supports |-> {"plan", "implement", "probe"}, readOnly |-> ReadOnlyByNature,
              writes |-> {"implement", "write"}]
        ELSE [supports |-> {"plan", "write"}, readOnly |-> {"probe"}, writes |-> {}]]
MCPlugins == <<"edit", "codex", "odd">>

\* Sources of up to two declarations; scores of three paths.
MCDeclaration ==
    {[kind |-> k, name |-> n, private |-> FALSE, owner |-> "t"] :
        k \in {"function", "exported", "arrow", "class", "interface", "alias", "method", "impl"},
        n \in {"a", "t"}}
    \cup {[kind |-> k, name |-> "_a", private |-> TRUE, owner |-> "t"] :
        k \in {"function", "class", "method"}}
MCDeclarations ==
    {<<>>} \cup {<<d>> : d \in MCDeclaration} \cup {<<d, e>> : d, e \in MCDeclaration}
MCScores == {<<a, b, c>> : a, b, c \in 0..2}

MCFirstSizes == <<1, 2, 2, 1>>

ExecutionInit ==
    /\ active \in {"pool", "handoff", "slots", "gates", "gauntlet", "checks",
                  "agents", "ssh", "prompt", "pack"}
    /\ active # "gauntlet" => gateStatus = [g \in Gate |-> "absent"]
    /\ active # "prompt" => /\ source = (CHOOSE x \in Source : TRUE)
                            /\ texts = (CHOOSE t \in Texts : TRUE) /\ paths = (CHOOSE p \in Paths : TRUE)
    /\ PoolInit /\ HandoffInit /\ SlotInit /\ GatesInit /\ GauntletInit
    /\ SandboxInit /\ AgentInit /\ SshInit /\ PromptInit /\ PackInit

ExecutionNext ==
    /\ UNCHANGED active
    /\ \/ active = "pool" /\ PoolNext
          /\ UNCHANGED <<handoffVars, slotVars, gateVars, gauntletVars,
                         sandboxVars, agentVars, sshVars, promptVars, packVars>>
       \/ active = "handoff" /\ HandoffNext
          /\ UNCHANGED <<poolVars, slotVars, gateVars, gauntletVars,
                         sandboxVars, agentVars, sshVars, promptVars, packVars>>
       \/ active = "slots" /\ SlotNext
          /\ UNCHANGED <<poolVars, handoffVars, gateVars, gauntletVars,
                         sandboxVars, agentVars, sshVars, promptVars, packVars>>
       \/ active = "gates" /\ GatesNext
          /\ UNCHANGED <<poolVars, handoffVars, slotVars, gauntletVars,
                         sandboxVars, agentVars, sshVars, promptVars, packVars>>
       \/ active = "gauntlet" /\ GauntletNext
          /\ UNCHANGED <<poolVars, handoffVars, slotVars, gateVars,
                         sandboxVars, agentVars, sshVars, promptVars, packVars>>
       \/ active = "checks" /\ SandboxNext
          /\ UNCHANGED <<poolVars, handoffVars, slotVars, gateVars,
                         gauntletVars, agentVars, sshVars, promptVars, packVars>>
       \/ active = "agents" /\ AgentNext
          /\ UNCHANGED <<poolVars, handoffVars, slotVars, gateVars,
                         gauntletVars, sandboxVars, sshVars, promptVars,
                         packVars>>
       \/ active = "ssh" /\ SshNext
          /\ UNCHANGED <<poolVars, handoffVars, slotVars, gateVars,
                         gauntletVars, sandboxVars, agentVars, promptVars,
                         packVars>>
       \/ active = "prompt" /\ PromptNext
          /\ UNCHANGED <<poolVars, handoffVars, slotVars, gateVars,
                         gauntletVars, sandboxVars, agentVars, sshVars,
                         packVars>>
       \/ active = "pack" /\ PackNext
          /\ UNCHANGED <<poolVars, handoffVars, slotVars, gateVars,
                         gauntletVars, sandboxVars, agentVars, sshVars,
                         promptVars>>

\* The event loop runs every worker that is ready; a request to scale that waits
\* for room on the queue gets it when room comes up again and again (asyncio
\* wakes its putters in order); a backend answers or times out; the lock of the
\* SSH pool is granted in order, and opening and closing a session end.
ExecutionSpec ==
    /\ ExecutionInit /\ [][ExecutionNext]_ExecutionVars
    /\ \A w \in 1..MaxWorkers : WF_poolVars(active = "pool" /\ WorkerTurn(w))
    /\ \A c \in PoolCaller : SF_poolVars(active = "pool" /\ GoOnScaling(c))
    /\ \A c \in Call : WF_slotVars(active = "slots" /\ BackendAnswers(c))
    /\ \A o \in Operator :
          /\ SF_sshVars(active = "ssh" /\ Enter(o))
          /\ WF_sshVars(active = "ssh" /\ (Connects(o) \/ ConnectFails(o)))
          /\ WF_sshVars(active = "ssh" /\ (ClosesOldSession(o) \/ CloseFails(o)))

-----------------------------------------------------------------------------
\* Every variable of these components keeps its type.
ExecutionTypeOK ==
    /\ PoolTypeOK /\ HandoffTypeOK /\ SlotTypeOK /\ GatesTypeOK
    /\ GauntletTypeOK /\ SandboxTypeOK /\ AgentTypeOK /\ SshTypeOK
    /\ PromptTypeOK /\ PackTypeOK

\* worker.py, submission.py, concurrency.py, ssh/session.py, external_adapter.py:
\* workers are as many as were asked for last and none goes on after a stop
\* without drain, a submission that was refused is nowhere and one that was
\* accepted is queued or taken, only reprioritize_task can hold the loop up with
\* the lock, calls in flight stay within the limit, an open SSH session is in the
\* pool or in somebody's hand, and an external agent that reports truly keeps to
\* its operation.
WorkIsHandedOnce ==
    /\ WorkersMatchTarget /\ StopInterrupts
    /\ AnswersAreTrue /\ LoopWaitsForReprioritizeOnly /\ InFlightIsBounded
    /\ PoolOwnsItsSessions /\ HonestRunsKeepRules

\* gates.py, critics.py, gauntlets.py, sandbox/gates.py: a gauntlet that passed was
\* earned gate by gate and critic by critic, no later record overtakes a failure,
\* and the evidence of a check is that of its own command.
VerdictsAreEarned ==
    /\ PassIsEarned /\ PassIsNotOvertaken
    /\ EvidenceIsItsOwn /\ SandboxPassIsEarned

\* What a model and a reviewer are shown is what the files say and fits: the
\* outline, the files and the sections of a prompt, the pack of files, and the
\* output of a command without its secrets.
TextsAreFaithful ==
    /\ OutlineIsTrue /\ SectionsFit /\ RelevantAreBest
    /\ PackIsBounded /\ PackIsOfOneMoment
    /\ SummariesAreRedacted

\* A request to scale ends unless another crosses it or the daemon stops, a call
\* for a backend's slot ends, and an operator gets the lock of the SSH pool.
WorkEnds == ScalingEnds /\ EveryCallEnds /\ PoolIsShared
=============================================================================
