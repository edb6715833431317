----------------------------- MODULE BackendCalls -----------------------------
(***************************************************************************)
(* Calls of backends: through the limit and the retry of one, and as the    *)
(* operations of external agents.                                           *)
(***************************************************************************)
EXTENDS Naturals, Sequences, FiniteSets, SequencesExt

-----------------------------------------------------------------------------
(***************************************************************************)
(* Calls to one backend through its concurrency limit and the retry on      *)
(* rate-limit errors (backends/concurrency.py; claude.py and openai.py put  *)
(* the limit around the retry, so a call keeps its slot while it backs off).*)
(*                                                                         *)
(* asyncio.Semaphore is external: acquire takes a free slot or queues up,   *)
(* release hands the slot to the first in the queue.  set_limit drops the   *)
(* semaphore; calls that hold or wait for the old one stay with it.         *)
(***************************************************************************)

CONSTANTS
    Call,          \* calls of complete
    Limits,        \* limits an operator may set
    DefaultLimit,  \* default_limit of the limiter
    MaxAttempts,   \* max_attempts of the retry
    MaxChanges     \* bound: calls of set_limit

ASSUME SlotAssumption ==
    /\ Limits \subseteq Nat \ {0}
    /\ DefaultLimit \in Nat \ {0}
    /\ MaxAttempts \in Nat \ {0}
    /\ MaxChanges \in Nat

VARIABLES
    limit,      \* the limit the next semaphore gets
    cached,     \* the number of the semaphore in _semaphores, 0 if there is none
    sems,       \* the semaphores so far: free slots and queue
    stage,      \* where each call is
    ticket,     \* the semaphore each call uses
    failures,   \* rate-limit errors each call has met
    inForce,    \* history: the limit each semaphore was made with
    changes     \* history: calls of set_limit so far

slotVars == <<limit, cached, sems, stage, ticket, failures, inForce, changes>>

-----------------------------------------------------------------------------
\* Mutated form of Semaphore: a new one for every call.
SemaphoreFresh == Len(sems) + 1
Semaphore == IF cached # 0 THEN cached ELSE Len(sems) + 1

WithSemaphore ==
    IF Semaphore \in DOMAIN sems THEN sems
    ELSE Append(sems, [free |-> limit, queue |-> <<>>])

SetLimit(n) ==
    /\ changes < MaxChanges
    /\ limit' = n
    /\ cached' = 0
    /\ changes' = changes + 1
    /\ UNCHANGED <<sems, stage, ticket, failures, inForce>>

\* A free slot goes to the caller unless others queue for it.
AcquireSlot(c) ==
    /\ stage[c] = "idle"
    /\ cached' = Semaphore
    /\ inForce' = IF Semaphore \in DOMAIN inForce THEN inForce ELSE Append(inForce, limit)
    /\ ticket' = [ticket EXCEPT ![c] = Semaphore]
    /\ LET sem == WithSemaphore[Semaphore]
           taken == [WithSemaphore EXCEPT ![Semaphore].free = @ - 1]
           queued == [WithSemaphore EXCEPT ![Semaphore].queue = Append(@, c)]
       IN \/ /\ sem.free > 0 /\ sem.queue = <<>>
             /\ sems' = taken
             /\ stage' = [stage EXCEPT ![c] = "calling"]
          \/ /\ sem.free = 0 \/ sem.queue # <<>>
             /\ sems' = queued
             /\ stage' = [stage EXCEPT ![c] = "waiting"]
    /\ UNCHANGED <<limit, failures, changes>>

\* The call leaves with its result or error, and its slot goes to the next.
LeaveSlot(c, how) ==
    LET k == ticket[c]
        q == sems[k].queue
    IN /\ sems' = IF q = <<>> THEN [sems EXCEPT ![k].free = @ + 1]
                   ELSE [sems EXCEPT ![k].queue = Tail(@)]
       /\ stage' = [d \in Call |-> IF d = c THEN how
                                   ELSE IF q # <<>> /\ d = Head(q) THEN "calling"
                                   ELSE stage[d]]

Answered(c) ==
    /\ stage[c] = "calling"
    /\ LeaveSlot(c, "done")
    /\ UNCHANGED <<limit, cached, ticket, failures, inForce, changes>>

\* Mutated form of Exhausted: attempts are not counted.
NeverExhausted(c) == FALSE
Exhausted(c) == failures[c] + 1 >= MaxAttempts

\* HTTP 429 or a quota error: sleep and call again, up to max_attempts ...
BackOff(c) ==
    /\ stage[c] = "calling"
    /\ ~Exhausted(c)
    /\ failures' = [failures EXCEPT ![c] = IF @ < MaxAttempts THEN @ + 1 ELSE @]
    /\ stage' = [stage EXCEPT ![c] = "sleeping"]
    /\ UNCHANGED <<limit, cached, sems, ticket, inForce, changes>>

CallAgain(c) ==
    /\ stage[c] = "sleeping"
    /\ stage' = [stage EXCEPT ![c] = "calling"]
    /\ UNCHANGED <<limit, cached, sems, ticket, failures, inForce, changes>>

\* ... then, and on any other error or a cancellation, give up.
RaiseCall(c) ==
    /\ stage[c] \in {"calling", "sleeping"}
    /\ LeaveSlot(c, "raised")
    /\ UNCHANGED <<limit, cached, ticket, failures, inForce, changes>>

\* A call cancelled while it waits leaves the queue.
CancelWaiting(c) ==
    /\ stage[c] = "waiting"
    /\ \E i \in DOMAIN sems[ticket[c]].queue :
          /\ sems[ticket[c]].queue[i] = c
          /\ sems' = [sems EXCEPT ![ticket[c]].queue = RemoveAt(@, i)]
    /\ stage' = [stage EXCEPT ![c] = "raised"]
    /\ UNCHANGED <<limit, cached, ticket, failures, inForce, changes>>

-----------------------------------------------------------------------------
SlotInit ==
    /\ limit = DefaultLimit
    /\ cached = 0
    /\ sems = <<>>
    /\ stage = [c \in Call |-> "idle"]
    /\ ticket = [c \in Call |-> 0]
    /\ failures = [c \in Call |-> 0]
    /\ inForce = <<>>
    /\ changes = 0

\* The backend answers every attempt, with a result, a 429 or another error,
\* and the loop wakes sleepers.
BackendAnswers(c) == Answered(c) \/ BackOff(c) \/ CallAgain(c) \/ RaiseCall(c)

SlotNext ==
    \/ \E n \in Limits : SetLimit(n)
    \/ \E c \in Call : AcquireSlot(c) \/ BackendAnswers(c) \/ CancelWaiting(c)

SlotSpec == SlotInit /\ [][SlotNext]_slotVars

-----------------------------------------------------------------------------
(* Properties *)

SlotTypeOK ==
    /\ limit \in Limits \cup {DefaultLimit}
    /\ cached \in 0..Len(sems)
    /\ \A k \in DOMAIN sems : /\ sems[k].free \in 0..inForce[k]
                              /\ \A i \in DOMAIN sems[k].queue : sems[k].queue[i] \in Call
    /\ stage \in [Call -> {"idle", "waiting", "calling", "sleeping", "done", "raised"}]
    /\ ticket \in [Call -> 0..Len(sems)]
    /\ failures \in [Call -> 0..MaxAttempts]
    /\ Len(inForce) = Len(sems)
    /\ changes \in 0..MaxChanges

Holders(S) == {c \in Call : stage[c] \in {"calling", "sleeping"} /\ ticket[c] \in S}

\* The calls at the backend never exceed its limit, through retries, errors
\* and cancellations; only those that still hold a slot of a limit replaced
\* by set_limit come on top, and each of them by no more than that limit.
InFlightIsBounded ==
    /\ cached # 0 => Cardinality(Holders({cached})) <= limit
    /\ \A k \in DOMAIN sems : Cardinality(Holders({k})) + sems[k].free <= inForce[k]
    /\ changes = 0 => Cardinality(Holders(DOMAIN sems)) <= limit

\* A call that has a slot, or waits for one, ends: no slot is lost on an
\* error path, and no rate limit is retried for ever.
EveryCallEnds ==
    \A c \in Call : stage[c] # "idle" ~> stage[c] \in {"done", "raised"}

-----------------------------------------------------------------------------
(***************************************************************************)
(* The contract of external agents (backends/external_adapter.py): adapters *)
(* declare what they can do, are loaded from plugin descriptors             *)
(* (backends/external_plugins.py), and run one operation at a time for a    *)
(* caller while another may ask to cancel it.                               *)
(***************************************************************************)

CONSTANTS
    Adapter,      \* adapter ids
    Wrapper,      \* adapters that wrap a backend: BackendReadOnlyExternalAgentAdapter
    Declared,     \* Declared[a]: operations the others support, call read-only, write with
    Plugins,      \* the descriptors, in the order of their files
    AgentCaller,
    MaxAgentRuns  \* bound: runs

Operation == {"probe", "plan", "implement", "review", "validate", "checkpoint",
              "cancel", "read", "write"}
ReadOnlyByNature == {"probe", "plan", "review", "validate", "checkpoint", "read"}
WritesByNature == {"implement", "write"}

ASSUME AgentAssumption ==
    /\ Wrapper \subseteq Adapter /\ MaxAgentRuns \in Nat
    /\ Plugins \in Seq(Adapter)
    /\ \A a \in Adapter \ Wrapper :
          Declared[a] \in [supports : SUBSET Operation, readOnly : SUBSET Operation,
                           writes : SUBSET Operation]

VARIABLES
    adapters,     \* the registry
    loadingAt,    \* the plugin being loaded, 0 when nobody loads
    agentRun,     \* what each caller runs, with its result
    agentRuns     \* history: runs begun

agentVars == <<adapters, loadingAt, agentRun, agentRuns>>

-----------------------------------------------------------------------------
\* What an adapter declares; a wrapper declares that it writes with nothing.
CapabilityOf(a) ==
    IF a \in Wrapper
    THEN [supports |-> ReadOnlyByNature \cup {"cancel"}, readOnly |-> ReadOnlyByNature,
          writes |-> {}]
    ELSE Declared[a]

NoAgentRun == [at |-> "idle", adapter |-> "none", op |-> "none", workspace |-> FALSE,
               result |-> "none", changed |-> FALSE, readOnly |-> FALSE,
               cancelTold |-> FALSE]

\* Reports no result that names changed files.
Result(r, status, readOnly) ==
    [r EXCEPT !.at = "done", !.result = status, !.changed = FALSE, !.readOnly = readOnly]

LoadStarts ==
    /\ loadingAt = 0 /\ Plugins # <<>>
    /\ loadingAt' = 1
    /\ UNCHANGED <<adapters, agentRun, agentRuns>>

\* A name that is registered already ends the loading: what a load that failed half
\* way has registered stays, so that no later load gets past it.
LoadPlugin ==
    /\ loadingAt # 0
    /\ IF Plugins[loadingAt] \in adapters
       THEN loadingAt' = 0 /\ UNCHANGED adapters
       ELSE /\ adapters' = adapters \cup {Plugins[loadingAt]}
            /\ loadingAt' = IF loadingAt = Len(Plugins) THEN 0 ELSE loadingAt + 1
    /\ UNCHANGED <<agentRun, agentRuns>>

\* The entry point cannot be imported, or is no adapter of that name.
LoadFails ==
    /\ loadingAt # 0
    /\ loadingAt' = 0
    /\ UNCHANGED <<adapters, agentRun, agentRuns>>

-----------------------------------------------------------------------------
\* Mutated form of Valid: the workspace is not asked for.
ValidAnywhere(a, op, workspace) == op \in CapabilityOf(a).supports
\* _validate_context
Valid(a, op, workspace) ==
    /\ op \in CapabilityOf(a).supports
    /\ op \in CapabilityOf(a).writes => workspace

\* resolve and run: an adapter nobody registered answers that it is unavailable.
BeginAgentRun(c, a, op, workspace) ==
    LET r == [NoAgentRun EXCEPT !.adapter = a, !.op = op, !.workspace = workspace]
    IN  /\ agentRun[c].at = "idle" /\ agentRuns < MaxAgentRuns
        /\ agentRuns' = agentRuns + 1
        /\ agentRun' = [agentRun EXCEPT ![c] =
               IF a \notin adapters \/ ~Valid(a, op, workspace)
               THEN Result(r, "unavailable", op \in ReadOnlyByNature)
               ELSE [r EXCEPT !.at = "runs"]]
        /\ UNCHANGED <<adapters, loadingAt>>

\* Mutated form of Accepted: any report is taken as it is.
AcceptedAsIs(r) == TRUE
\* run: an operation the adapter itself calls read-only must not report changes.
Accepted(r) == r.op \in CapabilityOf(r.adapter).readOnly => ~r.changed

\* A result that says nothing of read-only gets the nature of the operation.
Checked(r, ownReadOnly) ==
    IF Accepted(r)
    THEN [r EXCEPT !.at = "done", !.result = "completed",
                   !.readOnly = ownReadOnly \/ r.op \in ReadOnlyByNature]
    ELSE Result(r, "unavailable", r.op \in ReadOnlyByNature)

\* A plugin's own _run, which may change files and report it.
PluginAnswers(c, changed, ownReadOnly) ==
    LET r == [agentRun[c] EXCEPT !.changed = changed]
    IN  /\ agentRun[c].at = "runs" /\ agentRun[c].adapter \notin Wrapper
        /\ ownReadOnly => ~changed
        /\ agentRun' = [agentRun EXCEPT ![c] = Checked(r, ownReadOnly)]
        /\ UNCHANGED <<adapters, loadingAt, agentRuns>>

\* A wrapper's answer names no changed files; to cancel is an operation of its own.
WrapperAnswers(c) ==
    /\ agentRun[c].at = "runs" /\ agentRun[c].adapter \in Wrapper
    /\ agentRun' = [agentRun EXCEPT ![c] =
           IF agentRun[c].op = "cancel" THEN Result(agentRun[c], "cancelled", FALSE)
           ELSE Checked(agentRun[c], TRUE)]
    /\ UNCHANGED <<adapters, loadingAt, agentRuns>>

\* The backend is unavailable; a probe reports that as a completed one.
WrapperUnavailable(c) ==
    /\ agentRun[c].at = "runs" /\ agentRun[c].adapter \in Wrapper
    /\ agentRun[c].op # "cancel"
    /\ agentRun' = [agentRun EXCEPT ![c] =
           IF agentRun[c].op = "probe" THEN Checked(agentRun[c], TRUE)
           ELSE Result(agentRun[c], "unavailable", TRUE)]
    /\ UNCHANGED <<adapters, loadingAt, agentRuns>>

\* cancel answers that the request was recorded, and records it nowhere: the run
\* goes on.
CancelAgentRun(c) ==
    /\ agentRun[c].at = "runs" /\ ~agentRun[c].cancelTold
    /\ agentRun' = [agentRun EXCEPT ![c].cancelTold = TRUE]
    /\ UNCHANGED <<adapters, loadingAt, agentRuns>>

TakeResult(c) ==
    /\ agentRun[c].at = "done"
    /\ agentRun' = [agentRun EXCEPT ![c] = NoAgentRun]
    /\ UNCHANGED <<adapters, loadingAt, agentRuns>>

AgentInit ==
    /\ adapters = {} /\ loadingAt = 0
    /\ agentRun = [c \in AgentCaller |-> NoAgentRun]
    /\ agentRuns = 0

AgentNext ==
    \/ LoadStarts \/ LoadPlugin \/ LoadFails
    \/ \E c \in AgentCaller :
          \/ \E a \in Adapter, op \in Operation, w \in BOOLEAN : BeginAgentRun(c, a, op, w)
          \/ \E changed, ro \in BOOLEAN : PluginAnswers(c, changed, ro)
          \/ WrapperAnswers(c) \/ WrapperUnavailable(c) \/ CancelAgentRun(c) \/ TakeResult(c)

AgentSpec == AgentInit /\ [][AgentNext]_agentVars

-----------------------------------------------------------------------------
(* Properties *)

AgentTypeOK ==
    /\ adapters \subseteq Adapter /\ loadingAt \in 0..Len(Plugins)
    /\ \A c \in AgentCaller :
          /\ agentRun[c].at \in {"idle", "runs", "done"}
          /\ agentRun[c].result \in {"none", "completed", "unavailable", "cancelled"}

Honest(a) == /\ ReadOnlyByNature \subseteq CapabilityOf(a).readOnly
             /\ WritesByNature \cap CapabilityOf(a).supports \subseteq CapabilityOf(a).writes

RulesKept(r) ==
    /\ r.op \in ReadOnlyByNature => ~r.changed /\ r.readOnly
    /\ r.op \in WritesByNature => r.workspace
    /\ r.readOnly => ~r.changed

\* docs/development/external-agent-adapters.md:64-66: a completed run wrote only where
\* it had a workspace, and one of a read-only operation changed nothing, as far as an
\* adapter reports, if its declaration calls every operation what it is by nature.
HonestRunsKeepRules ==
    \A c \in AgentCaller : agentRun[c].result = "completed" /\ Honest(agentRun[c].adapter)
                         => RulesKept(agentRun[c])

\* docs/development/external-agent-adapters.md:64-66, of every adapter: "Write-capable
\* operations must require a workspace assignment.  Review, plan, validate, checkpoint,
\* probe, and read operations must not report file mutations."
RunsKeepRules ==
    \A c \in AgentCaller : agentRun[c].result = "completed" => RulesKept(agentRun[c])
=============================================================================
