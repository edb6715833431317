------------------------------ MODULE AgentLoop ------------------------------
(***************************************************************************)
(* Agent loops that run at the same time and share the cost ledger: the    *)
(* turns of AgentLoopBackend (backends/agent_loop.py), the condensation of *)
(* their message history (backends/condensation.py) and the monthly budget *)
(* (core/budget.py, core/ledger.py).  A loop is left to the event loop     *)
(* while it waits for the model, the summarizer or a tool.  Texts, prompts  *)
(* and prices are abstracted: a turn costs a number of units.              *)
(* And the loop of the local model (backends/ollama_agent_loop.py), which   *)
(* costs nothing and gives each tool's answer a message of its own.         *)
(***************************************************************************)
EXTENDS Integers, Sequences

CONSTANTS
    Loop,         \* runs of the loop, each for one task
    Streamed,     \* those run by stream(), the others by complete()
    Enforced,     \* those given the ledger and the budget enforcer
    TurnCost,     \* what a turn may cost
    MonthlyLimit, \* monthly_limit_usd, with hard_stop set
    StoryLimit,   \* budget_per_story_usd
    TaskLimit,    \* per_task_limit_usd
    MaxTurns,     \* max_turns
    KeepRecent,   \* keep_recent of each loop's condenser
    MaxLost,      \* bound: failed writes of the ledger
    MaxPrunes     \* bound: prunings of the ledger

ASSUME LoopAssumption ==
    /\ Streamed \subseteq Loop /\ Enforced \subseteq Loop
    /\ TurnCost \subseteq Nat
    /\ {MonthlyLimit, MaxTurns} \subseteq Nat \ {0}
    /\ {StoryLimit, TaskLimit, MaxLost, MaxPrunes} \subseteq Nat
    /\ KeepRecent \in [Loop -> Nat \ {0}]

VARIABLES
    at,        \* where each loop is
    turn,      \* its turn, from 1
    spent,     \* what its turns cost
    isLong,    \* whether its prompt tokens have reached the threshold
    history,   \* its messages
    ledger,    \* the cost recorded this month, as the ledger adds it up
    losses,    \* failed writes of the ledger so far
    prunes,    \* prunings so far
    beyond     \* history: calls each loop made with the budget used up

agentVars == <<at, turn, spent, isLong, history, ledger, losses, prunes, beyond>>

-----------------------------------------------------------------------------
\* BudgetEnforcer.require_under_budget: raises when the month's limit is spent.
UsedUp(sum) == sum >= MonthlyLimit

\* Loops and workers check before they run: worker.py checks once per task.
Start(l) ==
    /\ at[l] = "idle"
    /\ at' = [at EXCEPT ![l] = IF UsedUp(ledger) THEN "refused" ELSE "top"]
    /\ UNCHANGED <<turn, spent, isLong, history, ledger, losses, prunes, beyond>>

\* The wall clock is read at the top of a turn only.
PassDeadline(l) ==
    /\ at[l] = "top"
    /\ at' = [at EXCEPT ![l] = "timed_out"]
    /\ UNCHANGED <<turn, spent, isLong, history, ledger, losses, prunes, beyond>>

\* Mutated form of Condensed: the last message but one of the tail is lost.
CondensedShort(h, keep) ==
    IF Len(h) <= keep + 2 THEN h
    ELSE <<h[1], <<"summary", 0>>>> \o SubSeq(h, Len(h) - keep + 2, Len(h))
\* The first message, one summary of the middle, and the last keep messages.
Condensed(h, keep) ==
    IF Len(h) <= keep + 2 THEN h
    ELSE <<h[1], <<"summary", 0>>>> \o SubSeq(h, Len(h) - keep + 1, Len(h))

\* A summarizer that fails leaves the history as it is.
Condense(l) ==
    /\ at[l] = "top"
    /\ isLong[l]
    /\ history' \in {history, [history EXCEPT ![l] = Condensed(@, KeepRecent[l])]}
    /\ at' = [at EXCEPT ![l] = "ready"]
    /\ UNCHANGED <<turn, spent, isLong, ledger, losses, prunes, beyond>>

CallModel(l) ==
    /\ at[l] = "ready" \/ (at[l] = "top" /\ ~isLong[l])
    /\ at' = [at EXCEPT ![l] = "calling"]
    /\ beyond' = [beyond EXCEPT ![l] = IF UsedUp(ledger) THEN @ + 1 ELSE @]
    /\ UNCHANGED <<turn, spent, isLong, history, ledger, losses, prunes>>

\* What stops a loop once a turn's cost is booked; a stream has the story limit.
Broke(l, sum, own) ==
    \/ own > StoryLimit
    \/ l \in Enforced \ Streamed /\ (UsedUp(sum) \/ own > TaskLimit)

\* Mutated form of AnswerTurn: the limits are checked before the cost is added.
AnswerTurnCheckedFirst(l) ==
    /\ at[l] = "calling"
    /\ \E cost \in TurnCost, grows \in BOOLEAN, reason \in {"end_turn", "tool_use", "other"} :
          /\ spent' = [spent EXCEPT ![l] = @ + cost]
          /\ isLong' = [isLong EXCEPT ![l] = @ \/ grows]
          /\ ledger' = IF l \in Enforced THEN ledger + cost ELSE ledger
          /\ IF Broke(l, ledger, spent[l]) THEN
                at' = [at EXCEPT ![l] = "over_budget"] /\ UNCHANGED history
             ELSE IF reason = "tool_use" THEN
                /\ at' = [at EXCEPT ![l] = "tools"]
                /\ history' = [history EXCEPT ![l] = Append(@, <<"call", turn[l]>>)]
             ELSE at' = [at EXCEPT ![l] = "returned"] /\ UNCHANGED history
    /\ UNCHANGED <<turn, losses, prunes, beyond>>
\* The answer: its cost is booked, or lost when the write fails, and the limits
\* are checked before anything is done with it.
AnswerTurn(l) ==
    /\ at[l] = "calling"
    /\ \E cost \in TurnCost, grows \in BOOLEAN, reason \in {"end_turn", "tool_use", "other"} :
          /\ spent' = [spent EXCEPT ![l] = @ + cost]
          /\ isLong' = [isLong EXCEPT ![l] = @ \/ grows]
          /\ \/ ledger' = (IF l \in Enforced THEN ledger + cost ELSE ledger) /\ UNCHANGED losses
             \/ l \in Enforced /\ losses < MaxLost /\ losses' = losses + 1 /\ UNCHANGED ledger
          /\ IF Broke(l, ledger', spent'[l]) THEN
                at' = [at EXCEPT ![l] = "over_budget"] /\ UNCHANGED history
             ELSE IF reason = "tool_use" THEN
                /\ at' = [at EXCEPT ![l] = "tools"]
                /\ history' = [history EXCEPT ![l] = Append(@, <<"call", turn[l]>>)]
             ELSE at' = [at EXCEPT ![l] = "returned"] /\ UNCHANGED history
    /\ UNCHANGED <<turn, prunes, beyond>>

\* All the turn's tools are run, failed ones too, and answered in one message;
\* the loop gives up when that was its last turn.
RunTools(l) ==
    /\ at[l] = "tools"
    /\ history' = [history EXCEPT ![l] = Append(@, <<"results", turn[l]>>)]
    /\ \/ turn[l] < MaxTurns /\ turn' = [turn EXCEPT ![l] = @ + 1] /\ at' = [at EXCEPT ![l] = "top"]
       \/ turn[l] = MaxTurns /\ at' = [at EXCEPT ![l] = "out_of_turns"] /\ UNCHANGED turn
    /\ UNCHANGED <<spent, isLong, ledger, losses, prunes, beyond>>

\* The worker books the whole run again when it has returned; of a run that
\* raised it books nothing.
BookRun(l) ==
    /\ at[l] = "returned"
    /\ at' = [at EXCEPT ![l] = "done"]
    /\ ledger' = ledger + spent[l]
    /\ UNCHANGED <<turn, spent, isLong, history, losses, prunes, beyond>>

\* Pruning by age takes records of this month too when the retention is short.
PruneLedger ==
    /\ prunes < MaxPrunes
    /\ ledger' \in 0..ledger
    /\ prunes' = prunes + 1
    /\ UNCHANGED <<at, turn, spent, isLong, history, losses, beyond>>

AgentInit ==
    /\ at = [l \in Loop |-> "idle"]
    /\ turn = [l \in Loop |-> 1]
    /\ spent = [l \in Loop |-> 0]
    /\ isLong = [l \in Loop |-> FALSE]
    /\ history = [l \in Loop |-> <<<<"task", 0>>>>]
    /\ ledger = 0
    /\ losses = 0
    /\ prunes = 0
    /\ beyond = [l \in Loop |-> 0]

AgentNext ==
    \/ \E l \in Loop : \/ Start(l) \/ PassDeadline(l) \/ Condense(l) \/ CallModel(l)
                       \/ AnswerTurn(l) \/ RunTools(l) \/ BookRun(l)
    \/ PruneLedger

AgentSpec == AgentInit /\ [][AgentNext]_agentVars

-----------------------------------------------------------------------------
(* Properties *)

AgentTypeOK ==
    /\ at \in [Loop -> {"idle", "top", "ready", "calling", "tools", "returned", "done",
                        "refused", "timed_out", "over_budget", "out_of_turns"}]
    /\ turn \in [Loop -> 1..MaxTurns]
    /\ spent \in [Loop -> Nat]
    /\ isLong \in [Loop -> BOOLEAN]
    /\ \A l \in Loop : \A i \in DOMAIN history[l] :
          history[l][i] \in {"task", "call", "results", "summary"} \X (0..MaxTurns)
    /\ ledger \in Nat /\ losses \in 0..MaxLost /\ prunes \in 0..MaxPrunes
    /\ beyond \in [Loop -> 0..MaxTurns]

\* However the turns of several loops interleave, an enforced loop makes one
\* call at most after the month's budget is used up, though the others used it
\* up while it was running tools; only a stream, or a loop without the enforcer,
\* goes on.  A loop passes its own limit by one turn at most.
OneTurnBeyond ==
    \A l \in Loop :
        /\ l \in Enforced \ Streamed /\ losses = 0 /\ prunes = 0 => beyond[l] <= 1
        /\ \E c \in TurnCost \cup {0} : spent[l] <= StoryLimit + c
        /\ at[l] = "tools" => spent[l] <= StoryLimit

\* What is sent to the model, condensed any number of times, starts with the
\* task; every tool call in it is answered by the next message, and every
\* answer has its call before it unless the summary took the call, as an odd
\* keep_recent makes it.
CallsAreAnswered ==
    \A l \in Loop : at[l] = "calling" =>
        /\ history[l][1] = <<"task", 0>>
        /\ \A i \in DOMAIN history[l] :
             LET h == history[l]
             IN /\ h[i][1] = "call" => i < Len(h) /\ h[i + 1] = <<"results", h[i][2]>>
                /\ h[i][1] = "results" =>
                      \/ h[i - 1] = <<"call", h[i][2]>>
                      \/ h[i - 1][1] = "summary" /\ KeepRecent[l] % 2 = 1
-----------------------------------------------------------------------------
(* One run of the local model's loop *)

CONSTANTS
    LocalTurns,   \* its max_turns
    LocalKeep,    \* keep_recent of its condenser
    MaxCalls      \* bound: tool calls of an answer

ASSUME LocalAssumption ==
    {LocalTurns, LocalKeep} \subseteq Nat \ {0} /\ MaxCalls \in Nat

VARIABLES
    localAt,      \* where it is
    localTurn,    \* its turn, from 1
    localLong,    \* whether its prompt tokens have reached the threshold
    talk,         \* its messages: a kind, its turn, a number
    answeredTo    \* calls of this turn answered so far

localVars == <<localAt, localTurn, localLong, talk, answeredTo>>

LocalDeadline ==
    /\ localAt = "top"
    /\ localAt' = "timed_out"
    /\ UNCHANGED <<localTurn, localLong, talk, answeredTo>>

\* The system message is the first message here, and the task the second.
LocalCondense ==
    /\ localAt = "top" /\ localLong
    /\ localAt' = "ready"
    /\ talk' \in {talk, Condensed(talk, LocalKeep)}
    /\ UNCHANGED <<localTurn, localLong, answeredTo>>

LocalCall ==
    /\ localAt = "ready" \/ (localAt = "top" /\ ~localLong)
    /\ localAt' \in {"calling", "failed"}
    /\ UNCHANGED <<localTurn, localLong, talk, answeredTo>>

\* Calls are made only if there are some and the answer ended for them; any other
\* answer is returned, calls and all.
LocalAnswer ==
    /\ localAt = "calling"
    /\ localLong' \in {localLong, TRUE}
    /\ \/ localAt' = "returned" /\ UNCHANGED talk
       \/ \E calls \in 1..MaxCalls :
             /\ talk' = Append(talk, <<"call", localTurn, calls>>)
             /\ localAt' = "tools"
    /\ answeredTo' = 0
    /\ UNCHANGED localTurn

NextTurn ==
    IF localTurn < LocalTurns THEN localTurn' = localTurn + 1 /\ localAt' = "top"
    ELSE localAt' = "out_of_turns" /\ UNCHANGED localTurn

\* Mutated form of LocalTool: the calls after the first are passed over.
LocalToolOnce ==
    /\ localAt = "tools"
    /\ talk' = Append(talk, <<"result", localTurn, 1>>)
    /\ answeredTo' = 1 /\ NextTurn
    /\ UNCHANGED localLong
\* One tool, and its answer; a tool that is unknown ends the run.
LocalTool ==
    /\ localAt = "tools"
    /\ \/ /\ answeredTo' = answeredTo + 1
          /\ talk' = Append(talk, <<"result", localTurn, answeredTo'>>)
          /\ IF answeredTo' < talk[Len(talk) - answeredTo][3] THEN UNCHANGED <<localAt, localTurn>>
             ELSE NextTurn
       \/ localAt' = "failed" /\ UNCHANGED <<localTurn, talk, answeredTo>>
    /\ UNCHANGED localLong

LocalInit ==
    /\ localAt = "top" /\ localTurn = 1 /\ localLong = FALSE
    /\ talk = <<<<"system", 0, 0>>, <<"task", 0, 0>>>>
    /\ answeredTo = 0

LocalNext ==
    LocalDeadline \/ LocalCondense \/ LocalCall \/ LocalAnswer \/ LocalTool

LocalSpec == LocalInit /\ [][LocalNext]_localVars

-----------------------------------------------------------------------------
(* Properties *)

LocalTypeOK ==
    /\ localAt \in {"top", "ready", "calling", "tools", "returned", "failed", "timed_out",
                    "out_of_turns"}
    /\ localTurn \in 1..LocalTurns /\ localLong \in BOOLEAN /\ answeredTo \in 0..MaxCalls
    /\ \A i \in DOMAIN talk :
          talk[i][1] \in {"system", "task", "call", "result", "summary"}

\* What is sent to the local model, condensed any number of times: each message of
\* calls is followed by all of their answers, in order, and an answer stands alone
\* only where the summary has taken its call.
LocalCallsAreAnswered ==
    localAt = "calling" => \A i \in DOMAIN talk :
        /\ talk[i][1] = "call" =>
              \A n \in 1..talk[i][3] :
                 i + n <= Len(talk) /\ talk[i + n] = <<"result", talk[i][2], n>>
        /\ talk[i][1] = "result" =>
              \/ talk[i - 1][1] \in {"call", "result"} /\ talk[i - 1][2] = talk[i][2]
              \/ talk[i - 1][1] = "summary"

\* condensation.py:42: "The first message (the task statement) is always retained".
\* The first message of this loop is the system's, and the task is summarized away.
TaskIsRetained == \E i \in DOMAIN talk : talk[i][1] = "task"
=============================================================================
