------------------------------ MODULE ToolCalls ------------------------------
(***************************************************************************)
(* The tools of an agent loop: the calls it makes through its registry,    *)
(* and the tools that servers elsewhere put into it.                       *)
(***************************************************************************)
EXTENDS Naturals, FiniteSets, Sequences

-----------------------------------------------------------------------------
(***************************************************************************)
(* Calls of tools through the registry (tools/mcp.py) with the hooks an     *)
(* operator configured (hooks.py) and the record of invocations.            *)
(*                                                                         *)
(* A call passes the policy, the approval tier and the matching pre_tool    *)
(* hooks, runs its handler, passes the matching post_tool hooks and is      *)
(* recorded; it may be cancelled wherever it waits.  What follows a wait    *)
(* up to the next one is one step.                                          *)
(*                                                                         *)
(* The hooks around a session (pre_commit, on_prompt, on_stop) come from a  *)
(* file, as do those of the tools; nothing in src/ runs them yet, so they   *)
(* are a part of their own, one run at a time.                              *)
(***************************************************************************)

CONSTANTS
    ToolCall,
    Unknown,      \* calls that name a tool nobody registered
    SpecOf,       \* SpecOf[c]: capabilities, risk and approval of the tool that c names
    Policy,       \* the registry's policy: see Permits
    ApprovalTier, \* ApprovalTier[c]: "full-auto", "auto-edit" or "suggest", of c's registry
    PreHooks,     \* PreHooks[c]: how many pre_tool hooks match c's tool
    PostHooks,    \* PostHooks[c]: how many post_tool hooks do
    Commands      \* commands in a section of the file that lists any

ASSUME ToolAssumption ==
    /\ Unknown \subseteq ToolCall
    /\ \A c \in ToolCall : SpecOf[c].risk \in Nat /\ SpecOf[c].approval \in BOOLEAN
    /\ Policy.risk \in Nat /\ Policy.unclassified \in BOOLEAN
    /\ ApprovalTier \in [ToolCall -> {"full-auto", "auto-edit", "suggest"}]
    /\ PreHooks \in [ToolCall -> Nat] /\ PostHooks \in [ToolCall -> Nat]
    /\ Commands \in Nat \ {0}

VARIABLES
    call,         \* each call: where it is, hooks passed, what it told its caller
    effects,      \* calls whose handler has changed something
    records,      \* the invocation records in memory, in order
    written,      \* calls whose record is in the file too
    balked,       \* history: calls and hooks' phases where a hook did not exit with zero
    hookFile,     \* what the file says in each section
    hooks,        \* the commands loaded from each, if they are
    hookRun       \* the run of a section under way: its exit codes, and what came of it

toolVars == <<call, effects, records, written, balked>>
hookVars == <<hookFile, hooks, hookRun>>

-----------------------------------------------------------------------------
NewCall == [at |-> "new", passed |-> 0, answer |-> "none"]
At(c) == call[c].at
Moves(c, at, passed) ==
    call' = [call EXCEPT ![c] = [at |-> at, passed |-> passed, answer |-> "none"]]
\* An exception leaves invoke: its caller, the agent's loop, does not catch it.
Raises(c) == call' = [call EXCEPT ![c].at = "over", ![c].answer = "raised"]

\* _record_invocation: the file may refuse the line, which is only logged.
Records(c, status) ==
    /\ records' = Append(records, [c |-> c, status |-> status])
    /\ written' \in {written, written \cup {c}}
Returns(c, status) ==
    /\ Records(c, status)
    /\ call' = [call EXCEPT ![c].at = "over",
                   ![c].answer = IF status = "succeeded" THEN "content" ELSE "error"]

\* denial_reason: the tool's name, its capabilities (none at all is only for a policy
\* without a list of allowed ones), its risk and whether it asks for an approval.
Permits(tool, spec) ==
    /\ tool \notin Policy.deniedTools /\ tool \in Policy.allowedTools
    /\ spec.capabilities \cap Policy.deniedCapabilities = {}
    /\ spec.capabilities \subseteq Policy.allowedCapabilities
    /\ spec.capabilities = {} => Policy.unclassified
    /\ spec.risk <= Policy.risk
    /\ ~spec.approval
IsDenied(c) == ~Permits(c, SpecOf[c])
AutoExecuteTiers == {"auto-edit", "full-auto"}

AfterPre(c, passed) == IF passed = PreHooks[c] THEN "handler" ELSE "pre"

Invoke(c) ==
    /\ At(c) = "new"
    /\ \/ /\ c \in Unknown
          /\ Raises(c)
          /\ UNCHANGED <<records, written>>
       \/ /\ c \notin Unknown /\ IsDenied(c)
          /\ Returns(c, "denied")
       \/ /\ c \notin Unknown /\ ~IsDenied(c)
          /\ ApprovalTier[c] \notin AutoExecuteTiers
          /\ Returns(c, "approval_required")
       \/ /\ c \notin Unknown /\ ~IsDenied(c)
          /\ ApprovalTier[c] \in AutoExecuteTiers
          /\ Moves(c, AfterPre(c, 0), 0)
          /\ UNCHANGED <<records, written>>
    /\ UNCHANGED <<effects, balked>>

HookOutcome == {"zero", "nonzero", "timeout", "error"}
Balks(c, outcome) ==
    balked' = IF outcome = "zero" THEN balked ELSE balked \cup {<<c, At(c)>>}

\* Mutated form of PreHook: a hook that runs out of time lets the call through.
PreHookTimeoutPasses(c, outcome) ==
    /\ At(c) = "pre"
    /\ \/ /\ outcome \in {"zero", "timeout"}
          /\ Moves(c, AfterPre(c, call[c].passed + 1), call[c].passed + 1)
          /\ UNCHANGED <<records, written>>
       \/ outcome = "nonzero" /\ Returns(c, "denied")
       \/ outcome = "error" /\ Returns(c, "failed")
    /\ Balks(c, outcome)
    /\ UNCHANGED effects
PreHook(c, outcome) ==
    /\ At(c) = "pre"
    /\ \/ /\ outcome = "zero"
          /\ Moves(c, AfterPre(c, call[c].passed + 1), call[c].passed + 1)
          /\ UNCHANGED <<records, written>>
       \/ outcome \in {"nonzero", "timeout"} /\ Returns(c, "denied")
       \/ outcome = "error" /\ Returns(c, "failed")
    /\ Balks(c, outcome)
    /\ UNCHANGED effects

\* A handler that fails may have done a part of its work.
RunHandler(c, ok) ==
    /\ At(c) = "handler"
    /\ \/ /\ ok
          /\ effects' = effects \cup {c}
          /\ IF PostHooks[c] = 0 THEN Returns(c, "succeeded")
             ELSE /\ Moves(c, "post", call[c].passed)
                  /\ UNCHANGED <<records, written>>
       \/ /\ ~ok
          /\ effects' \in {effects, effects \cup {c}}
          /\ Returns(c, "failed")
    /\ UNCHANGED balked

\* The runner's own exception is not caught here: the call is not recorded.
PostHook(c, outcome) ==
    /\ At(c) = "post"
    /\ \/ /\ outcome = "zero"
          /\ IF call[c].passed + 1 = PreHooks[c] + PostHooks[c]
             THEN /\ Records(c, "succeeded")
                  /\ call' = [call EXCEPT ![c].at = "over", ![c].answer = "content",
                                          ![c].passed = @ + 1]
             ELSE Moves(c, "post", call[c].passed + 1) /\ UNCHANGED <<records, written>>
       \/ outcome \in {"nonzero", "timeout"} /\ Returns(c, "failed")
       \/ outcome = "error" /\ Raises(c) /\ UNCHANGED <<records, written>>
    /\ Balks(c, outcome)
    /\ UNCHANGED effects

CancelCall(c) ==
    /\ At(c) \in {"pre", "handler", "post"}
    /\ effects' \in {effects} \cup (IF At(c) = "handler" THEN {effects \cup {c}} ELSE {})
    /\ Raises(c)
    /\ UNCHANGED <<records, written, balked>>

-----------------------------------------------------------------------------
ToolInit ==
    /\ call = [c \in ToolCall |-> NewCall]
    /\ effects = {}
    /\ records = <<>>
    /\ written = {}
    /\ balked = {}

ToolNext ==
    \E c \in ToolCall :
       \/ Invoke(c) \/ CancelCall(c)
       \/ \E outcome \in HookOutcome : PreHook(c, outcome) \/ PostHook(c, outcome)
       \/ \E ok \in BOOLEAN : RunHandler(c, ok)

-----------------------------------------------------------------------------
(* The hooks of a session *)

HookSection == {"pre_tool", "post_tool", "pre_commit", "on_prompt", "on_stop"}
Around == {"pre_commit", "on_prompt", "on_stop"}
Unloaded == [s \in HookSection |-> Commands + 1]
NoHookRun == [section |-> "none", codes |-> <<>>, verdict |-> "none"]

\* Mutated form of LoadHooks: a section that cannot be read counts as empty.
LoadHooksLeniently ==
    /\ hooks = Unloaded
    /\ hooks' = [s \in HookSection |-> IF hookFile[s] = "listed" THEN Commands ELSE 0]
    /\ UNCHANGED <<hookFile, hookRun>>
\* load_hook_config: no file is one without sections, and one section that
\* cannot be read refuses them all.
LoadHooks ==
    /\ hooks = Unloaded
    /\ \A s \in HookSection : hookFile[s] # "malformed"
    /\ hooks' = [s \in HookSection |-> IF hookFile[s] = "listed" THEN Commands ELSE 0]
    /\ UNCHANGED <<hookFile, hookRun>>

BeginHookRun(s) ==
    /\ hooks # Unloaded
    /\ hookRun.verdict # "running"
    /\ hookRun' = [section |-> s, codes |-> <<>>,
                   verdict |-> IF hooks[s] = 0 THEN "passed" ELSE "running"]
    /\ UNCHANGED <<hookFile, hooks>>

\* run_pre_commit stops at the first command that fails, run_on_prompt and
\* run_on_stop go on; a command that cannot be run at all raises.
RunCommand(outcome) ==
    /\ hookRun.verdict = "running"
    /\ LET codes == Append(hookRun.codes, outcome)
           stops == hookRun.section = "pre_commit" /\ outcome # "zero"
       IN hookRun' = [hookRun EXCEPT !.codes = codes,
              !.verdict = IF outcome = "error" THEN "raised"
                          ELSE IF stops THEN "failed"
                          ELSE IF Len(codes) = hooks[hookRun.section] THEN "passed" ELSE @]
    /\ UNCHANGED <<hookFile, hooks>>

HookInit ==
    /\ hookFile \in [HookSection -> {"absent", "listed", "malformed"}]
    /\ hooks = Unloaded
    /\ hookRun = NoHookRun

HookNext ==
    \/ LoadHooks
    \/ \E s \in Around : BeginHookRun(s)
    \/ \E outcome \in HookOutcome : RunCommand(outcome)

CallsNext ==
    \/ ToolNext /\ UNCHANGED hookVars
    \/ HookNext /\ UNCHANGED toolVars

ToolSpec == ToolInit /\ HookInit /\ [][CallsNext]_<<toolVars, hookVars>>

-----------------------------------------------------------------------------
(* Properties *)

ToolTypeOK ==
    /\ \A c \in ToolCall :
          /\ call[c].at \in {"new", "pre", "handler", "post", "over"}
          /\ call[c].passed \in 0..(PreHooks[c] + PostHooks[c])
          /\ call[c].answer \in {"none", "content", "error", "raised"}
    /\ effects \subseteq ToolCall
    /\ written \subseteq {records[i].c : i \in DOMAIN records}
    /\ balked \subseteq ToolCall \X {"pre", "post"}
    /\ hooks \in [HookSection -> 0..(Commands + 1)]
    /\ hookRun.verdict \in {"none", "running", "passed", "failed", "raised"}
    /\ \A i \in DOMAIN hookRun.codes : hookRun.codes[i] \in HookOutcome

StatusesOf(c) == {records[i].status : i \in {j \in DOMAIN records : records[j].c = c}}

\* What the agent is told, what is recorded and what was done agree: content
\* comes only from a call all of whose hooks exited with zero, a call that was
\* refused did nothing, each call is recorded once, and only a call that raised can have
\* had an effect without a record.
ToolRecordsAreTrue ==
    /\ Len(records) = Cardinality({records[i].c : i \in DOMAIN records})
    /\ \A c \in ToolCall : <<c, "pre">> \in balked => c \notin effects
    /\ \A c \in ToolCall : At(c) = "over" =>
          /\ call[c].answer = "content" =>
                /\ c \in effects
                /\ <<c, "post">> \notin balked
                /\ call[c].passed = PreHooks[c] + PostHooks[c]
          /\ (call[c].answer = "content") = (StatusesOf(c) = {"succeeded"})
          /\ StatusesOf(c) \cap {"denied", "approval_required"} # {} => c \notin effects
          /\ StatusesOf(c) = {} => call[c].answer = "raised"

\* A commit gate passes only when every command that the operator's file holds
\* for it exited with zero, and what a prompt is given is the output of them all:
\* a file that cannot be read leaves no gate out, it leaves no session.
GatesAreNotDropped ==
    hookRun.verdict = "passed" =>
        /\ hookFile[hookRun.section] # "absent" => Len(hookRun.codes) = Commands
        /\ hookRun.section = "pre_commit" => \A i \in DOMAIN hookRun.codes : hookRun.codes[i] = "zero"

-----------------------------------------------------------------------------
(***************************************************************************)
(* The tools of other MCP servers (mcp/client): the daemon starts a manager  *)
(* that connects to each configured server, one after the other, and caches  *)
(* its tools, while workers already run; each agent loop puts what is cached *)
(* into a registry of its own, beside the tools of the program.              *)
(***************************************************************************)

CONSTANTS ServerOf,    \* mcp_servers: sequence of configurations of servers
          Offers,      \* what each server may list: a set of sequences of tools
          FullName,    \* the name of a server's tool in a registry: server__tool
          BuiltinTool, \* names of the program's own tools
          Loop         \* agent loops

VARIABLES dialled,     \* how many servers start has been through
          dialling,    \* where it is with the next
          openServers,      \* servers whose session is open
          cached,      \* _tools: what has been listed, in order
          closed,      \* whether the manager has been stopped
          registry,    \* of each loop, once it has one: a function from names to tools
          answered     \* the last call of a tool: its name, whose it was, what came back

serverVars == <<dialled, dialling, openServers, cached, closed, registry, answered>>

NoRegistry == [name \in {} |-> 0]
NoAnswer == [name |-> "none", tool |-> 0, kind |-> "none"]
Own == [server |-> 0, tool |-> "own"]

ServersInit ==
    /\ dialled = 0 /\ dialling = "next" /\ openServers = {} /\ cached = <<>>
    /\ closed = FALSE /\ registry = [l \in Loop |-> NoRegistry] /\ answered = NoAnswer

-----------------------------------------------------------------------------
Next1 == dialled + 1
Starting == dialled < Len(ServerOf) /\ ~closed

\* A server that is off, or whose transport is not known or lacks what it needs.
Reachable(server) ==
    /\ server.enabled
    /\ \/ server.transport = "stdio" /\ server.command
       \/ server.transport \in {"sse", "http"} /\ server.url

PassOver ==
    /\ Starting /\ dialling = "next" /\ ~Reachable(ServerOf[Next1])
    /\ dialled' = Next1
    /\ UNCHANGED <<dialling, openServers, cached, closed, registry, answered>>

\* The transport and the session, which is initialized; then its tools are asked for.
Connect ==
    /\ Starting /\ dialling = "next" /\ Reachable(ServerOf[Next1])
    /\ dialling' = "listing" /\ openServers' = openServers \cup {Next1}
    /\ UNCHANGED <<dialled, cached, closed, registry, answered>>

\* Whatever is raised is logged, and the next server is tried.
ConnectFails ==
    /\ Starting /\ dialling = "next" /\ Reachable(ServerOf[Next1])
    /\ dialled' = Next1
    /\ UNCHANGED <<dialling, openServers, cached, closed, registry, answered>>

ToolsOf(tools) == [k \in DOMAIN tools |-> [server |-> Next1, tool |-> tools[k]]]

ListTools ==
    /\ Starting /\ dialling = "listing"
    /\ \E tools \in Offers : cached' = cached \o ToolsOf(tools)
    /\ dialled' = Next1 /\ dialling' = "next"
    /\ UNCHANGED <<openServers, closed, registry, answered>>

\* The list cannot be had, or a tool of it cannot be described: those before it are kept,
\* and so is the session.
ListFails ==
    /\ Starting /\ dialling = "listing"
    /\ \E tools \in Offers : \E k \in 0..Len(tools) :
          /\ k < Len(tools) \/ k = 0
          /\ cached' = cached \o ToolsOf(SubSeq(tools, 1, k))
    /\ dialled' = Next1 /\ dialling' = "next"
    /\ UNCHANGED <<openServers, closed, registry, answered>>

StopServers ==
    /\ ~closed /\ dialled = Len(ServerOf)
    /\ closed' = TRUE /\ openServers' = {}
    /\ UNCHANGED <<dialled, dialling, cached, registry, answered>>

-----------------------------------------------------------------------------
\* attach_tools: a name that the registry has is not registered again.
NameOf(k) == FullName[ServerOf[cached[k].server].name, cached[k].tool]
Named(name) == {k \in DOMAIN cached : NameOf(k) = name}
First(S) == CHOOSE n \in S : \A m \in S : n <= m

\* Mutated form of First: a name that the registry has is registered over.
FirstIsLast(S) == CHOOSE n \in S : \A m \in S : m <= n

Attached ==
    [name \in BuiltinTool \cup {NameOf(k) : k \in DOMAIN cached} |->
        IF name \in BuiltinTool THEN Own ELSE cached[First(Named(name))]]

AttachTools(l) ==
    /\ registry[l] = NoRegistry
    /\ registry' = [registry EXCEPT ![l] = Attached]
    /\ UNCHANGED <<dialled, dialling, openServers, cached, closed, answered>>

LoopEnds(l) ==
    /\ registry[l] # NoRegistry
    /\ registry' = [registry EXCEPT ![l] = NoRegistry]
    /\ UNCHANGED <<dialled, dialling, openServers, cached, closed, answered>>

\* The handler of a tool: an answer marked as an error, a session that is closed and
\* whatever else is raised become a RuntimeError that names the tool.
CallTool(l) ==
    /\ \E name \in DOMAIN registry[l] \ BuiltinTool :
          LET tool == registry[l][name] IN
          \E kind \in {"failed"} \cup (IF tool.server \in openServers THEN {"content"} ELSE {}) :
             answered' = [name |-> name, tool |-> tool, kind |-> kind]
    /\ UNCHANGED <<dialled, dialling, openServers, cached, closed, registry>>

ServersNext ==
    \/ PassOver \/ Connect \/ ConnectFails \/ ListTools \/ ListFails \/ StopServers
    \/ \E l \in Loop : AttachTools(l) \/ LoopEnds(l) \/ CallTool(l)

ServersSpec == ServersInit /\ [][ServersNext]_serverVars

-----------------------------------------------------------------------------
\* Every variable keeps its type.
ServersTypeOK ==
    /\ dialled \in 0..Len(ServerOf) /\ dialling \in {"next", "listing"}
    /\ openServers \subseteq DOMAIN ServerOf /\ closed \in BOOLEAN
    /\ \A k \in DOMAIN cached : cached[k].server \in DOMAIN ServerOf
    /\ \A l \in Loop : registry[l] = NoRegistry \/ BuiltinTool \subseteq DOMAIN registry[l]

\* A name means one tool in every registry, whenever its loop began: also while servers
\* are being connected, and if two servers' names and tools make the same name.
NamesMeanOneTool ==
    \A l, m \in Loop : \A name \in DOMAIN registry[l] \cap DOMAIN registry[m] :
        registry[l][name] = registry[m][name]

\* A registry never has a tool of a server that was passed over or was not connected to,
\* and a tool that answered is one of its own server's, which goes by that name.
ToolsAreOfTheirServer ==
    /\ \A l \in Loop : \A name \in DOMAIN registry[l] \ BuiltinTool :
          LET tool == registry[l][name] IN
          /\ name = FullName[ServerOf[tool.server].name, tool.tool]
          /\ Reachable(ServerOf[tool.server])
          /\ closed \/ tool.server \in openServers
    /\ \A name \in BuiltinTool, l \in Loop :
          registry[l] # NoRegistry => registry[l][name] = Own
=============================================================================
