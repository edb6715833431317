---------------------------- MODULE GithubAccess ----------------------------
(***************************************************************************)
(* Calls of GitHub: the retry loops of the gh client (gh/client.py) and the *)
(* tool through which agents call it (tools/gh_proxy.py).  GitHub admits so *)
(* many calls in a window of time; a call may also be performed and never   *)
(* answered.  And the installation token that such calls carry.             *)
(***************************************************************************)
EXTENDS Naturals, Sequences, FiniteSetsExt

CONSTANTS
    GhCall,       \* calls
    Op,           \* Op[c]: "granted", "denied", "malformed", or "plain" if not proxied
    Awaits,       \* calls through _gh, which looks up when the limit resets
    PerWindow,    \* calls that GitHub admits in a window
    WindowLength, \* ticks in a window
    Tries,        \* attempts a call makes at most
    Ceiling,      \* _MAX_RATE_LIMIT_WAIT_SECONDS, in ticks
    Cap,          \* ticks that any other call waits at most
    MaxLate,      \* bound: calls performed before their answer is a refusal
    MaxTime       \* bound: ticks

ASSUME GithubAssumption ==
    /\ Op \in [GhCall -> {"granted", "denied", "malformed", "plain"}]
    /\ {PerWindow, WindowLength, Tries} \subseteq Nat \ {0}
    /\ {Ceiling, Cap, MaxLate, MaxTime} \subseteq Nat

VARIABLES
    time,         \* the clock
    used,         \* calls admitted in this window
    call,         \* each call: where it is, its attempts, when it wakes, its reply
    performed,    \* history: how often GitHub did what a call asks
    late,         \* history: how often it did so and then refused
    ledger        \* the audit entries of each call

githubVars == <<time, used, call, performed, late, ledger>>

-----------------------------------------------------------------------------
(* Calls *)

Proxied(c) == Op[c] # "plain"

NextReset == (time \div WindowLength + 1) * WindowLength

\* The proxy audits what it replies; the write may fail.  A plain call raises.
Reply(c, what) ==
    /\ call' = [call EXCEPT ![c].at = "replied", ![c].reply = what]
    /\ \/ Proxied(c) /\ ledger' = [ledger EXCEPT ![c] = Append(@, what = "ok")]
       \/ UNCHANGED ledger

\* Mutated form of Admissible: the allowlist is not asked.
AdmissibleAnyhow(c) == Op[c] # "malformed"
Admissible(c) == Op[c] \in {"granted", "plain"}

Request(c) ==
    /\ call[c].at = "new"
    /\ IF Admissible(c)
       THEN call' = [call EXCEPT ![c].at = "run"] /\ UNCHANGED ledger
       ELSE Reply(c, "denied")
    /\ UNCHANGED <<time, used, performed, late>>

Succeeds(c) ==
    /\ call[c].at = "run" /\ used < PerWindow
    /\ used' = used + 1
    /\ performed' = [performed EXCEPT ![c] = @ + 1]
    /\ Reply(c, "ok")
    /\ UNCHANGED <<time, late>>

\* An error, or no answer for two minutes: gh is killed, whatever it has done.
Fails(c) ==
    /\ call[c].at = "run"
    /\ \/ UNCHANGED <<used, performed>>
       \/ /\ used < PerWindow /\ used' = used + 1
          /\ performed' = [performed EXCEPT ![c] = @ + 1]
    /\ Reply(c, "failed")
    /\ UNCHANGED <<time, late>>

\* Mutated form of WakeAt: an answer's reset is not believed.
WakeAtSoon(known) == time + 1
\* _parse_wait_seconds: until the reset and a second more, if the answer names it,
\* but no longer than the cap.
WakeAt(known) == IF known THEN Min({NextReset + 1, time + Cap}) ELSE time + 1

Sleep(c, wake, known) ==
    /\ call' = [call EXCEPT ![c].at = "asleep", ![c].tries = @ + 1, ![c].wake = wake,
                            ![c].reset = IF known THEN NextReset ELSE 0, ![c].told = time]
    /\ UNCHANGED ledger

\* _request_with_retry: the last refusal is raised.
Retried(c, known) ==
    IF call[c].tries + 1 < Tries THEN Sleep(c, WakeAt(known), known) ELSE Reply(c, "limited")

\* _gh: it waits for the reset if that is near, and then tries again, once more
\* than the schedule has entries; without a reset it backs off, and the last
\* refusal is raised.
Awaited(c, known) ==
    IF call[c].tries = Tries THEN Reply(c, "failed")
    ELSE IF known THEN IF NextReset - time > Ceiling THEN Reply(c, "limited")
                       ELSE Sleep(c, NextReset, known)
    ELSE IF call[c].tries + 1 < Tries THEN Sleep(c, time + 1, known) ELSE Reply(c, "limited")

\* Refused for the limit, by a call that takes several requests perhaps after what
\* it asks was done.
Refused(c, known) ==
    /\ call[c].at = "run"
    /\ \/ used >= PerWindow /\ UNCHANGED <<performed, late, used>>
       \/ /\ used = PerWindow - 1 /\ used' = PerWindow
          /\ late[c] < MaxLate /\ late' = [late EXCEPT ![c] = @ + 1]
          /\ performed' = [performed EXCEPT ![c] = @ + 1]
    /\ IF c \in Awaits THEN Awaited(c, known) ELSE Retried(c, known)
    /\ UNCHANGED <<time>>

WakeUp(c) ==
    /\ call[c].at = "asleep" /\ call[c].wake <= time
    /\ call' = [call EXCEPT ![c].at = "run"]
    /\ UNCHANGED <<time, used, performed, late, ledger>>

\* The agent's task is cancelled: nothing is replied, and nothing audited.
Abandon(c) ==
    /\ call[c].at \in {"run", "asleep"}
    /\ call' = [call EXCEPT ![c].at = "abandoned"]
    /\ \/ UNCHANGED <<used, performed>>
       \/ /\ call[c].at = "run" /\ used < PerWindow /\ used' = used + 1
          /\ performed' = [performed EXCEPT ![c] = @ + 1]
    /\ UNCHANGED <<time, late, ledger>>

-----------------------------------------------------------------------------
PassTick ==
    /\ time < MaxTime
    /\ time' = time + 1
    /\ used' = IF time' % WindowLength = 0 THEN 0 ELSE used
    /\ UNCHANGED <<call, performed, late, ledger>>

GithubInit ==
    /\ time = 0 /\ used = 0
    /\ call = [c \in GhCall |-> [at |-> "new", tries |-> 0, wake |-> 0, reset |-> 0, told |-> 0, reply |-> "none"]]
    /\ performed = [c \in GhCall |-> 0] /\ late = performed
    /\ ledger = [c \in GhCall |-> <<>>]

GithubNext ==
    \/ \E c \in GhCall : \/ Request(c) \/ Succeeds(c) \/ Fails(c) \/ WakeUp(c) \/ Abandon(c)
                         \/ \E known \in BOOLEAN : Refused(c, known)
    \/ PassTick

GithubSpec == GithubInit /\ [][GithubNext]_githubVars

-----------------------------------------------------------------------------
(* Properties *)

GithubTypeOK ==
    /\ time \in 0..MaxTime /\ used \in 0..PerWindow
    /\ \A c \in GhCall :
          /\ call[c].at \in {"new", "run", "asleep", "replied", "abandoned"}
          /\ call[c].tries \in 0..Tries
          /\ call[c].reply \in {"none", "ok", "failed", "limited", "denied"}

\* gh_proxy.py:1-6, client.py:248-268: what a task was not granted is never performed;
\* what is granted is performed once, and again only after an answer that refused what
\* had been done; a reply of success is of a call performed, and the ledger has one
\* entry for it that says what the reply says.
CallsAreAccounted ==
    \A c \in GhCall :
        /\ Op[c] \in {"denied", "malformed"} => performed[c] = 0
        /\ performed[c] <= 1 + late[c]
        /\ call[c].reply = "ok" => performed[c] > 0
        /\ Len(ledger[c]) <= 1
        /\ Len(ledger[c]) = 1 => call[c].at = "replied" /\ ledger[c][1] = (call[c].reply = "ok")

\* client.py:147-165,192-216: a refused call that knows the reset does not ask again
\* before it, unless it is further off than the longest wait.
AsksAfterReset ==
    \A c \in GhCall : call[c].at = "run" =>
        time >= call[c].reset \/ call[c].reset - call[c].told > Cap

-----------------------------------------------------------------------------
\* The installation token of a GitHub App (github_auth.py), cached and asked for
\* by several coroutines, which refresh it at once.

CONSTANTS
    Holder,       \* those who ask for a token
    TokenLife,    \* ticks that a token lives
    Margin,       \* ticks it must have left to be handed out of the cache
    MaxDelay,     \* ticks that an answer takes at most
    MaxHour       \* bound: ticks

ASSUME TokenAssumption ==
    /\ {TokenLife, Margin, MaxDelay, MaxHour} \subseteq Nat
    /\ TokenLife > Margin + MaxDelay

VARIABLES
    hour,         \* the clock
    cached,       \* _cache: a token's end
    fetch,        \* each holder's request of a new token, and when it was made
    token         \* the token each holder has, and when it got it

tokenVars == <<hour, cached, fetch, token>>

-----------------------------------------------------------------------------
\* Mutated form of Lasts: any time left will do.
LastsAtAll(ends) == ends > hour
\* _async_installation_token: a cached token must outlast the margin.
Lasts(ends) == ends > hour + Margin

NoToken == [ends |-> 0, got |-> 0]

AskToken(h) ==
    /\ fetch[h] = 0
    /\ IF Lasts(cached)
       THEN token' = [token EXCEPT ![h] = [ends |-> cached, got |-> hour]] /\ UNCHANGED fetch
       ELSE fetch' = [fetch EXCEPT ![h] = hour + 1] /\ UNCHANGED token
    /\ UNCHANGED <<hour, cached>>

\* GitHub issues a token; its answer is delayed, and those of two holders who
\* asked at once may come in any order: the last one stays in the cache.
TokenComes(h) ==
    /\ fetch[h] # 0
    /\ \E issued \in (fetch[h] - 1)..hour :
          /\ hour <= issued + MaxDelay
          /\ cached' = issued + TokenLife
    /\ token' = [token EXCEPT ![h] = [ends |-> cached', got |-> hour]]
    /\ fetch' = [fetch EXCEPT ![h] = 0]
    /\ UNCHANGED hour

FetchFails(h) ==
    /\ fetch[h] # 0
    /\ fetch' = [fetch EXCEPT ![h] = 0]
    /\ UNCHANGED <<hour, cached, token>>

PassHour ==
    /\ hour < MaxHour
    /\ hour' = hour + 1
    /\ UNCHANGED <<cached, fetch, token>>

TokenInit ==
    /\ hour = 0 /\ cached = 0
    /\ fetch = [h \in Holder |-> 0] /\ token = [h \in Holder |-> NoToken]

TokenNext ==
    \/ PassHour
    \/ \E h \in Holder : AskToken(h) \/ TokenComes(h) \/ FetchFails(h)

TokenSpec == TokenInit /\ [][TokenNext]_tokenVars

-----------------------------------------------------------------------------
(* Properties *)

TokenTypeOK ==
    /\ hour \in 0..MaxHour /\ cached \in Nat
    /\ \A h \in Holder : fetch[h] \in 0..(hour + 1)

\* github_auth.py:142-160: a token that is handed out still has its margin, whoever
\* else refreshed it meanwhile, and whichever answer came last.
TokensLast == \A h \in Holder : token[h] = NoToken \/ token[h].ends > token[h].got + Margin
=============================================================================
