----------------------------- MODULE Discovery -----------------------------
(***************************************************************************)
(* The discovery scheduler that polls repositories for issues and submits  *)
(* a task for each new one (daemon/scheduler.py, gh/discovery.py).  A pass  *)
(* gives up the event loop only while a repository is listed; the process   *)
(* may stop or die between any two submissions.                             *)
(* And the cron scheduler (triggers/cron.py), whose loop sleeps until the    *)
(* next minute of the wall clock and may be held up by others.               *)
(***************************************************************************)
EXTENDS Naturals, FiniteSets, Sequences, FiniteSetsExt, SequencesExt

CONSTANTS
    Issue,        \* issues, numbered in the order they are opened
    RepoCount,    \* repositories 1..RepoCount, in the order they are polled
    RepoOf,       \* RepoOf[i]: the repository of issue i
    Wanted,       \* issues with a label that the filter asks for
    ListLimit,    \* issues a listing returns at most
    MaxTroubles   \* bound: failed listings, submissions and saves, restarts

ASSUME DiscoveryAssumption ==
    /\ Issue \subseteq Nat
    /\ RepoCount \in Nat \ {0} /\ RepoOf \in [Issue -> 1..RepoCount]
    /\ Wanted \subseteq Issue
    /\ ListLimit \in Nat \ {0} /\ MaxTroubles \in Nat

VARIABLES
    opened,       \* issues that are open
    closed,       \* issues that were and are not
    scan,         \* the pass under way
    seen,         \* _dispatched: issues the process has submitted
    filed,        \* the same in the dedup file
    discovered,   \* tasks submitted for each issue
    forgotten,    \* history: how often a restart forgot an issue
    troubles      \* history: troubles so far

discoveryVars == <<opened, closed, scan, seen, filed, discovered, forgotten, troubles>>

-----------------------------------------------------------------------------
NoScan == [at |-> "idle", repo |-> 0, todo |-> <<>>, here |-> FALSE, total |-> FALSE]

Trouble == troubles < MaxTroubles /\ troubles' = troubles + 1

OpenIssue(i) ==
    /\ i \notin opened \cup closed
    /\ \A j \in Issue : j < i => j \in opened \cup closed
    /\ opened' = opened \cup {i}
    /\ UNCHANGED <<closed, scan, seen, filed, discovered, forgotten, troubles>>

CloseIssue(i) ==
    /\ i \in opened
    /\ opened' = opened \ {i}
    /\ closed' = closed \cup {i}
    /\ UNCHANGED <<scan, seen, filed, discovered, forgotten, troubles>>

-----------------------------------------------------------------------------
BeginScan ==
    /\ scan.at = "idle"
    /\ scan' = [NoScan EXCEPT !.at = "list", !.repo = 1]
    /\ UNCHANGED <<opened, closed, seen, filed, discovered, forgotten, troubles>>

\* The listing of a repository: its newest open issues first.
Listing(r) ==
    LET all == SetToSortSeq({i \in opened : RepoOf[i] = r}, LAMBDA i, j : i > j)
    IN SubSeq(all, 1, Min({ListLimit, Len(all)}))

\* On to the next repository, when this one adds so much to the pass's total.
NextRepo(dispatched) ==
    LET total == scan.total \/ dispatched
    IN IF scan.repo = RepoCount THEN [NoScan EXCEPT !.at = "save", !.total = total]
       ELSE [NoScan EXCEPT !.at = "list", !.repo = scan.repo + 1, !.total = total]

ListRepo ==
    /\ scan.at = "list"
    /\ scan' = [scan EXCEPT !.at = "dispatch", !.todo = Listing(scan.repo)]
    /\ UNCHANGED <<opened, closed, seen, filed, discovered, forgotten, troubles>>

ListFails ==
    /\ scan.at = "list" /\ Trouble
    /\ scan' = NextRepo(FALSE)
    /\ UNCHANGED <<opened, closed, seen, filed, discovered, forgotten>>

\* discover_issues skips what was submitted and what the filter does not match.
Submittable(i) == i \notin seen /\ i \in Wanted

\* Mutated form of DispatchIssue: the number is not remembered.
DispatchIssueForgetting ==
    /\ scan.at = "dispatch" /\ scan.todo # <<>>
    /\ LET i == Head(scan.todo)
       IN discovered' = IF Submittable(i) THEN [discovered EXCEPT ![i] = @ + 1] ELSE discovered
    /\ scan' = [scan EXCEPT !.todo = Tail(@), !.here = TRUE]
    /\ UNCHANGED <<opened, closed, seen, filed, forgotten, troubles>>
DispatchIssue ==
    /\ scan.at = "dispatch" /\ scan.todo # <<>>
    /\ LET i == Head(scan.todo)
       IN IF Submittable(i)
          THEN /\ discovered' = [discovered EXCEPT ![i] = @ + 1]
               /\ seen' = seen \cup {i}
               /\ scan' = [scan EXCEPT !.todo = Tail(@), !.here = TRUE]
          ELSE /\ scan' = [scan EXCEPT !.todo = Tail(@)]
               /\ UNCHANGED <<discovered, seen>>
    /\ UNCHANGED <<opened, closed, filed, forgotten, troubles>>

\* Mutated form of SubmitFails: the issue is remembered all the same.
SubmitFailsRemembered ==
    /\ scan.at = "dispatch" /\ scan.todo # <<>> /\ Submittable(Head(scan.todo))
    /\ Trouble
    /\ seen' = seen \cup {Head(scan.todo)}
    /\ scan' = NextRepo(FALSE)
    /\ UNCHANGED <<opened, closed, filed, discovered, forgotten>>
\* submit_issue raises: the rest of the repository waits for the next pass, and
\* what was submitted of it is not added to the total.
SubmitFails ==
    /\ scan.at = "dispatch" /\ scan.todo # <<>> /\ Submittable(Head(scan.todo))
    /\ Trouble
    /\ scan' = NextRepo(FALSE)
    /\ UNCHANGED <<opened, closed, seen, filed, discovered, forgotten>>

EndRepo ==
    /\ scan.at = "dispatch" /\ scan.todo = <<>>
    /\ scan' = NextRepo(scan.here)
    /\ UNCHANGED <<opened, closed, seen, filed, discovered, forgotten, troubles>>

\* The file is written if the total is not zero; a failure is logged.
EndScan ==
    /\ scan.at = "save"
    /\ scan' = NoScan
    /\ \/ ~scan.total /\ UNCHANGED <<filed, troubles>>
       \/ scan.total /\ filed' = seen /\ UNCHANGED troubles
       \/ scan.total /\ Trouble /\ UNCHANGED filed
    /\ UNCHANGED <<opened, closed, seen, discovered, forgotten>>

\* stop cancels a pass that waits for a listing too long; start goes on with what
\* the scheduler remembers, written or not.
CancelScan ==
    /\ scan.at = "list" /\ Trouble
    /\ scan' = NoScan
    /\ UNCHANGED <<opened, closed, seen, filed, discovered, forgotten>>

\* The process dies, or ends after such a stop, and a new one reads the file.
RestartDiscovery ==
    /\ Trouble
    /\ seen' = filed /\ scan' = NoScan
    /\ forgotten' = [i \in Issue |-> IF i \in seen \ filed THEN forgotten[i] + 1
                                     ELSE forgotten[i]]
    /\ UNCHANGED <<opened, closed, filed, discovered>>

DiscoveryInit ==
    /\ opened = {} /\ closed = {}
    /\ scan = NoScan
    /\ seen = {} /\ filed = {}
    /\ discovered = [i \in Issue |-> 0]
    /\ forgotten = [i \in Issue |-> 0]
    /\ troubles = 0

ScanMoves == BeginScan \/ ListRepo \/ DispatchIssue \/ EndRepo \/ EndScan

DiscoveryNext ==
    \/ ScanMoves \/ ListFails \/ SubmitFails \/ CancelScan \/ RestartDiscovery
    \/ \E i \in Issue : OpenIssue(i) \/ CloseIssue(i)

DiscoverySpec == DiscoveryInit /\ [][DiscoveryNext]_discoveryVars

-----------------------------------------------------------------------------
(* Properties *)

DiscoveryTypeOK ==
    /\ opened \cup closed \subseteq Issue /\ opened \cap closed = {}
    /\ scan.at \in {"idle", "list", "dispatch", "save"}
    /\ scan.repo \in 0..RepoCount
    /\ filed \subseteq seen /\ seen \subseteq Wanted
    /\ {discovered[i] : i \in Issue} \cup {forgotten[i] : i \in Issue} \subseteq Nat

\* scheduler.py:70-72: a wanted issue is submitted once, and once more only for
\* each restart that came between its submission and the write of the file.
DiscoveredOnce == \A i \in Issue : discovered[i] <= 1 + forgotten[i]

\* A wanted issue is submitted in the end, whatever failed before, if it stays
\* open and among the newest, those that a listing returns; an older one may wait
\* for ever behind issues that were submitted long ago and are still open.
NewestAreDispatched ==
    \A i \in Wanted :
        [](discovered[i] = 0 /\ i \in opened => i \in ToSet(Listing(RepoOf[i])))
            => (i \in opened ~> (discovered[i] > 0 \/ i \notin opened))

\* scheduler.py:70-72: "Deduplication is persisted to a JSON file ... so it
\* survives daemon restarts".  A pass with a failed submission may not write it.
PassesAreFiled == scan.at = "idle" => filed = seen
-----------------------------------------------------------------------------
(* The cron scheduler.  Fields of days and months are left out: they are    *)
(* read and matched as those of minutes and hours are.  The parser is the   *)
(* built-in one, which is used where croniter is not installed.             *)

CONSTANTS
    Trigger,        \* cron triggers
    CronOf,         \* each one's expression: a field for minutes, one for hours
    MinutesPerHour, \* minutes of an hour
    HoursPerDay,    \* hours of a day
    TicksPerMinute, \* ticks of a minute
    MaxWall,        \* bound: ticks
    MaxSlips        \* bound: settings of the wall clock

ASSUME CronAssumption ==
    /\ \A t \in Trigger : \A f \in {"minute", "hour"} :
          CronOf[t][f].kind \in {"any", "step", "value", "junk"} /\ CronOf[t][f].n \in Nat
    /\ {MinutesPerHour, HoursPerDay, TicksPerMinute} \subseteq Nat \ {0}
    /\ {MaxWall, MaxSlips} \subseteq Nat

VARIABLES
    wall,         \* the wall clock
    cronAt,       \* the loop: off, about to sleep for the first time or again, asleep
    due,          \* ticks until the sleep is over, by the other clock
    registered,   \* _triggers
    fired,        \* times each trigger was submitted, or tried to be, in each minute
    slips,        \* history: settings of the clock so far
    owing,        \* history: ticks for which the loop has been held up
    heldUp,       \* history: it was held up for a minute
    countsFrom         \* history: the minute of the last start or change of triggers

cronVars == <<wall, cronAt, due, registered, fired, slips, owing, heldUp, countsFrom>>

Minute(w) == w \div TicksPerMinute
MaxMinute == Minute(MaxWall)

\* _parse_field: what a field matches, and how it is at fault.  A value or step
\* out of range fails a precondition, which is no ValueError.
Field(f, last) ==
    CASE f.kind = "any" -> 0..last
      [] f.kind = "step" -> {v \in 0..last : f.n # 0 /\ v % f.n = 0}
      [] OTHER -> {f.n}
Fault(f, last) ==
    CASE f.kind = "junk" -> "junk"
      [] f.kind = "step" /\ f.n = 0 -> "range"
      [] f.kind = "value" /\ f.n > last -> "range"
      [] OTHER -> "none"

\* The first fault decides.
FaultOf(t) ==
    LET minute == Fault(CronOf[t].minute, MinutesPerHour - 1)
    IN IF minute # "none" THEN minute ELSE Fault(CronOf[t].hour, HoursPerDay - 1)

\* _matches, for an expression without a fault.
Falls(m, t) ==
    /\ m % MinutesPerHour \in Field(CronOf[t].minute, MinutesPerHour - 1)
    /\ (m \div MinutesPerHour) % HoursPerDay \in Field(CronOf[t].hour, HoursPerDay - 1)

\* The triggers before the first that raises; junk is skipped.
Reached == {registered[i] : i \in {k \in DOMAIN registered :
                                     \A j \in 1..k : FaultOf(registered[j]) # "range"}}

Firing(m) == {t \in Reached : FaultOf(t) = "none" /\ Falls(m, t)}

Countdown == IF due > 0 THEN due - 1 ELSE 0
IsOwing == cronAt = "awake" \/ (cronAt = "asleep" /\ due = 0)

\* Time passes for both clocks; a loop whose time has come may be held up.
ClockTicks ==
    /\ wall < MaxWall
    /\ wall' = wall + 1
    /\ due' = Countdown
    /\ owing' = IF IsOwing THEN owing + 1 ELSE owing
    /\ heldUp' = (heldUp \/ owing' >= TicksPerMinute)
    /\ UNCHANGED <<cronAt, registered, fired, slips, countsFrom>>

\* The wall clock is set, to any time.
SetClock ==
    /\ slips < MaxSlips /\ slips' = slips + 1
    /\ wall' \in 0..MaxWall
    /\ UNCHANGED <<cronAt, due, registered, fired, owing, heldUp, countsFrom>>

\* start is idempotent; the loop first sleeps.
StartCron ==
    /\ cronAt = "off"
    /\ cronAt' = "started"
    /\ UNCHANGED <<wall, due, registered, fired, slips, owing, heldUp, countsFrom>>

\* Mutated form of NextTickDelay: a minute from now.
NextTickDelayFixed == TicksPerMinute
\* _next_tick_delay: up to the start of the next minute.
NextTickDelay == (Minute(wall) + 1) * TicksPerMinute - wall

SleepToMinute ==
    /\ cronAt \in {"started", "awake"}
    /\ cronAt' = "asleep" /\ due' = NextTickDelay /\ owing' = 0
    /\ countsFrom' = IF cronAt = "started" THEN Minute(wall) ELSE countsFrom
    /\ UNCHANGED <<wall, registered, fired, slips, heldUp>>

\* A submission that fails is logged and not made up for: it counts as one.
CronTick ==
    /\ cronAt = "asleep" /\ due = 0
    /\ cronAt' = "awake"
    /\ fired' = [t \in Trigger |->
                    IF t \in Firing(Minute(wall)) THEN [fired[t] EXCEPT ![Minute(wall)] = @ + 1]
                    ELSE fired[t]]
    /\ UNCHANGED <<wall, due, registered, slips, owing, heldUp, countsFrom>>

\* The loop ends at its wait or at the test before it.
StopCron ==
    /\ cronAt # "off"
    /\ cronAt' = "off" /\ due' = 0 /\ owing' = 0
    /\ UNCHANGED <<wall, registered, fired, slips, heldUp, countsFrom>>

\* Registering appends; a trigger that is registered twice is two triggers here.
AddTrigger(t) ==
    /\ t \notin ToSet(registered)
    /\ registered' = Append(registered, t)
    /\ countsFrom' = Minute(wall)
    /\ UNCHANGED <<wall, cronAt, due, fired, slips, owing, heldUp>>

RemoveTrigger(t) ==
    /\ t \in ToSet(registered)
    /\ registered' = RemoveFirst(registered, t)
    /\ countsFrom' = Minute(wall)
    /\ UNCHANGED <<wall, cronAt, due, fired, slips, owing, heldUp>>

CronInit ==
    /\ wall = 0 /\ cronAt = "off" /\ due = 0 /\ registered = <<>>
    /\ fired = [t \in Trigger |-> [m \in 0..MaxMinute |-> 0]]
    /\ slips = 0 /\ owing = 0 /\ heldUp = FALSE
    /\ countsFrom = 0

CronNext ==
    \/ ClockTicks \/ SetClock \/ StartCron \/ SleepToMinute \/ CronTick \/ StopCron
    \/ \E t \in Trigger : AddTrigger(t) \/ RemoveTrigger(t)

CronSpec == CronInit /\ [][CronNext]_cronVars

-----------------------------------------------------------------------------
(* Properties *)

CronTypeOK ==
    /\ wall \in 0..MaxWall /\ due \in 0..TicksPerMinute
    /\ cronAt \in {"off", "started", "asleep", "awake"}
    /\ ToSet(registered) \subseteq Trigger /\ Len(registered) = Cardinality(ToSet(registered))
    /\ fired \in [Trigger -> [0..MaxMinute -> Nat]]
    /\ slips \in 0..MaxSlips /\ owing \in Nat /\ heldUp \in BOOLEAN
    /\ countsFrom \in 0..MaxMinute

\* cron.py:103-110, "fires daemon.submit on matching minutes": a trigger fires in
\* no minute that its expression does not match, in none twice unless the clock was
\* set, and, if the clock was not and no minute was slept through, in each matching
\* minute since the last start and change of triggers, however late the loop woke,
\* unless a trigger registered before it is out of range.
MinutesAreFiredOnce ==
    \A t \in Trigger, m \in 0..MaxMinute :
        /\ fired[t][m] > 0 => FaultOf(t) = "none" /\ Falls(m, t)
        /\ fired[t][m] <= 1 + slips
        /\ (/\ cronAt \in {"asleep", "awake"} /\ slips = 0 /\ ~heldUp
            /\ countsFrom < m /\ m < Minute(wall)
            /\ t \in Firing(m)) => fired[t][m] = 1

\* cron.py:92-97: an expression that cannot be read is logged as invalid and the
\* trigger is skipped.  One out of range raises out of the whole tick instead, and
\* no trigger registered after it ever fires.
InvalidIsSkipped == {t \in ToSet(registered) : FaultOf(t) = "none"} \subseteq Reached
=============================================================================
