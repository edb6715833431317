-------------------------- MODULE DelegateSessions --------------------------
(***************************************************************************)
(* Sessions of delegates under leases, as DelegateLifecycleService keeps    *)
(* them in SQLite (core/delegate_lifecycle.py).                             *)
(*                                                                         *)
(* An operation reads what it needs, checks it, and then makes its writes   *)
(* one after the other; the store's lock covers a single write only.  So an *)
(* operation is its checks, in one step, followed by the writes they        *)
(* determined, which carry the rows that were read.  Owners in several      *)
(* threads or processes share the file, and one may die, or meet a failing  *)
(* write, between two of its writes.                                        *)
(*                                                                         *)
(* A lease is its number among the leases of its session; the open ones are *)
(* kept newest heartbeat first, as current_lease looks them up.  BLOCKED    *)
(* and FAILED are set by no operation.  Handoff artifacts are inserted and  *)
(* change nothing else.                                                     *)
(*                                                                         *)
(* DelegateLifecycleManager keeps leases in memory, with takeovers; it      *)
(* shares nothing with the service and is its own part below.               *)
(***************************************************************************)
EXTENDS Naturals, FiniteSets, Sequences, SequencesExt

CONSTANTS
    Session,      \* session ids
    Original,     \* bound: those created directly, the others only as successors
    Owner,        \* callers, each with its own owner id
    NoSession,    \* no prior session
    MaxLeases,    \* bound: leases each session gets
    MaxNotes,     \* bound: checkpoints of a session
    MaxCuts,      \* bound: operations that are cut short
    Ttl,          \* lifetimes asked for in memory
    MaxInstant    \* bound: the manager's clock

ASSUME DelegateAssumption ==
    /\ Original \subseteq Session
    /\ NoSession \notin Session
    /\ MaxLeases \in [Session -> Nat] /\ MaxNotes \in Nat /\ MaxCuts \in Nat
    /\ Ttl \subseteq Nat \ {0} /\ MaxInstant \in Nat \ {0}

VARIABLES
    session,      \* the session rows
    lease,        \* the leases of each session: owner, policy, whether they lapsed
    open,         \* those neither released nor expired, newest heartbeat first
    notes,        \* how many checkpoints each session has
    writes,       \* the writes each owner's operation still has to make
    overlapped,   \* history: sessions two operations worked on at a time
    refused,      \* history: sessions whose lease was saved and status refused
    halved,       \* history: sessions an operation was cut short on
    cuts,         \* history: operations cut short so far
    instant,      \* the manager's clock
    inTable,      \* its sessions with a lease in the table of active ones
    granted       \* the leases it granted to each session, the latest last

delegateRows == <<session, lease, open, notes>>
delegateVars == <<delegateRows, writes, overlapped, refused, halved, cuts>>
managerVars == <<instant, inTable, granted>>

-----------------------------------------------------------------------------
(* Rows and transitions *)

SessionStatus == {"none", "queued", "leased", "running", "paused",
                  "completed", "abandoned", "superseded"}
SessionRow == [status : SessionStatus, lease : Nat,
               prior : Session \cup {NoSession}, note : 0..MaxNotes]

NoRow == [status |-> "none", lease |-> 0, prior |-> NoSession, note |-> 0]
Terminal == {"completed", "abandoned", "superseded"}

\* Mutated form of SessionMoves: a completed session may be leased again.
SessionMovesAgain(from) ==
    {from} \cup CASE from = "queued" -> {"leased", "abandoned"}
                  [] from = "leased" -> {"running", "paused", "abandoned", "superseded"}
                  [] from = "running" -> {"paused", "completed", "abandoned", "superseded"}
                  [] from = "paused" -> {"leased", "running", "abandoned", "superseded"}
                  [] from = "completed" -> {"leased"}
                  [] OTHER -> {}
SessionMoves(from) ==
    {from} \cup CASE from = "queued" -> {"leased", "abandoned"}
                  [] from = "leased" -> {"running", "paused", "abandoned", "superseded"}
                  [] from = "running" -> {"paused", "completed", "abandoned", "superseded"}
                  [] from = "paused" -> {"leased", "running", "abandoned", "superseded"}
                  [] OTHER -> {}

Current(s) == Head(open[s])
HeldBy(s, o) == open[s] # <<>> /\ lease[s][Current(s)].owner = o
\* A lease is among the open ones at most once.
Without(s, k) == RemoveFirst(open[s], k)

-----------------------------------------------------------------------------
(* The writes *)

SaveSession(s, row) == [do |-> "save", on |-> s, row |-> row]
Grant(s, policy, row) == [do |-> "grant", on |-> s, policy |-> policy, row |-> row]
Renew(s, k) == [do |-> "renew", on |-> s, key |-> k]
Reread(s, k) == [do |-> "reread", on |-> s, key |-> k]
Close(s, k) == [do |-> "close", on |-> s, key |-> k]
Note(s, n) == [do |-> "note", on |-> s, key |-> n]
Then(s, op) == [do |-> op, on |-> s]

Touched(o) == {writes[o][i].on : i \in DOMAIN writes[o]}
Overlap(o, S) ==
    overlapped' = overlapped \cup {s \in S : \E p \in Owner \ {o} : s \in Touched(p)}

\* Owner o, which has nothing under way, begins an operation on S.  Bounds:
\* when two operations have collided, what is under way is not followed further,
\* and what a cut-off operation left behind meets one operation at a time.
Begin(o, S, todo) ==
    /\ writes[o] = <<>>
    /\ overlapped = {}
    /\ cuts > 0 => \A p \in Owner : writes[p] = <<>>
    /\ writes' = [writes EXCEPT ![o] = todo]
    /\ Overlap(o, S)
    /\ UNCHANGED <<delegateRows, refused, halved, cuts>>

\* The next write of o's operation is w; the rest follows.
Due(o, what) == writes[o] # <<>> /\ Head(writes[o]).do = what
Goes(o, rest) == writes' = [writes EXCEPT ![o] = rest]

-----------------------------------------------------------------------------
(* The operations *)

\* Callers make up an id no one else uses; recover_session does not look.
Fresh(s) == session[s].status = "none" /\ \A o \in Owner : s \notin Touched(o)

CreateSession(o, s) ==
    /\ s \in Original /\ Fresh(s)
    /\ Begin(o, {s}, <<SaveSession(s, [NoRow EXCEPT !.status = "queued"])>>)

Granting(s) == {o \in Owner : writes[o] # <<>> /\ Head(writes[o]).do = "grant" /\ s \in Touched(o)}
LeaseLeft(s) == Len(lease[s]) + Cardinality(Granting(s)) < MaxLeases[s]

\* Mutated form of MayAcquire: a session may have several leases.
MayAcquireAnyway(s) == session[s].status # "none" /\ LeaseLeft(s)
MayAcquire(s) == session[s].status # "none" /\ open[s] = <<>> /\ LeaseLeft(s)

AcquireLease(o, s, policy) ==
    /\ MayAcquire(s)
    /\ Begin(o, {s}, <<Grant(s, policy, session[s])>>)

\* with_status refuses RUNNING on a lease that has lapsed.
MayRun(o, s) ==
    /\ HeldBy(s, o)
    /\ "running" \in SessionMoves(session[s].status)
    /\ ~lease[s][Current(s)].lapsed
AsRunning(s) == [session[s] EXCEPT !.status = "running", !.lease = Current(s)]

MarkRunningSession(o, s) ==
    /\ MayRun(o, s)
    /\ Begin(o, {s}, <<SaveSession(s, AsRunning(s))>>)

\* The owner is looked at, the expiry is not.
Heartbeat(o, s) ==
    /\ HeldBy(s, o)
    /\ Begin(o, {s}, <<Renew(s, Current(s)), Reread(s, Current(s))>>)

RecordCheckpoint(o, s) ==
    /\ session[s].status \in {"leased", "running", "paused"}
    /\ notes[s] < MaxNotes
    /\ Begin(o, {s}, <<Note(s, notes[s] + 1),
                       SaveSession(s, [session[s] EXCEPT !.note = notes[s] + 1])>>)

Expired(s) == IF lease[s][Current(s)].policy = "abandon" THEN "abandoned" ELSE "paused"

ExpireSession(o, s) ==
    /\ open[s] # <<>>
    /\ Expired(s) \in SessionMoves(session[s].status)
    /\ Begin(o, {s}, <<Close(s, Current(s)),
                       SaveSession(s, [session[s] EXCEPT !.status = Expired(s), !.lease = 0])>>)

CompleteSession(o, s) ==
    /\ HeldBy(s, o)
    /\ "completed" \in SessionMoves(session[s].status)
    /\ Begin(o, {s}, <<Close(s, Current(s)),
                       SaveSession(s, [session[s] EXCEPT !.status = "completed", !.lease = 0])>>)

\* Mutated form of Recovery: the prior session is retired first.
RecoveryRetiresFirst(s, n) ==
    <<SaveSession(s, [session[s] EXCEPT !.status = "superseded"]),
      SaveSession(n, [NoRow EXCEPT !.status = "queued", !.prior = s, !.note = notes[s]]),
      Then(n, "acquire"), Then(n, "run")>>
\* recover_session: the successor is saved before its prior session is
\* retired, then leased and started.
Recovery(s, n) ==
    <<SaveSession(n, [NoRow EXCEPT !.status = "queued", !.prior = s, !.note = notes[s]]),
      SaveSession(s, [session[s] EXCEPT !.status = "superseded"]),
      Then(n, "acquire"), Then(n, "run")>>

RecoverSession(o, s, n) ==
    /\ session[s].status = "paused"
    /\ notes[s] > 0
    /\ Fresh(n)
    /\ Begin(o, {s, n}, Recovery(s, n))

-----------------------------------------------------------------------------
(* Their writes, one at a time *)

\* save_session writes the whole row as it was read and changed.
WriteSession(o) ==
    /\ Due(o, "save")
    /\ session' = [session EXCEPT ![Head(writes[o]).on] = Head(writes[o]).row]
    /\ Goes(o, Tail(writes[o]))
    /\ UNCHANGED <<lease, open, notes, overlapped, refused, halved, cuts>>

\* The lease is saved before the transition to LEASED is checked.
WriteGrant(o) ==
    /\ Due(o, "grant")
    /\ LET w == Head(writes[o])
           new == [owner |-> o, policy |-> w.policy, lapsed |-> FALSE]
           legal == "leased" \in SessionMoves(w.row.status)
       IN /\ lease' = [lease EXCEPT ![w.on] = Append(@, new)]
          /\ open' = [open EXCEPT ![w.on] = <<Len(lease[w.on]) + 1>> \o @]
          /\ Goes(o, IF legal
                     THEN <<SaveSession(w.on, [w.row EXCEPT !.status = "leased"])>>
                          \o Tail(writes[o])
                     ELSE <<>>)
          /\ refused' = IF legal THEN refused ELSE refused \cup {w.on}
    /\ UNCHANGED <<session, notes, overlapped, halved, cuts>>

\* The renewed row is the one read before: a lease closed meanwhile is open again.
WriteRenewal(o) ==
    /\ Due(o, "renew")
    /\ LET w == Head(writes[o])
       IN /\ lease' = [lease EXCEPT ![w.on][w.key].lapsed = FALSE]
          /\ open' = [open EXCEPT ![w.on] = <<w.key>> \o Without(w.on, w.key)]
    /\ Goes(o, Tail(writes[o]))
    /\ UNCHANGED <<session, notes, overlapped, refused, halved, cuts>>

\* heartbeat reads the session after it has saved the lease.
ReadForHeartbeat(o) ==
    /\ Due(o, "reread")
    /\ LET w == Head(writes[o])
           row == [session[w.on] EXCEPT !.lease = w.key,
                                        !.status = IF @ = "leased" THEN "running" ELSE @]
       IN Goes(o, <<SaveSession(w.on, row)>>)
    /\ UNCHANGED <<delegateRows, overlapped, refused, halved, cuts>>

WriteClosing(o) ==
    /\ Due(o, "close")
    /\ LET w == Head(writes[o])
       IN open' = [open EXCEPT ![w.on] = Without(w.on, w.key)]
    /\ Goes(o, Tail(writes[o]))
    /\ UNCHANGED <<session, lease, notes, overlapped, refused, halved, cuts>>

\* The id of a checkpoint is counted: two at a time make one, and an error.
WriteNote(o) ==
    /\ Due(o, "note")
    /\ LET w == Head(writes[o])
       IN \/ /\ notes[w.on] < w.key
             /\ notes' = [notes EXCEPT ![w.on] = w.key]
             /\ Goes(o, Tail(writes[o]))
          \/ /\ notes[w.on] >= w.key
             /\ Goes(o, <<>>)
             /\ UNCHANGED notes
    /\ UNCHANGED <<session, lease, open, overlapped, refused, halved, cuts>>

\* The successor is leased and started with fresh reads; either may be
\* refused, which ends the recovery there.
GoOnRecovering(o) ==
    /\ Due(o, "acquire") \/ Due(o, "run")
    /\ LET s == Head(writes[o]).on
           rest == Tail(writes[o])
           ok == IF Due(o, "acquire") THEN MayAcquire(s) ELSE MayRun(o, s)
           first == IF Due(o, "acquire") THEN Grant(s, "recoverable", session[s])
                    ELSE SaveSession(s, AsRunning(s))
       IN /\ Goes(o, IF ok THEN <<first>> \o rest ELSE <<>>)
          /\ halved' = IF ok THEN halved ELSE halved \cup {s}
          /\ Overlap(o, {s})
    /\ UNCHANGED <<delegateRows, refused, cuts>>

-----------------------------------------------------------------------------
(* Time and faults *)

\* The time of the current lease is over; nothing happens by itself.
Lapse(s) ==
    /\ open[s] # <<>>
    /\ ~lease[s][Current(s)].lapsed
    /\ lease' = [lease EXCEPT ![s][Current(s)].lapsed = TRUE]
    /\ UNCHANGED <<session, open, notes, writes, overlapped, refused, halved, cuts>>

\* A write fails, or the process that makes it ends.
CutShort(o) ==
    /\ writes[o] # <<>>
    /\ cuts < MaxCuts
    /\ cuts' = cuts + 1
    /\ halved' = halved \cup Touched(o)
    /\ Goes(o, <<>>)
    /\ UNCHANGED <<delegateRows, overlapped, refused>>

-----------------------------------------------------------------------------
DelegateInit ==
    /\ session = [s \in Session |-> NoRow]
    /\ lease = [s \in Session |-> <<>>]
    /\ open = [s \in Session |-> <<>>]
    /\ notes = [s \in Session |-> 0]
    /\ writes = [o \in Owner |-> <<>>]
    /\ overlapped = {}
    /\ refused = {}
    /\ halved = {}
    /\ cuts = 0

DelegateNext ==
    \/ \E o \in Owner, s \in Session :
          \/ CreateSession(o, s) \/ MarkRunningSession(o, s) \/ Heartbeat(o, s)
          \/ RecordCheckpoint(o, s) \/ ExpireSession(o, s) \/ CompleteSession(o, s)
          \/ \E policy \in {"abandon", "recoverable"} : AcquireLease(o, s, policy)
          \/ \E n \in Session \ {s} : RecoverSession(o, s, n)
    \/ \E o \in Owner :
          \/ WriteSession(o) \/ WriteGrant(o) \/ WriteRenewal(o) \/ ReadForHeartbeat(o)
          \/ WriteClosing(o) \/ WriteNote(o) \/ GoOnRecovering(o) \/ CutShort(o)
    \/ \E s \in Session : Lapse(s)

-----------------------------------------------------------------------------
(* DelegateLifecycleManager: leases in memory *)

NewLease(o, policy, ttl, supersedes) ==
    [owner |-> o, policy |-> policy, since |-> instant, until |-> instant + ttl,
     over |-> 0, supersedes |-> supersedes]
LastLease(s) == granted[s][Len(granted[s])]
Holding(s) == s \in inTable /\ LastLease(s).until > instant

\* current_lease, with which every operation but expire_lease begins, takes a
\* lease whose time is over out of the table.
Ended(s) == [granted[s] EXCEPT ![Len(granted[s])].over = IF @ = 0 THEN instant ELSE @]
LookedUp(s) == IF s \in inTable /\ ~Holding(s) THEN Ended(s) ELSE granted[s]

GrantInMemory(s, new) ==
    /\ Len(granted[s]) < MaxLeases[s]
    /\ inTable' = inTable \cup {s}
    /\ granted' = [granted EXCEPT ![s] = Append(LookedUp(s), new)]
    /\ UNCHANGED instant

\* Mutated form of Vacant: the active lease is not looked at.
VacantAnyway(s) == TRUE
Vacant(s) == ~Holding(s)

AcquireInMemory(o, s, policy, ttl) ==
    /\ Vacant(s)
    /\ GrantInMemory(s, NewLease(o, policy, ttl, {}))

\* A takeover asks that the last lease, released or expired, was recoverable.
TakeOver(o, s, ttl) ==
    /\ Vacant(s)
    /\ granted[s] # <<>> /\ LastLease(s).policy # "abandon"
    /\ GrantInMemory(s, NewLease(o, LastLease(s).policy, ttl, {LastLease(s).owner}))

RenewLease(o, s, ttl) ==
    /\ Holding(s) /\ LastLease(s).owner = o
    /\ granted' = [granted EXCEPT ![s][Len(granted[s])].until = instant + ttl]
    /\ UNCHANGED <<instant, inTable>>

\* Expiring asks for no owner and no expiry, and may end a lease twice.
EndLease(s, may) ==
    /\ granted[s] # <<>> /\ may
    /\ inTable' = inTable \ {s}
    /\ granted' = [granted EXCEPT ![s] = Ended(s)]
    /\ UNCHANGED instant
ExpireLease(s) == EndLease(s, TRUE)
ReleaseLease(o, s) == EndLease(s, Holding(s) /\ LastLease(s).owner = o)

\* Any operation that is refused has still looked the lease up.
LookUp(s) ==
    /\ s \in inTable /\ ~Holding(s)
    /\ inTable' = inTable \ {s}
    /\ granted' = [granted EXCEPT ![s] = LookedUp(s)]
    /\ UNCHANGED instant

ManagerInit ==
    /\ instant = 1
    /\ inTable = {}
    /\ granted = [s \in Session |-> <<>>]

ManagerNext ==
    \/ \E s \in Session :
          \/ LookUp(s) \/ ExpireLease(s)
          \/ \E o \in Owner :
                \/ ReleaseLease(o, s)
                \/ \E ttl \in Ttl :
                      \/ RenewLease(o, s, ttl) \/ TakeOver(o, s, ttl)
                      \/ \E policy \in {"abandon", "recoverable"} :
                            AcquireInMemory(o, s, policy, ttl)
    \/ /\ instant < MaxInstant
       /\ instant' = instant + 1
       /\ UNCHANGED <<inTable, granted>>

LeasesNext ==
    \/ DelegateNext /\ UNCHANGED managerVars
    \/ ManagerNext /\ UNCHANGED delegateVars

DelegateSpec ==
    DelegateInit /\ ManagerInit /\ [][LeasesNext]_<<delegateVars, managerVars>>

-----------------------------------------------------------------------------
(* Properties *)

DelegateTypeOK ==
    /\ session \in [Session -> SessionRow]
    /\ \A s \in Session :
          /\ Len(lease[s]) <= MaxLeases[s]
          /\ \A k \in DOMAIN lease[s] :
                lease[s][k] \in [owner : Owner, policy : {"abandon", "recoverable"},
                                 lapsed : BOOLEAN]
          /\ \A i \in DOMAIN open[s] : open[s][i] \in DOMAIN lease[s]
    /\ notes \in [Session -> 0..MaxNotes]
    /\ \A o \in Owner : Touched(o) \subseteq Session
    /\ overlapped \cup refused \cup halved \subseteq Session
    /\ cuts \in 0..MaxCuts
    /\ instant \in 1..MaxInstant
    /\ \A s \in Session :
          /\ s \in inTable => granted[s] # <<>>
          /\ \A k \in DOMAIN granted[s] :
                granted[s][k].owner \in Owner /\ granted[s][k].over \in 0..instant

Quiet(s) == \A o \in Owner : s \notin Touched(o)

\* Between operations a session that runs is held under the one lease it
\* names, and a lease that is open is on a session that can be worked on:
\* only overlapping operations, a cut-off one, or a lease saved for a status
\* that was then refused (acquire_lease on a finished session) break that.
RunningHasItsLease ==
    \A s \in Session \ (overlapped \cup refused \cup halved) : Quiet(s) =>
        /\ session[s].status = "running" => open[s] = <<session[s].lease>>
        /\ open[s] # <<>> => Len(open[s]) = 1 /\ session[s].status \in {"leased", "running"}

\* A session retired in favour of another has that other one, started from a
\* checkpoint, whatever crash fell into the recovery.
SupersededIsContinued ==
    \A s \in Session \ overlapped : session[s].status = "superseded" =>
        \E n \in Session : session[n].prior = s /\ session[n].note > 0

\* A finished session never changes its status again, leases left behind by
\* refused and cut-off operations included: only a row read before the end and
\* written back after it, by an operation that overlapped, undoes it.
FinishedStaysFinished ==
    [][\A s \in Session \ overlapped' : session[s].status \in Terminal
          => session'[s].status = session[s].status]_delegateVars

\* The leases of a session in memory follow one another: each begins when the
\* one before was released, expired or out of time, renewals included, and one
\* that supersedes an owner takes over that owner's lease, which allowed it.
LeasesFollowOneAnother ==
    \A s \in Session : \A k \in 2..Len(granted[s]) :
        LET old == granted[s][k - 1]
            new == granted[s][k]
        IN /\ new.since >= IF old.over # 0 THEN old.over ELSE old.until
           /\ new.supersedes # {} =>
                 /\ new.supersedes = {old.owner}
                 /\ old.policy = new.policy /\ new.policy # "abandon"
=============================================================================
