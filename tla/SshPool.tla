------------------------------ MODULE SshPool ------------------------------
(***************************************************************************)
(* The pool of SSH sessions (ssh/session.py) behind the endpoints of       *)
(* api/routes/ssh.py.  One lock covers the pool while a connection is made  *)
(* or an old one is closed; the commands that run on a session hold none.   *)
(***************************************************************************)
EXTENDS Naturals, FiniteSets, Sequences, SequencesExt

CONSTANTS
    Operator,  \* requests, one at a time each
    PoolKey,   \* host, port, user and credential
    MaxConns   \* bound: connections made

ASSUME SshAssumption == MaxConns \in Nat /\ "free" \notin Operator

VARIABLES
    conns,     \* the connections made: key, state, whether past the TTL
    pooled,    \* the session each key has in the pool, 0 for none
    poolLock,  \* the operator that holds the lock, or "free"
    errand,    \* where each operator's request is
    lostSight  \* history: connections made and then lost sight of

sshVars == <<conns, pooled, poolLock, errand, lostSight>>

-----------------------------------------------------------------------------
NoErrand == [at |-> "idle", key |-> "none", conn |-> 0]

Idle(o) == errand' = [errand EXCEPT ![o] = NoErrand]
GoTo(o, where) == errand' = [errand EXCEPT ![o].at = where]
InErrand(o, where) == errand[o].at = where
KeyFor(o) == errand[o].key
OldOf(o) == pooled[KeyFor(o)]

Ask(o, k) ==
    /\ InErrand(o, "idle")
    /\ errand' = [errand EXCEPT ![o] = [at |-> "asks", key |-> k, conn |-> 0]]
    /\ UNCHANGED <<conns, pooled, poolLock, lostSight>>

\* Mutated form of Reusable: the age is not looked at.
ReusableAtAnyAge(c) == c # 0
Reusable(c) == c # 0 /\ ~conns[c].past

\* get, with the lock: a session that is not past its time is shared, whether its
\* connection still works or not.
Enter(o) ==
    /\ InErrand(o, "asks") /\ poolLock = "free"
    /\ IF Reusable(OldOf(o))
       THEN /\ errand' = [errand EXCEPT ![o].at = "runs", ![o].conn = OldOf(o)]
            /\ UNCHANGED poolLock
       ELSE /\ poolLock' = o
            /\ GoTo(o, "connects")
    /\ UNCHANGED <<conns, pooled, lostSight>>

\* Mutated form of Keep: the lock is given back before the session is pooled.
KeepUnpooled(o, c) ==
    /\ poolLock' = "free"
    /\ errand' = [errand EXCEPT ![o].at = "runs", ![o].conn = c]
    /\ UNCHANGED pooled
\* The new session takes the place in the pool.
Keep(o, c) ==
    /\ pooled' = [pooled EXCEPT ![KeyFor(o)] = c]
    /\ poolLock' = "free"
    /\ errand' = [errand EXCEPT ![o].at = "runs", ![o].conn = c]

NewConn(k) == [key |-> k, state |-> "open", past |-> FALSE]

\* asyncssh.connect returns; an old session is closed first, under whoever still
\* runs on it, and its end waited for.
Connects(o) ==
    /\ InErrand(o, "connects") /\ Len(conns) < MaxConns
    /\ conns' = Append([c \in DOMAIN conns |->
                           IF c = OldOf(o) THEN [conns[c] EXCEPT !.state = "closed"]
                           ELSE conns[c]], NewConn(KeyFor(o)))
    /\ IF OldOf(o) = 0
       THEN Keep(o, Len(conns) + 1)
       ELSE /\ errand' = [errand EXCEPT ![o].at = "closes", ![o].conn = Len(conns) + 1]
            /\ UNCHANGED <<pooled, poolLock>>
    /\ UNCHANGED lostSight

\* Mutated form of ConnectFails: the lock is not given back.
ConnectFailsLocked(o) ==
    /\ InErrand(o, "connects")
    /\ Idle(o)
    /\ UNCHANGED <<conns, pooled, poolLock, lostSight>>
\* The host refuses, or the request is cancelled.
ConnectFails(o) ==
    /\ InErrand(o, "connects")
    /\ poolLock' = "free"
    /\ Idle(o)
    /\ UNCHANGED <<conns, pooled, lostSight>>

ClosesOldSession(o) ==
    /\ InErrand(o, "closes")
    /\ Keep(o, errand[o].conn)
    /\ UNCHANGED <<conns, lostSight>>

\* wait_closed raises or is cancelled: the old session stays in the pool, and
\* nobody knows the new connection any more.
CloseFails(o) ==
    /\ InErrand(o, "closes")
    /\ lostSight' = lostSight \cup {errand[o].conn}
    /\ poolLock' = "free"
    /\ Idle(o)
    /\ UNCHANGED <<conns, pooled>>

\* The command ends, fails because the connection has gone, or times out.
RunEnds(o) ==
    /\ InErrand(o, "runs")
    /\ Idle(o)
    /\ UNCHANGED <<conns, pooled, poolLock, lostSight>>

GivesUpWaiting(o) ==
    /\ InErrand(o, "asks")
    /\ Idle(o)
    /\ UNCHANGED <<conns, pooled, poolLock, lostSight>>

Breaks(c) ==
    /\ conns[c].state = "open"
    /\ conns' = [conns EXCEPT ![c].state = "broken"]
    /\ UNCHANGED <<pooled, poolLock, errand, lostSight>>

\* An hour has passed since the connection was made.
GetsOld(c) ==
    /\ ~conns[c].past
    /\ conns' = [conns EXCEPT ![c].past = TRUE]
    /\ UNCHANGED <<pooled, poolLock, errand, lostSight>>

SshInit ==
    /\ conns = <<>>
    /\ pooled = [k \in PoolKey |-> 0]
    /\ poolLock = "free"
    /\ errand = [o \in Operator |-> NoErrand]
    /\ lostSight = {}

SshNext ==
    \/ \E o \in Operator :
          \/ Enter(o) \/ Connects(o) \/ ConnectFails(o) \/ ClosesOldSession(o)
          \/ CloseFails(o) \/ RunEnds(o) \/ GivesUpWaiting(o)
          \/ \E k \in PoolKey : Ask(o, k)
    \/ \E c \in DOMAIN conns : Breaks(c) \/ GetsOld(c)

SshSpec == SshInit /\ [][SshNext]_sshVars

-----------------------------------------------------------------------------
(* Properties *)

SshTypeOK ==
    /\ \A c \in DOMAIN conns : conns[c].key \in PoolKey
                               /\ conns[c].state \in {"open", "broken", "closed"}
    /\ pooled \in [PoolKey -> 0..Len(conns)]
    /\ poolLock \in Operator \cup {"free"}
    /\ \A o \in Operator : errand[o].conn \in 0..Len(conns)
    /\ lostSight \subseteq DOMAIN conns

InHand(c) == \E o \in Operator : InErrand(o, "closes") /\ errand[o].conn = c

\* ssh/session.py:186-187: a key has one session at a time: every open connection
\* is the pool's or about to be, but for those that a failed close made the pool
\* lose sight of; and the pool closes a connection under a command only when it
\* is past its hour.
PoolOwnsItsSessions ==
    /\ \A c \in DOMAIN conns :
          conns[c].state = "open" => pooled[conns[c].key] = c \/ c \in lostSight \/ InHand(c)
    /\ \A o \in Operator : InErrand(o, "runs") =>
          /\ conns[errand[o].conn].key = KeyFor(o)
          /\ conns[errand[o].conn].state = "closed" => conns[errand[o].conn].past

\* While connecting and closing end one way or another, nobody waits for the pool
\* for ever, though one lock covers all hosts.
PoolIsShared == \A o \in Operator : InErrand(o, "asks") ~> ~InErrand(o, "asks")
=============================================================================
