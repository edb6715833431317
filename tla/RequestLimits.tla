---------------------------- MODULE RequestLimits ----------------------------
(***************************************************************************)
(* The two rate limits of the REST API (api/rate_limit.py), for one client: *)
(* the token buckets of the middleware, of which the one for failed         *)
(* authentications is taken when a request comes and given back when it     *)
(* ends with another status than 401, and the sliding window of a single    *)
(* endpoint.  Requests are handled concurrently, each call on a bucket or   *)
(* the window under its lock.  Time is counted in ticks, tokens in parts.   *)
(***************************************************************************)
EXTENDS Naturals, Sequences, FiniteSets

CONSTANTS
    HttpRequest,  \* requests of the client
    Part,         \* parts of a token
    AuthBurst,    \* burst of the bucket for failed authentications
    AuthRate,     \* parts it gets back per tick
    GroupBurst,   \* burst of the bucket of the request's group
    GroupRate,    \* parts it gets back per tick
    WindowLimit,  \* limit of the endpoint's policy
    Window,       \* window_seconds of it, in ticks
    MaxTicks      \* bound: ticks of the clock

ASSUME LimitAssumption ==
    /\ {Part, AuthBurst, GroupBurst, WindowLimit, Window} \subseteq Nat \ {0}
    /\ AuthRate \in Nat /\ GroupRate \in Nat /\ MaxTicks \in Nat

VARIABLES
    now,          \* the clock
    authBucket,   \* parts in the bucket for failed authentications
    groupBucket,  \* parts in the bucket of the group
    handling,     \* where each request is
    window,       \* the hits the window remembers, oldest first
    hits,         \* history: when each hit was allowed
    refusal,      \* history: the last refusal of the window, and its Retry-After
    unrefunded    \* history: requests that ended without a refund of their token

limitVars == <<now, authBucket, groupBucket, handling, window, hits, refusal, unrefunded>>

-----------------------------------------------------------------------------
Filled(parts, burst) == IF parts > burst * Part THEN burst * Part ELSE parts

Tick ==
    /\ now < MaxTicks
    /\ now' = now + 1
    /\ authBucket' = Filled(authBucket + AuthRate, AuthBurst)
    /\ groupBucket' = Filled(groupBucket + GroupRate, GroupBurst)
    /\ UNCHANGED <<handling, window, hits, refusal, unrefunded>>

(* The middleware *)

Stage(r, s) == handling' = [handling EXCEPT ![r] = s]

RefuseForAuth(r) ==
    /\ handling[r] = "new"
    /\ authBucket < Part
    /\ Stage(r, "refused")
    /\ UNCHANGED <<now, authBucket, groupBucket, window, hits, refusal, unrefunded>>

TakeAuthToken(r) ==
    /\ handling[r] = "new"
    /\ authBucket >= Part
    /\ authBucket' = authBucket - Part
    /\ Stage(r, "counted")
    /\ UNCHANGED <<now, groupBucket, window, hits, refusal, unrefunded>>

RefuseForGroup(r) ==
    /\ handling[r] = "counted"
    /\ groupBucket < Part
    /\ authBucket' = Filled(authBucket + Part, AuthBurst)
    /\ Stage(r, "refused")
    /\ UNCHANGED <<now, groupBucket, window, hits, refusal, unrefunded>>

TakeGroupToken(r) ==
    /\ handling[r] = "counted"
    /\ groupBucket >= Part
    /\ groupBucket' = groupBucket - Part
    /\ Stage(r, "inside")
    /\ UNCHANGED <<now, authBucket, window, hits, refusal, unrefunded>>

\* Mutated form of EndRequest: a failed authentication is refunded too.
EndRequestRefunding(r) ==
    /\ handling[r] = "inside"
    /\ authBucket' = Filled(authBucket + Part, AuthBurst)
    /\ \/ Stage(r, "answered") /\ UNCHANGED unrefunded
       \/ Stage(r, "unauthorized") /\ unrefunded' = unrefunded \cup {r}
    /\ UNCHANGED <<now, groupBucket, window, hits, refusal>>
\* An answer other than 401 gives the token back; a handler that raises does not.
EndRequest(r) ==
    /\ handling[r] = "inside"
    /\ \/ /\ authBucket' = Filled(authBucket + Part, AuthBurst)
          /\ Stage(r, "answered")
          /\ UNCHANGED unrefunded
       \/ /\ handling' \in {[handling EXCEPT ![r] = s] : s \in {"unauthorized", "raised"}}
          /\ unrefunded' = unrefunded \cup {r}
          /\ UNCHANGED authBucket
    /\ UNCHANGED <<now, groupBucket, window, hits, refusal>>

-----------------------------------------------------------------------------
(* The sliding window *)

\* Mutated form of Aged: a hit is forgotten a tick too early.
AgedEarly(t) == t + Window <= now + 1
Aged(t) == t + Window <= now

\* The hit of a request inside the endpoint: allowed, or refused with the time
\* until the oldest hit leaves the window.
Hit(r) ==
    /\ handling[r] = "inside"
    /\ LET young == SelectSeq(window, LAMBDA t : ~Aged(t))
       IN \/ /\ Len(young) < WindowLimit
             /\ window' = Append(young, now)
             /\ hits' = Append(hits, now)
             /\ UNCHANGED refusal
          \/ /\ Len(young) >= WindowLimit
             /\ window' = young
             /\ refusal' = <<now, IF Head(young) + Window > now + 1
                                  THEN Head(young) + Window - now ELSE 1, Len(hits)>>
             /\ UNCHANGED hits
    /\ Stage(r, "checked")
    /\ UNCHANGED <<now, authBucket, groupBucket, unrefunded>>

EndChecked(r) ==
    /\ handling[r] = "checked"
    /\ authBucket' = Filled(authBucket + Part, AuthBurst)
    /\ Stage(r, "answered")
    /\ UNCHANGED <<now, groupBucket, window, hits, refusal, unrefunded>>

-----------------------------------------------------------------------------
LimitInit ==
    /\ now = 0
    /\ authBucket = AuthBurst * Part
    /\ groupBucket = GroupBurst * Part
    /\ handling = [r \in HttpRequest |-> "new"]
    /\ window = <<>>
    /\ hits = <<>>
    /\ refusal = <<>>
    /\ unrefunded = {}

LimitNext ==
    \/ Tick
    \/ \E r \in HttpRequest :
          \/ RefuseForAuth(r) \/ TakeAuthToken(r) \/ RefuseForGroup(r) \/ TakeGroupToken(r)
          \/ Hit(r) \/ EndChecked(r) \/ EndRequest(r)

LimitSpec == LimitInit /\ [][LimitNext]_limitVars

-----------------------------------------------------------------------------
(* Properties *)

LimitTypeOK ==
    /\ now \in 0..MaxTicks
    /\ authBucket \in 0..(AuthBurst * Part)
    /\ groupBucket \in 0..(GroupBurst * Part)
    /\ handling \in [HttpRequest -> {"new", "refused", "counted", "inside", "checked",
                                     "answered", "unauthorized", "raised"}]
    /\ Len(window) <= WindowLimit
    /\ \A i \in DOMAIN hits : hits[i] \in 0..MaxTicks
    /\ unrefunded \subseteq HttpRequest

Holding(r) == handling[r] \in {"counted", "inside", "checked"}
\* Failed authentications, with the requests still under way, never exceed the
\* burst and what was refilled since the start, whatever refunds interleave;
\* no rolling window lets more hits pass than its limit; and a caller who waits
\* the Retry-After it was told, with no one else getting in, is let in.
LimitsHold ==
    /\ Part * Cardinality(unrefunded \cup {r \in HttpRequest : Holding(r)})
          + authBucket <= AuthBurst * Part + AuthRate * now
    /\ \A i \in DOMAIN hits :
          Cardinality({j \in DOMAIN hits : hits[j] <= hits[i] /\ hits[i] < hits[j] + Window})
             <= WindowLimit
    /\ refusal # <<>> /\ now >= refusal[1] + refusal[2] /\ Len(hits) = refusal[3] =>
          Len(SelectSeq(window, LAMBDA t : t + Window > now)) < WindowLimit
=============================================================================
