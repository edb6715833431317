------------------------------ MODULE ApiClients ------------------------------
(***************************************************************************)
(* What the clients of the API hold: the JWT sessions they log in with, and *)
(* the feed of events they listen to.                                       *)
(***************************************************************************)
EXTENDS Naturals, FiniteSets, Sequences, SequencesExt

-----------------------------------------------------------------------------
(***************************************************************************)
(* The JWT sessions of the API: tokens are issued in pairs, refreshed and   *)
(* revoked (api/routes/auth.py), recorded and looked up                     *)
(* (core/auth_session_store.py), and checked by every endpoint              *)
(* (auth.py, api/deps.py).  A handler does not give up the event loop       *)
(* between its check and its answer.                                        *)
(***************************************************************************)

CONSTANTS
    Subject,
    RoleAsked,    \* roles that tokens are asked for
    MaxTokens,    \* bound: tokens made
    MaxRevokes    \* bound: revocations of all tokens of a subject

Roles == <<"admin", "operator", "viewer", "developer">>

ASSUME AuthAssumption ==
    /\ RoleAsked \subseteq {Roles[i] : i \in DOMAIN Roles}
    /\ MaxTokens \in Nat /\ MaxRevokes \in Nat

VARIABLES
    tokens,       \* tokens made: subject, role, type, whether expired
    sessions,     \* rows of auth_sessions: the token and whether it is revoked
    socket,       \* the token an event socket was opened with, 0 for none
    root,         \* history: of each token, the revocations of its subject that came
                  \* before the pair it descends from
    revokedAll    \* history: revocations of all tokens of each subject

authVars == <<tokens, sessions, socket, root, revokedAll>>

-----------------------------------------------------------------------------
RankOf(r) == CHOOSE i \in DOMAIN Roles : Roles[i] = r
Can(r, minimum) == RankOf(r) <= RankOf(minimum)

IsRevoked(t) == t \in DOMAIN sessions /\ sessions[t].revoked
RowOf(s, revoked) == [subject |-> s, revoked |-> revoked]
\* record_session, for each of the tokens ts
WithRows(ts, s) ==
    [t \in DOMAIN sessions \cup ts |-> IF t \in ts THEN RowOf(s, FALSE) ELSE sessions[t]]

NewToken(s, role, type) == [subject |-> s, role |-> role, type |-> type, expired |-> FALSE]

\* issue_token, by an admin, who names the role: an access and a refresh token of
\* it, both recorded.
IssueToken(s, role) ==
    /\ Len(tokens) + 2 <= MaxTokens
    /\ tokens' = tokens \o <<NewToken(s, role, "access"), NewToken(s, role, "refresh")>>
    /\ root' = root \o <<revokedAll[s], revokedAll[s]>>
    /\ sessions' = WithRows({Len(tokens) + 1, Len(tokens) + 2}, s)
    /\ UNCHANGED <<socket, revokedAll>>

\* Mutated form of Refreshable: the store is not asked.
RefreshableUnasked(t) == ~tokens[t].expired /\ tokens[t].type = "refresh"
Refreshable(t) == ~tokens[t].expired /\ tokens[t].type = "refresh" /\ ~IsRevoked(t)

\* refresh_access_token
RefreshToken(t) ==
    /\ Refreshable(t) /\ Len(tokens) < MaxTokens
    /\ tokens' = Append(tokens, NewToken(tokens[t].subject, tokens[t].role, "access"))
    /\ root' = Append(root, root[t])
    /\ sessions' = WithRows({Len(tokens) + 1}, tokens[t].subject)
    /\ UNCHANGED <<socket, revokedAll>>

\* revoke: what was refreshed from the token is not touched.
RevokeToken(t) ==
    /\ ~IsRevoked(t)
    /\ sessions' = [sessions EXCEPT ![t].revoked = TRUE]
    /\ UNCHANGED <<tokens, socket, root, revokedAll>>

\* revoke_all_for_subject
RevokeAll(s) ==
    /\ revokedAll[s] < MaxRevokes
    /\ sessions' = [t \in DOMAIN sessions |->
                       IF sessions[t].subject = s THEN RowOf(s, TRUE) ELSE sessions[t]]
    /\ revokedAll' = [revokedAll EXCEPT ![s] = @ + 1]
    /\ UNCHANGED <<tokens, socket, root>>

Expire(t) ==
    /\ ~tokens[t].expired
    /\ tokens' = [tokens EXCEPT ![t].expired = TRUE]
    /\ UNCHANGED <<sessions, socket, root, revokedAll>>

\* make_rbac_dep: what a request with token t may do.
Admits(t, minimum) ==
    /\ ~tokens[t].expired /\ ~IsRevoked(t)
    /\ tokens[t].type = "access"
    /\ Can(tokens[t].role, minimum)

\* websocket_auth_or_close asks once; the socket stays open whatever comes.
OpenSocket(t) ==
    /\ socket = 0 /\ Admits(t, "viewer")
    /\ socket' = t
    /\ UNCHANGED <<tokens, sessions, root, revokedAll>>

CloseSocket ==
    /\ socket # 0 /\ socket' = 0
    /\ UNCHANGED <<tokens, sessions, root, revokedAll>>

AuthInit ==
    /\ tokens = <<>> /\ root = <<>>
    /\ sessions = <<>>
    /\ socket = 0
    /\ revokedAll = [s \in Subject |-> 0]

AuthNext ==
    \/ \E s \in Subject, role \in RoleAsked : IssueToken(s, role)
    \/ \E s \in Subject : RevokeAll(s)
    \/ \E t \in DOMAIN tokens :
          RefreshToken(t) \/ RevokeToken(t) \/ Expire(t) \/ OpenSocket(t)
    \/ CloseSocket

AuthSpec == AuthInit /\ [][AuthNext]_authVars

-----------------------------------------------------------------------------
(* Properties *)

AuthTypeOK ==
    /\ \A t \in DOMAIN tokens : tokens[t].subject \in Subject
                                /\ tokens[t].role \in RoleAsked
                                /\ tokens[t].type \in {"access", "refresh"}
    /\ DOMAIN sessions \subseteq DOMAIN tokens
    /\ socket \in 0..Len(tokens)
    /\ Len(root) = Len(tokens)

\* api/routes/auth.py:165-179: once all tokens of a subject have been revoked,
\* nothing issued to it before is admitted or refreshed, nor what was refreshed
\* from that, however the refreshes and revocations were ordered.
RevokedStaysOut ==
    \A t \in DOMAIN tokens :
        Admits(t, "developer") \/ Refreshable(t) => root[t] = revokedAll[tokens[t].subject]

-----------------------------------------------------------------------------
(***************************************************************************)
(* The event bus (events.py) and the WebSocket that streams it to clients  *)
(* (api/routes/events.py): a limited number of connections, each with a     *)
(* bounded queue that loses events when it is full.  A handler that waits   *)
(* for an event does not notice that its client has gone.                   *)
(***************************************************************************)

CONSTANTS
    Client,
    FeedMax,      \* websocket_max_connections, 0 for no limit
    FeedQueue,    \* queue_size of a subscription
    MaxEvents,    \* bound: events published
    MaxConnects   \* bound: connections accepted

ASSUME FeedAssumption ==
    /\ FeedMax \in Nat /\ FeedQueue \in Nat \ {0}
    /\ MaxEvents \in Nat /\ MaxConnects \in Nat

VARIABLES
    slotCount,    \* _ws_connection_count
    stand,        \* where each client's handler is
    hungUp,       \* clients that have gone
    feed,         \* the queue of each subscription
    sending,      \* the event each handler is sending, 0 for none
    received,     \* history: events each client has got on this connection
    lost,         \* history: events that found its queue full
    since,        \* history: events published before it subscribed, or hung up
    published,    \* history: events so far
    connects      \* history: connections so far

feedVars == <<slotCount, stand, hungUp, feed, sending, received, lost, since,
              published, connects>>

-----------------------------------------------------------------------------
\* _ws_acquire: a client that finds no slot is told to try again later.
HasFeedSlot == FeedMax = 0 \/ slotCount < FeedMax

Connect(c) ==
    /\ stand[c] = "away" /\ HasFeedSlot /\ connects < MaxConnects
    /\ slotCount' = slotCount + 1
    /\ stand' = [stand EXCEPT ![c] = "asking"]
    /\ connects' = connects + 1
    /\ UNCHANGED <<hungUp, feed, sending, received, lost, since, published>>

\* Mutated form of ReleaseSlot: a refused client's slot is not given back.
ReleaseSlotOfFed(c) ==
    /\ slotCount' = IF stand[c] = "fed" THEN slotCount - 1 ELSE slotCount
    /\ stand' = [stand EXCEPT ![c] = "away"]
    /\ hungUp' = hungUp \ {c}
\* The handler ends; its subscription goes with it.
ReleaseSlot(c) ==
    /\ slotCount' = IF slotCount > 0 THEN slotCount - 1 ELSE 0
    /\ stand' = [stand EXCEPT ![c] = "away"]
    /\ hungUp' = hungUp \ {c}

\* The token is refused, or the client has gone before it was accepted.
TurnAway(c) ==
    /\ stand[c] = "asking"
    /\ ReleaseSlot(c)
    /\ UNCHANGED <<feed, sending, received, lost, since, published, connects>>

Subscribe(c) ==
    /\ stand[c] = "asking" /\ c \notin hungUp
    /\ stand' = [stand EXCEPT ![c] = "fed"]
    /\ feed' = [feed EXCEPT ![c] = <<>>]
    /\ received' = [received EXCEPT ![c] = <<>>]
    /\ lost' = [lost EXCEPT ![c] = {}]
    /\ since' = [since EXCEPT ![c] = published]
    /\ UNCHANGED <<slotCount, hungUp, sending, published, connects>>

Fed == {c \in Client : stand[c] = "fed"}

\* Mutated form of Publish: the queue is not bounded.
PublishUnbounded ==
    /\ published < MaxEvents
    /\ published' = published + 1
    /\ feed' = [c \in Client |-> IF c \in Fed THEN Append(feed[c], published + 1) ELSE feed[c]]
    /\ UNCHANGED <<slotCount, stand, hungUp, sending, received, lost, since, connects>>
\* publish: a full queue loses the event, the others get it.
Publish ==
    /\ published < MaxEvents
    /\ published' = published + 1
    /\ feed' = [c \in Client |-> IF c \in Fed /\ Len(feed[c]) < FeedQueue
                                 THEN Append(feed[c], published + 1) ELSE feed[c]]
    /\ lost' = [c \in Client |-> IF c \in Fed /\ Len(feed[c]) >= FeedQueue
                                 THEN lost[c] \cup {published + 1} ELSE lost[c]]
    /\ UNCHANGED <<slotCount, stand, hungUp, sending, received, since, connects>>

TakeEvent(c) ==
    /\ c \in Fed /\ sending[c] = 0 /\ feed[c] # <<>>
    /\ sending' = [sending EXCEPT ![c] = Head(feed[c])]
    /\ feed' = [feed EXCEPT ![c] = Tail(@)]
    /\ UNCHANGED <<slotCount, stand, hungUp, received, lost, since, published, connects>>

\* Sending to a client that has gone raises, and ends the handler.
SendEvent(c) ==
    /\ c \in Fed /\ sending[c] # 0
    /\ sending' = [sending EXCEPT ![c] = 0]
    /\ IF c \in hungUp
       THEN /\ ReleaseSlot(c)
            /\ feed' = [feed EXCEPT ![c] = <<>>]
            /\ UNCHANGED received
       ELSE /\ received' = [received EXCEPT ![c] = Append(@, sending[c])]
            /\ UNCHANGED <<slotCount, stand, hungUp, feed>>
    /\ UNCHANGED <<lost, since, published, connects>>

HangUp(c) ==
    /\ stand[c] # "away" /\ c \notin hungUp
    /\ hungUp' = hungUp \cup {c}
    /\ UNCHANGED <<slotCount, stand, feed, sending, received, lost, since, published, connects>>

FeedInit ==
    /\ slotCount = 0
    /\ stand = [c \in Client |-> "away"]
    /\ hungUp = {}
    /\ feed = [c \in Client |-> <<>>] /\ sending = [c \in Client |-> 0]
    /\ received = [c \in Client |-> <<>>] /\ lost = [c \in Client |-> {}]
    /\ since = [c \in Client |-> 0]
    /\ published = 0 /\ connects = 0

FeedNext ==
    \/ Publish
    \/ \E c \in Client : \/ Connect(c) \/ TurnAway(c) \/ Subscribe(c)
                         \/ TakeEvent(c) \/ SendEvent(c) \/ HangUp(c)

FeedSpec == FeedInit /\ [][FeedNext]_feedVars

-----------------------------------------------------------------------------
(* Properties *)

FeedTypeOK ==
    /\ slotCount \in Nat
    /\ stand \in [Client -> {"away", "asking", "fed"}]
    /\ hungUp \subseteq Client
    /\ \A c \in Client : Len(feed[c]) <= FeedQueue /\ sending[c] \in 0..published

\* events.py:3-5, api/routes/events.py:35-50: the count is that of the handlers, so
\* that no slot is lost and the limit holds; what a client has got, what is on its
\* way and what was lost to a full queue are all the events since it subscribed,
\* in order.
FeedIsFaithful ==
    /\ slotCount = Cardinality({c \in Client : stand[c] # "away"})
    /\ FeedMax # 0 => slotCount <= FeedMax
    /\ \A c \in Fed :
          LET way == received[c] \o (IF sending[c] = 0 THEN <<>> ELSE <<sending[c]>>) \o feed[c]
          IN /\ \A i, j \in DOMAIN way : i < j => way[i] < way[j]
             /\ ToSet(way) \cup lost[c] = (since[c] + 1)..published

\* A client that has gone gives its slot back once there is an event to send it,
\* and until then keeps it.
GoneMakeRoom ==
    \A c \in Client :
        (c \in hungUp /\ c \in Fed /\ (feed[c] # <<>> \/ sending[c] # 0)) ~> (c \notin hungUp)
=============================================================================
