----------------------------- MODULE MCServices -----------------------------
(***************************************************************************)
(* Instances for TLC of the services around the daemon: webhooks, the doors *)
(* for issues, logins, the discovery of issues, cron triggers, the event feed, *)
(* budgets and routing, the control plane, calls of GitHub and their token, the *)
(* launcher, and the histories of sessions and conversations.  They share no *)
(* state, so a behaviour picks one of them and the others stay as they start. *)
(***************************************************************************)
EXTENDS Webhooks, ApiClients, Discovery, RunBudget, ControlPlane,
        GithubAccess, Launch, Histories

CONSTANTS l1, l2, p1, p2, p3, k1, k2, m1, m2, m3

VARIABLE active   \* the component that moves

ServicesVars ==
    <<active, hookVars, doorVars, authVars, discoveryVars, cronVars,
      feedVars, runVars, controlVars, githubVars, tokenVars, launchVars,
      sessionVars, conversationVars>>

\* The first event is one of two routes, the second of another.
MCApplies == [e \in Event |-> IF e = "e1" THEN {1, 3} ELSE {2}]

\* Three issues of one repository, the newest without the label, and two of another.
MCForge == <<3, 2>>
MCLabelled == {<<1, 1>>, <<1, 2>>, <<2, 2>>, <<2, 3>>}
MCBatchFile == <<<<2, 2>>, <<1, 1>>>>
MCRival == <<"claude", "ollama">>

\* Two issues of one repository and one of another.
MCRepoOf == <<1, 1, 2>>

\* Hours of a minute: a trigger for every second one, and two that are faulty.
MCCronOf ==
    LET any == [kind |-> "any", n |-> 0]
    IN [t \in Trigger |->
          CASE t = "often" -> [minute |-> any, hour |-> [kind |-> "step", n |-> 2]]
            [] t = "junk" -> [minute |-> [kind |-> "junk", n |-> 0], hour |-> any]
            [] t = "range" -> [minute |-> any, hour |-> [kind |-> "value", n |-> 3]]]

\* Before the reload: a limit of 2, both backends, the repository's own one, a
\* tier.  After it: a limit of 1, one backend, another tier, longer retention.
MCBudgetOf(limit, enabled, repo, tiers, retention) ==
    [limited |-> TRUE, limit |-> limit, hardStop |-> TRUE, known |-> Backend,
     enabled |-> enabled, default |-> "claude", repoBackend |-> repo,
     tiers |-> [b \in Backend |-> IF b = "claude" THEN tiers ELSE {}],
     retention |-> retention]
MCConfig ==
    [s \in Setting |->
        IF s = "first" THEN MCBudgetOf(2, Backend, "ollama", {"simple"}, 1)
        ELSE MCBudgetOf(1, {"claude"}, "none", {"moderate"}, 2)]
MCAsked ==
    {[kind |-> "prompt", override |-> "none", inRepo |-> TRUE, wanted |-> NoModel],
     [kind |-> "issue", override |-> "claude", inRepo |-> FALSE, wanted |-> NoModel]}

\* The prices of the three models, nearly.
MCTaskCost == [haiku |-> 1, sonnet |-> 4, opus |-> 19]

\* A call of an agent that is granted and one that is denied, and one of the client.
MCOp == [c \in GhCall |-> CASE c = "a" -> "granted" [] c = "b" -> "plain" [] c = "d" -> "denied"]

ServicesInit ==
    /\ active \in {"hooks", "doors", "auth", "discovery", "cron", "feed",
                  "budget", "control", "github", "token", "launch",
                  "session", "conversation"}
    /\ active # "budget" => inForce = "first"
    /\ active # "conversation" => backend = "json"
    /\ HookInit /\ DoorInit /\ AuthInit /\ DiscoveryInit /\ CronInit
    /\ FeedInit /\ BudgetInit /\ ControlInit /\ GithubInit /\ TokenInit
    /\ LaunchInit /\ SessionInit /\ ConversationInit

ServicesNext ==
    /\ UNCHANGED active
    /\ \/ active = "hooks" /\ HookNext
          /\ UNCHANGED <<doorVars, authVars, discoveryVars, cronVars, feedVars,
                         runVars, controlVars, githubVars, tokenVars,
                         launchVars, sessionVars, conversationVars>>
       \/ active = "doors" /\ DoorNext
          /\ UNCHANGED <<hookVars, authVars, discoveryVars, cronVars, feedVars,
                         runVars, controlVars, githubVars, tokenVars,
                         launchVars, sessionVars, conversationVars>>
       \/ active = "auth" /\ AuthNext
          /\ UNCHANGED <<hookVars, doorVars, discoveryVars, cronVars, feedVars,
                         runVars, controlVars, githubVars, tokenVars,
                         launchVars, sessionVars, conversationVars>>
       \/ active = "discovery" /\ DiscoveryNext
          /\ UNCHANGED <<hookVars, doorVars, authVars, cronVars, feedVars,
                         runVars, controlVars, githubVars, tokenVars,
                         launchVars, sessionVars, conversationVars>>
       \/ active = "cron" /\ CronNext
          /\ UNCHANGED <<hookVars, doorVars, authVars, discoveryVars, feedVars,
                         runVars, controlVars, githubVars, tokenVars,
                         launchVars, sessionVars, conversationVars>>
       \/ active = "feed" /\ FeedNext
          /\ UNCHANGED <<hookVars, doorVars, authVars, discoveryVars, cronVars,
                         runVars, controlVars, githubVars, tokenVars,
                         launchVars, sessionVars, conversationVars>>
       \/ active = "budget" /\ BudgetNext
          /\ UNCHANGED <<hookVars, doorVars, authVars, discoveryVars, cronVars,
                         feedVars, controlVars, githubVars, tokenVars,
                         launchVars, sessionVars, conversationVars>>
       \/ active = "control" /\ ControlNext
          /\ UNCHANGED <<hookVars, doorVars, authVars, discoveryVars, cronVars,
                         feedVars, runVars, githubVars, tokenVars, launchVars,
                         sessionVars, conversationVars>>
       \/ active = "github" /\ GithubNext
          /\ UNCHANGED <<hookVars, doorVars, authVars, discoveryVars, cronVars,
                         feedVars, runVars, controlVars, tokenVars, launchVars,
                         sessionVars, conversationVars>>
       \/ active = "token" /\ TokenNext
          /\ UNCHANGED <<hookVars, doorVars, authVars, discoveryVars, cronVars,
                         feedVars, runVars, controlVars, githubVars,
                         launchVars, sessionVars, conversationVars>>
       \/ active = "launch" /\ LaunchNext
          /\ UNCHANGED <<hookVars, doorVars, authVars, discoveryVars, cronVars,
                         feedVars, runVars, controlVars, githubVars, tokenVars,
                         sessionVars, conversationVars>>
       \/ active = "session" /\ SessionNext
          /\ UNCHANGED <<hookVars, doorVars, authVars, discoveryVars, cronVars,
                         feedVars, runVars, controlVars, githubVars, tokenVars,
                         launchVars, conversationVars>>
       \/ active = "conversation" /\ ConversationNext
          /\ UNCHANGED <<hookVars, doorVars, authVars, discoveryVars, cronVars,
                         feedVars, runVars, controlVars, githubVars, tokenVars,
                         launchVars, sessionVars>>

\* A scan goes on once it has begun (each of its calls ends or times out), and the
\* handler of a client takes its events and sends them.
ServicesSpec ==
    /\ ServicesInit /\ [][ServicesNext]_ServicesVars
    /\ WF_discoveryVars(active = "discovery" /\ ScanMoves)
    /\ \A c \in Client :
          /\ WF_feedVars(active = "feed" /\ TakeEvent(c))
          /\ WF_feedVars(active = "feed" /\ SendEvent(c))

-----------------------------------------------------------------------------
\* Every variable of these components keeps its type.
ServicesTypeOK ==
    /\ HookTypeOK /\ DoorTypeOK /\ AuthTypeOK /\ DiscoveryTypeOK
    /\ CronTypeOK /\ FeedTypeOK /\ BudgetTypeOK /\ ControlTypeOK
    /\ GithubTypeOK /\ TokenTypeOK /\ LaunchTypeOK /\ HistoriesTypeOK

\* What is asked of the daemon from outside is done once and by the rules: a
\* delivery is submitted once per route, a batch of issues is counted as it was
\* submitted, a revoked token stays out, an issue is dispatched once, a cron trigger
\* fires once in each of its minutes, the feed of a client leaves nothing out
\* unsaid, a waived failure stays waived and a page shows what was so, spending
\* overruns its limit by no more than the runs in flight, a run is routed by one
\* configuration, and calls of GitHub are audited, wait for the reset, and carry a
\* token that lasts.
RequestsAreHonoured ==
    /\ HooksSubmitOnce /\ DoorsKeepCount /\ RevokedStaysOut /\ DiscoveredOnce
    /\ MinutesAreFiredOnce /\ FeedIsFaithful /\ WaivedFailureStays /\ PageIsTrue
    /\ OverrunIsBounded /\ RoutedBySnapshot /\ AdviceIsPayable
    /\ CallsAreAccounted /\ AsksAfterReset /\ TokensLast

\* What outlives a process: one daemon recovers a storage root at a time, the key
\* the operator wrote last is the key that is used, and the log of a session and
\* the messages of a conversation are what their writers were told.
WhatIsKeptIsTrue ==
    /\ RecoveryIsAlone /\ KeysSurvive
    /\ NumbersIncrease /\ TranscriptIsKept /\ ConversationIsKept

\* A new issue is dispatched while its repository lists it, and a client that is
\* gone gives its place in the feed back.
ServicesMoveOn == NewestAreDispatched /\ GoneMakeRoom
=============================================================================
