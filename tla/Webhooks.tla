------------------------------ MODULE Webhooks ------------------------------
(***************************************************************************)
(* Work that comes in over HTTP: GitHub's webhook with its routes          *)
(* (gh/webhook.py), the trigger endpoint with idempotency keys             *)
(* (triggers/webhook.py), and the doors for issues.  A handler does not    *)
(* give up the event loop once it has read the request.                    *)
(***************************************************************************)
EXTENDS Naturals, FiniteSets, Sequences, FiniteSetsExt, SequencesExt

CONSTANTS
    Event,          \* deliveries of GitHub, each for one issue or comment
    Route,          \* configured routes, in order
    Applies,        \* Applies[e]: routes for e's event, action, label and comment
    Allowed,        \* deliveries from a repository that is allowed
    Key,            \* idempotency keys, each of one caller
    HasKey,         \* callers that send theirs; the others send none
    MaxHookTroubles \* bound: failures, lost answers, restarts, ended windows

ASSUME WebhookAssumption ==
    /\ Route \in Nat
    /\ Applies \in [Event -> SUBSET (1..Route)]
    /\ Allowed \subseteq Event /\ HasKey \subseteq Key
    /\ MaxHookTroubles \in Nat

VARIABLES
    delivery,     \* what GitHub was told of each event last
    routed,       \* tasks submitted for each event and route
    redelivered,  \* history: repeated deliveries of each event
    remembered,   \* _DEDUP: the keys seen within the window
    caller,       \* what the caller with each key was told last
    triggered,    \* tasks submitted for each key
    lapses,       \* history: how often a key was forgotten
    hookTroubles  \* history: troubles so far

hookVars == <<delivery, routed, redelivered, remembered, caller, triggered, lapses,
              hookTroubles>>

-----------------------------------------------------------------------------
HookTrouble == hookTroubles < MaxHookTroubles /\ hookTroubles' = hookTroubles + 1

\* WebhookRouter.handle: one task per matching route, in order, and a failed
\* submission ends it with those before.
Matching(e) == IF e \in Allowed THEN Applies[e] ELSE {}
Begun(s) == {{r \in s : r < q} : q \in s}

Submits(e, rs) ==
    routed' = [routed EXCEPT ![e] = [r \in 1..Route |-> @[r] + IF r \in rs THEN 1 ELSE 0]]

\* GitHub delivers an event, and again when somebody asks for it or the answer
\* told of a failure.
Arrives(e) ==
    redelivered' = IF delivery[e] = "none" THEN redelivered
                   ELSE [redelivered EXCEPT ![e] = @ + 1]

Deliver(e) ==
    /\ Arrives(e)
    /\ IF delivery[e] = "none" THEN UNCHANGED hookTroubles ELSE HookTrouble
    /\ delivery' = [delivery EXCEPT ![e] = "200"]
    /\ Submits(e, Matching(e))
    /\ UNCHANGED <<remembered, caller, triggered, lapses>>

DeliverInPart(e) ==
    /\ Arrives(e) /\ HookTrouble
    /\ delivery' = [delivery EXCEPT ![e] = "500"]
    /\ \E rs \in Begun(Matching(e)) : Submits(e, rs)
    /\ UNCHANGED <<remembered, caller, triggered, lapses>>

-----------------------------------------------------------------------------
IsDuplicate(k) == k \in HasKey /\ k \in remembered

\* Mutated form of Remember: keys are looked up and never entered.
RememberNothing(k) == UNCHANGED remembered
\* _is_duplicate remembers a new key at once, before the task is submitted.
Remember(k) == remembered' = IF k \in HasKey THEN remembered \cup {k} ELSE remembered

Answered(k, what) == caller' = [caller EXCEPT ![k] = what]
MayAsk(k) == caller[k] \in {"none", "lost", "refused"}

TriggerDuplicate(k) ==
    /\ MayAsk(k) /\ IsDuplicate(k)
    /\ Answered(k, "duplicate")
    /\ UNCHANGED <<delivery, routed, redelivered, remembered, triggered, lapses, hookTroubles>>

\* The task is submitted; the caller may miss the answer and ask again.
TriggerTask(k) ==
    /\ MayAsk(k) /\ ~IsDuplicate(k)
    /\ Remember(k)
    /\ triggered' = [triggered EXCEPT ![k] = @ + 1]
    /\ \/ Answered(k, "accepted") /\ UNCHANGED hookTroubles
       \/ Answered(k, "lost") /\ HookTrouble
    /\ UNCHANGED <<delivery, routed, redelivered, lapses>>

\* A blank prompt is refused before its key is looked at.
TriggerBlank(k) ==
    /\ MayAsk(k)
    /\ Answered(k, "refused")
    /\ UNCHANGED <<delivery, routed, redelivered, remembered, triggered, lapses, hookTroubles>>

TriggerFails(k) ==
    /\ MayAsk(k) /\ ~IsDuplicate(k) /\ HookTrouble
    /\ Remember(k)
    /\ Answered(k, "refused")
    /\ UNCHANGED <<delivery, routed, redelivered, triggered, lapses>>

\* Ten minutes pass, or the process is restarted.
ForgetKeys(ks) ==
    /\ ks # {} /\ HookTrouble
    /\ remembered' = remembered \ ks
    /\ lapses' = [k \in Key |-> lapses[k] + IF k \in ks THEN 1 ELSE 0]
    /\ UNCHANGED <<delivery, routed, redelivered, caller, triggered>>

-----------------------------------------------------------------------------
HookInit ==
    /\ delivery = [e \in Event |-> "none"]
    /\ routed = [e \in Event |-> [r \in 1..Route |-> 0]]
    /\ redelivered = [e \in Event |-> 0]
    /\ remembered = {}
    /\ caller = [k \in Key |-> "none"]
    /\ triggered = [k \in Key |-> 0]
    /\ lapses = [k \in Key |-> 0]
    /\ hookTroubles = 0

HookNext ==
    \/ \E e \in Event : Deliver(e) \/ DeliverInPart(e)
    \/ \E k \in Key : TriggerDuplicate(k) \/ TriggerTask(k)
                        \/ TriggerBlank(k) \/ TriggerFails(k)
    \/ \E ks \in SUBSET remembered : ForgetKeys(ks)

HookSpec == HookInit /\ [][HookNext]_hookVars

-----------------------------------------------------------------------------
(* Properties *)

HookTypeOK ==
    /\ delivery \in [Event -> {"none", "200", "500"}]
    /\ caller \in [Key -> {"none", "lost", "refused", "duplicate", "accepted"}]
    /\ remembered \subseteq HasKey
    /\ \A e \in Event : {routed[e][r] : r \in 1..Route} \cup {redelivered[e]} \subseteq Nat
    /\ {triggered[k] : k \in Key} \cup {lapses[k] : k \in Key} \subseteq Nat

\* A delivery submits each matching route's task once and no other route's, and a
\* key's task is submitted again only after the window or a restart
\* (triggers/webhook.py:15-20); an event GitHub was told to have gone through has
\* a task for every route.
HooksSubmitOnce ==
    /\ \A e \in Event, r \in 1..Route :
          /\ routed[e][r] <= IF r \in Matching(e) THEN 1 + redelivered[e] ELSE 0
          /\ delivery[e] = "200" /\ r \in Matching(e) => routed[e][r] > 0
    /\ \A k \in HasKey : triggered[k] <= 1 + lapses[k]

\* triggers/webhook.py:17-20: "already seen ... does not enqueue a second task": a
\* caller told "duplicate" has a first one.
DuplicateHasAFirst == \A k \in Key : caller[k] = "duplicate" => triggered[k] > 0

-----------------------------------------------------------------------------
(* The doors for issues: the commands of cli/issues.py with their planner     *)
(* (cli/batch_dispatch.py) and the routes of api/routes/issues.py.            *)

CONSTANTS
    Asker,        \* operators, each with one command at a time
    Forge,        \* Forge[r]: how many issues repository r has at first
    Labelled,     \* issues <<r, n>> with the label the operators ask for
    BatchFile,    \* the issues of the batch file, in order
    Rival,        \* the backends of an A/B run, in order
    ListTop,      \* --limit: how many open issues are listed
    MaxStories,   \* --max-stories
    MaxBatch,     \* how many items the route takes
    MaxNumber,    \* bound: issues of a repository
    MaxAsks,      \* bound: commands
    MaxDoorTroubles \* bound: failures, lost answers, closed issues

ASSUME DoorAssumption ==
    /\ Forge \in Seq(0..MaxNumber)
    /\ BatchFile \in Seq((DOMAIN Forge) \X (1..MaxNumber))
    /\ Rival \in Seq(ToSet(Rival)) /\ Len(Rival) >= 2 /\ IsInjective(Rival)
    /\ {ListTop, MaxStories, MaxBatch} \subseteq Nat \ {0} /\ MaxNumber \in Nat

VARIABLES
    newest,      \* the last issue of each repository
    isOpen,      \* open issues <<r, n>>
    command,     \* what each operator's command is at
    picked,      \* the issues the command has of each repository
    answered,        \* what the operator was told last
    work,        \* the daemon's tasks for issues, in order of submission
    asks, doorTroubles  \* history: commands and troubles so far

doorVars == <<newest, isOpen, command, picked, answered, work, asks, doorTroubles>>

Hub == DOMAIN Forge
AtPrompt == [at |-> "idle", left |-> {}, file |-> <<>>]
Silent == [what |-> "nothing", sent |-> <<>>, made |-> 0, failed |-> 0]
DoorTrouble == doorTroubles < MaxDoorTroubles /\ doorTroubles' = doorTroubles + 1

\* submit_issue, as a route calls it: meant is the caller's dry_run.
IssueTask(i, meant) ==
    [issue |-> i, backend |-> "none", group |-> 0, kept |-> TRUE, dry |-> FALSE, meant |-> meant]

Begins(o, cmd) ==
    /\ command[o] = AtPrompt /\ asks < MaxAsks
    /\ asks' = asks + 1
    /\ command' = [command EXCEPT ![o] = cmd]
    /\ picked' = [picked EXCEPT ![o] = [r \in Hub |-> <<>>]]
    /\ answered' = [answered EXCEPT ![o] = Silent]
Ends(o, answer) ==
    /\ command' = [command EXCEPT ![o] = AtPrompt]
    /\ answered' = [answered EXCEPT ![o] = answer]

\* issue dispatch-batch: the file as it stands, and the repositories, each once.
StartBatch(o) ==
    /\ \E file \in {<<>>, BatchFile}, rs \in SUBSET Hub :
          /\ file # <<>> \/ rs # {}
          /\ Begins(o, [at |-> "listing", left |-> rs, file |-> file])
    /\ UNCHANGED <<newest, isOpen, work, doorTroubles>>

\* The members of a set of numbers in increasing order, and what a sequence has at
\* such positions.
InOrder(P) ==
    CHOOSE f \in [1..Cardinality(P) -> P] : \A i, j \in DOMAIN f : i < j => f[i] < f[j]
Only(s, P) == LET at == InOrder(P) IN [i \in 1..Cardinality(P) |-> s[at[i]]]
FirstOf(s, cap) == SubSeq(s, 1, Min({Len(s), cap}))
Matched(listed) == {k \in DOMAIN listed : listed[k] \in Labelled}

\* Mutated form of Picks: the cap is taken before the label is looked at.
PicksCapped(listed) ==
    LET first == FirstOf(listed, MaxStories) IN Only(first, Matched(first))
\* _plan_one_repo: of the open issues listed, newest first, those with the label,
\* up to the cap.
Picks(listed) == FirstOf(Only(listed, Matched(listed)), MaxStories)
\* Issues of one repository, newest first.
NewestFirst(r, S) ==
    LET numbers == Reverse(InOrder(S)) IN [k \in 1..Cardinality(S) |-> <<r, numbers[k]>>]
ListOpen(r) ==
    FirstOf(NewestFirst(r, {n \in 1..newest[r] : <<r, n>> \in isOpen}), ListTop)

\* The repositories are listed at once and answer in any order; one that fails is
\* planned as empty.
RepoListed(o, r) ==
    /\ r \in command[o].left
    /\ command' = [command EXCEPT ![o].left = @ \ {r}]
    /\ \/ picked' = [picked EXCEPT ![o][r] = Picks(ListOpen(r))] /\ UNCHANGED doorTroubles
       \/ DoorTrouble /\ UNCHANGED picked
    /\ UNCHANGED <<newest, isOpen, answered, work, asks>>

Planned(o) == command[o].file \o FlattenSeq(picked[o])
IsPlanned(o) == command[o].at = "listing" /\ command[o].left = {}

\* --dry-run, or nothing matched.
Preview(o) ==
    /\ IsPlanned(o)
    /\ Ends(o, Silent)
    /\ UNCHANGED <<newest, isOpen, picked, work, asks, doorTroubles>>

\* Mutated form of Submitted: the first failure ends the batch.
SubmittedUntil(items, failing) ==
    IF failing = {} THEN items
    ELSE SubSeq(items, 1, (CHOOSE k \in failing : \A j \in failing : k <= j) - 1)
\* batch_dispatch_issues: each item is submitted, or counted as failed.
Submitted(items, failing) == Only(items, DOMAIN items \ failing)

Bulk(o, items, meant) ==
    \E failing \in SUBSET DOMAIN items, missed \in BOOLEAN :
        LET made == Submitted(items, failing)
            answer == [what |-> IF missed THEN "lost" ELSE "counts", sent |-> items,
                       made |-> Len(made), failed |-> Cardinality(failing)]
        IN /\ IF failing # {} \/ missed THEN DoorTrouble ELSE UNCHANGED doorTroubles
           /\ work' = work \o [k \in DOMAIN made |-> IssueTask(made[k], meant)]
           /\ Ends(o, answer)

\* The plan is posted; one too long for the route is refused as a whole.
PostBatch(o) ==
    /\ IsPlanned(o) /\ Planned(o) # <<>>
    /\ \/ Len(Planned(o)) <= MaxBatch /\ Bulk(o, Planned(o), FALSE)
       \/ /\ Len(Planned(o)) > MaxBatch
          /\ Ends(o, [Silent EXCEPT !.what = "refused"])
          /\ UNCHANGED <<work, doorTroubles>>
    /\ UNCHANGED <<newest, isOpen, picked, asks>>

\* A client of the API posts items of its own, dry runs all of them.
PostDry(o) ==
    /\ command[o] = AtPrompt /\ asks < MaxAsks /\ asks' = asks + 1
    /\ Len(BatchFile) \in 1..MaxBatch
    /\ picked' = [picked EXCEPT ![o] = [r \in Hub |-> <<>>]]
    /\ Bulk(o, BatchFile, TRUE)
    /\ UNCHANGED <<newest, isOpen>>

-----------------------------------------------------------------------------
\* issue new --dispatch, and create_issue: the issue is there before it is submitted.
CreateIssue(o) ==
    /\ \E r \in Hub :
          /\ newest[r] < MaxNumber
          /\ newest' = [newest EXCEPT ![r] = @ + 1]
          /\ isOpen' = isOpen \cup {<<r, newest[r] + 1>>}
          /\ Begins(o, [at |-> "created", left |-> {}, file |-> <<<<r, newest[r] + 1>>>>])
    /\ UNCHANGED <<work, doorTroubles>>

DispatchCreated(o) ==
    /\ command[o].at = "created"
    /\ \/ work' = Append(work, IssueTask(command[o].file[1], FALSE)) /\ UNCHANGED doorTroubles
       \/ DoorTrouble /\ UNCHANGED work
    /\ Ends(o, Silent)
    /\ UNCHANGED <<newest, isOpen, picked, asks>>

\* issue dispatch, and dispatch_issue: an issue that is there, and the caller's dry_run.
DispatchOne(o, i) ==
    /\ command[o] = AtPrompt /\ asks < MaxAsks /\ asks' = asks + 1
    /\ \/ /\ \E dry \in BOOLEAN :
                work' = Append(work, [IssueTask(i, dry) EXCEPT !.dry = dry])
          /\ UNCHANGED doorTroubles
       \/ DoorTrouble /\ UNCHANGED work
    /\ answered' = [answered EXCEPT ![o] = Silent]
    /\ UNCHANGED <<newest, isOpen, command, picked>>

\* Mutated form of Tagged: the group is saved once all have been submitted.
TaggedLast(ws, k, saved) == [j \in 1..k |-> [ws[j] EXCEPT !.kept = FALSE]]
\* submit_issue_ab, as far as its k-th task: each one is submitted, given its
\* group and saved again before the next.
Tagged(ws, k, saved) == [j \in 1..k |-> [ws[j] EXCEPT !.kept = j < k \/ saved]]

RaceBackends(o, i) ==
    /\ command[o] = AtPrompt /\ asks < MaxAsks /\ asks' = asks + 1
    /\ LET ws == [j \in DOMAIN Rival |-> [IssueTask(i, FALSE) EXCEPT !.backend = Rival[j],
                                                                !.group = Len(work) + 1]]
       IN \/ work' = work \o Tagged(ws, Len(Rival), TRUE) /\ UNCHANGED doorTroubles
          \/ /\ DoorTrouble
             /\ \E k \in 0..Len(Rival), saved \in BOOLEAN :
                   /\ k < Len(Rival) \/ ~saved
                   /\ work' = work \o Tagged(ws, k, saved)
    /\ answered' = [answered EXCEPT ![o] = Silent]
    /\ UNCHANGED <<newest, isOpen, command, picked>>

IssueCloses(i) ==
    /\ i \in isOpen /\ DoorTrouble
    /\ isOpen' = isOpen \ {i}
    /\ UNCHANGED <<newest, command, picked, answered, work, asks>>

DoorInit ==
    /\ newest = Forge
    /\ isOpen = {i \in Hub \X (1..MaxNumber) : i[2] <= Forge[i[1]]}
    /\ command = [o \in Asker |-> AtPrompt]
    /\ picked = [o \in Asker |-> [r \in Hub |-> <<>>]]
    /\ answered = [o \in Asker |-> Silent]
    /\ work = <<>> /\ asks = 0 /\ doorTroubles = 0

DoorNext ==
    \/ \E o \in Asker :
          \/ StartBatch(o) \/ Preview(o) \/ PostBatch(o) \/ PostDry(o)
          \/ CreateIssue(o) \/ DispatchCreated(o)
          \/ \E r \in Hub : RepoListed(o, r)
          \/ \E i \in isOpen : DispatchOne(o, i) \/ RaceBackends(o, i)
    \/ \E i \in isOpen : IssueCloses(i)

DoorSpec == DoorInit /\ [][DoorNext]_doorVars

DoorTypeOK ==
    /\ newest \in [Hub -> 0..MaxNumber] /\ isOpen \subseteq Hub \X (1..MaxNumber)
    /\ \A o \in Asker :
          /\ command[o].at \in {"idle", "listing", "created"} /\ command[o].left \subseteq Hub
          /\ answered[o].what \in {"nothing", "refused", "lost", "counts"}
    /\ \A k \in DOMAIN work : work[k].issue \in Hub \X (1..MaxNumber)

\* Of any issues of a repository a scan takes the newest with the label, and leaves
\* room unused only if it saw no other.
PicksAreNewest ==
    \A S \in SUBSET (1..MaxNumber), r \in Hub :
        LET listed == NewestFirst(r, S)
            taken == ToSet(Picks(listed))
            eligible == ToSet(listed) \cap Labelled
        IN /\ taken \subseteq eligible
           /\ Cardinality(taken) = Min({MaxStories, Cardinality(eligible)})
           /\ \A i \in taken, j \in eligible \ taken : i[2] > j[2]

\* The daemon "returns how many tasks were dispatched and how many failed"
\* (docs/getting-started/fleet-issue-queue.md:135-137), one failed item stopping
\* no other; a scan picks the newest; and of the tasks of one A/B run all but the
\* last have their group on disk, each with a backend of its own
\* (submission.py:356-359).
DoorsKeepCount ==
    /\ \A o \in Asker : answered[o].made + answered[o].failed = Len(answered[o].sent)
    /\ PicksAreNewest
    /\ \A j, k \in DOMAIN work :
          j < k /\ work[j].group = work[k].group /\ work[j].group > 0 =>
             /\ work[j].kept /\ work[j].backend # work[k].backend
             /\ work[j].issue = work[k].issue

\* cli/issues.py:118: "Per-repo cap on how many issues to submit this run".
CapIsForTheRun ==
    \A o \in Asker, r \in Hub :
        Len(SelectSeq(answered[o].sent, LAMBDA i : i[1] = r)) <= MaxStories

\* An item sent with dry_run (IssueDispatch, api/routes/issues.py:72) is run dry.
DryRunIsKept == \A k \in DOMAIN work : work[k].meant => work[k].dry
=============================================================================
