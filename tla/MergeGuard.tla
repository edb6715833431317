----------------------------- MODULE MergeGuard -----------------------------
(***************************************************************************)
(* Arming auto-merge on one pull request: the guard that asks whether a     *)
(* reviewer holds it back (scripts/automerge_guard.py), the scan that queues *)
(* armed requests GitHub forgot (scripts/requeue_stalled_merges.py), and the *)
(* shepherd that arms without the guard (executor/pr_merge_daemon.py).       *)
(* GitHub, the reviewer and the contributor act between any two calls of a  *)
(* pass; times are GitHub's, in seconds, and two events may share one.       *)
(***************************************************************************)
EXTENDS Naturals, FiniteSets, FiniteSetsExt

CONSTANTS
    CloseWindow,   \* _CLOSE_DISARM_WINDOW_SECONDS
    MaxSecond,     \* bound: the last second
    MaxHead,       \* bound: heads pushed
    MaxMoves,      \* bound: what people do to the request
    MaxPasses      \* bound: passes of the guard and the shepherd

ASSUME MergeAssumption ==
    /\ {CloseWindow, MaxSecond, MaxMoves, MaxPasses} \subseteq Nat
    /\ MaxHead \in Nat \ {0}

HeadSha == 1..MaxHead
NotYet == MaxSecond + 1     \* the time of what has not happened

VARIABLES
    second,     \* GitHub's clock
    pull,       \* the pull request: its base's queue, head, state, arm
    suites,     \* the first check suite of each head
    disarms,    \* the timeline's disarms by people
    closes,     \* the timeline's closings
    forced,     \* the timeline's latest forced push
    pass,       \* the guard's pass
    scan,       \* the shepherd's copy of the request, or {}
    moves,      \* what people have done
    passes,     \* passes begun
    cleared     \* history: heads an evaluation found not held

mergeVars == <<second, pull, suites, disarms, closes, forced, pass, scan, moves, passes, cleared>>
onGitHub == <<second, pull, suites, disarms, closes, forced, moves>>

-----------------------------------------------------------------------------
(* GitHub and the people *)

NewPull == [hasQueue |-> FALSE, head |-> 1, pushed |-> 0, open |-> TRUE, green |-> FALSE, sign |-> "none",
            auto |-> "none", armer |-> "person",
            queued |-> 0, merged |-> 0, merger |-> "none", branch |-> TRUE]

Armed(p) == p.auto # "none"
Arm(p, method, who) == [p EXCEPT !.auto = method, !.armer = who]

\* A disarm on the timeline: byClose is GitHub's own, made when a request is closed.
Refusal(byClose) == [at |-> second, byClose |-> byClose]

PersonMoves == moves < MaxMoves /\ moves' = moves + 1

Tick ==
    /\ second < MaxSecond
    /\ second' = second + 1
    /\ UNCHANGED <<pull, suites, disarms, closes, forced, pass, scan, moves, passes, cleared>>

\* A push; a forced one may bring back a commit that was checked elsewhere.
Push ==
    /\ pull.open /\ pull.head < MaxHead /\ PersonMoves
    /\ \E known \in {NotYet} \cup 0..second, isForced \in BOOLEAN :
        /\ known # NotYet => isForced
        /\ suites' = [suites EXCEPT ![pull.head + 1] = known]
        /\ forced' = IF isForced THEN second ELSE forced
        /\ pull' = [pull EXCEPT !.head = @ + 1, !.pushed = second, !.green = FALSE,
                                !.queued = 0]
    /\ UNCHANGED <<second, disarms, closes, pass, scan, passes, cleared>>

SuiteCreated ==
    /\ suites[pull.head] = NotYet
    /\ suites' = [suites EXCEPT ![pull.head] = second]
    /\ UNCHANGED <<second, pull, disarms, closes, forced, pass, scan, moves, passes, cleared>>

ChecksPass ==
    /\ pull.open /\ ~pull.green /\ suites[pull.head] # NotYet
    /\ pull' = [pull EXCEPT !.green = TRUE]
    /\ UNCHANGED <<second, suites, disarms, closes, forced, pass, scan, moves, passes, cleared>>

Disarm ==
    /\ pull.open /\ Armed(pull) /\ PersonMoves
    /\ pull' = [pull EXCEPT !.auto = "none"]
    /\ disarms' = disarms \cup {Refusal(FALSE)}
    /\ UNCHANGED <<second, suites, closes, forced, pass, scan, passes, cleared>>

PersonArms ==
    /\ pull.open /\ ~Armed(pull) /\ PersonMoves
    /\ pull' = Arm(pull, "squash", "person")
    /\ UNCHANGED <<second, suites, disarms, closes, forced, pass, scan, passes, cleared>>

\* The reviewer's other signals, the label and the draft state.
Signal ==
    /\ pull.open /\ PersonMoves
    /\ \E sign \in {"none", "label", "draft"} \ {pull.sign} : pull' = [pull EXCEPT !.sign = sign]
    /\ UNCHANGED <<second, suites, disarms, closes, forced, pass, scan, passes, cleared>>

CloseOrReopen ==
    /\ pull.merged = 0 /\ PersonMoves
    /\ \/ /\ pull.open /\ closes' = closes \cup {second}
          /\ disarms' = IF Armed(pull) THEN disarms \cup {Refusal(TRUE)} ELSE disarms
          /\ pull' = [pull EXCEPT !.open = FALSE, !.auto = "none", !.queued = 0]
       \/ /\ ~pull.open
          /\ pull' = [pull EXCEPT !.open = TRUE]
          /\ UNCHANGED <<disarms, closes>>
    /\ UNCHANGED <<second, suites, forced, pass, scan, passes, cleared>>

MergedBy(p, who) == [p EXCEPT !.merged = p.head, !.merger = who, !.open = FALSE, !.auto = "none"]

\* GitHub merges a clean request that is armed, through the queue if there is one,
\* or forgets to queue it.
GitHubMerges ==
    /\ pull.open /\ pull.green /\ pull.sign # "draft"
    /\ \/ /\ Armed(pull) /\ ~pull.hasQueue
          /\ pull' = MergedBy(pull, "auto")
       \/ /\ Armed(pull) /\ pull.hasQueue
          /\ pull' = [pull EXCEPT !.queued = pull.head, !.auto = "none", !.merger = "auto"]
       \/ /\ pull.queued # 0
          /\ pull' = MergedBy(pull, pull.merger)
    /\ UNCHANGED <<second, suites, disarms, closes, forced, pass, scan, moves, passes, cleared>>

-----------------------------------------------------------------------------
(* The guard: one pass is a sequence of calls of gh *)

NoPass == [at |-> "idle", purpose |-> "arm", sha |-> 1, signs |-> FALSE,
           seen |-> {}, closings |-> {}, suite |-> NotYet, lost |-> FALSE, left |-> FALSE,
           said |-> "nothing"]

Goto(step) == pass' = [pass EXCEPT !.at = step]
\* held: an unreadable answer is held too.
EndPass(said) == pass' = [NoPass EXCEPT !.at = "ended", !.said = said, !.left = pass.left]

\* The kinds of token gh may be using; unless it has to be an app's, any will do.
TokenKind == {"app", "user", "unknown", "none"}
Identified(kind, appOnly) == appOnly => kind = "app"

\* enqueue_stalled_pr is called for a request seen armed and clean, arm for any;
\* the command line also only reports, and asks first whose token it has.
BeginPass ==
    /\ pass.at \in {"idle", "ended"} /\ passes < MaxPasses
    /\ \E purpose \in {"arm", "stalled", "report"}, kind \in TokenKind, appOnly \in BOOLEAN :
        /\ purpose = "stalled" => /\ pull.open /\ Armed(pull) /\ pull.green
                                  /\ pull.sign # "draft" /\ pull.queued = 0
                                  /\ ~appOnly
        /\ IF Identified(kind, appOnly)
           THEN pass' = [NoPass EXCEPT !.at = "pull", !.purpose = purpose]
           ELSE pass' = [NoPass EXCEPT !.at = "ended", !.said = "refused"]
    /\ passes' = passes + 1
    /\ UNCHANGED <<onGitHub, scan, cleared>>

ReadPull ==
    /\ pass.at = "pull"
    /\ \/ pass' = [pass EXCEPT !.at = "timeline", !.sha = pull.head,
                               !.signs = pull.sign # "none"]
       \/ EndPass("held")
    /\ UNCHANGED <<onGitHub, scan, passes, cleared>>

SideEffectOfClose(d, cs) == \E c \in cs : c <= d.at /\ d.at - c <= CloseWindow
Reviewers(ds, cs) == {d \in ds : ~SideEffectOfClose(d, cs)}

ReadTimeline ==
    /\ pass.at = "timeline"
    /\ \/ pass' = [pass EXCEPT !.at = IF Reviewers(disarms, closes) = {} THEN "files" ELSE "suites",
                               !.seen = disarms, !.closings = closes]
       \/ EndPass("held")
    /\ UNCHANGED <<onGitHub, scan, passes, cleared>>

\* The head's first check suite; no suite yet is no arrival.
ReadSuites ==
    /\ pass.at = "suites"
    /\ \/ pass' = [pass EXCEPT !.at = "pushes", !.suite = suites[pass.sha]]
       \/ EndPass("held")
    /\ UNCHANGED <<onGitHub, scan, passes, cleared>>

LatestRefusal == Max({d.at : d \in Reviewers(pass.seen, pass.closings)})
\* Mutated form of StandsAgainst: a head without checks supersedes a disarm.
StandsAgainstLoose(arrived) == arrived # NotYet /\ LatestRefusal > arrived
\* The latest disarm came after the head arrived, or nobody knows when that was.
StandsAgainst(arrived) == arrived = NotYet \/ LatestRefusal > arrived

\* Forced pushes move the arrival; when they cannot be read the suite stands alone.
ReadPushes ==
    /\ pass.at = "pushes"
    /\ \E arrived \in {pass.suite, IF pass.suite = NotYet THEN NotYet ELSE Max({pass.suite, forced})} :
          pass' = [pass EXCEPT !.at = "files", !.signs = @ \/ StandsAgainst(arrived)]
    /\ UNCHANGED <<onGitHub, scan, passes, cleared>>

\* Deleted files without an acknowledgement are the fourth signal, which any diff may
\* give; then the verdict.
ReadFiles ==
    /\ pass.at = "files"
    /\ \/ /\ ~pass.signs
          /\ cleared' = cleared \cup {pass.sha}
          /\ CASE pass.purpose = "arm" -> Goto("arm")
               [] pass.purpose = "stalled" -> Goto("rules")
               [] OTHER -> EndPass("free")
       \/ /\ EndPass("held")
          /\ UNCHANGED cleared
    /\ UNCHANGED <<onGitHub, scan, passes>>

GitHubArms(p, method) == pull' = [Arm(p, method, "fleet") EXCEPT !.queued = 0]

\* gh pr merge --auto: armed, refused, refused for want of GraphQL, or an answer lost.
ArmByGraphQL ==
    /\ pass.at = "arm"
    /\ \/ /\ pull.open
          /\ GitHubArms(pull, "squash")
          /\ \E lost \in BOOLEAN :
                pass' = [pass EXCEPT !.at = "ended", !.left = TRUE, !.lost = lost,
                                     !.said = IF lost THEN "not_armed" ELSE "armed"]
       \/ /\ EndPass("not_armed") /\ UNCHANGED pull
       \/ /\ Goto("put") /\ UNCHANGED pull
    /\ UNCHANGED <<second, suites, disarms, closes, forced, scan, moves, passes, cleared>>

\* The REST route may store another method than the one it was asked for, and its
\* answer may not name it; a clean request is refused as such.
ArmByREST ==
    /\ pass.at = "put"
    /\ \/ \E method \in {"squash", "merge"}, named \in BOOLEAN :
            /\ pull.open /\ GitHubArms(pull, method)
            /\ pass' = [pass EXCEPT !.left = TRUE,
                           !.at = IF ~named THEN "stored"
                                  ELSE IF method = "squash" THEN "ended" ELSE "revoke",
                           !.said = IF named /\ method = "squash" THEN "armed" ELSE @]
       \/ /\ pull.open /\ GitHubArms(pull, "squash")
          /\ pass' = [pass EXCEPT !.at = "ended", !.left = TRUE, !.lost = TRUE,
                                  !.said = "not_armed"]
       \/ /\ pull.green /\ Goto("rules") /\ UNCHANGED pull
       \/ /\ EndPass("not_armed") /\ UNCHANGED pull
    /\ UNCHANGED <<second, suites, disarms, closes, forced, scan, moves, passes, cleared>>

\* The method is read back; an unreadable one, or that of a request already queued
\* or disarmed, is no match.
ReadStored ==
    /\ pass.at = "stored"
    /\ \/ /\ pull.auto = "squash" /\ EndPass("armed")
       \/ Goto("revoke")
    /\ UNCHANGED <<onGitHub, scan, passes, cleared>>

\* Mutated form of RevokeFailed: a failed revoke is reported like any other refusal.
RevokeFailedQuietly == EndPass("not_armed")
RevokeFailed == EndPass("danger")

Revoke ==
    /\ pass.at = "revoke"
    /\ \/ /\ pull' = [pull EXCEPT !.auto = "none"]
          /\ pass' = [pass EXCEPT !.at = "ended", !.left = FALSE, !.said = "not_armed"]
       \/ /\ RevokeFailed /\ UNCHANGED pull
    /\ UNCHANGED <<second, suites, disarms, closes, forced, scan, moves, passes, cleared>>

\* A rule list that cannot be read hides no queue: it is taken to have one.
ReadRules ==
    /\ pass.at = "rules"
    /\ \/ Goto("enqueue")
       \/ /\ ~pull.hasQueue
          /\ IF pass.purpose = "stalled" THEN EndPass("not_armed") ELSE Goto("merge")
    /\ UNCHANGED <<onGitHub, scan, passes, cleared>>

\* Mutated form of Pinned: the call does not name the head that was judged.
PinnedLoosely(p) == TRUE
\* GitHub refuses a call that names another head than the request's.
Pinned(p) == p.head = pass.sha

Enqueue ==
    /\ pass.at = "enqueue"
    /\ \/ /\ pull.hasQueue /\ pull.open /\ pull.green /\ Pinned(pull)
          /\ pull' = [pull EXCEPT !.queued = pull.head, !.auto = "none", !.merger = "guard"]
          /\ \E lost \in BOOLEAN :
                pass' = [pass EXCEPT !.at = "ended", !.lost = lost,
                                     !.said = IF lost THEN "not_armed" ELSE "armed"]
       \/ /\ EndPass("not_armed") /\ UNCHANGED pull
    /\ UNCHANGED <<second, suites, disarms, closes, forced, scan, moves, passes, cleared>>

DirectMerge ==
    /\ pass.at = "merge"
    /\ \/ /\ pull.open /\ pull.green /\ pull.sign # "draft" /\ Pinned(pull)
          /\ pull' = MergedBy(pull, "guard")
          /\ \/ Goto("verify")
             \/ pass' = [pass EXCEPT !.at = "ended", !.lost = TRUE, !.said = "not_armed"]
       \/ /\ EndPass("not_armed") /\ UNCHANGED pull
    /\ UNCHANGED <<second, suites, disarms, closes, forced, scan, moves, passes, cleared>>

VerifyMerged ==
    /\ pass.at = "verify"
    /\ \/ /\ pull.merged # 0
          /\ EndPass("merged") \/ Goto("delete")
       \/ EndPass("not_armed")
    /\ UNCHANGED <<onGitHub, scan, passes, cleared>>

\* Asked to, the guard deletes the branch, whatever it points at by now; one in a
\* fork it leaves, and a failure changes nothing of what it reports.
DeleteHeadBranch ==
    /\ pass.at = "delete"
    /\ pull' \in {pull, [pull EXCEPT !.branch = FALSE]}
    /\ EndPass("merged")
    /\ UNCHANGED <<second, suites, disarms, closes, forced, scan, moves, passes, cleared>>

\* What a caller of the command line sees.
ExitCode == CASE pass.said \in {"armed", "merged", "free"} -> 0
              [] pass.said = "refused" -> 2
              [] pass.said = "danger" -> 3
              [] OTHER -> 1

-----------------------------------------------------------------------------
(* The shepherd: it decides on a copy read earlier *)

ShepherdReads ==
    /\ scan = {} /\ passes < MaxPasses
    /\ scan' = {pull}
    /\ passes' = passes + 1
    /\ UNCHANGED <<onGitHub, pass, cleared>>

\* A clean request that is not armed is armed; a refresh of its branch is a Push.
ShepherdActs ==
    \E p \in scan :
        /\ scan' = {}
        /\ IF p.merged # 0 \/ p.sign = "draft" \/ ~p.green \/ Armed(p)
           THEN UNCHANGED pull
           ELSE \/ pull.open /\ pull' = Arm(pull, "squash", "fleet")
                \/ UNCHANGED pull
        /\ UNCHANGED <<second, suites, disarms, closes, forced, pass, moves, passes, cleared>>

-----------------------------------------------------------------------------
MergeInit ==
    /\ second = 0
    /\ \E queue \in BOOLEAN, auto \in {"none", "squash"} :
          pull = [NewPull EXCEPT !.hasQueue = queue, !.auto = auto]
    /\ suites = [h \in HeadSha |-> NotYet]
    /\ disarms = {} /\ closes = {} /\ forced = 0
    /\ pass = NoPass /\ scan = {} /\ moves = 0 /\ passes = 0 /\ cleared = {}

GitHubMoves ==
    \/ Tick \/ Push \/ SuiteCreated \/ ChecksPass \/ Disarm \/ PersonArms
    \/ Signal \/ CloseOrReopen \/ GitHubMerges

PassMoves ==
    \/ BeginPass \/ ReadPull \/ ReadTimeline \/ ReadSuites \/ ReadPushes \/ ReadFiles
    \/ ArmByGraphQL \/ ArmByREST \/ ReadStored \/ Revoke
    \/ ReadRules \/ Enqueue \/ DirectMerge \/ VerifyMerged \/ DeleteHeadBranch

MergeNext == GitHubMoves \/ PassMoves \/ ShepherdReads \/ ShepherdActs

MergeSpec == MergeInit /\ [][MergeNext]_mergeVars

-----------------------------------------------------------------------------
(* Properties *)

MergeTypeOK ==
    /\ second \in 0..MaxSecond /\ forced \in 0..MaxSecond
    /\ DOMAIN pull = DOMAIN NewPull
    /\ pull.head \in HeadSha /\ pull.pushed \in 0..MaxSecond
    /\ pull.auto \in {"none", "squash", "merge"} /\ pull.armer \in {"person", "fleet"}
    /\ pull.queued \in {0} \cup HeadSha /\ pull.merged \in {0} \cup HeadSha
    /\ pull.merger \in {"none", "auto", "guard"} /\ pull.branch \in BOOLEAN
    /\ suites \in [HeadSha -> 0..NotYet]
    /\ disarms \subseteq [at : 0..MaxSecond, byClose : BOOLEAN] /\ closes \subseteq 0..MaxSecond
    /\ DOMAIN pass = DOMAIN NoPass /\ pass.sha \in HeadSha /\ pass.seen \subseteq disarms
    /\ pass.said \in {"nothing", "held", "armed", "not_armed", "danger", "merged", "free", "refused"}
    /\ moves \in 0..MaxMoves /\ passes \in 0..MaxPasses /\ cleared \subseteq HeadSha

Judged == pass.at \in {"arm", "put", "stored", "revoke", "rules", "enqueue", "merge", "verify", "delete"}

\* evaluate_hold: a person's disarm that a pass has read stands against it, however
\* the reads of that pass interleave with pushes, checks and closings: the pass goes
\* on only when somebody has pushed since (or in that very second), when the first
\* check suite of the head came no earlier than the disarm, or when the request had
\* been closed up to five seconds before it.
RefusalStands ==
    Judged => \A d \in pass.seen :
        \/ pull.pushed >= d.at
        \/ suites[pass.sha] # NotYet /\ suites[pass.sha] >= d.at
        \/ SideEffectOfClose(d, pass.closings)

\* Whatever is pushed while a pass waits for GitHub: what the guard itself merges or
\* queues is a head that an evaluation found free, and it deletes no branch of a
\* request that is not merged.
MergedAsJudged ==
    /\ pull.merger = "guard" =>
        /\ pull.merged # 0 => pull.merged \in cleared
        /\ pull.queued # 0 => pull.queued \in cleared
    /\ ~pull.branch => pull.merged # 0

\* A pass that exits as "did not arm", and lost no answer, has left no arm of its
\* own; the one it could not revoke has an exit code of its own.
NoSilentArm ==
    pass.at = "ended" /\ pass.left /\ ~pass.lost => ExitCode \in {0, 3}

\* automerge_guard.py:23-24: "Every fleet code path that arms auto-merge must go
\* through arm_auto_merge".  The shepherd of pr_merge_daemon.py:198 does not.
FleetArmsWereCleared ==
    Armed(pull) /\ pull.armer = "fleet" => cleared # {}

GuardKeepsItsWord == RefusalStands /\ MergedAsJudged /\ NoSilentArm
=============================================================================
