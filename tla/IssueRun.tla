------------------------------ MODULE IssueRun ------------------------------
(***************************************************************************)
(* From a GitHub issue to a draft pull request: the run of the executor,   *)
(* and the reading of the edits in the answers it is given.                *)
(***************************************************************************)
EXTENDS Naturals, Sequences, SequencesExt

-----------------------------------------------------------------------------
(***************************************************************************)
(* From a GitHub issue to a draft pull request (gh/executor.py) in a task's *)
(* own checkout (gh/workspace.py).  Several tasks may work on one issue:    *)
(* each has a checkout, all push to the branch named after the issue.  A    *)
(* task is retried in the checkout its last run left behind.                *)
(* A diff and the plan that came with it are the number of the answer they  *)
(* were given in; a tree is the set of diffs it holds.  What git and gh do  *)
(* is modelled as far as the executor relies on it: a checkout keeps staged  *)
(* changes, git apply --index changes all or nothing, a push that is no      *)
(* fast-forward is refused, and so is a pull request without a branch or     *)
(* for a branch that has one.                                                *)
(***************************************************************************)

CONSTANTS
    IssueTask,       \* the tasks dispatched for the issue
    Implementing,    \* those in implement mode; the others only plan
    DryTask,         \* those submitted as dry runs
    HasTests,        \* the executor has a test runner
    MaxDiffRetries,  \* max_diff_retries
    MaxTestRetries,  \* max_test_retries
    MaxAnswers,      \* bound: answers of the model
    MaxRuns          \* bound: runs of each task

ASSUME IssueAssumption ==
    /\ Implementing \subseteq IssueTask /\ DryTask \subseteq IssueTask
    /\ HasTests \in BOOLEAN
    /\ {MaxDiffRetries, MaxTestRetries, MaxAnswers, MaxRuns} \subseteq Nat

VARIABLES
    remote,    \* what the issue's branch on GitHub holds; empty when there is none
    draftPR,   \* the open pull request for it, or NoPR
    checkout,  \* of each task: cloned, staged tree, local branch
    run,       \* the task's run
    answers,   \* answers the model has given
    green      \* history: the trees the repository's tests have passed on

issueVars == <<remote, draftPR, checkout, run, answers, green>>

-----------------------------------------------------------------------------
NoPR == [plan |-> 0, applied |-> FALSE, tested |-> FALSE]
NoCheckout == [there |-> FALSE, staged |-> {}, branch |-> {}]
NewRun(n) == [at |-> "clone", number |-> n, plan |-> 0, trying |-> 0, misses |-> 0,
              failures |-> 0, tested |-> FALSE]
IdleRun == [NewRun(0) EXCEPT !.at = "idle"]

RunAt(t, step) == run[t].at = step
Step(t, r) == run' = [run EXCEPT ![t] = r]
GoesTo(t, step) == Step(t, [run[t] EXCEPT !.at = step])
Fails(t) == GoesTo(t, "failed")

Held(t) == checkout[t].branch \cup checkout[t].staged

\* The daemon retries a failed task under the same id.
BeginRun(t) ==
    /\ run[t].at \in {"idle", "failed"} /\ run[t].number < MaxRuns
    /\ Step(t, NewRun(run[t].number + 1))
    /\ UNCHANGED <<remote, draftPR, checkout, answers, green>>

\* A cancellation or a crash, at any await.
StopRun(t) ==
    /\ run[t].at \notin {"idle", "failed", "done"}
    /\ Fails(t)
    /\ UNCHANGED <<remote, draftPR, checkout, answers, green>>

\* A failing after_create hook leaves the clone, which is not made again.
EnsureClone(t) ==
    /\ RunAt(t, "clone")
    /\ \/ /\ checkout' = [checkout EXCEPT ![t].there = TRUE]
          /\ GoesTo(t, "draft") \/ (~checkout[t].there /\ Fails(t))
       \/ /\ Fails(t) /\ UNCHANGED checkout
    /\ UNCHANGED <<remote, draftPR, answers, green>>

\* One answer of the model: a plan with a diff, a plan alone, or no usable JSON.
Answer == answers < MaxAnswers /\ answers' = answers + 1

Draft(t) ==
    /\ RunAt(t, "draft") /\ Answer
    /\ \E diff \in BOOLEAN :
          Step(t, [run[t] EXCEPT !.plan = answers', !.trying = answers',
                       !.at = IF t \notin Implementing THEN "body"
                              ELSE IF diff THEN "branch" ELSE "failed"])
       \/ Fails(t)
    /\ UNCHANGED <<remote, draftPR, checkout, green>>

\* checkout base, pull, then the issue's branch: the one on GitHub if it is there,
\* fast-forwarded, else a new one.  The staged changes come along.
MakeBranch(t) ==
    /\ RunAt(t, "branch")
    /\ \/ /\ \/ remote = {} /\ checkout' = [checkout EXCEPT ![t].branch = {}]
             \/ /\ remote # {} /\ checkout[t].branch \subseteq remote
                /\ checkout' = [checkout EXCEPT ![t].branch = remote]
             \/ /\ remote # {} /\ remote \subseteq checkout[t].branch
                /\ UNCHANGED checkout
          /\ GoesTo(t, "apply")
       \/ /\ Fails(t) /\ UNCHANGED checkout
    /\ UNCHANGED <<remote, draftPR, answers, green>>

\* Mutated form of AfterApply: a corrected diff is not tested again.
AfterApplyTestedOnce(r) == IF HasTests /\ r.failures = 0 THEN "test" ELSE "push"
AfterApply(r) == IF HasTests THEN "test" ELSE "push"

\* Mutated form of Apply: one correction more than max_diff_retries is asked for.
ApplyOnceMore(t) ==
    /\ RunAt(t, "apply")
    /\ LET r == run[t] IN
       \/ /\ checkout' = [checkout EXCEPT ![t].staged = @ \cup {r.trying}]
          /\ Step(t, [r EXCEPT !.at = AfterApply(r), !.misses = 0,
                               !.plan = IF r.failures = 0 THEN r.trying ELSE @])
          /\ UNCHANGED answers
       \/ /\ r.misses <= MaxDiffRetries /\ Answer
          /\ Step(t, [r EXCEPT !.misses = @ + 1, !.trying = answers'])
          /\ UNCHANGED checkout
       \/ /\ Fails(t) /\ UNCHANGED <<checkout, answers>>
    /\ UNCHANGED <<remote, draftPR, green>>

\* The diff applies, or the model is asked for another.  The first time the answer
\* that applied becomes the plan; in the test loop _apply_with_retry's is dropped.
Apply(t) ==
    /\ RunAt(t, "apply")
    /\ LET r == run[t] IN
       \/ /\ checkout' = [checkout EXCEPT ![t].staged = @ \cup {r.trying}]
          /\ Step(t, [r EXCEPT !.at = AfterApply(r), !.misses = 0,
                               !.plan = IF r.failures = 0 THEN r.trying ELSE @])
          /\ UNCHANGED answers
       \/ /\ r.misses < MaxDiffRetries /\ Answer
          /\ Step(t, [r EXCEPT !.misses = @ + 1, !.trying = answers'])
          /\ UNCHANGED checkout
       \/ /\ Fails(t) /\ UNCHANGED <<checkout, answers>>
    /\ UNCHANGED <<remote, draftPR, green>>

RunTests(t) ==
    /\ RunAt(t, "test")
    /\ LET r == run[t] IN
       \/ /\ green' = green \cup {Held(t)}
          /\ Step(t, [r EXCEPT !.at = "push", !.tested = TRUE])
          /\ UNCHANGED answers
       \/ /\ r.failures < MaxTestRetries /\ Answer
          /\ Step(t, [r EXCEPT !.at = "branch", !.failures = @ + 1,
                               !.plan = answers', !.trying = answers'])
          /\ UNCHANGED green
       \/ /\ Fails(t) /\ UNCHANGED <<green, answers>>
    /\ UNCHANGED <<remote, draftPR, checkout>>

\* commit_and_push: the commit may fail, or the push, or both succeed.
CommitAndPush(t) ==
    /\ RunAt(t, "push")
    /\ \/ /\ t \in DryTask /\ GoesTo(t, "body") /\ UNCHANGED <<remote, checkout>>
       \/ /\ t \notin DryTask /\ Fails(t) /\ UNCHANGED <<remote, checkout>>
       \/ /\ t \notin DryTask
          /\ checkout' = [checkout EXCEPT ![t].branch = Held(t), ![t].staged = {}]
          /\ \/ /\ remote \subseteq Held(t)
                /\ remote' = Held(t)
                /\ GoesTo(t, "body")
             \/ /\ Fails(t) /\ UNCHANGED remote
    /\ UNCHANGED <<draftPR, answers, green>>

\* gh pr create; an answer may be lost.  The stand-in a dry run gets for the pull
\* request has no url, and reading it raises.
OpenPR(t) ==
    /\ RunAt(t, "body")
    /\ \/ /\ t \notin DryTask /\ remote # {} /\ draftPR = NoPR
          /\ draftPR' = [plan |-> run[t].plan, applied |-> t \in Implementing,
                         tested |-> run[t].tested]
          /\ GoesTo(t, "done") \/ Fails(t)
       \/ /\ Fails(t) /\ UNCHANGED draftPR
    /\ UNCHANGED <<remote, checkout, answers, green>>

IssueInit ==
    /\ remote = {} /\ draftPR = NoPR
    /\ checkout = [t \in IssueTask |-> NoCheckout]
    /\ run = [t \in IssueTask |-> IdleRun]
    /\ answers = 0 /\ green = {}

IssueNext == \E t \in IssueTask :
    \/ BeginRun(t) \/ StopRun(t) \/ EnsureClone(t) \/ Draft(t) \/ MakeBranch(t)
    \/ Apply(t) \/ RunTests(t) \/ CommitAndPush(t) \/ OpenPR(t)

IssueSpec == IssueInit /\ [][IssueNext]_issueVars

-----------------------------------------------------------------------------
(* Properties *)

Diffs == SUBSET (1..MaxAnswers)

IssueTypeOK ==
    /\ remote \in Diffs /\ green \subseteq Diffs /\ answers \in 0..MaxAnswers
    /\ draftPR \in [plan : 0..MaxAnswers, applied : BOOLEAN, tested : BOOLEAN]
    /\ checkout \in [IssueTask -> [there : BOOLEAN, staged : Diffs, branch : Diffs]]
    /\ \A t \in IssueTask :
          /\ DOMAIN run[t] = DOMAIN IdleRun
          /\ run[t].misses \in 0..MaxDiffRetries /\ run[t].failures \in 0..MaxTestRetries
          /\ {run[t].plan, run[t].trying} \subseteq 0..MaxAnswers

\* Retries in a dirty checkout, corrected diffs, pushes of another task for the same
\* issue: with a test runner, the branch on GitHub never holds a tree other than one
\* the repository's tests passed on, whole.
PushedIsTested == HasTests /\ remote # {} => remote \in green

\* executor.py:546, _validate_with_tests: "Returns the final (plan, diff,
\* test_result)".  A diff corrected inside the test loop is applied and pushed, and
\* the plan and diff it came with are dropped.
PlanIsOfWhatIsPushed == draftPR.applied => draftPR.plan \in remote

-----------------------------------------------------------------------------
(***************************************************************************)
(* Reading the edits out of a model's answer (editing/diff_formats.py): a   *)
(* unified diff, SEARCH/REPLACE blocks, or whole files between delimiters,  *)
(* and parse_any, which tries one format after the other.                   *)
(*                                                                         *)
(* An answer is grown by a model that means some edits and writes them in   *)
(* one format, with prose around them, and may lose or garble a line of one  *)
(* block.  A line is what the patterns tell apart, with the path it names;  *)
(* the content of an edit is the interval of lines it was cut from.         *)
(***************************************************************************)

CONSTANTS
    FilePath,    \* paths of files
    BodyLine,    \* the kinds of line that file contents may look like
    MaxBlocks    \* bound: blocks of an answer

ASSUME PatchAssumption == MaxBlocks \in Nat

VARIABLES
    format,    \* the format the model writes
    text,      \* the lines of the answer
    meant,     \* the edits it means, with the lines of their contents
    damaged    \* a line of a block has been lost or garbled

patchVars == <<format, text, meant, damaged>>

DiffFormat == {"udiff", "search_replace", "whole_file"}
EditKind == {"modify", "create", "delete"}

Line(kind) == [is |-> kind, path |-> "-"]
LineOf(kind, p) == [is |-> kind, path |-> p]
FileEdit(p, kind, first, last) == [path |-> p, kind |-> kind, from |-> first, to |-> last]
Unread == <<>>   \* DiffParseError

\* The first line of t from i on, up to e, that is one of these; e + 1 if none.
FirstOf(t, i, e, kinds) ==
    LET at == {j \in i..e : t[j].is \in kinds} IN IF at = {} THEN e + 1 ELSE Min(at)
\* The last one; i - 1 if none.
LastIn(t, i, e, kinds) ==
    LET at == {j \in i..e : t[j].is \in kinds} IN IF at = {} THEN i - 1 ELSE Max(at)
Holds(t, kinds) == \E j \in DOMAIN t : t[j].is \in kinds

-----------------------------------------------------------------------------
(* Unified diffs *)

\* "--- path" also takes in the delimiters of a whole file, path and dashes.
Minus == {"minus", "head", "end"}
MinusPath(line) == IF line.is = "minus" THEN line.path ELSE "--- ---"

Resolve(minus, plus) ==
    IF minus = "/dev/null" THEN <<plus, "create">>
    ELSE IF plus = "/dev/null" THEN <<minus, "delete">> ELSE <<plus, "modify">>

\* Mutated form of Section: the lines of a header are looked for past the hunk.
SectionAnywhere(t, i, e) ==
    LET hunk == FirstOf(t, i, e, {"hunk", "badHunk"})
        minus == LastIn(t, i, e, Minus)
        plus == LastIn(t, i, e, {"plus"})
        bad == FirstOf(t, i, e, {"badHunk"}) <= e
    IN IF hunk > e \/ minus < i \/ plus < i \/ bad THEN Unread
       ELSE LET r == Resolve(MinusPath(t[minus]), t[plus].path)
            IN <<FileEdit(r[1], r[2], hunk, e)>>
\* The section of one file: its header, down to the first hunk, and its hunks,
\* which run to the end of the section.
DiffSection(t, i, e) ==
    LET hunk == FirstOf(t, i, e, {"hunk", "badHunk"})
        minus == LastIn(t, i, hunk - 1, Minus)
        plus == LastIn(t, i, hunk - 1, {"plus"})
        bad == FirstOf(t, i, e, {"badHunk"}) <= e
    IN IF hunk > e \/ minus < i \/ plus < i \/ bad THEN Unread
       ELSE LET r == Resolve(MinusPath(t[minus]), t[plus].path)
            IN <<FileEdit(r[1], r[2], hunk, e)>>

ParseUdiff(t) ==
    LET starts == SetToSortSeq({j \in DOMAIN t : t[j].is = "git"}, <)
        part(k) == DiffSection(t, starts[k], FirstOf(t, starts[k] + 1, Len(t), {"git"}) - 1)
    IN IF \E k \in DOMAIN starts : part(k) = Unread THEN Unread
       ELSE [k \in DOMAIN starts |-> part(k)[1]]

-----------------------------------------------------------------------------
(* SEARCH/REPLACE blocks *)

\* Mutated form of Preamble: any "file:" line further up will do.
PreambleAbove(t, i) == LastIn(t, 1, i - 1, {"file"})
\* The nearest line above that is not blank, if it names a file.
Preamble(t, i) ==
    LET above == {j \in 1..(i - 1) : t[j].is # "blank"}
    IN IF above # {} /\ t[Max(above)].is = "file" THEN Max(above) ELSE 0

\* The blocks that begin at line i or below, for each line i of t.
BlocksFrom(t) ==
    LET n == Len(t)
        from[i \in 1..(n + 1)] ==
            LET search == FirstOf(t, i, n, {"search"})
                middle == FirstOf(t, search + 1, n, {"separator", "replace"})
                close == FirstOf(t, middle + 1, n, {"replace"})
                rest == from[close + 1]
            IN IF search > n THEN Unread
               ELSE IF \/ Preamble(t, search) = 0
                       \/ close > n
                       \/ t[middle].is = "replace"
                       \/ rest = Unread /\ FirstOf(t, close + 1, n, {"search"}) <= n
                    THEN Unread
                    ELSE <<FileEdit(t[Preamble(t, search)].path, "modify", search, close)>>
                         \o rest
    IN from
ParseSearchReplace(t) == BlocksFrom(t)[1]

-----------------------------------------------------------------------------
(* Whole files *)

Delimiter == {"head", "end"}

\* Mutated form of Closer: a new header does not end the search for the closer.
CloserFurther(t, i) == FirstOf(t, i + 1, Len(t), {"end"})
\* The next delimiter has to be the closer of the header at i.
Closer(t, i) == FirstOf(t, i + 1, Len(t), Delimiter)

\* The files that begin at line i or below, for each line i of t.
FilesFrom(t) ==
    LET n == Len(t)
        from[i \in 1..(n + 1)] ==
            LET head == FirstOf(t, i, n, Delimiter)
                close == Closer(t, head)
                rest == from[close + 1]
            IN IF head > n THEN Unread
               ELSE IF \/ t[head].is = "end"
                       \/ close > n
                       \/ t[close].is = "head"
                       \/ rest = Unread /\ FirstOf(t, close + 1, n, Delimiter) <= n
                    THEN Unread
                    ELSE <<FileEdit(t[head].path, "modify", head + 1, close - 1)>> \o rest
    IN from
ParseWholeFile(t) == FilesFrom(t)[1]

-----------------------------------------------------------------------------
(* Any of them *)

Parse(t, f) == CASE f = "udiff" -> ParseUdiff(t)
                 [] f = "search_replace" -> ParseSearchReplace(t)
                 [] OTHER -> ParseWholeFile(t)

Prefer == <<"udiff", "search_replace", "whole_file">>
ParseAny(t) ==
    LET read == {k \in DOMAIN Prefer : Parse(t, Prefer[k]) # Unread}
    IN IF read = {} THEN Unread ELSE Parse(t, Prefer[Min(read)])

-----------------------------------------------------------------------------
(* The model that answers *)

\* What may stand between the blocks.  What follows a section of a diff belongs
\* to its last hunk, prose too.
Prose == BodyLine \ CASE format = "udiff" -> {"git"}
                      [] format = "search_replace" -> {"file", "search"}
                      [] OTHER -> Delimiter
\* What the text to search for and the new text may hold.
Old == BodyLine \ CASE format = "udiff" -> {"git", "hunk", "badHunk"}
                    [] format = "search_replace" -> {"separator", "replace"}
                    [] OTHER -> Delimiter
New == IF format = "search_replace" THEN BodyLine \ {"replace"} ELSE {}
Lines(kinds) == {<<Line(k)>> : k \in kinds} \cup {<<>>}

Header(p, kind) == <<Line("git"),
    LineOf("minus", IF kind = "create" THEN "/dev/null" ELSE p),
    LineOf("plus", IF kind = "delete" THEN "/dev/null" ELSE p), Line("hunk")>>

\* A block, the place of its content in it, and the lines that are missed: a
\* separator is not when the new text holds one, and then the block is misread.
Block(f, p, kind, old, new) ==
    CASE f = "udiff" ->
            [lines |-> Header(p, kind) \o old, from |-> 4, to |-> 4 + Len(old), missed |-> 2..4]
      [] f = "search_replace" ->
            [lines |-> <<LineOf("file", p), Line("search")>> \o old \o <<Line("separator")>>
                       \o new \o <<Line("replace")>>,
             from |-> 2, to |-> 4 + Len(old) + Len(new),
             missed |-> {1} \cup IF Holds(new, {"separator"}) THEN {} ELSE {3 + Len(old)}]
      [] OTHER ->
            [lines |-> <<LineOf("head", p)>> \o old \o <<Line("end")>>,
             from |-> 2, to |-> 1 + Len(old), missed |-> {1, 2 + Len(old)}]

Garbled(line) == Line(IF line.is = "hunk" THEN "badHunk" ELSE "text")

WriteBlock(p, kind, old, new) ==
    /\ Len(meant) < MaxBlocks
    /\ format # "udiff" => kind = "modify"
    /\ LET b == Block(format, p, kind, old, new)
       IN \/ /\ text' = text \o b.lines
             /\ meant' = Append(meant, FileEdit(p, kind, Len(text) + b.from, Len(text) + b.to))
             /\ UNCHANGED damaged
          \/ \E i \in IF damaged THEN {} ELSE b.missed :
                /\ \E lines \in {RemoveAt(b.lines, i), ReplaceAt(b.lines, i, Garbled(b.lines[i]))} :
                      text' = text \o lines
                /\ meant' = Append(meant, FileEdit(p, kind, 0, 0))
                /\ damaged' = TRUE
    /\ UNCHANGED format

WriteProse(k) ==
    /\ Len(meant) < MaxBlocks
    /\ \/ text = <<>>
       \/ meant # <<>> /\ LastIn(text, 1, Len(text), {"end", "replace"}) = Len(text)
    /\ text' = text \o <<Line(k), Line("blank")>>
    /\ UNCHANGED <<format, meant, damaged>>

PatchInit ==
    /\ format \in DiffFormat
    /\ text = <<>>
    /\ meant = <<>>
    /\ damaged = FALSE

PatchNext ==
    \/ \E p \in FilePath, kind \in EditKind : \E old \in Lines(Old), new \in Lines(New) :
          WriteBlock(p, kind, old, new)
    \/ \E k \in Prose : WriteProse(k)

PatchSpec == PatchInit /\ [][PatchNext]_patchVars

-----------------------------------------------------------------------------
(* Properties *)

PatchTypeOK ==
    /\ format \in DiffFormat
    /\ \A i \in DOMAIN text : text[i].path \in FilePath \cup {"-", "/dev/null"}
    /\ \A k \in DOMAIN meant : meant[k].path \in FilePath /\ meant[k].kind \in EditKind
    /\ damaged \in BOOLEAN

\* The lines by which the formats tried before f are known.
KnownBefore(f) == CASE f = "udiff" -> {} [] f = "search_replace" -> {"git"}
                    [] OTHER -> {"git", "search"}

\* An undamaged answer is read as the edits that were meant, each with its path,
\* kind and content, whatever the contents and the prose look like, by the
\* parser of its format and, unless it holds a line by which a format tried
\* earlier is known, by parse_any.
ReadAsWritten ==
    meant # <<>> /\ ~damaged =>
        /\ Parse(text, format) = meant
        /\ ~Holds(text, KnownBefore(format)) => ParseAny(text) = meant

\* When a block has lost its preamble, separator, file or hunk header or delimiter, no
\* block of the answer is applied, the good ones included.
DamageIsRefused == damaged => Parse(text, format) = Unread
=============================================================================
