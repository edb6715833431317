---------------------------- MODULE ControlPlane ----------------------------
(***************************************************************************)
(* The control plane's page of a task and the requests made from it        *)
(* (api/routes/control_plane.py): an operator looks, and later presses what *)
(* the page offered.  Meanwhile the task runs, stalls, is retried, waived,  *)
(* cancelled, evicted from memory or lost in a crash.  The page of a        *)
(* dispatched task is that of a running one.                                *)
(***************************************************************************)
EXTENDS Naturals, Sequences

CONSTANTS
    Watcher,        \* operators with a page
    MaxFailures,    \* bound: failures of the task
    MaxStoreFaults  \* bound: failed writes, crashes and evictions

ASSUME ControlAssumption == MaxFailures \in Nat /\ MaxStoreFaults \in Nat

VARIABLES
    page,         \* the task each operator was shown
    job,          \* the task object: status, and the failure a waiver is of
    inMemory,     \* it is in _tasks
    jobRow,       \* its row
    entered,      \* it has an entry on the queue
    hand,         \* what the worker does with it
    failures,     \* history: failures so far
    storeFaults,  \* history: failed writes, crashes and evictions so far
    unsaved       \* history: a write of the row has failed

controlVars == <<page, job, inMemory, jobRow, entered, hand, failures, storeFaults, unsaved>>

-----------------------------------------------------------------------------
(* The page *)

\* waived is the number of the failure that was waived, 0 for none.
IsWaived(t) == t.waived # 0

\* Mutated form of Offered: a waived failure is offered like any other.
OfferedBlind(t) ==
    CASE t.status = "queued" -> {"cancel"}
      [] t.status = "failed" -> {"retry", "waive"}
      [] OTHER -> {}
Offered(t) ==
    CASE t.status = "queued" -> {"cancel"}
      [] t.status = "failed" /\ ~IsWaived(t) -> {"retry", "waive"}
      [] OTHER -> {}

Gates(t) ==
    <<"passed">> \o
    CASE t.status = "queued" -> <<"pending", "pending">>
      [] t.status = "running" -> <<"running", "blocked">>
      [] t.status = "completed" -> <<"passed", "passed">>
      [] t.status = "failed" -> <<IF IsWaived(t) THEN "waived" ELSE "failed", "blocked">>
      [] t.status = "cancelled" -> <<"waived", "blocked">>

RetryAllowed(t) == Gates(t)[2] = "failed"

HasBlocker(t) == t.status = "failed"

Decision(t) ==
    CASE t.status = "completed" -> "pass"
      [] t.status = "failed" -> IF IsWaived(t) THEN "waived" ELSE "fail"
      [] t.status = "queued" -> "pending"
      [] OTHER -> t.status

\* The gallery lists the tasks in memory.
Look(o) ==
    /\ inMemory
    /\ page' = [page EXCEPT ![o] = job]
    /\ UNCHANGED <<job, inMemory, jobRow, entered, hand, failures, storeFaults, unsaved>>

-----------------------------------------------------------------------------
(* The requests *)

Expected(kind) == IF kind = "cancel" THEN "queued" ELSE "failed"

\* What the handler and then the daemon ask of the task as it is now.
Grants(kind) ==
    /\ inMemory
    /\ job.status = Expected(kind)
    /\ kind # "cancel" => ~IsWaived(job)

StoreFails ==
    /\ storeFaults < MaxStoreFaults /\ storeFaults' = storeFaults + 1
    /\ unsaved' = TRUE

SaveJob == \/ jobRow' = job' /\ UNCHANGED <<storeFaults, unsaved>>
           \/ StoreFails /\ UNCHANGED jobRow

\* update_status leaves the row's waiver alone.
WriteStatus == \/ jobRow' = [jobRow EXCEPT !.status = job'.status] /\ UNCHANGED <<storeFaults, unsaved>>
               \/ StoreFails /\ UNCHANGED jobRow

\* Mutated form of Requeued: the waiver stays on the task.
RequeuedStillWaived == [job EXCEPT !.status = "queued"]
Requeued == [status |-> "queued", waived |-> 0]

PressRetry(o) ==
    /\ "retry" \in Offered(page[o]) /\ Grants("retry")
    /\ job' = Requeued
    /\ SaveJob
    /\ UNCHANGED <<page, inMemory, entered, hand, failures>>

PressWaive(o) ==
    /\ "waive" \in Offered(page[o]) /\ Grants("waive")
    /\ job' = [job EXCEPT !.waived = failures]
    /\ SaveJob
    /\ UNCHANGED <<page, inMemory, entered, hand, failures>>

CancelJob ==
    /\ inMemory /\ job.status \in {"queued", "cancelled"}
    /\ job' = [job EXCEPT !.status = "cancelled"]
    /\ WriteStatus
    /\ UNCHANGED <<page, inMemory, entered, hand, failures>>

PressCancel(o) == "cancel" \in Offered(page[o]) /\ Grants("cancel") /\ CancelJob

\* POST /tasks/{id}/cancel, and an abort of everything, ask for no page.
CancelUnseen == CancelJob

-----------------------------------------------------------------------------
(* The task meanwhile *)

\* A worker that cannot write the row puts the task back; one that meets a task
\* which is no longer queued drops the entry.
TakeJob ==
    /\ hand = "none" /\ entered
    /\ IF job.status = "queued" /\ inMemory
       THEN \/ /\ job' = [job EXCEPT !.status = "running"]
               /\ jobRow' = [jobRow EXCEPT !.status = "running"]
               /\ hand' = "running" /\ entered' = FALSE
               /\ UNCHANGED <<storeFaults, unsaved>>
            \/ StoreFails /\ UNCHANGED <<job, jobRow, hand, entered>>
       ELSE entered' = FALSE /\ UNCHANGED <<job, jobRow, hand, storeFaults, unsaved>>
    /\ UNCHANGED <<page, inMemory, failures>>

\* The run's outcome, known before its events and hooks are done.
RunEnds(status) ==
    /\ hand = "running" /\ job.status = "running"
    /\ status = "failed" => failures < MaxFailures
    /\ job' = [job EXCEPT !.status = status]
    /\ failures' = IF status = "failed" THEN failures + 1 ELSE failures
    /\ hand' = "ending"
    /\ UNCHANGED <<page, inMemory, jobRow, entered, storeFaults, unsaved>>

\* The object is saved as it is by now.
EndJob ==
    /\ hand = "ending"
    /\ hand' = "none"
    /\ UNCHANGED job /\ SaveJob
    /\ UNCHANGED <<page, inMemory, entered, failures>>

StallJob ==
    /\ hand = "running" /\ failures < MaxFailures
    /\ job' = [job EXCEPT !.status = "failed"]
    /\ failures' = failures + 1
    /\ SaveJob
    /\ hand' = "stalled"
    /\ UNCHANGED <<page, inMemory, entered>>

\* After the event is published: a retry, unless the task is out of retries or no
\* longer failed.  A waiver given meanwhile goes with the failure.
RetryStalled ==
    /\ hand = "stalled" /\ hand' = "none"
    /\ \/ /\ job.status = "failed" /\ inMemory
          /\ job' = Requeued
          /\ SaveJob
          /\ entered' = IF jobRow' = job' THEN TRUE ELSE entered
       \/ UNCHANGED <<job, jobRow, entered, storeFaults, unsaved>>
    /\ UNCHANGED <<page, inMemory, failures>>

EvictJob ==
    /\ inMemory /\ hand = "none" /\ job.status \in {"completed", "failed", "cancelled"}
    /\ storeFaults < MaxStoreFaults /\ storeFaults' = storeFaults + 1
    /\ inMemory' = FALSE
    /\ UNCHANGED <<page, job, jobRow, entered, hand, failures, unsaved>>

\* A crash and a start: a running row becomes a failed one, a queued one is
\* taken into memory and onto the queue.
RestartJob ==
    /\ storeFaults < MaxStoreFaults /\ storeFaults' = storeFaults + 1
    /\ jobRow.status = "running" => failures < MaxFailures
    /\ IF jobRow.status = "running"
       THEN jobRow' = [jobRow EXCEPT !.status = "failed"] /\ failures' = failures + 1
       ELSE UNCHANGED <<jobRow, failures>>
    /\ job' = jobRow'
    /\ inMemory' = (jobRow.status = "queued")
    /\ entered' = (jobRow.status = "queued")
    /\ hand' = "none"
    /\ UNCHANGED <<page, unsaved>>

ControlInit ==
    /\ job = [status |-> "queued", waived |-> 0]
    /\ jobRow = job /\ page = [o \in Watcher |-> job]
    /\ inMemory = TRUE /\ entered = TRUE /\ hand = "none"
    /\ failures = 0 /\ storeFaults = 0 /\ unsaved = FALSE

ControlNext ==
    \/ \E o \in Watcher : Look(o) \/ PressRetry(o) \/ PressWaive(o) \/ PressCancel(o)
    \/ CancelUnseen \/ TakeJob \/ EndJob \/ StallJob \/ RetryStalled \/ EvictJob \/ RestartJob
    \/ RunEnds("completed") \/ RunEnds("failed")

ControlSpec == ControlInit /\ [][ControlNext]_controlVars

-----------------------------------------------------------------------------
(* Properties *)

Job == [status : {"queued", "running", "completed", "failed", "cancelled"}, waived : Nat]

ControlTypeOK ==
    /\ job \in Job /\ jobRow \in Job /\ page \in [Watcher -> Job]
    /\ {inMemory, entered, unsaved} \subseteq BOOLEAN
    /\ hand \in {"none", "running", "ending", "stalled"}
    /\ failures \in 0..MaxFailures

\* fleet-gauntlet-walkthrough.md:200-202: waivers preserve the failed task state and
\* do not rewrite it into a pass.  A waived task is failed and its waiver is of the
\* last failure, never of one before a retry; its row says the same while every
\* write was done (update_status keeps a waiver that a lost write left behind).
WaivedFailureStays ==
    /\ inMemory /\ IsWaived(job) => job.status = "failed" /\ job.waived = failures
    /\ ~unsaved /\ IsWaived(jobRow) => jobRow.status = "failed" /\ jobRow.waived = failures

\* control_plane.py: the page offers of a task exactly what the handlers grant of it,
\* its gate offers the retry when its actions do, a pass is one of all its gates, and
\* a failure, waived or not, still shows its blocker and a gate that is not passed.
PageIsTrue ==
    inMemory =>
        /\ Offered(job) = {kind \in {"retry", "waive", "cancel"} : Grants(kind)}
        /\ RetryAllowed(job) = ("retry" \in Offered(job))
        /\ (Decision(job) = "pass") = (\A i \in 1..3 : Gates(job)[i] = "passed")
        /\ Decision(job) \in {"fail", "waived"} =>
              HasBlocker(job) /\ \E i \in 1..3 : Gates(job)[i] \in {"failed", "blocked"}
=============================================================================
