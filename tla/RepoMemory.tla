----------------------------- MODULE RepoMemory -----------------------------
(***************************************************************************)
(* A repository's memory (memory/repo_memory.py): a file of entries and a   *)
(* file of proposals, both append-only.  An editor is a process that has    *)
(* the store open; it reads a file, decides, and appends, and no lock keeps *)
(* two editors apart.  An editor may die between any two steps, or in an    *)
(* append, which leaves a line no later reader can parse.                   *)
(***************************************************************************)
EXTENDS Naturals, Sequences, FiniteSets, SequencesExt

CONSTANTS
    Editor,
    Proposal,
    Memory,       \* ids of entries, numbered in the order of a snapshot
    Carries,      \* Carries[p]: the entry proposal p would add
    Supersedes,   \* Supersedes[m]: the entries that m replaces
    Tokens,       \* Tokens[m]: estimate of the size of m's body
    MaxItems,     \* of a snapshot
    TokenBudget,  \* of a snapshot
    MaxLines,     \* bound: lines in the files when an operation starts
    MaxDeaths     \* bound: editors that die in the middle of an operation

ASSUME MemoryAssumption ==
    /\ Memory \subseteq Nat
    /\ Carries \in [Proposal -> Memory]
    /\ Supersedes \in [Memory -> SUBSET Memory]
    /\ \A m \in Memory : m \notin Supersedes[m]
    /\ Tokens \in [Memory -> Nat \ {0}]
    /\ MaxItems \in Nat /\ TokenBudget \in Nat /\ MaxLines \in Nat /\ MaxDeaths \in Nat

VARIABLES
    entries,      \* repo.jsonl: the entries' ids, in file order
    proposals,    \* proposals.jsonl: records of a proposal and its status
    unreadable,   \* the files that hold a broken line
    editor,       \* what each editor is doing
    lapsed,       \* entries past their expires_at
    snapshot,     \* the last snapshot an agent was given
    deaths,       \* history: editors that died so far
    overlapped    \* history: two editors were at work at once

memoryVars ==
    <<entries, proposals, unreadable, editor, lapsed, snapshot, deaths, overlapped>>

-----------------------------------------------------------------------------
Decision == {"accepted", "rejected", "superseded"}
NoProposal == "none"
Resting == [at |-> "idle", p |-> NoProposal, m |-> 0, status |-> "none"]

RecordsOf(p) == {i \in DOMAIN proposals : proposals[i].p = p}
LatestOf(p) ==
    IF RecordsOf(p) = {} THEN "none"
    ELSE proposals[CHOOSE i \in RecordsOf(p) : \A j \in RecordsOf(p) : j <= i].status

Takes(e, at, p, m, status) ==
    editor' = [editor EXCEPT ![e] = [at |-> at, p |-> p, m |-> m, status |-> status]]
Rests(e) == editor' = [editor EXCEPT ![e] = Resting]
Starts(e) ==
    /\ editor[e] = Resting
    /\ Len(entries) + Len(proposals) < MaxLines
    /\ overlapped' = (overlapped \/ \E f \in Editor : editor[f] # Resting)

\* propose: the id must be new when the file is read.
Propose(e, p) ==
    /\ Starts(e)
    /\ "proposals" \notin unreadable
    /\ LatestOf(p) = "none"
    /\ Takes(e, "record", p, 0, "pending")
    /\ UNCHANGED <<entries, proposals, unreadable, lapsed, snapshot, deaths>>

\* Mutated form of AfterPending: the decision is recorded, then the entry added.
AfterPendingRecordsFirst(status) == "record"
\* What follows once the proposal was read as pending.
AfterPending(status) == IF status = "accepted" THEN "check" ELSE "record"

\* accept_proposal, reject_proposal, supersede_proposal
Review(e, p, status) ==
    /\ Starts(e)
    /\ "proposals" \notin unreadable
    /\ LatestOf(p) = "pending"
    /\ Takes(e, AfterPending(status), p, Carries[p], status)
    /\ UNCHANGED <<entries, proposals, unreadable, lapsed, snapshot, deaths>>

\* add_entry from the command line or an import
AddEntry(e, m) ==
    /\ Starts(e)
    /\ Takes(e, "check", NoProposal, m, "added")
    /\ UNCHANGED <<entries, proposals, unreadable, lapsed, snapshot, deaths>>

\* Mutated form of IsNew: ids may repeat.
IsNewAnyway(m) == TRUE
IsNew(m) == \A i \in DOMAIN entries : entries[i] # m

\* A broken file or a duplicate id ends the operation with an exception.
CheckEntry(e) ==
    /\ editor[e].at = "check"
    /\ IF "entries" \notin unreadable /\ IsNew(editor[e].m)
       THEN editor' = [editor EXCEPT ![e].at = "enter"]
       ELSE Rests(e)
    /\ UNCHANGED <<entries, proposals, unreadable, lapsed, snapshot, deaths, overlapped>>

EnterEntry(e) ==
    /\ editor[e].at = "enter"
    /\ entries' = Append(entries, editor[e].m)
    /\ IF editor[e].status = "accepted"
       THEN editor' = [editor EXCEPT ![e].at = "record"]
       ELSE Rests(e)
    /\ UNCHANGED <<proposals, unreadable, lapsed, snapshot, deaths, overlapped>>

RecordProposal(e) ==
    /\ editor[e].at = "record"
    /\ proposals' = Append(proposals, [p |-> editor[e].p, status |-> editor[e].status])
    /\ Rests(e)
    /\ UNCHANGED <<entries, unreadable, lapsed, snapshot, deaths, overlapped>>

FileOf(at) == IF at = "record" THEN "proposals" ELSE "entries"

\* A line that was cut short breaks its file, whatever is written after it.
EditorDies(e) ==
    /\ editor[e] # Resting
    /\ deaths < MaxDeaths
    /\ unreadable' \in {unreadable} \cup
          (IF editor[e].at = "check" THEN {} ELSE {unreadable \cup {FileOf(editor[e].at)}})
    /\ Rests(e)
    /\ deaths' = deaths + 1
    /\ UNCHANGED <<entries, proposals, lapsed, snapshot, overlapped>>

-----------------------------------------------------------------------------
(* Snapshots *)

Lapses(m) ==
    /\ m \notin lapsed
    /\ lapsed' = lapsed \cup {m}
    /\ UNCHANGED <<entries, proposals, unreadable, editor, snapshot, deaths, overlapped>>

Superseded == UNION {Supersedes[entries[i]] : i \in DOMAIN entries}
\* list_entries: what is neither superseded nor expired
Listed == {entries[i] : i \in DOMAIN entries} \ (Superseded \cup lapsed)

TokensOf(s) == FoldLeft(LAMBDA sum, m : sum + Tokens[m], 0, s)
\* Mutated form of Fits: the budget is compared before the entry is counted.
FitsBefore(chosen, m) == Len(chosen) < MaxItems /\ TokensOf(chosen) <= TokenBudget
Fits(chosen, m) ==
    Len(chosen) < MaxItems /\ TokensOf(chosen) + Tokens[m] <= TokenBudget

\* select_memory_snapshot: in order, each entry that still fits
Shown ==
    FoldLeft(LAMBDA chosen, m : IF Fits(chosen, m) THEN Append(chosen, m) ELSE chosen,
             <<>>, SetToSortSeq(Listed, <))

TakeSnapshot ==
    /\ "entries" \notin unreadable
    /\ snapshot' = Shown
    /\ UNCHANGED <<entries, proposals, unreadable, editor, lapsed, deaths, overlapped>>

-----------------------------------------------------------------------------
MemoryInit ==
    /\ entries = <<>>
    /\ proposals = <<>>
    /\ unreadable = {}
    /\ editor = [e \in Editor |-> Resting]
    /\ lapsed = {}
    /\ snapshot = <<>>
    /\ deaths = 0
    /\ overlapped = FALSE

MemoryNext ==
    \/ \E e \in Editor, p \in Proposal :
          \/ Propose(e, p)
          \/ \E status \in Decision : Review(e, p, status)
    \/ \E e \in Editor :
          \/ CheckEntry(e) \/ EnterEntry(e) \/ RecordProposal(e) \/ EditorDies(e)
          \/ \E m \in Memory : AddEntry(e, m)
    \/ \E m \in Memory : Lapses(m)
    \/ TakeSnapshot

MemorySpec == MemoryInit /\ [][MemoryNext]_memoryVars

-----------------------------------------------------------------------------
(* Properties *)

MemoryTypeOK ==
    /\ \A i \in DOMAIN entries : entries[i] \in Memory
    /\ \A i \in DOMAIN proposals :
          proposals[i] \in [p : Proposal, status : Decision \cup {"pending"}]
    /\ unreadable \subseteq {"entries", "proposals"}
    /\ \A e \in Editor : editor[e].at \in {"idle", "check", "enter", "record"}
    /\ lapsed \subseteq Memory
    /\ snapshot \in Seq(Memory)
    /\ deaths \in 0..MaxDeaths
    /\ overlapped \in BOOLEAN

\* An accepted proposal's entry is in the memory, whatever dies and overlaps;
\* and as long as editors work one at a time no proposal is decided twice and
\* no entry is there twice.
AcceptedIsRemembered ==
    /\ \A i \in DOMAIN proposals : proposals[i].status = "accepted" =>
          \E k \in DOMAIN entries : entries[k] = Carries[proposals[i].p]
    /\ ~overlapped =>
          /\ \A p \in Proposal :
                Cardinality({i \in RecordsOf(p) : proposals[i].status \in Decision}) <= 1
          /\ \A i, k \in DOMAIN entries : entries[i] = entries[k] => i = k

\* A snapshot stays within its budget and never shows an entry next to the one
\* that replaced it.
SnapshotIsSound ==
    /\ TokensOf(snapshot) <= TokenBudget
    /\ \A i, k \in DOMAIN snapshot : snapshot[i] \notin Supersedes[snapshot[k]]
=============================================================================
