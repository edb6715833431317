------------------------------ MODULE AuditLog ------------------------------
(***************************************************************************)
(* The hash-chained audit file (audit.py): append, rotation, verification.  *)
(* One event loop makes all calls, so they do not interleave; a write may   *)
(* fail or the process may die in the middle of one.                        *)
(*                                                                         *)
(* A hash stands for what it is computed from: <<body, previous hash>>, the *)
(* genesis hash being <<>>.  A line is an entry or broken; one that was cut  *)
(* short has no newline, and the next entry is glued to it.                 *)
(***************************************************************************)
EXTENDS Naturals, Sequences, FiniteSets

CONSTANTS
    MaxEntries,   \* bound: entries appended
    MaxWounds     \* bound: appends that are cut short

ASSUME AuditAssumption == MaxEntries \in Nat /\ MaxWounds \in Nat

VARIABLES
    lines,        \* the file
    tailHash,     \* _last_hash, "unread" in a new process
    expired,      \* entries older than the retention time, by number
    appended,     \* history: entries so far
    promised,     \* history: entries whose append returned, and not rotated out
    wounds,       \* history: appends cut short so far
    wounded       \* history: one was cut short since the last rotation

auditVars == <<lines, tailHash, expired, appended, promised, wounds, wounded>>

-----------------------------------------------------------------------------
Genesis == <<>>
\* Entry n: an ordinary one, or the record of a rotation.
EntryLine(n, kind, prev) ==
    [ok |-> TRUE, n |-> n, kind |-> kind, prev |-> prev, hash |-> <<n, kind, prev>>,
     newline |-> TRUE]
Broken(newline) ==
    [ok |-> FALSE, n |-> 0, kind |-> "broken", prev |-> Genesis, hash |-> Genesis,
     newline |-> newline]

LastLine == lines[Len(lines)]
TailHash ==
    IF tailHash # "unread" THEN tailHash
    ELSE IF lines = <<>> THEN Genesis ELSE LastLine.hash

\* What is written after a line that was cut short is part of it.
WithLine(line) ==
    IF lines # <<>> /\ ~LastLine.newline
    THEN [lines EXCEPT ![Len(lines)] = Broken(line.newline)]
    ELSE Append(lines, line)

IsOld(line) == line.ok /\ line.n \in expired
RotationDue == \E i \in DOMAIN lines : IsOld(lines[i])

AppendEntry ==
    /\ appended < MaxEntries
    /\ LET entry == EntryLine(appended + 1, "call", TailHash)
       IN /\ lines' = WithLine(entry)
          /\ tailHash' = entry.hash
    /\ appended' = appended + 1
    /\ promised' = promised \cup {appended + 1}
    /\ UNCHANGED <<expired, wounds, wounded>>

\* The write fails or the process dies: nothing, a part or all of the line is
\* in the file, and the hash of the last line is not brought up to date.  A
\* rotation whose record is cut short goes no further.
CutAppend(kind, dies) ==
    /\ appended < MaxEntries
    /\ wounds < MaxWounds
    /\ kind = "rotation" => RotationDue
    /\ LET entry == EntryLine(appended + 1, kind, TailHash)
       IN lines' \in {lines, WithLine(Broken(FALSE)), WithLine(entry),
                      WithLine([entry EXCEPT !.newline = FALSE])}
    /\ tailHash' = IF dies THEN "unread" ELSE tailHash
    /\ appended' = appended + 1
    /\ wounds' = wounds + 1
    /\ wounded' = TRUE
    /\ UNCHANGED <<expired, promised>>

Expire(n) ==
    /\ n \in 1..appended \ expired
    /\ \A k \in 1..(n - 1) : k \in expired
    /\ expired' = expired \cup {n}
    /\ UNCHANGED <<lines, tailHash, appended, promised, wounds, wounded>>

-----------------------------------------------------------------------------
(* Rotation *)

\* Mutated form of Rechain: the kept entries stay as they are.
RechainNothing(kept) == kept
Rechain(kept) ==
    LET f[i \in 0..Len(kept)] ==
            IF i = 0 THEN <<>>
            ELSE LET prev == IF i = 1 THEN Genesis ELSE f[i - 1][i - 1].hash
                 IN Append(f[i - 1], EntryLine(kept[i].n, kept[i].kind, prev))
    IN f[Len(kept)]

Kept(line) == line.ok /\ (~IsOld(line) \/ line.kind = "rotation")

\* The rotation is appended first; then the kept entries are chained anew and
\* replace the file, in one atomic rename.
Rotate ==
    /\ RotationDue
    /\ appended < MaxEntries
    /\ LET entry == EntryLine(appended + 1, "rotation", TailHash)
           kept == Rechain(SelectSeq(WithLine(entry), Kept))
       IN /\ lines' = kept
          /\ tailHash' = IF kept = <<>> THEN "unread" ELSE kept[Len(kept)].hash
    /\ appended' = appended + 1
    /\ promised' = (promised \cup {appended + 1}) \ expired
    /\ wounded' = FALSE
    /\ UNCHANGED <<expired, wounds>>

\* The replacement fails: the rotation is recorded and nothing is removed.
RotateInVain ==
    /\ RotationDue
    /\ appended < MaxEntries
    /\ wounds < MaxWounds
    /\ LET entry == EntryLine(appended + 1, "rotation", TailHash)
       IN /\ lines' = WithLine(entry)
          /\ tailHash' = entry.hash
    /\ appended' = appended + 1
    /\ wounds' = wounds + 1
    /\ UNCHANGED <<expired, promised, wounded>>

RestartAudit ==
    /\ tailHash # "unread"
    /\ tailHash' = "unread"
    /\ UNCHANGED <<lines, expired, appended, promised, wounds, wounded>>

-----------------------------------------------------------------------------
AuditInit ==
    /\ lines = <<>>
    /\ tailHash = "unread"
    /\ expired = {}
    /\ appended = 0
    /\ promised = {}
    /\ wounds = 0
    /\ wounded = FALSE

AuditNext ==
    \/ AppendEntry \/ Rotate \/ RotateInVain \/ RestartAudit
    \/ \E kind \in {"call", "rotation"}, dies \in BOOLEAN : CutAppend(kind, dies)
    \/ \E n \in 1..MaxEntries : Expire(n)

AuditSpec == AuditInit /\ [][AuditNext]_auditVars

-----------------------------------------------------------------------------
(* Properties *)

\* The lines verify_chain objects to: those it cannot parse, and those whose
\* prev_hash is not the hash of the last line it could parse.
Parsed(i) == {j \in 1..(i - 1) : lines[j].ok}
ExpectedPrev(i) ==
    IF Parsed(i) = {} THEN Genesis
    ELSE lines[CHOOSE j \in Parsed(i) : \A k \in Parsed(i) : k <= j].hash
ChainViolations ==
    {i \in DOMAIN lines : ~lines[i].ok \/ lines[i].prev # ExpectedPrev(i)}

AuditTypeOK ==
    /\ \A i \in DOMAIN lines : lines[i].kind \in {"call", "rotation", "broken"}
    /\ expired \subseteq 1..MaxEntries
    /\ appended \in 0..MaxEntries
    /\ promised \subseteq 1..MaxEntries
    /\ wounds \in 0..MaxWounds
    /\ wounded \in BOOLEAN

\* Through restarts and rotations verify_chain finds nothing to object to, and
\* every entry whose call returned is in the file until it expires; after an
\* append that was cut short the next rotation makes the file whole again.
ChainHolds ==
    ~wounded => /\ ChainViolations = {}
                /\ wounds = 0 => \A n \in promised \ expired :
                                    \E i \in DOMAIN lines : lines[i].n = n
=============================================================================
