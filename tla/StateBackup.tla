---------------------------- MODULE StateBackup ----------------------------
(***************************************************************************)
(* Artifacts (core/artifacts.py) and the backups of a data directory        *)
(* (core/backup.py).  An artifact is a blob, written whole, and then a row  *)
(* of a database; a backup copies the databases and then the blobs while    *)
(* the daemon goes on writing; a restore writes one component after the     *)
(* other and gives up where one is there already, unless it is forced.      *)
(*                                                                         *)
(* Of the databases only the artifacts' is told apart, and of the other     *)
(* components, whether they are there.                                      *)
(***************************************************************************)
EXTENDS Naturals, FiniteSets

CONSTANTS
    Artifact,
    Place,        \* data directories
    Other,        \* each place: what may exist besides the databases and artifacts
    MaxExports,   \* bound: exports begun
    MaxRestores   \* bound: restores begun

ASSUME BackupAssumption ==
    /\ Other \in [Place -> SUBSET {"config", "audit", "memory"}]
    /\ MaxExports \in Nat /\ MaxRestores \in Nat

VARIABLES
    data,         \* each place: the components there, their rows and blobs
    putting,      \* artifacts whose blob is written and whose row is not, by place
    export,       \* the archive that is being made
    archive,      \* the archive, or NoArchive
    restore,      \* the restore under way
    exports,      \* history: exports begun
    restores,     \* history: restores begun
    torn          \* history: places where a restore gave up or brought what was torn

backupVars == <<data, putting, export, archive, restore, exports, restores, torn>>

-----------------------------------------------------------------------------
Component == {"config", "databases", "audit", "artifacts", "memory"}
\* The order of restore, "done" after the last.
After(c) ==
    CASE c = "config" -> "databases"
      [] c = "databases" -> "audit"
      [] c = "audit" -> "artifacts"
      [] c = "artifacts" -> "memory"
      [] c = "memory" -> "done"

Nothing == [there |-> {}, rows |-> {}, blobs |-> {}]
NoArchive == [there |-> {}, rows |-> {}, blobs |-> {}, damage |-> "none", whole |-> TRUE]
NotExporting == [at |-> "idle", from |-> "none", got |-> Nothing, whole |-> TRUE]
NotRestoring == [at |-> "idle", place |-> "none", force |-> FALSE,
                 kit |-> NoArchive, mends |-> FALSE]

\* Opening the stores creates the databases and the directory of blobs.
OpenStores(p) ==
    /\ {"databases", "artifacts"} \ data[p].there # {}
    /\ data' = [data EXCEPT ![p].there = @ \cup {"databases", "artifacts"}]
    /\ UNCHANGED <<putting, export, archive, restore, exports, restores, torn>>

\* Another component comes into being: a config, an audit log, a memory.
WriteComponent(p, c) ==
    /\ c \notin data[p].there
    /\ data' = [data EXCEPT ![p].there = @ \cup {c}]
    /\ UNCHANGED <<putting, export, archive, restore, exports, restores, torn>>

-----------------------------------------------------------------------------
(* Artifacts *)

\* put_bytes: a new id, the blob renamed into place
WriteBlob(p, a) ==
    /\ {"databases", "artifacts"} \subseteq data[p].there
    /\ \A q \in Place : a \notin data[q].blobs
    /\ a \notin archive.blobs
    /\ data' = [data EXCEPT ![p].blobs = @ \cup {a}]
    /\ putting' = [putting EXCEPT ![p] = @ \cup {a}]
    /\ UNCHANGED <<export, archive, restore, exports, restores, torn>>

InsertRow(p, a) ==
    /\ a \in putting[p]
    /\ data' = [data EXCEPT ![p].rows = @ \cup {a}]
    /\ putting' = [putting EXCEPT ![p] = @ \ {a}]
    /\ UNCHANGED <<export, archive, restore, exports, restores, torn>>

\* The writer dies, or its insert fails: a blob without a row stays behind.
LoseWriter(p) ==
    /\ putting[p] # {}
    /\ putting' = [putting EXCEPT ![p] = {}]
    /\ UNCHANGED <<data, export, archive, restore, exports, restores, torn>>

-----------------------------------------------------------------------------
(* Export *)

StartExport(p) ==
    /\ export = NotExporting
    /\ exports < MaxExports
    /\ exports' = exports + 1
    /\ export' = [at |-> "databases", from |-> p, got |-> [Nothing EXCEPT
                    !.there = data[p].there \cap {"config"}], whole |-> p \notin torn]
    /\ UNCHANGED <<data, putting, archive, restore, restores, torn>>

\* Mutated form of ExportOrder: the blobs are copied before the databases.
ExportOrderBlobsFirst(stage) ==
    CASE stage = "databases" -> "artifacts" [] stage = "artifacts" -> "rows" [] OTHER -> "pack"
\* What is copied at each stage of export, the audit log with the databases.
ExportOrder(stage) ==
    CASE stage = "databases" -> "rows" [] stage = "artifacts" -> "artifacts" [] OTHER -> "pack"

\* The databases are copied by the backup API, in one transaction.
Copied(what, got, from) ==
    CASE what = "rows" -> [got EXCEPT !.rows = from.rows,
                              !.there = @ \cup (from.there \cap {"databases", "audit"})]
      [] what = "artifacts" -> [got EXCEPT !.blobs = from.blobs,
                              !.there = @ \cup (from.there \cap {"artifacts"})]

CopyStage(next) ==
    /\ export.at \in {"databases", "artifacts"}
    /\ next = IF export.at = "databases" THEN "artifacts" ELSE "pack"
    /\ export' = [export EXCEPT !.at = next,
                    !.got = Copied(ExportOrder(export.at), @, data[export.from]),
                    !.whole = @ /\ export.from \notin torn]
    /\ UNCHANGED <<data, putting, archive, restore, exports, restores, torn>>

PackArchive ==
    /\ export.at = "pack"
    /\ archive' = [there |-> export.got.there \cup (data[export.from].there \cap {"memory"}),
                   rows |-> export.got.rows, blobs |-> export.got.blobs,
                   damage |-> "none", whole |-> export.whole]
    /\ export' = NotExporting
    /\ UNCHANGED <<data, putting, restore, exports, restores, torn>>

\* A copy or a write raises, or its process dies.  The temporary copy is gone; the
\* file that was being packed over is cut short where it had begun.
AbandonExport ==
    /\ export # NotExporting
    /\ export' = NotExporting
    /\ archive' \in {archive} \cup
          (IF export.at = "pack" THEN {[archive EXCEPT !.damage = "changed"]} ELSE {})
    /\ UNCHANGED <<data, putting, restore, exports, restores, torn>>

\* The archive's bytes change where it is kept, or a component goes missing.
DamageArchive(how) ==
    /\ archive.damage = "none"
    /\ archive # NoArchive
    /\ how \in archive.there \cup {"changed"}
    /\ archive' = [archive EXCEPT !.damage = how]
    /\ UNCHANGED <<data, putting, export, restore, exports, restores, torn>>

-----------------------------------------------------------------------------
(* Restore *)

\* _verify_hashes sees bytes that changed and single files that are missing;
\* a component that is missing altogether is passed over.
Verified == archive.damage # "changed"

StartRestore(p, force) ==
    /\ restore = NotRestoring
    /\ restores < MaxRestores
    /\ archive # NoArchive
    /\ Verified
    /\ restore' = [at |-> "config", place |-> p, force |-> force, kit |-> archive,
                   mends |-> p \in torn]
    /\ restores' = restores + 1
    /\ torn' = torn \cup {p}
    /\ UNCHANGED <<data, putting, export, archive, exports>>

\* The archive is unpacked first, and its copy restored.
Archived(c) == c \in restore.kit.there /\ c # restore.kit.damage

\* The database's contents are replaced, the directory of blobs is added to.
Restored(c, d) ==
    CASE c = "databases" -> [d EXCEPT !.there = @ \cup {c}, !.rows = restore.kit.rows]
      [] c = "artifacts" -> [d EXCEPT !.there = @ \cup {c}, !.blobs = @ \cup restore.kit.blobs]
      [] OTHER -> [d EXCEPT !.there = @ \cup {c}]

\* "... already exists; pass --force to overwrite"
InTheWay(c) == Archived(c) /\ c \in data[restore.place].there /\ ~restore.force

\* Rows and blobs of one archive; or neither, where they matched before.
LeavesWhole ==
    /\ restore.kit.whole
    /\ Archived("databases") => Archived("artifacts")
    /\ restore.mends => Archived("databases")

RestoreStage ==
    /\ restore.at \in Component
    /\ ~InTheWay(restore.at)
    /\ data' = IF Archived(restore.at)
               THEN [data EXCEPT ![restore.place] = Restored(restore.at, @)] ELSE data
    /\ restore' = IF After(restore.at) = "done" THEN NotRestoring
                  ELSE [restore EXCEPT !.at = After(@)]
    /\ torn' = IF After(restore.at) = "done" /\ LeavesWhole THEN torn \ {restore.place} ELSE torn
    /\ UNCHANGED <<putting, export, archive, exports, restores>>

\* It raises, or its process dies, with the earlier components written and of the
\* directory of blobs as many as were copied.
AbandonRestore(copied) ==
    /\ restore # NotRestoring
    /\ copied # {} =>
          /\ restore.at = "artifacts" /\ Archived("artifacts") /\ ~InTheWay("artifacts")
          /\ copied \subseteq restore.kit.blobs
    /\ data' = IF copied = {} THEN data
               ELSE [data EXCEPT ![restore.place].there = @ \cup {"artifacts"},
                                 ![restore.place].blobs = @ \cup copied]
    /\ restore' = NotRestoring
    /\ UNCHANGED <<putting, export, archive, exports, restores, torn>>

-----------------------------------------------------------------------------
BackupInit ==
    /\ data = [p \in Place |-> Nothing]
    /\ putting = [p \in Place |-> {}]
    /\ export = NotExporting
    /\ archive = NoArchive
    /\ restore = NotRestoring
    /\ exports = 0
    /\ restores = 0
    /\ torn = {}

BackupNext ==
    \/ \E p \in Place :
          \/ OpenStores(p) \/ LoseWriter(p) \/ StartExport(p)
          \/ \E c \in Other[p] : WriteComponent(p, c)
          \/ \E a \in Artifact : WriteBlob(p, a) \/ InsertRow(p, a)
          \/ \E force \in BOOLEAN : StartRestore(p, force)
    \/ \E next \in {"artifacts", "pack"} : CopyStage(next)
    \/ PackArchive \/ AbandonExport \/ RestoreStage
    \/ \E copied \in SUBSET Artifact : AbandonRestore(copied)
    \/ \E how \in Component \cup {"changed"} : DamageArchive(how)

BackupSpec == BackupInit /\ [][BackupNext]_backupVars

-----------------------------------------------------------------------------
(* Properties *)

BackupTypeOK ==
    /\ \A p \in Place :
          /\ data[p].there \subseteq Component
          /\ data[p].rows \subseteq Artifact /\ data[p].blobs \subseteq Artifact
          /\ putting[p] \subseteq data[p].blobs
    /\ export.at \in {"idle", "databases", "artifacts", "pack"}
    /\ archive.damage \in Component \cup {"none", "changed"}
    /\ restore.at \in Component \cup {"idle"}
    /\ exports \in 0..MaxExports
    /\ restores \in 0..MaxRestores
    /\ torn \subseteq Place

\* Every artifact on record has its blob: in an archive made while artifacts
\* were written, and in a data directory, unless its last restore gave up half
\* way or was from an archive that had lost its artifacts; and a later restore
\* that succeeds makes such a directory whole again.
RecordedArtifactsExist ==
    /\ archive.whole => archive.rows \subseteq archive.blobs
    /\ \A p \in Place \ torn : data[p].rows \subseteq data[p].blobs
=============================================================================
