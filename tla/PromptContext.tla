--------------------------- MODULE PromptContext ----------------------------
(***************************************************************************)
(* What an issue's executor tells a model of a repository (gh/context.py,   *)
(* gh/repo_schematic.py): the outline of each source file, the files whose  *)
(* path bears the issue's words, and the sections of the prompt, each cut   *)
(* to its share.  A source file is the sequence of the declarations that    *)
(* the parser's patterns find; a text is its length.  And the pack of files *)
(* that context/packs.py makes.                                             *)
(***************************************************************************)
EXTENDS Naturals, Sequences, FiniteSets, FiniteSetsExt, SequencesExt

CONSTANTS
    Language,      \* languages of the source file
    Declarations,  \* the sequences of declarations it may hold
    Lengths,       \* lengths that a section's text may have
    MaxChars,      \* limits of a prompt
    Scores         \* how many of the issue's words each path bears

ASSUME PromptAssumption ==
    /\ Language \subseteq {"python", "javascript", "typescript", "go", "rust", "java"}
    /\ Lengths \subseteq Nat /\ MaxChars \subseteq Nat \ {0}
    /\ \A s \in Scores : s \in Seq(Nat)

VARIABLES
    source,     \* the file: its language and declarations
    texts,      \* the length of each section's text, and the limit
    paths,      \* the score of each path, and those that are files
    prompt      \* what is made of them: the outline, the sections, the files shown

promptVars == <<source, texts, paths, prompt>>

-----------------------------------------------------------------------------
(* Outlines *)

Distinct(s) == FoldLeft(LAMBDA seen, x : IF Contains(seen, x) THEN seen ELSE Append(seen, x), <<>>, s)

Shown(d) == ~d.private
OfKind(decls, kind) == SelectSeq(decls, LAMBDA d : d.kind = kind)
Named(decls, kind) ==
    LET found == SelectSeq(decls, LAMBDA d : d.kind = kind /\ Shown(d))
    IN [i \in DOMAIN found |-> <<found[i].name>>]

\* A method is told with its class.
Qualified(decls) ==
    LET found == SelectSeq(decls, LAMBDA d : d.kind = "method" /\ Shown(d))
    IN [i \in DOMAIN found |-> <<found[i].owner, found[i].name>>]

\* Python is parsed: names come in the order of the file, and twice if they are.
OutlinePython(decls) ==
    LET told == SelectSeq(decls, LAMBDA d : d.kind \in {"function", "method"} /\ Shown(d))
        classes == OfKind(decls, "class")
    IN [functions |-> [i \in DOMAIN told |-> IF told[i].kind = "method"
                                            THEN <<told[i].owner, told[i].name>> ELSE <<told[i].name>>],
        classes |-> [i \in DOMAIN classes |-> <<classes[i].name>>]]

OutlineJavascript(decls) ==
    [functions |-> Distinct(Named(decls, "function") \o Named(decls, "exported") \o Named(decls, "arrow")),
     classes |-> Distinct(Named(decls, "class"))]

\* Mutated form of OutlineTypescript: an interface is not compared with the classes.
OutlineTypescriptTwice(decls) ==
    [functions |-> OutlineJavascript(decls).functions,
     classes |-> OutlineJavascript(decls).classes \o Distinct(Named(decls, "interface") \o Named(decls, "alias"))]
OutlineTypescript(decls) ==
    [functions |-> OutlineJavascript(decls).functions,
     classes |-> Distinct(OutlineJavascript(decls).classes \o Named(decls, "interface") \o Named(decls, "alias"))]

OutlineGo(decls) ==
    [functions |-> Distinct(Named(decls, "function")),
     classes |-> Distinct(Named(decls, "class") \o Named(decls, "interface") \o Named(decls, "alias"))]

\* The types of impl blocks and their methods come first; a free function is one
\* outside them.
OutlineRust(decls) ==
    [functions |-> Distinct(Qualified(decls) \o Named(decls, "function")),
     classes |-> Distinct(Named(decls, "impl") \o Named(decls, "class") \o Named(decls, "interface"))]

\* A method that is named as a class is taken for its constructor.
OutlineJava(decls) ==
    LET classes == Distinct(Named(decls, "class") \o Named(decls, "interface"))
    IN [functions |-> Distinct(SelectSeq(Named(decls, "method"), LAMBDA n : ~Contains(classes, n))),
        classes |-> classes]

Outline(language, decls) ==
    CASE language = "python" -> OutlinePython(decls)
      [] language = "javascript" -> OutlineJavascript(decls)
      [] language = "typescript" -> OutlineTypescript(decls)
      [] language = "go" -> OutlineGo(decls)
      [] language = "rust" -> OutlineRust(decls)
      [] language = "java" -> OutlineJava(decls)

-----------------------------------------------------------------------------
(* Sections *)

Section == {"ci", "tree", "readme", "memory", "snippet", "commits", "schematic"}

Share(section, max) ==
    LET of(percent, least) == LET part == (max * percent) \div 100 IN IF part > least THEN part ELSE least
    IN CASE section = "tree" -> of(15, 200)
         [] section = "readme" -> of(25, 300)
         [] section = "memory" -> of(15, 300)
         [] section = "snippet" -> of(30, 500)
         [] section = "commits" -> of(10, 200)
         [] section = "ci" -> of(5, 400)
         [] section = "schematic" -> of(15, 1000)

\* The length of "... truncated ..." and the end of line before it.
MarkerLength == 18

\* Mutated form of Truncated: the marker comes on top.
TruncatedPlus(length, max) == IF length <= max THEN length ELSE max + MarkerLength
Truncated(length, max) ==
    IF length <= max THEN length
    ELSE (IF max > MarkerLength THEN max - MarkerLength ELSE 0) + MarkerLength

\* The snippets divide their share.
Cut(section, t, snippets) ==
    Truncated(t.length[section],
              IF section = "snippet" THEN Share(section, t.max) \div Max({1, snippets}) ELSE Share(section, t.max))

-----------------------------------------------------------------------------
(* Files whose path bears words of the issue *)

TopCount == 2

Better(score, i, j) == score[i] > score[j] \/ (score[i] = score[j] /\ i > j)

\* Mutated form of Relevant: the least come first.
RelevantLeast(p) ==
    LET bearing == {i \in DOMAIN p.score : p.score[i] > 0}
        ranked == SetToSortSeq(bearing, LAMBDA i, j : ~Better(p.score, i, j))
    IN ToSet(SubSeq(ranked, 1, Min({TopCount, Len(ranked)}))) \cap p.present
\* The best come first, of equals the last by name; one that is no file any more is
\* left out and not replaced.
Relevant(p) ==
    LET bearing == {i \in DOMAIN p.score : p.score[i] > 0}
        ranked == SetToSortSeq(bearing, LAMBDA i, j : Better(p.score, i, j))
    IN ToSet(SubSeq(ranked, 1, Min({TopCount, Len(ranked)}))) \cap p.present

-----------------------------------------------------------------------------
NoPrompt == [outline |-> [functions |-> <<>>, classes |-> <<>>],
             section |-> [s \in Section |-> 0], files |-> {}, built |-> FALSE]

BuildContext ==
    /\ ~prompt.built
    /\ LET files == Relevant(paths)
       IN prompt' = [outline |-> Outline(source.language, source.decls),
                     section |-> [s \in Section |-> Cut(s, texts, Cardinality(files))],
                     files |-> files, built |-> TRUE]
    /\ UNCHANGED <<source, texts, paths>>

Source == [language : Language, decls : Declarations]
Texts == [length : [Section -> Lengths], max : MaxChars]
Paths == {[score |-> t, present |-> f] : t \in Scores, f \in SUBSET (1..3)}

\* One of the three inputs varies, the others are some.
PromptInit ==
    /\ prompt = NoPrompt
    /\ \/ source \in Source /\ texts = (CHOOSE t \in Texts : TRUE) /\ paths = (CHOOSE p \in Paths : TRUE)
       \/ source = (CHOOSE x \in Source : TRUE) /\ texts \in Texts /\ paths = (CHOOSE p \in Paths : TRUE)
       \/ source = (CHOOSE x \in Source : TRUE) /\ texts = (CHOOSE t \in Texts : TRUE) /\ paths \in Paths

PromptNext == BuildContext

PromptSpec == PromptInit /\ [][PromptNext]_promptVars

-----------------------------------------------------------------------------
(* Properties *)

PromptTypeOK ==
    /\ source \in Source /\ paths \in Paths
    /\ DOMAIN texts.length = Section /\ texts.max \in MaxChars
    /\ prompt.files \subseteq DOMAIN paths.score

\* The kinds of declaration that a language's parser looks for.
Known(language) ==
    CASE language = "python" -> {"function", "method", "class"}
      [] language = "javascript" -> {"function", "exported", "arrow", "class"}
      [] language = "typescript" -> {"function", "exported", "arrow", "class", "interface", "alias"}
      [] language = "go" -> {"function", "class", "interface", "alias"}
      [] language = "rust" -> {"function", "method", "impl", "class", "interface"}
      [] language = "java" -> {"method", "class", "interface"}

\* repo_schematic.py:200-583: every public declaration that a parser looks for is told
\* under its name, nothing else is but the private classes of Python, and only Python
\* tells a name twice.
OutlineIsTrue ==
    LET o == prompt.outline
        told == ToSet(o.functions) \cup ToSet(o.classes)
        found == {source.decls[i] : i \in DOMAIN source.decls}
        nameOf(d) == IF d.kind = "method" /\ source.language # "java" THEN <<d.owner, d.name>> ELSE <<d.name>>
    IN prompt.built =>
        /\ \A d \in found : Shown(d) /\ d.kind \in Known(source.language) => nameOf(d) \in told
        /\ \A n \in told : \E d \in found :
              nameOf(d) = n /\ (Shown(d) \/ (source.language = "python" /\ d.kind = "class"))
        /\ source.language # "python" => IsInjective(o.functions) /\ IsInjective(o.classes)

\* context.py:100-159: a section is the text or is cut to its share; and of a limit
\* that is not small, the shares are 115 percent.
SectionsFit ==
    prompt.built =>
        /\ \A s \in Section \ {"snippet"} :
              /\ prompt.section[s] <= Share(s, texts.max)
              /\ prompt.section[s] = texts.length[s] \/ texts.length[s] > Share(s, texts.max)
        /\ texts.max >= 8000 =>
              MapThenSumSet(LAMBDA s : prompt.section[s], Section) * 100 <= texts.max * 115

\* context.py:252-283: the files shown are some of the best, at most so many, and a
\* file that bears words of the issue is left out only for better ones.
RelevantAreBest ==
    prompt.built =>
        /\ prompt.files \subseteq paths.present /\ Cardinality(prompt.files) <= TopCount
        /\ \A i \in (DOMAIN paths.score \cap paths.present) \ prompt.files :
              paths.score[i] > 0 =>
                  Cardinality({j \in DOMAIN paths.score \ {i} : paths.score[j] >= paths.score[i]}) >= TopCount

-----------------------------------------------------------------------------
\* The pack of a repository's files that is put before a model (context/packs.py):
\* file by file, in order, each is measured, digested and read, within a limit for
\* a file and one for all.  Other processes edit and remove files meanwhile.

CONSTANTS
    FileCount,      \* the files found, in the order of the walk
    FirstSizes,     \* the sizes they have at first
    TextCandidate,  \* those of a kind that is packed
    WithNul,        \* those that look binary
    MaxFileBytes, MaxTotalBytes,
    MaxEdits        \* bound: edits and removals

PackFile == 1..FileCount

ASSUME PackAssumption ==
    /\ FileCount \in Nat /\ FirstSizes \in [PackFile -> Nat]
    /\ TextCandidate \subseteq PackFile /\ WithNul \subseteq PackFile
    /\ MaxFileBytes \in Nat \ {0} /\ MaxTotalBytes \in Nat \ {0} /\ MaxEdits \in Nat

VARIABLES
    disk,       \* each file's size and version, version 0 when it is gone
    packing,    \* the file in hand and how far it is, the bytes packed so far
    pack,       \* the entries made
    edits       \* history: the files edited since they were measured

packVars == <<disk, packing, pack, edits>>

-----------------------------------------------------------------------------
Gone(f) == disk[f].version = 0

Entry(f, size, digest, version, reason) ==
    [file |-> f, size |-> size, digest |-> digest, text |-> version, reason |-> reason]

\* An entry is made, and the next file is taken in hand.
Put(entry) ==
    /\ pack' = Append(pack, entry)
    /\ packing' = [packing EXCEPT !.at = "stat", !.file = @ + 1,
                                  !.running = IF entry.reason = "none" THEN @ + entry.size ELSE @]

Measure ==
    LET f == packing.file
    IN /\ packing.at = "stat" /\ f <= FileCount
       /\ IF Gone(f) THEN Put(Entry(f, 0, 0, 0, "stat_failed"))
          ELSE packing' = [packing EXCEPT !.at = "digest", !.size = disk[f].size] /\ UNCHANGED pack
       /\ edits' = [edits EXCEPT !.files = @ \ {f}]
       /\ UNCHANGED disk

\* Mutated form of SkipReason: the file is compared with what is left before the last.
SkipReasonLate(f, size) ==
    IF f \notin TextCandidate THEN "unsupported_file_type"
    ELSE IF size > MaxFileBytes THEN "file_size_limit"
    ELSE IF packing.running > MaxTotalBytes THEN "total_size_limit"
    ELSE "none"
SkipReason(f, size) ==
    IF f \notin TextCandidate THEN "unsupported_file_type"
    ELSE IF size > MaxFileBytes THEN "file_size_limit"
    ELSE IF packing.running + size > MaxTotalBytes THEN "total_size_limit"
    ELSE "none"

\* Mutated form of Digest: the digest is the one the file had when it was found.
DigestAsFound ==
    LET f == packing.file
        reason == SkipReason(f, packing.size)
    IN /\ packing.at = "digest"
       /\ IF reason # "none" THEN Put(Entry(f, packing.size, 1, 0, reason))
          ELSE /\ packing' = [packing EXCEPT !.at = "read", !.digest = 1]
               /\ UNCHANGED pack
       /\ UNCHANGED <<disk, edits>>
\* The digest is that of the file as it is now, empty when it cannot be read.
Digest ==
    LET f == packing.file
        reason == SkipReason(f, packing.size)
    IN /\ packing.at = "digest"
       /\ IF reason # "none" THEN Put(Entry(f, packing.size, disk[f].version, 0, reason))
          ELSE /\ packing' = [packing EXCEPT !.at = "read", !.digest = disk[f].version]
               /\ UNCHANGED pack
       /\ UNCHANGED <<disk, edits>>

ReadFile ==
    LET f == packing.file
    IN /\ packing.at = "read"
       /\ IF Gone(f) THEN Put(Entry(f, packing.size, packing.digest, 0, "read_failed"))
          ELSE IF f \in WithNul THEN Put(Entry(f, packing.size, packing.digest, 0, "binary_file"))
          ELSE Put(Entry(f, packing.size, packing.digest, disk[f].version, "none"))
       /\ UNCHANGED <<disk, edits>>

\* Another process writes, creates or removes a file that the walk has found.
EditFile(f, size) ==
    /\ edits.count < MaxEdits
    /\ disk' = [disk EXCEPT ![f] = [size |-> size, version |-> IF size = 0 THEN 0 ELSE edits.count + 2]]
    /\ edits' = [count |-> edits.count + 1, files |-> edits.files \cup {f}]
    /\ UNCHANGED <<packing, pack>>

PackInit ==
    /\ disk = [f \in PackFile |-> [size |-> FirstSizes[f], version |-> 1]]
    /\ packing = [at |-> "stat", file |-> 1, size |-> 0, digest |-> 0, running |-> 0]
    /\ pack = <<>> /\ edits = [count |-> 0, files |-> {}]

PackNext ==
    \/ Measure \/ Digest \/ ReadFile
    \/ \E f \in PackFile, size \in {0, 1, MaxFileBytes, MaxFileBytes + 1} : EditFile(f, size)

PackSpec == PackInit /\ [][PackNext]_packVars

-----------------------------------------------------------------------------
(* Properties *)

PackTypeOK ==
    /\ \A f \in PackFile : disk[f].size \in Nat /\ disk[f].version \in Nat
    /\ packing.at \in {"stat", "digest", "read"} /\ packing.file \in 1..(FileCount + 1)
    /\ Len(pack) = packing.file - 1

Included == {i \in DOMAIN pack : pack[i].reason = "none"}

\* packs.py:262-311: the included files, as they were measured, are within both limits;
\* a file left out for want of room would not fit beside those included.
PackIsBounded ==
    LET total == MapThenSumSet(LAMBDA i : pack[i].size, Included)
    IN /\ total <= MaxTotalBytes
       /\ \A i \in Included : pack[i].size <= MaxFileBytes
       /\ \A i \in DOMAIN pack :
             pack[i].reason = "total_size_limit" => total + pack[i].size > MaxTotalBytes

\* An included text is the one its digest and size are of, unless the file was edited
\* after it was measured.
PackIsOfOneMoment ==
    \A i \in Included :
        \/ pack[i].file \in edits.files
        \/ /\ pack[i].digest = pack[i].text /\ pack[i].text = disk[pack[i].file].version
           /\ pack[i].size = disk[pack[i].file].size
=============================================================================
