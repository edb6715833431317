------------------------------ MODULE Histories ------------------------------
(***************************************************************************)
(* What is kept of earlier sessions: the append-only event log of a session *)
(* (session/log.py) and the stored conversation (conversation/store.py).    *)
(* Their owners are separate programs; nothing locks either of them.        *)
(***************************************************************************)
EXTENDS Naturals, FiniteSets, Sequences, FiniteSetsExt, SequencesExt

CONSTANTS
    Owner,         \* SessionLog objects that open the session's file
    SessionEvent,  \* events of the session
    ChatClient,    \* users of the conversation store
    Message,       \* messages of the conversation
    MaxTears       \* kills in the middle of a write: a bound

ASSUME HistoriesAssumption ==
    MaxTears \in Nat /\ "junk" \notin SessionEvent /\ "cut" \notin Message

VARIABLES
    logLines,  \* the lines of the session's file; the last may have no newline
    nextSeq,   \* _next_seq of each SessionLog, 0 when it is not open
    appended,  \* events whose append returned
    shared,    \* two SessionLog objects of the session were open at once
    tears      \* writes that were cut off

VARIABLES
    backend,       \* "json" or "sqlite"
    conversation,  \* the stored messages, or what cannot be read as any
    chatHand,      \* each client: what it does and the messages it has loaded
    told,          \* what the appends and deletes that wrote add up to
    crossed,       \* a write was based on messages that had changed since
    cutOff         \* kills of a client in the middle of a call

sessionVars == <<logLines, nextSeq, appended, shared, tears>>
conversationVars == <<backend, conversation, chatHand, told, crossed, cutOff>>
historyVars == <<logLines, nextSeq, appended, shared, tears, backend, conversation, chatHand,
                 told, crossed, cutOff>>

-----------------------------------------------------------------------------
\* load_events: what is no event is skipped.  Numbers start at 1 here.
Broken(ended) == [seq |-> 0, event |-> "junk", ended |-> ended]
IsEvent(line) == line.event # "junk"
\* Mutated form of Loaded: the first line that is no event ends the file.
LoadedUntilJunk(lines) == {i \in DOMAIN lines : \A j \in 1..i : IsEvent(lines[j])}
Loaded(lines) == {i \in DOMAIN lines : IsEvent(lines[i])}

\* replay_transcript renders what is loaded.
Transcript(lines) == {lines[i].event : i \in Loaded(lines)}

\* Mutated form of ResumeAt: as many events as there are have a number.
ResumeByCount(lines) == Cardinality(Loaded(lines)) + 1
\* SessionLog.__init__: go on after the highest number in the file.
ResumeAt(lines) == Max({0} \cup {lines[i].seq : i \in Loaded(lines)}) + 1

OpenLog(o) ==
    /\ nextSeq[o] = 0
    /\ nextSeq' = [nextSeq EXCEPT ![o] = ResumeAt(logLines)]
    /\ shared' = (shared \/ \E p \in Owner : nextSeq[p] > 0)
    /\ UNCHANGED <<logLines, appended, tears>> /\ UNCHANGED conversationVars

\* A line put after one without a newline shares its line, and neither is an event.
Unended == Len(logLines) > 0 /\ ~logLines[Len(logLines)].ended
WithLine(line) ==
    IF Unended THEN [logLines EXCEPT ![Len(logLines)] = Broken(line.ended)]
    ELSE Append(logLines, line)
LineOf(o, e, ended) == [seq |-> nextSeq[o], event |-> e, ended |-> ended]

\* append_auto: the object's own number, then one line, then the next number.
AppendEvent(o, e) ==
    /\ nextSeq[o] > 0 /\ e \notin appended
    /\ logLines' = WithLine(LineOf(o, e, TRUE))
    /\ nextSeq' = [nextSeq EXCEPT ![o] = @ + 1]
    /\ appended' = appended \cup {e}
    /\ UNCHANGED <<shared, tears>> /\ UNCHANGED conversationVars

\* The object's process is killed, perhaps in the middle of a line: a part of the
\* event has been written, or all of it without the newline.
OwnerKilled(o) ==
    /\ nextSeq[o] > 0
    /\ nextSeq' = [nextSeq EXCEPT ![o] = 0]
    /\ \/ UNCHANGED <<logLines, tears>>
       \/ /\ tears < MaxTears /\ tears' = tears + 1
          /\ \/ logLines' = WithLine(Broken(FALSE))
             \/ \E e \in SessionEvent \ appended : logLines' = WithLine(LineOf(o, e, FALSE))
    /\ UNCHANGED <<appended, shared>> /\ UNCHANGED conversationVars

-----------------------------------------------------------------------------
\* load: a file that cannot be read as messages, because it is to be filled or holds
\* parts of several saves or of one, is an empty conversation.
HalfWritten == <<"cut">>
Garbled == <<"cut", "cut">>
Unreadable == {HalfWritten, Garbled}
Load == IF conversation \in Unreadable THEN << >> ELSE conversation
Holding(c, step, messages) == chatHand' = [chatHand EXCEPT ![c] = [step |-> step, messages |-> messages]]
AtRest == [step |-> "none", messages |-> << >>]

\* ConversationStore.append: load, append, save.
AppendLoads(c, m) ==
    /\ chatHand[c] = AtRest
    /\ m \notin ToSet(told) \cup ToSet(conversation)
    /\ \A d \in ChatClient : m \notin ToSet(chatHand[d].messages)
    /\ Holding(c, "save", Append(Load, m))
    /\ UNCHANGED <<backend, conversation, told, crossed, cutOff>> /\ UNCHANGED sessionVars

BasedOn(c) == SubSeq(chatHand[c].messages, 1, Len(chatHand[c].messages) - 1)
AppendTold(c) == told' = Append(told, chatHand[c].messages[Len(chatHand[c].messages)])
Overtakes(c) ==
    crossed' = (crossed \/ BasedOn(c) # Load
                        \/ \E d \in ChatClient \ {c} : chatHand[d].step = "fill")

\* SqliteConversationStore.save replaces the row in one transaction.
SavesAtOnceNever == FALSE
SavesAtOnce == backend = "sqlite"

SaveRow(c) ==
    /\ chatHand[c].step = "save" /\ SavesAtOnce
    /\ conversation' = chatHand[c].messages /\ chatHand' = [chatHand EXCEPT ![c] = AtRest]
    /\ AppendTold(c) /\ Overtakes(c)
    /\ UNCHANGED <<backend, cutOff>> /\ UNCHANGED sessionVars

\* JsonConversationStore.save: write_text empties the file before it fills it.
SaveEmpties(c) ==
    /\ chatHand[c].step = "save" /\ ~SavesAtOnce
    /\ conversation' = HalfWritten /\ chatHand' = [chatHand EXCEPT ![c].step = "fill"]
    /\ Overtakes(c)
    /\ UNCHANGED <<backend, told, cutOff>> /\ UNCHANGED sessionVars

\* What another save wrote since then is overwritten from its start; the end of a
\* longer text stays.
SaveFills(c) ==
    /\ chatHand[c].step = "fill"
    /\ \/ conversation' = chatHand[c].messages
       \/ conversation # HalfWritten /\ conversation' = Garbled
    /\ chatHand' = [chatHand EXCEPT ![c] = AtRest]
    /\ AppendTold(c)
    /\ crossed' = (crossed \/ conversation # HalfWritten)
    /\ UNCHANGED <<backend, cutOff>> /\ UNCHANGED sessionVars

\* delete: the conversation is as if it had never been; a file unlinked while it is
\* filled is written for nobody.
DeleteConversation(c) ==
    /\ chatHand[c] = AtRest
    /\ conversation' = << >> /\ told' = << >>
    /\ chatHand' = [d \in ChatClient |->
                       IF chatHand[d].step = "fill" THEN [chatHand[d] EXCEPT !.step = "unlinked"]
                       ELSE chatHand[d]]
    /\ crossed' = (crossed \/ \E d \in ChatClient : chatHand[d].step = "fill")
    /\ UNCHANGED <<backend, cutOff>> /\ UNCHANGED sessionVars

SaveIsLost(c) ==
    /\ chatHand[c].step = "unlinked"
    /\ chatHand' = [chatHand EXCEPT ![c] = AtRest]
    /\ AppendTold(c)
    /\ UNCHANGED <<backend, conversation, crossed, cutOff>> /\ UNCHANGED sessionVars

\* A client is killed with a call in hand; a call that has written nothing yet
\* leaves the conversation as it was, and one that fills a file perhaps a part.
ClientKilled(c) ==
    /\ chatHand[c] # AtRest
    /\ chatHand' = [chatHand EXCEPT ![c] = AtRest]
    /\ cutOff' = (cutOff \/ chatHand[c].step = "fill")
    /\ \/ UNCHANGED conversation
       \/ chatHand[c].step = "fill" /\ conversation' = Garbled
    /\ UNCHANGED <<backend, told, crossed>> /\ UNCHANGED sessionVars

SessionInit ==
    /\ logLines = << >> /\ nextSeq = [o \in Owner |-> 0]
    /\ appended = {} /\ shared = FALSE /\ tears = 0

ConversationInit ==
    /\ backend \in {"json", "sqlite"} /\ conversation = << >>
    /\ chatHand = [c \in ChatClient |-> AtRest]
    /\ told = << >> /\ crossed = FALSE /\ cutOff = FALSE

HistoriesInit == SessionInit /\ ConversationInit

SessionNext ==
    \E o \in Owner : OpenLog(o) \/ OwnerKilled(o) \/ \E e \in SessionEvent : AppendEvent(o, e)

ConversationNext ==
    \E c \in ChatClient :
      \/ \E m \in Message : AppendLoads(c, m)
      \/ SaveRow(c) \/ SaveEmpties(c) \/ SaveFills(c) \/ SaveIsLost(c)
      \/ DeleteConversation(c) \/ ClientKilled(c)

HistoriesNext == SessionNext \/ ConversationNext
HistoriesSpec == HistoriesInit /\ [][HistoriesNext]_historyVars

-----------------------------------------------------------------------------
HistoriesTypeOK ==
    /\ \A i \in DOMAIN logLines :
         /\ IsEvent(logLines[i]) => logLines[i].event \in SessionEvent
         /\ ~logLines[i].ended => i = Len(logLines)
    /\ nextSeq \in [Owner -> Nat] /\ appended \subseteq SessionEvent
    /\ conversation \notin Unreadable => conversation \in Seq(Message)
    /\ told \in Seq(Message) /\ {shared, crossed, cutOff} \subseteq BOOLEAN

\* The log promises increasing numbers (session/log.py:20-22).  With one object
\* at a time they increase over every kill and every line that was cut off or joined.
NumbersIncrease ==
    ~shared => \A i, j \in Loaded(logLines) : i < j => logLines[i].seq < logLines[j].seq

\* One bad line does not strand the others (session/log.py:21-22): however many
\* objects append, each write that was cut off costs at most one later event.
TranscriptIsKept ==
    Cardinality(appended \ Transcript(logLines)) <= tears

\* A conversation is what the calls that wrote add up to, except while one of them
\* fills its file, unless two clients crossed; the SQLite store keeps it over a kill
\* at any moment.
ConversationIsKept ==
    \/ crossed \/ (cutOff /\ backend = "json")
    \/ conversation = told
    \/ conversation = HalfWritten /\ \E c \in ChatClient : chatHand[c].step = "fill"
=============================================================================
