---------------------------- MODULE MemoryUpkeep ----------------------------
(***************************************************************************)
(* Upkeep of what the daemon remembers: the dream cycle and the CLI compress*)
(* raw logs into one markdown file and purge them (core/memory_annealer.py, *)
(* daemon/maintenance.py), and a cache keeps the embedding of each text     *)
(* (memory/embeddings.py), from which candidates are ranked.  What it       *)
(* remembers of issue runs is the second part of the module.                *)
(***************************************************************************)
EXTENDS Integers, FiniteSets, Sequences, SequencesExt, FiniteSetsExt

CONSTANTS
    Annealer,        \* the daemon's dream cycle and the CLI's commands
    RawLog,          \* raw execution logs
    MaxBroken,       \* kills, failing summaries and failing purges: a bound
    Text,            \* texts that are embedded
    Embedder,        \* users of the embedding cache
    Model,           \* embedding models: [name, dimensions]
    MaxAge,          \* days the cache's clock counts: a bound
    Candidate,       \* candidates that are ranked
    FtsOf, CosineOf, FtsWeight, EmbeddingWeight   \* their scores, and the weights

ASSUME UpkeepAssumption ==
    /\ {MaxBroken, MaxAge, FtsWeight, EmbeddingWeight} \subseteq Nat
    /\ FtsWeight + EmbeddingWeight > 0
    /\ FtsOf \in [Candidate -> Int] /\ CosineOf \in [Candidate -> Int]

VARIABLES
    rawLogs,         \* files under .maxwell/raw_logs
    logged,          \* logs that were ever written there
    digested,        \* logs that a finished architectural_state.md was made from
    overlooked,      \* logs purged that came in after the purging cycle had read
    cycle,           \* each annealer: its step, what it has read, what came in since
    broken           \* faults so far

VARIABLES
    model,           \* the embedding model that is configured
    cache,           \* rows of the cache: key, the model that made it, its day
    embedding,       \* each user: what it looks up, for which model, what it got
    today

VARIABLES
    ranked           \* the last candidates that were ranked, and their order

annealVars == <<rawLogs, logged, digested, overlooked, cycle, broken>>
cacheVars == <<model, cache, embedding, today>>
upkeepVars == <<rawLogs, logged, digested, overlooked, cycle, broken,
                model, cache, embedding, today, ranked>>

-----------------------------------------------------------------------------
Awake == [step |-> "idle", read |-> {}, missed |-> {}]

\* anneal: the state file is written before the logs are purged.
StepAfterPurgedFirst == [summarize |-> "purge", purge |-> "write", write |-> "idle"]
StepAfter == [summarize |-> "write", write |-> "purge", purge |-> "idle"]

StepsOn(a) ==
    LET step == StepAfter[cycle[a].step]
    IN  cycle' = [cycle EXCEPT ![a] = IF step = "idle" THEN Awake ELSE [@ EXCEPT !.step = step]]
Breaks(a) ==
    /\ broken < MaxBroken /\ broken' = broken + 1
    /\ cycle' = [cycle EXCEPT ![a] = Awake]

\* Logs are written at any time; a running cycle does not notice.
WriteLog(r) ==
    /\ r \notin logged
    /\ rawLogs' = rawLogs \cup {r} /\ logged' = logged \cup {r}
    /\ cycle' = [a \in Annealer |-> IF cycle[a] = Awake THEN Awake
                                    ELSE [cycle[a] EXCEPT !.missed = @ \cup {r}]]
    /\ UNCHANGED <<digested, overlooked, broken>> /\ UNCHANGED <<cacheVars, ranked>>

\* run_memory_dream_cycle and the CLI: nothing to do without raw logs.
AnnealReads(a) ==
    /\ cycle[a] = Awake /\ rawLogs # {}
    /\ cycle' = [cycle EXCEPT ![a] = [step |-> "summarize", read |-> rawLogs, missed |-> {}]]
    /\ UNCHANGED <<rawLogs, logged, digested, overlooked, broken>> /\ UNCHANGED <<cacheVars, ranked>>

\* The summarizer answers, or fails and leaves everything as it was.
Summarized(a) ==
    /\ cycle[a].step = "summarize"
    /\ (StepsOn(a) /\ UNCHANGED broken) \/ Breaks(a)
    /\ UNCHANGED <<rawLogs, logged, digested, overlooked>> /\ UNCHANGED <<cacheVars, ranked>>

\* The file is overwritten with what this cycle has read; a kill or an error may
\* leave it empty.
WriteState(a) ==
    /\ cycle[a].step = "write"
    /\ \/ StepsOn(a) /\ digested' = digested \cup cycle[a].read /\ UNCHANGED broken
       \/ Breaks(a) /\ UNCHANGED digested
    /\ UNCHANGED <<rawLogs, logged, overlooked>> /\ UNCHANGED <<cacheVars, ranked>>

\* rmtree of the whole directory, which may stop half way.
Purge(a) ==
    /\ cycle[a].step = "purge"
    /\ \E gone \in SUBSET rawLogs :
         /\ (gone = rawLogs /\ StepsOn(a) /\ UNCHANGED broken) \/ (gone # rawLogs /\ Breaks(a))
         /\ rawLogs' = rawLogs \ gone
         /\ overlooked' = overlooked \cup (gone \cap cycle[a].missed)
    /\ UNCHANGED <<logged, digested>> /\ UNCHANGED <<cacheVars, ranked>>

-----------------------------------------------------------------------------
\* EmbeddingResult.provider_name: the provider with its model and dimensions.
FingerprintBare(m) == "openai"
Fingerprint(m) == <<m.name, m.dimensions>>
RowsFor(m, t) == {row \in cache : row.key = <<Fingerprint(m), t>>}

NoEmbedding == [step |-> "none", text |-> "none", for |-> "none", got |-> "none"]

\* The operator configures another model; the file of the cache stays.
Configure(m) ==
    /\ m # model /\ model' = m
    /\ UNCHANGED <<cache, embedding, today>> /\ UNCHANGED annealVars /\ UNCHANGED ranked

\* EmbeddingCache.get, for the provider as it is configured.
LookUp(e, t) ==
    /\ embedding[e].step = "none"
    /\ \/ \E row \in RowsFor(model, t) :
            embedding' = [embedding EXCEPT ![e] =
                             [step |-> "done", text |-> t, for |-> model, got |-> row.by]]
       \/ /\ RowsFor(model, t) = {}
          /\ embedding' = [embedding EXCEPT ![e] =
                             [step |-> "call", text |-> t, for |-> model, got |-> "none"]]
    /\ UNCHANGED <<model, cache, today>> /\ UNCHANGED annealVars /\ UNCHANGED ranked

\* embed_batch answers with a vector of its own model, or fails.
Embedded(e) ==
    /\ embedding[e].step = "call"
    /\ embedding' = [embedding EXCEPT ![e] = [@ EXCEPT !.step = "put", !.got = embedding[e].for]]
    /\ UNCHANGED <<model, cache, today>> /\ UNCHANGED annealVars /\ UNCHANGED ranked

EmbedFails(e) ==
    /\ embedding[e].step = "call"
    /\ embedding' = [embedding EXCEPT ![e] = NoEmbedding]
    /\ UNCHANGED <<model, cache, today>> /\ UNCHANGED annealVars /\ UNCHANGED ranked

\* put inserts or replaces the row of the fingerprint and text.
Put(e) ==
    /\ embedding[e].step = "put"
    /\ LET old == RowsFor(embedding[e].got, embedding[e].text)
       IN  cache' = (cache \ old) \cup
                      {[key |-> <<Fingerprint(embedding[e].got), embedding[e].text>>,
                        by |-> embedding[e].got, day |-> today]}
    /\ embedding' = [embedding EXCEPT ![e].step = "done"]
    /\ UNCHANGED <<model, today>> /\ UNCHANGED annealVars /\ UNCHANGED ranked

UseEmbedding(e) ==
    /\ embedding[e].step = "done"
    /\ embedding' = [embedding EXCEPT ![e] = NoEmbedding]
    /\ UNCHANGED <<model, cache, today>> /\ UNCHANGED annealVars /\ UNCHANGED ranked

PruneOlderThan(cutoff) ==
    /\ cache' = {row \in cache : row.day >= cutoff}
    /\ UNCHANGED <<model, embedding, today>> /\ UNCHANGED annealVars /\ UNCHANGED ranked

DayPasses ==
    /\ today < MaxAge /\ today' = today + 1
    /\ UNCHANGED <<model, cache, embedding>> /\ UNCHANGED annealVars /\ UNCHANGED ranked

\* rerank: keyword scores are rescaled to the span of the candidates, so that
\* they weigh against the cosines; here both are multiplied by that span.
BlendedAsScored(fts, texts, i) ==
    FtsWeight * fts[texts[i]] + EmbeddingWeight * CosineOf[texts[i]]

Blended(fts, texts, i) ==
    LET scores == {fts[texts[j]] : j \in DOMAIN texts}
        span == Max(scores) - Min(scores)
    IN  IF span = 0 THEN EmbeddingWeight * CosineOf[texts[i]]
        ELSE FtsWeight * (fts[texts[i]] - Min(scores)) + EmbeddingWeight * CosineOf[texts[i]] * span

Rerank(fts, texts) ==
    LET Before(i, j) == \/ Blended(fts, texts, i) > Blended(fts, texts, j)
                        \/ Blended(fts, texts, i) = Blended(fts, texts, j) /\ i < j
    IN  SetToSortSeq(DOMAIN texts, Before)

RankTexts(texts) ==
    /\ ranked.texts = << >>
    /\ ranked' = [texts |-> texts, order |-> Rerank(FtsOf, texts)]
    /\ UNCHANGED cacheVars /\ UNCHANGED annealVars

-----------------------------------------------------------------------------
AnnealInit ==
    /\ rawLogs = {} /\ logged = {} /\ digested = {} /\ overlooked = {}
    /\ cycle = [a \in Annealer |-> Awake] /\ broken = 0

CacheInit ==
    /\ model \in Model /\ cache = {} /\ today = 0
    /\ embedding = [e \in Embedder |-> NoEmbedding]

RankInit == ranked = [texts |-> << >>, order |-> << >>]

UpkeepInit == AnnealInit /\ CacheInit /\ RankInit

AnnealNext ==
    \/ \E r \in RawLog : WriteLog(r)
    \/ \E a \in Annealer : AnnealReads(a) \/ Summarized(a) \/ WriteState(a) \/ Purge(a)

CacheNext ==
    \/ \E m \in Model : Configure(m)
    \/ \E e \in Embedder :
         \/ \E t \in Text : LookUp(e, t)
         \/ Embedded(e) \/ EmbedFails(e) \/ Put(e) \/ UseEmbedding(e)
    \/ \E cutoff \in 1..MaxAge : PruneOlderThan(cutoff)
    \/ DayPasses

RankNext == \E n \in 1..Cardinality(Candidate) : \E texts \in [1..n -> Candidate] : RankTexts(texts)

UpkeepNext == AnnealNext \/ CacheNext \/ RankNext
UpkeepSpec == UpkeepInit /\ [][UpkeepNext]_upkeepVars

-----------------------------------------------------------------------------
UpkeepTypeOK ==
    /\ rawLogs \subseteq logged /\ logged \subseteq RawLog
    /\ digested \cup overlooked \subseteq logged /\ broken \in 0..MaxBroken
    /\ \A a \in Annealer : cycle[a].read \cup cycle[a].missed \subseteq logged
    /\ model \in Model /\ today \in 0..MaxAge /\ \A row \in cache : row.day \in 0..MaxAge
    /\ ranked.order \in [DOMAIN ranked.texts -> Nat]

\* A raw log is purged only when a finished state file was made from it, whatever
\* fails or is killed in between and with several cycles at once; the logs that
\* came in while the purging cycle was waiting are the ones that are lost.
DigestedBeforePurged == logged \ rawLogs \subseteq digested \cup overlooked

\* Switching the model never makes the cache hand out a vector of another model
\* (embeddings.py:338-340).
VectorsAreOfTheirModel ==
    \A e \in Embedder : embedding[e].step = "done" => embedding[e].got = embedding[e].for

\* The raw magnitude of the keyword scores does not matter for the order
\* (embeddings.py:262-265): scores on another scale give the same ranking.
RankIgnoresScale ==
    ranked.texts # << >> =>
        ranked.order = Rerank([t \in Candidate |-> 10 * FtsOf[t] + 3], ranked.texts)

-----------------------------------------------------------------------------
(***************************************************************************)
(* What a run learns from earlier runs (memory/, fleet/memory.py): issue    *)
(* runs on a worker ask the coordinator for the episodes of related issues, *)
(* note their plan in the worker's scratch pad, and when the pull request   *)
(* is open have the outcome recorded as the task's one episode.  Requests   *)
(* go over HTTP with a time limit and their failures are swallowed.         *)
(***************************************************************************)
CONSTANTS
    MemoryTask,        \* tasks, each for one issue
    Related,           \* Related[t]: tasks whose issue has a term of t's issue
    Limit,             \* episodes shown to a run at most
    PadCap,            \* entries a task's scratch pad keeps
    MaxRunAttempts,    \* bound: runs of one task
    MaxMemoryTroubles  \* bound: failures, crashes, requests lost or late

ASSUME RunMemoryAssumption ==
    /\ Related \in [MemoryTask -> SUBSET MemoryTask]
    /\ Limit \in Nat \ {0} /\ PadCap \in Nat \ {0}
    /\ MaxRunAttempts \in Nat \ {0} /\ MaxMemoryTroubles \in Nat

VARIABLES
    work,     \* what the run of each task is doing
    attempt,  \* runs of each task so far
    shownTo,    \* the episodes the run was shown: tasks with the attempt recorded
    pad,      \* _entries: the attempts whose plans the scratch pad holds
    episode,  \* episodes: the attempt in the task's row, 0 without one
    late,     \* requests given up that the coordinator may still serve
    opened,   \* history: the attempts that opened a pull request
    memoryTroubles

runMemoryVars == <<work, attempt, shownTo, pad, episode, late, opened, memoryTroubles>>

-----------------------------------------------------------------------------
MemoryTrouble == memoryTroubles < MaxMemoryTroubles /\ memoryTroubles' = memoryTroubles + 1

Goes(t, from, to) == work[t] = from /\ work' = [work EXCEPT ![t] = to]

\* EpisodicStore.search, which finds the task's own earlier episode too: the
\* best Limit of the rows that match, in an order bm25 decides.
Matching(t) == {<<u, episode[u]>> : u \in {v \in Related[t] : episode[v] # 0}}
Best(found) == {s \in SUBSET found : Cardinality(s) = IF Cardinality(found) < Limit
                                                     THEN Cardinality(found) ELSE Limit}

\* MemoryManager.assemble_context on the coordinator.  The worker adds its own
\* pad, which is empty when a run asks.
IsShown(t, episodes) == shownTo' = [shownTo EXCEPT ![t] = episodes]

\* execute_issue, up to the request for the context.
BeginRun(t) ==
    /\ Goes(t, "idle", "asking") /\ attempt[t] < MaxRunAttempts
    /\ attempt' = [attempt EXCEPT ![t] = @ + 1]
    /\ UNCHANGED <<shownTo, pad, episode, late, opened, memoryTroubles>>

Assemble(t) ==
    /\ Goes(t, "asking", "drafting")
    /\ \E episodes \in Best(Matching(t)) : IsShown(t, episodes)
    /\ UNCHANGED <<attempt, pad, episode, late, opened, memoryTroubles>>

AssembleFails(t) ==
    /\ Goes(t, "asking", "drafting") /\ MemoryTrouble
    /\ IsShown(t, {})
    /\ UNCHANGED <<attempt, pad, episode, late, opened>>

\* ScratchPad.append: a deque drops its oldest entry.
KeptPages(pages) == IF Len(pages) > PadCap THEN Tail(pages) ELSE pages

DraftPlan(t) ==
    /\ Goes(t, "drafting", "applying")
    /\ pad' = [pad EXCEPT ![t] = KeptPages(Append(@, attempt[t]))]
    /\ UNCHANGED <<attempt, shownTo, episode, late, opened, memoryTroubles>>

OpenPullRequest(t) ==
    /\ Goes(t, "applying", "recording")
    /\ opened' = opened \cup {<<t, attempt[t]>>}
    /\ UNCHANGED <<attempt, shownTo, pad, episode, late, memoryTroubles>>

\* _execute's finally clause: the task's pad is dropped however the run ended.
ClearedOnSuccess(t) == pad' = IF work[t] = "recording" THEN [pad EXCEPT ![t] = << >>] ELSE pad
Cleared(t) == pad' = [pad EXCEPT ![t] = << >>]

RunFails(t) ==
    /\ work[t] \in {"asking", "drafting", "applying"} /\ MemoryTrouble
    /\ work' = [work EXCEPT ![t] = "idle"]
    /\ Cleared(t)
    /\ UNCHANGED <<attempt, shownTo, episode, late, opened>>

-----------------------------------------------------------------------------
\* EpisodicStore.record: an upsert, whatever the row holds already.
Upsert(t, n) == episode' = [episode EXCEPT ![t] = n]

RecordEarly(t) ==
    /\ Goes(t, "applying", "settling")
    /\ Upsert(t, attempt[t]) /\ Cleared(t)
    /\ UNCHANGED <<attempt, shownTo, late, opened, memoryTroubles>>

\* record_outcome_async drops the pad whether or not the request succeeded.
Record(t) ==
    /\ Goes(t, "recording", "settling")
    /\ Upsert(t, attempt[t]) /\ Cleared(t)
    /\ UNCHANGED <<attempt, shownTo, late, opened, memoryTroubles>>

RecordGivenUp(t) ==
    /\ Goes(t, "recording", "settling") /\ MemoryTrouble
    /\ late' \in {late, late \cup {<<t, attempt[t]>>}}
    /\ Cleared(t)
    /\ UNCHANGED <<attempt, shownTo, episode, opened>>

RecordLate(r) ==
    /\ r \in late /\ late' = late \ {r}
    /\ Upsert(r[1], r[2])
    /\ UNCHANGED <<work, attempt, shownTo, pad, opened, memoryTroubles>>

\* The row of the task says completed, and the task does not run again.
Settle(t) ==
    /\ Goes(t, "settling", "done")
    /\ Cleared(t)
    /\ UNCHANGED <<attempt, shownTo, episode, late, opened, memoryTroubles>>

\* The worker's process ends: unfinished tasks run again, pads are gone, and a
\* request on its way may still arrive.
WorkerRestarts ==
    /\ MemoryTrouble
    /\ work' = [t \in MemoryTask |-> IF work[t] = "done" THEN "done" ELSE "idle"]
    /\ pad' = [t \in MemoryTask |-> << >>]
    /\ \E sent \in SUBSET {t \in MemoryTask : work[t] = "recording"} :
           late' = late \cup {<<t, attempt[t]>> : t \in sent}
    /\ UNCHANGED <<attempt, shownTo, episode, opened>>

-----------------------------------------------------------------------------
RunMemoryInit ==
    /\ work = [t \in MemoryTask |-> "idle"]
    /\ attempt = [t \in MemoryTask |-> 0]
    /\ shownTo = [t \in MemoryTask |-> {}]
    /\ pad = [t \in MemoryTask |-> << >>]
    /\ episode = [t \in MemoryTask |-> 0]
    /\ late = {} /\ opened = {} /\ memoryTroubles = 0

RunMemoryNext ==
    \/ \E t \in MemoryTask :
           \/ BeginRun(t) \/ Assemble(t) \/ AssembleFails(t) \/ DraftPlan(t)
           \/ OpenPullRequest(t) \/ RunFails(t)
           \/ Record(t) \/ RecordGivenUp(t) \/ Settle(t)
    \/ \E r \in late : RecordLate(r)
    \/ WorkerRestarts

RunMemorySpec == RunMemoryInit /\ [][RunMemoryNext]_runMemoryVars

-----------------------------------------------------------------------------
Working == {"idle", "asking", "drafting", "applying", "recording", "settling", "done"}

\* The variables hold what the stores and a run can hold.
RunMemoryTypeOK ==
    /\ work \in [MemoryTask -> Working]
    /\ attempt \in [MemoryTask -> 0..MaxRunAttempts]
    /\ episode \in [MemoryTask -> 0..MaxRunAttempts]
    /\ \A t \in MemoryTask :
           /\ shownTo[t] \subseteq MemoryTask \X (1..MaxRunAttempts)
           /\ Cardinality(shownTo[t]) <= Limit
           /\ Len(pad[t]) <= PadCap
           /\ \A i \in DOMAIN pad[t] : pad[t][i] \in 1..MaxRunAttempts
    /\ late \cup opened \subseteq MemoryTask \X (1..MaxRunAttempts)
    /\ memoryTroubles \in 0..MaxMemoryTroubles

\* A run is taught only what worked: every episode it is shown is of an attempt
\* that opened its pull request (gh/executor.py records at the very end), no
\* matter which requests were lost, late or cut off by a restart.
TaughtByWhatWorked == \A t \in MemoryTask : shownTo[t] \subseteq opened

\* A scratch pad belongs to one attempt: nothing of an earlier attempt of the
\* task is left in it when the next one starts.
PadIsOfThisAttempt ==
    \A t \in MemoryTask : \A i \in DOMAIN pad[t] : work[t] # "idle" /\ pad[t][i] = attempt[t]
=============================================================================
