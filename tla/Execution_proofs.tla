--------------------------- MODULE Execution_proofs ---------------------------
(***************************************************************************)
(* Proofs about the components that a run goes through: the worker pool,    *)
(* the handoff of entries, the slots of a backend, external agents, SSH     *)
(* sessions, gates and gauntlets, and the checks in the sandbox.  Each has  *)
(* an invariant that its steps keep; a behaviour of MCExecution moves one   *)
(* component and leaves the others alone, so the conjunction is inductive.  *)
(***************************************************************************)
EXTENDS MCExecution, FiniteSetTheorems, SequenceTheorems, TLAPS

-----------------------------------------------------------------------------
(* The worker pool *)

\* The list names workers in the order they were made.
ListInv ==
    /\ loops \in Seq({"ready", "busy", "gone"}) /\ tracked \in Seq(Nat)
    /\ \A i \in DOMAIN tracked : tracked[i] \in i..Len(loops)
    /\ \A i, j \in DOMAIN tracked : i < j => tracked[i] < tracked[j]

\* A worker that goes on is in the list, or a scale-down has cut it off; what a
\* stop has not cancelled was cut off or came later than the first workers; a
\* stop leaves nobody in the list.
CutOff(w) == scalings > 0 /\ \E n \in Targets \cup {FirstCount} : w > n
TrackedInv ==
    /\ \A w \in AliveLoops : w \in Members(tracked) \/ CutOff(w)
    /\ daemon = "cancelling" => \A w \in AliveLoops : w \in awaited \/ CutOff(w)
    /\ daemon = "stopped" => tracked = <<>> /\ \A w \in AliveLoops : CutOff(w)
    /\ FirstCount <= Len(loops)

\* What a request still has to put, and where it is going.
RequestInv ==
    \A c \in Scaling : /\ scaling[c].todo > 0 /\ scaling[c].target \in Targets
                       /\ scalings > 0

\* While requests do not cross, at most one is under way, and the workers left
\* when its sentinels and those on the queue are taken are its target.
CountInv ==
    daemon = "running" /\ ~crossed =>
        /\ Len(tracked) > 0
        /\ Scaling = {} => Cardinality(AliveLoops) = entries.stops + Len(tracked)
        /\ \A c \in Scaling :
              /\ Scaling = {c} /\ scaling[c].target < Len(tracked)
              /\ Cardinality(AliveLoops) = entries.stops + Unsent(c) + scaling[c].target

PoolInv ==
    /\ PoolTypeOK /\ entries \in [tasks : Nat, stops : Nat]
    /\ ListInv /\ TrackedInv /\ RequestInv /\ CountInv

\* Workers are the numbers up to the length of loops, so those that go on are
\* finitely many.
LEMMA AliveFinite ==
    ASSUME PoolInv
    PROVE  /\ Len(loops) \in Nat /\ DOMAIN loops = 1..Len(loops)
           /\ Len(tracked) \in Nat /\ DOMAIN tracked = 1..Len(tracked)
           /\ IsFiniteSet(AliveLoops) /\ Cardinality(AliveLoops) \in Nat
<1>1. /\ Len(loops) \in Nat /\ DOMAIN loops = 1..Len(loops)
      /\ Len(tracked) \in Nat /\ DOMAIN tracked = 1..Len(tracked)
  BY LenProperties DEF PoolInv, ListInv
<1>2. IsFiniteSet(1..Len(loops))
  BY <1>1, FS_Interval
<1>3. AliveLoops \subseteq 1..Len(loops)
  BY <1>1 DEF AliveLoops
<1> QED
  BY <1>1, <1>2, <1>3, FS_Subset, FS_CardinalityType

\* A request under way has sentinels left to put and a target.
LEMMA ScalingTyped ==
    ASSUME PoolInv, NEW c \in PoolCaller
    PROVE  /\ scaling[c].todo \in 0..MaxWorkers /\ scaling[c].target \in Nat
           /\ Unsent(c) = scaling[c].todo /\ Unsent(c) \in Nat
<1>1. scaling[c] \in [todo : 0..MaxWorkers, target : Targets \cup {0}]
  BY DEF PoolInv, PoolTypeOK
<1>2. scaling[c].todo \in 0..MaxWorkers /\ scaling[c].target \in Targets \cup {0}
  BY <1>1
<1>3. Targets \cup {0} \subseteq Nat /\ 0..MaxWorkers \subseteq Nat
  BY PoolAssumption
<1> QED
  BY <1>2, <1>3 DEF Unsent

\* A pool starts with the workers asked for and nothing on the queue.
LEMMA PoolInitial == PoolInit => PoolInv
<1> SUFFICES ASSUME PoolInit PROVE PoolInv
  OBVIOUS
<1> DEFINE f == [i \in 1..FirstCount |-> "ready"]
           g == [i \in 1..FirstCount |-> i]
<1>1. FirstCount \in Nat /\ FirstCount > 0 /\ FirstCount <= MaxWorkers
  BY PoolAssumption
<1>2. f \in Seq({"ready", "busy", "gone"}) /\ g \in Seq(Nat)
  BY <1>1, SeqDef
<1>3. Len(loops) = FirstCount /\ Len(tracked) = FirstCount
  BY <1>1, <1>2, LenProperties DEF PoolInit
<1>4. ListInv
  BY <1>1, <1>2, <1>3 DEF PoolInit, ListInv
<1>5. Scaling = {}
  BY DEF PoolInit, Scaling
<1>6. AliveLoops = 1..FirstCount
  BY DEF PoolInit, AliveLoops
<1>7. Cardinality(AliveLoops) = FirstCount
  BY <1>1, <1>6, FS_Interval
<1>8. Members(tracked) = 1..FirstCount
  BY DEF PoolInit, Members
<1>9. TrackedInv
  BY <1>1, <1>3, <1>6, <1>8 DEF PoolInit, TrackedInv
<1>10. PoolTypeOK
  <2>1. OnQueue = 0 /\ OnQueue \in 0..QueueDepth
    BY PoolAssumption DEF PoolInit, OnQueue
  <2>2. scaling \in [PoolCaller -> [todo : 0..MaxWorkers, target : Targets \cup {0}]]
    BY PoolAssumption DEF PoolInit, NoScaling
  <2>3. /\ \A w \in DOMAIN loops : loops[w] \in {"ready", "busy", "gone"}
        /\ Members(tracked) \cup awaited \subseteq DOMAIN loops
    BY <1>8 DEF PoolInit
  <2>4. daemon = "running" /\ submitted = 0 /\ scalings = 0 /\ crossed \in BOOLEAN
    BY DEF PoolInit
  <2>5. Len(loops) <= MaxWorkers
    BY <1>1, <1>3
  <2>6. submitted \in 0..MaxWork /\ scalings \in 0..MaxScalings
    BY <2>4, PoolAssumption
  <2> QED
    BY <2>1, <2>2, <2>3, <2>4, <2>5, <2>6 DEF PoolTypeOK
<1> QED
  BY <1>1, <1>3, <1>4, <1>5, <1>7, <1>9, <1>10
  DEF PoolInit, PoolInv, RequestInv, CountInv

\* A worker that takes a task or ends one goes on; one that leaves is one less.
LEMMA WorkerTurns ==
    ASSUME PoolInv, NEW w \in DOMAIN loops, loops[w] # "gone",
           NEW s \in {"ready", "busy", "gone"}, Becomes(w, s)
    PROVE  /\ loops' \in Seq({"ready", "busy", "gone"}) /\ Len(loops') = Len(loops)
           /\ \A v \in DOMAIN loops' : loops'[v] \in {"ready", "busy", "gone"}
           /\ AliveLoops' = IF s = "gone" THEN AliveLoops \ {w} ELSE AliveLoops
           /\ Cardinality(AliveLoops') =
                 IF s = "gone" THEN Cardinality(AliveLoops) - 1 ELSE Cardinality(AliveLoops)
<1>1. w \in 1..Len(loops)
  BY AliveFinite
<1>2. /\ loops' \in Seq({"ready", "busy", "gone"}) /\ Len(loops') = Len(loops)
      /\ \A v \in 1..Len(loops) : loops'[v] = IF v = w THEN s ELSE loops[v]
  BY <1>1, ExceptSeq DEF Becomes, PoolInv, ListInv
<1>3. DOMAIN loops' = DOMAIN loops
  BY <1>2, LenProperties, AliveFinite
<1>4. \A v \in DOMAIN loops' : loops'[v] \in {"ready", "busy", "gone"}
  BY <1>2, <1>3, AliveFinite DEF PoolInv, PoolTypeOK
<1>5. AliveLoops' = IF s = "gone" THEN AliveLoops \ {w} ELSE AliveLoops
  BY <1>2, <1>3, AliveFinite DEF AliveLoops
<1>6. w \in AliveLoops
  BY DEF AliveLoops
<1> QED
  BY <1>2, <1>4, <1>5, <1>6, AliveFinite, FS_RemoveElement

\* The invariant but for the count, after a step that changes no list.
LEMMA TurnKeeps ==
    ASSUME PoolInv, NEW w \in DOMAIN loops, loops[w] # "gone",
           NEW s \in {"ready", "busy", "gone"}, Becomes(w, s),
           UNCHANGED <<daemon, tracked, awaited, scaling, submitted, scalings, crossed>>,
           entries' \in [tasks : Nat, stops : Nat], OnQueue' \in 0..QueueDepth
    PROVE  PoolTypeOK' /\ ListInv' /\ TrackedInv' /\ RequestInv'
<1>1. ListInv'
  BY WorkerTurns DEF PoolInv, ListInv
<1>2. DOMAIN loops' = DOMAIN loops
  BY WorkerTurns, AliveFinite, LenProperties
<1>3. PoolTypeOK'
  BY <1>2, WorkerTurns, AliveFinite DEF PoolInv, PoolTypeOK, Members
<1>4. TrackedInv'
  BY WorkerTurns DEF PoolInv, TrackedInv, CutOff, Members
<1> QED
  BY <1>1, <1>3, <1>4 DEF PoolInv, RequestInv, Scaling

\* A worker's turn: the sentinel it takes leaves the queue as its loop ends.
LEMMA WorkerKeepsPoolInv ==
    ASSUME PoolInv, NEW w \in 1..MaxWorkers, WorkerTurn(w)
    PROVE  PoolInv'
<1> USE DEF PoolInv
<1>0. entries.tasks \in Nat /\ entries.stops \in Nat /\ QueueDepth \in Nat
  BY PoolAssumption
<1>1. CASE TakeWork(w)
  <2>1. w \in DOMAIN loops /\ loops[w] = "ready" /\ Becomes(w, "busy")
    BY <1>1 DEF TakeWork, IsLoop
  <2>2. entries' \in [tasks : Nat, stops : Nat] /\ entries'.stops = entries.stops
    BY <1>0, <1>1 DEF TakeWork
  <2>3. OnQueue' \in 0..QueueDepth
    BY <1>0, <1>1 DEF TakeWork, OnQueue, PoolTypeOK
  <2>4. PoolTypeOK' /\ ListInv' /\ TrackedInv' /\ RequestInv'
    BY <1>1, <2>1, <2>2, <2>3, TurnKeeps DEF TakeWork
  <2>5. CountInv'
    BY <1>1, <2>1, <2>2, WorkerTurns DEF TakeWork, CountInv, Scaling, Unsent
  <2> QED
    BY <2>2, <2>4, <2>5
<1>2. CASE EndWork(w)
  <2>1. w \in DOMAIN loops /\ loops[w] = "busy" /\ Becomes(w, "ready")
    BY <1>2 DEF EndWork, IsLoop
  <2>2. entries' = entries /\ OnQueue' = OnQueue
    BY <1>2 DEF EndWork, OnQueue
  <2>4. PoolTypeOK' /\ ListInv' /\ TrackedInv' /\ RequestInv'
    BY <1>2, <2>1, <2>2, TurnKeeps DEF EndWork, PoolTypeOK
  <2>5. CountInv'
    BY <1>2, <2>1, <2>2, WorkerTurns DEF EndWork, CountInv, Scaling, Unsent
  <2> QED
    BY <2>2, <2>4, <2>5
<1>3. CASE TakeSentinel(w)
  <2>1. w \in DOMAIN loops /\ loops[w] = "ready" /\ Becomes(w, "gone")
    BY <1>3 DEF TakeSentinel, IsLoop
  <2>2. entries' \in [tasks : Nat, stops : Nat] /\ entries'.stops = entries.stops - 1
    BY <1>0, <1>3 DEF TakeSentinel
  <2>3. OnQueue' \in 0..QueueDepth
    BY <1>0, <1>3 DEF TakeSentinel, OnQueue, PoolTypeOK
  <2>4. PoolTypeOK' /\ ListInv' /\ TrackedInv' /\ RequestInv'
    BY <1>3, <2>1, <2>2, <2>3, TurnKeeps DEF TakeSentinel
  <2>5. Cardinality(AliveLoops') = Cardinality(AliveLoops) - 1
    BY <2>1, WorkerTurns
  <2>6. CountInv'
    <3> SUFFICES ASSUME daemon = "running", ~crossed
                 PROVE  CountInv'
      BY <1>3 DEF TakeSentinel, CountInv
    <3>1. /\ tracked' = tracked /\ scaling' = scaling /\ Scaling' = Scaling
          /\ \A c \in PoolCaller : Unsent(c)' = Unsent(c)
      BY <1>3 DEF TakeSentinel, Scaling, Unsent
    <3>2. \A c \in Scaling : c \in PoolCaller /\ Unsent(c) \in Nat /\ scaling[c].target \in Nat
      <4> SUFFICES ASSUME NEW c \in Scaling
                   PROVE  c \in PoolCaller /\ Unsent(c) \in Nat /\ scaling[c].target \in Nat
        OBVIOUS
      <4>1. c \in PoolCaller
        BY DEF Scaling
      <4> QED
        BY <4>1, ScalingTyped
    <3>3. Len(tracked) \in Nat /\ Cardinality(AliveLoops) \in Nat /\ entries.stops \in Nat
      BY <1>0, AliveFinite
    <3>4. /\ Scaling = {} => Cardinality(AliveLoops) = entries.stops + Len(tracked)
          /\ \A c \in Scaling :
                Cardinality(AliveLoops) = entries.stops + Unsent(c) + scaling[c].target
      BY <1>0 DEF CountInv
    <3>5. Scaling = {} => Cardinality(AliveLoops') = entries'.stops + Len(tracked)
      BY <2>2, <2>5, <3>3, <3>4
    <3>6. \A c \in Scaling :
             Cardinality(AliveLoops') = entries'.stops + Unsent(c) + scaling[c].target
      BY <2>2, <2>5, <3>2, <3>3, <3>4
    <3>7. /\ Len(tracked) > 0
          /\ \A c \in Scaling : Scaling = {c} /\ scaling[c].target < Len(tracked)
      BY <1>0 DEF CountInv
    <3>8. /\ Len(tracked') > 0
          /\ Scaling' = {} => Cardinality(AliveLoops') = entries'.stops + Len(tracked')
      BY <3>1, <3>5, <3>7
    <3>9. \A c \in Scaling' :
             /\ Scaling' = {c} /\ scaling'[c].target < Len(tracked')
             /\ Cardinality(AliveLoops') = entries'.stops + Unsent(c)' + scaling'[c].target
      BY <3>1, <3>2, <3>6, <3>7
    <3> QED
      BY <3>8, <3>9 DEF CountInv
  <2> QED
    BY <2>2, <2>4, <2>6
<1>4. CASE LeaveLoop(w)
  <2>1. w \in DOMAIN loops /\ loops[w] = "ready" /\ Becomes(w, "gone")
    BY <1>4 DEF LeaveLoop, IsLoop
  <2>2. entries' = entries /\ OnQueue' = OnQueue
    BY <1>4 DEF LeaveLoop, OnQueue
  <2>4. PoolTypeOK' /\ ListInv' /\ TrackedInv' /\ RequestInv'
    BY <1>4, <2>1, <2>2, TurnKeeps DEF LeaveLoop, PoolTypeOK
  <2>5. CountInv'
    BY <1>4 DEF LeaveLoop, CountInv
  <2> QED
    BY <2>2, <2>4, <2>5
<1> QED
  BY <1>1, <1>2, <1>3, <1>4 DEF WorkerTurn

\* Submitting, and the steps of a stop, leave requests alone.
LEMMA SubmitKeepsPoolInv ==
    ASSUME PoolInv, SubmitWork
    PROVE  PoolInv'
<1> USE DEF PoolInv
<1>1. entries.tasks \in Nat /\ entries.stops \in Nat /\ QueueDepth \in Nat /\ MaxWork \in Nat
  BY PoolAssumption
<1>2. entries' \in [tasks : Nat, stops : Nat] /\ entries'.stops = entries.stops
  BY <1>1 DEF SubmitWork
<1>3. OnQueue' \in 0..QueueDepth
  BY <1>1 DEF SubmitWork, OnQueue, Room, PoolTypeOK
<1>4. submitted' \in 0..MaxWork
  BY <1>1 DEF SubmitWork, PoolTypeOK
<1>5. PoolTypeOK'
  BY <1>3, <1>4 DEF SubmitWork, PoolTypeOK, Members
<1>6. ListInv' /\ TrackedInv'
  BY DEF SubmitWork, ListInv, TrackedInv, CutOff, AliveLoops, Members
<1>7. RequestInv' /\ CountInv'
  BY <1>2 DEF SubmitWork, RequestInv, Scaling, CountInv, Unsent, AliveLoops
<1> QED
  BY <1>2, <1>5, <1>6, <1>7

\* A stop begins: the account of workers is of a running daemon only.
LEMMA StopKeepsPoolInv ==
    ASSUME PoolInv, NEW drain \in BOOLEAN, BeginStop(drain)
    PROVE  PoolInv'
<1> USE DEF PoolInv
<1>1. /\ UNCHANGED <<loops, tracked, entries, scaling, submitted, scalings>>
      /\ daemon' \in {"draining", "cancelling"} /\ awaited' = Members(tracked)
  BY DEF BeginStop
<1>2. crossed' \in BOOLEAN
  BY DEF BeginStop, PoolTypeOK
<1>3. PoolTypeOK'
  BY <1>1, <1>2 DEF PoolTypeOK, Members, OnQueue
<1>4. ListInv' /\ TrackedInv' /\ RequestInv' /\ CountInv'
  BY <1>1 DEF ListInv, TrackedInv, CutOff, AliveLoops, Members, RequestInv,
              Scaling, CountInv
<1> QED
  BY <1>1, <1>3, <1>4

\* What ending some loops leaves of the others.
LEMMA LoopsEnd ==
    ASSUME PoolInv, NEW ws, EndLoops(ws)
    PROVE  /\ loops' \in Seq({"ready", "busy", "gone"})
           /\ DOMAIN loops' = DOMAIN loops /\ Len(loops') = Len(loops)
           /\ AliveLoops' = AliveLoops \ ws
           /\ \A w \in DOMAIN loops' : loops'[w] \in {"ready", "busy", "gone"}
<1>1. loops' = [w \in 1..Len(loops) |-> IF w \in ws THEN "gone" ELSE loops[w]]
  BY AliveFinite DEF EndLoops
<1>2. loops' \in [1..Len(loops) -> {"ready", "busy", "gone"}]
  BY <1>1, AliveFinite DEF PoolInv, PoolTypeOK
<1>3. loops' \in Seq({"ready", "busy", "gone"})
  BY <1>2, AliveFinite, SeqDef
<1>4. DOMAIN loops' = DOMAIN loops /\ Len(loops') = Len(loops)
  BY <1>2, <1>3, AliveFinite, LenProperties
<1> QED
  BY <1>1, <1>2, <1>3, <1>4, AliveFinite DEF AliveLoops

\* A drain ends with those awaited gone, and cancels whoever is in the list.
LEMMA EndDrainingKeepsPoolInv ==
    ASSUME PoolInv, EndDraining
    PROVE  PoolInv'
<1> USE DEF PoolInv
<1>1. /\ UNCHANGED <<tracked, entries, scaling, submitted, scalings, crossed>>
      /\ daemon' = "cancelling" /\ EndLoops(awaited) /\ awaited' = Members(tracked)
  BY DEF EndDraining
<1>2. /\ loops' \in Seq({"ready", "busy", "gone"})
      /\ DOMAIN loops' = DOMAIN loops /\ Len(loops') = Len(loops)
      /\ AliveLoops' = AliveLoops \ awaited
      /\ \A w \in DOMAIN loops' : loops'[w] \in {"ready", "busy", "gone"}
  BY <1>1, LoopsEnd
<1>3. Members(tracked') = Members(tracked)
  BY <1>1 DEF Members
<1>4. PoolTypeOK'
  BY <1>1, <1>2, <1>3 DEF PoolTypeOK, OnQueue
<1>5. ListInv'
  BY <1>1, <1>2 DEF ListInv
<1>6. TrackedInv'
  BY <1>1, <1>2, <1>3 DEF TrackedInv, CutOff
<1> QED
  BY <1>1, <1>4, <1>5, <1>6 DEF RequestInv, Scaling, CountInv

\* A stop ends all loops but those that were cut off or added while it lasted, and
\* empties the list.
LEMMA EndStopKeepsPoolInv ==
    ASSUME PoolInv, EndStop
    PROVE  PoolInv'
<1> USE DEF PoolInv
<1>1. /\ UNCHANGED <<awaited, entries, scaling, submitted, scalings, crossed>>
      /\ daemon = "cancelling" /\ daemon' = "stopped" /\ tracked' = <<>> /\ EndLoops(awaited)
  BY DEF EndStop
<1>2. /\ loops' \in Seq({"ready", "busy", "gone"})
      /\ DOMAIN loops' = DOMAIN loops /\ Len(loops') = Len(loops)
      /\ AliveLoops' = AliveLoops \ awaited
      /\ \A w \in DOMAIN loops' : loops'[w] \in {"ready", "busy", "gone"}
  BY <1>1, LoopsEnd
<1>6. Members(tracked') = {} /\ Len(tracked') = 0 /\ tracked' \in Seq(Nat) /\ DOMAIN tracked' = {}
  BY <1>1 DEF Members
<1>7. ListInv'
  BY <1>2, <1>6 DEF ListInv
<1>8. TrackedInv'
  BY <1>1, <1>2 DEF TrackedInv, CutOff
<1>9. PoolTypeOK'
  BY <1>1, <1>2, <1>6 DEF PoolTypeOK, OnQueue
<1> QED
  BY <1>1, <1>7, <1>8, <1>9 DEF RequestInv, Scaling, CountInv

\* A sequence and one more.
LEMMA Extended ==
    ASSUME NEW S, NEW s \in Seq(S), NEW t \in Seq(S)
    PROVE  /\ s \o t \in Seq(S) /\ Len(s \o t) = Len(s) + Len(t)
           /\ Len(s) \in Nat /\ Len(t) \in Nat
           /\ DOMAIN (s \o t) = 1..(Len(s) + Len(t))
           /\ \A i \in 1..Len(s) : (s \o t)[i] = s[i]
           /\ \A i \in 1..Len(t) : (s \o t)[Len(s) + i] = t[i]
<1> DEFINE r == s \o t
<1>1. Len(s) \in Nat /\ Len(t) \in Nat
  BY LenProperties
<1>2. r \in Seq(S) /\ Len(r) = Len(s) + Len(t)
  BY ConcatProperties
<1>3. \A i \in 1..(Len(s) + Len(t)) : r[i] = IF i <= Len(s) THEN s[i] ELSE t[i - Len(s)]
  BY ConcatProperties
<1>4. DOMAIN r = 1..(Len(s) + Len(t))
  BY <1>2, LenProperties
<1> HIDE DEF r
<1>5. ASSUME NEW i \in 1..Len(s)
      PROVE  r[i] = s[i]
  <2>1. i \in 1..(Len(s) + Len(t)) /\ i <= Len(s)
    BY <1>1
  <2> QED
    BY <1>3, <2>1
<1>6. ASSUME NEW i \in 1..Len(t)
      PROVE  r[Len(s) + i] = t[i]
  <2> DEFINE j == Len(s) + i
  <2>1. j \in 1..(Len(s) + Len(t)) /\ ~(j <= Len(s)) /\ j - Len(s) = i
    BY <1>1
  <2> HIDE DEF j
  <2>2. r[j] = t[i]
    BY <1>3, <2>1
  <2> QED
    BY <2>2 DEF j
<1> QED
  BY <1>1, <1>2, <1>4, <1>5, <1>6 DEF r

\* A request to grow adds the workers that are missing.
LEMMA ScaleUpKeepsPoolInv ==
    ASSUME PoolInv, NEW c \in PoolCaller, NEW n \in Targets, ScaleUp(c, n)
    PROVE  PoolInv'
<1> USE DEF PoolInv
<1> DEFINE more == n - Len(tracked)
           new == Len(loops) + 1 .. Len(loops) + more
           ready == [i \in 1..more |-> "ready"]
           names == [i \in 1..more |-> Len(loops) + i]
<1>1. /\ n \in Nat /\ n > 0 /\ more \in Nat /\ Len(loops) + more <= MaxWorkers
      /\ Len(loops) \in Nat /\ Len(tracked) \in Nat /\ MaxWorkers \in Nat
  BY PoolAssumption, AliveFinite DEF ScaleUp
<1>2. /\ loops' = loops \o ready /\ tracked' = tracked \o names
      /\ UNCHANGED <<daemon, awaited, entries, scaling, submitted>>
      /\ scalings' = scalings + 1 /\ scalings' \in 1..MaxScalings
      /\ crossed' = (crossed \/ Scaling # {} \/ daemon # "running")
  BY PoolAssumption DEF ScaleUp, Request, PoolTypeOK
<1> HIDE DEF more
<1>3. /\ ready \in Seq({"ready", "busy", "gone"}) /\ Len(ready) = more
      /\ names \in Seq(Nat) /\ Len(names) = more
      /\ \A i \in 1..more : ready[i] = "ready" /\ names[i] = Len(loops) + i
  <2>1. ready \in Seq({"ready", "busy", "gone"}) /\ names \in Seq(Nat)
    BY <1>1, SeqDef
  <2> QED
    BY <1>1, <2>1, LenProperties
<1> HIDE DEF ready, names
<1>4. /\ loops' \in Seq({"ready", "busy", "gone"}) /\ Len(loops') = Len(loops) + more
      /\ DOMAIN loops' = 1..(Len(loops) + more)
      /\ \A w \in 1..Len(loops) : loops'[w] = loops[w]
      /\ \A i \in 1..more : loops'[Len(loops) + i] = "ready"
  BY <1>2, <1>3, Extended DEF ListInv
<1>5. /\ tracked' \in Seq(Nat) /\ Len(tracked') = Len(tracked) + more
      /\ DOMAIN tracked' = 1..(Len(tracked) + more)
      /\ \A i \in 1..Len(tracked) : tracked'[i] = tracked[i]
      /\ \A i \in 1..more : tracked'[Len(tracked) + i] = Len(loops) + i
  <2> DEFINE r == tracked \o names
  <2>1. /\ r \in Seq(Nat) /\ Len(r) = Len(tracked) + Len(names)
        /\ DOMAIN r = 1..(Len(tracked) + Len(names))
        /\ \A i \in 1..Len(tracked) : r[i] = tracked[i]
        /\ \A i \in 1..Len(names) : r[Len(tracked) + i] = names[i]
    <3>1. tracked \in Seq(Nat) /\ names \in Seq(Nat)
      BY <1>3 DEF ListInv
    <3> QED
      BY <3>1, Extended
  <2>2. tracked' = r
    BY <1>2
  <2> HIDE DEF r
  <2> QED
    BY <1>3, <2>1, <2>2
<1>6. Len(tracked) <= Len(loops)
  BY AliveFinite DEF ListInv
<1>7. \A i \in DOMAIN tracked' : i \in 1..Len(tracked) \/ \E j \in 1..more : i = Len(tracked) + j
  <2> SUFFICES ASSUME NEW i \in 1..(Len(tracked) + more), i \notin 1..Len(tracked)
               PROVE  \E j \in 1..more : i = Len(tracked) + j
    BY <1>5
  <2>1. i - Len(tracked) \in 1..more /\ i = Len(tracked) + (i - Len(tracked))
    BY <1>1
  <2> QED
    BY <2>1
<1>8. ListInv'
  <2>1. \A i \in 1..Len(tracked) : tracked[i] \in i..Len(loops)
    BY AliveFinite DEF ListInv
  <2>2. ASSUME NEW i \in DOMAIN tracked'
        PROVE  tracked'[i] \in i..Len(loops')
    <3>1. CASE i \in 1..Len(tracked)
      BY <1>1, <1>4, <1>5, <2>1, <3>1
    <3>2. CASE \E j \in 1..more : i = Len(tracked) + j
      <4>1. PICK j \in 1..more : i = Len(tracked) + j
        BY <3>2
      <4>2. tracked'[i] = Len(loops) + j
        BY <1>5, <4>1
      <4> QED
        BY <1>1, <1>4, <1>6, <4>1, <4>2
    <3> QED
      BY <1>7, <3>1, <3>2
  <2>3. \A i, j \in 1..Len(tracked) : i < j => tracked[i] < tracked[j]
    BY AliveFinite DEF ListInv
  <2>4. ASSUME NEW i \in DOMAIN tracked', NEW j \in DOMAIN tracked', i < j
        PROVE  tracked'[i] < tracked'[j]
    <3>1. CASE j \in 1..Len(tracked)
      <4>1. i \in 1..Len(tracked)
        BY <1>1, <1>5, <2>4, <3>1
      <4> QED
        BY <1>5, <2>3, <2>4, <3>1, <4>1
    <3>2. CASE i \in 1..Len(tracked) /\ \E k \in 1..more : j = Len(tracked) + k
      <4>1. PICK k \in 1..more : j = Len(tracked) + k
        BY <3>2
      <4>2. tracked'[j] = Len(loops) + k /\ tracked'[i] = tracked[i] /\ tracked[i] \in i..Len(loops)
        BY <1>5, <2>1, <3>2, <4>1
      <4> QED
        BY <1>1, <4>1, <4>2
    <3>3. CASE (\E k \in 1..more : i = Len(tracked) + k) /\ \E k \in 1..more : j = Len(tracked) + k
      <4>1. PICK k \in 1..more, l \in 1..more : i = Len(tracked) + k /\ j = Len(tracked) + l
        BY <3>3
      <4>2. tracked'[i] = Len(loops) + k /\ tracked'[j] = Len(loops) + l
        BY <1>5, <4>1
      <4> QED
        BY <1>1, <2>4, <4>1, <4>2
    <3> QED
      BY <1>7, <3>1, <3>2, <3>3
  <2> QED
    BY <1>4, <1>5, <2>2, <2>4 DEF ListInv
<1>15. Members(tracked) \subseteq Members(tracked') /\ new \subseteq Members(tracked')
  <2>1. Members(tracked) = {tracked[i] : i \in 1..Len(tracked)}
    BY AliveFinite DEF Members
  <2>2. Members(tracked') = {tracked'[i] : i \in 1..(Len(tracked) + more)}
    BY <1>5 DEF Members
  <2>3. \A i \in 1..Len(tracked) : i \in 1..(Len(tracked) + more)
    BY <1>1
  <2>4. Members(tracked) \subseteq Members(tracked')
    BY <1>5, <2>1, <2>2, <2>3
  <2>5. ASSUME NEW w \in new
        PROVE  w \in Members(tracked')
    <3>1. PICK j \in 1..more : w = Len(loops) + j
      <4>1. w - Len(loops) \in 1..more /\ w = Len(loops) + (w - Len(loops))
        BY <1>1
      <4> QED
        BY <4>1
    <3>2. tracked'[Len(tracked) + j] = w
      BY <1>5, <3>1
    <3>3. Len(tracked) + j \in 1..(Len(tracked) + more)
      BY <1>1
    <3> QED
      BY <2>2, <3>2, <3>3
  <2> QED
    BY <2>4, <2>5
<1>9. AliveLoops' = AliveLoops \cup new
  <2>1. \A w \in new : loops'[w] = "ready"
    <3> SUFFICES ASSUME NEW w \in new PROVE loops'[w] = "ready"
      OBVIOUS
    <3>1. w - Len(loops) \in 1..more /\ w = Len(loops) + (w - Len(loops))
      BY <1>1
    <3> QED
      BY <1>4, <3>1
  <2>2. 1..(Len(loops) + more) = (1..Len(loops)) \cup new /\ (1..Len(loops)) \cap new = {}
    BY <1>1
  <2> QED
    BY <1>4, <2>1, <2>2, AliveFinite DEF AliveLoops
<1>10. TrackedInv'
  <2> daemon # "stopped"
    BY DEF ScaleUp, Request
  <2> QED
    BY <1>2, <1>15, <1>9, PoolAssumption DEF TrackedInv, CutOff, PoolTypeOK
<1>11. Cardinality(AliveLoops') = Cardinality(AliveLoops) + more
  <2>1. IsFiniteSet(new) /\ Cardinality(new) = more
    BY <1>1, FS_Interval
  <2>2. AliveLoops \cap new = {}
    BY <1>1, AliveFinite DEF AliveLoops
  <2>3. Cardinality(AliveLoops \cap new) = 0
    BY <2>2, FS_EmptySet
  <2>5. IsFiniteSet(AliveLoops)
    BY AliveFinite
  <2> HIDE DEF new
  <2>4. Cardinality(AliveLoops \cup new) = Cardinality(AliveLoops) + more - 0
    BY <2>1, <2>3, <2>5, FS_Union
  <2> QED
    BY <1>1, <1>9, <2>4, AliveFinite
<1>12. CountInv'
  <2> SUFFICES ASSUME daemon = "running", ~crossed, Scaling = {}
               PROVE  CountInv'
    BY <1>2 DEF CountInv
  <2>1. Scaling' = {}
    BY <1>2 DEF Scaling
  <2>2. Len(tracked') > 0 /\ Len(tracked') = Len(tracked) + more
    BY <1>1, <1>5 DEF CountInv
  <2>3. Cardinality(AliveLoops') = entries'.stops + Len(tracked')
    BY <1>1, <1>2, <1>11, <2>2, AliveFinite DEF CountInv
  <2> QED
    BY <2>1, <2>2, <2>3 DEF CountInv
<1>13. RequestInv'
  BY <1>2, PoolAssumption DEF RequestInv, Scaling
<1>14. PoolTypeOK'
  <2>1. \A w \in DOMAIN loops' : loops'[w] \in {"ready", "busy", "gone"}
    BY <1>1, <1>4, AliveFinite DEF PoolTypeOK
  <2>2. DOMAIN loops \subseteq DOMAIN loops' /\ new \subseteq DOMAIN loops'
    BY <1>1, <1>4, AliveFinite
  <2>3. Members(tracked') \cup awaited' \subseteq DOMAIN loops'
    <3>1. \A i \in DOMAIN tracked' : i \in Nat \ {0} /\ tracked'[i] \in i..Len(loops')
      BY <1>1, <1>5, <1>8 DEF ListInv
    <3>2. \A i \in DOMAIN tracked' : tracked'[i] \in DOMAIN loops'
      BY <1>1, <1>4, <3>1
    <3> QED
      BY <1>2, <2>2, <3>2 DEF PoolTypeOK, Members
  <2>4. OnQueue' = OnQueue
    BY <1>2 DEF OnQueue
  <2>5. scalings' \in 0..MaxScalings /\ crossed' \in BOOLEAN
    BY <1>2, PoolAssumption DEF PoolTypeOK
  <2> QED
    BY <1>1, <1>2, <1>4, <2>1, <2>3, <2>4, <2>5 DEF PoolTypeOK
<1> QED
  BY <1>2, <1>8, <1>10, <1>12, <1>13, <1>14

\* The first sentinels of a request, or more of them: what is put and what is
\* left to put are what there was to put, and with the last one the list is cut.
LEMMA PutEffect ==
    ASSUME PoolInv, NEW c \in PoolCaller, NEW todo \in 1..MaxWorkers, NEW n \in Targets,
           PutSentinels(c, todo, n), UNCHANGED <<daemon, loops, awaited, submitted>>,
           scalings' \in 1..MaxScalings, crossed' \in BOOLEAN
    PROVE  /\ PoolTypeOK' /\ entries' \in [tasks : Nat, stops : Nat]
           /\ ListInv' /\ TrackedInv'
           /\ \E put \in 0..todo :
                 /\ entries'.stops = entries.stops + put
                 /\ put = todo => /\ scaling' = [scaling EXCEPT ![c] = NoScaling]
                                  /\ n < Len(tracked) => Len(tracked') = n
                 /\ put # todo => /\ scaling' = [scaling EXCEPT ![c] =
                                        [todo |-> todo - put, target |-> n]]
                                  /\ tracked' = tracked
<1> USE DEF PoolInv
<1> DEFINE put == IF todo < Room THEN todo ELSE Room
<1>1. /\ QueueDepth \in Nat /\ MaxWorkers \in Nat /\ MaxScalings \in Nat
      /\ n \in Nat /\ n > 0 /\ todo \in Nat /\ 0 \in 0..MaxWorkers
      /\ entries.tasks \in Nat /\ entries.stops \in Nat /\ OnQueue \in 0..QueueDepth
  BY PoolAssumption DEF PoolTypeOK
<1>2. Room \in Nat /\ OnQueue + Room <= QueueDepth /\ put \in 0..todo /\ put <= Room
  BY <1>1 DEF Room, OnQueue
<1>3. /\ entries' = [entries EXCEPT !.stops = @ + put]
      /\ put = todo =>
            /\ scaling' = [scaling EXCEPT ![c] = NoScaling]
            /\ tracked' = IF n < Len(tracked) THEN SubSeq(tracked, 1, n) ELSE tracked
      /\ put # todo =>
            /\ scaling' = [scaling EXCEPT ![c] = [todo |-> todo - put, target |-> n]]
            /\ tracked' = tracked
  BY DEF PutSentinels
<1> HIDE DEF put
<1>4. /\ entries' \in [tasks : Nat, stops : Nat]
      /\ entries'.tasks = entries.tasks /\ entries'.stops = entries.stops + put
  BY <1>1, <1>2, <1>3
<1>5. OnQueue' \in 0..QueueDepth
  BY <1>1, <1>2, <1>4 DEF OnQueue
<1>6. /\ tracked' \in Seq(Nat) /\ Len(tracked') \in Nat /\ Len(tracked') <= Len(tracked)
      /\ DOMAIN tracked' = 1..Len(tracked')
      /\ \A i \in 1..Len(tracked') : i \in 1..Len(tracked) /\ tracked'[i] = tracked[i]
      /\ tracked' # tracked => Len(tracked') = n /\ n < Len(tracked)
      /\ put = todo /\ n < Len(tracked) => Len(tracked') = n
  <2>1. CASE put = todo /\ n < Len(tracked)
    <3>1. tracked' = SubSeq(tracked, 1, n)
      BY <1>3, <2>1
    <3>2. \A i \in 1..n : i \in 1..Len(tracked) /\ tracked[i] \in Nat
      BY <1>1, <2>1, AliveFinite, ElementOfSeq DEF ListInv
    <3>3. 1 <= n /\ 1 \in Int /\ n \in Int /\ n - 1 + 1 = n /\ \A i \in 1..n : 1 + i - 1 = i
      BY <1>1
    <3>4. /\ tracked' \in Seq(Nat) /\ Len(tracked') = n
          /\ \A i \in 1..n : tracked'[i] = tracked[i]
      BY <3>1, <3>2, <3>3, SubSeqProperties
    <3>5. DOMAIN tracked' = 1..Len(tracked')
      BY <3>4, LenProperties
    <3> QED
      BY <1>1, <2>1, <3>2, <3>4, <3>5, AliveFinite
  <2>2. CASE ~(put = todo /\ n < Len(tracked))
    <3>1. tracked' = tracked
      BY <1>3, <2>2
    <3> QED
      BY <2>2, <3>1, AliveFinite DEF ListInv
  <2> QED
    BY <2>1, <2>2
<1>7. ListInv'
  <2>1. \A i \in 1..Len(tracked) : tracked[i] \in i..Len(loops)
    BY AliveFinite DEF ListInv
  <2>2. \A i, j \in 1..Len(tracked) : i < j => tracked[i] < tracked[j]
    BY AliveFinite DEF ListInv
  <2>3. \A i \in DOMAIN tracked' : tracked'[i] \in i..Len(loops')
    BY <1>6, <2>1
  <2>4. ASSUME NEW i \in DOMAIN tracked', NEW j \in DOMAIN tracked', i < j
        PROVE  tracked'[i] < tracked'[j]
    <3>1. /\ i \in 1..Len(tracked) /\ tracked'[i] = tracked[i]
          /\ j \in 1..Len(tracked) /\ tracked'[j] = tracked[j]
      BY <1>6
    <3> QED
      BY <2>2, <2>4, <3>1
  <2> QED
    BY <1>6, <2>3, <2>4 DEF ListInv
<1>8. TrackedInv'
  <2> SUFFICES ASSUME NEW w \in AliveLoops, w \in Members(tracked), w \notin Members(tracked')
               PROVE  \E m \in Targets : w > m
    <3>1. AliveLoops' = AliveLoops /\ scalings' > 0
      BY PoolAssumption DEF AliveLoops
    <3>2. scalings > 0 => scalings' > 0
      BY <3>1
    <3>3. daemon' = "stopped" => tracked' = <<>>
      <4> SUFFICES ASSUME daemon = "stopped"
                   PROVE  tracked' = <<>>
        OBVIOUS
      <4>1. tracked = <<>> /\ Len(tracked) = 0
        BY DEF TrackedInv
      <4>2. ~(n < Len(tracked))
        BY <1>1, <4>1
      <4> QED
        BY <1>6, <4>1, <4>2
    <3> QED
      BY <3>1, <3>3 DEF TrackedInv, CutOff
  <2>1. PICK i \in 1..Len(tracked) : tracked[i] = w
    BY AliveFinite DEF Members
  <2>2. i \notin 1..Len(tracked')
    BY <1>6, <2>1 DEF Members
  <2>3. tracked' # tracked
    BY <2>1, <2>2
  <2>4. Len(tracked') = n /\ i > n
    BY <1>1, <1>6, <2>2, <2>3, AliveFinite
  <2>5. w \in i..Len(loops)
    BY <2>1, AliveFinite DEF ListInv
  <2>6. w > n
    BY <1>1, <2>4, <2>5, AliveFinite
  <2> QED
    BY <2>6
<1>9. scaling' \in [PoolCaller -> [todo : 0..MaxWorkers, target : Targets \cup {0}]]
  <2>1. NoScaling \in [todo : 0..MaxWorkers, target : Targets \cup {0}]
    BY <1>1 DEF NoScaling
  <2>2. todo - put \in 0..MaxWorkers
    BY <1>1, <1>2
  <2>3. [todo |-> todo - put, target |-> n] \in [todo : 0..MaxWorkers, target : Targets \cup {0}]
    BY <2>2
  <2> QED
    BY <1>3, <2>1, <2>3 DEF PoolTypeOK
<1>10. Members(tracked') \subseteq Members(tracked)
  BY <1>6, AliveFinite DEF Members
<1>11. PoolTypeOK'
  <2>1. scalings' \in 0..MaxScalings
    BY <1>1
  <2> QED
    BY <1>5, <1>9, <1>10, <2>1 DEF PoolTypeOK
<1> QED
  BY <1>2, <1>3, <1>4, <1>6, <1>7, <1>8, <1>11

\* A request to shrink whose sentinels are put, or some of them, leaves as many
\* workers as it asked for.
LEMMA PutKeepsCount ==
    ASSUME PoolInv, NEW c \in PoolCaller, NEW todo \in 1..MaxWorkers, NEW n \in Targets,
           PutSentinels(c, todo, n), UNCHANGED <<daemon, loops, awaited, submitted>>,
           scalings' \in 1..MaxScalings, crossed' \in BOOLEAN,
           daemon = "running" /\ ~crossed' =>
              /\ Scaling \subseteq {c} /\ n < Len(tracked)
              /\ Cardinality(AliveLoops) = entries.stops + todo + n
    PROVE  PoolInv'
<1>1. /\ n \in Nat /\ n > 0 /\ todo \in Nat /\ entries.stops \in Nat
      /\ Cardinality(AliveLoops) \in Nat /\ AliveLoops' = AliveLoops
  BY PoolAssumption, AliveFinite DEF PoolInv, AliveLoops
<1>2. PICK put \in 0..todo :
         /\ entries'.stops = entries.stops + put
         /\ put = todo => /\ scaling' = [scaling EXCEPT ![c] = NoScaling]
                          /\ n < Len(tracked) => Len(tracked') = n
         /\ put # todo => /\ scaling' = [scaling EXCEPT ![c] =
                                [todo |-> todo - put, target |-> n]]
                          /\ tracked' = tracked
  BY PutEffect
<1>3. PoolTypeOK' /\ entries' \in [tasks : Nat, stops : Nat] /\ ListInv' /\ TrackedInv'
  BY PutEffect
<1>4. DOMAIN scaling = PoolCaller
  BY DEF PoolInv, PoolTypeOK
<1>5. CASE put = todo
  <2>1. scaling' = [scaling EXCEPT ![c] = NoScaling]
    BY <1>2, <1>5
  <2>2. /\ Scaling' = Scaling \ {c}
        /\ \A d \in Scaling' : scaling'[d] = scaling[d]
    BY <1>4, <2>1 DEF Scaling
  <2>3. RequestInv'
    BY <2>2 DEF PoolInv, RequestInv
  <2>4. CountInv'
    <3> SUFFICES ASSUME daemon = "running", ~crossed'
                 PROVE  CountInv'
      BY DEF CountInv
    <3>1. Scaling' = {} /\ Len(tracked') = n
      BY <1>2, <1>5, <2>2
    <3>2. Cardinality(AliveLoops') = entries'.stops + n
      BY <1>1, <1>2, <1>5
    <3> QED
      BY <1>1, <3>1, <3>2 DEF CountInv
  <2> QED
    BY <1>3, <2>3, <2>4 DEF PoolInv
<1>6. CASE put # todo
  <2>1. scaling' = [scaling EXCEPT ![c] = [todo |-> todo - put, target |-> n]] /\ tracked' = tracked
    BY <1>2, <1>6
  <2>2. scaling'[c].todo = todo - put /\ scaling'[c].target = n /\ todo - put > 0
    BY <1>1, <1>4, <1>6, <2>1
  <2>3. scaling'[c] # NoScaling
    BY <2>2 DEF NoScaling
  <2>4. /\ Scaling' = Scaling \cup {c}
        /\ \A d \in Scaling' \ {c} : scaling'[d] = scaling[d]
    BY <1>4, <2>1, <2>3 DEF Scaling
  <2>5. RequestInv'
    <3>1. scalings' > 0
      BY PoolAssumption
    <3> QED
      BY <2>2, <2>4, <3>1 DEF PoolInv, RequestInv
  <2>6. CountInv'
    <3> SUFFICES ASSUME daemon = "running", ~crossed'
                 PROVE  CountInv'
      BY DEF CountInv
    <3>1. Scaling' = {c} /\ n < Len(tracked') /\ Len(tracked') \in Nat
      BY <2>1, <2>4, AliveFinite
    <3>2. Cardinality(AliveLoops') = entries'.stops + (todo - put) + n
      BY <1>1, <1>2
    <3>3. Unsent(c)' = todo - put
      BY <2>2 DEF Unsent
    <3>4. Len(tracked') > 0
      BY <1>1, <3>1
    <3> QED
      BY <2>2, <3>1, <3>2, <3>3, <3>4 DEF CountInv
  <2> QED
    BY <1>3, <2>5, <2>6 DEF PoolInv
<1> QED
  BY <1>5, <1>6

\* A request to scale down puts its sentinels, some later when the queue is full.
LEMMA ScaleDownKeepsPoolInv ==
    ASSUME PoolInv, NEW c \in PoolCaller, NEW n \in Targets, ScaleDown(c, n) \/ GoOnScaling(c)
    PROVE  PoolInv'
<1>1. CASE ScaleDown(c, n)
  <2> DEFINE todo == Len(tracked) - n
  <2>1. /\ PutSentinels(c, todo, n) /\ UNCHANGED <<daemon, loops, awaited, submitted>>
        /\ n < Len(tracked) /\ Request
    BY <1>1 DEF ScaleDown
  <2>2. n \in Nat /\ n > 0 /\ Len(tracked) \in Nat /\ Len(tracked) <= MaxWorkers
    <3>1. tracked[Len(tracked)] \in Len(tracked)..Len(loops) /\ Len(loops) <= MaxWorkers
      BY <2>1, PoolAssumption, AliveFinite DEF PoolInv, ListInv, PoolTypeOK
    <3> QED
      BY <3>1, PoolAssumption, AliveFinite
  <2>3. todo \in 1..MaxWorkers
    BY <2>1, <2>2, PoolAssumption
  <2>4. scalings' \in 1..MaxScalings /\ crossed' \in BOOLEAN
    BY <2>1, PoolAssumption DEF Request, PoolInv, PoolTypeOK
  <2>5. ASSUME daemon = "running", ~crossed'
        PROVE  Scaling \subseteq {c} /\ Cardinality(AliveLoops) = entries.stops + todo + n
    <3>1. Scaling = {} /\ ~crossed
      BY <2>1, <2>5 DEF Request
    <3>2. Cardinality(AliveLoops) = entries.stops + Len(tracked)
      BY <2>5, <3>1 DEF PoolInv, CountInv
    <3>3. entries.stops \in Nat
      BY DEF PoolInv
    <3> QED
      BY <2>2, <3>1, <3>2, <3>3
  <2> HIDE DEF todo
  <2> QED
    BY <2>1, <2>3, <2>4, <2>5, PutKeepsCount
<1>2. CASE GoOnScaling(c)
  <2> DEFINE todo == scaling[c].todo
             m == scaling[c].target
  <2>1. c \in Scaling
    BY <1>2 DEF GoOnScaling, Scaling
  <2>2. todo > 0 /\ m \in Targets /\ scalings > 0
    BY <2>1 DEF PoolInv, RequestInv
  <2>3. todo \in 1..MaxWorkers
    BY <2>2, PoolAssumption, ScalingTyped
  <2>4. PutSentinels(c, todo, m) /\ UNCHANGED <<daemon, loops, awaited, submitted, scalings, crossed>>
    BY <1>2 DEF GoOnScaling
  <2>5. scalings' \in 1..MaxScalings /\ crossed' \in BOOLEAN
    BY <2>2, <2>4, PoolAssumption DEF PoolInv, PoolTypeOK
  <2>6. ASSUME daemon = "running", ~crossed'
        PROVE  /\ Scaling \subseteq {c} /\ m < Len(tracked)
               /\ Cardinality(AliveLoops) = entries.stops + todo + m
    BY <2>1, <2>4, <2>6 DEF PoolInv, CountInv, Unsent
  <2> HIDE DEF todo, m
  <2> QED
    BY <2>2, <2>3, <2>4, <2>5, <2>6, PutKeepsCount
<1> QED
  BY <1>1, <1>2

\* Every step of the pool keeps its invariant.
LEMMA PoolStep == PoolInv /\ [PoolNext]_poolVars => PoolInv'
<1> SUFFICES ASSUME PoolInv, [PoolNext]_poolVars PROVE PoolInv'
  OBVIOUS
<1>1. CASE SubmitWork
  BY <1>1, SubmitKeepsPoolInv
<1>2. CASE \E w \in 1..MaxWorkers : WorkerTurn(w)
  BY <1>2, WorkerKeepsPoolInv
<1>3. CASE \E c \in PoolCaller, n \in Targets : ScaleUp(c, n) \/ ScaleDown(c, n)
  BY <1>3, ScaleUpKeepsPoolInv, ScaleDownKeepsPoolInv
<1>4. CASE \E c \in PoolCaller : GoOnScaling(c)
  <2>1. PICK c \in PoolCaller : GoOnScaling(c)
    BY <1>4
  <2>2. scaling[c].target \in Targets
    BY <2>1 DEF GoOnScaling, PoolInv, RequestInv, Scaling
  <2> QED
    BY <2>1, <2>2, ScaleDownKeepsPoolInv
<1>5. CASE (\E drain \in BOOLEAN : BeginStop(drain)) \/ EndDraining
  BY <1>5, StopKeepsPoolInv, EndDrainingKeepsPoolInv
<1>6. CASE EndStop
  BY <1>6, EndStopKeepsPoolInv
<1>7. CASE UNCHANGED poolVars
  <2>1. PoolTypeOK' /\ ListInv' /\ TrackedInv'
    BY <1>7 DEF poolVars, PoolInv, PoolTypeOK, OnQueue, ListInv, TrackedInv, CutOff,
                AliveLoops, Members
  <2>2. RequestInv' /\ CountInv'
    BY <1>7 DEF poolVars, PoolInv, RequestInv, Scaling, CountInv, Unsent, AliveLoops
  <2> QED
    BY <1>7, <2>1, <2>2 DEF poolVars, PoolInv
<1> QED
  BY <1>1, <1>2, <1>3, <1>4, <1>5, <1>6, <1>7 DEF PoolNext

\* What the invariant says of the pool: workers match, a stop leaves none running.
LEMMA PoolPromises == PoolInv => WorkersMatchTarget /\ StopInterrupts
<1> SUFFICES ASSUME PoolInv PROVE WorkersMatchTarget /\ StopInterrupts
  OBVIOUS
<1>1. WorkersMatchTarget
  <2> SUFFICES ASSUME daemon = "running", ~crossed
               PROVE  /\ \A c \in PoolCaller : Scaling \subseteq {c} =>
                            Cardinality(AliveLoops) = entries.stops +
                                (IF Scaling = {} THEN Len(tracked)
                                 ELSE Unsent(c) + scaling[c].target)
                      /\ AliveLoops # {}
    BY DEF WorkersMatchTarget
  <2>1. CASE Scaling = {}
    <3>1. Cardinality(AliveLoops) = entries.stops + Len(tracked) /\ Len(tracked) > 0
      BY <2>1 DEF PoolInv, CountInv
    <3>2. entries.stops \in Nat
      BY DEF PoolInv
    <3>3. AliveLoops # {}
      BY <3>1, <3>2, AliveFinite, FS_EmptySet
    <3> QED
      BY <2>1, <3>1, <3>3
  <2>2. ASSUME NEW c \in PoolCaller, c \in Scaling
        PROVE  /\ Scaling = {c} /\ AliveLoops # {}
               /\ Cardinality(AliveLoops) = entries.stops + (Unsent(c) + scaling[c].target)
    <3>1. /\ Cardinality(AliveLoops) = entries.stops + Unsent(c) + scaling[c].target
          /\ Scaling = {c}
      BY <2>2 DEF PoolInv, CountInv
    <3>2. entries.stops \in Nat /\ Unsent(c) \in Nat /\ scaling[c].target \in Nat /\ Unsent(c) > 0
      BY <2>2, ScalingTyped DEF PoolInv, RequestInv, Unsent
    <3>3. AliveLoops # {}
      BY <3>1, <3>2, AliveFinite, FS_EmptySet
    <3> QED
      BY <3>1, <3>2, <3>3
  <2> QED
    BY <2>1, <2>2 DEF Scaling
<1>2. StopInterrupts
  <2> SUFFICES ASSUME daemon = "stopped", NEW w \in DOMAIN loops, loops[w] = "busy"
               PROVE  scalings > 0 /\ \E n \in Targets \cup {FirstCount} : w > n
    BY DEF StopInterrupts
  <2>1. w \in AliveLoops
    BY DEF AliveLoops
  <2>2. Members(tracked) = {}
    BY DEF PoolInv, TrackedInv, Members
  <2> QED
    BY <2>1, <2>2 DEF PoolInv, TrackedInv, CutOff
<1> QED
  BY <1>1, <1>2

-----------------------------------------------------------------------------
(* The handoff between threads and the loop *)

\* A put that is scheduled is that of a call that waits or has given up, once.
ScheduledInv ==
    /\ callbacks \in Seq(Caller)
    /\ \A i, j \in DOMAIN callbacks : callbacks[i] = callbacks[j] => i = j
    /\ \A i \in DOMAIN callbacks :
          asked[callbacks[i]] \in {"waiting", "raised"} /\ callbacks[i] \notin entered

\* A submission's place says what became of its task.
PlaceInv(c) ==
    /\ known[c] = "none" <=> asked[c] \in {"idle", "refused"}
    /\ asked[c] \in {"put", "returned"} => known[c] = "started" \/ c \in entered
    /\ asked[c] \in {"waiting", "raised"} =>
          \/ known[c] = "started" \/ c \in entered \cup dropped
          \/ \E i \in DOMAIN callbacks : callbacks[i] = c
    /\ known[c] = "started" => asked[c] \in {"put", "returned", "raised"}

HandoffInv ==
    /\ HandoffTypeOK /\ IsFiniteSet(entered)
    /\ ScheduledInv
    /\ lockedBy \in Reprioritizer \cup {"nobody"}
    /\ \A c \in Caller : asked[c] \notin {"put", "returned", "raised"} => c \notin entered
    /\ \A c \in Reprioritizer : asked[c] # "tracked"
    /\ \A c \in Submitter : PlaceInv(c)

Scheduled == {callbacks[i] : i \in DOMAIN callbacks}

\* What is scheduled, before and after a put is added at the end.
LEMMA ScheduledMore ==
    ASSUME callbacks \in Seq(Caller),
           \A i, j \in DOMAIN callbacks : callbacks[i] = callbacks[j] => i = j,
           NEW c \in Caller, c \notin Scheduled, callbacks' = Append(callbacks, c)
    PROVE  /\ callbacks' \in Seq(Caller) /\ Scheduled' = Scheduled \cup {c}
           /\ \A i, j \in DOMAIN callbacks' : callbacks'[i] = callbacks'[j] => i = j
<1> DEFINE n == Len(callbacks)
<1>1. n \in Nat /\ DOMAIN callbacks = 1..n
  BY LenProperties
<1>2. /\ callbacks' \in Seq(Caller) /\ Len(callbacks') = n + 1
      /\ \A i \in 1..n : callbacks'[i] = callbacks[i]
      /\ callbacks'[n + 1] = c
  BY AppendProperties
<1> HIDE DEF n
<1>3. DOMAIN callbacks' = 1..(n + 1)
  BY <1>2, LenProperties
<1>4. 1..(n + 1) = (1..n) \cup {n + 1}
  BY <1>1
<1>5. \A i \in 1..n : callbacks[i] # c
  BY <1>1 DEF Scheduled
<1>6. Scheduled' = Scheduled \cup {c}
  BY <1>1, <1>2, <1>3, <1>4 DEF Scheduled
<1>7. \A i, j \in DOMAIN callbacks' : callbacks'[i] = callbacks'[j] => i = j
  BY <1>1, <1>2, <1>3, <1>4, <1>5
<1> QED
  BY <1>2, <1>6, <1>7

\* And before and after the first one is taken.
LEMMA ScheduledLess ==
    ASSUME callbacks \in Seq(Caller), callbacks # <<>>,
           \A i, j \in DOMAIN callbacks : callbacks[i] = callbacks[j] => i = j,
           callbacks' = Tail(callbacks)
    PROVE  /\ callbacks' \in Seq(Caller)
           /\ Head(callbacks) \in Scheduled /\ Head(callbacks) \in Caller
           /\ Scheduled' = Scheduled \ {Head(callbacks)}
           /\ \A i, j \in DOMAIN callbacks' : callbacks'[i] = callbacks'[j] => i = j
<1> DEFINE n == Len(callbacks)
           h == Head(callbacks)
<1>1. n \in Nat /\ n > 0 /\ DOMAIN callbacks = 1..n
  BY LenProperties, EmptySeq
<1>2. /\ callbacks' \in Seq(Caller) /\ Len(callbacks') = n - 1
      /\ \A i \in 1..Len(callbacks') : callbacks'[i] = callbacks[i + 1]
      /\ h \in Caller
  BY HeadTailProperties
<1>3. h = callbacks[1]
  OBVIOUS
<1> HIDE DEF n, h
<1>4. DOMAIN callbacks' = 1..(n - 1)
  BY <1>2, LenProperties
<1>5. \A i \in 1..(n - 1) : i + 1 \in 1..n /\ i + 1 # 1 /\ callbacks'[i] = callbacks[i + 1]
  BY <1>1, <1>2
<1>6. ASSUME NEW i \in 1..n, i # 1
      PROVE  \E j \in 1..(n - 1) : callbacks'[j] = callbacks[i]
  <2>1. i - 1 \in 1..(n - 1) /\ (i - 1) + 1 = i
    BY <1>1, <1>6
  <2> QED
    BY <1>5, <2>1
<1>7. 1 \in 1..n
  BY <1>1
<1>8. Scheduled' = Scheduled \ {h}
  <2>1. ASSUME NEW x \in Scheduled'
        PROVE  x \in Scheduled \ {h}
    BY <1>1, <1>3, <1>4, <1>5, <1>7 DEF Scheduled
  <2>2. ASSUME NEW x \in Scheduled \ {h}
        PROVE  x \in Scheduled'
    <3>1. PICK i \in 1..n : callbacks[i] = x
      BY <1>1 DEF Scheduled
    <3>2. i # 1
      BY <1>3, <3>1
    <3> QED
      BY <1>4, <1>6, <3>1, <3>2 DEF Scheduled
  <2> QED
    BY <2>1, <2>2
<1>9. \A i, j \in DOMAIN callbacks' : callbacks'[i] = callbacks'[j] => i = j
  <2> SUFFICES ASSUME NEW i \in 1..(n - 1), NEW j \in 1..(n - 1), callbacks'[i] = callbacks'[j]
               PROVE  i = j
    BY <1>4
  <2>1. i + 1 = j + 1
    BY <1>1, <1>5
  <2> QED
    BY <1>1, <2>1
<1>10. h \in Scheduled
  BY <1>1, <1>3, <1>7 DEF Scheduled
<1> QED
  BY <1>2, <1>8, <1>9, <1>10 DEF h

\* The handoff starts with no call made.
LEMMA HandoffInitial == HandoffInit => HandoffInv
<1> SUFFICES ASSUME HandoffInit PROVE HandoffInv
  OBVIOUS
<1>1. callbacks \in Seq(Caller) /\ DOMAIN callbacks = {}
  BY DEF HandoffInit
<1>2. IsFiniteSet(entered) /\ Cardinality(entered) = 1 /\ entered \subseteq Caller \cup {OldTask}
  BY FS_Singleton DEF HandoffInit
<1>3. InQueue <= HandoffDepth
  <2>1. InQueue = Cardinality(entered)
    BY DEF InQueue
  <2> QED
    BY <1>2, <2>1, HandoffAssumption
<1>4. \A c \in Caller : c # OldTask /\ c \notin entered /\ asked[c] = "idle"
  BY HandoffAssumption DEF HandoffInit, Caller
<1>5. \A c \in Submitter : c \in Caller /\ known[c] = "none"
  BY HandoffAssumption DEF HandoffInit, Caller
<1>6. HandoffTypeOK
  BY <1>1, <1>2, <1>3 DEF HandoffInit, HandoffTypeOK
<1>7. \A c \in Reprioritizer : asked[c] # "tracked"
  BY <1>4 DEF Caller
<1>8. ScheduledInv
  BY <1>1 DEF ScheduledInv
<1>9. \A c \in Submitter : PlaceInv(c)
  BY <1>4, <1>5 DEF PlaceInv
<1>10. lockedBy \in Reprioritizer \cup {"nobody"}
  BY DEF HandoffInit
<1> QED
  BY <1>2, <1>4, <1>6, <1>7, <1>8, <1>9, <1>10 DEF HandoffInv

\* The steps of a caller's thread leave the queue alone.
LEMMA CallerKeepsHandoffInv ==
    ASSUME HandoffInv, NEW c \in Caller,
           \/ TrackTask(c) \/ SchedulePut(c) \/ LockAndSchedulePut(c)
           \/ ReturnFromPut(c) \/ RollBackSubmission(c) \/ GiveUp(c)
    PROVE  HandoffInv'
<1> DEFINE States == {"idle", "tracked", "waiting", "put", "full", "returned", "refused", "raised"}
<1>1. /\ asked \in [Caller -> States] /\ known \in [Submitter \cup {OldTask} -> {"none", "queued", "started"}]
      /\ entered \subseteq Caller \cup {OldTask} /\ IsFiniteSet(entered)
      /\ lockedBy \in Reprioritizer \cup {"nobody"} /\ callbacks \in Seq(Caller)
      /\ Submitter \subseteq Caller /\ OldTask \notin Caller
  BY HandoffAssumption DEF HandoffInv, HandoffTypeOK, ScheduledInv, Caller
<1>2. UNCHANGED <<eventLoop, entered, dropped>> /\ InQueue' = InQueue
  BY DEF TrackTask, SchedulePut, LockAndSchedulePut, ReturnFromPut, RollBackSubmission, GiveUp, InQueue
<1>3. \A d \in Scheduled : asked[d] \in {"waiting", "raised"} /\ d \notin entered
  BY DEF HandoffInv, ScheduledInv, Scheduled
<1>4. ASSUME NEW s \in States, Asks(c, s), callbacks' = callbacks \/ callbacks' = Append(callbacks, c),
             callbacks' # callbacks => asked[c] \in {"idle", "tracked"} /\ s = "waiting",
             c \in Scheduled => s \in {"waiting", "raised"},
             s \notin {"put", "returned", "raised"} => c \notin entered,
             s = "tracked" => c \notin Reprioritizer,
             known' \in [Submitter \cup {OldTask} -> {"none", "queued", "started"}],
             \A d \in Submitter \ {c} : known'[d] = known[d],
             lockedBy' \in Reprioritizer \cup {"nobody"},
             c \in Submitter => PlaceInv(c)'
      PROVE  HandoffInv'
  <2>1. asked' \in [Caller -> States] /\ asked'[c] = s /\ \A d \in Caller \ {c} : asked'[d] = asked[d]
    BY <1>1, <1>4 DEF Asks
  <2>2. /\ callbacks' \in Seq(Caller)
        /\ Scheduled' = Scheduled \/ (Scheduled' = Scheduled \cup {c} /\ s = "waiting" /\ c \notin entered)
        /\ \A i, j \in DOMAIN callbacks' : callbacks'[i] = callbacks'[j] => i = j
    <3>1. CASE callbacks' = callbacks
      BY <1>1, <3>1 DEF Scheduled, HandoffInv, ScheduledInv
    <3>2. CASE callbacks' # callbacks
      <4>1. callbacks' = Append(callbacks, c) /\ c \notin Scheduled /\ s = "waiting"
        BY <1>3, <1>4, <3>2
      <4>2. /\ callbacks' \in Seq(Caller) /\ Scheduled' = Scheduled \cup {c}
            /\ \A i, j \in DOMAIN callbacks' : callbacks'[i] = callbacks'[j] => i = j
        BY <4>1, ScheduledMore DEF HandoffInv, ScheduledInv
      <4> QED
        BY <1>4, <4>1, <4>2
    <3> QED
      BY <3>1, <3>2
  <2>3. \A d \in Scheduled' : asked'[d] \in {"waiting", "raised"} /\ d \notin entered'
    <3>1. Scheduled \subseteq Caller
      BY <1>1, LenProperties DEF Scheduled
    <3> QED
      BY <1>2, <1>3, <1>4, <2>1, <2>2, <3>1
  <2>4. ScheduledInv'
    BY <2>2, <2>3 DEF ScheduledInv, Scheduled
  <2>5. \A i \in DOMAIN callbacks' : callbacks'[i] \in Caller
    BY <2>2, LenProperties
  <2>6. HandoffTypeOK'
    BY <1>2, <1>4, <2>1, <2>5 DEF HandoffInv, HandoffTypeOK, Caller
  <2>7. \A d \in Caller : asked'[d] \notin {"put", "returned", "raised"} => d \notin entered'
    BY <1>2, <1>4, <2>1 DEF HandoffInv
  <2>8. \A d \in Reprioritizer : asked'[d] # "tracked"
    BY <1>4, <2>1 DEF HandoffInv, Caller
  <2>9. ASSUME NEW d \in Submitter PROVE PlaceInv(d)'
    <3>1. CASE d = c
      BY <1>4, <3>1
    <3>2. CASE d # c
      <4>1. asked'[d] = asked[d] /\ known'[d] = known[d]
        BY <1>1, <1>4, <2>1, <3>2
      <4>2. d \in Scheduled' <=> d \in Scheduled
        BY <2>2, <3>2
      <4> QED
        BY <1>2, <4>1, <4>2 DEF HandoffInv, PlaceInv, Scheduled
    <3> QED
      BY <3>1, <3>2
  <2> QED
    BY <1>1, <1>2, <1>4, <2>4, <2>6, <2>7, <2>8, <2>9 DEF HandoffInv
<1>5. c \in Submitter => PlaceInv(c)
  BY DEF HandoffInv
<1>6. asked[c] \notin {"put", "returned", "raised"} => c \notin entered
  BY DEF HandoffInv
<1>7. CASE TrackTask(c)
  <2>1. /\ c \in Submitter /\ c \notin Reprioritizer /\ asked[c] = "idle" /\ Asks(c, "tracked")
        /\ known' = [known EXCEPT ![c] = "queued"] /\ UNCHANGED <<callbacks, lockedBy>>
    BY <1>7, HandoffAssumption DEF TrackTask
  <2>2. asked'[c] = "tracked" /\ known'[c] = "queued"
    BY <1>1, <2>1 DEF Asks
  <2>3. PlaceInv(c)'
    BY <2>2 DEF PlaceInv
  <2> QED
    BY <1>1, <1>3, <1>4, <1>6, <2>1, <2>3
<1>8. CASE SchedulePut(c)
  <2>1. /\ asked[c] = "tracked" /\ Asks(c, "waiting") /\ callbacks' = Append(callbacks, c)
        /\ UNCHANGED <<known, lockedBy>>
    BY <1>8 DEF SchedulePut
  <2>2. asked'[c] = "waiting"
    BY <1>1, <2>1 DEF Asks
  <2>3. c \in Scheduled'
    BY <1>1, <1>3, <2>1, ScheduledMore DEF HandoffInv, ScheduledInv
  <2>4. c \in Submitter => PlaceInv(c)'
    BY <1>5, <2>1, <2>2, <2>3 DEF PlaceInv, Scheduled
  <2> QED
    BY <1>1, <1>3, <1>4, <1>6, <2>1, <2>4
<1>9. CASE LockAndSchedulePut(c)
  <2>1. /\ c \in Reprioritizer /\ c \notin Submitter /\ asked[c] = "idle" /\ Asks(c, "waiting")
        /\ callbacks' = Append(callbacks, c) /\ lockedBy' = c /\ UNCHANGED known
    BY <1>9, HandoffAssumption DEF LockAndSchedulePut
  <2> QED
    BY <1>1, <1>3, <1>4, <1>6, <2>1
<1>10. Unlock(c) => lockedBy' \in Reprioritizer \cup {"nobody"}
  BY <1>1 DEF Unlock
<1>11. CASE ReturnFromPut(c)
  <2>1. asked[c] = "put" /\ Asks(c, "returned") /\ Unlock(c) /\ UNCHANGED <<callbacks, known>>
    BY <1>11 DEF ReturnFromPut
  <2>2. asked'[c] = "returned"
    BY <1>1, <2>1 DEF Asks
  <2>3. c \in Submitter => PlaceInv(c)'
    BY <1>2, <1>5, <2>1, <2>2 DEF PlaceInv
  <2> QED
    BY <1>1, <1>3, <1>4, <1>6, <1>10, <2>1, <2>3
<1>12. CASE RollBackSubmission(c)
  <2>1. /\ asked[c] = "full" /\ Asks(c, "refused") /\ Unlock(c) /\ UNCHANGED callbacks
        /\ \/ c \in Submitter /\ known' = [known EXCEPT ![c] = "none"]
           \/ c \in Reprioritizer /\ c \notin Submitter /\ known' = known
    BY <1>12, HandoffAssumption DEF RollBackSubmission
  <2>2. asked'[c] = "refused"
    BY <1>1, <2>1 DEF Asks
  <2>3. c \in Submitter => PlaceInv(c)'
    BY <1>1, <2>1, <2>2 DEF PlaceInv
  <2> QED
    BY <1>1, <1>3, <1>4, <1>6, <1>10, <2>1, <2>3
<1>13. CASE GiveUp(c)
  <2>1. asked[c] = "waiting" /\ Asks(c, "raised") /\ Unlock(c) /\ UNCHANGED <<callbacks, known>>
    BY <1>13 DEF GiveUp
  <2>2. asked'[c] = "raised"
    BY <1>1, <2>1 DEF Asks
  <2>3. c \in Submitter => PlaceInv(c)'
    BY <1>2, <1>5, <2>1, <2>2 DEF PlaceInv
  <2> QED
    BY <1>1, <1>3, <1>4, <1>6, <1>10, <2>1, <2>3
<1> QED
  BY <1>7, <1>8, <1>9, <1>11, <1>12, <1>13

\* The loop puts the first entry that is scheduled, if there is room.
LEMMA PutKeepsHandoffInv ==
    ASSUME HandoffInv, RunScheduledPut
    PROVE  HandoffInv'
<1> DEFINE States == {"idle", "tracked", "waiting", "put", "full", "returned", "refused", "raised"}
           h == Head(callbacks)
<1>1. /\ asked \in [Caller -> States] /\ entered \subseteq Caller \cup {OldTask}
      /\ IsFiniteSet(entered) /\ callbacks \in Seq(Caller) /\ callbacks # <<>>
      /\ dropped \subseteq Caller /\ InQueue <= HandoffDepth
      /\ Submitter \subseteq Caller /\ OldTask \notin Caller
  BY HandoffAssumption DEF HandoffInv, HandoffTypeOK, ScheduledInv, Caller, RunScheduledPut
<1>2. /\ callbacks' = Tail(callbacks) /\ UNCHANGED <<lockedBy, eventLoop, known>>
      /\ \/ /\ InQueue < HandoffDepth /\ entered' = entered \cup {h}
            /\ asked' = [asked EXCEPT ![h] = IF @ = "waiting" THEN "put" ELSE @]
            /\ dropped' = dropped
         \/ /\ entered' = entered
            /\ asked' = [asked EXCEPT ![h] = IF @ = "waiting" THEN "full" ELSE @]
            /\ dropped' = IF asked[h] = "waiting" THEN dropped ELSE dropped \cup {h}
  BY DEF RunScheduledPut
<1>3. /\ callbacks' \in Seq(Caller) /\ h \in Scheduled /\ h \in Caller
      /\ Scheduled' = Scheduled \ {h} /\ Scheduled \subseteq Caller
      /\ \A i, j \in DOMAIN callbacks' : callbacks'[i] = callbacks'[j] => i = j
  <2>1. \A i, j \in DOMAIN callbacks : callbacks[i] = callbacks[j] => i = j
    BY DEF HandoffInv, ScheduledInv
  <2>2. Scheduled \subseteq Caller
    BY <1>1, LenProperties DEF Scheduled
  <2> QED
    BY <1>1, <1>2, <2>1, <2>2, ScheduledLess
<1> HIDE DEF h
<1>4. \A d \in Scheduled : asked[d] \in {"waiting", "raised"} /\ d \notin entered
  BY DEF HandoffInv, ScheduledInv, Scheduled
<1>5. /\ asked' \in [Caller -> States] /\ \A d \in Caller \ {h} : asked'[d] = asked[d]
      /\ asked'[h] \in {"put", "full", "raised"}
      /\ asked[h] = "raised" => h \in entered' \cup dropped'
      /\ asked'[h] = "raised" <=> asked[h] = "raised"
      /\ asked'[h] = "put" => h \in entered'
      /\ asked'[h] = "full" => asked[h] = "waiting" /\ h \notin entered'
  BY <1>1, <1>2, <1>3, <1>4
<1>6. /\ entered' \subseteq Caller \cup {OldTask} /\ IsFiniteSet(entered')
      /\ entered \subseteq entered' /\ entered' \subseteq entered \cup {h}
      /\ dropped' \subseteq Caller /\ dropped \subseteq dropped'
  BY <1>1, <1>2, <1>3, FS_AddElement
<1>7. InQueue' <= HandoffDepth
  <2>1. InQueue = Cardinality(entered) /\ InQueue' = Cardinality(entered')
    BY DEF InQueue
  <2>2. Cardinality(entered) \in Nat /\ HandoffDepth \in Nat
    BY <1>1, FS_CardinalityType, HandoffAssumption
  <2>3. InQueue < HandoffDepth => Cardinality(entered \cup {h}) <= HandoffDepth
    <3>1. h \in entered => entered \cup {h} = entered
      OBVIOUS
    <3>2. /\ h \notin entered => Cardinality(entered \cup {h}) = Cardinality(entered) + 1
          /\ h \in entered => Cardinality(entered \cup {h}) = Cardinality(entered)
      BY <1>1, <3>1, FS_AddElement
    <3> QED
      BY <2>1, <2>2, <3>2
  <2> QED
    BY <1>1, <1>2, <2>1, <2>3
<1>8. ScheduledInv'
  BY <1>3, <1>4, <1>5, <1>6 DEF ScheduledInv, Scheduled
<1>9. HandoffTypeOK'
  <2>1. \A i \in DOMAIN callbacks' : callbacks'[i] \in Caller
    BY <1>3, LenProperties
  <2> QED
    BY <1>2, <1>5, <1>6, <1>7, <2>1 DEF HandoffInv, HandoffTypeOK
<1>10. \A d \in Caller : asked'[d] \notin {"put", "returned", "raised"} => d \notin entered'
  BY <1>5, <1>6 DEF HandoffInv
<1>11. \A d \in Reprioritizer : asked'[d] # "tracked"
  BY <1>5 DEF HandoffInv, Caller
<1>12. ASSUME NEW d \in Submitter PROVE PlaceInv(d)'
  <2>1. PlaceInv(d) /\ d \in Caller
    BY <1>1 DEF HandoffInv
  <2>2. CASE d = h
    <3>1. asked[h] \in {"waiting", "raised"} /\ known' = known
      BY <1>2, <1>3, <1>4
    <3>2. CASE asked'[h] = "put"
      BY <1>5, <2>1, <2>2, <3>1, <3>2 DEF PlaceInv
    <3>3. CASE asked'[h] = "full"
      BY <1>5, <2>1, <2>2, <3>1, <3>3 DEF PlaceInv
    <3>4. CASE asked'[h] = "raised"
      <4>1. h \in entered' \cup dropped'
        BY <1>5, <3>4
      <4>2. known[d] # "none"
        BY <2>1, <2>2, <3>1 DEF PlaceInv
      <4> QED
        BY <2>1, <2>2, <3>1, <3>4, <4>1, <4>2 DEF PlaceInv
    <3> QED
      BY <1>5, <3>2, <3>3, <3>4
  <2>3. CASE d # h
    <3>1. asked'[d] = asked[d] /\ known' = known /\ (d \in Scheduled' <=> d \in Scheduled)
      BY <1>2, <1>3, <1>5, <2>1, <2>3
    <3> QED
      BY <1>6, <2>1, <3>1 DEF PlaceInv, Scheduled
  <2> QED
    BY <2>2, <2>3
<1> QED
  BY <1>2, <1>6, <1>8, <1>9, <1>10, <1>11, <1>12 DEF HandoffInv

\* A worker takes an entry and starts its task, if that is still queued.
LEMMA ClaimKeepsHandoffInv ==
    ASSUME HandoffInv, NEW e \in Caller \cup {OldTask}, ClaimEntry(e)
    PROVE  HandoffInv'
<1> DEFINE t == IF e \in Caller THEN TaskOfCall(e) ELSE e
<1>1. /\ e \in entered /\ entered' = entered \ {e}
      /\ known' = IF known[t] = "queued" THEN [known EXCEPT ![t] = "started"] ELSE known
      /\ UNCHANGED <<lockedBy, eventLoop, asked, callbacks, dropped>>
  BY DEF ClaimEntry
<1>2. /\ entered \subseteq Caller \cup {OldTask} /\ IsFiniteSet(entered)
      /\ InQueue <= HandoffDepth /\ Submitter \subseteq Caller /\ OldTask \notin Caller
      /\ known \in [Submitter \cup {OldTask} -> {"none", "queued", "started"}]
  BY HandoffAssumption DEF HandoffInv, HandoffTypeOK, Caller
<1>3. t \in Submitter \cup {OldTask} /\ (t \in Submitter => t = e)
  BY <1>2 DEF TaskOfCall
<1> HIDE DEF t
<1>4. InQueue' <= HandoffDepth
  <2>1. InQueue = Cardinality(entered) /\ InQueue' = Cardinality(entered')
    BY DEF InQueue
  <2>2. Cardinality(entered) \in Nat /\ HandoffDepth \in Nat
    BY <1>2, FS_CardinalityType, HandoffAssumption
  <2>3. Cardinality(entered') = Cardinality(entered) - 1
    BY <1>1, <1>2, FS_RemoveElement
  <2> QED
    BY <1>2, <2>1, <2>2, <2>3
<1>5. /\ known' \in [Submitter \cup {OldTask} -> {"none", "queued", "started"}]
      /\ \A d \in Submitter : known'[d] = IF d = t /\ known[d] = "queued" THEN "started"
                                         ELSE known[d]
  BY <1>1, <1>2, <1>3
<1>6. HandoffTypeOK'
  BY <1>1, <1>2, <1>4, <1>5 DEF HandoffInv, HandoffTypeOK
<1>7. ScheduledInv'
  BY <1>1 DEF HandoffInv, ScheduledInv
<1>8. ASSUME NEW d \in Submitter PROVE PlaceInv(d)'
  <2>1. PlaceInv(d) /\ d \in Caller /\ d # OldTask
    BY <1>2 DEF HandoffInv
  <2>2. CASE d = e
    <3>1. asked[d] \in {"put", "returned", "raised"} /\ t = d
      <4>1. TaskOfCall(d) = d
        BY DEF TaskOfCall
      <4> QED
        BY <1>1, <2>1, <2>2, <4>1 DEF HandoffInv, t
    <3>2. known'[d] = "started"
      BY <1>2, <1>5, <2>1, <3>1 DEF PlaceInv
    <3> QED
      BY <1>1, <3>1, <3>2 DEF PlaceInv
  <2>3. CASE d # e
    <3>1. known'[d] = known[d] /\ (d \in entered' <=> d \in entered)
      BY <1>1, <1>3, <1>5, <2>3
    <3> QED
      BY <1>1, <2>1, <3>1 DEF PlaceInv
  <2> QED
    BY <2>2, <2>3
<1>9. IsFiniteSet(entered')
  BY <1>1, <1>2, FS_RemoveElement
<1> QED
  BY <1>1, <1>6, <1>7, <1>8, <1>9 DEF HandoffInv

\* Every step of threads and loop keeps the invariant of the handoff.
LEMMA HandoffStep == HandoffInv /\ [HandoffNext]_handoffVars => HandoffInv'
<1> SUFFICES ASSUME HandoffInv, [HandoffNext]_handoffVars PROVE HandoffInv'
  OBVIOUS
<1>1. CASE \E c \in Caller : \/ TrackTask(c) \/ SchedulePut(c) \/ LockAndSchedulePut(c)
                             \/ ReturnFromPut(c) \/ RollBackSubmission(c) \/ GiveUp(c)
  BY <1>1, CallerKeepsHandoffInv
<1>2. CASE RunScheduledPut
  BY <1>2, PutKeepsHandoffInv
<1>3. CASE WantLock \/ GetLock
  <2>1. UNCHANGED <<lockedBy, asked, callbacks, known, entered, dropped>> /\ InQueue' = InQueue
    BY <1>3 DEF WantLock, GetLock, InQueue
  <2>2. eventLoop' \in {"free", "blocked"}
    BY <1>3 DEF WantLock, GetLock
  <2> QED
    BY <2>1, <2>2 DEF HandoffInv, HandoffTypeOK, ScheduledInv, PlaceInv
<1>4. CASE \E e \in Caller \cup {OldTask} : ClaimEntry(e)
  BY <1>4, ClaimKeepsHandoffInv
<1>5. CASE UNCHANGED handoffVars
  BY <1>5 DEF handoffVars, HandoffInv, HandoffTypeOK, ScheduledInv, PlaceInv, InQueue
<1> QED
  BY <1>1, <1>2, <1>3, <1>4, <1>5 DEF HandoffNext

\* What the invariant says of the handoff: answers are true, one call alone holds up the loop.
LEMMA HandoffPromises == HandoffInv => AnswersAreTrue /\ LoopWaitsForReprioritizeOnly
<1> SUFFICES ASSUME HandoffInv PROVE AnswersAreTrue /\ LoopWaitsForReprioritizeOnly
  OBVIOUS
<1>1. ASSUME NEW c \in Submitter
      PROVE  /\ asked[c] = "refused" => known[c] = "none" /\ c \notin entered
             /\ asked[c] = "returned" => known[c] = "started" \/ c \in entered
             /\ known[c] = "queued" /\ c \notin entered =>
                   asked[c] \in {"tracked", "waiting", "full"} \/ c \in dropped
                      \/ \E i \in DOMAIN callbacks : callbacks[i] = c
  <2>1. c \in Caller /\ PlaceInv(c)
    BY DEF HandoffInv, Caller
  <2>2. asked[c] \in {"idle", "tracked", "waiting", "put", "full", "returned", "refused", "raised"}
    BY <2>1 DEF HandoffInv, HandoffTypeOK
  <2> QED
    BY <2>1, <2>2 DEF HandoffInv, PlaceInv
<1>2. AnswersAreTrue
  BY <1>1 DEF AnswersAreTrue
<1>3. LoopWaitsForReprioritizeOnly
  BY DEF HandoffInv, LoopWaitsForReprioritizeOnly
<1> QED
  BY <1>2, <1>3

-----------------------------------------------------------------------------
(* The slots of a backend *)

\* A queue holds callers that wait for its semaphore, each once.
QueueInv(k) ==
    /\ \A i \in DOMAIN sems[k].queue :
          stage[sems[k].queue[i]] = "waiting" /\ ticket[sems[k].queue[i]] = k
    /\ \A i, j \in DOMAIN sems[k].queue : sems[k].queue[i] = sems[k].queue[j] => i = j

\* Every slot of a semaphore is free or has a holder.
AccountInv(k) ==
    /\ IsFiniteSet(Holders({k}))
    /\ Cardinality(Holders({k})) + sems[k].free = inForce[k]

SlotInv ==
    /\ SlotTypeOK
    /\ sems \in Seq([free : Nat, queue : Seq(Call)]) /\ inForce \in Seq(Nat)
    /\ \A c \in Call : stage[c] # "idle" => ticket[c] \in DOMAIN sems
    /\ \A k \in DOMAIN sems : QueueInv(k) /\ AccountInv(k)
    /\ cached # 0 => inForce[cached] = limit
    /\ changes = 0 => cached = Len(sems) /\ Len(sems) <= 1

Sem == [free : Nat, queue : Seq(Call)]

\* The parts of the invariant that the steps share.
LEMMA SlotTypes ==
    ASSUME SlotInv
    PROVE  /\ sems \in Seq(Sem) /\ Len(sems) \in Nat /\ DOMAIN sems = 1..Len(sems)
           /\ inForce \in Seq(Nat) /\ Len(inForce) = Len(sems) /\ DOMAIN inForce = DOMAIN sems
           /\ \A k \in DOMAIN sems : /\ sems[k] \in Sem /\ sems[k].free \in Nat
                                     /\ sems[k].queue \in Seq(Call) /\ inForce[k] \in Nat
           /\ limit \in Nat \ {0} /\ cached \in 0..Len(sems)
           /\ stage \in [Call -> {"idle", "waiting", "calling", "sleeping", "done", "raised"}]
           /\ ticket \in [Call -> 0..Len(sems)] /\ failures \in [Call -> 0..MaxAttempts]
           /\ changes \in 0..MaxChanges /\ MaxChanges \in Nat
<1>1. sems \in Seq(Sem) /\ inForce \in Seq(Nat) /\ Len(inForce) = Len(sems)
  BY DEF SlotInv, SlotTypeOK, Sem
<1>2. /\ Len(sems) \in Nat /\ DOMAIN sems = 1..Len(sems) /\ DOMAIN inForce = 1..Len(inForce)
  BY <1>1, LenProperties
<1>3. \A k \in DOMAIN sems : sems[k] \in Sem /\ inForce[k] \in Nat
  BY <1>1, <1>2, ElementOfSeq
<1>4. \A k \in DOMAIN sems : sems[k].free \in Nat /\ sems[k].queue \in Seq(Call)
  BY <1>3 DEF Sem
<1>5. limit \in Nat \ {0}
  BY SlotAssumption DEF SlotInv, SlotTypeOK
<1> QED
  BY <1>1, <1>2, <1>3, <1>4, <1>5, SlotAssumption DEF SlotInv, SlotTypeOK

\* The parts of the invariant for each call and each semaphore.
LEMMA SlotParts ==
    ASSUME SlotInv
    PROVE  /\ \A c \in Call : stage[c] # "idle" => ticket[c] \in DOMAIN sems /\ ticket[c] # 0
           /\ \A k \in DOMAIN sems : QueueInv(k) /\ AccountInv(k)
           /\ cached # 0 => inForce[cached] = limit
           /\ changes = 0 => cached = Len(sems) /\ Len(sems) <= 1
<1>1. /\ \A c \in Call : stage[c] # "idle" => ticket[c] \in DOMAIN sems
      /\ \A k \in DOMAIN sems : QueueInv(k) /\ AccountInv(k)
      /\ cached # 0 => inForce[cached] = limit
      /\ changes = 0 => cached = Len(sems) /\ Len(sems) <= 1
  BY DEF SlotInv
<1>2. DOMAIN sems = 1..Len(sems) /\ Len(sems) \in Nat
  BY SlotTypes
<1> QED
  BY <1>1, <1>2

\* There is no semaphore before the first call.
LEMMA SlotInitial == SlotInit => SlotInv
<1> SUFFICES ASSUME SlotInit PROVE SlotInv
  OBVIOUS
<1>1. /\ sems \in Seq([free : Nat, queue : Seq(Call)]) /\ inForce \in Seq(Nat)
      /\ Len(sems) = 0 /\ Len(inForce) = 0 /\ DOMAIN sems = {}
  BY DEF SlotInit
<1>2. \A c \in Call : stage[c] = "idle"
  BY DEF SlotInit
<1>3. SlotTypeOK
  <2>1. /\ stage \in [Call -> {"idle", "waiting", "calling", "sleeping", "done", "raised"}]
        /\ limit \in Limits \cup {DefaultLimit} /\ cached \in 0..Len(sems)
    BY <1>1 DEF SlotInit
  <2>2. ticket \in [Call -> 0..Len(sems)] /\ failures \in [Call -> 0..MaxAttempts]
    BY <1>1, SlotAssumption DEF SlotInit
  <2>3. changes \in 0..MaxChanges
    BY SlotAssumption DEF SlotInit
  <2> QED
    BY <1>1, <2>1, <2>2, <2>3 DEF SlotTypeOK
<1>4. cached = 0 /\ changes = 0
  BY DEF SlotInit
<1> QED
  BY <1>1, <1>2, <1>3, <1>4 DEF SlotInv

\* A limit that is set is that of the semaphores to come.
LEMMA SetLimitKeeps ==
    ASSUME SlotInv, NEW n \in Limits, SetLimit(n)
    PROVE  SlotInv'
<1>1. /\ UNCHANGED <<sems, stage, ticket, failures, inForce>>
      /\ limit' = n /\ cached' = 0 /\ changes' = changes + 1 /\ changes < MaxChanges
  BY DEF SetLimit
<1>2. changes' \in 0..MaxChanges /\ changes' # 0 /\ 0 \in 0..Len(sems)
  BY <1>1, SlotTypes
<1>3. SlotTypeOK'
  BY <1>1, <1>2 DEF SlotInv, SlotTypeOK
<1>4. ASSUME NEW k \in DOMAIN sems PROVE QueueInv(k)' /\ AccountInv(k)'
  <2>1. QueueInv(k) /\ AccountInv(k)
    BY DEF SlotInv
  <2>2. QueueInv(k)'
    BY <1>1, <2>1 DEF QueueInv
  <2>3. Holders({k})' = Holders({k})
    BY <1>1 DEF Holders
  <2> QED
    BY <1>1, <2>1, <2>2, <2>3 DEF AccountInv
<1> QED
  BY <1>1, <1>2, <1>3, <1>4 DEF SlotInv

\* The queue of a semaphore after a step.
LEMMA QueueFollows ==
    ASSUME NEW k, NEW q, sems'[k].queue = q,
           \A i \in DOMAIN q : stage'[q[i]] = "waiting" /\ ticket'[q[i]] = k,
           \A i, j \in DOMAIN q : q[i] = q[j] => i = j
    PROVE  QueueInv(k)'
  BY DEF QueueInv

\* A call that sleeps, or goes on, keeps its slot.
LEMMA BackOffKeeps ==
    ASSUME SlotInv, NEW c \in Call, BackOff(c) \/ CallAgain(c)
    PROVE  SlotInv'
<1>1. /\ UNCHANGED <<limit, cached, sems, ticket, inForce, changes>>
      /\ stage[c] \in {"calling", "sleeping"}
      /\ \E s \in {"calling", "sleeping"} : stage' = [stage EXCEPT ![c] = s]
  BY DEF BackOff, CallAgain
<1>2. /\ stage' \in [Call -> {"idle", "waiting", "calling", "sleeping", "done", "raised"}]
      /\ stage'[c] \in {"calling", "sleeping"}
      /\ \A d \in Call \ {c} : stage'[d] = stage[d]
  BY <1>1, SlotTypes
<1>3. failures' \in [Call -> 0..MaxAttempts]
  <2>1. failures' = failures \/ failures' = [failures EXCEPT ![c] = IF @ < MaxAttempts THEN @ + 1 ELSE @]
    BY DEF BackOff, CallAgain
  <2>2. \A m \in 0..MaxAttempts : (IF m < MaxAttempts THEN m + 1 ELSE m) \in 0..MaxAttempts
    BY SlotAssumption
  <2> QED
    BY <2>1, <2>2, SlotTypes
<1>4. \A k : Holders({k})' = Holders({k})
  BY <1>1, <1>2 DEF Holders
<1>5. SlotTypeOK'
  BY <1>1, <1>2, <1>3 DEF SlotInv, SlotTypeOK
<1>6. \A k \in DOMAIN sems : AccountInv(k)'
  BY <1>1, <1>4 DEF SlotInv, AccountInv
<1>7. ASSUME NEW k \in DOMAIN sems PROVE QueueInv(k)'
  <2> DEFINE q == sems[k].queue
  <2>1. q \in Seq(Call) /\ QueueInv(k)
    BY SlotTypes, SlotParts
  <2>2. \A i \in DOMAIN q : q[i] \in Call
    BY <2>1, LenProperties
  <2>3. /\ \A i \in DOMAIN q : stage[q[i]] = "waiting" /\ ticket[q[i]] = k
        /\ \A i, j \in DOMAIN q : q[i] = q[j] => i = j
    BY <2>1 DEF QueueInv
  <2>4. \A i \in DOMAIN q : stage'[q[i]] = "waiting" /\ ticket'[q[i]] = k
    BY <1>1, <1>2, <2>2, <2>3
  <2>5. sems'[k].queue = q
    BY <1>1
  <2> HIDE DEF q
  <2> QED
    BY <2>3, <2>4, <2>5, QueueFollows
<1> QED
  BY <1>1, <1>2, <1>5, <1>6, <1>7 DEF SlotInv

\* A sequence without one of its elements.
LEMMA Removed ==
    ASSUME NEW S, NEW q \in Seq(S), NEW i \in 1..Len(q)
    PROVE  LET r == RemoveAt(q, i) IN
           /\ r \in Seq(S) /\ Len(r) = Len(q) - 1 /\ Len(q) \in Nat
           /\ \A j \in 1..Len(r) : r[j] = IF j < i THEN q[j] ELSE q[j + 1]
<1> DEFINE n == Len(q)
           a == SubSeq(q, 1, i - 1)
           b == SubSeq(q, i + 1, n)
<1>1. n \in Nat /\ i \in 1..n /\ \A j \in 1..n : q[j] \in S
  BY LenProperties, ElementOfSeq
<1> HIDE DEF n
<1>2. /\ 1 \in Int /\ i - 1 \in Int /\ i + 1 \in Int /\ n \in Int
      /\ (\A j \in 1..(i - 1) : q[j] \in S) /\ \A j \in (i + 1)..n : q[j] \in S
  BY <1>1
<1>3. /\ a \in Seq(S) /\ Len(a) = IF 1 <= i - 1 THEN i - 1 - 1 + 1 ELSE 0
      /\ \A j \in 1..(i - 1 - 1 + 1) : a[j] = q[1 + j - 1]
  BY <1>2, SubSeqProperties
<1>4. /\ b \in Seq(S) /\ Len(b) = IF i + 1 <= n THEN n - (i + 1) + 1 ELSE 0
      /\ \A j \in 1..(n - (i + 1) + 1) : b[j] = q[(i + 1) + j - 1]
  BY <1>2, SubSeqProperties
<1> HIDE DEF a, b
<1>5. Len(a) = i - 1 /\ Len(b) = n - i
  BY <1>1, <1>3, <1>4
<1>6. /\ a \o b \in Seq(S) /\ Len(a \o b) = n - 1
      /\ \A j \in 1..(n - 1) : (a \o b)[j] = IF j <= i - 1 THEN a[j] ELSE b[j - (i - 1)]
  <2>1. /\ a \o b \in Seq(S) /\ Len(a \o b) = Len(a) + Len(b)
        /\ \A j \in 1..(Len(a) + Len(b)) :
              (a \o b)[j] = IF j <= Len(a) THEN a[j] ELSE b[j - Len(a)]
    BY <1>3, <1>4, ConcatProperties
  <2>2. Len(a) + Len(b) = n - 1
    BY <1>1, <1>5
  <2> QED
    BY <1>5, <2>1, <2>2
<1>7. ASSUME NEW j \in 1..(n - 1)
      PROVE  (a \o b)[j] = IF j < i THEN q[j] ELSE q[j + 1]
  <2>1. CASE j < i
    <3>1. j <= i - 1 /\ j \in 1..(i - 1 - 1 + 1) /\ 1 + j - 1 = j
      BY <1>1, <2>1
    <3>2. (a \o b)[j] = a[j] /\ a[j] = q[j]
      BY <1>3, <1>6, <3>1
    <3> QED
      BY <2>1, <3>2
  <2>2. CASE ~(j < i)
    <3> DEFINE l == j - (i - 1)
    <3>1. ~(j <= i - 1) /\ l \in 1..(n - (i + 1) + 1) /\ (i + 1) + l - 1 = j + 1
      BY <1>1, <2>2
    <3>2. (a \o b)[j] = b[l]
      BY <1>6, <3>1
    <3> HIDE DEF l
    <3>3. b[l] = q[j + 1]
      BY <1>4, <3>1
    <3> QED
      BY <2>2, <3>2, <3>3
  <2> QED
    BY <2>1, <2>2
<1>8. RemoveAt(q, i) = a \o b
  BY DEF RemoveAt, a, b, n
<1> QED
  BY <1>1, <1>6, <1>7, <1>8 DEF n

\* Replacing one semaphore of a sequence of them.
LEMMA SemReplaced ==
    ASSUME NEW s \in Seq(Sem), NEW k \in DOMAIN s, NEW r \in Sem,
           NEW t, t = [s EXCEPT ![k] = r]
    PROVE  /\ t \in Seq(Sem) /\ Len(t) = Len(s) /\ DOMAIN t = DOMAIN s
           /\ t[k] = r /\ \A j \in DOMAIN s \ {k} : t[j] = s[j]
<1>1. DOMAIN s = 1..Len(s)
  BY LenProperties
<1>2. t \in Seq(Sem) /\ Len(t) = Len(s)
  BY <1>1, ExceptSeq
<1> QED
  BY <1>1, <1>2, LenProperties

\* The invariant from what a step does to the semaphores, the callers and the
\* limits in force.
LEMMA SlotsFollow ==
    ASSUME SlotInv, sems' \in Seq(Sem), inForce' \in Seq(Nat), Len(inForce') = Len(sems'),
           Len(sems) <= Len(sems'),
           stage' \in [Call -> {"idle", "waiting", "calling", "sleeping", "done", "raised"}],
           ticket' \in [Call -> 0..Len(sems')], cached' \in 0..Len(sems'),
           UNCHANGED <<limit, failures, changes>>,
           \A c \in Call : stage'[c] # "idle" => ticket'[c] # 0,
           \A k \in DOMAIN sems' : QueueInv(k)' /\ AccountInv(k)',
           cached' # 0 => inForce'[cached'] = limit,
           changes = 0 => cached' = Len(sems') /\ Len(sems') <= 1
    PROVE  SlotInv'
<1>1. /\ Len(sems') \in Nat /\ DOMAIN sems' = 1..Len(sems') /\ DOMAIN inForce' = 1..Len(sems')
      /\ \A k \in DOMAIN sems' : sems'[k] \in Sem /\ inForce'[k] \in Nat
  BY LenProperties, ElementOfSeq
<1>2. ASSUME NEW k \in DOMAIN sems'
      PROVE  /\ sems'[k].free \in 0..inForce'[k]
             /\ \A i \in DOMAIN sems'[k].queue : sems'[k].queue[i] \in Call
  <2>1. sems'[k].free \in Nat /\ sems'[k].queue \in Seq(Call) /\ inForce'[k] \in Nat
    BY <1>1 DEF Sem
  <2>2. /\ IsFiniteSet(Holders({k})')
        /\ Cardinality(Holders({k})') + sems'[k].free = inForce'[k]
    BY DEF AccountInv
  <2>3. Cardinality(Holders({k})') \in Nat
    BY <2>2, FS_CardinalityType
  <2> QED
    BY <2>1, <2>2, <2>3, LenProperties
<1>3. \A c \in Call : stage'[c] # "idle" => ticket'[c] \in DOMAIN sems'
  BY <1>1
<1>4. SlotTypeOK'
  BY <1>2 DEF SlotInv, SlotTypeOK
<1> QED
  BY <1>3, <1>4 DEF SlotInv, Sem

\* A call takes a slot or queues up for one, of the semaphore there is or of a
\* new one.
LEMMA AcquireKeeps ==
    ASSUME SlotInv, NEW c \in Call, AcquireSlot(c)
    PROVE  SlotInv'
<1> DEFINE K == Semaphore
           S == WithSemaphore
<1>1. /\ stage[c] = "idle" /\ cached' = K /\ ticket' = [ticket EXCEPT ![c] = K]
      /\ inForce' = IF K \in DOMAIN inForce THEN inForce ELSE Append(inForce, limit)
      /\ UNCHANGED <<limit, failures, changes>>
      /\ \/ /\ S[K].free > 0 /\ S[K].queue = <<>>
            /\ sems' = [S EXCEPT ![K].free = @ - 1]
            /\ stage' = [stage EXCEPT ![c] = "calling"]
         \/ /\ sems' = [S EXCEPT ![K].queue = Append(@, c)]
            /\ stage' = [stage EXCEPT ![c] = "waiting"]
  BY DEF AcquireSlot
<1>2. /\ S \in Seq(Sem) /\ K \in 1..Len(S) /\ K # 0 /\ Len(S) \in Nat
      /\ DOMAIN S = 1..Len(S) /\ DOMAIN sems \subseteq DOMAIN S
      /\ \A k \in DOMAIN sems : S[k] = sems[k]
      /\ Len(S) = IF K \in DOMAIN sems THEN Len(sems) ELSE Len(sems) + 1
      /\ K \notin DOMAIN sems =>
            /\ cached = 0 /\ K = Len(sems) + 1 /\ DOMAIN S = DOMAIN sems \cup {K}
            /\ S[K].free = limit /\ S[K].queue = <<>>
  <2>1. CASE cached # 0
    <3>1. K = cached /\ K \in DOMAIN sems
      <4>1. cached \in 0..Len(sems) /\ Len(sems) \in Nat /\ DOMAIN sems = 1..Len(sems)
        BY SlotTypes
      <4> QED
        BY <2>1, <4>1 DEF Semaphore
    <3>2. S = sems
      BY <3>1 DEF WithSemaphore
    <3> QED
      BY <2>1, <3>1, <3>2, SlotTypes
  <2>2. CASE cached = 0
    <3> DEFINE new == [free |-> limit, queue |-> <<>>]
    <3>1. K = Len(sems) + 1 /\ K \notin DOMAIN sems
      BY <2>2, SlotTypes DEF Semaphore
    <3>2. S = Append(sems, new)
      BY <3>1 DEF WithSemaphore
    <3>3. new \in Sem /\ new.free = limit /\ new.queue = <<>>
      BY SlotTypes DEF Sem
    <3> HIDE DEF new
    <3>4. /\ S \in Seq(Sem) /\ Len(S) = Len(sems) + 1 /\ S[Len(sems) + 1] = new
          /\ \A k \in 1..Len(sems) : S[k] = sems[k]
      BY <3>2, <3>3, SlotTypes, AppendProperties
    <3>5. DOMAIN S = 1..Len(S)
      BY <3>4, LenProperties
    <3>6. 1..(Len(sems) + 1) = (1..Len(sems)) \cup {Len(sems) + 1}
      <4>1. Len(sems) \in Nat
        BY SlotTypes
      <4> QED
        BY <4>1
    <3> QED
      BY <2>2, <3>1, <3>3, <3>4, <3>5, <3>6, SlotTypes
  <2> QED
    BY <2>1, <2>2
<1>3. /\ inForce' \in Seq(Nat) /\ Len(inForce') = Len(S)
      /\ \A k \in DOMAIN sems : inForce'[k] = inForce[k]
      /\ inForce'[K] = limit
  <2>1. CASE K \in DOMAIN sems
    <3>1. inForce' = inForce
      BY <1>1, <2>1, SlotTypes
    <3>2. cached # 0 /\ K = cached
      BY <2>1, SlotTypes DEF Semaphore
    <3> QED
      BY <1>2, <2>1, <3>1, <3>2, SlotTypes DEF SlotInv
  <2>2. CASE K \notin DOMAIN sems
    <3>1. inForce' = Append(inForce, limit) /\ K = Len(inForce) + 1
      BY <1>1, <1>2, <2>2, SlotTypes
    <3> QED
      BY <1>2, <2>2, <3>1, SlotTypes, AppendProperties
  <2> QED
    BY <2>1, <2>2
<1>4. \A k \in DOMAIN S : /\ S[k] \in Sem /\ S[k].free \in Nat /\ S[k].queue \in Seq(Call)
                         /\ \A i \in DOMAIN S[k].queue : S[k].queue[i] \in Call
  <2> SUFFICES ASSUME NEW k \in DOMAIN S
               PROVE  /\ S[k] \in Sem /\ S[k].free \in Nat /\ S[k].queue \in Seq(Call)
                      /\ \A i \in DOMAIN S[k].queue : S[k].queue[i] \in Call
    OBVIOUS
  <2> HIDE DEF S
  <2>1. S[k] \in Sem
    BY <1>2, ElementOfSeq
  <2>2. S[k].free \in Nat /\ S[k].queue \in Seq(Call)
    BY <2>1 DEF Sem
  <2> QED
    BY <2>1, <2>2, LenProperties
<1> HIDE DEF K, S
<1>5. ASSUME NEW k \in DOMAIN S
      PROVE  /\ IsFiniteSet(Holders({k})) /\ Cardinality(Holders({k})) + S[k].free = inForce'[k]
             /\ \A i \in DOMAIN S[k].queue :
                   stage[S[k].queue[i]] = "waiting" /\ ticket[S[k].queue[i]] = k
             /\ \A i, j \in DOMAIN S[k].queue : S[k].queue[i] = S[k].queue[j] => i = j
  <2>1. CASE k \in DOMAIN sems
    <3>1. S[k] = sems[k] /\ inForce'[k] = inForce[k]
      BY <1>2, <1>3, <2>1
    <3>2. AccountInv(k) /\ QueueInv(k)
      BY <2>1 DEF SlotInv
    <3> QED
      BY <3>1, <3>2 DEF AccountInv, QueueInv
  <2>2. CASE k \notin DOMAIN sems
    <3>1. k = K /\ K = Len(sems) + 1 /\ S[k].free = limit /\ S[k].queue = <<>>
      BY <1>2, <2>2
    <3>2. Holders({k}) = {}
      BY <3>1, SlotTypes DEF Holders
    <3>3. IsFiniteSet(Holders({k})) /\ Cardinality(Holders({k})) = 0
      BY <3>2, FS_EmptySet
    <3> QED
      BY <1>3, <3>1, <3>3, SlotTypes
  <2> QED
    BY <2>1, <2>2
<1>6. K \in DOMAIN S /\ Len(sems) <= Len(S)
  BY <1>2, SlotTypes
<1>7. /\ ticket' \in [Call -> 0..Len(S)] /\ ticket'[c] = K
      /\ \A d \in Call \ {c} : ticket'[d] = ticket[d]
  BY <1>1, <1>2, SlotTypes
<1>8. changes = 0 => K = Len(S) /\ Len(S) <= 1
  BY <1>2, SlotTypes DEF SlotInv, K, Semaphore
<1>9. ASSUME NEW s \in {"calling", "waiting"}, stage' = [stage EXCEPT ![c] = s],
             sems' \in Seq(Sem), Len(sems') = Len(S), DOMAIN sems' = DOMAIN S,
             \A k \in DOMAIN S : QueueInv(k)' /\ AccountInv(k)'
      PROVE  SlotInv'
  <2>1. /\ stage' \in [Call -> {"idle", "waiting", "calling", "sleeping", "done", "raised"}]
        /\ \A d \in Call \ {c} : stage'[d] = stage[d]
    BY <1>9, SlotTypes
  <2>2. \A d \in Call : stage'[d] # "idle" => ticket'[d] # 0
    <3>1. \A d \in Call : stage[d] # "idle" => ticket[d] # 0
      BY SlotParts
    <3> QED
      BY <1>2, <1>7, <2>1, <3>1
  <2> QED
    BY <1>1, <1>2, <1>3, <1>6, <1>7, <1>8, <1>9, <2>1, <2>2, SlotsFollow
<1>10. CASE /\ S[K].free > 0 /\ S[K].queue = <<>>
            /\ sems' = [S EXCEPT ![K].free = @ - 1]
            /\ stage' = [stage EXCEPT ![c] = "calling"]
  <2> DEFINE r == [S[K] EXCEPT !.free = @ - 1]
  <2>1. r \in Sem /\ r.free = S[K].free - 1 /\ r.queue = S[K].queue
    <3>1. S[K] \in [free : Nat, queue : Seq(Call)] /\ S[K].free \in Nat /\ S[K].free > 0
      BY <1>4, <1>6, <1>10 DEF Sem
    <3>2. S[K].free - 1 \in Nat
      BY <3>1
    <3> QED
      BY <3>1, <3>2 DEF Sem
  <2>2. sems' = [S EXCEPT ![K] = r]
    BY <1>10
  <2> HIDE DEF r
  <2>3. /\ sems' \in Seq(Sem) /\ Len(sems') = Len(S) /\ DOMAIN sems' = DOMAIN S
        /\ sems'[K] = r /\ \A k \in DOMAIN S \ {K} : sems'[k] = S[k]
    BY <1>2, <1>6, <2>1, <2>2, SemReplaced
  <2>4. stage'[c] = "calling" /\ \A d \in Call \ {c} : stage'[d] = stage[d]
    BY <1>10, SlotTypes
  <2>5. ASSUME NEW k \in DOMAIN S PROVE QueueInv(k)'
    <3>1. sems'[k].queue = S[k].queue
      BY <2>1, <2>3
    <3>2. \A i \in DOMAIN S[k].queue : S[k].queue[i] # c
      BY <1>1, <1>5
    <3>3. /\ \A i \in DOMAIN S[k].queue :
                stage[S[k].queue[i]] = "waiting" /\ ticket[S[k].queue[i]] = k
          /\ \A i, j \in DOMAIN S[k].queue : S[k].queue[i] = S[k].queue[j] => i = j
      BY <1>5
    <3>4. \A i \in DOMAIN S[k].queue :
             stage'[S[k].queue[i]] = "waiting" /\ ticket'[S[k].queue[i]] = k
      BY <1>4, <1>7, <2>4, <3>2, <3>3
    <3> QED
      BY <3>1, <3>3, <3>4, QueueFollows
  <2>6. ASSUME NEW k \in DOMAIN S PROVE AccountInv(k)'
    <3>1. CASE k = K
      <4>1. Holders({k})' = Holders({k}) \cup {c} /\ c \notin Holders({k})
        BY <1>1, <1>7, <2>4, <3>1 DEF Holders
      <4>2. /\ IsFiniteSet(Holders({k})')
            /\ Cardinality(Holders({k})') = Cardinality(Holders({k})) + 1
        BY <1>5, <4>1, FS_AddElement
      <4>3. Cardinality(Holders({k})) \in Nat
        BY <1>5, FS_CardinalityType
      <4>4. Cardinality(Holders({k})) + S[k].free = inForce'[k] /\ S[k].free \in Nat
        BY <1>4, <1>5
      <4>5. sems'[k].free = S[k].free - 1
        BY <2>1, <2>3, <3>1
      <4> QED
        BY <4>2, <4>3, <4>4, <4>5 DEF AccountInv
    <3>2. CASE k # K
      <4>1. Holders({k})' = Holders({k})
        BY <1>1, <1>7, <2>4, <3>2 DEF Holders
      <4> QED
        BY <1>5, <2>3, <3>2, <4>1 DEF AccountInv
    <3> QED
      BY <3>1, <3>2
  <2> QED
    BY <1>9, <1>10, <2>3, <2>5, <2>6
<1>11. CASE /\ sems' = [S EXCEPT ![K].queue = Append(@, c)]
            /\ stage' = [stage EXCEPT ![c] = "waiting"]
  <2> DEFINE q == S[K].queue
             r == [S[K] EXCEPT !.queue = Append(@, c)]
  <2>1. q \in Seq(Call)
    BY <1>4, <1>6
  <2>2. r.free = S[K].free /\ r.queue = Append(q, c) /\ r \in Sem
    BY <1>4, <1>6, <2>1, AppendProperties DEF Sem
  <2>3. sems' = [S EXCEPT ![K] = r]
    BY <1>11
  <2> HIDE DEF r
  <2>4. /\ sems' \in Seq(Sem) /\ Len(sems') = Len(S) /\ DOMAIN sems' = DOMAIN S
        /\ sems'[K] = r /\ \A k \in DOMAIN S \ {K} : sems'[k] = S[k]
    BY <1>2, <1>6, <2>2, <2>3, SemReplaced
  <2>5. stage'[c] = "waiting" /\ \A d \in Call \ {c} : stage'[d] = stage[d]
    BY <1>11, SlotTypes
  <2>6. \A k \in DOMAIN S : Holders({k})' = Holders({k})
    BY <1>1, <1>7, <2>5 DEF Holders
  <2>7. ASSUME NEW k \in DOMAIN S PROVE AccountInv(k)'
    BY <1>5, <2>2, <2>4, <2>6 DEF AccountInv
  <2>8. \A k \in DOMAIN S : \A i \in DOMAIN S[k].queue : S[k].queue[i] # c
    BY <1>1, <1>5
  <2>9. ASSUME NEW k \in DOMAIN S PROVE QueueInv(k)'
    <3>1. CASE k # K
      <4>1. sems'[k].queue = S[k].queue
        BY <2>4, <3>1
      <4>2. /\ \A i \in DOMAIN S[k].queue :
                  stage[S[k].queue[i]] = "waiting" /\ ticket[S[k].queue[i]] = k
            /\ \A i, j \in DOMAIN S[k].queue : S[k].queue[i] = S[k].queue[j] => i = j
        BY <1>5
      <4>3. \A i \in DOMAIN S[k].queue :
               stage'[S[k].queue[i]] = "waiting" /\ ticket'[S[k].queue[i]] = k
        BY <1>4, <1>7, <2>5, <2>8, <4>2
      <4> QED
        BY <4>1, <4>2, <4>3, QueueFollows
    <3>2. CASE k = K
      <4> DEFINE n == Len(q)
      <4>1. n \in Nat /\ DOMAIN q = 1..n
        BY <2>1, LenProperties
      <4>2. /\ Append(q, c) \in Seq(Call) /\ Len(Append(q, c)) = n + 1
            /\ \A i \in 1..n : Append(q, c)[i] = q[i]
            /\ Append(q, c)[n + 1] = c
        BY <2>1, AppendProperties
      <4> HIDE DEF n
      <4>3. DOMAIN Append(q, c) = 1..(n + 1) /\ 1..(n + 1) = (1..n) \cup {n + 1}
        BY <4>1, <4>2, LenProperties
      <4>4. sems'[k].queue = Append(q, c)
        BY <2>2, <2>4, <3>2
      <4>5. \A i \in 1..n : q[i] \in Call /\ q[i] # c /\ stage[q[i]] = "waiting" /\ ticket[q[i]] = K
        BY <1>4, <1>5, <1>6, <2>8, <4>1
      <4>6. \A i \in 1..(n + 1) :
               stage'[Append(q, c)[i]] = "waiting" /\ ticket'[Append(q, c)[i]] = K
        <5>1. \A i \in 1..n : stage'[q[i]] = "waiting" /\ ticket'[q[i]] = K
          BY <1>7, <2>5, <4>5
        <5> QED
          BY <1>7, <2>5, <4>2, <4>3, <5>1
      <4>7. \A i, j \in 1..n : q[i] = q[j] => i = j
        BY <1>5, <1>6, <4>1
      <4>8. \A i, j \in 1..(n + 1) : Append(q, c)[i] = Append(q, c)[j] => i = j
        BY <4>2, <4>3, <4>5, <4>7
      <4> QED
        BY <3>2, <4>3, <4>4, <4>6, <4>8 DEF QueueInv
    <3> QED
      BY <3>1, <3>2
  <2> QED
    BY <1>9, <1>11, <2>4, <2>7, <2>9
<1> QED
  BY <1>1, <1>10, <1>11

\* A call ends: its slot is free, or goes to the first of the queue.
LEMMA LeaveKeeps ==
    ASSUME SlotInv, NEW c \in Call, stage[c] \in {"calling", "sleeping"},
           NEW how \in {"done", "raised"}, LeaveSlot(c, how),
           UNCHANGED <<limit, cached, ticket, failures, inForce, changes>>
    PROVE  SlotInv'
<1>0. ticket[c] \in DOMAIN sems /\ ticket[c] # 0
  BY SlotParts
<1>00. PICK k \in DOMAIN sems : k = ticket[c] /\ k # 0
  BY <1>0
<1> DEFINE q == sems[k].queue
<1>1. /\ k \in DOMAIN sems /\ QueueInv(k) /\ AccountInv(k) /\ k # 0
      /\ \A j \in DOMAIN sems : QueueInv(j) /\ AccountInv(j)
  BY <1>00, SlotParts
<1>2. /\ sems \in Seq(Sem) /\ sems[k] \in Sem /\ sems[k].free \in Nat /\ q \in Seq(Call)
      /\ inForce[k] \in Nat /\ \A j \in DOMAIN sems : sems[j].queue \in Seq(Call)
  BY <1>1, SlotTypes
<1>3. /\ stage \in [Call -> {"idle", "waiting", "calling", "sleeping", "done", "raised"}]
      /\ ticket \in [Call -> 0..Len(sems)]
  BY SlotTypes
<1>4. /\ q = <<>> => sems' = [sems EXCEPT ![k].free = @ + 1]
      /\ q # <<>> => sems' = [sems EXCEPT ![k].queue = Tail(@)]
      /\ stage' = [d \in Call |-> IF d = c THEN how
                                  ELSE IF q # <<>> /\ d = Head(q) THEN "calling"
                                  ELSE stage[d]]
  BY <1>00 DEF LeaveSlot
<1> HIDE DEF q
<1>5. /\ stage' \in [Call -> {"idle", "waiting", "calling", "sleeping", "done", "raised"}]
      /\ stage'[c] = how
      /\ \A d \in Call \ {c} : stage'[d] = IF q # <<>> /\ d = Head(q) THEN "calling" ELSE stage[d]
  BY <1>3, <1>4
<1>6. /\ IsFiniteSet(Holders({k})) /\ Cardinality(Holders({k})) + sems[k].free = inForce[k]
      /\ c \in Holders({k}) /\ Cardinality(Holders({k})) \in Nat
  BY <1>00, <1>1, FS_CardinalityType DEF AccountInv, Holders
<1>7. \A d \in Call : stage'[d] # "idle" => ticket'[d] # 0
  <2>1. \A d \in Call : stage[d] # "idle" => ticket[d] # 0
    BY SlotParts
  <2>2. q # <<>> => Head(q) \in Call /\ stage[Head(q)] = "waiting"
    <3> SUFFICES ASSUME q # <<>> PROVE Head(q) \in Call /\ stage[Head(q)] = "waiting"
      OBVIOUS
    <3>1. 1 \in DOMAIN q /\ Head(q) = q[1] /\ Head(q) \in Call
      BY <1>2, EmptySeq, LenProperties, HeadTailProperties
    <3> QED
      BY <1>1, <3>1 DEF QueueInv, q
  <2> QED
    BY <1>00, <1>1, <1>5, <2>1, <2>2
<1>8. ASSUME sems' \in Seq(Sem), Len(sems') = Len(sems), DOMAIN sems' = DOMAIN sems,
             \A j \in DOMAIN sems : QueueInv(j)' /\ AccountInv(j)'
      PROVE  SlotInv'
  <2>1. /\ Len(inForce) = Len(sems) /\ Len(sems) \in Nat /\ inForce \in Seq(Nat)
        /\ cached \in 0..Len(sems)
    BY SlotTypes
  <2>2. /\ sems' \in Seq(Sem) /\ inForce' \in Seq(Nat) /\ Len(inForce') = Len(sems')
        /\ Len(sems) <= Len(sems') /\ ticket' \in [Call -> 0..Len(sems')]
        /\ cached' \in 0..Len(sems') /\ UNCHANGED <<limit, failures, changes>>
    BY <1>3, <1>8, <2>1
  <2>3. /\ \A j \in DOMAIN sems' : QueueInv(j)' /\ AccountInv(j)'
        /\ cached' # 0 => inForce'[cached'] = limit
        /\ changes = 0 => cached' = Len(sems') /\ Len(sems') <= 1
    BY <1>8, SlotParts
  <2> QED
    BY <1>5, <1>7, <2>2, <2>3, SlotsFollow
<1>9. CASE q = <<>>
  <2> DEFINE r == [sems[k] EXCEPT !.free = @ + 1]
  <2>1. r \in Sem /\ r.free = sems[k].free + 1 /\ r.queue = q
    <3>1. sems[k] \in [free : Nat, queue : Seq(Call)] /\ sems[k].free + 1 \in Nat
      BY <1>2 DEF Sem
    <3> QED
      BY <3>1 DEF Sem, q
  <2>2. sems' = [sems EXCEPT ![k] = r]
    BY <1>4, <1>9
  <2> HIDE DEF r
  <2>3. /\ sems' \in Seq(Sem) /\ Len(sems') = Len(sems) /\ DOMAIN sems' = DOMAIN sems
        /\ sems'[k] = r /\ \A j \in DOMAIN sems \ {k} : sems'[j] = sems[j]
    BY <1>1, <1>2, <2>1, <2>2, SemReplaced
  <2>4. \A d \in Call \ {c} : stage'[d] = stage[d]
    BY <1>5, <1>9
  <2>5. ASSUME NEW j \in DOMAIN sems PROVE QueueInv(j)'
    <3>1. sems'[j].queue = sems[j].queue
      BY <2>1, <2>3 DEF q
    <3>2. \A i \in DOMAIN sems[j].queue : sems[j].queue[i] \in Call /\ sems[j].queue[i] # c
      BY <1>1, <1>2, LenProperties DEF QueueInv
    <3>3. \A i \in DOMAIN sems[j].queue : stage'[sems[j].queue[i]] = stage[sems[j].queue[i]]
      BY <2>4, <3>2
    <3> QED
      BY <1>1, <3>1, <3>3 DEF QueueInv
  <2>6. ASSUME NEW j \in DOMAIN sems PROVE AccountInv(j)'
    <3>1. CASE j = k
      <4>1. Holders({k})' = Holders({k}) \ {c}
        <5>1. stage'[c] \notin {"calling", "sleeping"} /\ ticket' = ticket
          BY <1>5
        <5> QED
          BY <2>4, <5>1 DEF Holders
      <4>2. /\ IsFiniteSet(Holders({k})')
            /\ Cardinality(Holders({k})') = Cardinality(Holders({k})) - 1
        <5>1. Cardinality(Holders({k}) \ {c}) = Cardinality(Holders({k})) - 1
          BY <1>6, FS_RemoveElement
        <5>2. IsFiniteSet(Holders({k}) \ {c})
          BY <1>6, FS_RemoveElement
        <5> QED
          BY <4>1, <5>1, <5>2
      <4>3. sems'[k].free = sems[k].free + 1
        BY <2>1, <2>3
      <4>4. Cardinality(Holders({k})') + sems'[k].free = inForce'[k]
        <5>1. Cardinality(Holders({k})) + sems[k].free = inForce'[k]
          BY <1>6
        <5> DEFINE m == Cardinality(Holders({k}))
                   f == sems[k].free
                   l == inForce'[k]
        <5>2. m \in Nat /\ f \in Nat /\ m + f = l
          BY <1>2, <1>6, <5>1
        <5> HIDE DEF m, f, l
        <5>3. (m - 1) + (f + 1) = l
          BY <5>2
        <5>4. Cardinality(Holders({k})') = m - 1 /\ sems'[k].free = f + 1 /\ inForce'[k] = l
          BY <4>2, <4>3 DEF m, f, l
        <5> QED
          BY <5>3, <5>4
      <4> QED
        BY <3>1, <4>2, <4>4 DEF AccountInv
    <3>2. CASE j # k
      <4>1. Holders({j})' = Holders({j})
        BY <1>00, <1>5, <2>4, <3>2 DEF Holders
      <4> QED
        BY <1>1, <2>3, <3>2, <4>1 DEF AccountInv
    <3> QED
      BY <3>1, <3>2
  <2> QED
    BY <1>8, <2>3, <2>5, <2>6
<1>10. CASE q # <<>>
  <2> DEFINE r == [sems[k] EXCEPT !.queue = Tail(q)]
             h == Head(q)
             n == Len(q)
  <2>1. /\ n \in Nat /\ n > 0 /\ DOMAIN q = 1..n /\ h = q[1] /\ h \in Call
        /\ Tail(q) \in Seq(Call) /\ Len(Tail(q)) = n - 1
        /\ \A i \in 1..Len(Tail(q)) : Tail(q)[i] = q[i + 1]
    BY <1>2, <1>10, EmptySeq, LenProperties, HeadTailProperties
  <2>2. r \in Sem /\ r.free = sems[k].free /\ r.queue = Tail(q)
    BY <1>2, <2>1 DEF Sem, q
  <2>3. sems' = [sems EXCEPT ![k] = r]
    BY <1>4, <1>10 DEF q
  <2> HIDE DEF r, h, n
  <2>4. /\ sems' \in Seq(Sem) /\ Len(sems') = Len(sems) /\ DOMAIN sems' = DOMAIN sems
        /\ sems'[k] = r /\ \A j \in DOMAIN sems \ {k} : sems'[j] = sems[j]
    BY <1>1, <1>2, <2>2, <2>3, SemReplaced
  <2>5. /\ \A i \in 1..n : stage[q[i]] = "waiting" /\ ticket[q[i]] = k /\ q[i] \in Call
        /\ \A i, j \in 1..n : q[i] = q[j] => i = j
    BY <1>1, <1>2, <2>1, ElementOfSeq DEF QueueInv, q
  <2>6. 1 \in 1..n /\ stage[h] = "waiting" /\ ticket[h] = k /\ h # c
    BY <2>1, <2>5
  <2>7. stage'[h] = "calling" /\ \A d \in Call \ {c, h} : stage'[d] = stage[d]
    BY <1>5, <1>10, <2>1, <2>6 DEF h
  <2>8. \A i \in 1..(n - 1) : i + 1 \in 1..n /\ i + 1 # 1 /\ Tail(q)[i] = q[i + 1]
    BY <2>1
  <2>9. QueueInv(k)'
    <3>1. sems'[k].queue = Tail(q) /\ DOMAIN Tail(q) = 1..(n - 1)
      BY <2>1, <2>2, <2>4, LenProperties
    <3>2. \A i \in 1..(n - 1) : Tail(q)[i] \in Call /\ Tail(q)[i] # h /\ Tail(q)[i] # c
                                /\ stage[Tail(q)[i]] = "waiting" /\ ticket[Tail(q)[i]] = k
      BY <2>1, <2>5, <2>6, <2>8
    <3>3. \A i \in 1..(n - 1) : stage'[Tail(q)[i]] = "waiting"
      BY <2>7, <3>2
    <3>4. ASSUME NEW i \in 1..(n - 1), NEW j \in 1..(n - 1), Tail(q)[i] = Tail(q)[j]
          PROVE  i = j
      <4>1. i + 1 = j + 1
        BY <2>5, <2>8, <3>4
      <4> QED
        BY <2>1, <4>1
    <3>5. \A i \in 1..(n - 1) : ticket'[Tail(q)[i]] = k
      BY <3>2
    <3>6. /\ \A i \in DOMAIN Tail(q) :
                stage'[Tail(q)[i]] = "waiting" /\ ticket'[Tail(q)[i]] = k
          /\ \A i, j \in DOMAIN Tail(q) : Tail(q)[i] = Tail(q)[j] => i = j
      BY <3>1, <3>3, <3>4, <3>5
    <3> QED
      BY <3>1, <3>6, QueueFollows
  <2>10. ASSUME NEW j \in DOMAIN sems, j # k PROVE QueueInv(j)'
    <3>1. sems'[j] = sems[j] /\ QueueInv(j)
      BY <1>1, <2>4, <2>10
    <3>2. \A i \in DOMAIN sems[j].queue :
             /\ sems[j].queue[i] \in Call /\ stage[sems[j].queue[i]] = "waiting"
             /\ ticket[sems[j].queue[i]] = j
      BY <1>2, <3>1, LenProperties DEF QueueInv
    <3>3. \A i \in DOMAIN sems[j].queue :
             sems[j].queue[i] # c /\ sems[j].queue[i] # h
      BY <2>6, <2>10, <3>2
    <3>4. \A i \in DOMAIN sems[j].queue : stage'[sems[j].queue[i]] = stage[sems[j].queue[i]]
      BY <2>7, <3>2, <3>3
    <3> QED
      BY <3>1, <3>4 DEF QueueInv
  <2>11. AccountInv(k)'
    <3>1. Holders({k})' = (Holders({k}) \ {c}) \cup {h} /\ h \notin Holders({k}) \ {c}
      BY <1>00, <1>5, <2>1, <2>6, <2>7 DEF Holders
    <3>2. /\ IsFiniteSet(Holders({k}) \ {c})
          /\ Cardinality(Holders({k}) \ {c}) = Cardinality(Holders({k})) - 1
      BY <1>6, FS_RemoveElement
    <3>3. /\ IsFiniteSet(Holders({k})')
          /\ Cardinality(Holders({k})') = Cardinality(Holders({k})) - 1 + 1
      <4> DEFINE H == Holders({k}) \ {c}
      <4>1. IsFiniteSet(H) /\ h \notin H /\ Holders({k})' = H \cup {h}
        BY <3>1, <3>2
      <4>2. Cardinality(H) = Cardinality(Holders({k})) - 1
        BY <3>2
      <4> HIDE DEF H
      <4>3. IsFiniteSet(H \cup {h}) /\ Cardinality(H \cup {h}) = Cardinality(H) + 1
        BY <4>1, FS_AddElement
      <4> QED
        BY <4>1, <4>2, <4>3
    <3>4. sems'[k].free = sems[k].free
      BY <2>2, <2>4
    <3>5. Cardinality(Holders({k})') + sems'[k].free = inForce'[k]
      BY <1>2, <1>6, <3>3, <3>4
    <3> QED
      BY <3>3, <3>5 DEF AccountInv
  <2>12. ASSUME NEW j \in DOMAIN sems, j # k PROVE AccountInv(j)'
    <3>1. Holders({j})' = Holders({j})
      BY <1>00, <1>5, <2>1, <2>6, <2>7, <2>12 DEF Holders
    <3> QED
      BY <1>1, <2>4, <2>12, <3>1 DEF AccountInv
  <2>13. \A j \in DOMAIN sems : QueueInv(j)' /\ AccountInv(j)'
    BY <2>9, <2>10, <2>11, <2>12
  <2> QED
    BY <1>8, <2>4, <2>13
<1> QED
  BY <1>9, <1>10

\* A call that is cancelled while it waits leaves the queue.
LEMMA CancelKeeps ==
    ASSUME SlotInv, NEW c \in Call, CancelWaiting(c)
    PROVE  SlotInv'
<1>0. ticket[c] \in DOMAIN sems /\ ticket[c] # 0
  BY SlotParts DEF CancelWaiting
<1>00. PICK k \in DOMAIN sems : k = ticket[c] /\ k # 0
  BY <1>0
<1> DEFINE q == sems[k].queue
           n == Len(q)
<1>1. /\ k \in DOMAIN sems /\ k # 0 /\ stage[c] = "waiting"
      /\ \A j \in DOMAIN sems : QueueInv(j) /\ AccountInv(j)
  BY <1>00, SlotParts DEF CancelWaiting
<1>2. /\ sems \in Seq(Sem) /\ sems[k] \in Sem /\ q \in Seq(Call)
      /\ \A j \in DOMAIN sems : sems[j].queue \in Seq(Call)
      /\ stage \in [Call -> {"idle", "waiting", "calling", "sleeping", "done", "raised"}]
      /\ ticket \in [Call -> 0..Len(sems)]
  BY <1>1, SlotTypes
<1>3. n \in Nat /\ DOMAIN q = 1..n
  BY <1>2, LenProperties
<1>4. PICK i \in 1..n : q[i] = c /\ sems' = [sems EXCEPT ![k].queue = RemoveAt(@, i)]
  BY <1>3, <1>00 DEF CancelWaiting
<1>5. /\ stage' = [stage EXCEPT ![c] = "raised"]
      /\ UNCHANGED <<limit, cached, ticket, failures, inForce, changes>>
  BY DEF CancelWaiting
<1> DEFINE t == RemoveAt(q, i)
           r == [sems[k] EXCEPT !.queue = t]
<1>6. /\ t \in Seq(Call) /\ Len(t) = n - 1
      /\ \A j \in 1..Len(t) : t[j] = IF j < i THEN q[j] ELSE q[j + 1]
  BY <1>2, <1>4, Removed
<1> HIDE DEF t
<1>7. r \in Sem /\ r.free = sems[k].free /\ r.queue = t
  BY <1>2, <1>6 DEF Sem
<1>8. sems' = [sems EXCEPT ![k] = r]
  BY <1>4 DEF t
<1> HIDE DEF q, n, r
<1>9. /\ sems' \in Seq(Sem) /\ Len(sems') = Len(sems) /\ DOMAIN sems' = DOMAIN sems
      /\ sems'[k] = r /\ \A j \in DOMAIN sems \ {k} : sems'[j] = sems[j]
  BY <1>1, <1>2, <1>7, <1>8, SemReplaced
<1>10. /\ stage' \in [Call -> {"idle", "waiting", "calling", "sleeping", "done", "raised"}]
       /\ stage'[c] = "raised" /\ \A d \in Call \ {c} : stage'[d] = stage[d]
  BY <1>2, <1>5
<1>11. ASSUME NEW j \in DOMAIN sems PROVE AccountInv(j)'
  <2>1. Holders({j})' = Holders({j})
    BY <1>1, <1>5, <1>10 DEF Holders
  <2>2. sems'[j].free = sems[j].free
    BY <1>7, <1>9
  <2> QED
    BY <1>1, <1>5, <2>1, <2>2 DEF AccountInv
<1>12. ASSUME NEW j \in DOMAIN sems, j # k PROVE QueueInv(j)'
  <2>1. sems'[j] = sems[j] /\ QueueInv(j)
    BY <1>1, <1>9, <1>12
  <2>2. \A l \in DOMAIN sems[j].queue : sems[j].queue[l] \in Call /\ ticket[sems[j].queue[l]] = j
    BY <1>2, <2>1, LenProperties DEF QueueInv
  <2>3. \A l \in DOMAIN sems[j].queue : sems[j].queue[l] # c
    BY <1>00, <1>12, <2>2
  <2>4. \A l \in DOMAIN sems[j].queue : stage'[sems[j].queue[l]] = stage[sems[j].queue[l]]
    BY <1>10, <2>2, <2>3
  <2> QED
    BY <1>5, <2>1, <2>4 DEF QueueInv
<1>13. QueueInv(k)'
  <2>1. /\ \A j \in 1..n : stage[q[j]] = "waiting" /\ ticket[q[j]] = k /\ q[j] \in Call
        /\ \A j, l \in 1..n : q[j] = q[l] => j = l
    BY <1>1, <1>2, <1>3, ElementOfSeq DEF QueueInv, q, n
  <2> DEFINE at(j) == IF j < i THEN j ELSE j + 1
  <2>2. \A j \in 1..(n - 1) : at(j) \in 1..n /\ at(j) # i /\ t[j] = q[at(j)]
    BY <1>3, <1>4, <1>6
  <2>3. \A j, l \in 1..(n - 1) : at(j) = at(l) => j = l
    BY <1>3, <1>4
  <2> HIDE DEF at
  <2>4. \A j \in 1..(n - 1) : t[j] \in Call /\ t[j] # c /\ stage[t[j]] = "waiting" /\ ticket[t[j]] = k
    BY <1>4, <2>1, <2>2
  <2>5. \A j \in 1..(n - 1) : stage'[t[j]] = "waiting"
    BY <1>10, <2>4
  <2>6. \A j, l \in 1..(n - 1) : t[j] = t[l] => j = l
    BY <2>1, <2>2, <2>3
  <2>7. sems'[k].queue = t /\ DOMAIN t = 1..(n - 1)
    BY <1>6, <1>7, <1>9, LenProperties
  <2>8. \A j \in 1..(n - 1) : ticket'[t[j]] = k
    BY <1>5, <2>4
  <2>9. /\ \A j \in DOMAIN t : stage'[t[j]] = "waiting" /\ ticket'[t[j]] = k
        /\ \A j, l \in DOMAIN t : t[j] = t[l] => j = l
    BY <2>5, <2>6, <2>7, <2>8
  <2> QED
    BY <2>7, <2>9, QueueFollows
<1>14. \A d \in Call : stage'[d] # "idle" => ticket'[d] # 0
  <2>1. \A d \in Call : stage[d] # "idle" => ticket[d] # 0
    BY SlotParts
  <2> QED
    BY <1>1, <1>5, <1>10, <2>1
<1>15. /\ Len(inForce) = Len(sems) /\ Len(sems) \in Nat /\ inForce \in Seq(Nat)
       /\ cached \in 0..Len(sems)
  BY SlotTypes
<1>16. /\ sems' \in Seq(Sem) /\ inForce' \in Seq(Nat) /\ Len(inForce') = Len(sems')
       /\ Len(sems) <= Len(sems') /\ ticket' \in [Call -> 0..Len(sems')]
       /\ cached' \in 0..Len(sems') /\ UNCHANGED <<limit, failures, changes>>
  BY <1>2, <1>5, <1>9, <1>15
<1>17. /\ \A j \in DOMAIN sems' : QueueInv(j)' /\ AccountInv(j)'
       /\ cached' # 0 => inForce'[cached'] = limit
       /\ changes = 0 => cached' = Len(sems') /\ Len(sems') <= 1
  BY <1>5, <1>9, <1>11, <1>12, <1>13, SlotParts
<1> QED
  BY <1>10, <1>14, <1>16, <1>17, SlotsFollow

\* Every step of calls and operators keeps the invariant of the slots.
LEMMA SlotStep == SlotInv /\ [SlotNext]_slotVars => SlotInv'
<1> SUFFICES ASSUME SlotInv, [SlotNext]_slotVars PROVE SlotInv'
  OBVIOUS
<1>1. CASE \E n \in Limits : SetLimit(n)
  BY <1>1, SetLimitKeeps
<1>2. ASSUME NEW c \in Call, AcquireSlot(c) \/ BackendAnswers(c) \/ CancelWaiting(c)
      PROVE  SlotInv'
  <2>1. CASE AcquireSlot(c)
    BY <2>1, AcquireKeeps
  <2>2. CASE BackOff(c) \/ CallAgain(c)
    BY <2>2, BackOffKeeps
  <2>3. CASE Answered(c) \/ RaiseCall(c)
    BY <2>3, LeaveKeeps DEF Answered, RaiseCall
  <2>4. CASE CancelWaiting(c)
    BY <2>4, CancelKeeps
  <2> QED
    BY <1>2, <2>1, <2>2, <2>3, <2>4 DEF BackendAnswers
<1>3. CASE UNCHANGED slotVars
  <2>1. UNCHANGED <<limit, cached, sems, stage, ticket, failures, inForce, changes>>
    BY <1>3 DEF slotVars
  <2>2. SlotTypeOK'
    BY <2>1 DEF SlotInv, SlotTypeOK
  <2>3. ASSUME NEW k \in DOMAIN sems PROVE QueueInv(k)' /\ AccountInv(k)'
    <3>1. QueueInv(k) /\ AccountInv(k)
      BY SlotParts
    <3>2. QueueInv(k)'
      BY <2>1, <3>1 DEF QueueInv
    <3>3. Holders({k})' = Holders({k})
      BY <2>1 DEF Holders
    <3> QED
      BY <2>1, <3>1, <3>2, <3>3 DEF AccountInv
  <2> QED
    BY <2>1, <2>2, <2>3 DEF SlotInv
<1> QED
  BY <1>1, <1>2, <1>3 DEF SlotNext

\* No more calls are in flight than the account of their semaphores allows.
LEMMA SlotPromises == SlotInv => InFlightIsBounded
<1> SUFFICES ASSUME SlotInv PROVE InFlightIsBounded
  OBVIOUS
<1>1. ASSUME NEW k \in DOMAIN sems
      PROVE  /\ Cardinality(Holders({k})) + sems[k].free <= inForce[k]
             /\ Cardinality(Holders({k})) <= inForce[k]
  <2>1. /\ IsFiniteSet(Holders({k})) /\ Cardinality(Holders({k})) + sems[k].free = inForce[k]
        /\ sems[k].free \in Nat /\ inForce[k] \in Nat
    BY SlotTypes DEF SlotInv, AccountInv
  <2>2. Cardinality(Holders({k})) \in Nat
    BY <2>1, FS_CardinalityType
  <2> QED
    BY <2>1, <2>2
<1>2. cached # 0 => cached \in DOMAIN sems /\ inForce[cached] = limit
  <2>1. cached \in 0..Len(sems) /\ Len(sems) \in Nat /\ DOMAIN sems = 1..Len(sems)
    BY SlotTypes
  <2>2. cached # 0 => inForce[cached] = limit
    BY SlotParts
  <2> QED
    BY <2>1, <2>2
<1>3. ASSUME changes = 0
      PROVE  Cardinality(Holders(DOMAIN sems)) <= limit
  <2>1. /\ cached = Len(sems) /\ Len(sems) <= 1 /\ Len(sems) \in Nat /\ DOMAIN sems = 1..Len(sems)
        /\ limit \in Nat
    BY <1>3, SlotTypes DEF SlotInv
  <2>2. CASE Len(sems) = 0
    <3>1. Holders(DOMAIN sems) = {}
      BY <2>1, <2>2 DEF Holders
    <3> QED
      BY <2>1, <3>1, FS_EmptySet
  <2>3. CASE Len(sems) = 1
    <3>1. DOMAIN sems = {cached} /\ cached # 0
      BY <2>1, <2>3
    <3> QED
      BY <1>1, <1>2, <3>1
  <2> QED
    BY <2>1, <2>2, <2>3
<1> QED
  BY <1>1, <1>2, <1>3 DEF InFlightIsBounded

-----------------------------------------------------------------------------
(* External agents *)

AgentRun == [at : {"idle", "runs", "done"}, adapter : Adapter \cup {"none"},
             op : Operation \cup {"none"}, workspace : BOOLEAN,
             result : {"none", "completed", "unavailable", "cancelled"},
             changed : BOOLEAN, readOnly : BOOLEAN, cancelTold : BOOLEAN]

\* What runs has been validated and has reported nothing yet; what has completed
\* under an honest declaration keeps the rules.
RunInv(r) ==
    /\ r.at # "done" => r.result = "none"
    /\ r.at = "runs" => r.op \in Operation /\ Valid(r.adapter, r.op, r.workspace) /\ ~r.changed
    /\ r.result = "completed" /\ Honest(r.adapter) => RulesKept(r)

AgentInv ==
    /\ adapters \subseteq Adapter /\ loadingAt \in 0..Len(Plugins)
    /\ agentRun \in [AgentCaller -> AgentRun]
    /\ \A c \in AgentCaller : RunInv(agentRun[c])

\* The invariant from what a step does to one run.
LEMMA AgentFollows ==
    ASSUME AgentInv, NEW c \in AgentCaller, NEW r \in AgentRun, RunInv(r),
           agentRun' = [agentRun EXCEPT ![c] = r], UNCHANGED <<adapters, loadingAt>>
    PROVE  AgentInv'
<1>1. /\ agentRun' \in [AgentCaller -> AgentRun] /\ agentRun'[c] = r
      /\ \A d \in AgentCaller \ {c} : agentRun'[d] = agentRun[d]
  BY DEF AgentInv
<1>2. ASSUME NEW d \in AgentCaller PROVE RunInv(agentRun'[d])
  <2>1. CASE d = c
    BY <1>1, <2>1
  <2>2. CASE d # c
    <3>1. RunInv(agentRun[d])
      BY DEF AgentInv
    <3> QED
      BY <1>1, <2>2, <3>1
  <2> QED
    BY <2>1, <2>2
<1>3. \A d \in AgentCaller : RunInv(agentRun[d])'
  BY <1>2 DEF RunInv, Valid, CapabilityOf, Honest, RulesKept
<1> QED
  BY <1>1, <1>3 DEF AgentInv

\* A result without changes and not "completed" breaks no rule.
LEMMA ResultKeeps ==
    ASSUME NEW r \in AgentRun, NEW s \in {"unavailable", "cancelled"}, NEW ro \in BOOLEAN
    PROVE  Result(r, s, ro) \in AgentRun /\ RunInv(Result(r, s, ro))
<1> DEFINE x == Result(r, s, ro)
<1>1. /\ x \in AgentRun /\ x.at = "done" /\ x.result = s
  BY DEF Result, AgentRun
<1> HIDE DEF x
<1>2. RunInv(x)
  BY <1>1 DEF RunInv
<1> QED
  BY <1>1, <1>2 DEF x

\* A completed run of an honest adapter keeps the rules, whatever it reports.
LEMMA CheckedKeeps ==
    ASSUME NEW r \in AgentRun, r.at = "runs", r.op \in Operation,
           Valid(r.adapter, r.op, r.workspace),
           NEW own \in BOOLEAN, own => ~r.changed
    PROVE  Checked(r, own) \in AgentRun /\ RunInv(Checked(r, own))
<1>1. CASE Accepted(r)
  <2> DEFINE ro == own \/ r.op \in ReadOnlyByNature
             x == [r EXCEPT !.at = "done", !.result = "completed", !.readOnly = ro]
  <2>1. Checked(r, own) = x
    BY <1>1 DEF Checked
  <2>2. ro \in BOOLEAN
    OBVIOUS
  <2>3. ro => own \/ r.op \in ReadOnlyByNature
    OBVIOUS
  <2>4. r.op \in ReadOnlyByNature => ro
    OBVIOUS
  <2> HIDE DEF ro
  <2>5. /\ x \in AgentRun /\ x.at = "done" /\ x.result = "completed" /\ x.readOnly = ro
        /\ x.op = r.op /\ x.changed = r.changed /\ x.workspace = r.workspace
        /\ x.adapter = r.adapter
    BY <2>2 DEF AgentRun
  <2> HIDE DEF x
  <2>6. ASSUME Honest(x.adapter) PROVE RulesKept(x)
    <3>1. r.op \in ReadOnlyByNature => ~r.changed
      BY <1>1, <2>5, <2>6 DEF Honest, Accepted
    <3>2. r.op \in WritesByNature => r.workspace
      BY <2>5, <2>6 DEF Honest, Valid
    <3>3. ro => ~r.changed
      BY <2>3, <3>1
    <3> QED
      BY <2>4, <2>5, <3>1, <3>2, <3>3 DEF RulesKept
  <2> QED
    BY <2>1, <2>5, <2>6 DEF RunInv
<1>2. CASE ~Accepted(r)
  <2>1. Checked(r, own) = Result(r, "unavailable", r.op \in ReadOnlyByNature)
    BY <1>2 DEF Checked
  <2>2. (r.op \in ReadOnlyByNature) \in BOOLEAN
    OBVIOUS
  <2> QED
    BY <2>1, <2>2, ResultKeeps
<1> QED
  BY <1>1, <1>2

\* No agent runs before the plugins are loaded.
LEMMA AgentInitial == AgentInit => AgentInv
<1> SUFFICES ASSUME AgentInit PROVE AgentInv
  OBVIOUS
<1>1. NoAgentRun \in AgentRun /\ NoAgentRun.at = "idle" /\ NoAgentRun.result = "none"
  BY DEF NoAgentRun, AgentRun
<1>2. RunInv(NoAgentRun)
  BY <1>1 DEF RunInv
<1>3. agentRun \in [AgentCaller -> AgentRun] /\ \A c \in AgentCaller : agentRun[c] = NoAgentRun
  BY <1>1 DEF AgentInit
<1>4. adapters \subseteq Adapter /\ loadingAt \in 0..Len(Plugins)
  BY AgentAssumption, LenProperties DEF AgentInit
<1> QED
  BY <1>2, <1>3, <1>4 DEF AgentInv

\* Loading touches no run.
LEMMA LoadKeeps ==
    ASSUME AgentInv, LoadStarts \/ LoadPlugin \/ LoadFails
    PROVE  AgentInv'
<1>1. Len(Plugins) \in Nat /\ \A i \in 1..Len(Plugins) : Plugins[i] \in Adapter
  BY AgentAssumption, LenProperties, ElementOfSeq
<1>2. loadingAt \in 0..Len(Plugins) /\ adapters \subseteq Adapter
  BY DEF AgentInv
<1>3. Plugins # <<>> => 1 \in 0..Len(Plugins)
  BY <1>1, AgentAssumption, EmptySeq
<1>4. adapters' \subseteq Adapter /\ loadingAt' \in 0..Len(Plugins) /\ agentRun' = agentRun
  <2>1. CASE LoadStarts
    BY <1>2, <1>3, <2>1 DEF LoadStarts
  <2>2. CASE LoadPlugin
    BY <1>1, <1>2, <2>2 DEF LoadPlugin
  <2>3. CASE LoadFails
    BY <1>1, <1>2, <2>3 DEF LoadFails
  <2> QED
    BY <2>1, <2>2, <2>3
<1>5. \A c \in AgentCaller : RunInv(agentRun[c])'
  BY <1>4 DEF AgentInv, RunInv, Valid, CapabilityOf, Honest, RulesKept
<1> QED
  BY <1>4, <1>5 DEF AgentInv

\* A run begins when the adapter accepts it, and ends at once when not.
LEMMA BeginKeeps ==
    ASSUME AgentInv, NEW c \in AgentCaller, NEW a \in Adapter, NEW op \in Operation,
           NEW w \in BOOLEAN, BeginAgentRun(c, a, op, w)
    PROVE  AgentInv'
<1> DEFINE r == [NoAgentRun EXCEPT !.adapter = a, !.op = op, !.workspace = w]
           ran == [r EXCEPT !.at = "runs"]
           ro == op \in ReadOnlyByNature
<1>1. r \in AgentRun /\ ran \in AgentRun /\ ran.at = "runs" /\ ran.op = op /\ ran.adapter = a
      /\ ran.workspace = w /\ ran.changed = FALSE /\ ran.result = "none"
  BY DEF NoAgentRun, AgentRun
<1>2. ro \in BOOLEAN
  OBVIOUS
<1>3. /\ agentRun' = [agentRun EXCEPT ![c] =
             IF a \notin adapters \/ ~Valid(a, op, w) THEN Result(r, "unavailable", ro) ELSE ran]
      /\ UNCHANGED <<adapters, loadingAt>>
  BY DEF BeginAgentRun
<1> HIDE DEF r, ran, ro
<1>4. CASE a \notin adapters \/ ~Valid(a, op, w)
  <2>1. agentRun' = [agentRun EXCEPT ![c] = Result(r, "unavailable", ro)]
    BY <1>3, <1>4
  <2> QED
    BY <1>1, <1>2, <1>3, <2>1, ResultKeeps, AgentFollows
<1>5. CASE ~(a \notin adapters \/ ~Valid(a, op, w))
  <2>1. agentRun' = [agentRun EXCEPT ![c] = ran]
    BY <1>3, <1>5
  <2>2. RunInv(ran)
    BY <1>1, <1>5 DEF RunInv
  <2> QED
    BY <1>1, <1>3, <2>1, <2>2, AgentFollows
<1> QED
  BY <1>4, <1>5

\* What the invariant says of a run under way.
LEMMA RunningAgent ==
    ASSUME AgentInv, NEW c \in AgentCaller, agentRun[c].at = "runs"
    PROVE  /\ agentRun[c] \in AgentRun /\ agentRun[c].op \in Operation
           /\ Valid(agentRun[c].adapter, agentRun[c].op, agentRun[c].workspace)
           /\ ~agentRun[c].changed /\ agentRun[c].result = "none"
  BY DEF AgentInv, RunInv

\* The result of a run passes the check of its operation before it counts as completed.
LEMMA AnswersKeep ==
    ASSUME AgentInv, NEW c \in AgentCaller,
           \/ \E changed, ro \in BOOLEAN : PluginAnswers(c, changed, ro)
           \/ WrapperAnswers(c) \/ WrapperUnavailable(c)
    PROVE  AgentInv'
<1>1. agentRun[c].at = "runs" /\ UNCHANGED <<adapters, loadingAt>>
  BY DEF PluginAnswers, WrapperAnswers, WrapperUnavailable
<1> DEFINE r == agentRun[c]
<1>2. /\ r \in AgentRun /\ r.at = "runs" /\ r.op \in Operation
      /\ Valid(r.adapter, r.op, r.workspace) /\ ~r.changed
  BY <1>1, RunningAgent
<1>3. /\ Checked(r, TRUE) \in AgentRun /\ RunInv(Checked(r, TRUE))
  <2> HIDE DEF r
  <2> QED
    BY <1>2, CheckedKeeps
<1>4. CASE \E changed, ro \in BOOLEAN : PluginAnswers(c, changed, ro)
  <2>1. PICK changed \in BOOLEAN, ro \in BOOLEAN : PluginAnswers(c, changed, ro)
    BY <1>4
  <2> DEFINE x == [r EXCEPT !.changed = changed]
  <2>2. /\ (ro => ~changed) /\ agentRun' = [agentRun EXCEPT ![c] = Checked(x, ro)]
    BY <2>1 DEF PluginAnswers
  <2> HIDE DEF r
  <2>3. /\ x \in AgentRun /\ x.changed = changed /\ x.at = r.at /\ x.op = r.op
        /\ x.adapter = r.adapter /\ x.workspace = r.workspace
    BY <1>2 DEF AgentRun
  <2> HIDE DEF x
  <2>4. Checked(x, ro) \in AgentRun /\ RunInv(Checked(x, ro))
    BY <1>2, <2>2, <2>3, CheckedKeeps
  <2> QED
    BY <1>1, <2>2, <2>4, AgentFollows
<1>5. CASE WrapperAnswers(c)
  <2>1. \/ agentRun' = [agentRun EXCEPT ![c] = Result(r, "cancelled", FALSE)]
        \/ agentRun' = [agentRun EXCEPT ![c] = Checked(r, TRUE)]
    BY <1>5 DEF WrapperAnswers
  <2>2. Result(r, "cancelled", FALSE) \in AgentRun /\ RunInv(Result(r, "cancelled", FALSE))
    BY <1>2, ResultKeeps
  <2> HIDE DEF r
  <2> QED
    BY <1>1, <1>3, <2>1, <2>2, AgentFollows
<1>6. CASE WrapperUnavailable(c)
  <2>1. \/ agentRun' = [agentRun EXCEPT ![c] = Checked(r, TRUE)]
        \/ agentRun' = [agentRun EXCEPT ![c] = Result(r, "unavailable", TRUE)]
    BY <1>6 DEF WrapperUnavailable
  <2>2. Result(r, "unavailable", TRUE) \in AgentRun /\ RunInv(Result(r, "unavailable", TRUE))
    BY <1>2, ResultKeeps
  <2> HIDE DEF r
  <2> QED
    BY <1>1, <1>3, <2>1, <2>2, AgentFollows
<1> QED
  BY <1>4, <1>5, <1>6

\* A cancelled run is told so and goes on.
LEMMA CancelAgentKeeps ==
    ASSUME AgentInv, NEW c \in AgentCaller, CancelAgentRun(c)
    PROVE  AgentInv'
<1> DEFINE x == [agentRun[c] EXCEPT !.cancelTold = TRUE]
<1>1. /\ agentRun[c].at = "runs" /\ UNCHANGED <<adapters, loadingAt>>
      /\ agentRun' = [agentRun EXCEPT ![c] = x]
  BY DEF CancelAgentRun
<1>2. /\ agentRun[c] \in AgentRun /\ agentRun[c].op \in Operation
      /\ Valid(agentRun[c].adapter, agentRun[c].op, agentRun[c].workspace)
      /\ ~agentRun[c].changed /\ agentRun[c].result = "none"
  BY <1>1, RunningAgent
<1>3. /\ x \in AgentRun /\ x.at = "runs" /\ x.op = agentRun[c].op
      /\ x.adapter = agentRun[c].adapter /\ x.workspace = agentRun[c].workspace
      /\ x.changed = agentRun[c].changed /\ x.result = agentRun[c].result
  BY <1>1, <1>2 DEF AgentRun
<1> HIDE DEF x
<1>4. RunInv(x)
  BY <1>2, <1>3 DEF RunInv
<1> QED
  BY <1>1, <1>3, <1>4, AgentFollows

\* The caller takes the result, and the place is as new.
LEMMA TakeKeeps ==
    ASSUME AgentInv, NEW c \in AgentCaller, TakeResult(c)
    PROVE  AgentInv'
<1>1. /\ agentRun' = [agentRun EXCEPT ![c] = NoAgentRun] /\ UNCHANGED <<adapters, loadingAt>>
  BY DEF TakeResult
<1>2. NoAgentRun \in AgentRun /\ NoAgentRun.at = "idle" /\ NoAgentRun.result = "none"
  BY DEF NoAgentRun, AgentRun
<1>3. RunInv(NoAgentRun)
  BY <1>2 DEF RunInv
<1> QED
  BY <1>1, <1>2, <1>3, AgentFollows

\* Every step of loading and running agents keeps the invariant.
LEMMA AgentStep == AgentInv /\ [AgentNext]_agentVars => AgentInv'
<1> SUFFICES ASSUME AgentInv, [AgentNext]_agentVars PROVE AgentInv'
  OBVIOUS
<1>1. CASE LoadStarts \/ LoadPlugin \/ LoadFails
  BY <1>1, LoadKeeps
<1>2. ASSUME NEW c \in AgentCaller,
             \/ \E a \in Adapter, op \in Operation, w \in BOOLEAN : BeginAgentRun(c, a, op, w)
             \/ \E changed, ro \in BOOLEAN : PluginAnswers(c, changed, ro)
             \/ WrapperAnswers(c) \/ WrapperUnavailable(c) \/ CancelAgentRun(c) \/ TakeResult(c)
      PROVE  AgentInv'
  BY <1>2, BeginKeeps, AnswersKeep, CancelAgentKeeps, TakeKeeps
<1>3. CASE UNCHANGED agentVars
  BY <1>3 DEF agentVars, AgentInv, RunInv, Valid, CapabilityOf, Honest, RulesKept
<1> QED
  BY <1>1, <1>2, <1>3 DEF AgentNext

\* An agent that declares truly keeps to its operation.
LEMMA AgentPromises == AgentInv => HonestRunsKeepRules
  BY DEF AgentInv, RunInv, HonestRunsKeepRules

-----------------------------------------------------------------------------
(* SSH sessions *)

Conn == [key : PoolKey, state : {"open", "broken", "closed"}, past : BOOLEAN]
Errand == [at : {"idle", "asks", "connects", "closes", "runs"},
           key : PoolKey \cup {"none"}, conn : Nat]

\* Who has the lock found no session to share; while it closes the old one the
\* pool still names that.
SshLockInv(o) ==
    /\ errand[o].at # "idle" => KeyFor(o) \in PoolKey
    /\ errand[o].at \in {"connects", "closes"} => poolLock = o /\ ~Reusable(OldOf(o))
    /\ errand[o].at \in {"closes", "runs"} =>
          errand[o].conn \in DOMAIN conns /\ conns[errand[o].conn].key = KeyFor(o)
    /\ errand[o].at = "closes" => OldOf(o) # 0 /\ conns[OldOf(o)].state = "closed"

OwnerInv(c) ==
    conns[c].state = "open" => pooled[conns[c].key] = c \/ c \in lostSight \/ InHand(c)

SshInv ==
    /\ conns \in Seq(Conn) /\ errand \in [Operator -> Errand]
    /\ pooled \in [PoolKey -> 0..Len(conns)] /\ poolLock \in Operator \cup {"free"}
    /\ \A o \in Operator : errand[o].conn \in 0..Len(conns)
    /\ lostSight \subseteq DOMAIN conns
    /\ \A k \in PoolKey : pooled[k] # 0 => conns[pooled[k]].key = k
    /\ \A c \in DOMAIN conns : conns[c].state = "closed" => conns[c].past
    /\ \A o \in Operator : SshLockInv(o)
    /\ \A c \in DOMAIN conns : OwnerInv(c)

\* What the connections and the places that name them are.
LEMMA SshTypes ==
    ASSUME SshInv
    PROVE  /\ Len(conns) \in Nat /\ DOMAIN conns = 1..Len(conns)
           /\ \A c \in DOMAIN conns : /\ conns[c] \in Conn /\ conns[c].key \in PoolKey
                                      /\ conns[c].state \in {"open", "broken", "closed"}
                                      /\ conns[c].past \in BOOLEAN
           /\ \A k \in PoolKey : pooled[k] \in 0..Len(conns)
                                 /\ (pooled[k] # 0 => pooled[k] \in DOMAIN conns)
           /\ \A o \in Operator :
                 /\ errand[o] \in Errand /\ errand[o].conn \in 0..Len(conns)
                 /\ errand[o].at \in {"idle", "asks", "connects", "closes", "runs"}
<1>1. Len(conns) \in Nat /\ DOMAIN conns = 1..Len(conns)
  BY LenProperties DEF SshInv
<1>2. \A c \in DOMAIN conns : conns[c] \in Conn
  BY <1>1, ElementOfSeq DEF SshInv
<1>3. \A c \in DOMAIN conns : /\ conns[c].key \in PoolKey
                              /\ conns[c].state \in {"open", "broken", "closed"}
                              /\ conns[c].past \in BOOLEAN
  BY <1>2 DEF Conn
<1>4. pooled \in [PoolKey -> 0..Len(conns)] /\ errand \in [Operator -> Errand]
      /\ \A o \in Operator : errand[o].conn \in 0..Len(conns)
  BY DEF SshInv
<1>5. \A k \in PoolKey : pooled[k] \in 0..Len(conns)
                         /\ (pooled[k] # 0 => pooled[k] \in DOMAIN conns)
  BY <1>1, <1>4
<1>6. \A o \in Operator : errand[o] \in Errand
  BY <1>4
<1>7. \A o \in Operator : errand[o].at \in {"idle", "asks", "connects", "closes", "runs"}
  BY <1>6 DEF Errand
<1> QED
  BY <1>1, <1>2, <1>3, <1>4, <1>5, <1>6, <1>7

\* The pool starts empty, its lock free.
LEMMA SshInitial == SshInit => SshInv
<1> SUFFICES ASSUME SshInit PROVE SshInv
  OBVIOUS
<1>1. conns \in Seq(Conn) /\ Len(conns) = 0 /\ DOMAIN conns = {}
  BY DEF SshInit
<1>2. NoErrand \in Errand /\ NoErrand.at = "idle" /\ NoErrand.conn = 0
  BY DEF NoErrand, Errand
<1>3. errand \in [Operator -> Errand] /\ \A o \in Operator : errand[o] = NoErrand
  BY <1>2 DEF SshInit
<1>4. pooled \in [PoolKey -> 0..Len(conns)] /\ \A k \in PoolKey : pooled[k] = 0
  BY <1>1 DEF SshInit
<1>5. \A o \in Operator : SshLockInv(o)
  BY <1>2, <1>3 DEF SshLockInv
<1>6. \A o \in Operator : errand[o].conn \in 0..Len(conns)
  BY <1>1, <1>2, <1>3
<1> QED
  BY <1>1, <1>3, <1>4, <1>5, <1>6 DEF SshInit, SshInv

\* A request moves on, and neither the sessions nor the pool change.
LEMMA ErrandMoves ==
    ASSUME SshInv, NEW o \in Operator, NEW e \in Errand,
           errand' = [errand EXCEPT ![o] = e], UNCHANGED <<conns, pooled>>,
           poolLock' \in Operator \cup {"free"},
           lostSight \subseteq lostSight', lostSight' \subseteq DOMAIN conns,
           e.conn \in 0..Len(conns), e.at # "closes",
           errand[o].at = "closes" => errand[o].conn \in lostSight',
           \A p \in Operator \ {o} :
              errand[p].at \in {"connects", "closes"} => poolLock' = p,
           e.at # "idle" => e.key \in PoolKey,
           e.at = "connects" => poolLock' = o /\ ~Reusable(pooled[e.key]),
           e.at = "runs" => e.conn \in DOMAIN conns /\ conns[e.conn].key = e.key
    PROVE  SshInv'
<1>1. /\ errand' \in [Operator -> Errand] /\ errand'[o] = e
      /\ \A p \in Operator \ {o} : errand'[p] = errand[p]
  BY DEF SshInv
<1>2. conns' = conns /\ pooled' = pooled
  OBVIOUS
<1>3. \A p \in Operator : errand'[p].conn \in 0..Len(conns)
  BY <1>1, SshTypes
<1>4. ASSUME NEW p \in Operator PROVE SshLockInv(p)'
  <2>1. CASE p = o
    BY <1>1, <1>2, <2>1 DEF SshLockInv, KeyFor, OldOf, Reusable
  <2>2. CASE p # o
    <3>1. SshLockInv(p) /\ errand'[p] = errand[p]
      BY <1>1, <2>2 DEF SshInv
    <3> QED
      BY <1>2, <2>2, <3>1 DEF SshLockInv, KeyFor, OldOf, Reusable
  <2> QED
    BY <2>1, <2>2
<1>5. ASSUME NEW c \in DOMAIN conns PROVE OwnerInv(c)'
  <2>1. OwnerInv(c)
    BY DEF SshInv
  <2>2. ASSUME InHand(c) PROVE c \in lostSight' \/ InHand(c)'
    <3>1. PICK p \in Operator : errand[p].at = "closes" /\ errand[p].conn = c
      BY <2>2 DEF InHand, InErrand
    <3>2. CASE p = o
      BY <3>1, <3>2
    <3>3. CASE p # o
      BY <1>1, <3>1, <3>3 DEF InHand, InErrand
    <3> QED
      BY <3>2, <3>3
  <2> QED
    BY <1>2, <2>1, <2>2 DEF OwnerInv
<1> QED
  BY <1>1, <1>2, <1>3, <1>4, <1>5 DEF SshInv

\* The operators that connect or close are the one that holds the lock.
LEMMA OneHasTheLock ==
    ASSUME SshInv
    PROVE  /\ \A p \in Operator : errand[p].at \in {"connects", "closes"} => poolLock = p
           /\ poolLock = "free" => \A p \in Operator : errand[p].at \notin {"connects", "closes"}
<1>1. \A p \in Operator : errand[p].at \in {"connects", "closes"} => poolLock = p
  BY DEF SshInv, SshLockInv
<1> QED
  BY <1>1, SshAssumption

\* Who gets the lock shares a session, closes an old one, or opens one.
LEMMA EnterKeeps ==
    ASSUME SshInv, NEW o \in Operator, Enter(o)
    PROVE  SshInv'
<1>1. /\ errand[o].at = "asks" /\ poolLock = "free"
      /\ UNCHANGED <<conns, pooled, lostSight>>
  BY DEF Enter, InErrand
<1>2. \A p \in Operator : errand[p].at \notin {"connects", "closes"}
  BY <1>1, OneHasTheLock
<1>3. errand[o] \in Errand /\ errand[o].key \in PoolKey /\ errand[o].conn \in 0..Len(conns)
  BY <1>1, SshTypes DEF SshInv, SshLockInv, KeyFor
<1> DEFINE k == errand[o].key
           old == pooled[k]
<1>4. old \in 0..Len(conns) /\ (old # 0 => old \in DOMAIN conns /\ conns[old].key = k)
  BY <1>3, SshTypes DEF SshInv
<1>5. lostSight \subseteq DOMAIN conns
  BY DEF SshInv
<1>6. CASE Reusable(old)
  <2> DEFINE e == [errand[o] EXCEPT !.at = "runs", !.conn = old]
  <2>1. errand' = [errand EXCEPT ![o] = e] /\ poolLock' = poolLock
    BY <1>6 DEF Enter, OldOf, KeyFor
  <2>2. e \in Errand /\ e.at = "runs" /\ e.conn = old /\ e.key = k
    <3>1. old \in Nat
      BY <1>4, SshTypes
    <3> QED
      BY <1>3, <3>1 DEF Errand
  <2>3. old # 0
    BY <1>6 DEF Reusable
  <2> HIDE DEF e, k, old
  <2> QED
    BY <1>1, <1>2, <1>3, <1>4, <1>5, <2>1, <2>2, <2>3, ErrandMoves DEF k
<1>7. CASE ~Reusable(old)
  <2> DEFINE e == [errand[o] EXCEPT !.at = "connects"]
  <2>1. errand' = [errand EXCEPT ![o] = e] /\ poolLock' = o
    BY <1>7 DEF Enter, OldOf, KeyFor, GoTo
  <2>2. e \in Errand /\ e.at = "connects" /\ e.conn = errand[o].conn /\ e.key = k
    BY <1>3 DEF Errand
  <2>3. ~Reusable(pooled[e.key])
    BY <1>7, <2>2
  <2> HIDE DEF e, k, old
  <2>4. e.key \in PoolKey /\ e.conn \in 0..Len(conns)
    BY <1>3, <2>2 DEF k
  <2> QED
    BY <1>1, <1>2, <1>5, <2>1, <2>2, <2>3, <2>4, ErrandMoves
<1> QED
  BY <1>6, <1>7

\* An operator is back from an errand of any kind.
LEMMA GoneIdle ==
    ASSUME SshInv, NEW o \in Operator, Idle(o), UNCHANGED <<conns, pooled>>,
           poolLock' \in Operator \cup {"free"},
           lostSight \subseteq lostSight', lostSight' \subseteq DOMAIN conns,
           errand[o].at = "closes" => errand[o].conn \in lostSight',
           poolLock' = poolLock \/ errand[o].at \in {"connects", "closes"}
    PROVE  SshInv'
<1>1. NoErrand \in Errand /\ NoErrand.at = "idle" /\ NoErrand.conn = 0
  BY DEF NoErrand, Errand
<1>2. NoErrand.conn \in 0..Len(conns)
  BY <1>1, SshTypes
<1>3. \A p \in Operator \ {o} : errand[p].at \in {"connects", "closes"} => poolLock' = p
  BY OneHasTheLock
<1>4. errand' = [errand EXCEPT ![o] = NoErrand]
  BY DEF Idle
<1> QED
  BY <1>1, <1>2, <1>3, <1>4, ErrandMoves

\* An errand that fails or ends gives back what it had, the lock included.
LEMMA ReturnKeeps ==
    ASSUME SshInv, NEW o \in Operator,
           ConnectFails(o) \/ CloseFails(o) \/ RunEnds(o) \/ GivesUpWaiting(o)
    PROVE  SshInv'
<1>1. poolLock \in Operator \cup {"free"} /\ lostSight \subseteq DOMAIN conns
  BY DEF SshInv
<1>2. CASE ConnectFails(o)
  BY <1>1, <1>2, GoneIdle DEF ConnectFails, InErrand
<1>3. CASE CloseFails(o)
  <2>1. errand[o].at = "closes" /\ lostSight' = lostSight \cup {errand[o].conn}
        /\ Idle(o) /\ poolLock' = "free" /\ UNCHANGED <<conns, pooled>>
    BY <1>3 DEF CloseFails, InErrand
  <2>2. errand[o].conn \in DOMAIN conns
    BY <2>1 DEF SshInv, SshLockInv
  <2> QED
    BY <1>1, <2>1, <2>2, GoneIdle
<1>4. CASE RunEnds(o) \/ GivesUpWaiting(o)
  BY <1>1, <1>4, GoneIdle DEF RunEnds, GivesUpWaiting, InErrand
<1> QED
  BY <1>2, <1>3, <1>4

\* An operator asks for a session and waits for the lock.
LEMMA AskKeeps ==
    ASSUME SshInv, NEW o \in Operator, NEW k \in PoolKey, Ask(o, k)
    PROVE  SshInv'
<1> DEFINE e == [at |-> "asks", key |-> k, conn |-> 0]
<1>1. /\ errand[o].at = "idle" /\ errand' = [errand EXCEPT ![o] = e]
      /\ UNCHANGED <<conns, pooled, poolLock, lostSight>>
  BY DEF Ask, InErrand
<1>2. e \in Errand /\ e.at = "asks" /\ e.key = k /\ e.conn = 0
  BY DEF Errand
<1> HIDE DEF e
<1>3. e.conn \in 0..Len(conns)
  BY <1>2, SshTypes
<1>4. poolLock \in Operator \cup {"free"} /\ lostSight \subseteq DOMAIN conns
  BY DEF SshInv
<1> QED
  BY <1>1, <1>2, <1>3, <1>4, OneHasTheLock, ErrandMoves

\* The old session has been closed: the new one takes its place.
LEMMA CloseKeeps ==
    ASSUME SshInv, NEW o \in Operator, ClosesOldSession(o)
    PROVE  SshInv'
<1> DEFINE k == errand[o].key
           n == errand[o].conn
           e == [errand[o] EXCEPT !.at = "runs", !.conn = n]
<1>1. /\ errand[o].at = "closes" /\ pooled' = [pooled EXCEPT ![k] = n]
      /\ poolLock' = "free" /\ errand' = [errand EXCEPT ![o] = e]
      /\ UNCHANGED <<conns, lostSight>>
  BY DEF ClosesOldSession, InErrand, Keep, KeyFor
<1>2. SshLockInv(o) /\ errand[o] \in Errand
  BY SshTypes DEF SshInv
<1>3. /\ k \in PoolKey /\ n \in DOMAIN conns /\ conns[n].key = k
      /\ pooled[k] # 0 /\ conns[pooled[k]].state = "closed"
  BY <1>1, <1>2 DEF SshLockInv, KeyFor, OldOf
<1>4. e \in Errand /\ e.at = "runs" /\ e.conn = n /\ e.key = k
  BY <1>2 DEF Errand
<1> HIDE DEF e, k, n
<1>5. /\ errand' \in [Operator -> Errand] /\ errand'[o] = e
      /\ \A p \in Operator \ {o} : errand'[p] = errand[p]
  BY <1>1, <1>4 DEF SshInv
<1>6. n \in 0..Len(conns)
  BY <1>3, SshTypes
<1>7. /\ pooled' \in [PoolKey -> 0..Len(conns)] /\ pooled'[k] = n
      /\ \A j \in PoolKey \ {k} : pooled'[j] = pooled[j]
  BY <1>1, <1>3, <1>6 DEF SshInv
<1>8. \A j \in PoolKey : pooled'[j] # 0 => conns[pooled'[j]].key = j
  BY <1>3, <1>7 DEF SshInv
<1>9. \A p \in Operator \ {o} : errand[p].at \notin {"connects", "closes"}
  BY <1>1, OneHasTheLock
<1>10. ASSUME NEW p \in Operator PROVE SshLockInv(p)'
  <2>1. CASE p = o
    BY <1>1, <1>3, <1>4, <1>5, <2>1 DEF SshLockInv, KeyFor
  <2>2. CASE p # o
    <3>1. SshLockInv(p) /\ errand'[p] = errand[p] /\ errand[p].at \notin {"connects", "closes"}
      BY <1>5, <1>9, <2>2 DEF SshInv
    <3> QED
      BY <1>1, <3>1 DEF SshLockInv, KeyFor
  <2> QED
    BY <2>1, <2>2
<1>11. ASSUME NEW c \in DOMAIN conns PROVE OwnerInv(c)'
  <2> SUFFICES ASSUME conns[c].state = "open" PROVE pooled'[conns[c].key] = c \/ c \in lostSight
    BY <1>1 DEF OwnerInv
  <2>1. OwnerInv(c) /\ conns[c].key \in PoolKey
    BY SshTypes DEF SshInv
  <2>2. CASE pooled[conns[c].key] = c
    <3>1. conns[c].key # k
      BY <1>3, <2>2
    <3> QED
      BY <1>7, <2>1, <2>2, <3>1
  <2>3. CASE InHand(c)
    <3>1. c = n
      BY <1>9, <2>3 DEF InHand, InErrand, n
    <3> QED
      BY <1>3, <1>7, <3>1
  <2> QED
    BY <2>1, <2>2, <2>3 DEF OwnerInv
<1>12. \A p \in Operator : errand'[p].conn \in 0..Len(conns)
  BY <1>4, <1>5, <1>6, SshTypes
<1> QED
  BY <1>1, <1>5, <1>7, <1>8, <1>10, <1>11, <1>12 DEF SshInv

\* The sessions after one has been opened: the old one of the key is closed, all
\* others are as they were.
LEMMA Opened ==
    ASSUME SshInv, NEW o \in Operator, Connects(o)
    PROVE  LET n == Len(conns) + 1 IN
           /\ errand[o].at = "connects" /\ KeyFor(o) \in PoolKey /\ ~Reusable(OldOf(o))
           /\ conns' \in Seq(Conn) /\ Len(conns') = n /\ DOMAIN conns' = DOMAIN conns \cup {n}
           /\ n \notin DOMAIN conns /\ n # 0
           /\ conns'[n] = NewConn(KeyFor(o))
           /\ \A c \in DOMAIN conns :
                 /\ conns'[c].key = conns[c].key /\ conns'[c].past = conns[c].past
                 /\ conns'[c].state = IF c = OldOf(o) THEN "closed" ELSE conns[c].state
<1> DEFINE l == Len(conns)
           f == [c \in DOMAIN conns |-> IF c = OldOf(o) THEN [conns[c] EXCEPT !.state = "closed"]
                                        ELSE conns[c]]
           new == NewConn(KeyFor(o))
<1>1. errand[o].at = "connects" /\ conns' = Append(f, new)
  BY DEF Connects, InErrand
<1>2. KeyFor(o) \in PoolKey /\ ~Reusable(OldOf(o))
  BY <1>1 DEF SshInv, SshLockInv
<1>3. new \in Conn
  BY <1>2 DEF NewConn, Conn
<1>4. l \in Nat /\ DOMAIN conns = 1..l /\ \A c \in DOMAIN conns : conns[c] \in Conn
  BY SshTypes
<1>5. ASSUME NEW c \in DOMAIN conns
      PROVE  /\ f[c] \in Conn /\ f[c].key = conns[c].key /\ f[c].past = conns[c].past
             /\ f[c].state = IF c = OldOf(o) THEN "closed" ELSE conns[c].state
  BY <1>4 DEF Conn
<1>6. f \in Seq(Conn) /\ Len(f) = l /\ DOMAIN f = 1..l
  <2>1. DOMAIN f = 1..l
    BY <1>4
  <2>2. f = [c \in 1..l |-> f[c]] /\ \A c \in 1..l : f[c] \in Conn
    BY <1>4, <1>5
  <2> HIDE DEF f, l
  <2>3. f \in Seq(Conn)
    BY <1>4, <2>2, SeqDef
  <2> QED
    BY <1>4, <2>1, <2>3, LenProperties
<1> HIDE DEF f, new, l
<1>7. /\ conns' \in Seq(Conn) /\ Len(conns') = l + 1 /\ conns'[l + 1] = new
      /\ \A c \in 1..l : conns'[c] = f[c]
  BY <1>1, <1>3, <1>6, AppendProperties
<1>8. DOMAIN conns' = 1..(l + 1) /\ 1..(l + 1) = (1..l) \cup {l + 1} /\ l + 1 \notin 1..l /\ l + 1 # 0
  BY <1>4, <1>7, LenProperties
<1> QED
  BY <1>1, <1>2, <1>4, <1>5, <1>7, <1>8 DEF new, l

\* The new session takes the place of the old one in the pool.
LEMMA ConnectsKeeps ==
    ASSUME SshInv, NEW o \in Operator, Connects(o)
    PROVE  SshInv'
<1> DEFINE n == Len(conns) + 1
           k == KeyFor(o)
           old == pooled[k]
<1>1. /\ errand[o].at = "connects" /\ k \in PoolKey /\ ~Reusable(old)
      /\ conns' \in Seq(Conn) /\ Len(conns') = n /\ DOMAIN conns' = DOMAIN conns \cup {n}
      /\ n \notin DOMAIN conns /\ n # 0
      /\ conns'[n].key = k /\ conns'[n].state = "open" /\ conns'[n].past = FALSE
      /\ \A c \in DOMAIN conns :
            /\ conns'[c].key = conns[c].key /\ conns'[c].past = conns[c].past
            /\ conns'[c].state = IF c = old THEN "closed" ELSE conns[c].state
  <2>1. /\ errand[o].at = "connects" /\ k \in PoolKey /\ ~Reusable(old)
        /\ conns' \in Seq(Conn) /\ Len(conns') = n /\ DOMAIN conns' = DOMAIN conns \cup {n}
        /\ n \notin DOMAIN conns /\ n # 0
    BY Opened DEF OldOf
  <2>2. conns'[n] = NewConn(k)
    BY Opened
  <2>3. NewConn(k).key = k /\ NewConn(k).state = "open" /\ NewConn(k).past = FALSE
    BY DEF NewConn
  <2>4. \A c \in DOMAIN conns :
           /\ conns'[c].key = conns[c].key /\ conns'[c].past = conns[c].past
           /\ conns'[c].state = IF c = old THEN "closed" ELSE conns[c].state
    BY Opened DEF OldOf
  <2> HIDE DEF n, k, old
  <2> QED
    BY <2>1, <2>2, <2>3, <2>4
<1> DEFINE at == IF old = 0 THEN "runs" ELSE "closes"
           e == [errand[o] EXCEPT !.at = at, !.conn = n]
<1>2. /\ errand' = [errand EXCEPT ![o] = e] /\ lostSight' = lostSight
      /\ old = 0 => pooled' = [pooled EXCEPT ![k] = n] /\ poolLock' = "free"
      /\ old # 0 => pooled' = pooled /\ poolLock' = poolLock
  BY DEF Connects, Keep, OldOf
<1>3. /\ errand[o] \in Errand /\ n \in Nat /\ Len(conns) \in Nat /\ DOMAIN conns = 1..Len(conns)
      /\ 0..Len(conns) \subseteq 0..n /\ n \in 0..n
  <2>1. Len(conns) \in Nat /\ DOMAIN conns = 1..Len(conns) /\ errand[o] \in Errand
    BY SshTypes
  <2> QED
    BY <2>1
<1>4. at \in {"runs", "closes"}
  OBVIOUS
<1>5. e \in Errand /\ e.at = at /\ e.conn = n /\ e.key = k
  <2> HIDE DEF at, n
  <2> QED
    BY <1>3, <1>4 DEF Errand, KeyFor
<1>6. poolLock = o /\ \A p \in Operator \ {o} : errand[p].at \notin {"connects", "closes"}
  BY <1>1, OneHasTheLock
<1>7. old \in 0..Len(conns) /\ (old # 0 => old \in DOMAIN conns /\ conns[old].past /\ conns[old].key = k)
  BY <1>1, SshTypes DEF SshInv, Reusable
<1> HIDE DEF e, n, k
<1>8. /\ errand' \in [Operator -> Errand] /\ errand'[o] = e
      /\ \A p \in Operator \ {o} : errand'[p] = errand[p]
  BY <1>2, <1>5 DEF SshInv
<1>9. /\ pooled' \in [PoolKey -> 0..n] /\ \A j \in PoolKey \ {k} : pooled'[j] = pooled[j]
      /\ pooled'[k] = IF old = 0 THEN n ELSE old
  <2>1. pooled \in [PoolKey -> 0..Len(conns)]
    BY DEF SshInv
  <2>2. pooled \in [PoolKey -> 0..n]
    BY <1>3, <2>1
  <2> QED
    BY <1>1, <1>2, <1>3, <2>2
<1>10. \A j \in PoolKey : pooled'[j] # 0 => conns'[pooled'[j]].key = j
  <2>1. \A j \in PoolKey : pooled[j] # 0 => pooled[j] \in DOMAIN conns /\ conns[pooled[j]].key = j
    BY SshTypes DEF SshInv
  <2> QED
    BY <1>1, <1>9, <2>1
<1>11. \A c \in DOMAIN conns' : conns'[c].state = "closed" => conns'[c].past
  BY <1>1, <1>7 DEF SshInv
<1>12. ASSUME NEW p \in Operator PROVE SshLockInv(p)'
  <2>1. CASE p = o
    <3>1. CASE old = 0
      BY <1>1, <1>5, <1>8, <2>1, <3>1 DEF SshLockInv, KeyFor
    <3>2. CASE old # 0
      <4>1. errand'[p].at = "closes" /\ KeyFor(p)' = k /\ errand'[p].conn = n
        BY <1>5, <1>8, <2>1, <3>2 DEF KeyFor
      <4>2. poolLock' = p /\ OldOf(p)' = old
        BY <1>2, <1>6, <2>1, <3>2, <4>1 DEF OldOf
      <4>3. ~Reusable(OldOf(p))' /\ conns'[old].state = "closed"
        BY <1>1, <1>7, <3>2, <4>2 DEF Reusable
      <4> QED
        BY <1>1, <3>2, <4>1, <4>2, <4>3 DEF SshLockInv
    <3> QED
      BY <3>1, <3>2
  <2>2. CASE p # o
    <3>1. SshLockInv(p) /\ errand'[p] = errand[p] /\ errand[p].at \notin {"connects", "closes"}
      BY <1>6, <1>8, <2>2 DEF SshInv
    <3> QED
      BY <1>1, <3>1 DEF SshLockInv, KeyFor
  <2> QED
    BY <2>1, <2>2
<1>13. ASSUME NEW c \in DOMAIN conns' PROVE OwnerInv(c)'
  <2>1. CASE c = n
    <3>1. CASE old = 0
      BY <1>1, <1>9, <2>1, <3>1 DEF OwnerInv
    <3>2. CASE old # 0
      <4>1. InHand(c)'
        BY <1>5, <1>8, <2>1, <3>2 DEF InHand, InErrand
      <4> QED
        BY <4>1 DEF OwnerInv
    <3> QED
      BY <3>1, <3>2
  <2>2. CASE c # n
    <3> SUFFICES ASSUME conns'[c].state = "open"
                 PROVE  pooled'[conns'[c].key] = c \/ c \in lostSight'
      BY DEF OwnerInv
    <3>1. c \in DOMAIN conns /\ c # 0 /\ c # old /\ conns[c].state = "open"
          /\ conns'[c].key = conns[c].key /\ conns[c].key \in PoolKey
      BY <1>1, <1>3, <2>2, SshTypes
    <3>2. OwnerInv(c) /\ ~InHand(c)
      BY <1>1, <1>6, <3>1 DEF SshInv, InHand, InErrand
    <3>3. CASE pooled[conns[c].key] = c
      BY <1>9, <3>1, <3>3
    <3> QED
      BY <1>2, <3>1, <3>2, <3>3 DEF OwnerInv
  <2> QED
    BY <2>1, <2>2
<1>14. \A p \in Operator : errand'[p].conn \in 0..n
  BY <1>3, <1>5, <1>8, SshTypes
<1>15. poolLock' \in Operator \cup {"free"} /\ lostSight' \subseteq DOMAIN conns'
  BY <1>1, <1>2 DEF SshInv
<1>16. Len(conns') = n
  BY <1>1
<1> QED
  BY <1>1, <1>8, <1>9, <1>10, <1>11, <1>12, <1>13, <1>14, <1>15, <1>16 DEF SshInv

\* A session breaks or gets old.
LEMMA AgeKeeps ==
    ASSUME SshInv, NEW c \in DOMAIN conns, Breaks(c) \/ GetsOld(c)
    PROVE  SshInv'
<1>1. /\ UNCHANGED <<pooled, poolLock, errand, lostSight>>
      /\ \E x \in Conn : /\ conns' = [conns EXCEPT ![c] = x] /\ x.key = conns[c].key
                         /\ x.state = "open" => conns[c].state = "open"
                         /\ x.state = "closed" <=> conns[c].state = "closed"
                         /\ conns[c].past => x.past
  <2>1. conns[c] \in Conn
    BY SshTypes
  <2>2. CASE Breaks(c)
    <3> DEFINE x == [conns[c] EXCEPT !.state = "broken"]
    <3>1. conns[c].state = "open" /\ conns' = [conns EXCEPT ![c] = x]
      BY <2>2 DEF Breaks
    <3>2. x \in Conn /\ x.key = conns[c].key /\ x.state = "broken" /\ x.past = conns[c].past
      BY <2>1 DEF Conn
    <3> HIDE DEF x
    <3> QED
      BY <2>2, <3>1, <3>2 DEF Breaks
  <2>3. CASE GetsOld(c)
    <3> DEFINE x == [conns[c] EXCEPT !.past = TRUE]
    <3>1. conns' = [conns EXCEPT ![c] = x]
      BY <2>3 DEF GetsOld
    <3>2. x \in Conn /\ x.key = conns[c].key /\ x.state = conns[c].state /\ x.past = TRUE
      BY <2>1 DEF Conn
    <3> HIDE DEF x
    <3> QED
      BY <2>3, <3>1, <3>2 DEF GetsOld
  <2> QED
    BY <2>2, <2>3
<1>2. PICK x \in Conn : /\ conns' = [conns EXCEPT ![c] = x] /\ x.key = conns[c].key
                        /\ x.state = "open" => conns[c].state = "open"
                        /\ x.state = "closed" <=> conns[c].state = "closed"
                        /\ conns[c].past => x.past
  BY <1>1
<1>3. conns \in Seq(Conn) /\ c \in 1..Len(conns)
  BY SshTypes DEF SshInv
<1>4. /\ conns' \in Seq(Conn) /\ Len(conns') = Len(conns) /\ DOMAIN conns' = DOMAIN conns
      /\ \A d \in DOMAIN conns :
            /\ conns'[d].key = conns[d].key
            /\ conns'[d].state = "open" => conns[d].state = "open"
            /\ conns'[d].state = "closed" <=> conns[d].state = "closed"
            /\ conns[d].past => conns'[d].past
  <2>1. conns' \in Seq(Conn) /\ Len(conns') = Len(conns)
    BY <1>2, <1>3, ExceptSeq
  <2>2. DOMAIN conns' = DOMAIN conns
    BY <1>2
  <2>3. conns'[c] = x /\ \A d \in DOMAIN conns \ {c} : conns'[d] = conns[d]
    BY <1>2
  <2> QED
    BY <1>2, <2>1, <2>2, <2>3
<1>5. \A k \in PoolKey : pooled[k] # 0 => pooled[k] \in DOMAIN conns
  BY SshTypes
<1>6. ASSUME NEW o \in Operator PROVE SshLockInv(o)'
  <2>1. SshLockInv(o)
    BY DEF SshInv
  <2>2. KeyFor(o)' = KeyFor(o) /\ OldOf(o)' = OldOf(o)
    BY <1>1 DEF KeyFor, OldOf
  <2>3. KeyFor(o) \in PoolKey => (OldOf(o) # 0 => OldOf(o) \in DOMAIN conns)
    BY <1>5 DEF OldOf
  <2>4. KeyFor(o) \in PoolKey /\ ~Reusable(OldOf(o)) => ~Reusable(OldOf(o))'
    BY <1>4, <2>2, <2>3 DEF Reusable
  <2>5. /\ errand[o].at # "idle" => KeyFor(o) \in PoolKey
        /\ errand[o].at \in {"connects", "closes"} => poolLock = o /\ ~Reusable(OldOf(o))'
    BY <2>1, <2>4 DEF SshLockInv
  <2>6. errand[o].at \in {"closes", "runs"} =>
          errand[o].conn \in DOMAIN conns' /\ conns'[errand[o].conn].key = KeyFor(o)
    BY <1>4, <2>1 DEF SshLockInv
  <2>7. errand[o].at = "closes" => OldOf(o) # 0 /\ conns'[OldOf(o)].state = "closed"
    BY <1>4, <2>1, <2>3, <2>5 DEF SshLockInv
  <2> QED
    BY <1>1, <2>2, <2>5, <2>6, <2>7 DEF SshLockInv
<1>7. ASSUME NEW d \in DOMAIN conns PROVE OwnerInv(d)'
  <2>1. OwnerInv(d)
    BY DEF SshInv
  <2>2. InHand(d)' <=> InHand(d)
    BY <1>1 DEF InHand, InErrand
  <2> QED
    BY <1>1, <1>4, <2>1, <2>2 DEF OwnerInv
<1>8. \A k \in PoolKey : pooled[k] # 0 => conns'[pooled[k]].key = k
  BY <1>4, <1>5 DEF SshInv
<1>9. \A d \in DOMAIN conns : conns'[d].state = "closed" => conns'[d].past
  BY <1>4 DEF SshInv
<1> QED
  BY <1>1, <1>4, <1>6, <1>7, <1>8, <1>9 DEF SshInv

\* Every step of operators, network and time keeps the invariant of the pool.
LEMMA SshStep == SshInv /\ [SshNext]_sshVars => SshInv'
<1> SUFFICES ASSUME SshInv, [SshNext]_sshVars PROVE SshInv'
  OBVIOUS
<1>1. ASSUME NEW o \in Operator,
             \/ Enter(o) \/ Connects(o) \/ ConnectFails(o) \/ ClosesOldSession(o)
             \/ CloseFails(o) \/ RunEnds(o) \/ GivesUpWaiting(o)
             \/ \E k \in PoolKey : Ask(o, k)
      PROVE  SshInv'
  BY <1>1, EnterKeeps, ConnectsKeeps, ReturnKeeps, CloseKeeps, AskKeeps
<1>2. CASE \E c \in DOMAIN conns : Breaks(c) \/ GetsOld(c)
  BY <1>2, AgeKeeps
<1>3. CASE UNCHANGED sshVars
  <2>1. UNCHANGED <<conns, pooled, poolLock, errand, lostSight>>
    BY <1>3 DEF sshVars
  <2>2. \A o \in Operator : SshLockInv(o)'
    BY <2>1 DEF SshInv, SshLockInv, KeyFor, OldOf, Reusable
  <2>3. \A c \in DOMAIN conns : OwnerInv(c)'
    BY <2>1 DEF SshInv, OwnerInv, InHand, InErrand
  <2> QED
    BY <2>1, <2>2, <2>3 DEF SshInv
<1> QED
  BY <1>1, <1>2, <1>3 DEF SshNext

\* An open session is the pool's, somebody's, or was lost sight of.
LEMMA SshPromises == SshInv => PoolOwnsItsSessions
<1> SUFFICES ASSUME SshInv PROVE PoolOwnsItsSessions
  OBVIOUS
<1>1. \A c \in DOMAIN conns :
         conns[c].state = "open" => pooled[conns[c].key] = c \/ c \in lostSight \/ InHand(c)
  BY DEF SshInv, OwnerInv
<1>2. \A o \in Operator : errand[o].at = "runs" =>
         errand[o].conn \in DOMAIN conns /\ conns[errand[o].conn].key = KeyFor(o)
  BY DEF SshInv, SshLockInv
<1>3. \A c \in DOMAIN conns : conns[c].state = "closed" => conns[c].past
  BY DEF SshInv
<1> QED
  BY <1>1, <1>2, <1>3 DEF PoolOwnsItsSessions, InErrand

-----------------------------------------------------------------------------
(* Gates and gauntlets *)

\* Gates run in order; behind a required failure the rest is skipped.
GateOrderInv ==
    /\ \A g \in 1..GateCount : outcome[g] = "pending" <=> g >= gateAt
    /\ blocked \/ (\E g \in 1..GateCount : outcome[g] = "skipped") =>
          \E g \in RequiredGate : outcome[g] = "failed"
    /\ decision \in {"passed", "failed"} => gateAt = GateCount + 1

GatesInv ==
    /\ GatesTypeOK /\ GateOrderInv
    /\ \A c \in Critic : criticRun[c][1] = "waiting" => criticRun[c] = NoRun
    /\ PassIsEarned

GauntletInv == GauntletTypeOK /\ PassIsNotOvertaken

\* No gate has an outcome at first.
LEMMA GatesInitial == GatesInit => GatesInv
<1> SUFFICES ASSUME GatesInit PROVE GatesInv
  OBVIOUS
<1>1. /\ gateAt = 1 /\ blocked = FALSE /\ decision = "none"
      /\ outcome = [g \in 1..GateCount |-> "pending"] /\ criticRun = [c \in Critic |-> NoRun]
  BY DEF GatesInit
<1>2. GateCount \in Nat /\ PanelGate \in 1..GateCount /\ 1 \in 1..(GateCount + 1)
  BY GateAssumption
<1>3. GatesTypeOK
  <2>1. NoRun \in {"waiting", "passed", "failed", "timed_out", "missing", "error"}
                  \X (Blocking \cup {"none", "p2"})
    BY DEF NoRun, Blocking
  <2> QED
    BY <1>1, <1>2, <2>1 DEF GatesTypeOK
<1>4. GateOrderInv
  BY <1>1, <1>2 DEF GateOrderInv
<1>5. PassIsEarned
  BY <1>1, <1>2 DEF PassIsEarned
<1> QED
  BY <1>1, <1>3, <1>4, <1>5 DEF GatesInv

\* The gate under way has no outcome yet; those before it have one.
LEMMA GateFacts ==
    ASSUME GatesInv, decision = "none"
    PROVE  /\ GateCount \in Nat /\ gateAt \in 1..(GateCount + 1) /\ PanelGate \in 1..GateCount
           /\ RequiredGate \subseteq 1..GateCount
           /\ outcome \in [1..GateCount -> {"pending", "passed", "failed", "waived", "skipped"}]
           /\ \A g \in 1..GateCount : outcome[g] = "pending" <=> g >= gateAt
           /\ blocked \/ (\E g \in 1..GateCount : outcome[g] = "skipped") =>
                 \E g \in RequiredGate : outcome[g] = "failed"
           /\ \A c \in Critic : criticRun[c][1] = "waiting" => criticRun[c] = NoRun
           /\ outcome[PanelGate] = "passed" =>
                 \A c \in Critic :
                    /\ criticRun[c][2] \notin Blocking
                    /\ c \in RequiredCritic => criticRun[c][1] \in {"passed", "failed"}
<1>1. GatesTypeOK /\ GateOrderInv /\ PassIsEarned
  BY DEF GatesInv
<1>2. GateCount \in Nat /\ PanelGate \in 1..GateCount /\ RequiredGate \subseteq 1..GateCount
  BY GateAssumption
<1>3. \A c \in Critic : criticRun[c][1] = "waiting" => criticRun[c] = NoRun
  BY DEF GatesInv
<1>4. outcome[PanelGate] = "passed" =>
         \A c \in Critic :
            /\ criticRun[c][2] \notin Blocking
            /\ c \in RequiredCritic => criticRun[c][1] \in {"passed", "failed"}
  BY <1>1 DEF PassIsEarned
<1> QED
  BY <1>1, <1>2, <1>3, <1>4 DEF GatesTypeOK, GateOrderInv

\* A critic that ends is one of a panel that is still under way.
LEMMA EndCriticKeeps ==
    ASSUME GatesInv, NEW c \in Critic, EndCritic(c)
    PROVE  GatesInv'
<1>1. /\ decision = "none" /\ gateAt = PanelGate
      /\ UNCHANGED <<gateAt, blocked, outcome, decision>>
  BY DEF EndCritic
<1>2. PICK r : /\ r \in Answers \cup {<<"missing", "none">>, <<"error", "none">>, <<"timed_out", "none">>}
               /\ criticRun' = [criticRun EXCEPT ![c] = r]
  BY DEF EndCritic
<1>3. /\ r \in {"waiting", "passed", "failed", "timed_out", "missing", "error"}
               \X (Blocking \cup {"none", "p2"})
      /\ r[1] # "waiting"
  BY <1>2 DEF Answers, Blocking
<1>4. GatesTypeOK'
  BY <1>1, <1>2, <1>3 DEF GatesInv, GatesTypeOK
<1>5. GateOrderInv'
  BY <1>1 DEF GatesInv, GateOrderInv
<1>6. ASSUME NEW d \in Critic, criticRun'[d][1] = "waiting" PROVE criticRun'[d] = NoRun
  <2>1. criticRun \in [Critic -> {"waiting", "passed", "failed", "timed_out", "missing", "error"}
                                \X (Blocking \cup {"none", "p2"})]
    BY DEF GatesInv, GatesTypeOK
  <2>2. d # c
    BY <1>2, <1>3, <1>6, <2>1
  <2>3. criticRun'[d] = criticRun[d]
    BY <1>2, <2>1, <2>2
  <2> QED
    BY <1>1, <1>6, <2>3, GateFacts
<1>7. outcome[PanelGate] = "pending"
  BY <1>1, GateFacts
<1>8. PassIsEarned'
  BY <1>1, <1>7 DEF PassIsEarned
<1> QED
  BY <1>4, <1>5, <1>6, <1>8 DEF GatesInv

\* A panel that passes had an answer of every required critic and no blocking
\* finding of any.
LEMMA PanelPasses ==
    ASSUME GatesInv, decision = "none", \A c \in Critic : criticRun[c] # NoRun,
           PanelVerdict = "passed", NEW c \in Critic
    PROVE  /\ criticRun[c][2] \notin Blocking
           /\ c \in RequiredCritic => criticRun[c][1] \in {"passed", "failed"}
<1>1. Findings \cap Blocking = {}
  <2>1. CASE Findings \cap PolicyBlocks = {}
    BY <2>1 DEF PanelVerdict
  <2>2. CASE Findings \cap PolicyBlocks # {}
    BY <2>2 DEF PanelVerdict
  <2> QED
    BY <2>1, <2>2
<1>2. criticRun[c][2] \notin Blocking
  <2>1. criticRun[c][2] \in Findings
    BY DEF Findings
  <2> QED
    BY <1>1, <2>1
<1>3. ASSUME c \in RequiredCritic PROVE criticRun[c][1] \in {"passed", "failed"}
  <2>1. criticRun[c][1] # "waiting"
    BY GateFacts
  <2>2. criticRun[c][1] \in {"waiting", "passed", "failed", "timed_out", "missing", "error"}
    BY DEF GatesInv, GatesTypeOK
  <2>3. ASSUME criticRun[c][1] \in {"timed_out", "missing", "error"} PROVE FALSE
    <3>1. ExecutionFinding(c) \in Findings
      BY <2>3 DEF Findings
    <3>2. ExecutionFinding(c) = "p1"
      BY <1>3 DEF ExecutionFinding
    <3> QED
      BY <1>1, <3>1, <3>2 DEF Blocking
  <2> QED
    BY <2>1, <2>2, <2>3
<1> QED
  BY <1>2, <1>3

\* A gate ends with an outcome it has the evidence for, and the next is due.
LEMMA EndGateKeeps ==
    ASSUME GatesInv, decision = "none", gateAt \in 1..GateCount,
           NEW result \in {"passed", "failed"}, EndGate(gateAt, result),
           gateAt = PanelGate /\ result = "passed" =>
              \A c \in Critic :
                 /\ criticRun[c][2] \notin Blocking
                 /\ c \in RequiredCritic => criticRun[c][1] \in {"passed", "failed"},
           UNCHANGED criticRun
    PROVE  GatesInv'
<1> DEFINE s == Waivable(gateAt, result)
<1>1. /\ outcome' = [outcome EXCEPT ![gateAt] = s] /\ gateAt' = gateAt + 1
      /\ blocked' = (s = "failed" /\ gateAt \in RequiredGate /\ ~ContinueOn)
      /\ decision' = "none"
  BY DEF EndGate
<1>2. s \in {"passed", "failed", "waived"} /\ (s = "passed" => result = "passed")
  BY DEF Waivable
<1> HIDE DEF s
<1>3. blocked' \in BOOLEAN /\ (blocked' => s = "failed" /\ gateAt \in RequiredGate)
  BY <1>1
<1>4. /\ outcome' \in [1..GateCount -> {"pending", "passed", "failed", "waived", "skipped"}]
      /\ outcome'[gateAt] = s /\ \A g \in (1..GateCount) \ {gateAt} : outcome'[g] = outcome[g]
  BY <1>1, <1>2, GateFacts
<1>5. GatesTypeOK'
  <2>1. gateAt' \in 1..(GateCount + 1)
    BY <1>1, GateFacts
  <2> QED
    BY <1>1, <1>3, <1>4, <2>1 DEF GatesInv, GatesTypeOK
<1>6. GateOrderInv'
  <2>1. ASSUME NEW g \in 1..GateCount PROVE outcome'[g] = "pending" <=> g >= gateAt'
    <3>1. outcome[g] = "pending" <=> g >= gateAt
      BY GateFacts
    <3>2. CASE g = gateAt
      BY <1>1, <1>2, <1>4, <3>2
    <3>3. CASE g # gateAt
      BY <1>1, <1>4, <3>1, <3>3
    <3> QED
      BY <3>2, <3>3
  <2>2. ASSUME blocked' \/ \E g \in 1..GateCount : outcome'[g] = "skipped"
        PROVE  \E g \in RequiredGate : outcome'[g] = "failed"
    <3>1. CASE blocked'
      BY <1>3, <1>4, <3>1
    <3>2. CASE \E g \in 1..GateCount : outcome'[g] = "skipped"
      <4>1. PICK g \in 1..GateCount : outcome[g] = "skipped"
        BY <1>2, <1>4, <3>2
      <4>2. PICK h \in RequiredGate : outcome[h] = "failed"
        BY <4>1, GateFacts
      <4>3. outcome[gateAt] = "pending"
        BY GateFacts
      <4> QED
        BY <1>4, <4>2, <4>3, GateFacts
    <3> QED
      BY <2>2, <3>1, <3>2
  <2> QED
    BY <1>1, <2>1, <2>2 DEF GateOrderInv
<1>7. PassIsEarned'
  <2>1. ASSUME outcome'[PanelGate] = "passed", NEW c \in Critic
        PROVE  /\ criticRun[c][2] \notin Blocking
               /\ c \in RequiredCritic => criticRun[c][1] \in {"passed", "failed"}
    <3>1. CASE gateAt = PanelGate
      BY <1>2, <1>4, <2>1, <3>1
    <3>2. CASE gateAt # PanelGate
      BY <1>4, <2>1, <3>2, GateFacts
    <3> QED
      BY <3>1, <3>2
  <2> QED
    BY <1>1, <2>1 DEF PassIsEarned
<1>8. \A c \in Critic : criticRun'[c][1] = "waiting" => criticRun'[c] = NoRun
  BY GateFacts
<1> QED
  BY <1>5, <1>6, <1>7, <1>8 DEF GatesInv

\* An adapter that raises leaves no verdict.
LEMMA AbortKeeps ==
    ASSUME GatesInv, decision = "none", Aborts, UNCHANGED criticRun
    PROVE  GatesInv'
<1>1. decision' = "raised" /\ UNCHANGED <<gateAt, blocked, outcome, criticRun>>
  BY DEF Aborts
<1>2. GatesTypeOK'
  BY <1>1 DEF GatesInv, GatesTypeOK
<1>3. GateOrderInv'
  BY <1>1 DEF GatesInv, GateOrderInv
<1>4. PassIsEarned'
  BY <1>1 DEF GatesInv, PassIsEarned
<1> QED
  BY <1>1, <1>2, <1>3, <1>4 DEF GatesInv

\* A plain gate and the gate of the critics.
LEMMA RunGateKeeps ==
    ASSUME GatesInv, RunPlainGate \/ RunPanelGate
    PROVE  GatesInv'
<1>1. CASE RunPlainGate
  <2>1. /\ decision = "none" /\ gateAt \in 1..GateCount /\ gateAt # PanelGate
        /\ UNCHANGED criticRun
        /\ (\E result \in {"passed", "failed"} : EndGate(gateAt, result)) \/ Aborts
    BY <1>1 DEF RunPlainGate
  <2> QED
    BY <2>1, EndGateKeeps, AbortKeeps
<1>2. CASE RunPanelGate
  <2>1. /\ decision = "none" /\ gateAt = PanelGate /\ \A c \in Critic : criticRun[c] # NoRun
        /\ UNCHANGED criticRun
        /\ IF PanelVerdict = "raises" THEN Aborts ELSE EndGate(gateAt, PanelVerdict)
    BY <1>2 DEF RunPanelGate
  <2>2. CASE PanelVerdict = "raises"
    BY <2>1, <2>2, AbortKeeps
  <2>3. CASE PanelVerdict # "raises"
    <3>1. PanelVerdict \in {"passed", "failed"}
      BY <2>3 DEF PanelVerdict
    <3>2. EndGate(gateAt, PanelVerdict)
      BY <2>1, <2>3
    <3>3. gateAt \in 1..GateCount
      BY <2>1, GateAssumption
    <3>4. PanelVerdict = "passed" =>
             \A c \in Critic :
                /\ criticRun[c][2] \notin Blocking
                /\ c \in RequiredCritic => criticRun[c][1] \in {"passed", "failed"}
      BY <2>1, PanelPasses
    <3>5. PICK v \in {"passed", "failed"} : v = PanelVerdict
      BY <3>1
    <3> QED
      BY <2>1, <3>2, <3>3, <3>4, <3>5, EndGateKeeps
  <2> QED
    BY <2>2, <2>3
<1> QED
  BY <1>1, <1>2

\* Gates behind a required failure are skipped.
LEMMA SkipKeeps ==
    ASSUME GatesInv, SkipGate
    PROVE  GatesInv'
<1>1. /\ decision = "none" /\ gateAt \in 1..GateCount /\ blocked
      /\ outcome' = [outcome EXCEPT ![gateAt] = "skipped"] /\ gateAt' = gateAt + 1
      /\ UNCHANGED <<blocked, criticRun, decision>>
  BY DEF SkipGate
<1>2. /\ outcome' \in [1..GateCount -> {"pending", "passed", "failed", "waived", "skipped"}]
      /\ outcome'[gateAt] = "skipped" /\ outcome[gateAt] = "pending"
      /\ \A g \in (1..GateCount) \ {gateAt} : outcome'[g] = outcome[g]
  BY <1>1, GateFacts
<1>3. GatesTypeOK'
  <2>1. gateAt' \in 1..(GateCount + 1)
    BY <1>1, GateFacts
  <2> QED
    BY <1>1, <1>2, <2>1 DEF GatesInv, GatesTypeOK
<1>4. GateOrderInv'
  <2>1. ASSUME NEW g \in 1..GateCount PROVE outcome'[g] = "pending" <=> g >= gateAt'
    <3>1. outcome[g] = "pending" <=> g >= gateAt
      BY <1>1, GateFacts
    <3>2. CASE g = gateAt
      BY <1>1, <1>2, <3>2
    <3>3. CASE g # gateAt
      BY <1>1, <1>2, <3>1, <3>3
    <3> QED
      BY <3>2, <3>3
  <2>2. PICK h \in RequiredGate : outcome[h] = "failed"
    BY <1>1, GateFacts
  <2>3. outcome'[h] = "failed"
    BY <1>1, <1>2, <2>2, GateFacts
  <2> QED
    BY <1>1, <2>1, <2>3 DEF GateOrderInv
<1>5. PassIsEarned'
  BY <1>1, <1>2, GateFacts DEF PassIsEarned
<1>6. \A c \in Critic : criticRun'[c][1] = "waiting" => criticRun'[c] = NoRun
  BY <1>1, GateFacts
<1> QED
  BY <1>3, <1>4, <1>5, <1>6 DEF GatesInv

\* The verdict: nothing is pending, and nothing is skipped unless a required gate failed.
LEMMA DecideKeeps ==
    ASSUME GatesInv, Decide
    PROVE  GatesInv'
<1>1. /\ decision = "none" /\ gateAt = GateCount + 1
      /\ decision' \in {"passed", "failed"}
      /\ decision' = "failed" <=> \E g \in RequiredGate : outcome[g] = "failed"
      /\ UNCHANGED <<gateAt, blocked, outcome, criticRun>>
  BY DEF Decide
<1>2. GatesTypeOK'
  BY <1>1 DEF GatesInv, GatesTypeOK
<1>3. GateOrderInv'
  BY <1>1 DEF GatesInv, GateOrderInv
<1>4. ASSUME decision' = "passed", NEW g \in RequiredGate
      PROVE  outcome[g] \in {"passed", "waived"}
  <2>1. g \in 1..GateCount /\ outcome[g] # "pending"
    BY <1>1, GateFacts
  <2>2. outcome[g] # "failed" /\ outcome[g] # "skipped"
    BY <1>1, <1>4, <2>1, GateFacts
  <2> QED
    BY <1>1, <2>1, <2>2, GateFacts
<1>5. PassIsEarned'
  <2>1. outcome[PanelGate] = "passed" =>
           \A c \in Critic :
              /\ criticRun[c][2] \notin Blocking
              /\ c \in RequiredCritic => criticRun[c][1] \in {"passed", "failed"}
    BY <1>1, GateFacts
  <2> QED
    BY <1>1, <1>4, <2>1 DEF PassIsEarned
<1>6. \A c \in Critic : criticRun'[c][1] = "waiting" => criticRun'[c] = NoRun
  BY <1>1, GateFacts
<1> QED
  BY <1>2, <1>3, <1>5, <1>6 DEF GatesInv

\* Every step of gates and critics keeps the invariant.
LEMMA GatesStep == GatesInv /\ [GatesNext]_gateVars => GatesInv'
<1> SUFFICES ASSUME GatesInv, [GatesNext]_gateVars PROVE GatesInv'
  OBVIOUS
<1>1. CASE GatesNext
  BY <1>1, EndCriticKeeps, RunGateKeeps, SkipKeeps, DecideKeeps DEF GatesNext
<1>2. CASE UNCHANGED gateVars
  <2>1. UNCHANGED <<gateAt, blocked, outcome, criticRun, decision>>
    BY <1>2 DEF gateVars
  <2>2. GatesTypeOK' /\ GateOrderInv'
    BY <2>1 DEF GatesInv, GatesTypeOK, GateOrderInv
  <2>3. PassIsEarned'
    BY <2>1 DEF GatesInv, PassIsEarned
  <2> QED
    BY <2>1, <2>2, <2>3 DEF GatesInv
<1> QED
  BY <1>1, <1>2

-----------------------------------------------------------------------------
(* The record of a gauntlet *)

\* What the table of transitions allows.
LEMMA Transitions ==
    /\ DOMAIN GateTransitions =
         {"absent", "pending", "running", "passed", "failed", "blocked", "waived", "error"}
    /\ \A s \in DOMAIN GateTransitions :
          /\ "running" \in GateTransitions[s] => s = "pending"
          /\ "waived" \in GateTransitions[s] => s = "failed"
          /\ \A t \in {"passed", "failed", "error"} : t \in GateTransitions[s] => s = "running"
<1>1. DOMAIN GateTransitions =
         {"absent", "pending", "running", "passed", "failed", "blocked", "waived", "error"}
  BY DEF GateTransitions
<1>2. /\ GateTransitions["absent"] = {} /\ GateTransitions["passed"] = {}
      /\ GateTransitions["blocked"] = {} /\ GateTransitions["waived"] = {}
      /\ GateTransitions["error"] = {} /\ GateTransitions["failed"] = {"waived"}
      /\ GateTransitions["pending"] = {"running", "blocked"}
      /\ GateTransitions["running"] = {"passed", "failed", "blocked", "error"}
  BY DEF GateTransitions
<1> QED
  BY <1>1, <1>2

\* A gauntlet starts without gates.
LEMMA GauntletInitial == GauntletInit => GauntletInv
  BY Transitions DEF GauntletInit, GauntletInv, GauntletTypeOK, PassIsNotOvertaken

\* A change of one gate's run to a status that breaks nothing.
LEMMA GateMoves ==
    ASSUME GauntletInv, NEW g \in Gate, NEW s \in DOMAIN GateTransitions, Replace(g, s),
           g \in failedOnce => s = "waived",
           failedOnce' = IF s = "failed" THEN failedOnce \cup {g} ELSE failedOnce
    PROVE  GauntletInv'
<1>1. /\ gateStatus \in [Gate -> DOMAIN GateTransitions] /\ failedOnce \subseteq Gate
      /\ gauntlet \in {"pending", "passed", "passed_with_waivers", "failed"}
      /\ gauntlet = "passed" \/ gauntlet = "passed_with_waivers" =>
            \A h \in Required \cap failedOnce : gateStatus[h] = "waived"
      /\ \A h \in failedOnce : gateStatus[h] \in {"failed", "waived"}
  BY DEF GauntletInv, GauntletTypeOK, PassIsNotOvertaken
<1>2. /\ gateStatus' = [gateStatus EXCEPT ![g] = s] /\ gauntlet' = gauntlet
      /\ Constructible([gateStatus EXCEPT ![g] = s], gauntlet)
  BY DEF Replace
<1>3. /\ gateStatus' \in [Gate -> DOMAIN GateTransitions] /\ gateStatus'[g] = s
      /\ \A h \in Gate \ {g} : gateStatus'[h] = gateStatus[h]
  BY <1>1, <1>2
<1>4. gauntlet \in {"passed", "passed_with_waivers"} => \A h \in Required : gateStatus'[h] # "failed"
  BY <1>2 DEF Constructible, Unwaived
<1>5. failedOnce' \subseteq Gate
  BY <1>1
<1>6. \A h \in failedOnce' : gateStatus'[h] \in {"failed", "waived"}
  BY <1>1, <1>3
<1>7. gauntlet' = "passed" \/ gauntlet' = "passed_with_waivers" =>
         \A h \in Required \cap failedOnce' : gateStatus'[h] = "waived"
  BY <1>2, <1>4, <1>6
<1> QED
  BY <1>1, <1>2, <1>3, <1>5, <1>6, <1>7 DEF GauntletInv, GauntletTypeOK, PassIsNotOvertaken

\* Every step of the record keeps a pass from overtaking a failure.
LEMMA GauntletStep == GauntletInv /\ [GauntletNext]_gauntletVars => GauntletInv'
<1> SUFFICES ASSUME GauntletInv, [GauntletNext]_gauntletVars PROVE GauntletInv'
  OBVIOUS
<1>1. /\ gateStatus \in [Gate -> DOMAIN GateTransitions]
      /\ \A h \in failedOnce : gateStatus[h] \in {"failed", "waived"}
  BY DEF GauntletInv, GauntletTypeOK, PassIsNotOvertaken
<1>2. ASSUME NEW g \in Gate, AppendGate(g) PROVE GauntletInv'
  <2>1. gateStatus[g] = "absent" /\ Replace(g, "pending") /\ failedOnce' = failedOnce
    BY <1>2 DEF AppendGate
  <2> QED
    BY <1>1, <2>1, Transitions, GateMoves
<1>3. ASSUME NEW g \in Gate, StartGate(g) PROVE GauntletInv'
  <2>1. /\ "running" \in GateTransitions[gateStatus[g]] /\ Replace(g, "running")
        /\ failedOnce' = failedOnce
    BY <1>3 DEF StartGate
  <2>2. gateStatus[g] = "pending" /\ "running" \in DOMAIN GateTransitions
    BY <1>1, <2>1, Transitions
  <2> QED
    BY <1>1, <2>1, <2>2, GateMoves
<1>4. ASSUME NEW g \in Gate, CompleteGate(g) PROVE GauntletInv'
  <2>1. PICK s \in {"passed", "failed", "error"} :
           /\ s \in GateTransitions[gateStatus[g]] /\ Replace(g, s)
           /\ failedOnce' = IF s = "failed" THEN failedOnce \cup {g} ELSE failedOnce
    BY <1>4 DEF CompleteGate, CompletedGate
  <2>2. gateStatus[g] = "running" /\ s \in DOMAIN GateTransitions
    BY <1>1, <2>1, Transitions
  <2> QED
    BY <1>1, <2>1, <2>2, GateMoves
<1>5. ASSUME NEW g \in Gate, WaiveGate(g) PROVE GauntletInv'
  <2>1. Replace(g, "waived") /\ failedOnce' = failedOnce /\ "waived" \in DOMAIN GateTransitions
    BY <1>5, Transitions DEF WaiveGate
  <2> QED
    BY <2>1, GateMoves
<1>6. CASE Finalize
  <2>1. /\ UNCHANGED <<gateStatus, failedOnce>>
        /\ gauntlet' \in {"passed", "passed_with_waivers", "failed"}
        /\ gauntlet' # "failed" => Unwaived(gateStatus) = {}
    BY <1>6 DEF Finalize
  <2>2. gauntlet' # "failed" => \A g \in Required \cap failedOnce : gateStatus[g] = "waived"
    BY <1>1, <2>1 DEF Unwaived
  <2> QED
    BY <1>1, <2>1, <2>2 DEF GauntletInv, GauntletTypeOK, PassIsNotOvertaken
<1>7. CASE UNCHANGED gauntletVars
  BY <1>7 DEF gauntletVars, GauntletInv, GauntletTypeOK, PassIsNotOvertaken
<1> QED
  BY <1>2, <1>3, <1>4, <1>5, <1>6, <1>7 DEF GauntletNext

-----------------------------------------------------------------------------
(* Checks in the sandbox *)

\* What the stage of a check says of its command and its report.
CheckInv(c) ==
    /\ checkStage[c] \in {"idle", "running", "cancelled"} => report[c] = NoReport
    /\ checkStage[c] = "idle" => process[c] = "none"
    /\ checkStage[c] = "running" => process[c] # "none"
    /\ process[c] = "running" => checkStage[c] # "done"
    /\ process[c] # "none" => requested[c].inside /\ requested[c].command = "plain"
    /\ report[c].passed => process[c] = "zero"
    /\ report[c].of \subseteq IF process[c] \in Ends THEN {c} ELSE {}
    /\ c \in stored => /\ checkStage[c] = "done"
                       /\ process[c] \in Ends /\ report[c].status # "failure"

SandboxInv ==
    /\ requested \in [Check -> Metadata \cup {NoMetadata}]
    /\ checkStage \in [Check -> {"idle", "running", "done", "cancelled"}]
    /\ process \in [Check -> Ends \cup {"none", "running"}]
    /\ report = [c \in Check |-> report[c]] /\ stored \subseteq Check
    /\ \A c \in Check : CheckInv(c)

\* No check has been asked for.
LEMMA SandboxInitial == SandboxInit => SandboxInv
<1> SUFFICES ASSUME SandboxInit PROVE SandboxInv
  OBVIOUS
<1>1. /\ requested \in [Check -> Metadata \cup {NoMetadata}]
      /\ checkStage \in [Check -> {"idle", "running", "done", "cancelled"}]
      /\ process \in [Check -> Ends \cup {"none", "running"}]
      /\ report = [c \in Check |-> report[c]] /\ stored = {}
      /\ \A c \in Check : /\ checkStage[c] = "idle" /\ process[c] = "none"
                          /\ report[c] = NoReport
  BY DEF SandboxInit
<1>2. NoReport.passed = FALSE /\ NoReport.of = {}
  BY DEF NoReport
<1>3. \A c \in Check : CheckInv(c)
  BY <1>1, <1>2 DEF CheckInv
<1> QED
  BY <1>1, <1>3 DEF SandboxInv

\* A step changes what is kept of one check only.
LEMMA CheckMoves ==
    ASSUME SandboxInv, NEW c \in Check,
           NEW a \in Metadata \cup {NoMetadata}, requested' = [requested EXCEPT ![c] = a],
           NEW s \in {"idle", "running", "done", "cancelled"},
           checkStage' = [checkStage EXCEPT ![c] = s],
           NEW p \in Ends \cup {"none", "running"}, process' = [process EXCEPT ![c] = p],
           NEW r, report' = [report EXCEPT ![c] = r],
           stored' \in {stored, stored \cup {c}},
           s \in {"idle", "running", "cancelled"} => r = NoReport,
           s = "idle" => p = "none",
           s = "running" => p # "none",
           p = "running" => s # "done",
           p # "none" => a.inside /\ a.command = "plain",
           r.passed => p = "zero",
           r.of \subseteq IF p \in Ends THEN {c} ELSE {},
           c \in stored' => s = "done" /\ p \in Ends /\ r.status # "failure"
    PROVE  SandboxInv'
<1>1. /\ requested \in [Check -> Metadata \cup {NoMetadata}]
      /\ checkStage \in [Check -> {"idle", "running", "done", "cancelled"}]
      /\ process \in [Check -> Ends \cup {"none", "running"}]
      /\ report = [d \in Check |-> report[d]] /\ stored \subseteq Check
  BY DEF SandboxInv
<1>2. /\ requested' \in [Check -> Metadata \cup {NoMetadata}]
      /\ checkStage' \in [Check -> {"idle", "running", "done", "cancelled"}]
      /\ process' \in [Check -> Ends \cup {"none", "running"}]
      /\ stored' \subseteq Check
  BY <1>1
<1>3. report' = [d \in Check |-> report'[d]] /\ report'[c] = r
      /\ \A d \in Check \ {c} : report'[d] = report[d]
  BY <1>1
<1>4. /\ requested'[c] = a /\ checkStage'[c] = s /\ process'[c] = p
      /\ \A d \in Check \ {c} :
            /\ requested'[d] = requested[d] /\ checkStage'[d] = checkStage[d]
            /\ process'[d] = process[d] /\ (d \in stored' <=> d \in stored)
  BY <1>1
<1>5. ASSUME NEW d \in Check PROVE CheckInv(d)'
  <2>1. CASE d = c
    BY <1>3, <1>4, <2>1 DEF CheckInv
  <2>2. CASE d # c
    <3>1. CheckInv(d)
      BY DEF SandboxInv
    <3> QED
      BY <1>3, <1>4, <2>2, <3>1 DEF CheckInv
  <2> QED
    BY <2>1, <2>2
<1> QED
  BY <1>2, <1>3, <1>5 DEF SandboxInv

\* What a function keeps when a value is put where it stands.
LEMMA SandboxFacts ==
    ASSUME SandboxInv, NEW c \in Check
    PROVE  /\ CheckInv(c) /\ requested[c] \in Metadata \cup {NoMetadata}
           /\ checkStage[c] \in {"idle", "running", "done", "cancelled"}
           /\ process[c] \in Ends \cup {"none", "running"}
           /\ requested = [requested EXCEPT ![c] = requested[c]]
           /\ process = [process EXCEPT ![c] = process[c]]
           /\ checkStage = [checkStage EXCEPT ![c] = checkStage[c]]
           /\ report = [report EXCEPT ![c] = report[c]]
           /\ NoReport.passed = FALSE /\ NoReport.of = {}
<1>1. /\ requested \in [Check -> Metadata \cup {NoMetadata}]
      /\ checkStage \in [Check -> {"idle", "running", "done", "cancelled"}]
      /\ process \in [Check -> Ends \cup {"none", "running"}]
      /\ report = [d \in Check |-> report[d]] /\ CheckInv(c)
  BY DEF SandboxInv
<1>2. NoReport.passed = FALSE /\ NoReport.of = {}
  BY DEF NoReport
<1> QED
  BY <1>1, <1>2

\* A check that may not be asked for is refused, and no command starts.
LEMMA RefuseKeeps ==
    ASSUME SandboxInv, NEW c \in Check, NEW a \in Metadata, Refuse(c, a)
    PROVE  SandboxInv'
<1> DEFINE r == [report[c] EXCEPT !.status = IF Raises(a) THEN "raised" ELSE "failure"]
<1>1. /\ checkStage[c] = "idle" /\ requested' = [requested EXCEPT ![c] = a]
      /\ checkStage' = [checkStage EXCEPT ![c] = "done"]
      /\ report' = [report EXCEPT ![c] = r] /\ UNCHANGED <<process, stored>>
  BY DEF Refuse, Takes
<1>2. /\ process[c] = "none" /\ report[c] = NoReport /\ c \notin stored
      /\ process' = [process EXCEPT ![c] = "none"]
  BY <1>1, SandboxFacts DEF CheckInv
<1>3. r.passed = FALSE /\ r.of = {}
  BY <1>2 DEF NoReport
<1> HIDE DEF r
<1> QED
  BY <1>1, <1>2, <1>3, CheckMoves

\* The policy denies a command, which does not start.
LEMMA DenyKeeps ==
    ASSUME SandboxInv, NEW c \in Check, NEW a \in Metadata, Deny(c, a)
    PROVE  SandboxInv'
<1>1. /\ checkStage[c] = "idle" /\ requested' = [requested EXCEPT ![c] = a]
      /\ checkStage' = [checkStage EXCEPT ![c] = "done"] /\ capture' = {}
      /\ UNCHANGED <<process, stored>> /\ Reports(c, Validation(a), FALSE)
  BY DEF Deny, Takes, Forget
<1>2. PICK r : report' = [report EXCEPT ![c] = r] /\ r.passed = FALSE /\ r.of = {}
  <2>1. PICK u : report' = [report EXCEPT ![c] = [passed |-> FALSE, status |-> Validation(a),
                                                   of |-> capture', summary |-> u]]
    BY <1>1 DEF Reports
  <2> DEFINE x == [passed |-> FALSE, status |-> Validation(a), of |-> capture', summary |-> u]
  <2>2. x.passed = FALSE /\ x.of = {}
    BY <1>1
  <2>3. report' = [report EXCEPT ![c] = x]
    BY <2>1
  <2> HIDE DEF x
  <2> QED
    BY <2>2, <2>3
<1>3. /\ process[c] = "none" /\ c \notin stored
      /\ process' = [process EXCEPT ![c] = "none"]
  BY <1>1, SandboxFacts DEF CheckInv
<1> QED
  BY <1>1, <1>2, <1>3, CheckMoves

\* Only a plain command inside the workspace is started.
LEMMA StartKeeps ==
    ASSUME SandboxInv, NEW c \in Check, NEW a \in Metadata, Start(c, a)
    PROVE  SandboxInv'
<1>1. /\ checkStage[c] = "idle" /\ requested' = [requested EXCEPT ![c] = a]
      /\ checkStage' = [checkStage EXCEPT ![c] = "running"]
      /\ process' = [process EXCEPT ![c] = "running"]
      /\ MayAsk(a) /\ Validation(a) = "passed" /\ UNCHANGED <<report, stored>>
  BY DEF Start, Takes
<1>2. a.inside /\ a.command = "plain"
  <2>1. a \in AskedFor
    BY SandboxAssumption
  <2>2. a.command \in {"none", "malformed", "unclosed", "empty", "denied", "destructive",
                       "plain"}
    BY <2>1 DEF AskedFor
  <2>3. a.command \notin {"none", "malformed", "unclosed"}
    BY <1>1 DEF MayAsk, Sited, Commanded, Raises
  <2>4. a.inside /\ a.command \notin {"empty", "denied", "destructive"}
    BY <1>1 DEF Validation, Inside, Allowed
  <2> QED
    BY <2>2, <2>3, <2>4
<1>3. /\ report[c] = NoReport /\ c \notin stored
      /\ report' = [report EXCEPT ![c] = NoReport]
  BY <1>1, SandboxFacts DEF CheckInv
<1>4. NoReport.passed = FALSE /\ NoReport.of \subseteq IF "running" \in Ends THEN {c} ELSE {}
  BY DEF NoReport
<1>5. /\ c \notin stored' /\ stored' \in {stored, stored \cup {c}}
      /\ a \in Metadata \cup {NoMetadata} /\ "running" \in Ends \cup {"none", "running"}
  BY <1>1, <1>3
<1>6. PICK s \in {"idle", "running", "done", "cancelled"} : s = "running"
  OBVIOUS
<1>7. PICK p \in Ends \cup {"none", "running"} : p = "running"
  BY <1>5
<1>8. NoReport.of \subseteq IF p \in Ends THEN {c} ELSE {}
  BY <1>4, <1>7
<1>9. PICK b \in Metadata \cup {NoMetadata} : b = a
  BY <1>5
<1>10. /\ requested' = [requested EXCEPT ![c] = b] /\ checkStage' = [checkStage EXCEPT ![c] = s]
       /\ process' = [process EXCEPT ![c] = p]
  BY <1>1, <1>6, <1>7, <1>9
<1> QED
  BY <1>2, <1>3, <1>4, <1>5, <1>6, <1>7, <1>8, <1>9, <1>10, CheckMoves

\* A command ends; its check has reported nothing yet.
LEMMA EndsKeeps ==
    ASSUME SandboxInv, NEW c \in Check, CommandEnds(c)
    PROVE  SandboxInv'
<1>1. /\ process[c] = "running" /\ UNCHANGED <<requested, checkStage, report, stored>>
      /\ \E end \in Ends : process' = [process EXCEPT ![c] = end]
  BY DEF CommandEnds, Ends
<1>2. PICK end \in Ends : process' = [process EXCEPT ![c] = end]
  BY <1>1
<1>3. /\ checkStage[c] \in {"running", "cancelled"} /\ report[c] = NoReport /\ c \notin stored
      /\ requested[c].inside /\ requested[c].command = "plain"
  BY <1>1, SandboxFacts DEF CheckInv
<1>4. /\ requested' = [requested EXCEPT ![c] = requested[c]]
      /\ checkStage' = [checkStage EXCEPT ![c] = checkStage[c]]
      /\ report' = [report EXCEPT ![c] = NoReport]
  BY <1>1, <1>3, SandboxFacts
<1>5. end # "none" /\ end # "running" /\ end \in Ends \cup {"none", "running"}
  BY DEF Ends
<1>6. NoReport.passed = FALSE /\ NoReport.of \subseteq IF end \in Ends THEN {c} ELSE {}
  BY DEF NoReport
<1>7. PICK a \in Metadata \cup {NoMetadata} : a = requested[c]
  BY SandboxFacts
<1>8. PICK s \in {"running", "cancelled"} : s = checkStage[c]
  BY <1>3
<1>9. c \notin stored' /\ stored' \in {stored, stored \cup {c}}
  BY <1>1, <1>3
<1> QED
  BY <1>2, <1>3, <1>4, <1>5, <1>6, <1>7, <1>8, <1>9, CheckMoves

\* A check reports what its own command left in the capture.
LEMMA FinishKeeps ==
    ASSUME SandboxInv, NEW c \in Check, Finish(c)
    PROVE  SandboxInv'
<1> DEFINE p == process[c]
<1>1. /\ checkStage[c] = "running" /\ p # "running" /\ capture' = {c}
      /\ checkStage' = [checkStage EXCEPT ![c] = "done"]
      /\ UNCHANGED <<requested, process>>
  BY DEF Finish
<1>2. /\ report[c] = NoReport /\ c \notin stored /\ p \in Ends
      /\ requested[c].inside /\ requested[c].command = "plain"
  BY <1>1, SandboxFacts DEF CheckInv
<1>3. /\ requested' = [requested EXCEPT ![c] = requested[c]]
      /\ process' = [process EXCEPT ![c] = p]
  BY <1>1, SandboxFacts
<1>4. /\ ResultStatus(p) \in {"timeout", "error", "passed", "failed"}
      /\ ResultStatus(p) = "passed" => p = "zero"
  BY <1>2 DEF ResultStatus, Ends
<1>5. p # "none"
  BY <1>2 DEF Ends
<1>6. CASE Reports(c, ResultStatus(p), ResultStatus(p) = "passed")
           /\ stored' \in {stored, stored \cup {c}}
  <2>1. PICK u : report' = [report EXCEPT ![c] =
                    [passed |-> ResultStatus(p) = "passed", status |-> ResultStatus(p),
                     of |-> capture', summary |-> u]]
    BY <1>6 DEF Reports
  <2> DEFINE r == [passed |-> ResultStatus(p) = "passed", status |-> ResultStatus(p),
                   of |-> capture', summary |-> u]
  <2>2. r.status = ResultStatus(p) /\ r.of = {c}
    BY <1>1
  <2>3. r.passed => p = "zero"
    BY <1>4
  <2>4. report' = [report EXCEPT ![c] = r]
    BY <2>1
  <2> HIDE DEF r, p
  <2>5. r.status # "failure"
    BY <1>4, <2>2
  <2> QED
    BY <1>1, <1>2, <1>3, <1>5, <1>6, <2>2, <2>3, <2>4, <2>5, SandboxFacts, CheckMoves
<1>7. CASE report' = [report EXCEPT ![c].status = "failure"] /\ stored' = stored
  <2> DEFINE r == [report[c] EXCEPT !.status = "failure"]
  <2>1. r.passed = FALSE /\ r.of = {}
    BY <1>2 DEF NoReport
  <2>2. report' = [report EXCEPT ![c] = r]
    BY <1>7
  <2> HIDE DEF r
  <2>3. c \notin stored' /\ stored' \in {stored, stored \cup {c}}
    BY <1>2, <1>7
  <2>4. PICK a \in Metadata \cup {NoMetadata} : a = requested[c]
    BY SandboxFacts
  <2>5. PICK q \in Ends : q = p
    BY <1>2
  <2>6. r.of \subseteq IF q \in Ends THEN {c} ELSE {}
    BY <2>1
  <2> HIDE DEF p
  <2> QED
    BY <1>1, <1>2, <1>3, <1>5, <2>1, <2>2, <2>3, <2>4, <2>5, <2>6, CheckMoves
<1> QED
  BY <1>6, <1>7 DEF Finish

\* A cancelled check reports nothing.
LEMMA CancelCheckKeeps ==
    ASSUME SandboxInv, NEW c \in Check, Cancel(c)
    PROVE  SandboxInv'
<1>1. /\ checkStage[c] = "running" /\ checkStage' = [checkStage EXCEPT ![c] = "cancelled"]
      /\ UNCHANGED <<requested, process, report, stored>>
  BY DEF Cancel
<1>2. /\ report[c] = NoReport /\ c \notin stored /\ process[c] # "none"
      /\ requested[c].inside /\ requested[c].command = "plain"
  BY <1>1, SandboxFacts DEF CheckInv
<1>3. /\ requested' = [requested EXCEPT ![c] = requested[c]]
      /\ process' = [process EXCEPT ![c] = process[c]]
      /\ report' = [report EXCEPT ![c] = NoReport]
  BY <1>1, <1>2, SandboxFacts
<1>4. PICK a \in Metadata \cup {NoMetadata} : a = requested[c]
  BY SandboxFacts
<1>5. PICK p \in Ends \cup {"none", "running"} : p = process[c]
  BY SandboxFacts
<1>6. NoReport.passed = FALSE /\ NoReport.of \subseteq IF p \in Ends THEN {c} ELSE {}
  BY DEF NoReport
<1>7. c \notin stored' /\ stored' \in {stored, stored \cup {c}}
  BY <1>1, <1>2
<1>8. PICK s \in {"idle", "running", "done", "cancelled"} : s = "cancelled"
  OBVIOUS
<1>9. /\ requested' = [requested EXCEPT ![c] = a] /\ checkStage' = [checkStage EXCEPT ![c] = s]
      /\ process' = [process EXCEPT ![c] = p]
  BY <1>1, <1>3, <1>4, <1>5, <1>8
<1>10. /\ a.inside /\ a.command = "plain" /\ p # "none"
  BY <1>2, <1>4, <1>5
<1> QED
  BY <1>3, <1>6, <1>7, <1>8, <1>9, <1>10, CheckMoves

\* Every step of the checks keeps their invariant.
LEMMA SandboxStep == SandboxInv /\ [SandboxNext]_sandboxVars => SandboxInv'
<1> SUFFICES ASSUME SandboxInv, [SandboxNext]_sandboxVars PROVE SandboxInv'
  OBVIOUS
<1>1. ASSUME NEW c \in Check,
             \/ \E a \in Metadata : Refuse(c, a) \/ Deny(c, a) \/ Start(c, a)
             \/ CommandEnds(c) \/ Finish(c) \/ Cancel(c)
      PROVE  SandboxInv'
  BY <1>1, RefuseKeeps, DenyKeeps, StartKeeps, EndsKeeps, FinishKeeps, CancelCheckKeeps
<1>2. CASE UNCHANGED sandboxVars
  BY <1>2 DEF sandboxVars, SandboxInv, CheckInv
<1> QED
  BY <1>1, <1>2 DEF SandboxNext

\* What the invariant says of the checks: evidence is its own, a pass is earned.
LEMMA SandboxPromises == SandboxInv => EvidenceIsItsOwn /\ SandboxPassIsEarned
<1> SUFFICES ASSUME SandboxInv PROVE EvidenceIsItsOwn /\ SandboxPassIsEarned
  OBVIOUS
<1>1. EvidenceIsItsOwn
  BY DEF SandboxInv, CheckInv, EvidenceIsItsOwn
<1>2. SandboxPassIsEarned
  BY DEF SandboxInv, CheckInv, SandboxPassIsEarned
<1> QED
  BY <1>1, <1>2

-----------------------------------------------------------------------------
(* All of them *)

ExecutionInv ==
    /\ PoolInv /\ HandoffInv /\ SlotInv /\ AgentInv /\ SshInv
    /\ GatesInv /\ GauntletInv /\ SandboxInv

\* All components start within their invariants.
LEMMA ExecutionInitial == ExecutionInit => ExecutionInv
  BY PoolInitial, HandoffInitial, SlotInitial, AgentInitial, SshInitial, GatesInitial,
     GauntletInitial, SandboxInitial DEF ExecutionInit, ExecutionInv

\* A step of all components is a step or a stutter of each.
LEMMA EachMovesOrStays ==
    ASSUME [ExecutionNext]_ExecutionVars
    PROVE  /\ [PoolNext]_poolVars /\ [HandoffNext]_handoffVars /\ [SlotNext]_slotVars
           /\ [AgentNext]_agentVars /\ [SshNext]_sshVars /\ [GatesNext]_gateVars
           /\ [GauntletNext]_gauntletVars /\ [SandboxNext]_sandboxVars
<1>1. CASE ExecutionNext
  BY <1>1 DEF ExecutionNext
<1>2. CASE UNCHANGED ExecutionVars
  BY <1>2 DEF ExecutionVars
<1> QED
  BY <1>1, <1>2

\* A step of one component keeps its own invariant and touches no other's.
LEMMA ExecutionStep == ExecutionInv /\ [ExecutionNext]_ExecutionVars => ExecutionInv'
<1> SUFFICES ASSUME ExecutionInv, [ExecutionNext]_ExecutionVars PROVE ExecutionInv'
  OBVIOUS
<1>1. PoolInv' /\ HandoffInv' /\ SlotInv' /\ AgentInv'
  BY EachMovesOrStays, PoolStep, HandoffStep, SlotStep, AgentStep DEF ExecutionInv
<1>2. SshInv' /\ GatesInv' /\ GauntletInv' /\ SandboxInv'
  BY EachMovesOrStays, SshStep, GatesStep, GauntletStep, SandboxStep DEF ExecutionInv
<1> QED
  BY <1>1, <1>2 DEF ExecutionInv

\* The inductive invariant of all components holds, of every instance.
THEOREM ExecutionInvariant == ExecutionSpec => []ExecutionInv
  BY ExecutionInitial, ExecutionStep, PTL DEF ExecutionSpec

\* What the run Execution_components checks of the work that is handed from one to
\* the next, for every number of workers, tasks, calls, agents and sessions: workers
\* are as many as were asked for, a submission has one true answer, a backend has no
\* more calls in flight than its limit, an open session is somebody's, and an agent
\* that declares truly keeps to its operation.
THEOREM WorkIsAlwaysHandedOnce == ExecutionSpec => []WorkIsHandedOnce
<1>1. ExecutionInv => WorkIsHandedOnce
  BY PoolPromises, HandoffPromises, SlotPromises, AgentPromises, SshPromises
     DEF ExecutionInv, WorkIsHandedOnce
<1> QED
  BY <1>1, ExecutionInvariant, PTL

\* A verdict is earned gate by gate, for every number of gates, critics and checks.
THEOREM VerdictsAreAlwaysEarned == ExecutionSpec => []VerdictsAreEarned
<1>1. ExecutionInv => VerdictsAreEarned
  BY SandboxPromises DEF ExecutionInv, GatesInv, GauntletInv, VerdictsAreEarned
<1> QED
  BY <1>1, ExecutionInvariant, PTL

=============================================================================
