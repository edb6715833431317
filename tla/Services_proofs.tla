--------------------------- MODULE Services_proofs ---------------------------
(***************************************************************************)
(* Proofs about the services around the daemon.  Each component has an      *)
(* inductive invariant, a lemma that it holds at first, one that a step     *)
(* keeps it, and one that it says what TLC checks of the component.  A      *)
(* behaviour of MCServices moves one component and leaves the others alone, *)
(* so the conjunction of their invariants is one of the whole.              *)
(***************************************************************************)
EXTENDS MCServices, CountingLemmas

-----------------------------------------------------------------------------
(* Webhooks *)

HookTypes ==
    /\ delivery \in [Event -> {"none", "200", "500"}]
    /\ routed \in [Event -> [1..Route -> Nat]] /\ redelivered \in [Event -> Nat]
    /\ caller \in [Key -> {"none", "lost", "refused", "duplicate", "accepted"}]
    /\ remembered \subseteq HasKey
    /\ triggered \in [Key -> Nat] /\ lapses \in [Key -> Nat]

\* An event not yet delivered has no task, and a key's task that no lapse accounts
\* for is one whose key is remembered.
HookInv ==
    /\ HookTypes
    /\ \A e \in Event, r \in 1..Route :
          /\ routed[e][r] <= IF r \in Matching(e) /\ delivery[e] # "none"
                             THEN 1 + redelivered[e] ELSE 0
          /\ delivery[e] = "200" /\ r \in Matching(e) => routed[e][r] > 0
    /\ \A k \in HasKey :
          triggered[k] <= lapses[k] + IF k \in remembered THEN 1 ELSE 0

\* Nothing has been delivered or triggered.
LEMMA HooksInitial == HookInit => HookInv
<1> SUFFICES ASSUME HookInit PROVE HookInv
  OBVIOUS
<1>1. HookTypes
  BY DEF HookInit, HookTypes
<1>2. \A e \in Event, r \in 1..Route : routed[e][r] = 0 /\ delivery[e] = "none"
  BY DEF HookInit
<1>3. \A k \in HasKey : triggered[k] = 0 /\ lapses[k] = 0
  BY WebhookAssumption DEF HookInit
<1> QED
  BY <1>1, <1>2, <1>3 DEF HookInv

\* What a delivery adds to the tasks of its event.
LEMMA SubmitsOnce ==
    ASSUME HookTypes, NEW e \in Event, NEW rs, Submits(e, rs)
    PROVE  /\ routed' \in [Event -> [1..Route -> Nat]]
           /\ \A f \in Event \ {e} : routed'[f] = routed[f]
           /\ \A r \in 1..Route :
                 routed'[e][r] = routed[e][r] + IF r \in rs THEN 1 ELSE 0
<1> DEFINE more == [r \in 1..Route |-> routed[e][r] + IF r \in rs THEN 1 ELSE 0]
<1>1. routed' = [routed EXCEPT ![e] = more] /\ routed \in [Event -> [1..Route -> Nat]]
  BY DEF HookTypes, Submits
<1>2. more \in [1..Route -> Nat]
  <2>1. ASSUME NEW r \in 1..Route PROVE routed[e][r] + (IF r \in rs THEN 1 ELSE 0) \in Nat
    <3>1. routed[e][r] \in Nat
      BY <1>1
    <3> QED
      BY <3>1
  <2> QED
    BY <2>1
<1>3. \A r \in 1..Route : more[r] = routed[e][r] + IF r \in rs THEN 1 ELSE 0
  OBVIOUS
<1> HIDE DEF more
<1>4. routed'[e] = more /\ \A f \in Event \ {e} : routed'[f] = routed[f]
  BY <1>1
<1>5. routed' \in [Event -> [1..Route -> Nat]]
  BY <1>1, <1>2
<1> QED
  BY <1>3, <1>4, <1>5

\* A delivery concerns its event alone.
LEMMA DeliveryStep ==
    ASSUME HookInv, NEW e \in Event, Deliver(e) \/ DeliverInPart(e)
    PROVE  HookInv'
<1>0. HookTypes /\ UNCHANGED <<remembered, caller, triggered, lapses>>
  BY DEF HookInv, Deliver, DeliverInPart
<1>a. /\ redelivered' \in [Event -> Nat]
      /\ \A f \in Event \ {e} : redelivered'[f] = redelivered[f]
      /\ redelivered'[e] = IF delivery[e] = "none" THEN redelivered[e] ELSE redelivered[e] + 1
  <2>1. Arrives(e)
    BY DEF Deliver, DeliverInPart
  <2> QED
    BY <1>0, <2>1 DEF Arrives, HookTypes
<1>1. CASE Deliver(e)
  <2>1. /\ delivery' \in [Event -> {"none", "200", "500"}]
        /\ delivery'[e] = "200" /\ \A f \in Event \ {e} : delivery'[f] = delivery[f]
    BY <1>0, <1>1 DEF Deliver, HookTypes
  <2>4. Submits(e, Matching(e))
    BY <1>1 DEF Deliver
  <2>5. /\ routed' \in [Event -> [1..Route -> Nat]]
        /\ \A f \in Event \ {e} : routed'[f] = routed[f]
        /\ \A r \in 1..Route :
              routed'[e][r] = routed[e][r] + IF r \in Matching(e) THEN 1 ELSE 0
    BY <1>0, <2>4, SubmitsOnce
  <2>6. HookTypes'
    BY <1>0, <1>a, <2>1, <2>5 DEF HookTypes
  <2>7. ASSUME NEW f \in Event, NEW r \in 1..Route
        PROVE  /\ routed'[f][r] <= IF r \in Matching(f) /\ delivery'[f] # "none"
                                   THEN 1 + redelivered'[f] ELSE 0
               /\ delivery'[f] = "200" /\ r \in Matching(f) => routed'[f][r] > 0
    <3>1. routed[f][r] \in Nat /\ redelivered[f] \in Nat
      BY <1>0 DEF HookTypes
    <3>2. /\ routed[f][r] <= IF r \in Matching(f) /\ delivery[f] # "none"
                             THEN 1 + redelivered[f] ELSE 0
          /\ delivery[f] = "200" /\ r \in Matching(f) => routed[f][r] > 0
      BY DEF HookInv
    <3>3. CASE f = e
      BY <1>a, <2>1, <2>5, <3>1, <3>2, <3>3
    <3>4. CASE f # e
      BY <1>a, <2>1, <2>5, <3>2, <3>4
    <3> QED
      BY <3>3, <3>4
  <2> QED
    BY <1>0, <2>6, <2>7 DEF HookInv, Matching
<1>2. CASE DeliverInPart(e)
  <2>1. /\ delivery' \in [Event -> {"none", "200", "500"}]
        /\ delivery'[e] = "500" /\ \A f \in Event \ {e} : delivery'[f] = delivery[f]
    BY <1>0, <1>2 DEF DeliverInPart, HookTypes
  <2>2. PICK rs \in Begun(Matching(e)) : Submits(e, rs)
    BY <1>2 DEF DeliverInPart
  <2>3. rs \subseteq Matching(e)
    BY DEF Begun
  <2>4. /\ routed' \in [Event -> [1..Route -> Nat]]
        /\ \A f \in Event \ {e} : routed'[f] = routed[f]
        /\ \A r \in 1..Route : routed'[e][r] = routed[e][r] + IF r \in rs THEN 1 ELSE 0
    BY <1>0, <2>2, SubmitsOnce
  <2>5. HookTypes'
    BY <1>0, <1>a, <2>1, <2>4 DEF HookTypes
  <2>6. ASSUME NEW f \in Event, NEW r \in 1..Route
        PROVE  /\ routed'[f][r] <= IF r \in Matching(f) /\ delivery'[f] # "none"
                                   THEN 1 + redelivered'[f] ELSE 0
               /\ delivery'[f] = "200" /\ r \in Matching(f) => routed'[f][r] > 0
    <3>1. routed[f][r] \in Nat /\ redelivered[f] \in Nat
      BY <1>0 DEF HookTypes
    <3>2. /\ routed[f][r] <= IF r \in Matching(f) /\ delivery[f] # "none"
                             THEN 1 + redelivered[f] ELSE 0
          /\ delivery[f] = "200" /\ r \in Matching(f) => routed[f][r] > 0
      BY DEF HookInv
    <3>3. CASE f = e
      <4>1. r \in rs => r \in Matching(f)
        BY <2>3, <3>3
      <4> QED
        BY <1>a, <2>1, <2>4, <3>1, <3>2, <3>3, <4>1
    <3>4. CASE f # e
      BY <1>a, <2>1, <2>4, <3>2, <3>4
    <3> QED
      BY <3>3, <3>4
  <2> QED
    BY <1>0, <2>5, <2>6 DEF HookInv, Matching
<1> QED
  BY <1>1, <1>2

\* A key is remembered before its task is counted.
LEMMA HookStep == HookInv /\ [HookNext]_hookVars => HookInv'
<1> SUFFICES ASSUME HookInv, [HookNext]_hookVars PROVE HookInv'
  OBVIOUS
<1>0. HasKey \subseteq Key
  BY WebhookAssumption
<1>1. ASSUME NEW e \in Event, Deliver(e) \/ DeliverInPart(e) PROVE HookInv'
  BY <1>1, DeliveryStep
<1>2. ASSUME NEW k \in Key, TriggerDuplicate(k) PROVE HookInv'
  BY <1>2 DEF TriggerDuplicate, Answered, HookInv, HookTypes, Matching
<1>3. ASSUME NEW k \in Key, TriggerTask(k) PROVE HookInv'
  <2>1. HookTypes'
    <3>1. caller' \in [Key -> {"none", "lost", "refused", "duplicate", "accepted"}]
      BY <1>3 DEF TriggerTask, Answered, HookInv, HookTypes
    <3>2. remembered' \subseteq HasKey
      BY <1>3 DEF TriggerTask, Remember, HookInv, HookTypes
    <3>3. triggered' \in [Key -> Nat]
      BY <1>3 DEF TriggerTask, HookInv, HookTypes
    <3>4. UNCHANGED <<delivery, routed, redelivered, lapses>>
      BY <1>3 DEF TriggerTask
    <3> QED
      BY <3>1, <3>2, <3>3, <3>4 DEF HookInv, HookTypes
  <2>2. \A j \in Key : triggered'[j] = triggered[j] + IF j = k THEN 1 ELSE 0
    BY <1>3 DEF TriggerTask, HookInv, HookTypes
  <2>3. UNCHANGED <<delivery, routed, redelivered, lapses>>
    BY <1>3 DEF TriggerTask
  <2>4. ASSUME NEW j \in HasKey
        PROVE  triggered'[j] <= lapses'[j] + IF j \in remembered' THEN 1 ELSE 0
    <3>1. triggered[j] <= lapses[j] + IF j \in remembered THEN 1 ELSE 0
      BY DEF HookInv
    <3>2. triggered[j] \in Nat /\ lapses[j] \in Nat
      BY <1>0 DEF HookInv, HookTypes
    <3>3. j = k => j \notin remembered /\ j \in remembered'
      BY <1>3 DEF TriggerTask, IsDuplicate, Remember
    <3>4. j \in remembered => j \in remembered'
      BY <1>3 DEF TriggerTask, Remember
    <3> QED
      BY <1>0, <2>2, <2>3, <3>1, <3>2, <3>3, <3>4
  <2> QED
    BY <2>1, <2>3, <2>4 DEF HookInv, Matching
<1>4. ASSUME NEW k \in Key, TriggerFails(k) PROVE HookInv'
  <2>1. HookTypes' /\ remembered \subseteq remembered'
    BY <1>4 DEF TriggerFails, Answered, Remember, HookInv, HookTypes
  <2>2. UNCHANGED <<delivery, routed, redelivered, triggered, lapses>>
    BY <1>4 DEF TriggerFails
  <2>3. ASSUME NEW j \in HasKey
        PROVE  triggered'[j] <= lapses'[j] + IF j \in remembered' THEN 1 ELSE 0
    <3>1. triggered[j] <= lapses[j] + IF j \in remembered THEN 1 ELSE 0
      BY DEF HookInv
    <3>2. triggered[j] \in Nat /\ lapses[j] \in Nat
      BY <1>0 DEF HookInv, HookTypes
    <3> QED
      BY <2>1, <2>2, <3>1, <3>2
  <2> QED
    BY <2>1, <2>2, <2>3 DEF HookInv, Matching
<1>5. ASSUME NEW ks \in SUBSET remembered, ForgetKeys(ks) PROVE HookInv'
  <2>1. HookTypes'
    BY <1>5 DEF ForgetKeys, HookInv, HookTypes
  <2>2. UNCHANGED <<delivery, routed, redelivered, triggered>>
    BY <1>5 DEF ForgetKeys
  <2>3. ASSUME NEW j \in HasKey
        PROVE  triggered'[j] <= lapses'[j] + IF j \in remembered' THEN 1 ELSE 0
    <3>1. triggered[j] <= lapses[j] + IF j \in remembered THEN 1 ELSE 0
      BY DEF HookInv
    <3>2. triggered[j] \in Nat /\ lapses[j] \in Nat
      BY <1>0 DEF HookInv, HookTypes
    <3>3. lapses'[j] = (lapses[j] + IF j \in ks THEN 1 ELSE 0) /\ remembered' = remembered \ ks
      BY <1>0, <1>5 DEF ForgetKeys
    <3> QED
      BY <2>2, <3>1, <3>2, <3>3
  <2> QED
    BY <2>1, <2>2, <2>3 DEF HookInv, Matching
<1>6. CASE UNCHANGED hookVars
  BY <1>6 DEF hookVars, HookInv, HookTypes, Matching
<1>7. ASSUME NEW k \in Key, TriggerBlank(k) PROVE HookInv'
  BY <1>7 DEF TriggerBlank, Answered, HookInv, HookTypes, Matching
<1> QED
  BY <1>1, <1>2, <1>3, <1>4, <1>5, <1>6, <1>7 DEF HookNext

\* What the invariant says of deliveries and keys.
LEMMA HooksHold == HookInv => HookTypeOK /\ HooksSubmitOnce
<1> SUFFICES ASSUME HookInv PROVE HookTypeOK /\ HooksSubmitOnce
  OBVIOUS
<1>0. HasKey \subseteq Key
  BY WebhookAssumption
<1>1. HookTypeOK
  <2>1. ASSUME NEW e \in Event
        PROVE  {routed[e][r] : r \in 1..Route} \cup {redelivered[e]} \subseteq Nat
    <3>1. routed[e] \in [1..Route -> Nat] /\ redelivered[e] \in Nat
      BY DEF HookInv, HookTypes
    <3> QED
      BY <3>1
  <2>2. {triggered[k] : k \in Key} \cup {lapses[k] : k \in Key} \subseteq Nat
    BY DEF HookInv, HookTypes
  <2> QED
    BY <2>1, <2>2 DEF HookInv, HookTypes, HookTypeOK
<1>2. ASSUME NEW e \in Event, NEW r \in 1..Route
      PROVE  /\ routed[e][r] <= IF r \in Matching(e) THEN 1 + redelivered[e] ELSE 0
             /\ delivery[e] = "200" /\ r \in Matching(e) => routed[e][r] > 0
  <2>1. routed[e][r] \in Nat /\ redelivered[e] \in Nat
    BY DEF HookInv, HookTypes
  <2> QED
    BY <2>1 DEF HookInv
<1>3. ASSUME NEW k \in HasKey PROVE triggered[k] <= 1 + lapses[k]
  <2>1. triggered[k] \in Nat /\ lapses[k] \in Nat
    BY <1>0 DEF HookInv, HookTypes
  <2> QED
    BY <2>1 DEF HookInv
<1> QED
  BY <1>1, <1>2, <1>3 DEF HooksSubmitOnce

-----------------------------------------------------------------------------
(* The doors for issues *)

Increasing(f, n) == \A i, j \in 1..n : i < j => f[i] < f[j]

\* A finite set of numbers can be put in order: its least, then the rest.
LEMMA OrderExists ==
    ASSUME NEW n \in Nat, NEW P \in SUBSET Nat, IsFiniteSet(P), Cardinality(P) = n
    PROVE  \E f \in [1..n -> P] : Increasing(f, n)
<1> DEFINE Orders(m) ==
      \A Q \in SUBSET Nat : IsFiniteSet(Q) /\ Cardinality(Q) = m
          => \E f \in [1..m -> Q] : Increasing(f, m)
<1> DEFINE Good == {m \in Nat : Orders(m)}
<1>1. Orders(0)
  <2> SUFFICES ASSUME NEW Q \in SUBSET Nat
               PROVE  \E f \in [1..0 -> Q] : Increasing(f, 0)
    OBVIOUS
  <2>1. <<>> \in [1..0 -> Q] /\ Increasing(<<>>, 0)
    BY DEF Increasing
  <2> QED
    BY <2>1
<1>2. ASSUME NEW m \in Nat, Orders(m) PROVE Orders(m + 1)
  <2> SUFFICES ASSUME NEW Q \in SUBSET Nat, IsFiniteSet(Q), Cardinality(Q) = m + 1
               PROVE  \E f \in [1..(m + 1) -> Q] : Increasing(f, m + 1)
    OBVIOUS
  <2>1. Q # {}
    BY FS_EmptySet
  <2>2. PICK a \in Q : \A i \in Q : a <= i
    BY <2>1, LeastNatural
  <2>3. IsFiniteSet(Q \ {a}) /\ Cardinality(Q \ {a}) = m /\ Q \ {a} \in SUBSET Nat
    <3>1. IsFiniteSet(Q \ {a}) /\ Cardinality(Q \ {a}) = Cardinality(Q) - 1
      BY FS_RemoveElement
    <3>2. Cardinality(Q) - 1 = m
      OBVIOUS
    <3> QED
      BY <3>1, <3>2
  <2>4. PICK f \in [1..m -> Q \ {a}] : Increasing(f, m)
    BY <1>2, <2>3
  <2> DEFINE g == [i \in 1..(m + 1) |-> IF i = 1 THEN a ELSE f[i - 1]]
  <2>5. \A i \in 1..(m + 1) : i # 1 => i - 1 \in 1..m
    OBVIOUS
  <2>6. g \in [1..(m + 1) -> Q]
    BY <2>5
  <2>7. ASSUME NEW i \in 1..(m + 1), NEW j \in 1..(m + 1), i < j PROVE g[i] < g[j]
    <3>1. j - 1 \in 1..m /\ g[j] = f[j - 1]
      BY <2>5, <2>7
    <3>2. CASE i = 1
      <4>1. f[j - 1] \in Q /\ f[j - 1] # a
        BY <3>1
      <4>2. a <= f[j - 1] /\ a \in Nat /\ f[j - 1] \in Nat /\ g[i] = a
        BY <2>2, <3>2, <4>1
      <4> HIDE DEF g
      <4> QED
        BY <3>1, <4>1, <4>2
    <3>3. CASE i # 1
      <4>1. i - 1 \in 1..m /\ i - 1 < j - 1 /\ g[i] = f[i - 1]
        BY <2>5, <2>7, <3>3
      <4> QED
        BY <2>4, <3>1, <4>1 DEF Increasing
    <3> QED
      BY <3>2, <3>3
  <2> HIDE DEF g
  <2>8. Increasing(g, m + 1)
    BY <2>7 DEF Increasing
  <2> QED
    BY <2>6, <2>8
<1>3. Good = Nat
  <2> HIDE DEF Orders
  <2>1. 0 \in Good /\ (\A m \in Good : m + 1 \in Good) /\ Good \in SUBSET Nat
    BY <1>1, <1>2
  <2> HIDE DEF Good
  <2> QED
    BY <2>1, Inducted
<1>4. Orders(n)
  <2> HIDE DEF Orders
  <2> QED
    BY <1>3
<1> QED
  BY <1>4

\* What InOrder says: every member, each once, in increasing order.
LEMMA InOrderIs ==
    ASSUME NEW P \in SUBSET Nat, IsFiniteSet(P)
    PROVE  /\ Cardinality(P) \in Nat
           /\ InOrder(P) \in [1..Cardinality(P) -> P]
           /\ Increasing(InOrder(P), Cardinality(P))
           /\ \A x \in P : \E i \in 1..Cardinality(P) : InOrder(P)[i] = x
<1> DEFINE n == Cardinality(P)
<1>1. n \in Nat
  BY FS_CardinalityType
<1>2. \E f \in [1..n -> P] : Increasing(f, n)
  BY <1>1, OrderExists
<1> DEFINE Orders(f) == \A i, j \in DOMAIN f : i < j => f[i] < f[j]
<1>3. \A f \in [1..n -> P] : Increasing(f, n) <=> Orders(f)
  BY DEF Increasing
<1>4. InOrder(P) = CHOOSE f \in [1..n -> P] : Orders(f)
  BY DEF InOrder
<1> HIDE DEF Orders
<1>5. InOrder(P) \in [1..n -> P] /\ Orders(InOrder(P))
  BY <1>2, <1>3, <1>4
<1> DEFINE f == InOrder(P)
<1>6. f \in [1..n -> P] /\ Increasing(f, n)
  BY <1>3, <1>5
<1> HIDE DEF f
<1>7. f \in Injection(1..n, P)
  <2>1. \A i, j \in 1..n : f[i] = f[j] => i = j
    <3> SUFFICES ASSUME NEW i \in 1..n, NEW j \in 1..n, f[i] = f[j] PROVE i = j
      OBVIOUS
    <3>0. f[i] \in P /\ f[j] \in P
      BY <1>6
    <3>4. \A x \in P : x \in Nat
      OBVIOUS
    <3>5. \A x \in 1..n : x \in Nat
      BY <1>1
    <3>1. f[i] \in Nat /\ f[j] \in Nat /\ i \in Nat /\ j \in Nat
      BY <3>0, <3>4, <3>5, Zenon
    <3>2. (i < j => f[i] < f[j]) /\ (j < i => f[j] < f[i])
      BY <1>6 DEF Increasing
    <3> QED
      BY <3>1, <3>2
  <2> QED
    BY <1>6, <2>1 DEF Injection, IsInjective
<1>8. Cardinality(1..n) = n
  <2> HIDE DEF n
  <2>1. Cardinality(1..n) = IF 1 > n THEN 0 ELSE n - 1 + 1
    BY <1>1, FS_Interval
  <2> QED
    BY <1>1, <2>1
<1>9. f \in Surjection(1..n, P)
  BY <1>7, <1>8, FS_Injection
<1> QED
  BY <1>1, <1>6, <1>9 DEF f, Surjection

\* What Only keeps: the members at the positions, in their order.
LEMMA OnlyIs ==
    ASSUME NEW S, NEW s \in Seq(S), NEW P \in SUBSET (1..Len(s))
    PROVE  /\ IsFiniteSet(P) /\ Cardinality(P) \in Nat
           /\ Only(s, P) \in Seq(S) /\ Len(Only(s, P)) = Cardinality(P)
           /\ \A i \in 1..Cardinality(P) :
                 /\ InOrder(P)[i] \in P /\ Only(s, P)[i] = s[InOrder(P)[i]]
                 /\ \A j \in 1..Cardinality(P) : i < j => InOrder(P)[i] < InOrder(P)[j]
           /\ \A x \in P : \E i \in 1..Cardinality(P) : InOrder(P)[i] = x
<1>0. Len(s) \in Nat
  OBVIOUS
<1>1. IsFiniteSet(P) /\ P \in SUBSET Nat
  <2>1. IsFiniteSet(1..Len(s))
    BY <1>0, FS_Interval
  <2>2. P \in SUBSET Nat
    <3>1. \A x \in 1..Len(s) : x \in Nat
      BY <1>0
    <3> QED
      BY <3>1, Zenon
  <2>3. IsFiniteSet(P)
    BY <2>1, FS_Subset, Zenon
  <2> QED
    BY <2>2, <2>3
<1> DEFINE f == InOrder(P)
<1> DEFINE n == Cardinality(P)
<1>2. /\ n \in Nat /\ f \in [1..n -> P] /\ Increasing(f, n)
      /\ \A x \in P : \E i \in 1..n : f[i] = x
  BY <1>1, InOrderIs
<1>3. Only(s, P) = [i \in 1..n |-> s[f[i]]]
  BY DEF Only
<1> HIDE DEF f, n
<1>4. \A i \in 1..n : f[i] \in 1..Len(s) /\ s[f[i]] \in S
  <2>1. \A x \in P : x \in 1..Len(s)
    BY Zenon
  <2>2. \A x \in 1..Len(s) : s[x] \in S
    BY ElementOfSeq
  <2>3. \A i \in 1..n : f[i] \in P
    BY <1>2
  <2> QED
    BY <2>1, <2>2, <2>3, Zenon
<1>5. Only(s, P) \in [1..n -> S]
  BY <1>3, <1>4
<1>6. Only(s, P) \in Seq(S) /\ Len(Only(s, P)) = n
  BY <1>2, <1>5, <1>3
<1>7. \A i \in 1..n : /\ f[i] \in P /\ Only(s, P)[i] = s[f[i]]
                      /\ \A j \in 1..n : i < j => f[i] < f[j]
  BY <1>2, <1>3 DEF Increasing
<1> QED
  BY <1>1, <1>2, <1>6, <1>7 DEF f, n

\* What FirstOf keeps.
LEMMA FirstOfIs ==
    ASSUME NEW S, NEW s \in Seq(S), NEW cap \in Nat
    PROVE  /\ FirstOf(s, cap) \in Seq(S)
           /\ Len(FirstOf(s, cap)) = IF Len(s) <= cap THEN Len(s) ELSE cap
           /\ \A i \in 1..Len(FirstOf(s, cap)) : FirstOf(s, cap)[i] = s[i] /\ i \in 1..Len(s)
<1> DEFINE m == IF Len(s) <= cap THEN Len(s) ELSE cap
<1>0. Len(s) \in Nat
  OBVIOUS
<1>1. Min({Len(s), cap}) = m
  BY <1>0, MinOfTwo
<1>2. FirstOf(s, cap) = SubSeq(s, 1, m)
  BY <1>1, Zenon DEF FirstOf
<1>3. m \in 0..Len(s)
  BY <1>0
<1> HIDE DEF m
<1>4. SubSeq(s, 1, m) \in Seq(S) /\ Len(SubSeq(s, 1, m)) = m
      /\ \A i \in 1..m : SubSeq(s, 1, m)[i] = s[i]
  BY <1>0, <1>3, SubSeqProperties
<1>5. \A i \in 1..m : i \in 1..Len(s)
  BY <1>0, <1>3
<1> QED
  BY <1>2, <1>4, <1>5 DEF m

\* The issues of a repository in falling order of their numbers.
LEMMA NewestFirstIs ==
    ASSUME NEW r, NEW S \in SUBSET Nat, IsFiniteSet(S)
    PROVE  /\ Cardinality(S) \in Nat
           /\ NewestFirst(r, S) \in Seq({r} \X S) /\ Len(NewestFirst(r, S)) = Cardinality(S)
           /\ \A i, j \in 1..Cardinality(S) :
                 i < j => NewestFirst(r, S)[j][2] < NewestFirst(r, S)[i][2]
<1> DEFINE f == InOrder(S)
<1> DEFINE n == Cardinality(S)
<1>1. n \in Nat /\ f \in [1..n -> S] /\ Increasing(f, n)
  BY InOrderIs
<1>2. NewestFirst(r, S) = [k \in 1..n |-> <<r, Reverse(f)[k]>>]
  BY DEF NewestFirst
<1> HIDE DEF f, n
<1>3. Len(f) = n /\ f \in Seq(S)
  BY <1>1
<1>4. \A k \in 1..n : n - k + 1 \in 1..n /\ Reverse(f)[k] = f[n - k + 1]
  BY <1>1, <1>3 DEF Reverse
<1>5. NewestFirst(r, S) = [k \in 1..n |-> <<r, f[n - k + 1]>>]
  BY <1>2, <1>4
<1>6. NewestFirst(r, S) \in [1..n -> {r} \X S]
  BY <1>1, <1>4, <1>5
<1>7. NewestFirst(r, S) \in Seq({r} \X S) /\ Len(NewestFirst(r, S)) = n
  BY <1>1, <1>5, <1>6
<1>8. ASSUME NEW i \in 1..n, NEW j \in 1..n, i < j
      PROVE  NewestFirst(r, S)[j][2] < NewestFirst(r, S)[i][2]
  <2>1. n - j + 1 \in 1..n /\ n - i + 1 \in 1..n /\ n - j + 1 < n - i + 1
    BY <1>1, <1>8
  <2>2. f[n - j + 1] < f[n - i + 1]
    BY <1>1, <2>1 DEF Increasing
  <2>3. NewestFirst(r, S)[j][2] = f[n - j + 1] /\ NewestFirst(r, S)[i][2] = f[n - i + 1]
    BY <1>5
  <2> QED
    BY <2>2, <2>3
<1> QED
  BY <1>1, <1>7, <1>8 DEF n

\* A scan takes the newest issues that have the label.
LEMMA PicksNewest == PicksAreNewest
<1> SUFFICES ASSUME NEW S \in SUBSET (1..MaxNumber), NEW r \in Hub
             PROVE  LET listed == NewestFirst(r, S)
                        taken == ToSet(Picks(listed))
                        eligible == ToSet(listed) \cap Labelled
                    IN /\ taken \subseteq eligible
                       /\ Cardinality(taken) = Min({MaxStories, Cardinality(eligible)})
                       /\ \A i \in taken, j \in eligible \ taken : i[2] > j[2]
  BY DEF PicksAreNewest
<1> DEFINE listed == NewestFirst(r, S)
<1> DEFINE n == Cardinality(S)
<1> DEFINE Q == Matched(listed)
<1> DEFINE q == Cardinality(Q)
<1> DEFINE at == InOrder(Q)
<1> DEFINE kept == Only(listed, Q)
<1> DEFINE top == Picks(listed)
<1> DEFINE m == IF q <= MaxStories THEN q ELSE MaxStories
<1>0. MaxNumber \in Nat /\ MaxStories \in Nat
  BY DoorAssumption
<1>s. S \in SUBSET Nat /\ IsFiniteSet(S)
  <2>1. IsFiniteSet(1..MaxNumber)
    BY <1>0, FS_Interval
  <2>2. IsFiniteSet(S)
    BY <2>1, FS_Subset, Zenon
  <2>3. \A x \in 1..MaxNumber : x \in Nat
    BY <1>0
  <2> QED
    BY <2>2, <2>3, Zenon
<1>1. /\ n \in Nat /\ listed \in Seq({r} \X S) /\ Len(listed) = n
      /\ \A i, j \in 1..n : i < j => listed[j][2] < listed[i][2]
  BY <1>s, NewestFirstIs
<1> HIDE DEF listed, n
<1>2. Q \in SUBSET (1..Len(listed)) /\ \A k \in 1..n : k \in Q <=> listed[k] \in Labelled
  BY <1>1 DEF Matched
<1> HIDE DEF Q
<1>3. /\ IsFiniteSet(Q) /\ q \in Nat /\ kept \in Seq({r} \X S) /\ Len(kept) = q
      /\ \A i \in 1..q : /\ at[i] \in Q /\ kept[i] = listed[at[i]]
                         /\ \A j \in 1..q : i < j => at[i] < at[j]
      /\ \A x \in Q : \E i \in 1..q : at[i] = x
  BY <1>1, <1>2, OnlyIs
<1>4. top = FirstOf(kept, MaxStories)
  BY DEF Picks, Q
<1> HIDE DEF q, at, kept, top
<1>5. /\ top \in Seq({r} \X S) /\ Len(top) = m
      /\ \A i \in 1..m : top[i] = kept[i] /\ i \in 1..q
  <2>1. /\ top \in Seq({r} \X S)
        /\ Len(top) = IF Len(kept) <= MaxStories THEN Len(kept) ELSE MaxStories
        /\ \A i \in 1..Len(top) : top[i] = kept[i] /\ i \in 1..Len(kept)
    <3>1. kept \in Seq({r} \X S) /\ MaxStories \in Nat
      BY <1>0, <1>3
    <3>2. /\ FirstOf(kept, MaxStories) \in Seq({r} \X S)
          /\ Len(FirstOf(kept, MaxStories))
                = IF Len(kept) <= MaxStories THEN Len(kept) ELSE MaxStories
          /\ \A i \in 1..Len(FirstOf(kept, MaxStories)) :
                FirstOf(kept, MaxStories)[i] = kept[i] /\ i \in 1..Len(kept)
      BY ONLY <3>1, FirstOfIs, Zenon
    <3> QED
      BY ONLY <3>2, <1>4, Zenon
  <2>2. Len(top) = m /\ m <= q
    BY <1>0, <1>3, <2>1
  <2> HIDE DEF m
  <2>3. \A i \in 1..m : i \in 1..q
    BY <1>0, <1>3, <2>2
  <2>4. \A i \in 1..m : top[i] = kept[i]
    BY <2>1, <2>2
  <2> QED
    BY <2>1, <2>2, <2>3, <2>4
<1>6. m \in Nat /\ m <= q
  BY <1>0, <1>3
<1> HIDE DEF m
<1>7. ASSUME NEW i \in 1..q, NEW j \in 1..q, i < j PROVE kept[j][2] < kept[i][2]
  <2>1. at[i] \in 1..n /\ at[j] \in 1..n /\ at[i] < at[j]
    BY <1>1, <1>2, <1>3, <1>7
  <2> QED
    BY <1>1, <1>3, <2>1
<1>n. \A i \in 1..q : kept[i] \in {r} \X S /\ kept[i][2] \in Nat
  <2> SUFFICES ASSUME NEW i \in 1..q PROVE kept[i] \in {r} \X S /\ kept[i][2] \in Nat
    OBVIOUS
  <2>1. kept[i] \in {r} \X S
    BY <1>3, ElementOfSeq
  <2>2. \A x \in S : x \in Nat
    BY <1>s
  <2> QED
    BY <2>1, <2>2
<1>8. \A i, j \in 1..q : kept[i] = kept[j] => i = j
  <2> SUFFICES ASSUME NEW i \in 1..q, NEW j \in 1..q, kept[i] = kept[j] PROVE i = j
    OBVIOUS
  <2>1. kept[i][2] \in Nat /\ kept[j][2] \in Nat /\ kept[i][2] = kept[j][2]
    BY <1>n
  <2>2. ~(i < j) /\ ~(j < i)
    BY <1>7, <2>1
  <2> QED
    BY <1>3, <2>2
<1> DEFINE taken == ToSet(top)
<1> DEFINE eligible == ToSet(listed) \cap Labelled
<1>9. eligible = ToSet(kept)
  <2>1. \A x \in ToSet(kept) : x \in eligible
    <3> SUFFICES ASSUME NEW i \in 1..q PROVE kept[i] \in eligible
      BY <1>3 DEF ToSet
    <3>1. at[i] \in 1..n /\ kept[i] = listed[at[i]] /\ listed[at[i]] \in Labelled
      BY <1>1, <1>2, <1>3
    <3> QED
      BY <1>1, <3>1 DEF ToSet
  <2>2. \A x \in eligible : x \in ToSet(kept)
    <3> SUFFICES ASSUME NEW k \in 1..n, listed[k] \in Labelled PROVE listed[k] \in ToSet(kept)
      BY <1>1 DEF ToSet
    <3>1. PICK i \in 1..q : at[i] = k
      BY <1>2, <1>3
    <3> QED
      BY <1>3, <3>1 DEF ToSet
  <2> QED
    BY <2>1, <2>2
<1>10. Cardinality(ToSet(kept)) = q
  <2>1. IsInjective(kept)
    BY <1>3, <1>8 DEF IsInjective
  <2> QED
    BY <1>3, <2>1, InjectiveLength
<1>11. Cardinality(taken) = m
  <2>1. IsInjective(top)
    BY <1>5, <1>8 DEF IsInjective
  <2> QED
    BY <1>5, <2>1, InjectiveLength
<1>12. taken \subseteq ToSet(kept)
  BY <1>3, <1>5 DEF ToSet
<1>13. m = Min({MaxStories, q})
  BY <1>0, <1>3, MinOfTwo DEF m
<1>14. ASSUME NEW i \in taken, NEW j \in ToSet(kept) \ taken PROVE i[2] > j[2]
  <2>1. PICK a \in 1..m : i = top[a]
    BY <1>5 DEF ToSet
  <2>2. PICK b \in 1..q : j = kept[b]
    BY <1>3 DEF ToSet
  <2>3. b \notin 1..m
    BY <1>5, <2>2 DEF ToSet
  <2>4. a \in 1..q /\ a < b /\ i = kept[a]
    BY <1>5, <1>6, <1>3, <2>1, <2>2, <2>3
  <2>5. kept[b][2] < kept[a][2] /\ kept[b][2] \in Nat /\ kept[a][2] \in Nat
    BY <1>7, <1>n, <2>4
  <2> QED
    BY <2>2, <2>4, <2>5
<1>15. /\ taken \subseteq eligible
       /\ Cardinality(taken) = Min({MaxStories, Cardinality(eligible)})
       /\ \A i \in taken, j \in eligible \ taken : i[2] > j[2]
  BY <1>9, <1>10, <1>11, <1>12, <1>13, <1>14
<1> QED
  BY <1>15 DEF listed, top

Numbered == Hub \X (1..MaxNumber)
CommandRow == [at : {"idle", "listing", "created"}, left : SUBSET Hub, file : Seq(Numbered)]
AnswerRow == [what : {"nothing", "refused", "lost", "counts"}, sent : Seq(Numbered),
              made : Nat, failed : Nat]
WorkRow == [issue : Numbered, backend : {"none"} \cup ToSet(Rival), group : Nat,
            kept : BOOLEAN, dry : BOOLEAN, meant : BOOLEAN]

DoorTypes ==
    /\ newest \in [Hub -> 0..MaxNumber] /\ isOpen \subseteq Numbered
    /\ command \in [Asker -> CommandRow]
    /\ picked \in [Asker -> [Hub -> Seq(Numbered)]]
    /\ answered \in [Asker -> AnswerRow]
    /\ work \in Seq(WorkRow)

Counted(a) == a.made + a.failed = Len(a.sent)
Ready(c) == c.at = "created" => Len(c.file) = 1

\* The tasks of one A/B run: all but the last are saved with their group.
OneRun(w, j, k) == w[j].kept /\ w[j].backend # w[k].backend /\ w[j].issue = w[k].issue
Grouped(w) ==
    /\ \A k \in 1..Len(w) : w[k].group <= k
    /\ \A j, k \in 1..Len(w) :
          j < k /\ w[j].group = w[k].group /\ w[j].group > 0 => OneRun(w, j, k)

DoorInv ==
    /\ DoorTypes
    /\ \A o \in Asker : Counted(answered[o]) /\ Ready(command[o])
    /\ Grouped(work)

\* A sequence over a set is one over any larger set.
LEMMA SeqGrows ==
    ASSUME NEW A, NEW B, A \subseteq B, NEW s \in Seq(A)
    PROVE  s \in Seq(B)
<1>1. \A i \in 1..Len(s) : s[i] \in B
  BY ElementOfSeq
<1> QED
  BY <1>1

\* Tasks that are submitted together belong to no A/B run or to one of their own.
LEMMA GroupedGrows ==
    ASSUME NEW w \in Seq(WorkRow), Grouped(w), NEW t \in Seq(WorkRow),
           \/ \A k \in 1..Len(t) : t[k].group = 0
           \/ /\ \A k \in 1..Len(t) : t[k].group = Len(w) + 1
              /\ \A j, k \in 1..Len(t) : j < k => OneRun(t, j, k)
    PROVE  w \o t \in Seq(WorkRow) /\ Grouped(w \o t)
<1> DEFINE n == Len(w)
<1> DEFINE m == Len(t)
<1> DEFINE u == w \o t
<1>1. /\ n \in Nat /\ m \in Nat /\ u \in Seq(WorkRow) /\ Len(u) = n + m
      /\ \A i \in 1..(n + m) : u[i] = IF i <= n THEN w[i] ELSE t[i - n]
  BY ConcatProperties
<1>2. \A i \in 1..n : w[i].group \in Nat
  <2> SUFFICES ASSUME NEW i \in 1..n PROVE w[i].group \in Nat
    OBVIOUS
  <2>1. w[i] \in WorkRow
    BY ElementOfSeq
  <2> QED
    BY <2>1 DEF WorkRow
<1> HIDE DEF n, m, u
<1>a. \A i \in 1..(n + m) : (i <= n => i \in 1..n /\ u[i] = w[i])
                            /\ (~(i <= n) => i - n \in 1..m /\ u[i] = t[i - n])
  BY <1>1
<1>b. /\ \A k \in 1..n : w[k].group <= k
      /\ \A j, k \in 1..n :
            j < k /\ w[j].group = w[k].group /\ w[j].group > 0 => OneRun(w, j, k)
  BY DEF Grouped, n
<1>c. \/ \A k \in 1..m : t[k].group = 0
      \/ /\ \A k \in 1..m : t[k].group = n + 1
         /\ \A j, k \in 1..m : j < k => OneRun(t, j, k)
  BY DEF n, m
<1>3. ASSUME NEW k \in 1..(n + m) PROVE u[k].group <= k
  <2>1. CASE k <= n
    BY <1>a, <1>b, <2>1
  <2>2. CASE ~(k <= n)
    <3>1. k - n \in 1..m /\ u[k] = t[k - n] /\ n + 1 <= k /\ 0 <= k
      BY <1>1, <1>a, <2>2
    <3>2. t[k - n].group = 0 \/ t[k - n].group = n + 1
      BY <1>c, <3>1
    <3> QED
      BY <3>1, <3>2
  <2> QED
    BY <2>1, <2>2
<1>4. ASSUME NEW j \in 1..(n + m), NEW k \in 1..(n + m), j < k,
             u[j].group = u[k].group, u[j].group > 0
      PROVE  OneRun(u, j, k)
  <2>1. CASE k <= n
    <3>1. j \in 1..n /\ k \in 1..n /\ u[j] = w[j] /\ u[k] = w[k]
      BY <1>1, <1>4, <1>a, <2>1
    <3>2. OneRun(w, j, k)
      BY <1>4, <1>b, <3>1
    <3> QED
      BY <3>1, <3>2 DEF OneRun
  <2>2. CASE ~(k <= n) /\ j <= n
    <3>1. k - n \in 1..m /\ u[k] = t[k - n] /\ j \in 1..n /\ u[j] = w[j]
      BY <1>a, <2>2
    <3>2. u[j].group <= n
      BY <1>1, <1>2, <1>b, <2>2, <3>1
    <3>3. u[k].group = 0 \/ u[k].group = n + 1
      BY <1>c, <3>1
    <3>4. u[j].group \in Nat
      BY <1>2, <3>1
    <3> QED
      BY <1>1, <1>4, <3>2, <3>3, <3>4
  <2>3. CASE ~(k <= n) /\ ~(j <= n)
    <3>1. /\ k - n \in 1..m /\ u[k] = t[k - n] /\ j - n \in 1..m /\ u[j] = t[j - n]
          /\ j - n < k - n
      BY <1>1, <1>4, <1>a, <2>3
    <3>2. OneRun(t, j - n, k - n)
      BY <1>4, <1>c, <3>1
    <3> QED
      BY <3>1, <3>2 DEF OneRun
  <2> QED
    BY <2>1, <2>2, <2>3
<1>5. Grouped(u)
  BY <1>1, <1>3, <1>4 DEF Grouped
<1> QED
  BY <1>1, <1>5 DEF u

\* Of what was sent, every item was submitted or counted as failed.
LEMMA SubmittedCounts ==
    ASSUME NEW S, NEW items \in Seq(S), NEW failing \in SUBSET (DOMAIN items)
    PROVE  /\ Submitted(items, failing) \in Seq(S)
           /\ Cardinality(failing) \in Nat
           /\ Len(Submitted(items, failing)) \in Nat
           /\ Len(Submitted(items, failing)) + Cardinality(failing) = Len(items)
<1> DEFINE D == 1..Len(items)
<1> DEFINE rest == D \ failing
<1>0. Len(items) \in Nat /\ D = DOMAIN items
  OBVIOUS
<1>1. IsFiniteSet(D) /\ Cardinality(D) = Len(items)
  <2>1. IsFiniteSet(D) /\ Cardinality(D) = IF 1 > Len(items) THEN 0 ELSE Len(items) - 1 + 1
    BY <1>0, FS_Interval
  <2> QED
    BY <1>0, <2>1
<1> HIDE DEF D
<1>2. IsFiniteSet(failing) /\ Cardinality(failing) \in Nat /\ failing \subseteq D
  BY <1>0, <1>1, FS_Subset, FS_CardinalityType
<1>3. Cardinality(rest) = Cardinality(D) - Cardinality(failing) /\ IsFiniteSet(rest)
  <2>1. IsFiniteSet(D \ failing)
        /\ Cardinality(D \ failing) = Cardinality(D) - Cardinality(D \cap failing)
    BY <1>1, FS_Difference
  <2>2. D \cap failing = failing
    BY <1>2
  <2> QED
    BY <2>1, <2>2
<1>4. rest \in SUBSET (1..Len(items))
  BY DEF D
<1>5. Submitted(items, failing) = Only(items, rest)
  BY <1>0 DEF Submitted
<1> HIDE DEF rest
<1>6. Only(items, rest) \in Seq(S) /\ Len(Only(items, rest)) = Cardinality(rest)
      /\ Cardinality(rest) \in Nat
  BY <1>4, OnlyIs
<1> QED
  BY <1>0, <1>1, <1>2, <1>3, <1>5, <1>6

\* A listing is of issues of the repository, and so is what is picked of it.
LEMMA PicksAreIssues ==
    ASSUME DoorTypes, NEW r \in Hub
    PROVE  Picks(ListOpen(r)) \in Seq(Numbered)
<1> DEFINE S == {n \in 1..newest[r] : <<r, n>> \in isOpen}
<1>0. newest[r] \in 0..MaxNumber /\ MaxNumber \in Nat /\ ListTop \in Nat /\ MaxStories \in Nat
  <2>1. MaxNumber \in Nat /\ ListTop \in Nat /\ MaxStories \in Nat
    BY DoorAssumption
  <2> QED
    BY <2>1 DEF DoorTypes
<1>1. S \in SUBSET Nat /\ IsFiniteSet(S) /\ S \subseteq 1..MaxNumber
  <2>1. IsFiniteSet(1..newest[r])
    BY <1>0, FS_Interval
  <2>2. S \in SUBSET (1..newest[r])
    OBVIOUS
  <2>3. IsFiniteSet(S)
    BY <2>1, <2>2, FS_Subset
  <2>4. \A x \in 1..newest[r] : x \in Nat /\ x \in 1..MaxNumber
    BY <1>0
  <2> QED
    BY <2>2, <2>3, <2>4
<1>2. ListOpen(r) = FirstOf(NewestFirst(r, S), ListTop)
  BY DEF ListOpen
<1> HIDE DEF S
<1>3. NewestFirst(r, S) \in Seq({r} \X S)
  BY <1>1, NewestFirstIs
<1>4. {r} \X S \subseteq Numbered
  BY <1>1 DEF Numbered
<1>5. NewestFirst(r, S) \in Seq(Numbered)
  <2> DEFINE A == {r} \X S
  <2> HIDE DEF A
  <2> QED
    BY <1>3, <1>4, SeqGrows DEF A
<1>6. ListOpen(r) \in Seq(Numbered)
  BY <1>0, <1>2, <1>5, FirstOfIs
<1> DEFINE s == ListOpen(r)
<1> HIDE DEF s
<1>7. Matched(s) \in SUBSET (1..Len(s)) /\ s \in Seq(Numbered)
  BY <1>6 DEF Matched, s
<1>8. Only(s, Matched(s)) \in Seq(Numbered)
  BY <1>7, OnlyIs
<1>9. FirstOf(Only(s, Matched(s)), MaxStories) \in Seq(Numbered)
  BY <1>0, <1>8, FirstOfIs
<1> QED
  BY <1>9 DEF Picks, s

\* Nobody has asked for anything.
LEMMA DoorInitial == DoorInit => DoorInv
<1> SUFFICES ASSUME DoorInit PROVE DoorInv
  OBVIOUS
<1>0. MaxNumber \in Nat /\ Forge \in Seq(0..MaxNumber)
  BY DoorAssumption
<1>1. newest \in [Hub -> 0..MaxNumber] /\ isOpen \subseteq Numbered
  BY <1>0 DEF DoorInit, Hub, Numbered
<1>2. AtPrompt \in CommandRow /\ Ready(AtPrompt)
  BY DEF AtPrompt, CommandRow, Ready
<1>3. Silent \in AnswerRow /\ Counted(Silent)
  BY DEF Silent, AnswerRow, Counted
<1>4. command \in [Asker -> CommandRow] /\ \A o \in Asker : Ready(command[o])
  BY <1>2 DEF DoorInit
<1>5. answered \in [Asker -> AnswerRow] /\ \A o \in Asker : Counted(answered[o])
  BY <1>3 DEF DoorInit
<1>6. picked \in [Asker -> [Hub -> Seq(Numbered)]]
  BY DEF DoorInit
<1>7. work \in Seq(WorkRow) /\ Grouped(work)
  BY DEF DoorInit, Grouped
<1> QED
  BY <1>1, <1>4, <1>5, <1>6, <1>7 DEF DoorInv, DoorTypes

\* A task of an A/B run.
Raced(i, j, g, saved) ==
    [[IssueTask(i, FALSE) EXCEPT !.backend = Rival[j], !.group = g] EXCEPT !.kept = saved]

\* The fields that are set, and those that are not.
LEMMA RacedFields ==
    \A i, j, g, b : /\ Raced(i, j, g, b).issue = i /\ Raced(i, j, g, b).backend = Rival[j]
                    /\ Raced(i, j, g, b).group = g /\ Raced(i, j, g, b).kept = b
<1> SUFFICES ASSUME NEW i, NEW j, NEW g, NEW b
             PROVE  /\ Raced(i, j, g, b).issue = i /\ Raced(i, j, g, b).backend = Rival[j]
                    /\ Raced(i, j, g, b).group = g /\ Raced(i, j, g, b).kept = b
  OBVIOUS
<1> DEFINE q == IssueTask(i, FALSE)
<1>1. q.issue = i /\ DOMAIN q = {"issue", "backend", "group", "kept", "dry", "meant"}
  BY DEF IssueTask
<1> HIDE DEF q
<1> QED
  BY <1>1 DEF Raced, q

\* A row of an A/B run is a row of the daemon's list.
LEMMA RacedType ==
    ASSUME NEW i \in Numbered, NEW j \in DOMAIN Rival, NEW g \in Nat, NEW b \in BOOLEAN
    PROVE  Raced(i, j, g, b) \in WorkRow
<1>1. Rival[j] \in ToSet(Rival)
  <2>1. Rival \in Seq(ToSet(Rival))
    BY DoorAssumption
  <2> QED
    BY <2>1, ElementOfSeq
<1> DEFINE q == IssueTask(i, FALSE)
<1>2. q \in WorkRow
  BY DEF IssueTask, WorkRow
<1> HIDE DEF q
<1> DEFINE y == [q EXCEPT !.backend = Rival[j], !.group = g]
<1>3. y \in WorkRow
  BY <1>1, <1>2 DEF WorkRow
<1> HIDE DEF y
<1>4. [y EXCEPT !.kept = b] \in WorkRow
  BY <1>3 DEF WorkRow
<1> QED
  BY <1>4 DEF Raced, q, y

\* Every command's step keeps the counts and the groups.
LEMMA DoorStep == DoorInv /\ [DoorNext]_doorVars => DoorInv'
<1> SUFFICES ASSUME DoorInv, [DoorNext]_doorVars PROVE DoorInv'
  OBVIOUS
<1> DEFINE Top == newest \in [Hub -> 0..MaxNumber] /\ isOpen \subseteq Numbered
<1> DEFINE Cmd == command \in [Asker -> CommandRow] /\ \A o \in Asker : Ready(command[o])
<1> DEFINE Pck == picked \in [Asker -> [Hub -> Seq(Numbered)]]
<1> DEFINE Ans == answered \in [Asker -> AnswerRow] /\ \A o \in Asker : Counted(answered[o])
<1> DEFINE Wrk == work \in Seq(WorkRow) /\ Grouped(work)
<1>d. DoorTypes /\ Top /\ Cmd /\ Pck /\ Ans /\ Wrk
  BY DEF DoorInv, DoorTypes
<1>e. Top' /\ Cmd' /\ Pck' /\ Ans' /\ Wrk' => DoorInv'
  BY DEF DoorInv, DoorTypes
<1>u. /\ UNCHANGED <<newest, isOpen>> => Top'
      /\ UNCHANGED command => Cmd'
      /\ UNCHANGED picked => Pck'
      /\ UNCHANGED answered => Ans'
      /\ UNCHANGED work => Wrk'
  BY <1>d
<1>c. ASSUME NEW o \in Asker, NEW c \in CommandRow, Ready(c),
             command' = [command EXCEPT ![o] = c]
      PROVE  Cmd'
  BY <1>c, <1>d
<1>p. ASSUME NEW o \in Asker, NEW s \in [Hub -> Seq(Numbered)],
             picked' = [picked EXCEPT ![o] = s]
      PROVE  Pck'
  BY <1>d, <1>p
<1>a. ASSUME NEW o \in Asker, NEW a \in AnswerRow, Counted(a),
             answered' = [answered EXCEPT ![o] = a]
      PROVE  Ans'
  BY <1>a, <1>d
<1>w. ASSUME NEW t \in Seq(WorkRow), work' = work \o t,
             \/ \A k \in 1..Len(t) : t[k].group = 0
             \/ /\ \A k \in 1..Len(t) : t[k].group = Len(work) + 1
                /\ \A j, k \in 1..Len(t) : j < k => OneRun(t, j, k)
      PROVE  Wrk'
  BY <1>d, <1>w, GroupedGrows
<1>n. [r \in Hub |-> <<>>] \in [Hub -> Seq(Numbered)]
  OBVIOUS
<1>q. AtPrompt \in CommandRow /\ Ready(AtPrompt)
  BY DEF AtPrompt, CommandRow, Ready
<1>s. Silent \in AnswerRow /\ Counted(Silent)
  BY DEF Silent, AnswerRow, Counted
<1>f. ASSUME NEW o \in Asker
      PROVE  /\ command[o] \in CommandRow /\ picked[o] \in [Hub -> Seq(Numbered)]
             /\ Ready(command[o])
  BY <1>d
<1>g. ASSUME NEW o \in Asker PROVE Planned(o) \in Seq(Numbered)
  <2>1. Len(Forge) \in Nat /\ Hub = 1..Len(Forge)
    <3>1. Forge \in Seq(0..MaxNumber)
      BY DoorAssumption
    <3> QED
      BY <3>1 DEF Hub
  <2>2. picked[o] \in Seq(Seq(Numbered))
    BY <1>f, <2>1
  <2>3. FlattenSeq(picked[o]) \in Seq(Numbered)
    BY <2>2, FlattenIs
  <2>4. command[o].file \in Seq(Numbered)
    BY <1>f DEF CommandRow
  <2> QED
    BY <2>3, <2>4 DEF Planned
<1>b. BatchFile \in Seq(Numbered)
  BY DoorAssumption DEF Numbered, Hub
<1>t. ASSUME NEW i \in Numbered, NEW meant \in BOOLEAN
      PROVE  IssueTask(i, meant) \in WorkRow /\ IssueTask(i, meant).group = 0
  BY DEF IssueTask, WorkRow
<1> HIDE DEF Top, Cmd, Pck, Ans, Wrk
<1>k. ASSUME NEW o \in Asker, NEW items \in Seq(Numbered), NEW meant \in BOOLEAN,
             Bulk(o, items, meant)
      PROVE  Cmd' /\ Ans' /\ Wrk'
  <2>1. PICK failing \in SUBSET DOMAIN items, missed \in BOOLEAN :
          LET made == Submitted(items, failing)
              answer == [what |-> IF missed THEN "lost" ELSE "counts", sent |-> items,
                         made |-> Len(made), failed |-> Cardinality(failing)]
          IN /\ work' = work \o [k \in DOMAIN made |-> IssueTask(made[k], meant)]
             /\ Ends(o, answer)
    BY <1>k DEF Bulk
  <2> DEFINE made == Submitted(items, failing)
  <2> DEFINE answer == [what |-> IF missed THEN "lost" ELSE "counts", sent |-> items,
                        made |-> Len(made), failed |-> Cardinality(failing)]
  <2> DEFINE t == [k \in DOMAIN made |-> IssueTask(made[k], meant)]
  <2>2. /\ made \in Seq(Numbered) /\ Cardinality(failing) \in Nat /\ Len(made) \in Nat
        /\ Len(made) + Cardinality(failing) = Len(items)
    BY SubmittedCounts
  <2>3. work' = work \o t /\ Ends(o, answer)
    BY <2>1
  <2> HIDE DEF made
  <2>4. answer \in AnswerRow /\ Counted(answer)
    BY <2>2 DEF AnswerRow, Counted
  <2>5. t \in Seq(WorkRow) /\ \A k \in 1..Len(t) : t[k].group = 0
    <3>1. DOMAIN made = 1..Len(made) /\ \A k \in 1..Len(made) : made[k] \in Numbered
      BY <2>2, ElementOfSeq
    <3>2. \A k \in 1..Len(made) : IssueTask(made[k], meant) \in WorkRow
                                  /\ IssueTask(made[k], meant).group = 0
      BY <1>t, <3>1
    <3>3. t = [k \in 1..Len(made) |-> IssueTask(made[k], meant)]
      BY <3>1
    <3>4. t \in Seq(WorkRow) /\ Len(t) = Len(made)
      BY <2>2, <3>2, <3>3
    <3> QED
      BY <3>2, <3>3, <3>4
  <2> HIDE DEF answer, t
  <2>6. Cmd'
    BY <1>c, <1>q, <2>3 DEF Ends
  <2>7. Ans'
    BY <1>a, <2>3, <2>4 DEF Ends
  <2>8. Wrk'
    BY <1>w, <2>3, <2>5
  <2> QED
    BY <2>6, <2>7, <2>8
<1>1. ASSUME NEW o \in Asker, StartBatch(o) PROVE DoorInv'
  <2>1. PICK file \in {<<>>, BatchFile}, rs \in SUBSET Hub :
          Begins(o, [at |-> "listing", left |-> rs, file |-> file])
    BY <1>1 DEF StartBatch
  <2> DEFINE c == [at |-> "listing", left |-> rs, file |-> file]
  <2>2. c \in CommandRow /\ Ready(c)
    <3>0. <<>> \in Seq(Numbered)
      OBVIOUS
    <3>1. file \in Seq(Numbered)
      BY <1>b, <3>0, Zenon
    <3> QED
      BY <3>1 DEF CommandRow, Ready
  <2> HIDE DEF c
  <2>3. Cmd' /\ Pck' /\ Ans'
    BY <1>a, <1>c, <1>n, <1>p, <1>s, <2>1, <2>2 DEF Begins, c
  <2> QED
    BY <1>1, <1>e, <1>u, <2>3 DEF StartBatch
<1>2. ASSUME NEW o \in Asker, Preview(o) PROVE DoorInv'
  <2>1. Cmd' /\ Ans'
    BY <1>2, <1>a, <1>c, <1>q, <1>s DEF Preview, Ends
  <2> QED
    BY <1>2, <1>e, <1>u, <2>1 DEF Preview
<1>3. ASSUME NEW o \in Asker, PostBatch(o) PROVE DoorInv'
  <2>1. Cmd' /\ Ans' /\ Wrk'
    <3>1. CASE Bulk(o, Planned(o), FALSE)
      BY <1>g, <1>k, <3>1
    <3>2. CASE Ends(o, [Silent EXCEPT !.what = "refused"]) /\ UNCHANGED work
      <4> DEFINE a == [Silent EXCEPT !.what = "refused"]
      <4> DEFINE b == [what |-> "refused", sent |-> <<>>, made |-> 0, failed |-> 0]
      <4>0. a = b
        BY DEF Silent
      <4>2. b \in AnswerRow /\ Counted(b)
        BY DEF AnswerRow, Counted
      <4> HIDE DEF a, b
      <4>1. a \in AnswerRow /\ Counted(a)
        BY <4>0, <4>2, Zenon
      <4> HIDE DEF a
      <4> QED
        BY <1>a, <1>c, <1>q, <1>u, <3>2, <4>1 DEF Ends, a
    <3> QED
      BY <1>3, <3>1, <3>2 DEF PostBatch
  <2> QED
    BY <1>3, <1>e, <1>u, <2>1 DEF PostBatch
<1>4. ASSUME NEW o \in Asker, PostDry(o) PROVE DoorInv'
  <2>1. Cmd' /\ Ans' /\ Wrk'
    BY <1>4, <1>b, <1>k DEF PostDry
  <2>2. Pck'
    BY <1>4, <1>n, <1>p DEF PostDry
  <2> QED
    BY <1>4, <1>e, <1>u, <2>1, <2>2 DEF PostDry
<1>5. ASSUME NEW o \in Asker, CreateIssue(o) PROVE DoorInv'
  <2>1. PICK r \in Hub :
          /\ newest[r] < MaxNumber
          /\ newest' = [newest EXCEPT ![r] = @ + 1]
          /\ isOpen' = isOpen \cup {<<r, newest[r] + 1>>}
          /\ Begins(o, [at |-> "created", left |-> {}, file |-> <<<<r, newest[r] + 1>>>>])
    BY <1>5 DEF CreateIssue
  <2>2. newest[r] + 1 \in 1..MaxNumber /\ newest[r] + 1 \in 0..MaxNumber
    <3>1. MaxNumber \in Nat /\ newest[r] \in 0..MaxNumber
      BY <1>d, DoorAssumption DEF Top
    <3> QED
      BY <2>1, <3>1
  <2>3. Top'
    <3>1. newest' \in [Hub -> 0..MaxNumber]
      BY <1>d, <2>1, <2>2 DEF Top
    <3> QED
      BY <1>d, <2>1, <2>2, <3>1 DEF Top, Numbered
  <2> DEFINE i == <<r, newest[r] + 1>>
  <2> DEFINE c == [at |-> "created", left |-> {}, file |-> <<i>>]
  <2>4. i \in Numbered
    BY <2>2 DEF Numbered
  <2> HIDE DEF i
  <2>5. c \in CommandRow /\ Ready(c)
    BY <2>4 DEF CommandRow, Ready
  <2> HIDE DEF c
  <2>6. Begins(o, c)
    BY <2>1 DEF c, i
  <2>7. Cmd' /\ Pck' /\ Ans'
    BY <1>a, <1>c, <1>n, <1>p, <1>s, <2>5, <2>6 DEF Begins
  <2> QED
    BY <1>5, <1>e, <1>u, <2>3, <2>7 DEF CreateIssue
<1>6. ASSUME NEW o \in Asker, DispatchCreated(o) PROVE DoorInv'
  <2> DEFINE i == command[o].file[1]
  <2> DEFINE t == <<IssueTask(i, FALSE)>>
  <2>1. i \in Numbered
    <3>1. command[o].file \in Seq(Numbered) /\ Len(command[o].file) = 1
      BY <1>6, <1>f DEF DispatchCreated, CommandRow, Ready
    <3> QED
      BY <3>1
  <2> HIDE DEF i
  <2> DEFINE x == IssueTask(i, FALSE)
  <2>7. x \in WorkRow /\ x.group = 0
    BY <1>t, <2>1
  <2> HIDE DEF x
  <2>2. t \in Seq(WorkRow) /\ \A k \in 1..Len(t) : t[k].group = 0
    <3>1. <<x>> \in Seq(WorkRow) /\ Len(<<x>>) = 1 /\ <<x>>[1] = x
      BY <2>7
    <3>2. <<x>> \in Seq(WorkRow) /\ \A k \in 1..Len(<<x>>) : <<x>>[k].group = 0
      BY <2>7, <3>1
    <3> QED
      BY <3>2 DEF x
  <2>3. work' = Append(work, IssueTask(i, FALSE)) \/ UNCHANGED work
    BY <1>6 DEF DispatchCreated, i
  <2>4. work' = work \o t \/ UNCHANGED work
    <3>1. work \in Seq(WorkRow) /\ IssueTask(i, FALSE) \in WorkRow
      BY <1>d, <1>t, <2>1 DEF Wrk
    <3> QED
      BY <2>3, <3>1, AppendIsConcat
  <2> HIDE DEF t
  <2>5. Wrk'
    BY <1>u, <1>w, <2>2, <2>4
  <2>6. Cmd' /\ Ans'
    BY <1>6, <1>a, <1>c, <1>q, <1>s DEF DispatchCreated, Ends
  <2> QED
    BY <1>6, <1>e, <1>u, <2>5, <2>6 DEF DispatchCreated
<1>7. ASSUME NEW o \in Asker, NEW r \in Hub, RepoListed(o, r) PROVE DoorInv'
  <2> DEFINE c == [command[o] EXCEPT !.left = command[o].left \ {r}]
  <2>1. c \in CommandRow /\ Ready(c)
    <3>1. command[o] \in CommandRow /\ Ready(command[o])
      BY <1>f
    <3> QED
      BY <3>1 DEF CommandRow, Ready
  <2>2. command' = [command EXCEPT ![o] = c]
    BY <1>7 DEF RepoListed
  <2> HIDE DEF c
  <2>3. Cmd'
    BY <1>c, <2>1, <2>2
  <2>4. Pck'
    <3> DEFINE s == [picked[o] EXCEPT ![r] = Picks(ListOpen(r))]
    <3>1. Picks(ListOpen(r)) \in Seq(Numbered)
      BY <1>d, PicksAreIssues
    <3>2. s \in [Hub -> Seq(Numbered)]
      BY <1>f, <3>1
    <3>3. picked' = [picked EXCEPT ![o] = s] \/ UNCHANGED picked
      BY <1>7 DEF RepoListed
    <3> HIDE DEF s
    <3> QED
      BY <1>p, <1>u, <3>2, <3>3
  <2> QED
    BY <1>7, <1>e, <1>u, <2>3, <2>4 DEF RepoListed
<1>8. ASSUME NEW o \in Asker, NEW i \in isOpen, RaceBackends(o, i) PROVE DoorInv'
  <2> DEFINE g == Len(work) + 1
  <2> DEFINE ws == [j \in DOMAIN Rival |-> [IssueTask(i, FALSE) EXCEPT !.backend = Rival[j],
                                                             !.group = Len(work) + 1]]
  <2>0. /\ Rival \in Seq(ToSet(Rival)) /\ Len(Rival) \in Nat /\ IsInjective(Rival)
        /\ DOMAIN Rival = 1..Len(Rival)
    BY DoorAssumption
  <2>1. i \in Numbered /\ g \in Nat
    BY <1>d DEF Top, Wrk
  <2>2. \/ work' = work \o Tagged(ws, Len(Rival), TRUE)
        \/ \E k \in 0..Len(Rival), saved \in BOOLEAN : work' = work \o Tagged(ws, k, saved)
    BY <1>8 DEF RaceBackends
  <2>3. PICK k \in 0..Len(Rival), saved \in BOOLEAN : work' = work \o Tagged(ws, k, saved)
    <3>1. Len(Rival) \in 0..Len(Rival)
      BY <2>0
    <3> QED
      BY <2>2, <3>1, Zenon
  <2>k. PICK is \in [1..k -> BOOLEAN] : \A j \in 1..k : is[j] = (j < k \/ saved)
    <3>1. [j \in 1..k |-> j < k \/ saved] \in [1..k -> BOOLEAN]
      OBVIOUS
    <3> WITNESS [j \in 1..k |-> j < k \/ saved] \in [1..k -> BOOLEAN]
    <3> QED
      OBVIOUS
  <2> DEFINE t == [j \in 1..k |-> Raced(i, j, g, is[j])]
  <2>4. k \in Nat /\ \A j \in 1..k : j \in DOMAIN Rival /\ j \in 1..Len(Rival)
    BY <2>0
  <2>5. Tagged(ws, k, saved) = t
    <3>1. Tagged(ws, k, saved) = [j \in 1..k |-> [ws[j] EXCEPT !.kept = (j < k \/ saved)]]
      BY DEF Tagged
    <3>2. Tagged(ws, k, saved) = [j \in 1..k |-> [ws[j] EXCEPT !.kept = is[j]]]
      BY <2>k, <3>1, Zenon
    <3> SUFFICES ASSUME NEW j \in 1..k
                 PROVE  [ws[j] EXCEPT !.kept = is[j]] = Raced(i, j, g, is[j])
      BY <3>2, Zenon
    <3>3. ws[j] = [IssueTask(i, FALSE) EXCEPT !.backend = Rival[j], !.group = g]
      BY <2>4, Zenon
    <3> HIDE DEF ws, g
    <3> QED
      BY <3>3, Zenon DEF Raced
  <2> DEFINE got(j) == Raced(i, j, g, is[j])
  <2>6. t = [j \in 1..k |-> got(j)]
    OBVIOUS
  <2> HIDE DEF t, g, ws
  <2>7. \A j \in 1..k : got(j) \in WorkRow
    <3> SUFFICES ASSUME NEW j \in 1..k PROVE got(j) \in WorkRow
      OBVIOUS
    <3>1. is[j] \in BOOLEAN /\ j \in DOMAIN Rival
      BY <2>4, <2>k
    <3> QED
      BY <2>1, <3>1, RacedType
  <2>8. t \in Seq(WorkRow) /\ Len(t) = k
    BY <2>4, <2>6, <2>7
  <2>9. \A j \in 1..Len(t) : t[j].group = Len(work) + 1
    <3>1. \A j \in 1..k : t[j].group = g
      BY <2>6, RacedFields
    <3> QED
      BY <2>8, <3>1 DEF g
  <2>10. ASSUME NEW a \in 1..Len(t), NEW b \in 1..Len(t), a < b PROVE OneRun(t, a, b)
    <3>1. a \in 1..k /\ b \in 1..k /\ a < k /\ a # b
      BY <2>4, <2>8, <2>10
    <3>2. Rival[a] # Rival[b]
      BY <2>0, <2>4, <3>1 DEF IsInjective
    <3>3. t[a] = got(a) /\ t[b] = got(b)
      BY <2>6, <3>1
    <3>4. t[a].kept
      <4>1. is[a] = TRUE
        BY <2>k, <3>1
      <4>2. Raced(i, a, g, is[a]).kept = is[a]
        BY RacedFields
      <4> QED
        BY <3>3, <4>1, <4>2, Zenon
    <3>5. t[a].backend = Rival[a] /\ t[b].backend = Rival[b] /\ t[a].issue = t[b].issue
      <4>1. Raced(i, a, g, is[a]).backend = Rival[a] /\ Raced(i, a, g, is[a]).issue = i
        BY RacedFields
      <4>2. Raced(i, b, g, is[b]).backend = Rival[b] /\ Raced(i, b, g, is[b]).issue = i
        BY RacedFields
      <4> QED
        BY <3>3, <4>1, <4>2
    <3> QED
      BY <3>2, <3>4, <3>5 DEF OneRun
  <2>11. Wrk'
    BY <1>w, <2>3, <2>5, <2>8, <2>9, <2>10
  <2>12. Ans'
    BY <1>8, <1>a, <1>s DEF RaceBackends
  <2> QED
    BY <1>8, <1>e, <1>u, <2>11, <2>12 DEF RaceBackends
<1>9. ASSUME NEW i \in isOpen, IssueCloses(i) PROVE DoorInv'
  <2>1. Top'
    BY <1>9, <1>d DEF IssueCloses, Top
  <2> QED
    BY <1>9, <1>e, <1>u, <2>1 DEF IssueCloses
<1>10. CASE UNCHANGED doorVars
  BY <1>10, <1>e, <1>u DEF doorVars
<1>11. ASSUME NEW o \in Asker, NEW i \in isOpen, DispatchOne(o, i) PROVE DoorInv'
  <2>1. i \in Numbered
    BY <1>d DEF Top
  <2>2. Wrk'
    <3>1. CASE UNCHANGED work
      BY <1>u, <3>1
    <3>2. ASSUME NEW dry \in BOOLEAN,
                 work' = Append(work, [IssueTask(i, dry) EXCEPT !.dry = dry])
          PROVE  Wrk'
      <4> DEFINE x == [IssueTask(i, dry) EXCEPT !.dry = dry]
      <4>1. x \in WorkRow /\ x.group = 0
        BY <2>1 DEF IssueTask, WorkRow
      <4>2. work' = Append(work, x)
        BY <3>2
      <4> HIDE DEF x
      <4>3. <<x>> \in Seq(WorkRow) /\ \A k \in 1..Len(<<x>>) : <<x>>[k].group = 0
        BY <4>1
      <4>4. work' = work \o <<x>>
        <5>1. work \in Seq(WorkRow)
          BY <1>d DEF Wrk
        <5> QED
          BY <4>1, <4>2, <5>1, AppendIsConcat
      <4> QED
        BY <1>w, <4>3, <4>4
    <3> QED
      BY <1>11, <3>1, <3>2 DEF DispatchOne
  <2>3. Ans'
    BY <1>11, <1>a, <1>s DEF DispatchOne
  <2> QED
    BY <1>11, <1>e, <1>u, <2>2, <2>3 DEF DispatchOne
<1> QED
  BY <1>1, <1>2, <1>3, <1>4, <1>5, <1>6, <1>7, <1>8, <1>9, <1>10, <1>11 DEF DoorNext

\* What the invariant says of the doors.
LEMMA DoorsHold == DoorInv => DoorTypeOK /\ DoorsKeepCount
<1> SUFFICES ASSUME DoorInv PROVE DoorTypeOK /\ DoorsKeepCount
  OBVIOUS
<1>1. DoorTypes
  BY DEF DoorInv
<1>2. ASSUME NEW o \in Asker
      PROVE  /\ command[o].at \in {"idle", "listing", "created"} /\ command[o].left \subseteq Hub
             /\ answered[o].what \in {"nothing", "refused", "lost", "counts"}
             /\ answered[o].made + answered[o].failed = Len(answered[o].sent)
  <2>1. command[o] \in CommandRow /\ answered[o] \in AnswerRow /\ Counted(answered[o])
    BY <1>1 DEF DoorTypes, DoorInv
  <2> QED
    BY <2>1 DEF CommandRow, AnswerRow, Counted
<1>3. work \in Seq(WorkRow) /\ Grouped(work)
  BY DEF DoorInv, DoorTypes
<1>4. \A k \in DOMAIN work : work[k].issue \in Numbered
  <2> SUFFICES ASSUME NEW k \in 1..Len(work) PROVE work[k].issue \in Numbered
    BY <1>3
  <2>1. work[k] \in WorkRow
    BY <1>3, ElementOfSeq
  <2> QED
    BY <2>1 DEF WorkRow
<1>5. DoorTypeOK
  BY <1>1, <1>2, <1>4 DEF DoorTypes, DoorTypeOK, Numbered
<1>6. DoorsKeepCount
  <2>1. \A j, k \in DOMAIN work :
          j < k /\ work[j].group = work[k].group /\ work[j].group > 0 => OneRun(work, j, k)
    BY <1>3 DEF Grouped
  <2> QED
    BY <1>2, <2>1, PicksNewest DEF DoorsKeepCount, OneRun
<1> QED
  BY <1>5, <1>6

-----------------------------------------------------------------------------
(* Sessions *)

AuthToken == [subject : Subject, role : RoleAsked, type : {"access", "refresh"},
              expired : BOOLEAN]
AuthRow == [subject : Subject, revoked : BOOLEAN]

\* Every token has its row, and one that no row revokes descends from a pair issued
\* after the last revocation of its subject.
AuthInv ==
    /\ tokens \in Seq(AuthToken) /\ root \in Seq(Nat) /\ Len(root) = Len(tokens)
    /\ sessions \in [1..Len(tokens) -> AuthRow]
    /\ socket \in 0..Len(tokens) /\ revokedAll \in [Subject -> Nat]
    /\ \A t \in 1..Len(tokens) :
          /\ sessions[t].subject = tokens[t].subject
          /\ ~sessions[t].revoked => root[t] = revokedAll[tokens[t].subject]

\* No token has been made.
LEMMA AuthInitial == AuthInit => AuthInv
  BY DEF AuthInit, AuthInv

\* New tokens of a subject, with rows of their own, that descend from its last
\* revocation.
Adds(n, s) ==
    /\ tokens' \in Seq(AuthToken) /\ Len(tokens') = Len(tokens) + n
    /\ root' \in Seq(Nat) /\ Len(root') = Len(tokens) + n
    /\ \A t \in 1..Len(tokens) : tokens'[t] = tokens[t] /\ root'[t] = root[t]
    /\ \A t \in (Len(tokens) + 1)..(Len(tokens) + n) :
          tokens'[t].subject = s /\ root'[t] = revokedAll[s]
    /\ sessions' = WithRows((Len(tokens) + 1)..(Len(tokens) + n), s)
    /\ UNCHANGED <<socket, revokedAll>>

\* They leave the others alone.
LEMMA AuthAdds == ASSUME AuthInv, NEW n \in Nat, NEW s \in Subject, Adds(n, s) PROVE AuthInv'
<1> DEFINE L == Len(tokens)
<1>0. L \in Nat /\ Len(tokens') = L + n
  BY DEF AuthInv, Adds
<1>1. DOMAIN sessions \cup (L + 1)..(L + n) = 1..(L + n)
  BY <1>0 DEF AuthInv
<1>2. sessions' = [t \in 1..(L + n) |-> IF t \in (L + 1)..(L + n) THEN RowOf(s, FALSE)
                                        ELSE sessions[t]]
  BY <1>1 DEF Adds, WithRows
<1>3. RowOf(s, FALSE) \in AuthRow /\ RowOf(s, FALSE).subject = s
  BY DEF RowOf, AuthRow
<1>4. sessions' \in [1..(L + n) -> AuthRow]
  <2>1. \A t \in 1..(L + n) : t \notin (L + 1)..(L + n) => sessions[t] \in AuthRow
    <3>1. \A t \in 1..(L + n) : t \notin (L + 1)..(L + n) => t \in 1..L
      BY <1>0
    <3> QED
      BY <3>1 DEF AuthInv
  <2> HIDE DEF L
  <2> QED
    BY <1>2, <1>3, <2>1
<1>5. ASSUME NEW t \in 1..(L + n)
      PROVE  /\ sessions'[t].subject = tokens'[t].subject
             /\ ~sessions'[t].revoked => root'[t] = revokedAll'[tokens'[t].subject]
  <2>1. CASE t \in 1..L
    <3>1. t \notin (L + 1)..(L + n)
      BY <1>0, <2>1
    <3>2. sessions'[t] = sessions[t] /\ tokens'[t] = tokens[t] /\ root'[t] = root[t]
      BY <1>2, <2>1, <3>1 DEF Adds
    <3> QED
      BY <2>1, <3>2 DEF AuthInv, Adds
  <2>2. CASE t \in (L + 1)..(L + n)
    BY <1>2, <1>3, <2>2 DEF Adds
  <2> QED
    BY <1>0, <2>1, <2>2
<1>6. socket' \in 0..(L + n)
  BY <1>0 DEF Adds, AuthInv
<1> QED
  BY <1>0, <1>4, <1>5, <1>6 DEF AuthInv, Adds

\* Revoking marks rows and counts; expiring and sockets touch neither.
LEMMA AuthStep == AuthInv /\ [AuthNext]_authVars => AuthInv'
<1> SUFFICES ASSUME AuthInv, [AuthNext]_authVars PROVE AuthInv'
  OBVIOUS
<1>0. /\ Len(tokens) \in Nat /\ DOMAIN tokens = 1..Len(tokens)
      /\ \A t \in 1..Len(tokens) : tokens[t] \in AuthToken
  BY DEF AuthInv
<1>1. ASSUME NEW s \in Subject, NEW role \in RoleAsked, IssueToken(s, role) PROVE AuthInv'
  <2> DEFINE a == NewToken(s, role, "access")
  <2> DEFINE b == NewToken(s, role, "refresh")
  <2>1. a \in AuthToken /\ b \in AuthToken /\ a.subject = s /\ b.subject = s
    BY DEF NewToken, AuthToken
  <2>2. tokens' = tokens \o <<a, b>> /\ root' = root \o <<revokedAll[s], revokedAll[s]>>
    BY <1>1 DEF IssueToken
  <2> HIDE DEF a, b
  <2>3. revokedAll[s] \in Nat
    BY DEF AuthInv
  <2>4. Adds(2, s)
    <3>1. tokens' \in Seq(AuthToken) /\ Len(tokens') = Len(tokens) + 2
      BY <2>1, <2>2 DEF AuthInv
    <3>2. root' \in Seq(Nat) /\ Len(root') = Len(tokens) + 2
      BY <2>2, <2>3 DEF AuthInv
    <3>3. \A t \in 1..Len(tokens) : tokens'[t] = tokens[t] /\ root'[t] = root[t]
      BY <2>2 DEF AuthInv
    <3>4. \A t \in (Len(tokens) + 1)..(Len(tokens) + 2) :
              tokens'[t].subject = s /\ root'[t] = revokedAll[s]
      <4>1. \A t \in (Len(tokens) + 1)..(Len(tokens) + 2) :
               t = Len(tokens) + 1 \/ t = Len(tokens) + 2
        BY <1>0
      <4>2. tokens \in Seq(AuthToken) /\ root \in Seq(Nat) /\ Len(root) = Len(tokens)
        BY DEF AuthInv
      <4>3. tokens'[Len(tokens) + 1] = a /\ tokens'[Len(tokens) + 2] = b
        BY <1>0, <2>1, <2>2, <4>2
      <4>4. root'[Len(tokens) + 1] = revokedAll[s] /\ root'[Len(tokens) + 2] = revokedAll[s]
        BY <1>0, <2>2, <2>3, <4>2
      <4> QED
        BY <2>1, <4>1, <4>3, <4>4
    <3>5. {Len(tokens) + 1, Len(tokens) + 2} = (Len(tokens) + 1)..(Len(tokens) + 2)
      BY <1>0
    <3> QED
      BY <1>1, <3>1, <3>2, <3>3, <3>4, <3>5 DEF Adds, IssueToken
  <2> QED
    BY <2>4, AuthAdds
<1>2. ASSUME NEW t \in DOMAIN tokens, RefreshToken(t) PROVE AuthInv'
  <2> DEFINE s == tokens[t].subject
  <2> DEFINE a == NewToken(s, tokens[t].role, "access")
  <2>1. s \in Subject /\ tokens[t].role \in RoleAsked
    BY <1>0 DEF AuthToken
  <2>2. a \in AuthToken /\ a.subject = s
    BY <2>1 DEF NewToken, AuthToken
  <2>3. root[t] = revokedAll[s] /\ root[t] \in Nat
    BY <1>0, <1>2 DEF RefreshToken, Refreshable, IsRevoked, AuthInv
  <2>4. tokens' = Append(tokens, a) /\ root' = Append(root, root[t])
    BY <1>2 DEF RefreshToken
  <2>5. sessions' = WithRows({Len(tokens) + 1}, s) /\ UNCHANGED <<socket, revokedAll>>
    BY <1>2 DEF RefreshToken
  <2> HIDE DEF a, s
  <2>6. Adds(1, s)
    <3>1. tokens' \in Seq(AuthToken) /\ Len(tokens') = Len(tokens) + 1
      BY <2>2, <2>4 DEF AuthInv
    <3>2. root' \in Seq(Nat) /\ Len(root') = Len(tokens) + 1
      <4>1. root \in Seq(Nat) /\ Len(root) = Len(tokens)
        BY DEF AuthInv
      <4> QED
        BY <2>3, <2>4, <4>1
    <3>3. \A i \in 1..Len(tokens) : tokens'[i] = tokens[i] /\ root'[i] = root[i]
      BY <2>4 DEF AuthInv
    <3>4. \A i \in (Len(tokens) + 1)..(Len(tokens) + 1) :
              tokens'[i].subject = s /\ root'[i] = revokedAll[s]
      BY <1>0, <2>2, <2>3, <2>4 DEF AuthInv
    <3>5. {Len(tokens) + 1} = (Len(tokens) + 1)..(Len(tokens) + 1)
      BY <1>0
    <3> QED
      BY <2>5, <3>1, <3>2, <3>3, <3>4, <3>5 DEF Adds
  <2> QED
    BY <2>1, <2>6, AuthAdds
<1>3. ASSUME NEW t \in DOMAIN tokens, RevokeToken(t) PROVE AuthInv'
  <2>1. sessions' \in [1..Len(tokens) -> AuthRow]
    BY <1>0, <1>3 DEF RevokeToken, AuthInv, AuthRow
  <2>2. \A u \in 1..Len(tokens) :
            /\ sessions'[u].subject = sessions[u].subject
            /\ ~sessions'[u].revoked => ~sessions[u].revoked
    BY <1>0, <1>3 DEF RevokeToken, AuthInv, AuthRow
  <2> QED
    BY <1>3, <2>1, <2>2 DEF RevokeToken, AuthInv
<1>4. ASSUME NEW s \in Subject, RevokeAll(s) PROVE AuthInv'
  <2>0. UNCHANGED <<tokens, socket, root>>
    BY <1>4 DEF RevokeAll
  <2>1. RowOf(s, TRUE) \in AuthRow /\ RowOf(s, TRUE).subject = s /\ RowOf(s, TRUE).revoked
    BY DEF RowOf, AuthRow
  <2>2. sessions' = [t \in 1..Len(tokens) |-> IF sessions[t].subject = s THEN RowOf(s, TRUE)
                                              ELSE sessions[t]]
    BY <1>4 DEF RevokeAll, AuthInv
  <2>3. sessions' \in [1..Len(tokens) -> AuthRow]
    BY <2>1, <2>2 DEF AuthInv
  <2>4. revokedAll' \in [Subject -> Nat] /\ \A r \in Subject \ {s} : revokedAll'[r] = revokedAll[r]
    BY <1>4 DEF RevokeAll, AuthInv
  <2>5. ASSUME NEW t \in 1..Len(tokens)
        PROVE  /\ sessions'[t].subject = tokens[t].subject
               /\ ~sessions'[t].revoked => root[t] = revokedAll'[tokens[t].subject]
    <3>0. tokens[t].subject \in Subject
      BY <1>0 DEF AuthToken
    <3>1. sessions[t].subject = tokens[t].subject /\ tokens[t].subject \in Subject
      BY <3>0 DEF AuthInv
    <3>2. CASE sessions[t].subject = s
      BY <2>1, <2>2, <3>1, <3>2
    <3>3. CASE sessions[t].subject # s
      BY <2>2, <2>4, <3>1, <3>3 DEF AuthInv
    <3> QED
      BY <3>2, <3>3
  <2> QED
    BY <2>0, <2>3, <2>4, <2>5 DEF AuthInv
<1>5. ASSUME NEW t \in DOMAIN tokens, Expire(t) PROVE AuthInv'
  <2> DEFINE spent == [tokens[t] EXCEPT !.expired = TRUE]
  <2>0. spent \in AuthToken /\ spent.subject = tokens[t].subject
    BY <1>0 DEF AuthToken
  <2> HIDE DEF spent
  <2>3. tokens' = [tokens EXCEPT ![t] = spent] /\ tokens \in Seq(AuthToken)
    BY <1>5 DEF Expire, spent, AuthInv
  <2>1. tokens' \in Seq(AuthToken) /\ Len(tokens') = Len(tokens)
    BY <1>0, <2>0, <2>3, ExceptSeq
  <2>2. \A u \in 1..Len(tokens) : tokens'[u].subject = tokens[u].subject
    BY <1>0, <2>0, <2>3
  <2> QED
    BY <1>5, <2>1, <2>2 DEF Expire, AuthInv
<1>6. ASSUME NEW t \in DOMAIN tokens, OpenSocket(t) PROVE AuthInv'
  BY <1>0, <1>6 DEF OpenSocket, AuthInv
<1>7. CASE CloseSocket
  BY <1>0, <1>7 DEF CloseSocket, AuthInv
<1>8. CASE UNCHANGED authVars
  BY <1>8 DEF authVars, AuthInv
<1> QED
  BY <1>1, <1>2, <1>3, <1>4, <1>5, <1>6, <1>7, <1>8 DEF AuthNext

\* What is admitted or refreshed has a row that is not revoked.
LEMMA AuthHolds == AuthInv => AuthTypeOK /\ RevokedStaysOut
<1> SUFFICES ASSUME AuthInv PROVE AuthTypeOK /\ RevokedStaysOut
  OBVIOUS
<1>1. /\ DOMAIN tokens = 1..Len(tokens)
      /\ \A t \in DOMAIN tokens : tokens[t] \in AuthToken
  BY DEF AuthInv
<1>2. AuthTypeOK
  BY <1>1 DEF AuthInv, AuthTypeOK, AuthToken
<1>3. ASSUME NEW t \in DOMAIN tokens, ~IsRevoked(t)
      PROVE  root[t] = revokedAll[tokens[t].subject]
  BY <1>1, <1>3 DEF AuthInv, IsRevoked
<1> QED
  BY <1>2, <1>3 DEF RevokedStaysOut, Admits, Refreshable

-----------------------------------------------------------------------------
(* The feed *)

\* What a client has got, what its handler is sending and what waits for it.
Way(r, x, f) == r \o (IF x = 0 THEN <<>> ELSE <<x>>) \o f
WayOf(c) == Way(received[c], sending[c], feed[c])

\* The events s after the first k up to the p-th are in order, and l are the others.
Accounts(s, l, k, p) ==
    /\ \A i, j \in DOMAIN s : i < j => s[i] < s[j]
    /\ ToSet(s) \cup l = (k + 1)..p

Standing == {c \in Client : stand[c] # "away"}

FeedTypes ==
    /\ stand \in [Client -> {"away", "asking", "fed"}] /\ hungUp \subseteq Client
    /\ feed \in [Client -> Seq(Nat)] /\ received \in [Client -> Seq(Nat)]
    /\ sending \in [Client -> Nat] /\ lost \in [Client -> SUBSET Nat]
    /\ since \in [Client -> Nat] /\ published \in Nat

\* The count is that of the handlers, and each of them accounts for its events.
FeedInv ==
    /\ FeedTypes
    /\ IsFiniteSet(Standing) /\ slotCount = Cardinality(Standing)
    /\ FeedMax # 0 => slotCount <= FeedMax
    /\ \A c \in Client :
          /\ Len(feed[c]) <= FeedQueue /\ since[c] <= published /\ sending[c] <= published
          /\ c \notin Fed => sending[c] = 0
          /\ c \in Fed => Accounts(WayOf(c), lost[c], since[c], published)

\* Nobody is connected.
LEMMA FeedInitial == FeedInit => FeedInv
<1> SUFFICES ASSUME FeedInit PROVE FeedInv
  OBVIOUS
<1>1. FeedTypes
  BY DEF FeedInit, FeedTypes
<1>2. Standing = {} /\ Fed = {}
  BY DEF FeedInit, Standing, Fed
<1>3. IsFiniteSet(Standing) /\ slotCount = Cardinality(Standing)
  BY <1>2, FS_EmptySet DEF FeedInit
<1>4. \A c \in Client : Len(feed[c]) = 0 /\ since[c] = 0 /\ sending[c] = 0 /\ published = 0
  BY DEF FeedInit
<1> QED
  BY <1>1, <1>2, <1>3, <1>4, FeedAssumption DEF FeedInv, FeedInit

\* An event that is taken, or sent, moves along the way.
LEMMA WayTaken ==
    ASSUME NEW r \in Seq(Nat), NEW f \in Seq(Nat), f # <<>>, Head(f) # 0
    PROVE  Way(r, Head(f), Tail(f)) = Way(r, 0, f)
<1> DEFINE h == Head(f)
<1>1. h \in Nat /\ Tail(f) \in Seq(Nat) /\ f = <<h>> \o Tail(f)
  BY HeadTailProperties
<1>2. Way(r, h, Tail(f)) = (r \o <<h>>) \o Tail(f) /\ Way(r, 0, f) = (r \o <<>>) \o f
  BY DEF Way
<1>3. (r \o <<h>>) \o Tail(f) = r \o (<<h>> \o Tail(f))
  BY <1>1, ConcatAssociative
<1>4. r \o <<>> = r
  BY ConcatEmptySeq
<1> QED
  BY <1>1, <1>2, <1>3, <1>4

\* An event that has just been sent goes to the end of what the client has.
LEMMA WaySent ==
    ASSUME NEW r \in Seq(Nat), NEW f \in Seq(Nat), NEW x \in Nat, x # 0
    PROVE  Way(Append(r, x), 0, f) = Way(r, x, f)
<1>1. Append(r, x) = r \o <<x>> /\ Append(r, x) \o <<>> = Append(r, x)
  BY AppendIsConcat, ConcatEmptySeq
<1> QED
  BY <1>1 DEF Way

\* An event published to a feed is the last of what is on its way.
LEMMA WayGrows ==
    ASSUME NEW r \in Seq(Nat), NEW f \in Seq(Nat), NEW x \in Nat, NEW p \in Nat
    PROVE  Way(r, x, Append(f, p)) = Append(Way(r, x, f), p)
<1> DEFINE m == IF x = 0 THEN <<>> ELSE <<x>>
<1>1. m \in Seq(Nat) /\ r \o m \in Seq(Nat)
  OBVIOUS
<1> DEFINE a == r \o m
<1>2. Way(r, x, f) = a \o f /\ Way(r, x, Append(f, p)) = a \o Append(f, p) /\ a \in Seq(Nat)
  BY <1>1 DEF Way
<1> HIDE DEF a
<1>3. a \o f \in Seq(Nat) /\ <<p>> \in Seq(Nat)
  BY <1>2
<1>4. Append(f, p) = f \o <<p>> /\ Append(a \o f, p) = (a \o f) \o <<p>>
  BY <1>3, AppendIsConcat
<1>5. (a \o f) \o <<p>> = a \o (f \o <<p>>)
  <2> DEFINE b == <<p>>
  <2>1. a \in Seq(Nat) /\ b \in Seq(Nat)
    BY <1>2
  <2> HIDE DEF b
  <2>2. (a \o f) \o b = a \o (f \o b)
    BY <2>1, SMTT(20)
  <2> QED
    BY <2>2 DEF b
<1> QED
  BY <1>2, <1>4, <1>5

\* A new event comes last, or is lost.
LEMMA AccountsGrow ==
    ASSUME NEW s \in Seq(Nat), NEW l, NEW k \in Nat, NEW p \in Nat, k <= p,
           Accounts(s, l, k, p)
    PROVE  Accounts(Append(s, p + 1), l, k, p + 1) /\ Accounts(s, l \cup {p + 1}, k, p + 1)
<1>1. (k + 1)..(p + 1) = (k + 1)..p \cup {p + 1}
  OBVIOUS
<1>2. \A i \in DOMAIN s : s[i] \in (k + 1)..p
  BY DEF Accounts, ToSet
<1>3. /\ DOMAIN Append(s, p + 1) = 1..(Len(s) + 1) /\ DOMAIN s = 1..Len(s) /\ Len(s) \in Nat
      /\ Append(s, p + 1)[Len(s) + 1] = p + 1
      /\ \A i \in 1..Len(s) : Append(s, p + 1)[i] = s[i]
  OBVIOUS
<1>4. ToSet(Append(s, p + 1)) = ToSet(s) \cup {p + 1}
  BY <1>3 DEF ToSet
<1>5. \A i, j \in DOMAIN Append(s, p + 1) : i < j => Append(s, p + 1)[i] < Append(s, p + 1)[j]
  <2> SUFFICES ASSUME NEW i \in 1..(Len(s) + 1), NEW j \in 1..(Len(s) + 1), i < j
               PROVE  Append(s, p + 1)[i] < Append(s, p + 1)[j]
    BY <1>3
  <2>1. i \in 1..Len(s) /\ (j \in 1..Len(s) \/ j = Len(s) + 1)
    BY <1>3
  <2>2. CASE j \in 1..Len(s)
    BY <1>3, <2>1, <2>2 DEF Accounts
  <2>3. CASE j = Len(s) + 1
    <3>1. s[i] \in (k + 1)..p
      BY <1>2, <1>3, <2>1
    <3> QED
      BY <1>3, <2>1, <2>3, <3>1
  <2> QED
    BY <2>1, <2>2, <2>3
<1> QED
  BY <1>1, <1>4, <1>5 DEF Accounts

\* What a client is fed is numbered from 1.
LEMMA FedPositive ==
    ASSUME FeedInv, NEW c \in Fed
    PROVE  \A i \in DOMAIN feed[c] : feed[c][i] \in (since[c] + 1)..published
<1>1. c \in Client /\ Accounts(WayOf(c), lost[c], since[c], published)
  BY DEF FeedInv, Fed
<1> DEFINE m == IF sending[c] = 0 THEN <<>> ELSE <<sending[c]>>
<1> DEFINE a == received[c] \o m
<1>2. a \in Seq(Nat) /\ feed[c] \in Seq(Nat) /\ WayOf(c) = a \o feed[c]
  <2>1. m \in Seq(Nat) /\ received[c] \in Seq(Nat)
    BY <1>1 DEF FeedInv, FeedTypes
  <2> QED
    BY <1>1, <2>1 DEF FeedInv, FeedTypes, WayOf, Way
<1> HIDE DEF a
<1>3. ASSUME NEW i \in DOMAIN feed[c] PROVE feed[c][i] \in ToSet(WayOf(c))
  <2>1. Len(a) + i \in DOMAIN WayOf(c) /\ WayOf(c)[Len(a) + i] = feed[c][i]
    BY <1>2
  <2> QED
    BY <2>1 DEF ToSet
<1> QED
  BY <1>1, <1>3 DEF Accounts

\* The parts of the invariant that say nothing of the count.
FeedRest ==
    /\ FeedTypes
    /\ \A c \in Client :
          /\ Len(feed[c]) <= FeedQueue /\ since[c] <= published /\ sending[c] <= published
          /\ c \notin Fed => sending[c] = 0
          /\ c \in Fed => Accounts(WayOf(c), lost[c], since[c], published)

\* A slot is taken and given back once.
LEMMA SlotGiven ==
    ASSUME FeedInv, NEW c \in Standing, ReleaseSlot(c)
    PROVE  /\ IsFiniteSet(Standing') /\ slotCount' = Cardinality(Standing')
           /\ FeedMax # 0 => slotCount' <= FeedMax
<1>1. Standing' = Standing \ {c}
  BY DEF Standing, ReleaseSlot, FeedInv, FeedTypes
<1>2. Cardinality(Standing \ {c}) = Cardinality(Standing) - 1 /\ IsFiniteSet(Standing \ {c})
  BY FS_RemoveElement DEF FeedInv
<1>3. Cardinality(Standing) \in Nat /\ Cardinality(Standing \ {c}) \in Nat
  BY <1>2, FS_CardinalityType DEF FeedInv
<1>4. slotCount' = slotCount - 1
  BY <1>2, <1>3 DEF FeedInv, ReleaseSlot
<1> QED
  BY <1>1, <1>2, <1>3, <1>4, FeedAssumption DEF FeedInv

\* Steps that leave every handler where it stands leave the count of places right.
LEMMA SlotsStay ==
    ASSUME FeedInv, FeedRest', Standing' = Standing, slotCount' = slotCount
    PROVE  FeedInv'
  BY DEF FeedInv, FeedRest

\* Each handler moves its own client's events along.
LEMMA FeedStep == FeedInv /\ [FeedNext]_feedVars => FeedInv'
<1> SUFFICES ASSUME FeedInv, [FeedNext]_feedVars PROVE FeedInv'
  OBVIOUS
<1>0. FeedTypes
  BY DEF FeedInv
<1>1. CASE Publish
  <2>1. /\ published' = published + 1
        /\ feed' = [c \in Client |-> IF c \in Fed /\ Len(feed[c]) < FeedQueue
                                     THEN Append(feed[c], published + 1) ELSE feed[c]]
        /\ lost' = [c \in Client |-> IF c \in Fed /\ Len(feed[c]) >= FeedQueue
                                     THEN lost[c] \cup {published + 1} ELSE lost[c]]
        /\ UNCHANGED <<slotCount, stand, hungUp, sending, received, since>>
    BY <1>1 DEF Publish
  <2>2. published \in Nat /\ Fed' = Fed
    BY <1>0, <2>1 DEF FeedTypes, Fed
  <2>3. ASSUME NEW c \in Client
        PROVE  /\ feed'[c] \in Seq(Nat) /\ lost'[c] \in SUBSET Nat
               /\ Len(feed'[c]) <= FeedQueue
               /\ c \in Fed => Accounts(WayOf(c)', lost'[c], since[c], published + 1)
    <3>1. /\ feed[c] \in Seq(Nat) /\ received[c] \in Seq(Nat) /\ sending[c] \in Nat
          /\ lost[c] \in SUBSET Nat /\ since[c] \in Nat /\ Len(feed[c]) \in Nat
          /\ Len(feed[c]) <= FeedQueue /\ since[c] <= published
      BY DEF FeedInv, FeedTypes
    <3>2. CASE c \notin Fed
      BY <2>1, <2>2, <3>1, <3>2
    <3>3. CASE c \in Fed
      <4>1. Accounts(WayOf(c), lost[c], since[c], published) /\ WayOf(c) \in Seq(Nat)
        BY <3>1, <3>3 DEF FeedInv, WayOf, Way
      <4>2. CASE Len(feed[c]) < FeedQueue
        <5>1. feed'[c] = Append(feed[c], published + 1) /\ lost'[c] = lost[c]
          BY <2>1, <3>1, <3>3, <4>2, FeedAssumption
        <5>2. WayOf(c)' = Append(WayOf(c), published + 1)
          <6>1. WayOf(c)' = Way(received[c], sending[c], Append(feed[c], published + 1))
            BY <2>1, <5>1 DEF WayOf
          <6>2. published + 1 \in Nat
            BY <2>2
          <6> QED
            BY <3>1, <6>1, <6>2, WayGrows DEF WayOf
        <5>3. Accounts(Append(WayOf(c), published + 1), lost[c], since[c], published + 1)
          BY <2>2, <3>1, <4>1, AccountsGrow
        <5>4. feed'[c] \in Seq(Nat) /\ Len(feed'[c]) = Len(feed[c]) + 1
          BY <2>2, <3>1, <5>1
        <5> QED
          BY <3>1, <4>2, <5>1, <5>2, <5>3, <5>4, FeedAssumption
      <4>3. CASE ~(Len(feed[c]) < FeedQueue)
        <5>1. feed'[c] = feed[c] /\ lost'[c] = lost[c] \cup {published + 1}
          BY <2>1, <3>1, <3>3, <4>3, FeedAssumption
        <5>2. WayOf(c)' = WayOf(c)
          BY <2>1, <5>1 DEF WayOf
        <5>3. Accounts(WayOf(c), lost[c] \cup {published + 1}, since[c], published + 1)
          BY <2>2, <3>1, <4>1, AccountsGrow
        <5> QED
          BY <2>2, <3>1, <5>1, <5>2, <5>3
      <4> QED
        BY <4>2, <4>3
    <3> QED
      BY <3>2, <3>3
  <2>4. feed' \in [Client -> Seq(Nat)] /\ lost' \in [Client -> SUBSET Nat]
    BY <2>1, <2>3
  <2>5. FeedTypes'
    BY <1>0, <2>1, <2>2, <2>4 DEF FeedTypes
  <2>6. \A c \in Client : since[c] <= published + 1 /\ sending[c] <= published + 1
    BY <1>0, <2>2 DEF FeedInv, FeedTypes
  <2>7. FeedRest'
    BY <2>1, <2>2, <2>3, <2>5, <2>6 DEF FeedRest, FeedInv
  <2> QED
    BY <2>1, <2>7, SlotsStay DEF Standing
<1>2. ASSUME NEW c \in Client, Connect(c) PROVE FeedInv'
  <2>1. c \notin Standing /\ Standing' = Standing \cup {c} /\ Fed' = Fed
    BY <1>0, <1>2 DEF Connect, Standing, Fed, FeedTypes
  <2>2. IsFiniteSet(Standing') /\ Cardinality(Standing') = Cardinality(Standing) + 1
    BY <2>1, FS_AddElement DEF FeedInv
  <2>3. Cardinality(Standing) \in Nat
    BY FS_CardinalityType DEF FeedInv
  <2>4. slotCount' = Cardinality(Standing') /\ (FeedMax # 0 => slotCount' <= FeedMax)
    BY <1>2, <2>2, <2>3, FeedAssumption DEF Connect, HasFeedSlot, FeedInv
  <2>5. FeedTypes'
    BY <1>0, <1>2 DEF Connect, FeedTypes
  <2> QED
    BY <1>2, <2>1, <2>2, <2>4, <2>5 DEF Connect, FeedInv, WayOf
<1>3. ASSUME NEW c \in Client, TurnAway(c) PROVE FeedInv'
  <2>1. c \in Standing /\ ReleaseSlot(c) /\ Fed' = Fed
    BY <1>0, <1>3 DEF TurnAway, ReleaseSlot, Standing, Fed, FeedTypes
  <2>2. FeedTypes'
    BY <1>0, <1>3 DEF TurnAway, ReleaseSlot, FeedTypes
  <2> QED
    BY <1>3, <2>1, <2>2, SlotGiven DEF TurnAway, FeedInv, WayOf
<1>4. ASSUME NEW c \in Client, Subscribe(c) PROVE FeedInv'
  <2>1. Standing' = Standing /\ Fed' = Fed \cup {c} /\ c \notin Fed
    BY <1>0, <1>4 DEF Subscribe, Standing, Fed, FeedTypes
  <2>2. FeedTypes'
    BY <1>0, <1>4 DEF Subscribe, FeedTypes
  <2>3. UNCHANGED <<slotCount, sending, published>>
    BY <1>4 DEF Subscribe
  <2>4. ASSUME NEW d \in Client
        PROVE  /\ Len(feed'[d]) <= FeedQueue /\ since'[d] <= published
               /\ d \in Fed' => Accounts(WayOf(d)', lost'[d], since'[d], published)
    <3>1. CASE d = c
      <4>1. /\ feed'[d] = <<>> /\ received'[d] = <<>> /\ lost'[d] = {} /\ since'[d] = published
            /\ sending'[d] = 0
        BY <1>0, <1>4, <2>1, <3>1 DEF Subscribe, FeedTypes, FeedInv
      <4>2. WayOf(d)' = <<>>
        BY <4>1 DEF WayOf, Way
      <4>3. ToSet(<<>>) = {} /\ (published + 1)..published = {} /\ published \in Nat
        BY <1>0 DEF ToSet, FeedTypes
      <4> QED
        <5>1. Accounts(<<>>, {}, published, published)
          BY <4>3 DEF Accounts
        <5>2. Len(<<>>) <= FeedQueue /\ published <= published
          BY <4>3, FeedAssumption
        <5> QED
          BY <4>1, <4>2, <5>1, <5>2
    <3>2. CASE d # c
      <4>1. /\ feed'[d] = feed[d] /\ received'[d] = received[d] /\ lost'[d] = lost[d]
            /\ since'[d] = since[d] /\ sending'[d] = sending[d]
        BY <1>0, <1>4, <3>2 DEF Subscribe, FeedTypes
      <4> QED
        BY <2>1, <3>2, <4>1 DEF FeedInv, WayOf
    <3> QED
      BY <3>1, <3>2
  <2>5. FeedRest'
    BY <2>1, <2>2, <2>3, <2>4 DEF FeedRest, FeedInv
  <2> QED
    BY <2>1, <2>3, <2>5, SlotsStay
<1>5. ASSUME NEW c \in Client, TakeEvent(c) PROVE FeedInv'
  <2>1. /\ c \in Fed /\ sending[c] = 0 /\ feed[c] # <<>> /\ feed[c] \in Seq(Nat)
        /\ received[c] \in Seq(Nat)
    BY <1>0, <1>5 DEF TakeEvent, FeedTypes
  <2>2. UNCHANGED <<slotCount, stand, hungUp, received, lost, since, published>>
    BY <1>5 DEF TakeEvent
  <2>3. Standing' = Standing /\ Fed' = Fed
    BY <2>2 DEF Standing, Fed
  <2>4. Head(feed[c]) \in (since[c] + 1)..published
    BY <2>1, FedPositive
  <2>5. /\ feed'[c] = Tail(feed[c]) /\ sending'[c] = Head(feed[c])
        /\ \A d \in Client \ {c} : feed'[d] = feed[d] /\ sending'[d] = sending[d]
    BY <1>0, <1>5 DEF TakeEvent, FeedTypes
  <2>6. since[c] \in Nat /\ published \in Nat
    BY <1>0 DEF FeedTypes
  <2>7. Tail(feed[c]) \in Seq(Nat) /\ Len(Tail(feed[c])) <= Len(feed[c]) /\ Len(feed[c]) \in Nat
        /\ Len(Tail(feed[c])) \in Nat
    BY <2>1
  <2>8. FeedTypes'
    <3>1. feed' \in [Client -> Seq(Nat)]
      BY <1>0, <1>5, <2>7 DEF TakeEvent, FeedTypes
    <3>2. sending' \in [Client -> Nat]
      BY <1>0, <1>5, <2>4, <2>6 DEF TakeEvent, FeedTypes
    <3> QED
      BY <1>0, <2>2, <3>1, <3>2 DEF FeedTypes
  <2>9. WayOf(c)' = WayOf(c)
    BY <2>1, <2>2, <2>4, <2>5, <2>6, WayTaken DEF WayOf
  <2>10. ASSUME NEW d \in Client
         PROVE  /\ Len(feed'[d]) <= FeedQueue /\ sending'[d] <= published
                /\ d \notin Fed => sending'[d] = 0
                /\ WayOf(d)' = WayOf(d)
    <3>1. CASE d = c
      <4>1. Len(feed[c]) <= FeedQueue
        BY DEF FeedInv
      <4> QED
        <5>1. Len(feed'[c]) <= FeedQueue /\ sending'[c] <= published
          BY <2>4, <2>5, <2>6, <2>7, <4>1, FeedAssumption
        <5> QED
          BY <2>1, <2>9, <3>1, <5>1
    <3>2. CASE d # c
      BY <2>2, <2>5, <3>2 DEF FeedInv, WayOf
    <3> QED
      BY <3>1, <3>2
  <2>11. FeedRest'
    BY <2>2, <2>3, <2>8, <2>10 DEF FeedRest, FeedInv
  <2> QED
    BY <2>2, <2>3, <2>11, SlotsStay
<1>6. ASSUME NEW c \in Client, SendEvent(c) PROVE FeedInv'
  <2>1. /\ c \in Fed /\ sending[c] # 0 /\ sending' = [sending EXCEPT ![c] = 0]
        /\ UNCHANGED <<lost, since, published>>
    BY <1>6 DEF SendEvent
  <2>2. CASE c \in hungUp
    <3>1. ReleaseSlot(c) /\ feed' = [feed EXCEPT ![c] = <<>>] /\ UNCHANGED received
      BY <1>6, <2>2 DEF SendEvent
    <3>2. c \in Standing /\ Fed' = Fed \ {c}
      BY <1>0, <2>1, <3>1 DEF ReleaseSlot, Standing, Fed, FeedTypes
    <3>3. FeedTypes'
      BY <1>0, <2>1, <3>1 DEF ReleaseSlot, FeedTypes
    <3>4. ASSUME NEW d \in Client
          PROVE  /\ Len(feed'[d]) <= FeedQueue /\ sending'[d] <= published
                 /\ d \notin Fed' => sending'[d] = 0
                 /\ d \in Fed' => WayOf(d)' = WayOf(d)
      <4>1. CASE d = c
        BY <1>0, <2>1, <3>1, <3>2, <4>1, FeedAssumption DEF FeedTypes
      <4>2. CASE d # c
        BY <1>0, <2>1, <3>1, <3>2, <4>2 DEF FeedInv, FeedTypes, WayOf
      <4> QED
        BY <4>1, <4>2
    <3> QED
      BY <2>1, <3>1, <3>2, <3>3, <3>4, SlotGiven DEF FeedInv
  <2>3. CASE c \notin hungUp
    <3>1. received' = [received EXCEPT ![c] = Append(@, sending[c])]
          /\ UNCHANGED <<slotCount, stand, hungUp, feed>>
      BY <1>6, <2>3 DEF SendEvent
    <3>2. Standing' = Standing /\ Fed' = Fed
      BY <3>1 DEF Standing, Fed
    <3>3. FeedTypes'
      BY <1>0, <2>1, <3>1 DEF FeedTypes
    <3>4. ASSUME NEW d \in Client
          PROVE  sending'[d] <= published /\ (d \notin Fed => sending'[d] = 0)
                 /\ WayOf(d)' = WayOf(d)
      <4>1. CASE d = c
        <5>1. /\ received[c] \in Seq(Nat) /\ feed[c] \in Seq(Nat) /\ sending[c] \in Nat
              /\ received'[c] = Append(received[c], sending[c]) /\ sending'[c] = 0
              /\ published \in Nat
          BY <1>0, <2>1, <3>1 DEF FeedTypes
        <5> QED
          BY <2>1, <3>1, <4>1, <5>1, WaySent DEF WayOf
      <4>2. CASE d # c
        BY <1>0, <2>1, <3>1, <4>2 DEF FeedInv, FeedTypes, WayOf
      <4> QED
        BY <4>1, <4>2
    <3>5. FeedRest'
      BY <2>1, <3>1, <3>2, <3>3, <3>4 DEF FeedRest, FeedInv
    <3> QED
      BY <3>1, <3>2, <3>5, SlotsStay
  <2> QED
    BY <2>2, <2>3
<1>7. ASSUME NEW c \in Client, HangUp(c) PROVE FeedInv'
  <2>1. FeedTypes' /\ Standing' = Standing /\ Fed' = Fed
    BY <1>0, <1>7 DEF HangUp, FeedTypes, Standing, Fed
  <2> QED
    BY <1>7, <2>1 DEF HangUp, FeedInv, WayOf
<1>8. CASE UNCHANGED feedVars
  BY <1>8 DEF feedVars, FeedInv, FeedTypes, Standing, Fed, WayOf
<1> QED
  BY <1>1, <1>2, <1>3, <1>4, <1>5, <1>6, <1>7, <1>8 DEF FeedNext

\* What the invariant says of the feed.
LEMMA FeedHolds == FeedInv => FeedTypeOK /\ FeedIsFaithful
<1> SUFFICES ASSUME FeedInv PROVE FeedTypeOK /\ FeedIsFaithful
  OBVIOUS
<1>1. FeedTypeOK
  BY FS_CardinalityType DEF FeedInv, FeedTypes, FeedTypeOK
<1>2. ASSUME NEW c \in Fed PROVE Accounts(WayOf(c), lost[c], since[c], published)
  BY DEF FeedInv, Fed
<1> QED
  BY <1>1, <1>2 DEF FeedInv, FeedIsFaithful, Standing, Accounts, WayOf, Way

-----------------------------------------------------------------------------
(* The discovery of issues *)

\* An issue's task is counted once for each time it was forgotten, and once while
\* it is remembered.
DiscoveryInv ==
    /\ opened \cup closed \subseteq Issue /\ opened \cap closed = {}
    /\ scan = [at |-> scan.at, repo |-> scan.repo, todo |-> scan.todo, here |-> scan.here,
               total |-> scan.total]
    /\ scan.at \in {"idle", "list", "dispatch", "save"} /\ scan.repo \in 0..RepoCount
    /\ filed \subseteq seen /\ seen \subseteq Wanted
    /\ discovered \in [Issue -> Nat] /\ forgotten \in [Issue -> Nat]
    /\ \A i \in Issue : discovered[i] <= forgotten[i] + IF i \in seen THEN 1 ELSE 0

\* Nothing is open or seen.
LEMMA DiscoveryInitial == DiscoveryInit => DiscoveryInv
<1> SUFFICES ASSUME DiscoveryInit PROVE DiscoveryInv
  OBVIOUS
<1>1. \A i \in Issue : discovered[i] = 0 /\ forgotten[i] = 0
  BY DEF DiscoveryInit
<1> QED
  BY <1>1, DiscoveryAssumption DEF DiscoveryInit, DiscoveryInv, NoScan

\* What is seen when it is submitted is remembered at once.
LEMMA DiscoveryStep == DiscoveryInv /\ [DiscoveryNext]_discoveryVars => DiscoveryInv'
<1> SUFFICES ASSUME DiscoveryInv, [DiscoveryNext]_discoveryVars PROVE DiscoveryInv'
  OBVIOUS
<1> DEFINE ScanOK(x) ==
      /\ x = [at |-> x.at, repo |-> x.repo, todo |-> x.todo, here |-> x.here,
              total |-> x.total]
      /\ x.at \in {"idle", "list", "dispatch", "save"} /\ x.repo \in 0..RepoCount
<1>0. ScanOK(scan) /\ RepoCount \in Nat \ {0} /\ Wanted \subseteq Issue
  BY DiscoveryAssumption DEF DiscoveryInv
<1> DEFINE Is(a, r, x, h, t) ==
      [at |-> a, repo |-> r, todo |-> x, here |-> h, total |-> t]
<1>i. \A a \in {"idle", "list", "dispatch", "save"}, r \in 0..RepoCount :
         \A x, h, t : ScanOK(Is(a, r, x, h, t))
  OBVIOUS
<1>n. ASSUME NEW d PROVE ScanOK(NextRepo(d))
  <2> DEFINE t == scan.total \/ d
  <2> HIDE DEF t
  <2>1. CASE scan.repo = RepoCount
    <3>1. NextRepo(d) = Is("save", 0, <<>>, FALSE, t)
      BY <2>1 DEF NextRepo, NoScan, t
    <3> QED
      BY <1>0, <1>i, <3>1
  <2>2. CASE scan.repo # RepoCount
    <3>1. NextRepo(d) = Is("list", scan.repo + 1, <<>>, FALSE, t)
      BY <2>2 DEF NextRepo, NoScan, t
    <3>2. scan.repo + 1 \in 0..RepoCount
      BY <1>0, <2>2
    <3> QED
      BY <1>i, <3>1, <3>2
  <2> QED
    BY <2>1, <2>2
<1>1. ASSUME NEW i \in Issue, OpenIssue(i) \/ CloseIssue(i) PROVE DiscoveryInv'
  BY <1>1 DEF OpenIssue, CloseIssue, DiscoveryInv
<1>2. CASE BeginScan \/ ListRepo
  <2>1. CASE BeginScan
    <3>0. 1 \in 0..RepoCount
      BY DiscoveryAssumption
    <3>1. scan' = Is("list", 1, <<>>, FALSE, FALSE)
      BY <2>1 DEF BeginScan, NoScan
    <3>2. ScanOK(scan')
      BY <1>i, <3>0, <3>1
    <3> QED
      BY <2>1, <3>2 DEF BeginScan, DiscoveryInv
  <2>2. CASE ListRepo
    <3>1. scan' = Is("dispatch", scan.repo, Listing(scan.repo), scan.here, scan.total)
      BY <1>0, <2>2 DEF ListRepo
    <3>2. ScanOK(scan')
      BY <1>0, <1>i, <3>1
    <3> QED
      BY <2>2, <3>2 DEF ListRepo, DiscoveryInv
  <2> QED
    BY <1>2, <2>1, <2>2
<1>8. CASE CancelScan
  <2>1. ScanOK(scan')
    BY <1>0, <1>8 DEF CancelScan, NoScan
  <2> QED
    BY <1>8, <2>1 DEF CancelScan, DiscoveryInv
<1>3. CASE ListFails \/ SubmitFails \/ EndRepo
  <2>1. ScanOK(scan')
    BY <1>3, <1>n DEF ListFails, SubmitFails, EndRepo
  <2> QED
    BY <1>3, <2>1 DEF ListFails, SubmitFails, EndRepo, DiscoveryInv
<1>4. CASE DispatchIssue
  <2>1. ScanOK(scan')
    BY <1>0, <1>4 DEF DispatchIssue
  <2> DEFINE i == Head(scan.todo)
  <2> HIDE DEF i
  <2>2. CASE Submittable(i)
    <3>1. i \in Issue /\ i \notin seen /\ i \in Wanted
      BY <1>0, <2>2 DEF Submittable
    <3>2. /\ discovered' = [discovered EXCEPT ![i] = @ + 1] /\ seen' = seen \cup {i}
          /\ UNCHANGED <<opened, closed, filed, forgotten>>
      BY <1>4, <2>2 DEF DispatchIssue, i
    <3>3. discovered' \in [Issue -> Nat]
      BY <3>1, <3>2 DEF DiscoveryInv
    <3>4. ASSUME NEW j \in Issue
          PROVE  discovered'[j] <= forgotten[j] + IF j \in seen' THEN 1 ELSE 0
      <4>1. discovered[j] \in Nat /\ forgotten[j] \in Nat
        BY DEF DiscoveryInv
      <4>2. discovered[j] <= forgotten[j] + IF j \in seen THEN 1 ELSE 0
        BY DEF DiscoveryInv
      <4> QED
        BY <3>1, <3>2, <4>1, <4>2 DEF DiscoveryInv
    <3> QED
      BY <2>1, <3>1, <3>2, <3>3, <3>4 DEF DiscoveryInv
  <2>3. CASE ~Submittable(i)
    BY <1>4, <2>1, <2>3 DEF DispatchIssue, DiscoveryInv, i
  <2> QED
    BY <2>2, <2>3
<1>5. CASE EndScan
  <2>1. ScanOK(scan')
    BY <1>0, <1>5 DEF EndScan, NoScan
  <2> QED
    BY <1>5, <2>1 DEF EndScan, DiscoveryInv
<1>6. CASE RestartDiscovery
  <2>1. ScanOK(scan')
    BY <1>0, <1>6 DEF RestartDiscovery, NoScan
  <2>2. /\ seen' = filed /\ UNCHANGED <<opened, closed, filed, discovered>>
        /\ forgotten' = [i \in Issue |-> IF i \in seen \ filed THEN forgotten[i] + 1
                                         ELSE forgotten[i]]
    BY <1>6 DEF RestartDiscovery
  <2>3. forgotten' \in [Issue -> Nat]
    BY <2>2 DEF DiscoveryInv
  <2>4. ASSUME NEW j \in Issue
        PROVE  discovered[j] <= forgotten'[j] + IF j \in filed THEN 1 ELSE 0
    <3>1. discovered[j] \in Nat /\ forgotten[j] \in Nat
      BY DEF DiscoveryInv
    <3>2. discovered[j] <= forgotten[j] + IF j \in seen THEN 1 ELSE 0
      BY DEF DiscoveryInv
    <3> QED
      BY <2>2, <3>1, <3>2
  <2> QED
    BY <2>1, <2>2, <2>3, <2>4 DEF DiscoveryInv
<1>7. CASE UNCHANGED discoveryVars
  BY <1>7 DEF discoveryVars, DiscoveryInv
<1> QED
  BY <1>1, <1>2, <1>3, <1>4, <1>5, <1>6, <1>7, <1>8 DEF DiscoveryNext, ScanMoves

\* What the invariant says of issues.
LEMMA DiscoveryHolds == DiscoveryInv => DiscoveryTypeOK /\ DiscoveredOnce
<1> SUFFICES ASSUME DiscoveryInv PROVE DiscoveryTypeOK /\ DiscoveredOnce
  OBVIOUS
<1>1. {discovered[i] : i \in Issue} \cup {forgotten[i] : i \in Issue} \subseteq Nat
  BY DEF DiscoveryInv
<1>2. ASSUME NEW i \in Issue PROVE discovered[i] <= 1 + forgotten[i]
  <2>1. discovered[i] \in Nat /\ forgotten[i] \in Nat
    BY DEF DiscoveryInv
  <2> QED
    BY <2>1 DEF DiscoveryInv
<1> QED
  BY <1>1, <1>2 DEF DiscoveryInv, DiscoveryTypeOK, DiscoveredOnce

-----------------------------------------------------------------------------
(* The cron scheduler *)

\* A time's minute is the last one that has begun.
LEMMA MinuteOf ==
    ASSUME NEW w \in Nat
    PROVE  /\ Minute(w) \in Nat /\ TicksPerMinute * Minute(w) \in Nat
           /\ TicksPerMinute * Minute(w) <= w
           /\ w < TicksPerMinute * Minute(w) + TicksPerMinute
<1>1. TicksPerMinute \in Nat \ {0}
  BY CronAssumption
<1>2. /\ Minute(w) \in Nat /\ TicksPerMinute * Minute(w) <= w
      /\ w < TicksPerMinute * Minute(w) + TicksPerMinute
  BY <1>1, Quotient DEF Minute
<1> QED
  BY <1>1, <1>2

\* A minute that has begun is not later, one that has not is not earlier.
LEMMA MinuteBounds ==
    ASSUME NEW w \in Nat, NEW n \in Nat
    PROVE  /\ TicksPerMinute * n \in Nat
           /\ TicksPerMinute * n <= w => n <= Minute(w)
           /\ w < TicksPerMinute * n + TicksPerMinute => Minute(w) <= n
<1>1. TicksPerMinute \in Nat \ {0} /\ Minute(w) \in Nat
  BY CronAssumption, MinuteOf
<1>2. TicksPerMinute * n \in Nat /\ TicksPerMinute * Minute(w) \in Nat
  BY <1>1
<1>3. Minute(w) < n => TicksPerMinute * Minute(w) + TicksPerMinute <= TicksPerMinute * n
  BY <1>1, MultipleGrows
<1>4. n < Minute(w) => TicksPerMinute * n + TicksPerMinute <= TicksPerMinute * Minute(w)
  BY <1>1, MultipleGrows
<1>5. TicksPerMinute * Minute(w) <= w /\ w < TicksPerMinute * Minute(w) + TicksPerMinute
  BY MinuteOf
<1> DEFINE a == TicksPerMinute * Minute(w)
<1> DEFINE b == TicksPerMinute * n
<1> DEFINE q == Minute(w)
<1> HIDE DEF a, b, q
<1>6. /\ TicksPerMinute \in Nat \ {0} /\ q \in Nat /\ a \in Nat /\ b \in Nat
      /\ q < n => a + TicksPerMinute <= b
      /\ n < q => b + TicksPerMinute <= a
      /\ a <= w /\ w < a + TicksPerMinute
  BY <1>1, <1>2, <1>3, <1>4, <1>5 DEF a, b, q
<1>7. (b <= w => n <= q) /\ (w < b + TicksPerMinute => q <= n)
  BY <1>6
<1> QED
  BY <1>2, <1>7 DEF b, q

\* Later times are in later minutes.
LEMMA MinuteGrows ==
    ASSUME NEW v \in Nat, NEW w \in Nat, v <= w
    PROVE  Minute(v) <= Minute(w)
<1>1. Minute(v) \in Nat /\ TicksPerMinute * Minute(v) <= v
  BY MinuteOf
<1>2. TicksPerMinute * Minute(v) \in Nat
  BY MinuteOf
<1> QED
  BY <1>1, <1>2, MinuteBounds

\* The loop sleeps up to the beginning of the next minute.
LEMMA DelayReaches ==
    ASSUME wall \in Nat
    PROVE  /\ NextTickDelay \in 1..TicksPerMinute
           /\ wall + NextTickDelay = TicksPerMinute * (Minute(wall) + 1)
           /\ Minute(wall + NextTickDelay) = Minute(wall) + 1
<1> DEFINE n == Minute(wall)
<1>1. TicksPerMinute \in Nat \ {0} /\ n \in Nat /\ TicksPerMinute * n \in Nat
  BY CronAssumption, MinuteOf
<1>2. (n + 1) * TicksPerMinute = TicksPerMinute * n + TicksPerMinute
      /\ TicksPerMinute * (n + 1) = TicksPerMinute * n + TicksPerMinute
  BY <1>1
<1>3. TicksPerMinute * n <= wall /\ wall < TicksPerMinute * n + TicksPerMinute
  BY MinuteOf
<1> DEFINE x == (n + 1) * TicksPerMinute
<1>4. NextTickDelay = x - wall
  BY DEF NextTickDelay
<1>x. x = TicksPerMinute * n + TicksPerMinute
  BY <1>2
<1> HIDE DEF n, x
<1>5. NextTickDelay = TicksPerMinute * n + TicksPerMinute - wall
  BY <1>1, <1>4, <1>x
<1>6. NextTickDelay \in 1..TicksPerMinute
      /\ wall + NextTickDelay = TicksPerMinute * n + TicksPerMinute
  BY <1>1, <1>3, <1>5
<1>7. Minute(wall + NextTickDelay) = n + 1
  <2> DEFINE w == wall + NextTickDelay
  <2> HIDE DEF w
  <2>1. w \in Nat /\ n + 1 \in Nat /\ w = TicksPerMinute * (n + 1)
    BY <1>1, <1>2, <1>6 DEF w
  <2> DEFINE k == n + 1
  <2> HIDE DEF k
  <2>3. w \in Nat /\ k \in Nat /\ w = TicksPerMinute * k
    BY <2>1 DEF k
  <2>4. /\ TicksPerMinute * k <= w => k <= Minute(w)
        /\ w < TicksPerMinute * k + TicksPerMinute => Minute(w) <= k
    BY <2>3, MinuteBounds
  <2>5. w <= w /\ w < w + TicksPerMinute
    BY <1>1, <2>3
  <2>6. k <= Minute(w) /\ Minute(w) <= k
    BY <2>3, <2>4, <2>5
  <2>2. n + 1 <= Minute(w) /\ Minute(w) <= n + 1 /\ Minute(w) \in Nat
    BY <2>3, <2>6, MinuteOf DEF k
  <2> QED
    BY <1>1, <2>2 DEF w
<1> QED
  BY <1>2, <1>6, <1>7 DEF n

CronTypes ==
    /\ wall \in 0..MaxWall /\ due \in 0..TicksPerMinute
    /\ cronAt \in {"off", "started", "asleep", "awake"}
    /\ registered \in Seq(Trigger) /\ IsInjective(registered)
    /\ fired \in [Trigger -> [0..MaxMinute -> Nat]]
    /\ slips \in 0..MaxSlips /\ owing \in Nat /\ heldUp \in BOOLEAN
    /\ countsFrom \in 0..MaxMinute

\* A minute that is still to come, or that the loop will wake in or before, was
\* fired only before the clock was last set.
Ahead(m) == m > Minute(wall) \/ (cronAt = "asleep" /\ m >= Minute(wall + due))
FiredRight(t, m) ==
    /\ fired[t][m] > 0 => FaultOf(t) = "none" /\ Falls(m, t)
    /\ fired[t][m] <= 1 + slips
    /\ Ahead(m) => fired[t][m] <= slips

\* The loop wakes, or woke, for minute n, and less than a minute late; what matches
\* an earlier minute, or that one once the loop is awake, has fired.
WakesFor(n) ==
    /\ owing < TicksPerMinute
    /\ cronAt = "asleep" => wall + due = TicksPerMinute * n + owing /\ (due > 0 => owing = 0)
    /\ cronAt = "awake" => wall = TicksPerMinute * n + owing
Covers(n) ==
    \A t \in Trigger, m \in 0..MaxMinute :
        (countsFrom < m /\ (m < n \/ (cronAt = "awake" /\ m = n)) /\ t \in Firing(m))
            => fired[t][m] > 0
Reckons == slips = 0 /\ ~heldUp /\ cronAt \in {"asleep", "awake"}

CronInv ==
    /\ CronTypes
    /\ \A t \in Trigger, m \in 0..MaxMinute : FiredRight(t, m)
    /\ Reckons => \E n \in Nat : WakesFor(n) /\ Covers(n)

\* The loop does not run.
LEMMA CronInitial == CronInit => CronInv
<1> SUFFICES ASSUME CronInit PROVE CronInv
  OBVIOUS
<1>1. TicksPerMinute \in Nat \ {0} /\ MaxWall \in Nat /\ MaxSlips \in Nat
  BY CronAssumption
<1>2. MaxMinute \in Nat
  BY <1>1, MinuteOf DEF MaxMinute
<1>3. CronTypes
  <2>1. registered \in Seq(Trigger) /\ IsInjective(registered)
    BY DEF CronInit, IsInjective
  <2>2. fired \in [Trigger -> [0..MaxMinute -> Nat]]
    BY DEF CronInit
  <2>3. wall \in 0..MaxWall /\ due \in 0..TicksPerMinute /\ slips \in 0..MaxSlips
    BY <1>1 DEF CronInit
  <2>4. owing \in Nat /\ countsFrom \in 0..MaxMinute
    BY <1>2 DEF CronInit
  <2>5. cronAt \in {"off", "started", "asleep", "awake"} /\ heldUp \in BOOLEAN
    BY Zenon DEF CronInit
  <2> QED
    BY <2>1, <2>2, <2>3, <2>4, <2>5, Zenon DEF CronTypes
<1>4. \A t \in Trigger, m \in 0..MaxMinute : fired[t][m] = 0
  BY DEF CronInit
<1>5. \A t \in Trigger, m \in 0..MaxMinute : FiredRight(t, m)
  BY <1>4 DEF CronInit, FiredRight
<1> QED
  BY <1>3, <1>5 DEF CronInit, CronInv, Reckons

\* What the types say of numbers.
LEMMA CronNumbers ==
    ASSUME CronTypes
    PROVE  /\ TicksPerMinute \in Nat \ {0} /\ MaxWall \in Nat /\ MaxMinute \in Nat
           /\ wall \in Nat /\ due \in Nat /\ Minute(wall) \in 0..MaxMinute
<1>1. TicksPerMinute \in Nat \ {0} /\ MaxWall \in Nat /\ wall \in Nat /\ due \in Nat
  BY CronAssumption DEF CronTypes
<1>2. Minute(wall) \in Nat /\ MaxMinute \in Nat
  BY <1>1, MinuteOf DEF MaxMinute
<1>3. Minute(wall) <= MaxMinute
  BY <1>1, MinuteGrows DEF CronTypes, MaxMinute
<1> QED
  BY <1>1, <1>2, <1>3

\* The types hold on: the triggers stay apart, the minutes in range.
LEMMA CronTypesStay ==
    ASSUME CronTypes, [CronNext]_cronVars
    PROVE  CronTypes'
<1>0. /\ TicksPerMinute \in Nat \ {0} /\ MaxWall \in Nat /\ MaxMinute \in Nat
      /\ wall \in Nat /\ due \in Nat /\ Minute(wall) \in 0..MaxMinute
      /\ MaxSlips \in Nat
  BY CronNumbers, CronAssumption
<1> DEFINE Numbers ==
      /\ wall \in 0..MaxWall /\ due \in 0..TicksPerMinute
      /\ cronAt \in {"off", "started", "asleep", "awake"}
      /\ slips \in 0..MaxSlips /\ owing \in Nat /\ heldUp \in BOOLEAN
      /\ countsFrom \in 0..MaxMinute
<1> DEFINE Triggers == registered \in Seq(Trigger) /\ IsInjective(registered)
<1> DEFINE Fires == fired \in [Trigger -> [0..MaxMinute -> Nat]]
<1>a. Numbers /\ Triggers /\ Fires
  BY DEF CronTypes
<1>b. (Numbers /\ Triggers /\ Fires)' => CronTypes'
  BY Zenon DEF CronTypes
<1>c. registered' = registered => Triggers'
  BY <1>a
<1>d. fired' = fired => Fires'
  BY <1>a
<1> HIDE DEF Triggers, Fires
<1>1. CASE ClockTicks
  <2>1. Countdown \in 0..TicksPerMinute
    BY <1>0, <1>a DEF Countdown
  <2>2. wall' \in 0..MaxWall /\ due' \in 0..TicksPerMinute
    BY <1>0, <1>1, <1>a, <2>1 DEF ClockTicks
  <2>3. owing' \in Nat /\ heldUp' \in BOOLEAN
    BY <1>1, <1>a DEF ClockTicks
  <2> QED
    BY <1>1, <1>a, <1>b, <1>c, <1>d, <2>2, <2>3 DEF ClockTicks
<1>2. CASE SetClock
  <2>1. slips' \in 0..MaxSlips
    BY <1>0, <1>2, <1>a DEF SetClock
  <2> QED
    BY <1>2, <1>a, <1>b, <1>c, <1>d, <2>1 DEF SetClock
<1>3. CASE StartCron
  BY <1>3, <1>a, <1>b, <1>c, <1>d DEF StartCron
<1>4. CASE SleepToMinute
  <2>1. NextTickDelay \in 0..TicksPerMinute
    BY <1>0, DelayReaches
  <2>2. countsFrom' \in 0..MaxMinute
    BY <1>0, <1>4, <1>a DEF SleepToMinute
  <2> QED
    BY <1>4, <1>a, <1>b, <1>c, <1>d, <2>1, <2>2 DEF SleepToMinute
<1>5. CASE CronTick
  <2> DEFINE m == Minute(wall)
  <2> HIDE DEF m
  <2>1. fired' = [t \in Trigger |->
                     IF t \in Firing(m) THEN [fired[t] EXCEPT ![m] = @ + 1] ELSE fired[t]]
    BY <1>5 DEF CronTick, m
  <2>2. ASSUME NEW t \in Trigger PROVE fired'[t] \in [0..MaxMinute -> Nat]
    <3>1. fired[t] \in [0..MaxMinute -> Nat] /\ m \in 0..MaxMinute
      BY <1>0, <1>a DEF Fires, m
    <3> DEFINE M == 0..MaxMinute
    <3> HIDE DEF M
    <3> DEFINE g == fired[t]
    <3>4. g \in [M -> Nat] /\ m \in M
      BY <3>1, Zenon DEF M
    <3> HIDE DEF g
    <3>5. g[m] + 1 \in Nat
      BY <3>4
    <3>6. [g EXCEPT ![m] = g[m] + 1] \in [M -> Nat]
      BY <3>4, <3>5
    <3>2. [fired[t] EXCEPT ![m] = @ + 1] \in [0..MaxMinute -> Nat]
      BY <3>6, Zenon DEF M, g
    <3>3. fired'[t] = IF t \in Firing(m) THEN [fired[t] EXCEPT ![m] = @ + 1] ELSE fired[t]
      BY <2>1
    <3> QED
      BY <3>1, <3>2, <3>3, Zenon
  <2>3. Fires'
    BY <2>1, <2>2 DEF Fires
  <2> QED
    BY <1>5, <1>a, <1>b, <1>c, <2>3 DEF CronTick
<1>6. CASE StopCron
  BY <1>0, <1>6, <1>a, <1>b, <1>c, <1>d DEF StopCron
<1>7. ASSUME NEW t \in Trigger, AddTrigger(t) PROVE CronTypes'
  <2>1. registered \in Seq(Trigger) /\ IsInjective(registered)
        /\ registered' = Append(registered, t) /\ t \notin ToSet(registered)
    BY <1>7, <1>a DEF AddTrigger, Triggers
  <2>2. registered' \in Seq(Trigger)
    BY <2>1
  <2>3. IsInjective(registered')
    BY <2>1 DEF IsInjective, ToSet
  <2> QED
    BY <1>0, <1>7, <1>a, <1>b, <1>d, <2>2, <2>3 DEF AddTrigger, Triggers
<1>8. ASSUME NEW t \in Trigger, RemoveTrigger(t) PROVE CronTypes'
  <2>1. registered \in Seq(Trigger) /\ IsInjective(registered)
        /\ registered' = RemoveFirst(registered, t)
        /\ \E i \in 1..Len(registered) : registered[i] = t
    BY <1>8, <1>a DEF RemoveTrigger, Triggers, ToSet
  <2>2. PICK m \in 1..Len(registered) :
          /\ registered' \in Seq(Trigger) /\ Len(registered') = Len(registered) - 1
          /\ \A i \in 1..(Len(registered) - 1) :
                registered'[i] = IF i < m THEN registered[i] ELSE registered[i + 1]
    <3>1. \E m \in 1..Len(registered) :
            /\ registered[m] = t /\ RemoveFirst(registered, t) \in Seq(Trigger)
            /\ Len(RemoveFirst(registered, t)) = Len(registered) - 1
            /\ \A i \in 1..(Len(registered) - 1) :
                  RemoveFirst(registered, t)[i] = IF i < m THEN registered[i]
                                                  ELSE registered[i + 1]
      BY <2>1, RemovedOne, Zenon
    <3> QED
      BY <2>1, <3>1, Zenon
  <2>3. IsInjective(registered')
    <3> SUFFICES ASSUME NEW i \in 1..Len(registered'), NEW j \in 1..Len(registered'),
                        registered'[i] = registered'[j]
                 PROVE  i = j
      BY <2>2 DEF IsInjective
    <3> DEFINE At(k) == IF k < m THEN k ELSE k + 1
    <3>1. \A k \in 1..Len(registered') :
             At(k) \in 1..Len(registered) /\ registered'[k] = registered[At(k)]
      BY <2>1, <2>2
    <3>2. registered[At(i)] = registered[At(j)] /\ At(i) \in 1..Len(registered)
          /\ At(j) \in 1..Len(registered)
      BY <3>1
    <3>3. \A a, b \in 1..Len(registered) : registered[a] = registered[b] => a = b
      BY <2>1 DEF IsInjective
    <3> HIDE DEF At
    <3>4. At(i) = At(j)
      BY <3>2, <3>3
    <3> QED
      BY <2>2, <3>4 DEF At
  <2> QED
    BY <1>0, <1>8, <1>a, <1>b, <1>d, <2>2, <2>3 DEF RemoveTrigger, Triggers
<1>9. CASE UNCHANGED cronVars
  BY <1>9, <1>a, <1>b, <1>c, <1>d DEF cronVars
<1> QED
  BY <1>1, <1>2, <1>3, <1>4, <1>5, <1>6, <1>7, <1>8, <1>9 DEF CronNext

\* What a tick submits.
LEMMA TickFires ==
    ASSUME CronTypes, CronTick, NEW t \in Trigger, NEW m \in 0..MaxMinute
    PROVE  fired'[t][m] = IF m = Minute(wall) /\ t \in Firing(m) THEN fired[t][m] + 1
                          ELSE fired[t][m]
<1> DEFINE w == Minute(wall)
<1> DEFINE F == Firing(w)
<1>1. fired' = [s \in Trigger |-> IF s \in F THEN [fired[s] EXCEPT ![w] = @ + 1]
                                  ELSE fired[s]]
  BY DEF CronTick
<1>2. fired[t] \in [0..MaxMinute -> Nat]
  BY DEF CronTypes
<1> DEFINE M == 0..MaxMinute
<1> DEFINE g == fired[t]
<1>3. g \in [M -> Nat] /\ m \in M
  BY <1>2, Zenon
<1>4. m = w => Firing(m) = F
  BY Zenon
<1> HIDE DEF w, F, g, M
<1>5. fired'[t] = IF t \in F THEN [g EXCEPT ![w] = @ + 1] ELSE g
  BY <1>1, Zenon DEF g
<1>6. CASE t \in F /\ m = w
  BY <1>3, <1>4, <1>5, <1>6 DEF w, g
<1>7. CASE t \in F /\ m # w
  BY <1>3, <1>5, <1>7 DEF w, g
<1>8. CASE t \notin F
  BY <1>4, <1>5, <1>8 DEF w, g
<1> QED
  BY <1>6, <1>7, <1>8

\* Ahead of the clock nothing fires that fired before, unless the clock was set.
LEMMA FiredStays ==
    ASSUME CronTypes, CronTypes', [CronNext]_cronVars,
           NEW t \in Trigger, NEW m \in 0..MaxMinute, FiredRight(t, m)
    PROVE  FiredRight(t, m)'
<1>0. /\ wall \in Nat /\ due \in Nat /\ Minute(wall) \in Nat /\ slips \in Nat
      /\ wall' \in Nat /\ due' \in Nat /\ m \in Nat /\ fired[t][m] \in Nat
  <2>1. wall \in Nat /\ due \in Nat /\ Minute(wall) \in 0..MaxMinute /\ MaxMinute \in Nat
    BY CronNumbers
  <2>2. slips \in Nat /\ MaxWall \in Nat /\ TicksPerMinute \in Nat
    BY CronAssumption DEF CronTypes
  <2>3. wall' \in Nat /\ due' \in Nat
    BY <2>2 DEF CronTypes
  <2>4. fired[t][m] \in Nat
    BY DEF CronTypes
  <2> QED
    BY <2>1, <2>2, <2>3, <2>4
<1>a. ASSUME fired' = fired, slips' = slips, Ahead(m)' => Ahead(m) PROVE FiredRight(t, m)'
  BY <1>a DEF FiredRight
<1>1. CASE ClockTicks
  <2>0. wall' = wall + 1
    BY <1>1 DEF ClockTicks
  <2>1. Minute(wall) <= Minute(wall') /\ Minute(wall') \in Nat
    BY <1>0, <2>0, MinuteGrows, MinuteOf
  <2>2. ASSUME cronAt = "asleep" PROVE Ahead(m)' => Ahead(m)
    <3>1. CASE due > 0
      <4>1. wall' + due' = wall + due
        BY <1>0, <1>1, <3>1 DEF ClockTicks, Countdown
      <4> QED
        BY <1>0, <1>1, <2>1, <2>2, <4>1 DEF ClockTicks, Ahead
    <3>2. CASE due = 0
      <4>1. wall' + due' = wall' /\ wall + due = wall
        BY <1>0, <1>1, <3>2 DEF ClockTicks, Countdown
      <4> QED
        BY <1>0, <1>1, <2>1, <2>2, <4>1 DEF ClockTicks, Ahead
    <3> QED
      BY <1>0, <3>1, <3>2
  <2>3. Ahead(m)' => Ahead(m)
    <3>1. cronAt # "asleep" => (Ahead(m)' => Ahead(m))
      BY <1>0, <1>1, <2>1 DEF ClockTicks, Ahead
    <3> QED
      BY <2>2, <3>1
  <2> QED
    BY <1>1, <1>a, <2>3 DEF ClockTicks
<1>2. CASE SetClock
  <2>1. fired' = fired /\ slips' = slips + 1
    BY <1>2 DEF SetClock
  <2> QED
    BY <1>0, <2>1 DEF FiredRight
<1>3. CASE StartCron \/ StopCron
  <2>1. Ahead(m)' => Ahead(m)
    BY <1>3 DEF StartCron, StopCron, Ahead
  <2> QED
    BY <1>3, <1>a, <2>1 DEF StartCron, StopCron
<1>4. CASE SleepToMinute
  <2>1. Minute(wall + NextTickDelay) = Minute(wall) + 1
    BY <1>0, DelayReaches
  <2>2. wall' = wall /\ due' = NextTickDelay
    BY <1>4 DEF SleepToMinute
  <2>3. Minute(wall' + due') = Minute(wall) + 1 /\ Minute(wall') = Minute(wall)
    BY <2>1, <2>2, Zenon
  <2>4. Ahead(m)' => Ahead(m)
    BY <1>0, <2>3 DEF Ahead
  <2> QED
    BY <1>4, <1>a, <2>4 DEF SleepToMinute
<1>5. CASE CronTick
  <2>1. wall + due = wall /\ cronAt = "asleep" /\ wall' = wall /\ slips' = slips
        /\ cronAt' = "awake"
    BY <1>0, <1>5 DEF CronTick
  <2>2. Ahead(m) <=> m >= Minute(wall)
    BY <1>0, <2>1 DEF Ahead
  <2>3. Ahead(m)' => m > Minute(wall)
    BY <2>1 DEF Ahead
  <2>4. fired'[t][m] = IF m = Minute(wall) /\ t \in Firing(m) THEN fired[t][m] + 1
                       ELSE fired[t][m]
    BY <1>5, TickFires
  <2>5. t \in Firing(m) => FaultOf(t) = "none" /\ Falls(m, t)
    BY DEF Firing
  <2> QED
    BY <1>0, <2>1, <2>2, <2>3, <2>4, <2>5 DEF FiredRight
<1>6. ASSUME NEW s \in Trigger, AddTrigger(s) \/ RemoveTrigger(s) PROVE FiredRight(t, m)'
  <2>1. Ahead(m)' => Ahead(m)
    BY <1>6 DEF AddTrigger, RemoveTrigger, Ahead
  <2> QED
    BY <1>6, <1>a, <2>1 DEF AddTrigger, RemoveTrigger
<1>7. CASE UNCHANGED cronVars
  <2>1. Ahead(m)' => Ahead(m)
    BY <1>7 DEF cronVars, Ahead
  <2> QED
    BY <1>7, <1>a, <2>1 DEF cronVars
<1> QED
  BY <1>1, <1>2, <1>3, <1>4, <1>5, <1>6, <1>7 DEF CronNext

\* A loop that is held up for less than a minute wakes in the minute it slept for.
LEMMA WokenFor ==
    ASSUME CronTypes, NEW n \in Nat, WakesFor(n)
    PROVE  /\ (cronAt = "awake" \/ (cronAt = "asleep" /\ due = 0)) => Minute(wall) = n
           /\ cronAt = "asleep" => n <= Minute(wall) + 1 /\ Minute(wall) <= n
<1>1. /\ TicksPerMinute \in Nat \ {0} /\ wall \in Nat /\ due \in Nat
      /\ Minute(wall) \in Nat /\ owing \in Nat /\ due <= TicksPerMinute
  <2>1. Minute(wall) \in 0..MaxMinute /\ MaxMinute \in Nat
    BY CronNumbers
  <2>2. TicksPerMinute \in Nat \ {0} /\ wall \in Nat /\ due \in Nat
    BY CronNumbers
  <2> QED
    BY <2>1, <2>2 DEF CronTypes
<1>2. TicksPerMinute * n \in Nat /\ owing < TicksPerMinute
  BY <1>1 DEF WakesFor
<1>b. /\ TicksPerMinute * n <= wall => n <= Minute(wall)
      /\ wall < TicksPerMinute * n + TicksPerMinute => Minute(wall) <= n
  BY <1>1, MinuteBounds
<1> DEFINE b == TicksPerMinute * n
<1> HIDE DEF b
<1>3. ASSUME wall = b + owing PROVE Minute(wall) = n
  BY <1>1, <1>2, <1>3, <1>b DEF b
<1>4. ASSUME wall + due = b + owing, due > 0 => owing = 0
      PROVE  n <= Minute(wall) + 1 /\ Minute(wall) <= n
  <2>1. Minute(wall) <= n
    <3>1. wall < b + TicksPerMinute
      BY <1>1, <1>2, <1>4 DEF b
    <3> QED
      BY <1>b, <3>1 DEF b
  <2>2. n <= Minute(wall) + 1
    <3> DEFINE q == Minute(wall)
    <3> DEFINE a == TicksPerMinute * Minute(wall)
    <3>1. a \in Nat /\ wall < a + TicksPerMinute
      BY <1>1, MinuteOf
    <3>2. TicksPerMinute * (q + 1) = a + TicksPerMinute
      BY <1>1
    <3>3. q + 1 < n => TicksPerMinute * (q + 1) + TicksPerMinute <= b
      BY <1>1, MultipleGrows DEF b
    <3> HIDE DEF q, a
    <3>4. q + 1 < n => a + TicksPerMinute + TicksPerMinute <= b
      BY <3>2, <3>3
    <3>5. b <= wall + TicksPerMinute /\ b \in Nat /\ q \in Nat
      BY <1>1, <1>2, <1>4 DEF b, q
    <3> QED
      BY <1>1, <3>1, <3>4, <3>5 DEF q
  <2> QED
    BY <2>1, <2>2
<1> QED
  BY <1>1, <1>2, <1>3, <1>4 DEF WakesFor, b

\* The loop goes from minute to minute, and a minute's tick covers it.
LEMMA CoverStays ==
    ASSUME CronTypes, CronTypes', [CronNext]_cronVars,
           Reckons => \E n \in Nat : WakesFor(n) /\ Covers(n), Reckons'
    PROVE  \E n \in Nat : (WakesFor(n) /\ Covers(n))'
<1>0. /\ TicksPerMinute \in Nat \ {0} /\ wall \in Nat /\ due \in Nat /\ owing \in Nat
      /\ Minute(wall) \in Nat
  <2>1. Minute(wall) \in 0..MaxMinute /\ MaxMinute \in Nat
    BY CronNumbers
  <2>2. TicksPerMinute \in Nat \ {0} /\ wall \in Nat /\ due \in Nat
    BY CronNumbers
  <2> QED
    BY <2>1, <2>2 DEF CronTypes
<1>1. CASE ClockTicks
  <2>1. /\ wall' = wall + 1 /\ due' = Countdown /\ cronAt' = cronAt
        /\ owing' = IF IsOwing THEN owing + 1 ELSE owing
        /\ heldUp' = (heldUp \/ owing' >= TicksPerMinute)
        /\ UNCHANGED <<registered, fired, slips, countsFrom>>
    BY <1>1 DEF ClockTicks
  <2>2. Reckons /\ ~(owing' >= TicksPerMinute)
    BY <2>1, Zenon DEF Reckons
  <2>3. PICK n \in Nat : WakesFor(n) /\ Covers(n)
    BY <2>2
  <2> DEFINE b == TicksPerMinute * n
  <2>4. b \in Nat
    BY <1>0
  <2> HIDE DEF b
  <2>5. /\ cronAt = "asleep" => wall + due = b + owing /\ (due > 0 => owing = 0)
        /\ cronAt = "awake" => wall = b + owing
    BY <2>3 DEF WakesFor, b
  <2>6. owing' \in Nat /\ owing' < TicksPerMinute
    BY <1>0, <2>1, <2>2
  <2>7. ASSUME cronAt' = "asleep"
        PROVE  wall' + due' = b + owing' /\ (due' > 0 => owing' = 0)
    <3>1. CASE due > 0
      BY <1>0, <2>1, <2>4, <2>5, <2>7, <3>1 DEF Countdown, IsOwing
    <3>2. CASE due = 0
      BY <1>0, <2>1, <2>4, <2>5, <2>7, <3>2 DEF Countdown, IsOwing
    <3> QED
      BY <1>0, <3>1, <3>2
  <2>8. ASSUME cronAt' = "awake" PROVE wall' = b + owing'
    BY <1>0, <2>1, <2>4, <2>5, <2>8 DEF IsOwing
  <2>9. WakesFor(n)'
    BY <2>6, <2>7, <2>8 DEF WakesFor, b
  <2>10. Covers(n)'
    BY <2>1, <2>3 DEF Covers, Firing, Reached
  <2> QED
    BY <2>9, <2>10
<1>2. CASE SetClock
  <2>1. slips' = slips + 1 /\ slips \in Nat
    <3>1. slips \in Nat
      BY CronAssumption DEF CronTypes
    <3> QED
      BY <1>2, <3>1 DEF SetClock
  <2> QED
    BY <2>1 DEF Reckons
<1>3. CASE StartCron \/ StopCron
  BY <1>3 DEF StartCron, StopCron, Reckons
<1>4. CASE SleepToMinute
  <2>0. PICK n \in Nat : n = Minute(wall) + 1
    BY <1>0
  <2>1. /\ cronAt' = "asleep" /\ wall' = wall /\ owing' = 0 /\ due' = NextTickDelay
        /\ UNCHANGED <<registered, fired, slips, heldUp>>
    BY <1>4 DEF SleepToMinute
  <2>2. wall + NextTickDelay = TicksPerMinute * n
    BY <1>0, <2>0, DelayReaches
  <2>3. n \in Nat /\ TicksPerMinute * n \in Nat
    BY <1>0
  <2>4. WakesFor(n)'
    <3>1. wall' + due' = TicksPerMinute * n
      BY <2>1, <2>2, Zenon
    <3> DEFINE b == TicksPerMinute * n
    <3> HIDE DEF b
    <3>2. wall' + due' = b + owing' /\ owing' < TicksPerMinute /\ owing' = 0
      BY <1>0, <2>1, <2>3, <3>1 DEF b
    <3> QED
      BY <2>1, <3>2 DEF WakesFor, b
  <2>5. Covers(n)'
    <3> SUFFICES ASSUME NEW t \in Trigger, NEW m \in 0..MaxMinute,
                        countsFrom' < m, m < n, t \in Firing(m)'
                 PROVE  fired'[t][m] > 0
      BY <2>1 DEF Covers
    <3>0. m \in Nat /\ m <= Minute(wall) /\ Firing(m)' = Firing(m)
      <4>1. MaxMinute \in Nat
        BY CronNumbers
      <4>2. Firing(m)' = Firing(m)
        BY <2>1 DEF Firing, Reached
      <4> QED
        BY <1>0, <2>0, <4>1, <4>2
    <3>1. CASE cronAt = "started"
      BY <1>0, <1>4, <3>0, <3>1 DEF SleepToMinute
    <3>2. CASE cronAt = "awake"
      <4>1. PICK k \in Nat : WakesFor(k) /\ Covers(k)
        BY <2>1, <3>2 DEF Reckons
      <4>2. Minute(wall) = k
        BY <3>2, <4>1, WokenFor
      <4>3. countsFrom < m /\ (m < k \/ m = k)
        BY <1>4, <3>0, <3>2, <4>2 DEF SleepToMinute
      <4>4. fired[t][m] > 0
        BY <3>0, <3>2, <4>1, <4>3 DEF Covers
      <4> QED
        BY <2>1, <4>4
    <3> QED
      BY <1>4, <3>1, <3>2 DEF SleepToMinute
  <2> QED
    BY <2>3, <2>4, <2>5
<1>5. CASE CronTick
  <2>1. /\ cronAt = "asleep" /\ due = 0 /\ cronAt' = "awake"
        /\ UNCHANGED <<wall, due, registered, slips, owing, heldUp, countsFrom>>
    BY <1>5 DEF CronTick
  <2>2. PICK n \in Nat : WakesFor(n) /\ Covers(n)
    BY <2>1 DEF Reckons
  <2>3. Minute(wall) = n
    BY <2>1, <2>2, WokenFor
  <2>4. WakesFor(n)'
    BY <1>0, <2>1, <2>2 DEF WakesFor
  <2>5. Covers(n)'
    <3> SUFFICES ASSUME NEW t \in Trigger, NEW m \in 0..MaxMinute,
                        countsFrom < m, m < n \/ m = n, t \in Firing(m)
                 PROVE  fired'[t][m] > 0
      BY <2>1 DEF Covers, Firing, Reached
    <3>1. fired'[t][m] = IF m = n THEN fired[t][m] + 1 ELSE fired[t][m]
      BY <1>5, <2>3, TickFires
    <3>2. m < n => fired[t][m] > 0
      BY <2>2 DEF Covers
    <3>3. fired[t][m] \in Nat
      BY DEF CronTypes
    <3> QED
      BY <3>1, <3>2, <3>3
  <2> QED
    BY <2>4, <2>5
<1>6. ASSUME NEW s \in Trigger, AddTrigger(s) \/ RemoveTrigger(s)
      PROVE  \E n \in Nat : (WakesFor(n) /\ Covers(n))'
  <2>1. /\ countsFrom' = Minute(wall)
        /\ UNCHANGED <<wall, cronAt, due, fired, slips, owing, heldUp>>
    BY <1>6 DEF AddTrigger, RemoveTrigger
  <2>2. PICK n \in Nat : WakesFor(n)
    BY <2>1 DEF Reckons
  <2>3. WakesFor(n)'
    BY <2>1, <2>2 DEF WakesFor
  <2>4. Covers(n)'
    <3> SUFFICES ASSUME NEW m \in 0..MaxMinute, Minute(wall) < m,
                        m < n \/ (cronAt = "awake" /\ m = n)
                 PROVE  FALSE
      BY <2>1 DEF Covers
    <3>1. m \in Nat
      <4>1. MaxMinute \in Nat
        BY CronNumbers
      <4> QED
        BY <4>1
    <3>2. cronAt = "awake" => Minute(wall) = n
      BY <2>2, WokenFor
    <3>3. cronAt = "asleep" => n <= Minute(wall) + 1
      BY <2>2, WokenFor
    <3> QED
      BY <1>0, <2>1, <3>1, <3>2, <3>3 DEF Reckons
  <2> QED
    BY <2>3, <2>4
<1>7. CASE UNCHANGED cronVars
  <2>1. PICK n \in Nat : WakesFor(n) /\ Covers(n)
    BY <1>7 DEF cronVars, Reckons
  <2>2. WakesFor(n)' /\ Covers(n)'
    BY <1>7, <2>1 DEF cronVars, WakesFor, Covers, Firing, Reached
  <2> QED
    BY <2>2
<1> QED
  BY <1>1, <1>2, <1>3, <1>4, <1>5, <1>6, <1>7 DEF CronNext

\* Every step keeps it.
LEMMA CronStep == CronInv /\ [CronNext]_cronVars => CronInv'
<1> SUFFICES ASSUME CronInv, [CronNext]_cronVars PROVE CronInv'
  OBVIOUS
<1>1. CronTypes /\ CronTypes'
  BY CronTypesStay DEF CronInv
<1>2. \A t \in Trigger, m \in 0..MaxMinute : FiredRight(t, m)'
  BY <1>1, FiredStays DEF CronInv
<1>3. Reckons' => \E n \in Nat : (WakesFor(n) /\ Covers(n))'
  BY <1>1, CoverStays DEF CronInv
<1> QED
  BY <1>1, <1>2, <1>3 DEF CronInv

\* What the invariant says of minutes.
LEMMA CronHolds == CronInv => CronTypeOK /\ MinutesAreFiredOnce
<1> SUFFICES ASSUME CronInv PROVE CronTypeOK /\ MinutesAreFiredOnce
  OBVIOUS
<1>1. CronTypes
  BY DEF CronInv
<1>2. CronTypeOK
  <2>1. registered \in Seq(Trigger) /\ IsInjective(registered)
    BY <1>1 DEF CronTypes
  <2>2. Len(registered) = Cardinality(ToSet(registered))
    BY <2>1, InjectiveLength
  <2>3. ToSet(registered) \subseteq Trigger
    BY <2>1 DEF ToSet
  <2> QED
    BY <1>1, <2>2, <2>3, Zenon DEF CronTypes, CronTypeOK
<1>3. ASSUME NEW t \in Trigger, NEW m \in 0..MaxMinute,
             cronAt \in {"asleep", "awake"}, slips = 0, ~heldUp,
             countsFrom < m, m < Minute(wall), t \in Firing(m)
      PROVE  fired[t][m] = 1
  <2>1. PICK n \in Nat : WakesFor(n) /\ Covers(n)
    BY <1>3 DEF CronInv, Reckons
  <2>2. Minute(wall) \in Nat /\ m \in Nat
    <3>1. MaxMinute \in Nat /\ Minute(wall) \in 0..MaxMinute
      BY <1>1, CronNumbers
    <3> QED
      BY <3>1
  <2>3. Minute(wall) <= n
    BY <1>1, <1>3, <2>1, <2>2, WokenFor
  <2>4. fired[t][m] > 0
    BY <1>3, <2>1, <2>2, <2>3 DEF Covers
  <2>5. fired[t][m] \in Nat /\ fired[t][m] <= 1 + slips
    BY <1>1 DEF CronTypes, CronInv, FiredRight
  <2> QED
    BY <1>3, <2>4, <2>5
<1>4. MinutesAreFiredOnce
  BY <1>3 DEF CronInv, FiredRight, MinutesAreFiredOnce
<1> QED
  BY <1>2, <1>4

-----------------------------------------------------------------------------
(* Spending and routing *)

\* Of any limit and any sum spent: what pays a dear model pays a cheap one, and the
\* allocator steps down only to a cheaper one.
LEMMA AdvicePays == AdviceIsPayable
<1> SUFFICES ASSUME NEW limit \in 0..MaxLimit, NEW spent \in 0..MaxLimit,
                    NEW size \in 1..MaxSize,
                    NEW m \in DOMAIN TaskCost, Affords(limit, spent, m)
             PROVE  Affords(limit, spent, TaskModel(limit, spent, size))
  BY DEF AdviceIsPayable
<1>0. MaxLimit \in Nat /\ TaskCost \in [{"haiku", "sonnet", "opus"} -> Nat]
      /\ TaskCost["haiku"] <= TaskCost["sonnet"] /\ TaskCost["sonnet"] <= TaskCost["opus"]
  BY BudgetAssumption
<1>1. Left(limit, spent) \in Int
  <2>1. limit - spent \in Int /\ 0 \in Int
    BY <1>0
  <2>2. Max({limit - spent, 0}) = IF limit - spent >= 0 THEN limit - spent ELSE 0
    BY <2>1, MaxOfTwo
  <2> QED
    BY <2>1, <2>2 DEF Left
<1>2. Affords(limit, spent, "haiku")
  BY <1>0, <1>1 DEF Affords
<1> DEFINE r == Recommended(limit, spent)
<1>3. r \in {"haiku", "sonnet"} /\ Affords(limit, spent, r)
  BY <1>2 DEF Recommended
<1>4. TaskModel(limit, spent, size) \in {r, "haiku"}
  BY <1>3 DEF TaskModel
<1> QED
  BY <1>2, <1>3, <1>4

\* Costs of rows add up.
Row == [id : Nat, cost : Nat, at : Nat]

\* The cost of rows is that of any one of them and of the others.
LEMMA CostsAdd ==
    ASSUME NEW R \in SUBSET Row, IsFiniteSet(R)
    PROVE  /\ CostOf({}) = 0
           /\ \A S \in SUBSET R : CostOf(S) \in Nat
           /\ \A S \in SUBSET R : \A x \in S : CostOf(S) = x.cost + CostOf(S \ {x})
<1> DEFINE f == [r \in R |-> r.cost]
<1>1. \A x \in R : f[x] \in Nat
  BY DEF Row
<1>2. ASSUME NEW S \in SUBSET R PROVE CostOf(S) = SumFunctionOnSet(f, S)
  <2> DEFINE g == [r \in S |-> r.cost]
  <2>1. CostOf(S) = SumFunctionOnSet(g, S)
    <3>1. DOMAIN g = S
      OBVIOUS
    <3>2. CostOf(S) = SumFunctionOnSet(g, DOMAIN g)
      BY DEF CostOf, SumFunction
    <3> QED
      BY <3>1, <3>2, Zenon
  <2>2. IsFiniteSet(S) /\ \A x \in S : g[x] = f[x]
    BY FS_Subset
  <2> HIDE DEF f, g
  <2>3. SumFunctionOnSet(g, S) = SumFunctionOnSet(f, S)
    BY <2>2, SumAgrees
  <2> QED
    BY <2>1, <2>3, Zenon
<1> HIDE DEF f
<1>3. CostOf({}) = 0
  <2>1. {} \in SUBSET R
    OBVIOUS
  <2>2. CostOf({}) = SumFunctionOnSet(f, {})
    BY <1>2, <2>1, Zenon
  <2> QED
    BY <2>2, SumOfNone, Zenon
<1>4. \A S \in SUBSET R : CostOf(S) \in Nat
  BY <1>1, <1>2, SumIsNatural
<1>5. ASSUME NEW S \in SUBSET R, NEW x \in S PROVE CostOf(S) = x.cost + CostOf(S \ {x})
  <2>1. SumFunctionOnSet(f, S) = f[x] + SumFunctionOnSet(f, S \ {x})
    BY <1>1, SumSplits
  <2>2. S \ {x} \in SUBSET R /\ f[x] = x.cost
    BY DEF f
  <2>3. CostOf(S) = SumFunctionOnSet(f, S)
        /\ CostOf(S \ {x}) = SumFunctionOnSet(f, S \ {x})
    BY <1>2, <2>2, Zenon
  <2> QED
    BY <2>1, <2>2, <2>3, Zenon
<1> QED
  BY <1>3, <1>4, <1>5

Fields == DOMAIN NoRun

RunOK(r) ==
    /\ DOMAIN r = Fields
    /\ r.at \in {"idle", "readies", "selects", "runs"}
    /\ r.at # "idle" => r.setting \in Setting
    /\ r.under \in Nat

BudgetTypes ==
    /\ inForce \in Setting
    /\ run = [w \in Runner |-> run[w]] /\ \A w \in Runner : RunOK(run[w])
    /\ rows \in SUBSET Row /\ IsFiniteSet(rows)
    /\ \A r \in rows : r.id \in 1..lastRow /\ r.cost \in 1..MaxCost /\ r.at \in 0..now
    /\ lastRow \in Nat /\ now \in Nat /\ pruned \in Nat
    /\ limits \in SUBSET Nat /\ IsFiniteSet(limits)

\* What runs was chosen under the configuration its worker took, with the model its
\* task names if it does, and only the model of an issue that names none is chosen again.
Routed(r) ==
    /\ r.backend \in Config[r.setting].enabled
    /\ r.override \in {"none", r.backend}
    /\ r.at = "selects" => r.kind = "issue" /\ r.wanted = NoModel
    /\ r.wanted # NoModel => r.model = r.wanted
    /\ r.wanted = NoModel /\ r.kind = "prompt" =>
          r.model[1] = r.setting /\ r.model[2] = r.backend

BudgetInv ==
    /\ BudgetTypes
    /\ \A w \in InFlight : Routed(run[w])
    /\ OverrunIsBounded

\* The workers in flight are finitely many, no more than there are workers.
LEMMA InFlightCount ==
    /\ IsFiniteSet(Runner) /\ Cardinality(Runner) \in Nat \ {0}
    /\ \A S \in SUBSET Runner : /\ IsFiniteSet(S) /\ Cardinality(S) \in Nat
                                /\ Cardinality(S) <= Cardinality(Runner)
<1>1. IsFiniteSet(Runner) /\ Runner # {}
  BY BudgetAssumption
<1>2. Cardinality(Runner) \in Nat /\ Cardinality(Runner) # 0
  BY <1>1, FS_CardinalityType, FS_EmptySet
<1>3. \A S \in SUBSET Runner : IsFiniteSet(S) /\ Cardinality(S) <= Cardinality(Runner)
  BY <1>1, FS_Subset
<1>4. \A S \in SUBSET Runner : Cardinality(S) \in Nat
  BY <1>3, FS_CardinalityType
<1> QED
  BY <1>1, <1>2, <1>3, <1>4

\* The month's rows are rows, their cost and the highest limit are numbers.
LEMMA MonthIs ==
    ASSUME BudgetTypes
    PROVE  /\ ThisMonth \in SUBSET rows /\ MonthToDate \in Nat
           /\ Max(limits \cup {0}) \in Nat /\ Max(limits \cup {0}) \in limits \cup {0}
           /\ \A i \in limits : i <= Max(limits \cup {0})
           /\ MonthStart \in Nat /\ MonthStart <= now
<1>1. ThisMonth \in SUBSET rows
  BY DEF ThisMonth
<1>2. rows \in SUBSET Row /\ IsFiniteSet(rows)
  BY DEF BudgetTypes
<1>3. MonthToDate \in Nat
  BY <1>1, <1>2, CostsAdd, Zenon DEF MonthToDate
<1> DEFINE L == limits \cup {0}
<1>4. \A i \in L : i \in Nat
  BY DEF BudgetTypes
<1>5. IsFiniteSet(L) /\ L # {}
  BY FS_AddElement DEF BudgetTypes
<1>6. limits \subseteq L
  OBVIOUS
<1> HIDE DEF L
<1>7. Max(L) \in L /\ \A i \in L : i <= Max(L)
  BY <1>4, <1>5, LargestIs
<1>8. now \in Nat /\ MonthTicks \in Nat \ {0}
  BY BudgetAssumption DEF BudgetTypes
<1>9. MonthStart \in Nat /\ MonthStart <= now
  BY <1>8, Quotient, QuotientIs DEF MonthStart
<1> QED
  BY <1>1, <1>3, <1>4, <1>6, <1>7, <1>9 DEF L

\* At the start nothing is spent and nothing runs.
LEMMA BudgetInitial == BudgetInit => BudgetInv
<1> SUFFICES ASSUME BudgetInit PROVE BudgetInv
  OBVIOUS
<1>1. NoRun.at = "idle" /\ NoRun.under = 0 /\ RunOK(NoRun)
  BY DEF NoRun, RunOK, Fields
<1>2. IsFiniteSet({}) /\ Cardinality({}) = 0
  BY FS_EmptySet
<1>3. \A w \in Runner : run[w] = NoRun
  BY DEF BudgetInit
<1>4. InFlight = {}
  BY <1>1, <1>3 DEF InFlight
<1>5. BudgetTypes
  <2>1. run = [w \in Runner |-> run[w]] /\ \A w \in Runner : RunOK(run[w])
    BY <1>1, <1>3, Zenon DEF BudgetInit
  <2> QED
    BY <1>2, <2>1 DEF BudgetInit, BudgetTypes
<1>6. MonthToDate = 0
  <2>1. ThisMonth = {}
    BY DEF BudgetInit, ThisMonth
  <2>2. {} \in SUBSET Row
    OBVIOUS
  <2> QED
    BY <1>2, <2>1, <2>2, CostsAdd DEF MonthToDate
<1>7. OverrunIsBounded
  <2> DEFINE R == Cardinality(Runner)
  <2>1. R \in Nat \ {0} /\ MaxCost \in Nat \ {0}
    BY InFlightCount, BudgetAssumption
  <2>2. R * MaxCost \in Nat \ {0} /\ 0 * MaxCost = 0
    BY <2>1
  <2>3. Max(limits \cup {0}) \in Nat
    BY <1>5, MonthIs
  <2>4. Cardinality(InFlight) = 0
    BY <1>2, <1>4
  <2> HIDE DEF R
  <2>5. MonthToDate + Cardinality(InFlight) * MaxCost < Max(limits \cup {0}) + R * MaxCost
    BY <1>6, <2>2, <2>3, <2>4
  <2> QED
    BY <2>5 DEF OverrunIsBounded, R
<1> QED
  BY <1>4, <1>5, <1>7 DEF BudgetInv

\* One worker's run changes.
LEMMA RunChanges ==
    ASSUME BudgetInv, NEW w \in Runner, NEW c, run' = [run EXCEPT ![w] = c], RunOK(c),
           c.at \in {"selects", "runs"} => Routed(c)
    PROVE  /\ run' = [v \in Runner |-> run'[v]] /\ \A v \in Runner : RunOK(run'[v])
           /\ \A v \in InFlight' : Routed(run'[v])
           /\ c.at \in {"selects", "runs"} => InFlight' = InFlight \cup {w}
           /\ c.at \notin {"selects", "runs"} => InFlight' = InFlight \ {w}
<1>1. run = [v \in Runner |-> run[v]] /\ \A v \in Runner : RunOK(run[v])
  BY DEF BudgetInv, BudgetTypes
<1>2. run'[w] = c /\ \A v \in Runner \ {w} : run'[v] = run[v]
  BY <1>1
<1>3. run' = [v \in Runner |-> run'[v]]
  BY <1>1
<1>4. \A v \in Runner : RunOK(run'[v])
  BY <1>1, <1>2, Zenon
<1>5. \A v \in InFlight : Routed(run[v])
  BY DEF BudgetInv
<1>6. InFlight' = {v \in Runner : run'[v].at \in {"selects", "runs"}}
  BY DEF InFlight
<1>7. InFlight = {v \in Runner : run[v].at \in {"selects", "runs"}}
  BY DEF InFlight
<1>8. \A v \in InFlight' : Routed(run'[v])
  BY <1>2, <1>5, <1>6, <1>7, Zenon
<1>9. c.at \in {"selects", "runs"} => InFlight' = InFlight \cup {w}
  BY <1>2, <1>6, <1>7
<1>10. c.at \notin {"selects", "runs"} => InFlight' = InFlight \ {w}
  BY <1>2, <1>6, <1>7
<1> QED
  BY <1>3, <1>4, <1>8, <1>9, <1>10

\* Who spends no more under the same limits overruns no more.
LEMMA SpendsNoMore ==
    ASSUME BudgetInv, MonthToDate' = MonthToDate, limits' = limits,
           pruned' = 0 => pruned = 0, InFlight' \subseteq InFlight
    PROVE  OverrunIsBounded'
<1> SUFFICES ASSUME pruned' = 0, 0 \notin limits'
             PROVE  (MonthToDate + Cardinality(InFlight) * MaxCost
                        < Max(limits \cup {0}) + Cardinality(Runner) * MaxCost)'
  BY DEF OverrunIsBounded
<1>1. MonthToDate + Cardinality(InFlight) * MaxCost
        < Max(limits \cup {0}) + Cardinality(Runner) * MaxCost
  BY DEF BudgetInv, OverrunIsBounded
<1> DEFINE n == Cardinality(InFlight)
           n1 == Cardinality(InFlight')
           M == Max(limits \cup {0}) + Cardinality(Runner) * MaxCost
<1>2. InFlight \in SUBSET Runner
  BY DEF InFlight
<1>3. n \in Nat /\ n1 \in Nat /\ n1 <= n
  <2>1. IsFiniteSet(InFlight)
    BY <1>2, InFlightCount
  <2>2. IsFiniteSet(InFlight') /\ n1 <= n
    BY <2>1, FS_Subset
  <2> QED
    BY <2>1, <2>2, FS_CardinalityType
<1>4. MaxCost \in Nat /\ Cardinality(Runner) \in Nat /\ MonthToDate \in Nat
      /\ Max(limits \cup {0}) \in Nat
  BY BudgetAssumption, InFlightCount, MonthIs DEF BudgetInv
<1>5. M \in Nat
  BY <1>4
<1>6. MonthToDate + n * MaxCost < M
  BY <1>1
<1> HIDE DEF n, n1, M
<1>7. n1 * MaxCost \in Nat /\ n * MaxCost \in Nat /\ n1 * MaxCost <= n * MaxCost
  BY <1>3, <1>4, TimesGrows
<1>8. MonthToDate + n1 * MaxCost < M
  BY <1>4, <1>5, <1>6, <1>7
<1>9. (MonthToDate + Cardinality(InFlight) * MaxCost)' = MonthToDate + n1 * MaxCost
  BY DEF n1
<1>10. (Max(limits \cup {0}) + Cardinality(Runner) * MaxCost)' = M
  BY DEF M
<1> QED
  BY <1>8, <1>9, <1>10

\* The month does not change when neither the rows nor the time do.
LEMMA SameMonth ==
    ASSUME UNCHANGED <<rows, now>>
    PROVE  MonthToDate' = MonthToDate /\ ThisMonth' = ThisMonth
  BY DEF MonthToDate, ThisMonth, MonthStart

\* A worker takes a task and what it asks, and has spent nothing.
LEMMA TakeRunKeeps ==
    ASSUME BudgetInv, NEW w \in Runner, NEW ask, TakeRun(w, ask)
    PROVE  BudgetInv'
<1> DEFINE c == [NoRun EXCEPT !.at = "readies", !.setting = inForce,
                  !.kind = ask.kind, !.override = ask.override, !.inRepo = ask.inRepo,
                  !.wanted = ask.wanted]
<1>1. run' = [run EXCEPT ![w] = c]
  BY DEF TakeRun
<1>2. DOMAIN NoRun = Fields /\ {"at", "setting", "under"} \subseteq Fields /\ NoRun.under = 0
  BY DEF NoRun, Fields
<1>3. c.at = "readies" /\ c.setting = inForce /\ c.under = 0 /\ DOMAIN c = Fields
  BY <1>2
<1> HIDE DEF c
<1>4. RunOK(c) /\ c.at \notin {"selects", "runs"}
  BY <1>3 DEF RunOK, BudgetInv, BudgetTypes
<1>5. UNCHANGED <<inForce, rows, lastRow, now, pruned, limits>>
  BY DEF TakeRun
<1>6. /\ run' = [v \in Runner |-> run'[v]] /\ \A v \in Runner : RunOK(run'[v])
      /\ \A v \in InFlight' : Routed(run'[v])
      /\ InFlight' = InFlight \ {w}
  BY <1>1, <1>4, RunChanges
<1>7. BudgetTypes'
  BY <1>5, <1>6 DEF BudgetInv, BudgetTypes
<1>8. OverrunIsBounded'
  BY <1>5, <1>6, SameMonth, SpendsNoMore
<1> QED
  BY <1>6, <1>7, <1>8 DEF BudgetInv

\* A worker gives its task up, or is done with it.
LEMMA RunIsLeft ==
    ASSUME BudgetInv, NEW w \in Runner, run' = [run EXCEPT ![w] = NoRun]
    PROVE  /\ run' = [v \in Runner |-> run'[v]] /\ \A v \in Runner : RunOK(run'[v])
           /\ \A v \in InFlight' : Routed(run'[v])
           /\ InFlight' = InFlight \ {w}
<1>1. RunOK(NoRun) /\ NoRun.at = "idle"
  BY DEF NoRun, RunOK, Fields
<1> HIDE DEF NoRun
<1> QED
  BY <1>1, RunChanges

\* A run starts with the configuration in force, if the budget lets it.
LEMMA StartRunKeeps ==
    ASSUME BudgetInv, NEW w \in Runner, StartRun(w)
    PROVE  BudgetInv'
<1> DEFINE s == run[w].setting
           b == ChooseName(s, run[w].override, run[w].inRepo)
<1>0. UNCHANGED <<inForce, rows, lastRow, now, pruned>>
  BY DEF StartRun
<1> DEFINE selects == /\ run[w].kind = "issue" /\ run[w].wanted = NoModel
                      /\ TiersIn(inForce, b) # {}
<1>1. RunOK(run[w]) /\ run[w].at = "readies" /\ run = [v \in Runner |-> run[v]]
  BY DEF BudgetInv, BudgetTypes, StartRun
<1>2. s \in Setting /\ ConfigOK(Config[s])
  BY <1>1, BudgetAssumption DEF RunOK
<1>3. CASE run' = [run EXCEPT ![w] = NoRun] /\ UNCHANGED limits
  <2>1. /\ run' = [v \in Runner |-> run'[v]] /\ \A v \in Runner : RunOK(run'[v])
        /\ \A v \in InFlight' : Routed(run'[v])
        /\ InFlight' = InFlight \ {w}
    BY <1>3, RunIsLeft
  <2>2. BudgetTypes'
    BY <1>0, <1>3, <2>1 DEF BudgetInv, BudgetTypes
  <2>3. OverrunIsBounded'
    BY <1>0, <1>3, <2>1, SameMonth, SpendsNoMore
  <2> QED
    BY <2>1, <2>2, <2>3 DEF BudgetInv
<1>4. CASE /\ ~Refuses(s) /\ Routable(s, b)
           /\ run' = [run EXCEPT
                  ![w].at = IF selects THEN "selects" ELSE "runs",
                  ![w].backend = b,
                  ![w].model = ModelFor(s, b, run[w].inRepo, run[w].wanted),
                  ![w].tiersOf = IF selects THEN inForce ELSE "none",
                  ![w].under = LimitOf(s)]
           /\ limits' = limits \cup {LimitOf(s)}
  <2> DEFINE at == IF selects THEN "selects" ELSE "runs"
             tiers == IF selects THEN inForce ELSE "none"
             m == ModelFor(s, b, run[w].inRepo, run[w].wanted)
             c == [run[w] EXCEPT !.at = at, !.backend = b, !.model = m,
                                 !.tiersOf = tiers, !.under = LimitOf(s)]
  <2>1. /\ at \in {"selects", "runs"}
        /\ at = "selects" => run[w].kind = "issue" /\ run[w].wanted = NoModel
    OBVIOUS
  <2>2. LimitOf(s) \in Nat
    BY <1>2 DEF LimitOf, ConfigOK
  <2>3. run' = [run EXCEPT ![w] = c]
    <3> DEFINE r == run[w]
    <3>1. run' = [run EXCEPT ![w].at = at, ![w].backend = b, ![w].model = m,
                             ![w].tiersOf = tiers, ![w].under = LimitOf(s)]
      BY <1>4
    <3> HIDE DEF at, b, m, s, tiers
    <3> QED
      BY <1>1, <3>1
  <2>4. DOMAIN run[w] = Fields /\ {"at", "setting", "kind", "override", "inRepo",
                                   "wanted", "backend", "model", "tiersOf", "under"} = Fields
    BY <1>1 DEF RunOK, Fields, NoRun
  <2> HIDE DEF at, b, m, tiers, selects
  <2>5. /\ DOMAIN c = Fields /\ c.at = at /\ c.backend = b /\ c.model = m
        /\ c.under = LimitOf(s) /\ c.setting = s /\ c.kind = run[w].kind
        /\ c.override = run[w].override /\ c.wanted = run[w].wanted
    BY <2>4
  <2> HIDE DEF c
  <2>6. RunOK(c)
    BY <1>2, <2>1, <2>2, <2>5 DEF RunOK
  <2>7. Routed(c)
    <3>1. b \in Config[s].enabled
      BY <1>4 DEF Routable, b
    <3>2. run[w].override \in {"none", b}
      BY DEF b, ChooseName
    <3>3. c.at = "selects" => c.kind = "issue" /\ c.wanted = NoModel
      BY <2>1, <2>5
    <3>4. /\ c.wanted # NoModel => c.model = c.wanted
          /\ c.wanted = NoModel => c.model[1] = c.setting /\ c.model[2] = c.backend
      BY <2>5 DEF m, ModelFor
    <3> HIDE DEF s
    <3> QED
      BY <2>5, <3>1, <3>2, <3>3, <3>4 DEF Routed
  <2>8. /\ run' = [v \in Runner |-> run'[v]] /\ \A v \in Runner : RunOK(run'[v])
        /\ \A v \in InFlight' : Routed(run'[v])
    BY <2>3, <2>6, <2>7, RunChanges
  <2>9. BudgetTypes'
    <3>1. limits' \in SUBSET Nat /\ IsFiniteSet(limits')
      BY <1>4, <2>2, FS_AddElement DEF BudgetInv, BudgetTypes
    <3> QED
      BY <1>0, <2>8, <3>1 DEF BudgetInv, BudgetTypes
  <2>10. OverrunIsBounded'
    <3> SUFFICES ASSUME pruned' = 0, 0 \notin limits'
                 PROVE  (MonthToDate + Cardinality(InFlight) * MaxCost
                            < Max(limits \cup {0}) + Cardinality(Runner) * MaxCost)'
      BY DEF OverrunIsBounded
    <3>1. LimitOf(s) # 0 /\ LimitOf(s) \in limits'
      BY <1>4
    <3>2. MonthToDate < LimitOf(s)
      <4>1. MonthToDate \in Nat
        BY MonthIs DEF BudgetInv
      <4>2. Config[s].hardStop /\ Config[s].limited /\ LimitOf(s) = Config[s].limit
        BY <3>1, Zenon DEF LimitOf
      <4>3. ~(LimitOf(s) > 0 /\ MonthToDate >= LimitOf(s))
        BY <1>4, <4>2, Zenon DEF Refuses, Exceeded
      <4> HIDE DEF s
      <4> QED
        BY <2>2, <3>1, <4>1, <4>3
    <3> DEFINE n1 == Cardinality(InFlight')
               M1 == Max(limits' \cup {0})
               R == Cardinality(Runner)
    <3>3. M1 \in Nat /\ LimitOf(s) <= M1
      <4>1. (Max(limits \cup {0}) \in Nat /\ \A i \in limits : i <= Max(limits \cup {0}))'
        BY <2>9, MonthIs, PTL
      <4> QED
        BY <3>1, <4>1
    <3>4. n1 \in Nat /\ R \in Nat /\ n1 <= R /\ MaxCost \in Nat
      <4>1. InFlight' \in SUBSET Runner
        BY DEF InFlight
      <4> QED
        BY <4>1, InFlightCount, BudgetAssumption
    <3>5. MonthToDate' = MonthToDate /\ MonthToDate \in Nat
      BY <1>0, SameMonth, MonthIs DEF BudgetInv
    <3> HIDE DEF n1, M1, R, s
    <3>6. n1 * MaxCost \in Nat /\ R * MaxCost \in Nat /\ n1 * MaxCost <= R * MaxCost
      BY <3>4, TimesGrows
    <3>7. MonthToDate' + n1 * MaxCost < M1 + R * MaxCost
      BY <2>2, <3>2, <3>3, <3>5, <3>6
    <3> QED
      BY <3>7 DEF n1, M1, R
  <2> QED
    BY <2>8, <2>9, <2>10 DEF BudgetInv
<1>5. RouteWith(w) = s
  BY DEF RouteWith
<1> QED
  BY <1>3, <1>4, <1>5 DEF StartRun

\* The model is selected by the configuration that the run started with.
LEMMA SelectKeeps ==
    ASSUME BudgetInv, NEW w \in Runner,
           (\E t \in Tiers : SelectModel(w, t)) \/ SelectFails(w)
    PROVE  BudgetInv'
<1>0. UNCHANGED <<inForce, rows, lastRow, now, pruned, limits>> /\ run[w].at = "selects"
  BY DEF SelectModel, SelectFails
<1>1. RunOK(run[w]) /\ run = [v \in Runner |-> run[v]] /\ w \in InFlight
      /\ Routed(run[w]) /\ run[w].kind = "issue" /\ run[w].wanted = NoModel
  BY <1>0 DEF BudgetInv, BudgetTypes, Routed, InFlight
<1>2. DOMAIN run[w] = Fields /\ {"at", "setting", "kind", "override", "inRepo",
                                 "wanted", "backend", "model", "tiersOf", "under"} = Fields
  BY <1>1 DEF RunOK, Fields, NoRun
<1>3. PICK c : /\ run' = [run EXCEPT ![w] = c]
               /\ DOMAIN c = Fields /\ c.at = "runs" /\ c.under = run[w].under
               /\ c.setting = run[w].setting /\ c.kind = "issue" /\ c.wanted = NoModel
               /\ c.backend = run[w].backend /\ c.override = run[w].override
  <2>1. CASE SelectFails(w)
    <3> DEFINE c == [run[w] EXCEPT !.at = "runs", !.tiersOf = "none"]
    <3>1. run' = [run EXCEPT ![w] = c]
      BY <1>1, <2>1 DEF SelectFails
    <3>2. /\ DOMAIN c = Fields /\ c.at = "runs" /\ c.under = run[w].under
          /\ c.setting = run[w].setting /\ c.kind = "issue" /\ c.wanted = NoModel
          /\ c.backend = run[w].backend /\ c.override = run[w].override
      BY <1>1, <1>2
    <3> HIDE DEF c
    <3> QED
      BY <3>1, <3>2
  <2>2. CASE \E t \in Tiers : SelectModel(w, t)
    <3>1. PICK t \in Tiers : SelectModel(w, t)
      BY <2>2
    <3> DEFINE m == <<run[w].tiersOf, run[w].backend,
                      SelectTier(run[w].tiersOf, run[w].backend, t)>>
               c == [run[w] EXCEPT !.at = "runs", !.tiersOf = "none", !.model = m]
    <3>2. run' = [run EXCEPT ![w].at = "runs", ![w].tiersOf = "none", ![w].model = m]
      BY <3>1 DEF SelectModel
    <3> HIDE DEF m
    <3>3. run' = [run EXCEPT ![w] = c]
      BY <1>1, <3>2
    <3>4. /\ DOMAIN c = Fields /\ c.at = "runs" /\ c.under = run[w].under
          /\ c.setting = run[w].setting /\ c.kind = "issue" /\ c.wanted = NoModel
          /\ c.backend = run[w].backend /\ c.override = run[w].override
      BY <1>1, <1>2
    <3> HIDE DEF c
    <3> QED
      BY <3>3, <3>4
  <2> QED
    BY <2>1, <2>2
<1>4. RunOK(c) /\ Routed(c)
  BY <1>0, <1>1, <1>3 DEF RunOK, Routed
<1>5. /\ run' = [v \in Runner |-> run'[v]] /\ \A v \in Runner : RunOK(run'[v])
      /\ \A v \in InFlight' : Routed(run'[v])
      /\ InFlight' = InFlight \cup {w}
  BY <1>3, <1>4, RunChanges
<1>6. BudgetTypes'
  BY <1>0, <1>5 DEF BudgetInv, BudgetTypes
<1>7. OverrunIsBounded'
  BY <1>0, <1>1, <1>5, SameMonth, SpendsNoMore
<1> QED
  BY <1>5, <1>6, <1>7 DEF BudgetInv

\* A run that ends without a row, or fails and is retried, leaves no cost.
LEMMA EndUnrecordedKeeps ==
    ASSUME BudgetInv, NEW w \in Runner, EndUnrecorded(w) \/ FailRun(w)
    PROVE  BudgetInv'
<1>0. UNCHANGED <<inForce, rows, lastRow, now, pruned, limits>>
      /\ run' = [run EXCEPT ![w] = NoRun]
  BY DEF EndUnrecorded, FailRun
<1>1. /\ run' = [v \in Runner |-> run'[v]] /\ \A v \in Runner : RunOK(run'[v])
      /\ \A v \in InFlight' : Routed(run'[v])
      /\ InFlight' = InFlight \ {w}
  BY <1>0, RunIsLeft
<1>2. BudgetTypes'
  BY <1>0, <1>1 DEF BudgetInv, BudgetTypes
<1>3. OverrunIsBounded'
  BY <1>0, <1>1, SameMonth, SpendsNoMore
<1> QED
  BY <1>1, <1>2, <1>3 DEF BudgetInv

\* What a prompt's row adds is no more than what its run was counted for.
LEMMA EndPromptKeeps ==
    ASSUME BudgetInv, NEW w \in Runner, NEW cost \in 1..MaxCost, EndPrompt(w, cost)
    PROVE  BudgetInv'
<1> DEFINE x == [id |-> lastRow + 1, cost |-> cost, at |-> now]
<1>0. UNCHANGED <<inForce, now, pruned, limits>> /\ lastRow' = lastRow + 1
      /\ rows' = rows \cup {x} /\ run' = [run EXCEPT ![w] = NoRun]
  BY DEF EndPrompt
<1>1. /\ run' = [v \in Runner |-> run'[v]] /\ \A v \in Runner : RunOK(run'[v])
      /\ \A v \in InFlight' : Routed(run'[v])
      /\ InFlight' = InFlight \ {w}
  BY <1>0, RunIsLeft
<1>2. MaxCost \in Nat /\ cost \in Nat /\ lastRow \in Nat /\ now \in Nat
  BY BudgetAssumption DEF BudgetInv, BudgetTypes
<1>3. x.id = lastRow + 1 /\ x.cost = cost /\ x.at = now /\ x \in Row
  BY <1>2 DEF Row
<1> HIDE DEF x
<1>4. x \notin rows
  BY <1>2, <1>3 DEF BudgetInv, BudgetTypes
<1>5. BudgetTypes'
  <2>1. rows' \in SUBSET Row /\ IsFiniteSet(rows')
    BY <1>0, <1>3, FS_AddElement DEF BudgetInv, BudgetTypes
  <2>2. \A r \in rows' : r.id \in 1..lastRow' /\ r.cost \in 1..MaxCost /\ r.at \in 0..now'
    BY <1>0, <1>2, <1>3 DEF BudgetInv, BudgetTypes
  <2> QED
    BY <1>0, <1>1, <1>2, <2>1, <2>2 DEF BudgetInv, BudgetTypes
<1>6. MonthToDate' = MonthToDate + cost
  <2>1. ThisMonth' = ThisMonth \cup {x}
    <3>1. MonthStart' = MonthStart /\ MonthStart <= now /\ MonthStart \in Nat
      BY <1>0, MonthIs DEF MonthStart, BudgetInv
    <3> QED
      BY <1>0, <1>2, <1>3, <3>1 DEF ThisMonth
  <2>2. rows' \in SUBSET Row /\ IsFiniteSet(rows') /\ ThisMonth' \in SUBSET rows'
    BY <1>5 DEF BudgetTypes, ThisMonth
  <2>3. CostOf(ThisMonth') = x.cost + CostOf(ThisMonth' \ {x})
    BY <2>1, <2>2, CostsAdd
  <2>4. ThisMonth' \ {x} = ThisMonth
    BY <1>4, <2>1 DEF ThisMonth
  <2>5. MonthToDate \in Nat
    BY MonthIs DEF BudgetInv
  <2>6. MonthToDate' = CostOf(ThisMonth') /\ MonthToDate = CostOf(ThisMonth)
    BY DEF MonthToDate, CostOf
  <2> QED
    BY <1>2, <1>3, <2>3, <2>4, <2>5, <2>6
<1>7. OverrunIsBounded'
  <2> SUFFICES ASSUME pruned' = 0, 0 \notin limits'
               PROVE  (MonthToDate + Cardinality(InFlight) * MaxCost
                          < Max(limits \cup {0}) + Cardinality(Runner) * MaxCost)'
    BY DEF OverrunIsBounded
  <2> DEFINE n == Cardinality(InFlight)
             n1 == Cardinality(InFlight')
             M == Max(limits \cup {0}) + Cardinality(Runner) * MaxCost
  <2>1. MonthToDate + n * MaxCost < M
    BY <1>0 DEF BudgetInv, OverrunIsBounded
  <2>2. M \in Nat /\ MonthToDate \in Nat
    BY <1>2, InFlightCount, MonthIs DEF BudgetInv
  <2>3. n1 \in Nat /\ n = n1 + 1
    <3>1. w \in InFlight /\ InFlight \in SUBSET Runner
      BY DEF InFlight, EndPrompt
    <3>2. IsFiniteSet(InFlight)
      BY <3>1, InFlightCount
    <3>3. Cardinality(InFlight \ {w}) = Cardinality(InFlight) - 1
          /\ IsFiniteSet(InFlight \ {w})
      BY <3>1, <3>2, FS_RemoveElement
    <3>4. n1 = Cardinality(InFlight \ {w})
      BY <1>1
    <3>5. n \in Nat /\ n1 \in Nat
      BY <3>2, <3>3, <3>4, FS_CardinalityType
    <3> QED
      BY <3>3, <3>4, <3>5
  <2>4. (Max(limits \cup {0}) + Cardinality(Runner) * MaxCost)' = M
    BY <1>0
  <2> HIDE DEF n, n1, M
  <2>5. n1 * MaxCost \in Nat /\ n * MaxCost = n1 * MaxCost + MaxCost
    BY <1>2, <2>3, TimesGrows
  <2>6. MonthToDate' + n1 * MaxCost < M
    BY <1>2, <1>6, <2>1, <2>2, <2>5
  <2> QED
    BY <2>4, <2>6 DEF n1
<1> QED
  BY <1>1, <1>5, <1>7 DEF BudgetInv

\* A reload changes the configuration in force and no run that has its own.
LEMMA ReloadKeeps ==
    ASSUME BudgetInv, NEW s \in Setting, ReloadConfig(s)
    PROVE  BudgetInv'
<1>0. UNCHANGED <<run, rows, lastRow, now, pruned, limits>> /\ inForce' = s
  BY DEF ReloadConfig
<1>1. InFlight' = InFlight /\ \A w \in InFlight' : Routed(run'[w])
  BY <1>0 DEF InFlight, BudgetInv
<1>2. BudgetTypes'
  BY <1>0 DEF BudgetInv, BudgetTypes
<1>3. OverrunIsBounded'
  BY <1>0, <1>1, SameMonth, SpendsNoMore
<1> QED
  BY <1>1, <1>2, <1>3 DEF BudgetInv

\* What is pruned of the month shows in its history.
LEMMA PruneKeeps ==
    ASSUME BudgetInv, PruneLedger
    PROVE  BudgetInv'
<1> DEFINE old == {r \in rows : r.at < now - Config[inForce].retention}
           gone == old \cap ThisMonth
<1>0. UNCHANGED <<inForce, run, lastRow, now, limits>> /\ rows' = rows \ old
      /\ pruned' = pruned + CostOf(gone)
  BY DEF PruneLedger
<1> HIDE DEF old
<1>1. InFlight' = InFlight /\ \A w \in InFlight' : Routed(run'[w])
  BY <1>0 DEF InFlight, BudgetInv
<1>2. rows \in SUBSET Row /\ IsFiniteSet(rows) /\ gone \in SUBSET rows /\ pruned \in Nat
  BY DEF BudgetInv, BudgetTypes, ThisMonth
<1>3. CostOf(gone) \in Nat
  BY <1>2, CostsAdd
<1>4. BudgetTypes'
  <2>1. rows' \in SUBSET Row /\ IsFiniteSet(rows') /\ rows' \subseteq rows
    BY <1>0, <1>2, FS_Subset
  <2>2. \A r \in rows' : r.id \in 1..lastRow' /\ r.cost \in 1..MaxCost /\ r.at \in 0..now'
    BY <1>0, <2>1 DEF BudgetInv, BudgetTypes
  <2> QED
    BY <1>0, <1>2, <1>3, <2>1, <2>2 DEF BudgetInv, BudgetTypes
<1>5. ASSUME pruned' = 0 PROVE pruned = 0 /\ MonthToDate' = MonthToDate
  <2>1. pruned = 0 /\ CostOf(gone) = 0
    BY <1>0, <1>2, <1>3, <1>5
  <2>2. gone = {}
    <3> SUFFICES ASSUME NEW x \in gone PROVE FALSE
      OBVIOUS
    <3>1. CostOf(gone) = x.cost + CostOf(gone \ {x}) /\ CostOf(gone \ {x}) \in Nat
      <4>1. gone \ {x} \in SUBSET rows
        BY <1>2
      <4> QED
        BY <1>2, <4>1, CostsAdd
    <3>2. x.cost \in 1..MaxCost
      BY <1>2 DEF BudgetInv, BudgetTypes
    <3> QED
      BY <2>1, <3>1, <3>2, BudgetAssumption
  <2>3. ThisMonth' = ThisMonth
    <3>1. ThisMonth' = {r \in rows' : r.at >= MonthStart}
      BY <1>0 DEF ThisMonth, MonthStart
    <3> QED
      BY <1>0, <2>2, <3>1 DEF ThisMonth
  <2> QED
    BY <2>1, <2>3 DEF MonthToDate
<1>6. OverrunIsBounded'
  <2>1. CASE pruned' = 0
    BY <1>0, <1>1, <1>5, <2>1, SpendsNoMore
  <2>2. CASE pruned' # 0
    BY <2>2 DEF OverrunIsBounded
  <2> QED
    BY <2>1, <2>2
<1> QED
  BY <1>1, <1>4, <1>6 DEF BudgetInv

\* A month begins at a multiple of its ticks, and only there.
LEMMA MonthBegins ==
    ASSUME now \in Nat, now' = now + 1
    PROVE  /\ now' % MonthTicks = 0 => MonthStart' = now'
           /\ now' % MonthTicks # 0 => MonthStart' = MonthStart
<1> DEFINE d == MonthTicks
           q == now \div d
           q1 == now' \div d
<1>1. d \in Nat \ {0}
  BY BudgetAssumption
<1>2. q \in Nat /\ d * q <= now /\ now < d * q + d
  BY <1>1, Quotient
<1>3. q1 \in Nat /\ d * q1 <= now' /\ now' < d * q1 + d
  BY <1>1, Quotient
<1>4. now' % d = now' - d * q1
  BY <1>1
<1>5. MonthStart = d * q /\ MonthStart' = d * q1
  BY DEF MonthStart
<1>6. d * q \in Nat /\ d * q1 \in Nat
  BY <1>1, <1>2, <1>3
<1>7. ASSUME now' % d # 0 PROVE q1 = q
  <2>1. d * q1 # now'
    BY <1>3, <1>4, <1>6, <1>7
  <2>2. d * q1 <= now /\ now < d * q1 + d
    <3> HIDE DEF d, q, q1
    <3> QED
      BY <1>1, <1>3, <1>6, <2>1
  <2> HIDE DEF q1
  <2> QED
    BY <1>1, <1>3, <2>2, QuotientIs
<1>8. ASSUME now' % d = 0 PROVE d * q1 = now'
  BY <1>3, <1>4, <1>6, <1>8
<1> QED
  BY <1>5, <1>7, <1>8

\* Time passes: rows age and are pruned, and what they cost is remembered.
LEMMA PassTimeKeeps ==
    ASSUME BudgetInv, PassTime
    PROVE  BudgetInv'
<1>0. UNCHANGED <<inForce, run, rows, lastRow>> /\ now' = now + 1 /\ now \in Nat
  BY DEF PassTime, BudgetInv, BudgetTypes
<1>1. InFlight' = InFlight /\ \A w \in InFlight' : Routed(run'[w])
  BY <1>0 DEF InFlight, BudgetInv
<1>2. InFlight \in SUBSET Runner /\ IsFiniteSet(InFlight)
  BY InFlightCount DEF InFlight
<1>3. \A r \in rows' : r.id \in 1..lastRow' /\ r.cost \in 1..MaxCost /\ r.at \in 0..now'
  BY <1>0 DEF BudgetInv, BudgetTypes
<1>4. CASE now' % MonthTicks # 0
  <2>1. UNCHANGED <<pruned, limits>>
    BY <1>4 DEF PassTime
  <2>2. BudgetTypes'
    BY <1>0, <1>3, <2>1 DEF BudgetInv, BudgetTypes
  <2>3. MonthStart' = MonthStart
    BY <1>0, <1>4, MonthBegins
  <2>4. MonthToDate' = MonthToDate
    BY <1>0, <2>3 DEF MonthToDate, ThisMonth
  <2>5. OverrunIsBounded'
    BY <1>1, <2>1, <2>4, SpendsNoMore
  <2> QED
    BY <1>1, <2>2, <2>5 DEF BudgetInv
<1>5. CASE now' % MonthTicks = 0
  <2> DEFINE L == {run[w].under : w \in InFlight}
  <2>1. pruned' = 0 /\ limits' = L
    BY <1>5 DEF PassTime
  <2>2. L \in SUBSET Nat
    BY <1>2 DEF BudgetInv, BudgetTypes, RunOK
  <2>3. IsFiniteSet(L)
    <3> DEFINE f == [w \in InFlight |-> run[w].under]
    <3>1. f \in Surjection(InFlight, L)
      BY DEF Surjection
    <3> QED
      BY <1>2, <3>1, FS_Surjection
  <2>4. BudgetTypes'
    BY <1>0, <1>3, <2>1, <2>2, <2>3 DEF BudgetInv, BudgetTypes
  <2>5. MonthToDate' = 0
    <3>1. MonthStart' = now'
      BY <1>0, <1>5, MonthBegins
    <3>2. \A r \in rows : r.at \in 0..now
      BY DEF BudgetInv, BudgetTypes
    <3>3. ThisMonth' = {}
      BY <1>0, <3>1, <3>2 DEF ThisMonth
    <3>4. {} \in SUBSET Row /\ IsFiniteSet({})
      BY FS_EmptySet
    <3> QED
      BY <3>3, <3>4, CostsAdd DEF MonthToDate
  <2>6. OverrunIsBounded'
    <3> SUFFICES ASSUME 0 \notin limits'
                 PROVE  (MonthToDate + Cardinality(InFlight) * MaxCost
                            < Max(limits \cup {0}) + Cardinality(Runner) * MaxCost)'
      BY DEF OverrunIsBounded
    <3> DEFINE n == Cardinality(InFlight)
               M1 == Max(limits' \cup {0})
               R == Cardinality(Runner)
    <3>1. MaxCost \in Nat \ {0} /\ R \in Nat \ {0} /\ n \in Nat /\ n <= R
      BY <1>2, BudgetAssumption, InFlightCount
    <3>2. M1 \in Nat /\ \A i \in limits' : i <= M1
      <4>1. (Max(limits \cup {0}) \in Nat /\ \A i \in limits : i <= Max(limits \cup {0}))'
        BY <2>4, MonthIs, PTL
      <4> QED
        BY <4>1
    <3>3. CASE InFlight = {}
      <4>1. n = 0
        BY <3>3, FS_EmptySet
      <4> HIDE DEF n, M1, R
      <4>2. R * MaxCost \in Nat \ {0} /\ n * MaxCost = 0
        BY <3>1, <4>1
      <4>3. 0 + n * MaxCost < M1 + R * MaxCost
        BY <3>2, <4>2
      <4> QED
        BY <1>1, <2>5, <4>3 DEF n, M1, R
    <3>4. CASE InFlight # {}
      <4>1. PICK w \in InFlight : TRUE
        BY <3>4
      <4>2. run[w].under \in limits' /\ run[w].under \in Nat
        BY <2>1, <2>2, <4>1
      <4>3. M1 > 0
        BY <3>2, <4>2
      <4> HIDE DEF n, M1, R
      <4>4. n * MaxCost \in Nat /\ R * MaxCost \in Nat /\ n * MaxCost <= R * MaxCost
        BY <3>1, TimesGrows
      <4>5. 0 + n * MaxCost < M1 + R * MaxCost
        BY <3>2, <4>3, <4>4
      <4> QED
        BY <1>1, <2>5, <4>5 DEF n, M1, R
    <3> QED
      BY <3>3, <3>4
  <2> QED
    BY <1>1, <2>4, <2>6 DEF BudgetInv
<1> QED
  BY <1>4, <1>5

\* Each step of runs, reloads and the clock keeps the invariant.
LEMMA BudgetStep == BudgetInv /\ [BudgetNext]_runVars => BudgetInv'
<1> SUFFICES ASSUME BudgetInv, [BudgetNext]_runVars PROVE BudgetInv'
  OBVIOUS
<1>1. CASE UNCHANGED runVars
  <2>1. UNCHANGED <<inForce, run, rows, lastRow, now, pruned, limits>>
    BY <1>1 DEF runVars
  <2>2. InFlight' = InFlight /\ \A w \in InFlight' : Routed(run'[w])
    BY <2>1 DEF InFlight, BudgetInv
  <2>3. BudgetTypes'
    BY <2>1 DEF BudgetInv, BudgetTypes
  <2>4. OverrunIsBounded'
    BY <2>1, <2>2, SameMonth, SpendsNoMore
  <2> QED
    BY <2>2, <2>3, <2>4 DEF BudgetInv
<1>2. CASE BudgetNext
  BY <1>2, TakeRunKeeps, StartRunKeeps, SelectKeeps, EndUnrecordedKeeps, EndPromptKeeps,
     ReloadKeeps, PruneKeeps, PassTimeKeeps DEF BudgetNext
<1> QED
  BY <1>1, <1>2

\* The invariant says that the overrun is bounded and that routing is of one snapshot.
LEMMA BudgetHolds ==
    BudgetInv => BudgetTypeOK /\ OverrunIsBounded /\ RoutedBySnapshot /\ AdviceIsPayable
<1> SUFFICES ASSUME BudgetInv
             PROVE  BudgetTypeOK /\ OverrunIsBounded /\ RoutedBySnapshot /\ AdviceIsPayable
  OBVIOUS
<1>1. BudgetTypeOK
  BY DEF BudgetInv, BudgetTypes, BudgetTypeOK, RunOK
<1>2. RoutedBySnapshot
  BY DEF BudgetInv, RoutedBySnapshot, Routed
<1> QED
  BY <1>1, <1>2, AdvicePays DEF BudgetInv

-----------------------------------------------------------------------------
(* The control plane's page *)

\* What a run has not saved yet is a row that still says it runs.
Unwritten ==
    /\ hand = "ending" /\ jobRow.status = "running" /\ jobRow.waived = 0
    /\ job.status \in {"completed", "failed"} /\ job.waived = 0

ControlInv ==
    /\ ControlTypeOK /\ WaivedFailureStays
    /\ jobRow.status = "queued" => jobRow.waived = 0
    /\ hand # "none" => inMemory
    /\ hand = "running" => job.status = "running"
    /\ ~unsaved => jobRow = job \/ Unwritten

\* There is no job, and no page has been loaded.
LEMMA ControlInitial == ControlInit => ControlInv
<1> SUFFICES ASSUME ControlInit PROVE ControlInv
  OBVIOUS
<1>1. job.status = "queued" /\ job.waived = 0 /\ job \in Job /\ jobRow = job
  BY DEF ControlInit, Job
<1>2. page \in [Watcher -> Job]
  BY <1>1 DEF ControlInit
<1>3. inMemory = TRUE /\ entered = TRUE /\ unsaved = FALSE /\ hand = "none" /\ failures = 0
  BY DEF ControlInit
<1>4. {inMemory, entered, unsaved} \subseteq BOOLEAN
  BY <1>3, Zenon
<1>5. failures \in 0..MaxFailures
  BY <1>3, ControlAssumption
<1>6. ControlTypeOK
  BY <1>1, <1>2, <1>3, <1>4, <1>5, Zenon DEF ControlTypeOK
<1> QED
  BY <1>1, <1>3, <1>6 DEF ControlInv, WaivedFailureStays, IsWaived

\* A status written over a task leaves its waiver, and a waiver its status.
LEMMA JobFields ==
    ASSUME NEW t \in Job
    PROVE  /\ t.status \in {"queued", "running", "completed", "failed", "cancelled"}
           /\ t.waived \in Nat
           /\ \A s \in {"queued", "running", "completed", "failed", "cancelled"} :
                /\ [t EXCEPT !.status = s] \in Job
                /\ [t EXCEPT !.status = s].status = s
                /\ [t EXCEPT !.status = s].waived = t.waived
           /\ \A n \in Nat :
                /\ [t EXCEPT !.waived = n] \in Job
                /\ [t EXCEPT !.waived = n].status = t.status
                /\ [t EXCEPT !.waived = n].waived = n
           /\ Requeued \in Job /\ Requeued.status = "queued" /\ Requeued.waived = 0
  BY DEF Job, Requeued

\* The invariant after a step, from what it asks of the two records.
LEMMA ControlPart ==
    ASSUME ControlInv, ControlTypeOK',
           inMemory' /\ job'.waived # 0 => job'.status = "failed" /\ job'.waived = failures',
           ~unsaved' /\ jobRow'.waived # 0
               => jobRow'.status = "failed" /\ jobRow'.waived = failures',
           jobRow'.status = "queued" => jobRow'.waived = 0,
           hand' # "none" => inMemory',
           hand' = "running" => job'.status = "running",
           ~unsaved' => jobRow' = job' \/ Unwritten'
    PROVE  ControlInv'
  BY DEF ControlInv, WaivedFailureStays, IsWaived

\* What a save of the whole row leaves.
LEMMA SaveJobIs ==
    ASSUME SaveJob, ControlInv, job' \in Job
    PROVE  /\ jobRow' \in Job /\ unsaved' \in BOOLEAN
           /\ jobRow' = job' \/ (jobRow' = jobRow /\ unsaved')
           /\ ~unsaved' => ~unsaved
<1>1. jobRow \in Job /\ unsaved \in BOOLEAN
  BY Zenon DEF ControlInv, ControlTypeOK
<1>2. CASE jobRow' = job' /\ UNCHANGED unsaved
  BY <1>1, <1>2, Zenon
<1>3. CASE unsaved' = TRUE /\ UNCHANGED jobRow
  BY <1>1, <1>3, Zenon
<1> QED
  BY <1>2, <1>3 DEF SaveJob, StoreFails

\* A page is loaded from what is so.
LEMMA PagesStay ==
    ASSUME ControlInv, NEW o \in Watcher, Look(o)
    PROVE  ControlInv'
<1>1. UNCHANGED <<job, inMemory, jobRow, entered, hand, failures, unsaved>>
      /\ page' \in [Watcher -> Job]
  BY DEF Look, ControlInv, ControlTypeOK
<1>2. ControlTypeOK'
  BY <1>1 DEF ControlInv, ControlTypeOK
<1> QED
  BY <1>1, <1>2, ControlPart DEF ControlInv, WaivedFailureStays, IsWaived, Unwritten

\* A retry pressed on a page acts on the job as it is now.
LEMMA RetryKeeps ==
    ASSUME ControlInv, NEW o \in Watcher, PressRetry(o)
    PROVE  ControlInv'
<1>1. job' = Requeued /\ UNCHANGED <<page, inMemory, entered, hand, failures>>
      /\ SaveJob /\ inMemory /\ job.status = "failed" /\ job.waived = 0
  BY DEF PressRetry, Grants, Expected, IsWaived
<1>2. job' \in Job /\ job'.status = "queued" /\ job'.waived = 0
  BY <1>1, JobFields DEF ControlInv, ControlTypeOK
<1>3. /\ jobRow' \in Job /\ unsaved' \in BOOLEAN
      /\ jobRow' = job' \/ (jobRow' = jobRow /\ unsaved')
      /\ ~unsaved' => ~unsaved
  BY <1>1, <1>2, SaveJobIs
<1>4. ControlTypeOK'
  BY <1>1, <1>2, <1>3 DEF ControlInv, ControlTypeOK
<1> QED
  BY <1>1, <1>2, <1>3, <1>4, ControlPart DEF ControlInv

\* A waiver is of a failure, and is remembered.
LEMMA WaiveKeeps ==
    ASSUME ControlInv, NEW o \in Watcher, PressWaive(o)
    PROVE  ControlInv'
<1>1. job' = [job EXCEPT !.waived = failures] /\ SaveJob /\ job.status = "failed"
      /\ UNCHANGED <<page, inMemory, entered, hand, failures>>
  BY DEF PressWaive, Grants, Expected
<1>2. job' \in Job /\ job'.status = "failed" /\ job'.waived = failures
  <2>1. job \in Job /\ failures \in Nat
    BY ControlAssumption DEF ControlInv, ControlTypeOK
  <2>2. LET u == [job EXCEPT !.waived = failures]
        IN  u \in Job /\ u.status = job.status /\ u.waived = failures
    BY <2>1 DEF Job
  <2> QED
    BY <1>1, <2>2, Zenon
<1>3. /\ jobRow' \in Job /\ unsaved' \in BOOLEAN
      /\ jobRow' = job' \/ (jobRow' = jobRow /\ unsaved')
      /\ ~unsaved' => ~unsaved
  BY <1>1, <1>2, SaveJobIs
<1>4. ControlTypeOK'
  BY <1>1, <1>2, <1>3 DEF ControlInv, ControlTypeOK
<1> QED
  BY <1>1, <1>2, <1>3, <1>4, ControlPart DEF ControlInv

\* A cancelled job is over.
LEMMA CancelKeeps ==
    ASSUME ControlInv, CancelJob
    PROVE  ControlInv'
<1>1. job' = [job EXCEPT !.status = "cancelled"] /\ inMemory
      /\ job.status \in {"queued", "cancelled"} /\ WriteStatus
      /\ UNCHANGED <<page, inMemory, entered, hand, failures>>
  BY DEF CancelJob
<1>2. job \in Job /\ jobRow \in Job /\ job.waived = 0
  BY <1>1 DEF ControlInv, ControlTypeOK, WaivedFailureStays, IsWaived
<1>3. job' \in Job /\ job'.status = "cancelled" /\ job'.waived = 0
  BY <1>1, <1>2, JobFields
<1>4. CASE jobRow' = [jobRow EXCEPT !.status = "cancelled"] /\ UNCHANGED unsaved
  <2>1. jobRow' \in Job /\ jobRow'.status = "cancelled" /\ jobRow'.waived = jobRow.waived
    BY <1>2, <1>4, JobFields
  <2>2. ~unsaved => jobRow = job
    BY <1>1 DEF ControlInv, Unwritten
  <2>3. ~unsaved' => jobRow' = job' /\ jobRow'.waived = 0
    BY <1>1, <1>3, <1>4, <2>2
  <2>4. ControlTypeOK'
    BY <1>1, <1>3, <1>4, <2>1 DEF ControlInv, ControlTypeOK
  <2> QED
    BY <1>1, <1>3, <2>1, <2>3, <2>4, ControlPart DEF ControlInv
<1>5. CASE unsaved' = TRUE /\ UNCHANGED jobRow
  <2>1. ControlTypeOK'
    BY <1>1, <1>3, <1>5 DEF ControlInv, ControlTypeOK
  <2> QED
    BY <1>1, <1>3, <1>5, <2>1, ControlPart DEF ControlInv
<1> QED
  BY <1>1, <1>3, <1>4, <1>5 DEF WriteStatus, StoreFails

\* A job that is queued is taken to be run.
LEMMA TakeJobKeeps ==
    ASSUME ControlInv, TakeJob
    PROVE  ControlInv'
<1>0. UNCHANGED <<page, inMemory, failures>> /\ hand = "none"
  BY DEF TakeJob
<1>1. job \in Job /\ jobRow \in Job /\ {inMemory, entered, unsaved} \subseteq BOOLEAN
  BY DEF ControlInv, ControlTypeOK
<1>2. CASE /\ job' = [job EXCEPT !.status = "running"]
           /\ jobRow' = [jobRow EXCEPT !.status = "running"]
           /\ hand' = "running" /\ entered' = FALSE
           /\ UNCHANGED <<storeFaults, unsaved>>
           /\ job.status = "queued" /\ inMemory
  <2>1. job' \in Job /\ job'.status = "running" /\ job'.waived = job.waived
    BY <1>1, <1>2, JobFields
  <2>2. jobRow' \in Job /\ jobRow'.status = "running" /\ jobRow'.waived = jobRow.waived
    BY <1>1, <1>2, JobFields
  <2>3. job.waived = 0
    BY <1>2 DEF ControlInv, WaivedFailureStays, IsWaived
  <2>4. ~unsaved' => jobRow = job /\ jobRow' = job'
    BY <1>0, <1>2 DEF ControlInv, Unwritten
  <2>5. {inMemory, entered, unsaved}' \subseteq BOOLEAN
    BY <1>0, <1>1, <1>2, Zenon
  <2>6. ControlTypeOK'
    BY <1>0, <1>2, <2>1, <2>2, <2>5 DEF ControlInv, ControlTypeOK
  <2> QED
    BY <1>0, <1>2, <2>1, <2>2, <2>3, <2>4, <2>6, ControlPart
<1>3. CASE UNCHANGED <<job, jobRow, hand>> /\ unsaved' \in {unsaved, TRUE}
           /\ entered' \in {entered, FALSE}
  <2>1. {inMemory, entered, unsaved}' \subseteq BOOLEAN /\ (~unsaved' => ~unsaved)
    <3>1. entered' \in BOOLEAN
      BY <1>1, <1>3, Zenon
    <3>2. unsaved' \in BOOLEAN /\ (~unsaved' => ~unsaved)
      <4>1. CASE unsaved' = unsaved
        BY <1>1, <4>1, Zenon
      <4>2. CASE unsaved' = TRUE
        BY <4>2
      <4> QED
        BY <1>3, <4>1, <4>2
    <3> QED
      BY <1>0, <1>1, <3>1, <3>2, Zenon
  <2>2. ControlTypeOK'
    BY <1>0, <1>3, <2>1 DEF ControlInv, ControlTypeOK
  <2> QED
    BY <1>0, <1>3, <2>1, <2>2, ControlPart
    DEF ControlInv, WaivedFailureStays, IsWaived, Unwritten
<1>4. CASE ~(job.status = "queued" /\ inMemory)
  <2>1. UNCHANGED <<job, jobRow, hand, unsaved>> /\ entered' = FALSE
    BY <1>4 DEF TakeJob
  <2> QED
    BY <1>3, <2>1, Zenon
<1>5. CASE StoreFails /\ UNCHANGED <<job, jobRow, hand, entered>>
  <2>1. unsaved' = TRUE
    BY <1>5 DEF StoreFails
  <2> QED
    BY <1>3, <1>5, <2>1, Zenon
<1> QED
  BY <1>2, <1>4, <1>5 DEF TakeJob

\* A run ends as it does, in the daemon's memory.
LEMMA RunEndsKeeps ==
    ASSUME ControlInv, NEW s \in {"completed", "failed"}, RunEnds(s)
    PROVE  ControlInv'
<1>0. UNCHANGED <<page, inMemory, jobRow, entered, unsaved>> /\ hand = "running"
      /\ hand' = "ending" /\ job.status = "running" /\ job' = [job EXCEPT !.status = s]
      /\ failures' \in {failures, failures + 1} /\ (s # "failed" => failures' = failures)
      /\ (s = "failed" => failures < MaxFailures)
  BY DEF RunEnds
<1>1. job \in Job /\ jobRow \in Job /\ failures \in 0..MaxFailures
  BY DEF ControlInv, ControlTypeOK
<1>2. job' \in Job /\ job'.status = s /\ job'.waived = job.waived
  <2>1. LET u == [job EXCEPT !.status = s]
        IN  u \in Job /\ u.status = s /\ u.waived = job.waived
    BY <1>1 DEF Job
  <2> QED
    BY <1>0, <2>1, Zenon
<1>3. inMemory /\ job.waived = 0
  BY <1>0 DEF ControlInv, WaivedFailureStays, IsWaived
<1>4. ~unsaved => jobRow = job
  BY <1>0 DEF ControlInv, Unwritten
<1>5. failures' \in 0..MaxFailures
  BY <1>0, <1>1, ControlAssumption
<1>6. ControlTypeOK'
  BY <1>0, <1>2, <1>5 DEF ControlInv, ControlTypeOK
<1>7. ~unsaved' => Unwritten'
  BY <1>0, <1>2, <1>3, <1>4 DEF Unwritten
<1>8. ~unsaved' => jobRow'.waived = 0
  BY <1>0, <1>3, <1>4
<1>9. jobRow'.status = "queued" => jobRow'.waived = 0
  BY <1>0 DEF ControlInv
<1> QED
  BY <1>0, <1>2, <1>3, <1>6, <1>7, <1>8, <1>9, ControlPart

\* The end of a run is recorded.
LEMMA EndJobKeeps ==
    ASSUME ControlInv, EndJob
    PROVE  ControlInv'
<1>0. UNCHANGED <<page, inMemory, entered, failures, job>> /\ SaveJob
      /\ hand = "ending" /\ hand' = "none"
  BY DEF EndJob
<1>1. job \in Job /\ inMemory
  BY <1>0 DEF ControlInv, ControlTypeOK
<1>2. /\ jobRow' \in Job /\ unsaved' \in BOOLEAN
      /\ jobRow' = job' \/ (jobRow' = jobRow /\ unsaved')
      /\ ~unsaved' => ~unsaved
  BY <1>0, <1>1, SaveJobIs
<1>3. ControlTypeOK'
  BY <1>0, <1>2 DEF ControlInv, ControlTypeOK
<1>4. job.waived # 0 => job.status = "failed" /\ job.waived = failures
  BY <1>1 DEF ControlInv, WaivedFailureStays, IsWaived
<1> QED
  BY <1>0, <1>1, <1>2, <1>3, <1>4, ControlPart DEF ControlInv

\* The watchdog calls a job stalled.
LEMMA StallKeeps ==
    ASSUME ControlInv, StallJob
    PROVE  ControlInv'
<1>0. UNCHANGED <<page, inMemory, entered>> /\ SaveJob /\ failures < MaxFailures
      /\ failures' = failures + 1 /\ hand = "running" /\ hand' = "stalled"
      /\ job' = [job EXCEPT !.status = "failed"]
  BY DEF StallJob
<1>1. job \in Job /\ inMemory /\ failures \in 0..MaxFailures /\ job.status = "running"
  BY <1>0 DEF ControlInv, ControlTypeOK
<1>2. job' \in Job /\ job'.status = "failed" /\ job'.waived = job.waived
  BY <1>0, <1>1, JobFields
<1>3. job.waived = 0
  BY <1>1 DEF ControlInv, WaivedFailureStays, IsWaived
<1>4. /\ jobRow' \in Job /\ unsaved' \in BOOLEAN
      /\ jobRow' = job' \/ (jobRow' = jobRow /\ unsaved')
  BY <1>0, <1>2, SaveJobIs
<1>5. failures' \in 0..MaxFailures
  BY <1>0, <1>1, ControlAssumption
<1>6. ControlTypeOK'
  BY <1>0, <1>2, <1>4, <1>5 DEF ControlInv, ControlTypeOK
<1> QED
  BY <1>0, <1>1, <1>2, <1>3, <1>4, <1>6, ControlPart DEF ControlInv

\* A stalled job is queued again.
LEMMA RetryStalledKeeps ==
    ASSUME ControlInv, RetryStalled
    PROVE  ControlInv'
<1>0. UNCHANGED <<page, inMemory, failures>> /\ hand = "stalled" /\ hand' = "none"
  BY DEF RetryStalled
<1>1. CASE job' = Requeued /\ SaveJob /\ entered' \in {TRUE, entered} /\ inMemory
  <2>1. job' \in Job /\ job'.status = "queued" /\ job'.waived = 0
    BY <1>1, JobFields DEF ControlInv, ControlTypeOK
  <2>2. /\ jobRow' \in Job /\ unsaved' \in BOOLEAN
        /\ jobRow' = job' \/ (jobRow' = jobRow /\ unsaved')
    BY <1>1, <2>1, SaveJobIs
  <2>3. {inMemory, entered, unsaved}' \subseteq BOOLEAN
    BY <1>0, <1>1, <2>2, Zenon DEF ControlInv, ControlTypeOK
  <2>4. ControlTypeOK'
    BY <1>0, <2>1, <2>2, <2>3 DEF ControlInv, ControlTypeOK
  <2> QED
    BY <1>0, <1>1, <2>1, <2>2, <2>4, ControlPart DEF ControlInv
<1>2. CASE UNCHANGED <<job, jobRow, entered, unsaved>>
  <2>1. ControlTypeOK'
    BY <1>0, <1>2 DEF ControlInv, ControlTypeOK
  <2> QED
    BY <1>0, <1>2, <2>1, ControlPart
    DEF ControlInv, WaivedFailureStays, IsWaived, Unwritten
<1>3. RetryStalled => \/ /\ job' = Requeued /\ SaveJob
                         /\ entered' \in {TRUE, entered} /\ inMemory
                      \/ UNCHANGED <<job, jobRow, entered, unsaved>>
  BY Zenon DEF RetryStalled
<1> QED
  BY <1>1, <1>2, <1>3

\* A job that is over is evicted.
LEMMA EvictKeeps ==
    ASSUME ControlInv, EvictJob
    PROVE  ControlInv'
<1>0. UNCHANGED <<page, job, jobRow, entered, hand, failures, unsaved>>
      /\ hand = "none" /\ inMemory' = FALSE
  BY DEF EvictJob
<1>1. {inMemory, entered, unsaved}' \subseteq BOOLEAN
  BY <1>0, Zenon DEF ControlInv, ControlTypeOK
<1>2. ControlTypeOK'
  BY <1>0, <1>1 DEF ControlInv, ControlTypeOK
<1> QED
  BY <1>0, <1>2, ControlPart DEF ControlInv, WaivedFailureStays, IsWaived, Unwritten

\* A restart of the daemon reads what was recorded.
LEMMA RestartKeeps ==
    ASSUME ControlInv, RestartJob
    PROVE  ControlInv'
<1>0. UNCHANGED <<page, unsaved>> /\ hand' = "none" /\ job' = jobRow'
      /\ inMemory' = (jobRow.status = "queued") /\ entered' = (jobRow.status = "queued")
  BY DEF RestartJob
<1>1. jobRow \in Job /\ failures \in 0..MaxFailures
  BY DEF ControlInv, ControlTypeOK
<1>2. {inMemory, entered, unsaved}' \subseteq BOOLEAN
  <2>1. (jobRow.status = "queued") \in BOOLEAN
    BY Zenon
  <2>2. unsaved' \in BOOLEAN
    BY <1>0, Zenon DEF ControlInv, ControlTypeOK
  <2> QED
    BY <1>0, <2>1, <2>2, Zenon
<1>3. CASE jobRow.status = "running"
  <2>1. jobRow' = [jobRow EXCEPT !.status = "failed"] /\ failures' = failures + 1
        /\ failures < MaxFailures
    BY <1>3 DEF RestartJob
  <2>2. jobRow' \in Job /\ jobRow'.status = "failed" /\ jobRow'.waived = jobRow.waived
    BY <1>1, <2>1, JobFields
  <2>3. ~unsaved => jobRow.waived = 0
    BY <1>3 DEF ControlInv, WaivedFailureStays, IsWaived
  <2>4. failures' \in 0..MaxFailures
    BY <1>1, <2>1, ControlAssumption
  <2>5. ControlTypeOK'
    BY <1>0, <1>2, <2>2, <2>4 DEF ControlInv, ControlTypeOK
  <2>6. ~inMemory'
    BY <1>0, <1>3
  <2> QED
    BY <1>0, <2>2, <2>3, <2>5, <2>6, ControlPart
<1>4. CASE jobRow.status # "running"
  <2>1. UNCHANGED <<jobRow, failures>>
    BY <1>4 DEF RestartJob
  <2>2. ControlTypeOK'
    BY <1>0, <1>1, <1>2, <2>1 DEF ControlInv, ControlTypeOK
  <2>3. inMemory' => jobRow.waived = 0
    BY <1>0 DEF ControlInv
  <2> QED
    BY <1>0, <2>1, <2>2, <2>3, ControlPart DEF ControlInv, WaivedFailureStays, IsWaived
<1> QED
  BY <1>3, <1>4

\* Each step of operators and of the daemon keeps the invariant.
LEMMA ControlStep == ControlInv /\ [ControlNext]_controlVars => ControlInv'
<1> SUFFICES ASSUME ControlInv, [ControlNext]_controlVars PROVE ControlInv'
  OBVIOUS
<1>1. CASE UNCHANGED controlVars
  BY <1>1 DEF controlVars, ControlInv, ControlTypeOK, WaivedFailureStays, IsWaived, Unwritten
<1>2. CASE ControlNext
  BY <1>2, PagesStay, RetryKeeps, WaiveKeeps, CancelKeeps, TakeJobKeeps, RunEndsKeeps,
     EndJobKeeps, StallKeeps, RetryStalledKeeps, EvictKeeps, RestartKeeps
  DEF ControlNext, PressCancel, CancelUnseen
<1> QED
  BY <1>1, <1>2

\* What a page shows of a task of each status.
LEMMA PageHolds == ControlInv => PageIsTrue
<1> SUFFICES ASSUME ControlInv, inMemory
             PROVE  /\ Offered(job) = {kind \in {"retry", "waive", "cancel"} : Grants(kind)}
                    /\ RetryAllowed(job) = ("retry" \in Offered(job))
                    /\ (Decision(job) = "pass") = (\A i \in 1..3 : Gates(job)[i] = "passed")
                    /\ Decision(job) \in {"fail", "waived"} =>
                          /\ HasBlocker(job)
                          /\ \E i \in 1..3 : Gates(job)[i] \in {"failed", "blocked"}
  BY DEF PageIsTrue
<1>1. job.status \in {"queued", "running", "completed", "failed", "cancelled"}
  BY DEF ControlInv, ControlTypeOK, Job
<1>2. Grants("cancel") <=> job.status = "queued"
  BY DEF Grants, Expected
<1>3. \A k \in {"retry", "waive"} : Grants(k) <=> job.status = "failed" /\ ~IsWaived(job)
  BY DEF Grants, Expected
<1>4. Offered(job) = {kind \in {"retry", "waive", "cancel"} : Grants(kind)}
  BY <1>1, <1>2, <1>3 DEF Offered
<1> DEFINE g == Gates(job)
<1>5. /\ g[1] = "passed"
      /\ job.status = "queued" => g[2] = "pending" /\ g[3] = "pending"
      /\ job.status = "running" => g[2] = "running" /\ g[3] = "blocked"
      /\ job.status = "completed" => g[2] = "passed" /\ g[3] = "passed"
      /\ job.status = "failed" =>
            g[2] = (IF IsWaived(job) THEN "waived" ELSE "failed") /\ g[3] = "blocked"
      /\ job.status = "cancelled" => g[2] = "waived" /\ g[3] = "blocked"
  BY <1>1 DEF Gates
<1> HIDE DEF g
<1>6. RetryAllowed(job) = ("retry" \in Offered(job))
  <2>1. g[2] = "failed" <=> "retry" \in Offered(job)
    BY <1>1, <1>5 DEF Offered
  <2> QED
    BY <2>1 DEF RetryAllowed, g
<1>7. (Decision(job) = "pass") = (\A i \in 1..3 : g[i] = "passed")
  <2>1. (\A i \in 1..3 : g[i] = "passed")
           <=> g[1] = "passed" /\ g[2] = "passed" /\ g[3] = "passed"
    OBVIOUS
  <2>2. Decision(job) = "pass" <=> job.status = "completed"
    BY <1>1 DEF Decision
  <2>3. job.status = "completed" <=> g[1] = "passed" /\ g[2] = "passed" /\ g[3] = "passed"
    BY <1>1, <1>5
  <2> QED
    BY <2>1, <2>2, <2>3
<1>8. Decision(job) \in {"fail", "waived"} => job.status = "failed"
  BY <1>1 DEF Decision
<1>9. job.status = "failed" => g[3] \in {"failed", "blocked"} /\ 3 \in 1..3
  BY <1>5
<1> QED
  BY <1>4, <1>6, <1>7, <1>8, <1>9 DEF HasBlocker, g

\* The invariant says that waived failures stay waived and that pages are true.
LEMMA ControlHolds == ControlInv => ControlTypeOK /\ WaivedFailureStays /\ PageIsTrue
  BY PageHolds DEF ControlInv

-----------------------------------------------------------------------------
(* Calls of GitHub *)

CallFields == {"at", "tries", "wake", "reset", "told", "reply"}

\* A call c whose record is r, performed p times and l times of those refused, with
\* the audit entries g.
CallTypes(r) ==
    /\ DOMAIN r = CallFields
    /\ r.at \in {"new", "run", "asleep", "replied", "abandoned"}
    /\ r.tries \in 0..Tries
    /\ r.reply \in {"none", "ok", "failed", "limited", "denied"}
    /\ r.wake \in Nat /\ r.reset \in Nat /\ r.told \in Nat
CallCounts(c, r, p, l) ==
    /\ p \in Nat /\ l \in Nat /\ p <= 1 + l
    /\ Op[c] \notin {"granted", "plain"} => p = 0 /\ r.at \in {"new", "replied"}
    /\ r.at \in {"new", "run", "asleep"} => p <= l
    /\ r.at # "replied" => r.reply = "none"
    /\ r.reply = "ok" => p > 0
CallWrites(r, g) ==
    /\ r.at # "replied" => Len(g) = 0
    /\ g \in Seq(BOOLEAN) /\ Len(g) <= 1
    /\ Len(g) = 1 => g[1] = (r.reply = "ok")
Late(r) == r.reset - r.told > Cap
CallWaits(r, t) ==
    /\ r.at = "new" => r.reset = 0
    /\ r.at = "run" => t >= r.reset \/ Late(r)
    /\ r.at = "asleep" => r.wake >= r.reset \/ Late(r)

GithubInv ==
    /\ time \in 0..MaxTime /\ used \in 0..PerWindow
    /\ call = [c \in GhCall |-> call[c]] /\ performed = [c \in GhCall |-> performed[c]]
    /\ late = [c \in GhCall |-> late[c]] /\ ledger = [c \in GhCall |-> ledger[c]]
    /\ \A c \in GhCall : /\ CallTypes(call[c])
                         /\ CallCounts(c, call[c], performed[c], late[c])
                         /\ CallWrites(call[c], ledger[c])
                         /\ CallWaits(call[c], time)

\* Nobody has called.
LEMMA GithubInitial == GithubInit => GithubInv
<1> SUFFICES ASSUME GithubInit PROVE GithubInv
  OBVIOUS
<1>1. time = 0 /\ used = 0 /\ MaxTime \in Nat /\ PerWindow \in Nat \ {0} /\ Tries \in Nat
  BY GithubAssumption DEF GithubInit
<1>2. call = [c \in GhCall |-> call[c]] /\ performed = [c \in GhCall |-> performed[c]]
      /\ late = [c \in GhCall |-> late[c]] /\ ledger = [c \in GhCall |-> ledger[c]]
  BY DEF GithubInit
<1>3. ASSUME NEW c \in GhCall
      PROVE  /\ CallTypes(call[c]) /\ CallCounts(c, call[c], performed[c], late[c])
             /\ CallWrites(call[c], ledger[c]) /\ CallWaits(call[c], time)
  <2>1. performed[c] = 0 /\ late[c] = 0 /\ ledger[c] = <<>>
        /\ call[c] = [at |-> "new", tries |-> 0, wake |-> 0, reset |-> 0, told |-> 0,
                      reply |-> "none"]
    BY DEF GithubInit
  <2>2. /\ DOMAIN call[c] = CallFields /\ call[c].at = "new" /\ call[c].tries = 0
        /\ call[c].wake = 0 /\ call[c].reset = 0 /\ call[c].told = 0
        /\ call[c].reply = "none"
    BY <2>1 DEF CallFields
  <2>3. CallTypes(call[c])
    BY <1>1, <2>2 DEF CallTypes
  <2>4. CallWrites(call[c], ledger[c])
    BY <2>1, <2>2 DEF CallWrites
  <2> QED
    BY <1>1, <2>1, <2>2, <2>3, <2>4 DEF CallCounts, CallWaits
<1> QED
  BY <1>1, <1>2, <1>3 DEF GithubInv

\* One call changes.
LEMMA CallChanges ==
    ASSUME GithubInv, NEW c \in GhCall, NEW r, NEW p, NEW l, NEW g,
           call' = [call EXCEPT ![c] = r], performed' = [performed EXCEPT ![c] = p],
           late' = [late EXCEPT ![c] = l], ledger' = [ledger EXCEPT ![c] = g],
           time' = time, used' \in 0..PerWindow,
           CallTypes(r), CallCounts(c, r, p, l), CallWrites(r, g), CallWaits(r, time)
    PROVE  GithubInv'
<1>1. call = [d \in GhCall |-> call[d]] /\ performed = [d \in GhCall |-> performed[d]]
      /\ late = [d \in GhCall |-> late[d]] /\ ledger = [d \in GhCall |-> ledger[d]]
  BY DEF GithubInv
<1>2. call'[c] = r /\ performed'[c] = p /\ late'[c] = l /\ ledger'[c] = g
  BY <1>1
<1>3. \A d \in GhCall \ {c} : /\ call'[d] = call[d] /\ performed'[d] = performed[d]
                              /\ late'[d] = late[d] /\ ledger'[d] = ledger[d]
  BY <1>1
<1>4. call' = [d \in GhCall |-> call'[d]] /\ performed' = [d \in GhCall |-> performed'[d]]
      /\ late' = [d \in GhCall |-> late'[d]] /\ ledger' = [d \in GhCall |-> ledger'[d]]
  BY <1>1
<1>5. ASSUME NEW d \in GhCall
      PROVE  /\ CallTypes(call'[d]) /\ CallCounts(d, call'[d], performed'[d], late'[d])
             /\ CallWrites(call'[d], ledger'[d]) /\ CallWaits(call'[d], time)
  <2>1. CASE d = c
    BY <1>2, <2>1
  <2>2. CASE d # c
    BY <1>3, <2>2 DEF GithubInv
  <2> QED
    BY <2>1, <2>2
<1> QED
  BY <1>4, <1>5 DEF GithubInv

\* A reply and what is audited of it.
LEMMA ReplyIs ==
    ASSUME GithubInv, NEW c \in GhCall, call[c].at # "replied",
           NEW what \in {"ok", "failed", "limited", "denied"}, Reply(c, what)
    PROVE  \E r, g : /\ call' = [call EXCEPT ![c] = r] /\ ledger' = [ledger EXCEPT ![c] = g]
                     /\ CallTypes(r) /\ CallWrites(r, g) /\ CallWaits(r, time)
                     /\ r.at = "replied" /\ r.reply = what
<1> DEFINE r == [call[c] EXCEPT !.at = "replied", !.reply = what]
<1>1. call = [d \in GhCall |-> call[d]] /\ ledger = [d \in GhCall |-> ledger[d]]
      /\ CallTypes(call[c]) /\ CallWrites(call[c], ledger[c])
  BY DEF GithubInv
<1>2. call' = [call EXCEPT ![c] = r]
  BY <1>1 DEF Reply
<1>3. /\ DOMAIN r = CallFields /\ r.at = "replied" /\ r.reply = what
      /\ r.tries = call[c].tries /\ r.wake = call[c].wake /\ r.reset = call[c].reset
      /\ r.told = call[c].told
  BY <1>1 DEF CallTypes, CallFields
<1> HIDE DEF r
<1>4. CallTypes(r) /\ CallWaits(r, time)
  BY <1>1, <1>3 DEF CallTypes, CallWaits
<1>5. ledger[c] \in Seq(BOOLEAN) /\ Len(ledger[c]) = 0
  BY <1>1 DEF CallWrites
<1>6. PICK b \in BOOLEAN : b = (what = "ok")
  OBVIOUS
<1>7. PICK g : ledger' = [ledger EXCEPT ![c] = g] /\ CallWrites(r, g)
  <2>1. CASE ledger' = [ledger EXCEPT ![c] = Append(@, what = "ok")]
    <3> DEFINE h == Append(ledger[c], b)
    <3>1. ledger' = [ledger EXCEPT ![c] = h]
      BY <1>1, <1>6, <2>1
    <3>2. h \in Seq(BOOLEAN) /\ Len(h) = 1 /\ h[1] = b
      BY <1>5, AppendProperties
    <3> HIDE DEF h
    <3>3. CallWrites(r, h)
      BY <1>3, <1>6, <3>2 DEF CallWrites
    <3> QED
      BY <3>1, <3>3
  <2>2. CASE UNCHANGED ledger
    <3>1. ledger' = [ledger EXCEPT ![c] = ledger[c]]
      BY <1>1, <2>2
    <3>2. CallWrites(r, ledger[c])
      BY <1>3, <1>5 DEF CallWrites
    <3> QED
      BY <3>1, <3>2
  <2> QED
    BY <2>1, <2>2 DEF Reply
<1> QED
  BY <1>2, <1>3, <1>4, <1>7

\* A call that sleeps, until a reset it knows or one further off than the longest wait.
LEMMA SleepIs ==
    ASSUME GithubInv, NEW c \in GhCall, call[c].at = "run", call[c].tries + 1 <= Tries,
           NEW known \in BOOLEAN, NEW wake \in Nat,
           known => wake >= NextReset \/ NextReset - time > Cap,
           Sleep(c, wake, known)
    PROVE  \E r : /\ call' = [call EXCEPT ![c] = r] /\ ledger' = [ledger EXCEPT ![c] = ledger[c]]
                  /\ CallTypes(r) /\ CallWrites(r, ledger[c]) /\ CallWaits(r, time)
                  /\ r.at = "asleep" /\ r.reply = "none"
<1> DEFINE n == call[c].tries + 1
           s == IF known THEN NextReset ELSE 0
           r == [call[c] EXCEPT !.at = "asleep", !.tries = n, !.wake = wake, !.reset = s,
                                !.told = time]
<1>1. call = [d \in GhCall |-> call[d]] /\ ledger = [d \in GhCall |-> ledger[d]]
      /\ CallTypes(call[c]) /\ CallWrites(call[c], ledger[c]) /\ call[c].reply = "none"
  BY DEF GithubInv, CallCounts
<1>2. time \in Nat /\ NextReset \in Nat /\ Tries \in Nat
  <2>1. time \in Nat /\ WindowLength \in Nat \ {0} /\ Tries \in Nat
    BY GithubAssumption DEF GithubInv
  <2>2. time \div WindowLength \in Nat
    BY <2>1, Quotient
  <2> QED
    BY <2>1, <2>2 DEF NextReset
<1>3. s \in Nat /\ n \in 0..Tries
  BY <1>1, <1>2 DEF CallTypes
<1>4. call' = [call EXCEPT ![c] = r]
  BY <1>1 DEF Sleep
<1>5. wake >= s \/ s - time > Cap
  <2>1. CASE known
    BY <2>1
  <2>2. CASE ~known
    <3>1. s = 0
      BY <2>2
    <3> QED
      BY <3>1
  <2> QED
    BY <2>1, <2>2
<1> HIDE DEF n, s
<1>6. /\ DOMAIN r = CallFields /\ r.at = "asleep" /\ r.reply = "none"
      /\ r.tries = n /\ r.wake = wake /\ r.reset = s /\ r.told = time
  BY <1>1 DEF CallTypes, CallFields
<1> HIDE DEF r
<1>7. CallTypes(r) /\ CallWaits(r, time)
  BY <1>2, <1>3, <1>5, <1>6 DEF CallTypes, CallWaits, Late
<1>8. CallWrites(r, ledger[c])
  BY <1>1, <1>6 DEF CallWrites
<1>9. ledger' = [ledger EXCEPT ![c] = ledger[c]]
  BY <1>1 DEF Sleep
<1> QED
  BY <1>4, <1>6, <1>7, <1>8, <1>9

\* After a refusal a call sleeps or gives up, and has written what it should.
LEMMA RefusalIs ==
    ASSUME GithubInv, NEW c \in GhCall, call[c].at = "run", NEW known \in BOOLEAN,
           IF c \in Awaits THEN Awaited(c, known) ELSE Retried(c, known)
    PROVE  \E r, g : /\ call' = [call EXCEPT ![c] = r] /\ ledger' = [ledger EXCEPT ![c] = g]
                     /\ CallTypes(r) /\ CallWrites(r, g) /\ CallWaits(r, time)
                     /\ \/ r.at = "asleep" /\ r.reply = "none"
                        \/ r.at = "replied" /\ r.reply \in {"failed", "limited"}
<1>1. time \in Nat /\ NextReset \in Nat /\ Tries \in Nat /\ Cap \in Nat
  <2>1. time \in Nat /\ WindowLength \in Nat \ {0} /\ Tries \in Nat /\ Cap \in Nat
    BY GithubAssumption DEF GithubInv
  <2>2. time \div WindowLength \in Nat
    BY <2>1, Quotient
  <2> QED
    BY <2>1, <2>2 DEF NextReset
<1>2. call[c].tries \in 0..Tries
  BY DEF GithubInv, CallTypes
<1>3. CASE \E what \in {"failed", "limited"} : Reply(c, what)
  <2>1. PICK what \in {"failed", "limited"} : Reply(c, what)
    BY <1>3
  <2>2. \E r, g : /\ call' = [call EXCEPT ![c] = r] /\ ledger' = [ledger EXCEPT ![c] = g]
                  /\ CallTypes(r) /\ CallWrites(r, g) /\ CallWaits(r, time)
                  /\ r.at = "replied" /\ r.reply = what
    BY <2>1, ReplyIs
  <2> QED
    BY <2>2
<1>4. CASE \E wake \in Nat : /\ call[c].tries + 1 <= Tries
                             /\ known => wake >= NextReset \/ NextReset - time > Cap
                             /\ Sleep(c, wake, known)
  <2>1. PICK wake \in Nat : /\ call[c].tries + 1 <= Tries
                            /\ known => wake >= NextReset \/ NextReset - time > Cap
                            /\ Sleep(c, wake, known)
    BY <1>4
  <2>2. \E r : /\ call' = [call EXCEPT ![c] = r] /\ ledger' = [ledger EXCEPT ![c] = ledger[c]]
               /\ CallTypes(r) /\ CallWrites(r, ledger[c]) /\ CallWaits(r, time)
               /\ r.at = "asleep" /\ r.reply = "none"
    BY <2>1, SleepIs
  <2> QED
    BY <2>2
<1>5. WakeAt(known) \in Nat /\ (known => WakeAt(known) >= NextReset \/ NextReset - time > Cap)
  <2>1. CASE known
    <3> DEFINE m == Min({NextReset + 1, time + Cap})
    <3>1. NextReset + 1 \in Nat /\ time + Cap \in Nat
      BY <1>1
    <3>2. m = IF NextReset + 1 <= time + Cap THEN NextReset + 1 ELSE time + Cap
      BY <3>1, MinOfTwo
    <3>3. WakeAt(known) = m
      BY <2>1 DEF WakeAt
    <3> HIDE DEF m
    <3>4. m \in Nat /\ (m >= NextReset \/ NextReset - time > Cap)
      BY <1>1, <3>2
    <3> QED
      BY <3>3, <3>4
  <2>2. CASE ~known
    BY <1>1, <2>2 DEF WakeAt
  <2> QED
    BY <2>1, <2>2
<1>6. CASE c \in Awaits
  <2>1. Awaited(c, known)
    BY <1>6
  <2>2. CASE call[c].tries = Tries
    BY <1>3, <2>1, <2>2 DEF Awaited
  <2>3. CASE call[c].tries # Tries /\ known
    <3>1. CASE Reply(c, "limited")
      BY <1>3, <3>1
    <3>2. CASE Sleep(c, NextReset, known)
      <4>1. call[c].tries + 1 <= Tries /\ NextReset >= NextReset
        BY <1>1, <1>2, <2>3
      <4> QED
        BY <1>1, <1>4, <3>2, <4>1
    <3> QED
      BY <2>1, <2>3, <3>1, <3>2, Zenon DEF Awaited
  <2>4. CASE call[c].tries # Tries /\ ~known
    <3>1. IF call[c].tries + 1 < Tries THEN Sleep(c, time + 1, known) ELSE Reply(c, "limited")
      BY <2>1, <2>4 DEF Awaited
    <3> QED
      BY <1>1, <1>2, <1>3, <1>4, <2>4, <3>1
  <2> QED
    BY <2>2, <2>3, <2>4
<1>7. CASE c \notin Awaits
  <2>1. Retried(c, known)
    BY <1>7
  <2> QED
    BY <1>1, <1>2, <1>3, <1>4, <1>5, <2>1 DEF Retried
<1> QED
  BY <1>6, <1>7

\* A call whose counts stay, and one that GitHub has performed once more.
LEMMA SameCounts ==
    ASSUME GithubInv, NEW c \in GhCall
    PROVE  /\ call = [d \in GhCall |-> call[d]] /\ CallTypes(call[c])
           /\ CallCounts(c, call[c], performed[c], late[c])
           /\ CallWrites(call[c], ledger[c]) /\ CallWaits(call[c], time)
           /\ performed = [performed EXCEPT ![c] = performed[c]]
           /\ late = [late EXCEPT ![c] = late[c]] /\ ledger = [ledger EXCEPT ![c] = ledger[c]]
           /\ used \in 0..PerWindow /\ PerWindow \in Nat /\ used \in Nat
<1>1. call = [d \in GhCall |-> call[d]] /\ CallTypes(call[c])
      /\ CallCounts(c, call[c], performed[c], late[c])
      /\ CallWrites(call[c], ledger[c]) /\ CallWaits(call[c], time)
  BY DEF GithubInv
<1>2. /\ performed = [performed EXCEPT ![c] = performed[c]]
      /\ late = [late EXCEPT ![c] = late[c]] /\ ledger = [ledger EXCEPT ![c] = ledger[c]]
  BY DEF GithubInv
<1>3. used \in 0..PerWindow /\ PerWindow \in Nat
  BY GithubAssumption DEF GithubInv
<1> QED
  BY <1>1, <1>2, <1>3

\* A call is allowed, or denied and recorded as denied.
LEMMA RequestKeeps ==
    ASSUME GithubInv, NEW c \in GhCall, Request(c)
    PROVE  GithubInv'
<1>0. UNCHANGED <<time, used, performed, late>> /\ call[c].at = "new"
  BY DEF Request
<1>1. CASE Admissible(c)
  <2> DEFINE r == [call[c] EXCEPT !.at = "run"]
  <2>1. call' = [call EXCEPT ![c] = r] /\ UNCHANGED ledger
    BY <1>1, SameCounts DEF Request
  <2>2. /\ DOMAIN r = CallFields /\ r.at = "run" /\ r.reply = call[c].reply
        /\ r.tries = call[c].tries /\ r.wake = call[c].wake /\ r.reset = call[c].reset
        /\ r.told = call[c].told
    BY SameCounts DEF CallTypes, CallFields
  <2> HIDE DEF r
  <2>3. CallTypes(r) /\ CallWrites(r, ledger[c])
    BY <1>0, <2>2, SameCounts DEF CallTypes, CallWrites
  <2>4. CallCounts(c, r, performed[c], late[c])
    BY <1>0, <1>1, <2>2, SameCounts DEF CallCounts, Admissible
  <2>5. CallWaits(r, time)
    <3>1. time \in Nat /\ r.reset = 0
      <4>1. time \in Nat
        BY GithubAssumption DEF GithubInv
      <4> QED
        BY <1>0, <2>2, <4>1, SameCounts DEF CallWaits
    <3> QED
      BY <2>2, <3>1 DEF CallWaits
  <2> QED
    BY <1>0, <2>1, <2>3, <2>4, <2>5, SameCounts, CallChanges
<1>2. CASE ~Admissible(c)
  <2>1. Reply(c, "denied")
    BY <1>2 DEF Request
  <2>2. PICK r, g : /\ call' = [call EXCEPT ![c] = r] /\ ledger' = [ledger EXCEPT ![c] = g]
                    /\ CallTypes(r) /\ CallWrites(r, g) /\ CallWaits(r, time)
                    /\ r.at = "replied" /\ r.reply = "denied"
    BY <1>0, <2>1, ReplyIs
  <2>3. CallCounts(c, r, performed[c], late[c])
    BY <1>0, <2>2, SameCounts DEF CallCounts
  <2> QED
    BY <1>0, <2>2, <2>3, SameCounts, CallChanges
<1> QED
  BY <1>1, <1>2

\* A call that succeeds is performed once and recorded.
LEMMA SucceedsKeeps ==
    ASSUME GithubInv, NEW c \in GhCall, Succeeds(c)
    PROVE  GithubInv'
<1>0. UNCHANGED <<time, late>> /\ call[c].at = "run" /\ used < PerWindow
      /\ used' = used + 1 /\ performed' = [performed EXCEPT ![c] = @ + 1] /\ Reply(c, "ok")
  BY DEF Succeeds
<1>1. PICK r, g : /\ call' = [call EXCEPT ![c] = r] /\ ledger' = [ledger EXCEPT ![c] = g]
                  /\ CallTypes(r) /\ CallWrites(r, g) /\ CallWaits(r, time)
                  /\ r.at = "replied" /\ r.reply = "ok"
  BY <1>0, ReplyIs
<1>2. CallCounts(c, r, performed[c] + 1, late[c])
  BY <1>0, <1>1, SameCounts DEF CallCounts
<1>3. used' \in 0..PerWindow /\ performed' = [performed EXCEPT ![c] = performed[c] + 1]
  BY <1>0, SameCounts
<1> QED
  BY <1>0, <1>1, <1>2, <1>3, SameCounts, CallChanges

\* A call that fails is performed or is not, and says that it failed.
LEMMA FailsKeeps ==
    ASSUME GithubInv, NEW c \in GhCall, Fails(c)
    PROVE  GithubInv'
<1>0. UNCHANGED <<time, late>> /\ call[c].at = "run" /\ Reply(c, "failed")
  BY DEF Fails
<1>1. PICK r, g : /\ call' = [call EXCEPT ![c] = r] /\ ledger' = [ledger EXCEPT ![c] = g]
                  /\ CallTypes(r) /\ CallWrites(r, g) /\ CallWaits(r, time)
                  /\ r.at = "replied" /\ r.reply = "failed"
  BY <1>0, ReplyIs
<1>2. CASE UNCHANGED <<used, performed>>
  <2>1. CallCounts(c, r, performed[c], late[c])
    BY <1>0, <1>1, SameCounts DEF CallCounts
  <2> QED
    BY <1>0, <1>1, <1>2, <2>1, SameCounts, CallChanges
<1>3. CASE used < PerWindow /\ used' = used + 1 /\ performed' = [performed EXCEPT ![c] = @ + 1]
  <2>1. CallCounts(c, r, performed[c] + 1, late[c])
    BY <1>0, <1>1, SameCounts DEF CallCounts
  <2>2. used' \in 0..PerWindow /\ performed' = [performed EXCEPT ![c] = performed[c] + 1]
    BY <1>3, SameCounts
  <2> QED
    BY <1>0, <1>1, <2>1, <2>2, SameCounts, CallChanges
<1> QED
  BY <1>2, <1>3 DEF Fails

\* A call that the limit refuses is tried again later or gives up.
LEMMA RefusedKeeps ==
    ASSUME GithubInv, NEW c \in GhCall, NEW known \in BOOLEAN, Refused(c, known)
    PROVE  GithubInv'
<1>0. UNCHANGED time /\ call[c].at = "run"
      /\ IF c \in Awaits THEN Awaited(c, known) ELSE Retried(c, known)
  BY DEF Refused
<1>1. PICK r, g : /\ call' = [call EXCEPT ![c] = r] /\ ledger' = [ledger EXCEPT ![c] = g]
                  /\ CallTypes(r) /\ CallWrites(r, g) /\ CallWaits(r, time)
                  /\ \/ r.at = "asleep" /\ r.reply = "none"
                     \/ r.at = "replied" /\ r.reply \in {"failed", "limited"}
  BY <1>0, RefusalIs
<1>2. CASE UNCHANGED <<performed, late, used>>
  <2>1. CallCounts(c, r, performed[c], late[c])
    BY <1>0, <1>1, SameCounts DEF CallCounts
  <2> QED
    BY <1>0, <1>1, <1>2, <2>1, SameCounts, CallChanges
<1>3. CASE /\ used' = PerWindow /\ late' = [late EXCEPT ![c] = @ + 1]
           /\ performed' = [performed EXCEPT ![c] = @ + 1]
  <2>1. CallCounts(c, r, performed[c] + 1, late[c] + 1)
    BY <1>0, <1>1, SameCounts DEF CallCounts
  <2>2. used' \in 0..PerWindow /\ performed' = [performed EXCEPT ![c] = performed[c] + 1]
        /\ late' = [late EXCEPT ![c] = late[c] + 1]
    BY <1>3, SameCounts
  <2> QED
    BY <1>0, <1>1, <2>1, <2>2, CallChanges
<1> QED
  BY <1>2, <1>3 DEF Refused

\* A call wakes when it said it would.
LEMMA WakeUpKeeps ==
    ASSUME GithubInv, NEW c \in GhCall, WakeUp(c)
    PROVE  GithubInv'
<1>0. UNCHANGED <<time, used, performed, late, ledger>> /\ call[c].at = "asleep"
      /\ call[c].wake <= time
  BY DEF WakeUp
<1> DEFINE r == [call[c] EXCEPT !.at = "run"]
<1>1. call' = [call EXCEPT ![c] = r]
  BY SameCounts DEF WakeUp
<1>2. /\ DOMAIN r = CallFields /\ r.at = "run" /\ r.reply = call[c].reply
      /\ r.tries = call[c].tries /\ r.wake = call[c].wake /\ r.reset = call[c].reset
      /\ r.told = call[c].told
  BY SameCounts DEF CallTypes, CallFields
<1> HIDE DEF r
<1>3. CallTypes(r) /\ CallWrites(r, ledger[c])
  BY <1>0, <1>2, SameCounts DEF CallTypes, CallWrites
<1>4. CallCounts(c, r, performed[c], late[c])
  BY <1>0, <1>2, SameCounts DEF CallCounts
<1>5. CallWaits(r, time)
  <2>1. call[c].wake \in Nat /\ call[c].reset \in Nat /\ time \in Nat
    BY SameCounts, GithubAssumption DEF CallTypes, GithubInv
  <2>2. call[c].wake >= call[c].reset \/ Late(call[c])
    BY <1>0, SameCounts DEF CallWaits
  <2>3. Late(r) = Late(call[c])
    BY <1>2 DEF Late
  <2> QED
    BY <1>0, <1>2, <2>1, <2>2, <2>3 DEF CallWaits
<1> QED
  BY <1>0, <1>1, <1>3, <1>4, <1>5, SameCounts, CallChanges

\* A call whose caller has gone says nothing more.
LEMMA AbandonKeeps ==
    ASSUME GithubInv, NEW c \in GhCall, Abandon(c)
    PROVE  GithubInv'
<1>0. UNCHANGED <<time, late, ledger>> /\ call[c].at \in {"run", "asleep"}
  BY DEF Abandon
<1> DEFINE r == [call[c] EXCEPT !.at = "abandoned"]
<1>1. call' = [call EXCEPT ![c] = r]
  BY SameCounts DEF Abandon
<1>2. /\ DOMAIN r = CallFields /\ r.at = "abandoned" /\ r.reply = call[c].reply
      /\ r.tries = call[c].tries /\ r.wake = call[c].wake /\ r.reset = call[c].reset
      /\ r.told = call[c].told
  BY SameCounts DEF CallTypes, CallFields
<1> HIDE DEF r
<1>3. CallTypes(r) /\ CallWrites(r, ledger[c]) /\ CallWaits(r, time)
  BY <1>0, <1>2, SameCounts DEF CallTypes, CallWrites, CallWaits
<1>4. CASE UNCHANGED <<used, performed>>
  <2>1. CallCounts(c, r, performed[c], late[c])
    BY <1>0, <1>2, SameCounts DEF CallCounts
  <2> QED
    BY <1>0, <1>1, <1>3, <1>4, <2>1, SameCounts, CallChanges
<1>5. CASE used < PerWindow /\ used' = used + 1 /\ performed' = [performed EXCEPT ![c] = @ + 1]
  <2>1. CallCounts(c, r, performed[c] + 1, late[c])
    BY <1>0, <1>2, SameCounts DEF CallCounts
  <2>2. used' \in 0..PerWindow /\ performed' = [performed EXCEPT ![c] = performed[c] + 1]
    BY <1>5, SameCounts
  <2> QED
    BY <1>0, <1>1, <1>3, <2>1, <2>2, SameCounts, CallChanges
<1> QED
  BY <1>4, <1>5 DEF Abandon

\* Time passes, and a new window admits calls again.
LEMMA PassTickKeeps ==
    ASSUME GithubInv, PassTick
    PROVE  GithubInv'
<1>0. UNCHANGED <<call, performed, late, ledger>> /\ time' = time + 1 /\ time < MaxTime
      /\ used' \in {0, used}
  BY DEF PassTick
<1>1. time \in 0..MaxTime /\ MaxTime \in Nat /\ PerWindow \in Nat
  BY GithubAssumption DEF GithubInv
<1>2. time' \in 0..MaxTime /\ used' \in 0..PerWindow
  BY <1>0, <1>1 DEF GithubInv
<1>3. ASSUME NEW c \in GhCall PROVE CallWaits(call[c], time')
  <2>1. call[c].reset \in Nat /\ CallWaits(call[c], time)
    BY SameCounts DEF CallTypes
  <2>2. time \in Nat
    BY <1>1
  <2> QED
    BY <1>0, <2>1, <2>2 DEF CallWaits
<1> QED
  BY <1>0, <1>2, <1>3 DEF GithubInv

\* Each step of the calls and of the clock keeps the invariant.
LEMMA GithubStep == GithubInv /\ [GithubNext]_githubVars => GithubInv'
<1> SUFFICES ASSUME GithubInv, [GithubNext]_githubVars PROVE GithubInv'
  OBVIOUS
<1>1. CASE UNCHANGED githubVars
  BY <1>1 DEF githubVars, GithubInv
<1>2. CASE GithubNext
  BY <1>2, RequestKeeps, SucceedsKeeps, FailsKeeps, RefusedKeeps, WakeUpKeeps, AbandonKeeps,
     PassTickKeeps DEF GithubNext
<1> QED
  BY <1>1, <1>2

\* The invariant says that calls are accounted for and wait for the reset.
LEMMA GithubHolds == GithubInv => GithubTypeOK /\ CallsAreAccounted /\ AsksAfterReset
<1> SUFFICES ASSUME GithubInv PROVE GithubTypeOK /\ CallsAreAccounted /\ AsksAfterReset
  OBVIOUS
<1>1. GithubTypeOK
  BY DEF GithubInv, GithubTypeOK, CallTypes
<1>2. AsksAfterReset
  BY DEF GithubInv, AsksAfterReset, CallWaits, Late
<1>3. CallsAreAccounted
  <2> SUFFICES ASSUME NEW c \in GhCall
               PROVE  /\ Op[c] \in {"denied", "malformed"} => performed[c] = 0
                      /\ performed[c] <= 1 + late[c]
                      /\ call[c].reply = "ok" => performed[c] > 0
                      /\ Len(ledger[c]) <= 1
                      /\ Len(ledger[c]) = 1 => call[c].at = "replied"
                                               /\ ledger[c][1] = (call[c].reply = "ok")
    BY DEF CallsAreAccounted
  <2>1. CallCounts(c, call[c], performed[c], late[c]) /\ CallWrites(call[c], ledger[c])
    BY SameCounts
  <2>2. /\ Op[c] \in {"denied", "malformed"} => performed[c] = 0
        /\ performed[c] <= 1 + late[c]
        /\ call[c].reply = "ok" => performed[c] > 0
    BY <2>1 DEF CallCounts
  <2>3. /\ Len(ledger[c]) <= 1
        /\ Len(ledger[c]) = 1 => call[c].at = "replied" /\ ledger[c][1] = (call[c].reply = "ok")
    BY <2>1 DEF CallWrites
  <2> QED
    BY <2>2, <2>3
<1> QED
  BY <1>1, <1>2, <1>3

-----------------------------------------------------------------------------
(* The installation token *)

\* What is cached, and what any holder has, ends within the life of a token.
TokenInv ==
    /\ hour \in 0..MaxHour /\ cached \in Nat
    /\ fetch = [h \in Holder |-> fetch[h]] /\ token = [h \in Holder |-> token[h]]
    /\ \A h \in Holder : fetch[h] \in 0..(hour + 1)
    /\ TokensLast

\* There is no token, and nobody has asked for one.
LEMMA TokenInitial == TokenInit => TokenInv
  BY TokenAssumption DEF TokenInit, TokenInv, TokensLast

\* Whoever asks gets the token of the cache, if it lasts, or a new one.
LEMMA TokenStep == TokenInv /\ [TokenNext]_tokenVars => TokenInv'
<1> SUFFICES ASSUME TokenInv, [TokenNext]_tokenVars PROVE TokenInv'
  OBVIOUS
<1>0. /\ MaxHour \in Nat /\ TokenLife \in Nat /\ Margin \in Nat /\ MaxDelay \in Nat
      /\ TokenLife > Margin + MaxDelay /\ hour \in Nat /\ cached \in Nat
      /\ hour \in 0..MaxHour
      /\ fetch = [h \in Holder |-> fetch[h]] /\ token = [h \in Holder |-> token[h]]
      /\ \A h \in Holder : fetch[h] \in 0..(hour + 1)
      /\ \A h \in Holder : token[h] = NoToken \/ token[h].ends > token[h].got + Margin
  BY TokenAssumption DEF TokenInv, TokensLast
\* A holder gets a token that has its margin left.
<1>a. ASSUME NEW h \in Holder, NEW e \in Nat, e > hour + Margin,
             token' = [token EXCEPT ![h] = [ends |-> e, got |-> hour]]
      PROVE  token' = [g \in Holder |-> token'[g]] /\ TokensLast'
  <2>1. /\ token'[h] = [ends |-> e, got |-> hour]
        /\ \A g \in Holder \ {h} : token'[g] = token[g]
        /\ token' = [g \in Holder |-> token'[g]]
    BY <1>0, <1>a
  <2>2. token'[h].ends > token'[h].got + Margin
    BY <1>a, <2>1
  <2> QED
    BY <1>0, <2>1, <2>2 DEF TokensLast
<1>1. CASE UNCHANGED tokenVars
  BY <1>1 DEF tokenVars, TokenInv, TokensLast
<1>2. CASE PassHour
  BY <1>0, <1>2 DEF PassHour, TokenInv, TokensLast
<1>3. ASSUME NEW h \in Holder, AskToken(h) PROVE TokenInv'
  <2>1. CASE Lasts(cached)
    <3>1. token' = [token EXCEPT ![h] = [ends |-> cached, got |-> hour]]
          /\ UNCHANGED <<fetch, hour, cached>>
      BY <1>3, <2>1 DEF AskToken
    <3>2. cached > hour + Margin
      BY <2>1 DEF Lasts
    <3> QED
      BY <1>0, <1>a, <3>1, <3>2 DEF TokenInv
  <2>2. CASE ~Lasts(cached)
    BY <1>0, <1>3, <2>2 DEF AskToken, TokenInv, TokensLast
  <2> QED
    BY <2>1, <2>2
<1>4. ASSUME NEW h \in Holder, TokenComes(h) PROVE TokenInv'
  <2>1. PICK issued \in (fetch[h] - 1)..hour : hour <= issued + MaxDelay
                                               /\ cached' = issued + TokenLife
    BY <1>4 DEF TokenComes
  <2>2. fetch[h] \in Nat /\ fetch[h] # 0
    BY <1>0, <1>4 DEF TokenComes
  <2>3. issued \in Nat
    BY <1>0, <2>2
  <2>4. cached' \in Nat /\ cached' > hour + Margin
    BY <1>0, <2>1, <2>3
  <2>5. token' = [token EXCEPT ![h] = [ends |-> cached', got |-> hour]]
        /\ fetch' = [fetch EXCEPT ![h] = 0] /\ hour' = hour
    BY <1>4 DEF TokenComes
  <2>6. token' = [g \in Holder |-> token'[g]] /\ TokensLast'
    BY <1>a, <2>4, <2>5
  <2>7. fetch' = [g \in Holder |-> fetch'[g]] /\ \A g \in Holder : fetch'[g] \in 0..(hour + 1)
    BY <1>0, <2>5
  <2> QED
    BY <1>0, <2>4, <2>5, <2>6, <2>7 DEF TokenInv
<1>5. ASSUME NEW h \in Holder, FetchFails(h) PROVE TokenInv'
  BY <1>0, <1>5 DEF FetchFails, TokenInv, TokensLast
<1> QED
  BY <1>1, <1>2, <1>3, <1>4, <1>5 DEF TokenNext

\* The invariant says that a token handed out lasts.
LEMMA TokenHolds == TokenInv => TokenTypeOK /\ TokensLast
  BY DEF TokenInv, TokenTypeOK

-----------------------------------------------------------------------------
(* Launchers *)

LauncherFields == {"stage", "pid", "read", "kept"}

LauncherOK(r) ==
    /\ DOMAIN r = LauncherFields
    /\ r.pid \in Pid \cup {"none"} /\ r.read \in SecretKey \cup {"none"}
    /\ r.stage \in Serving => r.pid # "none"

ConfigFiles == [form : {"absent", "variable", "plain", "reference"},
                key : SecretKey \cup {"none"}]

FilesOK ==
    /\ venv \in {"none", "bare", "pip", "installed"}
    /\ config \in ConfigFiles
    /\ secret \in SecretKey \cup {"none"} /\ latest \in SecretKey \cup {"none"}
LaunchersOK ==
    launch = [l \in Launcher |-> launch[l]] /\ \A l \in Launcher : LauncherOK(launch[l])
RootOK ==
    /\ lockFile \in Pid \cup {"none"} /\ locked \in Launcher \cup {"none"}
    /\ working \subseteq Launcher /\ strangers \subseteq Pid

\* Who is past the lock holds it until it has released the storage root.
PastLock == {"stamp", "recover", "serve", "drain", "release"}
LockIsHeld ==
    recovered = {} /\ \A l \in Launcher : launch[l].stage \in PastLock => locked = l

\* Where the last key is, and what the loads under way have read of it.
KeyIsKept ==
    /\ config.form = "plain" => config.key = latest /\ latest # "none"
    /\ config.form = "absent" => latest = "none"
    /\ ~overtaken =>
          /\ config.form = "variable" => latest = "none"
          /\ config.form = "reference" => secret = latest
          /\ \A l \in Launcher :
                /\ launch[l].stage = "create" => latest = "none"
                /\ launch[l].read # "none" => launch[l].read = latest
                /\ launch[l].kept => launch[l].read # "none" /\ secret = latest

LaunchInv == FilesOK /\ LaunchersOK /\ RootOK /\ LockIsHeld /\ KeyIsKept

\* Nobody has launched anything.
LEMMA LaunchInitial == LaunchInit => LaunchInv
<1> SUFFICES ASSUME LaunchInit PROVE LaunchInv
  OBVIOUS
<1>1. \A l \in Launcher : launch[l] = Idle
  BY DEF LaunchInit
<1>2. /\ DOMAIN Idle = LauncherFields /\ Idle.stage = "idle" /\ Idle.pid = "none"
      /\ Idle.read = "none" /\ ~Idle.kept
  BY DEF Idle, LauncherFields
<1>3. config.form = "absent" /\ config \in ConfigFiles
  BY DEF LaunchInit, ConfigFiles
<1> HIDE DEF Idle
<1>4. LaunchersOK
  BY <1>1, <1>2 DEF LaunchersOK, LauncherOK, LaunchInit, Serving, Claiming
<1>5. KeyIsKept
  BY <1>1, <1>2, <1>3 DEF KeyIsKept, LaunchInit
<1>6. LockIsHeld
  BY <1>1, <1>2 DEF LockIsHeld, LaunchInit, PastLock
<1> QED
  BY <1>3, <1>4, <1>5, <1>6 DEF LaunchInv, FilesOK, RootOK, LaunchInit

\* One launcher changes.
LEMMA LauncherChanges ==
    ASSUME LaunchersOK, NEW l \in Launcher, NEW r, launch' = [launch EXCEPT ![l] = r],
           LauncherOK(r)
    PROVE  LaunchersOK' /\ launch'[l] = r /\ \A m \in Launcher \ {l} : launch'[m] = launch[m]
<1>1. launch'[l] = r /\ (\A m \in Launcher \ {l} : launch'[m] = launch[m])
      /\ launch' = [m \in Launcher |-> launch'[m]]
  BY DEF LaunchersOK
<1>2. \A m \in Launcher : LauncherOK(launch'[m])
  BY <1>1, Zenon DEF LaunchersOK
<1> QED
  BY <1>1, <1>2 DEF LaunchersOK

\* A launcher that goes on, and one whose launch fails.
LEMMA MoveIs ==
    ASSUME LaunchersOK, NEW l \in Launcher, NEW s, MoveTo(l, s),
           s \in Serving => launch[l].stage \in Serving
    PROVE  \E r : /\ launch' = [launch EXCEPT ![l] = r] /\ LauncherOK(r)
                  /\ r.stage = s /\ r.pid = launch[l].pid
                  /\ r.read = launch[l].read /\ r.kept = launch[l].kept
<1> DEFINE r == [launch[l] EXCEPT !.stage = s]
<1>1. LauncherOK(launch[l]) /\ launch = [m \in Launcher |-> launch[m]]
  BY DEF LaunchersOK
<1>2. launch' = [launch EXCEPT ![l] = r]
  BY <1>1 DEF MoveTo
<1>3. /\ DOMAIN r = LauncherFields /\ r.stage = s /\ r.pid = launch[l].pid
      /\ r.read = launch[l].read /\ r.kept = launch[l].kept
  BY <1>1 DEF LauncherOK, LauncherFields
<1> HIDE DEF r
<1>4. LauncherOK(r)
  BY <1>1, <1>3 DEF LauncherOK
<1> QED
  BY <1>2, <1>3, <1>4

\* An idle launcher has no process and has read nothing.
LEMMA FailureIs ==
    /\ LauncherOK(Idle) /\ Idle.stage = "idle" /\ Idle.pid = "none" /\ Idle.read = "none"
    /\ ~Idle.kept
  BY DEF Idle, LauncherOK, LauncherFields, Serving, Claiming

\* A launcher takes no lock and writes no key.
LEMMA OnItsWay ==
    ASSUME LaunchInv, NEW l \in Launcher, NEW r, launch' = [launch EXCEPT ![l] = r],
           LauncherOK(r), FilesOK', RootOK',
           UNCHANGED <<config, secret, latest, overtaken, locked, recovered>>,
           r.stage \in PastLock => launch[l].stage \in PastLock,
           r.stage = "create" => launch[l].stage = "create" \/ config.form = "absent",
           r.read = "none" \/ r.read = launch[l].read \/ r.read = latest,
           r.kept => launch[l].kept /\ r.read = launch[l].read
    PROVE  LaunchInv'
<1>1. LaunchersOK' /\ launch'[l] = r /\ \A m \in Launcher \ {l} : launch'[m] = launch[m]
  BY LauncherChanges DEF LaunchInv
<1>2. LockIsHeld'
  BY <1>1 DEF LockIsHeld, LaunchInv
<1>3. KeyIsKept'
  <2>1. ASSUME ~overtaken, NEW m \in Launcher
        PROVE  /\ launch'[m].stage = "create" => latest = "none"
               /\ launch'[m].read # "none" => launch'[m].read = latest
               /\ launch'[m].kept => launch'[m].read # "none" /\ secret = latest
    <3>1. CASE m = l
      BY <1>1, <2>1, <3>1 DEF KeyIsKept, LaunchInv
    <3>2. CASE m # l
      BY <1>1, <2>1, <3>2 DEF KeyIsKept, LaunchInv
    <3> QED
      BY <3>1, <3>2
  <2> QED
    BY <2>1 DEF KeyIsKept, LaunchInv
<1> QED
  BY <1>1, <1>2, <1>3 DEF LaunchInv

\* A launcher that goes to its next stage leaves locks and keys alone.
LEMMA MovesOn ==
    ASSUME LaunchInv, NEW l \in Launcher, NEW s, MoveTo(l, s),
           venv' \in {"none", "bare", "pip", "installed"},
           UNCHANGED <<config, secret, latest, overtaken, lockFile, locked, recovered, strangers>>,
           working' \subseteq working,
           s \in Serving => launch[l].stage \in Serving,
           s \in PastLock => launch[l].stage \in PastLock,
           s = "create" => launch[l].stage = "create" \/ config.form = "absent"
    PROVE  LaunchInv'
<1>1. PICK r : /\ launch' = [launch EXCEPT ![l] = r] /\ LauncherOK(r)
               /\ r.stage = s /\ r.pid = launch[l].pid
               /\ r.read = launch[l].read /\ r.kept = launch[l].kept
  BY MoveIs DEF LaunchInv
<1>2. FilesOK' /\ RootOK'
  BY DEF LaunchInv, FilesOK, RootOK
<1> QED
  BY <1>1, <1>2, OnItsWay

\* A launcher that fails is idle again and leaves what it wrote.
LEMMA LauncherFails ==
    ASSUME LaunchInv, NEW l \in Launcher, LaunchFails(l),
           UNCHANGED <<venv, config, secret, latest, overtaken>>,
           UNCHANGED <<lockFile, locked, working, recovered, strangers>>
    PROVE  LaunchInv'
<1>1. launch' = [launch EXCEPT ![l] = Idle]
  BY DEF LaunchFails
<1>2. FilesOK' /\ RootOK'
  BY DEF LaunchInv, FilesOK, RootOK
<1>3. Idle.stage \notin PastLock /\ Idle.stage # "create"
  BY FailureIs DEF PastLock
<1> QED
  BY <1>1, <1>2, <1>3, FailureIs, OnItsWay

\* The commands of a launcher up to the daemon's own process.
LEMMA CommandsKeep ==
    ASSUME LaunchInv, NEW l \in Launcher,
           \/ \E skipInstall \in BOOLEAN : Begin(l, skipInstall)
           \/ AddPip(l) \/ Install(l) \/ LookAtInterpreter(l) \/ InitLooks(l)
           \/ DoctorEnds(l)
    PROVE  LaunchInv'
<1>0. venv \in {"none", "bare", "pip", "installed"}
  BY DEF LaunchInv, FilesOK
<1>1. {"look", "install", "pip", "init", "doctor", "create", "load"} \cap Serving = {}
      /\ PastLock \subseteq Serving
  BY DEF Serving, Claiming, PastLock
<1>2. ASSUME NEW s \in {"look", "install", "pip", "init", "doctor", "create", "load"},
             MoveTo(l, s), venv' \in {venv, "bare", "pip", "installed"},
             UNCHANGED <<config, secret, latest, overtaken, strangers>>,
             UNCHANGED <<lockFile, locked, working, recovered>>,
             s = "create" => config.form = "absent"
      PROVE  LaunchInv'
  BY <1>0, <1>1, <1>2, MovesOn
<1>3. ASSUME NEW skipInstall \in BOOLEAN, Begin(l, skipInstall) PROVE LaunchInv'
  <2>1. UNCHANGED <<config, secret, latest, overtaken, strangers>>
        /\ UNCHANGED <<lockFile, locked, working, recovered>>
    BY <1>3 DEF Begin, lockVars
  <2>2. CASE venv # "none"
    <3>1. \E s \in {"look", "install"} : MoveTo(l, s) /\ venv' = venv
      BY <1>3, <2>2 DEF Begin
    <3> QED
      BY <1>2, <2>1, <3>1
  <2>3. CASE venv = "none"
    BY <1>2, <1>3, <2>1, <2>3 DEF Begin
  <2> QED
    BY <2>2, <2>3
<1>4. ASSUME AddPip(l) PROVE LaunchInv'
  BY <1>2, <1>4 DEF AddPip, lockVars
<1>5. ASSUME Install(l) PROVE LaunchInv'
  <2>1. UNCHANGED <<config, secret, latest, overtaken, strangers>>
        /\ UNCHANGED <<lockFile, locked, working, recovered>>
    BY <1>5 DEF Install, lockVars
  <2> QED
    BY <1>2, <1>5, <2>1, LauncherFails DEF Install
<1>6. ASSUME LookAtInterpreter(l) PROVE LaunchInv'
  <2>1. UNCHANGED <<venv, config, secret, latest, overtaken, strangers>>
        /\ UNCHANGED <<lockFile, locked, working, recovered>>
    BY <1>6 DEF LookAtInterpreter, lockVars, fileVars
  <2>2. MoveTo(l, "init") \/ MoveTo(l, "doctor")
    BY <1>6 DEF LookAtInterpreter
  <2> QED
    BY <1>2, <2>1, <2>2
<1>7. ASSUME InitLooks(l) PROVE LaunchInv'
  <2>1. UNCHANGED <<venv, config, secret, latest, overtaken, strangers>>
        /\ UNCHANGED <<lockFile, locked, working, recovered>>
    BY <1>7 DEF InitLooks, lockVars, fileVars
  <2>2. (MoveTo(l, "create") /\ config.form = "absent") \/ LaunchFails(l)
    BY <1>7 DEF InitLooks
  <2> QED
    BY <1>2, <2>1, <2>2, LauncherFails
<1>8. ASSUME DoctorEnds(l) PROVE LaunchInv'
  <2>1. UNCHANGED <<venv, config, secret, latest, overtaken, strangers>>
        /\ UNCHANGED <<lockFile, locked, working, recovered>>
    BY <1>8 DEF DoctorEnds, lockVars, fileVars
  <2>2. MoveTo(l, "load") \/ LaunchFails(l)
    BY <1>8, Zenon DEF DoctorEnds
  <2> QED
    BY <1>2, <2>1, <2>2, LauncherFails
<1> QED
  BY <1>3, <1>4, <1>5, <1>6, <1>7, <1>8

\* The wizard writes the configuration, unless one is there.
LEMMA InitWritesKeeps ==
    ASSUME LaunchInv, NEW l \in Launcher, InitWrites(l)
    PROVE  LaunchInv'
<1>0. UNCHANGED <<venv, secret, latest, overtaken, lockFile, locked, working, recovered, strangers>>
      /\ launch[l].stage = "create" /\ config' = StarterConfig /\ MoveTo(l, "doctor")
  BY DEF InitWrites, lockVars
<1>1. "doctor" \notin Serving /\ "doctor" \notin PastLock
  BY DEF Serving, Claiming, PastLock
<1>2. PICK r : /\ launch' = [launch EXCEPT ![l] = r] /\ LauncherOK(r)
               /\ r.stage = "doctor" /\ r.pid = launch[l].pid
               /\ r.read = launch[l].read /\ r.kept = launch[l].kept
  BY <1>0, <1>1, MoveIs DEF LaunchInv
<1>3. LaunchersOK' /\ launch'[l] = r /\ \A m \in Launcher \ {l} : launch'[m] = launch[m]
  BY <1>2, LauncherChanges DEF LaunchInv
<1>4. config' \in ConfigFiles /\ config'.form = "variable"
  BY <1>0 DEF StarterConfig, ConfigFiles
<1>5. FilesOK' /\ RootOK'
  BY <1>0, <1>4 DEF LaunchInv, FilesOK, RootOK
<1>6. LockIsHeld'
  BY <1>0, <1>1, <1>2, <1>3 DEF LaunchInv, LockIsHeld
<1>7. ~overtaken => latest = "none"
  BY <1>0 DEF LaunchInv, KeyIsKept
<1>8. KeyIsKept'
  BY <1>0, <1>2, <1>3, <1>4, <1>7 DEF LaunchInv, KeyIsKept
<1> QED
  BY <1>3, <1>5, <1>6, <1>8 DEF LaunchInv

\* A launcher reads the configuration and whether it holds a secret.
LEMMA ReadConfigKeeps ==
    ASSUME LaunchInv, NEW l \in Launcher, ReadConfig(l)
    PROVE  LaunchInv'
<1>0. UNCHANGED <<venv, config, secret, latest, overtaken>>
      /\ UNCHANGED <<lockFile, locked, working, recovered, strangers>>
      /\ launch[l].stage \in Loading /\ launch[l].read = "none" /\ ~launch[l].kept
      /\ config.form = "plain"
  BY DEF ReadConfig, lockVars, fileVars
<1> DEFINE r == [launch[l] EXCEPT !.read = config.key]
<1>1. LauncherOK(launch[l]) /\ launch = [m \in Launcher |-> launch[m]]
      /\ config.key \in SecretKey \cup {"none"} /\ config.key = latest
  BY <1>0 DEF LaunchInv, LaunchersOK, FilesOK, ConfigFiles, KeyIsKept
<1>2. launch' = [launch EXCEPT ![l] = r]
  BY <1>1 DEF ReadConfig
<1>3. /\ DOMAIN r = LauncherFields /\ r.stage = launch[l].stage /\ r.pid = launch[l].pid
      /\ r.read = latest /\ r.kept = launch[l].kept
  BY <1>1 DEF LauncherOK, LauncherFields
<1> HIDE DEF r
<1>4. LauncherOK(r)
  BY <1>1, <1>3 DEF LauncherOK
<1>5. FilesOK' /\ RootOK'
  BY <1>0 DEF LaunchInv, FilesOK, RootOK
<1> QED
  BY <1>0, <1>2, <1>3, <1>4, <1>5, OnItsWay

\* The secret is kept, or another is made for a configuration without one.
LEMMA KeepSecretKeeps ==
    ASSUME LaunchInv, NEW l \in Launcher, KeepSecret(l)
    PROVE  LaunchInv'
<1>0. UNCHANGED <<venv, config, latest, overtaken>>
      /\ UNCHANGED <<lockFile, locked, working, recovered, strangers>>
      /\ launch[l].read # "none" /\ secret' = launch[l].read
  BY DEF KeepSecret, lockVars, Kept
<1> DEFINE r == [launch[l] EXCEPT !.kept = TRUE]
<1>1. LauncherOK(launch[l]) /\ launch = [m \in Launcher |-> launch[m]]
  BY DEF LaunchInv, LaunchersOK
<1>2. launch' = [launch EXCEPT ![l] = r]
  BY <1>1 DEF KeepSecret
<1>3. /\ DOMAIN r = LauncherFields /\ r.stage = launch[l].stage /\ r.pid = launch[l].pid
      /\ r.read = launch[l].read
  BY <1>1 DEF LauncherOK, LauncherFields
<1> HIDE DEF r
<1>4. LauncherOK(r)
  BY <1>1, <1>3 DEF LauncherOK
<1>5. LaunchersOK' /\ launch'[l] = r /\ \A m \in Launcher \ {l} : launch'[m] = launch[m]
  BY <1>2, <1>4, LauncherChanges DEF LaunchInv
<1>6. FilesOK' /\ RootOK'
  BY <1>0, <1>1 DEF LaunchInv, FilesOK, RootOK, LauncherOK
<1>7. LockIsHeld'
  BY <1>0, <1>3, <1>5 DEF LaunchInv, LockIsHeld
<1>8. ~overtaken => secret' = latest
  BY <1>0 DEF LaunchInv, KeyIsKept
<1>9. ASSUME ~overtaken, NEW m \in Launcher
      PROVE  /\ launch'[m].stage = "create" => latest = "none"
             /\ launch'[m].read # "none" => launch'[m].read = latest
             /\ launch'[m].kept => launch'[m].read # "none"
  <2>1. launch'[m].stage = launch[m].stage /\ launch'[m].read = launch[m].read
    BY <1>3, <1>5
  <2>2. launch'[m].kept => launch'[m].read # "none"
    BY <1>0, <1>3, <1>5, <1>9 DEF LaunchInv, KeyIsKept
  <2> QED
    BY <1>9, <2>1, <2>2 DEF LaunchInv, KeyIsKept
<1>10. KeyIsKept'
  BY <1>0, <1>8, <1>9 DEF LaunchInv, KeyIsKept
<1> QED
  BY <1>5, <1>6, <1>7, <1>10 DEF LaunchInv

\* A launcher writes what it read back, with its secret.
LEMMA RewriteKeeps ==
    ASSUME LaunchInv, NEW l \in Launcher, Rewrite(l)
    PROVE  LaunchInv'
<1>0. UNCHANGED <<venv, secret, latest, overtaken>>
      /\ UNCHANGED <<lockFile, locked, working, recovered, strangers>>
      /\ launch[l].kept /\ config' = [form |-> "reference", key |-> "none"]
  BY DEF Rewrite, lockVars
<1> DEFINE r == [launch[l] EXCEPT !.read = "none", !.kept = FALSE]
<1>1. LauncherOK(launch[l]) /\ launch = [m \in Launcher |-> launch[m]]
  BY DEF LaunchInv, LaunchersOK
<1>2. launch' = [launch EXCEPT ![l] = r]
  BY <1>1 DEF Rewrite
<1>3. /\ DOMAIN r = LauncherFields /\ r.stage = launch[l].stage /\ r.pid = launch[l].pid
      /\ r.read = "none" /\ ~r.kept
  BY <1>1 DEF LauncherOK, LauncherFields
<1> HIDE DEF r
<1>4. LauncherOK(r)
  BY <1>1, <1>3 DEF LauncherOK
<1>5. LaunchersOK' /\ launch'[l] = r /\ \A m \in Launcher \ {l} : launch'[m] = launch[m]
  BY <1>2, <1>4, LauncherChanges DEF LaunchInv
<1>6. config' \in ConfigFiles /\ config'.form = "reference"
  BY <1>0 DEF ConfigFiles
<1>7. FilesOK' /\ RootOK'
  BY <1>0, <1>6 DEF LaunchInv, FilesOK, RootOK
<1>8. LockIsHeld'
  BY <1>0, <1>3, <1>5 DEF LaunchInv, LockIsHeld
<1>9. ~overtaken => secret = latest
  BY <1>0 DEF LaunchInv, KeyIsKept
<1>10. KeyIsKept'
  BY <1>0, <1>3, <1>5, <1>6, <1>9 DEF LaunchInv, KeyIsKept
<1> QED
  BY <1>5, <1>7, <1>8, <1>10 DEF LaunchInv

\* A launched server begins, or finds its address in use.
LEMMA ServeStartsKeeps ==
    ASSUME LaunchInv, NEW l \in Launcher, ServeStarts(l)
    PROVE  LaunchInv'
<1>0. UNCHANGED <<venv, config, secret, latest, overtaken>>
      /\ UNCHANGED <<lockFile, locked, working, recovered, strangers>>
  BY DEF ServeStarts, lockVars, fileVars
<1>1. CASE LaunchFails(l)
  BY <1>0, <1>1, LauncherFails
<1>2. CASE \E p \in Pid \ Alive : launch' = [launch EXCEPT ![l].stage = "guard", ![l].pid = p]
  <2>1. PICK p \in Pid : launch' = [launch EXCEPT ![l].stage = "guard", ![l].pid = p]
    BY <1>2
  <2> DEFINE r == [launch[l] EXCEPT !.stage = "guard", !.pid = p]
  <2>2. LauncherOK(launch[l]) /\ launch = [m \in Launcher |-> launch[m]]
    BY DEF LaunchInv, LaunchersOK
  <2>3. launch' = [launch EXCEPT ![l] = r]
    BY <2>1, <2>2
  <2>4. /\ DOMAIN r = LauncherFields /\ r.stage = "guard" /\ r.pid = p
        /\ r.read = launch[l].read /\ r.kept = launch[l].kept
    BY <2>2 DEF LauncherOK, LauncherFields
  <2> HIDE DEF r
  <2>5. LauncherOK(r)
    BY <2>2, <2>4, LaunchAssumption DEF LauncherOK
  <2>6. FilesOK' /\ RootOK'
    BY <1>0 DEF LaunchInv, FilesOK, RootOK
  <2>7. "guard" \notin PastLock
    BY DEF PastLock
  <2> QED
    BY <1>0, <2>3, <2>4, <2>5, <2>6, <2>7, OnItsWay
<1> QED
  BY <1>1, <1>2 DEF ServeStarts

\* A server that does not get the lock ends.
LEMMA TurnedAwayKeeps ==
    ASSUME LaunchInv, NEW l \in Launcher, TurnedAway(l)
    PROVE  LaunchInv'
<1>1. UNCHANGED <<venv, config, secret, latest, overtaken>>
      /\ UNCHANGED <<lockFile, locked, working, recovered, strangers>> /\ LaunchFails(l)
  BY DEF TurnedAway, fileVars
<1> QED
  BY <1>1, LauncherFails

\* A daemon on its way into the storage root and out of it, with the lock it holds.
LEMMA WithTheLock ==
    ASSUME LaunchInv, NEW l \in Launcher, NEW s \in Serving, MoveTo(l, s),
           UNCHANGED <<venv, config, secret, latest, overtaken, recovered, strangers>>,
           launch[l].stage \in Serving,
           lockFile' \in Pid \cup {"none"}, working' \subseteq Launcher, locked' = l,
           locked \in {"none", l}
    PROVE  LaunchInv'
<1>1. PICK r : /\ launch' = [launch EXCEPT ![l] = r] /\ LauncherOK(r)
               /\ r.stage = s /\ r.pid = launch[l].pid
               /\ r.read = launch[l].read /\ r.kept = launch[l].kept
  BY MoveIs DEF LaunchInv
<1>2. LaunchersOK' /\ launch'[l] = r /\ \A m \in Launcher \ {l} : launch'[m] = launch[m]
  BY <1>1, LauncherChanges DEF LaunchInv
<1>3. FilesOK' /\ RootOK'
  BY DEF LaunchInv, FilesOK, RootOK
<1>4. \A m \in Launcher \ {l} : launch[m].stage \notin PastLock
  BY LaunchAssumption DEF LaunchInv, LockIsHeld
<1>5. LockIsHeld'
  BY <1>2, <1>4 DEF LaunchInv, LockIsHeld
<1>6. s # "create"
  BY DEF Serving, Claiming
<1>7. ASSUME ~overtaken, NEW m \in Launcher
      PROVE  /\ launch'[m].stage = "create" => latest = "none"
             /\ launch'[m].read # "none" => launch'[m].read = latest
             /\ launch'[m].kept => launch'[m].read # "none" /\ secret = latest
  <2>1. launch'[m].read = launch[m].read /\ launch'[m].kept = launch[m].kept
        /\ (launch'[m].stage = "create" => launch[m].stage = "create")
    <3>1. CASE m = l
      BY <1>1, <1>2, <1>6, <3>1
    <3>2. CASE m # l
      BY <1>2, <3>2
    <3> QED
      BY <3>1, <3>2
  <2> QED
    BY <1>7, <2>1 DEF LaunchInv, KeyIsKept
<1>8. KeyIsKept'
  BY <1>7 DEF LaunchInv, KeyIsKept
<1> QED
  BY <1>2, <1>3, <1>5, <1>8 DEF LaunchInv

\* A server guards, claims and stamps its lock, recovers, works and stops.
LEMMA DaemonKeeps ==
    ASSUME LaunchInv, NEW l \in Launcher,
           Guard(l) \/ Claim(l) \/ Stamp(l) \/ Recover(l) \/ Work(l) \/ StopBegins(l) \/ Drain(l)
    PROVE  LaunchInv'
<1>0. /\ \A s \in {"guard", "claim", "stamp", "recover", "serve", "drain", "release"} : s \in Serving
      /\ \A s \in {"stamp", "recover", "serve", "drain", "release"} : s \in PastLock
      /\ lockFile \in Pid \cup {"none"} /\ working \subseteq Launcher
      /\ venv \in {"none", "bare", "pip", "installed"}
  BY DEF Serving, Claiming, PastLock, LaunchInv, RootOK, FilesOK
<1>1. CASE Guard(l)
  <2>1. CASE TurnedAway(l)
    BY <2>1, TurnedAwayKeeps
  <2>2. CASE /\ MoveTo(l, "claim")
             /\ UNCHANGED <<strangers, launchUses>> /\ UNCHANGED fileVars /\ UNCHANGED lockVars
    <3>1. UNCHANGED <<venv, config, secret, latest, overtaken, lockFile, locked, working,
                      recovered, strangers>>
      BY <2>2 DEF fileVars, lockVars
    <3>2. "claim" \notin PastLock /\ launch[l].stage \in Serving
      BY <1>0, <1>1 DEF PastLock, Guard
    <3> QED
      BY <1>0, <2>2, <3>1, <3>2, MovesOn
  <2> QED
    BY <1>1, <2>1, <2>2 DEF Guard
<1>2. CASE Claim(l)
  <2>1. CASE TurnedAway(l)
    BY <2>1, TurnedAwayKeeps
  <2>2. CASE ~TurnedAway(l)
    <3>1. /\ locked = "none" /\ locked' = l /\ lockFile' = "none" /\ MoveTo(l, "stamp")
          /\ UNCHANGED <<working, recovered, strangers>> /\ UNCHANGED fileVars
          /\ launch[l].stage = "claim"
      BY <1>2, <2>2 DEF Claim, LockGranted
    <3>2. UNCHANGED <<venv, config, secret, latest, overtaken, recovered, strangers>>
      BY <3>1 DEF fileVars
    <3> QED
      BY <1>0, <3>1, <3>2, WithTheLock
  <2> QED
    BY <2>1, <2>2
<1>3. ASSUME launch[l].stage \in PastLock PROVE locked = l
  BY <1>3 DEF LaunchInv, LockIsHeld
<1>4. CASE Stamp(l)
  <2>1. /\ launch[l].stage = "stamp" /\ lockFile' = launch[l].pid /\ MoveTo(l, "recover")
        /\ UNCHANGED <<venv, config, secret, latest, overtaken, recovered, strangers>>
        /\ UNCHANGED <<locked, working>>
    BY <1>4 DEF Stamp, fileVars
  <2>2. launch[l].pid \in Pid \cup {"none"}
    BY DEF LaunchInv, LaunchersOK, LauncherOK
  <2> QED
    BY <1>0, <1>3, <2>1, <2>2, WithTheLock
<1>5. CASE Recover(l)
  <2>1. /\ launch[l].stage = "recover" /\ MoveTo(l, "serve") /\ working' = {}
        /\ recovered' = recovered \cup {m \in working : launch[m].stage \in AtWork}
        /\ UNCHANGED <<venv, config, secret, latest, overtaken, strangers, lockFile, locked>>
    BY <1>5 DEF Recover, fileVars
  <2>2. locked = l
    BY <1>0, <1>3, <2>1
  <2>3. \A m \in working : launch[m].stage \notin AtWork
    <3>1. ASSUME NEW m \in working, launch[m].stage \in AtWork PROVE FALSE
      <4>1. m \in Launcher /\ launch[m].stage \in PastLock
        BY <1>0, <3>1 DEF AtWork
      <4>2. m = l
        BY <2>2, <4>1 DEF LaunchInv, LockIsHeld
      <4> QED
        BY <2>1, <3>1, <4>2 DEF AtWork
    <3> QED
      BY <3>1
  <2>4. recovered' = recovered
    BY <2>1, <2>3
  <2> QED
    BY <1>0, <2>1, <2>2, <2>4, WithTheLock
<1>6. CASE Work(l)
  <2>1. /\ UNCHANGED <<launch, lockFile, locked, recovered, strangers>>
        /\ UNCHANGED <<venv, config, secret, latest, overtaken>>
        /\ working' \subseteq Launcher
    BY <1>0, <1>6 DEF Work, fileVars
  <2> QED
    BY <2>1 DEF LaunchInv, FilesOK, LaunchersOK, RootOK, LockIsHeld, KeyIsKept
<1>7. CASE StopBegins(l)
  <2>1. /\ launch[l].stage = "serve" /\ MoveTo(l, "drain")
        /\ UNCHANGED <<venv, config, secret, latest, overtaken, recovered, strangers>>
        /\ UNCHANGED <<lockFile, locked, working>>
    BY <1>7 DEF StopBegins, fileVars, lockVars
  <2> QED
    BY <1>0, <1>3, <2>1, WithTheLock
<1>8. CASE Drain(l)
  <2>1. /\ launch[l].stage = "drain" /\ MoveTo(l, "release") /\ working' \subseteq Launcher
        /\ UNCHANGED <<venv, config, secret, latest, overtaken, recovered, strangers>>
        /\ UNCHANGED <<lockFile, locked>>
    BY <1>0, <1>8 DEF Drain, fileVars
  <2> QED
    BY <1>0, <1>3, <2>1, WithTheLock
<1> QED
  BY <1>1, <1>2, <1>4, <1>5, <1>6, <1>7, <1>8

\* A daemon that is gone holds no lock, and nobody else is past it.
LEMMA GoneKeeps ==
    ASSUME LaunchInv, NEW l \in Launcher, Release(l) \/ Killed(l)
    PROVE  LaunchInv'
<1>1. /\ UNCHANGED <<venv, config, secret, latest, overtaken, recovered, strangers>>
      /\ UNCHANGED <<lockFile, working>> /\ launch' = [launch EXCEPT ![l] = Idle]
  BY DEF Release, Killed, fileVars, LaunchFails
<1>2. (locked = l /\ locked' = "none") \/ locked' = locked
  <2>1. Release(l) => locked = l
    BY DEF Release, LaunchInv, LockIsHeld, PastLock
  <2> QED
    BY <2>1 DEF Release, Killed
<1>3. LaunchersOK' /\ launch'[l] = Idle /\ \A m \in Launcher \ {l} : launch'[m] = launch[m]
  BY <1>1, FailureIs, LauncherChanges DEF LaunchInv
<1>4. FilesOK' /\ RootOK'
  BY <1>1, <1>2 DEF LaunchInv, FilesOK, RootOK
<1>5. Idle.stage \notin PastLock /\ Idle.stage # "create"
  BY FailureIs DEF PastLock
<1>6. LockIsHeld'
  <2>1. \A m \in Launcher \ {l} : launch[m].stage \in PastLock => locked = m
    BY DEF LaunchInv, LockIsHeld
  <2> QED
    BY <1>1, <1>2, <1>3, <1>5, <2>1 DEF LaunchInv, LockIsHeld
<1>7. ASSUME ~overtaken, NEW m \in Launcher
      PROVE  /\ launch'[m].stage = "create" => latest = "none"
             /\ launch'[m].read # "none" => launch'[m].read = latest
             /\ launch'[m].kept => launch'[m].read # "none" /\ secret = latest
  <2>1. CASE m = l
    BY <1>3, <1>5, <2>1, FailureIs
  <2>2. CASE m # l
    BY <1>3, <1>7, <2>2 DEF LaunchInv, KeyIsKept
  <2> QED
    BY <2>1, <2>2
<1>8. KeyIsKept'
  BY <1>1, <1>7 DEF LaunchInv, KeyIsKept
<1> QED
  BY <1>3, <1>4, <1>6, <1>8 DEF LaunchInv

\* The operator writes a key.
LEMMA EditKeeps ==
    ASSUME LaunchInv, NEW k \in SecretKey, Edit(k)
    PROVE  LaunchInv'
<1>1. /\ UNCHANGED <<venv, secret, launch, strangers, lockFile, locked, working, recovered>>
      /\ config' = [form |-> "plain", key |-> k] /\ latest' = k
  BY DEF Edit, lockVars
<1>2. config' \in ConfigFiles /\ config'.form = "plain" /\ config'.key = k
  BY <1>1 DEF ConfigFiles
<1>3. k # "none"
  BY LaunchAssumption
<1>4. ~overtaken' => \A l \in Launcher : launch[l].read = "none" /\ launch[l].stage # "create"
  BY DEF Edit
<1>5. ~overtaken' => ~overtaken
  BY DEF Edit
<1>6. ~overtaken' => \A l \in Launcher : ~launch[l].kept
  BY <1>4, <1>5 DEF LaunchInv, KeyIsKept
<1>7. FilesOK' /\ RootOK' /\ LaunchersOK' /\ LockIsHeld'
  BY <1>1, <1>2 DEF LaunchInv, FilesOK, RootOK, LaunchersOK, LockIsHeld
<1>8. KeyIsKept'
  BY <1>1, <1>2, <1>3, <1>4, <1>6 DEF KeyIsKept
<1> QED
  BY <1>7, <1>8 DEF LaunchInv

\* Each step of launchers and of the operator keeps the invariant.
LEMMA LaunchStep == LaunchInv /\ [LaunchNext]_launchVars => LaunchInv'
<1> SUFFICES ASSUME LaunchInv, [LaunchNext]_launchVars PROVE LaunchInv'
  OBVIOUS
<1>1. CASE UNCHANGED launchVars
  BY <1>1 DEF launchVars, LaunchInv, FilesOK, LaunchersOK, RootOK, LockIsHeld, KeyIsKept
<1>2. ASSUME NEW p \in Pid, Reuse(p) PROVE LaunchInv'
  <2>1. /\ UNCHANGED <<venv, config, secret, latest, overtaken, launch>>
        /\ UNCHANGED <<lockFile, locked, working, recovered>> /\ strangers' = strangers \cup {p}
    BY <1>2 DEF Reuse, fileVars, lockVars
  <2> QED
    BY <2>1 DEF LaunchInv, FilesOK, LaunchersOK, RootOK, LockIsHeld, KeyIsKept
<1>3. CASE LaunchNext
  BY <1>2, <1>3, CommandsKeep, InitWritesKeeps, ReadConfigKeeps, KeepSecretKeeps, RewriteKeeps,
     ServeStartsKeeps, DaemonKeeps, GoneKeeps, EditKeeps, Zenon DEF LaunchNext
<1> QED
  BY <1>1, <1>3

\* The invariant says that recovery is alone and that keys survive.
LEMMA LaunchHolds == LaunchInv => LaunchTypeOK /\ RecoveryIsAlone /\ KeysSurvive
<1> SUFFICES ASSUME LaunchInv PROVE LaunchTypeOK /\ RecoveryIsAlone /\ KeysSurvive
  OBVIOUS
<1>1. LaunchTypeOK
  BY DEF LaunchInv, LaunchTypeOK, FilesOK, LaunchersOK, LauncherOK, RootOK, LockIsHeld, ConfigFiles
<1>2. RecoveryIsAlone
  <2> DEFINE P == {l \in Launcher : launch[l].stage \in {"stamp", "recover", "serve", "drain"}}
  <2>1. \A l \in P : l = locked
    BY DEF LaunchInv, LockIsHeld, PastLock
  <2>2. P \subseteq {locked}
    BY <2>1
  <2> HIDE DEF P
  <2>3. IsFiniteSet({locked}) /\ Cardinality({locked}) = 1
    BY FS_Singleton
  <2>4. Cardinality(P) <= Cardinality({locked})
    BY <2>2, <2>3, FS_Subset
  <2>5. Cardinality(P) <= 1
    BY <2>3, <2>4
  <2> QED
    BY <2>5 DEF RecoveryIsAlone, LaunchInv, LockIsHeld, P
<1>3. KeysSurvive
  <2>1. config \in ConfigFiles
    BY DEF LaunchInv, FilesOK
  <2>2. config.form = "plain" => config = [form |-> "plain", key |-> config.key]
    BY <2>1 DEF ConfigFiles
  <2>3. config.form \in {"absent", "variable", "plain", "reference"}
    BY <2>1 DEF ConfigFiles
  <2> QED
    BY <2>2, <2>3 DEF LaunchInv, KeyIsKept, KeysSurvive
<1> QED
  BY <1>1, <1>2, <1>3

-----------------------------------------------------------------------------
(* The log of a session *)

EventLine == [seq : Nat, event : SessionEvent, ended : BOOLEAN]
Line == EventLine \cup {Broken(TRUE), Broken(FALSE)}

\* Broken lines are lines and no events.
LEMMA LineIs ==
    /\ \A b \in BOOLEAN : Broken(b) \in Line /\ ~IsEvent(Broken(b)) /\ Broken(b).ended = b
    /\ \A x \in EventLine : /\ IsEvent(x) /\ x.event \in SessionEvent /\ x.seq \in Nat
                             /\ x.ended \in BOOLEAN
    /\ \A x \in Line : x.ended \in BOOLEAN /\ (IsEvent(x) => x \in EventLine)
<1>1. \A b \in BOOLEAN : b = TRUE \/ b = FALSE
  OBVIOUS
<1>2. \A b \in BOOLEAN : ~IsEvent(Broken(b)) /\ Broken(b).ended = b
  BY DEF IsEvent, Broken
<1>3. \A b \in BOOLEAN : Broken(b) \in Line
  BY <1>1 DEF Line
<1>4. \A x \in EventLine : /\ IsEvent(x) /\ x.event \in SessionEvent /\ x.seq \in Nat
                           /\ x.ended \in BOOLEAN
  BY HistoriesAssumption DEF EventLine, IsEvent
<1>5. TRUE \in BOOLEAN /\ FALSE \in BOOLEAN
  OBVIOUS
<1> QED
  BY <1>2, <1>3, <1>4, <1>5 DEF Line

\* A line is added to a file that ends in none that was cut off.
LEMMA LineAdded ==
    ASSUME NEW s \in Seq(Line), NEW x \in Line
    PROVE  /\ Append(s, x) \in Seq(Line) /\ Len(Append(s, x)) = Len(s) + 1
           /\ Append(s, x)[Len(s) + 1] = x
           /\ \A i \in 1..Len(s) : Append(s, x)[i] = s[i]
           /\ Loaded(Append(s, x))
                = IF IsEvent(x) THEN Loaded(s) \cup {Len(s) + 1} ELSE Loaded(s)
<1> DEFINE t == Append(s, x)
<1>1. /\ t \in Seq(Line) /\ Len(t) = Len(s) + 1 /\ t[Len(s) + 1] = x
      /\ \A i \in 1..Len(s) : t[i] = s[i]
  BY AppendProperties
<1>2. Len(s) \in Nat /\ DOMAIN s = 1..Len(s) /\ DOMAIN t = 1..(Len(s) + 1)
  BY <1>1, LenProperties
<1> HIDE DEF t
<1>3. Loaded(t) = IF IsEvent(x) THEN Loaded(s) \cup {Len(s) + 1} ELSE Loaded(s)
  BY <1>1, <1>2 DEF Loaded
<1> QED
  BY <1>1, <1>3 DEF t

\* The last line is broken: it is no event any more.
LEMMA LineSpoilt ==
    ASSUME NEW s \in Seq(Line), Len(s) > 0, NEW b \in BOOLEAN
    PROVE  LET t == [s EXCEPT ![Len(s)] = Broken(b)]
           IN  /\ t \in Seq(Line) /\ Len(t) = Len(s) /\ t[Len(s)] = Broken(b)
               /\ \A i \in 1..Len(s) : i # Len(s) => t[i] = s[i]
               /\ Loaded(t) = Loaded(s) \ {Len(s)}
<1> DEFINE x == Broken(b)
           t == [s EXCEPT ![Len(s)] = x]
<1>1. Len(s) \in Nat /\ DOMAIN s = 1..Len(s) /\ Len(s) \in 1..Len(s) /\ x \in Line
      /\ ~IsEvent(x)
  BY LenProperties, LineIs
<1> HIDE DEF x
<1>2. /\ t \in Seq(Line) /\ Len(t) = Len(s) /\ t[Len(s)] = x
      /\ \A i \in 1..Len(s) : i # Len(s) => t[i] = s[i]
  <2> DEFINE n == Len(s)
             u == [s EXCEPT ![n] = x]
  <2>1. n \in 1..Len(s)
    BY <1>1
  <2> HIDE DEF n
  <2>2. /\ u \in Seq(Line) /\ Len(u) = Len(s)
        /\ \A j \in 1..Len(s) : u[j] = IF j = n THEN x ELSE s[j]
    BY <1>1, <2>1, ExceptSeq
  <2>3. u = t
    BY DEF n
  <2>4. t \in Seq(Line) /\ Len(t) = Len(s) /\ \A j \in 1..Len(s) : t[j] = IF j = n THEN x ELSE s[j]
    BY <2>2, <2>3
  <2> HIDE DEF u, t
  <2>5. t[n] = x /\ \A j \in 1..Len(s) : j # n => t[j] = s[j]
    BY <2>1, <2>4
  <2> QED
    BY <2>4, <2>5 DEF n
<1>3. DOMAIN t = 1..Len(s)
  BY <1>1, <1>2, LenProperties
<1> HIDE DEF t
<1>4. Loaded(t) = Loaded(s) \ {Len(s)}
  <2>1. ~IsEvent(t[Len(s)])
    BY <1>1, <1>2
  <2>2. \A i \in 1..Len(s) : i # Len(s) => (IsEvent(t[i]) <=> IsEvent(s[i]))
    BY <1>2
  <2>3. \A i \in 1..Len(s) : i \in Loaded(t) <=> i \in Loaded(s) /\ i # Len(s)
    BY <1>1, <1>3, <2>1, <2>2 DEF Loaded
  <2>4. Loaded(t) \subseteq 1..Len(s) /\ Loaded(s) \subseteq 1..Len(s)
    BY <1>1, <1>3 DEF Loaded
  <2> QED
    BY <2>3, <2>4
<1> QED
  BY <1>2, <1>4 DEF t, x

\* A file is resumed above every number in it.
LEMMA ResumesAbove ==
    ASSUME NEW s \in Seq(Line)
    PROVE  /\ ResumeAt(s) \in Nat \ {0}
           /\ \A i \in Loaded(s) : s[i].seq \in Nat /\ s[i].seq < ResumeAt(s)
<1> DEFINE S == {0} \cup {s[i].seq : i \in Loaded(s)}
<1>1. Loaded(s) \subseteq 1..Len(s) /\ Len(s) \in Nat
  BY LenProperties DEF Loaded
<1>2. \A i \in Loaded(s) : s[i].seq \in Nat
  <2>1. ASSUME NEW i \in Loaded(s) PROVE s[i].seq \in Nat
    <3>1. s[i] \in Line /\ IsEvent(s[i])
      BY <1>1, ElementOfSeq DEF Loaded
    <3> QED
      BY <3>1, LineIs
  <2> QED
    BY <2>1
<1>3. \A n \in S : n \in Nat
  BY <1>2
<1>4. IsFiniteSet(S) /\ S # {}
  <2>1. IsFiniteSet(Loaded(s))
    <3>1. 1 \in Int /\ Len(s) \in Int
      BY <1>1
    <3>2. IsFiniteSet(1..Len(s))
      BY <3>1, FS_Interval
    <3> QED
      BY <1>1, <3>2, FS_Subset
  <2> DEFINE T == {s[i].seq : i \in Loaded(s)}
             f == [i \in Loaded(s) |-> s[i].seq]
  <2>2. f \in Surjection(Loaded(s), T)
    BY DEF Surjection
  <2>3. IsFiniteSet(T)
    BY <2>1, <2>2, FS_Surjection
  <2>4. S = T \cup {0}
    OBVIOUS
  <2> HIDE DEF T, S
  <2> QED
    BY <2>3, <2>4, FS_AddElement
<1>5. \A i \in Loaded(s) : s[i].seq \in S
  OBVIOUS
<1>6. ResumeAt(s) = Max(S) + 1
  BY DEF ResumeAt
<1> HIDE DEF S
<1>7. Max(S) \in S /\ \A n \in S : n <= Max(S)
  BY <1>3, <1>4, LargestIs
<1> QED
  BY <1>2, <1>3, <1>5, <1>6, <1>7

\* With one object at a time, its number is above all that are in the file; an event
\* whose line has no newline is not appended, and no more events are missing from the
\* file than lines were cut off.
AheadOf(n) == \A i \in Loaded(logLines) : logLines[i].seq < n
Missing == appended \ Transcript(logLines)
SessionInv ==
    /\ logLines \in Seq(Line)
    /\ \A i \in 1..Len(logLines) : ~logLines[i].ended =>
          i = Len(logLines) /\ logLines[i].event \notin appended
    /\ nextSeq \in [Owner -> Nat] /\ appended \subseteq SessionEvent
    /\ IsFiniteSet(appended) /\ tears \in Nat /\ shared \in BOOLEAN
    /\ ~shared => /\ \A o, p \in Owner : nextSeq[o] > 0 /\ nextSeq[p] > 0 => o = p
                  /\ \A o \in Owner : nextSeq[o] > 0 => AheadOf(nextSeq[o])
    /\ NumbersIncrease
    /\ Cardinality(Missing) + (IF Unended THEN 1 ELSE 0) <= tears

\* There is no log.
LEMMA SessionInitial == SessionInit => SessionInv
<1> SUFFICES ASSUME SessionInit PROVE SessionInv
  OBVIOUS
<1>1. logLines = <<>> /\ appended = {} /\ tears = 0 /\ shared = FALSE
      /\ nextSeq = [o \in Owner |-> 0]
  BY DEF SessionInit
<1>2. Loaded(logLines) = {} /\ ~Unended
  BY <1>1 DEF Loaded, Unended
<1>3. IsFiniteSet({}) /\ Cardinality({}) = 0
  BY FS_EmptySet
<1>4. Missing = {}
  BY <1>1 DEF Missing
<1>5. Cardinality(Missing) + (IF Unended THEN 1 ELSE 0) <= tears
  BY <1>1, <1>2, <1>3, <1>4
<1>6. NumbersIncrease
  BY <1>2 DEF NumbersIncrease
<1>7. shared \in BOOLEAN
  BY <1>1
<1> QED
  BY <1>1, <1>3, <1>5, <1>6, <1>7 DEF SessionInv

\* Whoever opens a log counts on from what can be read of it.
LEMMA OpenKeeps ==
    ASSUME SessionInv, NEW o \in Owner, OpenLog(o)
    PROVE  SessionInv'
<1>1. UNCHANGED <<logLines, appended, tears>> /\ nextSeq[o] = 0
      /\ nextSeq' = [nextSeq EXCEPT ![o] = ResumeAt(logLines)]
      /\ shared' = (shared \/ \E p \in Owner : nextSeq[p] > 0)
  BY DEF OpenLog
<1>2. logLines \in Seq(Line) /\ nextSeq \in [Owner -> Nat] /\ shared \in BOOLEAN
  BY DEF SessionInv
<1>3. ResumeAt(logLines) \in Nat \ {0} /\ AheadOf(ResumeAt(logLines))
  BY <1>2, ResumesAbove DEF AheadOf
<1>4. nextSeq' \in [Owner -> Nat]
  BY <1>1, <1>2, <1>3
<1>5. ~shared' => ~shared /\ \A p \in Owner : nextSeq[p] = 0
  <2>1. ~shared' => ~shared /\ ~\E p \in Owner : nextSeq[p] > 0
    BY <1>1, Zenon
  <2>2. \A p \in Owner : nextSeq[p] > 0 \/ nextSeq[p] = 0
    BY <1>2
  <2> QED
    BY <2>1, <2>2, Zenon
<1>6. nextSeq'[o] = ResumeAt(logLines) /\ \A p \in Owner \ {o} : nextSeq'[p] = nextSeq[p]
  BY <1>1, <1>2
<1>7. ~shared' => /\ \A p, q \in Owner : nextSeq'[p] > 0 /\ nextSeq'[q] > 0 => p = q
                  /\ \A p \in Owner : nextSeq'[p] > 0 => p = o
  BY <1>5, <1>6
<1>8. AheadOf(nextSeq[o])'
  BY <1>1, <1>3, <1>6 DEF AheadOf
<1>9. NumbersIncrease'
  BY <1>1, <1>5 DEF SessionInv, NumbersIncrease
<1>10. Cardinality(Missing)' + (IF Unended' THEN 1 ELSE 0) <= tears'
  BY <1>1 DEF SessionInv, Missing, Unended
<1>11. shared' \in BOOLEAN
  BY <1>1, <1>2
<1>12. ~shared' => \A p \in Owner : nextSeq'[p] > 0 => AheadOf(nextSeq[p])'
  BY <1>7, <1>8
<1> QED
  BY <1>1, <1>4, <1>7, <1>9, <1>10, <1>11, <1>12 DEF SessionInv

\* What is known of the lines of a log.
LEMMA LogIs ==
    ASSUME SessionInv
    PROVE  /\ Len(logLines) \in Nat /\ Loaded(logLines) \subseteq 1..Len(logLines)
           /\ \A i \in Loaded(logLines) : /\ logLines[i].seq \in Nat
                                           /\ logLines[i].event \in SessionEvent
           /\ \A i \in 1..Len(logLines) : logLines[i].ended \in BOOLEAN
           /\ ~Unended => \A i \in 1..Len(logLines) : logLines[i].ended
           /\ IsFiniteSet(Missing) /\ Cardinality(Missing) \in Nat
<1>0. logLines \in Seq(Line) /\ IsFiniteSet(appended)
  BY DEF SessionInv
<1>1. Loaded(logLines) \subseteq 1..Len(logLines) /\ Len(logLines) \in Nat
  BY <1>0, LenProperties DEF Loaded
<1>2. ASSUME NEW i \in Loaded(logLines)
      PROVE  logLines[i].seq \in Nat /\ logLines[i].event \in SessionEvent
  <2>1. logLines[i] \in Line /\ IsEvent(logLines[i])
    BY <1>0, <1>1, ElementOfSeq DEF Loaded
  <2> QED
    BY <2>1, LineIs
<1>3. \A i \in 1..Len(logLines) : logLines[i].ended \in BOOLEAN
  BY <1>0, ElementOfSeq, LineIs
<1>4. ~Unended => \A i \in 1..Len(logLines) : logLines[i].ended
  BY <1>1 DEF SessionInv, Unended
<1>5. IsFiniteSet(Missing) /\ Cardinality(Missing) \in Nat
  BY <1>0, FS_Subset, FS_CardinalityType DEF Missing
<1> QED
  BY <1>1, <1>2, <1>3, <1>4, <1>5

\* A line is written: it joins one without a newline, and neither is read, or it is
\* one of its own.  What was appended is read as before.
LEMMA LineWritten ==
    ASSUME SessionInv, NEW x \in Line, logLines' = WithLine(x),
           ~x.ended => x.event \notin appended
    PROVE  /\ logLines' \in Seq(Line) /\ Len(logLines') \in Nat
           /\ Len(logLines') > 0 /\ logLines'[Len(logLines')].ended = x.ended
           /\ \A i \in 1..Len(logLines') : ~logLines'[i].ended =>
                 i = Len(logLines') /\ logLines'[i].event \notin appended
           /\ \A i \in Loaded(logLines') :
                 \/ i \in Loaded(logLines) /\ logLines'[i] = logLines[i]
                 \/ i = Len(logLines) + 1 /\ logLines'[i] = x /\ IsEvent(x) /\ ~Unended
           /\ appended \cap Transcript(logLines) \subseteq Transcript(logLines')
           /\ ~Unended /\ IsEvent(x) => x.event \in Transcript(logLines')
<1> DEFINE n == Len(logLines)
<1>0. logLines \in Seq(Line) /\ n \in Nat /\ Loaded(logLines) \subseteq 1..n
  BY LogIs DEF SessionInv
<1>1. CASE Unended
  <2>0. x.ended \in BOOLEAN
    BY LineIs
  <2>1. n > 0 /\ ~logLines[n].ended /\ logLines' = [logLines EXCEPT ![n] = Broken(x.ended)]
    BY <1>1 DEF Unended, WithLine
  <2>2. /\ logLines' \in Seq(Line) /\ Len(logLines') = n /\ logLines'[n] = Broken(x.ended)
        /\ \A i \in 1..n : i # n => logLines'[i] = logLines[i]
        /\ Loaded(logLines') = Loaded(logLines) \ {n}
    <3>1. PICK b \in BOOLEAN : x.ended = b
      BY <2>0
    <3>2. logLines' = [logLines EXCEPT ![n] = Broken(b)]
      BY <2>1, <3>1
    <3>3. /\ [logLines EXCEPT ![n] = Broken(b)] \in Seq(Line)
          /\ Len([logLines EXCEPT ![n] = Broken(b)]) = n
          /\ [logLines EXCEPT ![n] = Broken(b)][n] = Broken(b)
          /\ \A i \in 1..n : i # n => [logLines EXCEPT ![n] = Broken(b)][i] = logLines[i]
          /\ Loaded([logLines EXCEPT ![n] = Broken(b)]) = Loaded(logLines) \ {n}
      BY <1>0, <2>1, LineSpoilt, Zenon
    <3>4. /\ logLines' \in Seq(Line) /\ Len(logLines') = n /\ logLines'[n] = Broken(b)
          /\ \A i \in 1..n : i # n => logLines'[i] = logLines[i]
          /\ Loaded(logLines') = Loaded(logLines) \ {n}
      BY <3>2, <3>3, Zenon
    <3>5. Broken(x.ended) = Broken(b)
      BY <3>1
    <3> QED
      BY <3>4, <3>5, Zenon
  <2>3. logLines'[n].ended = x.ended /\ logLines'[n].event = "junk"
    BY <2>0, <2>2, LineIs DEF Broken
  <2>4. "junk" \notin appended
    BY HistoriesAssumption DEF SessionInv
  <2>5. \A i \in 1..n : ~logLines'[i].ended => i = n /\ logLines'[i].event \notin appended
    BY <2>2, <2>3, <2>4 DEF SessionInv
  <2>6. \A i \in Loaded(logLines') : i \in Loaded(logLines) /\ logLines'[i] = logLines[i]
    BY <1>0, <2>2
  <2>7. appended \cap Transcript(logLines) \subseteq Transcript(logLines')
    <3> SUFFICES ASSUME NEW i \in Loaded(logLines), logLines[i].event \in appended
                 PROVE  logLines[i].event \in Transcript(logLines')
      BY DEF Transcript
    <3>1. i # n
      BY <1>0, <2>1 DEF SessionInv
    <3>2. i \in Loaded(logLines') /\ logLines'[i] = logLines[i]
      BY <1>0, <2>2, <3>1
    <3> QED
      BY <3>2 DEF Transcript
  <2> QED
    BY <1>0, <1>1, <2>1, <2>2, <2>3, <2>5, <2>6, <2>7
<1>2. CASE ~Unended
  <2>1. logLines' = Append(logLines, x)
    BY <1>2 DEF WithLine
  <2>2. /\ logLines' \in Seq(Line) /\ Len(logLines') = n + 1 /\ logLines'[n + 1] = x
        /\ \A i \in 1..n : logLines'[i] = logLines[i]
        /\ Loaded(logLines') = IF IsEvent(x) THEN Loaded(logLines) \cup {n + 1} ELSE Loaded(logLines)
    BY <1>0, <2>1, LineAdded
  <2>3. \A i \in 1..n : logLines[i].ended
    BY <1>2, LogIs
  <2>4. \A i \in 1..(n + 1) : ~logLines'[i].ended => i = n + 1 /\ logLines'[i].event \notin appended
    <3> SUFFICES ASSUME NEW i \in 1..(n + 1), ~logLines'[i].ended
                 PROVE  i = n + 1 /\ logLines'[i].event \notin appended
      OBVIOUS
    <3>1. i \in 1..n \/ i = n + 1
      BY <1>0
    <3>2. i \notin 1..n
      BY <2>2, <2>3
    <3> QED
      BY <2>2, <3>1, <3>2
  <2>5. \A i \in Loaded(logLines) : i \in Loaded(logLines') /\ logLines'[i] = logLines[i]
    BY <1>0, <2>2
  <2>6. \A i \in Loaded(logLines') :
           \/ i \in Loaded(logLines) /\ logLines'[i] = logLines[i]
           \/ i = n + 1 /\ logLines'[i] = x /\ IsEvent(x)
    BY <2>2, <2>5
  <2>7. Transcript(logLines) \subseteq Transcript(logLines')
    BY <2>5 DEF Transcript
  <2>8. IsEvent(x) => x.event \in Transcript(logLines')
    <3>1. IsEvent(x) => n + 1 \in Loaded(logLines') /\ logLines'[n + 1] = x
      BY <2>2
    <3> QED
      BY <3>1 DEF Transcript
  <2>9. Len(logLines') \in Nat /\ Len(logLines') > 0 /\ logLines'[Len(logLines')].ended = x.ended
    BY <1>0, <2>2
  <2> QED
    BY <1>2, <2>2, <2>4, <2>6, <2>7, <2>8, <2>9
<1> QED
  BY <1>1, <1>2

\* An append is on a line of its own, or is lost with the one that was cut off.
LEMMA AppendKeeps ==
    ASSUME SessionInv, NEW o \in Owner, NEW e \in SessionEvent, AppendEvent(o, e)
    PROVE  SessionInv'
<1> DEFINE x == LineOf(o, e, TRUE)
           n == Len(logLines)
<1>1. UNCHANGED <<shared, tears>> /\ nextSeq[o] > 0 /\ e \notin appended
      /\ logLines' = WithLine(x) /\ nextSeq' = [nextSeq EXCEPT ![o] = @ + 1]
      /\ appended' = appended \cup {e}
  BY DEF AppendEvent
<1>2. logLines \in Seq(Line) /\ nextSeq \in [Owner -> Nat] /\ tears \in Nat
      /\ IsFiniteSet(appended) /\ appended \subseteq SessionEvent
  BY DEF SessionInv
<1>3. nextSeq' \in [Owner -> Nat] /\ nextSeq'[o] = nextSeq[o] + 1
      /\ \A p \in Owner \ {o} : nextSeq'[p] = nextSeq[p]
  BY <1>1, <1>2
<1>4. x \in EventLine /\ x.seq = nextSeq[o] /\ x.event = e /\ x.ended
  BY <1>2 DEF EventLine, LineOf
<1> HIDE DEF x
<1>5. x \in Line /\ IsEvent(x)
  BY <1>4, LineIs DEF Line
<1>6. IsFiniteSet(appended') /\ appended' \subseteq SessionEvent
  BY <1>1, <1>2, FS_AddElement
<1>7. ~shared => /\ \A p, q \in Owner : nextSeq[p] > 0 /\ nextSeq[q] > 0 => p = q
                 /\ \A p \in Owner : nextSeq[p] > 0 => AheadOf(nextSeq[p])
                 /\ \A i, j \in Loaded(logLines) : i < j => logLines[i].seq < logLines[j].seq
  BY DEF SessionInv, NumbersIncrease
<1>8. ~shared => \A p, q \in Owner : nextSeq'[p] > 0 /\ nextSeq'[q] > 0 => p = q
  BY <1>1, <1>3, <1>7
<1>9. /\ n \in Nat /\ Loaded(logLines) \subseteq 1..n
      /\ \A i \in Loaded(logLines) : logLines[i].seq \in Nat
      /\ IsFiniteSet(Missing) /\ Cardinality(Missing) \in Nat
  BY LogIs
<1>10. \A p \in Owner : nextSeq[p] \in Nat /\ nextSeq'[p] \in Nat
  BY <1>2, <1>3
<1>11. /\ logLines' \in Seq(Line) /\ Len(logLines') \in Nat
       /\ Len(logLines') > 0 /\ logLines'[Len(logLines')].ended
       /\ \A i \in 1..Len(logLines') : ~logLines'[i].ended =>
             i = Len(logLines') /\ logLines'[i].event \notin appended
       /\ \A i \in Loaded(logLines') :
             \/ i \in Loaded(logLines) /\ logLines'[i] = logLines[i]
             \/ i = n + 1 /\ logLines'[i] = x /\ ~Unended
       /\ appended \cap Transcript(logLines) \subseteq Transcript(logLines')
       /\ ~Unended => e \in Transcript(logLines')
  BY <1>1, <1>4, <1>5, LineWritten
<1>12. \A i \in 1..Len(logLines') : logLines'[i].ended
  BY <1>11
<1>13. NumbersIncrease'
  <2> SUFFICES ASSUME ~shared, NEW i \in Loaded(logLines'), NEW j \in Loaded(logLines'), i < j
               PROVE  logLines'[i].seq < logLines'[j].seq
    BY <1>1 DEF NumbersIncrease
  <2>1. i # n + 1
    BY <1>9, <1>11
  <2>2. i \in Loaded(logLines) /\ logLines'[i] = logLines[i]
    BY <1>11, <2>1
  <2>3. CASE j \in Loaded(logLines) /\ logLines'[j] = logLines[j]
    BY <1>7, <2>2, <2>3
  <2>4. CASE j = n + 1 /\ logLines'[j] = x
    BY <1>1, <1>4, <1>7, <2>2, <2>4 DEF AheadOf
  <2> QED
    BY <1>11, <2>3, <2>4
<1>14. ~shared => \A p \in Owner : nextSeq'[p] > 0 => AheadOf(nextSeq[p])'
  <2>1. ~shared => \A p \in Owner : nextSeq'[p] > 0 => p = o
    BY <1>1, <1>3, <1>7, <1>10
  <2>2. ~shared => AheadOf(nextSeq[o])'
    <3> SUFFICES ASSUME ~shared, NEW i \in Loaded(logLines')
                 PROVE  logLines'[i].seq < nextSeq'[o]
      BY DEF AheadOf
    <3>1. CASE i \in Loaded(logLines) /\ logLines'[i] = logLines[i]
      <4>1. logLines[i].seq < nextSeq[o] /\ logLines[i].seq \in Nat
        BY <1>1, <1>7, <1>9, <3>1 DEF AheadOf
      <4> QED
        BY <1>3, <1>10, <3>1, <4>1
    <3>2. CASE logLines'[i] = x
      BY <1>3, <1>4, <1>10, <3>2
    <3> QED
      BY <1>11, <3>1, <3>2
  <2> QED
    BY <2>1, <2>2
<1>15. ~Unended'
  BY <1>11 DEF Unended
<1>16. /\ Missing' \subseteq Missing \cup {e}
       /\ ~Unended => Missing' \subseteq Missing
  BY <1>1, <1>11 DEF Missing
<1>17. Cardinality(Missing') + (IF Unended' THEN 1 ELSE 0) <= tears'
  <2> DEFINE k == Cardinality(Missing')
             m == Cardinality(Missing)
             u == Cardinality(Missing \cup {e})
  <2>1. IsFiniteSet(Missing \cup {e}) /\ u = (IF e \in Missing THEN m ELSE m + 1)
    BY <1>9, FS_AddElement
  <2>2. k \in Nat /\ k <= u /\ (~Unended => k <= m)
    <3>1. IsFiniteSet(Missing') /\ k <= u
      BY <1>16, <2>1, FS_Subset
    <3>2. ~Unended => k <= m
      BY <1>9, <1>16, FS_Subset
    <3> QED
      BY <3>1, <3>2, FS_CardinalityType
  <2>3. (Unended => m + 1 <= tears) /\ (~Unended => m + 0 <= tears) /\ m \in Nat
    BY <1>9 DEF SessionInv
  <2> HIDE DEF k, m, u
  <2>4. k <= tears
    BY <1>2, <2>1, <2>2, <2>3
  <2>5. k + (IF Unended' THEN 1 ELSE 0) <= tears'
    BY <1>1, <1>15, <2>2, <2>4
  <2> QED
    BY <2>5 DEF k
<1>18. \A i \in 1..Len(logLines') : ~logLines'[i].ended =>
          i = Len(logLines') /\ logLines'[i].event \notin appended'
  BY <1>12
<1>19. tears' \in Nat /\ shared' \in BOOLEAN
  BY <1>1, <1>2 DEF SessionInv
<1> QED
  BY <1>1, <1>3, <1>6, <1>8, <1>11, <1>13, <1>14, <1>17, <1>18, <1>19 DEF SessionInv

\* An owner that is killed leaves its line whole, cut off or not there.
LEMMA OwnerKilledKeeps ==
    ASSUME SessionInv, NEW o \in Owner, OwnerKilled(o)
    PROVE  SessionInv'
<1> DEFINE n == Len(logLines)
<1>1. UNCHANGED <<appended, shared>> /\ nextSeq' = [nextSeq EXCEPT ![o] = 0] /\ nextSeq[o] > 0
  BY DEF OwnerKilled
<1>2. logLines \in Seq(Line) /\ nextSeq \in [Owner -> Nat] /\ tears \in Nat
      /\ IsFiniteSet(appended)
  BY DEF SessionInv
<1>3. nextSeq' \in [Owner -> Nat] /\ nextSeq'[o] = 0
      /\ \A p \in Owner \ {o} : nextSeq'[p] = nextSeq[p]
  BY <1>1, <1>2
<1>4. ~shared => /\ \A p, q \in Owner : nextSeq[p] > 0 /\ nextSeq[q] > 0 => p = q
                 /\ \A p \in Owner : nextSeq[p] > 0 => AheadOf(nextSeq[p])
                 /\ \A i, j \in Loaded(logLines) : i < j => logLines[i].seq < logLines[j].seq
  BY DEF SessionInv, NumbersIncrease
<1>5. \A p \in Owner : nextSeq'[p] > 0 => p # o /\ nextSeq'[p] = nextSeq[p]
  BY <1>3
<1>6. ~shared => \A p, q \in Owner : nextSeq'[p] > 0 /\ nextSeq'[q] > 0 => p = q
  BY <1>4, <1>5
<1>7. CASE UNCHANGED <<logLines, tears>>
  <2>1. Missing' = Missing /\ Unended' = Unended
    BY <1>1, <1>7 DEF Missing, Unended
  <2>2. ~shared => \A p \in Owner : nextSeq'[p] > 0 => AheadOf(nextSeq[p])'
    BY <1>4, <1>5, <1>7 DEF AheadOf
  <2>3. NumbersIncrease'
    BY <1>1, <1>7 DEF SessionInv, NumbersIncrease
  <2> QED
    BY <1>1, <1>3, <1>6, <1>7, <2>1, <2>2, <2>3 DEF SessionInv
<1>8. ASSUME NEW x \in Line, tears' = tears + 1, logLines' = WithLine(x), ~x.ended,
             x.event \notin appended, IsEvent(x) => x.seq = nextSeq[o]
      PROVE  SessionInv'
  <2>1. /\ n \in Nat /\ Loaded(logLines) \subseteq 1..n
        /\ IsFiniteSet(Missing) /\ Cardinality(Missing) \in Nat
    BY LogIs
  <2>2. /\ logLines' \in Seq(Line)
        /\ \A i \in 1..Len(logLines') : ~logLines'[i].ended =>
              i = Len(logLines') /\ logLines'[i].event \notin appended
        /\ \A i \in Loaded(logLines') :
              \/ i \in Loaded(logLines) /\ logLines'[i] = logLines[i]
              \/ i = n + 1 /\ logLines'[i] = x /\ IsEvent(x)
        /\ appended \cap Transcript(logLines) \subseteq Transcript(logLines')
    BY <1>8, LineWritten
  <2>3. Missing' \subseteq Missing
    BY <1>1, <2>2 DEF Missing
  <2>4. Cardinality(Missing') + (IF Unended' THEN 1 ELSE 0) <= tears'
    <3> DEFINE k == Cardinality(Missing')
               m == Cardinality(Missing)
               c == IF Unended' THEN 1 ELSE 0
               d == IF Unended THEN 1 ELSE 0
    <3>1. k <= m /\ k \in Nat
      BY <2>1, <2>3, FS_Subset, FS_CardinalityType
    <3>2. m + d <= tears /\ m \in Nat
      BY <2>1 DEF SessionInv
    <3>3. c \in {0, 1} /\ d \in {0, 1}
      OBVIOUS
    <3> HIDE DEF k, m, c, d
    <3>4. k + c <= tears'
      BY <1>2, <1>8, <3>1, <3>2, <3>3
    <3> QED
      BY <3>4 DEF k, c
  <2>5. ~shared => \A p \in Owner : nextSeq'[p] > 0 => AheadOf(nextSeq[p])'
    <3>1. ~shared => \A p \in Owner : ~(nextSeq'[p] > 0)
      BY <1>1, <1>4, <1>5
    <3> QED
      BY <3>1
  <2>6. NumbersIncrease'
    <3> SUFFICES ASSUME ~shared, NEW i \in Loaded(logLines'), NEW j \in Loaded(logLines'), i < j
                 PROVE  logLines'[i].seq < logLines'[j].seq
      BY <1>1 DEF NumbersIncrease
    <3>1. i # n + 1
      BY <2>1, <2>2
    <3>2. i \in Loaded(logLines) /\ logLines'[i] = logLines[i]
      BY <2>2, <3>1
    <3>3. CASE j \in Loaded(logLines) /\ logLines'[j] = logLines[j]
      BY <1>4, <3>2, <3>3
    <3>4. CASE logLines'[j] = x /\ IsEvent(x)
      BY <1>1, <1>4, <1>8, <3>2, <3>4 DEF AheadOf
    <3> QED
      BY <2>2, <3>3, <3>4
  <2>7. tears' \in Nat
    BY <1>2, <1>8
  <2> QED
    BY <1>1, <1>3, <1>6, <2>2, <2>4, <2>5, <2>6, <2>7 DEF SessionInv
<1>9. ASSUME tears' = tears + 1, logLines' = WithLine(Broken(FALSE)) PROVE SessionInv'
  <2>1. /\ Broken(FALSE) \in Line /\ ~IsEvent(Broken(FALSE)) /\ ~Broken(FALSE).ended
        /\ Broken(FALSE).event \notin appended
    <3>1. Broken(FALSE).event = "junk"
      BY DEF Broken
    <3> QED
      BY <3>1, LineIs, HistoriesAssumption DEF SessionInv
  <2> QED
    BY <1>8, <1>9, <2>1
<1>10. ASSUME tears' = tears + 1, NEW e \in SessionEvent \ appended,
              logLines' = WithLine(LineOf(o, e, FALSE))
       PROVE  SessionInv'
  <2> DEFINE x == LineOf(o, e, FALSE)
  <2>1. x \in EventLine /\ x.seq = nextSeq[o] /\ x.event = e /\ ~x.ended
    BY <1>2 DEF EventLine, LineOf
  <2>2. x \in Line
    BY <2>1 DEF Line
  <2>3. logLines' = WithLine(x)
    BY <1>10
  <2> HIDE DEF x
  <2> QED
    BY <1>8, <1>10, <2>1, <2>2, <2>3
<1> QED
  BY <1>7, <1>9, <1>10 DEF OwnerKilled

\* Each step of the owners of a session keeps the invariant.
LEMMA SessionStep == SessionInv /\ [SessionNext]_sessionVars => SessionInv'
<1> SUFFICES ASSUME SessionInv, [SessionNext]_sessionVars PROVE SessionInv'
  OBVIOUS
<1>1. CASE UNCHANGED sessionVars
  BY <1>1 DEF sessionVars, SessionInv, AheadOf, NumbersIncrease, Missing, Unended
<1>2. CASE SessionNext
  BY <1>2, OpenKeeps, AppendKeeps, OwnerKilledKeeps DEF SessionNext
<1> QED
  BY <1>1, <1>2

-----------------------------------------------------------------------------
(* The stored conversation *)

Hand == [step : {"none", "save", "fill", "unlinked"}, messages : Seq(Message)]

\* What a client is to write is what it loaded and its message; a conversation that
\* is being filled is what its client has, and only one fills it.
Undisturbed == ~crossed /\ ~(cutOff /\ backend = "json")
ConversationInv ==
    /\ backend \in {"json", "sqlite"} /\ told \in Seq(Message)
    /\ conversation \notin Unreadable => conversation \in Seq(Message)
    /\ crossed \in BOOLEAN /\ cutOff \in BOOLEAN
    /\ chatHand = [c \in ChatClient |-> chatHand[c]]
    /\ \A c \in ChatClient : /\ chatHand[c] \in Hand
                             /\ chatHand[c].step # "none" => Len(chatHand[c].messages) > 0
                             /\ chatHand[c].step = "fill" => backend = "json"
    /\ Undisturbed =>
          /\ conversation \in {HalfWritten, told}
          /\ conversation = HalfWritten => \E c \in ChatClient : chatHand[c].step = "fill"
          /\ \A c, d \in ChatClient :
                chatHand[c].step = "fill" /\ chatHand[d].step = "fill" => c = d
          /\ \A c \in ChatClient :
                chatHand[c].step = "fill" /\ conversation = HalfWritten => BasedOn(c) = told
          /\ \A c \in ChatClient : chatHand[c].step # "unlinked"

\* There is no conversation, and nobody has one open.
LEMMA ConversationInitial == ConversationInit => ConversationInv
<1> SUFFICES ASSUME ConversationInit PROVE ConversationInv
  OBVIOUS
<1>1. /\ backend \in {"json", "sqlite"} /\ conversation = <<>> /\ told = <<>>
      /\ crossed = FALSE /\ cutOff = FALSE /\ chatHand = [c \in ChatClient |-> AtRest]
  BY DEF ConversationInit
<1>2. AtRest \in Hand /\ AtRest.step = "none"
  BY DEF AtRest, Hand
<1> HIDE DEF AtRest
<1>3. \A c \in ChatClient : chatHand[c] \in Hand /\ chatHand[c].step = "none"
  BY <1>1, <1>2
<1>4. <<>> \notin Unreadable /\ <<>> \in Seq(Message)
  BY DEF HalfWritten, Garbled, Unreadable
<1>6. <<>> # HalfWritten
  BY DEF HalfWritten
<1>5. crossed \in BOOLEAN /\ cutOff \in BOOLEAN
  BY <1>1
<1> QED
  BY <1>1, <1>3, <1>4, <1>5, <1>6 DEF ConversationInv

\* What a client has is what it loaded with its message put at the end.
LEMMA LastPutBack ==
    ASSUME NEW s \in Seq(Message), Len(s) > 0
    PROVE  /\ SubSeq(s, 1, Len(s) - 1) \in Seq(Message) /\ s[Len(s)] \in Message
           /\ Append(SubSeq(s, 1, Len(s) - 1), s[Len(s)]) = s
<1> DEFINE n == Len(s)
           u == SubSeq(s, 1, n - 1)
           t == Append(u, s[n])
<1>1. n \in Nat /\ n > 0 /\ DOMAIN s = 1..n
  BY LenProperties
<1>2. s[n] \in Message
  BY <1>1, ElementOfSeq
<1>3. u \in Seq(Message) /\ Len(u) = n - 1 /\ \A i \in 1..(n - 1) : u[i] = s[i]
  <2>1. 1 \in 1..(n + 1) /\ n - 1 \in (1 - 1)..n
    BY <1>1
  <2> QED
    BY <1>1, <2>1, SubSeqProperties
<1> HIDE DEF u
<1>4. t \in Seq(Message) /\ Len(t) = n /\ t[n] = s[n] /\ \A i \in 1..(n - 1) : t[i] = s[i]
  <2> DEFINE x == s[n]
  <2>1. /\ Append(u, x) \in Seq(Message) /\ Len(Append(u, x)) = Len(u) + 1
        /\ \A i \in 1..Len(u) : Append(u, x)[i] = u[i]
        /\ Append(u, x)[Len(u) + 1] = x
    BY <1>2, <1>3, AppendProperties
  <2>2. Append(u, x) = t
    OBVIOUS
  <2> HIDE DEF x, t, n
  <2>3. Len(u) = n - 1 /\ Len(u) + 1 = n
    BY <1>1, <1>3
  <2>4. t \in Seq(Message) /\ Len(t) = n /\ t[n] = x
    BY <2>1, <2>2, <2>3
  <2>5. \A i \in 1..(n - 1) : t[i] = s[i]
    BY <1>3, <2>1, <2>2, <2>3
  <2> QED
    BY <2>4, <2>5 DEF x
<1> HIDE DEF t
<1>5. \A i \in 1..n : t[i] = s[i]
  BY <1>1, <1>4
<1>6. t = s
  BY <1>1, <1>4, <1>5, SeqEqual
<1> QED
  BY <1>2, <1>3, <1>6 DEF t, u

\* No messages are what a file holds that cannot be read.
LEMMA NotUnreadable == \A s \in Seq(Message) : s \notin Unreadable /\ s # HalfWritten
<1> SUFFICES ASSUME NEW s \in Seq(Message), s \in Unreadable \/ s = HalfWritten PROVE FALSE
  OBVIOUS
<1>1. Len(s) \in Nat /\ Len(s) > 0 /\ s[1] = "cut"
  BY DEF HalfWritten, Garbled, Unreadable
<1>2. s[1] \in Message
  BY <1>1, ElementOfSeq
<1> QED
  BY <1>1, <1>2, HistoriesAssumption

\* One client's hand changes.
LEMMA HandChanges ==
    ASSUME ConversationInv, NEW c \in ChatClient, NEW r \in Hand,
           chatHand' = [chatHand EXCEPT ![c] = r],
           r.step # "none" => Len(r.messages) > 0, r.step = "fill" => backend = "json",
           backend' = backend
    PROVE  /\ chatHand'[c] = r /\ \A d \in ChatClient \ {c} : chatHand'[d] = chatHand[d]
           /\ \A d \in ChatClient \ {c} : BasedOn(d)' = BasedOn(d)
           /\ chatHand' = [d \in ChatClient |-> chatHand'[d]]
           /\ \A d \in ChatClient : /\ chatHand'[d] \in Hand
                                    /\ chatHand'[d].step # "none"
                                          => Len(chatHand'[d].messages) > 0
                                    /\ chatHand'[d].step = "fill" => backend' = "json"
<1>1. chatHand = [d \in ChatClient |-> chatHand[d]]
  BY DEF ConversationInv
<1>2. chatHand'[c] = r /\ (\A d \in ChatClient \ {c} : chatHand'[d] = chatHand[d])
      /\ chatHand' = [d \in ChatClient |-> chatHand'[d]]
  BY <1>1
<1>3. \A d \in ChatClient \ {c} : BasedOn(d)' = BasedOn(d)
  BY <1>2 DEF BasedOn
<1>4. \A d \in ChatClient : /\ chatHand'[d] \in Hand
                            /\ chatHand'[d].step # "none" => Len(chatHand'[d].messages) > 0
                            /\ chatHand'[d].step = "fill" => backend' = "json"
  BY <1>2 DEF ConversationInv
<1> QED
  BY <1>2, <1>3, <1>4

\* A client at rest is at no step.
LEMMA RestIs == AtRest \in Hand /\ AtRest.step = "none"
  BY DEF AtRest, Hand

\* What is loaded are messages, and all of them unless a save is half done.
LEMMA LoadIs ==
    ASSUME ConversationInv
    PROVE  /\ Load \in Seq(Message)
           /\ conversation = told => Load = conversation
<1>1. told \in Seq(Message) /\ told \notin Unreadable
  BY NotUnreadable DEF ConversationInv
<1> QED
  BY <1>1 DEF ConversationInv, Load

\* A client loads the conversation that it is to append to.
LEMMA AppendLoadsKeeps ==
    ASSUME ConversationInv, NEW c \in ChatClient, NEW m \in Message, AppendLoads(c, m)
    PROVE  ConversationInv'
<1> DEFINE r == [step |-> "save", messages |-> Append(Load, m)]
<1>1. /\ chatHand[c] = AtRest /\ chatHand' = [chatHand EXCEPT ![c] = r]
      /\ UNCHANGED <<backend, conversation, told, crossed, cutOff>>
  BY DEF AppendLoads, Holding
<1>2. Append(Load, m) \in Seq(Message) /\ Len(Append(Load, m)) > 0
  <2> DEFINE t == Load
  <2>1. t \in Seq(Message)
    BY LoadIs
  <2> HIDE DEF t
  <2>2. Append(t, m) \in Seq(Message) /\ Len(Append(t, m)) = Len(t) + 1 /\ Len(t) \in Nat
    BY <2>1, AppendProperties, LenProperties
  <2>3. Len(Append(t, m)) > 0
    BY <2>2
  <2> QED
    BY <2>2, <2>3 DEF t
<1>3. r \in Hand /\ r.step = "save" /\ Len(r.messages) > 0
  BY <1>2 DEF Hand
<1> HIDE DEF r
<1>4. /\ chatHand'[c] = r /\ \A d \in ChatClient \ {c} : chatHand'[d] = chatHand[d]
      /\ \A d \in ChatClient \ {c} : BasedOn(d)' = BasedOn(d)
      /\ chatHand' = [d \in ChatClient |-> chatHand'[d]]
      /\ \A d \in ChatClient : /\ chatHand'[d] \in Hand
                               /\ chatHand'[d].step # "none" => Len(chatHand'[d].messages) > 0
                               /\ chatHand'[d].step = "fill" => backend' = "json"
  BY <1>1, <1>3, HandChanges
<1>5. \A d \in ChatClient : chatHand'[d].step = "fill" <=> chatHand[d].step = "fill"
  BY <1>1, <1>3, <1>4, RestIs
<1>6. \A d \in ChatClient : chatHand'[d].step = "fill" => BasedOn(d)' = BasedOn(d)
  BY <1>3, <1>4
<1>7. \A d \in ChatClient : chatHand'[d].step = "unlinked" => chatHand[d].step = "unlinked"
  BY <1>3, <1>4
<1> QED
  BY <1>1, <1>4, <1>5, <1>6, <1>7 DEF ConversationInv, Undisturbed

\* What is told of the client's call when it returns.
LEMMA ToldIs ==
    ASSUME ConversationInv, NEW c \in ChatClient, chatHand[c].step # "none", AppendTold(c)
    PROVE  /\ told' \in Seq(Message) /\ chatHand[c].messages \in Seq(Message)
           /\ chatHand[c].messages \notin Unreadable /\ chatHand[c].messages # HalfWritten
           /\ BasedOn(c) = told => told' = chatHand[c].messages
<1> DEFINE s == chatHand[c].messages
<1>1. s \in Seq(Message) /\ Len(s) > 0 /\ told \in Seq(Message)
  BY DEF ConversationInv, Hand
<1>2. told' = Append(told, s[Len(s)]) /\ BasedOn(c) = SubSeq(s, 1, Len(s) - 1)
  BY DEF AppendTold, BasedOn
<1> HIDE DEF s
<1>3. /\ s[Len(s)] \in Message /\ Append(SubSeq(s, 1, Len(s) - 1), s[Len(s)]) = s
  BY <1>1, LastPutBack
<1>4. told' \in Seq(Message)
  BY <1>1, <1>2, <1>3, AppendProperties
<1>5. BasedOn(c) = told => told' = s
  BY <1>2, <1>3, Zenon
<1> QED
  BY <1>1, <1>4, <1>5, NotUnreadable DEF s

\* A row of the database is written in one step.
LEMMA SaveRowKeeps ==
    ASSUME ConversationInv, NEW c \in ChatClient, SaveRow(c)
    PROVE  ConversationInv'
<1>1. /\ chatHand[c].step = "save" /\ backend = "sqlite" /\ UNCHANGED <<backend, cutOff>>
      /\ conversation' = chatHand[c].messages /\ chatHand' = [chatHand EXCEPT ![c] = AtRest]
      /\ AppendTold(c) /\ Overtakes(c)
  BY DEF SaveRow, SavesAtOnce
<1>2. /\ chatHand'[c] = AtRest /\ \A d \in ChatClient \ {c} : chatHand'[d] = chatHand[d]
      /\ \A d \in ChatClient \ {c} : BasedOn(d)' = BasedOn(d)
      /\ chatHand' = [d \in ChatClient |-> chatHand'[d]]
      /\ \A d \in ChatClient : /\ chatHand'[d] \in Hand
                               /\ chatHand'[d].step # "none" => Len(chatHand'[d].messages) > 0
                               /\ chatHand'[d].step = "fill" => backend' = "json"
  BY <1>1, RestIs, HandChanges
<1>3. /\ told' \in Seq(Message) /\ chatHand[c].messages \in Seq(Message)
      /\ chatHand[c].messages \notin Unreadable /\ chatHand[c].messages # HalfWritten
      /\ BasedOn(c) = told => told' = chatHand[c].messages
  BY <1>1, ToldIs
<1>4. crossed' \in BOOLEAN /\ (~crossed' => ~crossed /\ BasedOn(c) = Load)
  BY <1>1 DEF Overtakes, ConversationInv
<1>5. Undisturbed' => conversation' = told'
  <2> SUFFICES ASSUME Undisturbed' PROVE conversation' = told'
    OBVIOUS
  <2>1. Undisturbed /\ BasedOn(c) = Load
    BY <1>1, <1>4 DEF Undisturbed
  <2>2. conversation # HalfWritten /\ conversation = told
    BY <1>1, <2>1 DEF ConversationInv
  <2> QED
    BY <1>1, <1>3, <2>1, <2>2, LoadIs
<1>6. cutOff' \in BOOLEAN
  BY <1>1 DEF ConversationInv
<1>7. \A d \in ChatClient : chatHand'[d].step # "fill"
  BY <1>1, <1>2
<1>8. Undisturbed' => \A d \in ChatClient : chatHand'[d].step # "unlinked"
  BY <1>1, <1>2, <1>4, RestIs DEF ConversationInv, Undisturbed
<1> QED
  BY <1>1, <1>2, <1>3, <1>4, <1>5, <1>6, <1>7, <1>8 DEF ConversationInv

\* A save to a file empties it first.
LEMMA SaveEmptiesKeeps ==
    ASSUME ConversationInv, NEW c \in ChatClient, SaveEmpties(c)
    PROVE  ConversationInv'
<1> DEFINE r == [chatHand[c] EXCEPT !.step = "fill"]
<1>1. /\ chatHand[c].step = "save" /\ backend # "sqlite" /\ UNCHANGED <<backend, told, cutOff>>
      /\ conversation' = HalfWritten /\ Overtakes(c)
  BY DEF SaveEmpties, SavesAtOnce
<1>2. chatHand[c] \in Hand /\ Len(chatHand[c].messages) > 0 /\ backend = "json"
  BY <1>1 DEF ConversationInv
<1>3. chatHand' = [chatHand EXCEPT ![c] = r]
  BY DEF SaveEmpties, ConversationInv
<1>4. r \in Hand /\ r.step = "fill" /\ r.messages = chatHand[c].messages
  BY <1>2 DEF Hand
<1> HIDE DEF r
<1>5. /\ chatHand'[c] = r /\ \A d \in ChatClient \ {c} : chatHand'[d] = chatHand[d]
      /\ \A d \in ChatClient \ {c} : BasedOn(d)' = BasedOn(d)
      /\ chatHand' = [d \in ChatClient |-> chatHand'[d]]
      /\ \A d \in ChatClient : /\ chatHand'[d] \in Hand
                               /\ chatHand'[d].step # "none" => Len(chatHand'[d].messages) > 0
                               /\ chatHand'[d].step = "fill" => backend' = "json"
  BY <1>1, <1>2, <1>3, <1>4, HandChanges
<1>6. BasedOn(c)' = BasedOn(c)
  BY <1>4, <1>5 DEF BasedOn
<1>7. crossed' \in BOOLEAN
      /\ (~crossed' => /\ ~crossed /\ BasedOn(c) = Load
                       /\ \A d \in ChatClient \ {c} : chatHand[d].step # "fill")
  BY <1>1 DEF Overtakes, ConversationInv
<1>8. Undisturbed' => BasedOn(c) = told /\ \A d \in ChatClient \ {c} : chatHand'[d].step # "fill"
  <2> SUFFICES ASSUME Undisturbed'
               PROVE  BasedOn(c) = told /\ \A d \in ChatClient \ {c} : chatHand'[d].step # "fill"
    OBVIOUS
  <2>1. /\ Undisturbed /\ BasedOn(c) = Load
        /\ \A d \in ChatClient \ {c} : chatHand[d].step # "fill"
    BY <1>1, <1>7 DEF Undisturbed
  <2>2. \A d \in ChatClient : chatHand[d].step # "fill"
    BY <1>1, <2>1
  <2>3. conversation # HalfWritten /\ conversation = told
    BY <2>1, <2>2 DEF ConversationInv
  <2> QED
    BY <1>5, <2>1, <2>3, LoadIs
<1>9. cutOff' \in BOOLEAN /\ told' \in Seq(Message) /\ backend' \in {"json", "sqlite"}
  BY <1>1 DEF ConversationInv
<1>10. Undisturbed' =>
          /\ conversation' \in {HalfWritten, told'}
          /\ \E d \in ChatClient : chatHand'[d].step = "fill"
          /\ \A d, e \in ChatClient :
                chatHand'[d].step = "fill" /\ chatHand'[e].step = "fill" => d = e
          /\ \A d \in ChatClient : chatHand'[d].step = "fill" => BasedOn(d)' = told'
  BY <1>1, <1>4, <1>5, <1>6, <1>8
<1>11. conversation' = HalfWritten /\ conversation' \in Unreadable
  BY <1>1 DEF Unreadable
<1>12. Undisturbed' => \A d \in ChatClient : chatHand'[d].step # "unlinked"
  BY <1>1, <1>4, <1>5, <1>7 DEF ConversationInv, Undisturbed
<1> QED
  BY <1>5, <1>7, <1>9, <1>10, <1>11, <1>12 DEF ConversationInv

\* A save to a file then fills it.
LEMMA SaveFillsKeeps ==
    ASSUME ConversationInv, NEW c \in ChatClient, SaveFills(c)
    PROVE  ConversationInv'
<1>1. /\ chatHand[c].step = "fill" /\ UNCHANGED <<backend, cutOff>> /\ AppendTold(c)
      /\ \/ conversation' = chatHand[c].messages
         \/ conversation # HalfWritten /\ conversation' = Garbled
      /\ chatHand' = [chatHand EXCEPT ![c] = AtRest]
      /\ crossed' = (crossed \/ conversation # HalfWritten)
  BY DEF SaveFills
<1>2. /\ chatHand'[c] = AtRest /\ \A d \in ChatClient \ {c} : chatHand'[d] = chatHand[d]
      /\ \A d \in ChatClient \ {c} : BasedOn(d)' = BasedOn(d)
      /\ chatHand' = [d \in ChatClient |-> chatHand'[d]]
      /\ \A d \in ChatClient : /\ chatHand'[d] \in Hand
                               /\ chatHand'[d].step # "none" => Len(chatHand'[d].messages) > 0
                               /\ chatHand'[d].step = "fill" => backend' = "json"
  BY <1>1, RestIs, HandChanges
<1>3. /\ told' \in Seq(Message) /\ chatHand[c].messages \in Seq(Message)
      /\ chatHand[c].messages \notin Unreadable /\ chatHand[c].messages # HalfWritten
      /\ BasedOn(c) = told => told' = chatHand[c].messages
  BY <1>1, ToldIs
<1>4. crossed' \in BOOLEAN /\ (~crossed' => ~crossed /\ conversation = HalfWritten)
  BY <1>1 DEF ConversationInv
<1>5. Undisturbed' => /\ conversation' = told' /\ conversation' # HalfWritten
                      /\ \A d \in ChatClient : chatHand'[d].step # "fill"
  <2> SUFFICES ASSUME Undisturbed'
               PROVE  /\ conversation' = told' /\ conversation' # HalfWritten
                      /\ \A d \in ChatClient : chatHand'[d].step # "fill"
    OBVIOUS
  <2>1. Undisturbed /\ conversation = HalfWritten
    BY <1>1, <1>4 DEF Undisturbed
  <2>2. BasedOn(c) = told
    BY <1>1, <2>1 DEF ConversationInv
  <2>3. \A d \in ChatClient : chatHand[d].step = "fill" => d = c
    BY <1>1, <2>1 DEF ConversationInv
  <2>4. \A d \in ChatClient : chatHand'[d].step # "fill"
    BY <1>2, <2>3, RestIs
  <2> QED
    BY <1>1, <1>3, <2>1, <2>2, <2>4
<1>6. cutOff' \in BOOLEAN
  BY <1>1 DEF ConversationInv
<1>7. conversation' \notin Unreadable => conversation' \in Seq(Message)
  BY <1>1, <1>3 DEF Unreadable
<1>8. backend' \in {"json", "sqlite"}
  BY <1>1 DEF ConversationInv
<1>9. Undisturbed' => \A d \in ChatClient : chatHand'[d].step # "unlinked"
  BY <1>1, <1>2, <1>4, RestIs DEF ConversationInv, Undisturbed
<1> QED
  BY <1>2, <1>3, <1>4, <1>5, <1>6, <1>7, <1>8, <1>9 DEF ConversationInv

\* A conversation is deleted; who fills its file goes on with one that is gone.
LEMMA DeleteKeeps ==
    ASSUME ConversationInv, NEW c \in ChatClient, DeleteConversation(c)
    PROVE  ConversationInv'
<1> DEFINE h == [d \in ChatClient |->
                   IF chatHand[d].step = "fill" THEN [chatHand[d] EXCEPT !.step = "unlinked"]
                   ELSE chatHand[d]]
<1>1. /\ conversation' = <<>> /\ told' = <<>> /\ UNCHANGED <<backend, cutOff>> /\ chatHand' = h
      /\ crossed' = (crossed \/ \E d \in ChatClient : chatHand[d].step = "fill")
  BY DEF DeleteConversation
<1>2. <<>> \in Seq(Message) /\ <<>> \notin Unreadable /\ <<>> # HalfWritten
  BY DEF HalfWritten, Garbled, Unreadable
<1>3. ASSUME NEW d \in ChatClient
      PROVE  /\ h[d] \in Hand /\ h[d].step # "fill"
             /\ h[d].step # "none" => Len(h[d].messages) > 0
  <2>1. chatHand[d] \in Hand /\ (chatHand[d].step # "none" => Len(chatHand[d].messages) > 0)
    BY DEF ConversationInv
  <2>2. CASE chatHand[d].step = "fill"
    <3> DEFINE y == [chatHand[d] EXCEPT !.step = "unlinked"]
    <3>1. y \in Hand /\ y.step = "unlinked" /\ y.messages = chatHand[d].messages
      BY <2>1 DEF Hand
    <3>2. h[d] = y
      BY <2>2
    <3> HIDE DEF y, h
    <3>3. Len(chatHand[d].messages) > 0
      BY <2>1, <2>2
    <3> QED
      BY <3>1, <3>2, <3>3
  <2>3. CASE chatHand[d].step # "fill"
    <3>1. h[d] = chatHand[d]
      BY <2>3
    <3> HIDE DEF h
    <3> QED
      BY <2>1, <2>3, <3>1
  <2> QED
    BY <2>2, <2>3
<1>4. h = [d \in ChatClient |-> h[d]]
  OBVIOUS
<1>5. \A d \in ChatClient : chatHand[d].step # "fill" => h[d] = chatHand[d]
  OBVIOUS
<1> HIDE DEF h
<1>6. crossed' \in BOOLEAN /\ cutOff' \in BOOLEAN /\ backend' \in {"json", "sqlite"}
  BY <1>1 DEF ConversationInv
<1>7. Undisturbed' => \A d \in ChatClient : chatHand'[d].step # "unlinked"
  <2> SUFFICES ASSUME Undisturbed', NEW d \in ChatClient PROVE chatHand'[d].step # "unlinked"
    OBVIOUS
  <2>1. Undisturbed /\ chatHand[d].step # "fill"
    BY <1>1 DEF Undisturbed
  <2> QED
    BY <1>1, <1>5, <2>1 DEF ConversationInv
<1> QED
  BY <1>1, <1>2, <1>3, <1>4, <1>6, <1>7 DEF ConversationInv

\* What is written to a file that is gone changes nothing.
LEMMA SaveIsLostKeeps ==
    ASSUME ConversationInv, NEW c \in ChatClient, SaveIsLost(c)
    PROVE  ConversationInv'
<1>1. /\ chatHand[c].step = "unlinked" /\ chatHand' = [chatHand EXCEPT ![c] = AtRest]
      /\ AppendTold(c) /\ UNCHANGED <<backend, conversation, crossed, cutOff>>
  BY DEF SaveIsLost
<1>2. /\ chatHand' = [d \in ChatClient |-> chatHand'[d]]
      /\ \A d \in ChatClient : /\ chatHand'[d] \in Hand
                               /\ chatHand'[d].step # "none" => Len(chatHand'[d].messages) > 0
                               /\ chatHand'[d].step = "fill" => backend' = "json"
  BY <1>1, RestIs, HandChanges
<1>3. told' \in Seq(Message)
  BY <1>1, ToldIs
<1>4. ~Undisturbed'
  <2>1. ~Undisturbed
    BY <1>1 DEF ConversationInv
  <2> QED
    BY <1>1, <2>1 DEF Undisturbed
<1> QED
  BY <1>1, <1>2, <1>3, <1>4 DEF ConversationInv

\* A client that is killed leaves what it has written.
LEMMA ClientKilledKeeps ==
    ASSUME ConversationInv, NEW c \in ChatClient, ClientKilled(c)
    PROVE  ConversationInv'
<1>1. /\ chatHand' = [chatHand EXCEPT ![c] = AtRest]
      /\ cutOff' = (cutOff \/ chatHand[c].step = "fill")
      /\ \/ UNCHANGED conversation
         \/ chatHand[c].step = "fill" /\ conversation' = Garbled
      /\ UNCHANGED <<backend, told, crossed>>
  BY DEF ClientKilled
<1>2. /\ chatHand'[c] = AtRest /\ \A d \in ChatClient \ {c} : chatHand'[d] = chatHand[d]
      /\ \A d \in ChatClient \ {c} : BasedOn(d)' = BasedOn(d)
      /\ chatHand' = [d \in ChatClient |-> chatHand'[d]]
      /\ \A d \in ChatClient : /\ chatHand'[d] \in Hand
                               /\ chatHand'[d].step # "none" => Len(chatHand'[d].messages) > 0
                               /\ chatHand'[d].step = "fill" => backend' = "json"
  BY <1>1, RestIs, HandChanges
<1>3. cutOff' \in BOOLEAN
  BY <1>1 DEF ConversationInv
<1>4. Undisturbed' => Undisturbed /\ chatHand[c].step # "fill" /\ UNCHANGED conversation
  <2>1. chatHand[c].step = "fill" => backend = "json"
    BY DEF ConversationInv
  <2> QED
    BY <1>1, <2>1 DEF Undisturbed
<1>5. Undisturbed' => \A d \in ChatClient : chatHand'[d].step = "fill" <=> chatHand[d].step = "fill"
  BY <1>2, <1>4, RestIs
<1>6. \A d \in ChatClient : chatHand'[d].step = "fill" => BasedOn(d)' = BasedOn(d)
  BY <1>2, RestIs
<1>7. conversation' \notin Unreadable => conversation' \in Seq(Message)
  BY <1>1 DEF ConversationInv, Unreadable
<1>8. Undisturbed' => \A d \in ChatClient : chatHand'[d].step # "unlinked"
  BY <1>2, <1>4, RestIs DEF ConversationInv
<1> QED
  BY <1>1, <1>2, <1>3, <1>4, <1>5, <1>6, <1>7, <1>8 DEF ConversationInv

\* Each step of the clients of a conversation keeps the invariant.
LEMMA ConversationStep == ConversationInv /\ [ConversationNext]_conversationVars => ConversationInv'
<1> SUFFICES ASSUME ConversationInv, [ConversationNext]_conversationVars PROVE ConversationInv'
  OBVIOUS
<1>1. CASE UNCHANGED conversationVars
  BY <1>1 DEF conversationVars, ConversationInv, Undisturbed, BasedOn
<1>2. CASE ConversationNext
  BY <1>2, AppendLoadsKeeps, SaveRowKeeps, SaveEmptiesKeeps, SaveFillsKeeps, DeleteKeeps,
     SaveIsLostKeeps, ClientKilledKeeps DEF ConversationNext
<1> QED
  BY <1>1, <1>2

\* The invariants say that logs and conversations hold what their writers were told.
LEMMA HistoriesHold ==
    SessionInv /\ ConversationInv =>
        HistoriesTypeOK /\ NumbersIncrease /\ TranscriptIsKept /\ ConversationIsKept
<1> SUFFICES ASSUME SessionInv, ConversationInv
             PROVE  HistoriesTypeOK /\ NumbersIncrease /\ TranscriptIsKept /\ ConversationIsKept
  OBVIOUS
<1>1. HistoriesTypeOK
  <2>1. \A i \in DOMAIN logLines :
          /\ IsEvent(logLines[i]) => logLines[i].event \in SessionEvent
          /\ ~logLines[i].ended => i = Len(logLines)
    <3>1. logLines \in Seq(Line) /\ DOMAIN logLines = 1..Len(logLines)
      BY LenProperties DEF SessionInv
    <3>2. \A i \in 1..Len(logLines) : logLines[i] \in Line
      BY <3>1, ElementOfSeq
    <3> QED
      BY <3>1, <3>2, LineIs DEF SessionInv
  <2>2. {shared, crossed, cutOff} \subseteq BOOLEAN
    BY Zenon DEF SessionInv, ConversationInv
  <2> QED
    BY <2>1, <2>2 DEF SessionInv, ConversationInv, HistoriesTypeOK
<1>2. TranscriptIsKept
  <2> DEFINE k == Cardinality(Missing)
             c == IF Unended THEN 1 ELSE 0
  <2>1. k \in Nat
    BY FS_Subset, FS_CardinalityType DEF SessionInv, Missing
  <2>2. c \in {0, 1} /\ k + c <= tears /\ tears \in Nat
    BY DEF SessionInv
  <2> HIDE DEF k, c
  <2>3. k <= tears
    BY <2>1, <2>2
  <2> QED
    BY <2>3 DEF TranscriptIsKept, Missing, k
<1>3. ConversationIsKept
  BY DEF ConversationInv, ConversationIsKept, Undisturbed
<1> QED
  BY <1>1, <1>2, <1>3 DEF SessionInv

-----------------------------------------------------------------------------
(* All of them *)

ServicesInv ==
    /\ HookInv /\ DoorInv /\ AuthInv /\ DiscoveryInv /\ CronInv /\ FeedInv
    /\ BudgetInv /\ ControlInv /\ GithubInv /\ TokenInv /\ LaunchInv
    /\ SessionInv /\ ConversationInv

\* Each component starts within its invariant.
LEMMA ServicesInitial == ServicesInit => ServicesInv
  BY HooksInitial, DoorInitial, AuthInitial, DiscoveryInitial, CronInitial, FeedInitial,
     BudgetInitial, ControlInitial, GithubInitial, TokenInitial, LaunchInitial,
     SessionInitial, ConversationInitial
  DEF ServicesInit, ServicesInv

EachServiceSteps ==
    /\ [HookNext]_hookVars /\ [DoorNext]_doorVars /\ [AuthNext]_authVars
    /\ [DiscoveryNext]_discoveryVars /\ [CronNext]_cronVars /\ [FeedNext]_feedVars
    /\ [BudgetNext]_runVars /\ [ControlNext]_controlVars /\ [GithubNext]_githubVars
    /\ [TokenNext]_tokenVars /\ [LaunchNext]_launchVars /\ [SessionNext]_sessionVars
    /\ [ConversationNext]_conversationVars

\* A step of the services is one of one of them and a stutter of the others.
LEMMA EachServiceMovesOrStays ==
    ASSUME [ServicesNext]_ServicesVars
    PROVE  EachServiceSteps
<1>1. CASE ServicesNext
  BY <1>1 DEF ServicesNext, EachServiceSteps
<1>2. CASE UNCHANGED ServicesVars
  BY <1>2 DEF ServicesVars, EachServiceSteps
<1> QED
  BY <1>1, <1>2

\* A step of one component keeps its own invariant and touches no other's.
LEMMA ServicesStep == ServicesInv /\ [ServicesNext]_ServicesVars => ServicesInv'
  BY EachServiceMovesOrStays, HookStep, DoorStep, AuthStep, DiscoveryStep, CronStep,
     FeedStep, BudgetStep, ControlStep, GithubStep, TokenStep, LaunchStep, SessionStep,
     ConversationStep
  DEF ServicesInv, EachServiceSteps

\* The inductive invariant of the services holds, for every value of their bounds.
THEOREM ServicesInvariant == ServicesSpec => []ServicesInv
  BY ServicesInitial, ServicesStep, PTL DEF ServicesSpec

\* Every variable of the services keeps its type.
THEOREM ServicesTyped == ServicesSpec => []ServicesTypeOK
<1>1. ServicesInv => ServicesTypeOK
  BY HooksHold, DoorsHold, AuthHolds, DiscoveryHolds, CronHolds, FeedHolds, BudgetHolds,
     ControlHolds, GithubHolds, TokenHolds, LaunchHolds, HistoriesHold
  DEF ServicesInv, ServicesTypeOK
<1> QED
  BY <1>1, ServicesInvariant, PTL

\* What is asked of the daemon from outside is done once and by the rules, whatever
\* the order of deliveries, commands, refreshes, scans, ticks, readers, runs and calls.
THEOREM RequestsAreAlwaysHonoured == ServicesSpec => []RequestsAreHonoured
<1>1. ServicesInv => RequestsAreHonoured
  BY HooksHold, DoorsHold, AuthHolds, DiscoveryHolds, CronHolds, FeedHolds, BudgetHolds,
     ControlHolds, GithubHolds, TokenHolds
  DEF ServicesInv, RequestsAreHonoured
<1> QED
  BY <1>1, ServicesInvariant, PTL

\* One daemon recovers a root at a time, keys survive the launchers that rewrite
\* their file, and logs and conversations hold what their writers were told, wherever
\* a process is killed.
THEOREM WhatIsKeptIsAlwaysTrue == ServicesSpec => []WhatIsKeptIsTrue
<1>1. ServicesInv => WhatIsKeptIsTrue
  BY LaunchHolds, HistoriesHold DEF ServicesInv, WhatIsKeptIsTrue
<1> QED
  BY <1>1, ServicesInvariant, PTL

=============================================================================
