-------------------------- MODULE ListTimerProofs --------------------------
(***************************************************************************)
(* Proofs about ListTimer for any descriptors, any timeout, any number of  *)
(* clock units to the millisecond and any setting back of the clock.       *)
(***************************************************************************)
EXTENDS ListTimer, TLAPS, SequenceTheorems

-----------------------------------------------------------------------------
(* Facts about numbers and lists.                                          *)

(* Whole milliseconds are no more than what they were cut from.            *)
LEMMA CutOff ==
  ASSUME NEW n \in Nat, NEW m \in Nat \ {0}
  PROVE  (n \div m) * m \in 0 .. n
<1>1. n \div m \in Int /\ n % m \in 0 .. (m - 1)
  OBVIOUS
<1>2. n = ((n \div m) * m) + (n % m)
  BY Z3
<1>3. n \div m >= 0
  BY Z3
<1>4. (n \div m) * m \in Int
  BY <1>1
<1>5. (n \div m) * m >= 0
  BY <1>1, <1>3, Z3
<1>. QED
  BY <1>1, <1>2, <1>4, <1>5

(* Cutting an entry out of the list (splice, lru_timer.cpp 22).            *)
LEMMA CutOut ==
  ASSUME NEW S, NEW s \in Seq(S), NEW k \in DOMAIN s
  PROVE  /\ RemoveAt(s, k) \in Seq(S)
         /\ Len(RemoveAt(s, k)) = Len(s) - 1
         /\ \A i \in 1 .. (Len(s) - 1) :
              RemoveAt(s, k)[i] = IF i < k THEN s[i] ELSE s[i + 1]
<1>1. Len(s) \in Nat /\ DOMAIN s = 1 .. Len(s) /\ k \in 1 .. Len(s)
  BY LenProperties
<1>. DEFINE front == SubSeq(s, 1, k - 1)
            rest == SubSeq(s, k + 1, Len(s))
<1>2. /\ front \in Seq(S) /\ Len(front) = k - 1
      /\ \A i \in 1 .. (k - 1) : front[i] = s[i]
  <2>1. \A i \in 1 .. (k - 1) : s[i] \in S
    BY <1>1, ElementOfSeq
  <2>2. k - 1 \in Int
    BY <1>1
  <2>3. /\ front \in Seq(S) /\ Len(front) = IF 1 <= k - 1 THEN (k - 1) - 1 + 1 ELSE 0
        /\ \A i \in 1 .. ((k - 1) - 1 + 1) : front[i] = s[1 + i - 1]
    BY <2>1, <2>2, SubSeqProperties
  <2>. QED
    BY <1>1, <2>3
<1>3. /\ rest \in Seq(S) /\ Len(rest) = Len(s) - k
      /\ \A i \in 1 .. (Len(s) - k) : rest[i] = s[k + i]
  <2>1. \A i \in (k + 1) .. Len(s) : s[i] \in S
    BY <1>1, ElementOfSeq
  <2>2. k + 1 \in Int /\ Len(s) \in Int
    BY <1>1
  <2>3. /\ rest \in Seq(S) /\ Len(rest) = IF k + 1 <= Len(s) THEN Len(s) - (k + 1) + 1 ELSE 0
        /\ \A i \in 1 .. (Len(s) - (k + 1) + 1) : rest[i] = s[(k + 1) + i - 1]
    BY <2>1, <2>2, SubSeqProperties
  <2>. QED
    BY <1>1, <2>3
<1>4. RemoveAt(s, k) = front \o rest
  BY DEF RemoveAt
<1>. HIDE DEF front, rest
<1>5. /\ front \o rest \in Seq(S) /\ Len(front \o rest) = Len(front) + Len(rest)
      /\ \A i \in 1 .. Len(front) + Len(rest) :
           (front \o rest)[i] = IF i <= Len(front) THEN front[i] ELSE rest[i - Len(front)]
  BY <1>2, <1>3, ConcatProperties
<1>. DEFINE r == front \o rest
<1>6. Len(r) = Len(s) - 1
  BY <1>1, <1>2, <1>3, <1>5
<1>7. ASSUME NEW i \in 1 .. (Len(s) - 1)
      PROVE  r[i] = IF i < k THEN s[i] ELSE s[i + 1]
  <2>1. i \in 1 .. Len(front) + Len(rest)
    BY <1>1, <1>2, <1>3
  <2>2. r[i] = IF i <= k - 1 THEN front[i] ELSE rest[i - (k - 1)]
    BY <1>2, <1>5, <2>1
  <2>3. CASE i < k
    <3>1. i \in 1 .. (k - 1)
      BY <1>1, <2>3
    <3>. QED
      BY <1>2, <2>2, <2>3, <3>1
  <2>4. CASE ~(i < k)
    <3>1. i - (k - 1) \in 1 .. (Len(s) - k) /\ k + (i - (k - 1)) = i + 1 /\ ~(i <= k - 1)
      BY <1>1, <2>4
    <3>2. rest[i - (k - 1)] = s[i + 1]
      BY <1>3, <3>1
    <3>. QED
      BY <2>2, <2>4, <3>1, <3>2
  <2>. QED
    BY <2>3, <2>4
<1>. QED
  BY <1>4, <1>5, <1>6, <1>7

-----------------------------------------------------------------------------
(* The inductive invariant: along the list deadlines grow, except for what *)
(* the clock was ever set back, and none is further off than add() allows. *)

Entry == [id : Ids, left : Int]

Ordered ==
  \A i, j \in DOMAIN nodes : i < j => nodes[i].left <= nodes[j].left + back
Bounded == \A i \in DOMAIN nodes : nodes[i].left <= TIMEOUT + back

IInv == TypeOK /\ IndexAgrees /\ Ordered /\ Bounded

(* s is the list without the entry of one descriptor, in the same order.   *)
Kept(s, id) ==
  /\ s \in Seq(Entry)
  /\ \E g \in [1 .. Len(s) -> DOMAIN nodes] :
       /\ \A i, j \in 1 .. Len(s) : i < j => g[i] < g[j]
       /\ \A i \in 1 .. Len(s) : s[i] = nodes[g[i]] /\ nodes[g[i]].id # id
       /\ \A k \in DOMAIN nodes : nodes[k].id # id => \E i \in 1 .. Len(s) : g[i] = k

LEMMA ListType ==
  ASSUME TypeOK
  PROVE  /\ nodes \in Seq(Entry) /\ Len(nodes) \in Nat /\ DOMAIN nodes = 1 .. Len(nodes)
         /\ \A i \in DOMAIN nodes : nodes[i] \in Entry /\ nodes[i].id \in Ids /\ nodes[i].left \in Int
         /\ back \in Int /\ TIMEOUT \in Int /\ MS \in Int
<1>1. nodes \in Seq(Entry)
  BY DEF TypeOK, Entry
<1>2. Len(nodes) \in Nat /\ DOMAIN nodes = 1 .. Len(nodes)
  BY <1>1, LenProperties
<1>3. \A i \in DOMAIN nodes : nodes[i] \in Entry
  BY <1>1, <1>2, ElementOfSeq
<1>4. back \in Int /\ TIMEOUT \in Int /\ MS \in Int
  BY TimerAssumption DEF TypeOK
<1>. QED
  BY <1>1, <1>2, <1>3, <1>4 DEF Entry

LEMMA KeptWhole ==
  ASSUME TypeOK, IndexAgrees, NEW id \in Ids, id \notin ref
  PROVE  Kept(nodes, id)
<1>. DEFINE g == [i \in 1 .. Len(nodes) |-> i]
<1>1. g \in [1 .. Len(nodes) -> DOMAIN nodes]
  BY ListType
<1>2. \A i \in 1 .. Len(nodes) : nodes[i] = nodes[g[i]] /\ nodes[g[i]].id # id
  BY ListType DEF IndexAgrees
<1>. QED
  BY <1>1, <1>2, ListType DEF Kept

LEMMA KeptByCut ==
  ASSUME TypeOK, IndexAgrees, NEW id \in Ids, id \in ref
  PROVE  Kept(RemoveAt(nodes, PlaceOf(id)), id)
<1>. DEFINE k == PlaceOf(id)
            s == RemoveAt(nodes, k)
<1>1. k \in DOMAIN nodes /\ nodes[k].id = id
  BY DEF PlaceOf, IndexAgrees
<1>. HIDE DEF k
<1>2. /\ s \in Seq(Entry) /\ Len(s) = Len(nodes) - 1
      /\ \A i \in 1 .. (Len(nodes) - 1) : s[i] = IF i < k THEN nodes[i] ELSE nodes[i + 1]
  BY <1>1, CutOut, ListType
<1>. HIDE DEF s
<1>3. /\ Len(nodes) \in Nat \ {0} /\ DOMAIN nodes = 1 .. Len(nodes) /\ k \in 1 .. Len(nodes)
      /\ Len(s) = Len(nodes) - 1
  <2>1. Len(nodes) \in Nat /\ DOMAIN nodes = 1 .. Len(nodes)
    BY ListType
  <2>2. k \in 1 .. Len(nodes) /\ Len(nodes) # 0
    BY <1>1, <2>1
  <2>. QED
    BY <1>2, <2>1, <2>2
<1>. DEFINE g == [i \in 1 .. Len(s) |-> IF i < k THEN i ELSE i + 1]
<1>4. g \in [1 .. Len(s) -> DOMAIN nodes]
  BY <1>3
<1>5. \A i, j \in 1 .. Len(s) : i < j => g[i] < g[j]
  BY <1>3
<1>6. \A i \in 1 .. Len(s) : g[i] # k /\ s[i] = nodes[g[i]]
  BY <1>2, <1>3
<1>7. \A i \in 1 .. Len(s) : nodes[g[i]].id # id
  BY <1>1, <1>4, <1>6 DEF IndexAgrees
<1>8. ASSUME NEW j \in DOMAIN nodes, nodes[j].id # id
      PROVE  \E i \in 1 .. Len(s) : g[i] = j
  <2>1. j # k /\ j \in 1 .. Len(nodes)
    BY <1>1, <1>3, <1>8
  <2>2. CASE j < k
    <3>1. j \in 1 .. (Len(nodes) - 1)
      BY <1>3, <2>1, <2>2
    <3>. QED
      BY <1>3, <2>2, <3>1
  <2>3. CASE j > k
    <3>1. j - 1 \in 1 .. (Len(nodes) - 1) /\ ~(j - 1 < k) /\ (j - 1) + 1 = j
      BY <1>3, <2>1, <2>3
    <3>. QED
      BY <1>3, <3>1
  <2>. QED
    BY <1>3, <2>1, <2>2, <2>3
<1>. HIDE DEF g
<1>9. Kept(s, id)
  BY <1>2, <1>4, <1>5, <1>6, <1>7, <1>8 DEF Kept
<1>. QED
  BY <1>9 DEF s, k

LEMMA KeptByFiring ==
  ASSUME TypeOK, IndexAgrees, nodes # <<>>
  PROVE  /\ Kept(Tail(nodes), Head(nodes).id)
         /\ 1 \in DOMAIN nodes /\ Head(nodes) = nodes[1]
<1>. DEFINE s == Tail(nodes)
<1>1. /\ s \in Seq(Entry) /\ Len(s) = Len(nodes) - 1
      /\ \A i \in 1 .. Len(s) : s[i] = nodes[i + 1]
  BY ListType, HeadTailProperties
<1>2. Len(nodes) \in Nat \ {0} /\ Len(s) \in Nat /\ 1 \in DOMAIN nodes /\ Head(nodes) = nodes[1]
  BY <1>1, ListType, LenProperties
<1>. HIDE DEF s
<1>. DEFINE g == [i \in 1 .. Len(s) |-> i + 1]
<1>3. g \in [1 .. Len(s) -> DOMAIN nodes]
  BY <1>1, <1>2, ListType
<1>4. \A i, j \in 1 .. Len(s) : i < j => g[i] < g[j]
  BY <1>2
<1>5. \A i \in 1 .. Len(s) : g[i] # 1 /\ s[i] = nodes[g[i]]
  BY <1>1, <1>2
<1>6. \A i \in 1 .. Len(s) : nodes[g[i]].id # Head(nodes).id
  <2>1. \A j \in DOMAIN nodes : j # 1 => nodes[j].id # nodes[1].id
    BY <1>2 DEF IndexAgrees
  <2>2. \A i \in 1 .. Len(s) : g[i] \in DOMAIN nodes /\ g[i] # 1
    BY <1>3, <1>5
  <2>. QED
    BY <1>2, <2>1, <2>2
<1>7. ASSUME NEW j \in DOMAIN nodes, nodes[j].id # Head(nodes).id
      PROVE  \E i \in 1 .. Len(s) : g[i] = j
  <2>1. j - 1 \in 1 .. Len(s) /\ (j - 1) + 1 = j
    BY <1>1, <1>2, <1>7, ListType
  <2>. QED
    BY <2>1
<1>. HIDE DEF g
<1>8. Kept(s, Head(nodes).id)
  BY <1>1, <1>3, <1>4, <1>5, <1>6, <1>7 DEF Kept
<1>. QED
  BY <1>2, <1>8 DEF s

-----------------------------------------------------------------------------
(* Every step keeps the invariant.                                         *)

(* An entry less.                                                          *)
LEMMA Lessened ==
  ASSUME IInv, NEW id, Kept(nodes', id), ref' = ref \ {id}, UNCHANGED back
  PROVE  /\ nodes' \in Seq(Entry)
         /\ IndexAgrees' /\ Ordered' /\ Bounded'
<1>1. /\ nodes' \in Seq(Entry)
      /\ Len(nodes') \in Nat /\ DOMAIN nodes' = 1 .. Len(nodes')
  BY LenProperties DEF Kept
<1>2. PICK g \in [1 .. Len(nodes') -> DOMAIN nodes] :
        /\ \A i, j \in 1 .. Len(nodes') : i < j => g[i] < g[j]
        /\ \A i \in 1 .. Len(nodes') : nodes'[i] = nodes[g[i]] /\ nodes[g[i]].id # id
        /\ \A k \in DOMAIN nodes : nodes[k].id # id => \E i \in 1 .. Len(nodes') : g[i] = k
  BY DEF Kept
<1>3. \A i, j \in DOMAIN nodes' : g[i] = g[j] => i = j
  BY <1>1, <1>2, ListType DEF IInv
<1>4. ref' = {nodes'[i].id : i \in DOMAIN nodes'}
  BY <1>1, <1>2 DEF IInv, IndexAgrees
<1>5. \A i, j \in DOMAIN nodes' : nodes'[i].id = nodes'[j].id => i = j
  BY <1>1, <1>2, <1>3 DEF IInv, IndexAgrees
<1>6. Ordered'
  BY <1>1, <1>2 DEF IInv, Ordered
<1>7. Bounded'
  BY <1>1, <1>2 DEF IInv, Bounded
<1>. QED
  BY <1>1, <1>4, <1>5, <1>6, <1>7 DEF IndexAgrees

(* An entry renewed, or a new one, goes behind all others.                 *)
LEMMA Appended ==
  ASSUME IInv, NEW id \in Ids, NEW s, Kept(s, id),
         nodes' = Append(s, [id |-> id, left |-> TIMEOUT]), ref' = ref \cup {id},
         UNCHANGED back
  PROVE  /\ nodes' \in Seq(Entry) /\ DOMAIN nodes' = 1 .. (Len(s) + 1) /\ Len(s) \in Nat
         /\ nodes'[Len(s) + 1] = [id |-> id, left |-> TIMEOUT]
         /\ \A i \in 1 .. Len(s) : nodes'[i] = s[i]
         /\ IndexAgrees' /\ Ordered' /\ Bounded'
<1>. DEFINE e == [id |-> id, left |-> TIMEOUT]
            n == Len(s)
<1>1. s \in Seq(Entry) /\ e \in Entry /\ n \in Nat
  BY TimerAssumption, LenProperties DEF Kept, Entry
<1>2. /\ nodes' \in Seq(Entry) /\ Len(nodes') = n + 1
      /\ \A i \in 1 .. n : nodes'[i] = s[i]
      /\ nodes'[n + 1] = e
  BY <1>1, AppendProperties
<1>3. DOMAIN nodes' = 1 .. (n + 1)
  BY <1>2, LenProperties
<1>4. PICK g \in [1 .. n -> DOMAIN nodes] :
        /\ \A i, j \in 1 .. n : i < j => g[i] < g[j]
        /\ \A i \in 1 .. n : s[i] = nodes[g[i]] /\ nodes[g[i]].id # id
        /\ \A k \in DOMAIN nodes : nodes[k].id # id => \E i \in 1 .. n : g[i] = k
  BY DEF Kept
<1>. HIDE DEF n
<1>5. \A i \in DOMAIN nodes' : i = n + 1 \/ (i \in 1 .. n /\ nodes'[i] = nodes[g[i]])
  BY <1>1, <1>2, <1>3, <1>4
<1>6. \A i, j \in 1 .. n : g[i] = g[j] => i = j
  <2>. SUFFICES ASSUME NEW i \in 1 .. n, NEW j \in 1 .. n, g[i] = g[j]
                PROVE  i = j
    OBVIOUS
  <2>1. DOMAIN nodes \subseteq Int
    BY ListType DEF IInv
  <2>2. g[i] \in DOMAIN nodes
    OBVIOUS
  <2>3. (i < j => g[i] < g[j]) /\ (j < i => g[j] < g[i])
    BY <1>4
  <2>4. ~(i < j) /\ ~(j < i)
    BY <2>1, <2>2, <2>3
  <2>. QED
    BY <1>1, <2>4
<1>7. ref' = {nodes'[i].id : i \in DOMAIN nodes'}
  <2>1. \A i \in DOMAIN nodes' : nodes'[i].id \in ref \cup {id}
    BY <1>2, <1>4, <1>5 DEF IInv, IndexAgrees
  <2>2. n + 1 \in DOMAIN nodes' /\ nodes'[n + 1].id = id
    BY <1>1, <1>2, <1>3
  <2>3. ASSUME NEW x \in ref, x # id
        PROVE  \E i \in DOMAIN nodes' : nodes'[i].id = x
    <3>1. PICK k \in DOMAIN nodes : nodes[k].id = x
      BY <2>3 DEF IInv, IndexAgrees
    <3>2. PICK i \in 1 .. n : g[i] = k
      BY <1>4, <2>3, <3>1
    <3>3. i \in DOMAIN nodes' /\ nodes'[i] = nodes[k]
      BY <1>1, <1>2, <1>3, <1>4, <3>2
    <3>. QED
      BY <3>1, <3>3
  <2>. QED
    BY <2>1, <2>2, <2>3
<1>8. ASSUME NEW i \in DOMAIN nodes', NEW j \in DOMAIN nodes', nodes'[i].id = nodes'[j].id
      PROVE  i = j
  <2>1. i \in 1 .. n => nodes'[i].id # id
    BY <1>2, <1>4
  <2>2. j \in 1 .. n => nodes'[j].id # id
    BY <1>2, <1>4
  <2>3. CASE i \in 1 .. n /\ j \in 1 .. n
    BY <1>4, <1>5, <1>6, <1>1, <1>8, <2>3 DEF IInv, IndexAgrees
  <2>. QED
    BY <1>2, <1>5, <1>8, <2>1, <2>2, <2>3
<1>9. Bounded'
  <2>1. TIMEOUT <= TIMEOUT + back
    BY TimerAssumption DEF IInv, TypeOK
  <2>. QED
    BY <1>2, <1>4, <1>5, <2>1 DEF IInv, Bounded
<1>10. Ordered'
  <2>. SUFFICES ASSUME NEW i \in DOMAIN nodes', NEW j \in DOMAIN nodes', i < j
                PROVE  nodes'[i].left <= nodes'[j].left + back
    BY DEF Ordered
  <2>1. i \in 1 .. n
    BY <1>1, <1>3
  <2>2. CASE j = n + 1
    BY <1>2, <1>4, <2>1, <2>2 DEF IInv, Bounded
  <2>3. CASE j \in 1 .. n
    BY <1>2, <1>4, <2>1, <2>3 DEF IInv, Ordered
  <2>. QED
    BY <1>5, <2>2, <2>3
<1>. QED
  BY <1>1, <1>2, <1>3, <1>7, <1>8, <1>9, <1>10 DEF IndexAgrees, n

(* The clock moves all deadlines alike; set back, it widens the bounds.    *)
LEMMA Shifted ==
  ASSUME IInv, NEW d \in Int, Shift(d), UNCHANGED ref, back' \in Int,
         back' >= back, back' >= back - d
  PROVE  /\ nodes' \in Seq(Entry) /\ DOMAIN nodes' = DOMAIN nodes
         /\ \A i \in DOMAIN nodes : nodes'[i].id = nodes[i].id /\ nodes'[i].left = nodes[i].left - d
         /\ IndexAgrees' /\ Ordered' /\ Bounded'
<1>1. /\ DOMAIN nodes' = DOMAIN nodes
      /\ \A i \in DOMAIN nodes : nodes'[i] = [nodes[i] EXCEPT !.left = @ - d]
  BY DEF Shift
<1>2. \A i \in DOMAIN nodes : /\ nodes'[i] \in Entry
                              /\ nodes'[i].id = nodes[i].id
                              /\ nodes'[i].left = nodes[i].left - d
  BY <1>1, ListType DEF IInv, Entry
<1>3. nodes' \in Seq(Entry)
  <2>1. nodes' = [i \in 1 .. Len(nodes) |-> nodes'[i]] /\ Len(nodes) \in Nat
    BY <1>1, ListType DEF IInv, Shift
  <2>2. \A i \in 1 .. Len(nodes) : nodes'[i] \in Entry
    BY <1>2, ListType DEF IInv
  <2>. QED
    BY <2>1, <2>2, IsASeq
<1>4. IndexAgrees'
  BY <1>1, <1>2 DEF IInv, IndexAgrees
<1>5. Ordered'
  <2>. SUFFICES ASSUME NEW i \in DOMAIN nodes, NEW j \in DOMAIN nodes, i < j
                PROVE  nodes'[i].left <= nodes'[j].left + back'
    BY <1>1 DEF Ordered
  <2>1. /\ nodes[i].left <= nodes[j].left + back
        /\ nodes[i].left \in Int /\ nodes[j].left \in Int /\ back \in Int
    BY ListType DEF IInv, Ordered
  <2>2. nodes'[i].left = nodes[i].left - d /\ nodes'[j].left = nodes[j].left - d
    BY <1>2
  <2>. QED
    BY <2>1, <2>2
<1>6. Bounded'
  BY <1>1, <1>2, ListType DEF IInv, Bounded
<1>. QED
  BY <1>1, <1>2, <1>3, <1>4, <1>5, <1>6

LEMMA InitInvariant == Init => IInv
<1>. SUFFICES ASSUME Init PROVE IInv
  OBVIOUS
<1>1. nodes \in Seq(Entry) /\ DOMAIN nodes = {}
  BY EmptySeq DEF Init
<1>2. timeout \in -1 .. (TIMEOUT + MaxStep) /\ back \in 0 .. MaxStep
  BY TimerAssumption DEF Init
<1>3. TypeOK
  BY <1>1, <1>2 DEF Init, TypeOK, Entry
<1>4. IndexAgrees /\ Ordered /\ Bounded
  BY <1>1 DEF Init, IndexAgrees, Ordered, Bounded
<1>. QED
  BY <1>3, <1>4 DEF IInv

(* What getNextTick computes: nothing that is later than its first entry.  *)
LEMMA WaitFits ==
  ASSUME IInv, nodes # <<>>
  PROVE  LET t == (Clamped(FirstLeft) \div MS) * MS IN
           /\ t \in 0 .. (TIMEOUT + back)
           /\ t = 0 \/ t <= FirstLeft
<1>1. 1 \in DOMAIN nodes /\ FirstLeft = nodes[1].left /\ FirstLeft \in Int
  BY KeptByFiring, ListType DEF IInv, FirstLeft
<1>2. /\ Clamped(FirstLeft) \in Nat /\ MS \in Nat \ {0}
      /\ Clamped(FirstLeft) = 0 \/ Clamped(FirstLeft) = FirstLeft
  BY <1>1, TimerAssumption DEF Clamped
<1>3. (Clamped(FirstLeft) \div MS) * MS \in 0 .. Clamped(FirstLeft)
  BY <1>2, CutOff
<1>4. FirstLeft <= TIMEOUT + back /\ 0 <= TIMEOUT + back /\ TIMEOUT + back \in Int
  BY <1>1, TimerAssumption DEF IInv, Bounded, TypeOK
<1>. DEFINE c == Clamped(FirstLeft)
            t == (c \div MS) * MS
<1>5. t \in 0 .. c /\ (c = 0 \/ c = FirstLeft)
  BY <1>2, <1>3
<1>6. c \in Nat
  BY <1>2
<1>. HIDE DEF t, c
<1>7. t \in 0 .. (TIMEOUT + back) /\ (t = 0 \/ t <= FirstLeft)
  BY <1>1, <1>4, <1>5, <1>6
<1>. QED
  BY <1>7 DEF t, c

LEMMA NextInvariant == IInv /\ [Next]_vars => IInv'
<1>. SUFFICES ASSUME IInv, [Next]_vars
              PROVE  IInv'
  OBVIOUS
<1>a. /\ ref \subseteq Ids /\ rpc \in {"clean", "next", "wait", "tick", "handle"}
      /\ timeout \in -1 .. (TIMEOUT + MaxStep) /\ back \in 0 .. MaxStep
      /\ MaxStep \in Nat /\ TIMEOUT \in Nat
  BY TimerAssumption DEF IInv, TypeOK
<1>b. ASSUME UNCHANGED <<nodes, ref, back>>, timeout' \in -1 .. (TIMEOUT + MaxStep),
             rpc' \in {"clean", "next", "wait", "tick", "handle"}
      PROVE  IInv'
  BY <1>b DEF IInv, TypeOK, IndexAgrees, Ordered, Bounded
<1>1. ASSUME NEW id \in Ids, Add(id)
      PROVE  IInv'
  <2>1. PICK s : /\ Kept(s, id)
                 /\ nodes' = Append(s, [id |-> id, left |-> TIMEOUT])
    <3>1. CASE id \in ref
      BY <1>1, <3>1, KeptByCut DEF Add, IInv
    <3>2. CASE id \notin ref
      BY <1>1, <3>2, KeptWhole DEF Add, IInv
    <3>. QED
      BY <3>1, <3>2
  <2>2. ref' = ref \cup {id} /\ UNCHANGED <<rpc, timeout, back>>
    BY <1>1 DEF Add
  <2>3. nodes' \in Seq(Entry) /\ IndexAgrees' /\ Ordered' /\ Bounded'
    BY <2>1, <2>2, Appended
  <2>. QED
    BY <1>a, <2>2, <2>3 DEF IInv, TypeOK, Entry
<1>2. CASE Fire
  <2>1. Kept(nodes', Head(nodes).id) /\ ref' = ref \ {Head(nodes).id}
    BY <1>2, KeptByFiring DEF Fire, Unref, IInv
  <2>2. nodes' \in Seq(Entry) /\ IndexAgrees' /\ Ordered' /\ Bounded'
    BY <1>2, <2>1, Lessened DEF Fire
  <2>. QED
    BY <1>2, <1>a, <2>1, <2>2 DEF Fire, IInv, TypeOK, Entry
<1>3. CASE TickDone
  BY <1>3, <1>a, <1>b DEF TickDone
<1>4. CASE GetNextTick
  <2>1. timeout' \in -1 .. (TIMEOUT + MaxStep)
    <3>1. CASE nodes = <<>>
      BY <1>4, <1>a, <3>1 DEF GetNextTick
    <3>2. CASE nodes # <<>>
      <4>1. timeout' \in 0 .. (TIMEOUT + back)
        BY <1>4, <3>2, WaitFits DEF GetNextTick
      <4>. QED
        BY <1>a, <4>1
    <3>. QED
      BY <3>1, <3>2
  <2>. QED
    BY <1>4, <1>b, <2>1 DEF GetNextTick
<1>5. ASSUME NEW why, Wake(why)
      PROVE  IInv'
  <2>1. timeout' \in -1 .. (TIMEOUT + MaxStep)
    BY <1>5, <1>a DEF Wake
  <2>. QED
    BY <1>5, <1>b, <2>1 DEF Wake
<1>6. CASE HandleDone
  BY <1>6, <1>a, <1>b DEF HandleDone
<1>7. CASE Advance
  <2>1. nodes' \in Seq(Entry) /\ IndexAgrees' /\ Ordered' /\ Bounded'
    BY <1>7, <1>a, Shifted DEF Advance
  <2>2. timeout' \in -1 .. (TIMEOUT + MaxStep)
    BY <1>7, <1>a DEF Advance
  <2>. QED
    BY <1>7, <1>a, <2>1, <2>2 DEF Advance, IInv, TypeOK, Entry
<1>8. ASSUME NEW d \in -MaxStep .. MaxStep, SetClock(d)
      PROVE  IInv'
  <2>1. back' \in 0 .. MaxStep /\ back' >= back /\ back' >= back - d /\ d \in Int
    BY <1>8, <1>a DEF SetClock
  <2>2. nodes' \in Seq(Entry) /\ IndexAgrees' /\ Ordered' /\ Bounded'
    BY <1>8, <2>1, Shifted DEF SetClock
  <2>. QED
    BY <1>8, <1>a, <2>1, <2>2 DEF SetClock, IInv, TypeOK, Entry
<1>9. CASE UNCHANGED vars
  BY <1>9, <1>a, <1>b DEF vars
<1>. QED
  BY <1>1, <1>2, <1>3, <1>4, <1>5, <1>6, <1>7, <1>8, <1>9 DEF Next, LoopStep

LEMMA InvariantKept == Spec => []IInv
BY InitInvariant, NextInvariant, PTL DEF Spec

(* Types, and no wait that is longer than a deadline can be off.           *)
THEOREM TypeCorrect == Spec => []TypeOK
BY InvariantKept, PTL DEF IInv

(* The index has an iterator for the descriptors that have an entry, and   *)
(* each has one (lru_timer.cpp 17-27, 45-47).                              *)
THEOREM IndexKept == Spec => []IndexAgrees
BY InvariantKept, PTL DEF IInv

(* Stopping at a head that is not due, and waiting for it, lets no entry   *)
(* be late by more than the clock was set back (lru_timer.cpp 34-38, 55).  *)
THEOREM HeadIsEarliest == Spec => LateByStepsAlone
<1>1. ASSUME IInv, TickDone, NEW i \in DOMAIN nodes
      PROVE  nodes[i].left + back >= MS
  <2>1. nodes # <<>> /\ 1 \in DOMAIN nodes /\ Head(nodes) = nodes[1]
    BY <1>1, KeptByFiring, ListType DEF IInv
  <2>2. nodes[1].left >= MS
    BY <1>1, <2>1, ListType DEF TickDone, Due, IInv
  <2>3. i = 1 \/ 1 < i
    BY <1>1, ListType DEF IInv
  <2>4. nodes[1].left <= nodes[i].left + back
    <3>1. nodes[1].left \in Int /\ back \in Nat
      BY <1>1, <2>1, ListType DEF IInv, TypeOK
    <3>. QED
      BY <1>1, <2>1, <2>3, <3>1 DEF IInv, Ordered
  <2>. QED
    BY <1>1, <2>1, <2>2, <2>4, ListType DEF IInv
<1>2. ASSUME IInv, GetNextTick, NEW i \in DOMAIN nodes
      PROVE  timeout' = 0 \/ timeout' \in 1 .. (nodes[i].left + back)
  <2>1. nodes # <<>> /\ 1 \in DOMAIN nodes /\ FirstLeft = nodes[1].left
    BY <1>2, KeptByFiring, ListType DEF IInv, FirstLeft
  <2>2. timeout' \in 0 .. (TIMEOUT + back) /\ (timeout' = 0 \/ timeout' <= FirstLeft)
    BY <1>2, <2>1, WaitFits DEF GetNextTick
  <2>3. i = 1 \/ 1 < i
    BY <1>2, ListType DEF IInv
  <2>4. nodes[1].left <= nodes[i].left + back
    <3>1. nodes[1].left \in Int /\ back \in Nat
      BY <1>2, <2>1, ListType DEF IInv, TypeOK
    <3>. QED
      BY <1>2, <2>1, <2>3, <3>1 DEF IInv, Ordered
  <2>. QED
    BY <1>2, <2>1, <2>2, <2>4, ListType DEF IInv
<1>3. IInv =>
        [/\ TickDone => \A i \in DOMAIN nodes : nodes[i].left + back >= MS
         /\ GetNextTick => \A i \in DOMAIN nodes :
              timeout' = 0 \/ timeout' \in 1 .. nodes[i].left + back]_vars
  BY <1>1, <1>2
<1>. QED
  BY <1>3, InvariantKept, PTL DEF LateByStepsAlone

-----------------------------------------------------------------------------
(* The list implements one deadline per descriptor.                        *)

(* What the list says of a descriptor is what its only entry says.         *)
Read ==
  /\ \A i \in DOMAIN nodes : nodes[i].id \in Ids => Left[nodes[i].id] = nodes[i].left
  /\ \A x \in Ids \ ref : Left[x] = NoDeadline
  /\ Left = [x \in Ids |-> Left[x]]

LEMMA LeftIs == IInv => Read
<1>. SUFFICES ASSUME IInv PROVE Read
  OBVIOUS
<1>1. ASSUME NEW i \in DOMAIN nodes
      PROVE  PlaceOf(nodes[i].id) = i
  BY <1>1 DEF PlaceOf, IInv, IndexAgrees
<1>. QED
  BY <1>1 DEF Read, Left, IInv, IndexAgrees

LEMMA LeftIsThen == IInv' => Read'
BY LeftIs, PTL

LEMMA AddSets ==
  ASSUME IInv, IInv', NEW id \in Ids, Add(id)
  PROVE  Left' = [Left EXCEPT ![id] = TIMEOUT]
<1>1. PICK s : /\ Kept(s, id)
               /\ nodes' = Append(s, [id |-> id, left |-> TIMEOUT])
  <2>1. CASE id \in ref
    BY <2>1, KeptByCut DEF Add, IInv
  <2>2. CASE id \notin ref
    BY <2>2, KeptWhole DEF Add, IInv
  <2>. QED
    BY <2>1, <2>2
<1>2. ref' = ref \cup {id} /\ UNCHANGED back
  BY DEF Add
<1>3. /\ DOMAIN nodes' = 1 .. (Len(s) + 1) /\ Len(s) \in Nat
      /\ nodes'[Len(s) + 1] = [id |-> id, left |-> TIMEOUT]
      /\ \A i \in 1 .. Len(s) : nodes'[i] = s[i]
  BY <1>1, <1>2, Appended
<1>4. Read /\ Read'
  BY LeftIs, LeftIsThen
<1>5. Left'[id] = TIMEOUT
  BY <1>3, <1>4 DEF Read
<1>6. ASSUME NEW x \in Ids, x # id
      PROVE  Left'[x] = Left[x]
  <2>1. CASE x \in ref
    <3>1. PICK k \in DOMAIN nodes : nodes[k].id = x
      BY <2>1 DEF IInv, IndexAgrees
    <3>2. PICK i \in 1 .. Len(s) : s[i] = nodes[k]
      BY <1>1, <1>6, <3>1 DEF Kept
    <3>3. i \in DOMAIN nodes' /\ nodes'[i] = nodes[k]
      BY <1>3, <3>2
    <3>. QED
      BY <1>4, <3>1, <3>3 DEF Read
  <2>2. CASE x \notin ref
    BY <1>2, <1>4, <1>6, <2>2 DEF Read
  <2>. QED
    BY <2>1, <2>2
<1>. QED
  BY <1>4, <1>5, <1>6 DEF Read

LEMMA FireFires ==
  ASSUME IInv, IInv', Fire
  PROVE  \E id \in Ids : Abstract!Fire(id)
<1>. DEFINE h == Head(nodes).id
<1>1. /\ Kept(nodes', h) /\ ref' = ref \ {h}
      /\ 1 \in DOMAIN nodes /\ Head(nodes) = nodes[1]
  BY KeptByFiring DEF Fire, Unref, IInv
<1>2. h \in Ids /\ Head(nodes).left \in Int
  BY <1>1, ListType DEF IInv
<1>3. Read /\ Read'
  BY LeftIs, LeftIsThen
<1>4. Left[h] = Head(nodes).left /\ Left'[h] = NoDeadline
  BY <1>1, <1>2, <1>3 DEF Read
<1>5. Left[h] # NoDeadline /\ Left[h] < MS
  BY <1>2, <1>4, TimerAssumption DEF Fire, Due
<1>6. ASSUME NEW x \in Ids, x # h
      PROVE  Left'[x] = Left[x]
  <2>1. CASE x \in ref
    <3>1. PICK k \in DOMAIN nodes : nodes[k].id = x
      BY <2>1 DEF IInv, IndexAgrees
    <3>2. PICK i \in 1 .. Len(nodes') : nodes'[i] = nodes[k]
      BY <1>1, <1>6, <3>1 DEF Kept
    <3>3. i \in DOMAIN nodes'
      BY <1>1, <3>2, LenProperties DEF Kept
    <3>. QED
      BY <1>3, <3>1, <3>2, <3>3 DEF Read
  <2>2. CASE x \notin ref
    BY <1>1, <1>3, <1>6, <2>2 DEF Read
  <2>. QED
    BY <2>1, <2>2
<1>7. Left' = [Left EXCEPT ![h] = NoDeadline]
  BY <1>3, <1>4, <1>6 DEF Read
<1>. QED
  BY <1>2, <1>5, <1>7 DEF Abstract!Fire

LEMMA ShiftIsClock ==
  ASSUME IInv, IInv', NEW d \in Int, Shift(d), UNCHANGED ref
  PROVE  Abstract!Clock(d)
<1>1. Read /\ Read'
  BY LeftIs, LeftIsThen
<1>2. /\ DOMAIN nodes' = DOMAIN nodes
      /\ \A i \in DOMAIN nodes : nodes'[i] = [nodes[i] EXCEPT !.left = @ - d]
  BY DEF Shift
<1>3. \A i \in DOMAIN nodes : nodes'[i].id = nodes[i].id /\ nodes'[i].left = nodes[i].left - d
  BY <1>2, ListType DEF IInv, Entry
<1>4. ASSUME NEW x \in Ids
      PROVE  Left'[x] = IF Left[x] = NoDeadline THEN NoDeadline ELSE Left[x] - d
  <2>1. CASE x \in ref
    <3>1. PICK k \in DOMAIN nodes : nodes[k].id = x
      BY <2>1 DEF IInv, IndexAgrees
    <3>2. Left[x] = nodes[k].left /\ Left'[x] = nodes[k].left - d
      BY <1>1, <1>2, <1>3, <3>1 DEF Read
    <3>3. Left[x] # NoDeadline
      BY <3>2, ListType, TimerAssumption DEF IInv
    <3>. QED
      BY <3>2, <3>3
  <2>2. CASE x \notin ref
    BY <1>1, <2>2 DEF Read
  <2>. QED
    BY <2>1, <2>2
<1>. QED
  BY <1>1, <1>4 DEF Read, Abstract!Clock

LEMMA StepIsAbstract == IInv /\ IInv' /\ [Next]_vars => [Abstract!Next]_Left
<1>. SUFFICES ASSUME IInv, IInv', [Next]_vars
              PROVE  Abstract!Next \/ UNCHANGED Left
  OBVIOUS
<1>1. ASSUME NEW id \in Ids, Add(id)
      PROVE  Abstract!Next
  BY <1>1, AddSets DEF Abstract!Next, Abstract!Set
<1>2. CASE Fire
  BY <1>2, FireFires DEF Abstract!Next
<1>3. CASE Advance
  <2>1. 1 \in -MaxStep .. MaxStep
    BY TimerAssumption
  <2>2. Abstract!Clock(1)
    BY <1>3, ShiftIsClock DEF Advance
  <2>. QED
    BY <2>1, <2>2 DEF Abstract!Next
<1>4. ASSUME NEW d \in -MaxStep .. MaxStep, SetClock(d)
      PROVE  Abstract!Next
  <2>1. d \in Int
    BY TimerAssumption
  <2>2. Abstract!Clock(d)
    BY <1>4, <2>1, ShiftIsClock DEF SetClock
  <2>. QED
    BY <2>2 DEF Abstract!Next
<1>5. ASSUME UNCHANGED nodes
      PROVE  UNCHANGED Left
  BY <1>5 DEF Left, PlaceOf
<1>6. CASE TickDone \/ GetNextTick \/ HandleDone \/ UNCHANGED vars
  BY <1>5, <1>6 DEF TickDone, GetNextTick, HandleDone, vars
<1>7. ASSUME NEW why, Wake(why)
      PROVE  UNCHANGED Left
  BY <1>5, <1>7 DEF Wake
<1>. QED
  BY <1>1, <1>2, <1>3, <1>4, <1>6, <1>7 DEF Next, LoopStep

(* Whatever the clock does, the list and its index behave as one deadline  *)
(* per descriptor, set by add and fired only when it is due (lru_timer.cpp *)
(* 14-49): the safety part of ImplementsDeadlines.                         *)
THEOREM Refinement == Spec => Abstract!SafeSpec
<1>1. Init => Abstract!Init
  BY DEF Init, Left, Abstract!Init
<1>. QED
  BY <1>1, StepIsAbstract, InvariantKept, PTL DEF Spec, Abstract!SafeSpec
=============================================================================
