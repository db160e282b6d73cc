---------------------------- MODULE CpBusProofs ----------------------------
(***************************************************************************)
(* Theorems about CpBus, for any channels, PDs, pool size, timeouts and    *)
(* bounds: one PD of a channel is waited for at a time, an answer is that  *)
(* of the PD whose turn it is, and the command queues are queues.          *)
(***************************************************************************)
EXTENDS CpBus, WellFoundedInduction, FiniteSetTheorems, SequenceTheorems, TLAPS

USE CpBusAssumption

-----------------------------------------------------------------------------
(* A queue is a chain of units of its slab                                 *)

Queues == [head : 0..PoolSize, tail : 0..PoolSize, leased : SUBSET Units,
           next : [Units -> 0..PoolSize], object : [Units -> Nat]]

\* The list of q is the units s, oldest first, and they are the units that are leased.
Chained(q, s) ==
    /\ q \in Queues
    /\ s \in Seq(Units)
    /\ \A i, j \in 1..Len(s) : s[i] = s[j] => i = j
    /\ q.leased = {s[i] : i \in 1..Len(s)}
    /\ q.head = IF s = <<>> THEN 0 ELSE s[1]
    /\ q.tail = IF s = <<>> THEN 0 ELSE s[Len(s)]
    /\ \A i \in 1..Len(s) : q.next[s[i]] = IF i = Len(s) THEN 0 ELSE s[i + 1]

\* The same, number by number.
LEMMA ChainFacts ==
    ASSUME NEW q, NEW s, Chained(q, s)
    PROVE  /\ Len(s) \in Nat /\ (s = <<>> <=> Len(s) = 0)
           /\ \A i \in 1..Len(s) : s[i] \in Units /\ s[i] # 0 /\ s[i] \in q.leased
           /\ \A i, j \in 1..Len(s) : s[i] = s[j] => i = j
           /\ \A u \in q.leased : \E i \in 1..Len(s) : u = s[i]
           /\ q.head = IF Len(s) = 0 THEN 0 ELSE s[1]
           /\ q.tail = IF Len(s) = 0 THEN 0 ELSE s[Len(s)]
           /\ \A i \in 1..Len(s) : q.next[s[i]] = IF i = Len(s) THEN 0 ELSE s[i + 1]
           /\ q.head \in 0..PoolSize /\ q.tail \in 0..PoolSize
           /\ q.leased \in SUBSET Units /\ q.next \in [Units -> 0..PoolSize]
  <1>1. s \in Seq(Units) /\ Len(s) \in Nat /\ (s = <<>> <=> Len(s) = 0)
    BY DEF Chained
  <1>2. \A i \in 1..Len(s) : s[i] \in Units /\ s[i] # 0 /\ s[i] \in q.leased
    BY <1>1 DEF Chained, Units
  <1>3. q \in Queues
    BY DEF Chained
  <1> QED  BY <1>1, <1>2, <1>3 DEF Chained, Queues

LEMMA EmptyChain == Chained(EmptyQueue, <<>>)
  BY DEF Chained, EmptyQueue, Queues, Units

\* A set of natural numbers has a least one.
LEMMA LeastNatural ==
    ASSUME NEW T \in SUBSET Nat, T # {}
    PROVE  \E n \in T : \A m \in T : n <= m
  <1>1. PICK n \in T : \A m \in T : <<m, n>> \notin OpToRel(<, Nat)
    BY NatLessThanWellFounded, WFMin
  <1>2. \A m \in T : ~(m < n)
    BY <1>1 DEF OpToRel
  <1> QED  BY <1>2

\* cp_cmd_alloc gives a unit that is free, and its command joins at the end.
LEMMA EnqueueChain ==
    ASSUME NEW q, NEW s, Chained(q, s), NEW c \in Nat, q.leased # Units
    PROVE  /\ SlabAlloc(q) \in Units \ q.leased
           /\ Enqueue(q, c).leased = q.leased \cup {SlabAlloc(q)}
           /\ Enqueue(q, c).object = [q.object EXCEPT ![SlabAlloc(q)] = c]
           /\ Chained(Enqueue(q, c), Append(s, SlabAlloc(q)))
  <1> DEFINE u == SlabAlloc(q)
             e == Enqueue(q, c)
             t == Append(s, u)
  <1>1. u \in Units \ q.leased
    <2>1. Units \ q.leased \in SUBSET Nat /\ Units \ q.leased # {}
      BY DEF Units, Chained, Queues
    <2>2. \E v \in Units \ q.leased : \A w \in Units \ q.leased : v <= w
      BY <2>1, LeastNatural
    <2> QED  BY <2>2 DEF SlabAlloc
  <1>2. u \in 1..PoolSize /\ u # 0
    BY <1>1 DEF Units
  <1> HIDE DEF u
  <1>3. /\ e.head = (IF q.head = 0 THEN u ELSE q.head) /\ e.tail = u
        /\ e.leased = q.leased \cup {u} /\ e.object = [q.object EXCEPT ![u] = c]
        /\ e.next = [n \in Units |-> IF n = u THEN 0 ELSE IF n = q.tail THEN u ELSE q.next[n]]
        /\ e \in Queues
    <2> DEFINE next == [n \in Units |-> IF n = u THEN 0 ELSE IF n = q.tail THEN u ELSE q.next[n]]
               object == [q.object EXCEPT ![u] = c]
               head == IF q.head = 0 THEN u ELSE q.head
    <2>1. q \in Queues
      BY DEF Chained
    <2>2. next \in [Units -> 0..PoolSize]
      BY <1>2, ChainFacts
    <2>3. object \in [Units -> Nat] /\ head \in 0..PoolSize /\ q.leased \cup {u} \in SUBSET Units
      BY <1>1, <1>2, <2>1 DEF Queues
    <2>4. e = [head |-> head, tail |-> u, leased |-> q.leased \cup {u}, next |-> next,
               object |-> object]
      <3> DEFINE given == [q EXCEPT !.leased = @ \cup {u}, !.object[u] = c]
      <3>1. given = [head |-> q.head, tail |-> q.tail, leased |-> q.leased \cup {u},
                     next |-> q.next, object |-> object]
        <4>1. q = [head |-> q.head, tail |-> q.tail, leased |-> q.leased, next |-> q.next,
                   object |-> q.object]
          BY <2>1 DEF Queues
        <4> HIDE DEF object
        <4>2. given = [q EXCEPT !.leased = q.leased \cup {u}, !.object = object]
          BY DEF object
        <4> HIDE DEF given
        <4> QED  BY <4>1, <4>2
      <3>2. e = ListAppend(given, u)
        BY DEF Enqueue, u
      <3> HIDE DEF given, e
      <3> QED  BY <3>1, <3>2 DEF ListAppend
    <2> HIDE DEF next, object, head, e
    <2>5. /\ e.head = head /\ e.tail = u /\ e.leased = q.leased \cup {u} /\ e.object = object
          /\ e.next = next /\ e \in Queues
      BY <1>2, <2>2, <2>3, <2>4 DEF Queues
    <2> QED  BY <2>5 DEF next, object, head
  <1>4. /\ Len(t) = Len(s) + 1 /\ t[Len(t)] = u /\ Len(s) \in Nat
        /\ \A i \in 1..Len(s) : t[i] = s[i]
        /\ t \in Seq(Units) /\ t # <<>>
    <2>1. s \in Seq(Units) /\ Len(s) \in Nat /\ u \in Units
      BY <1>1, ChainFacts DEF Chained
    <2>2. t \in Seq(Units) /\ Len(t) = Len(s) + 1 /\ t[Len(t)] = u
      BY <2>1
    <2>3. \A i \in 1..Len(s) : t[i] = s[i]
      BY <2>1
    <2> HIDE DEF t
    <2>4. t # <<>>
      BY <2>1, <2>2
    <2> QED  BY <2>1, <2>2, <2>3, <2>4
  <1> HIDE DEF e, t
  <1>5. \A i, j \in 1..Len(t) : t[i] = t[j] => i = j
    <2> SUFFICES ASSUME NEW i \in 1..Len(t), NEW j \in 1..Len(t), t[i] = t[j] PROVE i = j
      OBVIOUS
    <2>1. \A m \in 1..Len(s) : t[m] # u
      <3>1. \A m \in 1..Len(s) : s[m] \in q.leased
        BY ChainFacts
      <3> QED  BY <3>1, <1>1, <1>4
    <2>2. CASE i \in 1..Len(s) /\ j \in 1..Len(s)
      BY <2>2, <1>4, ChainFacts
    <2>3. \A m \in 1..Len(t) : m \in 1..Len(s) \/ m = Len(t)
      BY <1>4
    <2> QED  BY <2>1, <2>2, <2>3, <1>4
  <1>6. e.leased = {t[i] : i \in 1..Len(t)}
    <2>1. \A i \in 1..Len(t) : t[i] \in e.leased
      <3>1. \A m \in 1..Len(t) : m \in 1..Len(s) \/ m = Len(t)
        BY <1>4
      <3> QED  BY <3>1, <1>3, <1>4, ChainFacts
    <2>2. \A v \in e.leased : \E i \in 1..Len(t) : v = t[i]
      <3> SUFFICES ASSUME NEW v \in e.leased PROVE \E i \in 1..Len(t) : v = t[i]
        OBVIOUS
      <3>1. CASE v = u
        BY <3>1, <1>4
      <3>2. CASE v \in q.leased
        <4>1. PICK i \in 1..Len(s) : v = s[i]
          BY <3>2, ChainFacts
        <4> QED  BY <4>1, <1>4
      <3> QED  BY <3>1, <3>2, <1>3
    <2> QED  BY <2>1, <2>2
  <1>7. e.head = t[1]
    <2>1. CASE Len(s) = 0
      BY <2>1, <1>3, <1>4, ChainFacts
    <2>2. CASE Len(s) # 0
      <3>1. 1 \in 1..Len(s) /\ q.head = s[1] /\ s[1] # 0
        BY <2>2, <1>4, ChainFacts
      <3> QED  BY <3>1, <1>3, <1>4
    <2> QED  BY <2>1, <2>2
  <1>8. ASSUME NEW i \in 1..Len(t)
        PROVE  e.next[t[i]] = IF i = Len(t) THEN 0 ELSE t[i + 1]
    <2>1. CASE i = Len(t)
      BY <2>1, <1>1, <1>3, <1>4
    <2>2. CASE i = Len(s) /\ i \in 1..Len(s)
      <3>1. t[i] = s[i] /\ s[i] = q.tail /\ s[i] # u /\ s[i] \in Units /\ t[i + 1] = u
        BY <2>2, <1>1, <1>4, ChainFacts
      <3> QED  BY <2>2, <3>1, <1>3, <1>4
    <2>3. CASE i < Len(s)
      <3>1. i \in 1..Len(s) /\ i + 1 \in 1..Len(s) /\ i # Len(s)
        BY <2>3, <1>4
      <3>2. t[i] = s[i] /\ t[i + 1] = s[i + 1] /\ s[i] # u /\ s[i] \in Units /\ s[i] # q.tail
        BY <3>1, <1>1, <1>4, ChainFacts
      <3>3. q.next[s[i]] = s[i + 1]
        BY <3>1, ChainFacts
      <3> QED  BY <2>3, <3>2, <3>3, <1>3, <1>4
    <2> QED  BY <2>1, <2>2, <2>3, <1>4
  <1> QED  BY <1>1, <1>3, <1>4, <1>5, <1>6, <1>7, <1>8 DEF Chained, u, e, t

\* The oldest command leaves and its unit is free again.
LEMMA DequeueChain ==
    ASSUME NEW q, NEW s, Chained(q, s), s # <<>>
    PROVE  /\ Dequeue(q).leased = q.leased \ {s[1]} /\ s[1] \in q.leased
           /\ Dequeue(q).object = q.object
           /\ Chained(Dequeue(q), Tail(s))
  <1> DEFINE d == Dequeue(q)
             t == Tail(s)
             n == q.next[s[1]]
  <1>1. /\ q \in Queues /\ s \in Seq(Units) /\ Len(s) \in Nat \ {0} /\ 1 \in 1..Len(s)
        /\ s[1] \in Units /\ s[1] # 0 /\ q.head = s[1] /\ s[1] \in q.leased
    <2>1. q \in Queues /\ s \in Seq(Units)
      BY DEF Chained
    <2>2. Len(s) \in Nat \ {0} /\ 1 \in 1..Len(s)
      BY ChainFacts
    <2> QED  BY <2>1, <2>2, ChainFacts
  <1>2. /\ n \in 0..PoolSize
        /\ n = IF Len(s) = 1 THEN 0 ELSE s[2]
    <2>1. \A i \in 1..Len(s) : q.next[s[i]] = IF i = Len(s) THEN 0 ELSE s[i + 1]
      BY ChainFacts
    <2>2. q.next \in [Units -> 0..PoolSize]
      BY ChainFacts
    <2>3. n = IF 1 = Len(s) THEN 0 ELSE s[1 + 1]
      BY <1>1, <2>1
    <2> QED  BY <1>1, <2>2, <2>3
  <1>3. d = [q EXCEPT !.head = n, !.tail = IF n = 0 THEN 0 ELSE @, !.leased = @ \ {s[1]}]
    BY <1>1 DEF Dequeue, ListPopLeft, Queues
  <1> HIDE DEF d, n
  <1>4. /\ d.head = n /\ d.tail = (IF n = 0 THEN 0 ELSE q.tail) /\ d.leased = q.leased \ {s[1]}
        /\ d.next = q.next /\ d.object = q.object /\ d \in Queues
    BY <1>1, <1>2, <1>3 DEF Queues
  <1>5. /\ t \in Seq(Units) /\ Len(t) = Len(s) - 1 /\ (t = <<>> <=> Len(t) = 0)
        /\ \A i \in 1..Len(t) : t[i] = s[i + 1] /\ i + 1 \in 2..Len(s)
    <2>1. s \in Seq(Units) /\ s # <<>> /\ Len(s) \in Nat \ {0}
      BY <1>1
    <2>2. t \in Seq(Units) /\ Len(t) = Len(s) - 1
      BY <2>1
    <2>3. \A i \in 1..Len(t) : t[i] = s[i + 1]
      BY <2>1, <2>2
    <2> HIDE DEF t
    <2>4. t = <<>> <=> Len(t) = 0
      BY <2>2, EmptySeq
    <2> QED  BY <2>1, <2>2, <2>3, <2>4
  <1> HIDE DEF t
  <1>6. \A i, j \in 1..Len(t) : t[i] = t[j] => i = j
    <2> SUFFICES ASSUME NEW i \in 1..Len(t), NEW j \in 1..Len(t), t[i] = t[j] PROVE i = j
      OBVIOUS
    <2>1. i + 1 \in 1..Len(s) /\ j + 1 \in 1..Len(s) /\ s[i + 1] = s[j + 1]
      BY <1>5
    <2> QED  BY <2>1, ChainFacts
  <1>7. d.leased = {t[i] : i \in 1..Len(t)}
    <2>1. ASSUME NEW i \in 1..Len(t) PROVE t[i] \in d.leased
      <3>1. i + 1 \in 1..Len(s) /\ i + 1 # 1 /\ t[i] = s[i + 1]
        BY <1>5
      <3> QED  BY <3>1, <1>1, <1>4, ChainFacts
    <2>2. ASSUME NEW u \in d.leased PROVE \E i \in 1..Len(t) : u = t[i]
      <3>1. PICK i \in 1..Len(s) : u = s[i] /\ i # 1
        BY <1>4, ChainFacts
      <3>2. i - 1 \in 1..Len(t) /\ (i - 1) + 1 = i
        BY <1>1, <1>5, <3>1
      <3> QED  BY <3>1, <3>2, <1>5
    <2> QED  BY <2>1, <2>2
  <1>8. d.head = IF t = <<>> THEN 0 ELSE t[1]
    BY <1>1, <1>2, <1>4, <1>5
  <1>9. d.tail = IF t = <<>> THEN 0 ELSE t[Len(t)]
    <2>1. CASE Len(s) = 1
      BY <2>1, <1>2, <1>4, <1>5
    <2>2. CASE Len(s) > 1
      <3>1. n # 0 /\ q.tail = s[Len(s)]
        BY <2>2, <1>1, <1>2, ChainFacts
      <3>2. t # <<>> /\ Len(t) \in 1..Len(t) /\ t[Len(t)] = s[Len(t) + 1]
        <4>1. Len(t) \in Nat \ {0}
          BY <2>2, <1>1, <1>5
        <4> QED  BY <4>1, <1>5
      <3>3. Len(t) + 1 = Len(s)
        BY <1>1, <1>5
      <3>4. d.tail = q.tail
        BY <3>1, <1>4
      <3> QED  BY <3>1, <3>2, <3>3, <3>4
    <2>3. Len(s) = 1 \/ Len(s) > 1
      <3>1. \A m \in Nat \ {0} : m = 1 \/ m > 1
        OBVIOUS
      <3> QED  BY <1>1, <3>1
    <2> QED  BY <2>1, <2>2, <2>3, Zenon
  <1>10. ASSUME NEW i \in 1..Len(t)
         PROVE  d.next[t[i]] = IF i = Len(t) THEN 0 ELSE t[i + 1]
    <2>1. t[i] = s[i + 1] /\ i + 1 \in 1..Len(s) /\ (i = Len(t) <=> i + 1 = Len(s))
      BY <1>1, <1>5
    <2>2. q.next[s[i + 1]] = IF i + 1 = Len(s) THEN 0 ELSE s[i + 2]
      BY <2>1, ChainFacts
    <2>3. i # Len(t) => t[i + 1] = s[i + 2]
      BY <1>5
    <2> QED  BY <2>1, <2>2, <2>3, <1>4
  <1> QED  BY <1>1, <1>4, <1>5, <1>6, <1>7, <1>8, <1>9, <1>10 DEF Chained, d, t

LEMMA OneTo ==
    ASSUME NEW n \in Nat
    PROVE  IsFiniteSet(1..n) /\ Cardinality(1..n) = n
  <1>1. 1 \in Int /\ n \in Int
    OBVIOUS
  <1>2. IsFiniteSet(1..n) /\ Cardinality(1..n) = IF 1 > n THEN 0 ELSE n - 1 + 1
    BY ONLY <1>1, FS_Interval, Zenon
  <1> QED  BY <1>2

LEMMA ChainLength ==
    ASSUME NEW q, NEW s, Chained(q, s)
    PROVE  /\ Len(s) <= PoolSize /\ IsFiniteSet(q.leased) /\ Cardinality(q.leased) = Len(s)
           /\ q.leased = Units <=> Len(s) = PoolSize
  <1> DEFINE f == [i \in 1..Len(s) |-> s[i]]
  <1>1. IsFiniteSet(Units) /\ Cardinality(Units) = PoolSize
    BY FS_Interval DEF Units
  <1>2. IsFiniteSet(1..Len(s)) /\ Cardinality(1..Len(s)) = Len(s) /\ Len(s) \in Nat
    <2>1. Len(s) \in Nat
      BY ChainFacts
    <2> QED  BY <2>1, OneTo
  <1>3. f \in Bijection(1..Len(s), q.leased)
    BY DEF Chained, Bijection, Injection, Surjection, IsInjective
  <1>4. Cardinality(q.leased) = Len(s) /\ IsFiniteSet(q.leased)
    BY <1>2, <1>3, FS_Bijection DEF ExistsBijection
  <1>5. q.leased \in SUBSET Units
    BY DEF Chained, Queues
  <1> QED  BY <1>1, <1>4, <1>5, FS_Subset

\* Following next from the head gives the units of the chain.
LEMMA FollowedChain ==
    ASSUME NEW q, NEW s, Chained(q, s)
    PROVE  \A i \in Units : Followed(q)[i] = IF i <= Len(s) THEN s[i] ELSE 0
  <1> DEFINE step(f) == [i \in Units |-> IF i = 1 THEN q.head
                                         ELSE IF f[i - 1] = 0 THEN 0 ELSE q.next[f[i - 1]]]
             g == [i \in Units |-> IF i <= Len(s) THEN s[i] ELSE 0]
             at == Followed(q)
  <1>1. Len(s) \in Nat /\ \A i \in 1..Len(s) : s[i] \in Units /\ s[i] # 0
    BY ChainFacts
  <1>2. g = step(g)
    <2> SUFFICES ASSUME NEW i \in Units PROVE g[i] = step(g)[i]
      OBVIOUS
    <2>1. CASE i = 1
      BY <2>1, <1>1 DEF Chained, Units
    <2>2. CASE i # 1
      <3>1. i - 1 \in Units /\ i \in Nat
        BY <2>2 DEF Units
      <3>2. CASE i - 1 <= Len(s)
        <4>1. g[i - 1] = s[i - 1] /\ i - 1 \in 1..Len(s) /\ s[i - 1] # 0
          BY <3>1, <3>2, <1>1 DEF Units
        <4>2. \A j \in 1..Len(s) : q.next[s[j]] = IF j = Len(s) THEN 0 ELSE s[j + 1]
          BY ChainFacts
        <4>3. q.next[s[i - 1]] = IF i - 1 = Len(s) THEN 0 ELSE s[i]
          BY <4>1, <4>2, <3>1
        <4> QED  BY <2>2, <4>1, <4>3, <3>1, <1>1
      <3>3. CASE ~(i - 1 <= Len(s))
        BY <2>2, <3>1, <3>3, <1>1
      <3> QED  BY <3>2, <3>3
    <2> QED  BY <2>1, <2>2
  <1>3. at = CHOOSE f : f = step(f)
    BY DEF Followed
  <1>4. at = step(at)
    <2> HIDE DEF g, at
    <2>1. \E f : f = step(f)
      BY <1>2
    <2> QED  BY <1>3, <2>1, Zenon
  <1> HIDE DEF at
  <1> DEFINE Bad == {i \in Units : at[i] # g[i]}
  <1>5. ASSUME Bad # {} PROVE FALSE
    <2>1. PICK i \in Bad : \A j \in Bad : i <= j
      <3>1. Bad \in SUBSET Nat
        BY DEF Units
      <3> HIDE DEF Bad
      <3> QED  BY <1>5, <3>1, LeastNatural
    <2>2. i \in Units /\ i \in Nat /\ at[i] # g[i]
      BY <2>1 DEF Units
    <2> HIDE DEF g
    <2>5. at[i] = step(at)[i] /\ g[i] = step(g)[i]
      BY <1>2, <1>4
    <2>3. CASE i = 1
      BY <2>2, <2>3, <2>5
    <2>4. CASE i # 1
      <3>1. i - 1 \in Units /\ i - 1 \notin Bad
        BY <2>1, <2>2, <2>4 DEF Units
      <3>2. at[i - 1] = g[i - 1]
        BY <3>1
      <3> QED  BY <2>2, <2>4, <2>5, <3>2
    <2> QED  BY <2>3, <2>4
  <1>6. \A i \in Units : at[i] = g[i]
    BY <1>5
  <1> QED  BY <1>6 DEF at

\* So the commands of a queue are those its chain of units holds.
Commands(q, s) == [i \in 1..Len(s) |-> q.object[s[i]]]

LEMMA PendingChain ==
    ASSUME NEW q, NEW s, Chained(q, s)
    PROVE  Pending(q) = Commands(q, s)
  <1> DEFINE at == Followed(q)
  <1>1. Len(s) \in Nat /\ Len(s) <= PoolSize /\ \A i \in 1..Len(s) : s[i] # 0
    BY ChainLength, ChainFacts
  <1>2. \A i \in Units : at[i] = IF i <= Len(s) THEN s[i] ELSE 0
    BY FollowedChain
  <1>3. {i \in Units : at[i] # 0} = 1..Len(s)
    BY <1>1, <1>2 DEF Units
  <1>4. Cardinality({i \in Units : at[i] # 0}) = Len(s)
    <2>1. Cardinality(1..Len(s)) = Len(s)
      BY <1>1, OneTo
    <2> QED  BY <1>3, <2>1
  <1>5. \A i \in 1..Len(s) : at[i] = s[i]
    BY <1>1, <1>2 DEF Units
  <1> HIDE DEF at
  <1>6. Pending(q) = [i \in 1..Len(s) |-> q.object[at[i]]]
    BY <1>4 DEF Pending, at
  <1> QED  BY <1>5, <1>6 DEF Commands

LEMMA HeadAndTail ==
    ASSUME NEW a, NEW b, NEW c, NEW d, NEW e, NEW x, NEW y, NEW q,
           q = [head |-> a, tail |-> b, leased |-> c, next |-> d, object |-> e]
    PROVE  [q EXCEPT !.head = x, !.tail = y] =
              [head |-> x, tail |-> y, leased |-> c, next |-> d, object |-> e]
  <1>1. PICK r : r = [q EXCEPT !.head = x]
    OBVIOUS
  <1>2. r = [head |-> x, tail |-> b, leased |-> c, next |-> d, object |-> e]
    BY <1>1
  <1>3. PICK p : p = [r EXCEPT !.tail = y]
    OBVIOUS
  <1>4. p = [head |-> x, tail |-> y, leased |-> c, next |-> d, object |-> e]
    BY <1>2, <1>3
  <1>5. p = [q EXCEPT !.head = x, !.tail = y]
    BY <1>1, <1>3
  <1> QED  BY <1>4, <1>5

\* A flush takes off command after command, and leaves every unit free.
LEMMA EmptiedChain ==
    ASSUME NEW q, NEW s, Chained(q, s)
    PROVE  Emptied(q).leased = {} /\ Chained(Emptied(q), <<>>)
  <1> DEFINE n == Len(s)
             units(i) == {s[j] : j \in (i + 1)..n}
             g == [i \in 0..n |-> [head |-> IF i < n THEN s[i + 1] ELSE 0,
                                   tail |-> IF i < n THEN s[n] ELSE 0,
                                   leased |-> units(i), next |-> q.next, object |-> q.object]]
             step(f) == [i \in 0..n |-> IF i = 0 THEN q ELSE Dequeue(f[i - 1])]
  <1>1. n \in Nat /\ q \in Queues /\ Len(Pending(q)) = n
    <2>1. n \in Nat /\ q \in Queues
      BY ChainFacts DEF Chained
    <2> QED  BY <2>1, PendingChain DEF Commands
  <1>2. q = [head |-> q.head, tail |-> q.tail, leased |-> q.leased, next |-> q.next,
             object |-> q.object]
    BY <1>1 DEF Queues
  <1>3. g[0] = q
    <2>1. /\ q.head = (IF 0 < n THEN s[0 + 1] ELSE 0)
          /\ q.tail = (IF 0 < n THEN s[n] ELSE 0)
      BY <1>1, ChainFacts
    <2>2. q.leased = units(0)
      BY <1>1 DEF Chained
    <2>3. 0 \in 0..n
      BY <1>1
    <2> HIDE DEF n, units
    <2> QED  BY <2>1, <2>2, <2>3, <1>2
  <1>4. ASSUME NEW i \in 1..n PROVE g[i] = Dequeue(g[i - 1])
    <2> DEFINE p == g[i - 1]
    <2>1. /\ i - 1 \in 0..n /\ i - 1 < n /\ i \in 0..n /\ (i - 1) + 1 = i
          /\ s[i] \in Units
      BY <1>1, ChainFacts
    <2>2. p = [head |-> s[i], tail |-> s[n], leased |-> units(i - 1), next |-> q.next,
               object |-> q.object]
      BY <2>1
    <2>3. q.next[s[i]] = IF i < n THEN s[i + 1] ELSE 0
      BY <1>1, ChainFacts
    <2>4. q.next[s[i]] = 0 <=> i = n
      <3>1. i < n => s[i + 1] # 0
        BY <1>1, ChainFacts
      <3> QED  BY <2>3, <3>1, <1>1
    <2>5. units(i - 1) \ {s[i]} = units(i)
      <3>1. \A j \in (i + 1)..n : s[j] # s[i] /\ j \in ((i - 1) + 1)..n
        BY <1>1, ChainFacts
      <3>2. \A j \in ((i - 1) + 1)..n : j = i \/ j \in (i + 1)..n
        BY <1>1
      <3> QED  BY <3>1, <3>2
    <2> HIDE DEF p, units
    <2>6. Dequeue(p) = [head |-> q.next[s[i]],
                        tail |-> IF q.next[s[i]] = 0 THEN 0 ELSE s[n],
                        leased |-> units(i - 1) \ {s[i]}, next |-> q.next, object |-> q.object]
      <3> DEFINE x == q.next[s[i]]
                 y == IF x = 0 THEN 0 ELSE s[n]
      <3>1. p.head = s[i] /\ p.next = q.next /\ p.tail = s[n]
        BY <2>2
      <3>2. ListPopLeft(p) = [p EXCEPT !.head = x, !.tail = y]
        BY <3>1 DEF ListPopLeft
      <3> HIDE DEF x, y
      <3>3. ListPopLeft(p) = [head |-> x, tail |-> y, leased |-> units(i - 1), next |-> q.next,
                              object |-> q.object]
        BY <2>2, <3>2, HeadAndTail
      <3> HIDE DEF n
      <3>4. Dequeue(p) = [head |-> x, tail |-> y, leased |-> units(i - 1) \ {s[i]},
                          next |-> q.next, object |-> q.object]
        <4>1. PICK l : l = ListPopLeft(p)
          OBVIOUS
        <4>2. Dequeue(p) = [l EXCEPT !.leased = l.leased \ {s[i]}]
          BY <3>1, <4>1 DEF Dequeue
        <4>3. l = [head |-> x, tail |-> y, leased |-> units(i - 1), next |-> q.next,
                   object |-> q.object]
          BY <3>3, <4>1
        <4>4. ASSUME NEW v
              PROVE  [l EXCEPT !.leased = v] =
                       [head |-> x, tail |-> y, leased |-> v, next |-> q.next, object |-> q.object]
          BY <4>3
        <4>5. l.leased = units(i - 1)
          BY <4>3
        <4> HIDE DEF units
        <4> QED  BY <4>2, <4>4, <4>5
      <3> QED  BY <3>4 DEF x, y
    <2>7. g[i] = [head |-> IF i < n THEN s[i + 1] ELSE 0, tail |-> IF i < n THEN s[n] ELSE 0,
                  leased |-> units(i), next |-> q.next, object |-> q.object]
      BY <2>1
    <2>8. i < n <=> i # n
      BY <1>1
    <2> HIDE DEF n, g
    <2> QED  BY <2>3, <2>4, <2>5, <2>6, <2>7, <2>8 DEF p
  <1> DEFINE after == CHOOSE f : f = step(f)
  <1>5. Emptied(q) = after[n]
    BY <1>1 DEF Emptied
  <1>6. g = step(g)
    <2> SUFFICES ASSUME NEW i \in 0..n PROVE g[i] = step(g)[i]
      OBVIOUS
    <2>1. i = 0 \/ i \in 1..n
      BY <1>1
    <2> HIDE DEF g, n
    <2> QED  BY <2>1, <1>3, <1>4
  <1>7. after = step(after)
    <2> HIDE DEF g
    <2>1. \E f : f = step(f)
      BY <1>6
    <2> QED  BY <2>1, Zenon
  <1> HIDE DEF after, g
  <1> DEFINE Bad == {i \in 0..n : after[i] # g[i]}
  <1>8. ASSUME Bad # {} PROVE FALSE
    <2>1. PICK i \in Bad : \A j \in Bad : i <= j
      <3>1. Bad \in SUBSET Nat
        BY <1>1
      <3> HIDE DEF Bad
      <3> QED  BY <1>8, <3>1, LeastNatural
    <2>2. i \in 0..n /\ i \in Nat /\ after[i] # g[i]
      BY <2>1, <1>1
    <2>3. after[i] = step(after)[i] /\ g[i] = step(g)[i]
      BY <1>6, <1>7
    <2>4. CASE i = 0
      BY <2>2, <2>3, <2>4
    <2>5. CASE i # 0
      <3>1. i - 1 \in 0..n /\ ~(i <= i - 1)
        BY <2>2, <2>5, <1>1
      <3>2. after[i - 1] = g[i - 1]
        BY <2>1, <3>1
      <3> QED  BY <2>2, <2>3, <2>5, <3>2
    <2> QED  BY <2>4, <2>5
  <1>9. after[n] = g[n]
    <2>1. n \in 0..n
      BY <1>1
    <2> QED  BY <1>8, <2>1
  <1>10. g[n] = [head |-> 0, tail |-> 0, leased |-> {}, next |-> q.next, object |-> q.object]
    <2>1. units(n) = {} /\ n \in 0..n /\ ~(n < n)
      BY <1>1
    <2> HIDE DEF n, units
    <2> QED  BY <2>1 DEF g
  <1>11. Emptied(q) \in Queues
    BY <1>1, <1>5, <1>9, <1>10 DEF Queues
  <1> QED  BY <1>5, <1>9, <1>10, <1>11 DEF Chained

-----------------------------------------------------------------------------
(* Types                                                                   *)

Answers == [pd : Nat, fresh : BOOLEAN, busy : BOOLEAN]
PdRecords == [idx : Nat, st : {"INIT", "ONLINE", "OFFLINE"},
              phy : {"IDLE", "SEND_CMD", "REPLY_WAIT", "WAIT"}, cmd : Nat, retry : Nat,
              wait : Nat, shared : BOOLEAN, rb : Seq(Answers)]

TypeOK ==
    /\ chan \in Topologies
    /\ pds \in Seq(PdRecords) /\ NumPd <= Len(chan)
    /\ lock \in [1..NumPd -> Nat]
    /\ cur \in 1..NumPd \cup {1} /\ left \in Nat
    /\ line \in [Channels -> Seq(Answers)]
    /\ mem \in Seq(Queues) /\ Len(mem) = NumPd
    /\ cmds \in Nat /\ late \in Nat

\* The queue of each PD is a chain of units, as its operations leave it.
QueuesChained == \A p \in 1..NumPd : \E s : Chained(mem[p], s)

TypeInv == TypeOK /\ QueuesChained

LEMMA PdFacts ==
    ASSUME TypeInv, NEW p \in 1..NumPd
    PROVE  /\ p \in DOMAIN chan /\ chan[p] \in Nat \ {0} /\ chan[p] \in Channels
           /\ NumPd \in Nat /\ p \in Pds
           /\ pds[p] \in PdRecords /\ lock[p] \in Nat
           /\ line[chan[p]] \in Seq(Answers)
           /\ mem[p] \in Queues /\ mem[p].head \in Nat
  <1>1. chan \in Seq(Nat \ {0}) /\ Len(chan) \in Nat /\ NumPd \in Nat
    BY DEF TypeInv, TypeOK, NumPd
  <1>2. p \in DOMAIN chan /\ chan[p] \in Nat \ {0} /\ p \in Pds /\ chan[p] \in Channels
    <2>1. p \in DOMAIN chan /\ chan[p] \in Nat \ {0}
      BY <1>1 DEF TypeInv, TypeOK
    <2> QED  BY <2>1 DEF Channels, Pds, Range, TypeInv, TypeOK
  <1>3. pds[p] \in PdRecords /\ mem[p] \in Queues
    BY DEF TypeInv, TypeOK, NumPd
  <1>4. mem[p].head \in Nat
    BY <1>3 DEF Queues
  <1> QED  BY <1>1, <1>2, <1>3, <1>4 DEF TypeInv, TypeOK

\* What an answer becomes, and what is left of a line.
LEMMA OutdatedAnswers ==
    ASSUME NEW s \in Seq(Answers), NEW p
    PROVE  Outdated(s, p) \in Seq(Answers)
  <1>1. ASSUME NEW a \in Answers
        PROVE  [a EXCEPT !.fresh = @ /\ a.pd # p] \in Answers
    <2> DEFINE f == a.fresh /\ a.pd # p
    <2>1. f \in BOOLEAN
      BY Zenon
    <2> HIDE DEF f
    <2>2. [a EXCEPT !.fresh = f] \in Answers
      BY <2>1 DEF Answers
    <2> QED  BY <2>2 DEF f
  <1>2. Outdated(s, p) = [i \in 1..Len(s) |-> [s[i] EXCEPT !.fresh = @ /\ s[i].pd # p]]
    BY DEF Outdated
  <1> QED  BY <1>1, <1>2

LEMMA RestOfAnswers ==
    ASSUME NEW s \in Seq(Answers), NEW k \in 0..Len(s)
    PROVE  SubSeq(s, k + 1, Len(s)) \in Seq(Answers) /\ SubSeq(s, 1, k) \in Seq(Answers)
  BY SubSeqProperties

LEMMA FlushedAnswers ==
    ASSUME TypeInv, NEW p \in 1..NumPd, NEW rest \in Flushed(chan[p])
    PROVE  rest \in Seq(Answers)
  <1>1. line[chan[p]] \in Seq(Answers)
    BY PdFacts
  <1> QED  BY <1>1, RestOfAnswers DEF Flushed

LEMMA OneQueueChanges ==
    ASSUME TypeInv, NEW p \in 1..NumPd, NEW q, NEW s, Chained(q, s),
           mem' = [mem EXCEPT ![p] = q], NumPd' = NumPd
    PROVE  mem' \in Seq(Queues) /\ Len(mem') = NumPd /\ QueuesChained'
  <1>1. q \in Queues
    BY DEF Chained
  <1>2. /\ mem' \in Seq(Queues) /\ Len(mem') = NumPd /\ mem'[p] = q
        /\ \A i \in 1..NumPd : i # p => mem'[i] = mem[i]
    BY <1>1 DEF TypeInv, TypeOK
  <1>3. QueuesChained'
    <2> SUFFICES ASSUME NEW i \in 1..NumPd PROVE \E t : Chained(mem'[i], t)
      BY DEF QueuesChained
    <2>1. CASE i = p
      BY <2>1, <1>2
    <2>2. CASE i # p
      <3>1. mem'[i] = mem[i] /\ \E t : Chained(mem[i], t)
        BY <2>2, <1>2 DEF TypeInv, QueuesChained
      <3> QED  BY <3>1
    <2> QED  BY <2>1, <2>2
  <1> QED  BY <1>2, <1>3

\* The queue of a PD that has a command is not the empty chain.
LEMMA ChainOfPd ==
    ASSUME TypeInv, NEW p \in 1..NumPd
    PROVE  \E s : Chained(mem[p], s) /\ (mem[p].head # 0 <=> s # <<>>)
  <1> PICK s : Chained(mem[p], s)
    BY DEF TypeInv, QueuesChained
  <1>1. mem[p].head # 0 <=> s # <<>>
    BY ChainFacts
  <1> QED  BY <1>1

\* A visit gives the PD a new record, and changes at most its entry of the locks.
LEMMA VisitTypes ==
    ASSUME TypeInv, NEW p \in 1..NumPd, NEW r \in PdRecords, left > 0,
           Yield(p, r) \/ Hold(p, r), chan' = chan,
           line' \in [Channels -> Seq(Answers)],
           mem' \in Seq(Queues) /\ Len(mem') = NumPd, NumPd' = NumPd => QueuesChained',
           cmds' = cmds, late' \in Nat
    PROVE  TypeInv' /\ NumPd' = NumPd
  <1>1. pds' = [pds EXCEPT ![p] = r]
    BY DEF Yield, Hold
  <1>2. pds' \in Seq(PdRecords) /\ NumPd' = NumPd
    BY <1>1 DEF NumPd, TypeInv, TypeOK
  <1>3. lock' \in [1..NumPd -> Nat]
    <2>1. PICK c \in {0, chan[p]} :
            lock' = lock \/ \E i : lock' = [lock EXCEPT ![i] = c]
      BY DEF Yield, Hold
    <2>2. chan[p] \in Nat
      BY PdFacts
    <2>3. c \in Nat
      BY <2>2
    <2> QED  BY <2>1, <2>3 DEF TypeInv, TypeOK
  <1>4. cur' \in 1..NumPd \cup {1} /\ left' \in Nat
    <2>1. pds[p].idx \in Nat /\ NumPd \in Nat /\ left \in Nat /\ cur \in 1..NumPd \cup {1}
      BY PdFacts DEF PdRecords, TypeInv, TypeOK
    <2>2. CASE GoOn(p)
      <3>1. cur' = 1 \/ (pds[p].idx + 1 < NumPd /\ cur' = pds[p].idx + 2)
        BY <2>1, <2>2 DEF GoOn, NextPd
      <3>2. left' = left - 1
        BY <2>2 DEF GoOn
      <3> QED  BY <2>1, <3>1, <3>2
    <2>3. CASE left' = 0 /\ cur' = cur
      BY <2>1, <2>3
    <2> QED  BY <2>2, <2>3 DEF Yield, Hold
  <1> QED  BY <1>2, <1>3, <1>4 DEF TypeInv, TypeOK

\* The PDs and queues added to those there are.
WithNewPds(ps, n, t) == Detected(ps \o [i \in 1..n |-> NewPd(i - 1)], t)
WithNewQueues(ms, n) == ms \o [i \in 1..n |-> EmptyQueue]

AreAddedTo(ps, n, t, new) ==
    /\ new \in Seq(PdRecords) /\ Len(new) = Len(ps) + n
    /\ \A p \in 1..Len(ps) : new[p].cmd = ps[p].cmd /\ new[p].phy = ps[p].phy
    /\ \A i \in 1..n : LET r == new[Len(ps) + i]
                       IN  r.idx = i - 1 /\ r.phy = "IDLE" /\ r.cmd = 0
    /\ \A p \in 1..Len(new) :
         new[p].shared <=> \/ p <= Len(ps) /\ ps[p].shared
                           \/ \E q \in 1..Len(new) \ {p} : t[q] = t[p]

LEMMA MorePds ==
    ASSUME NEW t, NEW ps \in Seq(PdRecords), NEW n \in Nat
    PROVE  AreAddedTo(ps, n, t, WithNewPds(ps, n, t))
  <1> DEFINE all == ps \o [i \in 1..n |-> NewPd(i - 1)]
             joined(p) == \E q \in 1..Len(all) \ {p} : t[q] = t[p]
             new == WithNewPds(ps, n, t)
  <1>1. \A i \in 1..n : NewPd(i - 1) \in PdRecords
    BY DEF NewPd, PdRecords
  <1>2. /\ all \in Seq(PdRecords) /\ Len(all) = Len(ps) + n /\ Len(ps) \in Nat
        /\ \A p \in 1..Len(ps) : all[p] = ps[p]
        /\ \A i \in 1..n : all[Len(ps) + i] = NewPd(i - 1)
    <2> DEFINE fresh == [i \in 1..n |-> NewPd(i - 1)]
    <2>1. fresh \in Seq(PdRecords) /\ Len(fresh) = n /\ \A i \in 1..n : fresh[i] = NewPd(i - 1)
      BY <1>1
    <2> HIDE DEF fresh, all
    <2>2. Len(ps) \in Nat /\ ps \o fresh \in Seq(PdRecords) /\ Len(ps \o fresh) = Len(ps) + n
      <3>1. fresh \in Seq(PdRecords) /\ Len(fresh) = n
        BY <2>1
      <3>2. Len(ps) \in Nat
        OBVIOUS
      <3>3. ps \o fresh \in Seq(PdRecords) /\ Len(ps \o fresh) = Len(ps) + Len(fresh)
        BY ONLY <3>1, ps \in Seq(PdRecords)
      <3> QED  BY <3>1, <3>2, <3>3
    <2>3. \A p \in 1..Len(ps) : (ps \o fresh)[p] = ps[p]
      BY <2>1, <2>2, ConcatProperties
    <2>4. \A i \in 1..n : (ps \o fresh)[Len(ps) + i] = fresh[i]
      BY <2>1, <2>2
    <2> QED  BY <2>1, <2>2, <2>3, <2>4 DEF fresh, all
  <1>3. new = [p \in 1..Len(all) |-> [all[p] EXCEPT !.shared = @ \/ joined(p)]]
    <2>1. new = Detected(all, t)
      BY DEF WithNewPds
    <2> HIDE DEF all, new
    <2>2. DOMAIN all = 1..Len(all)
      BY <1>2
    <2> QED  BY <2>1, <2>2 DEF Detected
  <1> HIDE DEF all, joined, new
  <1>4. ASSUME NEW p \in 1..Len(all)
        PROVE  /\ new[p] \in PdRecords /\ new[p].idx = all[p].idx /\ new[p].phy = all[p].phy
               /\ new[p].cmd = all[p].cmd
               /\ new[p].shared <=> (all[p].shared \/ joined(p))
    <2> DEFINE s == all[p].shared \/ joined(p)
    <2>1. s \in BOOLEAN /\ (s <=> (all[p].shared \/ joined(p)))
      BY Zenon
    <2>2. new[p] = [all[p] EXCEPT !.shared = s]
      BY <1>3
    <2>3. all[p] \in PdRecords
      BY <1>2
    <2> HIDE DEF s
    <2>4. /\ new[p] \in PdRecords /\ new[p].idx = all[p].idx /\ new[p].phy = all[p].phy
          /\ new[p].cmd = all[p].cmd /\ new[p].shared = s
      BY <2>1, <2>2, <2>3 DEF PdRecords
    <2> QED  BY <2>1, <2>4
  <1>5. new \in Seq(PdRecords) /\ Len(new) = Len(ps) + n
    <2>1. Len(all) \in Nat
      BY <1>2
    <2>2. new = [p \in 1..Len(all) |-> new[p]]
      BY <1>3, Zenon
    <2>3. new \in [1..Len(all) -> PdRecords]
      BY <2>2, <1>4
    <2>4. \A m \in Nat : \A f \in [1..m -> PdRecords] : f \in Seq(PdRecords) /\ Len(f) = m
      OBVIOUS
    <2>5. new \in Seq(PdRecords) /\ Len(new) = Len(all)
      BY <2>1, <2>3, <2>4
    <2> QED  BY <2>5, <1>2
  <1>6. \A p \in 1..Len(ps) : new[p].cmd = ps[p].cmd /\ new[p].phy = ps[p].phy
    <2>1. \A p \in 1..Len(ps) : p \in 1..Len(all)
      BY <1>2
    <2> QED  BY <2>1, <1>2, <1>4
  <1>7. ASSUME NEW i \in 1..n
        PROVE  /\ new[Len(ps) + i].idx = i - 1 /\ new[Len(ps) + i].phy = "IDLE"
               /\ new[Len(ps) + i].cmd = 0
    <2>1. Len(ps) + i \in 1..Len(all) /\ all[Len(ps) + i] = NewPd(i - 1)
      BY <1>2
    <2> QED  BY <2>1, <1>4 DEF NewPd
  <1>8. ASSUME NEW p \in 1..Len(new)
        PROVE  new[p].shared <=> \/ p <= Len(ps) /\ ps[p].shared
                                 \/ \E q \in 1..Len(new) \ {p} : t[q] = t[p]
    <2>1. Len(new) = Len(all) /\ p \in 1..Len(all) /\ p \in Nat
      BY <1>2, <1>5
    <2>2. CASE p <= Len(ps)
      <3>1. all[p] = ps[p]
        BY <2>1, <2>2, <1>2
      <3> QED  BY <2>1, <2>2, <3>1, <1>4 DEF joined
    <2>3. CASE ~(p <= Len(ps))
      <3>1. p - Len(ps) \in 1..n /\ Len(ps) + (p - Len(ps)) = p
        BY <2>1, <2>3, <1>2
      <3>2. all[p] = NewPd(p - Len(ps) - 1)
        BY <3>1, <1>2
      <3>3. all[p].shared = FALSE
        BY <3>2 DEF NewPd
      <3> QED  BY <2>1, <2>3, <3>3, <1>4 DEF joined
    <2> QED  BY <2>2, <2>3
  <1> QED  BY <1>5, <1>6, <1>7, <1>8 DEF new, AreAddedTo

LEMMA NewQueues ==
    ASSUME NEW ms \in Seq(Queues), NEW n \in Nat
    PROVE  LET new == WithNewQueues(ms, n) IN
           /\ new \in Seq(Queues) /\ Len(new) = Len(ms) + n
           /\ \A p \in 1..Len(ms) : new[p] = ms[p]
           /\ \A p \in Len(ms) + 1..Len(ms) + n : new[p] = EmptyQueue
  <1>1. EmptyQueue \in Queues
    BY EmptyChain DEF Chained
  <1>2. [i \in 1..n |-> EmptyQueue] \in Seq(Queues)
    BY <1>1
  <1> QED  BY <1>2 DEF WithNewQueues

-----------------------------------------------------------------------------
(* Types are kept, action by action                                        *)

LEMMA TypeInit == Init => TypeInv
  <1> SUFFICES ASSUME Init PROVE TypeInv
    OBVIOUS
  <1> PICK t \in Topologies, n \in AtSetup :
        /\ n <= Len(t)
        /\ chan = t
        /\ pds = Detected([i \in 1..n |-> NewPd(i - 1)], t)
        /\ mem = [i \in 1..n |-> EmptyQueue]
        /\ lock = [i \in 1..n |-> 0]
    BY DEF Init
  <1>1. n \in Nat /\ t \in Seq(Nat \ {0})
    OBVIOUS
  <1>2. pds \in Seq(PdRecords) /\ NumPd = n
    <2>1. <<>> \in Seq(PdRecords) /\ Len(<<>>) = 0
      OBVIOUS
    <2>2. <<>> \o [i \in 1..n |-> NewPd(i - 1)] = [i \in 1..n |-> NewPd(i - 1)]
      BY <1>1
    <2>3. pds = WithNewPds(<<>>, n, t)
      BY <2>2 DEF WithNewPds
    <2>4. AreAddedTo(<<>>, n, t, pds)
      BY <1>1, <2>1, <2>3, MorePds
    <2> QED  BY <1>1, <2>1, <2>4 DEF NumPd, AreAddedTo
  <1>3. mem \in Seq(Queues) /\ Len(mem) = n /\ \A p \in 1..n : mem[p] = EmptyQueue
    BY <1>1, EmptyChain DEF Chained
  <1>4. line \in [Channels -> Seq(Answers)]
    BY DEF Init
  <1> QED  BY <1>1, <1>2, <1>3, <1>4, EmptyChain DEF Init, TypeInv, TypeOK, QueuesChained

LEMMA AddPdTypes ==
    ASSUME TypeInv, AddPd
    PROVE  /\ TypeInv' /\ NumPd' = Len(chan) /\ NumPd < Len(chan)
           /\ \A p \in 1..NumPd :
                pds'[p].cmd = pds[p].cmd /\ pds'[p].phy = pds[p].phy /\ mem'[p] = mem[p]
           /\ \A p \in NumPd + 1..NumPd' : pds'[p].cmd = 0 /\ mem'[p] = EmptyQueue
  <1> DEFINE n == Len(chan) - NumPd
  <1>1. /\ chan \in Seq(Nat \ {0}) /\ chan' = chan /\ NumPd \in Nat /\ Len(chan) \in Nat
        /\ n \in Nat /\ NumPd < Len(chan) /\ NumPd + n = Len(chan)
    BY DEF AddPd, AddPds, TypeInv, TypeOK, NumPd
  <1>2. /\ pds' = WithNewPds(pds, n, chan)
        /\ mem' = WithNewQueues(mem, n)
        /\ lock' = [i \in 1..(NumPd + n) |-> 0]
        /\ cur' = 1 /\ UNCHANGED <<left, line, cmds, late>>
    BY DEF AddPd, AddPds, WithNewPds, WithNewQueues
  <1> HIDE DEF n
  <1>3. /\ pds' \in Seq(PdRecords) /\ Len(pds') = NumPd + n
        /\ \A p \in 1..NumPd : pds'[p].cmd = pds[p].cmd /\ pds'[p].phy = pds[p].phy
        /\ \A i \in 1..n : pds'[NumPd + i].cmd = 0
    <2>1. pds \in Seq(PdRecords)
      BY DEF TypeInv, TypeOK
    <2>2. AreAddedTo(pds, n, chan, pds')
      BY <1>1, <1>2, <2>1, MorePds
    <2> QED  BY <2>2 DEF NumPd, AreAddedTo
  <1>4. \A p \in NumPd + 1..NumPd + n : pds'[p].cmd = 0
    <2> SUFFICES ASSUME NEW p \in NumPd + 1..NumPd + n PROVE pds'[p].cmd = 0
      OBVIOUS
    <2>1. p - NumPd \in 1..n /\ NumPd + (p - NumPd) = p
      BY <1>1
    <2> QED  BY <2>1, <1>3
  <1>5. /\ mem' \in Seq(Queues) /\ Len(mem') = NumPd + n
        /\ \A p \in 1..NumPd : mem'[p] = mem[p]
        /\ \A p \in NumPd + 1..NumPd + n : mem'[p] = EmptyQueue
    <2>1. mem \in Seq(Queues) /\ Len(mem) = NumPd
      BY DEF TypeInv, TypeOK
    <2>2. /\ mem' \in Seq(Queues) /\ Len(mem') = Len(mem) + n
          /\ \A p \in 1..Len(mem) : mem'[p] = mem[p]
          /\ \A p \in Len(mem) + 1..Len(mem) + n : mem'[p] = EmptyQueue
      BY ONLY <1>1, <1>2, <2>1, NewQueues
    <2> QED  BY <2>1, <2>2
  <1>6. NumPd' = NumPd + n /\ NumPd' = Len(chan)
    BY <1>1, <1>3 DEF NumPd
  <1>7. QueuesChained'
    <2> SUFFICES ASSUME NEW p \in 1..NumPd + n PROVE \E s : Chained(mem'[p], s)
      BY <1>6 DEF QueuesChained
    <2>1. CASE p \in 1..NumPd
      BY <2>1, <1>5 DEF TypeInv, QueuesChained
    <2>2. CASE p \in NumPd + 1..NumPd + n
      BY <2>2, <1>5, EmptyChain
    <2> QED  BY <2>1, <2>2, <1>1
  <1>8. TypeOK'
    BY <1>1, <1>2, <1>3, <1>5, <1>6 DEF TypeInv, TypeOK
  <1> QED  BY <1>1, <1>3, <1>4, <1>5, <1>6, <1>7, <1>8 DEF TypeInv

LEMMA BeginRoundTypes ==
    ASSUME TypeInv, BeginRound
    PROVE  /\ TypeInv' /\ NumPd' = NumPd
           /\ \A p \in 1..NumPd : \E w \in Nat : pds'[p] = [pds[p] EXCEPT !.wait = w]
  <1>1. ASSUME NEW p \in 1..NumPd
        PROVE  \E w \in Nat : pds'[p] = [pds[p] EXCEPT !.wait = w]
    <2>1. pds[p] \in PdRecords
      BY PdFacts
    <2>2. ASSUME NEW w \in Nat PROVE Max({w - 1, 0}) \in Nat
      <3>1. \E x \in {w - 1, 0} : \A y \in {w - 1, 0} : x >= y
        BY SMT
      <3>2. Max({w - 1, 0}) \in {w - 1, 0} /\ Max({w - 1, 0}) >= 0
        BY <3>1 DEF Max
      <3> QED  BY <3>2
    <2>3. Max({pds[p].wait - 1, 0}) \in Nat
      BY <2>1, <2>2 DEF PdRecords
    <2> QED  BY <2>3 DEF BeginRound
  <1>2. ASSUME NEW p \in 1..NumPd PROVE pds'[p] \in PdRecords
    <2>1. pds[p] \in PdRecords
      BY PdFacts
    <2> QED  BY <1>1, <2>1 DEF PdRecords
  <1>3. pds' \in Seq(PdRecords) /\ NumPd' = NumPd
    <2>1. NumPd \in Nat /\ DOMAIN pds' = 1..NumPd /\ pds' = [p \in 1..NumPd |-> pds'[p]]
      BY DEF BeginRound, NumPd, TypeInv, TypeOK
    <2>2. pds' \in [1..NumPd -> PdRecords]
      BY <1>2, <2>1
    <2>3. pds' \in Seq(PdRecords) /\ Len(pds') = NumPd
      BY <2>1, <2>2
    <2> QED  BY <2>3 DEF NumPd
  <1>4. TypeInv'
    BY <1>3 DEF BeginRound, TypeInv, TypeOK, QueuesChained
  <1> QED  BY <1>1, <1>3, <1>4

\* One more command: to the end of the queue, or refused when it is full.
LEMMA SubmitTypes ==
    ASSUME TypeInv, NEW p \in 1..NumPd, Submit(p)
    PROVE  TypeInv'
  <1>1. /\ UNCHANGED <<chan, pds, lock, cur, left, line, late>> /\ cmds \in Nat
        /\ cmds' = cmds + 1
    BY DEF Submit, TypeInv, TypeOK
  <1>2. mem' \in Seq(Queues) /\ Len(mem') = NumPd /\ QueuesChained'
    <2>1. CASE mem[p].leased = Units
      <3>1. mem' = mem
        BY <2>1 DEF Submit
      <3> QED  BY <3>1, <1>1 DEF TypeInv, TypeOK, QueuesChained, NumPd
    <2>2. CASE mem[p].leased # Units
      <3>1. PICK s : Chained(mem[p], s)
        BY ChainOfPd
      <3>2. Chained(Enqueue(mem[p], cmds'), Append(s, SlabAlloc(mem[p])))
        <4>1. cmds' \in Nat
          BY <1>1
        <4> QED  BY <2>2, <3>1, <4>1, EnqueueChain
      <3>3. mem' = [mem EXCEPT ![p] = Enqueue(mem[p], cmds')]
        BY <2>2, <1>1 DEF Submit
      <3> QED  BY <3>2, <3>3, <1>1, OneQueueChanges DEF NumPd
    <2> QED  BY <2>1, <2>2
  <1> QED  BY <1>1, <1>2 DEF TypeInv, TypeOK, NumPd

LEMMA FlushTypes ==
    ASSUME TypeInv, NEW p \in 1..NumPd, FlushCommands(p)
    PROVE  TypeInv'
  <1>1. UNCHANGED <<chan, pds, lock, cur, left, line, cmds, late>>
    BY DEF FlushCommands
  <1>2. PICK s : Chained(mem[p], s)
    BY ChainOfPd
  <1>3. Chained(Emptied(mem[p]), <<>>) /\ mem' = [mem EXCEPT ![p] = Emptied(mem[p])]
    BY <1>2, EmptiedChain DEF FlushCommands
  <1>4. mem' \in Seq(Queues) /\ Len(mem') = NumPd /\ QueuesChained'
    BY <1>1, <1>3, OneQueueChanges DEF NumPd
  <1> QED  BY <1>1, <1>4 DEF TypeInv, TypeOK, NumPd

\* What the end of a command leaves in the PD's record.
LEMMA OutcomeRecords ==
    ASSUME NEW r \in PdRecords, NEW w \in 1..Rounds
    PROVE  /\ Failed(r, w) \in PdRecords /\ RetryLater(r, w) \in PdRecords
           /\ Done(r, w) \in PdRecords
  <1>1. w \in Nat
    OBVIOUS
  <1> QED  BY <1>1 DEF PdRecords, Failed, RetryLater, Done

LEMMA VisitKeepsTypes ==
    ASSUME TypeInv, NEW p \in 1..NumPd, Visit(p)
    PROVE  TypeInv' /\ NumPd' = NumPd
  <1> DEFINE pd == pds[p]
             Unmoved == mem' = mem /\ cmds' = cmds
  <1>1. pd \in PdRecords /\ chan[p] \in Channels /\ line[chan[p]] \in Seq(Answers) /\ p \in Nat
    BY PdFacts
  <1>2. /\ line \in [Channels -> Seq(Answers)] /\ late \in Nat /\ late + 1 \in Nat
        /\ mem \in Seq(Queues) /\ Len(mem) = NumPd
    BY DEF TypeInv, TypeOK
  <1>3. mem' = mem /\ chan' = chan =>
          mem' \in Seq(Queues) /\ Len(mem') = NumPd /\ (NumPd' = NumPd => QueuesChained')
    BY DEF TypeInv, TypeOK, QueuesChained
  <1>4. CASE Refused(p)
    <2>1. cur' \in 1..NumPd \cup {1} /\ left' \in Nat
      <3>1. pd.idx \in Nat /\ NumPd \in Nat /\ left \in Nat
        BY <1>1, PdFacts DEF PdRecords, TypeInv, TypeOK
      <3>2. cur' = (IF pd.idx + 1 >= NumPd THEN 1 ELSE pd.idx + 2) /\ left' = left - 1 /\ left > 0
        BY <1>4 DEF Refused, GoOn, NextPd
      <3> DEFINE i == pd.idx
      <3> HIDE DEF i, pd
      <3>3. i \in Nat /\ cur' = (IF i + 1 >= NumPd THEN 1 ELSE i + 2)
        BY <3>1, <3>2 DEF i
      <3>4. CASE i + 1 >= NumPd
        BY <3>1, <3>2, <3>3, <3>4
      <3>5. CASE i + 1 < NumPd
        <4>1. cur' = i + 2 /\ i + 2 <= NumPd /\ i + 2 >= 1
          BY <3>1, <3>3, <3>5
        <4> QED  BY <3>1, <3>2, <3>3, <4>1
      <3> QED  BY <3>1, <3>3, <3>4, <3>5
    <2> QED  BY <1>4, <2>1 DEF Refused, TypeInv, TypeOK, QueuesChained, NumPd
  <1>5. CASE KickSetup(p)
    <2>1. [pd EXCEPT !.phy = "SEND_CMD"] \in PdRecords
      BY <1>1 DEF PdRecords
    <2> QED  BY <1>2, <1>3, <1>5, <2>1, VisitTypes DEF KickSetup, Turn
  <1>6. CASE KickCommand(p)
    <2>0. PICK phy \in {"SEND_CMD", "IDLE"} :
            Yield(p, [pd EXCEPT !.phy = phy, !.cmd = mem[p].object[mem[p].head]])
      BY <1>6 DEF KickCommand
    <2> DEFINE r == [pd EXCEPT !.phy = phy, !.cmd = mem[p].object[mem[p].head]]
    <2>1. PICK s : Chained(mem[p], s) /\ s # <<>>
      BY <1>6, ChainOfPd DEF KickCommand
    <2>2. Chained(Dequeue(mem[p]), Tail(s))
      BY <2>1, DequeueChain
    <2>3. mem[p].head \in Units /\ mem[p].object \in [Units -> Nat]
      BY <2>1, ChainFacts DEF Chained, Queues
    <2>4. r \in PdRecords
      BY <1>1, <2>3 DEF PdRecords
    <2>5. mem' = [mem EXCEPT ![p] = Dequeue(mem[p])] /\ Yield(p, r)
      BY <2>0, <1>6 DEF KickCommand
    <2>6. NumPd' = NumPd
      BY <2>5 DEF Yield, NumPd, TypeInv, TypeOK
    <2>7. mem' \in Seq(Queues) /\ Len(mem') = NumPd /\ QueuesChained'
      BY <2>2, <2>5, <2>6, OneQueueChanges
    <2> HIDE DEF r
    <2> QED  BY <1>2, <1>6, <2>4, <2>5, <2>7, VisitTypes DEF KickCommand, Turn
  <1>7. CASE KickPoll(p)
    <2>1. [pd EXCEPT !.phy = "SEND_CMD"] \in PdRecords
      BY <1>1 DEF PdRecords
    <2> QED  BY <1>1, <1>2, <1>3, <1>7, <2>1, VisitTypes DEF KickPoll, Turn
  <1>8. CASE Offline(p)
    <2>1. [pd EXCEPT !.st = "INIT", !.retry = 0] \in PdRecords
      BY <1>1 DEF PdRecords
    <2>2. line' \in [Channels -> Seq(Answers)]
      BY <1>1, <1>2, <1>8, FlushedAnswers DEF Offline
    <2> QED  BY <1>1, <1>2, <1>3, <1>8, <2>1, <2>2, VisitTypes DEF Offline, Turn
  <1>9. CASE Send(p)
    <2>1. PICK rest \in Flushed(chan[p]), kind \in {"reply", "busy", "none"} :
            LET answer == IF kind = "none" THEN <<>>
                          ELSE <<[pd |-> p, fresh |-> TRUE, busy |-> (kind = "busy")]>>
            IN  line' = [line EXCEPT ![chan[p]] = Outdated(rest, p) \o answer]
      BY <1>9 DEF Send
    <2>2. Outdated(rest, p) \in Seq(Answers)
      BY FlushedAnswers, OutdatedAnswers
    <2>3. [pd |-> p, fresh |-> TRUE, busy |-> (kind = "busy")] \in Answers
      BY <1>1 DEF Answers
    <2>4. line' \in [Channels -> Seq(Answers)]
      <3> DEFINE a == [pd |-> p, fresh |-> TRUE, busy |-> (kind = "busy")]
                 l == Outdated(rest, p) \o (IF kind = "none" THEN <<>> ELSE <<a>>)
      <3>1. line' = [line EXCEPT ![chan[p]] = l]
        BY <2>1
      <3> HIDE DEF a
      <3>2. /\ Outdated(rest, p) \o <<>> \in Seq(Answers)
            /\ Outdated(rest, p) \o <<a>> \in Seq(Answers)
        BY <2>2, <2>3 DEF a
      <3>3. l \in Seq(Answers)
        BY <3>2
      <3> HIDE DEF l
      <3> QED  BY <1>2, <3>1, <3>3
    <2>5. PICK w \in 1..Rounds :
            Hold(p, [pd EXCEPT !.phy = "REPLY_WAIT", !.wait = w, !.rb = Outdated(@, p)])
      BY <1>9 DEF Send
    <2>6. Outdated(pd.rb, p) \in Seq(Answers)
      BY <1>1, OutdatedAnswers DEF PdRecords
    <2>7. [pd EXCEPT !.phy = "REPLY_WAIT", !.wait = w, !.rb = Outdated(@, p)] \in PdRecords
      <3>1. ASSUME NEW x \in Seq(Answers), NEW n \in Nat
            PROVE  [pd EXCEPT !.phy = "REPLY_WAIT", !.wait = n, !.rb = x] \in PdRecords
        BY <1>1 DEF PdRecords
      <3>2. w \in Nat
        OBVIOUS
      <3> QED  BY <2>6, <3>1, <3>2, Zenon
    <2> QED  BY <1>2, <1>3, <1>9, <2>4, <2>5, <2>7, VisitTypes DEF Send, Turn
  <1>10. CASE Waiting(p)
    BY <1>1, <1>2, <1>3, <1>10, VisitTypes DEF Waiting, Turn
  <1>11. CASE Receive(p)
    <2>1. PICK k \in 0..Len(line[chan[p]]), w \in 1..Rounds :
            LET answers == pd.rb \o SubSeq(line[chan[p]], 1, k)
            IN  /\ answers # <<>>
                /\ line' = [line EXCEPT ![chan[p]] = SubSeq(@, k + 1, Len(@))]
                /\ \E r \in Outcomes(p, Head(answers), [pd EXCEPT !.rb = Tail(answers)], w) :
                     Yield(p, r)
      BY <1>11 DEF Receive
    <2> DEFINE answers == pd.rb \o SubSeq(line[chan[p]], 1, k)
               rest == [pd EXCEPT !.rb = Tail(answers)]
    <2>2. answers \in Seq(Answers) /\ answers # <<>>
      <3>1. SubSeq(line[chan[p]], 1, k) \in Seq(Answers) /\ pd.rb \in Seq(Answers)
        BY <1>1, <2>1, RestOfAnswers DEF PdRecords
      <3> QED  BY <2>1, <3>1
    <2>3. Tail(answers) \in Seq(Answers)
      <3> HIDE DEF answers
      <3> QED  BY <2>2
    <2>4. rest \in PdRecords
      <3> HIDE DEF answers
      <3> QED  BY <1>1, <2>3 DEF PdRecords
    <2>5. line' \in [Channels -> Seq(Answers)]
      BY <1>1, <1>2, <2>1, RestOfAnswers
    <2>6. PICK r \in Outcomes(p, Head(answers), rest, w) : Yield(p, r)
      BY <2>1
    <2> HIDE DEF answers, rest
    <2>7. r \in PdRecords
      BY <2>4, <2>6, OutcomeRecords DEF Outcomes
    <2> QED  BY <1>2, <1>3, <1>11, <2>5, <2>6, <2>7, VisitTypes DEF Receive, Turn
  <1>12. CASE NoAnswerYet(p)
    BY <1>1, <1>2, <1>3, <1>12, VisitTypes DEF NoAnswerYet, Turn
  <1>13. CASE Timeout(p)
    <2>1. PICK w \in 1..Rounds :
            Yield(p, IF pd.retry < MaxRetries
                     THEN [RetryLater(pd, w) EXCEPT !.retry = @ + 1] ELSE Failed(pd, w))
      BY <1>13 DEF Timeout
    <2>2. RetryLater(pd, w) \in PdRecords /\ Failed(pd, w) \in PdRecords
      BY <1>1, OutcomeRecords
    <2>3. [RetryLater(pd, w) EXCEPT !.retry = @ + 1] \in PdRecords
      <3>1. PICK r : r = RetryLater(pd, w)
        OBVIOUS
      <3>2. r.retry + 1 \in Nat
        BY <2>2, <3>1 DEF PdRecords
      <3>3. ASSUME NEW n \in Nat PROVE [r EXCEPT !.retry = n] \in PdRecords
        BY <2>2, <3>1 DEF PdRecords
      <3>4. [r EXCEPT !.retry = @ + 1] \in PdRecords
        BY <3>2, <3>3
      <3> QED  BY <3>1, <3>4
    <2>4. late' \in Nat
      BY <1>2, <1>13 DEF Timeout
    <2> QED  BY <1>2, <1>3, <1>13, <2>1, <2>2, <2>3, <2>4, VisitTypes DEF Timeout, Turn
  <1> QED  BY <1>4, <1>5, <1>6, <1>7, <1>8, <1>9, <1>10, <1>11, <1>12, <1>13 DEF Visit

\* The panel's records, locks, lines and queues keep their types: above all, every queue
\* is a chain of the units that are leased, however commands are submitted, sent and flushed.
THEOREM BusTypeCorrect == Spec => []TypeInv
  <1>1. TypeInv /\ [Next]_vars => TypeInv'
    <2> SUFFICES ASSUME TypeInv, [Next]_vars PROVE TypeInv'
      OBVIOUS
    <2>1. CASE AddPd
      BY <2>1, AddPdTypes
    <2>2. CASE BeginRound
      BY <2>2, BeginRoundTypes
    <2>3. ASSUME NEW p \in 1..NumPd, Visit(p) PROVE TypeInv'
      BY <2>3, VisitKeepsTypes
    <2>4. ASSUME NEW p \in 1..NumPd, Submit(p) \/ FlushCommands(p) PROVE TypeInv'
      BY <2>4, SubmitTypes, FlushTypes
    <2>5. CASE UNCHANGED vars
      BY <2>5 DEF vars, TypeInv, TypeOK, QueuesChained, NumPd
    <2> QED  BY <2>1, <2>2, <2>3, <2>4, <2>5 DEF Next, Refresh
  <1> QED  BY TypeInit, <1>1, PTL DEF Spec

-----------------------------------------------------------------------------
(* Turns on a channel                                                      *)

\* The PDs are given all at set-up or all afterwards: osdp_cp_add_pd on a context that has
\* PDs numbers the new ones from 0 again.
AllAtOnce == \A t \in Topologies, n \in AtSetup : n <= Len(t) => n \in {0, Len(t)}

\* A PD has the entry of its own number, and knows whether its channel is shared.
Numbered ==
    /\ NumPd \in {0, Len(chan)}
    /\ \A p \in 1..NumPd :
        /\ pds[p].idx = p - 1
        /\ pds[p].shared <=> \E q \in 1..NumPd \ {p} : chan[q] = chan[p]

\* An entry holds the channel of its PD or nothing, one entry at most holds a channel, and
\* a PD that waits on a shared channel holds it.
Exclusive ==
    /\ \A p \in 1..NumPd : lock[p] \in {0, chan[p]}
    /\ \A p, q \in 1..NumPd : p # q /\ lock[p] = lock[q] => lock[p] = 0
    /\ \A p \in 1..NumPd : pds[p].phy = "REPLY_WAIT" /\ pds[p].shared => lock[p] = chan[p]

BusInv == TypeInv /\ Numbered /\ Exclusive

LEMMA OwnSlot ==
    ASSUME BusInv, NEW p \in 1..NumPd
    PROVE  Slot(p) = p
  BY PdFacts DEF BusInv, Numbered, Slot

\* The record of a PD changes, and that of no other.
LEMMA OnePdChanges ==
    ASSUME BusInv, NEW p \in 1..NumPd, NEW r \in PdRecords, pds' = [pds EXCEPT ![p] = r],
           chan' = chan, r.idx = pds[p].idx, r.shared = pds[p].shared
    PROVE  /\ NumPd' = NumPd /\ pds'[p] = r
           /\ \A q \in 1..NumPd \ {p} : pds'[q] = pds[q]
           /\ Numbered'
  <1>1. /\ NumPd' = NumPd /\ pds'[p] = r
        /\ \A q \in 1..NumPd \ {p} : pds'[q] = pds[q]
    BY DEF BusInv, TypeInv, TypeOK, NumPd
  <1>2. \A q \in 1..NumPd : pds'[q].idx = pds[q].idx /\ pds'[q].shared = pds[q].shared
    BY <1>1
  <1>3. Numbered'
    <2>1. ASSUME NEW q \in 1..NumPd
          PROVE  /\ pds'[q].idx = q - 1
                 /\ pds'[q].shared <=> \E u \in 1..NumPd \ {q} : chan[u] = chan[q]
      BY <1>2 DEF BusInv, Numbered
    <2> QED  BY <1>1, <2>1 DEF BusInv, Numbered
  <1> QED  BY <1>1, <1>3

\* Which channels are held changes for one PD at most.
LEMMA OneLockChanges ==
    ASSUME BusInv, NEW p \in 1..NumPd, NEW r \in PdRecords, NumPd' = NumPd, chan' = chan,
           NEW c \in {0, chan[p]}, lock' = [lock EXCEPT ![p] = c], pds'[p] = r,
           \A q \in 1..NumPd \ {p} : pds'[q] = pds[q],
           r.phy = "REPLY_WAIT" /\ r.shared => c = chan[p],
           c # 0 => \A q \in 1..NumPd \ {p} : lock[q] # c
    PROVE  Exclusive'
  <1>1. lock'[p] = c /\ \A q \in 1..NumPd \ {p} : lock'[q] = lock[q]
    BY DEF BusInv, TypeInv, TypeOK
  <1>3. \A q \in 1..NumPd : lock'[q] \in {0, chan[q]}
    BY <1>1 DEF BusInv, Exclusive
  <1>4. \A q, u \in 1..NumPd : q # u /\ lock'[q] = lock'[u] => lock'[q] = 0
    BY <1>1 DEF BusInv, Exclusive
  <1>5. \A q \in 1..NumPd : pds'[q].phy = "REPLY_WAIT" /\ pds'[q].shared => lock'[q] = chan[q]
    BY <1>1 DEF BusInv, Exclusive
  <1> QED  BY <1>3, <1>4, <1>5 DEF Exclusive

\* A PD that need not wait for an answer leaves its channel.
LEMMA Yielding ==
    ASSUME BusInv, NEW p \in 1..NumPd, NEW r \in PdRecords, Yield(p, r), chan' = chan,
           r.idx = pds[p].idx, r.shared = pds[p].shared, r.phy # "REPLY_WAIT"
    PROVE  Numbered' /\ Exclusive'
  <1>1. /\ NumPd' = NumPd /\ pds'[p] = r
        /\ \A q \in 1..NumPd \ {p} : pds'[q] = pds[q]
        /\ Numbered'
    BY OnePdChanges DEF Yield
  <1>2. lock' = [lock EXCEPT ![p] = IF r.shared THEN 0 ELSE lock[p]]
    BY OwnSlot DEF Yield, BusInv, TypeInv, TypeOK
  <1>3. Exclusive'
    <2> DEFINE c == IF r.shared THEN 0 ELSE lock[p]
    <2>1. c \in {0, chan[p]} /\ (c # 0 => \A q \in 1..NumPd \ {p} : lock[q] # c)
      BY DEF BusInv, Exclusive
    <2> QED  BY <1>1, <1>2, <2>1, OneLockChanges
  <1> QED  BY <1>1, <1>3

\* A PD that waits for an answer has obtained its channel, if others are on it.
LEMMA Holding ==
    ASSUME BusInv, NEW p \in 1..NumPd, NEW r \in PdRecords, Turn(p), Hold(p, r), chan' = chan,
           r.idx = pds[p].idx, r.shared = pds[p].shared
    PROVE  Numbered' /\ Exclusive'
  <1>1. /\ NumPd' = NumPd /\ pds'[p] = r
        /\ \A q \in 1..NumPd \ {p} : pds'[q] = pds[q]
        /\ Numbered'
    BY OnePdChanges DEF Hold
  <1>2. lock' = [lock EXCEPT ![p] = IF r.shared THEN chan[p] ELSE lock[p]]
    BY OwnSlot DEF Hold, BusInv, TypeInv, TypeOK
  <1>3. r.shared => \A q \in 1..NumPd \ {p} : lock[q] # chan[p]
    <2> SUFFICES ASSUME r.shared, NEW q \in 1..NumPd \ {p} PROVE lock[q] # chan[p]
      OBVIOUS
    <2>1. lock[p] = chan[p] \/ chan[p] \notin Range(lock)
      BY OwnSlot DEF Turn, MayAcquire
    <2>2. lock[q] \in Range(lock)
      BY DEF Range, BusInv, TypeInv, TypeOK
    <2>3. chan[p] # 0
      BY PdFacts DEF BusInv
    <2> QED  BY <2>1, <2>2, <2>3 DEF BusInv, Exclusive
  <1>4. Exclusive'
    <2> DEFINE c == IF r.shared THEN chan[p] ELSE lock[p]
    <2>1. /\ c \in {0, chan[p]}
          /\ c # 0 => \A q \in 1..NumPd \ {p} : lock[q] # c
          /\ r.phy = "REPLY_WAIT" /\ r.shared => c = chan[p]
      BY <1>3 DEF BusInv, Exclusive
    <2> QED  BY <1>1, <1>2, <2>1, OneLockChanges
  <1> QED  BY <1>1, <1>4

AreFirst(n, t, new) ==
    /\ Len(new) = n
    /\ \A p \in 1..n : new[p].idx = p - 1 /\ new[p].phy = "IDLE"
    /\ \A p \in 1..n : new[p].shared <=> \E q \in 1..n \ {p} : t[q] = t[p]

LEMMA FirstPds ==
    ASSUME NEW t, NEW n \in Nat, NEW new, AreAddedTo(<<>>, n, t, new)
    PROVE  AreFirst(n, t, new)
  <1>1. Len(<<>>) = 0
    OBVIOUS
  <1>2. /\ Len(new) = n
        /\ \A i \in 1..n : new[0 + i].idx = i - 1 /\ new[0 + i].phy = "IDLE"
    BY <1>1 DEF AreAddedTo
  <1>3. \A p \in 1..n : ~(p <= 0) /\ 0 + p = p
    OBVIOUS
  <1>4. ASSUME NEW p \in 1..n
        PROVE  new[p].shared <=> \E q \in 1..n \ {p} : t[q] = t[p]
    <2>1. new[p].shared <=> \/ p <= Len(<<>>) /\ <<>>[p].shared
                            \/ \E q \in 1..n \ {p} : t[q] = t[p]
      BY <1>2, Zenon DEF AreAddedTo
    <2>2. ~(p <= Len(<<>>))
      BY <1>1, <1>3
    <2> QED  BY <2>1, <2>2, Zenon
  <1>5. \A p \in 1..n : new[p].idx = p - 1 /\ new[p].phy = "IDLE"
    BY <1>2, <1>3
  <1> QED  BY <1>2, <1>4, <1>5 DEF AreFirst

LEMMA BusInit ==
    ASSUME AllAtOnce, Init
    PROVE  BusInv
  <1> PICK t \in Topologies, n \in AtSetup :
        /\ n <= Len(t)
        /\ chan = t
        /\ pds = Detected([i \in 1..n |-> NewPd(i - 1)], t)
        /\ mem = [i \in 1..n |-> EmptyQueue]
        /\ lock = [i \in 1..n |-> 0]
    BY DEF Init
  <1>1. n \in Nat /\ n \in {0, Len(t)} /\ TypeInv
    BY TypeInit DEF AllAtOnce
  <1>2. AreAddedTo(<<>>, n, t, pds)
    <2>1. <<>> \in Seq(PdRecords)
      OBVIOUS
    <2>2. <<>> \o [i \in 1..n |-> NewPd(i - 1)] = [i \in 1..n |-> NewPd(i - 1)]
      BY <1>1
    <2>3. pds = WithNewPds(<<>>, n, t)
      BY <2>2 DEF WithNewPds
    <2> QED  BY <1>1, <2>1, <2>3, MorePds
  <1>3. /\ NumPd = n
        /\ \A p \in 1..n : pds[p].idx = p - 1 /\ pds[p].phy = "IDLE"
        /\ \A p \in 1..n : pds[p].shared <=> \E q \in 1..n \ {p} : t[q] = t[p]
    <2>1. n \in Nat
      BY <1>1
    <2>2. AreFirst(n, t, pds)
      BY <1>2, <2>1, FirstPds
    <2> QED  BY <2>2 DEF NumPd, AreFirst
  <1> QED  BY <1>1, <1>3 DEF BusInv, Numbered, Exclusive

LEMMA AddPdKeeps ==
    ASSUME BusInv, AddPd
    PROVE  BusInv'
  <1> DEFINE n == Len(chan) - NumPd
  <1>1. TypeInv' /\ NumPd' = Len(chan) /\ NumPd < Len(chan)
    BY AddPdTypes DEF BusInv
  <1>2. NumPd = 0 /\ pds = <<>> /\ Len(chan) \in Nat
    <2>1. Len(chan) \in Nat /\ pds \in Seq(PdRecords) /\ NumPd \in {0, Len(chan)}
      BY DEF BusInv, Numbered, TypeInv, TypeOK
    <2>2. Len(pds) = 0
      BY <1>1, <2>1 DEF NumPd
    <2> QED  BY <2>1, <2>2, EmptySeq DEF NumPd
  <1>3. chan' = chan /\ lock' = [i \in 1..Len(chan) |-> 0] /\ pds' = WithNewPds(pds, n, chan)
    BY <1>2 DEF AddPd, AddPds, WithNewPds
  <1>4. AreAddedTo(pds, n, chan, pds')
    <2>1. pds \in Seq(PdRecords) /\ n \in Nat
      BY <1>2 DEF BusInv, TypeInv, TypeOK
    <2> HIDE DEF n
    <2> QED  BY <2>1, <1>3, MorePds
  <1>5. /\ \A p \in 1..Len(chan) : pds'[p].idx = p - 1 /\ pds'[p].phy = "IDLE"
        /\ \A p \in 1..Len(chan) :
             pds'[p].shared <=> \E q \in 1..Len(chan) \ {p} : chan[q] = chan[p]
    <2>1. n = Len(chan) /\ n \in Nat
      BY <1>2
    <2>2. AreAddedTo(<<>>, Len(chan), chan, pds')
      BY <1>2, <1>4, <2>1
    <2>3. Len(chan) \in Nat
      BY <1>2
    <2>4. AreFirst(Len(chan), chan, pds')
      BY <2>2, <2>3, FirstPds
    <2> QED  BY <2>4 DEF AreFirst
  <1> QED  BY <1>1, <1>3, <1>5 DEF BusInv, Numbered, Exclusive

\* Counting down the timeouts touches nothing else.
LEMMA BeginRoundKeeps ==
    ASSUME BusInv, BeginRound
    PROVE  BusInv'
  <1>1. /\ TypeInv' /\ NumPd' = NumPd
        /\ \A p \in 1..NumPd : \E w \in Nat : pds'[p] = [pds[p] EXCEPT !.wait = w]
    BY BeginRoundTypes DEF BusInv
  <1>2. \A p \in 1..NumPd : /\ pds'[p].idx = pds[p].idx /\ pds'[p].shared = pds[p].shared
                            /\ pds'[p].phy = pds[p].phy
    BY <1>1, PdFacts DEF PdRecords, BusInv
  <1>3. chan' = chan /\ lock' = lock
    BY DEF BeginRound
  <1>4. Numbered'
    BY <1>1, <1>2, <1>3 DEF BusInv, Numbered
  <1>5. Exclusive'
    BY <1>1, <1>2, <1>3 DEF BusInv, Exclusive
  <1> QED  BY <1>1, <1>4, <1>5 DEF BusInv

LEMMA VisitKeeps ==
    ASSUME BusInv, NEW p \in 1..NumPd, Visit(p)
    PROVE  BusInv'
  <1> DEFINE pd == pds[p]
  <1>1. pd \in PdRecords
    BY PdFacts DEF BusInv
  <1>2. TypeInv' /\ NumPd' = NumPd /\ pds'[p] \in PdRecords
    <2>1. TypeInv' /\ NumPd' = NumPd
      BY VisitKeepsTypes DEF BusInv
    <2> QED  BY <2>1 DEF TypeInv, TypeOK, NumPd
  <1>3. ASSUME NEW r, Yield(p, r) \/ Hold(p, r) PROVE r \in PdRecords
    BY <1>2, <1>3 DEF Yield, Hold, BusInv, TypeInv, TypeOK, NumPd
  <1>4. CASE Refused(p)
    BY <1>2, <1>4 DEF Refused, BusInv, Numbered, Exclusive, NumPd
  <1>5. CASE KickSetup(p)
    BY <1>1, <1>2, <1>3, <1>5, Yielding DEF KickSetup, PdRecords, BusInv
  <1>6. CASE KickCommand(p)
    <2>1. PICK phy \in {"SEND_CMD", "IDLE"} :
            Yield(p, [pd EXCEPT !.phy = phy, !.cmd = mem[p].object[mem[p].head]])
      BY <1>6 DEF KickCommand
    <2> QED  BY <1>1, <1>2, <1>3, <1>6, <2>1, Yielding DEF KickCommand, PdRecords, BusInv
  <1>7. CASE KickPoll(p)
    BY <1>1, <1>2, <1>3, <1>7, Yielding DEF KickPoll, PdRecords, BusInv
  <1>8. CASE Offline(p)
    BY <1>1, <1>2, <1>3, <1>8, Yielding DEF Offline, PdRecords, BusInv
  <1>9. CASE Send(p)
    <2>1. PICK w \in 1..Rounds :
            Hold(p, [pd EXCEPT !.phy = "REPLY_WAIT", !.wait = w, !.rb = Outdated(@, p)])
      BY <1>9 DEF Send
    <2>2. PICK x : x = Outdated(pd.rb, p)
      OBVIOUS
    <2>3. Hold(p, [pd EXCEPT !.phy = "REPLY_WAIT", !.wait = w, !.rb = x])
      BY <2>1, <2>2
    <2>4. LET r == [pd EXCEPT !.phy = "REPLY_WAIT", !.wait = w, !.rb = x]
          IN  r.idx = pd.idx /\ r.shared = pd.shared
      BY <1>1 DEF PdRecords
    <2> QED  BY <1>2, <1>3, <1>9, <2>3, <2>4, Holding DEF Send, BusInv
  <1>10. CASE Waiting(p)
    BY <1>1, <1>2, <1>10, Yielding DEF Waiting, PdRecords, BusInv
  <1>11. CASE Receive(p)
    <2> DEFINE answers(k) == pd.rb \o SubSeq(line[chan[p]], 1, k)
    <2>1. PICK k \in 0..Len(line[chan[p]]), w \in 1..Rounds :
            \E r \in Outcomes(p, Head(answers(k)), [pd EXCEPT !.rb = Tail(answers(k))], w) :
               Yield(p, r)
      BY <1>11 DEF Receive
    <2> HIDE DEF answers
    <2> DEFINE rest == [pd EXCEPT !.rb = Tail(answers(k))]
    <2>2. PICK r \in Outcomes(p, Head(answers(k)), rest, w) : Yield(p, r)
      BY <2>1
    <2>3. /\ rest.idx = pd.idx /\ rest.shared = pd.shared
          /\ {"idx", "shared", "phy"} \subseteq DOMAIN rest
      BY <1>1 DEF PdRecords
    <2> HIDE DEF rest
    <2>4. r \in {Failed(rest, w), RetryLater(rest, w), Done(rest, w)}
      BY <2>2 DEF Outcomes
    <2>5. r.idx = rest.idx /\ r.shared = rest.shared /\ r.phy \in {"IDLE", "WAIT"}
      BY <2>3, <2>4 DEF Failed, RetryLater, Done
    <2> QED  BY <1>2, <1>3, <1>11, <2>2, <2>3, <2>5, Yielding DEF Receive, BusInv
  <1>12. CASE NoAnswerYet(p)
    BY <1>1, <1>2, <1>12, Holding DEF NoAnswerYet, PdRecords, BusInv
  <1>13. CASE Timeout(p)
    BY <1>1, <1>2, <1>3, <1>13, Yielding DEF Timeout, PdRecords, BusInv, RetryLater, Failed
  <1> QED  BY <1>4, <1>5, <1>6, <1>7, <1>8, <1>9, <1>10, <1>11, <1>12, <1>13 DEF Visit

LEMMA BusInvInductive ==
    ASSUME BusInv, [Next]_vars
    PROVE  BusInv'
  <1>1. CASE AddPd
    BY <1>1, AddPdKeeps
  <1>2. CASE BeginRound
    BY <1>2, BeginRoundKeeps
  <1>3. ASSUME NEW p \in 1..NumPd, Visit(p) PROVE BusInv'
    BY <1>3, VisitKeeps
  <1>4. ASSUME NEW p \in 1..NumPd, Submit(p) \/ FlushCommands(p) PROVE BusInv'
    <2>1. TypeInv'
      BY <1>4, SubmitTypes, FlushTypes DEF BusInv
    <2>2. chan' = chan /\ pds' = pds /\ lock' = lock
      BY <1>4 DEF Submit, FlushCommands
    <2> QED  BY <2>1, <2>2 DEF BusInv, Numbered, Exclusive, NumPd
  <1>5. CASE UNCHANGED vars
    BY <1>5 DEF vars, BusInv, TypeInv, TypeOK, QueuesChained, Numbered, Exclusive, NumPd
  <1> QED  BY <1>1, <1>2, <1>3, <1>4, <1>5 DEF Next, Refresh

\* At most one PD of a channel is waited for at a time, for any channels and PDs, as long as
\* the PDs are given to the panel at once: the locks of cp_channel_acquire exclude.
THEOREM OneWaits == ASSUME AllAtOnce PROVE Spec => []OneOnTheLine
  <1>1. Init => BusInv
    BY BusInit
  <1>2. BusInv /\ [Next]_vars => BusInv'
    BY BusInvInductive
  <1>3. BusInv => OneOnTheLine
    <2> SUFFICES ASSUME BusInv PROVE OneOnTheLine
      OBVIOUS
    <2>1. ASSUME NEW p \in 1..NumPd, NEW q \in 1..NumPd, p # q, chan[p] = chan[q]
          PROVE  "REPLY_WAIT" \notin {pds[p].phy} \cap {pds[q].phy}
      <3>1. pds[p].shared /\ pds[q].shared /\ chan[p] # 0
        BY <2>1, PdFacts DEF BusInv, Numbered
      <3> QED  BY <2>1, <3>1 DEF BusInv, Exclusive
    <2>2. \A p \in 1..NumPd : lock[Slot(p)] \in {0, chan[p]}
      BY OwnSlot DEF BusInv, Exclusive
    <2> QED  BY <2>1, <2>2 DEF OneOnTheLine
  <1> QED  BY <1>1, <1>2, <1>3, PTL DEF Spec

-----------------------------------------------------------------------------
(* Whose answer it is                                                      *)

LEMMA FirstAnswer ==
    ASSUME NEW a \in Seq(Answers), NEW l \in Seq(Answers), NEW k \in 0..Len(l),
           a \o SubSeq(l, 1, k) # <<>>
    PROVE  Head(a \o SubSeq(l, 1, k)) = Head(a \o l)
  <1> DEFINE s == SubSeq(l, 1, k)
  <1>1. /\ s \in Seq(Answers) /\ Len(s) = k /\ Len(l) \in Nat /\ Len(a) \in Nat
        /\ \A i \in 1..k : s[i] = l[i]
    BY RestOfAnswers
  <1> HIDE DEF s
  <1>2. CASE Len(a) > 0
    <2>1. (a \o s)[1] = a[1] /\ (a \o l)[1] = a[1]
      BY <1>1, <1>2
    <2> QED  BY <2>1 DEF s
  <1>3. CASE Len(a) = 0
    <2>1. a = <<>>
      BY <1>3, EmptySeq
    <2>2. a \o s = s /\ a \o l = l
      BY <1>1, <2>1
    <2>3. k >= 1 /\ s[1] = l[1]
      BY <1>1, <2>2, EmptySeq DEF s
    <2> QED  BY <2>2, <2>3 DEF s
  <1> QED  BY <1>1, <1>2, <1>3

LEMMA OwnAnswerOfVisit ==
    ASSUME TypeInv, NEW q \in 1..NumPd, Visit(q), NEW p \in 1..NumPd,
           pds[p].phy = "REPLY_WAIT", pds'[p].phy = "IDLE", pds'[p].st # "OFFLINE"
    PROVE  Head(pds[p].rb \o line[chan[p]]).pd = p
  <1> DEFINE pd == pds[p]
  <1>1. pd \in PdRecords /\ line[chan[p]] \in Seq(Answers) /\ pd.rb \in Seq(Answers)
    BY PdFacts DEF PdRecords
  <1>2. ASSUME NEW r, Yield(q, r) \/ Hold(q, r)
        PROVE  p = q /\ pds'[p] = r
    <2>1. pds' = [pds EXCEPT ![q] = r] /\ p \in DOMAIN pds
      BY <1>2 DEF Yield, Hold, TypeInv, TypeOK, NumPd
    <2>2. CASE p = q
      BY <2>1, <2>2
    <2>3. CASE p # q
      BY <2>1, <2>3
    <2> QED  BY <2>2, <2>3
  <1>3. CASE Refused(q)
    BY <1>3 DEF Refused
  <1>4. CASE KickSetup(q) \/ KickCommand(q) \/ KickPoll(q) \/ Offline(q) \/ Waiting(q)
    <2>1. \E r : Yield(q, r)
      BY <1>4 DEF KickSetup, KickCommand, KickPoll, Offline, Waiting
    <2> QED  BY <1>2, <1>4, <2>1 DEF KickSetup, KickCommand, KickPoll, Offline, Waiting
  <1>5. CASE Send(q)
    <2>1. PICK w \in 1..Rounds :
            Hold(q, [pds[q] EXCEPT !.phy = "REPLY_WAIT", !.wait = w, !.rb = Outdated(@, q)])
      BY <1>5 DEF Send
    <2>2. PICK r : r = [pds[q] EXCEPT !.phy = "REPLY_WAIT", !.wait = w, !.rb = Outdated(@, q)]
      OBVIOUS
    <2>3. p = q /\ pds'[p] = r
      BY <1>2, <2>1, <2>2
    <2>4. r.phy = "REPLY_WAIT"
      BY <1>1, <2>2, <2>3 DEF PdRecords
    <2> QED  BY <2>3, <2>4
  <1>6. CASE Receive(q)
    <2> DEFINE answers(k) == pd.rb \o SubSeq(line[chan[p]], 1, k)
    <2>1. p = q
      BY <1>2, <1>6 DEF Receive
    <2>2. PICK k \in 0..Len(line[chan[p]]), w \in 1..Rounds :
            /\ answers(k) # <<>>
            /\ \E r \in Outcomes(p, Head(answers(k)), [pd EXCEPT !.rb = Tail(answers(k))], w) :
                 Yield(p, r)
      BY <1>6, <2>1 DEF Receive
    <2>3. Head(answers(k)) = Head(pd.rb \o line[chan[p]])
      BY <1>1, <2>2, FirstAnswer
    <2> HIDE DEF answers
    <2> DEFINE rest == [pd EXCEPT !.rb = Tail(answers(k))]
    <2>4. {"st", "phy"} \subseteq DOMAIN rest
      BY <1>1 DEF PdRecords
    <2>5. PICK r \in Outcomes(p, Head(answers(k)), rest, w) : Yield(p, r)
      BY <2>2
    <2>6. pds'[p] = r
      BY <1>2, <2>1, <2>5
    <2> HIDE DEF rest
    <2>7. r # Failed(rest, w) /\ r # RetryLater(rest, w)
      BY <2>4, <2>6 DEF Failed, RetryLater
    <2> QED  BY <2>3, <2>5, <2>7 DEF Outcomes
  <1>7. CASE NoAnswerYet(q)
    <2>1. p = q /\ pds'[p] = pds[p]
      BY <1>2, <1>7 DEF NoAnswerYet
    <2> QED  BY <2>1
  <1>8. CASE Timeout(q)
    <2>1. PICK w \in 1..Rounds :
            Yield(q, IF pds[q].retry < MaxRetries
                     THEN [RetryLater(pds[q], w) EXCEPT !.retry = @ + 1] ELSE Failed(pds[q], w))
      BY <1>8 DEF Timeout
    <2>2. /\ p = q
          /\ pds'[p] \in {[RetryLater(pd, w) EXCEPT !.retry = @ + 1], Failed(pd, w)}
      BY <1>2, <2>1
    <2>3. pds'[p].phy = "WAIT" \/ pds'[p].st = "OFFLINE"
      BY <1>1, <2>2 DEF RetryLater, Failed, PdRecords
    <2> QED  BY <2>3
  <1> QED  BY <1>3, <1>4, <1>5, <1>6, <1>7, <1>8 DEF Visit

\* A command of a PD only ever succeeds with an answer that this PD sent, whichever late
\* answers of other PDs stand on the channel: the address is compared (phy_check_packet).
THEOREM AnswerOfOwnPd == Spec => OwnAnswers
  <1> DEFINE Own == \A p \in 1..NumPd :
               pds[p].phy = "REPLY_WAIT" /\ pds'[p].phy = "IDLE" /\ pds'[p].st # "OFFLINE" =>
                  Head(pds[p].rb \o line[chan[p]]).pd = p
  <1>1. TypeInv /\ [Next]_vars => [Own]_vars
    <2> SUFFICES ASSUME TypeInv, [Next]_vars PROVE Own \/ UNCHANGED vars
      OBVIOUS
    <2>1. CASE AddPd
      BY <2>1, AddPdTypes
    <2>2. CASE BeginRound
      <3>1. \A p \in 1..NumPd : \E w \in Nat : pds'[p] = [pds[p] EXCEPT !.wait = w]
        BY <2>2, BeginRoundTypes
      <3>2. \A p \in 1..NumPd : pds'[p].phy = pds[p].phy
        BY <3>1, PdFacts DEF PdRecords
      <3> QED  BY <3>2
    <2>3. ASSUME NEW p \in 1..NumPd, Visit(p) PROVE Own
      BY <2>3, OwnAnswerOfVisit
    <2>4. ASSUME NEW p \in 1..NumPd, Submit(p) \/ FlushCommands(p) PROVE Own
      BY <2>4 DEF Submit, FlushCommands
    <2> QED  BY <2>1, <2>2, <2>3, <2>4 DEF Next, Refresh
  <1> HIDE DEF Own
  <1>2. [][Own]_vars => OwnAnswers
    BY DEF Own, OwnAnswers
  <1> QED  BY BusTypeCorrect, <1>1, <1>2, PTL DEF Spec

-----------------------------------------------------------------------------
(* Slab and list are a queue                                               *)

\* What the mapping of QueueImplemented makes of the state.
pendingBar == [p \in Pds |-> IF p <= NumPd THEN Pending(mem[p]) ELSE <<>>]
currentBar == [p \in Pds |-> IF p <= NumPd THEN pds[p].cmd ELSE 0]
freeBar ==
    [p \in Pds |-> IF p <= NumPd THEN PoolSize - Cardinality(mem[p].leased) ELSE PoolSize]

FifoUnmoved == UNCHANGED <<pendingBar, currentBar, freeBar>>

LEMMA PdsAreNaturals == \A p \in Pds : p \in Nat \ {0}
  BY DEF Pds

LEMMA EmptyPending == Pending(EmptyQueue) = <<>> /\ Cardinality(EmptyQueue.leased) = 0
  <1>1. Pending(EmptyQueue) = [i \in 1..Len(<<>>) |-> EmptyQueue.object[<<>>[i]]]
    BY EmptyChain, PendingChain DEF Commands
  <1>2. Pending(EmptyQueue) = <<>>
    BY <1>1
  <1>3. EmptyQueue.leased = {}
    BY DEF EmptyQueue
  <1> QED  BY <1>2, <1>3, FS_EmptySet

LEMMA SeqIsFunction == \A a \in Seq(Nat) : a = [i \in 1..Len(a) |-> a[i]]
  OBVIOUS

\* Nothing of a queue moves in a step that leaves slabs, lists and commands alone.
LEMMA NothingMoves ==
    ASSUME TypeInv, chan' = chan, NumPd' = NumPd, mem' = mem,
           \A p \in 1..NumPd : pds'[p].cmd = pds[p].cmd
    PROVE  FifoUnmoved
  <1>1. \A p \in Pds : p <= NumPd => p \in 1..NumPd
    BY PdsAreNaturals DEF TypeInv, TypeOK, NumPd
  <1> QED  BY <1>1 DEF FifoUnmoved, pendingBar, currentBar, freeBar

\* The queue of one PD moves.
LEMMA OneQueueMoves ==
    ASSUME TypeInv, NEW p \in 1..NumPd, NEW q, mem' = [mem EXCEPT ![p] = q], NumPd' = NumPd
    PROVE  /\ pendingBar' = [pendingBar EXCEPT ![p] = Pending(q)]
           /\ freeBar' = [freeBar EXCEPT ![p] = PoolSize - Cardinality(q.leased)]
           /\ p \in Pds /\ pendingBar[p] = Pending(mem[p])
           /\ freeBar[p] = PoolSize - Cardinality(mem[p].leased)
  <1>1. p \in Pds /\ p <= NumPd /\ NumPd \in Nat
    BY PdFacts
  <1>2. \A i \in Pds : i <= NumPd => i \in 1..NumPd
    BY <1>1, PdsAreNaturals
  <1>3. mem'[p] = q /\ \A i \in 1..NumPd : i # p => mem'[i] = mem[i]
    BY DEF TypeInv, TypeOK
  <1>4. ASSUME NEW i \in Pds
        PROVE  /\ i # p /\ i <= NumPd => mem'[i] = mem[i]
               /\ i = p => i <= NumPd /\ mem'[i] = q
    BY <1>1, <1>2, <1>3
  <1>5. pendingBar' = [pendingBar EXCEPT ![p] = Pending(q)]
    <2>1. pendingBar' = [i \in Pds |-> IF i <= NumPd THEN Pending(mem'[i]) ELSE <<>>]
      BY DEF pendingBar
    <2> QED  BY <1>4, <2>1 DEF pendingBar
  <1>6. freeBar' = [freeBar EXCEPT ![p] = PoolSize - Cardinality(q.leased)]
    <2>1. freeBar' = [i \in Pds |-> IF i <= NumPd THEN PoolSize - Cardinality(mem'[i].leased)
                                    ELSE PoolSize]
      BY DEF freeBar
    <2> QED  BY <1>4, <2>1 DEF freeBar
  <1>7. pendingBar[p] = Pending(mem[p]) /\ freeBar[p] = PoolSize - Cardinality(mem[p].leased)
    BY <1>1 DEF pendingBar, freeBar
  <1> QED  BY <1>1, <1>5, <1>6, <1>7

LEMMA NoCommandMoves ==
    ASSUME TypeInv, NumPd' = NumPd, \A p \in 1..NumPd : pds'[p].cmd = pds[p].cmd
    PROVE  currentBar' = currentBar
  <1>1. \A p \in Pds : p <= NumPd => p \in 1..NumPd
    BY PdsAreNaturals DEF TypeInv, TypeOK, NumPd
  <1> QED  BY <1>1 DEF currentBar

\* The three operations, on the commands a queue holds.
LEMMA PendingEnqueued ==
    ASSUME NEW q, NEW s, Chained(q, s), NEW c \in Nat, q.leased # Units
    PROVE  /\ Pending(Enqueue(q, c)) = Append(Pending(q), c)
           /\ Cardinality(Enqueue(q, c).leased) = Cardinality(q.leased) + 1
           /\ Cardinality(q.leased) < PoolSize /\ Cardinality(q.leased) \in Nat
  <1> DEFINE u == SlabAlloc(q)
             e == Enqueue(q, c)
             t == Append(s, u)
             o == q.object
  <1>1. /\ u \in Units \ q.leased /\ Chained(e, t) /\ e.leased = q.leased \cup {u}
        /\ e.object = [o EXCEPT ![u] = c]
    BY EnqueueChain
  <1>2. /\ Len(s) \in Nat /\ s \in Seq(Units) /\ o \in [Units -> Nat]
        /\ \A i \in 1..Len(s) : s[i] \in Units /\ s[i] # u
    <2>1. \A i \in 1..Len(s) : s[i] \in Units /\ s[i] \in q.leased
      BY ChainFacts
    <2>2. q \in Queues /\ s \in Seq(Units)
      BY DEF Chained
    <2>3. o \in [Units -> Nat]
      BY <2>2 DEF Queues
    <2> QED  BY <1>1, <2>1, <2>2, <2>3
  <1> HIDE DEF u, e, o
  <1>3. /\ Pending(q) = [i \in 1..Len(s) |-> o[s[i]]]
        /\ Pending(e) = [i \in 1..Len(t) |-> e.object[t[i]]]
    <2> HIDE DEF t
    <2>1. Pending(e) = Commands(e, t)
      BY <1>1, PendingChain
    <2>2. Pending(q) = [i \in 1..Len(s) |-> o[s[i]]]
      BY PendingChain DEF o, Commands
    <2> QED  BY <2>1, <2>2 DEF Commands
  <1>4. /\ Len(t) = Len(s) + 1 /\ t[Len(s) + 1] = u
        /\ \A i \in 1..Len(s) : t[i] = s[i]
    BY <1>1, <1>2
  <1> HIDE DEF t
  <1>5. Pending(e) = Append(Pending(q), c)
    <2> DEFINE a == [i \in 1..Len(s) |-> o[s[i]]]
    <2>1. a \in Seq(Nat) /\ Len(a) = Len(s)
      BY <1>2
    <2>2. /\ Append(a, c) \in Seq(Nat) /\ Len(Append(a, c)) = Len(s) + 1
          /\ Append(a, c)[Len(s) + 1] = c
          /\ \A i \in 1..Len(s) : Append(a, c)[i] = o[s[i]]
      BY <1>2, <2>1
    <2>3. /\ e.object[t[Len(s) + 1]] = c
          /\ \A i \in 1..Len(s) : e.object[t[i]] = o[s[i]]
      BY <1>1, <1>2, <1>4
    <2>4. \A i \in 1..Len(s) + 1 : i \in 1..Len(s) \/ i = Len(s) + 1
      BY <1>2
    <2> DEFINE b == Append(a, c)
    <2> HIDE DEF a, b
    <2>5. b = [i \in 1..Len(s) + 1 |-> b[i]]
      <3>1. b \in Seq(Nat) /\ Len(b) = Len(s) + 1
        BY <2>2 DEF b
      <3> QED  BY <3>1, SeqIsFunction
    <2>6. \A i \in 1..Len(s) + 1 : b[i] = e.object[t[i]]
      BY <2>2, <2>3, <2>4 DEF b
    <2> QED  BY <1>3, <1>4, <2>5, <2>6 DEF a, b
  <1>6. Cardinality(e.leased) = Cardinality(q.leased) + 1
    <2>1. IsFiniteSet(q.leased)
      BY ChainLength
    <2> QED  BY <1>1, <2>1, FS_AddElement
  <1>7. Cardinality(q.leased) < PoolSize /\ Cardinality(q.leased) \in Nat
    BY <1>2, ChainLength
  <1> QED  BY <1>5, <1>6, <1>7 DEF e

LEMMA PendingDequeued ==
    ASSUME NEW q, NEW s, Chained(q, s), s # <<>>
    PROVE  /\ Pending(q) # <<>> /\ Pending(Dequeue(q)) = Tail(Pending(q))
           /\ q.object[q.head] = Head(Pending(q))
           /\ Cardinality(Dequeue(q).leased) = Cardinality(q.leased) - 1
           /\ Cardinality(q.leased) \in Nat
  <1> DEFINE d == Dequeue(q)
             t == Tail(s)
             o == q.object
  <1>1. /\ Chained(d, t) /\ d.leased = q.leased \ {s[1]} /\ s[1] \in q.leased /\ d.object = o
    BY DequeueChain
  <1>2. /\ Len(s) \in Nat \ {0} /\ s \in Seq(Units) /\ o \in [Units -> Nat] /\ q.head = s[1]
        /\ \A i \in 1..Len(s) : s[i] \in Units
    BY ChainFacts DEF Chained, Queues
  <1> HIDE DEF d, o
  <1>3. Pending(q) = [i \in 1..Len(s) |-> o[s[i]]] /\ Pending(d) = [i \in 1..Len(t) |-> o[t[i]]]
    <2> HIDE DEF t
    <2>1. Pending(d) = [i \in 1..Len(t) |-> d.object[t[i]]]
      BY <1>1, PendingChain DEF Commands
    <2>2. Pending(q) = [i \in 1..Len(s) |-> o[s[i]]]
      BY PendingChain DEF o, Commands
    <2> QED  BY <1>1, <2>1, <2>2
  <1>4. Len(t) = Len(s) - 1 /\ \A i \in 1..Len(s) - 1 : t[i] = s[i + 1]
    BY <1>2
  <1> HIDE DEF t
  <1> DEFINE a == [i \in 1..Len(s) |-> o[s[i]]]
  <1>5. a \in Seq(Nat) /\ Len(a) = Len(s) /\ a # <<>> /\ Head(a) = o[s[1]]
    BY <1>2
  <1>6. Tail(a) = [i \in 1..Len(s) - 1 |-> o[s[i + 1]]]
    <2> HIDE DEF a
    <2>1. /\ Tail(a) \in Seq(Nat) /\ Len(Tail(a)) = Len(s) - 1
          /\ \A i \in 1..Len(s) - 1 : Tail(a)[i] = a[i + 1]
      BY <1>2, <1>5
    <2>2. Tail(a) = [i \in 1..Len(s) - 1 |-> Tail(a)[i]]
      BY <2>1, SeqIsFunction
    <2>3. \A i \in 1..Len(s) - 1 : a[i + 1] = o[s[i + 1]]
      BY <1>2 DEF a
    <2> QED  BY <2>1, <2>2, <2>3
  <1>7. Pending(d) = Tail(a)
    BY <1>3, <1>4, <1>6
  <1>8. Cardinality(d.leased) = Cardinality(q.leased) - 1 /\ Cardinality(q.leased) \in Nat
    <2>1. IsFiniteSet(q.leased) /\ Cardinality(q.leased) = Len(s)
      BY ChainLength
    <2>2. Cardinality(q.leased \ {s[1]}) = Cardinality(q.leased) - 1
      BY <1>1, <2>1, FS_RemoveElement
    <2> QED  BY <1>1, <1>2, <2>1, <2>2
  <1> QED  BY <1>2, <1>3, <1>5, <1>7, <1>8 DEF d, o

LEMMA VisitCommands ==
    ASSUME TypeInv, NEW p \in 1..NumPd, Visit(p), ~KickCommand(p)
    PROVE  \A q \in 1..NumPd : pds'[q].cmd = pds[q].cmd
  <1> DEFINE pd == pds[p]
  <1>1. pd \in PdRecords
    BY PdFacts
  <1>2. ASSUME NEW r, Yield(p, r) \/ Hold(p, r), r.cmd = pd.cmd
        PROVE  \A q \in 1..NumPd : pds'[q].cmd = pds[q].cmd
    <2>1. pds' = [pds EXCEPT ![p] = r]
      BY <1>2 DEF Yield, Hold
    <2>2. \A q \in 1..NumPd : IF q = p THEN pds'[q] = r ELSE pds'[q] = pds[q]
      BY <2>1 DEF TypeInv, TypeOK, NumPd
    <2> QED  BY <1>2, <2>2
  <1>3. CASE Refused(p)
    BY <1>3 DEF Refused
  <1>4. CASE KickSetup(p)
    BY <1>1, <1>2, <1>4 DEF KickSetup, PdRecords
  <1>5. CASE KickPoll(p)
    BY <1>1, <1>2, <1>5 DEF KickPoll, PdRecords
  <1>6. CASE Offline(p)
    BY <1>1, <1>2, <1>6 DEF Offline, PdRecords
  <1>7. CASE Send(p)
    <2>1. PICK w \in 1..Rounds :
            Hold(p, [pd EXCEPT !.phy = "REPLY_WAIT", !.wait = w, !.rb = Outdated(@, p)])
      BY <1>7 DEF Send
    <2>2. [pd EXCEPT !.phy = "REPLY_WAIT", !.wait = w, !.rb = Outdated(@, p)].cmd = pd.cmd
      BY <1>1 DEF PdRecords
    <2> QED  BY <1>2, <2>1, <2>2
  <1>8. CASE Waiting(p) \/ NoAnswerYet(p)
    BY <1>2, <1>8 DEF Waiting, NoAnswerYet
  <1>9. CASE Receive(p)
    <2> DEFINE answers(k) == pd.rb \o SubSeq(line[chan[p]], 1, k)
    <2>1. PICK k \in 0..Len(line[chan[p]]), w \in 1..Rounds :
            \E r \in Outcomes(p, Head(answers(k)), [pd EXCEPT !.rb = Tail(answers(k))], w) :
               Yield(p, r)
      BY <1>9 DEF Receive
    <2> HIDE DEF answers
    <2> DEFINE rest == [pd EXCEPT !.rb = Tail(answers(k))]
    <2>2. PICK r \in Outcomes(p, Head(answers(k)), rest, w) : Yield(p, r)
      BY <2>1
    <2>3. rest.cmd = pd.cmd /\ "cmd" \in DOMAIN rest
      BY <1>1 DEF PdRecords
    <2> HIDE DEF rest
    <2>4. r \in {Failed(rest, w), RetryLater(rest, w), Done(rest, w)}
      BY <2>2 DEF Outcomes
    <2>5. r.cmd = rest.cmd
      BY <2>3, <2>4 DEF Failed, RetryLater, Done
    <2> QED  BY <1>2, <2>2, <2>3, <2>5
  <1>10. CASE Timeout(p)
    BY <1>1, <1>2, <1>10 DEF Timeout, PdRecords, RetryLater, Failed
  <1> QED  BY <1>3, <1>4, <1>5, <1>6, <1>7, <1>8, <1>9, <1>10 DEF Visit

LEMMA FifoInit == Init => Fifo!Init
  <1> SUFFICES ASSUME Init PROVE Fifo!Init
    OBVIOUS
  <1> PICK t \in Topologies, n \in AtSetup :
        /\ n <= Len(t)
        /\ chan = t
        /\ pds = Detected([i \in 1..n |-> NewPd(i - 1)], t)
        /\ mem = [i \in 1..n |-> EmptyQueue]
        /\ lock = [i \in 1..n |-> 0]
    BY DEF Init
  <1>1. n \in Nat
    OBVIOUS
  <1>2. NumPd = n /\ \A p \in 1..n : pds[p].cmd = 0
    <2>1. pds = [i \in 1..n |-> pds[i]] /\ Len(pds) = n
      BY <1>1 DEF Detected
    <2>2. \A i \in 1..n : pds[i].cmd = 0
      BY <1>1 DEF Detected, NewPd
    <2> QED  BY <2>1, <2>2 DEF NumPd
  <1>3. \A p \in Pds : p <= NumPd => p \in 1..n
    BY <1>1, <1>2, PdsAreNaturals
  <1>4. \A p \in Pds : pendingBar[p] = <<>> /\ currentBar[p] = 0 /\ freeBar[p] = PoolSize
    BY <1>2, <1>3, EmptyPending DEF pendingBar, currentBar, freeBar
  <1>5. /\ pendingBar = [p \in Pds |-> <<>>] /\ currentBar = [p \in Pds |-> 0]
        /\ freeBar = [p \in Pds |-> PoolSize]
    BY <1>4 DEF pendingBar, currentBar, freeBar
  <1> QED  BY <1>5 DEF Fifo!Init, pendingBar, currentBar, freeBar

LEMMA SubmitIsFifo ==
    ASSUME TypeInv, NEW p \in 1..NumPd, Submit(p)
    PROVE  Fifo!Next \/ FifoUnmoved
  <1>1. /\ UNCHANGED <<chan, pds>> /\ NumPd' = NumPd /\ cmds \in Nat /\ cmds' = cmds + 1
        /\ cmds < MaxCmds[chan] /\ chan \in Topologies
    BY DEF Submit, NumPd, TypeInv, TypeOK
  <1>2. CASE mem[p].leased = Units
    <2>1. mem' = mem
      BY <1>2 DEF Submit
    <2> QED  BY <1>1, <2>1, NothingMoves
  <1>3. CASE mem[p].leased # Units
    <2> DEFINE q == Enqueue(mem[p], cmds')
    <2>1. PICK s : Chained(mem[p], s)
      BY ChainOfPd
    <2>2. cmds' \in Nat /\ cmds' \in UNION {1..MaxCmds[t] : t \in Topologies}
      <3>1. MaxCmds[chan] \in Nat /\ cmds' \in 1..MaxCmds[chan]
        BY <1>1
      <3> QED  BY <1>1, <3>1
    <2>3. /\ Pending(q) = Append(Pending(mem[p]), cmds')
          /\ Cardinality(q.leased) = Cardinality(mem[p].leased) + 1
          /\ Cardinality(mem[p].leased) < PoolSize /\ Cardinality(mem[p].leased) \in Nat
      BY <1>3, <2>1, <2>2, PendingEnqueued
    <2>4. mem' = [mem EXCEPT ![p] = q]
      BY <1>1, <1>3 DEF Submit
    <2> HIDE DEF q
    <2>5. /\ pendingBar' = [pendingBar EXCEPT ![p] = Pending(q)]
          /\ freeBar' = [freeBar EXCEPT ![p] = PoolSize - Cardinality(q.leased)]
          /\ p \in Pds /\ pendingBar[p] = Pending(mem[p])
          /\ freeBar[p] = PoolSize - Cardinality(mem[p].leased)
      BY <1>1, <2>4, OneQueueMoves
    <2>6. /\ freeBar[p] > 0
          /\ pendingBar' = [pendingBar EXCEPT ![p] = Append(@, cmds')]
          /\ freeBar' = [freeBar EXCEPT ![p] = @ - 1]
      <3>1. PoolSize - Cardinality(q.leased) = freeBar[p] - 1 /\ freeBar[p] > 0
        BY <2>3, <2>5
      <3>2. Pending(q) = Append(pendingBar[p], cmds')
        BY <2>3, <2>5
      <3> QED  BY <2>5, <3>1, <3>2
    <2>7. currentBar' = currentBar
      BY <1>1, NoCommandMoves
    <2>8. PICK c \in UNION {1..MaxCmds[t] : t \in Topologies} : c = cmds'
      BY <2>2
    <2>9. Fifo!Submit(p, c)
      BY <2>6, <2>7, <2>8 DEF Fifo!Submit, pendingBar, freeBar, currentBar
    <2> QED  BY <2>5, <2>9 DEF Fifo!Next
  <1> QED  BY <1>2, <1>3

LEMMA FlushIsFifo ==
    ASSUME TypeInv, NEW p \in 1..NumPd, FlushCommands(p)
    PROVE  Fifo!Next
  <1> DEFINE q == Emptied(mem[p])
  <1>1. UNCHANGED <<chan, pds>> /\ NumPd' = NumPd /\ mem' = [mem EXCEPT ![p] = q]
    BY DEF FlushCommands, NumPd
  <1>2. PICK s : Chained(mem[p], s)
    BY ChainOfPd
  <1>3. q.leased = {} /\ Chained(q, <<>>)
    BY <1>2, EmptiedChain
  <1> HIDE DEF q
  <1>4. Pending(q) = <<>> /\ Cardinality(q.leased) = 0
    <2>1. Pending(q) = Commands(q, <<>>)
      BY <1>3, PendingChain
    <2>2. Commands(q, <<>>) = <<>>
      BY DEF Commands
    <2> QED  BY <1>3, <2>1, <2>2, FS_EmptySet
  <1>5. /\ pendingBar' = [pendingBar EXCEPT ![p] = <<>>]
        /\ freeBar' = [freeBar EXCEPT ![p] = PoolSize] /\ p \in Pds
    <2>1. /\ pendingBar' = [pendingBar EXCEPT ![p] = Pending(q)]
          /\ freeBar' = [freeBar EXCEPT ![p] = PoolSize - Cardinality(q.leased)] /\ p \in Pds
      BY <1>1, OneQueueMoves
    <2>2. PoolSize - Cardinality(q.leased) = PoolSize
      BY <1>4
    <2> QED  BY <1>4, <2>1, <2>2
  <1>6. currentBar' = currentBar
    BY <1>1, NoCommandMoves
  <1>7. Fifo!Flush(p)
    BY <1>5, <1>6 DEF Fifo!Flush, pendingBar, freeBar, currentBar
  <1> QED  BY <1>5, <1>7 DEF Fifo!Next

LEMMA KickIsFifo ==
    ASSUME TypeInv, NEW p \in 1..NumPd, KickCommand(p)
    PROVE  Fifo!Next
  <1>0. PICK phy \in {"SEND_CMD", "IDLE"} :
          Yield(p, [pds[p] EXCEPT !.phy = phy, !.cmd = mem[p].object[mem[p].head]])
    BY DEF KickCommand
  <1> DEFINE q == Dequeue(mem[p])
             c == mem[p].object[mem[p].head]
             r == [pds[p] EXCEPT !.phy = phy, !.cmd = c]
  <1>1. /\ mem' = [mem EXCEPT ![p] = q] /\ pds' = [pds EXCEPT ![p] = r]
    BY <1>0 DEF KickCommand, Yield
  <1>2. PICK s : Chained(mem[p], s) /\ s # <<>>
    BY ChainOfPd DEF KickCommand
  <1>3. /\ Pending(mem[p]) # <<>> /\ Pending(q) = Tail(Pending(mem[p]))
        /\ c = Head(Pending(mem[p]))
        /\ Cardinality(q.leased) = Cardinality(mem[p].leased) - 1
        /\ Cardinality(mem[p].leased) \in Nat
    BY <1>2, PendingDequeued
  <1>4. /\ NumPd' = NumPd /\ pds'[p] = r /\ r.cmd = c
        /\ \A i \in 1..NumPd : i # p => pds'[i] = pds[i]
    <2>1. pds[p] \in PdRecords /\ pds \in Seq(PdRecords)
      BY PdFacts DEF TypeInv, TypeOK
    <2>2. r.cmd = c
      <3> HIDE DEF c
      <3> QED  BY <2>1 DEF PdRecords
    <2> HIDE DEF r
    <2> QED  BY <1>1, <2>1, <2>2 DEF NumPd
  <1> HIDE DEF q, c, r
  <1>5. /\ pendingBar' = [pendingBar EXCEPT ![p] = Pending(q)]
        /\ freeBar' = [freeBar EXCEPT ![p] = PoolSize - Cardinality(q.leased)]
        /\ p \in Pds /\ pendingBar[p] = Pending(mem[p])
        /\ freeBar[p] = PoolSize - Cardinality(mem[p].leased)
    BY <1>1, <1>4, OneQueueMoves
  <1>6. /\ pendingBar[p] # <<>>
        /\ pendingBar' = [pendingBar EXCEPT ![p] = Tail(@)]
        /\ freeBar' = [freeBar EXCEPT ![p] = @ + 1]
    <2>1. PoolSize - Cardinality(q.leased) = freeBar[p] + 1
      BY <1>3, <1>5
    <2>2. Pending(q) = Tail(pendingBar[p]) /\ pendingBar[p] # <<>>
      BY <1>3, <1>5
    <2> QED  BY <1>5, <2>1, <2>2
  <1>7. currentBar' = [currentBar EXCEPT ![p] = Head(pendingBar[p])]
    <2>1. p <= NumPd /\ \A i \in Pds : i <= NumPd => i \in 1..NumPd
      BY PdsAreNaturals, PdFacts
    <2>2. ASSUME NEW i \in Pds
          PROVE  /\ i # p /\ i <= NumPd => pds'[i].cmd = pds[i].cmd
                 /\ i = p => i <= NumPd /\ pds'[i].cmd = Head(pendingBar[p])
      BY <1>3, <1>4, <1>5, <2>1
    <2>3. currentBar' = [i \in Pds |-> IF i <= NumPd THEN pds'[i].cmd ELSE 0]
      BY <1>4 DEF currentBar
    <2> QED  BY <2>2, <2>3 DEF currentBar
  <1>8. Fifo!Take(p)
    BY <1>6, <1>7 DEF Fifo!Take, pendingBar, freeBar, currentBar
  <1> QED  BY <1>5, <1>8 DEF Fifo!Next

LEMMA AddPdIsFifo ==
    ASSUME TypeInv, AddPd
    PROVE  FifoUnmoved
  <1>1. /\ NumPd' = Len(chan) /\ NumPd < Len(chan) /\ NumPd \in Nat /\ Len(chan) \in Nat
        /\ \A p \in 1..NumPd : pds'[p].cmd = pds[p].cmd /\ mem'[p] = mem[p]
        /\ \A p \in NumPd + 1..NumPd' : pds'[p].cmd = 0 /\ mem'[p] = EmptyQueue
    <2>1. NumPd \in Nat /\ Len(chan) \in Nat
      BY DEF TypeInv, TypeOK, NumPd
    <2> QED  BY <2>1, AddPdTypes
  <1>2. ASSUME NEW p \in Pds
        PROVE  /\ (IF p <= NumPd' THEN Pending(mem'[p]) ELSE <<>>) =
                     (IF p <= NumPd THEN Pending(mem[p]) ELSE <<>>)
               /\ (IF p <= NumPd' THEN pds'[p].cmd ELSE 0) = (IF p <= NumPd THEN pds[p].cmd ELSE 0)
               /\ (IF p <= NumPd' THEN PoolSize - Cardinality(mem'[p].leased) ELSE PoolSize) =
                     (IF p <= NumPd THEN PoolSize - Cardinality(mem[p].leased) ELSE PoolSize)
    <2>1. p \in Nat \ {0}
      BY PdsAreNaturals
    <2>2. CASE p <= NumPd
      BY <1>1, <2>1, <2>2
    <2>3. CASE ~(p <= NumPd) /\ p <= NumPd'
      <3>1. pds'[p].cmd = 0 /\ mem'[p] = EmptyQueue
        BY <1>1, <2>1, <2>3
      <3> QED  BY <2>3, <3>1, EmptyPending
    <2>4. CASE ~(p <= NumPd')
      BY <1>1, <2>1, <2>4
    <2> QED  BY <2>2, <2>3, <2>4
  <1> QED  BY <1>2 DEF FifoUnmoved, pendingBar, currentBar, freeBar

\* The slab and the linked list of each PD, with acceptance, sending and flushing, are a
\* bounded queue that loses no command, gives each one out in order and gives back every
\* place, for any pool size and any number of PDs.
THEOREM QueueRefinement == Spec => QueueImplemented
  <1>1. TypeInv /\ [Next]_vars => Fifo!Next \/ FifoUnmoved
    <2> SUFFICES ASSUME TypeInv, [Next]_vars PROVE Fifo!Next \/ FifoUnmoved
      OBVIOUS
    <2>1. CASE AddPd
      BY <2>1, AddPdIsFifo
    <2>2. CASE BeginRound
      <3>1. /\ NumPd' = NumPd
            /\ \A p \in 1..NumPd : \E w \in Nat : pds'[p] = [pds[p] EXCEPT !.wait = w]
        BY <2>2, BeginRoundTypes
      <3>2. \A p \in 1..NumPd : pds'[p].cmd = pds[p].cmd
        BY <3>1, PdFacts DEF PdRecords
      <3> QED  BY <2>2, <3>1, <3>2, NothingMoves DEF BeginRound
    <2>3. ASSUME NEW p \in 1..NumPd, Visit(p) PROVE Fifo!Next \/ FifoUnmoved
      <3>1. CASE KickCommand(p)
        BY <3>1, KickIsFifo
      <3>2. CASE ~KickCommand(p)
        <4>1. NumPd' = NumPd /\ \A q \in 1..NumPd : pds'[q].cmd = pds[q].cmd
          BY <2>3, <3>2, VisitKeepsTypes, VisitCommands
        <4>2. chan' = chan /\ mem' = mem
          BY <2>3, <3>2 DEF Visit, Refused, KickSetup, KickPoll, Offline, Send, Waiting, Receive,
                            NoAnswerYet, Timeout
        <4> QED  BY <4>1, <4>2, NothingMoves
      <3> QED  BY <3>1, <3>2
    <2>4. ASSUME NEW p \in 1..NumPd, Submit(p) \/ FlushCommands(p)
          PROVE  Fifo!Next \/ FifoUnmoved
      BY <2>4, SubmitIsFifo, FlushIsFifo
    <2>5. CASE UNCHANGED vars
      BY <2>5 DEF vars, NumPd, FifoUnmoved, pendingBar, currentBar, freeBar
    <2> QED  BY <2>1, <2>2, <2>3, <2>4, <2>5 DEF Next, Refresh
  <1>2. FifoUnmoved => UNCHANGED <<pendingBar, currentBar, freeBar>>
    BY DEF FifoUnmoved
  <1> QED  BY BusTypeCorrect, FifoInit, <1>1, <1>2, PTL
           DEF Spec, QueueImplemented, Fifo!Spec, pendingBar, currentBar, freeBar
=============================================================================
