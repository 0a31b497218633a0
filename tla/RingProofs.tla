----------------------------- MODULE RingProofs -----------------------------
(***************************************************************************)
(* Proofs about Ring, for any number of producers and documents and any    *)
(* depth: the accounting of positions, sequence numbers and drops, and     *)
(* that no producer is left asleep beside free room.                       *)
(***************************************************************************)
EXTENDS Ring, FiniteSetTheorems, FunctionTheorems, TLAPS

(* What is needed besides the properties: only a blocking ring has waiters,  *)
(* a waiter has a document and waits in one place, and a freed ring is       *)
(* closed and empty.                                                         *)
Waiters ==
    /\ asleep \cap woken = {}
    /\ asleep # {} => block_when_full
    /\ woken # {} => block_when_full
    /\ \A p \in asleep \cup woken : carrying[p] # NoDoc
    /\ destroyed => closed /\ tail = head

(* The inductive invariant. *)
RingInv ==
    /\ TypeOK /\ Occupancy /\ SeqIsPosition /\ DropsVisible
    /\ Waiters /\ NoLostWakeup

-----------------------------------------------------------------------------
(* Two positions less than Depth apart never share a cell (ring.c, the index *)
(* "% ring->depth").                                                         *)
LEMMA CellsDistinct ==
    ASSUME NEW i \in Nat, NEW j \in Nat, i < j, j - i < Depth
    PROVE  Cell(i) # Cell(j)
<1> USE RingAssumption
<1>1. i = Depth * (i \div Depth) + (i % Depth) /\ i \div Depth \in Int
  BY Z3
<1>2. j = Depth * (j \div Depth) + (j % Depth) /\ j \div Depth \in Int
  BY Z3
<1>3. SUFFICES ASSUME i % Depth = j % Depth PROVE FALSE
  BY DEF Cell
<1> DEFINE k == (j \div Depth) - (i \div Depth)
<1>4. k \in Int /\ j - i = Depth * k
  BY <1>1, <1>2, <1>3
<1>5. k >= 1 => Depth * k >= Depth
  BY <1>4, Z3
<1>6. k <= 0 => Depth * k <= 0
  BY <1>4, Z3
<1> QED BY <1>4, <1>5, <1>6

(* A position and the one Depth further on share a cell. *)
LEMMA CellAgain ==
    ASSUME NEW i \in Nat
    PROVE  Cell(i + Depth) = Cell(i)
<1> USE RingAssumption
<1> DEFINE j == i + Depth
<1>0. j \in Nat /\ j - i = Depth
  OBVIOUS
<1> HIDE DEF j
<1>1. /\ i = Depth * (i \div Depth) + (i % Depth) /\ i \div Depth \in Int
      /\ i % Depth \in 0 .. Depth - 1
  BY Z3
<1>2. /\ j = Depth * (j \div Depth) + (j % Depth) /\ j \div Depth \in Int
      /\ j % Depth \in 0 .. Depth - 1
  BY <1>0, Z3
<1> DEFINE k == (j \div Depth) - (i \div Depth) - 1
           r == (i % Depth) - (j % Depth)
<1>3. k \in Int /\ r \in Int /\ r = Depth * k /\ r < Depth /\ r > -Depth
  BY <1>0, <1>1, <1>2
<1> HIDE DEF k, r
<1>4. k >= 1 => Depth * k >= Depth
  BY <1>3, Z3
<1>5. k <= -1 => Depth * k <= -Depth
  BY <1>3, Z3
<1>6. k = 0
  BY <1>3, <1>4, <1>5
<1>7. r = 0
  BY <1>3, <1>6
<1> QED BY <1>1, <1>2, <1>7 DEF r, j, Cell

(* Every position has a cell of the array. *)
LEMMA CellInRange ==
    ASSUME NEW i \in Nat
    PROVE  Cell(i) \in Cells
  BY RingAssumption, Z3 DEF Cell, Cells

(* A set of producers is finite, and its size moves by one. *)
LEMMA WaitSetSize ==
    ASSUME NEW S, S \subseteq Producers, NEW p \in Producers
    PROVE  /\ Cardinality(S) \in Nat
           /\ p \notin S => Cardinality(S \cup {p}) = Cardinality(S) + 1
           /\ p \in S => Cardinality(S \ {p}) = Cardinality(S) - 1
           /\ IsFiniteSet(S)
<1>1. IsFiniteSet(S)
  BY RingAssumption, FS_Subset
<1> QED BY <1>1, FS_CardinalityType, FS_AddElement, FS_RemoveElement

(* The initial ring satisfies the invariant. *)
LEMMA RingInitially == Init => RingInv
<1> SUFFICES ASSUME Init PROVE RingInv
  OBVIOUS
<1> USE DEF Init
<1>1. TypeOK
  BY RingAssumption DEF TypeOK, ConsumerStates
<1>2. Occupancy /\ SeqIsPosition /\ DropsVisible /\ Waiters /\ NoLostWakeup
  BY RingAssumption DEF Occupancy, SeqIsPosition, DropsVisible, Waiters, NoLostWakeup
<1> QED BY <1>1, <1>2 DEF RingInv

-----------------------------------------------------------------------------
(* Storing an entry (the tail of idx_ring_publish) when there is room.       *)
LEMMA PutKeeps ==
    ASSUME RingInv, ~closed, ~Full, NEW d \in Docs \cup {NoDoc}, Put(d),
           tail' = tail, dropped' = dropped
    PROVE  /\ queue' \in [Cells -> [seq : Nat, doc : Docs \cup {NoDoc}]]
           /\ consumer' \in ConsumerStates
           /\ Occupancy' /\ SeqIsPosition' /\ DropsVisible'
<1> USE DEF RingInv, TypeOK, Occupancy, Full
<1>0. Cell(head) \in Cells
  BY CellInRange
<1>1. queue' \in [Cells -> [seq : Nat, doc : Docs \cup {NoDoc}]]
  BY <1>0 DEF Put, Entry
<1>2. consumer' \in ConsumerStates
  BY DEF Put, SignalNotEmpty, ConsumerStates
<1>3. Occupancy'
  BY RingAssumption DEF Put
<1>4. SeqIsPosition'
  <2> SUFFICES ASSUME NEW i \in 0 .. head' - 1, i >= tail'
               PROVE  queue'[Cell(i)].seq = i
    BY DEF SeqIsPosition
  <2>1. CASE i = head
    BY <2>1, <1>0 DEF Put, Entry
  <2>2. CASE i # head
    <3>1. i \in 0 .. head - 1 /\ i >= tail /\ i \in Nat
      BY <2>2 DEF Put
    <3>2. Cell(i) # Cell(head) /\ Cell(i) \in Cells
      BY <3>1, CellsDistinct, CellInRange, RingAssumption
    <3>3. queue[Cell(i)].seq = i
      BY <3>1 DEF SeqIsPosition
    <3> QED BY <3>2, <3>3, <1>0 DEF Put
  <2> QED BY <2>1, <2>2
<1>5. DropsVisible'
  BY DEF Put, DropsVisible
<1> QED BY <1>1, <1>2, <1>3, <1>4, <1>5

(* Every step of the ring preserves the invariant. *)
LEMMA RingStep == RingInv /\ [Next]_vars => RingInv'
<1> SUFFICES ASSUME RingInv, [Next]_vars PROVE RingInv'
  OBVIOUS
<1> USE RingAssumption
<1>p. \A i \in Nat : Cell(i) \in Cells
  BY CellInRange
<1>1. ASSUME NEW p \in Producers, NEW d \in Docs, Publish(p, d)
      PROVE  RingInv'
  <2> USE <1>1 DEF Publish
  <2>0. d \in Docs \cup {NoDoc} /\ Cardinality(woken) \in Nat
    BY WaitSetSize DEF RingInv, TypeOK
  <2>1. CASE PublishClosed(p, d) /\ UNCHANGED waitVars
    BY <2>1, <2>0 DEF PublishClosed, Freed, RingInv, TypeOK, Occupancy, SeqIsPosition,
         DropsVisible, Waiters, NoLostWakeup, ringVars, waitVars, readVars
  <2>2. CASE PublishRoom(p, d) /\ UNCHANGED waitVars
    <3>1. /\ queue' \in [Cells -> [seq : Nat, doc : Docs \cup {NoDoc}]]
          /\ consumer' \in ConsumerStates
          /\ Occupancy' /\ SeqIsPosition' /\ DropsVisible'
      BY <2>2, <2>0, PutKeeps DEF PublishRoom
    <3>2. TypeOK'
      BY <3>1, <2>2 DEF PublishRoom, Put, RingInv, TypeOK, waitVars
    <3>3. Waiters' /\ NoLostWakeup'
      BY <2>2, <2>0 DEF PublishRoom, Put, RingInv, TypeOK, Occupancy, Waiters,
           NoLostWakeup, waitVars
    <3> QED BY <3>1, <3>2, <3>3 DEF RingInv
  <2>3. CASE PublishDrop(p, d) /\ UNCHANGED waitVars
    <3> USE <2>3 DEF PublishDrop, Entry
    <3>1. Cell(head) \in Cells /\ Cell(tail) \in Cells
      BY <1>p DEF RingInv, TypeOK
    <3>2. TypeOK'
      BY <3>1, <2>0 DEF RingInv, TypeOK, Freed, waitVars, SignalNotEmpty, ConsumerStates
    <3>3. Occupancy' /\ DropsVisible'
      BY DEF RingInv, TypeOK, Occupancy, DropsVisible, Waiters, Full
    <3>4. Waiters' /\ NoLostWakeup'
      BY DEF RingInv, TypeOK, Waiters, NoLostWakeup, waitVars
    <3>5. SeqIsPosition'
      <4> SUFFICES ASSUME NEW i \in 0 .. head' - 1, i >= tail'
                   PROVE  queue'[Cell(i)].seq = i
        BY DEF SeqIsPosition
      <4>1. CASE i = head
        BY <4>1, <3>1, <2>0 DEF RingInv, TypeOK, Occupancy
      <4>2. CASE i # head
        <5>b. head \in Nat /\ tail \in Nat /\ head' = head + 1 /\ tail' = tail + 1
          BY DEF RingInv, TypeOK
        <5>1. i \in 0 .. head - 1 /\ i >= tail /\ i \in Nat /\ tail < i
          BY <4>2, <5>b
        <5>a. i < head /\ head - i < Depth /\ i - tail < Depth /\ head \in Nat /\ tail \in Nat
          BY <5>1 DEF RingInv, TypeOK, Occupancy
        <5>2. Cell(i) # Cell(head) /\ Cell(i) # Cell(tail) /\ Cell(i) \in Cells
          BY <5>1, <5>a, CellsDistinct, <1>p
        <5>3. queue[Cell(i)].seq = i
          BY <5>1 DEF SeqIsPosition, RingInv
        <5> QED BY <5>2, <5>3, <3>1 DEF RingInv, TypeOK
      <4> QED BY <4>1, <4>2
    <3> QED BY <3>2, <3>3, <3>4, <3>5 DEF RingInv
  <2>4. CASE PublishWait(p, d) /\ asleep' = asleep \cup {p} /\ UNCHANGED woken
    <3> USE <2>4 DEF PublishWait
    <3>1. TypeOK'
      BY <2>0 DEF RingInv, TypeOK, ringVars, readVars
    <3>2. Occupancy' /\ DropsVisible' /\ SeqIsPosition'
      BY DEF RingInv, Occupancy, DropsVisible, SeqIsPosition, ringVars, readVars
    <3>3. NoLostWakeup'
      BY <2>0 DEF RingInv, TypeOK, Occupancy, NoLostWakeup, ringVars, Full
    <3>4. Waiters'
      BY DEF RingInv, Waiters, ringVars, TypeOK
    <3> QED BY <3>1, <3>2, <3>3, <3>4 DEF RingInv
  <2> QED BY <2>1, <2>2, <2>3, <2>4
<1>2. ASSUME NEW p \in Producers, PublishResume(p)
      PROVE  RingInv'
  <2> USE <1>2 DEF PublishResume
  <2>0. /\ carrying[p] \in Docs \cup {NoDoc}
        /\ Cardinality(woken) \in Nat
        /\ Cardinality(woken \ {p}) = Cardinality(woken) - 1
    BY WaitSetSize DEF RingInv, TypeOK
  <2>1. CASE PublishClosed(p, carrying[p]) /\ UNCHANGED asleep
    <3> USE <2>1 DEF PublishClosed
    <3>1. TypeOK'
      BY <2>0 DEF RingInv, TypeOK, Freed, ringVars, readVars
    <3>2. Occupancy' /\ DropsVisible' /\ SeqIsPosition'
      BY DEF RingInv, Occupancy, DropsVisible, SeqIsPosition, ringVars, readVars
    <3>3. Waiters' /\ NoLostWakeup'
      BY DEF RingInv, Waiters, NoLostWakeup, ringVars
    <3> QED BY <3>1, <3>2, <3>3 DEF RingInv
  <2>2. CASE PublishRoom(p, carrying[p]) /\ UNCHANGED asleep
    <3>1. /\ queue' \in [Cells -> [seq : Nat, doc : Docs \cup {NoDoc}]]
          /\ consumer' \in ConsumerStates
          /\ Occupancy' /\ SeqIsPosition' /\ DropsVisible'
      BY <2>2, <2>0, PutKeeps DEF PublishRoom
    <3>2. TypeOK'
      BY <3>1, <2>2 DEF PublishRoom, Put, RingInv, TypeOK
    <3>3. Waiters'
      BY <2>2 DEF PublishRoom, Put, RingInv, Waiters
    <3>4. NoLostWakeup'
      BY <2>2, <2>0 DEF PublishRoom, Put, RingInv, TypeOK, Occupancy, NoLostWakeup
    <3> QED BY <3>1, <3>2, <3>3, <3>4 DEF RingInv
  <2>3. CASE PublishWait(p, carrying[p]) /\ asleep' = asleep \cup {p}
    <3> USE <2>3 DEF PublishWait
    <3>1. TypeOK'
      BY <2>0 DEF RingInv, TypeOK, ringVars, readVars
    <3>2. Occupancy' /\ DropsVisible' /\ SeqIsPosition'
      BY DEF RingInv, Occupancy, DropsVisible, SeqIsPosition, ringVars, readVars
    <3>3. NoLostWakeup'
      <4>1. Cardinality(woken') \in Nat
        BY <2>0, WaitSetSize DEF RingInv, TypeOK
      <4> QED BY <4>1 DEF RingInv, TypeOK, Occupancy, NoLostWakeup, ringVars, Full
    <3>4. Waiters'
      BY DEF RingInv, Waiters, ringVars
    <3> QED BY <3>1, <3>2, <3>3, <3>4 DEF RingInv
  <2> QED BY <2>1, <2>2, <2>3
<1>3. ASSUME SpuriousWakeup
      PROVE  RingInv'
  <2> USE <1>3 DEF SpuriousWakeup
  <2>1. TypeOK'
    BY DEF RingInv, TypeOK, ringVars, userVars, waitVars, ConsumerStates
  <2>2. Occupancy' /\ DropsVisible' /\ SeqIsPosition'
    BY DEF RingInv, Occupancy, DropsVisible, SeqIsPosition, ringVars
  <2>3. CASE UNCHANGED waitVars
    BY <2>1, <2>2, <2>3 DEF RingInv, Waiters, NoLostWakeup, ringVars, waitVars, userVars
  <2>4. ASSUME NEW p \in asleep, asleep' = asleep \ {p}, woken' = woken \cup {p}
        PROVE  RingInv'
    <3>1. p \in Producers /\ p \notin woken
      BY DEF RingInv, TypeOK, Waiters
    <3>2. Cardinality(woken') = Cardinality(woken) + 1 /\ Cardinality(woken) \in Nat
      BY <2>4, <3>1, WaitSetSize DEF RingInv, TypeOK
    <3>3. NoLostWakeup'
      BY <2>4, <3>2 DEF RingInv, TypeOK, Occupancy, NoLostWakeup, ringVars
    <3>4. Waiters'
      BY <2>4 DEF RingInv, Waiters, ringVars, userVars
    <3> QED BY <2>1, <2>2, <3>3, <3>4 DEF RingInv
  <2> QED BY <2>3, <2>4
<1>4. ASSUME Consume
      PROVE  RingInv'
  <2> USE <1>4 DEF Consume
  <2>1. CASE ConsumeEmpty
    BY <2>1 DEF ConsumeEmpty, RingInv, TypeOK, ConsumerStates, Occupancy, SeqIsPosition,
         DropsVisible, Waiters, NoLostWakeup, ringVars, waitVars, userVars
  <2>2. CASE ConsumeTake
    <3> USE <2>2 DEF ConsumeTake, Empty, CellEmptied, Jump, NextExpected
    <3>0. tail \in Nat /\ tail \in 0 .. head - 1 /\ tail >= tail /\ head \in Nat /\ ~destroyed
      BY DEF RingInv, TypeOK, Occupancy, Waiters
    <3>1. Cell(tail) \in Cells /\ queue[Cell(tail)].seq = tail
      BY <3>0, <1>p DEF RingInv, SeqIsPosition
    <3>2. Occupancy' /\ DropsVisible'
      BY <3>0, <3>1 DEF RingInv, TypeOK, Occupancy, DropsVisible
    <3>3. SeqIsPosition'
      <4> SUFFICES ASSUME NEW i \in 0 .. head' - 1, i >= tail'
                   PROVE  queue'[Cell(i)].seq = i
        BY DEF SeqIsPosition
      <4>1. i \in 0 .. head - 1 /\ i >= tail /\ i \in Nat /\ tail < i
        BY <3>0
      <4>2. Cell(i) # Cell(tail) /\ Cell(i) \in Cells
        BY <4>1, <3>0, <1>p, CellsDistinct DEF RingInv, TypeOK, Occupancy
      <4>3. queue[Cell(i)].seq = i
        BY <4>1 DEF SeqIsPosition, RingInv
      <4> QED BY <4>2, <4>3, <3>1 DEF RingInv, TypeOK
    <3>4. waitVars' = waitVars \/ \E p \in asleep : asleep' = asleep \ {p} /\ woken' = woken \cup {p}
      BY DEF SignalNotFull
    <3>5. TypeOK'
      <4>1. asleep' \subseteq Producers /\ woken' \subseteq Producers
        BY <3>4 DEF RingInv, TypeOK, waitVars
      <4>2. expected' \in Nat /\ jumps' \in Nat /\ tail' \in Nat /\ consumed' \in Nat
        BY <3>0, <3>1 DEF RingInv, TypeOK, DropsVisible
      <4>3. /\ queue' \in [Cells -> [seq : Nat, doc : Docs \cup {NoDoc}]]
            /\ held' \in Docs \cup {NoDoc}
        BY <3>1 DEF RingInv, TypeOK
      <4> QED BY <4>1, <4>2, <4>3 DEF RingInv, TypeOK, ConsumerStates, userVars
    <3>6. Waiters' /\ NoLostWakeup'
      <4>1. CASE asleep = {}
        BY <4>1, <3>0, <3>4 DEF RingInv, Waiters, NoLostWakeup, waitVars, SignalNotFull, userVars
      <4>2. CASE asleep # {}
        <5>1. PICK p \in asleep : asleep' = asleep \ {p} /\ woken' = woken \cup {p}
          BY <4>2 DEF SignalNotFull
        <5>2. p \in Producers /\ p \notin woken
          BY DEF RingInv, TypeOK, Waiters
        <5>3. Cardinality(woken') = Cardinality(woken) + 1 /\ Cardinality(woken) \in Nat
          BY <5>1, <5>2, WaitSetSize DEF RingInv, TypeOK
        <5>4. NoLostWakeup'
          BY <4>2, <5>1, <5>3, <3>0 DEF RingInv, TypeOK, Occupancy, NoLostWakeup
        <5>5. Waiters'
          BY <4>2, <5>1, <3>0 DEF RingInv, Waiters, userVars
        <5> QED BY <5>4, <5>5
      <4> QED BY <4>1, <4>2
    <3> QED BY <3>2, <3>3, <3>5, <3>6 DEF RingInv
  <2> QED BY <2>1, <2>2
<1>5. ASSUME ConsumeTimeout
      PROVE  RingInv'
  BY <1>5 DEF ConsumeTimeout, RingInv, TypeOK, ConsumerStates, Occupancy, SeqIsPosition,
       DropsVisible, Waiters, NoLostWakeup, ringVars, waitVars, userVars
<1>6. ASSUME Release
      PROVE  RingInv'
  BY <1>6 DEF Release, Freed, RingInv, TypeOK, ConsumerStates, Occupancy, SeqIsPosition,
       DropsVisible, Waiters, NoLostWakeup, ringVars, waitVars
<1>7. ASSUME Close
      PROVE  RingInv'
  <2> USE <1>7 DEF Close
  <2>1. TypeOK'
    BY DEF RingInv, TypeOK, SignalNotEmpty, ConsumerStates, userVars
  <2>2. Occupancy' /\ DropsVisible' /\ SeqIsPosition'
    BY DEF RingInv, Occupancy, DropsVisible, SeqIsPosition
  <2>3. Waiters' /\ NoLostWakeup'
    BY DEF RingInv, Waiters, NoLostWakeup, userVars
  <2> QED BY <2>1, <2>2, <2>3 DEF RingInv
<1>8. ASSUME Destroy
      PROVE  RingInv'
  <2> USE <1>8 DEF Destroy
  <2>1. frees' \in [Docs -> Nat]
    <3> SUFFICES ASSUME NEW d \in Docs
                 PROVE  frees[d] + Cardinality({i \in tail .. head - 1 : queue[Cell(i)].doc = d}) \in Nat
      OBVIOUS
    <3>1. IsFiniteSet(tail .. head - 1)
      BY FS_Interval DEF RingInv, TypeOK
    <3>2. IsFiniteSet({i \in tail .. head - 1 : queue[Cell(i)].doc = d})
      BY <3>1, FS_Subset
    <3> QED BY <3>2, FS_CardinalityType DEF RingInv, TypeOK
  <2>2. TypeOK'
    BY <2>1 DEF RingInv, TypeOK, readVars, waitVars
  <2>3. Occupancy' /\ DropsVisible' /\ SeqIsPosition'
    BY DEF RingInv, TypeOK, Occupancy, DropsVisible, SeqIsPosition
  <2>4. Waiters' /\ NoLostWakeup'
    BY DEF RingInv, Waiters, NoLostWakeup, waitVars
  <2> QED BY <2>2, <2>3, <2>4 DEF RingInv
<1>9. ASSUME UNCHANGED vars
      PROVE  RingInv'
  BY <1>9 DEF RingInv, TypeOK, Occupancy, SeqIsPosition, DropsVisible, Waiters,
       NoLostWakeup, vars, ringVars, waitVars, userVars, readVars
<1> QED BY <1>1, <1>2, <1>3, <1>4, <1>5, <1>6, <1>7, <1>8, <1>9 DEF Next

-----------------------------------------------------------------------------
(* The invariant holds in every reachable state of the ring. *)
THEOREM RingInvariant == Spec => []RingInv
  BY RingInitially, RingStep, PTL DEF Spec

(* ring.c: the positions, the sequence numbers and the drop accounting agree  *)
(* for every depth, whatever the producers and the consumer do.               *)
THEOREM RingAccounting == Spec => [](TypeOK /\ DropsVisible)
<1>1. RingInv => TypeOK /\ DropsVisible
  BY DEF RingInv
<1> QED BY <1>1, RingInvariant, PTL

(* ring.c 147-166 and 218-221: for every depth, the ring never overfills and  *)
(* the entries come out as they went in.                                      *)
THEOREM RingEntriesSound == Spec => []EntriesSound
<1>1. RingInv => EntriesSound
  BY DEF RingInv, EntriesSound
<1> QED BY <1>1, RingInvariant, PTL

(* ring.c 147-161 and 226: with any number of producers, one signal for each  *)
(* entry consumed is enough; nobody sleeps beside room nobody was woken for.  *)
THEOREM RingNoLostWakeup == Spec => []NoLostWakeup
<1>1. RingInv => NoLostWakeup
  BY DEF RingInv
<1> QED BY <1>1, RingInvariant, PTL

-----------------------------------------------------------------------------
(* A consumer that was told the ring is closed was told so when it was empty, *)
(* and nothing is put into a closed ring.                                     *)
Told == consumer = "done" => closed /\ head = tail

(* No publish, woken or new, puts anything into a closed ring (ring.c 138-161). *)
LEMMA ToldStep == Told /\ [Next]_vars => Told'
<1> SUFFICES ASSUME Told, [Next]_vars PROVE Told'
  OBVIOUS
<1> USE DEF Told, ringVars, readVars, waitVars, userVars
<1>1. ASSUME NEW p \in Producers, NEW d \in Docs, Publish(p, d)
      PROVE  Told'
  BY <1>1 DEF Publish, PublishClosed, PublishRoom, PublishDrop, PublishWait, Put, SignalNotEmpty
<1>2. ASSUME NEW p \in Producers, PublishResume(p)
      PROVE  Told'
  BY <1>2 DEF PublishResume, PublishClosed, PublishRoom, PublishWait, Put, SignalNotEmpty
<1>3. CASE SpuriousWakeup
  BY <1>3 DEF SpuriousWakeup
<1>4. CASE Consume
  BY <1>4 DEF Consume, ConsumeTake, ConsumeEmpty, Empty
<1>5. CASE ConsumeTimeout \/ Release
  BY <1>5 DEF ConsumeTimeout, Release
<1>6. CASE Close
  BY <1>6 DEF Close, SignalNotEmpty
<1>7. CASE Destroy
  BY <1>7 DEF Destroy
<1>8. CASE UNCHANGED vars
  BY <1>8 DEF vars
<1> QED BY <1>1, <1>2, <1>3, <1>4, <1>5, <1>6, <1>7, <1>8 DEF Next

(* ring.c 155-160 and 199-205: whatever the number of producers that wait     *)
(* when the ring is closed, none of them adds a document nobody will take.    *)
THEOREM RingNothingAfterClosed == Spec => []NothingAfterClosed
<1>1. Init => Told
  BY DEF Init, Told
<1>2. Told => NothingAfterClosed
  BY DEF Told, NothingAfterClosed, Empty
<1> QED BY <1>1, <1>2, ToldStep, PTL DEF Spec

-----------------------------------------------------------------------------
(* A document in the array is the one of a position between tail and head, so *)
(* a cell that publish writes to holds none (ring.c 163-166).                 *)
Stored ==
    ~destroyed => \A c \in Cells : queue[c].doc # NoDoc => \E i \in tail .. head - 1 : Cell(i) = c

Carriers(d) == {p \in Producers : carrying[p] = d}
CellsOf(d)  == {c \in Cells : queue[c].doc = d}

(* The sum of OneOwner, for one document. *)
Owners(d) ==
    Cardinality(Carriers(d)) + (IF destroyed THEN 0 ELSE Cardinality(CellsOf(d)))
      + (IF held = d THEN 1 ELSE 0) + (IF d \in fresh THEN 1 ELSE 0) + frees[d]

OwnerInv == RingInv /\ Stored /\ \A d \in Docs : Owners(d) = 1

(* Two finite sets that differ at one element at most.                        *)
LEMMA SizeMoves ==
    ASSUME NEW S, NEW T, IsFiniteSet(S), NEW x, S \ {x} = T \ {x}
    PROVE  /\ IsFiniteSet(T) /\ Cardinality(S) \in Nat /\ Cardinality(T) \in Nat
           /\ Cardinality(T) = Cardinality(S) + (IF x \in T THEN 1 ELSE 0) - (IF x \in S THEN 1 ELSE 0)
<1>1. CASE x \in S /\ x \in T
  <2>1. S = T
    BY <1>1
  <2> QED BY <2>1, <1>1, FS_CardinalityType
<1>2. CASE x \in S /\ x \notin T
  <2>1. T = S \ {x}
    BY <1>2
  <2>2. IsFiniteSet(T) /\ Cardinality(T) = Cardinality(S) - 1 /\ Cardinality(T) \in Nat
    BY <2>1, <1>2, FS_RemoveElement, FS_CardinalityType
  <2>3. Cardinality(S) \in Nat
    BY FS_CardinalityType
  <2> QED BY <2>2, <2>3, <1>2
<1>3. CASE x \notin S /\ x \in T
  <2>1. T = S \cup {x}
    BY <1>3
  <2> QED BY <2>1, <1>3, FS_CardinalityType, FS_AddElement
<1>4. CASE x \notin S /\ x \notin T
  <2>1. S = T
    BY <1>4
  <2> QED BY <2>1, <1>4, FS_CardinalityType
<1> QED BY <1>1, <1>2, <1>3, <1>4

(* The places a document can be in can be counted. *)
LEMMA Countable ==
    ASSUME TypeOK, NEW d \in Docs
    PROVE  /\ IsFiniteSet(Carriers(d)) /\ Cardinality(Carriers(d)) \in Nat
           /\ IsFiniteSet(CellsOf(d)) /\ Cardinality(CellsOf(d)) \in Nat
           /\ frees[d] \in Nat /\ (IF held = d THEN 1 ELSE 0) \in Nat /\ (IF d \in fresh THEN 1 ELSE 0) \in Nat
<1>1. IsFiniteSet(Carriers(d))
  BY RingAssumption, FS_Subset DEF Carriers
<1>2. IsFiniteSet(Cells)
  BY RingAssumption, FS_Interval DEF Cells
<1>3. IsFiniteSet(CellsOf(d))
  BY <1>2, FS_Subset DEF CellsOf
<1> QED BY <1>1, <1>3, FS_CardinalityType DEF TypeOK

(* A publish or a return from it changes what one producer carries.           *)
LEMMA CarriersMove ==
    ASSUME TypeOK, NEW d \in Docs, NEW p \in Producers, NEW v,
           carrying' = [carrying EXCEPT ![p] = v]
    PROVE  /\ Cardinality(Carriers(d)') \in Nat
           /\ Cardinality(Carriers(d)') =
                 Cardinality(Carriers(d)) + (IF v = d THEN 1 ELSE 0) - (IF carrying[p] = d THEN 1 ELSE 0)
<1> DEFINE S == Carriers(d)
           T == Carriers(d)'
<1>1. /\ S \ {p} = T \ {p} /\ (p \in T <=> v = d) /\ (p \in S <=> carrying[p] = d)
  BY DEF Carriers, TypeOK
<1>2. IsFiniteSet(S)
  BY Countable
<1> HIDE DEF S, T
<1>3. /\ Cardinality(T) \in Nat
      /\ Cardinality(T) = Cardinality(S) + (IF p \in T THEN 1 ELSE 0) - (IF p \in S THEN 1 ELSE 0)
  BY <1>1, <1>2, SizeMoves
<1> QED BY <1>1, <1>3 DEF S, T

(* A producer that carried nothing goes to sleep with its document (ring.c     *)
(* 154), or comes back without one.                                           *)
LEMMA CarrierTakes ==
    ASSUME TypeOK, NEW d \in Docs, NEW p \in Producers, NEW v \in Docs, carrying[p] = NoDoc,
           carrying' = [carrying EXCEPT ![p] = v]
    PROVE  Cardinality(Carriers(d)') = Cardinality(Carriers(d)) + (IF v = d THEN 1 ELSE 0)
<1>1. Cardinality(Carriers(d)') =
         Cardinality(Carriers(d)) + (IF v = d THEN 1 ELSE 0) - (IF carrying[p] = d THEN 1 ELSE 0)
  BY CarriersMove
<1>2. carrying[p] # d /\ Cardinality(Carriers(d)) \in Nat
  BY RingAssumption, Countable
<1> QED BY <1>1, <1>2

(* A publish returns: its document is in the array or freed. *)
LEMMA CarrierLetsGo ==
    ASSUME TypeOK, NEW d \in Docs, NEW p \in Producers, carrying' = [carrying EXCEPT ![p] = NoDoc]
    PROVE  /\ Cardinality(Carriers(d)') =
                 Cardinality(Carriers(d)) - (IF carrying[p] = d THEN 1 ELSE 0)
           /\ carrying[p] = NoDoc => Cardinality(Carriers(d)') = Cardinality(Carriers(d))
<1>1. Cardinality(Carriers(d)') =
         Cardinality(Carriers(d)) + (IF NoDoc = d THEN 1 ELSE 0) - (IF carrying[p] = d THEN 1 ELSE 0)
  BY CarriersMove
<1>2. NoDoc # d /\ Cardinality(Carriers(d)) \in Nat
  BY RingAssumption, Countable
<1> QED BY <1>1, <1>2

(* A publish or a consume changes what one cell holds.                        *)
LEMMA CellsMove ==
    ASSUME TypeOK, NEW d \in Docs, NEW c \in Cells,
           \A b \in Cells : b # c => queue'[b].doc = queue[b].doc
    PROVE  /\ Cardinality(CellsOf(d)') \in Nat
           /\ Cardinality(CellsOf(d)') =
                 Cardinality(CellsOf(d)) + (IF queue'[c].doc = d THEN 1 ELSE 0) - (IF queue[c].doc = d THEN 1 ELSE 0)
<1> DEFINE S == CellsOf(d)
           T == CellsOf(d)'
<1>1. /\ S \ {c} = T \ {c} /\ (c \in T <=> queue'[c].doc = d) /\ (c \in S <=> queue[c].doc = d)
  BY DEF CellsOf
<1>2. IsFiniteSet(S)
  BY Countable
<1> HIDE DEF S, T
<1>3. /\ Cardinality(T) \in Nat
      /\ Cardinality(T) = Cardinality(S) + (IF c \in T THEN 1 ELSE 0) - (IF c \in S THEN 1 ELSE 0)
  BY <1>1, <1>2, SizeMoves
<1> QED BY <1>1, <1>3 DEF S, T

(* Freeing a document (idx_json_free).                                        *)
LEMMA FreedCounts ==
    ASSUME TypeOK, NEW d \in Docs, NEW v \in Docs \cup {NoDoc}
    PROVE  Freed(v)[d] = frees[d] + (IF v = d THEN 1 ELSE 0)
  BY RingAssumption DEF Freed, TypeOK

(* The cell the next entry goes to is empty while there is room. *)
LEMMA HeadCellEmpty ==
    ASSUME OwnerInv, ~Full, ~destroyed
    PROVE  queue[Cell(head)].doc = NoDoc
<1>0. head \in Nat /\ tail \in Nat /\ Cell(head) \in Cells /\ head - tail < Depth
  BY RingAssumption, CellInRange DEF OwnerInv, RingInv, TypeOK, Full
<1> SUFFICES ASSUME NEW i \in tail .. head - 1, Cell(i) = Cell(head) PROVE FALSE
  BY <1>0 DEF OwnerInv, Stored
<1>1. i \in Nat /\ i < head /\ head - i < Depth
  BY <1>0, RingAssumption
<1> QED BY <1>0, <1>1, CellsDistinct

(* Storing an entry when there is room (ring.c 163-173).                      *)
LEMMA StorePut ==
    ASSUME OwnerInv, ~Full, ~destroyed, NEW v \in Docs, Put(v), tail' = tail
    PROVE  /\ Stored'
           /\ \A d \in Docs : Cardinality(CellsOf(d)') =
                                 Cardinality(CellsOf(d)) + (IF v = d THEN 1 ELSE 0)
<1>0. /\ head \in Nat /\ tail \in Nat /\ head' = head + 1 /\ Cell(head) \in Cells /\ tail <= head
      /\ queue \in [Cells -> [seq : Nat, doc : Docs \cup {NoDoc}]]
      /\ ~destroyed'
  BY CellInRange DEF OwnerInv, RingInv, TypeOK, Put, Occupancy
<1>1. queue'[Cell(head)].doc = v /\ \A b \in Cells : b # Cell(head) => queue'[b] = queue[b]
  BY <1>0 DEF Put, Entry
<1>2. Stored'
  <2> SUFFICES ASSUME NEW c \in Cells, queue'[c].doc # NoDoc
               PROVE  \E i \in tail' .. head' - 1 : Cell(i) = c
    BY DEF Stored
  <2>1. CASE c = Cell(head)
    <3>1. head \in tail' .. head' - 1
      BY <1>0
    <3> QED BY <2>1, <3>1
  <2>2. CASE c # Cell(head)
    <3>1. PICK i \in tail .. head - 1 : Cell(i) = c
      BY <2>2, <1>1 DEF OwnerInv, Stored
    <3>2. i \in tail' .. head' - 1
      BY <1>0
    <3> QED BY <3>1, <3>2
  <2> QED BY <2>1, <2>2
<1>3. ASSUME NEW d \in Docs
      PROVE  Cardinality(CellsOf(d)') = Cardinality(CellsOf(d)) + (IF v = d THEN 1 ELSE 0)
  <2>1. queue[Cell(head)].doc # d
    BY HeadCellEmpty, RingAssumption
  <2>2. Cardinality(CellsOf(d)') = Cardinality(CellsOf(d))
           + (IF queue'[Cell(head)].doc = d THEN 1 ELSE 0)
           - (IF queue[Cell(head)].doc = d THEN 1 ELSE 0)
    BY <1>0, <1>1, CellsMove DEF OwnerInv, RingInv
  <2>3. Cardinality(CellsOf(d)) \in Nat
    BY Countable DEF OwnerInv, RingInv
  <2> QED BY <2>1, <2>2, <2>3, <1>1
<1> QED BY <1>2, <1>3

(* The tail moves on and its cell is emptied (ring.c 114-125 and 218-221).    *)
LEMMA StoreTake ==
    ASSUME OwnerInv, ~Empty, ~destroyed, tail' = tail + 1, head' = head, destroyed' = destroyed,
           queue' = [queue EXCEPT ![Cell(tail)].doc = NoDoc]
    PROVE  /\ Stored'
           /\ queue[Cell(tail)].doc \in Docs \cup {NoDoc}
           /\ \A d \in Docs :
                 Cardinality(CellsOf(d)') =
                    Cardinality(CellsOf(d)) - (IF queue[Cell(tail)].doc = d THEN 1 ELSE 0)
<1>0. /\ head \in Nat /\ tail \in Nat /\ Cell(tail) \in Cells
      /\ queue \in [Cells -> [seq : Nat, doc : Docs \cup {NoDoc}]]
  BY CellInRange DEF OwnerInv, RingInv, TypeOK
<1>1. queue'[Cell(tail)].doc = NoDoc /\ \A b \in Cells : b # Cell(tail) => queue'[b] = queue[b]
  BY <1>0
<1>2. Stored'
  <2> SUFFICES ASSUME NEW c \in Cells, queue'[c].doc # NoDoc
               PROVE  \E i \in tail' .. head' - 1 : Cell(i) = c
    BY DEF Stored
  <2>1. c # Cell(tail) /\ queue[c].doc # NoDoc
    BY <1>1
  <2>2. PICK i \in tail .. head - 1 : Cell(i) = c
    BY <2>1 DEF OwnerInv, Stored
  <2>3. i # tail
    BY <2>1, <2>2
  <2>4. i \in tail' .. head' - 1
    BY <1>0, <2>3
  <2> QED BY <2>2, <2>4
<1>3. ASSUME NEW d \in Docs
      PROVE  Cardinality(CellsOf(d)') =
                Cardinality(CellsOf(d)) - (IF queue[Cell(tail)].doc = d THEN 1 ELSE 0)
  <2>1. queue'[Cell(tail)].doc # d
    BY <1>1, RingAssumption
  <2>2. Cardinality(CellsOf(d)') = Cardinality(CellsOf(d))
           + (IF queue'[Cell(tail)].doc = d THEN 1 ELSE 0)
           - (IF queue[Cell(tail)].doc = d THEN 1 ELSE 0)
    BY <1>0, <1>1, CellsMove DEF OwnerInv, RingInv
  <2>3. Cardinality(CellsOf(d)) \in Nat
    BY Countable DEF OwnerInv, RingInv
  <2> QED BY <2>1, <2>2, <2>3
<1> QED BY <1>0, <1>2, <1>3

(* A full ring drops its oldest entry and stores the new one in its cell.     *)
LEMMA StoreDrop ==
    ASSUME OwnerInv, Full, ~destroyed, NEW p, NEW v \in Docs, PublishDrop(p, v)
    PROVE  /\ Stored'
           /\ queue[Cell(tail)].doc \in Docs \cup {NoDoc}
           /\ \A d \in Docs :
                 Cardinality(CellsOf(d)') =
                    Cardinality(CellsOf(d)) + (IF v = d THEN 1 ELSE 0)
                       - (IF queue[Cell(tail)].doc = d THEN 1 ELSE 0)
<1>0. /\ head \in Nat /\ tail \in Nat /\ head' = head + 1 /\ tail' = tail + 1 /\ ~destroyed'
      /\ Cell(head) \in Cells /\ Cell(tail) \in Cells /\ head = tail + Depth
      /\ queue \in [Cells -> [seq : Nat, doc : Docs \cup {NoDoc}]]
  <2>1. /\ head \in Nat /\ tail \in Nat /\ head - tail >= Depth /\ head - tail <= Depth
        /\ queue \in [Cells -> [seq : Nat, doc : Docs \cup {NoDoc}]]
    BY DEF OwnerInv, RingInv, TypeOK, Occupancy, Full
  <2>2. head' = head + 1 /\ tail' = tail + 1 /\ ~destroyed'
    BY DEF PublishDrop
  <2> QED BY <2>1, <2>2, CellInRange, RingAssumption
<1>a. Cell(head) = Cell(tail)
  BY <1>0, CellAgain
<1>1. queue'[Cell(tail)].doc = v /\ \A b \in Cells : b # Cell(tail) => queue'[b] = queue[b]
  BY <1>0, <1>a DEF PublishDrop, Entry
<1>2. Stored'
  <2> SUFFICES ASSUME NEW c \in Cells, queue'[c].doc # NoDoc
               PROVE  \E i \in tail' .. head' - 1 : Cell(i) = c
    BY DEF Stored
  <2>1. CASE c = Cell(tail)
    <3>1. head \in tail' .. head' - 1
      BY <1>0, RingAssumption
    <3> QED BY <2>1, <3>1, <1>a
  <2>2. CASE c # Cell(tail)
    <3>1. PICK i \in tail .. head - 1 : Cell(i) = c
      BY <2>2, <1>1 DEF OwnerInv, Stored
    <3>2. i # tail
      BY <2>2, <3>1
    <3>3. i \in tail' .. head' - 1
      BY <1>0, <3>2
    <3> QED BY <3>1, <3>3
  <2> QED BY <2>1, <2>2
<1>3. ASSUME NEW d \in Docs
      PROVE  Cardinality(CellsOf(d)') = Cardinality(CellsOf(d)) + (IF v = d THEN 1 ELSE 0)
                - (IF queue[Cell(tail)].doc = d THEN 1 ELSE 0)
  BY <1>0, <1>1, CellsMove DEF OwnerInv, RingInv
<1> QED BY <1>0, <1>2, <1>3

(* idx_ring_free frees what is queued: the positions between tail and head    *)
(* have the documents of the array, each once.                                *)
LEMMA QueuedAreCells ==
    ASSUME OwnerInv, ~destroyed, NEW d \in Docs
    PROVE  Cardinality({i \in tail .. head - 1 : queue[Cell(i)].doc = d}) = Cardinality(CellsOf(d))
<1> DEFINE I == {i \in tail .. head - 1 : queue[Cell(i)].doc = d}
           C == CellsOf(d)
           f == [i \in I |-> Cell(i)]
<1>0. /\ head \in Nat /\ tail \in Nat /\ head - tail <= Depth /\ IsFiniteSet(C)
      /\ \A i \in I : i \in Nat /\ Cell(i) \in C
  <2>1. head \in Nat /\ tail \in Nat /\ head - tail <= Depth /\ IsFiniteSet(C)
    BY Countable DEF OwnerInv, RingInv, TypeOK, Occupancy
  <2>2. ASSUME NEW i \in I PROVE i \in Nat /\ Cell(i) \in C
    <3>1. i \in Nat /\ Cell(i) \in Cells
      BY <2>1, CellInRange
    <3> QED BY <3>1 DEF CellsOf
  <2> QED BY <2>1, <2>2
<1>1. f \in [I -> C]
  BY <1>0
<1>2. ASSUME NEW a \in I, NEW b \in I, f[a] = f[b] PROVE a = b
  <2>1. a \in Nat /\ b \in Nat /\ Cell(a) = Cell(b) /\ a - b < Depth /\ b - a < Depth
    BY <1>0, <1>2, RingAssumption
  <2> QED BY <2>1, CellsDistinct
<1>3. ASSUME NEW c \in C PROVE \E i \in I : f[i] = c
  <2>1. c \in Cells /\ queue[c].doc = d /\ d # NoDoc
    BY RingAssumption DEF CellsOf
  <2>2. PICK i \in tail .. head - 1 : Cell(i) = c
    BY <2>1 DEF OwnerInv, Stored
  <2>3. i \in I
    BY <2>1, <2>2
  <2> QED BY <2>2, <2>3
<1> HIDE DEF I, C, f
<1>4. f \in Bijection(I, C)
  BY <1>1, <1>2, <1>3, Fun_IsBij
<1>5. IsFiniteSet(I)
  <2>1. IsFiniteSet(tail .. head - 1)
    BY <1>0, FS_Interval
  <2> QED BY <2>1, FS_Subset DEF I
<1>6. ExistsBijection(I, C)
  BY <1>4 DEF ExistsBijection
<1>7. Cardinality(C) = Cardinality(I)
  BY <1>5, <1>6, FS_Bijection
<1> QED BY <1>7 DEF I, C

(* Every step of the ring keeps one owner for each document. *)
LEMMA OwnerStep == OwnerInv /\ [Next]_vars => OwnerInv'
<1> SUFFICES ASSUME OwnerInv, [Next]_vars PROVE OwnerInv'
  OBVIOUS
<1>r. RingInv' /\ TypeOK /\ RingInv /\ Waiters
  BY RingStep DEF OwnerInv, RingInv
<1> SUFFICES Stored' /\ \A d \in Docs : Owners(d)' = 1
  BY <1>r DEF OwnerInv
<1>n. \A d \in Docs :
         /\ Cardinality(Carriers(d)) \in Nat /\ Cardinality(CellsOf(d)) \in Nat /\ frees[d] \in Nat
         /\ Owners(d) = 1
  BY <1>r, Countable DEF OwnerInv
<1>1. ASSUME NEW p \in Producers, NEW v \in Docs, Publish(p, v)
      PROVE  Stored' /\ \A d \in Docs : Owners(d)' = 1
  <2> USE <1>1 DEF Publish
  <2>0. ~destroyed /\ carrying[p] = NoDoc /\ v \in fresh /\ fresh' = fresh \ {v}
    OBVIOUS
  <2>p. /\ carrying' = [carrying EXCEPT ![p] = NoDoc] =>
              \A d \in Docs : Cardinality(Carriers(d)') = Cardinality(Carriers(d))
        /\ carrying' = [carrying EXCEPT ![p] = v] =>
              \A d \in Docs : Cardinality(Carriers(d)') =
                                  Cardinality(Carriers(d)) + (IF v = d THEN 1 ELSE 0)
    BY <1>r, <2>0, CarrierTakes, CarrierLetsGo
  <2>1. CASE PublishClosed(p, v)
    <3> USE <2>1 DEF PublishClosed
    <3>1. Stored'
      BY DEF OwnerInv, Stored, ringVars
    <3>2. ASSUME NEW d \in Docs PROVE Owners(d)' = 1
      <4>1. Cardinality(Carriers(d)') = Cardinality(Carriers(d)) /\ CellsOf(d)' = CellsOf(d)
        BY <2>p DEF CellsOf, ringVars
      <4>2. frees'[d] = frees[d] + (IF v = d THEN 1 ELSE 0) /\ held' = held /\ ~destroyed'
        BY <1>r, <2>0, FreedCounts DEF ringVars, readVars
      <4> QED BY <4>1, <4>2, <1>n, <2>0 DEF Owners
    <3> QED BY <3>1, <3>2
  <2>2. CASE PublishRoom(p, v)
    <3> USE <2>2 DEF PublishRoom
    <3>1. /\ Stored'
          /\ \A d \in Docs : Cardinality(CellsOf(d)') =
                                Cardinality(CellsOf(d)) + (IF v = d THEN 1 ELSE 0)
      BY <2>0, StorePut
    <3>2. ASSUME NEW d \in Docs PROVE Owners(d)' = 1
      <4>1. Cardinality(Carriers(d)') = Cardinality(Carriers(d))
        BY <2>p
      <4>2. frees' = frees /\ held' = held /\ ~destroyed'
        BY <2>0 DEF Put
      <4> QED BY <4>1, <4>2, <3>1, <1>n, <2>0 DEF Owners
    <3> QED BY <3>1, <3>2
  <2>3. CASE PublishDrop(p, v)
    <3> USE <2>3
    <3>1. /\ Stored' /\ queue[Cell(tail)].doc \in Docs \cup {NoDoc}
          /\ \A d \in Docs : Cardinality(CellsOf(d)') =
                                Cardinality(CellsOf(d)) + (IF v = d THEN 1 ELSE 0)
                                   - (IF queue[Cell(tail)].doc = d THEN 1 ELSE 0)
      BY <2>0, StoreDrop DEF PublishDrop
    <3>2. ASSUME NEW d \in Docs PROVE Owners(d)' = 1
      <4>1. Cardinality(Carriers(d)') = Cardinality(Carriers(d))
        BY <2>p DEF PublishDrop
      <4>2. /\ frees'[d] = frees[d] + (IF queue[Cell(tail)].doc = d THEN 1 ELSE 0)
            /\ held' = held /\ ~destroyed'
        BY <1>r, <2>0, <3>1, FreedCounts DEF PublishDrop
      <4> QED BY <4>1, <4>2, <3>1, <1>n, <2>0 DEF Owners
    <3> QED BY <3>1, <3>2
  <2>4. CASE PublishWait(p, v)
    <3> USE <2>4 DEF PublishWait
    <3>1. Stored'
      BY DEF OwnerInv, Stored, ringVars
    <3>2. ASSUME NEW d \in Docs PROVE Owners(d)' = 1
      <4>1. /\ Cardinality(Carriers(d)') = Cardinality(Carriers(d)) + (IF v = d THEN 1 ELSE 0)
            /\ CellsOf(d)' = CellsOf(d)
        BY <2>p DEF CellsOf, ringVars
      <4>2. frees' = frees /\ held' = held /\ ~destroyed'
        BY <2>0 DEF ringVars, readVars
      <4> QED BY <4>1, <4>2, <1>n, <2>0 DEF Owners
    <3> QED BY <3>1, <3>2
  <2> QED BY <2>1, <2>2, <2>3, <2>4
<1>2. ASSUME NEW p \in Producers, PublishResume(p)
      PROVE  Stored' /\ \A d \in Docs : Owners(d)' = 1
  <2> USE <1>2 DEF PublishResume
  <2> DEFINE v == carrying[p]
  <2>0. v \in Docs /\ fresh' = fresh
    BY <1>r DEF TypeOK, Waiters
  <2>p. carrying' = [carrying EXCEPT ![p] = NoDoc] =>
           \A d \in Docs : Cardinality(Carriers(d)') =
                               Cardinality(Carriers(d)) - (IF v = d THEN 1 ELSE 0)
    BY <1>r, CarrierLetsGo
  <2>1. CASE PublishClosed(p, v)
    <3> USE <2>1 DEF PublishClosed
    <3>1. Stored'
      BY DEF OwnerInv, Stored, ringVars
    <3>2. ASSUME NEW d \in Docs PROVE Owners(d)' = 1
      <4>1. /\ Cardinality(Carriers(d)') = Cardinality(Carriers(d)) - (IF v = d THEN 1 ELSE 0)
            /\ CellsOf(d)' = CellsOf(d)
        BY <2>p DEF CellsOf, ringVars
      <4>2. frees'[d] = frees[d] + (IF v = d THEN 1 ELSE 0) /\ held' = held /\ destroyed' = destroyed
        BY <1>r, <2>0, FreedCounts DEF ringVars, readVars
      <4> QED BY <4>1, <4>2, <1>n, <2>0 DEF Owners
    <3> QED BY <3>1, <3>2
  <2>2. CASE PublishRoom(p, v)
    <3> USE <2>2 DEF PublishRoom
    <3>0. ~destroyed
      BY <1>r DEF Waiters
    <3>1. /\ Stored'
          /\ \A d \in Docs : Cardinality(CellsOf(d)') =
                                Cardinality(CellsOf(d)) + (IF v = d THEN 1 ELSE 0)
      BY <2>0, <3>0, StorePut
    <3>2. ASSUME NEW d \in Docs PROVE Owners(d)' = 1
      <4>1. Cardinality(Carriers(d)') = Cardinality(Carriers(d)) - (IF v = d THEN 1 ELSE 0)
        BY <2>p
      <4>2. frees' = frees /\ held' = held /\ ~destroyed'
        BY <3>0 DEF Put
      <4> QED BY <4>1, <4>2, <3>0, <3>1, <1>n, <2>0 DEF Owners
    <3> QED BY <3>1, <3>2
  <2>3. CASE PublishWait(p, v)
    <3> USE <2>3 DEF PublishWait
    <3>1. Stored'
      BY DEF OwnerInv, Stored, ringVars
    <3>2. carrying' = carrying /\ queue' = queue /\ destroyed' = destroyed /\ frees' = frees /\ held' = held
      BY <1>r DEF TypeOK, ringVars, readVars
    <3> QED BY <3>1, <3>2, <2>0, <1>n DEF Owners, Carriers, CellsOf
  <2> QED BY <2>1, <2>2, <2>3
<1>3. ASSUME SpuriousWakeup \/ ConsumeTimeout \/ Close \/ (Consume /\ ConsumeEmpty) \/ UNCHANGED vars
      PROVE  Stored' /\ \A d \in Docs : Owners(d)' = 1
  <2>1. /\ carrying' = carrying /\ queue' = queue /\ destroyed' = destroyed /\ frees' = frees
        /\ held' = held /\ fresh' = fresh /\ head' = head /\ tail' = tail
    BY <1>3 DEF SpuriousWakeup, ConsumeTimeout, Close, ConsumeEmpty, vars, ringVars, userVars,
       readVars
  <2>2. Stored'
    BY <2>1 DEF OwnerInv, Stored
  <2> QED BY <2>1, <2>2, <1>n DEF Owners, Carriers, CellsOf
<1>4. ASSUME Consume, ConsumeTake
      PROVE  Stored' /\ \A d \in Docs : Owners(d)' = 1
  <2> USE <1>4 DEF Consume, ConsumeTake, CellEmptied
  <2>0. ~destroyed /\ ~destroyed' /\ held = NoDoc
    BY <1>r DEF Waiters, Empty
  <2>1. /\ Stored' /\ queue[Cell(tail)].doc \in Docs \cup {NoDoc}
        /\ \A d \in Docs :
              Cardinality(CellsOf(d)') =
                 Cardinality(CellsOf(d)) - (IF queue[Cell(tail)].doc = d THEN 1 ELSE 0)
    BY <2>0, StoreTake
  <2>2. ASSUME NEW d \in Docs PROVE Owners(d)' = 1
    <3>1. /\ Carriers(d)' = Carriers(d) /\ frees' = frees /\ fresh' = fresh
          /\ held' = queue[Cell(tail)].doc /\ held # d
      BY <2>0, RingAssumption DEF Carriers, userVars
    <3> QED BY <3>1, <2>0, <2>1, <1>n DEF Owners
  <2> QED BY <2>1, <2>2
<1>5. ASSUME Release
      PROVE  Stored' /\ \A d \in Docs : Owners(d)' = 1
  <2> USE <1>5 DEF Release
  <2>1. Stored'
    BY DEF OwnerInv, Stored, ringVars
  <2>2. ASSUME NEW d \in Docs PROVE Owners(d)' = 1
    <3>1. /\ Carriers(d)' = Carriers(d) /\ CellsOf(d)' = CellsOf(d) /\ fresh' = fresh
          /\ destroyed' = destroyed /\ held' # d
          /\ frees'[d] = frees[d] + (IF held = d THEN 1 ELSE 0)
      BY <1>r, FreedCounts, RingAssumption DEF Carriers, CellsOf, ringVars, TypeOK
    <3> QED BY <3>1, <1>n DEF Owners
  <2> QED BY <2>1, <2>2
<1>6. ASSUME Destroy
      PROVE  Stored' /\ \A d \in Docs : Owners(d)' = 1
  <2> USE <1>6 DEF Destroy
  <2>1. Stored'
    BY DEF Stored
  <2>2. ASSUME NEW d \in Docs PROVE Owners(d)' = 1
    <3>1. /\ Carriers(d)' = Carriers(d) /\ fresh' = fresh /\ held' = held /\ destroyed'
          /\ frees'[d] = frees[d] + Cardinality({i \in tail .. head - 1 : queue[Cell(i)].doc = d})
      BY DEF Carriers, readVars
    <3>2. frees'[d] = frees[d] + Cardinality(CellsOf(d))
      BY <3>1, QueuedAreCells
    <3> QED BY <3>1, <3>2, <1>n DEF Owners
  <2> QED BY <2>1, <2>2
<1> QED BY <1>1, <1>2, <1>3, <1>4, <1>5, <1>6 DEF Next, Consume

(* ring.h, "The ring owns every document it holds and frees the ones it       *)
(* drops": with any number of producers and any depth, no document is lost,   *)
(* freed twice, or still in a cell after the consumer or a drop took it.      *)
THEOREM RingOneOwner == Spec => []OneOwner
<1>1. Init => OwnerInv
  <2> SUFFICES ASSUME Init PROVE Stored /\ \A d \in Docs : Owners(d) = 1
    BY RingInitially DEF OwnerInv
  <2>1. Stored
    BY DEF Init, Stored
  <2>2. ASSUME NEW d \in Docs PROVE Owners(d) = 1
    <3>1. Carriers(d) = {} /\ CellsOf(d) = {}
      BY RingAssumption DEF Init, Carriers, CellsOf
    <3>2. Cardinality({}) = 0
      BY FS_EmptySet
    <3> QED BY <3>1, <3>2, RingAssumption DEF Init, Owners
  <2> QED BY <2>1, <2>2
<1>2. OwnerInv => OneOwner
  BY DEF OwnerInv, OneOwner, Owners, Carriers, CellsOf
<1> QED BY <1>1, <1>2, OwnerStep, PTL DEF Spec
=============================================================================
