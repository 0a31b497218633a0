-------------------------- MODULE ConfirmedProofs ---------------------------
(***************************************************************************)
(* Proofs about Confirmed, for any blocks on any number of forks: which    *)
(* rows the swaps table holds, and which balances; that a bar of the       *)
(* registry is the bar of the swaps in its bucket, whatever was folded     *)
(* into it in whatever order; and that the table of bars agrees.           *)
(***************************************************************************)
EXTENDS Confirmed, FiniteSetTheorems, SequenceTheorems, WellFoundedInduction, TLAPS

-----------------------------------------------------------------------------
(* NATURAL NUMBERS.  The theorems of NaturalsInduction take an operator;     *)
(* these take a set, and what is proved of every number is membership in it. *)

(* A set of natural numbers that has a member has a least one.               *)
LEMMA LeastNatural ==
    ASSUME NEW T, T \subseteq Nat, T # {}
    PROVE  \E x \in T : \A y \in T : x <= y
<1>1. IsWellFoundedOn(OpToRel(<, Nat), Nat)
  BY NatLessThanWellFounded
<1>2. PICK x \in T : \A y \in T : ~ (<<y, x>> \in OpToRel(<, Nat))
  BY <1>1, WFMin
<1>3. \A y \in T : ~ (y < x)
  BY <1>2 DEF OpToRel
<1> QED BY <1>3

(* A set that has 0, and with every number its successor, has them all.      *)
LEMMA SetInduction ==
    ASSUME NEW S, 0 \in S, \A n \in Nat : n \in S => n + 1 \in S
    PROVE  \A n \in Nat : n \in S
<1> DEFINE T == Nat \ S
<1>1. SUFFICES ASSUME T # {} PROVE FALSE
  OBVIOUS
<1>2. PICK x \in T : \A y \in T : x <= y
  BY <1>1, LeastNatural
<1>3. x # 0 /\ x \in Nat
  OBVIOUS
<1>4. x - 1 \in Nat /\ x - 1 \notin T
  BY <1>2, <1>3
<1> QED BY <1>4, <1>3

-----------------------------------------------------------------------------

(* The blocks whose rows the tier still has. *)
Kept == {b \in indexed : b.slot >= pruned}

(* What is indexed: one block of a slot, while the process runs those of the  *)
(* chain, and every block of the chain below the slot the tier is pruned to.  *)
ChainInv ==
    /\ final \in Nat /\ pruned \in Nat /\ pruned <= final + 1
    /\ indexed \subseteq Blocks
    /\ \A b, c \in indexed : b.slot = c.slot => b = c
    /\ up => \A b \in indexed : canon[b.slot] = b.fork
    /\ up => \A b \in Blocks : b.slot < pruned /\ canon[b.slot] = b.fork => b \in indexed

(* The table has the paths of the kept blocks, and at each the row that came  *)
(* first.                                                                     *)
SwapsInv ==
    /\ DOMAIN swaps = UNION {Paths(b.rows) : b \in Kept}
    /\ \A b \in Kept : \A p \in Paths(b.rows) : swaps[p] = FirstAt(b.rows, p)

(* A block that was indexed has a row as new as it in the balances, unless it *)
(* was pruned or lost in a reorg.                                             *)
BalancesInv ==
    /\ BalancesNewest
    /\ \A a \in Accounts \ lost : \A c \in indexed :
          a \in DOMAIN c.balances =>
             (a \in DOMAIN balances /\ c.slot <= balances[a].slot) \/ c.slot < pruned

(* The inductive invariant. *)
ConfirmedInv == ChainInv /\ SwapsInv /\ BalancesInv

-----------------------------------------------------------------------------
(* What a path says of the rows of a block: the first row at it is one of     *)
(* them, and names the slot of the block (event_path, pg_store.c 448-459).    *)
LEMMA PathOfBlock ==
    ASSUME NEW b \in Blocks, NEW p \in Paths(b.rows)
    PROVE  /\ p[1] = b.slot
           /\ \E i \in DOMAIN b.rows : FirstAt(b.rows, p) = b.rows[i] /\ Path(b.rows[i]) = p
           /\ FirstAt(b.rows, p).slot = b.slot
<1> DEFINE I == {i \in DOMAIN b.rows : Path(b.rows[i]) = p}
<1>1. I # {} /\ I \subseteq Nat
  BY ConfirmedAssumption DEF Paths
<1>2. \E x \in I : \A y \in I : x <= y
  BY <1>1, LeastNatural
<1>3. Min(I) \in I
  BY <1>2 DEF Min
<1>4. FirstAt(b.rows, p) = b.rows[Min(I)]
  BY DEF FirstAt
<1> HIDE DEF I
<1>5. \A i \in I : i \in DOMAIN b.rows /\ Path(b.rows[i]) = p /\ b.rows[i].slot = b.slot
  BY ConfirmedAssumption DEF I
<1>6. Path(b.rows[Min(I)])[1] = b.rows[Min(I)].slot
  BY DEF Path
<1> QED BY <1>3, <1>4, <1>5, <1>6

(* Slots are positive numbers. *)
LEMMA SlotType ==
    ASSUME NEW b \in Blocks
    PROVE  b.slot \in Slots /\ b.slot \in Nat /\ b.slot >= 1
<1>1. Slots \subseteq Nat \ {0}
  BY ConfirmedAssumption, Zenon
<1>2. b.slot \in Slots
  BY DEF Slots
<1>3. \A n \in Nat \ {0} : n >= 1
  OBVIOUS
<1> QED BY <1>1, <1>2, <1>3

(* No row of the empty database. *)
LEMMA ConfirmedInitially == Init => ConfirmedInv
<1> SUFFICES ASSUME Init PROVE ConfirmedInv
  OBVIOUS
<1> USE DEF Init
<1>1. ChainInv
  BY SlotType DEF ChainInv
<1>2. SwapsInv
  BY DEF SwapsInv, Kept, NoRows
<1>3. BalancesInv
  BY DEF BalancesInv, BalancesNewest, NoRows
<1> QED BY <1>1, <1>2, <1>3 DEF ConfirmedInv

-----------------------------------------------------------------------------
(* A block of the chain that was not indexed is newer than what was pruned,   *)
(* and no other block of its slot is there.                                   *)
LEMMA NewBlock ==
    ASSUME ChainInv, up, NEW b \in Blocks, canon[b.slot] = b.fork, b \notin indexed
    PROVE  /\ b.slot >= pruned
           /\ \A c \in indexed : c.slot # b.slot
<1>1. b.slot >= pruned
  BY SlotType DEF ChainInv
<1>2. ASSUME NEW c \in indexed, c.slot = b.slot PROVE FALSE
  <2>1. c \in Blocks /\ c.fork = b.fork /\ c # b
    BY <1>2 DEF ChainInv
  <2> QED BY <2>1, <1>2, ConfirmedAssumption
<1> QED BY <1>1, <1>2

(* A block is written (store_write, pg_store.c).                              *)
LEMMA IndexKeeps ==
    ASSUME ConfirmedInv, NEW b \in Blocks, up, canon[b.slot] = b.fork, b \notin indexed,
           swaps' = PutSwaps(swaps, b.rows), balances' = PutBalances(balances, b),
           indexed' = indexed \cup {b}, UNCHANGED <<up, canon, final, pruned, lost>>
    PROVE  ConfirmedInv'
<1>0. b.slot \in Nat /\ b.slot >= pruned /\ \A c \in indexed : c.slot # b.slot
  BY NewBlock, SlotType DEF ConfirmedInv
<1>t. pruned \in Nat /\ \A c \in indexed : c \in Blocks /\ c.slot \in Nat
  BY SlotType DEF ConfirmedInv, ChainInv
<1>1. ChainInv'
  BY <1>0 DEF ConfirmedInv, ChainInv
<1>2. SwapsInv'
  <2>0. Kept' = Kept \cup {b}
    BY <1>0, <1>t DEF Kept
  <2>1. ASSUME NEW p \in Paths(b.rows) PROVE p \notin DOMAIN swaps
    <3> SUFFICES ASSUME p \in DOMAIN swaps PROVE FALSE
      OBVIOUS
    <3>1. PICK c \in Kept : p \in Paths(c.rows)
      BY DEF ConfirmedInv, SwapsInv
    <3>2. c \in Blocks /\ c \in indexed
      BY <1>t DEF Kept
    <3>3. p[1] = b.slot /\ p[1] = c.slot
      BY <3>1, <3>2, PathOfBlock
    <3> QED BY <3>2, <3>3, <1>0
  <2>2. DOMAIN swaps' = DOMAIN swaps \cup Paths(b.rows)
    BY DEF PutSwaps
  <2>3. DOMAIN swaps' = UNION {Paths(c.rows) : c \in Kept'}
    BY <2>0, <2>2 DEF ConfirmedInv, SwapsInv
  <2>4. ASSUME NEW c \in Kept', NEW p \in Paths(c.rows) PROVE swaps'[p] = FirstAt(c.rows, p)
    <3>1. CASE c = b
      <4>1. p \notin DOMAIN swaps /\ p \in DOMAIN swaps \cup Paths(b.rows)
        BY <3>1, <2>1
      <4> QED BY <3>1, <4>1 DEF PutSwaps
    <3>2. CASE c \in Kept
      <4>1. p \in DOMAIN swaps /\ swaps[p] = FirstAt(c.rows, p)
        BY <3>2 DEF ConfirmedInv, SwapsInv
      <4> QED BY <4>1 DEF PutSwaps
    <3> QED BY <3>1, <3>2, <2>0
  <2> QED BY <2>3, <2>4 DEF SwapsInv
<1>3. BalancesInv'
  <2> DEFINE Wins(a) == a \in DOMAIN b.balances /\ (a \in DOMAIN balances => balances[a].slot <= b.slot)
  <2>0. /\ DOMAIN balances' = DOMAIN balances \cup DOMAIN b.balances
        /\ \A a \in DOMAIN balances' :
              balances'[a] = IF Wins(a) THEN [slot |-> b.slot, value |-> b.balances[a]]
                             ELSE balances[a]
    BY DEF PutBalances
  <2>1. \A a \in DOMAIN balances : \E c \in indexed :
           /\ a \in DOMAIN c.balances
           /\ balances[a] = [slot |-> c.slot, value |-> c.balances[a]]
           /\ a \in lost \/ \A e \in indexed : a \in DOMAIN e.balances => e.slot <= c.slot
    BY DEF ConfirmedInv, BalancesInv, BalancesNewest
  <2>2. \A a \in DOMAIN balances : balances[a].slot \in Nat
    BY <2>1, <1>t
  <2>3. \A a \in Accounts \ lost : \A c \in indexed :
           a \in DOMAIN c.balances =>
              (a \in DOMAIN balances /\ c.slot <= balances[a].slot) \/ c.slot < pruned
    BY DEF ConfirmedInv, BalancesInv
  <2>a. \A c \in Blocks : DOMAIN c.balances \subseteq Accounts
    BY DEF Accounts
  <2> HIDE DEF Wins
  <2>b. ASSUME NEW a \in DOMAIN balances'
        PROVE  /\ Wins(a) => balances'[a].slot = b.slot
               /\ ~Wins(a) => balances'[a] = balances[a]
    <3>1. balances'[a] = IF Wins(a) THEN [slot |-> b.slot, value |-> b.balances[a]] ELSE balances[a]
      BY <2>0
    <3>2. CASE Wins(a)
      <4>1. balances'[a] = [slot |-> b.slot, value |-> b.balances[a]]
        BY <3>1, <3>2
      <4> QED BY <3>2, <4>1
    <3>3. CASE ~Wins(a)
      BY <3>1, <3>3
    <3> QED BY <3>2, <3>3
  <2>4. ASSUME NEW a \in DOMAIN balances'
        PROVE  \E c \in indexed' :
                  /\ a \in DOMAIN c.balances
                  /\ balances'[a] = [slot |-> c.slot, value |-> c.balances[a]]
                  /\ a \in lost' \/ \A e \in indexed' : a \in DOMAIN e.balances => e.slot <= c.slot
    <3>1. CASE Wins(a)
      <4>1. a \in DOMAIN b.balances /\ balances'[a] = [slot |-> b.slot, value |-> b.balances[a]]
        BY <3>1, <2>0 DEF Wins
      <4>2. ASSUME a \notin lost, NEW e \in indexed', a \in DOMAIN e.balances PROVE e.slot <= b.slot
        <5>1. CASE e = b
          BY <5>1, <1>0
        <5>2. CASE e \in indexed
          <6>1. a \in Accounts \ lost
            BY <4>2, <5>2, <1>t, <2>a
          <6>2. (a \in DOMAIN balances /\ e.slot <= balances[a].slot) \/ e.slot < pruned
            BY <6>1, <4>2, <5>2, <2>3
          <6>3. a \in DOMAIN balances => balances[a].slot <= b.slot
            BY <3>1 DEF Wins
          <6> QED BY <6>2, <6>3, <5>2, <2>2, <1>0, <1>t
        <5> QED BY <5>1, <5>2
      <4> QED BY <4>1, <4>2
    <3>2. CASE ~Wins(a)
      <4>1. a \in DOMAIN balances /\ balances'[a] = balances[a]
        BY <3>2, <2>0 DEF Wins
      <4>2. PICK c \in indexed :
               /\ a \in DOMAIN c.balances
               /\ balances[a] = [slot |-> c.slot, value |-> c.balances[a]]
               /\ a \in lost \/ \A e \in indexed : a \in DOMAIN e.balances => e.slot <= c.slot
        BY <4>1, <2>1
      <4>3. a \in DOMAIN b.balances => b.slot <= c.slot
        <5>1. a \in DOMAIN b.balances => ~(balances[a].slot <= b.slot)
          BY <3>2, <4>1 DEF Wins
        <5>2. balances[a].slot = c.slot /\ c.slot \in Nat
          BY <4>2, <1>t
        <5> QED BY <5>1, <5>2, <1>0
      <4> QED BY <4>1, <4>2, <4>3
    <3> QED BY <3>1, <3>2
  <2>5. ASSUME NEW a \in Accounts \ lost, NEW c \in indexed', a \in DOMAIN c.balances
        PROVE  (a \in DOMAIN balances' /\ c.slot <= balances'[a].slot) \/ c.slot < pruned
    <3>1. CASE c = b
      <4>1. a \in DOMAIN balances' /\ a \in DOMAIN b.balances
        BY <3>1, <2>5, <2>0
      <4>2. CASE Wins(a)
        <5>1. balances'[a].slot = b.slot
          BY <4>1, <4>2, <2>b
        <5> QED BY <5>1, <3>1, <4>1, <1>0
      <4>3. CASE ~Wins(a)
        <5>1. balances'[a].slot = balances[a].slot /\ a \in DOMAIN balances
          BY <4>1, <4>3, <2>b DEF Wins
        <5>2. ~(balances[a].slot <= b.slot)
          BY <4>1, <4>3 DEF Wins
        <5> QED BY <5>1, <5>2, <3>1, <4>1, <2>2, <1>0
      <4> QED BY <4>2, <4>3
    <3>2. CASE c \in indexed
      <4>1. (a \in DOMAIN balances /\ c.slot <= balances[a].slot) \/ c.slot < pruned
        BY <3>2, <2>3, <2>5
      <4>2. CASE a \in DOMAIN balances /\ c.slot <= balances[a].slot
        <5>1. a \in DOMAIN balances' /\ balances[a].slot <= balances'[a].slot /\ balances'[a].slot \in Nat
          <6>1. a \in DOMAIN balances' /\ balances[a].slot \in Nat
            BY <4>2, <2>0, <2>2
          <6>2. CASE Wins(a)
            <7>1. balances'[a].slot = b.slot
              BY <6>1, <6>2, <2>b
            <7>2. balances[a].slot <= b.slot
              BY <6>2, <4>2 DEF Wins
            <7> QED BY <6>1, <7>1, <7>2, <1>0
          <6>3. CASE ~Wins(a)
            <7>1. balances'[a] = balances[a]
              BY <6>1, <6>3, <2>b
            <7> QED BY <6>1, <7>1
          <6> QED BY <6>2, <6>3
        <5> QED BY <5>1, <4>2, <2>2, <1>t, <3>2
      <4> QED BY <4>1, <4>2
    <3> QED BY <3>1, <3>2
  <2> QED BY <2>4, <2>5 DEF BalancesInv, BalancesNewest
<1> QED BY <1>1, <1>2, <1>3 DEF ConfirmedInv

(* The chain leaves a fork (store_reorg, pg_store.c).                         *)
LEMMA ReorgKeeps ==
    ASSUME ConfirmedInv, NEW from \in Slots, NEW fork \in Forks, up, from > final,
           canon' = [s \in Slots |-> IF s >= from THEN fork ELSE canon[s]],
           swaps' = SurvivingSwaps(from), balances' = SurvivingBalances(from),
           indexed' = {b \in indexed : b.slot < from},
           lost' = lost \cup (DOMAIN balances \ DOMAIN balances'),
           UNCHANGED <<up, final, pruned>>
    PROVE  ConfirmedInv'
<1>0. from \in Nat /\ pruned \in Nat /\ final \in Nat /\ pruned <= from
  BY ConfirmedAssumption DEF ConfirmedInv, ChainInv
<1>t. \A b \in Blocks : b.slot \in Slots /\ b.slot \in Nat
  BY SlotType
<1>b. indexed \subseteq Blocks /\ indexed' \subseteq indexed
  BY DEF ConfirmedInv, ChainInv
<1>c. \A b \in Blocks : b.slot < from => canon'[b.slot] = canon[b.slot]
  BY <1>t, <1>0
<1>1. ChainInv'
  <2>1. \A b, c \in indexed' : b.slot = c.slot => b = c
    BY <1>b DEF ConfirmedInv, ChainInv
  <2>2. \A b \in indexed' : canon'[b.slot] = b.fork
    BY <1>b, <1>c DEF ConfirmedInv, ChainInv
  <2>3. \A b \in Blocks : b.slot < pruned /\ canon'[b.slot] = b.fork => b \in indexed'
    BY <1>0, <1>t, <1>c DEF ConfirmedInv, ChainInv
  <2> QED BY <2>1, <2>2, <2>3, <1>b DEF ConfirmedInv, ChainInv
<1>2. SwapsInv'
  <2>0. Kept' = {b \in Kept : b.slot < from}
    BY DEF Kept
  <2>1. \A p \in DOMAIN swaps, b \in Kept : p \in Paths(b.rows) => swaps[p].slot = b.slot
    BY <1>b, PathOfBlock DEF ConfirmedInv, SwapsInv, Kept
  <2>2. /\ DOMAIN swaps' = {p \in DOMAIN swaps : swaps[p].slot < from}
        /\ \A p \in DOMAIN swaps' : swaps'[p] = swaps[p]
    BY DEF SurvivingSwaps, Only
  <2>3. DOMAIN swaps = UNION {Paths(b.rows) : b \in Kept}
    BY DEF ConfirmedInv, SwapsInv
  <2>4. DOMAIN swaps' = UNION {Paths(b.rows) : b \in Kept'}
    BY <2>0, <2>1, <2>2, <2>3
  <2>5. ASSUME NEW b \in Kept', NEW p \in Paths(b.rows) PROVE swaps'[p] = FirstAt(b.rows, p)
    <3>1. p \in DOMAIN swaps' /\ b \in Kept
      BY <2>0, <2>4
    <3> QED BY <3>1, <2>2 DEF ConfirmedInv, SwapsInv
  <2> QED BY <2>4, <2>5 DEF SwapsInv
<1>3. BalancesInv'
  <2>0. /\ DOMAIN balances' = {a \in DOMAIN balances : balances[a].slot < from}
        /\ \A a \in DOMAIN balances' : balances'[a] = balances[a]
    BY DEF SurvivingBalances, Only
  <2>1. ASSUME NEW a \in DOMAIN balances'
        PROVE  \E c \in indexed' :
                  /\ a \in DOMAIN c.balances
                  /\ balances'[a] = [slot |-> c.slot, value |-> c.balances[a]]
                  /\ a \in lost' \/ \A e \in indexed' : a \in DOMAIN e.balances => e.slot <= c.slot
    <3>1. PICK c \in indexed :
             /\ a \in DOMAIN c.balances
             /\ balances[a] = [slot |-> c.slot, value |-> c.balances[a]]
             /\ a \in lost \/ \A e \in indexed : a \in DOMAIN e.balances => e.slot <= c.slot
      BY <2>0 DEF ConfirmedInv, BalancesInv, BalancesNewest
    <3>2. c \in indexed' /\ balances'[a] = balances[a]
      BY <3>1, <2>0
    <3> QED BY <3>1, <3>2, <1>b
  <2>2. ASSUME NEW a \in Accounts \ lost', NEW c \in indexed', a \in DOMAIN c.balances
        PROVE  (a \in DOMAIN balances' /\ c.slot <= balances'[a].slot) \/ c.slot < pruned
    <3>1. a \in Accounts \ lost /\ c \in indexed /\ (a \in DOMAIN balances => a \in DOMAIN balances')
      BY <1>b
    <3>2. (a \in DOMAIN balances /\ c.slot <= balances[a].slot) \/ c.slot < pruned
      BY <3>1, <2>2 DEF ConfirmedInv, BalancesInv
    <3> QED BY <3>1, <3>2, <2>0
  <2> QED BY <2>1, <2>2 DEF BalancesInv, BalancesNewest
<1> QED BY <1>1, <1>2, <1>3 DEF ConfirmedInv

(* Finalized rows leave the tier (store_prune, pg_store.c).                   *)
LEMMA PruneKeeps ==
    ASSUME ConfirmedInv, NEW below \in Int, Prune(below)
    PROVE  ConfirmedInv'
<1> USE DEF Prune
<1>0. /\ pruned \in Nat /\ final \in Nat /\ Margin \in Nat /\ pruned < below /\ below \in Nat
      /\ below + Margin <= final + 1 /\ pruned' = below
  BY ConfirmedAssumption DEF ConfirmedInv, ChainInv
<1>t. \A b \in Blocks : b.slot \in Nat
  BY SlotType
<1>b. indexed \subseteq Blocks /\ indexed' = indexed
  BY DEF ConfirmedInv, ChainInv
<1>1. ChainInv'
  <2>1. \A b \in Blocks : b.slot < pruned' /\ canon'[b.slot] = b.fork => b \in indexed'
    BY <1>0, <1>t
  <2>2. pruned' \in Nat /\ pruned' <= final' + 1 /\ final' \in Nat
    BY <1>0
  <2> QED BY <2>1, <2>2 DEF ConfirmedInv, ChainInv
<1>2. SwapsInv'
  <2>0. Kept' = {b \in Kept : b.slot >= below}
    BY <1>0, <1>b, <1>t DEF Kept
  <2>1. \A p \in DOMAIN swaps, b \in Kept : p \in Paths(b.rows) => swaps[p].slot = b.slot
    BY <1>b, PathOfBlock DEF ConfirmedInv, SwapsInv, Kept
  <2>2. /\ DOMAIN swaps' = {p \in DOMAIN swaps : swaps[p].slot >= below}
        /\ \A p \in DOMAIN swaps' : swaps'[p] = swaps[p]
    BY DEF Only
  <2>3. DOMAIN swaps = UNION {Paths(b.rows) : b \in Kept}
    BY DEF ConfirmedInv, SwapsInv
  <2>4. DOMAIN swaps' = UNION {Paths(b.rows) : b \in Kept'}
    <3>1. ASSUME NEW p \in DOMAIN swaps' PROVE \E b \in Kept' : p \in Paths(b.rows)
      <4>1. PICK b \in Kept : p \in Paths(b.rows)
        BY <2>2, <2>3
      <4> QED BY <4>1, <2>0, <2>1, <2>2
    <3>2. ASSUME NEW b \in Kept', NEW p \in Paths(b.rows) PROVE p \in DOMAIN swaps'
      <4>1. b \in Kept /\ p \in DOMAIN swaps /\ b.slot >= below
        BY <2>0, <2>3
      <4> QED BY <4>1, <2>1, <2>2
    <3> QED BY <3>1, <3>2
  <2>5. ASSUME NEW b \in Kept', NEW p \in Paths(b.rows) PROVE swaps'[p] = FirstAt(b.rows, p)
    <3>1. p \in DOMAIN swaps' /\ b \in Kept
      BY <2>0, <2>4
    <3> QED BY <3>1, <2>2 DEF ConfirmedInv, SwapsInv
  <2> QED BY <2>4, <2>5 DEF SwapsInv
<1>3. BalancesInv'
  <2>0. /\ DOMAIN balances' = {a \in DOMAIN balances : balances[a].slot >= below}
        /\ \A a \in DOMAIN balances' : balances'[a] = balances[a]
    BY DEF Only
  <2>1. BalancesNewest'
    <3>1. indexed' = indexed /\ lost' = lost
      BY <1>b
    <3> HIDE DEF Prune
    <3> SUFFICES ASSUME NEW a \in DOMAIN balances'
                 PROVE  \E n \in indexed :
                           /\ a \in DOMAIN n.balances
                           /\ balances'[a] = [slot |-> n.slot, value |-> n.balances[a]]
                           /\ a \in lost \/ \A c \in indexed : a \in DOMAIN c.balances => c.slot <= n.slot
      BY <3>1 DEF BalancesNewest
    <3>2. a \in DOMAIN balances /\ balances'[a] = balances[a]
      BY <2>0
    <3> QED BY <3>2 DEF ConfirmedInv, BalancesInv, BalancesNewest
  <2>2. ASSUME NEW a \in Accounts \ lost', NEW c \in indexed', a \in DOMAIN c.balances
        PROVE  (a \in DOMAIN balances' /\ c.slot <= balances'[a].slot) \/ c.slot < pruned'
    <3>1. a \in Accounts \ lost /\ c \in indexed /\ c.slot \in Nat
      BY <1>b, <1>t
    <3>2. (a \in DOMAIN balances /\ c.slot <= balances[a].slot) \/ c.slot < pruned
      BY <3>1, <2>2 DEF ConfirmedInv, BalancesInv
    <3>3. a \in DOMAIN balances => balances[a].slot \in Nat
      BY <1>b, <1>t DEF ConfirmedInv, BalancesInv, BalancesNewest
    <3> QED BY <3>1, <3>2, <3>3, <2>0, <1>0
  <2> QED BY <2>1, <2>2 DEF BalancesInv
<1> QED BY <1>1, <1>2, <1>3 DEF ConfirmedInv

(* The process ends, or nothing happens to it and the chain. *)
StopsOrStays == up' = FALSE \/ (up' = up /\ canon' = canon)

(* Steps that leave the tables, the history and the chain alone.              *)
LEMMA IdleKeeps ==
    ASSUME ConfirmedInv, UNCHANGED <<swaps, balances, indexed, pruned, lost>>,
           final' \in Nat, final <= final', StopsOrStays
    PROVE  ConfirmedInv'
<1>1. ChainInv'
  <2>0. final \in Nat /\ pruned \in Nat /\ pruned <= final + 1 /\ indexed \subseteq Blocks
    BY DEF ConfirmedInv, ChainInv
  <2>a. pruned' = pruned /\ indexed' = indexed
    OBVIOUS
  <2>b. pruned <= final' + 1
    <3>1. \A x, y, z \in Nat : x <= y + 1 /\ y <= z => x <= z + 1
      OBVIOUS
    <3> QED BY <3>1, <2>0
  <2>1. pruned' \in Nat /\ pruned' <= final' + 1 /\ indexed' \subseteq Blocks
    BY <2>0, <2>a, <2>b
  <2>2. \A b, c \in indexed' : b.slot = c.slot => b = c
    BY DEF ConfirmedInv, ChainInv
  <2>3. up' => \A b \in indexed' : canon'[b.slot] = b.fork
    BY DEF ConfirmedInv, ChainInv, StopsOrStays
  <2>4. up' => \A b \in Blocks : b.slot < pruned' /\ canon'[b.slot] = b.fork => b \in indexed'
    BY DEF ConfirmedInv, ChainInv, StopsOrStays
  <2> QED BY <2>1, <2>2, <2>3, <2>4 DEF ChainInv
<1>2. SwapsInv'
  BY DEF ConfirmedInv, SwapsInv, Kept
<1>3. BalancesInv'
  BY DEF ConfirmedInv, BalancesInv, BalancesNewest
<1> QED BY <1>1, <1>2, <1>3 DEF ConfirmedInv

(* Every step preserves the invariant, if no block is delivered twice.        *)
LEMMA ConfirmedStep ==
    ASSUME ~Redeliver, ConfirmedInv, [Next]_vars
    PROVE  ConfirmedInv'
<1>0. final \in Nat /\ final <= final
  BY DEF ConfirmedInv, ChainInv
<1>1. ASSUME NEW b \in Blocks, Index(b) PROVE ConfirmedInv'
  <2>1. CASE indexed' = indexed \cup {b} /\ up' = up
             /\ swaps' = PutSwaps(swaps, b.rows) /\ balances' = PutBalances(balances, b)
    BY <1>1, <2>1, IndexKeeps DEF Index
  <2>2. CASE RollBack(b) /\ up' = FALSE /\ UNCHANGED indexed
    BY <1>0, <1>1, <2>2, IdleKeeps DEF StopsOrStays, Index, RollBack, tables
  <2> QED BY <1>1, <2>1, <2>2 DEF Index
<1>2. ASSUME NEW from \in Slots, NEW fork \in Forks, Reorg(from, fork) PROVE ConfirmedInv'
  <2>1. CASE /\ swaps' = SurvivingSwaps(from)
             /\ balances' = SurvivingBalances(from)
             /\ indexed' = {b \in indexed : b.slot < from}
             /\ lost' = lost \cup (DOMAIN balances \ DOMAIN balances')
             /\ UNCHANGED up
    BY <1>2, <2>1, ReorgKeeps DEF Reorg
  <2>2. CASE up' = FALSE /\ UNCHANGED <<tables, indexed, lost>>
    BY <1>0, <1>2, <2>2, IdleKeeps DEF StopsOrStays, Reorg, tables
  <2> QED BY <1>2, <2>1, <2>2 DEF Reorg
<1>3. CASE Finalize
  <2>1. final' \in Nat /\ final <= final'
    BY <1>0, <1>3, ConfirmedAssumption DEF Finalize
  <2> QED BY <1>3, <2>1, IdleKeeps DEF StopsOrStays, Finalize, tables, histVars
<1>4. ASSUME NEW below \in 1 .. Max(Slots) + 1, Prune(below) PROVE ConfirmedInv'
  BY <1>4, PruneKeeps
<1>5. CASE UNCHANGED vars
  BY <1>0, <1>5, IdleKeeps DEF StopsOrStays, vars, tables, histVars
<1> QED BY <1>1, <1>2, <1>3, <1>4, <1>5 DEF Next

-----------------------------------------------------------------------------
(* The invariant holds in every reachable state of one life. *)
THEOREM ConfirmedInvariant == ~Redeliver => (Spec => []ConfirmedInv)
<1> SUFFICES ASSUME ~Redeliver PROVE Spec => []ConfirmedInv
  OBVIOUS
<1>1. ConfirmedInv /\ [Next]_vars => ConfirmedInv'
  BY ConfirmedStep
<1> QED BY <1>1, ConfirmedInitially, PTL DEF Spec

(* pg_store.c 187-209: on any chain and through any number of reorgs and      *)
(* prunes, the balance of an account is the newest this chain left, whatever  *)
(* order the blocks came in, unless a reorg deleted its row.                  *)
THEOREM ConfirmedBalancesNewest == ~Redeliver => (Spec => []BalancesNewest)
<1> SUFFICES ASSUME ~Redeliver PROVE Spec => []BalancesNewest
  OBVIOUS
<1>1. ConfirmedInv => BalancesNewest
  BY DEF ConfirmedInv, BalancesInv
<1> QED BY <1>1, ConfirmedInvariant, PTL

(* pg_store.h 12-14, "identifies an event uniquely": no two swaps of a block  *)
(* have one path.                                                             *)
PathsUnique ==
    \A b \in Blocks : \A i, j \in DOMAIN b.rows : i # j => Path(b.rows[i]) # Path(b.rows[j])

(* What the invariant says of the table.                                     *)
LEMMA TableExact ==
    ASSUME PathsUnique, ConfirmedInv
    PROVE  RowsExact
<1>0. /\ DOMAIN swaps = UNION {Paths(b.rows) : b \in Kept} /\ Kept \subseteq Blocks
      /\ \A b \in Kept : \A p \in Paths(b.rows) : swaps[p] = FirstAt(b.rows, p)
  BY DEF ConfirmedInv, SwapsInv, ChainInv, Kept
<1>1. ASSUME NEW p \in DOMAIN swaps PROVE \E b \in Kept : swaps[p] \in ToSet(b.rows)
  <2>1. PICK b \in Kept : p \in Paths(b.rows)
    BY <1>0
  <2>2. \E i \in DOMAIN b.rows : swaps[p] = b.rows[i]
    BY <2>1, <1>0, PathOfBlock
  <2> QED BY <2>1, <2>2 DEF ToSet
<1>2. ASSUME NEW b \in Kept, NEW i \in DOMAIN b.rows
      PROVE  \E p \in DOMAIN swaps : swaps[p] = b.rows[i]
  <2> DEFINE p == Path(b.rows[i])
  <2>1. p \in Paths(b.rows) /\ p \in DOMAIN swaps /\ swaps[p] = FirstAt(b.rows, p) /\ b \in Blocks
    BY <1>0 DEF Paths
  <2>2. PICK j \in DOMAIN b.rows : FirstAt(b.rows, p) = b.rows[j] /\ Path(b.rows[j]) = p
    BY <2>1, PathOfBlock
  <2>3. j = i
    BY <2>1, <2>2 DEF PathsUnique
  <2> QED BY <2>1, <2>2, <2>3
<1> QED BY <1>1, <1>2 DEF RowsExact, ToSet, Kept

(* pg_store.c 448-459 and 515-559: if paths are unique, as the header says    *)
(* they are, the swaps table holds exactly the rows of the blocks of this     *)
(* chain that were written and not pruned.                                    *)
THEOREM ConfirmedRowsExact == PathsUnique /\ ~Redeliver => (Spec => []RowsExact)
<1> SUFFICES ASSUME PathsUnique, ~Redeliver PROVE Spec => []RowsExact
  OBVIOUS
<1>1. ConfirmedInv => RowsExact
  BY TableExact
<1> QED BY <1>1, ConfirmedInvariant, PTL

-----------------------------------------------------------------------------
(* THE ORDER OF PLACES *)

(* Before is a strict order of the vectors of n numbers, and a total one.    *)
LEMMA BeforeOrder ==
    ASSUME NEW n \in Nat, NEW a \in [1 .. n -> Nat], NEW b \in [1 .. n -> Nat]
    PROVE  /\ ~Before(a, a)
           /\ Before(a, b) => ~Before(b, a)
           /\ a # b => Before(a, b) \/ Before(b, a)
           /\ \A c \in [1 .. n -> Nat] : Before(a, b) /\ Before(b, c) => Before(a, c)
<1>1. ~Before(a, a)
  BY DEF Before
<1>2. ASSUME Before(a, b), Before(b, a) PROVE FALSE
  <2>1. PICK i \in 1 .. n : a[i] < b[i] /\ \A j \in 1 .. i - 1 : a[j] = b[j]
    BY <1>2 DEF Before
  <2>2. PICK k \in 1 .. n : b[k] < a[k] /\ \A j \in 1 .. k - 1 : b[j] = a[j]
    BY <1>2 DEF Before
  <2>3. a[i] \in Nat /\ b[i] \in Nat /\ a[k] \in Nat /\ b[k] \in Nat
    OBVIOUS
  <2>4. CASE i < k
    BY <2>1, <2>2, <2>3, <2>4
  <2>5. CASE k < i
    BY <2>1, <2>2, <2>3, <2>5
  <2>6. CASE i = k
    BY <2>1, <2>2, <2>3, <2>6
  <2> QED BY <2>4, <2>5, <2>6
<1>3. ASSUME a # b PROVE Before(a, b) \/ Before(b, a)
  <2> DEFINE T == {i \in 1 .. n : a[i] # b[i]}
  <2>1. T # {} /\ T \subseteq Nat
    BY <1>3
  <2>2. PICK i \in T : \A y \in T : i <= y
    BY <2>1, LeastNatural
  <2>3. \A j \in 1 .. i - 1 : a[j] = b[j]
    BY <2>2
  <2>4. i \in 1 .. n /\ a[i] \in Nat /\ b[i] \in Nat /\ a[i] # b[i]
    OBVIOUS
  <2>5. a[i] < b[i] \/ b[i] < a[i]
    BY <2>4
  <2> QED BY <2>3, <2>4, <2>5 DEF Before
<1>4. ASSUME NEW c \in [1 .. n -> Nat], Before(a, b), Before(b, c) PROVE Before(a, c)
  <2>1. PICK i \in 1 .. n : a[i] < b[i] /\ \A j \in 1 .. i - 1 : a[j] = b[j]
    BY <1>4 DEF Before
  <2>2. PICK k \in 1 .. n : b[k] < c[k] /\ \A j \in 1 .. k - 1 : b[j] = c[j]
    BY <1>4 DEF Before
  <2> DEFINE m == IF i < k THEN i ELSE k
  <2>3. /\ a[i] \in Nat /\ b[i] \in Nat /\ a[k] \in Nat /\ b[k] \in Nat
        /\ c[i] \in Nat /\ c[k] \in Nat
    OBVIOUS
  <2>4. m \in 1 .. n /\ a[m] < c[m]
    <3>1. CASE i < k
      BY <2>1, <2>2, <2>3, <3>1
    <3>2. CASE k < i
      BY <2>1, <2>2, <2>3, <3>2
    <3>3. CASE i = k
      BY <2>1, <2>2, <2>3, <3>3
    <3> QED BY <3>1, <3>2, <3>3
  <2>5. \A j \in 1 .. m - 1 : a[j] = c[j]
    BY <2>1, <2>2
  <2> HIDE DEF m
  <2> QED BY <2>4, <2>5 DEF Before
<1> QED BY <1>1, <1>2, <1>3, <1>4

(* The numbers of a row.                                                     *)
LEMMA RowType ==
    ASSUME NEW r \in Rows
    PROVE  /\ r.slot \in Slots /\ r.slot \in Nat /\ r.tx \in Nat /\ r.ins \in Nat
           /\ r.idx \in Nat /\ r.price \in Nat /\ r.volume \in Nat /\ r.time \in Nat
           /\ r.inner \in BOOLEAN
           /\ Place(r) \in [1 .. 5 -> Nat] /\ Place(r)[1] = r.slot
<1>1. PICK b \in Blocks : r \in ToSet(b.rows)
  BY DEF Rows
<1>2. PICK i \in DOMAIN b.rows : r = b.rows[i]
  BY <1>1 DEF ToSet
<1>3. r.slot = b.slot
  BY <1>2, ConfirmedAssumption
<1>4. r.slot \in Slots /\ r.slot \in Nat
  BY <1>3, SlotType
<1>5. {r.tx, r.ins, r.idx, r.price, r.volume, r.time} \subseteq Nat /\ r.inner \in BOOLEAN
  BY ConfirmedAssumption
<1>6. r.tx \in Nat /\ r.ins \in Nat /\ r.idx \in Nat /\ r.price \in Nat /\ r.volume \in Nat /\ r.time \in Nat
  BY <1>5
<1>7. Place(r) \in [1 .. 5 -> Nat]
  BY <1>4, <1>6 DEF Place
<1>8. Place(r)[1] = r.slot
  BY DEF Place
<1> QED BY <1>4, <1>5, <1>6, <1>7, <1>8

(* A row that comes before another is of no newer slot.                      *)
LEMMA BeforeSlot ==
    ASSUME NEW o \in Rows, NEW l \in Rows, Before(Place(o), Place(l))
    PROVE  o.slot <= l.slot
<1>1. /\ Place(o) \in [1 .. 5 -> Nat] /\ Place(l) \in [1 .. 5 -> Nat]
      /\ Place(o)[1] = o.slot /\ Place(l)[1] = l.slot /\ o.slot \in Nat /\ l.slot \in Nat
  BY RowType
<1>2. PICK i \in 1 .. 5 : Place(o)[i] < Place(l)[i] /\ \A j \in 1 .. i - 1 : Place(o)[j] = Place(l)[j]
  BY <1>1 DEF Before
<1>3. CASE i = 1
  BY <1>1, <1>2, <1>3
<1>4. CASE i # 1
  <2>1. 1 \in 1 .. i - 1
    BY <1>4
  <2> QED BY <2>1, <1>1, <1>2
<1> QED BY <1>3, <1>4

-----------------------------------------------------------------------------
(* THE BAR OF A SET OF SWAPS *)

(* The sum BarOf takes of the volumes.                                       *)
Volume(R) == MapThenSumSet(LAMBDA r : r.volume, R)

(* Rows no two of which are at one place.                                    *)
Placed(R) == R \subseteq Rows /\ \A r, o \in R : r # o => Place(r) # Place(o)

(* The first and the last row of R, and its highest and its lowest price.     *)
IsFirst(f, R) == f \in R /\ \A o \in R \ {f} : Before(Place(f), Place(o))
IsLast(l, R)  == l \in R /\ \A o \in R \ {l} : Before(Place(o), Place(l))
IsHigh(p, R)  == (\E r \in R : p = r.price) /\ \A r \in R : r.price <= p
IsLow(p, R)   == (\E r \in R : p = r.price) /\ \A r \in R : p <= r.price

(* The bar of R, without the choices BarOf makes.                            *)
Fits(bar, R) ==
    /\ \E f, l \in R :
          /\ IsFirst(f, R) /\ IsLast(l, R)
          /\ bar = [open |-> f.price, open_seq |-> Place(f),
                    close |-> l.price, close_seq |-> Place(l),
                    high |-> bar.high, low |-> bar.low,
                    volume |-> Volume(R), count |-> Cardinality(R)]
    /\ IsHigh(bar.high, R) /\ IsLow(bar.low, R)

(* A set has one first and one last row.                                     *)
LEMMA EndsUnique ==
    ASSUME NEW R, Placed(R), NEW r, NEW o
    PROVE  /\ IsFirst(r, R) /\ IsFirst(o, R) => r = o
           /\ IsLast(r, R) /\ IsLast(o, R) => r = o
<1>1. \A x, y \in R : Before(Place(x), Place(y)) => ~Before(Place(y), Place(x))
  <2> TAKE x, y \in R
  <2>1. Place(x) \in [1 .. 5 -> Nat] /\ Place(y) \in [1 .. 5 -> Nat]
    BY RowType DEF Placed
  <2> QED BY <2>1, BeforeOrder
<1> QED BY <1>1 DEF IsFirst, IsLast

(* The bar that fits is the bar of the set.                                  *)
LEMMA FitsIsBar ==
    ASSUME NEW R, Placed(R), NEW bar, Fits(bar, R)
    PROVE  bar = BarOf(R)
<1> DEFINE first == CHOOSE r \in R : \A o \in R \ {r} : Before(Place(r), Place(o))
           last  == CHOOSE r \in R : \A o \in R \ {r} : Before(Place(o), Place(r))
           P     == {r.price : r \in R}
<1>1. PICK f \in R, l \in R :
          /\ IsFirst(f, R) /\ IsLast(l, R)
          /\ bar = [open |-> f.price, open_seq |-> Place(f),
                    close |-> l.price, close_seq |-> Place(l),
                    high |-> bar.high, low |-> bar.low,
                    volume |-> Volume(R), count |-> Cardinality(R)]
  BY DEF Fits
<1>2. IsFirst(first, R) /\ IsLast(last, R)
  BY <1>1 DEF IsFirst, IsLast
<1>3. first = f /\ last = l
  <2> HIDE DEF first, last
  <2> QED BY <1>1, <1>2, EndsUnique
<1>4. P \subseteq Nat
  BY RowType DEF Placed
<1>5. Max(P) = bar.high
  <2>1. bar.high \in P /\ \A y \in P : bar.high >= y
    BY DEF Fits, IsHigh
  <2>2. Max(P) \in P /\ \A y \in P : Max(P) >= y
    <3> HIDE DEF P
    <3> QED BY <2>1 DEF Max
  <2> HIDE DEF P
  <2>3. bar.high \in Nat /\ Max(P) \in Nat
    BY <2>1, <2>2, <1>4
  <2>4. bar.high >= Max(P) /\ Max(P) >= bar.high
    BY <2>1, <2>2
  <2> QED BY <2>3, <2>4
<1>6. Min(P) = bar.low
  <2>1. bar.low \in P /\ \A y \in P : bar.low <= y
    BY DEF Fits, IsLow
  <2>2. Min(P) \in P /\ \A y \in P : Min(P) <= y
    <3> HIDE DEF P
    <3> QED BY <2>1 DEF Min
  <2> HIDE DEF P
  <2>3. bar.low \in Nat /\ Min(P) \in Nat
    BY <2>1, <2>2, <1>4
  <2>4. bar.low <= Min(P) /\ Min(P) <= bar.low
    BY <2>1, <2>2
  <2> QED BY <2>3, <2>4
<1>7. BarOf(R) = [open |-> first.price, open_seq |-> Place(first),
                  close |-> last.price, close_seq |-> Place(last),
                  high |-> Max(P), low |-> Min(P),
                  volume |-> Volume(R), count |-> Cardinality(R)]
  BY DEF BarOf, Volume
<1> HIDE DEF first, last, P
<1> QED BY <1>1, <1>3, <1>5, <1>6, <1>7

-----------------------------------------------------------------------------
(* THE SUM OF VOLUMES *)

(* The member a sum takes out of a set.                                      *)
Taken(s) == CHOOSE x \in s : TRUE

(* What a sum over the subsets of S is, as the equation of MapThenFoldSet    *)
(* says.                                                                     *)
Sums(h, S) ==
    h = [s \in SUBSET S |-> IF s = {} THEN 0 ELSE Taken(s).volume + h[s \ {Taken(s)}]]

(* The sum is the value at R of such a function.                              *)
LEMMA SumIs ==
    ASSUME NEW S
    PROVE  Volume(S) = (CHOOSE h : Sums(h, S))[S]
BY Zenon DEF Volume, MapThenSumSet, MapThenFoldSet, Sums, Taken

(* The function the equation describes exists.                               *)
LEMMA SumsExist ==
    ASSUME NEW S, S \subseteq Rows, IsFiniteSet(S)
    PROVE  \E h \in [SUBSET S -> Nat] : Sums(h, S)
<1> DEFINE To(h, n) == \A s \in SUBSET S : Cardinality(s) <= n =>
                          h[s] = IF s = {} THEN 0 ELSE Taken(s).volume + h[s \ {Taken(s)}]
           T == {n \in Nat : \E h \in [SUBSET S -> Nat] : To(h, n)}
<1>0. \A s \in SUBSET S : IsFiniteSet(s) /\ Cardinality(s) \in Nat /\ Cardinality(s) <= Cardinality(S)
  BY FS_Subset, FS_CardinalityType
<1>1. \A s \in SUBSET S : s # {} =>
         /\ Taken(s) \in s /\ Taken(s).volume \in Nat
         /\ s \ {Taken(s)} \in SUBSET S
         /\ Cardinality(s \ {Taken(s)}) = Cardinality(s) - 1
  <2> SUFFICES ASSUME NEW s \in SUBSET S, s # {}
               PROVE  /\ Taken(s) \in s /\ Taken(s).volume \in Nat
                      /\ s \ {Taken(s)} \in SUBSET S
                      /\ Cardinality(s \ {Taken(s)}) = Cardinality(s) - 1
    OBVIOUS
  <2>1. Taken(s) \in s
    BY DEF Taken
  <2>2. Taken(s).volume \in Nat
    BY <2>1, RowType
  <2>3. Cardinality(s \ {Taken(s)}) = Cardinality(s) - 1
    BY <1>0, <2>1, FS_RemoveElement
  <2> QED BY <2>1, <2>2, <2>3
<1>2. 0 \in T
  <2> DEFINE h == [s \in SUBSET S |-> 0]
  <2>1. \A s \in SUBSET S : Cardinality(s) <= 0 => s = {}
    BY <1>0, FS_EmptySet
  <2>2. To(h, 0)
    BY <2>1
  <2>3. h \in [SUBSET S -> Nat]
    OBVIOUS
  <2> QED BY <2>2, <2>3
<1>3. ASSUME NEW n \in Nat, n \in T PROVE n + 1 \in T
  <2>1. PICK h \in [SUBSET S -> Nat] : To(h, n)
    BY <1>3
  <2> DEFINE g == [s \in SUBSET S |-> IF Cardinality(s) = n + 1
                                      THEN Taken(s).volume + h[s \ {Taken(s)}] ELSE h[s]]
  <2>2. \A s \in SUBSET S : Cardinality(s) = n + 1 => s # {}
    BY FS_EmptySet
  <2>3. g \in [SUBSET S -> Nat]
    <3> SUFFICES ASSUME NEW s \in SUBSET S, Cardinality(s) = n + 1
                 PROVE  Taken(s).volume + h[s \ {Taken(s)}] \in Nat
      OBVIOUS
    <3>1. Taken(s).volume \in Nat /\ s \ {Taken(s)} \in SUBSET S
      BY <1>1, <2>2
    <3>2. h[s \ {Taken(s)}] \in Nat
      BY <3>1
    <3> QED BY <3>1, <3>2
  <2>4. ASSUME NEW s \in SUBSET S, Cardinality(s) <= n + 1
        PROVE  g[s] = IF s = {} THEN 0 ELSE Taken(s).volume + g[s \ {Taken(s)}]
    <3>1. CASE s = {}
      <4>1. Cardinality(s) = 0
        BY <3>1, FS_EmptySet
      <4>2. g[s] = h[s]
        BY <4>1
      <4>3. h[s] = 0
        BY <2>1, <3>1, <4>1
      <4> QED BY <3>1, <4>2, <4>3
    <3>2. CASE s # {}
      <4> DEFINE r == s \ {Taken(s)}
      <4>1. r \in SUBSET S /\ Cardinality(r) = Cardinality(s) - 1 /\ Cardinality(s) \in Nat
        BY <1>0, <1>1, <3>2
      <4> HIDE DEF r
      <4>2. Cardinality(r) # n + 1
        BY <4>1, <2>4
      <4>3. g[r] = h[r]
        BY <4>1, <4>2
      <4>4. g[s] = Taken(s).volume + h[r]
        <5>1. CASE Cardinality(s) = n + 1
          BY <5>1 DEF r
        <5>2. CASE Cardinality(s) # n + 1
          <6>1. Cardinality(s) <= n
            BY <5>2, <4>1, <2>4
          <6>2. h[s] = Taken(s).volume + h[r]
            BY <6>1, <2>1, <3>2 DEF r
          <6> QED BY <5>2, <6>2
        <5> QED BY <5>1, <5>2
      <4> HIDE DEF g
      <4> QED BY <3>2, <4>3, <4>4 DEF r
    <3> QED BY <3>1, <3>2
  <2>5. To(g, n + 1)
    <3> HIDE DEF g
    <3> QED BY <2>4
  <2> HIDE DEF g, To
  <2> QED BY <2>3, <2>5
<1>4. Cardinality(S) \in T
  <2> HIDE DEF T
  <2>1. \A n \in Nat : n \in T
    BY <1>2, <1>3, SetInduction
  <2> QED BY <2>1, <1>0
<1>5. PICK h \in [SUBSET S -> Nat] : To(h, Cardinality(S))
  BY <1>4
<1>6. Sums(h, S)
  <2>1. \A s \in SUBSET S : h[s] = IF s = {} THEN 0 ELSE Taken(s).volume + h[s \ {Taken(s)}]
    BY <1>0, <1>5
  <2>2. h = [s \in SUBSET S |-> h[s]]
    OBVIOUS
  <2> QED BY <2>1, <2>2 DEF Sums
<1> QED BY <1>6

(* What the sum of a set is, in the terms of the sum of a smaller one.       *)
LEMMA SumTakes ==
    ASSUME NEW S, S \subseteq Rows, IsFiniteSet(S)
    PROVE  /\ Volume(S) \in Nat
           /\ S = {} => Volume(S) = 0
           /\ S # {} => /\ Taken(S) \in S
                        /\ Volume(S) = Taken(S).volume + Volume(S \ {Taken(S)})
<1>1. PICK g \in [SUBSET S -> Nat] : Sums(g, S)
  BY SumsExist
<1>a. \A s \in SUBSET S : IsFiniteSet(s) /\ Cardinality(s) \in Nat
  BY FS_Subset, FS_CardinalityType
(* two functions with the equation agree on what both have *)
<1>2. ASSUME NEW R \in SUBSET S, NEW f, Sums(f, R)
      PROVE  f[R] = g[R]
  <2> DEFINE T == {n \in Nat : \A s \in SUBSET R : Cardinality(s) = n => f[s] = g[s]}
  <2>1. \A s \in SUBSET R :
           /\ f[s] = IF s = {} THEN 0 ELSE Taken(s).volume + f[s \ {Taken(s)}]
           /\ g[s] = IF s = {} THEN 0 ELSE Taken(s).volume + g[s \ {Taken(s)}]
    <3> TAKE s \in SUBSET R
    <3>1. f[s] = IF s = {} THEN 0 ELSE Taken(s).volume + f[s \ {Taken(s)}]
      BY <1>2, Zenon DEF Sums
    <3>2. g[s] = IF s = {} THEN 0 ELSE Taken(s).volume + g[s \ {Taken(s)}]
      <4>1. s \in SUBSET S
        OBVIOUS
      <4> QED BY <1>1, <4>1, Zenon DEF Sums
    <3> QED BY <3>1, <3>2
  <2>2. 0 \in T
    <3>1. \A s \in SUBSET R : Cardinality(s) = 0 => s = {}
      BY <1>a, FS_EmptySet
    <3> QED BY <3>1, <2>1
  <2>3. ASSUME NEW n \in Nat, n \in T PROVE n + 1 \in T
    <3> SUFFICES ASSUME NEW s \in SUBSET R, Cardinality(s) = n + 1 PROVE f[s] = g[s]
      OBVIOUS
    <3> DEFINE x == Taken(s)
               r == s \ {Taken(s)}
    <3>0. n + 1 # 0 /\ n + 1 - 1 = n
      OBVIOUS
    <3>1. s # {}
      <4>1. Cardinality(s) # 0
        BY <3>0
      <4> HIDE DEF T
      <4> QED BY <4>1, FS_EmptySet
    <3>2. x \in s
      BY <3>1 DEF Taken
    <3>3. IsFiniteSet(s)
      BY <1>a
    <3>4. Cardinality(r) = n
      <4> HIDE DEF T
      <4>1. Cardinality(r) = Cardinality(s) - 1
        BY <3>2, <3>3, FS_RemoveElement
      <4> QED BY <4>1, <3>0
    <3>5. f[r] = g[r]
      BY <2>3, <3>4
    <3>6. f[s] = x.volume + f[r] /\ g[s] = x.volume + g[r]
      BY <2>1, <3>1
    <3> HIDE DEF x, r
    <3> QED BY <3>5, <3>6
  <2> HIDE DEF T
  <2>4. \A n \in Nat : n \in T
    BY <2>2, <2>3, SetInduction
  <2> QED BY <2>4, <1>a DEF T
<1>3. \A R \in SUBSET S : Volume(R) = g[R]
  <2> TAKE R \in SUBSET S
  <2>1. \E h : Sums(h, R)
    BY SumsExist, <1>a
  <2> DEFINE f == CHOOSE h : Sums(h, R)
  <2>2. Sums(f, R)
    BY <2>1
  <2>3. Volume(R) = f[R]
    BY SumIs
  <2> HIDE DEF f
  <2> QED BY <1>2, <2>2, <2>3
<1>4. S \in SUBSET S /\ Volume(S) = g[S] /\ g[S] \in Nat
  BY <1>3
<1>5. g[S] = IF S = {} THEN 0 ELSE Taken(S).volume + g[S \ {Taken(S)}]
  BY <1>1, <1>4, Zenon DEF Sums
<1>6. S # {} => Taken(S) \in S
  BY DEF Taken
<1> QED BY <1>3, <1>4, <1>5, <1>6

(* A row adds its volume, whatever the order of the sum.                     *)
LEMMA SumGrows ==
    ASSUME NEW R, R \subseteq Rows, IsFiniteSet(R), NEW row \in Rows, row \notin R
    PROVE  Volume(R \cup {row}) = Volume(R) + row.volume
<1> DEFINE T == {n \in Nat : \A s \in SUBSET Rows : \A r \in Rows \ s :
                    IsFiniteSet(s) /\ Cardinality(s) = n =>
                       Volume(s \cup {r}) = Volume(s) + r.volume}
<1>1. ASSUME NEW s \in SUBSET Rows, NEW r \in Rows \ s, IsFiniteSet(s)
      PROVE  /\ IsFiniteSet(s \cup {r}) /\ s \cup {r} # {} /\ s \cup {r} \subseteq Rows
             /\ Cardinality(s \cup {r}) = Cardinality(s) + 1 /\ Cardinality(s) \in Nat
  BY <1>1, FS_AddElement, FS_CardinalityType
<1>2. 0 \in T
  <2> SUFFICES ASSUME NEW s \in SUBSET Rows, NEW r \in Rows \ s, IsFiniteSet(s), Cardinality(s) = 0
               PROVE  Volume(s \cup {r}) = Volume(s) + r.volume
    OBVIOUS
  <2>1. s = {}
    BY FS_EmptySet
  <2>2. Taken(s \cup {r}) = r /\ (s \cup {r}) \ {r} = s
    BY <2>1 DEF Taken
  <2>3. Volume(s \cup {r}) = r.volume + Volume(s)
    BY <1>1, <2>2, SumTakes
  <2>4. Volume(s) \in Nat /\ r.volume \in Nat
    BY SumTakes, RowType
  <2> QED BY <2>3, <2>4
<1>3. ASSUME NEW n \in Nat, n \in T PROVE n + 1 \in T
  <2> SUFFICES ASSUME NEW s \in SUBSET Rows, NEW r \in Rows \ s, IsFiniteSet(s), Cardinality(s) = n + 1
               PROVE  Volume(s \cup {r}) = Volume(s) + r.volume
    OBVIOUS
  <2> DEFINE u == s \cup {r}
             x == Taken(u)
             q == s \ {x}
  <2>1. IsFiniteSet(u) /\ u # {} /\ u \subseteq Rows
    BY <1>1
  <2>2. x \in u /\ Volume(u) = x.volume + Volume(u \ {x})
    <3> HIDE DEF u
    <3> QED BY <2>1, SumTakes
  <2>3. Volume(s) \in Nat /\ r.volume \in Nat
    BY SumTakes, RowType
  <2> HIDE DEF x
  <2>4. CASE x = r
    <3>1. u \ {x} = s
      BY <2>4
    <3> HIDE DEF T, u
    <3>2. Volume(u) = r.volume + Volume(s)
      BY <3>1, <2>2, <2>4
    <3>3. Volume(u) = Volume(s) + r.volume
      BY <3>2, <2>3
    <3> QED BY <3>3 DEF u
  <2>5. CASE x # r
    <3>1. x \in s /\ x \in Rows /\ x.volume \in Nat
      BY <2>2, <2>5, RowType
    <3>2. IsFiniteSet(q) /\ Cardinality(q) = n
      <4> HIDE DEF T, u
      <4>1. IsFiniteSet(q) /\ Cardinality(q) = Cardinality(s) - 1
        BY <3>1, FS_RemoveElement
      <4>2. n + 1 - 1 = n
        OBVIOUS
      <4> QED BY <4>1, <4>2
    <3>3. u \ {x} = q \cup {r} /\ s = q \cup {x} /\ q \in SUBSET Rows
      BY <3>1, <2>5
    <3>4. r \in Rows \ q /\ x \in Rows \ q
      BY <3>1
    <3> HIDE DEF q, u
    <3>5. Volume(q \cup {r}) = Volume(q) + r.volume /\ Volume(q \cup {x}) = Volume(q) + x.volume
      BY <1>3, <3>2, <3>3, <3>4
    <3>6. Volume(q) \in Nat
      BY <3>2, <3>3, SumTakes
    <3>7. Volume(u) = Volume(s) + r.volume
      BY <3>1, <3>3, <3>5, <3>6, <2>2, <2>3
    <3> QED BY <3>7 DEF u
  <2> QED BY <2>4, <2>5
<1> HIDE DEF T
<1>4. \A n \in Nat : n \in T
  BY <1>2, <1>3, SetInduction
<1>5. Cardinality(R) \in T
  BY <1>4, FS_CardinalityType
<1> QED BY <1>5 DEF T

(* The sums of two sets that share no row add up.                            *)
LEMMA SumJoins ==
    ASSUME NEW R, R \subseteq Rows, IsFiniteSet(R),
           NEW Q, Q \subseteq Rows, IsFiniteSet(Q), R \cap Q = {}
    PROVE  /\ Volume(R \cup Q) = Volume(R) + Volume(Q)
           /\ Cardinality(R \cup Q) = Cardinality(R) + Cardinality(Q)
<1> DEFINE T == {n \in Nat : \A s \in SUBSET Q : Cardinality(s) = n =>
                    Volume(R \cup s) = Volume(R) + Volume(s)}
<1>0. \A s \in SUBSET Q : IsFiniteSet(s) /\ Cardinality(s) \in Nat
  BY FS_Subset, FS_CardinalityType
<1>1. 0 \in T
  <2> SUFFICES ASSUME NEW s \in SUBSET Q, Cardinality(s) = 0
               PROVE  Volume(R \cup s) = Volume(R) + Volume(s)
    OBVIOUS
  <2>1. s = {} /\ R \cup s = R
    BY <1>0, FS_EmptySet
  <2>2. Volume(s) = 0 /\ Volume(R) \in Nat
    BY <2>1, <1>0, SumTakes
  <2> QED BY <2>1, <2>2
<1>2. ASSUME NEW n \in Nat, n \in T PROVE n + 1 \in T
  <2> SUFFICES ASSUME NEW s \in SUBSET Q, Cardinality(s) = n + 1
               PROVE  Volume(R \cup s) = Volume(R) + Volume(s)
    OBVIOUS
  <2>0. n + 1 # 0 /\ n + 1 - 1 = n
    OBVIOUS
  <2>1. s # {}
    <3> HIDE DEF T
    <3>1. Cardinality(s) # 0
      BY <2>0
    <3> QED BY <3>1, FS_EmptySet
  <2>2. PICK x \in s : TRUE
    BY <2>1
  <2> DEFINE q == s \ {x}
             u == R \cup q
  <2>3. IsFiniteSet(s) /\ x \in Rows
    BY <1>0
  <2>4. q \in SUBSET Q /\ Cardinality(q) = n /\ s = q \cup {x} /\ x \notin q /\ IsFiniteSet(q)
    <3> HIDE DEF T
    <3>1. IsFiniteSet(q) /\ Cardinality(q) = Cardinality(s) - 1
      BY <2>3, <2>2, FS_RemoveElement
    <3> QED BY <3>1, <2>0, <2>2
  <2>5. x \notin u /\ R \cup s = u \cup {x} /\ u \subseteq Rows /\ IsFiniteSet(u)
    BY <2>4, FS_Union
  <2>6. Volume(u) = Volume(R) + Volume(q)
    BY <1>2, <2>4
  <2>7. q \subseteq Rows
    BY <2>4
  <2> HIDE DEF q, u, T
  <2>8. Volume(u \cup {x}) = Volume(u) + x.volume
    BY <2>3, <2>5, SumGrows
  <2>9. Volume(q \cup {x}) = Volume(q) + x.volume
    BY <2>3, <2>4, <2>7, SumGrows
  <2>10. Volume(R) \in Nat /\ Volume(q) \in Nat /\ x.volume \in Nat
    BY <2>3, <2>4, <2>7, SumTakes, RowType
  <2>11. Volume(R \cup s) = Volume(R) + Volume(q) + x.volume /\ Volume(s) = Volume(q) + x.volume
    BY <2>4, <2>5, <2>6, <2>8, <2>9
  <2> QED BY <2>10, <2>11
<1> HIDE DEF T
<1>3. \A n \in Nat : n \in T
  BY <1>1, <1>2, SetInduction
<1>4. Q \in SUBSET Q /\ Cardinality(Q) \in T
  BY <1>0, <1>3
<1>5. Volume(R \cup Q) = Volume(R) + Volume(Q)
  BY <1>4 DEF T
<1>6. Cardinality(R \cup Q) = Cardinality(R) + Cardinality(Q) - Cardinality(R \cap Q)
  BY FS_Union
<1>7. Cardinality(R \cap Q) = 0
  BY FS_EmptySet
<1>8. Cardinality(R) \in Nat /\ Cardinality(Q) \in Nat
  BY FS_CardinalityType
<1> QED BY <1>5, <1>6, <1>7, <1>8

-----------------------------------------------------------------------------
(* THE BAR OF A SET GROWS *)

(* A member of a set or the row added to it.                                 *)
LEMMA PlacedApart ==
    ASSUME NEW R, Placed(R), NEW x \in R, NEW y \in R, x # y
    PROVE  /\ Before(Place(x), Place(y)) \/ Before(Place(y), Place(x))
           /\ ~(Before(Place(x), Place(y)) /\ Before(Place(y), Place(x)))
<1>1. Place(x) \in [1 .. 5 -> Nat] /\ Place(y) \in [1 .. 5 -> Nat] /\ Place(x) # Place(y)
  BY RowType DEF Placed
<1>2. Place(x) # Place(y) => Before(Place(x), Place(y)) \/ Before(Place(y), Place(x))
  BY <1>1, BeforeOrder
<1>3. Before(Place(x), Place(y)) => ~Before(Place(y), Place(x))
  BY <1>1, BeforeOrder
<1> QED BY <1>1, <1>2, <1>3

(* What comes before a row comes before all that it comes before.             *)
LEMMA PlacedOrder ==
    ASSUME NEW R, Placed(R), NEW x \in R, NEW y \in R, NEW z \in R,
           Before(Place(x), Place(y)), Before(Place(y), Place(z))
    PROVE  Before(Place(x), Place(z))
<1>1. /\ Place(x) \in [1 .. 5 -> Nat] /\ Place(y) \in [1 .. 5 -> Nat]
      /\ Place(z) \in [1 .. 5 -> Nat]
  BY RowType DEF Placed
<1>2. \A c \in [1 .. 5 -> Nat] :
         Before(Place(x), Place(y)) /\ Before(Place(y), c) => Before(Place(x), c)
  BY <1>1, BeforeOrder
<1> QED BY <1>1, <1>2

(* The first of a union is the earlier of the firsts, and so the last.       *)
LEMMA EndsJoin ==
    ASSUME NEW R, NEW Q, Placed(R \cup Q), R \cap Q = {},
           NEW f \in R, NEW g \in Q
    PROVE  /\ IsFirst(f, R) /\ IsFirst(g, Q) =>
                 /\ Before(Place(g), Place(f)) => IsFirst(g, R \cup Q)
                 /\ ~Before(Place(g), Place(f)) => IsFirst(f, R \cup Q)
           /\ IsLast(f, R) /\ IsLast(g, Q) =>
                 /\ Before(Place(f), Place(g)) => IsLast(g, R \cup Q)
                 /\ ~Before(Place(f), Place(g)) => IsLast(f, R \cup Q)
<1> DEFINE U == R \cup Q
           P(x, y) == Before(Place(x), Place(y))
<1>0. f \in U /\ g \in U /\ f # g /\ Placed(U)
  OBVIOUS
<1>1. P(f, g) \/ P(g, f)
  BY <1>0, PlacedApart
<1>2. \A x, y, z \in U : P(x, y) /\ P(y, z) => P(x, z)
  BY <1>0, PlacedOrder
<1> HIDE DEF P
<1>3. ASSUME \A o \in R \ {f} : P(f, o), \A o \in Q \ {g} : P(g, o)
      PROVE  /\ P(g, f) => \A o \in U \ {g} : P(g, o)
             /\ ~P(g, f) => \A o \in U \ {f} : P(f, o)
  BY <1>0, <1>1, <1>2, <1>3
<1>4. ASSUME \A o \in R \ {f} : P(o, f), \A o \in Q \ {g} : P(o, g)
      PROVE  /\ P(f, g) => \A o \in U \ {g} : P(o, g)
             /\ ~P(f, g) => \A o \in U \ {f} : P(o, f)
  BY <1>0, <1>1, <1>2, <1>4
<1> QED BY <1>0, <1>3, <1>4 DEF P, IsFirst, IsLast

(* The higher of two highs is the high of the union, and so the low.         *)
LEMMA HighsJoin ==
    ASSUME NEW R, NEW Q, R \cup Q \subseteq Rows, NEW p, NEW q
    PROVE  /\ IsHigh(p, R) /\ IsHigh(q, Q) => IsHigh(Larger(p, q), R \cup Q)
           /\ IsLow(p, R) /\ IsLow(q, Q) => IsLow(Smaller(p, q), R \cup Q)
<1>1. \A r \in R \cup Q : r.price \in Nat
  BY RowType
<1>2. ASSUME IsHigh(p, R), IsHigh(q, Q) PROVE IsHigh(Larger(p, q), R \cup Q)
  <2>1. p \in Nat /\ q \in Nat
    BY <1>1, <1>2 DEF IsHigh
  <2>2. Larger(p, q) \in {p, q} /\ p <= Larger(p, q) /\ q <= Larger(p, q)
    BY <2>1 DEF Larger
  <2>3. \E r \in R \cup Q : Larger(p, q) = r.price
    BY <2>2, <1>2 DEF IsHigh
  <2>4. \A r \in R \cup Q : r.price <= Larger(p, q)
    BY <2>1, <2>2, <1>1, <1>2 DEF IsHigh
  <2> QED BY <2>3, <2>4 DEF IsHigh
<1>3. ASSUME IsLow(p, R), IsLow(q, Q) PROVE IsLow(Smaller(p, q), R \cup Q)
  <2>1. p \in Nat /\ q \in Nat
    BY <1>1, <1>3 DEF IsLow
  <2>2. Smaller(p, q) \in {p, q} /\ Smaller(p, q) <= p /\ Smaller(p, q) <= q
    BY <2>1 DEF Smaller
  <2>3. \E r \in R \cup Q : Smaller(p, q) = r.price
    BY <2>2, <1>3 DEF IsLow
  <2>4. \A r \in R \cup Q : Smaller(p, q) <= r.price
    BY <2>1, <2>2, <1>1, <1>3 DEF IsLow
  <2> QED BY <2>3, <2>4 DEF IsLow
<1> QED BY <1>2, <1>3

(* The bar of the first swap (bar.c, observe_interval).                      *)
LEMMA NewFits ==
    ASSUME NEW row \in Rows
    PROVE  Fits(NewBar(row), {row})
<1> DEFINE R == {row}
<1>1. IsFirst(row, R) /\ IsLast(row, R)
  BY DEF IsFirst, IsLast
<1>2. IsHigh(row.price, R) /\ IsLow(row.price, R)
  BY RowType DEF IsHigh, IsLow
<1>3. Cardinality(R) = 1
  BY FS_Singleton
<1>4. Volume(R) = row.volume
  <2>1. {} \subseteq Rows /\ IsFiniteSet({}) /\ row \notin {} /\ {} \cup {row} = R
    BY FS_EmptySet
  <2>2. Volume({}) = 0
    BY <2>1, SumTakes
  <2>3. Volume({} \cup {row}) = Volume({}) + row.volume
    BY <2>1, SumGrows
  <2>4. row.volume \in Nat
    BY RowType
  <2> QED BY <2>1, <2>2, <2>3, <2>4
<1> DEFINE bar == NewBar(row)
<1>5. /\ bar = [open |-> row.price, open_seq |-> Place(row),
                close |-> row.price, close_seq |-> Place(row),
                high |-> bar.high, low |-> bar.low,
                volume |-> row.volume, count |-> 1]
      /\ bar.high = row.price /\ bar.low = row.price
  BY DEF NewBar
<1> HIDE DEF bar
<1>6. Fits(bar, R)
  <2>1. row \in R
    OBVIOUS
  <2> HIDE DEF R
  <2> QED BY <1>1, <1>2, <1>3, <1>4, <1>5, <2>1 DEF Fits
<1> QED BY <1>6 DEF bar

(* A bar with one more swap (bar.c, observe_interval).                       *)
LEMMA FoldedFits ==
    ASSUME NEW R, NEW row, Placed(R \cup {row}), IsFiniteSet(R), row \notin R,
           NEW bar, Fits(bar, R)
    PROVE  Fits(Folded(bar, row), R \cup {row})
<1> DEFINE Q == {row}
           U == R \cup {row}
           new == Folded(bar, row)
           first == Before(Place(row), bar.open_seq)
           last == Before(bar.close_seq, Place(row))
<1>0. row \in Rows /\ R \subseteq Rows /\ U \subseteq Rows
  BY DEF Placed
<1>1. PICK f \in R, l \in R :
          /\ IsFirst(f, R) /\ IsLast(l, R)
          /\ bar = [open |-> f.price, open_seq |-> Place(f),
                    close |-> l.price, close_seq |-> Place(l),
                    high |-> bar.high, low |-> bar.low,
                    volume |-> Volume(R), count |-> Cardinality(R)]
  BY DEF Fits
<1>2. /\ bar.open = f.price /\ bar.open_seq = Place(f) /\ bar.close = l.price
      /\ bar.close_seq = Place(l) /\ bar.volume = Volume(R) /\ bar.count = Cardinality(R)
  BY <1>1
<1>3. IsFirst(row, Q) /\ IsLast(row, Q) /\ IsHigh(row.price, Q) /\ IsLow(row.price, Q)
  BY <1>0, RowType DEF IsFirst, IsLast, IsHigh, IsLow
<1>4. Volume(U) = Volume(R) + row.volume /\ Cardinality(U) = Cardinality(R) + 1
  BY <1>0, SumGrows, FS_AddElement
<1>5. IsHigh(Larger(bar.high, row.price), U) /\ IsLow(Smaller(bar.low, row.price), U)
  BY <1>0, <1>3, HighsJoin DEF Fits
<1>6. /\ first => IsFirst(row, U)
      /\ ~first => IsFirst(f, U)
      /\ last => IsLast(row, U)
      /\ ~last => IsLast(l, U)
  <2>1. R \cap Q = {} /\ row \in Q /\ U = R \cup Q /\ Placed(R \cup Q)
    OBVIOUS
  <2> HIDE DEF Q, U
  <2>2. /\ Before(Place(row), Place(f)) => IsFirst(row, R \cup Q)
        /\ ~Before(Place(row), Place(f)) => IsFirst(f, R \cup Q)
    BY <1>1, <1>3, <2>1, EndsJoin
  <2>3. /\ Before(Place(l), Place(row)) => IsLast(row, R \cup Q)
        /\ ~Before(Place(l), Place(row)) => IsLast(l, R \cup Q)
    BY <1>1, <1>3, <2>1, EndsJoin
  <2> QED BY <1>2, <2>1, <2>2, <2>3
<1> DEFINE f2 == IF first THEN row ELSE f
           l2 == IF last THEN row ELSE l
<1>7. /\ new = [open |-> f2.price, open_seq |-> Place(f2),
                close |-> l2.price, close_seq |-> Place(l2),
                high |-> new.high, low |-> new.low,
                volume |-> Volume(U), count |-> Cardinality(U)]
      /\ new.high = Larger(bar.high, row.price) /\ new.low = Smaller(bar.low, row.price)
  <2>1. new = [open  |-> IF first THEN row.price ELSE bar.open,
               open_seq |-> IF first THEN Place(row) ELSE bar.open_seq,
               close |-> IF last THEN row.price ELSE bar.close,
               close_seq |-> IF last THEN Place(row) ELSE bar.close_seq,
               high  |-> Larger(bar.high, row.price), low |-> Smaller(bar.low, row.price),
               volume |-> bar.volume + row.volume, count |-> bar.count + 1]
    BY DEF Folded
  <2>2. /\ f2.price = IF first THEN row.price ELSE bar.open
        /\ Place(f2) = IF first THEN Place(row) ELSE bar.open_seq
    BY <1>2
  <2>3. /\ l2.price = IF last THEN row.price ELSE bar.close
        /\ Place(l2) = IF last THEN Place(row) ELSE bar.close_seq
    BY <1>2
  <2> HIDE DEF new, f2, l2, first, last, U
  <2> QED BY <2>1, <2>2, <2>3, <1>2, <1>4
<1>8. f2 \in U /\ l2 \in U /\ IsFirst(f2, U) /\ IsLast(l2, U)
  BY <1>6
<1> HIDE DEF new, f2, l2, U
<1>9. Fits(new, U)
  BY <1>5, <1>7, <1>8 DEF Fits
<1> QED BY <1>9 DEF new, U

-----------------------------------------------------------------------------
(* THE FOLD OVER A SEQUENCE *)

(* The registry after folding rows into r, for the wanted bars.              *)
FoldedIn(W, r, rows) == FoldLeft(LAMBDA acc, row : ObserveIn(W, acc, row), r, rows)

(* What a fold over the indices of D is, as the equation of MapThenFoldSet   *)
(* says.                                                                     *)
FoldsTo(h, W, r, rows, D) ==
    h = [s \in SUBSET D |-> IF s = {} THEN r ELSE ObserveIn(W, h[s \ {Max(s)}], rows[Max(s)])]

(* The fold is the value at all indices of such a function.                   *)
LEMMA FoldIs ==
    ASSUME NEW W, NEW r, NEW rows
    PROVE  FoldedIn(W, r, rows) = (CHOOSE h : FoldsTo(h, W, r, rows, DOMAIN rows))[DOMAIN rows]
BY Zenon DEF FoldedIn, FoldLeft, MapThenFoldSet, FoldsTo

(* The greatest index of a set.                                              *)
LEMMA MaxOfIndices ==
    ASSUME NEW m \in Nat, NEW s \in SUBSET (1 .. m + 1)
    PROVE  /\ m + 1 \in s => Max(s) = m + 1
           /\ s # {} => Max(s) \in s
<1>1. ASSUME m + 1 \in s PROVE Max(s) = m + 1
  <2>1. \A y \in s : m + 1 >= y
    OBVIOUS
  <2>2. Max(s) \in s /\ \A y \in s : Max(s) >= y
    BY <1>1, <2>1 DEF Max
  <2> DEFINE x == Max(s)
  <2> HIDE DEF x
  <2>3. x \in 1 .. m + 1 /\ x >= m + 1
    BY <1>1, <2>2 DEF x
  <2>4. x = m + 1
    BY <2>3
  <2> QED BY <2>4 DEF x
<1>2. ASSUME s # {} PROVE Max(s) \in s
  <2> DEFINE T == {m + 1 - y : y \in s}
  <2>0. \A y \in s : m + 1 - y \in Nat
    OBVIOUS
  <2>1. T \subseteq Nat /\ T # {}
    BY <1>2, <2>0
  <2>2. PICK t \in T : \A y \in T : t <= y
    BY <2>1, LeastNatural
  <2>3. PICK x \in s : t = m + 1 - x
    BY <2>2
  <2>4. \A y \in s : x >= y
    <3> TAKE y \in s
    <3>1. m + 1 - y \in T
      OBVIOUS
    <3>2. m + 1 - x <= m + 1 - y
      BY <2>2, <2>3, <3>1
    <3>3. x \in Int /\ y \in Int
      OBVIOUS
    <3> QED BY <3>2, <3>3
  <2> HIDE DEF T
  <2> QED BY <2>3, <2>4 DEF Max
<1> QED BY <1>1, <1>2

(* The function the equation describes exists.                               *)
LEMMA FoldExists ==
    ASSUME NEW W, NEW r, NEW rows, NEW N \in Nat
    PROVE  \E h : FoldsTo(h, W, r, rows, 1 .. N)
<1> DEFINE T == {n \in Nat : \E h : FoldsTo(h, W, r, rows, 1 .. n)}
<1>1. 0 \in T
  <2> DEFINE h == [s \in SUBSET (1 .. 0) |-> r]
  <2>1. SUBSET (1 .. 0) = {{}}
    OBVIOUS
  <2>2. h = [s \in SUBSET (1 .. 0) |-> IF s = {} THEN r ELSE ObserveIn(W, h[s \ {Max(s)}], rows[Max(s)])]
    BY <2>1
  <2> HIDE DEF h
  <2>3. FoldsTo(h, W, r, rows, 1 .. 0)
    BY <2>2 DEF FoldsTo
  <2> QED BY <2>3
<1>2. ASSUME NEW n \in Nat, n \in T PROVE n + 1 \in T
  <2>1. PICK h : FoldsTo(h, W, r, rows, 1 .. n)
    BY <1>2
  <2> DEFINE D == 1 .. n + 1
             g == [s \in SUBSET D |-> IF n + 1 \in s THEN ObserveIn(W, h[s \ {n + 1}], rows[n + 1])
                                      ELSE h[s]]
  <2>2. \A s \in SUBSET D : n + 1 \notin s => s \in SUBSET (1 .. n)
    OBVIOUS
  <2>3. ASSUME NEW s \in SUBSET D
        PROVE  g[s] = IF s = {} THEN r ELSE ObserveIn(W, g[s \ {Max(s)}], rows[Max(s)])
    <3>1. CASE n + 1 \in s
      <4>1. Max(s) = n + 1 /\ s # {}
        BY <3>1, MaxOfIndices
      <4>2. g[s \ {n + 1}] = h[s \ {n + 1}]
        OBVIOUS
      <4>3. g[s] = ObserveIn(W, h[s \ {n + 1}], rows[n + 1])
        BY <3>1
      <4> HIDE DEF g
      <4> QED BY <4>1, <4>2, <4>3
    <3>2. CASE n + 1 \notin s
      <4>1. s \in SUBSET (1 .. n)
        BY <3>2, <2>2
      <4>2. h[s] = IF s = {} THEN r ELSE ObserveIn(W, h[s \ {Max(s)}], rows[Max(s)])
        BY <4>1, <2>1, Zenon DEF FoldsTo
      <4>3. g[s] = h[s]
        BY <3>2
      <4>4. g[s \ {Max(s)}] = h[s \ {Max(s)}]
        BY <3>2
      <4> HIDE DEF g
      <4> QED BY <4>2, <4>3, <4>4
    <3> QED BY <3>1, <3>2
  <2>4. g = [s \in SUBSET D |-> g[s]]
    OBVIOUS
  <2> HIDE DEF g
  <2>5. g = [s \in SUBSET D |-> IF s = {} THEN r ELSE ObserveIn(W, g[s \ {Max(s)}], rows[Max(s)])]
    BY <2>3, <2>4
  <2>6. FoldsTo(g, W, r, rows, 1 .. n + 1)
    BY <2>5 DEF FoldsTo
  <2> QED BY <2>6
<1> HIDE DEF T
<1>3. N \in T
  BY <1>1, <1>2, SetInduction
<1> QED BY <1>3 DEF T

(* The fold takes the rows one by one.                                       *)
RunsAs(g, W, r, rows, N) ==
    /\ g[0] = r /\ FoldedIn(W, r, rows) = g[N]
    /\ \A n \in 1 .. N : g[n] = ObserveIn(W, g[n - 1], rows[n])

(* There is such a sequence of registries.                                    *)
LEMMA FoldRuns ==
    ASSUME NEW W, NEW r, NEW rows, NEW N \in Nat, DOMAIN rows = 1 .. N
    PROVE  \E g : RunsAs(g, W, r, rows, N)
<1> DEFINE f == CHOOSE h : FoldsTo(h, W, r, rows, DOMAIN rows)
<1>1. FoldsTo(f, W, r, rows, 1 .. N)
  <2>1. \E h : FoldsTo(h, W, r, rows, DOMAIN rows)
    BY FoldExists
  <2> QED BY <2>1
<1>2. FoldedIn(W, r, rows) = f[1 .. N]
  BY FoldIs
<1> HIDE DEF f
<1> DEFINE g == [n \in 0 .. N |-> f[1 .. n]]
<1>3. \A s \in SUBSET (1 .. N) :
         f[s] = IF s = {} THEN r ELSE ObserveIn(W, f[s \ {Max(s)}], rows[Max(s)])
  BY <1>1, Zenon DEF FoldsTo
<1>4. g[0] = r
  <2>1. 1 .. 0 = {}
    OBVIOUS
  <2>2. {} \in SUBSET (1 .. N)
    OBVIOUS
  <2>3. f[{}] = r
    BY <1>3, <2>2
  <2>4. 0 \in 0 .. N
    OBVIOUS
  <2> QED BY <2>1, <2>3, <2>4
<1>5. ASSUME NEW n \in 1 .. N PROVE g[n] = ObserveIn(W, g[n - 1], rows[n])
  <2> DEFINE s == 1 .. n
             m == n - 1
  <2>1. m \in Nat /\ s \in SUBSET (1 .. m + 1) /\ m + 1 \in s /\ m + 1 = n
    OBVIOUS
  <2>2. Max(s) = n
    <3> HIDE DEF s, m
    <3> QED BY <2>1, MaxOfIndices
  <2>a. s \in SUBSET (1 .. N) /\ s # {}
    <3>1. \A i \in s : i \in 1 .. N
      OBVIOUS
    <3>2. n \in s
      OBVIOUS
    <3> QED BY <3>1, <3>2
  <2>b. s \ {n} = 1 .. n - 1
    <3>1. n \in Nat /\ n >= 1
      OBVIOUS
    <3>2. \A i : i \in 1 .. n /\ i # n <=> i \in 1 .. n - 1
      BY <3>1
    <3> QED BY <3>2
  <2>3. s \in SUBSET (1 .. N) /\ s # {} /\ s \ {n} = 1 .. n - 1
    BY <2>a, <2>b
  <2>4. f[s] = ObserveIn(W, f[s \ {n}], rows[n])
    <3> HIDE DEF s
    <3> QED BY <1>3, <2>2, <2>3
  <2>5. g[n] = f[s] /\ g[n - 1] = f[1 .. n - 1]
    BY <2>1
  <2> HIDE DEF s, g
  <2> QED BY <2>3, <2>4, <2>5
<1>6. g[N] = f[1 .. N]
  OBVIOUS
<1> HIDE DEF g
<1> QED BY <1>2, <1>4, <1>5, <1>6 DEF RunsAs

-----------------------------------------------------------------------------
(* THE REGISTRY *)

(* The bars a row is folded into, and of the rows of I those of the bar k.   *)
KeysOf(row) == IF Foldable(row) THEN {Key(row, iv) : iv \in Intervals} ELSE {}
At(I, k)    == {x \in I : k \in KeysOf(x)}

(* r has the bars of the rows of I among the wanted ones, and is otherwise   *)
(* what base is.                                                             *)
Holds(r, base, I, W) ==
    /\ r = [k \in DOMAIN r |-> r[k]]
    /\ DOMAIN r = (DOMAIN base \ W) \cup {k \in W : At(I, k) # {}}
    /\ \A k \in DOMAIN r : IF k \in W THEN Fits(r[k], At(I, k)) ELSE r[k] = base[k]

(* One row more (idx_bar_registry_observe, bar.c).                           *)
LEMMA ObserveHolds ==
    ASSUME NEW W, NEW base, NEW I, NEW row, Placed(I \cup {row}), IsFiniteSet(I), row \notin I,
           NEW r, Holds(r, base, I, W)
    PROVE  Holds(ObserveIn(W, r, row), base, I \cup {row}, W)
<1> DEFINE J == I \cup {row}
           keys == KeysOf(row) \cap W
           new == [k \in DOMAIN r \cup keys |->
                     IF k \notin keys THEN r[k]
                     ELSE IF k \in DOMAIN r THEN Folded(r[k], row) ELSE NewBar(row)]
<1>1. ObserveIn(W, r, row) = new
  <2>1. keys = IF Foldable(row) THEN {Key(row, iv) : iv \in Intervals} \cap W ELSE {}
    BY DEF KeysOf
  <2> HIDE DEF keys
  <2> QED BY <2>1 DEF ObserveIn
<1>2. \A k : /\ k \in KeysOf(row) => At(J, k) = At(I, k) \cup {row}
             /\ k \notin KeysOf(row) => At(J, k) = At(I, k)
  BY DEF At
<1>3. new = [k \in DOMAIN new |-> new[k]] /\ DOMAIN new = DOMAIN r \cup keys
  OBVIOUS
<1>4. DOMAIN new = (DOMAIN base \ W) \cup {k \in W : At(J, k) # {}}
  <2>1. DOMAIN r = (DOMAIN base \ W) \cup {k \in W : At(I, k) # {}}
    BY DEF Holds
  <2>2. {k \in W : At(J, k) # {}} = {k \in W : At(I, k) # {}} \cup keys
    <3> HIDE DEF J
    <3> QED BY <1>2
  <2> HIDE DEF new, keys, J
  <2> QED BY <1>3, <2>1, <2>2
<1>5. ASSUME NEW k \in DOMAIN new
      PROVE  IF k \in W THEN Fits(new[k], At(J, k)) ELSE new[k] = base[k]
  <2>0. k \in DOMAIN r => IF k \in W THEN Fits(r[k], At(I, k)) ELSE r[k] = base[k]
    BY DEF Holds
  <2>1. CASE k \notin keys
    <3>1. new[k] = r[k] /\ k \in DOMAIN r
      BY <2>1
    <3>2. k \in W => At(J, k) = At(I, k)
      BY <2>1, <1>2
    <3> HIDE DEF new, J, keys
    <3> QED BY <2>0, <3>1, <3>2
  <2>2. CASE k \in keys /\ k \in DOMAIN r
    <3>1. new[k] = Folded(r[k], row) /\ k \in W /\ At(J, k) = At(I, k) \cup {row}
      BY <2>2, <1>2
    <3>2. Fits(r[k], At(I, k))
      BY <2>0, <3>1, <2>2
    <3>3. At(I, k) \subseteq I
      BY DEF At
    <3>4. Placed(At(I, k) \cup {row}) /\ IsFiniteSet(At(I, k)) /\ row \notin At(I, k)
      BY <3>3, FS_Subset DEF Placed
    <3>5. Fits(Folded(r[k], row), At(I, k) \cup {row})
      BY <3>2, <3>4, FoldedFits
    <3> HIDE DEF new, J, keys
    <3> QED BY <3>1, <3>5
  <2>3. CASE k \in keys /\ k \notin DOMAIN r
    <3>1. new[k] = NewBar(row) /\ k \in W /\ At(J, k) = At(I, k) \cup {row}
      BY <2>3, <1>2
    <3>2. At(I, k) = {}
      BY <2>3, <3>1 DEF Holds
    <3>3. Fits(NewBar(row), {row})
      BY NewFits DEF Placed
    <3>4. At(J, k) = {row}
      <4> HIDE DEF J
      <4> QED BY <3>1, <3>2
    <3> HIDE DEF new, J, keys
    <3> QED BY <3>1, <3>3, <3>4
  <2> QED BY <2>1, <2>2, <2>3
<1> HIDE DEF new
<1>6. Holds(new, base, J, W)
  BY <1>3, <1>4, <1>5 DEF Holds
<1> QED BY <1>1, <1>6

(* All rows of a block, or all that a reorg left, whatever their order.      *)
LEMMA FoldHolds ==
    ASSUME NEW W, NEW base, NEW I, IsFiniteSet(I), NEW N \in Nat, NEW rows, DOMAIN rows = 1 .. N,
           Placed(I \cup ToSet(rows)), I \cap ToSet(rows) = {},
           \A i, j \in DOMAIN rows : i # j => rows[i] # rows[j],
           NEW r, Holds(r, base, I, W)
    PROVE  Holds(FoldedIn(W, r, rows), base, I \cup ToSet(rows), W)
<1>0. PICK g : RunsAs(g, W, r, rows, N)
  BY FoldRuns
<1>1. /\ g[0] = r /\ FoldedIn(W, r, rows) = g[N]
      /\ \A n \in 1 .. N : g[n] = ObserveIn(W, g[n - 1], rows[n])
  BY <1>0 DEF RunsAs
<1> DEFINE Upto(n) == I \cup {rows[i] : i \in 1 .. n}
           T == {n \in Nat : n <= N => IsFiniteSet(Upto(n)) /\ Holds(g[n], base, Upto(n), W)}
<1>2. 0 \in T
  <2>1. Upto(0) = I
    OBVIOUS
  <2> HIDE DEF Upto
  <2> QED BY <2>1, <1>1
<1>3. ASSUME NEW n \in Nat, n \in T PROVE n + 1 \in T
  <2> SUFFICES ASSUME n + 1 <= N
               PROVE  IsFiniteSet(Upto(n + 1)) /\ Holds(g[n + 1], base, Upto(n + 1), W)
    OBVIOUS
  <2> DEFINE row == rows[n + 1]
  <2>1. n + 1 \in DOMAIN rows /\ n + 1 \in 1 .. N /\ n <= N /\ n + 1 - 1 = n
    OBVIOUS
  <2>2. Upto(n + 1) = Upto(n) \cup {row}
    OBVIOUS
  <2>3. row \notin Upto(n)
    <3>1. row \in ToSet(rows)
      BY <2>1 DEF ToSet
    <3>2. \A i \in 1 .. n : i \in DOMAIN rows /\ i # n + 1
      BY <2>1
    <3> QED BY <2>1, <3>1, <3>2
  <2>4. Upto(n + 1) \subseteq I \cup ToSet(rows)
    BY <2>1 DEF ToSet
  <2>5. IsFiniteSet(Upto(n)) /\ Holds(g[n], base, Upto(n), W)
    BY <1>3, <2>1
  <2> HIDE DEF Upto, T
  <2>6. IsFiniteSet(Upto(n + 1))
    BY <2>2, <2>5, FS_AddElement
  <2>7. Placed(Upto(n) \cup {row})
    BY <2>2, <2>4 DEF Placed
  <2>8. g[n + 1] = ObserveIn(W, g[n], row)
    BY <1>1, <2>1
  <2> HIDE DEF row
  <2>9. Holds(ObserveIn(W, g[n], row), base, Upto(n) \cup {row}, W)
    BY <2>3, <2>5, <2>7, ObserveHolds
  <2> QED BY <2>2, <2>6, <2>8, <2>9
<1> HIDE DEF T
<1>4. N \in T
  BY <1>2, <1>3, SetInduction
<1>5. Upto(N) = I \cup ToSet(rows)
  BY DEF ToSet
<1> HIDE DEF Upto
<1>6. Holds(g[N], base, Upto(N), W)
  BY <1>4 DEF T
<1> QED BY <1>1, <1>5, <1>6

-----------------------------------------------------------------------------
(* THE BARS THROUGH THE STEPS *)

(* The rows of the blocks of this chain, pruned or not.                      *)
Written == UNION {ToSet(b.rows) : b \in indexed}

(* What store.h asks of a caller that prunes: two swaps of one bar are no    *)
(* further apart than its margin.                                            *)
MarginCovers ==
    \A r, o \in Rows : KeysOf(r) \cap KeysOf(o) # {} => r.slot <= o.slot + Margin

(* The registry has the bars of the rows written.                            *)
RegistryInv == up => Holds(reg, NoRows, Written, AllKeys)

(* What is pruned is older by the margin than what can change.               *)
MarginInv ==
    pruned > 0 =>
       /\ pruned + Margin <= final + 1
       /\ up => \A b \in Blocks : b.slot < pruned + Margin /\ canon[b.slot] = b.fork => b \in indexed

BarsInv == ConfirmedInv /\ RegistryInv /\ MarginInv

(* The rows of a block, and all rows, are finitely many.                     *)
LEMMA RowsFinite == IsFiniteSet(Rows)
<1> DEFINE F == [b \in Blocks |-> ToSet(b.rows)]
           T == {F[b] : b \in Blocks}
<1>1. IsFiniteSet(T)
  <2>1. F \in Surjection(Blocks, T)
    BY DEF Surjection
  <2> HIDE DEF F, T
  <2> QED BY <2>1, FS_Surjection, ConfirmedAssumption
<1>2. ASSUME NEW b \in Blocks PROVE IsFiniteSet(ToSet(b.rows))
  <2> DEFINE q == b.rows
             D == DOMAIN q
  <2>1. q \in Seq(Rows)
    BY ConfirmedAssumption
  <2>2. D = 1 .. Len(q) /\ Len(q) \in Nat
    BY <2>1
  <2>3. IsFiniteSet(D)
    BY <2>2, FS_Interval
  <2>4. [i \in D |-> q[i]] \in Surjection(D, ToSet(q))
    BY DEF Surjection, ToSet
  <2> HIDE DEF q, D
  <2>5. IsFiniteSet(ToSet(q))
    BY <2>3, <2>4, FS_Surjection
  <2> QED BY <2>5 DEF q
<1>3. \A t \in T : IsFiniteSet(t)
  BY <1>2
<1>4. Rows = UNION T
  BY DEF Rows
<1> HIDE DEF T
<1> QED BY <1>1, <1>3, <1>4, FS_UNION

(* What a block lists.                                                       *)
LEMMA BlockRows ==
    ASSUME NEW b \in Blocks
    PROVE  /\ ToSet(b.rows) \subseteq Rows /\ Placed(ToSet(b.rows))
           /\ \A r \in ToSet(b.rows) : r.slot = b.slot
           /\ Len(b.rows) \in Nat /\ DOMAIN b.rows = 1 .. Len(b.rows)
           /\ \A i, j \in DOMAIN b.rows : i # j => b.rows[i] # b.rows[j]
<1>1. b.rows \in Seq(Rows)
  BY ConfirmedAssumption
<1>2. Len(b.rows) \in Nat /\ DOMAIN b.rows = 1 .. Len(b.rows)
  BY <1>1
<1>3. \A i, j \in DOMAIN b.rows : /\ b.rows[i].slot = b.slot
                                  /\ i # j => Place(b.rows[i]) # Place(b.rows[j])
  BY ConfirmedAssumption
<1>4. \A i \in DOMAIN b.rows : b.rows[i] \in Rows
  BY DEF Rows, ToSet
<1> QED BY <1>2, <1>3, <1>4 DEF ToSet, Placed

(* No two rows written are at one place.                                     *)
LEMMA WrittenPlaced ==
    ASSUME ChainInv
    PROVE  Placed(Written) /\ IsFiniteSet(Written) /\ Written \subseteq Rows
<1>1. \A b \in indexed : b \in Blocks
  BY DEF ChainInv
<1>2. Written \subseteq Rows
  BY <1>1, BlockRows DEF Written
<1>3. IsFiniteSet(Written)
  BY <1>2, RowsFinite, FS_Subset
<1>4. ASSUME NEW r \in Written, NEW o \in Written, r # o PROVE Place(r) # Place(o)
  <2>1. PICK b \in indexed : r \in ToSet(b.rows)
    BY DEF Written
  <2>2. PICK c \in indexed : o \in ToSet(c.rows)
    BY DEF Written
  <2>3. b \in Blocks /\ c \in Blocks
    BY <1>1
  <2>4. r.slot = b.slot /\ o.slot = c.slot
    BY <2>1, <2>2, <2>3, BlockRows
  <2>5. CASE b = c
    <3>1. Placed(ToSet(b.rows))
      BY <2>3, BlockRows
    <3> QED BY <3>1, <2>1, <2>2, <2>5, <1>4 DEF Placed
  <2>6. CASE b # c
    <3>1. b.slot # c.slot
      BY <2>6 DEF ChainInv
    <3>2. Place(r)[1] = r.slot /\ Place(o)[1] = o.slot
      BY <1>2, RowType
    <3> QED BY <3>1, <3>2, <2>4
  <2> QED BY <2>5, <2>6
<1> QED BY <1>2, <1>3, <1>4 DEF Placed

(* The slot a bar closes at is the newest of its swaps.                      *)
LEMMA ClosesLast ==
    ASSUME NEW R, R \subseteq Rows, NEW bar, Fits(bar, R)
    PROVE  \E l \in R : bar.close_seq[1] = l.slot /\ \A o \in R : o.slot <= l.slot
<1>1. PICK l \in R : IsLast(l, R) /\ bar.close_seq = Place(l)
  BY DEF Fits
<1>2. ASSUME NEW o \in R PROVE o.slot <= l.slot
  <2>1. o \in Rows /\ l \in Rows /\ o.slot \in Nat /\ l.slot \in Nat
    BY RowType
  <2>2. CASE o = l
    BY <2>1, <2>2
  <2>3. CASE o # l
    <3>1. Before(Place(o), Place(l))
      BY <1>1, <2>3 DEF IsLast
    <3> QED BY <3>1, <2>1, BeforeSlot
  <2> QED BY <2>2, <2>3
<1>3. bar.close_seq[1] = l.slot
  BY <1>1, RowType
<1> QED BY <1>2, <1>3

(* The bars of a registry that holds the rows written.                       *)
LEMMA BarOfRegistry ==
    ASSUME NEW I, Placed(I), NEW r, Holds(r, NoRows, I, AllKeys)
    PROVE  /\ DOMAIN r = {k \in AllKeys : At(I, k) # {}}
           /\ \A k \in DOMAIN r : k \in AllKeys /\ Fits(r[k], At(I, k)) /\ At(I, k) \subseteq I
           /\ r = [k \in DOMAIN r |-> r[k]]
<1>1. DOMAIN NoRows = {}
  BY DEF NoRows
<1> QED BY <1>1 DEF Holds, At

(* Every bar is the one BarOf defines.                                       *)
LEMMA RegistryIsFold == ASSUME ChainInv, RegistryInv PROVE BarsAreFolds
<1> SUFFICES ASSUME up
             PROVE  reg = [k \in {Key(r, iv) : r \in Inputs, iv \in Intervals} |->
                             BarOf({r \in Inputs : k \in {Key(r, iv) : iv \in Intervals}})]
  BY DEF BarsAreFolds
<1>0. Placed(Written) /\ Written \subseteq Rows
  BY WrittenPlaced
<1>1. /\ DOMAIN reg = {k \in AllKeys : At(Written, k) # {}}
      /\ \A k \in DOMAIN reg : Fits(reg[k], At(Written, k)) /\ At(Written, k) \subseteq Written
      /\ reg = [k \in DOMAIN reg |-> reg[k]]
  BY <1>0, BarOfRegistry DEF RegistryInv
<1>2. Inputs = {r \in Written : Foldable(r)}
  BY DEF Inputs, Written
<1>3. \A k : At(Written, k) = {r \in Inputs : k \in {Key(r, iv) : iv \in Intervals}}
  BY <1>2 DEF At, KeysOf
<1>4. DOMAIN reg = {Key(r, iv) : r \in Inputs, iv \in Intervals}
  <2>1. ASSUME NEW r \in Inputs, NEW iv \in Intervals PROVE Key(r, iv) \in DOMAIN reg
    <3>1. Key(r, iv) \in AllKeys
      BY <1>0, <1>2 DEF AllKeys
    <3>2. r \in At(Written, Key(r, iv))
      BY <1>3
    <3> QED BY <1>1, <3>1, <3>2
  <2>2. ASSUME NEW k \in DOMAIN reg PROVE \E r \in Inputs, iv \in Intervals : k = Key(r, iv)
    BY <1>1, <1>3
  <2> QED BY <2>1, <2>2
<1>5. \A k \in DOMAIN reg : reg[k] = BarOf(At(Written, k))
  <2> TAKE k \in DOMAIN reg
  <2>1. Placed(At(Written, k)) /\ Fits(reg[k], At(Written, k))
    BY <1>0, <1>1 DEF Placed
  <2> QED BY <2>1, FitsIsBar
<1> DEFINE D == {Key(r, iv) : r \in Inputs, iv \in Intervals}
           In(k) == {r \in Inputs : k \in {Key(r, iv) : iv \in Intervals}}
<1>6. D = DOMAIN reg /\ \A k \in D : reg[k] = BarOf(In(k))
  <2>1. \A k : At(Written, k) = In(k)
    BY <1>3
  <2> HIDE DEF In
  <2> QED BY <2>1, <1>4, <1>5
<1>7. reg = [k \in D |-> BarOf(In(k))]
  <2> HIDE DEF D, In
  <2> QED BY <1>1, <1>6
<1> QED BY <1>7

(* A block is folded into the registry (count_block).                        *)
LEMMA IndexBars ==
    ASSUME BarsInv, up, NEW b \in Blocks, canon[b.slot] = b.fork, b \notin indexed
    PROVE  /\ Holds(Observed(reg, b.rows), NoRows, Written \cup ToSet(b.rows), AllKeys)
           /\ Written \cap ToSet(b.rows) = {} /\ Placed(Written \cup ToSet(b.rows))
<1> DEFINE N == Len(b.rows)
<1>1. /\ ChainInv /\ Holds(reg, NoRows, Written, AllKeys)
      /\ indexed \subseteq Blocks /\ \A c \in indexed : c.slot # b.slot
  BY NewBlock DEF BarsInv, ConfirmedInv, ChainInv, RegistryInv
<1>2. Placed(Written) /\ IsFiniteSet(Written) /\ Written \subseteq Rows
  BY <1>1, WrittenPlaced
<1>3. /\ ToSet(b.rows) \subseteq Rows /\ Placed(ToSet(b.rows))
      /\ \A r \in ToSet(b.rows) : r.slot = b.slot
      /\ N \in Nat /\ DOMAIN b.rows = 1 .. N
      /\ \A i, j \in DOMAIN b.rows : i # j => b.rows[i] # b.rows[j]
  BY BlockRows
<1>4. \A r \in Written : r.slot # b.slot
  <2> TAKE r \in Written
  <2>1. PICK c \in indexed : r \in ToSet(c.rows)
    BY DEF Written
  <2>2. c \in Blocks
    BY <1>1
  <2>3. r.slot = c.slot
    BY <2>1, <2>2, BlockRows
  <2> QED BY <2>3, <1>1
<1>5. Written \cap ToSet(b.rows) = {}
  BY <1>3, <1>4
<1>6. Placed(Written \cup ToSet(b.rows))
  <2>1. \A r \in Written, o \in ToSet(b.rows) : Place(r) # Place(o)
    <3> TAKE r \in Written, o \in ToSet(b.rows)
    <3>1. Place(r)[1] = r.slot /\ Place(o)[1] = o.slot
      BY <1>2, <1>3, RowType
    <3> QED BY <3>1, <1>3, <1>4
  <2> QED BY <2>1, <1>2, <1>3 DEF Placed
<1>7. Observed(reg, b.rows) = FoldedIn(AllKeys, reg, b.rows)
  BY Zenon DEF Observed, FoldedIn
<1> DEFINE q == b.rows
           I == Written
<1> HIDE DEF N, q, I
<1>8. Holds(FoldedIn(AllKeys, reg, q), NoRows, I \cup ToSet(q), AllKeys)
  <2>1. IsFiniteSet(I) /\ Placed(I \cup ToSet(q)) /\ I \cap ToSet(q) = {} /\ Holds(reg, NoRows, I, AllKeys)
    BY <1>1, <1>2, <1>5, <1>6 DEF q, I
  <2>2. N \in Nat /\ DOMAIN q = 1 .. N /\ \A i, j \in DOMAIN q : i # j => q[i] # q[j]
    BY <1>3 DEF q
  <2> QED BY <2>1, <2>2, FoldHolds
<1> QED BY <1>5, <1>6, <1>7, <1>8 DEF q, I

(* What a reorg finds in the table: the rows of the chain below it that were *)
(* not pruned.                                                               *)
LEMMA SurvivorsAre ==
    ASSUME ConfirmedInv, RowsExact, NEW from \in Nat
    PROVE  {SurvivingSwaps(from)[p] : p \in DOMAIN SurvivingSwaps(from)}
              = {r \in Written : r.slot >= pruned /\ r.slot < from}
<1> DEFINE S == {SurvivingSwaps(from)[p] : p \in DOMAIN SurvivingSwaps(from)}
<1>1. S = {r \in {swaps[p] : p \in DOMAIN swaps} : r.slot < from}
  BY DEF SurvivingSwaps, Only
<1>2. {swaps[p] : p \in DOMAIN swaps} = UNION {ToSet(b.rows) : b \in {c \in indexed : c.slot >= pruned}}
  BY DEF RowsExact
<1>3. \A c \in indexed : c \in Blocks
  BY DEF ConfirmedInv, ChainInv
<1>4. \A c \in indexed : \A r \in ToSet(c.rows) : r.slot = c.slot
  BY <1>3, BlockRows
<1>5. UNION {ToSet(b.rows) : b \in {c \in indexed : c.slot >= pruned}} = {r \in Written : r.slot >= pruned}
  BY <1>4 DEF Written
<1> HIDE DEF S
<1>6. S = {r \in Written : r.slot >= pruned /\ r.slot < from}
  BY <1>1, <1>2, <1>5
<1> QED BY <1>6 DEF S

(* A list of the members of a finite set has each of them once.              *)
LEMMA ListedOnce ==
    ASSUME NEW S, IsFiniteSet(S), NEW order \in SetToSeqs(S)
    PROVE  /\ ToSet(order) = S /\ Cardinality(S) \in Nat /\ DOMAIN order = 1 .. Cardinality(S)
           /\ \A i, j \in DOMAIN order : i # j => order[i] # order[j]
<1> DEFINE N == Cardinality(S)
<1>1. N \in Nat
  BY FS_CardinalityType
<1>2. order \in [1 .. N -> S] /\ \A i, j \in 1 .. N : i # j => order[i] # order[j]
  BY DEF SetToSeqs
<1>3. IsFiniteSet(1 .. N) /\ Cardinality(1 .. N) = N
  <2>1. IsFiniteSet(1 .. N) /\ Cardinality(1 .. N) = IF 1 > N THEN 0 ELSE N - 1 + 1
    BY <1>1, FS_Interval
  <2> QED BY <2>1, <1>1
<1>4. order \in Injection(1 .. N, S)
  BY <1>2 DEF Injection, IsInjective
<1>5. order \in Surjection(1 .. N, S)
  BY <1>3, <1>4, FS_Injection
<1>6. ToSet(order) = S
  BY <1>2, <1>5 DEF Surjection, ToSet
<1> QED BY <1>1, <1>2, <1>6

(* The bars are recomputed (idx_bar_registry_recompute_range, bar.c).        *)
LEMMA ReorgBars ==
    ASSUME BarsInv, RowsExact, MarginCovers, up, NEW from \in Slots, from > final,
           NEW order \in SetToSeqs({SurvivingSwaps(from)[p] : p \in DOMAIN SurvivingSwaps(from)})
    PROVE  /\ Holds(Recomputed(from, order), NoRows, {r \in Written : r.slot < from}, AllKeys)
           /\ \A k \in DOMAIN reg \ Affected(from) : /\ k \in DOMAIN Recomputed(from, order)
                                                     /\ Recomputed(from, order)[k] = reg[k]
           /\ \A k \in DOMAIN Recomputed(from, order) : k \in DOMAIN reg
           /\ \A k \in Affected(from) : At({r \in Written : r.slot < from}, k)
                                           = At({r \in Written : r.slot >= pruned /\ r.slot < from}, k)
<1> DEFINE S == {r \in Written : r.slot >= pruned /\ r.slot < from}
           L == {r \in Written : r.slot < from}
           A == Affected(from)
           base == Only(reg, DOMAIN reg \ A)
           new == Recomputed(from, order)
<1>1. /\ ChainInv /\ ConfirmedInv /\ Holds(reg, NoRows, Written, AllKeys)
      /\ final \in Nat /\ pruned \in Nat /\ from \in Nat /\ Margin \in Nat
      /\ pruned > 0 => pruned + Margin <= from
  BY ConfirmedAssumption DEF BarsInv, ConfirmedInv, ChainInv, RegistryInv, MarginInv
<1>2. Placed(Written) /\ IsFiniteSet(Written) /\ Written \subseteq Rows
  BY <1>1, WrittenPlaced
<1>3. order \in SetToSeqs(S)
  BY <1>1, SurvivorsAre
<1>4. IsFiniteSet(S) /\ Placed(S) /\ \A r \in Written : r.slot \in Nat
  <2>1. S \subseteq Written
    OBVIOUS
  <2> HIDE DEF S
  <2>2. IsFiniteSet(S)
    BY <1>2, <2>1, FS_Subset
  <2> QED BY <1>2, <2>1, <2>2, RowType DEF Placed
<1>5. /\ DOMAIN reg = {k \in AllKeys : At(Written, k) # {}}
      /\ \A k \in DOMAIN reg : k \in AllKeys /\ Fits(reg[k], At(Written, k)) /\ At(Written, k) \subseteq Written
  BY <1>1, <1>2, BarOfRegistry
<1>6. A \subseteq DOMAIN reg /\ \A k \in DOMAIN reg : k \in A <=> reg[k].close_seq[1] >= from
  BY DEF Affected
<1>7. new = FoldedIn(A, base, order)
  BY Zenon DEF Recomputed, FoldedIn
<1>8. Holds(new, base, S, A)
  <2>1. Holds(base, base, {}, A)
    <3>1. base = [k \in DOMAIN base |-> base[k]] /\ DOMAIN base = DOMAIN reg \ A
      BY DEF Only
    <3>2. \A k : At({}, k) = {}
      BY DEF At
    <3> HIDE DEF base, A
    <3> QED BY <3>1, <3>2 DEF Holds
  <2> HIDE DEF S, A, base, new
  <2>2. /\ ToSet(order) = S /\ Cardinality(S) \in Nat /\ DOMAIN order = 1 .. Cardinality(S)
        /\ \A i, j \in DOMAIN order : i # j => order[i] # order[j]
    BY <1>3, <1>4, ListedOnce
  <2>3. IsFiniteSet({}) /\ {} \cup S = S /\ {} \cap S = {}
    BY FS_EmptySet
  <2> DEFINE E == {}
  <2>4. /\ IsFiniteSet(E) /\ Placed(E \cup ToSet(order)) /\ E \cap ToSet(order) = {}
        /\ Holds(base, base, E, A) /\ E \cup ToSet(order) = S
    BY <1>4, <2>1, <2>2, <2>3
  <2> HIDE DEF E
  <2>5. Holds(FoldedIn(A, base, order), base, E \cup ToSet(order), A)
    BY <2>2, <2>4, FoldHolds
  <2> QED BY <1>7, <2>4, <2>5
(* a bar a reorg rebuilds has no row that was pruned *)
<1>9. \A k \in A : At(L, k) = At(S, k)
  <2> SUFFICES ASSUME NEW k \in A, NEW r \in At(L, k) PROVE r.slot >= pruned
    <3>1. S \subseteq L /\ S = {r \in L : r.slot >= pruned}
      OBVIOUS
    <3> HIDE DEF S, L, A
    <3> QED BY <3>1 DEF At
  <2>1. k \in DOMAIN reg /\ reg[k].close_seq[1] >= from
    BY <1>6
  <2>2. At(Written, k) \subseteq Rows /\ Fits(reg[k], At(Written, k))
    BY <1>2, <1>5, <2>1
  <2>3. PICK l \in At(Written, k) : reg[k].close_seq[1] = l.slot
    BY <2>2, ClosesLast
  <2>4. r \in Written /\ l \in Written /\ k \in KeysOf(r) \cap KeysOf(l)
    BY DEF At
  <2>5. l.slot <= r.slot + Margin
    BY <2>4, <1>2 DEF MarginCovers
  <2>6. r.slot \in Nat /\ l.slot \in Nat /\ l.slot >= from
    BY <2>1, <2>3, <2>4, <1>4
  <2> HIDE DEF A, L, S
  <2>7. CASE pruned > 0
    <3>1. pruned + Margin <= r.slot + Margin
      BY <2>5, <2>6, <2>7, <1>1
    <3> QED BY <3>1, <2>6, <1>1
  <2>8. CASE ~(pruned > 0)
    BY <2>6, <2>8, <1>1
  <2> QED BY <2>7, <2>8
(* and another bar keeps all its rows *)
<1>10. \A k \in DOMAIN reg \ A : At(L, k) = At(Written, k)
  <2> SUFFICES ASSUME NEW k \in DOMAIN reg \ A, NEW r \in At(Written, k) PROVE r.slot < from
    <3> HIDE DEF A
    <3> QED BY DEF At
  <2>1. ~(reg[k].close_seq[1] >= from)
    BY <1>6
  <2>2. At(Written, k) \subseteq Rows /\ Fits(reg[k], At(Written, k))
    BY <1>2, <1>5
  <2>3. PICK l \in At(Written, k) : reg[k].close_seq[1] = l.slot /\ \A o \in At(Written, k) : o.slot <= l.slot
    BY <2>2, ClosesLast
  <2>4. l \in Written /\ r \in Written
    BY DEF At
  <2>5. r.slot <= l.slot /\ r.slot \in Nat /\ l.slot \in Nat
    BY <2>3, <2>4, <1>4
  <2> QED BY <2>1, <2>3, <2>5, <1>1
<1> HIDE DEF new
<1>11. /\ DOMAIN base = DOMAIN reg \ A /\ \A k \in DOMAIN reg \ A : base[k] = reg[k]
  BY DEF Only
<1> HIDE DEF A, base, S
<1>12. DOMAIN new = (DOMAIN reg \ A) \cup {k \in A : At(S, k) # {}}
  BY <1>8, <1>11 DEF Holds
<1>13. DOMAIN new = {k \in AllKeys : At(L, k) # {}}
  <2>1. \A k : At(L, k) \subseteq At(Written, k)
    BY DEF At
  <2> HIDE DEF L
  <2> QED BY <1>5, <1>6, <1>9, <1>10, <1>12, <2>1
<1>14. \A k \in DOMAIN reg \ A : k \in DOMAIN new /\ new[k] = reg[k]
  BY <1>8, <1>11, <1>12 DEF Holds
<1>15. \A k \in DOMAIN new : k \in DOMAIN reg
  BY <1>6, <1>12
<1>16. ASSUME NEW k \in DOMAIN new PROVE k \in AllKeys /\ Fits(new[k], At(L, k))
  <2>1. k \in DOMAIN reg
    BY <1>15
  <2> HIDE DEF L
  <2>2. CASE k \in A
    <3>1. Fits(new[k], At(S, k))
      BY <2>2, <1>8 DEF Holds
    <3> QED BY <3>1, <2>1, <2>2, <1>5, <1>9
  <2>3. CASE k \notin A
    BY <2>1, <2>3, <1>5, <1>10, <1>14
  <2> QED BY <2>2, <2>3
<1>17. Holds(new, NoRows, L, AllKeys)
  <2>1. DOMAIN NoRows = {}
    BY DEF NoRows
  <2>2. new = [k \in DOMAIN new |-> new[k]]
    BY <1>8 DEF Holds
  <2> HIDE DEF L
  <2> QED BY <2>1, <2>2, <1>13, <1>16 DEF Holds
<1> QED BY <1>9, <1>14, <1>15, <1>17 DEF new, A, S

(* No bar of the empty database.                                             *)
LEMMA BarsInitially == Init => BarsInv
<1> SUFFICES ASSUME Init PROVE BarsInv
  OBVIOUS
<1>1. ConfirmedInv
  BY ConfirmedInitially
<1>2. RegistryInv
  <2>1. Written = {} /\ reg = NoRows /\ DOMAIN NoRows = {}
    BY DEF Init, Written, NoRows
  <2>2. \A k : At({}, k) = {}
    BY DEF At
  <2>3. NoRows = [k \in DOMAIN NoRows |-> NoRows[k]]
    BY DEF NoRows
  <2>4. Holds(NoRows, NoRows, {}, AllKeys)
    BY <2>1, <2>2, <2>3 DEF Holds
  <2> QED BY <2>1, <2>4 DEF RegistryInv
<1>3. MarginInv
  BY DEF Init, MarginInv
<1> QED BY <1>1, <1>2, <1>3 DEF BarsInv

(* A reorg leaves the rows below it.                                         *)
LEMMA ReorgWritten ==
    ASSUME ConfirmedInv, NEW from \in Nat, indexed' = {b \in indexed : b.slot < from}
    PROVE  Written' = {r \in Written : r.slot < from}
<1>1. \A c \in indexed : c \in Blocks
  BY DEF ConfirmedInv, ChainInv
<1>2. \A c \in indexed : \A r \in ToSet(c.rows) : r.slot = c.slot
  BY <1>1, BlockRows
<1>3. Written' = UNION {ToSet(b.rows) : b \in indexed'}
  BY DEF Written
<1> QED BY <1>2, <1>3 DEF Written

(* Every step preserves what is said of the registry.                        *)
LEMMA RegistryStep ==
    ASSUME ~Redeliver, PathsUnique, MarginCovers, BarsInv, [Next]_vars
    PROVE  RegistryInv'
<1> SUFFICES ASSUME up' PROVE Holds(reg', NoRows, Written', AllKeys)
  BY DEF RegistryInv, NoRows, AllKeys
<1>0. Written' = UNION {ToSet(b.rows) : b \in indexed'}
  BY DEF Written
<1>1. ASSUME NEW b \in Blocks, Index(b) PROVE Holds(reg', NoRows, Written', AllKeys)
  <2>1. up /\ canon[b.slot] = b.fork /\ b \notin indexed /\ reg' = Observed(reg, b.rows)
    BY <1>1 DEF Index
  <2>2. indexed' = indexed \cup {b}
    BY <1>1 DEF Index
  <2>3. Written' = Written \cup ToSet(b.rows)
    BY <1>0, <2>2 DEF Written
  <2>4. Holds(Observed(reg, b.rows), NoRows, Written \cup ToSet(b.rows), AllKeys)
    BY <2>1, IndexBars
  <2> QED BY <2>1, <2>3, <2>4
<1>2. ASSUME NEW from \in Slots, NEW fork \in Forks, Reorg(from, fork)
      PROVE  Holds(reg', NoRows, Written', AllKeys)
  <2>0. up /\ from > final /\ indexed' = {b \in indexed : b.slot < from}
    BY <1>2 DEF Reorg
  <2>1. PICK order \in SetToSeqs({SurvivingSwaps(from)[p] : p \in DOMAIN SurvivingSwaps(from)}) :
               reg' = Recomputed(from, order)
    BY <1>2 DEF Reorg
  <2>2. RowsExact /\ ConfirmedInv
    BY TableExact DEF BarsInv
  <2>3. from \in Nat
    BY ConfirmedAssumption
  <2>4. Written' = {r \in Written : r.slot < from}
    BY <2>0, <2>2, <2>3, ReorgWritten
  <2>5. Holds(Recomputed(from, order), NoRows, {r \in Written : r.slot < from}, AllKeys)
    BY <2>0, <2>2, ReorgBars
  <2> QED BY <2>1, <2>4, <2>5
<1>3. ASSUME UNCHANGED <<up, reg, indexed>> PROVE Holds(reg', NoRows, Written', AllKeys)
  <2>1. Written' = Written
    BY <1>0, <1>3 DEF Written
  <2> QED BY <2>1, <1>3 DEF BarsInv, RegistryInv
<1>4. CASE Finalize
  BY <1>3, <1>4 DEF Finalize, histVars
<1>5. ASSUME NEW below \in 1 .. Max(Slots) + 1, Prune(below)
      PROVE  Holds(reg', NoRows, Written', AllKeys)
  BY <1>3, <1>5 DEF Prune
<1>6. CASE UNCHANGED vars
  BY <1>3, <1>6 DEF vars, histVars
<1> QED BY <1>1, <1>2, <1>4, <1>5, <1>6 DEF Next

(* Every step preserves what is said of the margin.                          *)
LEMMA MarginStep ==
    ASSUME ~Redeliver, BarsInv, [Next]_vars
    PROVE  MarginInv'
<1>0. /\ final \in Nat /\ pruned \in Nat /\ Margin \in Nat /\ MarginInv
      /\ \A b \in Blocks : b.slot \in Nat /\ b.slot \in Slots
  BY SlotType, ConfirmedAssumption DEF BarsInv, ConfirmedInv, ChainInv
<1>1. ASSUME NEW b \in Blocks, Index(b) PROVE MarginInv'
  <2>1. up /\ UNCHANGED <<canon, final, pruned>> /\ (up' => indexed' = indexed \cup {b})
    BY <1>1 DEF Index
  <2> QED BY <2>1, <1>0 DEF MarginInv
<1>2. ASSUME NEW from \in Slots, NEW fork \in Forks, Reorg(from, fork) PROVE MarginInv'
  <2>0. from \in Nat
    BY ConfirmedAssumption
  <2>1. /\ up /\ from > final /\ UNCHANGED <<final, pruned>>
        /\ canon' = [s \in Slots |-> IF s >= from THEN fork ELSE canon[s]]
        /\ up' => indexed' = {b \in indexed : b.slot < from}
    BY <1>2 DEF Reorg
  <2> SUFFICES ASSUME pruned' > 0
               PROVE  /\ pruned' + Margin <= final' + 1
                      /\ up' => \A b \in Blocks :
                            b.slot < pruned' + Margin /\ canon'[b.slot] = b.fork => b \in indexed'
    BY DEF MarginInv
  <2>2. /\ pruned + Margin <= final + 1
        /\ \A b \in Blocks : b.slot < pruned + Margin /\ canon[b.slot] = b.fork => b \in indexed
    BY <2>1, <1>0 DEF MarginInv
  <2>3. ASSUME up', NEW b \in Blocks, b.slot < pruned' + Margin, canon'[b.slot] = b.fork PROVE b \in indexed'
    <3>1. b.slot < from
      BY <2>0, <2>1, <2>2, <2>3, <1>0
    <3>2. canon'[b.slot] = canon[b.slot]
      BY <3>1, <2>0, <2>1, <1>0
    <3>3. b \in indexed
      BY <3>2, <2>1, <2>2, <2>3
    <3> QED BY <3>1, <3>3, <2>1, <2>3
  <2> QED BY <2>1, <2>2, <2>3
<1>3. CASE Finalize
  <2>1. final' = final + 1 /\ UNCHANGED <<canon, up, pruned, indexed>>
    BY <1>3 DEF Finalize, histVars
  <2>2. pruned + Margin <= final + 1 => pruned + Margin <= final' + 1
    BY <2>1, <1>0
  <2> QED BY <2>1, <2>2, <1>0 DEF MarginInv
<1>4. ASSUME NEW below \in 1 .. Max(Slots) + 1, Prune(below) PROVE MarginInv'
  <2>1. /\ up /\ below + Margin <= final + 1 /\ pruned' = below
        /\ \A b \in Blocks : b.slot < below + Margin /\ canon[b.slot] = b.fork => b \in indexed
        /\ UNCHANGED <<canon, final, up, indexed>>
    BY <1>4 DEF Prune
  <2> QED BY <2>1 DEF MarginInv
<1>5. CASE UNCHANGED vars
  BY <1>0, <1>5 DEF MarginInv, vars, histVars
<1> QED BY <1>1, <1>2, <1>3, <1>4, <1>5 DEF Next

(* Every step preserves the invariant.                                       *)
LEMMA BarsStep ==
    ASSUME ~Redeliver, PathsUnique, MarginCovers, BarsInv, [Next]_vars
    PROVE  BarsInv'
BY ConfirmedStep, RegistryStep, MarginStep DEF BarsInv

(* The invariant holds in every reachable state of one life. *)
THEOREM ConfirmedBarsInvariant == ~Redeliver /\ PathsUnique /\ MarginCovers => (Spec => []BarsInv)
<1> SUFFICES ASSUME ~Redeliver, PathsUnique, MarginCovers PROVE Spec => []BarsInv
  OBVIOUS
<1>1. BarsInv /\ [Next]_vars => BarsInv'
  BY BarsStep
<1> QED BY <1>1, BarsInitially, PTL DEF Spec

(* bar.h 138-140, "re-folding the survivors yields exactly the bar a          *)
(* from-scratch derivation would": on any chain, in whatever order blocks     *)
(* came and survivors were read, each bar is the bar of the swaps in its      *)
(* bucket.                                                                    *)
THEOREM ConfirmedBarsAreFolds ==
    ~Redeliver /\ PathsUnique /\ MarginCovers => (Spec => []BarsAreFolds)
<1> SUFFICES ASSUME ~Redeliver, PathsUnique, MarginCovers PROVE Spec => []BarsAreFolds
  OBVIOUS
<1>1. BarsInv => BarsAreFolds
  BY RegistryIsFold DEF BarsInv, ConfirmedInv
<1> QED BY <1>1, ConfirmedBarsInvariant, PTL

-----------------------------------------------------------------------------
(* PACKED KEYS *)

(* Powers of Byte, of which the provers know nothing.                        *)
PowersOfByte == Byte ^ 0 = 1 /\ \A k \in 0 .. 7 : Byte ^ (k + 1) = Byte * Byte ^ k

(* Every number of a place fits the width it is packed into (u64 and u16,    *)
(* bar.h).                                                                   *)
WidthsFit ==
    \A r \in Rows : /\ r.slot < Byte ^ 8 /\ r.tx < Byte ^ 2
                    /\ r.ins < Byte ^ 2 /\ r.idx < Byte ^ 2

(* Products of natural numbers keep their order.                             *)
LEMMA ProductOrder ==
    ASSUME NEW d \in Nat, NEW x \in Nat, NEW y \in Nat, x < y
    PROVE  d * x + d <= d * y /\ d * x \in Nat /\ d * y \in Nat
<1>1. PICK t \in Nat : y = x + 1 + t
  <2>1. y - x - 1 \in Nat /\ y = x + 1 + (y - x - 1)
    OBVIOUS
  <2> QED BY <2>1
<1>2. d * y = d * x + d + d * t
  BY <1>1
<1>3. d * t \in Nat /\ d * x \in Nat
  OBVIOUS
<1> QED BY <1>2, <1>3

(* A number determines its quotient and its remainder.                       *)
LEMMA Quotient ==
    ASSUME NEW d \in Nat, NEW x \in Nat, NEW y \in Nat, NEW e \in Nat, NEW f \in Nat,
           e < d, f < d, d * x + e = d * y + f
    PROVE  x = y
<1>1. ~(x < y)
  <2> SUFFICES ASSUME x < y PROVE FALSE
    OBVIOUS
  <2>1. d * x + d <= d * y /\ d * x \in Nat /\ d * y \in Nat
    BY ProductOrder
  <2> DEFINE u == d * x
             v == d * y
  <2>2. u \in Nat /\ v \in Nat /\ u + d <= v /\ u + e = v + f
    BY <2>1
  <2> HIDE DEF u, v
  <2> QED BY <2>2
<1>2. ~(y < x)
  <2> SUFFICES ASSUME y < x PROVE FALSE
    OBVIOUS
  <2>1. d * y + d <= d * x /\ d * x \in Nat /\ d * y \in Nat
    BY ProductOrder
  <2> DEFINE u == d * x
             v == d * y
  <2>2. u \in Nat /\ v \in Nat /\ v + d <= u /\ u + e = v + f
    BY <2>1
  <2> HIDE DEF u, v
  <2> QED BY <2>2
<1> QED BY <1>1, <1>2

(* Division with a remainder.                                                *)
LEMMA Division ==
    ASSUME NEW n \in Nat, NEW d \in Nat \ {0}
    PROVE  /\ n \div d \in Nat /\ n % d \in Nat /\ n % d < d
           /\ n = d * (n \div d) + (n % d)
<1>1. n \div d \in Nat
  OBVIOUS
<1>2. n % d \in Nat /\ n % d < d
  OBVIOUS
<1>3. n = d * (n \div d) + (n % d)
  OBVIOUS
<1> QED BY <1>1, <1>2, <1>3

(* Dividing twice divides by the product.                                    *)
LEMMA DivisionTwice ==
    ASSUME NEW n \in Nat, NEW p \in Nat \ {0}, NEW b \in Nat \ {0}
    PROVE  (n \div p) \div b = n \div (b * p)
<1> DEFINE q == n \div p
           e == n % p
           a == q \div b
           d == q % b
           P == b * p
           x == n \div P
           y == n % P
<1>1. q \in Nat /\ e \in Nat /\ e < p /\ n = p * q + e
  BY Division
<1>2. a \in Nat /\ d \in Nat /\ d < b /\ q = b * a + d
  <2> HIDE DEF q
  <2> QED BY <1>1, Division
<1>3. P \in Nat \ {0}
  <2>1. 0 < b /\ p * 0 + p <= p * b
    BY ProductOrder
  <2>2. p * b = P /\ p * 0 = 0
    OBVIOUS
  <2> HIDE DEF P
  <2> QED BY <2>1, <2>2
<1>4. x \in Nat /\ y \in Nat /\ y < P /\ n = P * x + y
  <2> HIDE DEF P
  <2> QED BY <1>3, Division
<1> HIDE DEF q, e, a, d, x, y
<1>5. n = P * a + (p * d + e)
  <2>1. n = p * (b * a + d) + e
    BY <1>1, <1>2
  <2>2. p * (b * a + d) = P * a + p * d
    BY <1>2
  <2>3. P * a \in Nat /\ p * d \in Nat
    BY <1>2, <1>3
  <2> HIDE DEF P
  <2> QED BY <2>1, <2>2, <2>3, <1>1
<1>6. p * d + e \in Nat /\ p * d + e < P
  <2>1. p * d + p <= p * b /\ p * d \in Nat
    BY <1>2, ProductOrder
  <2>2. p * b = P
    OBVIOUS
  <2> HIDE DEF P
  <2> DEFINE u == p * d
  <2>3. u \in Nat /\ u + p <= P
    BY <2>1, <2>2
  <2> HIDE DEF u
  <2>4. u + e \in Nat /\ u + e < P
    BY <2>3, <1>1, <1>3
  <2> QED BY <2>4 DEF u
<1> DEFINE f == p * d + e
<1>7. P \in Nat /\ f \in Nat /\ f < P /\ P * a + f = P * x + y
  BY <1>3, <1>4, <1>5, <1>6
<1> HIDE DEF P, f
<1>8. a = x
  BY <1>2, <1>4, <1>7, Quotient
<1> QED BY <1>8 DEF a, x, q, P

(* Two numbers with digits in base b, q[i] and r[i] being what their first i *)
(* digits say.                                                               *)
LEMMA DigitsOrder ==
    ASSUME NEW w \in Nat, NEW b \in Nat,
           NEW q \in [0 .. w -> Nat], NEW r \in [0 .. w -> Nat],
           NEW d \in [1 .. w -> Nat], NEW e \in [1 .. w -> Nat],
           q[0] = r[0],
           \A i \in 1 .. w : /\ d[i] < b /\ e[i] < b
                             /\ q[i] = b * q[i - 1] + d[i] /\ r[i] = b * r[i - 1] + e[i]
    PROVE  /\ d = e => q[w] = r[w]
           /\ Before(d, e) => q[w] < r[w]
<1>1. ASSUME NEW m \in 0 .. w, \A i \in 1 .. m : d[i] = e[i] PROVE q[m] = r[m]
  <2> DEFINE T == {n \in Nat : n <= m => q[n] = r[n]}
  <2>1. 0 \in T
    OBVIOUS
  <2>2. ASSUME NEW n \in Nat, n \in T PROVE n + 1 \in T
    <3> SUFFICES ASSUME n + 1 <= m PROVE q[n + 1] = r[n + 1]
      OBVIOUS
    <3>1. n + 1 \in 1 .. w /\ n + 1 \in 1 .. m /\ n <= m /\ n + 1 - 1 = n
      OBVIOUS
    <3>2. q[n] = r[n] /\ d[n + 1] = e[n + 1]
      BY <2>2, <3>1, <1>1
    <3>3. q[n + 1] = b * q[n] + d[n + 1] /\ r[n + 1] = b * r[n] + e[n + 1]
      BY <3>1
    <3> QED BY <3>2, <3>3
  <2> HIDE DEF T
  <2>3. m \in Nat
    OBVIOUS
  <2>4. m \in T
    BY <2>3, <2>1, <2>2, SetInduction
  <2> QED BY <2>4 DEF T
<1>2. ASSUME Before(d, e) PROVE q[w] < r[w]
  <2>1. PICK i \in 1 .. w : d[i] < e[i] /\ \A j \in 1 .. i - 1 : d[j] = e[j]
    BY <1>2 DEF Before
  <2>2. i - 1 \in 0 .. w /\ i \in 0 .. w /\ i \in Nat
    OBVIOUS
  <2>3. q[i - 1] = r[i - 1]
    BY <1>1, <2>1, <2>2
  <2>4. q[i] < r[i]
    <3>1. q[i] = b * q[i - 1] + d[i] /\ r[i] = b * q[i - 1] + e[i]
      BY <2>3
    <3> DEFINE u == b * q[i - 1]
    <3>2. u \in Nat /\ d[i] \in Nat /\ e[i] \in Nat
      BY <2>2
    <3>3. q[i] = u + d[i] /\ r[i] = u + e[i]
      BY <3>1
    <3> HIDE DEF u
    <3> QED BY <2>1, <3>2, <3>3
  <2> DEFINE T == {n \in Nat : i + n <= w => q[i + n] < r[i + n]}
  <2>5. 0 \in T
    BY <2>2, <2>4
  <2>6. ASSUME NEW n \in Nat, n \in T PROVE n + 1 \in T
    <3> DEFINE k == i + n
    <3> SUFFICES ASSUME k + 1 <= w PROVE q[k + 1] < r[k + 1]
      BY <2>2
    <3>1. k + 1 \in 1 .. w /\ k \in 0 .. w /\ k + 1 - 1 = k
      BY <2>2
    <3>2. q[k] < r[k]
      BY <2>6, <3>1
    <3> HIDE DEF k
    <3>3. q[k] \in Nat /\ r[k] \in Nat /\ d[k + 1] \in Nat /\ e[k + 1] \in Nat /\ d[k + 1] < b
      BY <3>1
    <3>4. q[k + 1] = b * q[k] + d[k + 1] /\ r[k + 1] = b * r[k] + e[k + 1]
      BY <3>1
    <3> DEFINE x == q[k]
               y == r[k]
               u == b * q[k]
               v == b * r[k]
    <3>5. u + b <= v /\ u \in Nat /\ v \in Nat
      <4> HIDE DEF x, y
      <4>1. x \in Nat /\ y \in Nat /\ x < y
        BY <3>2, <3>3 DEF x, y
      <4>2. b * x + b <= b * y /\ b * x \in Nat /\ b * y \in Nat
        BY <4>1, ProductOrder
      <4> QED BY <4>2 DEF x, y
    <3>6. q[k + 1] = u + d[k + 1] /\ r[k + 1] = v + e[k + 1]
      BY <3>4
    <3> HIDE DEF u, v
    <3> QED BY <3>3, <3>5, <3>6
  <2>7. w - i \in Nat /\ i + (w - i) = w
    BY <2>2
  <2> HIDE DEF T
  <2>8. w - i \in T
    BY <2>5, <2>6, <2>7, SetInduction
  <2>9. i + (w - i) <= w => q[i + (w - i)] < r[i + (w - i)]
    BY <2>8 DEF T
  <2> QED BY <2>7, <2>9
<1>3. ASSUME d = e PROVE q[w] = r[w]
  BY <1>1, <1>3
<1> QED BY <1>2, <1>3

(* The powers are positive numbers.                                          *)
LEMMA PowerType ==
    ASSUME PowersOfByte, NEW k \in 0 .. 8
    PROVE  Byte ^ k \in Nat \ {0}
<1> DEFINE T == {n \in Nat : n <= 8 => Byte ^ n \in Nat \ {0}}
<1>1. 0 \in T
  BY DEF PowersOfByte
<1>2. ASSUME NEW n \in Nat, n \in T PROVE n + 1 \in T
  <2> SUFFICES ASSUME n + 1 <= 8 PROVE Byte ^ (n + 1) \in Nat \ {0}
    OBVIOUS
  <2> DEFINE p == Byte ^ n
  <2>1. n \in 0 .. 7 /\ p \in Nat \ {0}
    BY <1>2
  <2>2. Byte ^ (n + 1) = Byte * p
    BY <2>1 DEF PowersOfByte
  <2>3. Byte \in Nat \ {0}
    BY ConfirmedAssumption
  <2> HIDE DEF p
  <2>4. 0 < p /\ Byte * 0 + Byte <= Byte * p /\ Byte * p \in Nat /\ Byte * 0 = 0
    BY <2>1, <2>3, ProductOrder
  <2> QED BY <2>2, <2>3, <2>4
<1>3. k \in Nat /\ k <= 8
  OBVIOUS
<1> HIDE DEF T
<1>4. k \in T
  BY <1>1, <1>2, <1>3, SetInduction
<1> QED BY <1>3, <1>4 DEF T

(* The bytes of a packed number, q[i] being what the first i of them say.    *)
LEMMA BigEndianDigits ==
    ASSUME PowersOfByte, NEW w \in 1 .. 8, NEW n \in Nat, n < Byte ^ w
    PROVE  /\ BigEndian(n, w) \in [1 .. w -> Nat]
           /\ \E q \in [0 .. w -> Nat] :
                 /\ q[0] = 0 /\ q[w] = n
                 /\ \A i \in 1 .. w : /\ BigEndian(n, w)[i] < Byte
                                      /\ q[i] = Byte * q[i - 1] + BigEndian(n, w)[i]
<1> DEFINE q == [i \in 0 .. w |-> n \div Byte ^ (w - i)]
           d == BigEndian(n, w)
<1>0. Byte \in Nat \ {0} /\ w \in Nat
  BY ConfirmedAssumption
<1>1. \A i \in 0 .. w : w - i \in 0 .. 8
  OBVIOUS
<1>2. \A i \in 0 .. w : q[i] \in Nat /\ q[i] = n \div Byte ^ (w - i)
  <2> TAKE i \in 0 .. w
  <2>1. Byte ^ (w - i) \in Nat \ {0}
    BY <1>1, PowerType
  <2>2. n \div Byte ^ (w - i) \in Nat
    BY <2>1, Division
  <2> QED BY <2>2
<1>3. q \in [0 .. w -> Nat]
  <2>1. q = [i \in 0 .. w |-> q[i]]
    OBVIOUS
  <2> HIDE DEF q
  <2> QED BY <1>2, <2>1
<1>4. q[0] = 0
  <2> DEFINE p == Byte ^ w
  <2>1. p \in Nat \ {0}
    BY PowerType, <1>1
  <2>2. q[0] = n \div p
    <3>1. w - 0 = w /\ 0 \in 0 .. w
      BY <1>0
    <3> QED BY <3>1
  <2>3. n < p
    OBVIOUS
  <2> HIDE DEF p
  <2> DEFINE x == n \div p
             y == n % p
  <2>4. x \in Nat /\ y \in Nat /\ y < p /\ n = p * x + y
    BY <2>1, Division
  <2> HIDE DEF x, y
  <2>5. p * x + y = p * 0 + n
    BY <2>1, <2>4
  <2>6. x = 0
    BY <2>1, <2>3, <2>4, <2>5, Quotient
  <2> QED BY <2>2, <2>6 DEF x
<1>5. q[w] = n
  <2>1. w - w = 0 /\ w \in 0 .. w
    BY <1>0
  <2>2. q[w] = n \div Byte ^ 0
    BY <2>1
  <2>3. q[w] = n \div 1
    BY <2>2 DEF PowersOfByte
  <2>4. n \div 1 = n
    OBVIOUS
  <2> HIDE DEF q
  <2> QED BY <2>3, <2>4
<1>6. ASSUME NEW i \in 1 .. w
      PROVE  d[i] \in Nat /\ d[i] < Byte /\ q[i] = Byte * q[i - 1] + d[i]
  <2> DEFINE k == w - i
             p == Byte ^ k
  <2>1. k \in 0 .. 7 /\ k \in 0 .. 8 /\ w - (i - 1) = k + 1 /\ i \in 0 .. w /\ i - 1 \in 0 .. w
    BY <1>0
  <2>2. p \in Nat \ {0} /\ Byte ^ (k + 1) = Byte * p
    <3> HIDE DEF k
    <3> QED BY <2>1, PowerType DEF PowersOfByte
  <2>3. q[i] = n \div p /\ q[i - 1] = n \div (Byte * p)
    <3>1. q[i - 1] = n \div Byte ^ (w - (i - 1))
      BY <2>1, <1>2
    <3>2. q[i] = n \div Byte ^ k
      BY <2>1, <1>2
    <3> HIDE DEF q, k
    <3> QED BY <3>1, <3>2, <2>1, <2>2
  <2>4. d[i] = q[i] % Byte
    <3>1. d[i] = (n \div p) % Byte
      BY DEF BigEndian
    <3> HIDE DEF q, d, p
    <3> QED BY <3>1, <2>3
  <2>5. q[i] \in Nat
    BY <1>2, <2>1
  <2> HIDE DEF q, d, p, k
  <2>6. q[i - 1] = q[i] \div Byte
    <3>1. (n \div p) \div Byte = n \div (Byte * p)
      BY <1>0, <2>2, DivisionTwice
    <3> QED BY <3>1, <2>3
  <2> DEFINE x == q[i]
  <2> HIDE DEF x
  <2>7. x % Byte \in Nat /\ x % Byte < Byte /\ x = Byte * (x \div Byte) + (x % Byte)
    BY <1>0, <2>5, Division DEF x
  <2> QED BY <2>4, <2>6, <2>7 DEF x
<1>7. d \in [1 .. w -> Nat]
  <2>1. d = [i \in 1 .. w |-> d[i]]
    BY DEF BigEndian
  <2> HIDE DEF d
  <2> QED BY <1>6, <2>1
<1> HIDE DEF q
<1> QED BY <1>3, <1>4, <1>5, <1>6, <1>7

(* Packed numbers, high byte first, are compared as the numbers are.          *)
LEMMA BigEndianOrder ==
    ASSUME PowersOfByte, NEW w \in 1 .. 8, NEW n \in Nat, NEW m \in Nat,
           n < Byte ^ w, m < Byte ^ w
    PROVE  /\ BigEndian(n, w) \in [1 .. w -> Nat] /\ BigEndian(m, w) \in [1 .. w -> Nat]
           /\ BigEndian(n, w) = BigEndian(m, w) <=> n = m
           /\ Before(BigEndian(n, w), BigEndian(m, w)) <=> n < m
<1> DEFINE d == BigEndian(n, w)
           e == BigEndian(m, w)
<1>0. Byte \in Nat /\ w \in Nat
  BY ConfirmedAssumption
<1>1. PICK q \in [0 .. w -> Nat] :
         /\ q[0] = 0 /\ q[w] = n
         /\ \A i \in 1 .. w : d[i] < Byte /\ q[i] = Byte * q[i - 1] + d[i]
  BY BigEndianDigits
<1>2. PICK r \in [0 .. w -> Nat] :
         /\ r[0] = 0 /\ r[w] = m
         /\ \A i \in 1 .. w : e[i] < Byte /\ r[i] = Byte * r[i - 1] + e[i]
  BY BigEndianDigits
<1>3. d \in [1 .. w -> Nat] /\ e \in [1 .. w -> Nat]
  BY BigEndianDigits
<1>4. n = m => d = e
  OBVIOUS
<1> HIDE DEF d, e
<1>a. q[0] = r[0] /\ r[0] = q[0]
  BY <1>1, <1>2
<1>b. \A i \in 1 .. w : /\ d[i] < Byte /\ e[i] < Byte
                        /\ q[i] = Byte * q[i - 1] + d[i] /\ r[i] = Byte * r[i - 1] + e[i]
  BY <1>1, <1>2
<1>c. \A i \in 1 .. w : /\ e[i] < Byte /\ d[i] < Byte
                        /\ r[i] = Byte * r[i - 1] + e[i] /\ q[i] = Byte * q[i - 1] + d[i]
  BY <1>1, <1>2
<1>5. (d = e => q[w] = r[w]) /\ (Before(d, e) => q[w] < r[w])
  BY <1>0, <1>a, <1>b, <1>3, DigitsOrder, Zenon
<1>6. Before(e, d) => r[w] < q[w]
  BY <1>0, <1>a, <1>c, <1>3, DigitsOrder, Zenon
<1>7. d # e => Before(d, e) \/ Before(e, d)
  BY <1>0, <1>3, BeforeOrder
<1> DEFINE P == Before(d, e)
           Q == Before(e, d)
<1> HIDE DEF P, Q
<1>8. (d = e => n = m) /\ (P => n < m) /\ (Q => m < n) /\ (d # e => P \/ Q)
  BY <1>1, <1>2, <1>5, <1>6, <1>7 DEF P, Q
<1>9. (d = e <=> n = m) /\ (P <=> n < m)
  BY <1>4, <1>8
<1> QED BY <1>3, <1>9 DEF P, d, e

(* u and v are compared by a and c first, and then by b and d.               *)
ComparedBy(u, v, a, c, b, d) ==
    /\ u = v <=> a = c /\ b = d
    /\ Before(u, v) <=> Before(a, c) \/ (a = c /\ Before(b, d))

(* Vectors put one after another are compared one after another.             *)
LEMMA JoinedOrder ==
    ASSUME NEW p \in Nat, NEW k \in Nat, NEW a \in [1 .. p -> Nat], NEW c \in [1 .. p -> Nat],
           NEW b \in [1 .. k -> Nat], NEW d \in [1 .. k -> Nat]
    PROVE  /\ a \o b \in [1 .. p + k -> Nat]
           /\ ComparedBy(a \o b, c \o d, a, c, b, d)
<1> DEFINE u == a \o b
           v == c \o d
<1>0. /\ a \in Seq(Nat) /\ b \in Seq(Nat) /\ c \in Seq(Nat) /\ d \in Seq(Nat)
      /\ Len(a) = p /\ Len(c) = p /\ Len(b) = k /\ Len(d) = k
  <2>1. a \in Seq(Nat) /\ b \in Seq(Nat) /\ c \in Seq(Nat) /\ d \in Seq(Nat)
    BY SeqDef
  <2> QED BY <2>1
<1>1. /\ u \in Seq(Nat) /\ v \in Seq(Nat) /\ Len(u) = p + k /\ Len(v) = p + k
      /\ \A i \in 1 .. p + k : u[i] = (IF i <= p THEN a[i] ELSE b[i - p])
                               /\ v[i] = (IF i <= p THEN c[i] ELSE d[i - p])
  <2>1. /\ u \in Seq(Nat) /\ Len(u) = Len(a) + Len(b)
        /\ \A i \in 1 .. Len(a) + Len(b) : u[i] = IF i <= Len(a) THEN a[i] ELSE b[i - Len(a)]
    BY <1>0, ConcatProperties, Zenon
  <2>2. /\ v \in Seq(Nat) /\ Len(v) = Len(c) + Len(d)
        /\ \A i \in 1 .. Len(c) + Len(d) : v[i] = IF i <= Len(c) THEN c[i] ELSE d[i - Len(c)]
    BY <1>0, ConcatProperties, Zenon
  <2> HIDE DEF u, v
  <2> QED BY <1>0, <2>1, <2>2
<1>2. u \in [1 .. p + k -> Nat] /\ v \in [1 .. p + k -> Nat]
  <2> HIDE DEF u, v
  <2>1. u \in [1 .. Len(u) -> Nat] /\ v \in [1 .. Len(v) -> Nat]
    BY <1>1
  <2> QED BY <2>1, <1>1
<1> HIDE DEF u, v
<1>3. \A i \in 1 .. p : i \in 1 .. p + k /\ u[i] = a[i] /\ v[i] = c[i]
  BY <1>1
<1>4. \A i \in 1 .. k : p + i \in 1 .. p + k /\ u[p + i] = b[i] /\ v[p + i] = d[i]
  <2> TAKE i \in 1 .. k
  <2> DEFINE j == p + i
  <2>1. j \in 1 .. p + k /\ ~(j <= p) /\ j - p = i
    OBVIOUS
  <2> HIDE DEF j
  <2>2. u[j] = b[i] /\ v[j] = d[i]
    BY <2>1, <1>1
  <2> QED BY <2>1, <2>2 DEF j
<1>5. u = v <=> a = c /\ b = d
  <2>1. ASSUME u = v PROVE a = c /\ b = d
    <3>1. \A i \in 1 .. p : a[i] = c[i]
      BY <2>1, <1>3
    <3>2. \A i \in 1 .. k : b[i] = d[i]
      BY <2>1, <1>4
    <3> QED BY <3>1, <3>2
  <2>2. ASSUME a = c, b = d PROVE u = v
    <3>1. \A i \in 1 .. p + k : u[i] = v[i]
      BY <2>2, <1>1
    <3> QED BY <3>1, <1>2
  <2> QED BY <2>1, <2>2
<1>6. ASSUME Before(a, c) PROVE Before(u, v)
  <2>1. PICK i \in 1 .. p : a[i] < c[i] /\ \A j \in 1 .. i - 1 : a[j] = c[j]
    BY <1>6 DEF Before
  <2>2. \A j \in 1 .. i - 1 : j \in 1 .. p
    OBVIOUS
  <2>3. i \in DOMAIN u /\ u[i] < v[i] /\ \A j \in 1 .. i - 1 : u[j] = v[j]
    BY <2>1, <2>2, <1>2, <1>3
  <2> QED BY <2>3 DEF Before
<1>7. ASSUME a = c, Before(b, d) PROVE Before(u, v)
  <2>1. PICK i \in 1 .. k : b[i] < d[i] /\ \A j \in 1 .. i - 1 : b[j] = d[j]
    BY <1>7 DEF Before
  <2>2. p + i \in DOMAIN u /\ u[p + i] < v[p + i]
    BY <2>1, <1>2, <1>4
  <2>3. ASSUME NEW j \in 1 .. p + i - 1 PROVE u[j] = v[j]
    <3>1. CASE j <= p
      BY <3>1, <1>3, <1>7
    <3>2. CASE ~(j <= p)
      <4>1. j - p \in 1 .. i - 1 /\ j - p \in 1 .. k /\ j \in 1 .. p + k
        BY <3>2
      <4> QED BY <4>1, <3>2, <2>1, <1>1
    <3> QED BY <3>1, <3>2
  <2> QED BY <2>2, <2>3 DEF Before
<1>8. ASSUME Before(u, v) PROVE Before(a, c) \/ (a = c /\ Before(b, d))
  <2>1. PICK i \in 1 .. p + k : u[i] < v[i] /\ \A j \in 1 .. i - 1 : u[j] = v[j]
    BY <1>2, <1>8 DEF Before
  <2>2. CASE i <= p
    <3>1. i \in 1 .. p /\ \A j \in 1 .. i - 1 : j \in 1 .. p
      BY <2>2
    <3>2. a[i] < c[i] /\ \A j \in 1 .. i - 1 : a[j] = c[j]
      BY <2>1, <3>1, <1>3
    <3>3. i \in DOMAIN a
      BY <3>1
    <3> QED BY <3>2, <3>3 DEF Before
  <2>3. CASE ~(i <= p)
    <3>1. i - p \in 1 .. k /\ p + (i - p) = i
      BY <2>3
    <3>2. \A j \in 1 .. p : j \in 1 .. i - 1
      BY <2>3
    <3>3. \A j \in 1 .. p : a[j] = c[j]
      BY <2>1, <3>2, <1>3
    <3>4. a = c
      BY <3>3
    <3>5. b[i - p] < d[i - p]
      BY <2>1, <3>1, <1>4
    <3>6. ASSUME NEW j \in 1 .. (i - p) - 1 PROVE b[j] = d[j]
      <4>1. j \in 1 .. k /\ p + j \in 1 .. i - 1
        BY <3>1
      <4> QED BY <4>1, <2>1, <1>4
    <3>7. i - p \in DOMAIN b
      BY <3>1
    <3> QED BY <3>4, <3>5, <3>6, <3>7 DEF Before
  <2> QED BY <2>2, <2>3
<1>9. ComparedBy(u, v, a, c, b, d)
  BY <1>5, <1>6, <1>7, <1>8 DEF ComparedBy
<1> QED BY <1>2, <1>9 DEF u, v

(* A key is packed so that bytes compare as places do (idx_bar_seq_pack).    *)
LEMMA PackOrder ==
    ASSUME PowersOfByte, WidthsFit, NEW r \in Rows, NEW o \in Rows
    PROVE  Before(Pack(Place(r)), Pack(Place(o))) <=> Before(Place(r), Place(o))
<1> DEFINE x == Place(r)
           y == Place(o)
<1>1. /\ x \in [1 .. 5 -> Nat] /\ y \in [1 .. 5 -> Nat]
      /\ x[1] = r.slot /\ x[2] = r.tx /\ x[3] = r.ins /\ x[5] = r.idx
      /\ y[1] = o.slot /\ y[2] = o.tx /\ y[3] = o.ins /\ y[5] = o.idx
  BY RowType DEF Place
<1>2. /\ x[1] < Byte ^ 8 /\ x[2] < Byte ^ 2 /\ x[3] < Byte ^ 2 /\ x[5] < Byte ^ 2
      /\ y[1] < Byte ^ 8 /\ y[2] < Byte ^ 2 /\ y[3] < Byte ^ 2 /\ y[5] < Byte ^ 2
  BY <1>1 DEF WidthsFit
<1> HIDE DEF x, y
<1>3. /\ x[1] \in Nat /\ x[2] \in Nat /\ x[3] \in Nat /\ x[4] \in Nat /\ x[5] \in Nat
      /\ y[1] \in Nat /\ y[2] \in Nat /\ y[3] \in Nat /\ y[4] \in Nat /\ y[5] \in Nat
  BY <1>1
<1> DEFINE a1 == BigEndian(x[1], 8)
           a2 == BigEndian(x[2], 2)
           a3 == BigEndian(x[3], 2)
           a4 == <<x[4]>>
           a5 == BigEndian(x[5], 2)
           c1 == BigEndian(y[1], 8)
           c2 == BigEndian(y[2], 2)
           c3 == BigEndian(y[3], 2)
           c4 == <<y[4]>>
           c5 == BigEndian(y[5], 2)
<1>4. /\ a1 \in [1 .. 8 -> Nat] /\ c1 \in [1 .. 8 -> Nat]
      /\ a1 = c1 <=> x[1] = y[1]
      /\ Before(a1, c1) <=> x[1] < y[1]
  BY <1>2, <1>3, BigEndianOrder
<1>5. /\ a2 \in [1 .. 2 -> Nat] /\ c2 \in [1 .. 2 -> Nat]
      /\ a2 = c2 <=> x[2] = y[2]
      /\ Before(a2, c2) <=> x[2] < y[2]
  BY <1>2, <1>3, BigEndianOrder
<1>6. /\ a3 \in [1 .. 2 -> Nat] /\ c3 \in [1 .. 2 -> Nat]
      /\ a3 = c3 <=> x[3] = y[3]
      /\ Before(a3, c3) <=> x[3] < y[3]
  BY <1>2, <1>3, BigEndianOrder
<1>7. /\ a4 \in [1 .. 1 -> Nat] /\ c4 \in [1 .. 1 -> Nat]
      /\ a4 = c4 <=> x[4] = y[4]
      /\ Before(a4, c4) <=> x[4] < y[4]
  <2>1. a4 \in [1 .. 1 -> Nat] /\ c4 \in [1 .. 1 -> Nat] /\ a4[1] = x[4] /\ c4[1] = y[4]
    BY <1>3
  <2> HIDE DEF a4, c4
  <2>2. a4 = c4 <=> x[4] = y[4]
    BY <2>1
  <2>3. Before(a4, c4) <=> x[4] < y[4]
    BY <2>1, <1>3 DEF Before
  <2> QED BY <2>1, <2>2, <2>3
<1>8. /\ a5 \in [1 .. 2 -> Nat] /\ c5 \in [1 .. 2 -> Nat]
      /\ a5 = c5 <=> x[5] = y[5]
      /\ Before(a5, c5) <=> x[5] < y[5]
  BY <1>2, <1>3, BigEndianOrder
<1>9. Pack(x) = (((a1 \o a2) \o a3) \o a4) \o a5 /\ Pack(y) = (((c1 \o c2) \o c3) \o c4) \o c5
  BY DEF Pack
<1> HIDE DEF a1, a2, a3, a4, a5, c1, c2, c3, c4, c5
<1>10. /\ a1 \o a2 \in [1 .. 10 -> Nat] /\ c1 \o c2 \in [1 .. 10 -> Nat]
       /\ a1 \o a2 = c1 \o c2 <=> a1 = c1 /\ a2 = c2
       /\ Before(a1 \o a2, c1 \o c2) <=> Before(a1, c1) \/ (a1 = c1 /\ Before(a2, c2))
  <2> DEFINE p == 8
             k == 2
  <2>3. /\ p \in Nat /\ k \in Nat /\ p + k = 10
        /\ a1 \in [1 .. p -> Nat] /\ c1 \in [1 .. p -> Nat]
        /\ a2 \in [1 .. k -> Nat] /\ c2 \in [1 .. k -> Nat]
    BY <1>4, <1>5
  <2> HIDE DEF p, k
  <2>4. a1 \o a2 \in [1 .. p + k -> Nat] /\ ComparedBy(a1 \o a2, c1 \o c2, a1, c1, a2, c2)
    BY <2>3, JoinedOrder
  <2>5. c1 \o c2 \in [1 .. p + k -> Nat]
    BY <2>3, JoinedOrder
  <2> QED BY <2>3, <2>4, <2>5 DEF ComparedBy
<1> DEFINE u2 == a1 \o a2
           v2 == c1 \o c2
<1> HIDE DEF u2, v2
<1>11. /\ u2 \o a3 \in [1 .. 12 -> Nat] /\ v2 \o c3 \in [1 .. 12 -> Nat]
       /\ u2 \o a3 = v2 \o c3 <=> u2 = v2 /\ a3 = c3
       /\ Before(u2 \o a3, v2 \o c3) <=> Before(u2, v2) \/ (u2 = v2 /\ Before(a3, c3))
  <2> DEFINE p == 10
             k == 2
  <2>2. u2 \in [1 .. 10 -> Nat] /\ v2 \in [1 .. 10 -> Nat]
    BY <1>10 DEF u2, v2
  <2>3. /\ p \in Nat /\ k \in Nat /\ p + k = 12
        /\ u2 \in [1 .. p -> Nat] /\ v2 \in [1 .. p -> Nat]
        /\ a3 \in [1 .. k -> Nat] /\ c3 \in [1 .. k -> Nat]
    BY <2>2, <1>6
  <2> HIDE DEF p, k
  <2>4. u2 \o a3 \in [1 .. p + k -> Nat] /\ ComparedBy(u2 \o a3, v2 \o c3, u2, v2, a3, c3)
    BY <2>3, JoinedOrder
  <2>5. v2 \o c3 \in [1 .. p + k -> Nat]
    BY <2>3, JoinedOrder
  <2> QED BY <2>3, <2>4, <2>5 DEF ComparedBy
<1> DEFINE u3 == u2 \o a3
           v3 == v2 \o c3
<1> HIDE DEF u3, v3
<1>12. /\ u3 \o a4 \in [1 .. 13 -> Nat] /\ v3 \o c4 \in [1 .. 13 -> Nat]
       /\ u3 \o a4 = v3 \o c4 <=> u3 = v3 /\ a4 = c4
       /\ Before(u3 \o a4, v3 \o c4) <=> Before(u3, v3) \/ (u3 = v3 /\ Before(a4, c4))
  <2> DEFINE p == 12
             k == 1
  <2>2. u3 \in [1 .. 12 -> Nat] /\ v3 \in [1 .. 12 -> Nat]
    BY <1>11 DEF u3, v3
  <2>3. /\ p \in Nat /\ k \in Nat /\ p + k = 13
        /\ u3 \in [1 .. p -> Nat] /\ v3 \in [1 .. p -> Nat]
        /\ a4 \in [1 .. k -> Nat] /\ c4 \in [1 .. k -> Nat]
    BY <2>2, <1>7
  <2> HIDE DEF p, k
  <2>4. u3 \o a4 \in [1 .. p + k -> Nat] /\ ComparedBy(u3 \o a4, v3 \o c4, u3, v3, a4, c4)
    BY <2>3, JoinedOrder
  <2>5. v3 \o c4 \in [1 .. p + k -> Nat]
    BY <2>3, JoinedOrder
  <2> QED BY <2>3, <2>4, <2>5 DEF ComparedBy
<1> DEFINE u4 == u3 \o a4
           v4 == v3 \o c4
<1> HIDE DEF u4, v4
<1>13. Before(u4 \o a5, v4 \o c5) <=> Before(u4, v4) \/ (u4 = v4 /\ Before(a5, c5))
  <2> DEFINE p == 13
             k == 2
  <2>2. u4 \in [1 .. 13 -> Nat] /\ v4 \in [1 .. 13 -> Nat]
    BY <1>12 DEF u4, v4
  <2>3. /\ p \in Nat /\ k \in Nat /\ p + k = 15
        /\ u4 \in [1 .. p -> Nat] /\ v4 \in [1 .. p -> Nat]
        /\ a5 \in [1 .. k -> Nat] /\ c5 \in [1 .. k -> Nat]
    BY <2>2, <1>8
  <2> HIDE DEF p, k
  <2>4. u4 \o a5 \in [1 .. p + k -> Nat] /\ ComparedBy(u4 \o a5, v4 \o c5, u4, v4, a5, c5)
    BY <2>3, JoinedOrder
  <2>5. v4 \o c5 \in [1 .. p + k -> Nat]
    BY <2>3, JoinedOrder
  <2> QED BY <2>3, <2>4, <2>5 DEF ComparedBy
<1> DEFINE Less ==
             \/ x[1] < y[1]
             \/ x[1] = y[1] /\ x[2] < y[2]
             \/ x[1] = y[1] /\ x[2] = y[2] /\ x[3] < y[3]
             \/ x[1] = y[1] /\ x[2] = y[2] /\ x[3] = y[3] /\ x[4] < y[4]
             \/ x[1] = y[1] /\ x[2] = y[2] /\ x[3] = y[3] /\ x[4] = y[4] /\ x[5] < y[5]
<1>14. Before(Pack(x), Pack(y)) <=> Less
  <2>1. Pack(x) = u4 \o a5 /\ Pack(y) = v4 \o c5
    BY <1>9 DEF u2, u3, u4, v2, v3, v4
  <2>2. Before(u2, v2) <=> x[1] < y[1] \/ (x[1] = y[1] /\ x[2] < y[2])
    BY <1>4, <1>5, <1>10 DEF u2, v2
  <2>3. u2 = v2 <=> x[1] = y[1] /\ x[2] = y[2]
    BY <1>4, <1>5, <1>10 DEF u2, v2
  <2>4. Before(u3, v3) <=> Before(u2, v2) \/ (u2 = v2 /\ x[3] < y[3])
    BY <1>6, <1>11 DEF u3, v3
  <2>5. u3 = v3 <=> u2 = v2 /\ x[3] = y[3]
    BY <1>6, <1>11 DEF u3, v3
  <2>6. Before(u4, v4) <=> Before(u3, v3) \/ (u3 = v3 /\ x[4] < y[4])
    BY <1>7, <1>12 DEF u4, v4
  <2>7. u4 = v4 <=> u3 = v3 /\ x[4] = y[4]
    BY <1>7, <1>12 DEF u4, v4
  <2> QED BY <2>1, <2>2, <2>3, <2>4, <2>5, <2>6, <2>7, <1>8, <1>13
<1>15. Before(x, y) <=> Less
  <2>1. DOMAIN x = 1 .. 5
    BY <1>1
  <2>2. ASSUME Before(x, y) PROVE Less
    <3>1. PICK i \in 1 .. 5 : x[i] < y[i] /\ \A j \in 1 .. i - 1 : x[j] = y[j]
      BY <2>1, <2>2 DEF Before
    <3>2. i = 1 \/ i = 2 \/ i = 3 \/ i = 4 \/ i = 5
      OBVIOUS
    <3>3. /\ i > 1 => x[1] = y[1]
          /\ i > 2 => x[2] = y[2]
          /\ i > 3 => x[3] = y[3]
          /\ i > 4 => x[4] = y[4]
      BY <3>1
    <3> QED BY <3>1, <3>2, <3>3
  <2>3. ASSUME NEW i \in 1 .. 5, x[i] < y[i], \A j \in 1 .. i - 1 : x[j] = y[j] PROVE Before(x, y)
    BY <2>1, <2>3 DEF Before
  <2>4. \A j \in 1 .. 4 : j = 1 \/ j = 2 \/ j = 3 \/ j = 4
    OBVIOUS
  <2>5. ASSUME Less PROVE Before(x, y)
    <3>1. CASE x[1] < y[1]
      BY <2>3, <3>1
    <3>2. CASE x[1] = y[1] /\ x[2] < y[2]
      <4>1. \A j \in 1 .. 2 - 1 : x[j] = y[j]
        BY <3>2
      <4> QED BY <2>3, <3>2, <4>1
    <3>3. CASE x[1] = y[1] /\ x[2] = y[2] /\ x[3] < y[3]
      <4>1. \A j \in 1 .. 3 - 1 : x[j] = y[j]
        BY <3>3
      <4> QED BY <2>3, <3>3, <4>1
    <3>4. CASE x[1] = y[1] /\ x[2] = y[2] /\ x[3] = y[3] /\ x[4] < y[4]
      <4>1. \A j \in 1 .. 4 - 1 : x[j] = y[j]
        BY <3>4
      <4> QED BY <2>3, <3>4, <4>1
    <3>5. CASE x[1] = y[1] /\ x[2] = y[2] /\ x[3] = y[3] /\ x[4] = y[4] /\ x[5] < y[5]
      <4>1. \A j \in 1 .. 5 - 1 : x[j] = y[j]
        BY <3>5, <2>4
      <4> QED BY <2>3, <3>5, <4>1
    <3> QED BY <2>5, <3>1, <3>2, <3>3, <3>4, <3>5
  <2> QED BY <2>2, <2>5
<1> QED BY <1>14, <1>15 DEF x, y

(* put_bar on a row that is there: the bar of both sets of swaps             *)
(* (pg_store.c 273-297).                                                     *)
LEMMA MergedFits ==
    ASSUME PowersOfByte, WidthsFit,
           NEW R, IsFiniteSet(R), NEW Q, IsFiniteSet(Q), Placed(R \cup Q), R \cap Q = {},
           NEW x, Fits(x, R), NEW y, Fits(y, Q), NEW z, Fits(z, R \cup Q)
    PROVE  Merged(BarRow(x), BarRow(y)) = BarRow(z)
<1> DEFINE U == R \cup Q
<1>0. R \subseteq Rows /\ Q \subseteq Rows /\ U \subseteq Rows
  BY DEF Placed
<1>1. PICK f1 \in R, l1 \in R :
          /\ IsFirst(f1, R) /\ IsLast(l1, R)
          /\ x = [open |-> f1.price, open_seq |-> Place(f1),
                  close |-> l1.price, close_seq |-> Place(l1),
                  high |-> x.high, low |-> x.low,
                  volume |-> Volume(R), count |-> Cardinality(R)]
  BY DEF Fits
<1>2. PICK f2 \in Q, l2 \in Q :
          /\ IsFirst(f2, Q) /\ IsLast(l2, Q)
          /\ y = [open |-> f2.price, open_seq |-> Place(f2),
                  close |-> l2.price, close_seq |-> Place(l2),
                  high |-> y.high, low |-> y.low,
                  volume |-> Volume(Q), count |-> Cardinality(Q)]
  BY DEF Fits
<1>3. PICK f \in U, l \in U :
          /\ IsFirst(f, U) /\ IsLast(l, U)
          /\ z = [open |-> f.price, open_seq |-> Place(f),
                  close |-> l.price, close_seq |-> Place(l),
                  high |-> z.high, low |-> z.low,
                  volume |-> Volume(U), count |-> Cardinality(U)]
  BY DEF Fits
<1> DEFINE first == Before(Place(f2), Place(f1))
           last  == Before(Place(l1), Place(l2))
<1>4. f = IF first THEN f2 ELSE f1
  <2>1. /\ first => IsFirst(f2, U)
        /\ ~first => IsFirst(f1, U)
    BY <1>1, <1>2, EndsJoin
  <2> HIDE DEF U, first
  <2>2. Placed(U)
    BY DEF U
  <2> QED BY <2>1, <2>2, <1>3, EndsUnique
<1>5. l = IF last THEN l2 ELSE l1
  <2>1. /\ last => IsLast(l2, U)
        /\ ~last => IsLast(l1, U)
    BY <1>1, <1>2, EndsJoin
  <2> HIDE DEF U, last
  <2>2. Placed(U)
    BY DEF U
  <2> QED BY <2>1, <2>2, <1>3, EndsUnique
<1>6. z.high = Larger(x.high, y.high) /\ z.low = Smaller(x.low, y.low)
  <2>1. IsHigh(Larger(x.high, y.high), U) /\ IsLow(Smaller(x.low, y.low), U)
    BY <1>0, HighsJoin DEF Fits
  <2>2. IsHigh(z.high, U) /\ IsLow(z.low, U)
    BY DEF Fits
  <2>3. \A r \in U : r.price \in Nat
    BY <1>0, RowType
  <2> HIDE DEF U
  <2>4. \A p, q : /\ IsHigh(p, U) /\ IsHigh(q, U) => p = q
                  /\ IsLow(p, U) /\ IsLow(q, U) => p = q
    <3> TAKE p, q
    <3>1. ASSUME IsHigh(p, U), IsHigh(q, U) PROVE p = q
      <4>1. p \in Nat /\ q \in Nat /\ p <= q /\ q <= p
        BY <2>3, <3>1 DEF IsHigh
      <4> QED BY <4>1
    <3>2. ASSUME IsLow(p, U), IsLow(q, U) PROVE p = q
      <4>1. p \in Nat /\ q \in Nat /\ p <= q /\ q <= p
        BY <2>3, <3>2 DEF IsLow
      <4> QED BY <4>1
    <3> QED BY <3>1, <3>2
  <2> QED BY <2>1, <2>2, <2>4
<1>7. Volume(U) = Volume(R) + Volume(Q) /\ Cardinality(U) = Cardinality(R) + Cardinality(Q)
  BY <1>0, SumJoins
<1>8. l.slot = Larger(l1.slot, l2.slot)
  <2>1. l1 \in Rows /\ l2 \in Rows /\ l1 # l2 /\ l1.slot \in Nat /\ l2.slot \in Nat
    BY <1>0, RowType
  <2>2. CASE last
    <3>1. l1.slot <= l2.slot
      BY <2>1, <2>2, BeforeSlot
    <3> QED BY <3>1, <2>1, <2>2, <1>5 DEF Larger
  <2>3. CASE ~last
    <3>1. Before(Place(l2), Place(l1))
      BY <2>1, <2>3, PlacedApart
    <3>2. l2.slot <= l1.slot
      BY <2>1, <3>1, BeforeSlot
    <3> HIDE DEF last
    <3> QED BY <3>2, <2>1, <2>3, <1>5 DEF Larger
  <2> QED BY <2>2, <2>3
<1>9. /\ Place(l1)[1] = l1.slot /\ Place(l2)[1] = l2.slot /\ Place(l)[1] = l.slot
  BY <1>0, RowType
<1>10. /\ Before(Pack(Place(f2)), Pack(Place(f1))) <=> first
       /\ Before(Pack(Place(l1)), Pack(Place(l2))) <=> last
  BY <1>0, PackOrder
<1> DEFINE a == BarRow(x)
           b == BarRow(y)
           c == BarRow(z)
<1>11. /\ a.open = f1.price /\ a.open_seq_key = Pack(Place(f1)) /\ a.close = l1.price
       /\ a.close_seq_key = Pack(Place(l1)) /\ a.close_seq_slot = Place(l1)[1]
       /\ a.high = x.high /\ a.low = x.low /\ a.volume = Volume(R) /\ a.count = Cardinality(R)
  <2>1. /\ x.open = f1.price /\ x.open_seq = Place(f1) /\ x.close = l1.price
        /\ x.close_seq = Place(l1) /\ x.volume = Volume(R) /\ x.count = Cardinality(R)
    BY <1>1
  <2> QED BY <2>1 DEF BarRow
<1>12. /\ b.open = f2.price /\ b.open_seq_key = Pack(Place(f2)) /\ b.close = l2.price
       /\ b.close_seq_key = Pack(Place(l2)) /\ b.close_seq_slot = Place(l2)[1]
       /\ b.high = y.high /\ b.low = y.low /\ b.volume = Volume(Q) /\ b.count = Cardinality(Q)
  <2>1. /\ y.open = f2.price /\ y.open_seq = Place(f2) /\ y.close = l2.price
        /\ y.close_seq = Place(l2) /\ y.volume = Volume(Q) /\ y.count = Cardinality(Q)
    BY <1>2
  <2> QED BY <2>1 DEF BarRow
<1>13. c = [open |-> f.price, high |-> z.high, low |-> z.low, close |-> l.price,
            volume |-> Volume(U), count |-> Cardinality(U),
            open_seq_key |-> Pack(Place(f)), close_seq_key |-> Pack(Place(l)),
            close_seq_slot |-> Place(l)[1]]
  <2>1. /\ z.open = f.price /\ z.open_seq = Place(f) /\ z.close = l.price
        /\ z.close_seq = Place(l) /\ z.volume = Volume(U) /\ z.count = Cardinality(U)
    BY <1>3
  <2> HIDE DEF U
  <2> QED BY <2>1 DEF BarRow
<1> HIDE DEF a, b, c, U, first, last
<1> DEFINE k1 == Before(b.open_seq_key, a.open_seq_key)
           k2 == Before(a.close_seq_key, b.close_seq_key)
<1>14. Merged(a, b) =
         [high |-> Larger(a.high, b.high), low |-> Smaller(a.low, b.low),
          volume |-> a.volume + b.volume, count |-> a.count + b.count,
          open |-> IF k1 THEN b.open ELSE a.open,
          open_seq_key |-> IF k1 THEN b.open_seq_key ELSE a.open_seq_key,
          close |-> IF k2 THEN b.close ELSE a.close,
          close_seq_key |-> IF k2 THEN b.close_seq_key ELSE a.close_seq_key,
          close_seq_slot |-> Larger(a.close_seq_slot, b.close_seq_slot)]
  BY DEF Merged
<1>15. (k1 <=> first) /\ (k2 <=> last)
  BY <1>10, <1>11, <1>12
<1> HIDE DEF k1, k2
<1>16. /\ (IF k1 THEN b.open ELSE a.open) = f.price
       /\ (IF k1 THEN b.open_seq_key ELSE a.open_seq_key) = Pack(Place(f))
  BY <1>4, <1>11, <1>12, <1>15
<1>17. /\ (IF k2 THEN b.close ELSE a.close) = l.price
       /\ (IF k2 THEN b.close_seq_key ELSE a.close_seq_key) = Pack(Place(l))
  BY <1>5, <1>11, <1>12, <1>15
<1>18. Larger(a.close_seq_slot, b.close_seq_slot) = Place(l)[1]
  BY <1>8, <1>9, <1>11, <1>12
<1>19. Merged(a, b) = c
  <2>1. a.volume + b.volume = Volume(U) /\ a.count + b.count = Cardinality(U)
    BY <1>7, <1>11, <1>12
  <2>2. Larger(a.high, b.high) = z.high /\ Smaller(a.low, b.low) = z.low
    BY <1>6, <1>11, <1>12
  <2> QED BY <2>1, <2>2, <1>13, <1>14, <1>16, <1>17, <1>18
<1> QED BY <1>19 DEF a, b, c

-----------------------------------------------------------------------------
(* THE TABLE OF BARS THROUGH THE STEPS *)

(* The contribution of a block (what normalize_swaps hands to the store).    *)
LEMMA ContributionHolds ==
    ASSUME NEW b \in Blocks
    PROVE  Holds(Observed(NoRows, b.rows), NoRows, ToSet(b.rows), AllKeys)
<1> DEFINE q == b.rows
           N == Len(q)
           E == {}
<1>1. /\ Placed(ToSet(q)) /\ N \in Nat /\ DOMAIN q = 1 .. N
      /\ \A i, j \in DOMAIN q : i # j => q[i] # q[j]
  BY BlockRows
<1>2. Observed(NoRows, q) = FoldedIn(AllKeys, NoRows, q)
  BY Zenon DEF Observed, FoldedIn
<1>3. Holds(NoRows, NoRows, E, AllKeys)
  <2>1. \A k : At(E, k) = {}
    BY DEF At
  <2>2. NoRows = [k \in DOMAIN NoRows |-> NoRows[k]] /\ DOMAIN NoRows = {}
    BY DEF NoRows
  <2> HIDE DEF E
  <2> QED BY <2>1, <2>2 DEF Holds
<1>4. IsFiniteSet(E) /\ E \cap ToSet(q) = {} /\ E \cup ToSet(q) = ToSet(q)
  BY FS_EmptySet
<1> HIDE DEF q, N, E
<1>5. Placed(E \cup ToSet(q))
  BY <1>1, <1>4
<1>6. Holds(FoldedIn(AllKeys, NoRows, q), NoRows, E \cup ToSet(q), AllKeys)
  BY <1>1, <1>3, <1>4, <1>5, FoldHolds
<1> QED BY <1>2, <1>4, <1>6 DEF q

(* The slot a bar closes at is a number.                                     *)
LEMMA ClosesAt ==
    ASSUME NEW I, Placed(I), NEW r, Holds(r, NoRows, I, AllKeys), NEW k \in DOMAIN r
    PROVE  /\ r[k].close_seq[1] \in Nat
           /\ \A o \in At(I, k) : o.slot <= r[k].close_seq[1]
           /\ \E l \in At(I, k) : r[k].close_seq[1] = l.slot
<1>1. Fits(r[k], At(I, k)) /\ At(I, k) \subseteq I /\ I \subseteq Rows
  BY BarOfRegistry DEF Placed
<1>2. PICK l \in At(I, k) : r[k].close_seq[1] = l.slot /\ \A o \in At(I, k) : o.slot <= l.slot
  BY <1>1, ClosesLast
<1> QED BY <1>1, <1>2, RowType

(* The rows of the table of bars, as TiersAgree says.                        *)
LEMMA TableRows ==
    ASSUME TiersAgree, up
    PROVE  /\ DOMAIN bars = {j \in DOMAIN reg : reg[j].close_seq[1] >= pruned}
           /\ \A k \in DOMAIN bars : bars[k] = BarRow(reg[k])
<1> DEFINE D == {j \in DOMAIN reg : reg[j].close_seq[1] >= pruned}
<1>1. bars = [k \in D |-> BarRow(reg[k])]
  BY DEF TiersAgree
<1> HIDE DEF D
<1>2. DOMAIN bars = D /\ \A k \in D : bars[k] = BarRow(reg[k])
  BY <1>1
<1> QED BY <1>2 DEF D

(* The bars a block adds to are merged (put_bar, pg_store.c).                *)
LEMMA IndexTiers ==
    ASSUME PowersOfByte, WidthsFit, MarginCovers, BarsInv, TiersAgree,
           up, NEW b \in Blocks, canon[b.slot] = b.fork, b \notin indexed,
           NEW new, new = Observed(reg, b.rows)
    PROVE  PutBars(bars, Observed(NoRows, b.rows))
              = [k \in {j \in DOMAIN new : new[j].close_seq[1] >= pruned} |-> BarRow(new[k])]
<1> DEFINE T == ToSet(b.rows)
           W == Written
           I == W \cup T
           c == Observed(NoRows, b.rows)
           D == {j \in DOMAIN new : new[j].close_seq[1] >= pruned}
<1>1. Holds(new, NoRows, I, AllKeys) /\ W \cap T = {} /\ Placed(I)
  BY IndexBars
<1>2. Holds(c, NoRows, T, AllKeys) /\ Holds(reg, NoRows, W, AllKeys)
  BY ContributionHolds DEF BarsInv, RegistryInv
<1>3. /\ \A r \in T : r.slot = b.slot
      /\ b.slot \in Nat /\ b.slot >= pruned /\ pruned \in Nat /\ Margin \in Nat
      /\ pruned > 0 => ~(b.slot < pruned + Margin)
  BY BlockRows, SlotType, NewBlock, ConfirmedAssumption DEF BarsInv, ConfirmedInv, ChainInv, MarginInv
<1>4. /\ DOMAIN bars = {j \in DOMAIN reg : reg[j].close_seq[1] >= pruned}
      /\ \A k \in DOMAIN bars : bars[k] = BarRow(reg[k])
  BY TableRows
<1> HIDE DEF T, W, c
<1>5. Placed(W) /\ Placed(T) /\ W \subseteq Rows /\ T \subseteq Rows /\ IsFiniteSet(W) /\ IsFiniteSet(T)
  BY <1>1, RowsFinite, FS_Subset DEF Placed
<1>6. /\ DOMAIN new = {k \in AllKeys : At(I, k) # {}}
      /\ \A k \in DOMAIN new : k \in AllKeys /\ Fits(new[k], At(I, k))
  BY <1>1, BarOfRegistry
<1>7. /\ DOMAIN c = {k \in AllKeys : At(T, k) # {}}
      /\ \A k \in DOMAIN c : k \in AllKeys /\ Fits(c[k], At(T, k))
  BY <1>2, <1>5, BarOfRegistry
<1>8. /\ DOMAIN reg = {k \in AllKeys : At(W, k) # {}}
      /\ \A k \in DOMAIN reg : k \in AllKeys /\ Fits(reg[k], At(W, k))
  BY <1>2, <1>5, BarOfRegistry
<1>9. \A k : /\ At(I, k) = At(W, k) \cup At(T, k) /\ At(W, k) \cap At(T, k) = {}
             /\ At(W, k) \subseteq W /\ At(T, k) \subseteq T
  BY <1>1 DEF At
<1>10. \A k : /\ Placed(At(I, k)) /\ Placed(At(W, k)) /\ Placed(At(T, k))
              /\ IsFiniteSet(At(W, k)) /\ IsFiniteSet(At(T, k))
  <2> TAKE k
  <2>1. IsFiniteSet(At(W, k)) /\ IsFiniteSet(At(T, k))
    BY <1>5, <1>9, FS_Subset
  <2> HIDE DEF I
  <2>2. At(I, k) \subseteq I
    BY DEF At
  <2> QED BY <1>1, <1>5, <1>9, <2>1, <2>2 DEF Placed
<1> HIDE DEF I
(* a bar that the block adds to *)
<1>11. ASSUME NEW k \in DOMAIN c
       PROVE  k \in DOMAIN new /\ new[k].close_seq[1] >= pruned
  <2>1. k \in DOMAIN new
    BY <1>6, <1>7, <1>9
  <2>2. PICK r \in At(T, k) : TRUE
    BY <1>7
  <2>3. r \in At(I, k) /\ r.slot = b.slot
    BY <2>2, <1>3, <1>9
  <2>4. r.slot <= new[k].close_seq[1] /\ new[k].close_seq[1] \in Nat
    BY <1>1, <2>1, <2>3, ClosesAt
  <2> QED BY <2>1, <2>3, <2>4, <1>3
(* such a bar was not pruned *)
<1>12. ASSUME NEW k \in DOMAIN c, k \in DOMAIN reg
       PROVE  k \in DOMAIN bars
  <2> SUFFICES ASSUME ~(reg[k].close_seq[1] >= pruned) PROVE FALSE
    BY <1>4, <1>12
  <2>1. PICK r \in At(T, k) : TRUE
    BY <1>7
  <2>2. reg[k].close_seq[1] \in Nat /\ \E l \in At(W, k) : reg[k].close_seq[1] = l.slot
    BY <1>2, <1>5, <1>12, ClosesAt
  <2>3. PICK l \in At(W, k) : reg[k].close_seq[1] = l.slot
    BY <2>2
  <2>4. r \in Rows /\ l \in Rows /\ k \in KeysOf(r) \cap KeysOf(l) /\ r.slot = b.slot
    BY <1>3, <1>5, <1>9 DEF At
  <2>5. r.slot <= l.slot + Margin
    BY <2>4 DEF MarginCovers
  <2>6. pruned > 0 /\ l.slot < pruned /\ l.slot \in Nat
    BY <2>2, <2>3, <1>3
  <2> QED BY <2>4, <2>5, <2>6, <1>3
<1>13. ASSUME NEW k \in DOMAIN new, k \notin DOMAIN c
       PROVE  k \in DOMAIN reg /\ reg[k] = new[k]
  <2>1. At(I, k) = At(W, k) /\ k \in AllKeys
    BY <1>6, <1>7, <1>9, <1>13
  <2>2. k \in DOMAIN reg
    BY <2>1, <1>6, <1>8
  <2>3. new[k] = BarOf(At(W, k))
    BY <2>1, <1>6, <1>10, FitsIsBar
  <2>4. reg[k] = BarOf(At(W, k))
    BY <2>2, <1>8, <1>10, FitsIsBar
  <2> QED BY <2>2, <2>3, <2>4
<1>14. ASSUME NEW k \in DOMAIN reg, k \notin DOMAIN c PROVE k \in DOMAIN new
  BY <1>6, <1>8, <1>9
<1>15. D = DOMAIN bars \cup DOMAIN c
  <2>1. ASSUME NEW k \in D PROVE k \in DOMAIN bars \cup DOMAIN c
    BY <1>4, <1>13
  <2>2. ASSUME NEW k \in DOMAIN bars, k \notin DOMAIN c PROVE k \in D
    <3>1. k \in DOMAIN reg /\ reg[k].close_seq[1] >= pruned
      BY <1>4
    <3>2. k \in DOMAIN new
      BY <3>1, <2>2, <1>14
    <3>3. reg[k] = new[k]
      BY <3>2, <2>2, <1>13
    <3> QED BY <3>1, <3>2, <3>3
  <2>3. ASSUME NEW k \in DOMAIN c PROVE k \in D
    BY <1>11
  <2> HIDE DEF D
  <2> QED BY <2>1, <2>2, <2>3
<1>16. ASSUME NEW k \in DOMAIN bars \cup DOMAIN c
       PROVE  (IF k \notin DOMAIN c THEN bars[k]
               ELSE IF k \in DOMAIN bars THEN Merged(bars[k], BarRow(c[k]))
               ELSE BarRow(c[k])) = BarRow(new[k])
  <2>1. CASE k \notin DOMAIN c
    <3>1. k \in DOMAIN new /\ k \in DOMAIN bars
      BY <2>1, <1>15, <1>16
    <3>2. reg[k] = new[k]
      BY <3>1, <2>1, <1>13
    <3>3. bars[k] = BarRow(new[k])
      BY <3>1, <3>2, <1>4
    <3> HIDE DEF D
    <3> QED BY <3>3, <2>1
  <2>2. CASE k \in DOMAIN c /\ k \in DOMAIN bars
    <3>1. k \in DOMAIN reg /\ k \in DOMAIN new /\ bars[k] = BarRow(reg[k])
      BY <2>2, <1>4, <1>11
    <3> DEFINE R == At(W, k)
               Q == At(T, k)
               x == reg[k]
               y == c[k]
               z == new[k]
    <3>a. At(I, k) = R \cup Q /\ R \cap Q = {}
      BY <1>9
    <3>b. IsFiniteSet(R) /\ IsFiniteSet(Q) /\ Placed(R \cup Q)
      BY <3>a, <1>10
    <3>c. Fits(x, R) /\ Fits(y, Q) /\ Fits(z, At(I, k))
      BY <3>1, <2>2, <1>6, <1>7, <1>8
    <3>2. /\ IsFiniteSet(R) /\ IsFiniteSet(Q) /\ Placed(R \cup Q) /\ R \cap Q = {}
          /\ Fits(x, R) /\ Fits(y, Q) /\ Fits(z, R \cup Q)
      BY <3>a, <3>b, <3>c
    <3> HIDE DEF R, Q, x, y, z
    <3>3. Merged(BarRow(x), BarRow(y)) = BarRow(z)
      BY <3>2, MergedFits
    <3> QED BY <3>1, <3>3, <2>2 DEF x, y, z
  <2>3. CASE k \in DOMAIN c /\ k \notin DOMAIN bars
    <3>1. k \notin DOMAIN reg /\ k \in AllKeys /\ k \in DOMAIN new
      BY <2>3, <1>7, <1>11, <1>12
    <3>2. At(I, k) = At(T, k)
      BY <3>1, <1>8, <1>9
    <3>3. new[k] = BarOf(At(T, k))
      BY <3>1, <3>2, <1>6, <1>10, FitsIsBar
    <3>4. c[k] = BarOf(At(T, k))
      BY <2>3, <1>7, <1>10, FitsIsBar
    <3> QED BY <3>3, <3>4, <2>3
  <2> QED BY <2>1, <2>2, <2>3
<1>17. PutBars(bars, c) = [k \in DOMAIN bars \cup DOMAIN c |->
          IF k \notin DOMAIN c THEN bars[k]
          ELSE IF k \in DOMAIN bars THEN Merged(bars[k], BarRow(c[k]))
          ELSE BarRow(c[k])]
  BY DEF PutBars
<1> HIDE DEF D
<1>18. PutBars(bars, c) = [k \in D |-> BarRow(new[k])]
  BY <1>15, <1>16, <1>17
<1> QED BY <1>18 DEF c, D

(* The slot in the row of a bar is the slot the bar closes at.               *)
LEMMA RowCloses == \A bar : BarRow(bar).close_seq_slot = bar.close_seq[1]
<1> TAKE bar
<1> DEFINE o == Pack(bar.open_seq)
           c == Pack(bar.close_seq)
<1>1. BarRow(bar) =
    [open |-> bar.open, high |-> bar.high, low |-> bar.low, close |-> bar.close,
     volume |-> bar.volume, count |-> bar.count,
     open_seq_key |-> o, close_seq_key |-> c, close_seq_slot |-> bar.close_seq[1]]
  BY DEF BarRow
<1> HIDE DEF o, c
<1> QED BY <1>1

(* A reorg deletes the bars it recomputed and puts them again                *)
(* (store_reorg, pg_store.c).                                                *)
LEMMA ReorgTiers ==
    ASSUME BarsInv, RowsExact, MarginCovers, TiersAgree, up, NEW from \in Slots, from > final,
           NEW order \in SetToSeqs({SurvivingSwaps(from)[p] : p \in DOMAIN SurvivingSwaps(from)}),
           NEW new, new = Recomputed(from, order)
    PROVE  PutBars(SurvivingBars(from), Only(new, Affected(from) \cap DOMAIN new))
              = [k \in {j \in DOMAIN new : new[j].close_seq[1] >= pruned} |-> BarRow(new[k])]
<1> DEFINE A == Affected(from)
           L == {r \in Written : r.slot < from}
           S == {r \in Written : r.slot >= pruned /\ r.slot < from}
           old == SurvivingBars(from)
           c == Only(new, A \cap DOMAIN new)
           D == {j \in DOMAIN new : new[j].close_seq[1] >= pruned}
<1>1. /\ Holds(new, NoRows, L, AllKeys)
      /\ \A k \in DOMAIN reg \ A : k \in DOMAIN new /\ new[k] = reg[k]
      /\ \A k \in DOMAIN new : k \in DOMAIN reg
      /\ \A k \in A : At(L, k) = At(S, k)
  BY ReorgBars
<1>2. /\ DOMAIN bars = {j \in DOMAIN reg : reg[j].close_seq[1] >= pruned}
      /\ \A k \in DOMAIN bars : bars[k] = BarRow(reg[k])
  BY TableRows
<1>3. Placed(Written) /\ Holds(reg, NoRows, Written, AllKeys) /\ from \in Nat /\ pruned \in Nat
  BY WrittenPlaced, ConfirmedAssumption DEF BarsInv, ConfirmedInv, ChainInv, RegistryInv
<1>4. Placed(L)
  <2>1. L \subseteq Written
    OBVIOUS
  <2> HIDE DEF L
  <2> QED BY <2>1, <1>3 DEF Placed
<1>5. A \subseteq DOMAIN reg /\ \A k \in DOMAIN reg : k \in A <=> reg[k].close_seq[1] >= from
  BY DEF Affected
<1>6. \A k \in DOMAIN reg : reg[k].close_seq[1] \in Nat
  BY <1>3, ClosesAt
(* a recomputed bar closes where the tier still has rows *)
<1>7. ASSUME NEW k \in A \cap DOMAIN new PROVE new[k].close_seq[1] >= pruned
  <2>1. PICK l \in At(L, k) : new[k].close_seq[1] = l.slot
    <3> HIDE DEF L, A
    <3> QED BY <1>1, <1>4, ClosesAt
  <2>2. l \in At(S, k)
    BY <2>1, <1>1
  <2>3. l.slot >= pruned
    BY <2>2 DEF At
  <2> QED BY <2>1, <2>3
(* a bar that survives is not recomputed *)
<1>8. /\ DOMAIN old = DOMAIN bars \ A
      /\ \A k \in DOMAIN old : old[k] = BarRow(reg[k])
  <2>1. DOMAIN old = {k \in DOMAIN bars : bars[k].close_seq_slot < from}
    BY DEF SurvivingBars, Only
  <2>2. \A k \in DOMAIN bars : bars[k].close_seq_slot = reg[k].close_seq[1] /\ k \in DOMAIN reg
    BY <1>2, RowCloses
  <2>3. \A k \in DOMAIN old : old[k] = bars[k]
    BY <2>1 DEF SurvivingBars, Only
  <2> HIDE DEF old, A
  <2>4. \A k \in DOMAIN bars : bars[k].close_seq_slot < from <=> k \notin A
    BY <2>2, <1>3, <1>5, <1>6
  <2> QED BY <2>1, <2>3, <2>4, <1>2
<1>9. DOMAIN c = A \cap DOMAIN new /\ \A k \in DOMAIN c : c[k] = new[k]
  BY DEF Only
<1>10. PutBars(old, c) = [k \in DOMAIN old \cup DOMAIN c |->
          IF k \notin DOMAIN c THEN old[k]
          ELSE IF k \in DOMAIN old THEN Merged(old[k], BarRow(c[k]))
          ELSE BarRow(c[k])]
  BY DEF PutBars
<1> HIDE DEF A, L, S, old, c
<1>11. D = DOMAIN old \cup DOMAIN c
  <2>1. ASSUME NEW k \in D PROVE k \in DOMAIN old \cup DOMAIN c
    BY <1>1, <1>2, <1>8, <1>9
  <2>2. ASSUME NEW k \in DOMAIN old PROVE k \in D
    BY <1>1, <1>2, <1>8
  <2>3. ASSUME NEW k \in DOMAIN c PROVE k \in D
    BY <1>7, <1>9
  <2> HIDE DEF D
  <2> QED BY <2>1, <2>2, <2>3
<1>12. ASSUME NEW k \in DOMAIN old \cup DOMAIN c
       PROVE  (IF k \notin DOMAIN c THEN old[k]
               ELSE IF k \in DOMAIN old THEN Merged(old[k], BarRow(c[k]))
               ELSE BarRow(c[k])) = BarRow(new[k])
  <2>1. CASE k \in DOMAIN c
    BY <2>1, <1>8, <1>9
  <2>2. CASE k \notin DOMAIN c
    <3>1. k \in DOMAIN old /\ k \in DOMAIN reg \ A
      BY <2>2, <1>2, <1>8
    <3>2. new[k] = reg[k] /\ old[k] = BarRow(reg[k])
      BY <3>1, <1>1, <1>8
    <3> QED BY <3>2, <2>2
  <2> QED BY <2>1, <2>2
<1> HIDE DEF D
<1>13. PutBars(old, c) = [k \in D |-> BarRow(new[k])]
  BY <1>10, <1>11, <1>12
<1> QED BY <1>13 DEF old, c, D, A

(* A prune deletes the bars that close below it (store_prune, pg_store.c).   *)
LEMMA PruneTiers ==
    ASSUME BarsInv, TiersAgree, up, NEW below \in Nat, pruned < below
    PROVE  Only(bars, {k \in DOMAIN bars : bars[k].close_seq_slot >= below})
              = [k \in {j \in DOMAIN reg : reg[j].close_seq[1] >= below} |-> BarRow(reg[k])]
<1> DEFINE D == {j \in DOMAIN reg : reg[j].close_seq[1] >= below}
           E == {k \in DOMAIN bars : bars[k].close_seq_slot >= below}
<1>1. /\ DOMAIN bars = {j \in DOMAIN reg : reg[j].close_seq[1] >= pruned}
      /\ \A k \in DOMAIN bars : bars[k] = BarRow(reg[k])
  BY TableRows
<1>2. Placed(Written) /\ Holds(reg, NoRows, Written, AllKeys) /\ pruned \in Nat
  BY WrittenPlaced DEF BarsInv, ConfirmedInv, ChainInv, RegistryInv
<1>3. \A k \in DOMAIN reg : reg[k].close_seq[1] \in Nat
  BY <1>2, ClosesAt
<1>4. \A k \in DOMAIN bars : bars[k].close_seq_slot = reg[k].close_seq[1]
  BY <1>1, RowCloses
<1>5. \A k \in DOMAIN reg : reg[k].close_seq[1] >= below => k \in DOMAIN bars
  BY <1>1, <1>2, <1>3
<1>6. E = D
  BY <1>1, <1>4, <1>5
<1>7. \A k \in E : k \in DOMAIN bars
  OBVIOUS
<1>8. Only(bars, E) = [k \in E |-> bars[k]]
  BY DEF Only
<1> HIDE DEF D, E
<1>9. Only(bars, E) = [k \in D |-> BarRow(reg[k])]
  BY <1>1, <1>6, <1>7, <1>8
<1> QED BY <1>9 DEF D, E

(* The strengthening of TiersAgree.                                          *)
TiersInv == BarsInv /\ TiersAgree

(* Both tables of bars of the empty database are empty.                      *)
LEMMA TiersInitially == Init => TiersInv
<1> SUFFICES ASSUME Init PROVE TiersAgree
  BY BarsInitially DEF TiersInv
<1> DEFINE D == {j \in DOMAIN reg : reg[j].close_seq[1] >= pruned}
<1>1. D = {} /\ bars = [k \in {} |-> k]
  BY DEF Init, NoRows
<1> HIDE DEF D
<1>2. bars = [k \in D |-> BarRow(reg[k])]
  BY <1>1
<1> QED BY <1>2 DEF TiersAgree, D

(* Every step preserves the agreement.                                       *)
LEMMA TiersStep ==
    ASSUME ~Redeliver, PathsUnique, MarginCovers, PowersOfByte, WidthsFit, TiersInv, [Next]_vars
    PROVE  TiersInv'
<1>0. BarsInv /\ TiersAgree /\ ConfirmedInv /\ RowsExact /\ BarsInv'
  BY BarsStep, TableExact DEF TiersInv, BarsInv
<1> DEFINE Agree == bars' = [k \in {j \in DOMAIN reg' : reg'[j].close_seq[1] >= pruned'} |-> BarRow(reg'[k])]
<1> SUFFICES ASSUME up' PROVE Agree
  BY <1>0 DEF TiersInv, TiersAgree, BarRow, Pack, BigEndian
<1>1. ASSUME NEW b \in Blocks, Index(b) PROVE Agree
  <2>1. /\ up /\ canon[b.slot] = b.fork /\ b \notin indexed /\ reg' = Observed(reg, b.rows)
        /\ bars' = PutBars(bars, Observed(NoRows, b.rows)) /\ pruned' = pruned
    BY <1>1 DEF Index
  <2> DEFINE new == Observed(reg, b.rows)
  <2> HIDE DEF new
  <2>2. new = Observed(reg, b.rows)
    BY DEF new
  <2>3. PutBars(bars, Observed(NoRows, b.rows))
           = [k \in {j \in DOMAIN new : new[j].close_seq[1] >= pruned} |-> BarRow(new[k])]
    BY <2>1, <2>2, <1>0, IndexTiers
  <2> QED BY <2>1, <2>2, <2>3
<1>2. ASSUME NEW from \in Slots, NEW fork \in Forks, Reorg(from, fork) PROVE Agree
  <2>1. PICK order \in SetToSeqs({SurvivingSwaps(from)[p] : p \in DOMAIN SurvivingSwaps(from)}) :
               reg' = Recomputed(from, order)
    BY <1>2 DEF Reorg
  <2>2. /\ up /\ from > final /\ pruned' = pruned
        /\ bars' = PutBars(SurvivingBars(from), Only(reg', Affected(from) \cap DOMAIN reg'))
    BY <1>2 DEF Reorg
  <2> DEFINE new == Recomputed(from, order)
  <2> HIDE DEF new
  <2>3. new = Recomputed(from, order) /\ reg' = new
    BY <2>1 DEF new
  <2>4. PutBars(SurvivingBars(from), Only(new, Affected(from) \cap DOMAIN new))
           = [k \in {j \in DOMAIN new : new[j].close_seq[1] >= pruned} |-> BarRow(new[k])]
    BY <2>2, <2>3, <1>0, ReorgTiers
  <2> QED BY <2>2, <2>3, <2>4
<1>3. ASSUME UNCHANGED <<up, reg, bars, pruned>> PROVE Agree
  BY <1>0, <1>3 DEF TiersAgree
<1>4. CASE Finalize
  BY <1>3, <1>4 DEF Finalize, tables, histVars
<1>5. ASSUME NEW below \in 1 .. Max(Slots) + 1, Prune(below) PROVE Agree
  <2>1. /\ up /\ pruned < below /\ pruned' = below /\ reg' = reg
        /\ bars' = Only(bars, {k \in DOMAIN bars : bars[k].close_seq_slot >= below})
    BY <1>5 DEF Prune
  <2>2. below \in Nat
    BY <2>1, <1>0 DEF ConfirmedInv, ChainInv
  <2>3. Only(bars, {k \in DOMAIN bars : bars[k].close_seq_slot >= below})
           = [k \in {j \in DOMAIN reg : reg[j].close_seq[1] >= below} |-> BarRow(reg[k])]
    BY <2>1, <2>2, <1>0, PruneTiers
  <2> QED BY <2>1, <2>3
<1>6. CASE UNCHANGED vars
  BY <1>3, <1>6 DEF vars, tables, histVars
<1> QED BY <1>1, <1>2, <1>4, <1>5, <1>6 DEF Next

(* pg_store.c 273-297, bar.h 74-80: for every chain, the table of bars, which *)
(* merges what each block contributes with arithmetic of its own and compares *)
(* packed keys, has the bars of the registry that close at or above what was  *)
(* pruned.                                                                    *)
THEOREM ConfirmedTiersAgree ==
    ~Redeliver /\ PathsUnique /\ MarginCovers /\ PowersOfByte /\ WidthsFit
      => (Spec => []TiersAgree)
<1> SUFFICES ASSUME ~Redeliver, PathsUnique, MarginCovers, PowersOfByte, WidthsFit
             PROVE  Spec => []TiersAgree
  OBVIOUS
<1>1. TiersInv /\ [Next]_vars => TiersInv'
  BY TiersStep
<1>2. TiersInv => TiersAgree
  BY DEF TiersInv
<1> QED BY <1>1, <1>2, TiersInitially, PTL DEF Spec
=============================================================================
