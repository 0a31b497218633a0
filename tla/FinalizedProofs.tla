-------------------------- MODULE FinalizedProofs --------------------------
(***************************************************************************)
(* Proofs about Finalized: what an append took in is kept, no part of a    *)
(* row that was not finished is inserted, the decimals of a pool's side    *)
(* are those of the mint beside them, and what a promoted record of a pool *)
(* knew is not unlearned.                                                  *)
(***************************************************************************)
EXTENDS Finalized, FiniteSetTheorems, SequenceTheorems, WellFoundedInduction, TLAPS

-----------------------------------------------------------------------------
(* NATURAL NUMBERS.  The theorems of NaturalsInduction take an operator;     *)
(* these take a set, and what is proved of every number is membership in it. *)

(* A set of natural numbers that has a member has a least one.               *)
LEMMA LeastNatural ==
    ASSUME NEW T, T \subseteq Nat, T # {}
    PROVE  \E x \in T : \A y \in T : x <= y
<1>1. IsWellFoundedOn(OpToRel(<, Nat), Nat)
  BY NatLessThanWellFounded
<1>2. PICK x \in T : \A y \in T : ~ (<<y, x>> \in OpToRel(<, Nat))
  BY <1>1, WFMin
<1>3. \A y \in T : ~ (y < x)
  BY <1>2 DEF OpToRel
<1> QED BY <1>3

(* A set that has 0, and with every number its successor, has them all.      *)
LEMMA SetInduction ==
    ASSUME NEW S, 0 \in S, \A n \in Nat : n \in S => n + 1 \in S
    PROVE  \A n \in Nat : n \in S
<1> DEFINE T == Nat \ S
<1>1. SUFFICES ASSUME T # {} PROVE FALSE
  OBVIOUS
<1>2. PICK x \in T : \A y \in T : x <= y
  BY <1>1, LeastNatural
<1>3. x # 0 /\ x \in Nat
  OBVIOUS
<1>4. x - 1 \in Nat /\ x - 1 \notin T
  BY <1>2, <1>3
<1> QED BY <1>4, <1>3

(* A set of integers below a bound that has a member has a greatest one.     *)
LEMMA GreatestNatural ==
    ASSUME NEW T, T \subseteq Int, T # {}, NEW n \in Int, \A x \in T : x <= n
    PROVE  \E x \in T : \A y \in T : x >= y
<1> DEFINE D == {n - x : x \in T}
<1>1. D \subseteq Nat
  <2>1. \A x \in T : n - x \in Nat
    OBVIOUS
  <2> QED BY <2>1
<1>a. D # {}
  OBVIOUS
<1>2. PICK d \in D : \A e \in D : d <= e
  BY <1>1, <1>a, LeastNatural
<1>3. PICK x \in T : d = n - x
  OBVIOUS
<1>4. ASSUME NEW y \in T PROVE x >= y
  <2>1. n - y \in D
    OBVIOUS
  <2> QED BY <2>1, <1>2, <1>3
<1> QED BY <1>4

(* g holds the first m values of the iteration that step describes. *)
Iterates(g, b, step, m) == g[0] = b /\ \A n \in 1 .. m : g[n] = step[n][g[n - 1]]

(* An iteration of N steps exists, so a recursive function over 0 .. N is    *)
(* the function its equation describes.                                      *)
LEMMA IterationExists ==
    ASSUME NEW D, NEW b \in D, NEW N \in Nat, NEW step \in [1 .. N -> [D -> D]]
    PROVE  \E g \in [0 .. N -> D] : Iterates(g, b, step, N)
<1> DEFINE S == {m \in Nat : m <= N => \E g \in [0 .. m -> D] : Iterates(g, b, step, m)}
<1>1. 0 \in S
  <2> DEFINE h == [i \in 0 .. 0 |-> b]
  <2>1. h \in [0 .. 0 -> D] /\ Iterates(h, b, step, 0)
    BY DEF Iterates
  <2> HIDE DEF h
  <2> QED BY <2>1
<1>2. ASSUME NEW m \in Nat, m \in S
      PROVE  m + 1 \in S
  <2> SUFFICES ASSUME m + 1 <= N
               PROVE  \E h \in [0 .. m + 1 -> D] : Iterates(h, b, step, m + 1)
    OBVIOUS
  <2>1. PICK g \in [0 .. m -> D] : Iterates(g, b, step, m)
    BY <1>2
  <2> DEFINE h == [i \in 0 .. m + 1 |-> IF i = m + 1 THEN step[m + 1][g[m]] ELSE g[i]]
  <2>2. step[m + 1][g[m]] \in D
    OBVIOUS
  <2>3. h \in [0 .. m + 1 -> D]
    BY <2>2
  <2>4. h[0] = b
    BY <2>1 DEF Iterates
  <2>5. ASSUME NEW n \in 1 .. m + 1
        PROVE  h[n] = step[n][h[n - 1]]
    <3>1. CASE n = m + 1
      <4>1. h[n] = step[m + 1][g[m]] /\ h[n - 1] = g[m]
        BY <3>1
      <4> QED BY <3>1, <4>1
    <3>2. CASE n # m + 1
      <4>1. n \in 1 .. m /\ n - 1 \in 0 .. m
        BY <3>2
      <4>2. h[n] = g[n] /\ h[n - 1] = g[n - 1]
        BY <4>1
      <4> QED BY <4>1, <4>2, <2>1 DEF Iterates
    <3> QED BY <3>1, <3>2
  <2> HIDE DEF h
  <2> QED BY <2>3, <2>4, <2>5 DEF Iterates
<1> HIDE DEF S
<1>3. \A n \in Nat : n \in S
  BY <1>1, <1>2, SetInduction
<1> QED BY <1>3 DEF S

-----------------------------------------------------------------------------
(* LISTS AND LOOPS *)

Listed(q) == q \in Seq(ToSet(q))

(* A list has the length, and the items, of its set of items. *)
LEMMA ListFacts ==
    ASSUME NEW q, Listed(q)
    PROVE  /\ Len(q) \in Nat /\ DOMAIN q = 1 .. Len(q)
           /\ ToSet(q) = {q[i] : i \in 1 .. Len(q)}
           /\ \A i \in 1 .. Len(q) : q[i] \in ToSet(q)
BY DEF Listed, ToSet

(* A sequence over a set is a list of members of the set. *)
LEMMA SeqListed ==
    ASSUME NEW S, NEW q \in Seq(S)
    PROVE  Listed(q) /\ ToSet(q) \subseteq S /\ \A i \in 1 .. Len(q) : q[i] \in S
<1>1. Len(q) \in Nat /\ DOMAIN q = 1 .. Len(q) /\ \A i \in 1 .. Len(q) : q[i] \in S
  OBVIOUS
<1>2. ToSet(q) \subseteq S
  BY <1>1 DEF ToSet
<1>3. q = [i \in 1 .. Len(q) |-> q[i]]
  OBVIOUS
<1>4. \A i \in 1 .. Len(q) : q[i] \in ToSet(q)
  BY <1>1 DEF ToSet
<1>5. q \in Seq(ToSet(q))
  <2> DEFINE T == ToSet(q)
  <2> HIDE DEF T
  <2>1. \A i \in 1 .. Len(q) : q[i] \in T
    BY <1>4 DEF T
  <2>2. q \in [1 .. Len(q) -> T]
    BY <1>3, <2>1
  <2> QED BY <1>1, <2>2, SeqDef DEF T
<1> QED BY <1>1, <1>2, <1>5 DEF Listed

(* What every step of a loop keeps, the loop keeps. *)
LEMMA StepsStay ==
    ASSUME NEW D, NEW N \in Nat, NEW f, f[0] \in D,
           \A n \in 1 .. N : f[n - 1] \in D => f[n] \in D
    PROVE  \A n \in 0 .. N : f[n] \in D
<1> DEFINE S == {n \in Nat : n <= N => f[n] \in D}
<1>1. 0 \in S
  OBVIOUS
<1>2. ASSUME NEW n \in Nat, n \in S PROVE n + 1 \in S
  <2> SUFFICES ASSUME n + 1 <= N PROVE f[n + 1] \in D
    OBVIOUS
  <2>1. n + 1 \in 1 .. N /\ (n + 1) - 1 = n /\ f[n] \in D
    BY <1>2
  <2> QED BY <2>1
<1> HIDE DEF S
<1>3. \A n \in Nat : n \in S
  BY <1>1, <1>2, SetInduction
<1> QED BY <1>3 DEF S

(* A loop that stays inside D, step by step. *)
LEMMA LoopSteps ==
    ASSUME NEW D, NEW b, NEW N \in Nat, NEW step, NEW g \in [0 .. N -> D], Iterates(g, b, step, N)
    PROVE  g[0] = b /\ \A n \in 1 .. N : g[n] = step[n][g[n - 1]] /\ g[n - 1] \in D
<1>1. \A n \in 1 .. N : n - 1 \in 0 .. N
  OBVIOUS
<1> QED BY <1>1 DEF Iterates

-----------------------------------------------------------------------------
(* THE REGISTRIES *)

(* Whatever is known of the sides s is known of t in the same places. *)
Below(s, t) ==
    /\ Len(s) <= Len(t)
    /\ \A i \in 1 .. Len(s) : /\ t[i].mint = s[i].mint
                              /\ s[i].decimals \in {Unknown, t[i].decimals}

SideLists == Seq(SidesOnChain)

(* A side of a swap on chain is a mint with decimals. *)
LEMMA SideShape ==
    ASSUME NEW side \in SidesOnChain
    PROVE  side = [mint |-> side.mint, decimals |-> side.decimals]
<1>1. PICK s \in Slots : side \in UNION {{x.in, x.out} : x \in ToSet(Content[s].swaps)}
  BY DEF SidesOnChain
<1>2. PICK x \in ToSet(Content[s].swaps) : side \in {x.in, x.out}
  BY <1>1
<1> QED BY <1>2, FinalizedAssumption

LEMMA BelowReflexive ==
    ASSUME NEW s \in SideLists
    PROVE  Below(s, s)
BY DEF Below, SideLists

LEMMA BelowTransitive ==
    ASSUME NEW s \in SideLists, NEW t \in SideLists, NEW u \in SideLists,
           Below(s, t), Below(t, u)
    PROVE  Below(s, u)
<1>1. Len(s) \in Nat /\ Len(t) \in Nat /\ Len(u) \in Nat
  BY DEF SideLists
<1>2. \A i \in 1 .. Len(s) : i \in 1 .. Len(t)
  BY <1>1 DEF Below
<1> QED BY <1>1, <1>2 DEF Below

(* remember_mint forgets nothing, and what it remembers was on chain. *)
LEMMA Remembered ==
    ASSUME NEW sides \in SideLists, NEW side \in SidesOnChain
    PROVE  RememberMint(sides, side) \in SideLists /\ Below(sides, RememberMint(sides, side))
<1> DEFINE new == RememberMint(sides, side)
<1>0. /\ Len(sides) \in Nat /\ DOMAIN sides = 1 .. Len(sides)
      /\ \A i \in 1 .. Len(sides) : sides[i] \in SidesOnChain
  BY DEF SideLists
<1>1. CASE new = sides
  BY <1>1, BelowReflexive
<1>2. CASE \E i \in DOMAIN sides : sides[i].mint = side.mint
  <2> DEFINE upd(i) == IF sides[i].mint = side.mint
                       THEN [sides[i] EXCEPT !.decimals = FirstKnown(@, side.decimals)]
                       ELSE sides[i]
  <2>0. CASE side.mint = Unknown
    <3>1. new = sides
      BY <2>0 DEF RememberMint
    <3> QED BY <3>1, <1>1
  <2>a. CASE side.mint # Unknown
    <3>1. new = [i \in 1 .. Len(sides) |-> upd(i)]
      BY <1>0, <1>2, <2>a DEF RememberMint
    <3>2. ASSUME NEW i \in 1 .. Len(sides)
          PROVE  /\ upd(i) \in SidesOnChain /\ upd(i).mint = sides[i].mint
                 /\ sides[i].decimals \in {Unknown, upd(i).decimals}
      <4>1. sides[i] = [mint |-> sides[i].mint, decimals |-> sides[i].decimals]
        BY <1>0, SideShape
      <4>2. side = [mint |-> side.mint, decimals |-> side.decimals]
        BY SideShape
      <4>3. CASE sides[i].mint = side.mint /\ sides[i].decimals = Unknown
        <5>1. upd(i) = [mint |-> sides[i].mint, decimals |-> side.decimals]
          BY <4>1, <4>3 DEF FirstKnown
        <5>2. upd(i) = side
          BY <5>1, <4>2, <4>3
        <5> QED BY <5>2, <4>3
      <4>4. CASE sides[i].mint = side.mint /\ sides[i].decimals # Unknown
        <5>1. upd(i) = sides[i]
          BY <4>1, <4>4 DEF FirstKnown
        <5> QED BY <5>1, <1>0
      <4>5. CASE sides[i].mint # side.mint
        BY <4>5, <1>0
      <4> QED BY <4>3, <4>4, <4>5
    <3> HIDE DEF upd
    <3>3. new \in SideLists /\ Len(new) = Len(sides) /\ \A i \in 1 .. Len(sides) : new[i] = upd(i)
      <4> HIDE DEF new
      <4> QED BY <3>1, <3>2, <1>0 DEF SideLists
    <3> QED BY <3>2, <3>3, <1>0 DEF Below
  <2> QED BY <2>0, <2>a
<1>3. CASE new = Append(sides, side)
  <2>1. new \in SideLists /\ Len(new) = Len(sides) + 1
        /\ \A i \in 1 .. Len(sides) : new[i] = sides[i]
    <3> HIDE DEF new
    <3> QED BY <1>3, <1>0 DEF SideLists
  <2>2. Below(sides, new)
    <3> HIDE DEF new
    <3> QED BY <2>1, <1>0 DEF Below
  <2> QED BY <2>1, <2>2
<1> QED BY <1>1, <1>2, <1>3 DEF RememberMint

(* What the registry may know of a pool, and the registry. *)
PoolsOnChain == UNION {{x.pool : x \in ToSet(Content[s].swaps)} : s \in Slots}
CreatorsOnChain == UNION {{x.creator : x \in ToSet(Content[s].creations)} : s \in Slots}
PoolColumns == [sides : SideLists, seen : Slots, swaps : Nat,
                created : Slots \cup {Unknown}, creator : CreatorsOnChain \cup {Unknown}]
PoolRecord == {rec \in PoolColumns : rec.created = Unknown => rec.creator = Unknown}
PoolTables == UNION {[P -> PoolRecord] : P \in SUBSET PoolsOnChain}

(* Record b knows of a pool what record a knows. *)
Learnt(a, b) ==
    /\ Below(a.sides, b.sides) /\ a.seen = b.seen
    /\ a.created \in {Unknown, b.created} /\ a.creator \in {Unknown, b.creator}

LEMMA LearntReflexive ==
    ASSUME NEW a, a.sides \in SideLists
    PROVE  Learnt(a, a)
BY BelowReflexive DEF Learnt

LEMMA LearntTransitive ==
    ASSUME NEW a, NEW b, NEW c, a.sides \in SideLists, b.sides \in SideLists,
           c.sides \in SideLists, Learnt(a, b), Learnt(b, c)
    PROVE  Learnt(a, c)
BY BelowTransitive DEF Learnt

(* Registry b knows of every pool of a what a knows. *)
Grown(a, b) ==
    /\ DOMAIN a \subseteq DOMAIN b
    /\ \A p \in DOMAIN a : Learnt(a[p], b[p])

LEMMA PoolTableFacts ==
    ASSUME NEW T
    PROVE  T \in PoolTables <=>
             /\ T = [p \in DOMAIN T |-> T[p]] /\ DOMAIN T \subseteq PoolsOnChain
             /\ \A p \in DOMAIN T : T[p] \in PoolRecord
<1>1. ASSUME T \in PoolTables
      PROVE  /\ T = [p \in DOMAIN T |-> T[p]] /\ DOMAIN T \subseteq PoolsOnChain
             /\ \A p \in DOMAIN T : T[p] \in PoolRecord
  <2>1. PICK P \in SUBSET PoolsOnChain : T \in [P -> PoolRecord]
    BY <1>1 DEF PoolTables
  <2> QED BY <2>1
<1>2. ASSUME T = [p \in DOMAIN T |-> T[p]], DOMAIN T \subseteq PoolsOnChain,
             \A p \in DOMAIN T : T[p] \in PoolRecord
      PROVE  T \in PoolTables
  <2>1. T \in [DOMAIN T -> PoolRecord]
    BY <1>2
  <2> QED BY <2>1, <1>2 DEF PoolTables
<1> QED BY <1>1, <1>2

(* Storing a record that knows as much keeps a registry one, and lets it grow. *)
LEMMA PoolStored ==
    ASSUME NEW T \in PoolTables, NEW p \in PoolsOnChain, NEW rec \in PoolRecord,
           Known(T, p) => Learnt(T[p], rec)
    PROVE  With(T, p, rec) \in PoolTables /\ Grown(T, With(T, p, rec))
<1> DEFINE W == With(T, p, rec)
<1>1. /\ DOMAIN T \subseteq PoolsOnChain /\ \A x \in DOMAIN T : T[x] \in PoolRecord
  BY PoolTableFacts
<1>2. /\ W = [x \in DOMAIN T \cup {p} |-> IF x = p THEN rec ELSE T[x]]
      /\ DOMAIN W = DOMAIN T \cup {p}
      /\ \A x \in DOMAIN W : W[x] = IF x = p THEN rec ELSE T[x]
  BY DEF With
<1>3. \A x \in DOMAIN T : T[x].sides \in SideLists
  BY <1>1 DEF PoolRecord, PoolColumns
<1>4. W \in PoolTables
  <2>1. \A x \in DOMAIN W : W[x] \in PoolRecord
    BY <1>1, <1>2
  <2>2. DOMAIN W \subseteq PoolsOnChain
    BY <1>1, <1>2
  <2>3. W = [x \in DOMAIN W |-> W[x]]
    BY <1>2
  <2> HIDE DEF W
  <2> QED BY <2>1, <2>2, <2>3, PoolTableFacts
<1>5. Grown(T, W)
  <2>1. \A x \in DOMAIN T : Learnt(T[x], W[x])
    BY <1>2, <1>3, LearntReflexive DEF Known
  <2> HIDE DEF W
  <2> QED BY <2>1, <1>2 DEF Grown
<1> QED BY <1>4, <1>5

LEMMA GrownReflexive ==
    ASSUME NEW T \in PoolTables
    PROVE  Grown(T, T)
<1>1. \A x \in DOMAIN T : T[x].sides \in SideLists
  BY PoolTableFacts DEF PoolRecord, PoolColumns
<1> QED BY <1>1, LearntReflexive DEF Grown

LEMMA GrownTransitive ==
    ASSUME NEW T \in PoolTables, NEW U \in PoolTables, NEW V \in PoolTables,
           Grown(T, U), Grown(U, V)
    PROVE  Grown(T, V)
<1>1. /\ \A x \in DOMAIN T : T[x].sides \in SideLists
      /\ \A x \in DOMAIN U : U[x].sides \in SideLists
      /\ \A x \in DOMAIN V : V[x].sides \in SideLists
  BY PoolTableFacts DEF PoolRecord, PoolColumns
<1>2. DOMAIN T \subseteq DOMAIN U /\ DOMAIN U \subseteq DOMAIN V
  BY DEF Grown
<1>3. ASSUME NEW p \in DOMAIN T PROVE Learnt(T[p], V[p])
  <2>1. Learnt(T[p], U[p]) /\ Learnt(U[p], V[p])
    BY <1>2 DEF Grown
  <2> QED BY <2>1, <1>1, <1>2, LearntTransitive
<1> QED BY <1>2, <1>3 DEF Grown

(* idx_pool_registry_observe_swap and _observe_creation. *)
LEMMA SwapObserved ==
    ASSUME NEW T \in PoolTables, NEW s \in Slots, NEW x \in ToSet(Content[s].swaps)
    PROVE  ObserveSwap(T, x, s) \in PoolTables /\ Grown(T, ObserveSwap(T, x, s))
<1>1. CASE x.pool = Unknown
  BY <1>1, GrownReflexive DEF ObserveSwap
<1>2. CASE x.pool # Unknown
  <2> DEFINE pool == PoolAt(T, x.pool, s)
             one == RememberMint(pool.sides, x.in)
             two == RememberMint(one, x.out)
             rec == [pool EXCEPT !.sides = two, !.swaps = @ + 1]
  <2>1. pool \in PoolRecord
    <3>1. CASE Known(T, x.pool)
      BY <3>1, PoolTableFacts DEF PoolAt, Known
    <3>2. CASE ~Known(T, x.pool)
      <4>1. <<>> \in SideLists
        BY DEF SideLists
      <4> QED BY <3>2, <4>1 DEF PoolAt, NewPool, PoolRecord, PoolColumns
    <3> QED BY <3>1, <3>2
  <2>2. x.in \in SidesOnChain /\ x.out \in SidesOnChain
    BY DEF SidesOnChain
  <2> HIDE DEF pool
  <2>3. pool.sides \in SideLists
    BY <2>1 DEF PoolRecord, PoolColumns
  <2>4. one \in SideLists /\ Below(pool.sides, one)
    BY <2>2, <2>3, Remembered
  <2> HIDE DEF one
  <2>5. two \in SideLists /\ Below(one, two)
    BY <2>2, <2>4, Remembered
  <2> HIDE DEF two
  <2>6. Below(pool.sides, two)
    BY <2>3, <2>4, <2>5, BelowTransitive
  <2>7. rec \in PoolRecord /\ rec.sides = two
    <3>1. pool.swaps \in Nat /\ pool.swaps + 1 \in Nat
      BY <2>1 DEF PoolRecord, PoolColumns
    <3>2. rec = [pool EXCEPT !.sides = two, !.swaps = pool.swaps + 1]
      BY <2>1 DEF PoolRecord, PoolColumns
    <3> DEFINE more == pool.swaps + 1
    <3> HIDE DEF more
    <3> QED BY <2>1, <2>5, <3>1, <3>2 DEF PoolRecord, PoolColumns, more
  <2>8. x.pool \in PoolsOnChain
    BY DEF PoolsOnChain
  <2>a. Learnt(pool, rec)
    BY <2>1, <2>6, <2>7 DEF Learnt, PoolRecord, PoolColumns
  <2>9. Known(T, x.pool) => Learnt(T[x.pool], rec)
    BY <2>a DEF pool, PoolAt
  <2>10. ObserveSwap(T, x, s) = With(T, x.pool, rec)
    BY <1>2 DEF ObserveSwap, pool, one, two
  <2> HIDE DEF rec
  <2> QED BY <2>7, <2>8, <2>9, <2>10, PoolStored
<1> QED BY <1>1, <1>2

LEMMA CreationObserved ==
    ASSUME NEW T \in PoolTables, NEW s \in Slots, NEW x \in ToSet(Content[s].creations)
    PROVE  ObserveCreation(T, x, s) \in PoolTables /\ Grown(T, ObserveCreation(T, x, s))
<1>1. CASE ~Known(T, x.pool) \/ T[x.pool].created # Unknown
  BY <1>1, GrownReflexive DEF ObserveCreation
<1>2. CASE ~(~Known(T, x.pool) \/ T[x.pool].created # Unknown)
  <2> DEFINE old == T[x.pool]
             rec == [old EXCEPT !.created = s, !.creator = x.creator]
  <2>1. x.pool \in PoolsOnChain /\ old \in PoolRecord
    BY <1>2, PoolTableFacts DEF Known
  <2>2. x.creator \in CreatorsOnChain
    BY DEF CreatorsOnChain
  <2> HIDE DEF old
  <2>3. rec \in PoolRecord /\ rec.sides = old.sides /\ old.sides \in SideLists
    BY <2>1, <2>2, FinalizedAssumption DEF PoolRecord, PoolColumns
  <2>4. Learnt(old, rec)
    <3>1. old.created = Unknown /\ old.creator = Unknown /\ rec.seen = old.seen
      BY <1>2, <2>1 DEF PoolRecord, PoolColumns, old
    <3> QED BY <2>3, <3>1, BelowReflexive DEF Learnt
  <2>5. ObserveCreation(T, x, s) = With(T, x.pool, rec)
    BY <1>2 DEF ObserveCreation, old
  <2> HIDE DEF rec
  <2> QED BY <2>1, <2>3, <2>4, <2>5, PoolStored DEF old
<1> QED BY <1>1, <1>2

(* The swaps of a block, one after the other. *)
LEMMA SwapsLoop ==
    ASSUME NEW T \in PoolTables, NEW s \in Slots
    PROVE  SwapsObserved(T, s) \in PoolTables /\ Grown(T, SwapsObserved(T, s))
<1> DEFINE q == Content[s].swaps
           N == Len(q)
           D == {U \in PoolTables : Grown(T, U)}
           step == [n \in 1 .. N |-> [d \in D |-> ObserveSwap(d, q[n], s)]]
           Equation(f) == f = [n \in 0 .. N |-> IF n = 0 THEN T ELSE ObserveSwap(f[n - 1], q[n], s)]
<1>1. N \in Nat /\ \A n \in 1 .. N : q[n] \in ToSet(Content[s].swaps)
  BY FinalizedAssumption, ListFacts DEF Listed
<1>2. T \in D
  BY GrownReflexive
<1>3. ASSUME NEW n \in 1 .. N, NEW d \in D PROVE ObserveSwap(d, q[n], s) \in D
  BY <1>1, SwapObserved, GrownTransitive
<1>4. SwapsObserved(T, s) = (CHOOSE f : Equation(f))[N]
  BY DEF SwapsObserved
<1> HIDE DEF q, N, D
<1>5. step \in [1 .. N -> [D -> D]]
  BY <1>3
<1>6. PICK g \in [0 .. N -> D] : Iterates(g, T, step, N)
  <2> HIDE DEF step
  <2> QED BY <1>1, <1>2, <1>5, IterationExists
<1>7. Equation(g)
  <2>0. g[0] = T /\ \A n \in 1 .. N : g[n] = step[n][g[n - 1]] /\ g[n - 1] \in D
    <3> HIDE DEF step
    <3> QED BY <1>1, <1>6, LoopSteps
  <2>1. \A n \in 1 .. N : g[n] = ObserveSwap(g[n - 1], q[n], s)
    BY <2>0
  <2> QED BY <1>1, <1>6, <2>0, <2>1
<1>8. PICK f : Equation(f) /\ SwapsObserved(T, s) = f[N]
  <2> HIDE DEF Equation
  <2> QED BY <1>4, <1>7
<1>9. f[0] = T /\ \A n \in 1 .. N : f[n] = ObserveSwap(f[n - 1], q[n], s)
  BY <1>1, <1>8
<1>10. \A n \in 0 .. N : f[n] \in D
  BY <1>1, <1>2, <1>3, <1>9, StepsStay
<1> QED BY <1>1, <1>8, <1>10 DEF D

(* The creations of a block, one after the other. *)
LEMMA CreationsLoop ==
    ASSUME NEW T \in PoolTables, NEW s \in Slots
    PROVE  CreationsObserved(T, s) \in PoolTables /\ Grown(T, CreationsObserved(T, s))
<1> DEFINE q == Content[s].creations
           N == Len(q)
           D == {U \in PoolTables : Grown(T, U)}
           step == [n \in 1 .. N |-> [d \in D |-> ObserveCreation(d, q[n], s)]]
           Equation(f) == f = [n \in 0 .. N |->
                                 IF n = 0 THEN T ELSE ObserveCreation(f[n - 1], q[n], s)]
<1>1. N \in Nat /\ \A n \in 1 .. N : q[n] \in ToSet(Content[s].creations)
  BY FinalizedAssumption, ListFacts DEF Listed
<1>2. T \in D
  BY GrownReflexive
<1>3. ASSUME NEW n \in 1 .. N, NEW d \in D PROVE ObserveCreation(d, q[n], s) \in D
  BY <1>1, CreationObserved, GrownTransitive
<1>4. CreationsObserved(T, s) = (CHOOSE f : Equation(f))[N]
  BY DEF CreationsObserved
<1> HIDE DEF q, N, D
<1>5. step \in [1 .. N -> [D -> D]]
  BY <1>3
<1>6. PICK g \in [0 .. N -> D] : Iterates(g, T, step, N)
  <2> HIDE DEF step
  <2> QED BY <1>1, <1>2, <1>5, IterationExists
<1>7. Equation(g)
  <2>0. g[0] = T /\ \A n \in 1 .. N : g[n] = step[n][g[n - 1]] /\ g[n - 1] \in D
    <3> HIDE DEF step
    <3> QED BY <1>1, <1>6, LoopSteps
  <2>1. \A n \in 1 .. N : g[n] = ObserveCreation(g[n - 1], q[n], s)
    BY <2>0
  <2> QED BY <1>1, <1>6, <2>0, <2>1
<1>8. PICK f : Equation(f) /\ CreationsObserved(T, s) = f[N]
  <2> HIDE DEF Equation
  <2> QED BY <1>4, <1>7
<1>9. f[0] = T /\ \A n \in 1 .. N : f[n] = ObserveCreation(f[n - 1], q[n], s)
  BY <1>1, <1>8
<1>10. \A n \in 0 .. N : f[n] \in D
  BY <1>1, <1>2, <1>3, <1>9, StepsStay
<1> QED BY <1>1, <1>8, <1>10 DEF D

(* What the registry may know of a token, and the registry. *)
MintsOnChain ==
    UNION {{x.mint : x \in ToSet(Content[s].balances) \cup ToSet(Content[s].metas)} : s \in Slots}
DecimalsOnChain == UNION {{x.decimals : x \in ToSet(Content[s].balances)} : s \in Slots}
NamesOnChain == UNION {{x.name : x \in ToSet(Content[s].metas)} : s \in Slots}
TokenRecord == [decimals : DecimalsOnChain \cup {Unknown}, name : NamesOnChain \cup {Unknown},
                named : BOOLEAN, seen : Slots]
TokenTables == UNION {[M -> TokenRecord] : M \in SUBSET MintsOnChain}

LEMMA TokenStored ==
    ASSUME NEW T \in TokenTables, NEW m \in MintsOnChain, NEW rec \in TokenRecord
    PROVE  With(T, m, rec) \in TokenTables
<1>1. PICK M \in SUBSET MintsOnChain : T \in [M -> TokenRecord]
  BY DEF TokenTables
<1>2. With(T, m, rec) \in [M \cup {m} -> TokenRecord]
  BY <1>1 DEF With
<1>3. M \cup {m} \in SUBSET MintsOnChain
  OBVIOUS
<1> QED BY <1>2, <1>3 DEF TokenTables

LEMMA TokenAtType ==
    ASSUME NEW T \in TokenTables, NEW m, NEW s \in Slots
    PROVE  TokenAt(T, m, s) \in TokenRecord
<1>1. PICK M \in SUBSET MintsOnChain : T \in [M -> TokenRecord]
  BY DEF TokenTables
<1>2. NewToken(s) \in TokenRecord
  BY DEF NewToken, TokenRecord
<1> QED BY <1>1, <1>2 DEF TokenAt, Known

(* idx_token_registry_observe_balance and _observe_metadata. *)
LEMMA BalanceObserved ==
    ASSUME NEW T \in TokenTables, NEW s \in Slots, NEW x \in ToSet(Content[s].balances)
    PROVE  ObserveBalance(T, x.mint, x.decimals, s) \in TokenTables
<1> DEFINE token == TokenAt(T, x.mint, s)
           known == FirstKnown(token.decimals, x.decimals)
           rec == [token EXCEPT !.decimals = known]
<1>1. token \in TokenRecord
  BY TokenAtType
<1>2. x.mint \in MintsOnChain /\ x.decimals \in DecimalsOnChain
  BY DEF MintsOnChain, DecimalsOnChain
<1>3. ObserveBalance(T, x.mint, x.decimals, s) = With(T, x.mint, rec)
  BY <1>1 DEF ObserveBalance, TokenRecord
<1> HIDE DEF token
<1>4. known \in DecimalsOnChain \cup {Unknown}
  BY <1>1, <1>2 DEF FirstKnown, TokenRecord
<1> HIDE DEF known
<1>5. rec \in TokenRecord
  BY <1>1, <1>4 DEF TokenRecord
<1> HIDE DEF rec
<1> QED BY <1>2, <1>3, <1>5, TokenStored

LEMMA MetadataObserved ==
    ASSUME NEW T \in TokenTables, NEW s \in Slots, NEW x \in ToSet(Content[s].metas)
    PROVE  ObserveMetadata(T, x, s) \in TokenTables
<1> DEFINE token == TokenAt(T, x.mint, s)
           rec == IF token.named THEN token
                  ELSE [token EXCEPT !.name = x.name, !.named = TRUE]
<1>1. token \in TokenRecord
  BY TokenAtType
<1>2. x.mint \in MintsOnChain /\ x.name \in NamesOnChain
  BY DEF MintsOnChain, NamesOnChain
<1>3. ObserveMetadata(T, x, s) = IF x.mint = Unknown THEN T ELSE With(T, x.mint, rec)
  BY DEF ObserveMetadata
<1> HIDE DEF token
<1>5. rec \in TokenRecord
  BY <1>1, <1>2 DEF TokenRecord
<1> HIDE DEF rec
<1> QED BY <1>2, <1>3, <1>5, TokenStored

(* The balances of a block, one after the other. *)
LEMMA BalancesLoop ==
    ASSUME NEW T \in TokenTables, NEW s \in Slots
    PROVE  BalancesObserved(T, s) \in TokenTables
<1> DEFINE q == Content[s].balances
           N == Len(q)
           D == TokenTables
           step == [n \in 1 .. N |-> [d \in D |-> ObserveBalance(d, q[n].mint, q[n].decimals, s)]]
           Equation(f) == f = [n \in 0 .. N |->
                                 IF n = 0 THEN T
                                 ELSE ObserveBalance(f[n - 1], q[n].mint, q[n].decimals, s)]
<1>1. N \in Nat /\ \A n \in 1 .. N : q[n] \in ToSet(Content[s].balances)
  BY FinalizedAssumption, ListFacts DEF Listed
<1>2. T \in D
  OBVIOUS
<1>3. ASSUME NEW n \in 1 .. N, NEW d \in D
      PROVE  ObserveBalance(d, q[n].mint, q[n].decimals, s) \in D
  BY <1>1, BalanceObserved
<1>4. BalancesObserved(T, s) = (CHOOSE f : Equation(f))[N]
  BY DEF BalancesObserved
<1> HIDE DEF q, N, D
<1>5. step \in [1 .. N -> [D -> D]]
  BY <1>3
<1>6. PICK g \in [0 .. N -> D] : Iterates(g, T, step, N)
  <2> HIDE DEF step
  <2> QED BY <1>1, <1>2, <1>5, IterationExists
<1>7. Equation(g)
  <2>1. g[0] = T /\ \A n \in 1 .. N : g[n] = step[n][g[n - 1]] /\ g[n - 1] \in D
    <3> HIDE DEF step
    <3> QED BY <1>1, <1>6, LoopSteps
  <2>2. \A n \in 1 .. N : g[n] = ObserveBalance(g[n - 1], q[n].mint, q[n].decimals, s)
    BY <2>1
  <2> QED BY <1>1, <1>6, <2>1, <2>2
<1>8. PICK f : Equation(f) /\ BalancesObserved(T, s) = f[N]
  <2> HIDE DEF Equation
  <2> QED BY <1>4, <1>7
<1>9. f[0] = T /\ \A n \in 1 .. N : f[n] = ObserveBalance(f[n - 1], q[n].mint, q[n].decimals, s)
  BY <1>1, <1>8
<1>10. \A n \in 0 .. N : f[n] \in D
  BY <1>1, <1>2, <1>3, <1>9, StepsStay
<1> QED BY <1>1, <1>8, <1>10 DEF D

(* The metadata of a block, one after the other. *)
LEMMA MetasLoop ==
    ASSUME NEW T \in TokenTables, NEW s \in Slots
    PROVE  MetasObserved(T, s) \in TokenTables
<1> DEFINE q == Content[s].metas
           N == Len(q)
           D == TokenTables
           step == [n \in 1 .. N |-> [d \in D |-> ObserveMetadata(d, q[n], s)]]
           Equation(f) == f = [n \in 0 .. N |->
                                 IF n = 0 THEN T ELSE ObserveMetadata(f[n - 1], q[n], s)]
<1>1. N \in Nat /\ \A n \in 1 .. N : q[n] \in ToSet(Content[s].metas)
  BY FinalizedAssumption, ListFacts DEF Listed
<1>2. T \in D
  OBVIOUS
<1>3. ASSUME NEW n \in 1 .. N, NEW d \in D PROVE ObserveMetadata(d, q[n], s) \in D
  BY <1>1, MetadataObserved
<1>4. MetasObserved(T, s) = (CHOOSE f : Equation(f))[N]
  BY DEF MetasObserved
<1> HIDE DEF q, N, D
<1>5. step \in [1 .. N -> [D -> D]]
  BY <1>3
<1>6. PICK g \in [0 .. N -> D] : Iterates(g, T, step, N)
  <2> HIDE DEF step
  <2> QED BY <1>1, <1>2, <1>5, IterationExists
<1>7. Equation(g)
  <2>1. g[0] = T /\ \A n \in 1 .. N : g[n] = step[n][g[n - 1]] /\ g[n - 1] \in D
    <3> HIDE DEF step
    <3> QED BY <1>1, <1>6, LoopSteps
  <2>2. \A n \in 1 .. N : g[n] = ObserveMetadata(g[n - 1], q[n], s)
    BY <2>1
  <2> QED BY <1>1, <1>6, <2>1, <2>2
<1>8. PICK f : Equation(f) /\ MetasObserved(T, s) = f[N]
  <2> HIDE DEF Equation
  <2> QED BY <1>4, <1>7
<1>9. f[0] = T /\ \A n \in 1 .. N : f[n] = ObserveMetadata(f[n - 1], q[n], s)
  BY <1>1, <1>8
<1>10. \A n \in 0 .. N : f[n] \in D
  BY <1>1, <1>2, <1>3, <1>9, StepsStay
<1> QED BY <1>1, <1>8, <1>10 DEF D

Registries == [pools : PoolTables, tokens : TokenTables]

(* A block observed: the registries stay registries, and forget no side. *)
LEMMA ObservedFacts ==
    ASSUME NEW r \in Registries, NEW s \in Slots
    PROVE  Observed(r, s) \in Registries /\ Grown(r.pools, Observed(r, s).pools)
<1>0. r.pools \in PoolTables /\ r.tokens \in TokenTables
  BY DEF Registries
<1> DEFINE a == SwapsObserved(r.pools, s)
           b == CreationsObserved(a, s)
           c == MetasObserved(BalancesObserved(r.tokens, s), s)
<1>1. a \in PoolTables /\ Grown(r.pools, a)
  BY <1>0, SwapsLoop
<1> HIDE DEF a
<1>2. b \in PoolTables /\ Grown(a, b)
  BY <1>1, CreationsLoop
<1> HIDE DEF b
<1>3. Grown(r.pools, b)
  BY <1>0, <1>1, <1>2, GrownTransitive
<1>4. c \in TokenTables
  BY <1>0, BalancesLoop, MetasLoop
<1> HIDE DEF c
<1>5. Observed(r, s) = [pools |-> b, tokens |-> c]
  BY DEF Observed, a, b, c
<1> QED BY <1>2, <1>3, <1>4, <1>5 DEF Registries

-----------------------------------------------------------------------------
(* THE ROWS OF A BLOCK *)

(* What is needed of a row of an entity: a slot, and what its version and    *)
(* its sides are made of.                                                    *)
RowOK(e, row) ==
    /\ row.slot \in Slots
    /\ e = "pool" => row.val \in PoolRecord
    /\ e = "bar" => row.val.count \in Nat
RowsOK(m) == \A e \in Kinds : Listed(m[e]) /\ \A i \in 1 .. Len(m[e]) : RowOK(e, m[e][i])

(* The loop of mem_rows_retain, row by row. *)
LEMMA RetainedRuns ==
    ASSUME NEW q, Listed(q), NEW keep
    PROVE  \E f : /\ f[0] = <<>> /\ Retained(q, keep) = f[Len(q)]
                  /\ \A n \in 1 .. Len(q) :
                        f[n] = IF q[n].slot \in keep THEN Append(f[n - 1], q[n]) ELSE f[n - 1]
<1> DEFINE N == Len(q)
           D == Seq(ToSet(q))
           none == <<>>
           One(d, n) == IF q[n].slot \in keep THEN Append(d, q[n]) ELSE d
           step == [n \in 1 .. N |-> [d \in D |-> One(d, n)]]
           Equation(f) == f = [n \in 0 .. N |->
                                 IF n = 0 THEN none ELSE One(f[n - 1], n)]
<1>1. N \in Nat /\ \A n \in 1 .. N : q[n] \in ToSet(q)
  BY ListFacts
<1>2. none \in D
  OBVIOUS
<1>3. ASSUME NEW n \in 1 .. N, NEW d \in D PROVE One(d, n) \in D
  BY <1>1
<1>4. Retained(q, keep) = (CHOOSE f : Equation(f))[N]
  BY DEF Retained
<1> HIDE DEF none, One, N, D
<1>5. step \in [1 .. N -> [D -> D]]
  BY <1>3
<1>6. PICK g \in [0 .. N -> D] : Iterates(g, none, step, N)
  <2> HIDE DEF step
  <2> QED BY <1>1, <1>2, <1>5, IterationExists
<1>7. Equation(g)
  <2>1. g[0] = none /\ \A n \in 1 .. N : g[n] = step[n][g[n - 1]] /\ g[n - 1] \in D
    <3> HIDE DEF step
    <3> QED BY <1>1, <1>6, LoopSteps
  <2>2. \A n \in 1 .. N : g[n] = One(g[n - 1], n)
    BY <2>1
  <2> QED BY <1>1, <1>6, <2>1, <2>2
<1>8. PICK f : Equation(f) /\ Retained(q, keep) = f[N]
  <2> HIDE DEF Equation
  <2> QED BY <1>4, <1>7
<1>9. f[0] = none /\ \A n \in 1 .. N : f[n] = One(f[n - 1], n)
  BY <1>1, <1>8
<1> QED BY <1>8, <1>9 DEF N, One, none

(* What retain leaves are rows that were there. *)
LEMMA RetainedRows ==
    ASSUME NEW q, Listed(q), NEW keep
    PROVE  Retained(q, keep) \in Seq(ToSet(q))
<1> DEFINE N == Len(q)
           D == Seq(ToSet(q))
<1>1. N \in Nat /\ \A n \in 1 .. N : q[n] \in ToSet(q)
  BY ListFacts
<1>2. PICK f : /\ f[0] = <<>> /\ Retained(q, keep) = f[N]
               /\ \A n \in 1 .. N :
                     f[n] = IF q[n].slot \in keep THEN Append(f[n - 1], q[n]) ELSE f[n - 1]
  BY RetainedRuns
<1>3. ASSUME NEW n \in 1 .. N, f[n - 1] \in D PROVE f[n] \in D
  <2> DEFINE S == ToSet(q)
             d == f[n - 1]
             x == q[n]
  <2>1. d \in Seq(S) /\ x \in S
    BY <1>1, <1>3
  <2>2. f[n] = d \/ f[n] = Append(d, x)
    BY <1>2
  <2> HIDE DEF S, d, x
  <2>3. Append(d, x) \in Seq(S)
    BY <2>1
  <2>4. f[n] \in Seq(S)
    BY <2>1, <2>2, <2>3
  <2> QED BY <2>4 DEF S
<1>a. f[0] \in D
  BY <1>2
<1> HIDE DEF N, D
<1>4. \A n \in 0 .. N : f[n] \in D
  BY <1>1, <1>3, <1>a, StepsStay
<1> QED BY <1>1, <1>2, <1>4 DEF D

LEMMA RetainKeepsOK ==
    ASSUME NEW m, RowsOK(m), NEW keep
    PROVE  RowsOK(MemRowsRetain(m, keep))
<1> DEFINE k == MemRowsRetain(m, keep)
<1> SUFFICES ASSUME NEW e \in Kinds
             PROVE  Listed(k[e]) /\ \A i \in 1 .. Len(k[e]) : RowOK(e, k[e][i])
  BY DEF RowsOK
<1>1. k[e] = Retained(m[e], keep)
  BY DEF MemRowsRetain
<1>2. k[e] \in Seq(ToSet(m[e]))
  BY <1>1, RetainedRows DEF RowsOK
<1>3. \A x \in ToSet(m[e]) : RowOK(e, x)
  BY ListFacts DEF RowsOK
<1> HIDE DEF k
<1> QED BY <1>2, <1>3, SeqListed

LEMMA AppendKeepsOK ==
    ASSUME NEW m, RowsOK(m), NEW set, RowsOK(set)
    PROVE  RowsOK(MemRowsAppend(m, set))
<1> DEFINE k == MemRowsAppend(m, set)
<1> SUFFICES ASSUME NEW e \in Kinds
             PROVE  Listed(k[e]) /\ \A i \in 1 .. Len(k[e]) : RowOK(e, k[e][i])
  BY DEF RowsOK
<1> DEFINE S == ToSet(m[e]) \cup ToSet(set[e])
<1>1. k[e] = m[e] \o set[e]
  BY DEF MemRowsAppend
<1>2. m[e] \in Seq(S) /\ set[e] \in Seq(S)
  BY SeqMonotonic DEF RowsOK, Listed
<1>3. \A x \in S : RowOK(e, x)
  BY ListFacts DEF RowsOK
<1> HIDE DEF S, k
<1>4. k[e] \in Seq(S)
  BY <1>1, <1>2
<1> QED BY <1>3, <1>4, SeqListed

(* FINITE SETS *)

(* What a function makes of a finite set is finite. *)
LEMMA ImageFinite ==
    ASSUME NEW S, IsFiniteSet(S), NEW f
    PROVE  IsFiniteSet({f[x] : x \in S})
<1> DEFINE T == {f[x] : x \in S}
           g == [x \in S |-> f[x]]
<1>1. g \in Surjection(S, T)
  BY DEF Surjection
<1> HIDE DEF T, g
<1>2. IsFiniteSet(T)
  BY <1>1, FS_Surjection
<1> QED BY <1>2 DEF T

(* A finite set can be listed. *)
LEMMA SetToSeqType ==
    ASSUME NEW S, IsFiniteSet(S)
    PROVE  /\ Len(SetToSeq(S)) \in Nat /\ DOMAIN SetToSeq(S) = 1 .. Len(SetToSeq(S))
           /\ \A i \in 1 .. Len(SetToSeq(S)) : SetToSeq(S)[i] \in S
<1>1. Cardinality(S) \in Nat /\ ExistsBijection(1 .. Cardinality(S), S)
  BY FS_CardinalityType
<1>2. PICK f : f \in Bijection(1 .. Cardinality(S), S)
  BY <1>1 DEF ExistsBijection
<1>3. f \in [1 .. Cardinality(S) -> S] /\ IsInjective(f)
  BY <1>2 DEF Bijection, Injection
<1>4. SetToSeq(S) \in [1 .. Cardinality(S) -> S]
  BY <1>3 DEF SetToSeq
<1>5. SetToSeq(S) \in Seq(S)
  BY <1>1, <1>4, SeqDef
<1> HIDE DEF SetToSeq
<1> QED BY <1>5

(* The items of a list are finitely many. *)
LEMMA ListFinite ==
    ASSUME NEW q, Listed(q)
    PROVE  IsFiniteSet(ToSet(q))
<1>1. Len(q) \in Nat /\ ToSet(q) = {q[i] : i \in 1 .. Len(q)}
  BY ListFacts
<1>2. IsFiniteSet(1 .. Len(q))
  BY <1>1, FS_Interval
<1> QED BY <1>1, <1>2, ImageFinite

(* Every list of a block is one. *)
LEMMA ContentListed ==
    ASSUME NEW s \in Slots
    PROVE  /\ Listed(Content[s].swaps) /\ Listed(Content[s].creations)
           /\ Listed(Content[s].balances) /\ Listed(Content[s].metas)
           /\ Listed(Content[s].transfers) /\ Listed(Content[s].sol)
BY FinalizedAssumption DEF Listed

(* A block touches finitely many pools and tokens. *)
LEMMA TouchedFinite ==
    ASSUME NEW r, NEW s \in Slots
    PROVE  IsFiniteSet(TouchedPools(r, s)) /\ IsFiniteSet(TouchedTokens(r, s))
<1> DEFINE A == ToSet(Content[s].swaps) \cup ToSet(Content[s].creations)
           B == ToSet(Content[s].balances) \cup ToSet(Content[s].metas)
           pool == [x \in A |-> x.pool]
           mint == [x \in B |-> x.mint]
<1>1. IsFiniteSet(A) /\ IsFiniteSet(B)
  BY ContentListed, ListFinite, FS_Union
<1>2. /\ TouchedPools(r, s) \subseteq {pool[x] : x \in A}
      /\ TouchedTokens(r, s) \subseteq {mint[x] : x \in B}
  BY DEF TouchedPools, TouchedTokens
<1> HIDE DEF A, B, pool, mint
<1>3. IsFiniteSet({pool[x] : x \in A}) /\ IsFiniteSet({mint[x] : x \in B})
  BY <1>1, ImageFinite
<1> QED BY <1>2, <1>3, FS_Subset

(* A bar counts, and closes at a slot that has a trade. *)
LEMMA BarType ==
    ASSUME NEW p, NEW slots \in SUBSET Slots, NEW t \in slots, Trades(p, t) # {}
    PROVE  Bar(p, slots).count \in Nat /\ Bar(p, slots).close \in Slots
<1> DEFINE pairs == [s \in slots |-> {s} \X Trades(p, s)]
           all == UNION {{s} \X Trades(p, s) : s \in slots}
           closing == {s \in slots : Trades(p, s) # {}}
<1>1. Bar(p, slots) = [count |-> Cardinality(all), close |-> Max(closing)]
  BY DEF Bar
<1>2. \A s \in slots : s \in Nat /\ s <= MaxSlot
  BY FinalizedAssumption DEF Slots
<1>3. IsFiniteSet(slots)
  BY <1>2, FinalizedAssumption, FS_BoundedSetOfNaturals
<1>4. ASSUME NEW s \in slots PROVE IsFiniteSet({s} \X Trades(p, s))
  <2>1. DOMAIN Content[s].swaps = 1 .. Len(Content[s].swaps) /\ Len(Content[s].swaps) \in Nat
    BY ContentListed, ListFacts
  <2>2. Trades(p, s) \subseteq 1 .. Len(Content[s].swaps)
    BY <2>1 DEF Trades
  <2>3. IsFiniteSet(Trades(p, s))
    <3> DEFINE n == Len(Content[s].swaps)
    <3>1. IsFiniteSet(1 .. n)
      <4>1. 1 \in Int /\ n \in Int
        BY <2>1
      <4> HIDE DEF n
      <4> QED BY <4>1, FS_Interval
    <3> HIDE DEF n
    <3> QED BY <2>2, <3>1, FS_Subset DEF n
  <2> QED BY <2>3, FS_Singleton, FS_Product
<1>5. all = UNION {pairs[s] : s \in slots}
  OBVIOUS
<1>6. \A s \in slots : IsFiniteSet(pairs[s])
  BY <1>4
<1> HIDE DEF pairs, all
<1>7. IsFiniteSet({pairs[s] : s \in slots})
  BY <1>3, ImageFinite
<1>8. IsFiniteSet(all)
  BY <1>5, <1>6, <1>7, FS_UNION
<1>9. Cardinality(all) \in Nat
  BY <1>8, FS_CardinalityType
<1>10. Max(closing) \in closing
  <2>1. closing # {} /\ closing \subseteq Int
    BY <1>2
  <2>2. \A x \in closing : x <= MaxSlot
    BY <1>2
  <2>0. MaxSlot \in Int
    BY FinalizedAssumption
  <2> HIDE DEF closing
  <2>3. PICK x \in closing : \A y \in closing : x >= y
    BY <2>0, <2>1, <2>2, GreatestNatural
  <2> QED BY <2>3 DEF Max
<1> QED BY <1>1, <1>9, <1>10

LEMMA KindsAre ==
    Kinds = {"block", "sol_balance", "token_balance", "transfer", "swap", "pool", "token", "bar"}
<1>1. DOMAIN Entities = 1 .. 8
  BY DEF Entities
<1>2. 1 .. 8 = {1, 2, 3, 4, 5, 6, 7, 8}
  OBVIOUS
<1>3. Kinds = {Entities[i] : i \in {1, 2, 3, 4, 5, 6, 7, 8}}
  BY <1>1, <1>2 DEF Kinds, ToSet
<1>4. /\ Entities[1] = "block" /\ Entities[2] = "sol_balance" /\ Entities[3] = "token_balance"
      /\ Entities[4] = "transfer" /\ Entities[5] = "swap" /\ Entities[6] = "pool"
      /\ Entities[7] = "token" /\ Entities[8] = "bar"
  BY DEF Entities
<1> HIDE DEF Entities
<1> QED BY <1>3, <1>4

(* A function on 1 .. n is a list of length n. *)
LEMMA FunctionListed ==
    ASSUME NEW n \in Nat, NEW f, f = [i \in 1 .. n |-> f[i]]
    PROVE  Listed(f) /\ Len(f) = n
<1>1. DOMAIN f = 1 .. n
  OBVIOUS
<1>2. \A i \in 1 .. n : f[i] \in ToSet(f)
  BY <1>1 DEF ToSet
<1>3. f \in [1 .. n -> ToSet(f)]
  BY <1>2
<1>4. f \in Seq(ToSet(f))
  BY <1>3, SeqDef
<1>5. Len(f) \in Nat /\ DOMAIN f = 1 .. Len(f)
  BY <1>4, LenProperties
<1> QED BY <1>1, <1>4, <1>5 DEF Listed

(* Rows listed by a function are rows of an entity when each of them is. *)
LEMMA RowsListed ==
    ASSUME NEW e, NEW n \in Nat, NEW f, f = [i \in 1 .. n |-> f[i]],
           \A i \in 1 .. n : RowOK(e, f[i])
    PROVE  Listed(f) /\ \A i \in 1 .. Len(f) : RowOK(e, f[i])
BY FunctionListed

LEMMA PlainRow ==
    ASSUME NEW e \in {"block", "sol_balance", "token_balance", "transfer", "swap"},
           NEW s \in Slots, NEW key, NEW kind, NEW val
    PROVE  RowOK(e, Row(key, s, kind, val))
BY DEF RowOK, Row

(* idx_write_set: the rows of a block. *)
LEMMA WriteSetOK ==
    ASSUME NEW r \in Registries, NEW s \in Slots, NEW slots \in SUBSET Slots, s \in slots
    PROVE  RowsOK(WriteSet(s, r, slots))
<1> DEFINE c == Content[s]
           pools == SetToSeq(TouchedPools(r, s))
           tokens == SetToSeq(TouchedTokens(r, s))
           traded == {p \in TouchedPools(r, s) : Trades(p, s) # {}} \X {"1s", "1m"}
           bars == SetToSeq(traded)
           poolRow(i) == LET pool == r.pools[pools[i]] IN Row(pools[i], pool.seen, "plain", pool)
           tokenRow(i) == LET token == TokenRow(r.tokens[tokens[i]])
                          IN  Row(tokens[i], token.seen, "plain", token)
           barRow(i) == LET bar == Bar(bars[i][1], slots)
                        IN  Row(bars[i][1], bar.close, bars[i][2], bar)
           w == WriteSet(s, r, slots)
<1>0. /\ "block" \in Kinds /\ "sol_balance" \in Kinds /\ "token_balance" \in Kinds
      /\ "transfer" \in Kinds /\ "swap" \in Kinds /\ "pool" \in Kinds
      /\ "token" \in Kinds /\ "bar" \in Kinds
  BY KindsAre
<1>b. w["block"] = <<Row(s, s, "plain", s)>>
  BY <1>0 DEF WriteSet
<1>s. w["sol_balance"] = [i \in DOMAIN c.sol |-> Row(c.sol[i], s, "plain", s)]
  BY <1>0 DEF WriteSet
<1>t. w["token_balance"] = [i \in DOMAIN c.balances |-> Row(c.balances[i].mint, s, "plain", s)]
  BY <1>0 DEF WriteSet
<1>u. w["transfer"] = [i \in DOMAIN c.transfers |-> Row(<<s, i>>, s, c.transfers[i], s)]
  BY <1>0 DEF WriteSet
<1>v. w["swap"] = [i \in DOMAIN c.swaps |-> Row(<<s, i>>, s, "plain", s)]
  BY <1>0 DEF WriteSet
<1>p. w["pool"] = [i \in DOMAIN pools |-> poolRow(i)]
  BY <1>0 DEF WriteSet
<1>m. w["token"] = [i \in DOMAIN tokens |-> tokenRow(i)]
  BY <1>0 DEF WriteSet
<1>r. w["bar"] = [i \in DOMAIN bars |-> barRow(i)]
  BY <1>0 DEF WriteSet
<1> HIDE DEF w
<1> DEFINE Fine(e) == Listed(w[e]) /\ \A i \in 1 .. Len(w[e]) : RowOK(e, w[e][i])
<1>2. Fine("block")
  <2> DEFINE row == Row(s, s, "plain", s)
  <2>1. RowOK("block", row)
    BY PlainRow
  <2> HIDE DEF row
  <2>2. w["block"] \in Seq({row})
    BY <1>b DEF row
  <2>3. Listed(w["block"]) /\ \A i \in 1 .. Len(w["block"]) : w["block"][i] \in {row}
    BY <2>2, SeqListed
  <2> QED BY <2>1, <2>3
<1>3. Fine("sol_balance")
  <2> DEFINE n == Len(c.sol)
  <2>1. n \in Nat /\ DOMAIN c.sol = 1 .. n
    BY ContentListed, ListFacts
  <2> HIDE DEF n, c
  <2>2. \A i \in 1 .. n : RowOK("sol_balance", w["sol_balance"][i])
    BY <1>s, <2>1, PlainRow
  <2>3. w["sol_balance"] = [i \in 1 .. n |-> w["sol_balance"][i]]
    BY <1>s, <2>1
  <2> QED BY <2>1, <2>2, <2>3, RowsListed
<1>4. Fine("token_balance")
  <2> DEFINE n == Len(c.balances)
  <2>1. n \in Nat /\ DOMAIN c.balances = 1 .. n
    BY ContentListed, ListFacts
  <2> HIDE DEF n, c
  <2>2. \A i \in 1 .. n : RowOK("token_balance", w["token_balance"][i])
    BY <1>t, <2>1, PlainRow
  <2>3. w["token_balance"] = [i \in 1 .. n |-> w["token_balance"][i]]
    BY <1>t, <2>1
  <2> QED BY <2>1, <2>2, <2>3, RowsListed
<1>5. Fine("transfer")
  <2> DEFINE n == Len(c.transfers)
  <2>1. n \in Nat /\ DOMAIN c.transfers = 1 .. n
    BY ContentListed, ListFacts
  <2> HIDE DEF n, c
  <2>2. \A i \in 1 .. n : RowOK("transfer", w["transfer"][i])
    BY <1>u, <2>1, PlainRow
  <2>3. w["transfer"] = [i \in 1 .. n |-> w["transfer"][i]]
    BY <1>u, <2>1
  <2> QED BY <2>1, <2>2, <2>3, RowsListed
<1>6. Fine("swap")
  <2> DEFINE n == Len(c.swaps)
  <2>1. n \in Nat /\ DOMAIN c.swaps = 1 .. n
    BY ContentListed, ListFacts
  <2> HIDE DEF n, c
  <2>2. \A i \in 1 .. n : RowOK("swap", w["swap"][i])
    BY <1>v, <2>1, PlainRow
  <2>3. w["swap"] = [i \in 1 .. n |-> w["swap"][i]]
    BY <1>v, <2>1
  <2> QED BY <2>1, <2>2, <2>3, RowsListed
<1>7. Fine("pool")
  <2> DEFINE n == Len(pools)
  <2>1. n \in Nat /\ DOMAIN pools = 1 .. n /\ \A i \in 1 .. n : pools[i] \in TouchedPools(r, s)
    BY TouchedFinite, SetToSeqType
  <2>2. ASSUME NEW i \in 1 .. n PROVE r.pools[pools[i]] \in PoolRecord
    <3>1. r.pools \in PoolTables /\ pools[i] \in DOMAIN r.pools
      BY <2>1 DEF Registries, TouchedPools
    <3> QED BY <3>1, PoolTableFacts
  <2> HIDE DEF n, pools
  <2>3. \A i \in 1 .. n : RowOK("pool", poolRow(i))
    BY <2>2 DEF RowOK, Row, PoolRecord, PoolColumns
  <2>4. w["pool"] = [i \in 1 .. n |-> poolRow(i)]
    BY <1>p, <2>1 DEF pools
  <2> HIDE DEF poolRow
  <2>5. /\ \A i \in 1 .. n : RowOK("pool", w["pool"][i])
        /\ w["pool"] = [i \in 1 .. n |-> w["pool"][i]]
    BY <2>3, <2>4
  <2> QED BY <2>1, <2>5, RowsListed
<1>8. Fine("token")
  <2> DEFINE n == Len(tokens)
  <2>1. n \in Nat /\ DOMAIN tokens = 1 .. n /\ \A i \in 1 .. n : tokens[i] \in TouchedTokens(r, s)
    BY TouchedFinite, SetToSeqType
  <2>2. ASSUME NEW i \in 1 .. n PROVE r.tokens[tokens[i]] \in TokenRecord
    <3>1. r.tokens \in TokenTables /\ tokens[i] \in DOMAIN r.tokens
      BY <2>1 DEF Registries, TouchedTokens
    <3>2. PICK M \in SUBSET MintsOnChain : r.tokens \in [M -> TokenRecord]
      BY <3>1 DEF TokenTables
    <3> QED BY <3>1, <3>2
  <2> HIDE DEF n, tokens
  <2>3. \A i \in 1 .. n : RowOK("token", tokenRow(i))
    BY <2>2 DEF RowOK, Row, TokenRow, TokenRecord
  <2>4. w["token"] = [i \in 1 .. n |-> tokenRow(i)]
    BY <1>m, <2>1 DEF tokens
  <2> HIDE DEF tokenRow
  <2>5. /\ \A i \in 1 .. n : RowOK("token", w["token"][i])
        /\ w["token"] = [i \in 1 .. n |-> w["token"][i]]
    BY <2>3, <2>4
  <2> QED BY <2>1, <2>5, RowsListed
<1>9. Fine("bar")
  <2> DEFINE n == Len(bars)
             T == {p \in TouchedPools(r, s) : Trades(p, s) # {}}
  <2>0. IsFiniteSet(traded)
    <3>1. IsFiniteSet(T)
      BY TouchedFinite, FS_Subset
    <3>2. IsFiniteSet({"1s", "1m"})
      <4>1. IsFiniteSet({"1s"}) /\ {"1s", "1m"} = {"1s"} \cup {"1m"}
        BY FS_Singleton
      <4> QED BY <4>1, FS_AddElement
    <3> HIDE DEF T
    <3>3. IsFiniteSet(T \X {"1s", "1m"})
      BY <3>1, <3>2, FS_Product
    <3> QED BY <3>3 DEF T
  <2>1. n \in Nat /\ DOMAIN bars = 1 .. n /\ \A i \in 1 .. n : bars[i] \in traded
    BY <2>0, SetToSeqType
  <2>2. ASSUME NEW i \in 1 .. n PROVE Trades(bars[i][1], s) # {}
    BY <2>1
  <2> HIDE DEF n, bars
  <2>3. ASSUME NEW i \in 1 .. n PROVE RowOK("bar", barRow(i))
    <3> DEFINE bar == Bar(bars[i][1], slots)
    <3>1. bar.count \in Nat /\ bar.close \in Slots
      BY <2>2, BarType
    <3> HIDE DEF bar
    <3> QED BY <3>1 DEF RowOK, Row, bar
  <2>4. w["bar"] = [i \in 1 .. n |-> barRow(i)]
    BY <1>r, <2>1 DEF bars
  <2> HIDE DEF barRow
  <2>5. /\ \A i \in 1 .. n : RowOK("bar", w["bar"][i])
        /\ w["bar"] = [i \in 1 .. n |-> w["bar"][i]]
    BY <2>3, <2>4
  <2> DEFINE f == w["bar"]
  <2>6. n \in Nat /\ f = [i \in 1 .. n |-> f[i]] /\ \A i \in 1 .. n : RowOK("bar", f[i])
    BY <2>1, <2>5
  <2> HIDE DEF f, w
  <2>7. Listed(f) /\ \A i \in 1 .. Len(f) : RowOK("bar", f[i])
    BY <2>6, RowsListed
  <2> QED BY <2>7 DEF f
<1>10. \A e \in Kinds : Fine(e)
  <2> HIDE DEF Fine
  <2> QED BY <1>2, <1>3, <1>4, <1>5, <1>6, <1>7, <1>8, <1>9, KindsAre
<1> QED BY <1>10 DEF RowsOK, w

-----------------------------------------------------------------------------
(* ENCODING *)

(* A row in the buffer of a table. *)
EntryOK(t, e) ==
    /\ e = [key |-> e.key, val |-> e.val, whole |-> e.whole, ver |-> e.ver]
    /\ e.ver \in Nat
    /\ t = "pools" => e.val.sides \in SideLists
WholeRow(t, e) == EntryOK(t, e) /\ e.whole = TRUE
PutOK(x) == x.table \in TableSet /\ WholeRow(x.table, x.row)
PutsOK(puts) == Listed(puts) /\ \A i \in 1 .. Len(puts) : PutOK(puts[i])

LEMMA TablesAre ==
    /\ DOMAIN Tables = 1 .. 11 /\ Len(Tables) = 11 /\ \A i \in 1 .. 11 : Tables[i] \in TableSet
    /\ \A t \in TableSet : \E i \in 1 .. 11 : t = Tables[i]
    /\ {"blocks", "sol_balances", "token_balances", "sol_transfers", "token_transfers", "swaps",
        "pools", "tokens", "bars_1s", "bars_1m"} \subseteq TableSet
<1>1. DOMAIN Tables = 1 .. 11 /\ Len(Tables) = 11
  BY DEF Tables
<1>2. /\ Tables[1] = "blocks" /\ Tables[2] = "sol_balances" /\ Tables[3] = "token_balances"
      /\ Tables[4] = "sol_transfers" /\ Tables[5] = "token_transfers" /\ Tables[6] = "swaps"
      /\ Tables[7] = "pools" /\ Tables[8] = "tokens" /\ Tables[9] = "bars_1s"
      /\ Tables[10] = "bars_1m"
  BY DEF Tables
<1> HIDE DEF Tables
<1>3. TableSet = {Tables[i] : i \in 1 .. 11}
  BY <1>1 DEF TableSet, ToSet
<1>4. \A i \in 1 .. 11 : Tables[i] \in TableSet
  BY <1>3
<1>5. \A t \in TableSet : \E i \in 1 .. 11 : t = Tables[i]
  BY <1>3
<1> QED BY <1>1, <1>2, <1>4, <1>5

(* write_set_version *)
LEMMA VersionType ==
    ASSUME NEW set, RowsOK(set)
    PROVE  WriteSetVersion(set) \in Nat
<1> DEFINE S(e) == UNION {Bumped(e, set[e][i]) : i \in DOMAIN set[e]}
           M == {0} \cup UNION {S(e) : e \in Kinds}
<1>1. ASSUME NEW e \in Kinds, NEW x \in S(e) PROVE x \in Slots
  <2>1. PICK i \in DOMAIN set[e] : x \in Bumped(e, set[e][i])
    BY <1>1
  <2>2. RowOK(e, set[e][i])
    BY ListFacts DEF RowsOK
  <2> QED BY <2>1, <2>2 DEF Bumped, RowOK, PoolRecord, PoolColumns
<1>2. WriteSetVersion(set) = Max(M)
  BY DEF WriteSetVersion
<1> HIDE DEF S
<1>3. MaxSlot \in Nat /\ \A x \in Slots : x \in Nat /\ x <= MaxSlot
  BY FinalizedAssumption DEF Slots
<1>4. \A x \in M : x \in Nat /\ x <= MaxSlot
  BY <1>1, <1>3
<1>5. M # {}
  OBVIOUS
<1> HIDE DEF M
<1>6. PICK x \in M : \A y \in M : x >= y
  <2>1. M \subseteq Int /\ MaxSlot \in Int
    BY <1>3, <1>4
  <2> QED BY <1>4, <1>5, <2>1, GreatestNatural
<1>7. Max(M) \in M
  BY <1>6 DEF Max
<1> QED BY <1>2, <1>4, <1>7

LEMMA TableOfType ==
    ASSUME NEW e \in Kinds, NEW row
    PROVE  TableOf(e, row) \in TableSet /\ (TableOf(e, row) = "pools" => e = "pool")
BY TablesAre, KindsAre DEF TableOf

LEMMA EncodedOK ==
    ASSUME NEW e \in Kinds, NEW row, RowOK(e, row), NEW version \in Nat
    PROVE  WholeRow(TableOf(e, row), Encoded(e, row, version))
<1> DEFINE ver == CASE e \in {"pool", "token"} -> version
                    [] e = "bar" -> row.val.count
                    [] OTHER -> row.slot
           t == TableOf(e, row)
<1>1. ver \in Nat
  <2>1. row.slot \in Nat
    BY FinalizedAssumption DEF RowOK, Slots
  <2> QED BY <2>1 DEF RowOK
<1>2. t = "pools" => row.val.sides \in SideLists
  BY TableOfType DEF RowOK, PoolRecord, PoolColumns
<1>3. Encoded(e, row, version) = [key |-> row.key, val |-> row.val, whole |-> TRUE, ver |-> ver]
  BY DEF Encoded
<1> HIDE DEF ver, t
<1>4. WholeRow(t, Encoded(e, row, version))
  BY <1>1, <1>2, <1>3 DEF EntryOK, WholeRow
<1> QED BY <1>4 DEF t

LEMMA PutsOfOK ==
    ASSUME NEW e \in Kinds, NEW q, Listed(q), \A i \in 1 .. Len(q) : RowOK(e, q[i]),
           NEW version \in Nat
    PROVE  PutsOK(PutsOf(e, q, version))
<1> DEFINE ps == PutsOf(e, q, version)
           n == Len(q)
<1>1. n \in Nat /\ DOMAIN q = 1 .. n
  BY ListFacts
<1>2. ps = [i \in 1 .. n |-> [table |-> TableOf(e, q[i]), row |-> Encoded(e, q[i], version)]]
  BY <1>1 DEF PutsOf
<1>3. ASSUME NEW i \in 1 .. n PROVE PutOK(ps[i])
  <2>1. ps[i] = [table |-> TableOf(e, q[i]), row |-> Encoded(e, q[i], version)]
    BY <1>2
  <2>2. /\ TableOf(e, q[i]) \in TableSet
        /\ WholeRow(TableOf(e, q[i]), Encoded(e, q[i], version))
    BY TableOfType, EncodedOK
  <2> HIDE DEF ps
  <2> QED BY <2>1, <2>2 DEF PutOK
<1>4. ps = [i \in 1 .. n |-> ps[i]]
  BY <1>2
<1> HIDE DEF ps, n
<1>5. Listed(ps) /\ Len(ps) = n
  BY <1>1, <1>4, FunctionListed
<1> QED BY <1>3, <1>5 DEF PutsOK, ps

LEMMA ConcatPuts ==
    ASSUME NEW a, PutsOK(a), NEW b, PutsOK(b)
    PROVE  PutsOK(a \o b)
<1> DEFINE S == ToSet(a) \cup ToSet(b)
<1>1. a \in Seq(S) /\ b \in Seq(S)
  BY SeqMonotonic DEF PutsOK, Listed
<1>2. \A x \in S : PutOK(x)
  BY ListFacts DEF PutsOK
<1> HIDE DEF S
<1>3. a \o b \in Seq(S)
  BY <1>1
<1> QED BY <1>2, <1>3, SeqListed DEF PutsOK

(* store_append gets rows that are whole, each for a table there is. *)
LEMMA PutsAreOK ==
    ASSUME NEW set, RowsOK(set)
    PROVE  PutsOK(Puts(set))
<1> DEFINE version == WriteSetVersion(set)
           p(e) == PutsOf(e, set[e], version)
<1>1. version \in Nat
  BY VersionType
<1>2. ASSUME NEW e \in Kinds PROVE PutsOK(p(e))
  BY <1>1, PutsOfOK DEF RowsOK
<1>3. Puts(set) = p("block") \o p("sol_balance") \o p("token_balance") \o p("transfer")
                     \o p("swap") \o p("pool") \o p("token") \o p("bar")
  BY DEF Puts
<1> HIDE DEF p
<1>4. /\ PutsOK(p("block")) /\ PutsOK(p("sol_balance")) /\ PutsOK(p("token_balance"))
      /\ PutsOK(p("transfer")) /\ PutsOK(p("swap")) /\ PutsOK(p("pool"))
      /\ PutsOK(p("token")) /\ PutsOK(p("bar"))
  BY <1>2, KindsAre
<1>5. PutsOK(p("block") \o p("sol_balance") \o p("token_balance") \o p("transfer"))
  BY <1>4, ConcatPuts
<1>6. PutsOK(p("block") \o p("sol_balance") \o p("token_balance") \o p("transfer")
                \o p("swap") \o p("pool"))
  BY <1>4, <1>5, ConcatPuts
<1> QED BY <1>3, <1>4, <1>6, ConcatPuts

-----------------------------------------------------------------------------
(* THE WRITERS *)

(* A writer: its complete rows are a prefix of the buffer, they are whole,   *)
(* and only an open row is beyond them.                                      *)
WriterOK(t, w) ==
    /\ w \in [buf : {w.buf}, complete : Nat, in_row : BOOLEAN]
    /\ Listed(w.buf) /\ w.complete \in Nat /\ w.in_row \in BOOLEAN
    /\ Len(w.buf) = w.complete + (IF w.in_row THEN 1 ELSE 0)
    /\ \A i \in 1 .. w.complete : WholeRow(t, w.buf[i])
WritersOK(r) ==
    /\ r = [t \in TableSet |-> r[t]]
    /\ \A t \in TableSet : WriterOK(t, r[t])

(* Every complete row of v is a complete row of w, in the same place. *)
Extended(v, w) ==
    /\ v.complete <= w.complete
    /\ \A i \in 1 .. v.complete : w.buf[i] = v.buf[i]

LEMMA ExtendedReflexive ==
    ASSUME NEW t, NEW v, WriterOK(t, v)
    PROVE  Extended(v, v)
BY DEF Extended, WriterOK

LEMMA ExtendedTransitive ==
    ASSUME NEW t, NEW u, NEW v, NEW w, WriterOK(t, u), WriterOK(t, v), WriterOK(t, w),
           Extended(u, v), Extended(v, w)
    PROVE  Extended(u, w)
<1>1. u.complete \in Nat /\ v.complete \in Nat /\ w.complete \in Nat
  BY DEF WriterOK
<1>2. u.complete <= v.complete /\ v.complete <= w.complete
  BY DEF Extended
<1>3. \A i \in 1 .. u.complete : i \in 1 .. v.complete
  BY <1>1, <1>2
<1>4. u.complete <= w.complete
  BY <1>1, <1>2
<1> QED BY <1>3, <1>4 DEF Extended

Opened(w, e) == [w EXCEPT !.buf = Append(w.buf, e), !.in_row = TRUE]
Written(w, e) == [w EXCEPT !.buf = Append(w.buf, e), !.complete = Len(w.buf) + 1]

(* A row that is begun and not finished. *)
LEMMA RowOpened ==
    ASSUME NEW t, NEW w, WriterOK(t, w), ~w.in_row, NEW e
    PROVE  WriterOK(t, Opened(w, e)) /\ Extended(w, Opened(w, e))
<1> DEFINE v == Opened(w, e)
           S == ToSet(w.buf) \cup {e}
<1>1. w \in [buf : {w.buf}, complete : Nat, in_row : BOOLEAN]
  BY DEF WriterOK
<1>2. /\ v \in [buf : {v.buf}, complete : Nat, in_row : BOOLEAN]
      /\ v.buf = Append(w.buf, e) /\ v.complete = w.complete /\ v.in_row = TRUE
  <2> DEFINE b == Append(w.buf, e)
             B == {w.buf}
             u == [w EXCEPT !.buf = b, !.in_row = TRUE]
  <2> HIDE DEF b, B
  <2>1. w \in [buf : B, complete : Nat, in_row : BOOLEAN]
    BY <1>1 DEF B
  <2>2. /\ u \in [buf : {b}, complete : Nat, in_row : BOOLEAN]
        /\ u.buf = b /\ u.complete = w.complete /\ u.in_row = TRUE
    BY <2>1
  <2> QED BY <2>2 DEF b, Opened
<1>3. w.buf \in Seq(S) /\ e \in S /\ Len(w.buf) = w.complete /\ w.complete \in Nat
  BY SeqMonotonic DEF WriterOK, Listed
<1> HIDE DEF v, S
<1>4. v.buf = Append(w.buf, e) /\ v.complete = w.complete /\ v.in_row = TRUE
  BY <1>2
<1>5. /\ v.buf \in Seq(S) /\ Len(v.buf) = Len(w.buf) + 1
      /\ \A i \in 1 .. w.complete : v.buf[i] = w.buf[i]
  BY <1>3, <1>4
<1>6. Listed(v.buf)
  BY <1>5, SeqListed
<1>7. \A i \in 1 .. v.complete : WholeRow(t, v.buf[i])
  BY <1>4, <1>5 DEF WriterOK
<1>8. WriterOK(t, v)
  BY <1>2, <1>3, <1>4, <1>5, <1>6, <1>7 DEF WriterOK
<1>9. Extended(w, v)
  BY <1>3, <1>4, <1>5 DEF Extended
<1> QED BY <1>8, <1>9 DEF v

(* A row that is begun and finished. *)
LEMMA RowWritten ==
    ASSUME NEW t, NEW w, WriterOK(t, w), ~w.in_row, NEW e, WholeRow(t, e)
    PROVE  /\ WriterOK(t, Written(w, e)) /\ Extended(w, Written(w, e))
           /\ Written(w, e).complete >= 1 /\ Written(w, e).buf[Written(w, e).complete] = e
<1> DEFINE v == Written(w, e)
           S == ToSet(w.buf) \cup {e}
           n == Len(w.buf)
<1>1. w \in [buf : {w.buf}, complete : Nat, in_row : BOOLEAN]
  BY DEF WriterOK
<1>2. /\ v.buf = Append(w.buf, e) /\ v.complete = n + 1 /\ v.in_row = w.in_row
      /\ n + 1 \in Nat => v \in [buf : {v.buf}, complete : Nat, in_row : BOOLEAN]
  <2> DEFINE b == Append(w.buf, e)
             B == {w.buf}
             m == n + 1
             u == [w EXCEPT !.buf = b, !.complete = m]
  <2> HIDE DEF b, B, m
  <2>1. w \in [buf : B, complete : Nat, in_row : BOOLEAN]
    BY <1>1 DEF B
  <2>2. u.buf = b /\ u.complete = m /\ u.in_row = w.in_row
    BY <2>1
  <2>3. m \in Nat => u \in [buf : {b}, complete : Nat, in_row : BOOLEAN]
    BY <2>1
  <2> QED BY <2>2, <2>3 DEF b, m, Written
<1>3. w.buf \in Seq(S) /\ e \in S /\ n = w.complete /\ n \in Nat /\ w.in_row = FALSE
  BY SeqMonotonic DEF WriterOK, Listed
<1> HIDE DEF v, S
<1>4. v.buf = Append(w.buf, e) /\ v.complete = n + 1 /\ v.in_row = FALSE
  BY <1>2, <1>3
<1>5. /\ v.buf \in Seq(S) /\ Len(v.buf) = n + 1 /\ v.buf[n + 1] = e
      /\ \A i \in 1 .. n : v.buf[i] = w.buf[i]
  BY <1>3, <1>4
<1> HIDE DEF n
<1>6. Listed(v.buf)
  BY <1>5, SeqListed
<1>7. ASSUME NEW i \in 1 .. n + 1 PROVE WholeRow(t, v.buf[i])
  <2>1. CASE i = n + 1
    BY <2>1, <1>5
  <2>2. CASE i # n + 1
    <3>1. i \in 1 .. n
      BY <2>2, <1>3
    <3> QED BY <3>1, <1>3, <1>5 DEF WriterOK
  <2> QED BY <2>1, <2>2
<1>8. WriterOK(t, v)
  BY <1>2, <1>3, <1>4, <1>5, <1>6, <1>7 DEF WriterOK
<1>9. Extended(w, v)
  BY <1>3, <1>4, <1>5 DEF Extended
<1> QED BY <1>3, <1>4, <1>5, <1>8, <1>9 DEF v

(* The state of an append that began with the writers r. *)
AppendOK(r, acc) ==
    /\ acc = [rows |-> acc.rows, room |-> acc.room, ok |-> acc.ok]
    /\ acc.room \in Nat /\ acc.ok \in BOOLEAN /\ WritersOK(acc.rows)
    /\ \A t \in TableSet : Extended(r[t], acc.rows[t])

Holds(r, put) ==
    \E i \in 1 .. r[put.table].complete : r[put.table].buf[i] = put.row

(* One put_ function. *)
LEMMA PutFacts ==
    ASSUME NEW r, WritersOK(r), NEW acc, AppendOK(r, acc), NEW put, PutOK(put)
    PROVE  /\ AppendOK(r, Put(acc, put))
           /\ \A t \in TableSet : Extended(acc.rows[t], Put(acc, put).rows[t])
           /\ Put(acc, put).ok => acc.ok /\ Holds(Put(acc, put).rows, put)
<1> DEFINE t == put.table
           w == acc.rows[t]
           res == Put(acc, put)
           open == Opened(w, [put.row EXCEPT !.whole = FALSE])
           full == Written(w, put.row)
<1>1. t \in TableSet /\ WholeRow(t, put.row)
  BY DEF PutOK
<1>2. acc = [rows |-> acc.rows, room |-> acc.room, ok |-> acc.ok]
      /\ acc.room \in Nat /\ acc.ok \in BOOLEAN /\ WritersOK(acc.rows)
  BY DEF AppendOK
<1>3. /\ acc.rows = [x \in TableSet |-> acc.rows[x]]
      /\ \A x \in TableSet : WriterOK(x, acc.rows[x]) /\ WriterOK(x, r[x])
  BY <1>2 DEF WritersOK
<1>4. \A x \in TableSet : Extended(acc.rows[x], acc.rows[x]) /\ Extended(r[x], acc.rows[x])
  BY <1>3, ExtendedReflexive DEF AppendOK
<1>a. CASE ~acc.ok
  <2>1. res = acc
    BY <1>a DEF Put
  <2> QED BY <2>1, <1>a, <1>4
<1>b. CASE acc.ok /\ w.in_row
  <2>1. res = [rows |-> acc.rows, room |-> acc.room, ok |-> FALSE]
    BY <1>b, <1>2 DEF Put
  <2>2. res.rows = acc.rows /\ res.ok = FALSE /\ res.room = acc.room
    BY <2>1
  <2> HIDE DEF res
  <2>3. AppendOK(r, res)
    BY <2>1, <2>2, <1>2, <1>4 DEF AppendOK
  <2> QED BY <2>2, <2>3, <1>4 DEF res
<1>c. CASE acc.ok /\ ~w.in_row
  <2> DEFINE new == IF acc.room = 0 THEN open ELSE full
             rs == [acc.rows EXCEPT ![t] = new]
  <2>0. /\ WriterOK(t, open) /\ Extended(w, open)
        /\ WriterOK(t, full) /\ Extended(w, full) /\ full.complete >= 1
        /\ full.buf[full.complete] = put.row
    <3>1. WriterOK(t, w) /\ ~w.in_row
      BY <1>1, <1>3, <1>c
    <3>2. WriterOK(t, open) /\ Extended(w, open)
      BY <3>1, RowOpened
    <3>3. /\ WriterOK(t, full) /\ Extended(w, full) /\ full.complete >= 1
          /\ full.buf[full.complete] = put.row
      BY <1>1, <3>1, RowWritten
    <3> QED BY <3>2, <3>3
  <2>1. res = [rows |-> rs, room |-> IF acc.room = 0 THEN acc.room ELSE acc.room - 1,
               ok |-> acc.room # 0]
    <3>1. CASE acc.room = 0
      <4>1. res = [acc EXCEPT !.ok = FALSE, !.rows[t] = open]
        BY <3>1, <1>c DEF Put, Opened
      <4> HIDE DEF open, full
      <4> QED BY <4>1, <3>1, <1>2
    <3>2. CASE acc.room # 0
      <4>1. res = [acc EXCEPT !.room = acc.room - 1, !.rows[t] = full]
        BY <3>2, <1>c, <1>2 DEF Put, Written
      <4> HIDE DEF open, full
      <4> QED BY <4>1, <3>2, <1>2, <1>c
    <3> QED BY <3>1, <3>2
  <2>2. WriterOK(t, new) /\ Extended(w, new)
    BY <2>0
  <2> HIDE DEF open
  <2>3. /\ rs = [x \in TableSet |-> rs[x]]
        /\ \A x \in TableSet : rs[x] = IF x = t THEN new ELSE acc.rows[x]
    <3> HIDE DEF new, full
    <3> QED BY <1>1, <1>3
  <2>4. acc.room # 0 => rs[t] = full
    <3> HIDE DEF full
    <3> QED BY <2>3, <1>1
  <2>5. WritersOK(rs) /\ \A x \in TableSet : Extended(acc.rows[x], rs[x])
    <3> HIDE DEF new, rs, full
    <3> QED BY <1>3, <1>4, <2>2, <2>3 DEF WritersOK
  <2>6. acc.room # 0 => Holds(rs, put)
    <3>1. full.complete \in Nat
      BY <2>0 DEF WriterOK
    <3> HIDE DEF full, rs
    <3>2. full.complete \in 1 .. full.complete
      BY <2>0, <3>1
    <3> QED BY <2>0, <2>4, <3>2 DEF Holds
  <2> HIDE DEF rs, full, new
  <2>7. \A x \in TableSet : Extended(r[x], rs[x])
    <3>1. \A x \in TableSet : WriterOK(x, rs[x])
      BY <2>5 DEF WritersOK
    <3> QED BY <1>3, <1>4, <2>5, <3>1, ExtendedTransitive
  <2>8. /\ res.rows = rs /\ (res.ok <=> acc.room # 0) /\ res.ok \in BOOLEAN /\ res.room \in Nat
        /\ res = [rows |-> res.rows, room |-> res.room, ok |-> res.ok]
    <3> HIDE DEF res
    <3>1. (IF acc.room = 0 THEN acc.room ELSE acc.room - 1) \in Nat
      BY <1>2
    <3> QED BY <2>1, <3>1
  <2> HIDE DEF res
  <2>9. AppendOK(r, res)
    BY <2>5, <2>7, <2>8 DEF AppendOK
  <2> QED BY <1>c, <2>5, <2>6, <2>8, <2>9 DEF res
<1> QED BY <1>a, <1>b, <1>c

(* A complete row stays one. *)
LEMMA HoldsStays ==
    ASSUME NEW a, NEW b, WritersOK(a), WritersOK(b),
           \A t \in TableSet : Extended(a[t], b[t]),
           NEW put, put.table \in TableSet, Holds(a, put)
    PROVE  Holds(b, put)
<1> DEFINE t == put.table
<1>1. PICK i \in 1 .. a[t].complete : a[t].buf[i] = put.row
  BY DEF Holds
<1>2. a[t].complete \in Nat /\ b[t].complete \in Nat /\ Extended(a[t], b[t])
  BY DEF WritersOK, WriterOK
<1>3. i \in 1 .. b[t].complete /\ b[t].buf[i] = put.row
  BY <1>1, <1>2 DEF Extended
<1> QED BY <1>3 DEF Holds

(* The loop of store_append, put by put. *)
LEMMA AppendedRuns ==
    ASSUME NEW puts, Len(puts) \in Nat, NEW room
    PROVE  \E f : /\ f[0] = [rows |-> rows, room |-> room, ok |-> TRUE]
                  /\ Appended(puts, room) = f[Len(puts)]
                  /\ \A n \in 1 .. Len(puts) : f[n] = Put(f[n - 1], puts[n])
<1> DEFINE N == Len(puts)
           b == [rows |-> rows, room |-> room, ok |-> TRUE]
           Upto(f, m) == f = [n \in 0 .. m |-> IF n = 0 THEN b ELSE Put(f[n - 1], puts[n])]
           S == {m \in Nat : \E f : Upto(f, m)}
<1>1. Appended(puts, room) = (CHOOSE f : Upto(f, N))[N]
  BY DEF Appended
<1> HIDE DEF N, b
<1>2. 0 \in S
  <2> DEFINE h == [n \in 0 .. 0 |-> b]
  <2>1. h[0] = b /\ h = [n \in 0 .. 0 |-> IF n = 0 THEN b ELSE Put(h[n - 1], puts[n])]
    OBVIOUS
  <2> HIDE DEF h
  <2> QED BY <2>1
<1>3. ASSUME NEW m \in Nat, m \in S PROVE m + 1 \in S
  <2>1. PICK g : Upto(g, m)
    BY <1>3
  <2>2. /\ DOMAIN g = 0 .. m
        /\ \A n \in 0 .. m : g[n] = IF n = 0 THEN b ELSE Put(g[n - 1], puts[n])
    BY <2>1
  <2> DEFINE h == [n \in 0 .. m + 1 |-> IF n = m + 1 THEN Put(g[m], puts[m + 1]) ELSE g[n]]
  <2>3. ASSUME NEW n \in 0 .. m + 1
        PROVE  h[n] = IF n = 0 THEN b ELSE Put(h[n - 1], puts[n])
    <3>1. CASE n = m + 1
      <4>1. h[n] = Put(g[m], puts[m + 1]) /\ h[n - 1] = g[m] /\ n # 0
        BY <3>1
      <4> QED BY <3>1, <4>1
    <3>2. CASE n # m + 1
      <4>1. n \in 0 .. m /\ h[n] = g[n]
        BY <3>2
      <4>2. n # 0 => h[n - 1] = g[n - 1]
        BY <4>1
      <4> HIDE DEF h
      <4> QED BY <4>1, <4>2, <2>2
    <3> QED BY <3>1, <3>2
  <2>4. DOMAIN h = 0 .. m + 1 /\ h = [n \in 0 .. m + 1 |-> h[n]]
    OBVIOUS
  <2> HIDE DEF h
  <2>5. h = [n \in 0 .. m + 1 |-> IF n = 0 THEN b ELSE Put(h[n - 1], puts[n])]
    <3> DEFINE e(n) == IF n = 0 THEN b ELSE Put(h[n - 1], puts[n])
    <3>1. \A n \in 0 .. m + 1 : h[n] = e(n)
      BY <2>3
    <3> HIDE DEF e
    <3>2. h = [n \in 0 .. m + 1 |-> e(n)]
      BY <2>4, <3>1
    <3> QED BY <3>2 DEF e
  <2> QED BY <2>5
<1> HIDE DEF S
<1>4. N \in S
  <2>1. \A n \in Nat : n \in S
    BY <1>2, <1>3, SetInduction
  <2> QED BY <2>1 DEF N
<1>5. PICK f : Upto(f, N) /\ Appended(puts, room) = f[N]
  <2>1. \E f : Upto(f, N)
    BY <1>4 DEF S
  <2> HIDE DEF Upto
  <2> QED BY <1>1, <2>1
<1>6. N \in Nat
  BY DEF N
<1>7. f[0] = b /\ \A n \in 1 .. N : f[n] = Put(f[n - 1], puts[n])
  BY <1>5, <1>6
<1> QED BY <1>5, <1>7 DEF N, b

(* store_append: the writers stay writers and lose no complete row; when it  *)
(* succeeds, every row it was given is a complete one.                       *)
LEMMA AppendedFacts ==
    ASSUME WritersOK(rows), NEW puts, PutsOK(puts), NEW room \in Nat
    PROVE  /\ AppendOK(rows, Appended(puts, room))
           /\ Appended(puts, room).ok =>
                 \A i \in 1 .. Len(puts) : Holds(Appended(puts, room).rows, puts[i])
<1> DEFINE N == Len(puts)
<1>0. N \in Nat /\ \A i \in 1 .. N : PutOK(puts[i])
  BY ListFacts DEF PutsOK
<1>1. PICK f : /\ f[0] = [rows |-> rows, room |-> room, ok |-> TRUE]
               /\ Appended(puts, room) = f[N]
               /\ \A n \in 1 .. N : f[n] = Put(f[n - 1], puts[n])
  BY <1>0, AppendedRuns
<1> HIDE DEF N
<1> DEFINE Good(n) == /\ AppendOK(rows, f[n])
                      /\ f[n].ok => \A i \in 1 .. n : Holds(f[n].rows, puts[i])
           S == {n \in Nat : n <= N => Good(n)}
<1>2. 0 \in S
  <2>1. f[0].rows = rows /\ f[0].room = room /\ f[0].ok = TRUE
        /\ f[0] = [rows |-> f[0].rows, room |-> f[0].room, ok |-> f[0].ok]
    BY <1>1
  <2>2. \A t \in TableSet : Extended(rows[t], rows[t])
    BY ExtendedReflexive DEF WritersOK
  <2>3. AppendOK(rows, f[0])
    BY <2>1, <2>2 DEF AppendOK
  <2> QED BY <2>3
<1>3. ASSUME NEW n \in Nat, n \in S PROVE n + 1 \in S
  <2> SUFFICES ASSUME n + 1 <= N PROVE Good(n + 1)
    OBVIOUS
  <2>1. n + 1 \in 1 .. N /\ n <= N /\ (n + 1) - 1 = n
    BY <1>0
  <2>2. Good(n) /\ f[n + 1] = Put(f[n], puts[n + 1]) /\ PutOK(puts[n + 1])
    BY <1>0, <1>1, <1>3, <2>1
  <2> DEFINE old == f[n]
             new == f[n + 1]
  <2>3. /\ AppendOK(rows, new)
        /\ \A t \in TableSet : Extended(old.rows[t], new.rows[t])
        /\ new.ok => old.ok /\ Holds(new.rows, puts[n + 1])
    BY <2>2, PutFacts
  <2>4. WritersOK(old.rows) /\ WritersOK(new.rows)
    BY <2>2, <2>3 DEF AppendOK
  <2>5. ASSUME new.ok, NEW i \in 1 .. n + 1 PROVE Holds(new.rows, puts[i])
    <3>1. CASE i = n + 1
      BY <3>1, <2>3, <2>5
    <3>2. CASE i # n + 1
      <4>1. i \in 1 .. n /\ i \in 1 .. N
        BY <3>2, <2>1, <1>0
      <4>2. Holds(old.rows, puts[i])
        BY <4>1, <2>2, <2>3, <2>5
      <4>3. puts[i].table \in TableSet
        BY <4>1, <1>0 DEF PutOK
      <4> HIDE DEF old, new
      <4> QED BY <4>2, <4>3, <2>3, <2>4, HoldsStays
    <3> QED BY <3>1, <3>2
  <2> QED BY <2>3, <2>5
<1> HIDE DEF S, Good
<1>4. N \in S
  BY <1>0, <1>2, <1>3, SetInduction
<1>5. Good(N)
  BY <1>0, <1>4 DEF S
<1> QED BY <1>1, <1>5 DEF Good, N

-----------------------------------------------------------------------------
(* THE TABLES *)

StoredOK(t, x) == /\ x.ver \in Nat /\ x.whole = TRUE
                  /\ t = "pools" => x.val.sides \in SideLists
TableOK(t, T) == \A k \in DOMAIN T : StoredOK(t, T[k])

(* Table U has every key of T, in a version that is not older. *)
Newer(T, U) == DOMAIN T \subseteq DOMAIN U /\ \A k \in DOMAIN T : U[k].ver >= T[k].ver
Has(T, row) == Known(T, row.key) /\ T[row.key].ver >= row.ver

LEMMA NewerReflexive ==
    ASSUME NEW t, NEW T, TableOK(t, T)
    PROVE  Newer(T, T)
BY DEF Newer, TableOK, StoredOK

LEMMA NewerTransitive ==
    ASSUME NEW t, NEW T, NEW U, NEW V, TableOK(t, T), TableOK(t, U), TableOK(t, V),
           Newer(T, U), Newer(U, V)
    PROVE  Newer(T, V)
<1>1. /\ \A k \in DOMAIN T : T[k].ver \in Nat
      /\ \A k \in DOMAIN U : U[k].ver \in Nat
      /\ \A k \in DOMAIN V : V[k].ver \in Nat
  BY DEF TableOK, StoredOK
<1>2. DOMAIN T \subseteq DOMAIN U /\ DOMAIN U \subseteq DOMAIN V
  BY DEF Newer
<1>3. ASSUME NEW k \in DOMAIN T PROVE V[k].ver >= T[k].ver
  <2>1. k \in DOMAIN U /\ k \in DOMAIN V /\ U[k].ver >= T[k].ver /\ V[k].ver >= U[k].ver
    BY <1>2 DEF Newer
  <2> QED BY <2>1, <1>1
<1> QED BY <1>2, <1>3 DEF Newer

(* What a table has, a newer one has. *)
LEMMA HasStays ==
    ASSUME NEW t, NEW T, NEW U, TableOK(t, T), TableOK(t, U), Newer(T, U),
           NEW row, row.ver \in Nat, Has(T, row)
    PROVE  Has(U, row)
<1> DEFINE k == row.key
<1>1. k \in DOMAIN T /\ k \in DOMAIN U
  BY DEF Has, Known, Newer
<1>2. T[k].ver \in Nat /\ U[k].ver \in Nat /\ T[k].ver >= row.ver /\ U[k].ver >= T[k].ver
  BY <1>1 DEF TableOK, StoredOK, Has, Newer
<1>3. U[k].ver >= row.ver
  BY <1>2
<1> QED BY <1>1, <1>3 DEF Has, Known

(* One row of an insert. *)
LEMMA ReplacingFacts ==
    ASSUME NEW t, NEW T, TableOK(t, T), NEW row, WholeRow(t, row)
    PROVE  /\ TableOK(t, Replacing(T, row)) /\ Newer(T, Replacing(T, row))
           /\ Has(Replacing(T, row), row)
<1> DEFINE k == row.key
           new == [ver |-> row.ver, val |-> row.val, whole |-> row.whole]
           U == With(T, k, new)
<1>0. row.ver \in Nat /\ row.whole = TRUE /\ (t = "pools" => row.val.sides \in SideLists)
  BY DEF WholeRow, EntryOK
<1>1. CASE Known(T, k) /\ T[k].ver > row.ver
  <2>1. Replacing(T, row) = T
    BY <1>1 DEF Replacing
  <2>2. Has(T, row)
    <3>1. T[k].ver \in Nat
      BY <1>1 DEF Known, TableOK, StoredOK
    <3> QED BY <1>0, <1>1, <3>1 DEF Has
  <2> QED BY <2>1, <2>2, NewerReflexive
<1>2. CASE ~(Known(T, k) /\ T[k].ver > row.ver)
  <2>1. Replacing(T, row) = U
    BY <1>2 DEF Replacing
  <2>2. new.ver = row.ver /\ new.val = row.val /\ new.whole = TRUE
    BY <1>0
  <2>3. StoredOK(t, new)
    BY <1>0, <2>2 DEF StoredOK
  <2> HIDE DEF new
  <2>4. /\ DOMAIN U = DOMAIN T \cup {k}
        /\ \A x \in DOMAIN U : U[x] = IF x = k THEN new ELSE T[x]
    BY DEF With
  <2> HIDE DEF U
  <2>5. TableOK(t, U)
    BY <2>3, <2>4 DEF TableOK
  <2>6. ASSUME NEW x \in DOMAIN T PROVE U[x].ver >= T[x].ver
    <3>1. T[x].ver \in Nat
      BY DEF TableOK, StoredOK
    <3>2. CASE x = k
      <4>1. U[x].ver = row.ver
        BY <3>2, <2>2, <2>4
      <4>2. ~(T[x].ver > row.ver)
        BY <3>2, <1>2 DEF Known
      <4> QED BY <4>1, <4>2, <3>1, <1>0
    <3>3. CASE x # k
      BY <3>1, <3>3, <2>4
    <3> QED BY <3>2, <3>3
  <2>7. Newer(T, U)
    BY <2>4, <2>6 DEF Newer
  <2>8. Has(U, row)
    <3>1. U[k].ver = row.ver /\ k \in DOMAIN U
      BY <2>2, <2>4
    <3> QED BY <3>1, <1>0 DEF Has, Known
  <2> QED BY <2>1, <2>5, <2>7, <2>8
<1> QED BY <1>1, <1>2

(* What an insert does to its table, row by row. *)
LEMMA MergedRuns ==
    ASSUME NEW table, NEW body, Len(body) \in Nat
    PROVE  \E f : /\ f[0] = table
                  /\ Merged(table, body) = f[Len(body)]
                  /\ \A n \in 1 .. Len(body) : f[n] = Replacing(f[n - 1], body[n])
<1> DEFINE N == Len(body)
           b == table
           Upto(f, m) == f = [n \in 0 .. m |-> IF n = 0 THEN b ELSE Replacing(f[n - 1], body[n])]
           S == {m \in Nat : \E f : Upto(f, m)}
<1>1. Merged(table, body) = (CHOOSE f : Upto(f, N))[N]
  BY DEF Merged
<1> HIDE DEF N, b
<1>2. 0 \in S
  <2> DEFINE h == [n \in 0 .. 0 |-> b]
  <2>1. h[0] = b /\ h = [n \in 0 .. 0 |-> IF n = 0 THEN b ELSE Replacing(h[n - 1], body[n])]
    OBVIOUS
  <2> HIDE DEF h
  <2> QED BY <2>1
<1>3. ASSUME NEW m \in Nat, m \in S PROVE m + 1 \in S
  <2>1. PICK g : Upto(g, m)
    BY <1>3
  <2>2. /\ DOMAIN g = 0 .. m
        /\ \A n \in 0 .. m : g[n] = IF n = 0 THEN b ELSE Replacing(g[n - 1], body[n])
    BY <2>1
  <2> DEFINE h == [n \in 0 .. m + 1 |-> IF n = m + 1 THEN Replacing(g[m], body[m + 1]) ELSE g[n]]
  <2>3. ASSUME NEW n \in 0 .. m + 1
        PROVE  h[n] = IF n = 0 THEN b ELSE Replacing(h[n - 1], body[n])
    <3>1. CASE n = m + 1
      <4>1. h[n] = Replacing(g[m], body[m + 1]) /\ h[n - 1] = g[m] /\ n # 0
        BY <3>1
      <4> QED BY <3>1, <4>1
    <3>2. CASE n # m + 1
      <4>1. n \in 0 .. m /\ h[n] = g[n]
        BY <3>2
      <4>2. n # 0 => h[n - 1] = g[n - 1]
        BY <4>1
      <4> HIDE DEF h
      <4> QED BY <4>1, <4>2, <2>2
    <3> QED BY <3>1, <3>2
  <2>4. DOMAIN h = 0 .. m + 1 /\ h = [n \in 0 .. m + 1 |-> h[n]]
    OBVIOUS
  <2> HIDE DEF h
  <2>5. h = [n \in 0 .. m + 1 |-> IF n = 0 THEN b ELSE Replacing(h[n - 1], body[n])]
    <3> DEFINE e(n) == IF n = 0 THEN b ELSE Replacing(h[n - 1], body[n])
    <3>1. \A n \in 0 .. m + 1 : h[n] = e(n)
      BY <2>3
    <3> HIDE DEF e
    <3>2. h = [n \in 0 .. m + 1 |-> e(n)]
      BY <2>4, <3>1
    <3> QED BY <3>2 DEF e
  <2> QED BY <2>5
<1> HIDE DEF S
<1>4. N \in S
  <2>1. \A n \in Nat : n \in S
    BY <1>2, <1>3, SetInduction
  <2> QED BY <2>1 DEF N
<1>5. PICK f : Upto(f, N) /\ Merged(table, body) = f[N]
  <2>1. \E f : Upto(f, N)
    BY <1>4 DEF S
  <2> HIDE DEF Upto
  <2> QED BY <1>1, <2>1
<1>6. N \in Nat
  BY DEF N
<1>7. f[0] = b /\ \A n \in 1 .. N : f[n] = Replacing(f[n - 1], body[n])
  BY <1>5, <1>6
<1> QED BY <1>5, <1>7 DEF N, b

(* An insert: no version becomes older, and every row of the body is there   *)
(* or replaced by a newer one.                                               *)
LEMMA MergedFacts ==
    ASSUME NEW t, NEW table, TableOK(t, table), NEW body, Len(body) \in Nat,
           \A i \in 1 .. Len(body) : WholeRow(t, body[i])
    PROVE  /\ TableOK(t, Merged(table, body)) /\ Newer(table, Merged(table, body))
           /\ \A i \in 1 .. Len(body) : Has(Merged(table, body), body[i])
<1> DEFINE N == Len(body)
<1>1. PICK f : /\ f[0] = table /\ Merged(table, body) = f[N]
               /\ \A n \in 1 .. N : f[n] = Replacing(f[n - 1], body[n])
  BY MergedRuns
<1>0. N \in Nat /\ \A i \in 1 .. N : WholeRow(t, body[i])
  OBVIOUS
<1> HIDE DEF N
<1> DEFINE Good(n) == /\ TableOK(t, f[n]) /\ Newer(table, f[n])
                      /\ \A i \in 1 .. n : Has(f[n], body[i])
           S == {n \in Nat : n <= N => Good(n)}
<1>2. 0 \in S
  BY <1>1, NewerReflexive
<1>3. ASSUME NEW n \in Nat, n \in S PROVE n + 1 \in S
  <2> SUFFICES ASSUME n + 1 <= N PROVE Good(n + 1)
    OBVIOUS
  <2>1. n + 1 \in 1 .. N /\ n <= N /\ (n + 1) - 1 = n
    BY <1>0
  <2>2. Good(n) /\ f[n + 1] = Replacing(f[n], body[n + 1]) /\ WholeRow(t, body[n + 1])
    BY <1>0, <1>1, <1>3, <2>1
  <2> DEFINE old == f[n]
             new == f[n + 1]
  <2>3. TableOK(t, new) /\ Newer(old, new) /\ Has(new, body[n + 1])
    BY <2>2, ReplacingFacts
  <2>4. Newer(table, new)
    BY <2>2, <2>3, NewerTransitive
  <2>5. ASSUME NEW i \in 1 .. n + 1 PROVE Has(new, body[i])
    <3>1. CASE i = n + 1
      BY <3>1, <2>3
    <3>2. CASE i # n + 1
      <4>1. i \in 1 .. n /\ i \in 1 .. N
        BY <3>2, <2>1, <1>0
      <4>2. Has(old, body[i]) /\ TableOK(t, old)
        BY <4>1, <2>2
      <4>3. body[i].ver \in Nat
        BY <4>1, <1>0 DEF WholeRow, EntryOK
      <4> HIDE DEF old, new
      <4> QED BY <4>2, <4>3, <2>3, HasStays
    <3> QED BY <3>1, <3>2
  <2> QED BY <2>3, <2>4, <2>5
<1> HIDE DEF S, Good
<1>4. N \in S
  BY <1>0, <1>2, <1>3, SetInduction
<1>5. Good(N)
  BY <1>0, <1>4 DEF S
<1> QED BY <1>1, <1>5 DEF Good, N

(* idx_ch_rows_body: the complete rows. *)
LEMMA BodyFacts ==
    ASSUME WritersOK(rows), NEW t \in TableSet
    PROVE  /\ Len(Body(t)) = rows[t].complete /\ Len(Body(t)) \in Nat
           /\ \A i \in 1 .. Len(Body(t)) : Body(t)[i] = rows[t].buf[i] /\ WholeRow(t, Body(t)[i])
           /\ ToSet(Body(t)) = {rows[t].buf[i] : i \in 1 .. rows[t].complete}
<1> DEFINE w == rows[t]
           n == w.complete
           b == Body(t)
<1>1. /\ n \in Nat /\ Listed(w.buf) /\ w.in_row \in BOOLEAN
      /\ Len(w.buf) = n + (IF w.in_row THEN 1 ELSE 0)
      /\ \A i \in 1 .. n : WholeRow(t, w.buf[i])
  BY DEF WritersOK, WriterOK
<1>2. b = SubSeq(w.buf, 1, n)
  BY DEF Body
<1> HIDE DEF w, n, b
<1>3. Len(w.buf) \in Nat /\ n <= Len(w.buf)
  BY <1>1
<1>4. \A i \in 1 .. n : w.buf[i] \in ToSet(w.buf)
  BY <1>1, <1>3, ListFacts
<1>5. b \in Seq(ToSet(w.buf)) /\ Len(b) = n /\ \A i \in 1 .. n : b[i] = w.buf[i]
  <2>1. /\ b \in Seq(ToSet(w.buf)) /\ Len(b) = (IF 1 <= n THEN n - 1 + 1 ELSE 0)
        /\ \A i \in 1 .. n - 1 + 1 : b[i] = w.buf[1 + i - 1]
    BY <1>1, <1>2, <1>4, SubSeqProperties
  <2>2. n - 1 + 1 = n /\ \A i \in 1 .. n : 1 + i - 1 = i
    BY <1>1
  <2> QED BY <2>1, <2>2, <1>1
<1>6. DOMAIN b = 1 .. n
  BY <1>5, LenProperties
<1>7. ToSet(b) = {w.buf[i] : i \in 1 .. n}
  BY <1>5, <1>6 DEF ToSet
<1> QED BY <1>1, <1>5, <1>7 DEF w, n, b

-----------------------------------------------------------------------------
(* THE CONFIRMED TIER'S POOLS *)

(* Of the sides of a pool the tier knows what the registry knows, or less. *)
PgFine(tables, pools) ==
    \A p \in DOMAIN tables : /\ p \in DOMAIN pools /\ tables[p].sides \in SideLists
                             /\ Below(tables[p].sides, pools[p].sides)

(* put_pool of a record that forgot nothing writes its sides. *)
LEMMA PutPoolSides ==
    ASSUME NEW old, NEW new, old.sides \in SideLists, new.sides \in SideLists,
           Below(old.sides, new.sides)
    PROVE  PutPool(old, new).sides = new.sides
<1> DEFINE s == old.sides
           t == new.sides
           merged(i) == [mint |-> FirstKnown(Side(old, i).mint, Side(new, i).mint),
                         decimals |-> FirstKnown(Side(old, i).decimals, Side(new, i).decimals)]
<1>1. PutPool(old, new).sides = [i \in 1 .. Greatest(Len(s), Len(t)) |-> merged(i)]
  BY DEF PutPool
<1>2. /\ Len(s) \in Nat /\ Len(t) \in Nat /\ Len(s) <= Len(t)
      /\ DOMAIN s = 1 .. Len(s) /\ DOMAIN t = 1 .. Len(t)
  BY DEF SideLists, Below
<1>3. Greatest(Len(s), Len(t)) = Len(t)
  BY <1>2 DEF Greatest
<1>4. ASSUME NEW i \in 1 .. Len(t) PROVE merged(i) = t[i]
  <2>1. t[i] \in SidesOnChain
    BY DEF SideLists
  <2>2. t[i] = [mint |-> t[i].mint, decimals |-> t[i].decimals]
    BY <2>1, SideShape
  <2>3. Side(new, i) = t[i]
    BY <1>2 DEF Side
  <2>4. /\ FirstKnown(Side(old, i).mint, t[i].mint) = t[i].mint
        /\ FirstKnown(Side(old, i).decimals, t[i].decimals) = t[i].decimals
    <3>1. CASE i \in 1 .. Len(s)
      <4>1. Side(old, i) = s[i]
        BY <1>2, <3>1 DEF Side
      <4>2. t[i].mint = s[i].mint /\ s[i].decimals \in {Unknown, t[i].decimals}
        BY <3>1 DEF Below
      <4> QED BY <4>1, <4>2 DEF FirstKnown
    <3>2. CASE i \notin 1 .. Len(s)
      <4>1. Side(old, i) = [mint |-> Unknown, decimals |-> Unknown]
        BY <1>2, <3>2 DEF Side
      <4> QED BY <4>1 DEF FirstKnown
    <3> QED BY <3>1, <3>2
  <2> QED BY <2>2, <2>3, <2>4
<1> HIDE DEF merged
<1>5. t = [i \in 1 .. Len(t) |-> t[i]]
  BY <1>2 DEF SideLists
<1> QED BY <1>1, <1>3, <1>4, <1>5

LEMMA PgWrittenFine ==
    ASSUME NEW tables, NEW r \in Registries, NEW s, PgFine(tables.pools, r.pools)
    PROVE  PgFine(PgWritten(tables, r, s).pools, r.pools)
<1> DEFINE T == tables.pools
           W == PgWritten(tables, r, s).pools
           touched == TouchedPools(r, s)
<1>1. W = [p \in DOMAIN T \cup touched |->
              IF p \notin touched THEN T[p]
              ELSE IF Known(T, p) THEN PutPool(T[p], r.pools[p])
              ELSE r.pools[p]]
  BY DEF PgWritten
<1> HIDE DEF W
<1>2. touched \subseteq DOMAIN r.pools
  BY DEF TouchedPools
<1>3. \A p \in DOMAIN r.pools : r.pools[p].sides \in SideLists
  BY PoolTableFacts DEF Registries, PoolRecord, PoolColumns
<1> HIDE DEF touched
<1>4. ASSUME NEW p \in DOMAIN W
      PROVE  /\ p \in DOMAIN r.pools /\ W[p].sides \in SideLists
             /\ Below(W[p].sides, r.pools[p].sides)
  <2>1. CASE p \notin touched
    <3>1. p \in DOMAIN T /\ W[p] = T[p]
      BY <2>1, <1>1
    <3> QED BY <3>1 DEF PgFine
  <2>2. CASE p \in touched
    <3>0. p \in DOMAIN r.pools /\ r.pools[p].sides \in SideLists
      BY <2>2, <1>2, <1>3
    <3>1. W[p].sides = r.pools[p].sides
      <4>1. CASE Known(T, p)
        <5>1. W[p] = PutPool(T[p], r.pools[p])
          BY <2>2, <1>1, <4>1
        <5>2. T[p].sides \in SideLists /\ Below(T[p].sides, r.pools[p].sides)
          BY <4>1 DEF PgFine, Known
        <5> QED BY <5>1, <5>2, <3>0, PutPoolSides
      <4>2. CASE ~Known(T, p)
        BY <2>2, <1>1, <4>2
      <4> QED BY <4>1, <4>2
    <3> QED BY <3>0, <3>1, BelowReflexive
  <2> QED BY <2>1, <2>2
<1> QED BY <1>4 DEF PgFine, W

LEMMA PgFineGrown ==
    ASSUME NEW T, NEW a \in PoolTables, NEW b \in PoolTables, PgFine(T, a), Grown(a, b)
    PROVE  PgFine(T, b)
<1>1. ASSUME NEW p \in DOMAIN T
      PROVE  p \in DOMAIN b /\ T[p].sides \in SideLists /\ Below(T[p].sides, b[p].sides)
  <2>1. p \in DOMAIN a /\ T[p].sides \in SideLists /\ Below(T[p].sides, a[p].sides)
    BY DEF PgFine
  <2>2. p \in DOMAIN b /\ Below(a[p].sides, b[p].sides)
    BY <2>1 DEF Grown, Learnt
  <2>3. a[p].sides \in SideLists /\ b[p].sides \in SideLists
    BY <2>1, <2>2, PoolTableFacts DEF PoolRecord, PoolColumns
  <2> QED BY <2>1, <2>2, <2>3, BelowTransitive
<1> QED BY <1>1 DEF PgFine

-----------------------------------------------------------------------------
(* THE INDUCTIVE INVARIANT *)

(* A complete row of a writer. *)
InBody(w, row) == \E i \in 1 .. w.complete : w.buf[i] = row

(* What the reference store has is in the tables or in the buffers, and what *)
(* it flushed is in the tables.                                              *)
Kept(m, d, r) ==
    /\ m \in [rows : {m.rows}, flushed : {m.flushed}]
    /\ \A t \in TableSet :
          /\ \A row \in m.rows[t] : row.ver \in Nat /\ (Has(d[t], row) \/ InBody(r[t], row))
          /\ \A row \in m.flushed[t] : row.ver \in Nat /\ Has(d[t], row)

DatabaseOK(d) == d = [t \in TableSet |-> d[t]] /\ \A t \in TableSet : TableOK(t, d[t])

(* The tables store_flush has passed have nothing to send. *)
Passed(r, f) == f > 0 => \A i \in 1 .. 11 : i < f => r[Tables[i]].complete = 0

Scalars ==
    /\ promoted \in 0 .. MaxSlot /\ final \in promoted .. MaxSlot /\ safe \in 0 .. promoted
    /\ life \subseteq handled /\ handled \subseteq Slots
    /\ fl \in 0 .. 12
    /\ faults \in 0 .. MaxFaults /\ reorgs \in 0 .. MaxReorgs /\ lives \in 1 .. faults + 1

FinalizedInv ==
    /\ Scalars
    /\ reg \in Registries
    /\ RowsOK(conf)
    /\ WritersOK(rows)
    /\ DatabaseOK(db)
    /\ Kept(mem, db, rows)
    /\ Passed(rows, fl)
    /\ lives = 1 => PgFine(pg.pools, reg.pools)

LEMMA SlotsAre == MaxSlot \in Nat /\ MaxFaults \in Nat /\ MaxReorgs \in Nat
                  /\ \A s \in Slots : s \in Nat /\ 1 <= s /\ s <= MaxSlot
BY FinalizedAssumption DEF Slots

LEMMA EmptyRegistries == [pools |-> Empty, tokens |-> Empty] \in Registries
<1>1. Empty \in [{} -> PoolRecord] /\ Empty \in [{} -> TokenRecord]
  BY DEF Empty
<1>2. {} \in SUBSET PoolsOnChain /\ {} \in SUBSET MintsOnChain
  OBVIOUS
<1>3. Empty \in PoolTables /\ Empty \in TokenTables
  BY <1>1, <1>2 DEF PoolTables, TokenTables
<1> QED BY <1>3 DEF Registries

LEMMA FreshOK ==
    ASSUME NEW t
    PROVE  WriterOK(t, Fresh) /\ Fresh.complete = 0
<1>1. /\ Fresh.buf = <<>> /\ Fresh.complete = 0 /\ Fresh.in_row = FALSE
      /\ Fresh \in [buf : {Fresh.buf}, complete : Nat, in_row : BOOLEAN]
  BY DEF Fresh
<1>2. Fresh.buf \in Seq({}) /\ Len(Fresh.buf) = 0
  BY <1>1
<1>3. Listed(Fresh.buf)
  BY <1>2, SeqListed
<1> QED BY <1>1, <1>2, <1>3 DEF WriterOK

LEMMA FinalizedInit == Init => FinalizedInv
<1> SUFFICES ASSUME Init PROVE FinalizedInv
  OBVIOUS
<1>1. Scalars
  BY SlotsAre DEF Init, Scalars
<1>2. reg \in Registries
  BY EmptyRegistries DEF Init
<1>3. RowsOK(conf)
  <2> SUFFICES ASSUME NEW e \in Kinds
               PROVE  Listed(conf[e]) /\ \A i \in 1 .. Len(conf[e]) : RowOK(e, conf[e][i])
    BY DEF RowsOK
  <2>1. conf[e] = <<>>
    BY DEF Init
  <2>2. conf[e] \in Seq({}) /\ Len(conf[e]) = 0
    BY <2>1
  <2> QED BY <2>2, SeqListed
<1>4. WritersOK(rows) /\ \A t \in TableSet : rows[t].complete = 0
  <2>1. rows = [t \in TableSet |-> Fresh]
    BY DEF Init
  <2> QED BY <2>1, FreshOK DEF WritersOK
<1>5. DatabaseOK(db)
  BY DEF Init, DatabaseOK, TableOK, Empty
<1>6. Kept(mem, db, rows)
  BY DEF Init, Kept
<1>7. Passed(rows, fl) /\ PgFine(pg.pools, reg.pools)
  BY DEF Init, Passed, PgFine, Empty
<1> QED BY <1>1, <1>2, <1>3, <1>4, <1>5, <1>6, <1>7 DEF FinalizedInv

(* A block that is observed. *)
LEMMA IndexStep ==
    ASSUME FinalizedInv, NEW s \in Slots, Index(s)
    PROVE  FinalizedInv'
<1> DEFINE r == Observed(reg, s)
<1>0. /\ reg' = r /\ life' = life \cup {s} /\ handled' = handled \cup {s}
      /\ pg' = PgWritten(pg, r, s)
      /\ conf' = MemRowsAppend(conf, WriteSet(s, r, life'))
      /\ UNCHANGED <<promoted, retry, final, safe, rows, fl, db, mem, faults, reorgs, lives>>
  BY DEF Index, bounds
<1>1. r \in Registries /\ Grown(reg.pools, r.pools)
  BY ObservedFacts DEF FinalizedInv
<1> HIDE DEF r
<1>2. Scalars'
  BY <1>0 DEF FinalizedInv, Scalars
<1>3. RowsOK(conf')
  <2>1. life' \in SUBSET Slots /\ s \in life'
    BY <1>0 DEF FinalizedInv, Scalars
  <2> QED BY <1>0, <1>1, <2>1, WriteSetOK, AppendKeepsOK DEF FinalizedInv
<1>4. lives' = 1 => PgFine(pg'.pools, reg'.pools)
  <2> SUFFICES ASSUME lives = 1 PROVE PgFine(pg'.pools, reg'.pools)
    BY <1>0
  <2>1. PgFine(pg.pools, r.pools)
    BY <1>1, PgFineGrown DEF FinalizedInv, Registries
  <2> QED BY <1>0, <1>1, <2>1, PgWrittenFine
<1> QED BY <1>0, <1>1, <1>2, <1>3, <1>4 DEF FinalizedInv

(* A reorg. *)
LEMMA ReorgStep ==
    ASSUME FinalizedInv, NEW from \in Slots, Reorg(from)
    PROVE  FinalizedInv'
<1> DEFINE r == Observed(reg, from)
           below(table) == [k \in {x \in DOMAIN table : table[x].seen < from} |-> table[k]]
           left == [pools |-> below(pg.pools), tokens |-> below(pg.tokens)]
           keep == {s \in Slots : s < from}
<1>0. /\ reg' = r /\ life' = {s \in life : s < from} \cup {from}
      /\ handled' = {s \in handled : s < from} \cup {from}
      /\ pg' = PgWritten(left, r, from)
      /\ conf' = MemRowsAppend(MemRowsRetain(conf, keep), WriteSet(from, r, life'))
      /\ reorgs < MaxReorgs /\ reorgs' = reorgs + 1
      /\ UNCHANGED <<promoted, retry, final, safe, rows, fl, db, mem, faults, lives>>
  BY DEF Reorg
<1>1. r \in Registries /\ Grown(reg.pools, r.pools)
  BY ObservedFacts DEF FinalizedInv
<1> HIDE DEF r, keep
<1>2. Scalars'
  <2>1. reorgs' \in 0 .. MaxReorgs
    BY <1>0, SlotsAre DEF FinalizedInv, Scalars
  <2> QED BY <1>0, <2>1 DEF FinalizedInv, Scalars
<1>3. RowsOK(conf')
  <2>1. life' \in SUBSET Slots /\ from \in life'
    BY <1>0 DEF FinalizedInv, Scalars
  <2>2. RowsOK(MemRowsRetain(conf, keep)) /\ RowsOK(WriteSet(from, r, life'))
    BY <1>1, <2>1, RetainKeepsOK, WriteSetOK DEF FinalizedInv
  <2> QED BY <1>0, <2>2, AppendKeepsOK
<1>4. lives' = 1 => PgFine(pg'.pools, reg'.pools)
  <2> SUFFICES ASSUME lives = 1 PROVE PgFine(pg'.pools, reg'.pools)
    BY <1>0
  <2>1. PgFine(pg.pools, r.pools)
    BY <1>1, PgFineGrown DEF FinalizedInv, Registries
  <2>2. PgFine(left.pools, r.pools)
    BY <2>1 DEF PgFine
  <2> HIDE DEF left
  <2> QED BY <1>0, <1>1, <2>2, PgWrittenFine
<1> QED BY <1>0, <1>1, <1>2, <1>3, <1>4 DEF FinalizedInv

(* Pruning. *)
LEMMA PruneStep ==
    ASSUME FinalizedInv, NEW below \in Slots, Prune(below)
    PROVE  FinalizedInv'
<1> DEFINE keep == {s \in Slots : s >= below}
<1>0. /\ conf' = MemRowsRetain(conf, keep)
      /\ UNCHANGED <<reg, life, pg, handled, promoted, retry, final, safe, rows, fl, db, mem,
                     faults, reorgs, lives>>
  BY DEF Prune, bounds
<1> HIDE DEF keep
<1>1. RowsOK(conf')
  BY <1>0, RetainKeepsOK DEF FinalizedInv
<1>2. Scalars'
  BY <1>0 DEF FinalizedInv, Scalars
<1> QED BY <1>0, <1>1, <1>2 DEF FinalizedInv

(* What a writer keeps and a table keeps, the store keeps. *)
LEMMA KeptStays ==
    ASSUME NEW m, NEW d, NEW r, NEW d2, NEW r2, Kept(m, d, r), WritersOK(r), WritersOK(r2),
           DatabaseOK(d), DatabaseOK(d2), \A t \in TableSet : Newer(d[t], d2[t]),
           \A t \in TableSet : \A row : InBody(r[t], row) => InBody(r2[t], row) \/ Has(d2[t], row)
    PROVE  Kept(m, d2, r2)
<1>1. ASSUME NEW t \in TableSet, NEW row, row.ver \in Nat, Has(d[t], row)
      PROVE  Has(d2[t], row)
  BY <1>1, HasStays DEF DatabaseOK
<1> QED BY <1>1 DEF Kept

(* A promotion, whole or stopped by memory. *)
LEMMA PromoteStep ==
    ASSUME FinalizedInv, fl = 0, NEW to \in Slots, to > promoted,
           NEW ps, PutsOK(ps), NEW room \in Nat, Promote(to, ps, room)
    PROVE  FinalizedInv'
<1> DEFINE a == Appended(ps, room)
           added(t) == {ps[i].row : i \in {j \in DOMAIN ps : ps[j].table = t}}
<1>0. /\ rows' = a.rows /\ final' = Greatest(final, to)
      /\ UNCHANGED <<reg, life, pg, conf, handled, safe, fl, db, reorgs, lives>>
      /\ a.ok => /\ promoted' = to /\ faults' = faults
                 /\ mem' = [mem EXCEPT !.rows = [t \in TableSet |-> mem.rows[t] \cup added(t)]]
      /\ ~a.ok => /\ faults < MaxFaults /\ faults' = faults + 1
                  /\ UNCHANGED <<promoted, mem>>
  BY DEF Promote, source
<1>1. AppendOK(rows, a) /\ (a.ok => \A i \in 1 .. Len(ps) : Holds(a.rows, ps[i]))
  BY AppendedFacts DEF FinalizedInv
<1> HIDE DEF a
<1>2. WritersOK(rows') /\ \A t \in TableSet : Extended(rows[t], rows'[t])
  BY <1>0, <1>1 DEF AppendOK
<1>3. Scalars'
  <2>1. CASE a.ok
    BY <2>1, <1>0, SlotsAre DEF FinalizedInv, Scalars, Greatest
  <2>2. CASE ~a.ok
    BY <2>2, <1>0, SlotsAre DEF FinalizedInv, Scalars, Greatest
  <2> QED BY <2>1, <2>2
<1>4. Kept(mem, db, rows')
  <2>1. ASSUME NEW t \in TableSet, NEW row, InBody(rows[t], row) PROVE InBody(rows'[t], row)
    <3>1. PICK i \in 1 .. rows[t].complete : rows[t].buf[i] = row
      BY <2>1 DEF InBody
    <3>2. rows[t].complete \in Nat /\ rows'[t].complete \in Nat
      BY <1>2 DEF FinalizedInv, WritersOK, WriterOK
    <3>3. i \in 1 .. rows'[t].complete /\ rows'[t].buf[i] = row
      BY <1>2, <3>1, <3>2 DEF Extended
    <3> QED BY <3>3 DEF InBody
  <2>2. \A t \in TableSet : Newer(db[t], db[t])
    BY NewerReflexive DEF FinalizedInv, DatabaseOK
  <2> QED BY <1>2, <2>1, <2>2, KeptStays DEF FinalizedInv
<1>5. Kept(mem', db', rows')
  <2>1. CASE ~a.ok
    BY <2>1, <1>0, <1>4
  <2>2. CASE a.ok
    <3>1. mem \in [rows : {mem.rows}, flushed : {mem.flushed}]
      BY <1>4 DEF Kept
    <3> DEFINE more == [t \in TableSet |-> mem.rows[t] \cup added(t)]
    <3>2. mem' = [mem EXCEPT !.rows = more]
      BY <2>2, <1>0
    <3>3. ASSUME NEW t \in TableSet, NEW row \in added(t)
          PROVE  row.ver \in Nat /\ InBody(rows'[t], row)
      <4>1. PICK i \in DOMAIN ps : ps[i].table = t /\ row = ps[i].row
        OBVIOUS
      <4>2. i \in 1 .. Len(ps) /\ PutOK(ps[i])
        BY ListFacts DEF PutsOK
      <4>3. row.ver \in Nat
        BY <4>1, <4>2 DEF PutOK, WholeRow, EntryOK
      <4>4. Holds(rows', ps[i])
        BY <4>2, <2>2, <1>0, <1>1
      <4> QED BY <4>1, <4>3, <4>4 DEF Holds, InBody
    <3>4. \A t \in TableSet : more[t] = mem.rows[t] \cup added(t)
      OBVIOUS
    <3> HIDE DEF more, added
    <3>5. mem'.rows = more /\ mem'.flushed = mem.flushed
          /\ mem' \in [rows : {mem'.rows}, flushed : {mem'.flushed}]
      BY <3>1, <3>2
    <3>6. ASSUME NEW t \in TableSet
          PROVE  /\ \A row \in mem'.rows[t] :
                       row.ver \in Nat /\ (Has(db'[t], row) \/ InBody(rows'[t], row))
                 /\ \A row \in mem'.flushed[t] : row.ver \in Nat /\ Has(db'[t], row)
      BY <3>3, <3>4, <3>5, <1>0, <1>4 DEF Kept
    <3> QED BY <3>5, <3>6 DEF Kept
  <2> QED BY <2>1, <2>2
<1>6. Passed(rows', fl')
  BY <1>0 DEF Passed
<1> QED BY <1>0, <1>2, <1>3, <1>5, <1>6 DEF FinalizedInv

LEMMA PromotionStep ==
    ASSUME FinalizedInv, Promotion
    PROVE  FinalizedInv'
<1>1. PICK to \in Slots : /\ to > promoted
                          /\ LET ps == Puts(ReadRange(promoted + 1, to))
                             IN  \E room \in 0 .. Len(ps) : Promote(to, ps, room)
  BY DEF Promotion
<1> DEFINE set == ReadRange(promoted + 1, to)
           ps == Puts(set)
<1>2. RowsOK(set)
  BY RetainKeepsOK DEF ReadRange, FinalizedInv
<1> HIDE DEF set
<1>3. PutsOK(ps)
  BY <1>2, PutsAreOK
<1>4. PICK room \in 0 .. Len(ps) : Promote(to, ps, room)
  BY <1>1 DEF set
<1> HIDE DEF ps
<1>5. room \in Nat /\ fl = 0
  BY DEF Promotion
<1> QED BY <1>1, <1>3, <1>4, <1>5, PromoteStep

(* The first step of a flush. *)
LEMMA FlushStartStep ==
    ASSUME FinalizedInv, FlushStart
    PROVE  FinalizedInv'
<1>0. /\ fl' = 1
      /\ UNCHANGED <<reg, life, pg, conf, handled, promoted, retry, final, safe, rows, db, mem,
                     faults, reorgs, lives>>
  BY DEF FlushStart, source, bounds
<1>1. Scalars'
  BY <1>0 DEF FinalizedInv, Scalars
<1>2. Passed(rows', fl')
  BY <1>0 DEF Passed
<1> QED BY <1>0, <1>1, <1>2 DEF FinalizedInv

(* The table a flush is at is one, and those between it and the last one     *)
(* inserted have nothing to send.                                            *)
LEMMA DueFacts ==
    ASSUME FinalizedInv, Due # {}
    PROVE  /\ Min(Due) \in 1 .. 11 /\ Min(Due) >= fl
           /\ \A i \in 1 .. 11 : i >= fl /\ i < Min(Due) => rows[Tables[i]].complete = 0
<1>1. Due \subseteq 1 .. 11 /\ \A i \in Due : i >= fl
  BY TablesAre DEF Due, Pending
<1>2. Due \subseteq Nat
  BY <1>1
<1>3. PICK x \in Due : \A y \in Due : x <= y
  BY <1>2, LeastNatural
<1> DEFINE m == Min(Due)
<1>4. m \in Due /\ \A y \in Due : m <= y
  BY <1>3 DEF Min
<1> HIDE DEF m
<1>5. ASSUME NEW i \in 1 .. 11, i >= fl, i < m PROVE rows[Tables[i]].complete = 0
  <2>0. m \in 1 .. 11
    BY <1>1, <1>4
  <2>1. i \notin Due
    BY <1>4, <1>5, <2>0
  <2>2. ~(rows[Tables[i]].complete > 0)
    BY <2>1, <1>5, TablesAre DEF Due, Pending
  <2>3. rows[Tables[i]].complete \in Nat
    BY TablesAre DEF FinalizedInv, WritersOK, WriterOK
  <2> QED BY <2>2, <2>3
<1> QED BY <1>1, <1>4, <1>5 DEF m

(* An insert of the rows of a table. *)
LEMMA InsertedFacts ==
    ASSUME FinalizedInv, NEW t \in TableSet
    PROVE  /\ DatabaseOK(Inserted(t)) /\ \A u \in TableSet : Newer(db[u], Inserted(t)[u])
           /\ \A row : InBody(rows[t], row) => Has(Inserted(t)[t], row)
<1> DEFINE d == Inserted(t)
           body == Body(t)
           new == Merged(db[t], body)
<1>0. WritersOK(rows) /\ DatabaseOK(db)
  BY DEF FinalizedInv
<1>1. /\ Len(body) = rows[t].complete /\ Len(body) \in Nat
      /\ \A i \in 1 .. Len(body) : body[i] = rows[t].buf[i] /\ WholeRow(t, body[i])
  BY <1>0, BodyFacts
<1>2. d = [db EXCEPT ![t] = new]
  BY DEF Inserted
<1> HIDE DEF d, body
<1>3. TableOK(t, db[t])
  BY <1>0 DEF DatabaseOK
<1>4. /\ TableOK(t, new) /\ Newer(db[t], new) /\ \A i \in 1 .. Len(body) : Has(new, body[i])
  BY <1>1, <1>3, MergedFacts
<1> HIDE DEF new
<1>5. /\ d = [u \in TableSet |-> d[u]]
      /\ \A u \in TableSet : d[u] = IF u = t THEN new ELSE db[u]
  BY <1>0, <1>2 DEF DatabaseOK
<1>6. DatabaseOK(d)
  BY <1>0, <1>4, <1>5 DEF DatabaseOK
<1>7. \A u \in TableSet : Newer(db[u], d[u])
  BY <1>0, <1>4, <1>5, NewerReflexive DEF DatabaseOK
<1>8. ASSUME NEW row, InBody(rows[t], row) PROVE Has(d[t], row)
  <2>1. PICK i \in 1 .. rows[t].complete : rows[t].buf[i] = row
    BY <1>8 DEF InBody
  <2>2. i \in 1 .. Len(body) /\ body[i] = row
    BY <1>1, <2>1
  <2> QED BY <1>4, <1>5, <2>2
<1> QED BY <1>6, <1>7, <1>8 DEF d

(* One insert of a flush, with all that may become of it. *)
LEMMA InsertStep ==
    ASSUME FinalizedInv, NEW landed \in BOOLEAN, NEW ok \in BOOLEAN, Insert(landed, ok)
    PROVE  FinalizedInv'
<1> DEFINE i == Min(Due)
           t == Tables[i]
<1>0. /\ fl > 0 /\ Due # {} /\ (ok => landed)
      /\ db' = (IF landed THEN Inserted(t) ELSE db)
      /\ ok => rows' = Reset(t) /\ fl' = i + 1 /\ faults' = faults
      /\ ~ok => rows' = rows /\ fl' = 0 /\ faults < MaxFaults /\ faults' = faults + 1
      /\ UNCHANGED <<reg, life, pg, conf, handled, promoted, retry, final, safe, mem,
                     reorgs, lives>>
  BY DEF Insert, source
<1>1. /\ i \in 1 .. 11 /\ i >= fl
      /\ \A j \in 1 .. 11 : j >= fl /\ j < i => rows[Tables[j]].complete = 0
  BY <1>0, DueFacts
<1>2. t \in TableSet
  BY <1>1, TablesAre
<1>3. WritersOK(rows) /\ DatabaseOK(db) /\ Kept(mem, db, rows) /\ Passed(rows, fl)
  BY DEF FinalizedInv
<1>4. /\ DatabaseOK(db') /\ \A u \in TableSet : Newer(db[u], db'[u])
      /\ landed => \A row : InBody(rows[t], row) => Has(db'[t], row)
  <2>1. CASE landed
    BY <2>1, <1>0, <1>2, InsertedFacts
  <2>2. CASE ~landed
    BY <2>2, <1>0, <1>3, NewerReflexive DEF DatabaseOK
  <2> QED BY <2>1, <2>2
<1> HIDE DEF i, t
<1>5. Scalars'
  <2>1. fl' \in 0 .. 12
    BY <1>0, <1>1
  <2>2. faults' \in 0 .. MaxFaults /\ lives' \in 1 .. faults' + 1
    BY <1>0, SlotsAre DEF FinalizedInv, Scalars
  <2>3. /\ promoted' \in 0 .. MaxSlot /\ final' \in promoted' .. MaxSlot
        /\ safe' \in 0 .. promoted' /\ life' \subseteq handled' /\ handled' \subseteq Slots
        /\ reorgs' \in 0 .. MaxReorgs
    BY <1>0 DEF FinalizedInv, Scalars
  <2> QED BY <2>1, <2>2, <2>3 DEF Scalars
<1>6. CASE ~ok
  <2>1. rows' = rows /\ fl' = 0
    BY <1>0, <1>6
  <2>2. Kept(mem, db', rows)
    BY <1>3, <1>4, KeptStays
  <2>3. Passed(rows', fl')
    BY <2>1 DEF Passed
  <2> QED BY <1>0, <1>3, <1>4, <1>5, <2>1, <2>2, <2>3 DEF FinalizedInv
<1>7. CASE ok
  <2>1. rows' = [rows EXCEPT ![t] = Fresh] /\ fl' = i + 1 /\ landed
    BY <1>0, <1>7 DEF Reset
  <2>2. /\ rows' = [u \in TableSet |-> rows'[u]]
        /\ \A u \in TableSet : rows'[u] = IF u = t THEN Fresh ELSE rows[u]
    BY <1>3, <2>1 DEF WritersOK
  <2>3. WritersOK(rows')
    BY <1>3, <2>2, FreshOK DEF WritersOK
  <2>4. ASSUME NEW u \in TableSet, NEW row, InBody(rows[u], row)
        PROVE  InBody(rows'[u], row) \/ Has(db'[u], row)
    BY <1>4, <2>1, <2>2, <2>4
  <2>5. Kept(mem, db', rows')
    BY <1>3, <1>4, <2>3, <2>4, KeptStays
  <2>6. Passed(rows', fl')
    <3>1. ASSUME NEW j \in 1 .. 11, j < i + 1 PROVE rows'[Tables[j]].complete = 0
      <4>1. Tables[j] \in TableSet
        BY TablesAre
      <4>2. CASE Tables[j] = t
        BY <4>1, <4>2, <2>2, FreshOK
      <4>3. CASE Tables[j] # t
        <5>1. j < i
          <6>1. j # i
            BY <4>3 DEF t
          <6> QED BY <6>1, <3>1, <1>1
        <5>2. rows[Tables[j]].complete = 0
          <6>1. fl \in Int
            BY DEF FinalizedInv, Scalars
          <6> QED BY <5>1, <6>1, <1>0, <1>1, <1>3 DEF Passed
        <5> QED BY <4>1, <4>3, <5>2, <2>2
      <4> QED BY <4>2, <4>3
    <3> QED BY <3>1, <2>1 DEF Passed
  <2> QED BY <1>0, <1>4, <1>5, <2>3, <2>5, <2>6 DEF FinalizedInv
<1> QED BY <1>6, <1>7

(* The end of a flush. *)
LEMMA FlushEndStep ==
    ASSUME FinalizedInv, FlushEnd
    PROVE  FinalizedInv'
<1>0. /\ fl > 0 /\ Due = {} /\ fl' = 0 /\ safe' = promoted
      /\ mem' = [mem EXCEPT !.flushed = mem.rows]
      /\ UNCHANGED <<reg, life, pg, conf, handled, promoted, retry, final, rows, db,
                     faults, reorgs, lives>>
  BY DEF FlushEnd, source, bounds
<1>1. Scalars'
  BY <1>0 DEF FinalizedInv, Scalars
<1>2. ASSUME NEW t \in TableSet PROVE rows[t].complete = 0
  <2>1. PICK i \in 1 .. 11 : t = Tables[i]
    BY TablesAre
  <2>2. CASE i < fl
    BY <1>0, <2>1, <2>2 DEF FinalizedInv, Passed
  <2>3. CASE i >= fl
    <3>1. ~(rows[Tables[i]].complete > 0)
      BY <1>0, <2>3, TablesAre DEF Due, Pending
    <3>2. rows[t].complete \in Nat
      BY DEF FinalizedInv, WritersOK, WriterOK
    <3> QED BY <2>1, <3>1, <3>2
  <2>4. fl \in Int
    BY DEF FinalizedInv, Scalars
  <2> QED BY <2>2, <2>3, <2>4
<1>3. Kept(mem', db', rows')
  <2>0. Kept(mem, db, rows)
    BY DEF FinalizedInv
  <2>1. \A t \in TableSet : \A row : ~InBody(rows[t], row)
    BY <1>2 DEF InBody
  <2>2. \A t \in TableSet : \A row \in mem.rows[t] : row.ver \in Nat /\ Has(db[t], row)
    BY <2>0, <2>1 DEF Kept
  <2>3. mem \in [rows : {mem.rows}, flushed : {mem.flushed}]
    BY <2>0 DEF Kept
  <2>4. /\ mem'.rows = mem.rows /\ mem'.flushed = mem.rows
        /\ mem' \in [rows : {mem'.rows}, flushed : {mem'.flushed}]
    BY <1>0, <2>3
  <2> QED BY <1>0, <2>2, <2>4 DEF Kept
<1>4. Passed(rows', fl')
  BY <1>0 DEF Passed
<1> QED BY <1>0, <1>1, <1>3, <1>4 DEF FinalizedInv

(* A crash. *)
LEMMA RestartStep ==
    ASSUME FinalizedInv, Restart
    PROVE  FinalizedInv'
<1>0. /\ faults < MaxFaults /\ faults' = faults + 1 /\ lives' = lives + 1
      /\ reg' = [pools |-> Empty, tokens |-> Empty] /\ life' = {}
      /\ rows' = [t \in TableSet |-> Fresh] /\ fl' = 0 /\ promoted' = safe
      /\ mem' = [mem EXCEPT !.rows = mem.flushed]
      /\ UNCHANGED <<conf, handled, final, safe, db, reorgs>>
  BY DEF Restart
<1>1. Scalars'
  BY <1>0, SlotsAre DEF FinalizedInv, Scalars
<1>2. reg' \in Registries
  BY <1>0, EmptyRegistries
<1>3. WritersOK(rows')
  BY <1>0, FreshOK DEF WritersOK
<1>4. Kept(mem', db', rows')
  <2>0. Kept(mem, db, rows)
    BY DEF FinalizedInv
  <2>1. mem \in [rows : {mem.rows}, flushed : {mem.flushed}]
    BY <2>0 DEF Kept
  <2>2. /\ mem'.rows = mem.flushed /\ mem'.flushed = mem.flushed
        /\ mem' \in [rows : {mem'.rows}, flushed : {mem'.flushed}]
    BY <1>0, <2>1
  <2> QED BY <1>0, <2>0, <2>2 DEF Kept
<1>5. Passed(rows', fl')
  BY <1>0 DEF Passed
<1>6. lives' # 1
  BY <1>0 DEF FinalizedInv, Scalars
<1> QED BY <1>0, <1>1, <1>2, <1>3, <1>4, <1>5, <1>6 DEF FinalizedInv

(* The invariant is kept by every step. *)
LEMMA FinalizedStep ==
    ASSUME FinalizedInv, [Next]_vars
    PROVE  FinalizedInv'
<1>1. ASSUME NEW s \in Slots, Index(s) PROVE FinalizedInv'
  BY <1>1, IndexStep
<1>2. ASSUME NEW s \in Slots, Reorg(s) PROVE FinalizedInv'
  BY <1>2, ReorgStep
<1>3. ASSUME NEW below \in Slots, Prune(below) PROVE FinalizedInv'
  BY <1>3, PruneStep
<1>4. CASE Promotion
  BY <1>4, PromotionStep
<1>5. CASE FlushStart
  BY <1>5, FlushStartStep
<1>6. CASE FlushEnd
  BY <1>6, FlushEndStep
<1>7. ASSUME NEW landed \in BOOLEAN, NEW ok \in BOOLEAN, Insert(landed, ok) PROVE FinalizedInv'
  BY <1>7, InsertStep
<1>8. CASE Restart
  BY <1>8, RestartStep
<1>9. CASE UNCHANGED vars
  BY <1>9 DEF vars, source, bounds, FinalizedInv, Scalars
<1> QED BY <1>1, <1>2, <1>3, <1>4, <1>5, <1>6, <1>7, <1>8, <1>9 DEF Next, FlushStep

(* The invariant holds in every reachable state, for every content of the    *)
(* blocks and all bounds.                                                    *)
THEOREM FinalizedInvariant == Spec => []FinalizedInv
BY FinalizedInit, FinalizedStep, PTL DEF Spec

-----------------------------------------------------------------------------
(* WHAT FOLLOWS *)

(* The variables keep their types, and a writer its shape (idx_ch_rows).     *)
THEOREM FinalizedTypes == Spec => []TypeOK
<1>1. ASSUME FinalizedInv PROVE TypeOK
  <2>1. Scalars /\ WritersOK(rows)
    BY <1>1 DEF FinalizedInv
  <2>2. lives \in 1 .. MaxFaults + 1 /\ fl \in 0 .. Len(Tables) + 1
    BY <2>1, SlotsAre, TablesAre DEF Scalars
  <2>3. \A t \in TableSet :
           /\ rows[t].in_row \in BOOLEAN
           /\ Len(rows[t].buf) = rows[t].complete + (IF rows[t].in_row THEN 1 ELSE 0)
    BY <2>1 DEF WritersOK, WriterOK
  <2> QED BY <2>1, <2>2, <2>3 DEF TypeOK, Scalars
<1> QED BY <1>1, FinalizedInvariant, PTL

(* A row that an append took in is in its table, or newer there, or still in *)
(* the buffer of the table, whatever failed since (store_append and          *)
(* store_flush of ch_store.c).                                               *)
THEOREM FinalizedKeeps == Spec => []PromotedKept
<1>1. ASSUME FinalizedInv PROVE PromotedKept
  <2> SUFFICES ASSUME NEW t \in TableSet, NEW row \in mem.rows[t]
               PROVE  Stored(t, row) \/ Buffered(t, row)
    BY DEF PromotedKept
  <2>1. Has(db[t], row) \/ InBody(rows[t], row)
    BY <1>1 DEF FinalizedInv, Kept
  <2>2. CASE Has(db[t], row)
    BY <2>2 DEF Has, Stored
  <2>3. CASE InBody(rows[t], row)
    <3>1. ToSet(Body(t)) = {rows[t].buf[i] : i \in 1 .. rows[t].complete}
      BY <1>1, BodyFacts DEF FinalizedInv
    <3> QED BY <2>3, <3>1 DEF InBody, Buffered
  <2> QED BY <2>1, <2>2, <2>3
<1> QED BY <1>1, FinalizedInvariant, PTL

(* No part of a row that store_append could not finish is ever inserted.     *)
THEOREM FinalizedWhole == Spec => []OnlyWholeRows
<1>1. ASSUME FinalizedInv PROVE OnlyWholeRows
  <2> SUFFICES ASSUME NEW t \in TableSet, NEW k \in DOMAIN db[t] PROVE db[t][k].whole
    BY DEF OnlyWholeRows
  <2>1. db[t][k].whole = TRUE
    BY <1>1 DEF FinalizedInv, DatabaseOK, TableOK, StoredOK
  <2> QED BY <2>1
<1> QED BY <1>1, FinalizedInvariant, PTL

(* The decimals of a pool's side are those a block had beside that mint, in  *)
(* the registry, in the finalized tier and, in one life, in the confirmed    *)
(* tier (remember_mint of pool.c, put_pool of pg_store.c).                   *)
THEOREM FinalizedDecimals == Spec => []DecimalsRideWithMint
<1>1. ASSUME NEW pool, pool.sides \in SideLists PROVE SidesRight(pool)
  <2>1. \A i \in DOMAIN pool.sides : pool.sides[i] \in SidesOnChain
    BY <1>1 DEF SideLists
  <2> QED BY <2>1 DEF SidesRight
<1>2. ASSUME FinalizedInv PROVE DecimalsRideWithMint
  <2>1. ASSUME NEW p \in DOMAIN reg.pools PROVE SidesRight(reg.pools[p])
    <3>1. reg.pools[p] \in PoolRecord
      BY <1>2, PoolTableFacts DEF FinalizedInv, Registries
    <3> QED BY <1>1, <3>1 DEF PoolRecord, PoolColumns
  <2>2. ASSUME NEW p \in DOMAIN db["pools"] PROVE SidesRight(db["pools"][p].val)
    <3>1. "pools" \in TableSet
      BY TablesAre
    <3>2. db["pools"][p].val.sides \in SideLists
      BY <1>2, <3>1 DEF FinalizedInv, DatabaseOK, TableOK, StoredOK
    <3> QED BY <1>1, <3>2
  <2>3. ASSUME lives = 1, NEW p \in DOMAIN pg.pools PROVE SidesRight(pg.pools[p])
    <3>1. pg.pools[p].sides \in SideLists
      BY <1>2, <2>3 DEF FinalizedInv, PgFine
    <3> QED BY <1>1, <3>1
  <2> QED BY <2>1, <2>2, <2>3 DEF DecimalsRideWithMint
<1> QED BY <1>2, FinalizedInvariant, PTL

-----------------------------------------------------------------------------
(* WHAT IS NOT UNLEARNED                                                     *)
(*                                                                           *)
(* A row of a pool replaces the one in the table when its version is not     *)
(* older, so what matters is that of two rows of a pool the one of the       *)
(* higher version, or of the two the later one, never knows less.  The       *)
(* registry only learns, and the rows in the confirmed tier are in the order *)
(* in which it did; a reorg drops none that an append had.  A version is     *)
(* that of a whole promotion, so an append that failed may leave rows of a   *)
(* version of its own behind: its retry reads no fewer rows, and so is of no *)
(* older version.  A pool is promoted with the slot that showed it first, so *)
(* after that no row of it is sent again.                                    *)

(* What a later row of a pool knows includes what an earlier one does. *)
Follows(x, y) == x.key = y.key => Learnt(x.val, y.val)
InOrder(q) == \A i, j \in 1 .. Len(q) : i < j => Follows(q[i], q[j])

(* Rows of pools, in the order in which the registry learned. *)
FromRegistry(row, pools) ==
    /\ row.val \in PoolRecord /\ row.slot = row.val.seen
    /\ row.key \in DOMAIN pools /\ Learnt(row.val, pools[row.key])
PoolRows(q, pools) ==
    Listed(q) /\ InOrder(q) /\ \A x \in ToSet(q) : FromRegistry(x, pools)

(* The version of a promotion. *)
BatchVersion(m, from, to) == WriteSetVersion(MemRowsRetain(m, from .. to))

(* A pool's row that was appended or sent: if the pool is not promoted yet,  *)
(* an append that has it failed, and its retry will be of no older version.  *)
Overtaken(key, ver, pools, m, done, due) ==
    /\ key \in DOMAIN pools
    /\ pools[key].seen > done =>
          pools[key].seen <= due /\ ver <= BatchVersion(m, done + 1, due)
AllOvertaken(w, T, pools, m, done, due) ==
    /\ \A i \in 1 .. w.complete : Overtaken(w.buf[i].key, w.buf[i].ver, pools, m, done, due)
    /\ \A key \in DOMAIN T : Overtaken(key, T[key].ver, pools, m, done, due)

(* The last complete row of a pool; none in the buffer or the table is newer. *)
LastRow(w, T, key, l) ==
    /\ w.buf[l].key = key
    /\ \A i \in 1 .. w.complete : w.buf[i].key = key => i <= l /\ w.buf[i].ver <= w.buf[l].ver
    /\ Known(T, key) => T[key].ver <= w.buf[l].ver

(* A row of a pool lasts: what it knew is in the last row that is still to   *)
(* be sent, or, when there is none, in the table.                            *)
Lasting(x, w, T) ==
    \/ \E l \in 1 .. w.complete : LastRow(w, T, x.key, l) /\ Learnt(x.val, w.buf[l].val)
    \/ /\ \A i \in 1 .. w.complete : w.buf[i].key # x.key
       /\ Known(T, x.key) /\ Learnt(x.val, T[x.key].val)

(* The pools' rows that were promoted. *)
AllLasting(S, w, T, pools, done) ==
    \A x \in S : /\ x.val.sides \in SideLists
                 /\ x.key \in DOMAIN pools /\ pools[x.key].seen <= done
                 /\ Lasting(x, w, T)

(* What holds beside FinalizedInv while the process lives. *)
History ==
    /\ retry \in 0 .. final
    /\ PoolRows(conf["pool"], reg.pools)
    /\ AllOvertaken(rows["pools"], db["pools"], reg.pools, conf, promoted, retry)
    /\ AllLasting(mem.rows["pools"], rows["pools"], db["pools"], reg.pools, promoted)

-----------------------------------------------------------------------------
(* POOLS' ROWS IN ORDER *)

(* How far a loop over q has come that keeps the rows of some slots. *)
Taken(q, keep, n, d) ==
    /\ d \in Seq(ToSet(q)) /\ (InOrder(q) => InOrder(d))
    /\ \A i \in 1 .. Len(d) : \E j \in 1 .. n : d[i] = q[j] /\ q[j].slot \in keep
    /\ \A j \in 1 .. n : q[j].slot \in keep => \E i \in 1 .. Len(d) : d[i] = q[j]

(* One row of that loop. *)
LEMMA TakeOne ==
    ASSUME NEW q, Listed(q), NEW keep, NEW n \in Nat, n + 1 <= Len(q),
           NEW d, Taken(q, keep, n, d),
           NEW e, e = IF q[n + 1].slot \in keep THEN Append(d, q[n + 1]) ELSE d
    PROVE  Taken(q, keep, n + 1, e)
<1>0. /\ Len(q) \in Nat /\ n + 1 \in 1 .. Len(q) /\ q[n + 1] \in ToSet(q)
      /\ d \in Seq(ToSet(q)) /\ Len(d) \in Nat
  BY ListFacts DEF Taken
<1>1. CASE q[n + 1].slot \notin keep
  BY <1>0, <1>1 DEF Taken
<1>2. CASE q[n + 1].slot \in keep
  <2> DEFINE x == q[n + 1]
             m == Len(d)
             S == ToSet(q)
  <2>1. /\ e \in Seq(S) /\ Len(e) = m + 1 /\ e[m + 1] = x
        /\ \A i \in 1 .. m : e[i] = d[i]
    <3> HIDE DEF x, S
    <3>1. d \in Seq(S) /\ x \in S /\ e = Append(d, x)
      BY <1>0, <1>2 DEF x, S
    <3> QED BY <3>1
  <2>2. /\ InOrder(q) => InOrder(d)
        /\ \A i \in 1 .. m : \E j \in 1 .. n : d[i] = q[j] /\ q[j].slot \in keep
        /\ \A j \in 1 .. n : q[j].slot \in keep => \E i \in 1 .. m : d[i] = q[j]
    BY DEF Taken
  <2>3. m \in Nat
    BY <1>0
  <2> HIDE DEF m
  <2>4. InOrder(q) => InOrder(e)
    <3> SUFFICES ASSUME InOrder(q), NEW i \in 1 .. m + 1, NEW j \in 1 .. m + 1, i < j
                 PROVE  Follows(e[i], e[j])
      BY <2>1 DEF InOrder
    <3>0. i \in 1 .. m
      BY <2>3
    <3>1. CASE j \in 1 .. m
      <4>1. Follows(d[i], d[j])
        BY <2>2, <3>0, <3>1 DEF InOrder, m
      <4> QED BY <4>1, <3>0, <3>1, <2>1
    <3>2. CASE j \notin 1 .. m
      <4>1. j = m + 1
        BY <2>3, <3>2
      <4>2. PICK k \in 1 .. n : d[i] = q[k]
        BY <2>2, <3>0
      <4>3. Follows(q[k], q[n + 1])
        BY <1>0 DEF InOrder
      <4> QED BY <4>1, <4>2, <4>3, <3>0, <2>1
    <3> QED BY <3>1, <3>2
  <2>5. ASSUME NEW i \in 1 .. m + 1
        PROVE  \E j \in 1 .. n + 1 : e[i] = q[j] /\ q[j].slot \in keep
    <3>1. CASE i \in 1 .. m
      <4>1. PICK j \in 1 .. n : d[i] = q[j] /\ q[j].slot \in keep
        BY <2>2, <3>1
      <4>2. j \in 1 .. n + 1
        OBVIOUS
      <4> QED BY <4>1, <4>2, <3>1, <2>1
    <3>2. CASE i \notin 1 .. m
      <4>1. i = m + 1 /\ n + 1 \in 1 .. n + 1
        BY <2>3, <3>2
      <4> QED BY <4>1, <1>2, <2>1
    <3> QED BY <3>1, <3>2
  <2>6. ASSUME NEW j \in 1 .. n + 1, q[j].slot \in keep
        PROVE  \E i \in 1 .. m + 1 : e[i] = q[j]
    <3>1. CASE j \in 1 .. n
      <4>1. PICK i \in 1 .. m : d[i] = q[j]
        BY <2>2, <2>6, <3>1
      <4>2. i \in 1 .. m + 1
        BY <2>3
      <4> QED BY <4>1, <4>2, <2>1
    <3>2. CASE j \notin 1 .. n
      <4>1. j = n + 1 /\ m + 1 \in 1 .. m + 1
        BY <2>3, <3>2
      <4> QED BY <4>1, <2>1
    <3> QED BY <3>1, <3>2
  <2> DEFINE l == m + 1
  <2> HIDE DEF l
  <2>7. Len(e) = l /\ e \in Seq(ToSet(q))
    BY <2>1 DEF l
  <2>8. /\ \A i \in 1 .. l : \E j \in 1 .. n + 1 : e[i] = q[j] /\ q[j].slot \in keep
        /\ \A j \in 1 .. n + 1 : q[j].slot \in keep => \E i \in 1 .. l : e[i] = q[j]
    BY <2>5, <2>6 DEF l
  <2> QED BY <2>4, <2>7, <2>8 DEF Taken
<1> QED BY <1>1, <1>2

(* mem_rows_retain keeps the order of the rows, and every row of such a slot. *)
LEMMA RetainedFacts ==
    ASSUME NEW q, Listed(q), NEW keep
    PROVE  /\ InOrder(q) => InOrder(Retained(q, keep))
           /\ ToSet(Retained(q, keep)) = {x \in ToSet(q) : x.slot \in keep}
<1> DEFINE N == Len(q)
<1>1. N \in Nat /\ \A n \in 1 .. N : q[n] \in ToSet(q)
  BY ListFacts
<1>2. PICK f : /\ f[0] = <<>> /\ Retained(q, keep) = f[N]
               /\ \A n \in 1 .. N :
                     f[n] = IF q[n].slot \in keep THEN Append(f[n - 1], q[n]) ELSE f[n - 1]
  BY RetainedRuns
<1> HIDE DEF N
<1> DEFINE S == {n \in Nat : n <= N => Taken(q, keep, n, f[n])}
<1>3. 0 \in S
  <2>1. f[0] \in Seq(ToSet(q)) /\ Len(f[0]) = 0
    BY <1>2
  <2> QED BY <2>1 DEF Taken, InOrder
<1>4. ASSUME NEW n \in Nat, n \in S PROVE n + 1 \in S
  <2> SUFFICES ASSUME n + 1 <= N PROVE Taken(q, keep, n + 1, f[n + 1])
    OBVIOUS
  <2>1. n + 1 \in 1 .. N /\ (n + 1) - 1 = n /\ Taken(q, keep, n, f[n])
    BY <1>1, <1>4
  <2>2. f[n + 1] = IF q[n + 1].slot \in keep THEN Append(f[n], q[n + 1]) ELSE f[n]
    BY <1>2, <2>1
  <2> QED BY <2>1, <2>2, TakeOne DEF N
<1> HIDE DEF S
<1>5. N \in S
  BY <1>1, <1>3, <1>4, SetInduction
<1>6. Taken(q, keep, N, f[N])
  BY <1>1, <1>5 DEF S
<1> DEFINE d == f[N]
<1>7. Listed(d)
  BY <1>6, SeqListed DEF Taken
<1> HIDE DEF d
<1>8. ToSet(d) = {d[i] : i \in 1 .. Len(d)} /\ ToSet(q) = {q[i] : i \in 1 .. N}
  BY <1>7, ListFacts DEF N
<1>9. /\ \A i \in 1 .. Len(d) : \E j \in 1 .. N : d[i] = q[j] /\ q[j].slot \in keep
      /\ \A j \in 1 .. N : q[j].slot \in keep => \E i \in 1 .. Len(d) : d[i] = q[j]
      /\ InOrder(q) => InOrder(d)
  BY <1>6 DEF Taken, d
<1>10. ToSet(d) = {x \in ToSet(q) : x.slot \in keep}
  <2> DEFINE T == ToSet(d)
             S0 == ToSet(q)
             m == Len(d)
  <2> HIDE DEF T, S0, m
  <2>1. T = {d[i] : i \in 1 .. m} /\ S0 = {q[i] : i \in 1 .. N}
    BY <1>8 DEF T, S0, m
  <2>2. /\ \A i \in 1 .. m : \E j \in 1 .. N : d[i] = q[j] /\ q[j].slot \in keep
        /\ \A j \in 1 .. N : q[j].slot \in keep => \E i \in 1 .. m : d[i] = q[j]
    BY <1>9 DEF m
  <2>3. T = {x \in S0 : x.slot \in keep}
    BY <2>1, <2>2
  <2> QED BY <2>3 DEF T, S0
<1> QED BY <1>2, <1>9, <1>10 DEF d

(* Dropping rows keeps the order of the pools' rows. *)
LEMMA PoolRowsRetained ==
    ASSUME NEW q, NEW pools, PoolRows(q, pools), NEW keep
    PROVE  PoolRows(Retained(q, keep), pools)
<1> DEFINE d == Retained(q, keep)
<1>1. Listed(q) /\ InOrder(q) /\ \A x \in ToSet(q) : FromRegistry(x, pools)
  BY DEF PoolRows
<1>2. InOrder(d) /\ ToSet(d) = {x \in ToSet(q) : x.slot \in keep} /\ Listed(d)
  BY <1>1, RetainedFacts, RetainedRows, SeqListed
<1> HIDE DEF d
<1> QED BY <1>1, <1>2 DEF PoolRows, d

(* The registry goes on learning. *)
LEMMA PoolRowsGrown ==
    ASSUME NEW a \in PoolTables, NEW b \in PoolTables, Grown(a, b), NEW q, PoolRows(q, a)
    PROVE  PoolRows(q, b)
<1> SUFFICES ASSUME NEW x \in ToSet(q) PROVE FromRegistry(x, b)
  BY DEF PoolRows
<1>1. x.val \in PoolRecord /\ x.slot = x.val.seen /\ x.key \in DOMAIN a /\ Learnt(x.val, a[x.key])
  BY DEF PoolRows, FromRegistry
<1>2. x.key \in DOMAIN b /\ Learnt(a[x.key], b[x.key])
  BY <1>1 DEF Grown
<1>3. a[x.key] \in PoolRecord /\ b[x.key] \in PoolRecord
  BY <1>1, <1>2, PoolTableFacts
<1>4. x.val.sides \in SideLists /\ a[x.key].sides \in SideLists /\ b[x.key].sides \in SideLists
  BY <1>1, <1>3 DEF PoolRecord, PoolColumns
<1>5. Learnt(x.val, b[x.key])
  BY <1>1, <1>2, <1>4, LearntTransitive
<1> QED BY <1>1, <1>2, <1>5 DEF FromRegistry

(* A write set has the records of the registry. *)
LEMMA PoolRowsWritten ==
    ASSUME NEW r \in Registries, NEW s \in Slots, NEW slots \in SUBSET Slots, s \in slots
    PROVE  /\ PoolRows(WriteSet(s, r, slots)["pool"], r.pools)
           /\ \A x \in ToSet(WriteSet(s, r, slots)["pool"]) : x.val = r.pools[x.key]
<1> DEFINE q == WriteSet(s, r, slots)["pool"]
           pools == SetToSeq(TouchedPools(r, s))
           poolRow(i) == LET pool == r.pools[pools[i]] IN Row(pools[i], pool.seen, "plain", pool)
           n == Len(pools)
<1>0. RowsOK(WriteSet(s, r, slots)) /\ "pool" \in Kinds
  BY WriteSetOK, KindsAre
<1>1. q = [i \in DOMAIN pools |-> poolRow(i)]
  BY <1>0 DEF WriteSet
<1>2. Listed(q)
  BY <1>0 DEF RowsOK
<1>3. n \in Nat /\ DOMAIN pools = 1 .. n /\ \A i \in 1 .. n : pools[i] \in TouchedPools(r, s)
  BY TouchedFinite, SetToSeqType
<1> HIDE DEF q, n, pools
<1>4. ASSUME NEW i \in 1 .. n
      PROVE  /\ FromRegistry(poolRow(i), r.pools) /\ poolRow(i).val = r.pools[poolRow(i).key]
  <2>1. r.pools \in PoolTables /\ pools[i] \in DOMAIN r.pools
    BY <1>3 DEF Registries, TouchedPools
  <2>2. r.pools[pools[i]] \in PoolRecord
    BY <2>1, PoolTableFacts
  <2>3. Learnt(r.pools[pools[i]], r.pools[pools[i]])
    BY <2>2, LearntReflexive DEF PoolRecord, PoolColumns
  <2> QED BY <2>1, <2>2, <2>3 DEF FromRegistry, Row
<1> HIDE DEF poolRow
<1>5. ToSet(q) = {poolRow(i) : i \in 1 .. n}
  BY <1>1, <1>3 DEF ToSet
<1>6. \A x \in ToSet(q) : FromRegistry(x, r.pools) /\ x.val = r.pools[x.key]
  BY <1>4, <1>5
<1>7. InOrder(q)
  <2> SUFFICES ASSUME NEW i \in 1 .. Len(q), NEW j \in 1 .. Len(q), q[i].key = q[j].key
               PROVE  Learnt(q[i].val, q[j].val)
    BY DEF InOrder, Follows
  <2>1. q[i] \in ToSet(q) /\ q[j] \in ToSet(q)
    BY <1>2, ListFacts
  <2>2. q[i].val = q[j].val /\ Learnt(q[i].val, r.pools[q[i].key]) /\ q[i].val = r.pools[q[i].key]
    BY <1>6, <2>1 DEF FromRegistry
  <2> QED BY <2>2
<1> QED BY <1>2, <1>6, <1>7 DEF PoolRows, q

(* What the registry knows now comes after what it knew. *)
LEMMA PoolRowsAppended ==
    ASSUME NEW q, NEW w, NEW pools, PoolRows(q, pools), PoolRows(w, pools),
           \A y \in ToSet(w) : y.val = pools[y.key]
    PROVE  PoolRows(q \o w, pools)
<1> DEFINE S == ToSet(q) \cup ToSet(w)
           a == q \o w
           m == Len(q)
           n == Len(w)
<1>0. Listed(q) /\ Listed(w) /\ InOrder(q) /\ InOrder(w)
  BY DEF PoolRows
<1>1. q \in Seq(S) /\ w \in Seq(S)
  BY <1>0, SeqMonotonic DEF Listed
<1>2. \A x \in S : FromRegistry(x, pools)
  BY DEF PoolRows
<1> HIDE DEF S
<1>3. /\ a \in Seq(S) /\ Len(a) = m + n /\ m \in Nat /\ n \in Nat
      /\ \A i \in 1 .. m : a[i] = q[i]
      /\ \A i \in 1 .. m + n : i > m => i - m \in 1 .. n /\ a[i] = w[i - m]
  BY <1>1
<1>4. \A i \in 1 .. m : q[i] \in ToSet(q)
  BY <1>0, ListFacts
<1>5. \A i \in 1 .. n : w[i] \in ToSet(w)
  BY <1>0, ListFacts
<1>6. Listed(a) /\ ToSet(a) \subseteq S
  BY <1>3, SeqListed
<1> HIDE DEF a
<1>7. InOrder(a)
  <2> DEFINE l == m + n
  <2> SUFFICES ASSUME NEW i \in 1 .. l, NEW j \in 1 .. l, i < j
               PROVE  Follows(a[i], a[j])
    BY <1>3 DEF InOrder
  <2>1. CASE i <= m /\ j <= m
    <3>1. i \in 1 .. m /\ j \in 1 .. m
      BY <1>3, <2>1
    <3>2. Follows(q[i], q[j])
      BY <1>0, <3>1 DEF InOrder
    <3> QED BY <3>1, <3>2, <1>3
  <2>2. CASE i <= m /\ j > m
    <3>1. i \in 1 .. m /\ a[i] = q[i] /\ j - m \in 1 .. n /\ a[j] = w[j - m]
      BY <1>3, <2>2
    <3>2. q[i] \in ToSet(q) /\ w[j - m] \in ToSet(w)
      BY <1>4, <1>5, <3>1
    <3>3. Learnt(q[i].val, pools[q[i].key]) /\ w[j - m].val = pools[w[j - m].key]
      BY <3>2 DEF PoolRows, FromRegistry
    <3> QED BY <3>1, <3>3 DEF Follows
  <2>3. CASE i > m
    <3>1. j > m
      BY <1>3, <2>3
    <3>2. /\ i - m \in 1 .. n /\ a[i] = w[i - m] /\ j - m \in 1 .. n /\ a[j] = w[j - m]
          /\ i - m < j - m
      BY <1>3, <2>3, <3>1
    <3>3. Follows(w[i - m], w[j - m])
      BY <1>0, <3>2 DEF InOrder
    <3> QED BY <3>2, <3>3
  <2>4. i <= m \/ i > m
    BY <1>3
  <2>5. j <= m \/ j > m
    BY <1>3
  <2> QED BY <2>1, <2>2, <2>3, <2>4, <2>5
<1> QED BY <1>2, <1>6, <1>7 DEF PoolRows, a

-----------------------------------------------------------------------------
(* VERSIONS AND APPENDS *)

(* The slots a version is the highest of. *)
Versions(set) == {0} \cup UNION {UNION {Bumped(e, x) : x \in ToSet(set[e])} : e \in Kinds}

(* write_set_version is the highest of those slots. *)
LEMMA VersionFacts ==
    ASSUME NEW set, RowsOK(set)
    PROVE  /\ WriteSetVersion(set) \in Nat /\ WriteSetVersion(set) \in Versions(set)
           /\ \A v \in Versions(set) : v <= WriteSetVersion(set)
<1> DEFINE M == Versions(set)
<1>1. WriteSetVersion(set) = Max(M)
  <2>1. ASSUME NEW e \in Kinds
        PROVE  UNION {Bumped(e, set[e][i]) : i \in DOMAIN set[e]} =
                  UNION {Bumped(e, x) : x \in ToSet(set[e])}
    BY DEF ToSet
  <2>2. UNION {UNION {Bumped(e, set[e][i]) : i \in DOMAIN set[e]} : e \in Kinds} =
           UNION {UNION {Bumped(e, x) : x \in ToSet(set[e])} : e \in Kinds}
    BY <2>1
  <2> QED BY <2>2 DEF WriteSetVersion, Versions
<1>2. \A v \in M : v \in Nat /\ v <= MaxSlot
  <2>1. ASSUME NEW e \in Kinds, NEW x \in ToSet(set[e]), NEW v \in Bumped(e, x) PROVE v \in Slots
    <3>1. RowOK(e, x)
      BY ListFacts DEF RowsOK
    <3> QED BY <3>1, <2>1 DEF Bumped, RowOK, PoolRecord, PoolColumns
  <2> QED BY <2>1, SlotsAre DEF Versions
<1>3. M # {}
  BY DEF Versions
<1> HIDE DEF M
<1>4. PICK x \in M : \A y \in M : x >= y
  <2>1. M \subseteq Int /\ MaxSlot \in Int
    BY <1>2, SlotsAre
  <2> QED BY <1>2, <1>3, <2>1, GreatestNatural
<1>5. Max(M) \in M /\ \A y \in M : Max(M) >= y
  BY <1>4 DEF Max
<1> QED BY <1>1, <1>2, <1>5 DEF M

(* A version does not fall when there are more rows. *)
LEMMA VersionGrows ==
    ASSUME NEW a, RowsOK(a), NEW b, RowsOK(b), \A e \in Kinds : ToSet(a[e]) \subseteq ToSet(b[e])
    PROVE  WriteSetVersion(a) <= WriteSetVersion(b)
<1>1. Versions(a) \subseteq Versions(b)
  BY DEF Versions
<1> QED BY <1>1, VersionFacts

(* More rows, of no fewer slots, are of no older version. *)
LEMMA BatchGrows ==
    ASSUME NEW a, RowsOK(a), NEW b, RowsOK(b), NEW from, NEW to, NEW upto,
           \A e \in Kinds : \A x \in ToSet(a[e]) :
              x.slot \in from .. to => x \in ToSet(b[e]) /\ x.slot \in from .. upto
    PROVE  BatchVersion(a, from, to) <= BatchVersion(b, from, upto)
<1> DEFINE c == MemRowsRetain(a, from .. to)
           d == MemRowsRetain(b, from .. upto)
<1>1. RowsOK(c) /\ RowsOK(d)
  BY RetainKeepsOK
<1>2. ASSUME NEW e \in Kinds PROVE ToSet(c[e]) \subseteq ToSet(d[e])
  <2>1. c[e] = Retained(a[e], from .. to) /\ d[e] = Retained(b[e], from .. upto)
    BY DEF MemRowsRetain
  <2>2. /\ ToSet(c[e]) = {x \in ToSet(a[e]) : x.slot \in from .. to}
        /\ ToSet(d[e]) = {x \in ToSet(b[e]) : x.slot \in from .. upto}
    <3>1. Listed(a[e]) /\ Listed(b[e])
      BY DEF RowsOK
    <3>2. ToSet(Retained(a[e], from .. to)) = {x \in ToSet(a[e]) : x.slot \in from .. to}
      BY <3>1, RetainedFacts
    <3>3. ToSet(Retained(b[e], from .. upto)) = {x \in ToSet(b[e]) : x.slot \in from .. upto}
      BY <3>1, RetainedFacts
    <3> HIDE DEF c, d
    <3> QED BY <2>1, <3>2, <3>3
  <2> QED BY <2>2
<1> QED BY <1>1, <1>2, VersionGrows DEF BatchVersion

(* The pools' rows of an append: of one version, of the pools first seen in  *)
(* the slots that are promoted, and in order.                                *)
PoolPuts(ps, pools, version, from, to) ==
    /\ \A i \in 1 .. Len(ps) :
          ps[i].table = "pools" =>
             /\ ps[i].row.ver = version
             /\ ps[i].row.key \in DOMAIN pools /\ pools[ps[i].row.key].seen \in from .. to
    /\ \A i, j \in 1 .. Len(ps) :
          i < j /\ ps[i].table = "pools" /\ ps[j].table = "pools" => Follows(ps[i].row, ps[j].row)
NoPools(ps) == \A i \in 1 .. Len(ps) : ps[i].table # "pools"

(* The puts of two entities of which at most one are pools. *)
LEMMA PoolPutsJoined ==
    ASSUME NEW a, PutsOK(a), NEW b, PutsOK(b), NEW pools, NEW version, NEW from, NEW to,
           PoolPuts(a, pools, version, from, to), PoolPuts(b, pools, version, from, to),
           NoPools(a) \/ NoPools(b)
    PROVE  /\ PoolPuts(a \o b, pools, version, from, to)
           /\ NoPools(a) /\ NoPools(b) => NoPools(a \o b)
<1> DEFINE S == ToSet(a) \cup ToSet(b)
           c == a \o b
           m == Len(a)
           n == Len(b)
           l == m + n
<1>1. a \in Seq(S) /\ b \in Seq(S)
  BY SeqMonotonic DEF PutsOK, Listed
<1> HIDE DEF S
<1>2. /\ Len(c) = l /\ m \in Nat /\ n \in Nat
      /\ \A i \in 1 .. m : c[i] = a[i]
      /\ \A i \in 1 .. l : i > m => i - m \in 1 .. n /\ c[i] = b[i - m]
  BY <1>1
<1> HIDE DEF c
<1>3. ASSUME NEW i \in 1 .. l
      PROVE  \/ i \in 1 .. m /\ c[i] = a[i]
             \/ i > m /\ i - m \in 1 .. n /\ c[i] = b[i - m]
  BY <1>2
<1>4. \A i \in 1 .. l :
         c[i].table = "pools" =>
             /\ c[i].row.ver = version
             /\ c[i].row.key \in DOMAIN pools /\ pools[c[i].row.key].seen \in from .. to
  BY <1>3 DEF PoolPuts
<1>5. ASSUME NEW i \in 1 .. l, NEW j \in 1 .. l, i < j, c[i].table = "pools", c[j].table = "pools"
      PROVE  Follows(c[i].row, c[j].row)
  <2>1. CASE i \in 1 .. m /\ c[i] = a[i] /\ j \in 1 .. m /\ c[j] = a[j]
    BY <1>5, <2>1 DEF PoolPuts
  <2>2. CASE i \in 1 .. m /\ c[i] = a[i] /\ j - m \in 1 .. n /\ c[j] = b[j - m]
    BY <1>5, <2>2 DEF NoPools
  <2>3. CASE i > m /\ i - m \in 1 .. n /\ c[i] = b[i - m]
    <3>1. j - m \in 1 .. n /\ c[j] = b[j - m] /\ i - m < j - m
      BY <1>2, <1>5, <2>3
    <3> QED BY <1>5, <2>3, <3>1 DEF PoolPuts
  <2> QED BY <1>3, <2>1, <2>2, <2>3
<1>6. NoPools(a) /\ NoPools(b) => \A i \in 1 .. l : c[i].table # "pools"
  BY <1>3 DEF NoPools
<1> HIDE DEF l
<1> QED BY <1>2, <1>4, <1>5, <1>6 DEF PoolPuts, NoPools, c

(* The puts of one entity. *)
LEMMA PutsOfPools ==
    ASSUME NEW e \in Kinds, NEW q, Listed(q), NEW pools, NEW version, NEW from, NEW to,
           e = "pool" => PoolRows(q, pools) /\ \A x \in ToSet(q) : x.slot \in from .. to
    PROVE  /\ PoolPuts(PutsOf(e, q, version), pools, version, from, to)
           /\ e # "pool" => NoPools(PutsOf(e, q, version))
<1> DEFINE ps == PutsOf(e, q, version)
           n == Len(q)
<1>1. n \in Nat /\ DOMAIN q = 1 .. n /\ \A i \in 1 .. n : q[i] \in ToSet(q)
  BY ListFacts
<1>2. ps = [i \in 1 .. n |-> [table |-> TableOf(e, q[i]), row |-> Encoded(e, q[i], version)]]
  BY <1>1 DEF PutsOf
<1>3. /\ ps = [i \in 1 .. n |-> ps[i]]
      /\ \A i \in 1 .. n : ps[i].table = TableOf(e, q[i]) /\ ps[i].row = Encoded(e, q[i], version)
  BY <1>2
<1> HIDE DEF ps, n
<1>4. Len(ps) = n
  BY <1>1, <1>3, FunctionListed
<1>5. CASE e # "pool"
  <2>1. \A i \in 1 .. n : ps[i].table # "pools"
    BY <1>3, <1>5, TableOfType
  <2> QED BY <2>1, <1>4 DEF PoolPuts, NoPools, ps
<1>6. CASE e = "pool"
  <2>1. ASSUME NEW i \in 1 .. n
        PROVE  ps[i].row.ver = version /\ ps[i].row.key = q[i].key /\ ps[i].row.val = q[i].val
    <3> DEFINE x == q[i]
    <3>1. ps[i].row = [key |-> x.key, val |-> x.val, whole |-> TRUE, ver |-> version]
      BY <1>3, <1>6 DEF Encoded
    <3> HIDE DEF x
    <3>2. ps[i].row.ver = version /\ ps[i].row.key = x.key /\ ps[i].row.val = x.val
      BY <3>1
    <3> QED BY <3>2 DEF x
  <2>2. InOrder(q) /\ \A i \in 1 .. n : FromRegistry(q[i], pools) /\ q[i].slot \in from .. to
    BY <1>1, <1>6 DEF PoolRows
  <2>3. \A i \in 1 .. n : q[i].key \in DOMAIN pools /\ pools[q[i].key].seen \in from .. to
    BY <2>2 DEF FromRegistry, Learnt
  <2>4. \A i, j \in 1 .. n : i < j => Follows(ps[i].row, ps[j].row)
    BY <2>1, <2>2 DEF InOrder, Follows, n
  <2> QED BY <1>4, <1>6, <2>1, <2>3, <2>4 DEF PoolPuts, ps
<1> QED BY <1>5, <1>6

(* The puts of a write set. *)
LEMMA PutsPools ==
    ASSUME NEW set, RowsOK(set), NEW pools, PoolRows(set["pool"], pools), NEW from, NEW to,
           \A x \in ToSet(set["pool"]) : x.slot \in from .. to
    PROVE  PoolPuts(Puts(set), pools, WriteSetVersion(set), from, to)
<1> DEFINE version == WriteSetVersion(set)
           p(e) == PutsOf(e, set[e], version)
           Good(ps) == PutsOK(ps) /\ PoolPuts(ps, pools, version, from, to)
<1>1. version \in Nat
  BY VersionType
<1>2. ASSUME NEW e \in Kinds PROVE Good(p(e)) /\ (e # "pool" => NoPools(p(e)))
  <2>1. Listed(set[e]) /\ \A i \in 1 .. Len(set[e]) : RowOK(e, set[e][i])
    BY DEF RowsOK
  <2>2. PutsOK(p(e))
    BY <1>1, <2>1, PutsOfOK
  <2>3. PoolPuts(p(e), pools, version, from, to) /\ (e # "pool" => NoPools(p(e)))
    BY <2>1, PutsOfPools
  <2> QED BY <2>2, <2>3
<1>3. Puts(set) = p("block") \o p("sol_balance") \o p("token_balance") \o p("transfer")
                     \o p("swap") \o p("pool") \o p("token") \o p("bar")
  BY DEF Puts
<1> HIDE DEF p, version
<1>4. ASSUME NEW a, Good(a), NEW b, Good(b), NoPools(a) \/ NoPools(b)
      PROVE  Good(a \o b) /\ (NoPools(a) /\ NoPools(b) => NoPools(a \o b))
  BY <1>4, PoolPutsJoined, ConcatPuts
<1> HIDE DEF Good
<1>5. /\ Good(p("block")) /\ NoPools(p("block"))
      /\ Good(p("sol_balance")) /\ NoPools(p("sol_balance"))
      /\ Good(p("token_balance")) /\ NoPools(p("token_balance"))
      /\ Good(p("transfer")) /\ NoPools(p("transfer")) /\ Good(p("swap")) /\ NoPools(p("swap"))
      /\ Good(p("pool")) /\ Good(p("token")) /\ NoPools(p("token"))
      /\ Good(p("bar")) /\ NoPools(p("bar"))
  BY <1>2, KindsAre
<1> DEFINE u == p("block") \o p("sol_balance") \o p("token_balance")
           v == u \o p("transfer") \o p("swap")
<1>6. Good(u) /\ NoPools(u)
  BY <1>4, <1>5
<1>7. Good(v) /\ NoPools(v)
  <2> HIDE DEF u
  <2> QED BY <1>4, <1>5, <1>6
<1>8. Good(v \o p("pool") \o p("token") \o p("bar"))
  <2> HIDE DEF v
  <2>1. Good(v \o p("pool"))
    BY <1>4, <1>5, <1>7
  <2>2. Good(v \o p("pool") \o p("token"))
    BY <1>4, <1>5, <2>1
  <2> QED BY <1>4, <1>5, <2>2
<1>9. Good(Puts(set))
  BY <1>3, <1>8
<1> QED BY <1>9 DEF Good, version

(* One put_ function, seen from the tables: it adds a complete row to one of *)
(* them, or none.                                                            *)
LEMMA PutShape ==
    ASSUME NEW r, NEW acc, AppendOK(r, acc), NEW put, PutOK(put), NEW t \in TableSet
    PROVE  \/ /\ ~Put(acc, put).ok \/ put.table # t
              /\ Put(acc, put).rows[t].complete = acc.rows[t].complete
              /\ \A i \in 1 .. acc.rows[t].complete :
                    Put(acc, put).rows[t].buf[i] = acc.rows[t].buf[i]
           \/ /\ put.table = t
              /\ Put(acc, put).rows[t].complete = acc.rows[t].complete + 1
              /\ Put(acc, put).rows[t].buf[acc.rows[t].complete + 1] = put.row
              /\ \A i \in 1 .. acc.rows[t].complete :
                    Put(acc, put).rows[t].buf[i] = acc.rows[t].buf[i]
<1> DEFINE u == put.table
           w == acc.rows[u]
           res == Put(acc, put)
           open == Opened(w, [put.row EXCEPT !.whole = FALSE])
           full == Written(w, put.row)
<1>1. u \in TableSet /\ WholeRow(u, put.row)
  BY DEF PutOK
<1>2. acc = [rows |-> acc.rows, room |-> acc.room, ok |-> acc.ok]
      /\ acc.room \in Nat /\ acc.ok \in BOOLEAN /\ WritersOK(acc.rows)
  BY DEF AppendOK
<1>3. /\ acc.rows = [x \in TableSet |-> acc.rows[x]]
      /\ \A x \in TableSet : WriterOK(x, acc.rows[x])
  BY <1>2 DEF WritersOK
<1>a. CASE ~acc.ok
  BY <1>a DEF Put
<1>b. CASE acc.ok /\ w.in_row
  <2>1. res.rows = acc.rows /\ res.ok = FALSE
    <3>1. res = [rows |-> acc.rows, room |-> acc.room, ok |-> FALSE]
      BY <1>b, <1>2 DEF Put
    <3> HIDE DEF res
    <3> QED BY <3>1
  <2> QED BY <2>1
<1>c. CASE acc.ok /\ ~w.in_row
  <2>0. WriterOK(u, w)
    BY <1>1, <1>3
  <2>1. /\ Extended(w, open) /\ Extended(w, full) /\ open.complete = w.complete
        /\ full.complete = w.complete + 1 /\ full.buf[w.complete + 1] = put.row
        /\ w.complete \in Nat
    <3>1. Extended(w, open) /\ Extended(w, full) /\ full.buf[full.complete] = put.row
      BY <1>1, <1>c, <2>0, RowOpened, RowWritten
    <3>2. w \in [buf : {w.buf}, complete : Nat, in_row : BOOLEAN] /\ Len(w.buf) = w.complete
      BY <1>c, <2>0 DEF WriterOK
    <3>3. open.complete = w.complete
      <4> DEFINE b == Append(w.buf, [put.row EXCEPT !.whole = FALSE])
                 B == {w.buf}
      <4> HIDE DEF b, B
      <4>1. w \in [buf : B, complete : Nat, in_row : BOOLEAN]
        BY <3>2 DEF B
      <4>2. [w EXCEPT !.buf = b, !.in_row = TRUE].complete = w.complete
        BY <4>1
      <4> QED BY <4>2 DEF Opened, b
    <3>4. full.complete = w.complete + 1
      <4> DEFINE b == Append(w.buf, put.row)
                 B == {w.buf}
                 m == Len(w.buf) + 1
      <4> HIDE DEF b, B, m
      <4>1. w \in [buf : B, complete : Nat, in_row : BOOLEAN]
        BY <3>2 DEF B
      <4>2. [w EXCEPT !.buf = b, !.complete = m].complete = m
        BY <4>1
      <4>3. m = w.complete + 1
        BY <3>2 DEF m
      <4>4. full.complete = m
        BY <4>2 DEF Written, b, m
      <4> HIDE DEF full
      <4> QED BY <4>3, <4>4
    <3> HIDE DEF open, full
    <3> QED BY <3>1, <3>2, <3>3, <3>4
  <2> HIDE DEF w
  <2>2. CASE acc.room = 0
    <3>1. res.rows = [acc.rows EXCEPT ![u] = open] /\ res.ok = FALSE
      <4>1. res = [acc EXCEPT !.ok = FALSE, !.rows[u] = open]
        BY <2>2, <1>c DEF Put, Opened, w
      <4> HIDE DEF open, res
      <4> QED BY <4>1, <1>2
    <3> HIDE DEF open, res
    <3>2. res.rows[t] = IF t = u THEN open ELSE acc.rows[t]
      BY <3>1, <1>3
    <3> QED BY <2>1, <3>1, <3>2 DEF Extended, w, res
  <2>3. CASE acc.room # 0
    <3>1. res.rows = [acc.rows EXCEPT ![u] = full]
      <4>1. res = [acc EXCEPT !.room = acc.room - 1, !.rows[u] = full]
        BY <2>3, <1>c, <1>2 DEF Put, Written, w
      <4> HIDE DEF full, res
      <4> QED BY <4>1, <1>2
    <3> HIDE DEF full, res
    <3>2. res.rows[t] = IF t = u THEN full ELSE acc.rows[t]
      BY <3>1, <1>3
    <3> QED BY <2>1, <3>2 DEF Extended, w, res
  <2> QED BY <2>2, <2>3
<1> QED BY <1>a, <1>b, <1>c

(* What the first n puts of an append added, in their order, to the writer v *)
(* of table t; and that they added all they had for it.                      *)
Added(v, w, ps, t, n) ==
    /\ \A i \in 1 .. w.complete : i > v.complete =>
          \E j \in 1 .. n : ps[j].table = t /\ w.buf[i] = ps[j].row
    /\ \A i, k \in 1 .. w.complete : i > v.complete /\ i < k =>
          \E a, b \in 1 .. n : /\ a < b /\ ps[a].table = t /\ ps[b].table = t
                              /\ w.buf[i] = ps[a].row /\ w.buf[k] = ps[b].row
AllAdded(v, w, ps, t, n) ==
    \A j \in 1 .. n : ps[j].table = t =>
        \E i \in 1 .. w.complete : i > v.complete /\ w.buf[i] = ps[j].row

(* A put that adds nothing to the table. *)
LEMMA AddNothing ==
    ASSUME NEW ps, NEW t, NEW v, NEW w, NEW x, NEW n \in Nat, w.complete \in Nat,
           x.complete = w.complete, \A i \in 1 .. w.complete : x.buf[i] = w.buf[i]
    PROVE  /\ Added(v, w, ps, t, n) => Added(v, x, ps, t, n + 1)
           /\ AllAdded(v, w, ps, t, n) /\ ps[n + 1].table # t => AllAdded(v, x, ps, t, n + 1)
<1>1. \A j \in 1 .. n : j \in 1 .. n + 1
  OBVIOUS
<1>2. \A j \in 1 .. n + 1 : j = n + 1 \/ j \in 1 .. n
  OBVIOUS
<1>3. Added(v, w, ps, t, n) => Added(v, x, ps, t, n + 1)
  BY <1>1 DEF Added
<1>4. ASSUME AllAdded(v, w, ps, t, n), ps[n + 1].table # t PROVE AllAdded(v, x, ps, t, n + 1)
  <2> SUFFICES ASSUME NEW j \in 1 .. n + 1, ps[j].table = t
               PROVE  \E i \in 1 .. x.complete : i > v.complete /\ x.buf[i] = ps[j].row
    BY DEF AllAdded
  <2>1. j \in 1 .. n
    BY <1>2, <1>4
  <2>2. PICK i \in 1 .. w.complete : i > v.complete /\ w.buf[i] = ps[j].row
    BY <1>4, <2>1 DEF AllAdded
  <2> QED BY <2>2
<1> QED BY <1>3, <1>4

(* A put that adds a row to the table. *)
LEMMA AddOne ==
    ASSUME NEW ps, NEW t, NEW v, NEW w, NEW x, NEW n \in Nat, w.complete \in Nat,
           v.complete \in Nat, v.complete <= w.complete,
           x.complete = w.complete + 1, \A i \in 1 .. w.complete : x.buf[i] = w.buf[i],
           ps[n + 1].table = t, x.buf[w.complete + 1] = ps[n + 1].row
    PROVE  /\ Added(v, w, ps, t, n) => Added(v, x, ps, t, n + 1)
           /\ AllAdded(v, w, ps, t, n) => AllAdded(v, x, ps, t, n + 1)
<1> DEFINE m == w.complete
<1>1. \A j \in 1 .. n : j \in 1 .. n + 1 /\ j < n + 1
  OBVIOUS
<1>2. \A j \in 1 .. n + 1 : j = n + 1 \/ j \in 1 .. n
  OBVIOUS
<1>3. \A i \in 1 .. m + 1 : i = m + 1 \/ i \in 1 .. m
  OBVIOUS
<1>0. n + 1 \in 1 .. n + 1 /\ m + 1 \in 1 .. m + 1 /\ m + 1 > v.complete
  OBVIOUS
<1>4. ASSUME Added(v, w, ps, t, n) PROVE Added(v, x, ps, t, n + 1)
  <2>1. ASSUME NEW i \in 1 .. m, i > v.complete
        PROVE  \E j \in 1 .. n : ps[j].table = t /\ x.buf[i] = ps[j].row
    BY <1>4, <2>1 DEF Added
  <2>2. ASSUME NEW i \in 1 .. m + 1, i > v.complete
        PROVE  \E j \in 1 .. n + 1 : ps[j].table = t /\ x.buf[i] = ps[j].row
    <3>1. CASE i \in 1 .. m
      BY <1>1, <2>1, <2>2, <3>1
    <3>2. CASE i = m + 1
      BY <1>0, <3>2
    <3> QED BY <1>3, <3>1, <3>2
  <2>3. ASSUME NEW i \in 1 .. m + 1, NEW k \in 1 .. m + 1, i > v.complete, i < k
        PROVE  \E a, b \in 1 .. n + 1 : /\ a < b /\ ps[a].table = t /\ ps[b].table = t
                                       /\ x.buf[i] = ps[a].row /\ x.buf[k] = ps[b].row
    <3>0. i \in 1 .. m
      BY <2>3
    <3>1. CASE k \in 1 .. m
      <4>1. PICK a \in 1 .. n, b \in 1 .. n :
                   /\ a < b /\ ps[a].table = t /\ ps[b].table = t
                   /\ w.buf[i] = ps[a].row /\ w.buf[k] = ps[b].row
        BY <1>4, <2>3, <3>0, <3>1 DEF Added
      <4>2. a \in 1 .. n + 1 /\ b \in 1 .. n + 1 /\ x.buf[i] = w.buf[i] /\ x.buf[k] = w.buf[k]
        BY <1>1, <3>0, <3>1
      <4> QED BY <4>1, <4>2
    <3>2. CASE k = m + 1
      <4>1. PICK a \in 1 .. n : ps[a].table = t /\ x.buf[i] = ps[a].row
        BY <2>1, <2>3, <3>0
      <4>2. a \in 1 .. n + 1 /\ a < n + 1
        BY <1>1
      <4> QED BY <1>0, <3>2, <4>1, <4>2
    <3> QED BY <1>3, <3>1, <3>2
  <2> QED BY <2>2, <2>3 DEF Added
<1>5. ASSUME AllAdded(v, w, ps, t, n) PROVE AllAdded(v, x, ps, t, n + 1)
  <2> SUFFICES ASSUME NEW j \in 1 .. n + 1, ps[j].table = t
               PROVE  \E i \in 1 .. m + 1 : i > v.complete /\ x.buf[i] = ps[j].row
    BY DEF AllAdded
  <2>1. CASE j = n + 1
    BY <1>0, <2>1
  <2>2. CASE j \in 1 .. n
    <3>1. PICK i \in 1 .. m : i > v.complete /\ w.buf[i] = ps[j].row
      BY <1>5, <2>2 DEF AllAdded
    <3>2. i \in 1 .. m + 1 /\ x.buf[i] = w.buf[i]
      OBVIOUS
    <3> QED BY <3>1, <3>2
  <2> QED BY <1>2, <2>1, <2>2
<1> QED BY <1>4, <1>5

(* store_append adds rows in the order of the write set; when it succeeds,   *)
(* all of them.                                                              *)
LEMMA AppendedAdds ==
    ASSUME WritersOK(rows), NEW ps, PutsOK(ps), NEW room \in Nat, NEW t \in TableSet
    PROVE  /\ Added(rows[t], Appended(ps, room).rows[t], ps, t, Len(ps))
           /\ Appended(ps, room).ok =>
                 AllAdded(rows[t], Appended(ps, room).rows[t], ps, t, Len(ps))
<1> DEFINE N == Len(ps)
           v == rows[t]
<1>0. N \in Nat /\ \A i \in 1 .. N : PutOK(ps[i])
  BY ListFacts DEF PutsOK
<1>1. PICK f : /\ f[0] = [rows |-> rows, room |-> room, ok |-> TRUE]
               /\ Appended(ps, room) = f[N]
               /\ \A n \in 1 .. N : f[n] = Put(f[n - 1], ps[n])
  BY <1>0, AppendedRuns
<1> HIDE DEF N
<1> DEFINE Good(n) == /\ AppendOK(rows, f[n]) /\ Added(v, f[n].rows[t], ps, t, n)
                      /\ f[n].ok => AllAdded(v, f[n].rows[t], ps, t, n)
           S == {n \in Nat : n <= N => Good(n)}
<1>a. v.complete \in Nat
  BY DEF WritersOK, WriterOK
<1>2. 0 \in S
  <2>1. f[0].rows = rows /\ f[0].room = room /\ f[0].ok = TRUE
        /\ f[0] = [rows |-> f[0].rows, room |-> f[0].room, ok |-> f[0].ok]
    BY <1>1
  <2>2. \A u \in TableSet : Extended(rows[u], rows[u])
    BY ExtendedReflexive DEF WritersOK
  <2>3. AppendOK(rows, f[0])
    BY <2>1, <2>2 DEF AppendOK
  <2>4. Added(v, f[0].rows[t], ps, t, 0) /\ AllAdded(v, f[0].rows[t], ps, t, 0)
    BY <1>a, <2>1 DEF Added, AllAdded
  <2> QED BY <2>3, <2>4
<1>3. ASSUME NEW n \in Nat, n \in S PROVE n + 1 \in S
  <2> SUFFICES ASSUME n + 1 <= N PROVE Good(n + 1)
    OBVIOUS
  <2>1. n + 1 \in 1 .. N /\ n <= N /\ (n + 1) - 1 = n
    BY <1>0
  <2>2. Good(n) /\ f[n + 1] = Put(f[n], ps[n + 1]) /\ PutOK(ps[n + 1])
    BY <1>0, <1>1, <1>3, <2>1
  <2> DEFINE old == f[n]
             new == f[n + 1]
             w == old.rows[t]
             x == new.rows[t]
             put == ps[n + 1]
  <2>3. AppendOK(rows, new) /\ (new.ok => old.ok)
    BY <2>2, PutFacts
  <2>4. w.complete \in Nat /\ v.complete <= w.complete
    BY <2>2 DEF AppendOK, WritersOK, WriterOK, Extended
  <2>5. \/ /\ ~new.ok \/ put.table # t
           /\ x.complete = w.complete /\ \A i \in 1 .. w.complete : x.buf[i] = w.buf[i]
        \/ /\ put.table = t /\ x.complete = w.complete + 1 /\ x.buf[w.complete + 1] = put.row
           /\ \A i \in 1 .. w.complete : x.buf[i] = w.buf[i]
    <3>1. AppendOK(rows, old) /\ PutOK(put) /\ new = Put(old, put)
      BY <2>2
    <3> HIDE DEF old, new, put
    <3> QED BY <3>1, PutShape
  <2>6. Added(v, w, ps, t, n) /\ (old.ok => AllAdded(v, w, ps, t, n))
    BY <2>2
  <2> HIDE DEF old, new, w, x, v
  <2>7. CASE /\ ~new.ok \/ put.table # t
             /\ x.complete = w.complete /\ \A i \in 1 .. w.complete : x.buf[i] = w.buf[i]
    <3>1. /\ Added(v, w, ps, t, n) => Added(v, x, ps, t, n + 1)
          /\ AllAdded(v, w, ps, t, n) /\ put.table # t => AllAdded(v, x, ps, t, n + 1)
      BY <2>4, <2>7, AddNothing
    <3> QED BY <2>3, <2>6, <2>7, <3>1 DEF new, x
  <2>8. CASE /\ put.table = t /\ x.complete = w.complete + 1 /\ x.buf[w.complete + 1] = put.row
             /\ \A i \in 1 .. w.complete : x.buf[i] = w.buf[i]
    <3>1. /\ Added(v, w, ps, t, n) => Added(v, x, ps, t, n + 1)
          /\ AllAdded(v, w, ps, t, n) => AllAdded(v, x, ps, t, n + 1)
      BY <1>a, <2>4, <2>8, AddOne
    <3> QED BY <2>3, <2>6, <3>1 DEF new, x
  <2> QED BY <2>5, <2>7, <2>8
<1> HIDE DEF S, Good
<1>4. N \in S
  BY <1>0, <1>2, <1>3, SetInduction
<1>5. Good(N)
  BY <1>0, <1>4 DEF S
<1> QED BY <1>1, <1>5 DEF Good, N

-----------------------------------------------------------------------------
(* INSERTS, ROW BY ROW *)

(* What an insert makes of a table's rows: every one is as it was, or is one *)
(* of the rows sent.                                                         *)
Came(T, body, n, U) ==
    \A k \in DOMAIN U :
        \/ k \in DOMAIN T /\ U[k] = T[k]
        \/ \E i \in 1 .. n :
              body[i].key = k /\ U[k].ver = body[i].ver /\ U[k].val = body[i].val

(* The row sent last of a key that no other is newer than. *)
LastSent(T, body, n, l) ==
    /\ l \in 1 .. n
    /\ \A i \in 1 .. n : body[i].key = body[l].key => i <= l /\ body[i].ver <= body[l].ver
    /\ Known(T, body[l].key) => T[body[l].key].ver <= body[l].ver
Won(T, body, n, U) ==
    \A l \in 1 .. n :
        LastSent(T, body, n, l) =>
            /\ body[l].key \in DOMAIN U
            /\ U[body[l].key].ver = body[l].ver /\ U[body[l].key].val = body[l].val

(* Row x was put into table T, which it made U. *)
Replaced(T, x, U) ==
    /\ DOMAIN U = DOMAIN T \cup {x.key}
    /\ \A k \in DOMAIN U : k # x.key => k \in DOMAIN T /\ U[k] = T[k]
    /\ \/ Known(T, x.key) /\ T[x.key].ver > x.ver /\ U = T
       \/ /\ ~(Known(T, x.key) /\ T[x.key].ver > x.ver)
          /\ U[x.key].ver = x.ver /\ U[x.key].val = x.val

(* ReplacingMergeTree, row by row. *)
LEMMA ReplacingCases ==
    ASSUME NEW T, NEW row
    PROVE  Replaced(T, row, Replacing(T, row))
<1> DEFINE k == row.key
           U == Replacing(T, row)
           new == [ver |-> row.ver, val |-> row.val, whole |-> row.whole]
<1> SUFFICES Replaced(T, row, U)
  OBVIOUS
<1>1. CASE Known(T, k) /\ T[k].ver > row.ver
  <2>1. U = T
    BY <1>1 DEF Replacing
  <2> HIDE DEF U
  <2> QED BY <1>1, <2>1 DEF Known, Replaced
<1>2. CASE ~(Known(T, k) /\ T[k].ver > row.ver)
  <2>1. U = With(T, k, new)
    BY <1>2 DEF Replacing
  <2>2. new.ver = row.ver /\ new.val = row.val
    OBVIOUS
  <2> HIDE DEF new
  <2> HIDE DEF U
  <2>3. /\ DOMAIN U = DOMAIN T \cup {k}
        /\ \A x \in DOMAIN U : U[x] = IF x = k THEN new ELSE T[x]
    BY <2>1 DEF With
  <2> QED BY <1>2, <2>2, <2>3 DEF Replaced
<1> QED BY <1>1, <1>2

(* One row of an insert, after n others. *)
LEMMA ReplaceOne ==
    ASSUME NEW T, \A k \in DOMAIN T : T[k].ver \in Nat,
           NEW body, NEW n \in Nat, NEW V, NEW U, U = Replacing(V, body[n + 1]),
           \A i \in 1 .. n + 1 : body[i].ver \in Nat,
           Came(T, body, n, V), Won(T, body, n, V)
    PROVE  Came(T, body, n + 1, U) /\ Won(T, body, n + 1, U)
<1> DEFINE m == n + 1
           row == body[m]
<1>0. m \in 1 .. m /\ \A i \in 1 .. n : i \in 1 .. m
  OBVIOUS
<1>1. /\ DOMAIN U = DOMAIN V \cup {row.key}
      /\ \A k \in DOMAIN U : k # row.key => k \in DOMAIN V /\ U[k] = V[k]
      /\ \/ Known(V, row.key) /\ V[row.key].ver > row.ver /\ U = V
         \/ /\ ~(Known(V, row.key) /\ V[row.key].ver > row.ver)
            /\ U[row.key].ver = row.ver /\ U[row.key].val = row.val
  <2>1. Replaced(V, row, U)
    BY ReplacingCases
  <2> HIDE DEF row
  <2> QED BY <2>1 DEF Replaced
<1>2. \A i \in 1 .. m : i = m \/ i \in 1 .. n
  OBVIOUS
<1>a. m = n + 1
  OBVIOUS
<1> HIDE DEF m
<1>3. Came(T, body, m, U)
  <2> SUFFICES ASSUME NEW k \in DOMAIN U
               PROVE  \/ k \in DOMAIN T /\ U[k] = T[k]
                      \/ \E i \in 1 .. m :
                            body[i].key = k /\ U[k].ver = body[i].ver /\ U[k].val = body[i].val
    BY DEF Came
  <2>1. CASE k \in DOMAIN V /\ U[k] = V[k]
    BY <1>0, <2>1 DEF Came
  <2>2. CASE k = row.key /\ U[k].ver = row.ver /\ U[k].val = row.val
    BY <1>0, <2>2
  <2> QED BY <1>1, <2>1, <2>2 DEF Known
<1>4. ASSUME NEW l \in 1 .. m, LastSent(T, body, m, l)
      PROVE  /\ body[l].key \in DOMAIN U
             /\ U[body[l].key].ver = body[l].ver /\ U[body[l].key].val = body[l].val
  <2>1. CASE l = m
    <3>1. ASSUME Known(V, row.key), V[row.key].ver > row.ver PROVE FALSE
      <4>1. CASE row.key \in DOMAIN T /\ V[row.key] = T[row.key]
        <5>1. T[row.key].ver <= row.ver /\ T[row.key].ver > row.ver
          BY <1>4, <2>1, <3>1, <4>1 DEF LastSent, Known
        <5>2. row.ver \in Nat
          BY <1>0, <1>a
        <5>3. T[row.key].ver \in Nat
          BY <4>1
        <5> QED BY <5>1, <5>2, <5>3
      <4>2. ASSUME NEW i \in 1 .. n, body[i].key = row.key, V[row.key].ver = body[i].ver
            PROVE  FALSE
        <5>1. body[i].ver <= row.ver /\ body[i].ver \in Nat /\ row.ver \in Nat
          BY <1>0, <1>4, <1>a, <2>1, <4>2 DEF LastSent
        <5> QED BY <3>1, <4>2, <5>1
      <4> QED BY <3>1, <4>1, <4>2 DEF Came, Known
    <3>2. U[row.key].ver = row.ver /\ U[row.key].val = row.val
      BY <1>1, <3>1
    <3> QED BY <1>1, <2>1, <3>2
  <2>2. CASE l \in 1 .. n
    <3>1. row.key # body[l].key
      <4> SUFFICES ASSUME row.key = body[l].key PROVE FALSE
        OBVIOUS
      <4>1. m <= l
        BY <1>0, <1>4 DEF LastSent
      <4> QED BY <4>1, <1>a, <2>2
    <3>2. LastSent(T, body, n, l)
      BY <1>0, <1>4, <2>2 DEF LastSent
    <3>3. /\ body[l].key \in DOMAIN V
          /\ V[body[l].key].ver = body[l].ver /\ V[body[l].key].val = body[l].val
      BY <2>2, <3>2 DEF Won
    <3> QED BY <1>1, <3>1, <3>3
  <2> QED BY <1>2, <2>1, <2>2
<1>5. Won(T, body, m, U)
  BY <1>4 DEF Won
<1> QED BY <1>3, <1>5 DEF m

(* An insert: the row sent last of a key wins unless one is newer. *)
LEMMA MergedRows ==
    ASSUME NEW table, \A k \in DOMAIN table : table[k].ver \in Nat,
           NEW body, Len(body) \in Nat, \A i \in 1 .. Len(body) : body[i].ver \in Nat
    PROVE  /\ Came(table, body, Len(body), Merged(table, body))
           /\ Won(table, body, Len(body), Merged(table, body))
<1> DEFINE N == Len(body)
<1>1. PICK f : /\ f[0] = table /\ Merged(table, body) = f[N]
               /\ \A n \in 1 .. N : f[n] = Replacing(f[n - 1], body[n])
  BY MergedRuns
<1>0. N \in Nat /\ \A i \in 1 .. N : body[i].ver \in Nat
  OBVIOUS
<1> HIDE DEF N
<1> DEFINE Good(n) == Came(table, body, n, f[n]) /\ Won(table, body, n, f[n])
           S == {n \in Nat : n <= N => Good(n)}
<1>2. 0 \in S
  <2>1. \A l \in 1 .. 0 : FALSE
    OBVIOUS
  <2>2. Good(0)
    BY <1>1, <2>1 DEF Came, Won
  <2> QED BY <2>2
<1>3. ASSUME NEW n \in Nat, n \in S PROVE n + 1 \in S
  <2> SUFFICES ASSUME n + 1 <= N PROVE Good(n + 1)
    OBVIOUS
  <2>1. n + 1 \in 1 .. N /\ n <= N /\ (n + 1) - 1 = n
    BY <1>0
  <2>2. Good(n) /\ f[n + 1] = Replacing(f[n], body[n + 1])
    BY <1>1, <1>3, <2>1
  <2>3. \A i \in 1 .. n + 1 : body[i].ver \in Nat
    BY <1>0, <2>1
  <2> QED BY <2>2, <2>3, ReplaceOne
<1> HIDE DEF S, Good
<1>4. N \in S
  BY <1>0, <1>2, <1>3, SetInduction
<1>5. Good(N)
  BY <1>0, <1>4 DEF S
<1> QED BY <1>1, <1>5 DEF Good, N

-----------------------------------------------------------------------------
(* THE STEPS, WHILE THE PROCESS LIVES *)

(* The version of a promotion is a number. *)
LEMMA BatchIsNat ==
    ASSUME NEW m, RowsOK(m), NEW from, NEW to
    PROVE  BatchVersion(m, from, to) \in Nat
BY RetainKeepsOK, VersionFacts DEF BatchVersion

(* What a step of the registry and of the confirmed tier leaves as it was. *)
LEMMA OvertakenStays ==
    ASSUME NEW w, WriterOK("pools", w), NEW T, TableOK("pools", T),
           NEW pools, NEW more, Grown(pools, more),
           NEW m, RowsOK(m), NEW k, RowsOK(k), NEW done, NEW due,
           BatchVersion(m, done + 1, due) <= BatchVersion(k, done + 1, due),
           AllOvertaken(w, T, pools, m, done, due)
    PROVE  AllOvertaken(w, T, more, k, done, due)
<1> DEFINE b == BatchVersion(m, done + 1, due)
           c == BatchVersion(k, done + 1, due)
<1>1. b \in Nat /\ c \in Nat /\ b <= c
  BY BatchIsNat
<1>2. ASSUME NEW key, NEW ver \in Nat, Overtaken(key, ver, pools, m, done, due)
      PROVE  Overtaken(key, ver, more, k, done, due)
  <2>1. /\ key \in DOMAIN pools /\ key \in DOMAIN more /\ more[key].seen = pools[key].seen
        /\ pools[key].seen > done => pools[key].seen <= due /\ ver <= b
    BY <1>2 DEF Overtaken, Grown, Learnt
  <2> HIDE DEF b, c
  <2>2. ver <= b => ver <= c
    BY <1>1
  <2> QED BY <2>1, <2>2 DEF Overtaken, c
<1>3. \A i \in 1 .. w.complete : w.buf[i].ver \in Nat
  BY DEF WriterOK, WholeRow, EntryOK
<1>4. \A key \in DOMAIN T : T[key].ver \in Nat
  BY DEF TableOK, StoredOK
<1> HIDE DEF b, c
<1> QED BY <1>2, <1>3, <1>4 DEF AllOvertaken

(* The registry never forgets a pool. *)
LEMMA LastingStays ==
    ASSUME NEW S, NEW w, NEW T, NEW pools, NEW more, Grown(pools, more), NEW done,
           AllLasting(S, w, T, pools, done)
    PROVE  AllLasting(S, w, T, more, done)
BY DEF AllLasting, Grown, Learnt

(* What retaining and appending do to the sets of rows. *)
LEMMA RetainedSet ==
    ASSUME NEW m, RowsOK(m), NEW keep, NEW e \in Kinds
    PROVE  ToSet(MemRowsRetain(m, keep)[e]) = {x \in ToSet(m[e]) : x.slot \in keep}
<1>1. MemRowsRetain(m, keep)[e] = Retained(m[e], keep)
  BY DEF MemRowsRetain
<1>2. ToSet(Retained(m[e], keep)) = {x \in ToSet(m[e]) : x.slot \in keep}
  BY RetainedFacts DEF RowsOK
<1> DEFINE d == MemRowsRetain(m, keep)[e]
           f == Retained(m[e], keep)
           S == {x \in ToSet(m[e]) : x.slot \in keep}
<1>3. d = f /\ ToSet(f) = S
  BY <1>1, <1>2
<1> HIDE DEF d, f, S
<1>4. ToSet(d) = S
  BY <1>3
<1> QED BY <1>4 DEF d, S

(* Appending rows drops none. *)
LEMMA AppendedSet ==
    ASSUME NEW m, RowsOK(m), NEW set, RowsOK(set), NEW e \in Kinds
    PROVE  \A x \in ToSet(m[e]) : x \in ToSet(MemRowsAppend(m, set)[e])
<1> DEFINE q == m[e]
           w == set[e]
           S == ToSet(q) \cup ToSet(w)
           a == q \o w
<1>0. MemRowsAppend(m, set)[e] = a
  BY DEF MemRowsAppend
<1>1. q \in Seq(S) /\ w \in Seq(S) /\ Listed(q)
  BY SeqMonotonic DEF RowsOK, Listed
<1> HIDE DEF S, q, w
<1>2. /\ a \in Seq(S) /\ Len(a) = Len(q) + Len(w) /\ Len(q) \in Nat /\ Len(w) \in Nat
      /\ \A i \in 1 .. Len(q) : a[i] = q[i]
  BY <1>1
<1> HIDE DEF a
<1>3. Listed(a)
  BY <1>2, SeqListed
<1>4. ASSUME NEW x \in ToSet(q) PROVE x \in ToSet(a)
  <2>1. PICK i \in 1 .. Len(q) : x = q[i]
    BY <1>1, ListFacts
  <2>2. i \in 1 .. Len(a) /\ a[i] = x
    BY <1>2, <2>1
  <2> QED BY <1>3, <2>2, ListFacts
<1> QED BY <1>0, <1>4 DEF q

(* A step of the registry or of the confirmed tier that drops nothing that   *)
(* is still to be promoted.                                                  *)
LEMMA SourceHistory ==
    ASSUME FinalizedInv, History, RowsOK(conf'), Grown(reg.pools, reg'.pools),
           PoolRows(conf'["pool"], reg'.pools),
           UNCHANGED <<promoted, retry, final, rows, db, mem>>,
           \A e \in Kinds : \A x \in ToSet(conf[e]) :
              x.slot \in promoted + 1 .. retry => x \in ToSet(conf'[e])
    PROVE  History'
<1>0. /\ promoted' = promoted /\ retry' = retry /\ final' = final /\ rows' = rows /\ db' = db
      /\ mem' = mem
  OBVIOUS
<1>1. /\ RowsOK(conf) /\ WriterOK("pools", rows["pools"]) /\ TableOK("pools", db["pools"])
  BY TablesAre DEF FinalizedInv, WritersOK, DatabaseOK
<1>2. BatchVersion(conf, promoted + 1, retry) <= BatchVersion(conf', promoted + 1, retry)
  <2> DEFINE f == promoted + 1
             c == conf'
  <2>1. \A e \in Kinds : \A x \in ToSet(conf[e]) :
           x.slot \in f .. retry => x \in ToSet(c[e]) /\ x.slot \in f .. retry
    OBVIOUS
  <2>2. RowsOK(c)
    OBVIOUS
  <2> HIDE DEF f, c
  <2>3. BatchVersion(conf, f, retry) <= BatchVersion(c, f, retry)
    BY <1>1, <2>1, <2>2, BatchGrows
  <2> QED BY <2>3 DEF f, c
<1>3. AllOvertaken(rows["pools"], db["pools"], reg'.pools, conf', promoted, retry)
  BY <1>1, <1>2, OvertakenStays DEF History
<1>4. AllLasting(mem.rows["pools"], rows["pools"], db["pools"], reg'.pools, promoted)
  BY LastingStays DEF History
<1> QED BY <1>0, <1>3, <1>4 DEF History

(* A block that is observed comes after what the registry knew. *)
LEMMA IndexHistory ==
    ASSUME FinalizedInv, History, NEW s \in Slots, Index(s)
    PROVE  History'
<1> DEFINE r == Observed(reg, s)
           set == WriteSet(s, r, life')
<1>0. /\ reg' = r /\ life' = life \cup {s} /\ conf' = MemRowsAppend(conf, set)
      /\ UNCHANGED <<promoted, retry, final, rows, db, mem>>
  BY DEF Index, bounds
<1>1. r \in Registries /\ Grown(reg.pools, r.pools) /\ reg \in Registries /\ RowsOK(conf)
  BY ObservedFacts DEF FinalizedInv
<1> HIDE DEF r
<1>2. life' \in SUBSET Slots /\ s \in life'
  BY <1>0 DEF FinalizedInv, Scalars
<1>3. RowsOK(set) /\ PoolRows(set["pool"], r.pools)
      /\ \A x \in ToSet(set["pool"]) : x.val = r.pools[x.key]
  BY <1>1, <1>2, WriteSetOK, PoolRowsWritten
<1> HIDE DEF set
<1>4. RowsOK(conf')
  BY <1>0, <1>1, <1>3, AppendKeepsOK
<1>5. PoolRows(conf'["pool"], reg'.pools)
  <2>1. PoolRows(conf["pool"], r.pools)
    BY <1>1, PoolRowsGrown DEF History, Registries
  <2>2. conf'["pool"] = conf["pool"] \o set["pool"]
    BY <1>0, KindsAre DEF MemRowsAppend
  <2> DEFINE q == conf["pool"]
             w == set["pool"]
  <2>3. PoolRows(q, r.pools) /\ PoolRows(w, r.pools) /\ \A x \in ToSet(w) : x.val = r.pools[x.key]
    BY <1>3, <2>1
  <2> HIDE DEF q, w
  <2>4. PoolRows(q \o w, r.pools)
    BY <2>3, PoolRowsAppended
  <2> QED BY <1>0, <2>2, <2>4 DEF q, w
<1>6. \A e \in Kinds : \A x \in ToSet(conf[e]) : x \in ToSet(conf'[e])
  BY <1>0, <1>1, <1>3, AppendedSet
<1> QED BY <1>0, <1>1, <1>4, <1>5, <1>6, SourceHistory

(* A reorg drops only rows of slots no append had. *)
LEMMA ReorgHistory ==
    ASSUME FinalizedInv, History, NEW from \in Slots, Reorg(from)
    PROVE  History'
<1> DEFINE r == Observed(reg, from)
           set == WriteSet(from, r, life')
           keep == {s \in Slots : s < from}
           left == MemRowsRetain(conf, keep)
<1>0. /\ reg' = r /\ life' = {s \in life : s < from} \cup {from}
      /\ conf' = MemRowsAppend(left, set) /\ from > final
      /\ UNCHANGED <<promoted, retry, final, rows, db, mem>>
  BY DEF Reorg
<1>1. r \in Registries /\ Grown(reg.pools, r.pools) /\ reg \in Registries /\ RowsOK(conf)
  BY ObservedFacts DEF FinalizedInv
<1> HIDE DEF r
<1>2. life' \in SUBSET Slots /\ from \in life'
  BY <1>0 DEF FinalizedInv, Scalars
<1>3. RowsOK(set) /\ PoolRows(set["pool"], r.pools)
      /\ \A x \in ToSet(set["pool"]) : x.val = r.pools[x.key]
  BY <1>1, <1>2, WriteSetOK, PoolRowsWritten
<1> HIDE DEF set
<1>a. RowsOK(left) /\ \A e \in Kinds : ToSet(left[e]) = {x \in ToSet(conf[e]) : x.slot \in keep}
  BY <1>1, RetainKeepsOK, RetainedSet
<1>b. PoolRows(left["pool"], r.pools)
  <2>1. PoolRows(conf["pool"], r.pools)
    BY <1>1, PoolRowsGrown DEF History, Registries
  <2>2. left["pool"] = Retained(conf["pool"], keep)
    BY KindsAre DEF MemRowsRetain
  <2> HIDE DEF left
  <2> QED BY <2>1, <2>2, PoolRowsRetained
<1> HIDE DEF left
<1>4. RowsOK(conf')
  BY <1>0, <1>a, <1>3, AppendKeepsOK
<1>5. PoolRows(conf'["pool"], reg'.pools)
  <2>2. conf'["pool"] = left["pool"] \o set["pool"]
    BY <1>0, KindsAre DEF MemRowsAppend
  <2> DEFINE q == left["pool"]
             w == set["pool"]
  <2>3. PoolRows(q, r.pools) /\ PoolRows(w, r.pools) /\ \A x \in ToSet(w) : x.val = r.pools[x.key]
    BY <1>3, <1>b
  <2> HIDE DEF q, w
  <2>4. PoolRows(q \o w, r.pools)
    BY <2>3, PoolRowsAppended
  <2> QED BY <1>0, <2>2, <2>4 DEF q, w
<1>6. ASSUME NEW e \in Kinds, NEW x \in ToSet(conf[e]), x.slot \in promoted + 1 .. retry
      PROVE  x \in ToSet(conf'[e])
  <2>1. x.slot \in Slots
    BY <1>1, ListFacts DEF RowsOK, RowOK
  <2>2. x.slot \in keep
    <3>1. x.slot \in Nat /\ x.slot <= retry /\ retry <= final /\ final < from
      BY <1>0, <1>6, <2>1, SlotsAre DEF History, FinalizedInv, Scalars
    <3> QED BY <2>1, <3>1, SlotsAre DEF History, FinalizedInv, Scalars
  <2>3. x \in ToSet(left[e])
    BY <1>a, <2>2
  <2> QED BY <1>0, <1>a, <1>3, <2>3, AppendedSet
<1> QED BY <1>0, <1>1, <1>4, <1>5, <1>6, SourceHistory

(* Pruning drops only rows of slots that are promoted. *)
LEMMA PruneHistory ==
    ASSUME FinalizedInv, History, NEW below \in Slots, Prune(below)
    PROVE  History'
<1> DEFINE keep == {s \in Slots : s >= below}
           left == MemRowsRetain(conf, keep)
<1>0. /\ conf' = left /\ reg' = reg /\ below \in 1 .. safe + 1
      /\ UNCHANGED <<promoted, retry, final, rows, db, mem>>
  BY DEF Prune, bounds
<1>1. reg \in Registries /\ RowsOK(conf) /\ Grown(reg.pools, reg'.pools)
  BY <1>0, GrownReflexive DEF FinalizedInv, Registries
<1>2. RowsOK(left) /\ \A e \in Kinds : ToSet(left[e]) = {x \in ToSet(conf[e]) : x.slot \in keep}
  BY <1>1, RetainKeepsOK, RetainedSet
<1>3. PoolRows(left["pool"], reg'.pools)
  <2>1. PoolRows(conf["pool"], reg'.pools)
    BY <1>0 DEF History
  <2>2. left["pool"] = Retained(conf["pool"], keep)
    BY KindsAre DEF MemRowsRetain
  <2> HIDE DEF left
  <2> QED BY <2>1, <2>2, PoolRowsRetained
<1>4. ASSUME NEW e \in Kinds, NEW x \in ToSet(conf[e]), x.slot \in promoted + 1 .. retry
      PROVE  x \in ToSet(left[e])
  <2>1. x.slot \in Slots
    BY <1>1, ListFacts DEF RowsOK, RowOK
  <2>2. x.slot \in keep
    BY <1>0, <1>4, <2>1, SlotsAre DEF FinalizedInv, Scalars
  <2> QED BY <1>2, <2>2
<1> HIDE DEF left
<1> QED BY <1>0, <1>1, <1>2, <1>3, <1>4, SourceHistory

(* An append of the slots done + 1 .. to, by which v became w. *)
PoolsAppended(v, w, ps, pools, version, done, to) ==
    /\ WriterOK("pools", v) /\ WriterOK("pools", w) /\ Extended(v, w)
    /\ PutsOK(ps) /\ PoolPuts(ps, pools, version, done + 1, to)
    /\ Added(v, w, ps, "pools", Len(ps))
    /\ done \in Nat /\ to \in Nat /\ done < to
    /\ \A key \in DOMAIN pools : pools[key].seen \in Nat

(* The rows it added. *)
LEMMA AddedRows ==
    ASSUME NEW v, NEW w, NEW ps, NEW pools, NEW version, NEW done, NEW to,
           PoolsAppended(v, w, ps, pools, version, done, to)
    PROVE  /\ v.complete \in Nat /\ w.complete \in Nat /\ v.complete <= w.complete
           /\ \A i \in 1 .. v.complete : i \in 1 .. w.complete /\ w.buf[i] = v.buf[i]
           /\ \A i \in 1 .. w.complete :
                 \/ i \in 1 .. v.complete
                 \/ /\ i > v.complete /\ w.buf[i].ver = version /\ w.buf[i].key \in DOMAIN pools
                    /\ pools[w.buf[i].key].seen \in done + 1 .. to
<1>1. v.complete \in Nat /\ w.complete \in Nat /\ v.complete <= w.complete
      /\ \A i \in 1 .. v.complete : w.buf[i] = v.buf[i]
  BY DEF PoolsAppended, WriterOK, Extended
<1>2. ASSUME NEW i \in 1 .. w.complete, i \notin 1 .. v.complete
      PROVE  /\ i > v.complete /\ w.buf[i].ver = version /\ w.buf[i].key \in DOMAIN pools
             /\ pools[w.buf[i].key].seen \in done + 1 .. to
  <2>1. i > v.complete
    BY <1>1, <1>2
  <2>2. PICK j \in 1 .. Len(ps) : ps[j].table = "pools" /\ w.buf[i] = ps[j].row
    BY <2>1 DEF PoolsAppended, Added
  <2> QED BY <2>1, <2>2 DEF PoolsAppended, PoolPuts
<1> QED BY <1>1, <1>2

(* What an append sends is overtaken by its retry, or promoted. *)
LEMMA PromotedOvertaken ==
    ASSUME NEW v, NEW w, NEW ps, NEW pools, NEW version, NEW done, NEW to,
           PoolsAppended(v, w, ps, pools, version, done, to),
           NEW T, TableOK("pools", T), NEW m, RowsOK(m), NEW due \in Nat, due <= to,
           version = BatchVersion(m, done + 1, to),
           AllOvertaken(v, T, pools, m, done, due)
    PROVE  AllOvertaken(w, T, pools, m, done, to) /\ AllOvertaken(w, T, pools, m, to, 0)
<1> DEFINE b == BatchVersion(m, done + 1, due)
<1>0. /\ done \in Nat /\ to \in Nat /\ done < to
      /\ \A key \in DOMAIN pools : pools[key].seen \in Nat
  BY DEF PoolsAppended
<1>1. b \in Nat /\ version \in Nat /\ b <= version
  <2>1. \A x \in done + 1 .. due : x \in done + 1 .. to
    BY <1>0
  <2>2. b <= BatchVersion(m, done + 1, to)
    BY <2>1, BatchGrows
  <2> QED BY <2>2, BatchIsNat
<1>2. ASSUME NEW key, NEW ver \in Nat, Overtaken(key, ver, pools, m, done, due)
      PROVE  Overtaken(key, ver, pools, m, done, to) /\ Overtaken(key, ver, pools, m, to, 0)
  <2>1. key \in DOMAIN pools /\ (pools[key].seen > done => pools[key].seen <= due /\ ver <= b)
    BY <1>2 DEF Overtaken
  <2>2. pools[key].seen \in Nat
    BY <1>0, <2>1
  <2> HIDE DEF b
  <2>3. pools[key].seen > done => pools[key].seen <= to /\ ver <= version
    BY <1>0, <1>1, <2>1, <2>2
  <2>4. ~(pools[key].seen > to)
    BY <1>0, <2>1, <2>2
  <2> QED BY <2>1, <2>3, <2>4 DEF Overtaken
<1>3. ASSUME NEW key, key \in DOMAIN pools, pools[key].seen \in done + 1 .. to
      PROVE  /\ Overtaken(key, version, pools, m, done, to)
             /\ Overtaken(key, version, pools, m, to, 0)
  <2>1. pools[key].seen <= to /\ ~(pools[key].seen > to) /\ version <= version
    BY <1>0, <1>1, <1>3
  <2> QED BY <1>3, <2>1 DEF Overtaken
<1>4. ASSUME NEW i \in 1 .. w.complete
      PROVE  /\ Overtaken(w.buf[i].key, w.buf[i].ver, pools, m, done, to)
             /\ Overtaken(w.buf[i].key, w.buf[i].ver, pools, m, to, 0)
  <2>1. CASE i \in 1 .. v.complete
    <3>1. w.buf[i] = v.buf[i]
      BY <2>1, AddedRows
    <3>2. v.buf[i].ver \in Nat
      BY <2>1 DEF PoolsAppended, WriterOK, WholeRow, EntryOK
    <3>3. Overtaken(v.buf[i].key, v.buf[i].ver, pools, m, done, due)
      BY <2>1 DEF AllOvertaken
    <3> HIDE DEF b
    <3> QED BY <1>2, <3>1, <3>2, <3>3
  <2>2. CASE i \notin 1 .. v.complete
    <3>1. /\ w.buf[i].ver = version /\ w.buf[i].key \in DOMAIN pools
          /\ pools[w.buf[i].key].seen \in done + 1 .. to
      BY <2>2, AddedRows
    <3> QED BY <1>3, <3>1
  <2> QED BY <2>1, <2>2
<1>5. ASSUME NEW key \in DOMAIN T
      PROVE  /\ Overtaken(key, T[key].ver, pools, m, done, to)
             /\ Overtaken(key, T[key].ver, pools, m, to, 0)
  BY <1>2 DEF AllOvertaken, TableOK, StoredOK
<1> QED BY <1>4, <1>5 DEF AllOvertaken

(* What was promoted lasts through an append. *)
LEMMA PromotedLasting ==
    ASSUME NEW v, NEW w, NEW ps, NEW pools, NEW version, NEW done, NEW to,
           PoolsAppended(v, w, ps, pools, version, done, to),
           NEW T, NEW S, AllLasting(S, v, T, pools, done)
    PROVE  AllLasting(S, w, T, pools, done) /\ AllLasting(S, w, T, pools, to)
<1>0. /\ done \in Nat /\ to \in Nat /\ done < to
      /\ \A key \in DOMAIN pools : pools[key].seen \in Nat
  BY DEF PoolsAppended
<1> SUFFICES ASSUME NEW x \in S
             PROVE  /\ x.val.sides \in SideLists
                    /\ x.key \in DOMAIN pools /\ pools[x.key].seen <= done
                    /\ pools[x.key].seen <= to /\ Lasting(x, w, T)
  BY DEF AllLasting
<1>1. /\ x.val.sides \in SideLists
      /\ x.key \in DOMAIN pools /\ pools[x.key].seen <= done /\ Lasting(x, v, T)
  BY DEF AllLasting
<1>2. ASSUME NEW i \in 1 .. w.complete, w.buf[i].key = x.key PROVE i \in 1 .. v.complete
  <2> SUFFICES ASSUME i \notin 1 .. v.complete PROVE FALSE
    OBVIOUS
  <2>1. pools[x.key].seen \in done + 1 .. to
    BY <1>2, AddedRows
  <2> QED BY <1>0, <1>1, <2>1
<1>3. \A i \in 1 .. v.complete : i \in 1 .. w.complete /\ w.buf[i] = v.buf[i]
  BY AddedRows
<1>4. Lasting(x, w, T)
  <2>1. ASSUME NEW l \in 1 .. v.complete, LastRow(v, T, x.key, l), Learnt(x.val, v.buf[l].val)
        PROVE  Lasting(x, w, T)
    <3>1. l \in 1 .. w.complete /\ w.buf[l] = v.buf[l]
      BY <1>3
    <3>2. LastRow(w, T, x.key, l)
      BY <1>2, <1>3, <2>1, <3>1 DEF LastRow
    <3> QED BY <2>1, <3>1, <3>2 DEF Lasting
  <2>2. CASE /\ \A i \in 1 .. v.complete : v.buf[i].key # x.key
             /\ Known(T, x.key) /\ Learnt(x.val, T[x.key].val)
    BY <1>2, <1>3, <2>2 DEF Lasting
  <2> QED BY <1>1, <2>1, <2>2 DEF Lasting
<1> QED BY <1>0, <1>1, <1>4

(* What it promoted lasts: the last row of the pool is one of those it added. *)
LEMMA AppendedLasting ==
    ASSUME NEW v, NEW w, NEW ps, NEW pools, NEW version, NEW done, NEW to,
           PoolsAppended(v, w, ps, pools, version, done, to),
           AllAdded(v, w, ps, "pools", Len(ps)),
           NEW T, TableOK("pools", T), NEW m, RowsOK(m), NEW due \in Nat, due <= to,
           version = BatchVersion(m, done + 1, to),
           AllOvertaken(v, T, pools, m, done, due),
           NEW j \in 1 .. Len(ps), ps[j].table = "pools"
    PROVE  /\ ps[j].row.val.sides \in SideLists
           /\ ps[j].row.key \in DOMAIN pools /\ pools[ps[j].row.key].seen <= to
           /\ Lasting(ps[j].row, w, T)
<1> DEFINE x == ps[j].row
           b == BatchVersion(m, done + 1, due)
<1>0. /\ done \in Nat /\ to \in Nat /\ done < to
      /\ \A key \in DOMAIN pools : pools[key].seen \in Nat
  BY DEF PoolsAppended
<1>1. b \in Nat /\ version \in Nat /\ b <= version
  <2>1. \A y \in done + 1 .. due : y \in done + 1 .. to
    BY <1>0
  <2>2. b <= BatchVersion(m, done + 1, to)
    BY <2>1, BatchGrows
  <2> QED BY <2>2, BatchIsNat
<1>2. x.key \in DOMAIN pools /\ pools[x.key].seen \in done + 1 .. to /\ x.val.sides \in SideLists
  BY DEF PoolsAppended, PoolPuts, PutsOK, PutOK, WholeRow, EntryOK
<1>3. PICK n \in 1 .. w.complete : n > v.complete /\ w.buf[n] = x
  BY DEF AllAdded
<1> DEFINE I == {i \in 1 .. w.complete : w.buf[i].key = x.key}
<1>4. w.complete \in Nat /\ v.complete \in Nat
  BY AddedRows
<1>5. PICK l \in I : \A i \in I : l >= i
  <2>1. n \in I /\ I \subseteq Int /\ \A i \in I : i <= w.complete
    BY <1>3
  <2>2. \E l \in I : \A i \in I : l >= i
    <3> HIDE DEF I
    <3>1. w.complete \in Int
      BY <1>4
    <3> QED BY <2>1, <3>1, GreatestNatural
  <2> QED BY <2>2
<1>6. /\ l \in 1 .. w.complete /\ w.buf[l].key = x.key /\ l >= n /\ l > v.complete
      /\ \A i \in 1 .. w.complete : w.buf[i].key = x.key => i <= l
  BY <1>3, <1>4, <1>5
<1>7. w.buf[l].ver = version
  <2>1. l \notin 1 .. v.complete
    BY <1>4, <1>6
  <2> QED BY <1>6, <2>1, AddedRows
<1>8. ASSUME NEW ver \in Nat, Overtaken(x.key, ver, pools, m, done, due) PROVE ver <= version
  <2>1. pools[x.key].seen > done
    BY <1>0, <1>2
  <2>2. ver <= b
    BY <1>8, <2>1 DEF Overtaken
  <2> HIDE DEF b
  <2> QED BY <1>1, <2>2
<1>9. ASSUME NEW i \in 1 .. w.complete, w.buf[i].key = x.key PROVE w.buf[i].ver <= version
  <2>1. CASE i \in 1 .. v.complete
    <3>1. w.buf[i] = v.buf[i]
      BY <2>1, AddedRows
    <3>2. v.buf[i].ver \in Nat
      BY <2>1 DEF PoolsAppended, WriterOK, WholeRow, EntryOK
    <3>3. Overtaken(x.key, v.buf[i].ver, pools, m, done, due)
      BY <1>9, <2>1, <3>1 DEF AllOvertaken
    <3> HIDE DEF b, x
    <3> QED BY <1>8, <3>1, <3>2, <3>3
  <2>2. CASE i \notin 1 .. v.complete
    <3>1. w.buf[i].ver = version
      BY <2>2, AddedRows
    <3> QED BY <1>1, <3>1
  <2> QED BY <2>1, <2>2
<1>10. Known(T, x.key) => T[x.key].ver <= version
  <2> SUFFICES ASSUME Known(T, x.key) PROVE T[x.key].ver <= version
    OBVIOUS
  <2>1. T[x.key].ver \in Nat /\ Overtaken(x.key, T[x.key].ver, pools, m, done, due)
    BY DEF Known, TableOK, StoredOK, AllOvertaken
  <2> HIDE DEF x, b
  <2> QED BY <1>8, <2>1
<1>11. LastRow(w, T, x.key, l)
  BY <1>6, <1>7, <1>9, <1>10 DEF LastRow
<1>12. Learnt(x.val, w.buf[l].val)
  <2>1. CASE l = n
    BY <1>2, <1>3, <2>1, LearntReflexive
  <2>2. CASE l # n
    <3>1. n < l
      BY <1>6, <2>2
    <3>2. PICK a \in 1 .. Len(ps), c \in 1 .. Len(ps) :
                 /\ a < c /\ ps[a].table = "pools" /\ ps[c].table = "pools"
                 /\ w.buf[n] = ps[a].row /\ w.buf[l] = ps[c].row
      BY <1>3, <1>6, <3>1 DEF PoolsAppended, Added
    <3>3. Follows(ps[a].row, ps[c].row)
      BY <3>2 DEF PoolsAppended, PoolPuts
    <3>4. Follows(x, w.buf[l])
      BY <1>3, <3>2, <3>3
    <3> QED BY <1>6, <3>4 DEF Follows
  <2> QED BY <2>1, <2>2
<1>13. Lasting(x, w, T)
  BY <1>6, <1>11, <1>12 DEF Lasting
<1>14. pools[x.key].seen <= to
  BY <1>0, <1>2
<1> QED BY <1>2, <1>13, <1>14

(* A promotion, whole or stopped by memory. *)
LEMMA PromoteHistory ==
    ASSUME FinalizedInv, History, NEW to \in Slots, to > promoted, to >= retry,
           NEW ps, PutsOK(ps), NEW version, version = BatchVersion(conf, promoted + 1, to),
           PoolPuts(ps, reg.pools, version, promoted + 1, to),
           NEW room \in Nat, Promote(to, ps, room)
    PROVE  History'
<1> DEFINE a == Appended(ps, room)
           v == rows["pools"]
           w == a.rows["pools"]
           T == db["pools"]
           S == mem.rows["pools"]
           added(t) == {ps[i].row : i \in {j \in DOMAIN ps : ps[j].table = t}}
           pools == reg.pools
           done == promoted
           due == retry
<1>0. /\ rows' = a.rows /\ final' = Greatest(final, to)
      /\ UNCHANGED <<reg, conf, db>>
      /\ a.ok => /\ promoted' = to /\ retry' = 0
                 /\ mem' = [mem EXCEPT !.rows = [t \in TableSet |-> mem.rows[t] \cup added(t)]]
      /\ ~a.ok => promoted' = promoted /\ retry' = to /\ mem' = mem
  BY DEF Promote, source
<1>1. /\ AppendOK(rows, a) /\ Added(v, w, ps, "pools", Len(ps))
      /\ a.ok => AllAdded(v, w, ps, "pools", Len(ps))
  BY TablesAre, AppendedFacts, AppendedAdds DEF FinalizedInv
<1> HIDE DEF a
<1>2. WriterOK("pools", v) /\ WriterOK("pools", w) /\ Extended(v, w)
  BY <1>1, TablesAre DEF FinalizedInv, WritersOK, AppendOK
<1>3. TableOK("pools", T) /\ RowsOK(conf)
  BY TablesAre DEF FinalizedInv, DatabaseOK
<1>4. /\ done \in Nat /\ to \in Nat /\ done < to /\ due \in Nat /\ due <= to /\ final \in Nat
      /\ final <= Greatest(final, to) /\ to <= Greatest(final, to) /\ Greatest(final, to) \in Nat
  BY SlotsAre DEF History, FinalizedInv, Scalars, Greatest
<1>5. \A key \in DOMAIN pools : pools[key].seen \in Nat
  <2> SUFFICES ASSUME NEW key \in DOMAIN pools PROVE pools[key].seen \in Nat
    OBVIOUS
  <2>1. pools[key] \in PoolRecord
    BY PoolTableFacts DEF FinalizedInv, Registries
  <2> QED BY <2>1, SlotsAre DEF PoolRecord, PoolColumns
<1>6. PoolsAppended(v, w, ps, pools, version, done, to)
  BY <1>1, <1>2, <1>4, <1>5 DEF PoolsAppended
<1>7. AllOvertaken(v, T, pools, conf, done, due) /\ AllLasting(S, v, T, pools, done)
  BY DEF History
<1>8. AllOvertaken(w, T, pools, conf, done, to) /\ AllOvertaken(w, T, pools, conf, to, 0)
  BY <1>3, <1>4, <1>6, <1>7, PromotedOvertaken
<1>9. AllLasting(S, w, T, pools, done) /\ AllLasting(S, w, T, pools, to)
  BY <1>6, <1>7, PromotedLasting
<1>10. a.ok => AllLasting(S \cup added("pools"), w, T, pools, to)
  <2> SUFFICES ASSUME a.ok, NEW x \in added("pools")
               PROVE  /\ x.val.sides \in SideLists
                      /\ x.key \in DOMAIN pools /\ pools[x.key].seen <= to /\ Lasting(x, w, T)
    BY <1>9 DEF AllLasting
  <2>1. PICK j \in DOMAIN ps : ps[j].table = "pools" /\ x = ps[j].row
    OBVIOUS
  <2>2. j \in 1 .. Len(ps)
    BY ListFacts DEF PutsOK
  <2> HIDE DEF v, w, T, pools, done, due
  <2>3. /\ ps[j].row.val.sides \in SideLists
        /\ ps[j].row.key \in DOMAIN pools /\ pools[ps[j].row.key].seen <= to
        /\ Lasting(ps[j].row, w, T)
    <3>1. AllAdded(v, w, ps, "pools", Len(ps)) /\ version = BatchVersion(conf, done + 1, to)
      BY <1>1 DEF done
    <3> QED BY <1>3, <1>4, <1>6, <1>7, <2>1, <2>2, <3>1, AppendedLasting
  <2> QED BY <2>1, <2>3
<1>11. a.ok => mem'.rows["pools"] = S \cup added("pools")
  <2> SUFFICES ASSUME a.ok PROVE mem'.rows["pools"] = S \cup added("pools")
    OBVIOUS
  <2> DEFINE more == [t \in TableSet |-> mem.rows[t] \cup added(t)]
  <2>1. more["pools"] = S \cup added("pools")
    BY TablesAre
  <2>2. mem' = [mem EXCEPT !.rows = more] /\ mem \in [rows : {mem.rows}, flushed : {mem.flushed}]
    BY <1>0 DEF FinalizedInv, Kept
  <2> HIDE DEF more, added
  <2>3. mem'.rows = more
    BY <2>2
  <2> QED BY <2>1, <2>3
<1>12. retry' \in 0 .. final' /\ PoolRows(conf'["pool"], reg'.pools)
  BY <1>0, <1>4 DEF History
<1> HIDE DEF added, S
<1>13. CASE a.ok
  <2>1. /\ rows'["pools"] = w /\ db'["pools"] = T /\ reg'.pools = pools /\ conf' = conf
        /\ promoted' = to /\ retry' = 0 /\ mem'.rows["pools"] = S \cup added("pools")
    BY <1>0, <1>11, <1>13
  <2> HIDE DEF w, T, pools
  <2> QED BY <1>8, <1>10, <1>12, <1>13, <2>1 DEF History
<1>14. CASE ~a.ok
  <2>1. /\ rows'["pools"] = w /\ db'["pools"] = T /\ reg'.pools = pools /\ conf' = conf
        /\ promoted' = done /\ retry' = to /\ mem'.rows["pools"] = S
    BY <1>0, <1>14 DEF S
  <2> HIDE DEF w, T, pools, done
  <2> QED BY <1>8, <1>9, <1>12, <2>1 DEF History
<1> QED BY <1>13, <1>14

(* A promotion of the rows that read_range returns. *)
LEMMA PromotionHistory ==
    ASSUME FinalizedInv, History, Promotion
    PROVE  History'
<1>1. PICK to \in Slots : /\ to > promoted /\ to >= retry
                          /\ LET ps == Puts(ReadRange(promoted + 1, to))
                             IN  \E room \in 0 .. Len(ps) : Promote(to, ps, room)
  BY DEF Promotion
<1> DEFINE from == promoted + 1
           set == ReadRange(from, to)
           ps == Puts(set)
           version == WriteSetVersion(set)
<1>2. RowsOK(set)
  BY RetainKeepsOK DEF ReadRange, FinalizedInv
<1>3. version = BatchVersion(conf, from, to)
  BY DEF BatchVersion, ReadRange
<1>4. PoolRows(set["pool"], reg.pools) /\ \A x \in ToSet(set["pool"]) : x.slot \in from .. to
  <2>1. set["pool"] = Retained(conf["pool"], from .. to)
    BY KindsAre DEF ReadRange, MemRowsRetain
  <2>2. PoolRows(conf["pool"], reg.pools)
    BY DEF History
  <2> DEFINE d == set["pool"]
             q == conf["pool"]
             keep == from .. to
  <2>3. d = Retained(q, keep) /\ PoolRows(q, reg.pools)
    BY <2>1, <2>2
  <2> HIDE DEF d, q, keep
  <2>4. PoolRows(d, reg.pools)
    BY <2>3, PoolRowsRetained
  <2>5. \A x \in ToSet(d) : x.slot \in keep
    BY <2>3, RetainedFacts DEF PoolRows
  <2> QED BY <2>4, <2>5 DEF d, keep
<1>5. \E room \in 0 .. Len(ps) : Promote(to, ps, room)
  BY <1>1
<1> HIDE DEF set
<1>6. PutsOK(ps)
  BY <1>2, PutsAreOK
<1>7. PoolPuts(ps, reg.pools, version, from, to)
  BY <1>2, <1>4, PutsPools
<1> HIDE DEF ps, version
<1>8. PICK room \in 0 .. Len(ps) : Promote(to, ps, room)
  BY <1>5
<1>9. room \in Nat
  OBVIOUS
<1> QED BY <1>1, <1>3, <1>6, <1>7, <1>8, <1>9, PromoteHistory

(* An insert of the pools' rows. *)
LEMMA MergedHistory ==
    ASSUME WritersOK(rows), NEW T, TableOK("pools", T),
           NEW U, U = Merged(T, Body("pools")), NEW S, NEW pools, NEW m, NEW done, NEW due,
           AllOvertaken(rows["pools"], T, pools, m, done, due),
           AllLasting(S, rows["pools"], T, pools, done)
    PROVE  /\ AllOvertaken(rows["pools"], U, pools, m, done, due)
           /\ AllLasting(S, rows["pools"], U, pools, done)
           /\ AllOvertaken(Fresh, U, pools, m, done, due)
           /\ AllLasting(S, Fresh, U, pools, done)
<1> DEFINE w == rows["pools"]
           body == Body("pools")
           N == w.complete
<1>1. /\ Len(body) = N /\ N \in Nat
      /\ \A i \in 1 .. N : body[i] = w.buf[i] /\ WholeRow("pools", body[i])
  BY TablesAre, BodyFacts
<1>2. \A k \in DOMAIN T : T[k].ver \in Nat
  BY DEF TableOK, StoredOK
<1>3. \A i \in 1 .. N : body[i].ver \in Nat
  BY <1>1 DEF WholeRow, EntryOK
<1> HIDE DEF body, N, w
<1>4. Came(T, body, N, U) /\ Won(T, body, N, U) /\ Newer(T, U)
  BY <1>1, <1>2, <1>3, MergedRows, MergedFacts DEF body
<1>5. \A i \in 1 .. N : body[i] = w.buf[i]
  BY <1>1
<1>6. Fresh.complete = 0
  BY DEF Fresh
<1>7. /\ \A i \in 1 .. N : Overtaken(w.buf[i].key, w.buf[i].ver, pools, m, done, due)
      /\ \A key \in DOMAIN T : Overtaken(key, T[key].ver, pools, m, done, due)
  BY DEF AllOvertaken, N, w
<1>8. \A key \in DOMAIN U : Overtaken(key, U[key].ver, pools, m, done, due)
  <2> SUFFICES ASSUME NEW key \in DOMAIN U
               PROVE  Overtaken(key, U[key].ver, pools, m, done, due)
    OBVIOUS
  <2>1. CASE key \in DOMAIN T /\ U[key] = T[key]
    BY <1>7, <2>1
  <2>2. ASSUME NEW i \in 1 .. N, body[i].key = key, U[key].ver = body[i].ver
        PROVE  Overtaken(key, U[key].ver, pools, m, done, due)
    BY <1>5, <1>7, <2>2
  <2> QED BY <1>4, <2>1, <2>2 DEF Came
<1>9. AllOvertaken(w, U, pools, m, done, due) /\ AllOvertaken(Fresh, U, pools, m, done, due)
  <2>1. AllOvertaken(w, U, pools, m, done, due)
    BY <1>7, <1>8 DEF AllOvertaken, N
  <2>2. \A i \in 1 .. Fresh.complete : FALSE
    BY <1>6
  <2>3. AllOvertaken(Fresh, U, pools, m, done, due)
    BY <1>8, <2>2 DEF AllOvertaken
  <2> QED BY <2>1, <2>3
<1>10. ASSUME NEW x \in S PROVE Lasting(x, w, U) /\ Lasting(x, Fresh, U)
  <2>0. Lasting(x, w, T)
    BY DEF AllLasting, w
  <2>a. \A i \in 1 .. Fresh.complete : FALSE
    BY <1>6
  <2>1. ASSUME NEW l \in 1 .. N, LastRow(w, T, x.key, l), Learnt(x.val, w.buf[l].val)
        PROVE  Lasting(x, w, U) /\ Lasting(x, Fresh, U)
    <3>1. LastSent(T, body, N, l)
      BY <1>5, <2>1 DEF LastSent, LastRow, N
    <3>2. /\ x.key \in DOMAIN U /\ U[x.key].ver = w.buf[l].ver /\ U[x.key].val = w.buf[l].val
      BY <1>4, <1>5, <2>1, <3>1 DEF Won, LastRow
    <3>3. U[x.key].ver <= w.buf[l].ver
      BY <1>3, <1>5, <3>2
    <3>4. LastRow(w, U, x.key, l)
      BY <2>1, <3>3 DEF LastRow
    <3>5. Lasting(x, w, U)
      BY <2>1, <3>4 DEF Lasting, N
    <3>6. Lasting(x, Fresh, U)
      BY <2>1, <2>a, <3>2 DEF Lasting, Known
    <3> QED BY <3>5, <3>6
  <2>2. CASE /\ \A i \in 1 .. N : w.buf[i].key # x.key
             /\ Known(T, x.key) /\ Learnt(x.val, T[x.key].val)
    <3>1. x.key \in DOMAIN U
      BY <1>4, <2>2 DEF Newer, Known
    <3>2. U[x.key] = T[x.key]
      BY <1>4, <1>5, <2>2, <3>1 DEF Came
    <3>3. Known(U, x.key) /\ Learnt(x.val, U[x.key].val)
      BY <2>2, <3>1, <3>2 DEF Known
    <3>4. Lasting(x, w, U)
      BY <2>2, <3>3 DEF Lasting, N
    <3>5. Lasting(x, Fresh, U)
      BY <2>a, <3>3 DEF Lasting
    <3> QED BY <3>4, <3>5
  <2> QED BY <2>0, <2>1, <2>2 DEF Lasting, N
<1>11. AllLasting(S, w, U, pools, done) /\ AllLasting(S, Fresh, U, pools, done)
  BY <1>10 DEF AllLasting
<1> QED BY <1>9, <1>11 DEF w

(* An insert, of the pools' rows or of others. *)
LEMMA InsertHistory ==
    ASSUME FinalizedInv, History, NEW landed \in BOOLEAN, NEW ok \in BOOLEAN, Insert(landed, ok)
    PROVE  History'
<1> DEFINE i == Min(Due)
           t == Tables[i]
           w == rows["pools"]
           T == db["pools"]
           S == mem.rows["pools"]
           U == Merged(T, Body("pools"))
           Right(x, d) == /\ AllOvertaken(x, d, reg.pools, conf, promoted, retry)
                          /\ AllLasting(S, x, d, reg.pools, promoted)
<1>0. /\ Due # {} /\ (ok => landed)
      /\ db' = (IF landed THEN Inserted(t) ELSE db)
      /\ rows' = (IF ok THEN Reset(t) ELSE rows)
      /\ UNCHANGED <<reg, conf, promoted, retry, final, mem>>
  BY DEF Insert, source
<1>1. t \in TableSet
  BY <1>0, DueFacts, TablesAre
<1>2. WritersOK(rows) /\ DatabaseOK(db) /\ TableOK("pools", T) /\ "pools" \in TableSet
  BY TablesAre DEF FinalizedInv, DatabaseOK
<1>3. Right(w, T)
  BY DEF History
<1>4. Right(w, U) /\ Right(Fresh, U)
  BY <1>2, <1>3, MergedHistory
<1>5. /\ db'["pools"] = IF landed /\ t = "pools" THEN U ELSE T
      /\ rows'["pools"] = IF ok /\ t = "pools" THEN Fresh ELSE w
  <2>1. Inserted(t)["pools"] = IF t = "pools" THEN U ELSE T
    <3>1. Inserted(t) = [db EXCEPT ![t] = Merged(db[t], Body(t))]
      BY DEF Inserted
    <3> QED BY <3>1, <1>1, <1>2 DEF DatabaseOK
  <2>2. Reset(t)["pools"] = IF t = "pools" THEN Fresh ELSE w
    BY <1>1, <1>2 DEF Reset, WritersOK
  <2> QED BY <1>0, <2>1, <2>2
<1> HIDE DEF t, w, T, U, Right, S
<1>6. Right(rows'["pools"], db'["pools"])
  BY <1>0, <1>3, <1>4, <1>5
<1> QED BY <1>0, <1>6 DEF Right, S, History

(* The end of a flush. *)
LEMMA FlushEndHistory ==
    ASSUME FinalizedInv, History, FlushEnd
    PROVE  History'
<1>0. /\ mem' = [mem EXCEPT !.flushed = mem.rows]
      /\ UNCHANGED <<reg, conf, promoted, retry, final, rows, db>>
  BY DEF FlushEnd, source
<1>1. mem \in [rows : {mem.rows}, flushed : {mem.flushed}]
  BY DEF FinalizedInv, Kept
<1>2. mem'.rows = mem.rows
  BY <1>0, <1>1
<1> QED BY <1>0, <1>2 DEF History

(* Nothing is known yet. *)
LEMMA InitHistory == Init => History
<1> SUFFICES ASSUME Init PROVE History
  OBVIOUS
<1>1. rows["pools"] = Fresh /\ db["pools"] = Empty /\ mem.rows["pools"] = {}
  BY TablesAre DEF Init
<1>2. \A i \in 1 .. Fresh.complete : FALSE
  BY DEF Fresh
<1>3. AllOvertaken(Fresh, Empty, reg.pools, conf, promoted, retry)
  BY <1>2 DEF AllOvertaken, Empty
<1>4. AllLasting({}, Fresh, Empty, reg.pools, promoted)
  BY DEF AllLasting
<1>5. PoolRows(conf["pool"], reg.pools)
  <2>1. conf["pool"] = <<>>
    BY KindsAre DEF Init
  <2> DEFINE q == conf["pool"]
             none == {}
  <2>2. q \in Seq(none) /\ Len(q) = 0 /\ \A x \in none : FALSE
    BY <2>1
  <2> HIDE DEF q, none
  <2>3. Listed(q) /\ \A x \in ToSet(q) : FALSE
    BY <2>2, SeqListed
  <2>4. \A i \in 1 .. Len(q) : FALSE
    BY <2>2
  <2>5. PoolRows(q, reg.pools)
    BY <2>3, <2>4 DEF PoolRows, InOrder
  <2> QED BY <2>5 DEF q
<1>6. retry \in 0 .. final
  BY DEF Init
<1> QED BY <1>1, <1>3, <1>4, <1>5, <1>6 DEF History

(* While the process lives, every step keeps the order. *)
LEMMA HistoryStep ==
    ASSUME FinalizedInv, lives = 1 => History, [Next]_vars
    PROVE  lives' = 1 => History'
<1>1. ASSUME NEW s \in Slots, Index(s) PROVE lives' = 1 => History'
  <2>1. lives' = lives
    BY <1>1 DEF Index, bounds
  <2> QED BY <1>1, <2>1, IndexHistory
<1>2. ASSUME NEW s \in Slots, Reorg(s) PROVE lives' = 1 => History'
  <2>1. lives' = lives
    BY <1>2 DEF Reorg
  <2> QED BY <1>2, <2>1, ReorgHistory
<1>3. ASSUME NEW below \in Slots, Prune(below) PROVE lives' = 1 => History'
  <2>1. lives' = lives
    BY <1>3 DEF Prune, bounds
  <2> QED BY <1>3, <2>1, PruneHistory
<1>4. CASE Promotion
  <2>1. lives' = lives
    BY <1>4 DEF Promotion, Promote
  <2> QED BY <1>4, <2>1, PromotionHistory
<1>5. CASE FlushStart
  BY <1>5 DEF FlushStart, source, bounds, History
<1>6. CASE FlushEnd
  <2>1. lives' = lives
    BY <1>6 DEF FlushEnd, bounds
  <2> QED BY <1>6, <2>1, FlushEndHistory
<1>7. ASSUME NEW landed \in BOOLEAN, NEW ok \in BOOLEAN, Insert(landed, ok)
      PROVE  lives' = 1 => History'
  <2>1. lives' = lives
    BY <1>7 DEF Insert
  <2> QED BY <1>7, <2>1, InsertHistory
<1>8. CASE Restart
  <2>1. lives' = lives + 1 /\ lives \in 1 .. faults + 1 /\ faults \in Nat
    BY <1>8, SlotsAre DEF Restart, FinalizedInv, Scalars
  <2>2. lives' # 1
    BY <2>1
  <2> QED BY <2>2
<1>9. CASE UNCHANGED vars
  BY <1>9 DEF vars, source, bounds, History
<1> QED BY <1>1, <1>2, <1>3, <1>4, <1>5, <1>6, <1>7, <1>8, <1>9 DEF Next, FlushStep

(* While the process lives and its buffers are empty, the finalized tier     *)
(* knows of a pool what any promoted record of it knew: no row that is sent  *)
(* later is of an older version or knows less (write_set_version and         *)
(* put_pool of ch_store.c, with the registry of pool.c).                     *)
THEOREM FinalizedRemembers == Spec => []NothingUnlearned
<1>1. ASSUME FinalizedInv, lives = 1 => History
      PROVE  NothingUnlearned
  <2> SUFFICES ASSUME lives = 1, Pending = {}, NEW row \in mem.rows["pools"]
               PROVE  KeepsKnown(row.val, db["pools"][row.key].val)
    BY DEF NothingUnlearned
  <2>1. rows["pools"].complete = 0
    <3>1. PICK i \in 1 .. 11 : "pools" = Tables[i]
      BY TablesAre
    <3>2. ~(rows[Tables[i]].complete > 0)
      BY <3>1, TablesAre DEF Pending
    <3>3. rows["pools"].complete \in Nat
      BY <1>1, TablesAre DEF FinalizedInv, WritersOK, WriterOK
    <3> QED BY <3>1, <3>2, <3>3
  <2>2. row.val.sides \in SideLists /\ Lasting(row, rows["pools"], db["pools"])
    BY <1>1 DEF History, AllLasting
  <2> DEFINE old == row.val
             new == db["pools"][row.key].val
  <2>3. Learnt(old, new) /\ row.key \in DOMAIN db["pools"]
    <3>1. \A l \in 1 .. rows["pools"].complete : FALSE
      BY <2>1
    <3> QED BY <2>2, <3>1 DEF Lasting, Known
  <2>4. old.sides \in SideLists /\ new.sides \in SideLists
    BY <1>1, <2>2, <2>3, TablesAre DEF FinalizedInv, DatabaseOK, TableOK, StoredOK
  <2> HIDE DEF old, new
  <2>5. /\ DOMAIN old.sides = 1 .. Len(old.sides) /\ DOMAIN new.sides = 1 .. Len(new.sides)
        /\ Len(old.sides) \in Nat /\ Len(new.sides) \in Nat
    BY <2>4 DEF SideLists
  <2>6. KeepsKnown(old, new)
    BY <2>3, <2>5 DEF KeepsKnown, Learnt, Below
  <2> QED BY <2>6 DEF old, new
<1>2. Init => (lives = 1 => History)
  BY InitHistory
<1>3. FinalizedInv /\ (lives = 1 => History) /\ [Next]_vars => (lives = 1 => History)'
  BY HistoryStep
<1> QED BY <1>1, <1>2, <1>3, FinalizedInvariant, PTL DEF Spec
=============================================================================
