----------------------------- MODULE GapsProofs -----------------------------
(***************************************************************************)
(* The array of gaps.c for any number of slots, fetchers and entries, and  *)
(* for any limits: it implements the set that gaps.h describes, and the    *)
(* first entry alone is enough to know what is safe.  Memory is taken to   *)
(* suffice; a split that cannot be stored loses its upper part.            *)
(***************************************************************************)
EXTENDS Gaps, FiniteSetTheorems, SequenceTheorems, WellFoundedInduction, TLAPS

-----------------------------------------------------------------------------
(* NATURAL NUMBERS.  The theorems of NaturalsInduction take an operator;     *)
(* these take a set, and what is proved of every number is membership in it. *)

(* A set of natural numbers that has a member has a least one.               *)
LEMMA LeastNatural ==
    ASSUME NEW T, T \subseteq Nat, T # {}
    PROVE  \E x \in T : \A y \in T : x <= y
<1>1. IsWellFoundedOn(OpToRel(<, Nat), Nat)
  BY NatLessThanWellFounded
<1>2. PICK x \in T : \A y \in T : ~ (<<y, x>> \in OpToRel(<, Nat))
  BY <1>1, WFMin
<1>3. \A y \in T : ~ (y < x)
  BY <1>2 DEF OpToRel
<1> QED BY <1>3

(* A set that has 0, and with every number its successor, has them all.      *)
LEMMA SetInduction ==
    ASSUME NEW S, 0 \in S, \A n \in Nat : n \in S => n + 1 \in S
    PROVE  \A n \in Nat : n \in S
<1> DEFINE T == Nat \ S
<1>1. SUFFICES ASSUME T # {} PROVE FALSE
  OBVIOUS
<1>2. PICK x \in T : \A y \in T : x <= y
  BY <1>1, LeastNatural
<1>3. x # 0 /\ x \in Nat
  OBVIOUS
<1>4. x - 1 \in Nat /\ x - 1 \notin T
  BY <1>2, <1>3
<1> QED BY <1>4, <1>3

(* g holds the first m values of the iteration that step describes. *)
Iterates(g, b, step, m) == g[0] = b /\ \A n \in 1 .. m : g[n] = step[n][g[n - 1]]

(* An iteration of N steps exists, so a recursive function over 0 .. N is    *)
(* the function its equation describes.                                      *)
LEMMA IterationExists ==
    ASSUME NEW D, NEW b \in D, NEW N \in Nat, NEW step \in [1 .. N -> [D -> D]]
    PROVE  \E g \in [0 .. N -> D] : Iterates(g, b, step, N)
<1> DEFINE S == {m \in Nat : m <= N => \E g \in [0 .. m -> D] : Iterates(g, b, step, m)}
<1>1. 0 \in S
  <2> DEFINE h == [i \in 0 .. 0 |-> b]
  <2>1. h \in [0 .. 0 -> D] /\ Iterates(h, b, step, 0)
    BY DEF Iterates
  <2> HIDE DEF h
  <2> QED BY <2>1
<1>2. ASSUME NEW m \in Nat, m \in S
      PROVE  m + 1 \in S
  <2> SUFFICES ASSUME m + 1 <= N
               PROVE  \E h \in [0 .. m + 1 -> D] : Iterates(h, b, step, m + 1)
    OBVIOUS
  <2>1. PICK g \in [0 .. m -> D] : Iterates(g, b, step, m)
    BY <1>2
  <2> DEFINE h == [i \in 0 .. m + 1 |-> IF i = m + 1 THEN step[m + 1][g[m]] ELSE g[i]]
  <2>2. step[m + 1][g[m]] \in D
    OBVIOUS
  <2>3. h \in [0 .. m + 1 -> D]
    BY <2>2
  <2>4. h[0] = b
    BY <2>1 DEF Iterates
  <2>5. ASSUME NEW n \in 1 .. m + 1
        PROVE  h[n] = step[n][h[n - 1]]
    <3>1. CASE n = m + 1
      <4>1. h[n] = step[m + 1][g[m]] /\ h[n - 1] = g[m]
        BY <3>1
      <4> QED BY <3>1, <4>1
    <3>2. CASE n # m + 1
      <4>1. n \in 1 .. m /\ n - 1 \in 0 .. m
        BY <3>2
      <4>2. h[n] = g[n] /\ h[n - 1] = g[n - 1]
        BY <4>1
      <4> QED BY <4>1, <4>2, <2>1 DEF Iterates
    <3> QED BY <3>1, <3>2
  <2> HIDE DEF h
  <2> QED BY <2>3, <2>4, <2>5 DEF Iterates
<1> HIDE DEF S
<1>3. \A n \in Nat : n \in S
  BY <1>1, <1>2, SetInduction
<1> QED BY <1>3 DEF S

-----------------------------------------------------------------------------

(* A scan from the front finds the slot s before it meets an entry that      *)
(* starts above s.  Entries may overlap and be out of order, but not so that *)
(* this fails for a missing slot.                                            *)
Reached(r, s) ==
    \E k \in 1 .. Len(r) : s <= r[k].to /\ \A i \in 1 .. k : r[i].from <= s

(* No entry starts above s. *)
StartsBelow(r, s) == \A i \in 1 .. Len(r) : r[i].from <= s

(* Entries are not empty. *)
Valid(r) == r \in Seq(Entries) /\ \A i \in 1 .. Len(r) : r[i].from <= r[i].to

(* What coalesce establishes: unclaimed neighbours are in order, and there   *)
(* is a slot between them.                                                   *)
Apart(r) == \A i \in 1 .. Len(r) - 1 :
               ~r[i].claimed /\ ~r[i + 1].claimed => r[i].to + 1 < r[i + 1].from

(* Every entry starts and ends at a slot of S. *)
EndsIn(r, S) == \A i \in 1 .. Len(r) : r[i].from \in S /\ r[i].to \in S

(* The bounds of an entry are numbers. *)
LEMMA EntryType ==
    ASSUME NEW e \in Entries
    PROVE  e.from \in Slots /\ e.to \in Slots /\ e.from \in Int /\ e.to \in Int
<1>1. e.from \in Slots /\ e.to \in Slots
  BY DEF Entries
<1> QED BY <1>1 DEF Slots

(* Joining is a function on lists of entries. *)
LEMMA JoinedType ==
    ASSUME NEW d \in Seq(Entries), NEW b \in Entries
    PROVE  Joined(d, b) \in Seq(Entries)
<1>1. CASE d # <<>> /\ Touching(d[Len(d)], b)
  <2> DEFINE l == Len(d)
             top == IF b.to > d[l].to THEN b.to ELSE d[l].to
  <2>1. l \in 1 .. Len(d) /\ d[l] \in Entries
    BY <1>1
  <2>2. Joined(d, b) = [d EXCEPT ![l] = [d[l] EXCEPT !.to = top]]
    BY <1>1 DEF Joined
  <2>3. [d[l] EXCEPT !.to = top] \in Entries
    BY <2>1 DEF Entries
  <2> HIDE DEF l, top
  <2> QED BY <2>1, <2>2, <2>3, ExceptSeq
<1>2. CASE ~(d # <<>> /\ Touching(d[Len(d)], b))
  BY <1>2 DEF Joined
<1> QED BY <1>1, <1>2

(* The loop of coalesce, entry by entry. *)
LEMMA CoalesceRuns ==
    ASSUME NEW r \in Seq(Entries)
    PROVE  \E f : /\ f[0] = <<>> /\ Coalesce(r) = f[Len(r)]
                  /\ \A n \in 1 .. Len(r) : f[n] = Joined(f[n - 1], r[n])
<1> DEFINE N == Len(r)
           D == Seq(Entries)
           none == <<>>
           step == [n \in 1 .. N |-> [d \in D |-> Joined(d, r[n])]]
           Equation(f) == f = [n \in 0 .. N |-> IF n = 0 THEN none ELSE Joined(f[n - 1], r[n])]
<1>1. N \in Nat /\ none \in D /\ \A n \in 1 .. N : r[n] \in Entries
  OBVIOUS
<1>2. \A n \in 1 .. N : \A d \in D : Joined(d, r[n]) \in D
  BY <1>1, JoinedType
<1>3. Coalesce(r) = (CHOOSE f : Equation(f))[N]
  BY DEF Coalesce
<1> HIDE DEF N, D, none
<1>4. step \in [1 .. N -> [D -> D]]
  BY <1>2
<1>5. PICK g \in [0 .. N -> D] : Iterates(g, none, step, N)
  <2> HIDE DEF step
  <2> QED BY <1>1, <1>4, IterationExists
<1>6. \A n \in 1 .. N : g[n] = Joined(g[n - 1], r[n])
  <2> SUFFICES ASSUME NEW n \in 1 .. N PROVE g[n] = Joined(g[n - 1], r[n])
    OBVIOUS
  <2>1. g[n] = step[n][g[n - 1]]
    <3> HIDE DEF step
    <3> QED BY <1>5 DEF Iterates
  <2>2. n - 1 \in 0 .. N
    BY <1>1
  <2>3. g[n - 1] \in D
    BY <2>2
  <2>4. step[n] = [d \in D |-> Joined(d, r[n])]
    OBVIOUS
  <2> QED BY <2>1, <2>3, <2>4
<1>7. Equation(g)
  <2>1. g[0] = none
    BY <1>5 DEF Iterates
  <2> QED BY <1>1, <1>5, <1>6, <2>1
<1>8. PICK f : Equation(f) /\ Coalesce(r) = f[N]
  <2> HIDE DEF Equation
  <2> QED BY <1>3, <1>7
<1>9. f[0] = none /\ \A n \in 1 .. N : f[n] = Joined(f[n - 1], r[n])
  BY <1>1, <1>8
<1> QED BY <1>8, <1>9 DEF N, none

(* One entry of coalesce: it widens the last entry or adds one, and takes    *)
(* nothing away (gaps.c 99-115).                                             *)
LEMMA JoinedKeeps ==
    ASSUME NEW d \in Seq(Entries), Valid(d), Apart(d), NEW b \in Entries, b.from <= b.to
    PROVE  /\ Valid(Joined(d, b)) /\ Apart(Joined(d, b)) /\ Len(Joined(d, b)) <= Len(d) + 1
           /\ \A S : EndsIn(d, S) /\ b.from \in S /\ b.to \in S => EndsIn(Joined(d, b), S)
           /\ \A s \in Int :
                 /\ Reached(d, s) => Reached(Joined(d, b), s)
                 /\ StartsBelow(d, s) /\ b.from <= s => StartsBelow(Joined(d, b), s)
                 /\ StartsBelow(d, s) /\ b.from <= s /\ s <= b.to => Reached(Joined(d, b), s)
<1> DEFINE e == Joined(d, b)
           l == Len(d)
<1>0. e \in Seq(Entries) /\ l \in Nat
  BY JoinedType
<1>t. /\ \A i \in 1 .. l : d[i].from \in Int /\ d[i].to \in Int /\ d[i].from <= d[i].to
      /\ b.from \in Int /\ b.to \in Int
  BY EntryType DEF Valid
<1>1. CASE d # <<>> /\ Touching(d[Len(d)], b)
  <2> DEFINE top == IF b.to > d[l].to THEN b.to ELSE d[l].to
  <2>1. l \in 1 .. l
    BY <1>1
  <2>2. e = [d EXCEPT ![l] = [d[l] EXCEPT !.to = top]]
    BY <1>1 DEF Joined
  <2>3. /\ Len(e) = l
        /\ \A i \in 1 .. l : /\ e[i].from = d[i].from /\ e[i].claimed = d[i].claimed
                             /\ i # l => e[i].to = d[i].to
        /\ e[l].to = top
    BY <2>1, <2>2 DEF Entries
  <2>4. top \in {b.to, d[l].to} /\ top >= b.to /\ top >= d[l].to
    BY <1>t, <2>1
  <2> HIDE DEF e, l, top
  <2>5. Valid(e)
    BY <1>0, <1>t, <2>1, <2>3, <2>4 DEF Valid
  <2>6. Apart(e)
    BY <1>0, <2>3 DEF Apart, l
  <2>7. \A S : EndsIn(d, S) /\ b.from \in S /\ b.to \in S => EndsIn(e, S)
    BY <1>0, <2>1, <2>3, <2>4 DEF EndsIn, l
  <2>8. ASSUME NEW s \in Int, Reached(d, s)
        PROVE  Reached(e, s)
    <3>1. PICK k \in 1 .. l : s <= d[k].to /\ \A i \in 1 .. k : d[i].from <= s
      BY <2>8 DEF Reached, l
    <3>2. s <= e[k].to
      BY <3>1, <1>t, <2>1, <2>3, <2>4
    <3>3. \A i \in 1 .. k : e[i].from <= s
      BY <3>1, <2>3, <1>0
    <3> QED BY <3>2, <3>3, <2>3 DEF Reached
  <2>9. \A s \in Int : StartsBelow(d, s) => StartsBelow(e, s)
    BY <2>3 DEF StartsBelow, l
  <2>10. ASSUME NEW s \in Int, StartsBelow(d, s), s <= b.to
         PROVE  Reached(e, s)
    <3>1. s <= e[l].to
      BY <2>10, <1>t, <2>1, <2>3, <2>4
    <3>2. \A i \in 1 .. l : e[i].from <= s
      BY <2>10, <2>3 DEF StartsBelow, l
    <3> QED BY <2>1, <2>3, <3>1, <3>2 DEF Reached
  <2> QED BY <1>0, <2>3, <2>5, <2>6, <2>7, <2>8, <2>9, <2>10 DEF e, l
<1>2. CASE ~(d # <<>> /\ Touching(d[Len(d)], b))
  <2>1. e = Append(d, b)
    BY <1>2 DEF Joined
  <2>2. /\ Len(e) = l + 1 /\ e[l + 1] = b
        /\ \A i \in 1 .. l : e[i] = d[i]
    BY <2>1
  <2>3. l # 0 => ~Touching(d[l], b)
    BY <1>2
  <2> HIDE DEF e, l
  <2>4. Valid(e)
    BY <1>0, <1>t, <2>2 DEF Valid
  <2>5. Apart(e)
    <3> SUFFICES ASSUME NEW i \in 1 .. l, ~e[i].claimed, ~e[i + 1].claimed
                 PROVE  e[i].to + 1 < e[i + 1].from
      BY <1>0, <2>2 DEF Apart
    <3>1. CASE i = l
      BY <3>1, <1>0, <1>t, <2>2, <2>3 DEF Touching
    <3>2. CASE i # l
      <4>1. i \in 1 .. l - 1 /\ i + 1 \in 1 .. l
        BY <3>2, <1>0
      <4> QED BY <4>1, <2>2 DEF Apart, l
    <3> QED BY <3>1, <3>2
  <2>6. \A S : EndsIn(d, S) /\ b.from \in S /\ b.to \in S => EndsIn(e, S)
    BY <1>0, <2>2 DEF EndsIn, l
  <2>7. ASSUME NEW s \in Int, Reached(d, s)
        PROVE  Reached(e, s)
    <3>1. PICK k \in 1 .. l : s <= d[k].to /\ \A i \in 1 .. k : d[i].from <= s
      BY <2>7 DEF Reached, l
    <3>2. k \in 1 .. l + 1 /\ s <= e[k].to /\ \A i \in 1 .. k : e[i].from <= s
      BY <3>1, <2>2, <1>0
    <3> QED BY <3>2, <2>2 DEF Reached
  <2>8. \A s \in Int : StartsBelow(d, s) /\ b.from <= s => StartsBelow(e, s)
    BY <1>0, <2>2 DEF StartsBelow, l
  <2>9. ASSUME NEW s \in Int, StartsBelow(e, s), s <= b.to
        PROVE  Reached(e, s)
    <3>1. l + 1 \in 1 .. l + 1 /\ s <= e[l + 1].to /\ \A i \in 1 .. l + 1 : e[i].from <= s
      BY <2>9, <1>0, <2>2 DEF StartsBelow
    <3> QED BY <3>1, <2>2 DEF Reached
  <2> QED BY <1>0, <2>2, <2>4, <2>5, <2>6, <2>7, <2>8, <2>9 DEF e, l
<1> QED BY <1>1, <1>2

(* What coalesce has done after n entries of r, whose ends are in S. *)
CoalesceInv(r, S, d, n) ==
    /\ d \in Seq(Entries) /\ Valid(d) /\ Apart(d) /\ EndsIn(d, S) /\ Len(d) <= n
    /\ \A s \in Int : (\A i \in 1 .. n : r[i].from <= s) => Reached(d, s) \/ StartsBelow(d, s)
    /\ \A s \in Int, k \in 1 .. n :
          s <= r[k].to /\ (\A i \in 1 .. k : r[i].from <= s) => Reached(d, s)

(* coalesce (gaps.c 99-115) separates the unclaimed neighbours and takes     *)
(* away no slot that a scan reaches.                                         *)
LEMMA CoalesceKeeps ==
    ASSUME NEW r, Valid(r), NEW S, EndsIn(r, S)
    PROVE  CoalesceInv(r, S, Coalesce(r), Len(r))
<1>1. r \in Seq(Entries) /\ Len(r) \in Nat
  BY DEF Valid
<1>2. PICK f : /\ f[0] = <<>> /\ Coalesce(r) = f[Len(r)]
               /\ \A n \in 1 .. Len(r) : f[n] = Joined(f[n - 1], r[n])
  BY <1>1, CoalesceRuns
<1> DEFINE T == {m \in Nat : m <= Len(r) => CoalesceInv(r, S, f[m], m)}
<1>3. 0 \in T
  <2>1. CoalesceInv(r, S, <<>>, 0)
    BY DEF CoalesceInv, Valid, Apart, EndsIn, StartsBelow
  <2> QED BY <1>2, <2>1
<1>4. ASSUME NEW m \in Nat, m \in T
      PROVE  m + 1 \in T
  <2> SUFFICES ASSUME m + 1 <= Len(r) PROVE CoalesceInv(r, S, f[m + 1], m + 1)
    OBVIOUS
  <2> DEFINE d == f[m]
             b == r[m + 1]
             e == f[m + 1]
  <2>1. CoalesceInv(r, S, d, m)
    BY <1>1, <1>4
  <2>2. m + 1 \in 1 .. Len(r) /\ b \in Entries /\ b.from <= b.to /\ b.from \in S /\ b.to \in S
    BY <1>1 DEF Valid, EndsIn
  <2>3. e = Joined(d, b)
    BY <1>2, <2>2
  <2> HIDE DEF d, e
  <2>4. /\ e \in Seq(Entries) /\ Valid(e) /\ Apart(e) /\ Len(e) <= Len(d) + 1
        /\ \A Q : EndsIn(d, Q) /\ b.from \in Q /\ b.to \in Q => EndsIn(e, Q)
        /\ \A s \in Int :
              /\ Reached(d, s) => Reached(e, s)
              /\ StartsBelow(d, s) /\ b.from <= s => StartsBelow(e, s)
              /\ StartsBelow(d, s) /\ b.from <= s /\ s <= b.to => Reached(e, s)
    BY <2>1, <2>2, <2>3, JoinedKeeps, JoinedType DEF CoalesceInv
  <2>5. EndsIn(e, S) /\ Len(e) <= m + 1
    BY <2>1, <2>2, <2>4 DEF CoalesceInv
  <2>6. ASSUME NEW s \in Int, \A i \in 1 .. m + 1 : r[i].from <= s
        PROVE  Reached(e, s) \/ StartsBelow(e, s)
    <3>1. (\A i \in 1 .. m : r[i].from <= s) /\ b.from <= s
      BY <2>6
    <3>2. Reached(d, s) \/ StartsBelow(d, s)
      BY <3>1, <2>1 DEF CoalesceInv
    <3> QED BY <3>1, <3>2, <2>4
  <2>7. ASSUME NEW s \in Int, NEW k \in 1 .. m + 1,
               s <= r[k].to, \A i \in 1 .. k : r[i].from <= s
        PROVE  Reached(e, s)
    <3>1. CASE k = m + 1
      <4>1. (\A i \in 1 .. m : r[i].from <= s) /\ b.from <= s /\ s <= b.to
        BY <2>7, <3>1
      <4>2. Reached(d, s) \/ StartsBelow(d, s)
        BY <4>1, <2>1 DEF CoalesceInv
      <4> QED BY <4>1, <4>2, <2>4
    <3>2. CASE k # m + 1
      <4>1. k \in 1 .. m
        BY <3>2
      <4>2. Reached(d, s)
        BY <4>1, <2>7, <2>1 DEF CoalesceInv
      <4> QED BY <4>2, <2>4
    <3> QED BY <3>1, <3>2
  <2>8. CoalesceInv(r, S, e, m + 1)
    BY <2>4, <2>5, <2>6, <2>7 DEF CoalesceInv
  <2> QED BY <2>8 DEF e
<1> HIDE DEF T
<1>5. \A m \in Nat : m \in T
  BY <1>3, <1>4, SetInduction
<1> QED BY <1>1, <1>2, <1>5 DEF T

-----------------------------------------------------------------------------
(* Taking an entry out of the array (remove_at, gaps.c 88-93). *)
LEMMA RemoveAtEntries ==
    ASSUME NEW E, NEW r \in Seq(E), NEW i \in 1 .. Len(r)
    PROVE  /\ RemoveAt(r, i) \in Seq(E) /\ Len(RemoveAt(r, i)) = Len(r) - 1
           /\ \A j \in 1 .. Len(r) - 1 :
                 RemoveAt(r, i)[j] = IF j < i THEN r[j] ELSE r[j + 1]
<1> DEFINE a == SubSeq(r, 1, i - 1)
           b == SubSeq(r, i + 1, Len(r))
<1>1. a \in Seq(E) /\ Len(a) = i - 1 /\ \A j \in 1 .. i - 1 : a[j] = r[j]
  OBVIOUS
<1>2. b \in Seq(E) /\ Len(b) = Len(r) - i /\ \A j \in 1 .. Len(r) - i : b[j] = r[i + j]
  OBVIOUS
<1>3. RemoveAt(r, i) = a \o b
  BY DEF RemoveAt
<1> HIDE DEF a, b
<1>4. /\ a \o b \in Seq(E) /\ Len(a \o b) = Len(r) - 1
      /\ \A j \in 1 .. Len(r) - 1 : (a \o b)[j] = IF j < i THEN a[j] ELSE b[j - (i - 1)]
  <2>1. Len(a) + Len(b) = Len(r) - 1
    BY <1>1, <1>2
  <2>2. /\ a \o b \in Seq(E) /\ Len(a \o b) = Len(a) + Len(b)
        /\ \A j \in 1 .. Len(a) + Len(b) :
              (a \o b)[j] = IF j <= Len(a) THEN a[j] ELSE b[j - Len(a)]
    BY <1>1, <1>2, ConcatProperties, Zenon
  <2>3. ASSUME NEW j \in 1 .. Len(r) - 1
        PROVE  (a \o b)[j] = IF j < i THEN a[j] ELSE b[j - (i - 1)]
    <3>1. j <= Len(a) <=> j < i
      BY <1>1
    <3>2. (a \o b)[j] = IF j <= Len(a) THEN a[j] ELSE b[j - Len(a)]
      BY <2>1, <2>2
    <3> QED BY <1>1, <3>1, <3>2, Zenon
  <2> QED BY <2>1, <2>2, <2>3
<1>5. ASSUME NEW j \in 1 .. Len(r) - 1
      PROVE  (a \o b)[j] = IF j < i THEN r[j] ELSE r[j + 1]
  <2>1. CASE j < i
    BY <1>1, <1>4, <2>1
  <2>2. CASE ~(j < i)
    <3>1. j - (i - 1) \in 1 .. Len(r) - i /\ i + (j - (i - 1)) = j + 1
      BY <2>2
    <3> QED BY <1>2, <1>4, <2>2, <3>1
  <2> QED BY <2>1, <2>2
<1> QED BY <1>3, <1>4, <1>5

(* Putting an entry into the array (the memmove of insert and of a claim). *)
LEMMA InsertAtEntries ==
    ASSUME NEW E, NEW r \in Seq(E), NEW i \in 1 .. Len(r) + 1, NEW e \in E
    PROVE  /\ InsertAt(r, i, e) \in Seq(E) /\ Len(InsertAt(r, i, e)) = Len(r) + 1
           /\ \A j \in 1 .. Len(r) + 1 :
                 InsertAt(r, i, e)[j] = IF j < i THEN r[j] ELSE IF j = i THEN e ELSE r[j - 1]
<1> DEFINE a == SubSeq(r, 1, i - 1)
           b == SubSeq(r, i, Len(r))
           c == a \o <<e>>
<1>1. a \in Seq(E) /\ Len(a) = i - 1 /\ \A j \in 1 .. i - 1 : a[j] = r[j]
  OBVIOUS
<1>2. b \in Seq(E) /\ Len(b) = Len(r) - i + 1 /\ \A j \in 1 .. Len(r) - i + 1 : b[j] = r[i + j - 1]
  OBVIOUS
<1>3. InsertAt(r, i, e) = c \o b
  BY DEF InsertAt
<1> HIDE DEF a, b
<1>4. c \in Seq(E) /\ Len(c) = i /\ c[i] = e /\ \A j \in 1 .. i - 1 : c[j] = a[j]
  BY <1>1
<1> HIDE DEF c
<1>5. /\ c \o b \in Seq(E) /\ Len(c \o b) = Len(r) + 1
      /\ \A j \in 1 .. Len(r) + 1 : (c \o b)[j] = IF j <= i THEN c[j] ELSE b[j - i]
  BY <1>2, <1>4
<1>6. ASSUME NEW j \in 1 .. Len(r) + 1
      PROVE  (c \o b)[j] = IF j < i THEN r[j] ELSE IF j = i THEN e ELSE r[j - 1]
  <2>1. CASE j <= i
    BY <1>1, <1>4, <1>5, <2>1
  <2>2. CASE ~(j <= i)
    <3>1. j - i \in 1 .. Len(r) - i + 1 /\ i + (j - i) - 1 = j - 1
      BY <2>2
    <3> QED BY <1>2, <1>5, <2>2, <3>1
  <2> QED BY <2>1, <2>2
<1> QED BY <1>3, <1>5, <1>6

(* The pair that coarsen picks is one it may join.  Because coalesce came    *)
(* first its distance is positive, so that the unsigned subtraction of       *)
(* gaps.c 136 does not wrap.                                                 *)
LEMMA ClosestIsPair ==
    ASSUME NEW r, Valid(r), Apart(r), Mergeable(r) # {}
    PROVE  /\ Closest(r) \in 1 .. Len(r) - 1
           /\ ~r[Closest(r)].claimed /\ ~r[Closest(r) + 1].claimed
           /\ \A i \in Mergeable(r) : Distance(r, i) > 1
<1> DEFINE best == {i \in Mergeable(r) : \A j \in Mergeable(r) : Distance(r, i) <= Distance(r, j)}
<1>1. Len(r) \in Nat /\ \A i \in 1 .. Len(r) : r[i].from \in Int /\ r[i].to \in Int
  BY EntryType DEF Valid
<1>2. \A i \in Mergeable(r) : Distance(r, i) > 1 /\ Distance(r, i) \in Nat
  <2> SUFFICES ASSUME NEW i \in Mergeable(r)
               PROVE  Distance(r, i) > 1 /\ Distance(r, i) \in Nat
    OBVIOUS
  <2>1. i \in 1 .. Len(r) - 1 /\ i + 1 \in 1 .. Len(r) /\ i \in 1 .. Len(r)
    BY <1>1 DEF Mergeable
  <2>2. r[i].to + 1 < r[i + 1].from
    BY <2>1 DEF Mergeable, Apart
  <2>3. r[i].to \in Int /\ r[i + 1].from \in Int
    BY <1>1, <2>1
  <2> QED BY <2>2, <2>3 DEF Distance
<1>3. best # {}
  <2> DEFINE T == {Distance(r, i) : i \in Mergeable(r)}
  <2>1. T \subseteq Nat /\ T # {}
    BY <1>2
  <2>2. PICK x \in T : \A y \in T : x <= y
    BY <2>1, LeastNatural
  <2> QED BY <2>2
<1>4. best \subseteq 1 .. Len(r) - 1 /\ best \subseteq Nat
  BY DEF Mergeable
<1>5. Closest(r) = CHOOSE x \in best : \A y \in best : x <= y
  BY DEF Closest, Min
<1>6. PICK x \in best : \A y \in best : x <= y
  <2> HIDE DEF best
  <2> QED BY <1>3, <1>4, LeastNatural
<1>7. Closest(r) \in best
  <2> HIDE DEF best
  <2> QED BY <1>5, <1>6
<1> QED BY <1>2, <1>4, <1>7 DEF Mergeable

(* What coarsen keeps of the list r, whose ends are in S. *)
CoarsenInv(r, S, d) ==
    /\ d \in Seq(Entries) /\ Valid(d) /\ Apart(d) /\ EndsIn(d, S) /\ Len(d) <= Len(r)
    /\ \A s \in Int : Reached(r, s) => Reached(d, s)

(* A turn of coarsen: the pair becomes one entry, which covers both and what *)
(* lies between them (gaps.c 151-153).                                       *)
LEMMA CoarsenOnceKeeps ==
    ASSUME NEW r, NEW S, NEW d, CoarsenInv(r, S, d)
    PROVE  CoarsenInv(r, S, CoarsenOnce(d))
<1> USE DEF CoarsenInv
<1>1. CASE Len(d) <= MaxRanges \/ Mergeable(d) = {}
  BY <1>1 DEF CoarsenOnce
<1>2. CASE ~(Len(d) <= MaxRanges \/ Mergeable(d) = {})
  <2> DEFINE b == Closest(d)
             n == Len(d)
             w == [d EXCEPT ![b] = [d[b] EXCEPT !.to = d[b + 1].to]]
             e == RemoveAt(w, b + 1)
  <2>0. n \in Nat /\ d \in Seq(Entries)
    OBVIOUS
  <2>1. b \in 1 .. n - 1 /\ ~d[b].claimed /\ ~d[b + 1].claimed
    BY <1>2, ClosestIsPair
  <2>t. \A i \in 1 .. n : /\ d[i] \in Entries /\ d[i].from \in Int /\ d[i].to \in Int
                          /\ d[i].from <= d[i].to
    BY EntryType DEF Valid
  <2>2. CoarsenOnce(d) = e
    BY <1>2 DEF CoarsenOnce
  <2> HIDE DEF b
  <2>3. b \in 1 .. n /\ b + 1 \in 1 .. n /\ b \in Int
    BY <2>0, <2>1
  <2>4. d[b].to + 1 < d[b + 1].from
    BY <2>1 DEF Apart
  <2>5. [d[b] EXCEPT !.to = d[b + 1].to] \in Entries
    BY <2>3, <2>t, EntryType DEF Entries
  <2>6. w \in Seq(Entries) /\ Len(w) = n
    BY <2>0, <2>3, <2>5, ExceptSeq
  <2>7. \A i \in 1 .. n : /\ w[i].from = d[i].from /\ w[i].claimed = d[i].claimed
                          /\ w[i].to = IF i = b THEN d[b + 1].to ELSE d[i].to
    BY <2>0, <2>3, <2>t DEF Entries
  <2> HIDE DEF w, n
  <2>8. /\ e \in Seq(Entries) /\ Len(e) = n - 1
        /\ \A j \in 1 .. n - 1 : e[j] = IF j < b + 1 THEN w[j] ELSE w[j + 1]
    BY <2>3, <2>6, RemoveAtEntries
  <2> HIDE DEF e
  <2>9. \A j \in 1 .. b : j \in 1 .. n - 1 /\ e[j] = w[j]
    BY <2>0, <2>1, <2>3, <2>8
  <2>10. \A j \in b + 1 .. n - 1 : j \in 1 .. n - 1 /\ j + 1 \in 1 .. n /\ e[j] = w[j + 1]
    BY <2>0, <2>1, <2>3, <2>8
  <2>11. /\ \A j \in 1 .. b : e[j].from = d[j].from /\ e[j].claimed = d[j].claimed
         /\ \A j \in 1 .. b - 1 : e[j].to = d[j].to
         /\ e[b].to = d[b + 1].to
    BY <2>0, <2>1, <2>3, <2>7, <2>9
  <2>12. \A j \in b + 1 .. n - 1 : /\ e[j].from = d[j + 1].from /\ e[j].to = d[j + 1].to
                                   /\ e[j].claimed = d[j + 1].claimed
    BY <2>0, <2>1, <2>3, <2>7, <2>10
  <2>13. \A j \in 1 .. n - 1 : j \in 1 .. b \/ j \in b + 1 .. n - 1
    BY <2>0, <2>3
  <2>14. Valid(e)
    <3> SUFFICES ASSUME NEW j \in 1 .. n - 1 PROVE e[j].from <= e[j].to
      BY <2>8 DEF Valid
    <3>1. CASE j \in 1 .. b - 1
      BY <3>1, <2>11, <2>t, <2>0, <2>3
    <3>2. CASE j = b
      BY <3>2, <2>11, <2>t, <2>3, <2>4
    <3>3. CASE j \in b + 1 .. n - 1
      BY <3>3, <2>10, <2>12, <2>t
    <3> QED BY <3>1, <3>2, <3>3, <2>13, <2>3
  <2>15. Apart(e)
    <3> SUFFICES ASSUME NEW j \in 1 .. n - 2, ~e[j].claimed, ~e[j + 1].claimed
                 PROVE  e[j].to + 1 < e[j + 1].from
      BY <2>0, <2>8 DEF Apart
    <3>a. \A i \in 1 .. n - 1 : ~d[i].claimed /\ ~d[i + 1].claimed => d[i].to + 1 < d[i + 1].from
      BY DEF Apart, n
    <3>1. CASE j \in 1 .. b - 1
      <4>1. j \in 1 .. n - 1 /\ j \in 1 .. b /\ j + 1 \in 1 .. b
        BY <3>1, <2>0, <2>3
      <4> QED BY <3>1, <3>a, <4>1, <2>11
    <3>2. CASE j = b
      <4>1. b + 1 \in b + 1 .. n - 1 /\ b + 1 \in 1 .. n - 1 /\ b \in 1 .. b
        BY <3>2, <2>0, <2>3
      <4>2. ~d[b + 2].claimed /\ e[j + 1].from = d[b + 2].from
        <5>1. b + 1 + 1 = b + 2
          BY <2>3
        <5> QED BY <3>2, <4>1, <5>1, <2>12
      <4>3. d[b + 1].to + 1 < d[b + 2].from
        <5>1. b + 1 + 1 = b + 2
          BY <2>3
        <5> QED BY <3>a, <4>1, <4>2, <5>1, <2>1
      <4> QED BY <3>2, <4>2, <4>3, <2>11
    <3>3. CASE j \in b + 1 .. n - 2
      <4>1. j \in b + 1 .. n - 1 /\ j + 1 \in b + 1 .. n - 1 /\ j + 1 \in 1 .. n - 1
        BY <3>3, <2>0, <2>3
      <4> QED BY <3>a, <4>1, <2>12
    <3> QED BY <3>1, <3>2, <3>3, <2>0, <2>3
  <2>16. EndsIn(e, S)
    <3>1. \A i \in 1 .. n : d[i].from \in S /\ d[i].to \in S
      BY DEF EndsIn, n
    <3> SUFFICES ASSUME NEW j \in 1 .. n - 1 PROVE e[j].from \in S /\ e[j].to \in S
      BY <2>8 DEF EndsIn
    <3>2. CASE j \in 1 .. b - 1
      BY <3>1, <3>2, <2>0, <2>3, <2>11
    <3>3. CASE j = b
      BY <3>1, <3>3, <2>3, <2>11
    <3>4. CASE j \in b + 1 .. n - 1
      BY <3>1, <3>4, <2>10, <2>12
    <3> QED BY <3>2, <3>3, <3>4, <2>13, <2>3
  <2>17. ASSUME NEW s \in Int, Reached(d, s)
         PROVE  Reached(e, s)
    <3>1. PICK k \in 1 .. n : s <= d[k].to /\ \A i \in 1 .. k : d[i].from <= s
      BY <2>17 DEF Reached, n
    <3>2. CASE k \in 1 .. b - 1
      <4>1. k \in 1 .. n - 1 /\ s <= e[k].to /\ \A i \in 1 .. k : e[i].from <= s
        <5>1. k \in 1 .. n - 1 /\ \A i \in 1 .. k : i \in 1 .. b
          BY <3>2, <2>0, <2>1
        <5>2. s <= e[k].to
          BY <3>1, <3>2, <2>11
        <5> QED BY <3>1, <5>1, <5>2, <2>11
      <4> QED BY <4>1, <2>8 DEF Reached
    <3>3. CASE k \in {b, b + 1}
      <4>1. s <= e[b].to
        BY <3>1, <3>3, <2>3, <2>4, <2>11, <2>t
      <4>2. \A i \in 1 .. b : e[i].from <= s
        <5>1. \A i \in 1 .. b : i \in 1 .. k
          BY <3>3, <2>3
        <5> QED BY <3>1, <5>1, <2>11
      <4> QED BY <4>1, <4>2, <2>1, <2>8 DEF Reached
    <3>4. CASE k \in b + 2 .. n
      <4>1. k - 1 \in b + 1 .. n - 1 /\ k - 1 \in 1 .. n - 1 /\ k - 1 + 1 = k
        BY <3>4, <2>0, <2>3
      <4>2. s <= e[k - 1].to
        BY <3>1, <4>1, <2>12
      <4>3. ASSUME NEW i \in 1 .. k - 1
            PROVE  e[i].from <= s
        <5>1. CASE i \in 1 .. b
          BY <3>1, <3>4, <5>1, <2>3, <2>11
        <5>2. CASE i \in b + 1 .. n - 1
          <6>1. i + 1 \in 1 .. k
            BY <3>4
          <6> QED BY <3>1, <5>2, <6>1, <2>12
        <5> QED BY <3>4, <5>1, <5>2, <2>0, <2>3
      <4> QED BY <4>1, <4>2, <4>3, <2>8 DEF Reached
    <3> QED BY <3>2, <3>3, <3>4, <2>0, <2>3
  <2>18. Len(e) <= Len(r)
    BY <2>0, <2>8 DEF n
  <2> QED BY <2>2, <2>8, <2>14, <2>15, <2>16, <2>17, <2>18
<1> QED BY <1>1, <1>2

(* coarsen (gaps.c 123-156) joins entries until there are few enough, and    *)
(* takes away no slot that a scan reaches.                                   *)
LEMMA CoarsenKeeps ==
    ASSUME NEW r \in Seq(Entries), Valid(r), Apart(r), NEW S, EndsIn(r, S)
    PROVE  CoarsenInv(r, S, Coarsen(r))
<1> DEFINE N == Len(r)
           D == {d \in Seq(Entries) : CoarsenInv(r, S, d)}
           step == [n \in 1 .. N |-> [d \in D |-> CoarsenOnce(d)]]
           Equation(f) == f = [n \in 0 .. N |-> IF n = 0 THEN r ELSE CoarsenOnce(f[n - 1])]
<1>1. N \in Nat /\ r \in D
  BY DEF CoarsenInv
<1>2. \A d \in D : CoarsenOnce(d) \in D
  BY CoarsenOnceKeeps DEF CoarsenInv
<1>3. Coarsen(r) = (CHOOSE f : Equation(f))[N]
  BY DEF Coarsen
<1>a. \A d \in D : CoarsenInv(r, S, d)
  OBVIOUS
<1> HIDE DEF N, D
<1>4. step \in [1 .. N -> [D -> D]]
  BY <1>2
<1>5. PICK g \in [0 .. N -> D] : Iterates(g, r, step, N)
  <2> HIDE DEF step
  <2> QED BY <1>1, <1>4, IterationExists
<1>6. \A n \in 1 .. N : g[n] = CoarsenOnce(g[n - 1])
  <2> SUFFICES ASSUME NEW n \in 1 .. N PROVE g[n] = CoarsenOnce(g[n - 1])
    OBVIOUS
  <2>1. g[n] = step[n][g[n - 1]]
    <3> HIDE DEF step
    <3> QED BY <1>5 DEF Iterates
  <2>2. n - 1 \in 0 .. N
    BY <1>1
  <2>3. g[n - 1] \in D
    BY <2>2
  <2>4. step[n] = [d \in D |-> CoarsenOnce(d)]
    OBVIOUS
  <2> QED BY <2>1, <2>3, <2>4
<1>7. Equation(g)
  <2>1. g[0] = r
    BY <1>5 DEF Iterates
  <2> QED BY <1>1, <1>5, <1>6, <2>1
<1>8. PICK f : Equation(f) /\ Coarsen(r) = f[N]
  <2> HIDE DEF Equation
  <2> QED BY <1>3, <1>7
<1>9. f[0] = r /\ \A n \in 1 .. N : f[n] = CoarsenOnce(f[n - 1])
  BY <1>1, <1>8
<1> DEFINE T == {m \in Nat : m <= N => f[m] \in D}
<1>10. 0 \in T
  BY <1>1, <1>9
<1>11. ASSUME NEW m \in Nat, m \in T
       PROVE  m + 1 \in T
  <2> SUFFICES ASSUME m + 1 <= N PROVE f[m + 1] \in D
    OBVIOUS
  <2>1. m + 1 \in 1 .. N /\ f[m] \in D
    BY <1>1, <1>11
  <2>2. f[m + 1] = CoarsenOnce(f[m])
    BY <1>9, <2>1
  <2> QED BY <1>2, <2>1, <2>2
<1> HIDE DEF T
<1>12. \A m \in Nat : m \in T
  BY <1>10, <1>11, SetInduction
<1>13. f[N] \in D
  <2>1. N \in T
    BY <1>1, <1>12
  <2> QED BY <2>1 DEF T
<1>14. Coarsen(r) = f[N]
  <2> HIDE DEF Equation
  <2> QED BY <1>8
<1> QED BY <1>13, <1>14, <1>a, Zenon

(* insert (gaps.c 159-178): the list reaches what it did and the new range,  *)
(* and only slots between ends of entries come in.                           *)
LEMMA InsertKeeps ==
    ASSUME NEW r, Valid(r), NEW from \in Slots, NEW to \in Slots, from <= to,
           NEW S, EndsIn(r, S), from \in S, to \in S
    PROVE  /\ Valid(Insert(r, from, to)) /\ EndsIn(Insert(r, from, to), S)
           /\ Len(Insert(r, from, to)) <= Len(r) + 1
           /\ \A s \in Int : Reached(r, s) \/ s \in from .. to
                                => Reached(Insert(r, from, to), s)
<1> DEFINE n == Len(r)
           places == {i \in 1 .. n + 1 : i = n + 1 \/ r[i].from >= from}
           e == [from |-> from, to |-> to, claimed |-> FALSE]
<1>1. r \in Seq(Entries) /\ n \in Nat /\ from \in Int /\ to \in Int
  BY DEF Valid, Slots
<1>2. e \in Entries
  BY DEF Entries
<1>t. \A i \in 1 .. n : r[i].from \in Int /\ r[i].to \in Int /\ r[i].from <= r[i].to
  BY <1>1, EntryType DEF Valid
<1>3. PICK at \in places : \A i \in places : at <= i
  <2>1. places \subseteq Nat /\ n + 1 \in places
    BY <1>1
  <2> HIDE DEF places
  <2> QED BY <2>1, LeastNatural
<1>4. Min(places) = at
  <2>2. places \subseteq Nat
    BY <1>1
  <2> HIDE DEF places
  <2>1. Min(places) \in places /\ \A i \in places : Min(places) <= i
    BY <1>3 DEF Min
  <2>3. Min(places) \in Nat /\ at \in Nat /\ at <= Min(places) /\ Min(places) <= at
    BY <1>3, <2>1, <2>2
  <2> QED BY <2>3
<1> DEFINE q == InsertAt(r, at, e)
<1>5. Insert(r, from, to) = Coarsen(Coalesce(q))
  BY <1>4 DEF Insert
<1>6. /\ at \in 1 .. n + 1 /\ (at # n + 1 => r[at].from >= from)
      /\ \A i \in 1 .. at - 1 : r[i].from < from
  <2>1. \A i \in 1 .. at - 1 : i \in 1 .. n + 1 /\ i # n + 1 /\ i \in 1 .. n /\ i \notin places
    BY <1>1, <1>3
  <2>2. \A i \in 1 .. at - 1 : ~(r[i].from >= from)
    BY <2>1
  <2>3. \A i \in 1 .. at - 1 : r[i].from \in Int
    BY <2>1, <1>t
  <2> QED BY <1>1, <1>3, <2>2, <2>3
<1> HIDE DEF n, places, q, e
<1>7. /\ q \in Seq(Entries) /\ Len(q) = n + 1
      /\ \A j \in 1 .. n + 1 : q[j] = IF j < at THEN r[j] ELSE IF j = at THEN e ELSE r[j - 1]
  BY <1>1, <1>2, <1>6, InsertAtEntries DEF n, q
<1>8. /\ \A j \in 1 .. at - 1 : j \in 1 .. n /\ q[j] = r[j]
      /\ q[at].from = from /\ q[at].to = to
      /\ \A j \in at + 1 .. n + 1 : j - 1 \in 1 .. n /\ q[j] = r[j - 1]
  BY <1>1, <1>6, <1>7 DEF e
<1>9. \A j \in 1 .. n + 1 : j \in 1 .. at - 1 \/ j = at \/ j \in at + 1 .. n + 1
  BY <1>1, <1>6
<1>10. Valid(q)
  <2> SUFFICES ASSUME NEW j \in 1 .. n + 1 PROVE q[j].from <= q[j].to
    BY <1>7 DEF Valid
  <2> QED BY <1>8, <1>9, <1>t
<1>11. EndsIn(q, S)
  <2> SUFFICES ASSUME NEW j \in 1 .. n + 1 PROVE q[j].from \in S /\ q[j].to \in S
    BY <1>7 DEF EndsIn
  <2>1. \A i \in 1 .. n : r[i].from \in S /\ r[i].to \in S
    BY DEF EndsIn, n
  <2> QED BY <1>8, <1>9, <2>1
<1>12. ASSUME NEW s \in from .. to
       PROVE  Reached(q, s)
  <2>1. s <= q[at].to
    BY <1>1, <1>8
  <2>2. ASSUME NEW i \in 1 .. at
        PROVE  q[i].from <= s
    <3>1. CASE i = at
      BY <3>1, <1>1, <1>8
    <3>2. CASE i # at
      <4>1. i \in 1 .. at - 1 /\ i \in 1 .. n /\ q[i].from = r[i].from
        BY <3>2, <1>6, <1>8
      <4> QED BY <4>1, <1>1, <1>6, <1>t
    <3> QED BY <3>1, <3>2
  <2> QED BY <2>1, <2>2, <1>6, <1>7 DEF Reached
<1>13. ASSUME NEW s \in Int, Reached(r, s)
       PROVE  Reached(q, s)
  <2>1. PICK k \in 1 .. n : s <= r[k].to /\ \A i \in 1 .. k : r[i].from <= s
    BY <1>13 DEF Reached, n
  <2>2. CASE k < at
    <3>1. k \in 1 .. n + 1 /\ k \in 1 .. at - 1 /\ \A i \in 1 .. k : i \in 1 .. at - 1
      BY <2>2, <1>1, <1>6
    <3>2. s <= q[k].to /\ \A i \in 1 .. k : q[i].from <= s
      BY <3>1, <2>1, <1>8
    <3> QED BY <3>1, <3>2, <1>7 DEF Reached
  <2>3. CASE ~(k < at)
    <3>1. k + 1 \in at + 1 .. n + 1 /\ k + 1 \in 1 .. n + 1 /\ k + 1 - 1 = k
      BY <2>3, <1>1, <1>6
    <3>2. s <= q[k + 1].to
      BY <3>1, <2>1, <1>8
    <3>3. from <= s
      <4>1. at \in 1 .. k /\ at \in 1 .. n /\ at # n + 1
        BY <2>3, <1>1, <1>6
      <4>2. r[at].from <= s /\ r[at].from >= from /\ r[at].from \in Int
        BY <4>1, <2>1, <1>6, <1>t
      <4> QED BY <4>2, <1>1
    <3>4. ASSUME NEW i \in 1 .. k + 1
          PROVE  q[i].from <= s
      <4>1. CASE i \in 1 .. at - 1
        <5>1. i \in 1 .. k
          BY <4>1, <2>3, <1>6
        <5> QED BY <4>1, <5>1, <2>1, <1>8
      <4>2. CASE i = at
        BY <4>2, <3>3, <1>8
      <4>3. CASE i \in at + 1 .. n + 1
        <5>1. i - 1 \in 1 .. k
          BY <4>3, <1>6
        <5> QED BY <4>3, <5>1, <2>1, <1>8
      <4> QED BY <4>1, <4>2, <4>3, <3>1, <1>1, <1>6
    <3> QED BY <3>1, <3>2, <3>4, <1>7 DEF Reached
  <2> QED BY <2>2, <2>3, <1>6
<1>14. CoalesceInv(q, S, Coalesce(q), Len(q))
  BY <1>10, <1>11, CoalesceKeeps
<1>15. \A s \in Int : Reached(q, s) => Reached(Coalesce(q), s)
  BY <1>14 DEF CoalesceInv, Reached
<1>16. CoarsenInv(Coalesce(q), S, Coarsen(Coalesce(q)))
  BY <1>14, CoarsenKeeps DEF CoalesceInv
<1>17. Len(Coarsen(Coalesce(q))) <= Len(r) + 1
  BY <1>1, <1>7, <1>14, <1>16 DEF CoalesceInv, CoarsenInv, n
<1>18. \A s \in from .. to : s \in Int
  BY <1>1
<1> QED BY <1>5, <1>12, <1>13, <1>15, <1>16, <1>17, <1>18 DEF CoarsenInv

-----------------------------------------------------------------------------
(* The slots of a list are those between the bounds of an entry. *)
LEMMA SlotsOfList ==
    ASSUME NEW r \in Seq(Entries)
    PROVE  /\ \A s : s \in SlotsOf(r) <=> \E i \in 1 .. Len(r) : s \in Span(r[i])
           /\ SlotsOf(r) \subseteq Slots
<1>1. \A s : s \in SlotsOf(r) <=> \E i \in 1 .. Len(r) : s \in Span(r[i])
  BY DEF SlotsOf
<1>2. \A i \in 1 .. Len(r) : r[i].from \in Slots /\ r[i].to \in Slots
  BY EntryType
<1> QED BY <1>1, <1>2, GapsAssumption DEF Span, Slots

(* A slot that is reached is outstanding, and an entry that is not empty has *)
(* its ends among the slots.                                                 *)
LEMMA ReachedIsThere ==
    ASSUME NEW r, Valid(r)
    PROVE  /\ \A s \in Int : Reached(r, s) => s \in SlotsOf(r)
           /\ EndsIn(r, SlotsOf(r))
<1>1. r \in Seq(Entries) /\ Len(r) \in Nat
  BY DEF Valid
<1>2. \A i \in 1 .. Len(r) : r[i].from \in Int /\ r[i].to \in Int /\ r[i].from <= r[i].to
  BY <1>1, EntryType DEF Valid
<1>3. ASSUME NEW s \in Int, Reached(r, s)
      PROVE  s \in SlotsOf(r)
  <2>1. PICK k \in 1 .. Len(r) : s <= r[k].to /\ \A i \in 1 .. k : r[i].from <= s
    BY <1>3 DEF Reached
  <2>2. s \in Span(r[k])
    BY <2>1, <1>2 DEF Span
  <2> QED BY <2>2, <1>1, SlotsOfList
<1>4. ASSUME NEW i \in 1 .. Len(r)
      PROVE  r[i].from \in SlotsOf(r) /\ r[i].to \in SlotsOf(r)
  <2>1. r[i].from \in Span(r[i]) /\ r[i].to \in Span(r[i])
    BY <1>2 DEF Span
  <2> QED BY <2>1, <1>1, SlotsOfList
<1> QED BY <1>3, <1>4 DEF EndsIn

(* Two lists, one after the other. *)
LEMMA ConcatKeeps ==
    ASSUME NEW d, Valid(d), NEW p, Valid(p)
    PROVE  /\ Valid(d \o p) /\ Len(d \o p) = Len(d) + Len(p)
           /\ SlotsOf(d \o p) = SlotsOf(d) \cup SlotsOf(p)
           /\ \A s \in Int :
                 /\ Reached(d, s) => Reached(d \o p, s)
                 /\ StartsBelow(d, s) /\ Reached(p, s) => Reached(d \o p, s)
                 /\ StartsBelow(d, s) /\ StartsBelow(p, s) => StartsBelow(d \o p, s)
<1> DEFINE e == d \o p
           m == Len(d)
           n == Len(p)
<1>1. d \in Seq(Entries) /\ p \in Seq(Entries) /\ m \in Nat /\ n \in Nat
  BY DEF Valid
<1>2. /\ e \in Seq(Entries) /\ Len(e) = m + n
      /\ \A i \in 1 .. m + n : e[i] = IF i <= m THEN d[i] ELSE p[i - m]
  BY <1>1, ConcatProperties, Zenon
<1>3. /\ \A i \in 1 .. m : i \in 1 .. m + n /\ e[i] = d[i]
      /\ \A i \in 1 .. n : m + i \in 1 .. m + n /\ e[m + i] = p[i]
  <2> HIDE DEF e, m, n
  <2>1. \A i \in 1 .. n : m + i \in 1 .. m + n /\ m + i - m = i /\ ~(m + i <= m)
    BY <1>1
  <2>2. \A i \in 1 .. m : i \in 1 .. m + n /\ i <= m
    BY <1>1
  <2>3. \A i \in 1 .. m : e[i] = d[i]
    BY <1>2, <2>2
  <2>4. ASSUME NEW i \in 1 .. n
        PROVE  e[m + i] = p[i]
    <3>1. PICK x \in 1 .. m + n : x = m + i /\ ~(x <= m) /\ x - m = i
      BY <1>1, <2>1
    <3>2. e[x] = p[x - m]
      BY <3>1, <1>2
    <3> QED BY <3>1, <3>2
  <2> QED BY <2>1, <2>2, <2>3, <2>4
<1> HIDE DEF e
<1>4. \A i \in 1 .. m + n : i \in 1 .. m \/ \E j \in 1 .. n : i = m + j
  <2> SUFFICES ASSUME NEW i \in 1 .. m + n, i > m PROVE \E j \in 1 .. n : i = m + j
    BY <1>1
  <2> HIDE DEF m, n
  <2>1. i - m \in 1 .. n /\ i = m + (i - m)
    BY <1>1
  <2> QED BY <2>1
<1>5. Valid(e)
  <2> SUFFICES ASSUME NEW i \in 1 .. m + n PROVE e[i].from <= e[i].to
    BY <1>2 DEF Valid
  <2> QED BY <1>3, <1>4 DEF Valid
<1>6. SlotsOf(e) = SlotsOf(d) \cup SlotsOf(p)
  <2>1. \A s : s \in SlotsOf(e) <=> \E i \in 1 .. m + n : s \in Span(e[i])
    BY <1>2, SlotsOfList
  <2>2. \A s : s \in SlotsOf(d) <=> \E i \in 1 .. m : s \in Span(d[i])
    BY <1>1, SlotsOfList
  <2>3. \A s : s \in SlotsOf(p) <=> \E i \in 1 .. n : s \in Span(p[i])
    BY <1>1, SlotsOfList
  <2> HIDE DEF m, n
  <2>4. ASSUME NEW s \in SlotsOf(e)
        PROVE  s \in SlotsOf(d) \cup SlotsOf(p)
    BY <2>1, <2>2, <2>3, <1>3, <1>4
  <2>5. ASSUME NEW s \in SlotsOf(d) \cup SlotsOf(p)
        PROVE  s \in SlotsOf(e)
    BY <2>1, <2>2, <2>3, <1>3
  <2> QED BY <2>4, <2>5
<1>7. ASSUME NEW s \in Int, Reached(d, s)
      PROVE  Reached(e, s)
  <2>1. PICK k \in 1 .. m : s <= d[k].to /\ \A i \in 1 .. k : d[i].from <= s
    BY <1>7 DEF Reached
  <2>2. \A i \in 1 .. k : i \in 1 .. m
    BY <1>1
  <2>3. k \in 1 .. m + n /\ s <= e[k].to /\ \A i \in 1 .. k : e[i].from <= s
    BY <2>1, <2>2, <1>3
  <2> QED BY <2>3, <1>2 DEF Reached
<1>8. ASSUME NEW s \in Int, StartsBelow(d, s), Reached(p, s)
      PROVE  Reached(e, s)
  <2>1. PICK k \in 1 .. n : s <= p[k].to /\ \A i \in 1 .. k : p[i].from <= s
    BY <1>8 DEF Reached
  <2>2. m + k \in 1 .. m + n /\ s <= e[m + k].to
    BY <2>1, <1>3
  <2>3. ASSUME NEW i \in 1 .. m + k
        PROVE  e[i].from <= s
    <3>1. CASE i \in 1 .. m
      BY <3>1, <1>3, <1>8 DEF StartsBelow
    <3>2. CASE i \notin 1 .. m
      <4> HIDE DEF m, n
      <4>1. i - m \in 1 .. k /\ i - m \in 1 .. n /\ i = m + (i - m)
        BY <3>2, <1>1
      <4>2. p[i - m].from <= s /\ e[m + (i - m)] = p[i - m]
        BY <4>1, <2>1, <1>3
      <4> QED BY <4>1, <4>2
    <3> QED BY <3>1, <3>2
  <2> QED BY <2>2, <2>3, <1>2 DEF Reached
<1>9. ASSUME NEW s \in Int, StartsBelow(d, s), StartsBelow(p, s)
      PROVE  StartsBelow(e, s)
  <2> SUFFICES ASSUME NEW i \in 1 .. m + n PROVE e[i].from <= s
    BY <1>2 DEF StartsBelow
  <2> QED BY <1>3, <1>4, <1>9 DEF StartsBelow
<1> QED BY <1>2, <1>5, <1>6, <1>7, <1>8, <1>9 DEF e

(* What is left of an entry when there is room to split it. *)
Pieces(e, from, to) == Cut(e, from, to, FALSE)

(* idx_gaps_resolve on one entry (gaps.c 253-291): the pieces are the entry  *)
(* without the range, and a scan that came to the entry still finds the slot *)
(* in a piece, or starts no piece above it.                                  *)
LEMMA PiecesKeep ==
    ASSUME NEW e \in Entries, e.from <= e.to, NEW from \in Slots, NEW to \in Slots, from <= to
    PROVE  /\ Valid(Pieces(e, from, to)) /\ Len(Pieces(e, from, to)) <= 2
           /\ SlotsOf(Pieces(e, from, to)) = Span(e) \ (from .. to)
           /\ \A s \in Int \ (from .. to) : e.from <= s =>
                 /\ Reached(Pieces(e, from, to), s) \/ StartsBelow(Pieces(e, from, to), s)
                 /\ s <= e.to => Reached(Pieces(e, from, to), s)
<1> DEFINE p == Pieces(e, from, to)
           lower == [e EXCEPT !.to = from - 1]
           upper == [e EXCEPT !.from = to + 1]
<1>1. e.from \in Slots /\ e.to \in Slots /\ e.from \in Int /\ e.to \in Int
      /\ from \in Int /\ to \in Int
  BY EntryType DEF Slots
<1>2. e.from < from => lower \in Entries
  <2>1. e.from < from => from - 1 \in Slots
    BY <1>1, GapsAssumption DEF Slots
  <2> QED BY <2>1 DEF Entries
<1>3. to < e.to => upper \in Entries
  <2>1. to < e.to => to + 1 \in Slots
    BY <1>1, GapsAssumption DEF Slots
  <2> QED BY <2>1 DEF Entries
<1>4. /\ lower.from = e.from /\ lower.to = from - 1
      /\ upper.from = to + 1 /\ upper.to = e.to
  BY DEF Entries
<1>5. CASE e.to < from \/ e.from > to
  <2>1. p = <<e>>
    BY <1>5 DEF Pieces, Cut
  <2>2. Valid(p) /\ Len(p) = 1 /\ p[1] = e
    BY <2>1 DEF Valid
  <2> HIDE DEF p, lower, upper
  <2>3. SlotsOf(p) = Span(e) \ (from .. to)
    <3>1. \A s : s \in SlotsOf(p) <=> \E i \in 1 .. 1 : s \in Span(p[i])
      BY <2>2, SlotsOfList DEF Valid
    <3>2. 1 \in 1 .. 1 /\ \A i \in 1 .. 1 : i = 1
      OBVIOUS
    <3>3. \A s : s \in SlotsOf(p) <=> s \in Span(e)
      BY <3>1, <3>2, <2>2, Zenon
    <3> QED BY <3>3, <1>1, <1>5 DEF Span
  <2> QED BY <2>2, <2>3 DEF Reached, StartsBelow, p
<1>6. CASE ~(e.to < from \/ e.from > to) /\ from <= e.from /\ to >= e.to
  <2>1. p = <<>>
    BY <1>6 DEF Pieces, Cut
  <2>2. Valid(p) /\ Len(p) = 0
    BY <2>1 DEF Valid
  <2>3. SlotsOf(p) = {} /\ Span(e) \subseteq from .. to
    BY <2>1, <1>1, <1>6 DEF SlotsOf, Span
  <2> HIDE DEF p, lower, upper
  <2> QED BY <2>2, <2>3, <1>1, <1>6 DEF StartsBelow, p
<1>7. CASE ~(e.to < from \/ e.from > to) /\ from <= e.from /\ ~(to >= e.to)
  <2>1. p = <<upper>>
    BY <1>7 DEF Pieces, Cut
  <2>0. upper \in Entries
    BY <1>1, <1>3, <1>7
  <2> HIDE DEF lower, upper
  <2>2. Valid(p) /\ Len(p) = 1 /\ p[1] = upper
    BY <2>0, <2>1, <1>1, <1>4, <1>7 DEF Valid
  <2> HIDE DEF p
  <2>3. SlotsOf(p) = Span(e) \ (from .. to)
    <3>1. \A s : s \in SlotsOf(p) <=> \E i \in 1 .. 1 : s \in Span(p[i])
      BY <2>2, SlotsOfList DEF Valid
    <3>2. 1 \in 1 .. 1 /\ \A i \in 1 .. 1 : i = 1
      OBVIOUS
    <3>3. \A s : s \in SlotsOf(p) <=> s \in Span(upper)
      BY <3>1, <3>2, <2>2, Zenon
    <3> QED BY <3>3, <1>1, <1>4, <1>7 DEF Span
  <2> QED BY <2>2, <2>3, <1>1, <1>4, <1>7 DEF Reached, StartsBelow, p
<1>8. CASE ~(e.to < from \/ e.from > to) /\ ~(from <= e.from) /\ to >= e.to
  <2>1. p = <<lower>>
    BY <1>8 DEF Pieces, Cut
  <2>0. lower \in Entries
    BY <1>1, <1>2, <1>8
  <2> HIDE DEF lower, upper
  <2>2. Valid(p) /\ Len(p) = 1 /\ p[1] = lower
    BY <2>0, <2>1, <1>1, <1>4, <1>8 DEF Valid
  <2> HIDE DEF p
  <2>3. SlotsOf(p) = Span(e) \ (from .. to)
    <3>1. \A s : s \in SlotsOf(p) <=> \E i \in 1 .. 1 : s \in Span(p[i])
      BY <2>2, SlotsOfList DEF Valid
    <3>2. 1 \in 1 .. 1 /\ \A i \in 1 .. 1 : i = 1
      OBVIOUS
    <3>3. \A s : s \in SlotsOf(p) <=> s \in Span(lower)
      BY <3>1, <3>2, <2>2, Zenon
    <3> QED BY <3>3, <1>1, <1>4, <1>8 DEF Span
  <2> QED BY <2>2, <2>3, <1>1, <1>4, <1>8 DEF Reached, StartsBelow, p
<1>9. CASE ~(e.to < from \/ e.from > to) /\ ~(from <= e.from) /\ ~(to >= e.to)
  <2>1. p = <<lower, upper>>
    BY <1>9 DEF Pieces, Cut
  <2>0. lower \in Entries /\ upper \in Entries
    BY <1>1, <1>2, <1>3, <1>9
  <2> HIDE DEF lower, upper
  <2>2. /\ p \in Seq(Entries) /\ Len(p) = 2 /\ p[1] = lower /\ p[2] = upper
        /\ \A i \in 1 .. 2 : i = 1 \/ i = 2
    BY <2>0, <2>1
  <2> HIDE DEF p
  <2>3. Valid(p)
    BY <2>2, <1>1, <1>4, <1>9 DEF Valid
  <2>4. SlotsOf(p) = Span(e) \ (from .. to)
    <3>1. \A s : s \in SlotsOf(p) <=> \E i \in 1 .. 2 : s \in Span(p[i])
      BY <2>2, SlotsOfList
    <3>2. \A s : s \in SlotsOf(p) <=> s \in Span(lower) \/ s \in Span(upper)
      BY <3>1, <2>2
    <3> QED BY <3>2, <1>1, <1>4, <1>9 DEF Span
  <2>5. ASSUME NEW s \in Int \ (from .. to), e.from <= s
        PROVE  /\ Reached(p, s) \/ StartsBelow(p, s)
               /\ s <= e.to => Reached(p, s)
    <3>1. CASE s < from
      <4>1. s <= p[1].to /\ \A i \in 1 .. 1 : p[i].from <= s
        BY <3>1, <2>2, <2>5, <1>1, <1>4
      <4> QED BY <4>1, <2>2 DEF Reached
    <3>2. CASE ~(s < from)
      <4>1. \A i \in 1 .. 2 : p[i].from <= s
        BY <3>2, <2>2, <2>5, <1>1, <1>4
      <4>2. p[2].to = e.to
        BY <2>2, <1>4
      <4> QED BY <4>1, <4>2, <2>2 DEF Reached, StartsBelow
    <3> QED BY <3>1, <3>2
  <2> QED BY <2>2, <2>3, <2>4, <2>5 DEF p
<1> QED BY <1>5, <1>6, <1>7, <1>8, <1>9

(* The loop of idx_gaps_resolve, entry by entry. *)
LEMMA CutRuns ==
    ASSUME NEW r, Valid(r), NEW from \in Slots, NEW to \in Slots, from <= to
    PROVE  \E f : /\ f[0] = <<>> /\ CutAll(r, from, to, {}) = f[Len(r)]
                  /\ \A n \in 1 .. Len(r) : f[n] = f[n - 1] \o Pieces(r[n], from, to)
<1> DEFINE N == Len(r)
           D == Seq(Entries)
           none == <<>>
           piece(n) == Cut(r[n], from, to, n \in {})
           longer(d, n) == d \o piece(n)
           step == [n \in 1 .. N |-> [d \in D |-> longer(d, n)]]
           Equation(f) == f = [n \in 0 .. N |-> IF n = 0 THEN none ELSE longer(f[n - 1], n)]
<1>1. N \in Nat /\ none \in D /\ \A n \in 1 .. N : r[n] \in Entries /\ r[n].from <= r[n].to
  BY DEF Valid
<1>2. \A n : piece(n) = Pieces(r[n], from, to)
  BY DEF Pieces, Cut
<1>3. CutAll(r, from, to, {}) = (CHOOSE f : Equation(f))[N]
  BY DEF CutAll
<1>a. \A d, n : longer(d, n) = d \o piece(n)
  OBVIOUS
<1> HIDE DEF piece
<1>4. \A n \in 1 .. N : \A d \in D : longer(d, n) \in D
  <2> SUFFICES ASSUME NEW n \in 1 .. N, NEW d \in D PROVE longer(d, n) \in D
    OBVIOUS
  <2>1. piece(n) \in Seq(Entries)
    BY <1>1, <1>2, PiecesKeep DEF Valid
  <2> QED BY <2>1
<1> HIDE DEF N, D, none, longer
<1>5. step \in [1 .. N -> [D -> D]]
  BY <1>4
<1>6. PICK g \in [0 .. N -> D] : Iterates(g, none, step, N)
  <2> HIDE DEF step
  <2> QED BY <1>1, <1>5, IterationExists
<1>7. \A n \in 1 .. N : g[n] = longer(g[n - 1], n)
  <2> SUFFICES ASSUME NEW n \in 1 .. N PROVE g[n] = longer(g[n - 1], n)
    OBVIOUS
  <2>1. g[n] = step[n][g[n - 1]]
    <3> HIDE DEF step
    <3> QED BY <1>6 DEF Iterates
  <2>2. n - 1 \in 0 .. N
    BY <1>1
  <2>3. g[n - 1] \in D
    BY <2>2
  <2>4. step[n] = [d \in D |-> longer(d, n)]
    OBVIOUS
  <2> QED BY <2>1, <2>3, <2>4
<1>8. Equation(g)
  <2>1. g[0] = none
    BY <1>6 DEF Iterates
  <2> QED BY <1>1, <1>6, <1>7, <2>1
<1>9. PICK f : Equation(f) /\ CutAll(r, from, to, {}) = f[N]
  <2> HIDE DEF Equation
  <2> QED BY <1>3, <1>8
<1>10. f[0] = none /\ \A n \in 1 .. N : f[n] = longer(f[n - 1], n)
  BY <1>1, <1>9
<1>11. \A n \in 1 .. N : f[n] = f[n - 1] \o Pieces(r[n], from, to)
  BY <1>2, <1>10, <1>a, Zenon
<1>12. CutAll(r, from, to, {}) = f[N]
  <2> HIDE DEF Equation
  <2> QED BY <1>9
<1>13. f[0] = <<>>
  BY <1>10, Zenon DEF none
<1> QED BY <1>11, <1>12, <1>13, Zenon DEF N

(* What idx_gaps_resolve has done after n entries of r. *)
CutInv(r, from, to, d, n) ==
    /\ Valid(d) /\ Len(d) <= 2 * n
    /\ \A s : s \in SlotsOf(d) <=> s \notin from .. to /\ \E i \in 1 .. n : s \in Span(r[i])
    /\ \A s \in Int \ (from .. to) :
          /\ (\A i \in 1 .. n : r[i].from <= s) => Reached(d, s) \/ StartsBelow(d, s)
          /\ \A k \in 1 .. n :
                s <= r[k].to /\ (\A i \in 1 .. k : r[i].from <= s) => Reached(d, s)

(* idx_gaps_resolve (gaps.c 241-294) takes away the range and nothing else,  *)
(* and the rest is reached as before, although its entries were split.       *)
LEMMA CutKeeps ==
    ASSUME NEW r, Valid(r), NEW from \in Slots, NEW to \in Slots, from <= to
    PROVE  CutInv(r, from, to, CutAll(r, from, to, {}), Len(r))
<1>1. r \in Seq(Entries) /\ Len(r) \in Nat
  BY DEF Valid
<1>2. PICK f : /\ f[0] = <<>> /\ CutAll(r, from, to, {}) = f[Len(r)]
               /\ \A n \in 1 .. Len(r) : f[n] = f[n - 1] \o Pieces(r[n], from, to)
  BY CutRuns
<1> DEFINE T == {m \in Nat : m <= Len(r) => CutInv(r, from, to, f[m], m)}
<1>3. 0 \in T
  <2>1. CutInv(r, from, to, <<>>, 0)
    BY DEF CutInv, Valid, StartsBelow, SlotsOf
  <2> QED BY <1>2, <2>1
<1>4. ASSUME NEW m \in Nat, m \in T
      PROVE  m + 1 \in T
  <2> SUFFICES ASSUME m + 1 <= Len(r) PROVE CutInv(r, from, to, f[m + 1], m + 1)
    OBVIOUS
  <2> DEFINE d == f[m]
             b == r[m + 1]
             p == Pieces(b, from, to)
             e == f[m + 1]
  <2>1. CutInv(r, from, to, d, m)
    BY <1>1, <1>4
  <2>2. m + 1 \in 1 .. Len(r) /\ b \in Entries /\ b.from <= b.to
    BY <1>1 DEF Valid
  <2>3. e = d \o p
    <3>1. PICK x \in 1 .. Len(r) : x = m + 1
      BY <2>2
    <3>2. f[x] = f[x - 1] \o Pieces(r[x], from, to)
      BY <1>2, Zenon
    <3>3. x - 1 = m
      BY <3>1
    <3> QED BY <3>1, <3>2, <3>3, Zenon
  <2>4. /\ Valid(p) /\ Len(p) <= 2 /\ SlotsOf(p) = Span(b) \ (from .. to)
        /\ \A s \in Int \ (from .. to) : b.from <= s =>
              /\ Reached(p, s) \/ StartsBelow(p, s)
              /\ s <= b.to => Reached(p, s)
    <3> HIDE DEF b
    <3> QED BY <2>2, PiecesKeep
  <2> HIDE DEF d, p, e
  <2>5. /\ Valid(e) /\ Len(e) = Len(d) + Len(p) /\ SlotsOf(e) = SlotsOf(d) \cup SlotsOf(p)
        /\ \A s \in Int :
              /\ Reached(d, s) => Reached(e, s)
              /\ StartsBelow(d, s) /\ Reached(p, s) => Reached(e, s)
              /\ StartsBelow(d, s) /\ StartsBelow(p, s) => StartsBelow(e, s)
    BY <2>1, <2>3, <2>4, ConcatKeeps DEF CutInv
  <2>6. Len(e) <= 2 * (m + 1)
    BY <2>1, <2>4, <2>5 DEF CutInv, Valid
  <2>7. \A s : s \in SlotsOf(e) <=> s \notin from .. to /\ \E i \in 1 .. m + 1 : s \in Span(r[i])
    <3>1. \A i \in 1 .. m + 1 : i \in 1 .. m \/ i = m + 1
      OBVIOUS
    <3>2. \A i \in 1 .. m : i \in 1 .. m + 1
      OBVIOUS
    <3>3. \A s : s \in SlotsOf(d) <=> s \notin from .. to /\ \E i \in 1 .. m : s \in Span(r[i])
      BY <2>1 DEF CutInv
    <3>4. m + 1 \in 1 .. m + 1
      OBVIOUS
    <3> QED BY <3>1, <3>2, <3>3, <3>4, <2>4, <2>5, Zenon
  <2>8. ASSUME NEW s \in Int \ (from .. to), \A i \in 1 .. m + 1 : r[i].from <= s
        PROVE  Reached(e, s) \/ StartsBelow(e, s)
    <3>1. (\A i \in 1 .. m : r[i].from <= s) /\ b.from <= s
      BY <2>8
    <3>2. Reached(d, s) \/ StartsBelow(d, s)
      BY <3>1, <2>1 DEF CutInv
    <3> QED BY <3>1, <3>2, <2>4, <2>5
  <2>9. ASSUME NEW s \in Int \ (from .. to), NEW k \in 1 .. m + 1,
               s <= r[k].to, \A i \in 1 .. k : r[i].from <= s
        PROVE  Reached(e, s)
    <3>1. CASE k = m + 1
      <4>1. (\A i \in 1 .. m : r[i].from <= s) /\ b.from <= s /\ s <= b.to
        BY <2>9, <3>1
      <4>2. Reached(d, s) \/ StartsBelow(d, s)
        BY <4>1, <2>1 DEF CutInv
      <4> QED BY <4>1, <4>2, <2>4, <2>5
    <3>2. CASE k # m + 1
      <4>1. k \in 1 .. m
        BY <3>2
      <4>2. Reached(d, s)
        BY <4>1, <2>9, <2>1 DEF CutInv
      <4> QED BY <4>2, <2>5
    <3> QED BY <3>1, <3>2
  <2>10. CutInv(r, from, to, e, m + 1)
    BY <2>5, <2>6, <2>7, <2>8, <2>9 DEF CutInv
  <2> QED BY <2>10 DEF e
<1> HIDE DEF T
<1>5. \A m \in Nat : m \in T
  BY <1>3, <1>4, SetInduction
<1> QED BY <1>1, <1>2, <1>5 DEF T

(* idx_gaps_claim (gaps.c 203-237) picks an entry; splitting or marking it   *)
(* changes nothing about the slots, nor about the order they are met in.     *)
LEMMA ClaimKeeps ==
    ASSUME Valid(ranges), FirstUnclaimed # 0, NEW span \in 1 .. MaxSpan,
           ClaimArray(FirstUnclaimed, span)
    PROVE  /\ FirstUnclaimed \in 1 .. Len(ranges)
           /\ Valid(ranges') /\ SlotsOf(ranges') = SlotsOf(ranges)
           /\ \A s \in Int : Reached(ranges, s) => Reached(ranges', s)
<1> DEFINE n == Len(ranges)
           free == {j \in 1 .. n : ~ranges[j].claimed}
           i == FirstUnclaimed
           e == ranges[i]
           cut == e.from + span - 1
<1>1. ranges \in Seq(Entries) /\ n \in Nat
  BY DEF Valid
<1>2. i \in 1 .. n
  <2>1. i = IF free # {} THEN Min(free) ELSE 0
    BY DEF FirstUnclaimed, SelectInSeq
  <2>2. free \subseteq Nat /\ free \subseteq 1 .. n
    BY <1>1
  <2> HIDE DEF free, i
  <2>3. free # {}
    BY <2>1 DEF i
  <2>4. \E x \in free : \A y \in free : x <= y
    BY <2>2, <2>3, LeastNatural
  <2>5. Min(free) \in free
    BY <2>4 DEF Min
  <2> QED BY <2>1, <2>2, <2>3, <2>5
<1>3. ClaimArray(i, span)
  OBVIOUS
<1> HIDE DEF i
<1>4. e \in Entries /\ e.from <= e.to
  BY <1>1, <1>2 DEF Valid
<1>t. \A j \in 1 .. n : ranges[j].from \in Int /\ ranges[j].to \in Int /\ ranges[j].from <= ranges[j].to
  BY <1>1, EntryType DEF Valid
<1>5. CASE e.to > cut
  <2> DEFINE tail == [ranges EXCEPT ![i].from = cut + 1]
             head == [e EXCEPT !.to = cut, !.claimed = TRUE]
             q == InsertAt(tail, i, head)
  <2>1. ranges' = q
    BY <1>3, <1>5 DEF ClaimArray
  <2>2. e.from \in Slots /\ e.to \in Slots /\ cut \in Slots /\ cut + 1 \in Slots
        /\ e.from <= cut /\ cut + 1 <= e.to
    BY <1>4, <1>5, EntryType, GapsAssumption DEF Slots
  <2>3. head \in Entries /\ head.from = e.from /\ head.to = cut
    BY <1>4, <2>2 DEF Entries
  <2> HIDE DEF cut
  <2>4. /\ tail \in Seq(Entries) /\ Len(tail) = n
        /\ tail[i].from = cut + 1 /\ tail[i].to = e.to
        /\ \A j \in 1 .. n : j # i => tail[j] = ranges[j]
    <3>1. tail = [ranges EXCEPT ![i] = [e EXCEPT !.from = cut + 1]]
      OBVIOUS
    <3>2. [e EXCEPT !.from = cut + 1] \in Entries
      BY <1>4, <2>2 DEF Entries
    <3> QED BY <1>1, <1>2, <1>4, <3>1, <3>2, ExceptSeq DEF Entries
  <2> HIDE DEF tail, head, n
  <2>5. /\ q \in Seq(Entries) /\ Len(q) = n + 1
        /\ \A j \in 1 .. n + 1 :
              q[j] = IF j < i THEN tail[j] ELSE IF j = i THEN head ELSE tail[j - 1]
    <3>1. i \in 1 .. Len(tail) + 1
      BY <1>1, <1>2, <2>4
    <3>2. /\ q \in Seq(Entries) /\ Len(q) = Len(tail) + 1
          /\ \A j \in 1 .. Len(tail) + 1 :
                q[j] = IF j < i THEN tail[j] ELSE IF j = i THEN head ELSE tail[j - 1]
      <4>1. tail \in Seq(Entries) /\ head \in Entries
        BY <2>3, <2>4
      <4> QED BY <3>1, <4>1, InsertAtEntries, SMTT(30)
    <3> HIDE DEF q
    <3> QED BY <3>2, <2>4
  <2> HIDE DEF q
  <2>6. /\ \A j \in 1 .. n : j < i => q[j] = ranges[j]
        /\ q[i] = head
        /\ q[i + 1].from = cut + 1 /\ q[i + 1].to = e.to
        /\ \A j \in 1 .. n : j > i => q[j + 1] = ranges[j]
    <3>1. \A j \in 1 .. n : j < i => q[j] = ranges[j]
      BY <1>1, <1>2, <2>4, <2>5
    <3>2. q[i] = head
      BY <1>1, <1>2, <2>5
    <3>3. q[i + 1] = tail[i]
      <4>1. PICK x \in 1 .. n + 1 : x = i + 1
        BY <1>1, <1>2
      <4>2. x - 1 = i /\ ~(x < i) /\ x # i
        BY <4>1, <1>2
      <4>3. q[x] = tail[x - 1]
        BY <4>2, <2>5, Zenon
      <4> QED BY <4>1, <4>2, <4>3, Zenon
    <3>4. ASSUME NEW j \in 1 .. n, j > i
          PROVE  q[j + 1] = ranges[j]
      <4>1. PICK x \in 1 .. n + 1 : x = j + 1
        BY <1>1
      <4>2. x - 1 = j /\ ~(x < i) /\ x # i /\ j # i
        BY <4>1, <1>2, <3>4
      <4>3. q[x] = tail[x - 1]
        BY <4>2, <2>5, Zenon
      <4> QED BY <4>1, <4>2, <4>3, <2>4, Zenon
    <3> QED BY <3>1, <3>2, <3>3, <3>4, <2>4
  <2>7. ASSUME NEW j \in 1 .. n + 1
        PROVE  \/ j \in 1 .. n /\ j < i
               \/ j = i
               \/ j = i + 1
               \/ j - 1 \in 1 .. n /\ j - 1 > i /\ j = (j - 1) + 1
    BY <1>1, <1>2
  <2> HIDE DEF e
  <2>8. Valid(q)
    <3> SUFFICES ASSUME NEW j \in 1 .. n + 1 PROVE q[j].from <= q[j].to
      BY <2>5 DEF Valid
    <3>1. CASE j \in 1 .. n /\ j < i
      BY <3>1, <2>6, <1>t
    <3>2. CASE j = i \/ j = i + 1
      BY <3>2, <2>2, <2>3, <2>6
    <3>3. CASE j - 1 \in 1 .. n /\ j - 1 > i /\ j = (j - 1) + 1
      <4>1. q[(j - 1) + 1] = ranges[j - 1]
        BY <3>3, <2>6
      <4> QED BY <4>1, <3>3, <1>t
    <3> QED BY <2>7, <3>1, <3>2, <3>3
  <2>9. SlotsOf(q) = SlotsOf(ranges)
    <3>1. /\ \A s : s \in SlotsOf(q) <=> \E j \in 1 .. n + 1 : s \in Span(q[j])
          /\ \A s : s \in SlotsOf(ranges) <=> \E j \in 1 .. n : s \in Span(ranges[j])
      BY <2>5, <1>1, SlotsOfList DEF n
    <3>2. /\ Span(q[i]) \cup Span(q[i + 1]) = Span(ranges[i])
      BY <1>2, <1>t, <2>2, <2>3, <2>6, GapsAssumption DEF Span, e, Slots
    <3>3. ASSUME NEW s, NEW j \in 1 .. n + 1, s \in Span(q[j])
          PROVE  \E k \in 1 .. n : s \in Span(ranges[k])
      <4>1. CASE j \in 1 .. n /\ j < i
        BY <4>1, <3>3, <2>6, Zenon
      <4>2. CASE j = i \/ j = i + 1
        BY <4>2, <3>2, <3>3, <1>2, Zenon
      <4>3. CASE j - 1 \in 1 .. n /\ j - 1 > i /\ j = (j - 1) + 1
        BY <4>3, <3>3, <2>6, Zenon
      <4> QED BY <2>7, <4>1, <4>2, <4>3
    <3>4. ASSUME NEW s, NEW k \in 1 .. n, s \in Span(ranges[k])
          PROVE  \E j \in 1 .. n + 1 : s \in Span(q[j])
      <4>1. k \in 1 .. n + 1 /\ k + 1 \in 1 .. n + 1 /\ i \in 1 .. n + 1 /\ i + 1 \in 1 .. n + 1
            /\ (k < i \/ k = i \/ k > i)
        BY <1>1, <1>2
      <4> QED BY <4>1, <3>2, <3>4, <2>6, Zenon
    <3> QED BY <3>1, <3>3, <3>4, Zenon
  <2>10. ASSUME NEW s \in Int, Reached(ranges, s)
         PROVE  Reached(q, s)
    <3>1. PICK k \in 1 .. n : s <= ranges[k].to /\ \A j \in 1 .. k : ranges[j].from <= s
      BY <2>10 DEF Reached, n
    <3>2. CASE k < i
      <4>1. k \in 1 .. n + 1 /\ q[k] = ranges[k]
        BY <3>2, <1>1, <2>6
      <4>2. \A j \in 1 .. k : j \in 1 .. n /\ j < i
        BY <3>2, <1>1, <1>2
      <4>3. \A j \in 1 .. k : q[j].from <= s
        BY <4>2, <3>1, <2>6, Zenon
      <4> QED BY <4>1, <4>3, <3>1, <2>5 DEF Reached
    <3>3. CASE ~(k < i) /\ s <= cut
      <4>1. i \in 1 .. k /\ ranges[i].from <= s /\ q[i].from <= s /\ s <= q[i].to /\ i \in 1 .. n + 1
        BY <3>1, <3>3, <1>1, <1>2, <2>3, <2>6 DEF e
      <4>2. \A j \in 1 .. i : j = i \/ (j \in 1 .. k /\ j \in 1 .. n /\ j < i)
        BY <3>3, <1>1, <1>2
      <4>3. \A j \in 1 .. i : q[j].from <= s
        BY <4>1, <4>2, <3>1, <2>6, Zenon
      <4> QED BY <4>1, <4>3, <2>5 DEF Reached
    <3>4. CASE ~(k < i) /\ ~(s <= cut)
      <4>1. k + 1 \in 1 .. n + 1 /\ s <= q[k + 1].to
        <5>1. k = i \/ k > i
          BY <3>4, <1>2
        <5> QED BY <5>1, <3>1, <1>1, <2>6 DEF e
      <4>2. ASSUME NEW j \in 1 .. k + 1
            PROVE  q[j].from <= s
        <5>1. j \in 1 .. n + 1
          BY <1>1
        <5>2. CASE j \in 1 .. n /\ j < i
          <6>1. j \in 1 .. k
            BY <5>2, <3>4, <1>2
          <6> QED BY <5>2, <6>1, <3>1, <2>6, Zenon
        <5>3. CASE j = i
          <6>1. i \in 1 .. k
            BY <3>4, <1>2
          <6> QED BY <5>3, <6>1, <3>1, <2>3, <2>6 DEF e
        <5>4. CASE j = i + 1
          BY <5>4, <3>4, <2>2, <2>6 DEF Slots
        <5>5. CASE j - 1 \in 1 .. n /\ j - 1 > i /\ j = (j - 1) + 1
          <6>1. j - 1 \in 1 .. k
            BY <5>5
          <6>2. q[(j - 1) + 1] = ranges[j - 1]
            BY <5>5, <2>6, Zenon
          <6> QED BY <5>5, <6>1, <6>2, <3>1, Zenon
        <5> QED BY <5>1, <2>7, <5>2, <5>3, <5>4, <5>5
      <4> QED BY <4>1, <4>2, <2>5 DEF Reached
    <3> QED BY <3>2, <3>3, <3>4
  <2> QED BY <1>2, <2>1, <2>5, <2>8, <2>9, <2>10 DEF i, n
<1>6. CASE ~(e.to > cut)
  <2> DEFINE q == [ranges EXCEPT ![i] = [e EXCEPT !.claimed = TRUE]]
  <2>1. ranges' = q
    BY <1>3, <1>6 DEF ClaimArray
  <2>2. [e EXCEPT !.claimed = TRUE] \in Entries
    BY <1>4 DEF Entries
  <2>3. q \in Seq(Entries) /\ Len(q) = n
        /\ \A j \in 1 .. n : q[j].from = ranges[j].from /\ q[j].to = ranges[j].to
    BY <1>1, <1>2, <1>4, <2>2, ExceptSeq DEF Entries
  <2> HIDE DEF q, n
  <2>4. Valid(q)
    BY <1>t, <2>3 DEF Valid
  <2>5. SlotsOf(q) = SlotsOf(ranges)
    <3>1. \A j \in 1 .. n : Span(q[j]) = Span(ranges[j])
      BY <2>3, Zenon DEF Span
    <3>2. /\ \A s : s \in SlotsOf(q) <=> \E j \in 1 .. n : s \in Span(q[j])
          /\ \A s : s \in SlotsOf(ranges) <=> \E j \in 1 .. n : s \in Span(ranges[j])
      BY <2>3, <1>1, SlotsOfList DEF n
    <3> QED BY <3>1, <3>2, Zenon
  <2>6. ASSUME NEW s \in Int, Reached(ranges, s)
        PROVE  Reached(q, s)
    <3>1. PICK k \in 1 .. n : s <= ranges[k].to /\ \A j \in 1 .. k : ranges[j].from <= s
      BY <2>6 DEF Reached, n
    <3>2. \A j \in 1 .. k : j \in 1 .. n
      BY <1>1
    <3>3. \A j \in 1 .. k : q[j].from <= s
      BY <3>1, <3>2, <2>3, Zenon
    <3>4. s <= q[k].to
      BY <3>1, <2>3, Zenon
    <3> QED BY <3>3, <3>4, <2>3 DEF Reached
  <2> QED BY <1>2, <2>1, <2>3, <2>4, <2>5, <2>6 DEF i, n
<1> QED BY <1>5, <1>6

-----------------------------------------------------------------------------
(* THE INVARIANT *)

(* What every critical section leaves behind. *)
ArrayInv ==
    /\ Valid(ranges)
    /\ missing \subseteq Slots
    /\ \A s \in missing : Reached(ranges, s)

(* What the callers keep; a fetcher that gives a range back has no other. *)
CallersInv ==
    /\ floor \in Slots
    /\ last_seen \in Slots \cup {None} /\ committing \in Slots \cup {None}
    /\ claim \in [Workers -> Range2 \cup {NoRange}]
    /\ releasing \in [Workers -> Range2 \cup {NoRange}]
    /\ \A w \in Workers : claim[w] = NoRange \/ releasing[w] = NoRange

GapsInv == ArrayInv /\ CallersInv

(* insert as the critical section of idx_gaps_add and of the second half of  *)
(* idx_gaps_release: nothing that is missing is lost, and what comes in lies *)
(* between outstanding slots.                                                *)
LEMMA InsertStep ==
    ASSUME ~OutOfMemory, ArrayInv, NEW from \in Slots, NEW to \in Slots, from <= to,
           InsertArray(from, to)
    PROVE  ArrayInv' /\ Abstract!Recorded(from .. to)
<1>1. ranges' = Insert(ranges, from, to) /\ missing' = missing \cup (from .. to)
  BY DEF InsertArray, Failures
<1> DEFINE q == Insert(ranges, from, to)
           S == SlotsOf(ranges) \cup (from .. to)
<1>2. Valid(ranges) /\ ranges \in Seq(Entries)
  BY DEF ArrayInv, Valid
<1>3. from \in Int /\ to \in Int /\ MaxSlot \in Int /\ from .. to \subseteq Slots
      /\ from \in S /\ to \in S
  BY GapsAssumption DEF Slots
<1>4. EndsIn(ranges, S)
  BY <1>2, ReachedIsThere DEF EndsIn
<1> HIDE DEF S
<1>5. /\ Valid(q) /\ EndsIn(q, S) /\ Len(q) <= Len(ranges) + 1
      /\ \A s \in Int : Reached(ranges, s) \/ s \in from .. to => Reached(q, s)
  BY <1>2, <1>3, <1>4, InsertKeeps
<1> HIDE DEF q
<1>6. q \in Seq(Entries) /\ Len(q) \in Nat
  BY <1>5 DEF Valid
<1>7. missing' \subseteq Slots /\ \A s \in Slots : s \in Int
  BY <1>1, <1>3 DEF ArrayInv, Slots
<1>8. \A s \in missing' : Reached(q, s)
  BY <1>1, <1>5, <1>7 DEF ArrayInv
<1>10. missing' \subseteq SlotsOf(q)
  BY <1>5, <1>7, <1>8, ReachedIsThere
<1>11. SlotsOf(q) \subseteq Abstract!Hull(S)
  <2> SUFFICES ASSUME NEW s \in SlotsOf(q)
               PROVE  s \in Slots /\ (\E a \in S : a <= s) /\ (\E b \in S : s <= b)
    BY DEF Abstract!Hull
  <2>1. s \in Slots /\ \E i \in 1 .. Len(q) : s \in Span(q[i])
    BY <1>6, SlotsOfList
  <2>2. PICK i \in 1 .. Len(q) : s \in Span(q[i])
    BY <2>1
  <2>3. q[i].from \in S /\ q[i].to \in S /\ q[i].from <= s /\ s <= q[i].to
    BY <1>5, <1>6, <2>2, EntryType DEF EndsIn, Span
  <2> QED BY <2>1, <2>3
<1> QED BY <1>1, <1>5, <1>7, <1>8, <1>10, <1>11 DEF ArrayInv, Abstract!Recorded, q, S

(* idx_gaps_resolve as a critical section: the range is gone, and all the    *)
(* rest is where it was.                                                     *)
LEMMA ResolveStep ==
    ASSUME ~OutOfMemory, ArrayInv, NEW from \in Slots, NEW to \in Slots, from <= to,
           ResolveArray(from, to)
    PROVE  ArrayInv' /\ Abstract!Resolved(from .. to)
<1> DEFINE q == CutAll(ranges, from, to, {})
<1>1. ranges' = q /\ missing' = missing \ (from .. to)
  BY DEF ResolveArray
<1>2. Valid(ranges) /\ ranges \in Seq(Entries) /\ Len(ranges) \in Nat
  BY DEF ArrayInv, Valid
<1>3. CutInv(ranges, from, to, q, Len(ranges))
  BY <1>2, CutKeeps
<1> HIDE DEF q
<1>4. Valid(q)
  BY <1>3 DEF CutInv
<1>6. SlotsOf(q) = SlotsOf(ranges) \ (from .. to)
  <2>1. \A s : s \in SlotsOf(q) <=>
                  s \notin from .. to /\ \E i \in 1 .. Len(ranges) : s \in Span(ranges[i])
    BY <1>3 DEF CutInv
  <2>2. \A s : s \in SlotsOf(ranges) <=> \E i \in 1 .. Len(ranges) : s \in Span(ranges[i])
    BY <1>2, SlotsOfList
  <2> QED BY <2>1, <2>2, Zenon
<1>7. \A s \in missing' : Reached(q, s)
  <2> SUFFICES ASSUME NEW s \in missing, s \notin from .. to PROVE Reached(q, s)
    BY <1>1
  <2>1. s \in Int \ (from .. to) /\ Reached(ranges, s)
    BY DEF ArrayInv, Slots
  <2>2. PICK k \in 1 .. Len(ranges) :
           s <= ranges[k].to /\ \A i \in 1 .. k : ranges[i].from <= s
    BY <2>1 DEF Reached
  <2> QED BY <1>3, <2>1, <2>2 DEF CutInv
<1> QED BY <1>1, <1>4, <1>6, <1>7 DEF ArrayInv, Abstract!Resolved, q

(* The range of a fetcher, and what is left of it (work_range), are ranges. *)
LEMMA RestType ==
    ASSUME NEW r \in Range2, NEW slot \in Span(r)
    PROVE  /\ r.from \in Slots /\ slot \in Slots /\ r.from <= slot
           /\ Rest(r, slot) \in Range2 \cup {NoRange}
<1>1. r.from \in Slots /\ r.to \in Slots /\ r.from <= r.to /\ r.from \in Int /\ r.to \in Int
  BY DEF Range2, Slots
<1>2. slot \in Int /\ r.from <= slot /\ slot <= r.to
  BY <1>1 DEF Span
<1>3. slot \in Slots
  BY <1>1, <1>2, GapsAssumption DEF Slots
<1>4. CASE slot >= r.to
  BY <1>2, <1>3, <1>1, <1>4 DEF Rest
<1>5. CASE ~(slot >= r.to)
  <2>1. slot + 1 \in Slots /\ slot + 1 <= r.to
    BY <1>1, <1>2, <1>5, GapsAssumption DEF Slots
  <2>2. [r EXCEPT !.from = slot + 1] \in Range2
    BY <1>1, <2>1 DEF Range2
  <2> QED BY <1>1, <1>2, <1>3, <1>5, <2>2 DEF Rest
<1> QED BY <1>4, <1>5

(* What a claim hands out (gaps.c 207-236) is a range. *)
LEMMA ClaimType ==
    ASSUME NEW e \in Entries, e.from <= e.to, NEW span \in 1 .. MaxSpan
    PROVE  [from |-> e.from, to |-> Min({e.to, e.from + span - 1})] \in Range2
<1> DEFINE cut == e.from + span - 1
           S == {e.to, cut}
<1>1. e.from \in Slots /\ e.to \in Slots /\ e.from \in Int /\ e.to \in Int
  BY EntryType
<1>2. cut \in Int /\ e.from <= cut
  BY <1>1, GapsAssumption
<1> HIDE DEF cut
<1>3. \E x \in S : \A y \in S : x <= y
  BY <1>1, <1>2
<1>4. Min(S) \in S /\ \A y \in S : Min(S) <= y
  <2> HIDE DEF S
  <2> QED BY <1>3 DEF Min
<1> DEFINE top == Min(S)
<1>5. top \in {e.to, cut} /\ top <= e.to
  BY <1>4
<1> HIDE DEF top
<1>6. top \in Slots /\ e.from <= top
  BY <1>1, <1>2, <1>5, GapsAssumption DEF Slots
<1>7. [from |-> e.from, to |-> top] \in Range2
  BY <1>1, <1>6 DEF Range2
<1> QED BY <1>7 DEF top, S, cut

(* A fetcher's range, if it has one, has slots. *)
LEMMA HeldRange ==
    /\ Span(NoRange) = {} /\ NoRange \notin Range2
    /\ \A r \in Range2 : /\ r.from \in Slots /\ r.to \in Slots /\ r.from <= r.to
                         /\ r.from \in Span(r) /\ Span(r) # {}
<1>1. ASSUME NEW r \in Range2
      PROVE  r.from \in Slots /\ r.to \in Slots /\ r.from <= r.to /\ r.from \in Span(r)
  BY DEF Range2, Slots, Span
<1>2. Span(NoRange) = {} /\ NoRange \notin Range2
  BY DEF Span, NoRange, Range2
<1> QED BY <1>1, <1>2

(* Every critical section of gaps.c, called as the pipeline calls it, keeps  *)
(* the invariant and is a step of the set, or does not show in it.           *)
LEMMA GapsStep ==
    ASSUME ~OutOfMemory, GapsInv, [Next]_vars
    PROVE  GapsInv' /\ [Abstract!Next]_(Abstract!gapSetVars)
<1> DEFINE ret == [w \in Workers |-> Span(releasing[w])]
<1>i. ArrayInv /\ CallersInv
  BY DEF GapsInv
<1>r. \A w \in Workers : claim[w] \in Range2 \cup {NoRange} /\ releasing[w] \in Range2 \cup {NoRange}
  BY <1>i DEF CallersInv
<1>s. \A s \in Slots : s \in Int /\ s >= 0 /\ s # None
  BY GapsAssumption DEF Slots
<1>1. ASSUME NEW to \in Slots, Backfill(to)
      PROVE  GapsInv' /\ Abstract!Next
  <2>1. floor \in Slots /\ floor <= to /\ InsertArray(floor, to)
    BY <1>1, <1>i DEF Backfill, CallersInv
  <2>2. ArrayInv' /\ Abstract!Recorded(floor .. to)
    BY <2>1, <1>i, InsertStep
  <2>3. CallersInv'
    BY <1>1, <1>i DEF Backfill, CallersInv
  <2>4. ret' = ret
    BY <1>1 DEF Backfill
  <2>5. Abstract!Add(floor, to)
    BY <2>2, <2>4 DEF Abstract!Add
  <2> QED BY <2>1, <2>2, <2>3, <2>5 DEF GapsInv, Abstract!Next
<1>2. ASSUME NEW slot \in Slots, ObserveLive(slot)
      PROVE  GapsInv' /\ (Abstract!Next \/ UNCHANGED Abstract!gapSetVars)
  <2>1. CallersInv'
    BY <1>2, <1>i DEF ObserveLive, CallersInv
  <2>2. ret' = ret
    BY <1>2 DEF ObserveLive
  <2>3. CASE last_seen # None /\ slot > last_seen + 1
    <3>1. last_seen \in Slots /\ InsertArray(last_seen + 1, slot - 1)
      BY <1>2, <1>i, <2>3 DEF ObserveLive, CallersInv
    <3>2. last_seen + 1 \in Slots /\ slot - 1 \in Slots /\ last_seen + 1 <= slot - 1
      BY <2>3, <3>1, GapsAssumption DEF Slots
    <3>3. PICK from \in Slots, to \in Slots : from = last_seen + 1 /\ to = slot - 1
      BY <3>2
    <3>4. from <= to /\ InsertArray(from, to)
      BY <3>1, <3>2, <3>3
    <3>5. ArrayInv' /\ Abstract!Recorded(from .. to)
      BY <3>4, <1>i, InsertStep
    <3>6. Abstract!Add(from, to)
      BY <3>5, <2>2 DEF Abstract!Add
    <3> QED BY <2>1, <3>5, <3>6 DEF GapsInv, Abstract!Next
  <2>4. CASE ~(last_seen # None /\ slot > last_seen + 1)
    <3>1. UNCHANGED <<ranges, allocated, missing>>
      BY <1>2, <2>4 DEF ObserveLive
    <3>2. ArrayInv'
      BY <3>1, <1>i DEF ArrayInv
    <3>3. UNCHANGED Abstract!gapSetVars
      BY <3>1, <2>2 DEF Abstract!gapSetVars
    <3> QED BY <2>1, <3>2, <3>3 DEF GapsInv
  <2> QED BY <2>3, <2>4
<1>3. ASSUME NEW slot \in Slots, TakeRecovered(slot)
      PROVE  GapsInv' /\ UNCHANGED Abstract!gapSetVars
  <2>1. UNCHANGED <<floor, ranges, allocated, missing, last_seen, claim, releasing>>
        /\ committing' = slot
    BY <1>3 DEF TakeRecovered
  <2> QED BY <2>1, <1>i DEF GapsInv, ArrayInv, CallersInv, Abstract!gapSetVars
<1>4. ASSUME Commit
      PROVE  GapsInv' /\ Abstract!Next
  <2>1. PICK slot \in Slots : committing = slot
    BY <1>4, <1>i DEF Commit, CallersInv
  <2>2. ResolveArray(slot, slot) /\ slot <= slot
    BY <1>4, <2>1, <1>s DEF Commit
  <2>3. ArrayInv' /\ Abstract!Resolved(slot .. slot)
    BY <2>2, <1>i, ResolveStep
  <2>4. CallersInv'
    BY <1>4, <1>i DEF Commit, CallersInv
  <2>5. ret' = ret
    BY <1>4 DEF Commit
  <2>6. Abstract!Resolve(slot, slot)
    BY <2>3, <2>5 DEF Abstract!Resolve
  <2> QED BY <2>3, <2>4, <2>6 DEF GapsInv, Abstract!Next
<1>5. ASSUME NEW w \in Workers, NEW span \in 1 .. MaxSpan, Claim(w, span)
      PROVE  GapsInv' /\ UNCHANGED Abstract!gapSetVars
  <2> DEFINE i == FirstUnclaimed
             r == [from |-> ranges[i].from,
                   to |-> Min({ranges[i].to, ranges[i].from + span - 1})]
  <2>1. /\ i # 0 /\ ClaimArray(i, span) /\ claim' = [claim EXCEPT ![w] = r]
        /\ releasing[w] = NoRange
        /\ UNCHANGED <<floor, allocated, missing, last_seen, committing, releasing>>
    BY <1>5 DEF Claim
  <2>2. Valid(ranges) /\ ranges \in Seq(Entries) /\ Len(ranges) \in Nat
    BY <1>i DEF ArrayInv, Valid
  <2>3. /\ i \in 1 .. Len(ranges)
        /\ Valid(ranges') /\ SlotsOf(ranges') = SlotsOf(ranges)
        /\ \A s \in Int : Reached(ranges, s) => Reached(ranges', s)
    BY <2>1, <2>2, ClaimKeeps
  <2> HIDE DEF i
  <2>4. r \in Range2
    BY <2>2, <2>3, ClaimType DEF Valid
  <2> HIDE DEF r
  <2>5. ArrayInv'
    <3>1. missing' \subseteq Slots /\ \A s \in missing' : Reached(ranges', s)
      BY <1>i, <1>s, <2>1, <2>3 DEF ArrayInv
    <3> QED BY <2>3, <3>1 DEF ArrayInv
  <2>6. CallersInv'
    BY <1>i, <2>1, <2>4 DEF CallersInv
  <2>7. UNCHANGED Abstract!gapSetVars
    BY <2>1, <2>3 DEF Abstract!gapSetVars
  <2> QED BY <2>5, <2>6, <2>7 DEF GapsInv
<1>6. ASSUME NEW w \in Workers, PublishBlock(w)
      PROVE  GapsInv' /\ UNCHANGED Abstract!gapSetVars
  <2>1. /\ claim[w] # NoRange /\ claim' = [claim EXCEPT ![w] = Rest(claim[w], claim[w].from)]
        /\ UNCHANGED <<floor, ranges, allocated, missing, last_seen, committing, releasing>>
    BY <1>6 DEF PublishBlock
  <2>2. claim[w] \in Range2
    BY <2>1, <1>r
  <2>3. Rest(claim[w], claim[w].from) \in Range2 \cup {NoRange}
    BY <2>2, HeldRange, RestType
  <2>4. CallersInv'
    BY <1>i, <2>1, <2>3 DEF CallersInv
  <2>5. ArrayInv' /\ UNCHANGED Abstract!gapSetVars
    BY <1>i, <2>1 DEF ArrayInv, Abstract!gapSetVars
  <2> QED BY <2>4, <2>5 DEF GapsInv
<1>7. ASSUME NEW w \in Workers, BeginRelease(w)
      PROVE  GapsInv' /\ Abstract!Next
  <2>1. /\ claim[w] # NoRange /\ ResolveArray(claim[w].from, claim[w].to)
        /\ releasing' = [releasing EXCEPT ![w] = claim[w]]
        /\ claim' = [claim EXCEPT ![w] = NoRange]
        /\ UNCHANGED <<floor, last_seen, committing>>
    BY <1>7 DEF BeginRelease
  <2>2. claim[w] \in Range2 /\ releasing[w] = NoRange
    BY <2>1, <1>i, <1>r DEF CallersInv
  <2>3. PICK from \in Slots, to \in Slots :
           from = claim[w].from /\ to = claim[w].to /\ from <= to
    BY <2>2, HeldRange
  <2>4. ArrayInv' /\ Abstract!Resolved(from .. to)
    BY <2>1, <2>3, <1>i, ResolveStep
  <2>5. CallersInv'
    BY <1>i, <2>1, <2>2 DEF CallersInv
  <2>6. ret[w] = {} /\ ret' = [ret EXCEPT ![w] = from .. to]
    <3>1. Span(claim[w]) = from .. to
      BY <2>3 DEF Span
    <3>2. \A v \in Workers : Span(releasing'[v]) = IF v = w THEN from .. to ELSE Span(releasing[v])
      BY <2>1, <3>1, <1>i DEF CallersInv
    <3> QED BY <2>2, <3>2, HeldRange
  <2>7. Abstract!BeginRelease(w, from, to)
    BY <2>4, <2>6 DEF Abstract!BeginRelease
  <2> QED BY <2>4, <2>5, <2>7 DEF GapsInv, Abstract!Next
<1>8. ASSUME NEW w \in Workers, EndRelease(w)
      PROVE  GapsInv' /\ Abstract!Next
  <2>1. /\ releasing[w] # NoRange /\ InsertArray(releasing[w].from, releasing[w].to)
        /\ releasing' = [releasing EXCEPT ![w] = NoRange]
        /\ UNCHANGED <<floor, last_seen, committing, claim>>
    BY <1>8 DEF EndRelease
  <2>2. releasing[w] \in Range2
    BY <2>1, <1>r
  <2>3. PICK from \in Slots, to \in Slots :
           from = releasing[w].from /\ to = releasing[w].to /\ from <= to
    BY <2>2, HeldRange
  <2>4. ArrayInv' /\ Abstract!Recorded(from .. to)
    BY <2>1, <2>3, <1>i, InsertStep
  <2>5. CallersInv'
    BY <1>i, <2>1 DEF CallersInv
  <2>6. ret[w] = from .. to /\ ret[w] # {} /\ ret' = [ret EXCEPT ![w] = {}]
    <3>1. Span(releasing[w]) = from .. to /\ Span(releasing[w]) # {}
      BY <2>2, <2>3, HeldRange DEF Span
    <3>2. \A v \in Workers : Span(releasing'[v]) = IF v = w THEN {} ELSE Span(releasing[v])
      BY <2>1, <1>i, HeldRange DEF CallersInv
    <3> QED BY <3>1, <3>2
  <2>7. Abstract!EndRelease(w)
    BY <2>4, <2>6 DEF Abstract!EndRelease
  <2> QED BY <2>4, <2>5, <2>7 DEF GapsInv, Abstract!Next
<1>9. ASSUME NEW w \in Workers, NEW slot \in Slots, ResolveAbsent(w, slot)
      PROVE  GapsInv' /\ Abstract!Next
  <2>1. /\ slot \in Span(claim[w]) /\ ResolveArray(claim[w].from, slot)
        /\ claim' = [claim EXCEPT ![w] = Rest(claim[w], slot)]
        /\ UNCHANGED <<floor, last_seen, committing, releasing>>
    BY <1>9 DEF ResolveAbsent
  <2>2. claim[w] \in Range2
    BY <2>1, <1>r, HeldRange
  <2>3. /\ claim[w].from \in Slots /\ claim[w].from <= slot
        /\ Rest(claim[w], slot) \in Range2 \cup {NoRange}
    BY <2>1, <2>2, RestType
  <2>4. PICK from \in Slots : from = claim[w].from
    BY <2>3
  <2>5. ArrayInv' /\ Abstract!Resolved(from .. slot)
    BY <2>1, <2>3, <2>4, <1>i, ResolveStep
  <2>6. CallersInv'
    BY <1>i, <2>1, <2>2, <2>3, HeldRange DEF CallersInv
  <2>7. ret' = ret
    BY <2>1
  <2>8. Abstract!Resolve(from, slot)
    BY <2>5, <2>7 DEF Abstract!Resolve
  <2> QED BY <2>5, <2>6, <2>8 DEF GapsInv, Abstract!Next
<1>10. CASE UNCHANGED vars
  BY <1>10, <1>i DEF vars, GapsInv, ArrayInv, CallersInv, Abstract!gapSetVars
<1> QED BY <1>1, <1>2, <1>3, <1>4, <1>5, <1>6, <1>7, <1>8, <1>9, <1>10 DEF Next

(* Before the threads start the array is empty (idx_gaps_init). *)
LEMMA GapsInit ==
    ASSUME Init
    PROVE  GapsInv /\ Abstract!Init
<1>1. ArrayInv
  BY DEF Init, ArrayInv, Valid
<1>2. CallersInv
  BY DEF Init, CallersInv
<1>3. SlotsOf(ranges) = {} /\ [w \in Workers |-> Span(releasing[w])] = [w \in Workers |-> {}]
  BY HeldRange DEF Init, SlotsOf
<1> QED BY <1>1, <1>2, <1>3 DEF GapsInv, Abstract!Init, Init

(* A slot that was recorded and not resolved since is found by a scan from   *)
(* the front of the array, at any moment and however the entries were split, *)
(* merged, claimed and coarsened.                                            *)
THEOREM GapsInvariant == ~OutOfMemory => (Spec => []GapsInv)
<1> SUFFICES ASSUME ~OutOfMemory PROVE Spec => []GapsInv
  OBVIOUS
<1>1. Init => GapsInv
  BY GapsInit
<1>2. GapsInv /\ [Next]_vars => GapsInv'
  BY GapsStep
<1> QED BY <1>1, <1>2, PTL DEF Spec

(* gaps.h 38-46: the array with its claims, splits, merges and range limit   *)
(* implements the set of missing slots.                                      *)
THEOREM GapsImplementsGapSet == ~OutOfMemory => (Spec => ImplementsGapSet)
<1> SUFFICES ASSUME ~OutOfMemory PROVE Spec => ImplementsGapSet
  OBVIOUS
<1>1. Init => Abstract!Init
  BY GapsInit
<1>2. GapsInv /\ [Next]_vars => [Abstract!Next]_(Abstract!gapSetVars)
  BY GapsStep
<1>3. Spec => []GapsInv
  BY GapsInvariant
<1> QED BY <1>1, <1>2, <1>3, PTL DEF Spec, ImplementsGapSet, Abstract!Spec

(* idx_gaps_watermark (gaps.c 328-351) looks at the first entry only, and    *)
(* what it answers is safe: every missing slot lies above the answer, and    *)
(* the answer is as high as the outstanding slots allow.                     *)
THEOREM GapsWatermarkTrusted == ~OutOfMemory => (Spec => []WatermarkTrusted)
<1> SUFFICES ASSUME ~OutOfMemory PROVE Spec => []WatermarkTrusted
  OBVIOUS
<1>1. ASSUME GapsInv PROVE WatermarkTrusted
  <2> SUFFICES ASSUME NEW highest \in Slots
               PROVE  LET below(S) == {s \in 0 .. highest : \A o \in S : s < o}
                          mark == Watermark(ranges, highest)
                      IN  /\ mark = None \/ mark \in below(missing)
                          /\ \A s \in below(SlotsOf(ranges)) : mark # None /\ s <= mark
    BY DEF WatermarkTrusted
  <2> DEFINE below(S) == {s \in 0 .. highest : \A o \in S : s < o}
             mark == Watermark(ranges, highest)
  <2>1. Valid(ranges) /\ ranges \in Seq(Entries) /\ Len(ranges) \in Nat
    BY <1>1 DEF GapsInv, ArrayInv, Valid
  <2>2. highest \in Nat /\ None \notin Int /\ missing \subseteq Int
    BY <1>1, GapsAssumption DEF GapsInv, ArrayInv, Slots
  <2>3. CASE ranges = <<>>
    <3>1. mark = highest
      BY <2>3 DEF Watermark
    <3>2. missing = {}
      BY <1>1, <2>3 DEF GapsInv, ArrayInv, Reached
    <3> QED BY <2>2, <3>1, <3>2
  <2>4. CASE ranges # <<>>
    <3> DEFINE first == ranges[1].from
    <3>1. 1 \in 1 .. Len(ranges)
      BY <2>1, <2>4
    <3>2. first \in SlotsOf(ranges) /\ first \in Nat
      BY <2>1, <3>1, ReachedIsThere, EntryType DEF EndsIn, Slots
    <3>3. \A s \in missing : first <= s
      <4> SUFFICES ASSUME NEW s \in missing PROVE first <= s
        OBVIOUS
      <4>1. PICK k \in 1 .. Len(ranges) : \A i \in 1 .. k : ranges[i].from <= s
        BY <1>1 DEF GapsInv, ArrayInv, Reached
      <4>2. 1 \in 1 .. k
        BY <2>1
      <4> QED BY <4>1, <4>2
    <3>4. mark = IF first = 0 THEN None ELSE IF first - 1 < highest THEN first - 1 ELSE highest
      BY <2>2, <2>4 DEF Watermark
    <3> HIDE DEF mark, first
    <3>5. mark = None \/ mark \in below(missing)
      BY <2>2, <3>2, <3>3, <3>4
    <3>6. ASSUME NEW s \in below(SlotsOf(ranges))
          PROVE  mark # None /\ s <= mark
      <4>1. s \in 0 .. highest /\ s < first
        BY <3>2
      <4> QED BY <4>1, <2>2, <3>2, <3>4
    <3> QED BY <3>5, <3>6 DEF mark
  <2> QED BY <2>3, <2>4
<1>2. Spec => []GapsInv
  BY GapsInvariant
<1> QED BY <1>1, <1>2, PTL
=============================================================================
