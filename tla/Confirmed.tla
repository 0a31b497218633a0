----------------------------- MODULE Confirmed -----------------------------
(***************************************************************************)
(* The confirmed tier and the bars: src/src/pg_store.c (what its write,    *)
(* reorg and prune do to the tables) together with the bar registry of     *)
(* src/src/bar.c that src/src/main.c folds every priced swap into.         *)
(*                                                                         *)
(* One life of the process on an empty database.  Blocks are indexed in    *)
(* any order, as the pipeline recovers old ones between new ones; the      *)
(* chain may switch to another fork above the finalized slot; finalized    *)
(* rows are pruned.  The caller of the store is the one store.h describes: *)
(* it writes a block with the bars that block contributes, and on a reorg  *)
(* it recomputes the bars from the swaps that remain in the tier and hands *)
(* them over as the replacement.                                           *)
(*                                                                         *)
(* A price and a volume are small numbers, so sums are exact here.         *)
(***************************************************************************)
EXTENDS Integers, SequencesExt

CONSTANTS
    Blocks,     \* [slot, fork, rows, balances]: the blocks of every fork
    NoPool,     \* the pool of a row that has none
    Minute,     \* bound: seconds of the longer interval (60)
    Byte,       \* bound: values of a byte of a packed key (256)
    Margin,     \* finalized slots the caller keeps when it prunes
    Redeliver   \* whether a block may be indexed again

VARIABLES
    canon,      \* the fork of the chain at every slot
    final,      \* the finalized slot
    up,         \* the process runs; what it keeps in memory is of use
    reg,        \* the bar registry: <<pool, interval, bucket>> -> bar
    swaps,      \* table swaps: instruction path -> row
    balances,   \* a balance table: account -> [slot, value]
    bars,       \* table bars: <<pool, interval, bucket>> -> row
    indexed,    \* history: the blocks of this chain that were written
    pruned,     \* history: the slot the tier was pruned below
    lost        \* history: accounts whose row a reorg deleted

tables  == <<swaps, balances, bars>>
histVars == <<indexed, pruned, lost>>
vars    == <<canon, final, up, reg, tables, histVars>>

Slots    == {b.slot : b \in Blocks}
Forks    == {b.fork : b \in Blocks}
Rows     == UNION {ToSet(b.rows) : b \in Blocks}
Accounts == UNION {DOMAIN b.balances : b \in Blocks}
NoRows   == [x \in {} |-> x]

Place(row) == <<row.slot, row.tx, row.ins, IF row.inner THEN 1 ELSE 0, row.idx>>

(* A fork has one block at a slot, and a block one swap at a place. *)
ASSUME ConfirmedAssumption ==
    /\ \A b, c \in Blocks : b # c => <<b.slot, b.fork>> # <<c.slot, c.fork>>
    /\ \A b \in Blocks : b.rows \in Seq(Rows)
    /\ \A b \in Blocks : \A i, j \in DOMAIN b.rows :
          /\ b.rows[i].slot = b.slot
          /\ i # j => Place(b.rows[i]) # Place(b.rows[j])
    /\ Slots \subseteq Nat \ {0} /\ Forks \subseteq Nat /\ IsFiniteSet(Blocks)
    /\ \A r \in Rows : {r.tx, r.ins, r.idx, r.price, r.volume, r.time} \subseteq Nat /\ r.inner \in BOOLEAN
    /\ Minute \in Nat \ {0} /\ Byte \in Nat \ {0, 1}
    /\ Margin \in Nat /\ Redeliver \in BOOLEAN

(* The part of a table that a condition on its keys leaves. *)
Only(table, keys) == [k \in keys |-> table[k]]

-----------------------------------------------------------------------------
(* THE BAR REGISTRY *)

Intervals   == {"1s", "1m"}
Seconds(iv) == IF iv = "1s" THEN 1 ELSE Minute
BucketOf(time, iv) == (time \div Seconds(iv)) * Seconds(iv)
Key(row, iv)  == <<row.pool, iv, BucketOf(row.time, iv)>>

(* A bar input is a swap of a pool, with a price and a block time. *)
Foldable(row) == row.pool # NoPool /\ row.priced /\ row.time > 0

(* idx_bar_seq_compare, and a bytewise comparison of two packed keys. *)
Before(a, b) == \E i \in DOMAIN a : a[i] < b[i] /\ \A j \in 1 .. i - 1 : a[j] = b[j]

NewBar(row) ==
    [open |-> row.price, high |-> row.price, low |-> row.price, close |-> row.price,
     volume |-> row.volume, count |-> 1, open_seq |-> Place(row), close_seq |-> Place(row)]

Larger(a, b)  == IF a > b THEN a ELSE b
Smaller(a, b) == IF a < b THEN a ELSE b

(* observe_interval on a bar that exists. *)
Folded(bar, row) ==
    LET first == Before(Place(row), bar.open_seq)
        last  == Before(bar.close_seq, Place(row))
    IN  [open  |-> IF first THEN row.price ELSE bar.open,
         open_seq |-> IF first THEN Place(row) ELSE bar.open_seq,
         close |-> IF last THEN row.price ELSE bar.close,
         close_seq |-> IF last THEN Place(row) ELSE bar.close_seq,
         high  |-> Larger(bar.high, row.price), low |-> Smaller(bar.low, row.price),
         volume |-> bar.volume + row.volume, count |-> bar.count + 1]

(* observe_interval, for the intervals whose bucket is among the wanted ones. *)
ObserveIn(wanted, r, row) ==
    LET keys == IF Foldable(row) THEN {Key(row, iv) : iv \in Intervals} \cap wanted ELSE {}
    IN  [k \in DOMAIN r \cup keys |->
           IF k \notin keys THEN r[k]
           ELSE IF k \in DOMAIN r THEN Folded(r[k], row) ELSE NewBar(row)]

AllKeys == {Key(row, iv) : row \in Rows, iv \in Intervals}

(* idx_bar_registry_observe for every row of a block, as normalize_swaps does. *)
Observed(r, rows) == FoldLeft(LAMBDA acc, row : ObserveIn(AllKeys, acc, row), r, rows)

(* idx_bar_registry_recompute_range: every bar that closes at or above the   *)
(* slot is cleared and rebuilt, and no other one.                            *)
Affected(from) == {k \in DOMAIN reg : reg[k].close_seq[1] >= from}

(* Mistake: survivors are folded into every bar they belong to. *)
RecomputedEverywhere(from, survivors) ==
    Observed(Only(reg, DOMAIN reg \ Affected(from)), survivors)

Recomputed(from, survivors) ==
    FoldLeft(LAMBDA acc, row : ObserveIn(Affected(from), acc, row),
             Only(reg, DOMAIN reg \ Affected(from)), survivors)

-----------------------------------------------------------------------------
(* THE TABLES *)

(* Mistake: the packed number has its low byte first. *)
BigEndianReversed(n, width) == [i \in 1 .. width |-> (n \div Byte ^ (i - 1)) % Byte]
BigEndian(n, width) == [i \in 1 .. width |-> (n \div Byte ^ (width - i)) % Byte]

(* idx_bar_seq_pack; the widths are those of the code. *)
Pack(seq) == BigEndian(seq[1], 8) \o BigEndian(seq[2], 2) \o BigEndian(seq[3], 2)
             \o <<seq[4]>> \o BigEndian(seq[5], 2)

(* The row put_bar sends for a bar, and what it does to one that is there. *)
BarRow(bar) ==
    [open |-> bar.open, high |-> bar.high, low |-> bar.low, close |-> bar.close,
     volume |-> bar.volume, count |-> bar.count,
     open_seq_key |-> Pack(bar.open_seq), close_seq_key |-> Pack(bar.close_seq),
     close_seq_slot |-> bar.close_seq[1]]

Merged(old, new) ==
    LET first == Before(new.open_seq_key, old.open_seq_key)
        last  == Before(old.close_seq_key, new.close_seq_key)
    IN  [high |-> Larger(old.high, new.high), low |-> Smaller(old.low, new.low),
         volume |-> old.volume + new.volume, count |-> old.count + new.count,
         open |-> IF first THEN new.open ELSE old.open,
         open_seq_key |-> IF first THEN new.open_seq_key ELSE old.open_seq_key,
         close |-> IF last THEN new.close ELSE old.close,
         close_seq_key |-> IF last THEN new.close_seq_key ELSE old.close_seq_key,
         close_seq_slot |-> Larger(old.close_seq_slot, new.close_seq_slot)]

PutBars(table, new) ==
    [k \in DOMAIN table \cup DOMAIN new |->
       IF k \notin DOMAIN new THEN table[k]
       ELSE IF k \in DOMAIN table THEN Merged(table[k], BarRow(new[k]))
       ELSE BarRow(new[k])]

(* event_path: the key of an event is its place without the inner flag. *)
Path(row) == <<row.slot, row.tx, row.ins, IF row.inner THEN row.idx ELSE 0>>

Paths(rows) == {Path(rows[i]) : i \in DOMAIN rows}

(* put_swap for every row: ON CONFLICT DO NOTHING, the first at a path stays. *)
FirstAt(rows, p) == rows[Min({i \in DOMAIN rows : Path(rows[i]) = p})]

PutSwaps(table, rows) ==
    [p \in DOMAIN table \cup Paths(rows) |->
       IF p \in DOMAIN table THEN table[p] ELSE FirstAt(rows, p)]

(* put_sol_balance, put_token_balance: an older slot does not replace a newer. *)
(* Mistake: it does.                                                           *)
PutBalancesAlways(table, b) ==
    [a \in DOMAIN table \cup DOMAIN b.balances |->
       IF a \in DOMAIN b.balances THEN [slot |-> b.slot, value |-> b.balances[a]] ELSE table[a]]

PutBalances(table, b) ==
    [a \in DOMAIN table \cup DOMAIN b.balances |->
       IF a \in DOMAIN b.balances /\ (a \in DOMAIN table => table[a].slot <= b.slot)
       THEN [slot |-> b.slot, value |-> b.balances[a]] ELSE table[a]]

-----------------------------------------------------------------------------
TypeOK ==
    /\ canon \in [Slots -> Forks] /\ final \in Slots \cup {0} /\ up \in BOOLEAN
    /\ DOMAIN reg \subseteq AllKeys /\ DOMAIN bars \subseteq AllKeys
    /\ \A p \in DOMAIN swaps : swaps[p] \in Rows /\ Path(swaps[p]) = p
    /\ DOMAIN balances \subseteq Accounts
    /\ indexed \subseteq Blocks /\ pruned \in 0 .. Max(Slots) + 1 /\ lost \subseteq Accounts

Init ==
    /\ canon = [s \in Slots |-> 0] /\ final = 0 /\ up = TRUE
    /\ reg = NoRows /\ swaps = NoRows /\ balances = NoRows /\ bars = NoRows
    /\ indexed = {} /\ pruned = 0 /\ lost = {}

(* Mistake: rows that were put before a failing statement stay. *)
KeepWritten(b) ==
    /\ swaps' = PutSwaps(swaps, b.rows)
    /\ UNCHANGED <<balances, bars>>
RollBack(b) == UNCHANGED tables

(* count_block folds the block, and store_write puts it in one transaction;  *)
(* a statement that fails rolls it back, and a handler that fails ends the   *)
(* process.                                                                  *)
Index(b) ==
    /\ up /\ canon[b.slot] = b.fork
    /\ b \notin indexed \/ Redeliver
    /\ reg' = Observed(reg, b.rows)
    /\ \/ /\ swaps' = PutSwaps(swaps, b.rows)
          /\ balances' = PutBalances(balances, b)
          /\ bars' = PutBars(bars, Observed(NoRows, b.rows))
          /\ indexed' = indexed \cup {b}
          /\ UNCHANGED up
       \/ /\ RollBack(b)
          /\ up' = FALSE
          /\ UNCHANGED indexed
    /\ UNCHANGED <<canon, final, pruned, lost>>

(* What the reorg deletes leave of each table. *)
SurvivingBars(from)     == Only(bars, {k \in DOMAIN bars : bars[k].close_seq_slot < from})
SurvivingSwaps(from)    == Only(swaps, {p \in DOMAIN swaps : swaps[p].slot < from})
SurvivingBalances(from) == Only(balances, {a \in DOMAIN balances : balances[a].slot < from})

(* The chain switches to another fork.  The bars are recomputed from the     *)
(* swaps that remain, whatever order the query returns them in, and          *)
(* store_reorg deletes and applies the recomputed ones in one transaction.   *)
Reorg(from, fork) ==
    /\ up /\ from > final /\ canon[from] # fork
    /\ canon' = [s \in Slots |-> IF s >= from THEN fork ELSE canon[s]]
    /\ \E order \in SetToSeqs({SurvivingSwaps(from)[p] : p \in DOMAIN SurvivingSwaps(from)}) :
         reg' = Recomputed(from, order)
    /\ \/ /\ swaps' = SurvivingSwaps(from)
          /\ balances' = SurvivingBalances(from)
          /\ bars' = PutBars(SurvivingBars(from), Only(reg', Affected(from) \cap DOMAIN reg'))
          /\ indexed' = {b \in indexed : b.slot < from}
          /\ lost' = lost \cup (DOMAIN balances \ DOMAIN balances')
          /\ UNCHANGED up
       \/ /\ up' = FALSE
          /\ UNCHANGED <<tables, indexed, lost>>
    /\ UNCHANGED <<final, pruned>>

Finalize ==
    /\ \E s \in Slots : s = final + 1 /\ final' = s
    /\ UNCHANGED <<canon, up, reg, tables, histVars>>

(* store_prune.  The caller prunes below a slot it chose: everything up to   *)
(* its safety margin above that slot is finalized, and was indexed.          *)
Prune(below) ==
    /\ up /\ pruned < below /\ below + Margin <= final + 1
    /\ \A b \in Blocks : b.slot < below + Margin /\ canon[b.slot] = b.fork => b \in indexed
    /\ swaps' = Only(swaps, {p \in DOMAIN swaps : swaps[p].slot >= below})
    /\ balances' = Only(balances, {a \in DOMAIN balances : balances[a].slot >= below})
    /\ bars' = Only(bars, {k \in DOMAIN bars : bars[k].close_seq_slot >= below})
    /\ pruned' = below
    /\ UNCHANGED <<canon, final, up, reg, indexed, lost>>

Next ==
    \/ \E b \in Blocks : Index(b)
    \/ \E from \in Slots, fork \in Forks : Reorg(from, fork)
    \/ Finalize
    \/ \E below \in 1 .. Max(Slots) + 1 : Prune(below)

Spec == Init /\ [][Next]_vars

-----------------------------------------------------------------------------
(* PROPERTIES *)

(* pg_store.h 12-14 and decisions.md 353-356, an instruction path "identifies *)
(* an event uniquely": the swaps table holds every swap of every block that   *)
(* was written and not pruned, and none of a fork that was left.              *)
RowsExact ==
    {swaps[p] : p \in DOMAIN swaps}
        = UNION {ToSet(b.rows) : b \in {c \in indexed : c.slot >= pruned}}

(* The bar of a set of swaps, by definition. *)
BarOf(R) ==
    LET first == CHOOSE r \in R : \A o \in R \ {r} : Before(Place(r), Place(o))
        last  == CHOOSE r \in R : \A o \in R \ {r} : Before(Place(o), Place(r))
    IN  [open |-> first.price, open_seq |-> Place(first),
         close |-> last.price, close_seq |-> Place(last),
         high |-> Max({r.price : r \in R}), low |-> Min({r.price : r \in R}),
         volume |-> MapThenSumSet(LAMBDA r : r.volume, R), count |-> Cardinality(R)]

Inputs == {r \in UNION {ToSet(b.rows) : b \in indexed} : Foldable(r)}

(* bar.h 138-140, "re-folding the survivors yields exactly the bar a          *)
(* from-scratch derivation would": in whatever order blocks and survivors     *)
(* came and whatever was undone, each bar is the bar of the swaps that are    *)
(* in its bucket now.                                                         *)
BarsAreFolds ==
    up => reg = [k \in {Key(r, iv) : r \in Inputs, iv \in Intervals} |->
                   BarOf({r \in Inputs : k \in {Key(r, iv) : iv \in Intervals}})]

(* pg_store.c 273-297, bar.h 74-80: the table that folds contributions with   *)
(* its own arithmetic and compares packed keys holds the bars of the          *)
(* registry, through writes in any order, reorgs and pruning.                 *)
TiersAgree ==
    up => bars = [k \in {j \in DOMAIN reg : reg[j].close_seq[1] >= pruned} |-> BarRow(reg[k])]

(* pg_store.c 187-188, "an older backfilled slot must not clobber a newer     *)
(* value": a balance is what a block of this chain left, and the newest such  *)
(* block, unless a reorg has deleted the row of that account.                 *)
BalancesNewest ==
    \A a \in DOMAIN balances :
       \E b \in indexed :
          /\ a \in DOMAIN b.balances
          /\ balances[a] = [slot |-> b.slot, value |-> b.balances[a]]
          /\ a \in lost \/ \A c \in indexed : a \in DOMAIN c.balances => c.slot <= b.slot
=============================================================================
