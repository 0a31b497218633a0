----------------------------- MODULE Finalized -----------------------------
(***************************************************************************)
(* The finalized tier, src/src/ch_store.c over src/src/ch_rows.c and       *)
(* src/src/ch.c, and the way of a row into it: a block is observed by the  *)
(* registries (Dimensions), written to the confirmed tier, read back as a  *)
(* range, appended to the writers of the tables and flushed.  The          *)
(* confirmed tier is here the reference store of src/src/store.c, which    *)
(* keeps every row; beside it, pg is what the real tier would make of the  *)
(* dimensions.  The reference finalized store of src/src/store.c is mem.   *)
(*                                                                         *)
(* No code of the repository calls the two stores yet.  The caller here is *)
(* the one store.h and ch_store.h describe: it promotes finalized slots in *)
(* order, retries what failed, flushes whenever it likes, prunes what is   *)
(* flushed and starts again from the last flush after a crash.             *)
(*                                                                         *)
(* The store belongs to the processing thread (ch_store.h), so nothing but  *)
(* a crash comes between the inserts of a flush.                           *)
(*                                                                         *)
(* Columns are not told apart: a row is its key, its version and a value,  *)
(* and memory may run out in the middle of any row.                        *)
(***************************************************************************)
EXTENDS Dimensions

CONSTANTS
    MaxSlot,     \* bound: slots 1 .. MaxSlot
    Content,     \* Content[s]: what is derived from the block of slot s
    MaxFaults,   \* bound: failed appends, failed inserts and restarts
    MaxReorgs    \* bound

Slots == 1 .. MaxSlot

(* What a block is about are lists; a side of a swap is a mint with decimals, *)
(* and a flag that is off is not a slot.                                      *)
ASSUME FinalizedAssumption ==
    /\ MaxSlot \in Nat /\ MaxFaults \in Nat /\ MaxReorgs \in Nat /\ Unknown \notin Slots
    /\ \A s \in Slots :
          LET c == Content[s]
          IN  /\ c.swaps \in Seq(ToSet(c.swaps)) /\ c.creations \in Seq(ToSet(c.creations))
              /\ c.balances \in Seq(ToSet(c.balances)) /\ c.metas \in Seq(ToSet(c.metas))
              /\ c.transfers \in Seq(ToSet(c.transfers)) /\ c.sol \in Seq(ToSet(c.sol))
              /\ \A x \in ToSet(c.swaps) : \A side \in {x.in, x.out} :
                    side = [mint |-> side.mint, decimals |-> side.decimals]

VARIABLES
    reg,         \* the registries: [pools, tokens]
    life,        \* slots observed in this life, as far as they are canonical
    pg,          \* the dimension tables of the confirmed tier: [pools, tokens]
    conf,        \* the confirmed reference store: entity -> rows
    handled,     \* slots that are in the confirmed tier
    promoted,    \* slots 1 .. promoted were appended to the finalized tier
    retry,       \* an append up to here failed and is due again, 0 if none
    final,       \* the finalized slot: no reorg reaches it
    safe,        \* slots 1 .. safe were appended before the last whole flush
    rows,        \* the writer of every table: [buf, complete, in_row]
    fl,          \* the table store_flush is at, 0 outside it
    db,          \* every table as a reader with FINAL sees it: key -> [ver, val]
    mem,         \* the finalized reference store: [rows, flushed]
    faults, reorgs, lives

bounds == <<faults, reorgs, lives>>
source == <<reg, life, pg, conf, handled>>
vars == <<source, promoted, retry, final, safe, rows, fl, db, mem, bounds>>

Empty == [x \in {} |-> x]

-----------------------------------------------------------------------------
(* WHAT A BLOCK CONTRIBUTES *)

(* count_block: token balances, swaps, and the dimensions after them. *)
SwapsObserved(pools, s) ==
    LET q == Content[s].swaps
        f[n \in 0 .. Len(q)] == IF n = 0 THEN pools ELSE ObserveSwap(f[n - 1], q[n], s)
    IN  f[Len(q)]
CreationsObserved(pools, s) ==
    LET q == Content[s].creations
        f[n \in 0 .. Len(q)] == IF n = 0 THEN pools ELSE ObserveCreation(f[n - 1], q[n], s)
    IN  f[Len(q)]
BalancesObserved(tokens, s) ==
    LET q == Content[s].balances
        f[n \in 0 .. Len(q)] ==
            IF n = 0 THEN tokens ELSE ObserveBalance(f[n - 1], q[n].mint, q[n].decimals, s)
    IN  f[Len(q)]
MetasObserved(tokens, s) ==
    LET q == Content[s].metas
        f[n \in 0 .. Len(q)] == IF n = 0 THEN tokens ELSE ObserveMetadata(f[n - 1], q[n], s)
    IN  f[Len(q)]
Observed(r, s) ==
    [pools |-> CreationsObserved(SwapsObserved(r.pools, s), s),
     tokens |-> MetasObserved(BalancesObserved(r.tokens, s), s)]

TouchedPools(r, s) ==
    {p \in DOMAIN r.pools :
        \E x \in ToSet(Content[s].swaps) \cup ToSet(Content[s].creations) : x.pool = p}
TouchedTokens(r, s) ==
    {m \in DOMAIN r.tokens :
        \E x \in ToSet(Content[s].balances) \cup ToSet(Content[s].metas) : x.mint = m}

(* The bar of a pool, of one bucket, as bar.c folds it (see Confirmed). *)
Trades(p, s) == {i \in DOMAIN Content[s].swaps : Content[s].swaps[i].pool = p}
Bar(p, slots) ==
    [count |-> Cardinality(UNION {{s} \X Trades(p, s) : s \in slots}),
     close |-> Max({s \in slots : Trades(p, s) # {}})]

Entities == <<"block", "sol_balance", "token_balance", "transfer", "swap",
              "pool", "token", "bar">>
Kinds == ToSet(Entities)

(* A row of the write set; slot is what the slot getter of store.c returns. *)
Row(key, slot, kind, val) == [key |-> key, slot |-> slot, kind |-> kind, val |-> val]

WriteSet(s, r, slots) ==
    LET c == Content[s]
        pools == SetToSeq(TouchedPools(r, s))
        tokens == SetToSeq(TouchedTokens(r, s))
        bars == SetToSeq({p \in TouchedPools(r, s) : Trades(p, s) # {}} \X {"1s", "1m"})
    IN  [e \in Kinds |->
           CASE e = "block" -> <<Row(s, s, "plain", s)>>
             [] e = "sol_balance" -> [i \in DOMAIN c.sol |-> Row(c.sol[i], s, "plain", s)]
             [] e = "token_balance" ->
                    [i \in DOMAIN c.balances |-> Row(c.balances[i].mint, s, "plain", s)]
             [] e = "transfer" ->
                    [i \in DOMAIN c.transfers |-> Row(<<s, i>>, s, c.transfers[i], s)]
             [] e = "swap" -> [i \in DOMAIN c.swaps |-> Row(<<s, i>>, s, "plain", s)]
             [] e = "pool" ->
                    [i \in DOMAIN pools |->
                        LET pool == r.pools[pools[i]] IN Row(pools[i], pool.seen, "plain", pool)]
             [] e = "token" ->
                    [i \in DOMAIN tokens |->
                        LET token == TokenRow(r.tokens[tokens[i]])
                        IN  Row(tokens[i], token.seen, "plain", token)]
             [] e = "bar" ->
                    [i \in DOMAIN bars |->
                        LET bar == Bar(bars[i][1], slots)
                        IN  Row(bars[i][1], bar.close, bars[i][2], bar)]]

-----------------------------------------------------------------------------
(* THE REFERENCE STORE OF THE CONFIRMED TIER *)

MemRowsAppend(m, set) == [e \in Kinds |-> m[e] \o set[e]]
Retained(q, keep) ==
    LET f[n \in 0 .. Len(q)] ==
          IF n = 0 THEN <<>>
          ELSE IF q[n].slot \in keep THEN Append(f[n - 1], q[n]) ELSE f[n - 1]
    IN  f[Len(q)]
MemRowsRetain(m, keep) == [e \in Kinds |-> Retained(m[e], keep)]
ReadRange(from, to) == MemRowsRetain(conf, from .. to)

-----------------------------------------------------------------------------
(* ENCODING A WRITE SET *)

Tables == <<"blocks", "sol_balances", "token_balances", "sol_transfers",
            "token_transfers", "swaps", "pools", "tokens", "bars_1s", "bars_1m", "bars_1d">>
TableSet == ToSet(Tables)

TableOf(e, row) ==
    CASE e = "block" -> "blocks"
      [] e = "sol_balance" -> "sol_balances"
      [] e = "token_balance" -> "token_balances"
      [] e = "transfer" -> IF row.kind = "sol" THEN "sol_transfers" ELSE "token_transfers"
      [] e = "swap" -> "swaps"
      [] e = "pool" -> "pools"
      [] e = "token" -> "tokens"
      [] e = "bar" -> IF row.kind = "1m" THEN "bars_1m" ELSE "bars_1s"

(* write_set_version *)
Bumped(e, row) ==
    {row.slot} \cup (IF e = "pool" /\ row.val.created # Unknown THEN {row.val.created} ELSE {})
WriteSetVersion(set) ==
    Max({0} \cup UNION {UNION {Bumped(e, set[e][i]) : i \in DOMAIN set[e]} : e \in Kinds})

(* The put_ functions, with the version column the table's engine replaces by. *)
Encoded(e, row, version) ==
    [key |-> row.key, val |-> row.val, whole |-> TRUE,
     ver |-> CASE e \in {"pool", "token"} -> version
               [] e = "bar" -> row.val.count
               [] OTHER -> row.slot]

PutsOf(e, q, version) ==
    [i \in DOMAIN q |-> [table |-> TableOf(e, q[i]), row |-> Encoded(e, q[i], version)]]
Puts(set) ==
    LET version == WriteSetVersion(set)
        puts(e) == PutsOf(e, set[e], version)
    IN  puts("block") \o puts("sol_balance") \o puts("token_balance") \o puts("transfer")
            \o puts("swap") \o puts("pool") \o puts("token") \o puts("bar")

-----------------------------------------------------------------------------
(* THE WRITERS OF THE TABLES *)

Fresh == [buf |-> <<>>, complete |-> 0, in_row |-> FALSE]

(* Mistake: what was inserted stays in the buffer. *)
NotReset(t) == rows

(* idx_ch_rows_reset *)
Reset(t) == [rows EXCEPT ![t] = Fresh]

(* One put_ function: it is refused while a row is open, and runs out of     *)
(* memory when there is no room, which leaves the row open and unfinished.   *)
Put(acc, put) ==
    LET w == acc.rows[put.table]
    IN  IF ~acc.ok THEN acc
        ELSE IF w.in_row THEN [acc EXCEPT !.ok = FALSE]
        ELSE IF acc.room = 0
        THEN [acc EXCEPT !.ok = FALSE,
                         !.rows[put.table] =
                            [w EXCEPT !.buf = Append(@, [put.row EXCEPT !.whole = FALSE]),
                                      !.in_row = TRUE]]
        ELSE [acc EXCEPT !.room = @ - 1,
                         !.rows[put.table] =
                            [w EXCEPT !.buf = Append(@, put.row), !.complete = Len(w.buf) + 1]]

(* store_append, with memory for so many rows. *)
Appended(puts, room) ==
    LET f[n \in 0 .. Len(puts)] ==
          IF n = 0 THEN [rows |-> rows, room |-> room, ok |-> TRUE] ELSE Put(f[n - 1], puts[n])
    IN  f[Len(puts)]

(* Mistake: the body is all that is in the buffer. *)
WholeBuffer(t) == rows[t].buf

(* idx_ch_rows_body *)
Body(t) == SubSeq(rows[t].buf, 1, rows[t].complete)

(* ReplacingMergeTree (external): the highest version of a key stays, and of *)
(* two rows with the same version the one inserted last.                     *)
Replacing(table, row) ==
    IF Known(table, row.key) /\ table[row.key].ver > row.ver THEN table
    ELSE With(table, row.key, [ver |-> row.ver, val |-> row.val, whole |-> row.whole])
Merged(table, body) ==
    LET f[n \in 0 .. Len(body)] == IF n = 0 THEN table ELSE Replacing(f[n - 1], body[n])
    IN  f[Len(body)]
Inserted(t) == [db EXCEPT ![t] = Merged(@, Body(t))]

-----------------------------------------------------------------------------
Init ==
    /\ reg = [pools |-> Empty, tokens |-> Empty] /\ pg = [pools |-> Empty, tokens |-> Empty]
    /\ life = {} /\ handled = {}
    /\ conf = [e \in Kinds |-> <<>>]
    /\ promoted = 0 /\ retry = 0 /\ final = 0 /\ safe = 0
    /\ rows = [t \in TableSet |-> Fresh]
    /\ fl = 0
    /\ db = [t \in TableSet |-> Empty]
    /\ mem = [rows |-> [t \in TableSet |-> {}], flushed |-> [t \in TableSet |-> {}]]
    /\ faults = 0 /\ reorgs = 0 /\ lives = 1

(* The dimension rows of a write set, as the confirmed tier merges them. *)
PgWritten(tables, r, s) ==
    LET pools == TouchedPools(r, s)
        tokens == TouchedTokens(r, s)
    IN  [pools |-> [p \in DOMAIN tables.pools \cup pools |->
                      IF p \notin pools THEN tables.pools[p]
                      ELSE IF Known(tables.pools, p) THEN PutPool(tables.pools[p], r.pools[p])
                      ELSE r.pools[p]],
         tokens |-> [m \in DOMAIN tables.tokens \cup tokens |->
                      IF m \notin tokens THEN tables.tokens[m]
                      ELSE IF Known(tables.tokens, m)
                      THEN PutToken(tables.tokens[m], TokenRow(r.tokens[m]))
                      ELSE TokenRow(r.tokens[m])]]

(* A block is observed and written to the confirmed tier.  A recovered one   *)
(* comes late, but not after its slot was promoted.                          *)
Index(s) ==
    LET r == Observed(reg, s)
    IN  /\ fl = 0 /\ s \notin handled /\ s > final
        /\ reg' = r /\ life' = life \cup {s} /\ handled' = handled \cup {s}
        /\ pg' = PgWritten(pg, r, s)
        /\ conf' = MemRowsAppend(conf, WriteSet(s, r, life'))
        /\ UNCHANGED <<promoted, retry, final, safe, rows, fl, db, mem, bounds>>

(* A reorg drops the rows from a slot up, dimensions first seen there too,   *)
(* and puts the block that replaces that slot's; the registries keep what    *)
(* they know.                                                                *)
Reorg(from) ==
    LET r == Observed(reg, from)
        below(table) == [k \in {x \in DOMAIN table : table[x].seen < from} |-> table[k]]
    IN  /\ fl = 0 /\ reorgs < MaxReorgs /\ from \in handled /\ from > final
        /\ reg' = r
        /\ life' = {s \in life : s < from} \cup {from}
        /\ handled' = {s \in handled : s < from} \cup {from}
        /\ pg' = PgWritten([pools |-> below(pg.pools), tokens |-> below(pg.tokens)], r, from)
        /\ conf' = MemRowsAppend(MemRowsRetain(conf, {s \in Slots : s < from}),
                                 WriteSet(from, r, life'))
        /\ reorgs' = reorgs + 1
        /\ UNCHANGED <<promoted, retry, final, safe, rows, fl, db, mem, faults, lives>>

(* What was flushed may be dropped from the confirmed tier. *)
Prune(below) ==
    /\ fl = 0 /\ below \in 1 .. safe + 1
    /\ conf' = MemRowsRetain(conf, {s \in Slots : s >= below})
    /\ conf' # conf
    /\ UNCHANGED <<reg, life, pg, handled, promoted, retry, final, safe, rows, fl, db, mem, bounds>>

(* Promotion of the finalized slots up to one: store_append of what          *)
(* read_range returns.  When it fails, the same slots are read again, and    *)
(* more if more are finalized by then.                                       *)
Promote(to, ps, room) ==
    LET a == Appended(ps, room)
    IN  /\ rows' = a.rows
        /\ final' = Greatest(final, to)
        /\ IF a.ok
           THEN /\ promoted' = to /\ retry' = 0 /\ faults' = faults
                /\ mem' = [mem EXCEPT !.rows =
                              [t \in TableSet |->
                                 @[t] \cup {ps[i].row : i \in {j \in DOMAIN ps : ps[j].table = t}}]]
           ELSE /\ faults < MaxFaults /\ faults' = faults + 1 /\ retry' = to
                /\ UNCHANGED <<promoted, mem>>
        /\ UNCHANGED <<source, safe, fl, db, reorgs, lives>>

(* store_flush, a step for every insert. *)
Pending == {i \in DOMAIN Tables : rows[Tables[i]].complete > 0}
FlushStart ==
    /\ fl = 0 /\ Pending # {}
    /\ fl' = 1
    /\ UNCHANGED <<source, promoted, retry, final, safe, rows, db, mem, bounds>>

Due == {i \in Pending : i >= fl}

(* Mistake: the buffer is reset whatever became of the insert. *)
InsertAndForget(landed, ok) ==
    LET i == Min(Due)
    IN  /\ fl > 0 /\ Due # {}
        /\ db' = IF landed THEN Inserted(Tables[i]) ELSE db
        /\ rows' = Reset(Tables[i])
        /\ fl' = IF ok THEN i + 1 ELSE 0
        /\ IF ok THEN UNCHANGED faults ELSE faults < MaxFaults /\ faults' = faults + 1
        /\ UNCHANGED <<source, promoted, retry, final, safe, mem, reorgs, lives>>

(* idx_ch_insert: it may fail, and it may land although the answer that says *)
(* so is late.                                                               *)
Insert(landed, ok) ==
    LET i == Min(Due)
    IN  /\ fl > 0 /\ Due # {}
        /\ ok => landed
        /\ db' = IF landed THEN Inserted(Tables[i]) ELSE db
        /\ IF ok
           THEN rows' = Reset(Tables[i]) /\ fl' = i + 1 /\ UNCHANGED faults
           ELSE /\ rows' = rows /\ fl' = 0
                /\ faults < MaxFaults /\ faults' = faults + 1
        /\ UNCHANGED <<source, promoted, retry, final, safe, mem, reorgs, lives>>

FlushEnd ==
    /\ fl > 0 /\ Due = {}
    /\ fl' = 0 /\ safe' = promoted
    /\ mem' = [mem EXCEPT !.flushed = mem.rows]
    /\ UNCHANGED <<source, promoted, retry, final, rows, db, bounds>>

(* The process dies, or the store is closed: buffers and registries are gone. *)
Restart ==
    /\ faults < MaxFaults /\ faults' = faults + 1
    /\ lives' = lives + 1
    /\ reg' = [pools |-> Empty, tokens |-> Empty] /\ life' = {}
    /\ rows' = [t \in TableSet |-> Fresh] /\ fl' = 0
    /\ promoted' = safe /\ retry' = 0
    /\ mem' = [mem EXCEPT !.rows = mem.flushed]
    /\ UNCHANGED <<pg, conf, handled, final, safe, db, reorgs>>

Promotion ==
    /\ fl = 0
    /\ \E to \in Slots :
          /\ to > promoted /\ to >= retry /\ 1 .. to \subseteq handled
          /\ LET ps == Puts(ReadRange(promoted + 1, to))
             IN  \E room \in 0 .. Len(ps) : Promote(to, ps, room)
FlushStep == FlushStart \/ FlushEnd \/ \E landed, ok \in BOOLEAN : Insert(landed, ok)

Next ==
    \/ \E s \in Slots : Index(s) \/ Reorg(s)
    \/ \E below \in Slots : Prune(below)
    \/ Promotion
    \/ FlushStep
    \/ Restart

Spec == Init /\ [][Next]_vars

(* The caller retries a flush that failed (ch_store.h); every step of it     *)
(* changes fl.                                                               *)
FairSpec == Spec /\ WF_fl(FlushStep)

-----------------------------------------------------------------------------
(* PROPERTIES *)

(* The type of every variable.  A writer's complete rows are a prefix of its *)
(* buffer, and only an open row is beyond it (idx_ch_rows).                  *)
TypeOK ==
    /\ promoted \in 0 .. MaxSlot /\ final \in promoted .. MaxSlot /\ safe \in 0 .. promoted
    /\ life \subseteq handled /\ handled \subseteq Slots
    /\ fl \in 0 .. Len(Tables) + 1
    /\ \A t \in TableSet :
          /\ rows[t].in_row \in BOOLEAN
          /\ Len(rows[t].buf) = rows[t].complete + (IF rows[t].in_row THEN 1 ELSE 0)
    /\ faults \in 0 .. MaxFaults /\ reorgs \in 0 .. MaxReorgs /\ lives \in 1 .. MaxFaults + 1

Stored(t, row) == Known(db[t], row.key) /\ db[t][row.key].ver >= row.ver
Buffered(t, row) == row \in ToSet(Body(t))

(* What an append that returned IDX_OK took in is in its table, or replaced  *)
(* there by a newer version, or still in the buffer a flush will send: a     *)
(* flush that stops half way, an insert that lands although it timed out, an *)
(* append that runs out of memory and a retry of any of them lose nothing;   *)
(* and what a flush that returned IDX_OK covered survives a crash.           *)
PromotedKept ==
    \A t \in TableSet : \A row \in mem.rows[t] : Stored(t, row) \/ Buffered(t, row)

(* No part of a row that store_append could not finish is ever inserted,     *)
(* although it stays in the buffer that store_flush sends.                   *)
OnlyWholeRows ==
    \A t \in TableSet : \A k \in DOMAIN db[t] : db[t][k].whole

SidesOnChain == UNION {UNION {{x.in, x.out} : x \in ToSet(Content[s].swaps)} : s \in Slots}
SidesRight(pool) ==
    \A i \in DOMAIN pool.sides :
        pool.sides[i].decimals # Unknown => pool.sides[i] \in SidesOnChain

(* The decimals of a pool's side are those of the mint beside them, in the   *)
(* registry and in the finalized tier whatever the order of the blocks, the  *)
(* direction of the swaps and the restarts; in the confirmed tier, which     *)
(* merges column by column, for the pools of one life.                       *)
DecimalsRideWithMint ==
    /\ \A p \in DOMAIN reg.pools : SidesRight(reg.pools[p])
    /\ \A p \in DOMAIN db["pools"] : SidesRight(db["pools"][p].val)
    /\ lives = 1 => \A p \in DOMAIN pg.pools : SidesRight(pg.pools[p])

KeepsKnown(old, new) ==
    /\ \A i \in DOMAIN old.sides :
          /\ i \in DOMAIN new.sides /\ new.sides[i].mint = old.sides[i].mint
          /\ old.sides[i].decimals \in {Unknown, new.sides[i].decimals}
    /\ old.created \in {Unknown, new.created} /\ old.creator \in {Unknown, new.creator}
    /\ old.seen = new.seen

(* Once the buffers are empty, the finalized tier knows of a pool whatever   *)
(* any promoted record of it knew, while the process lives: whole rows       *)
(* replace each other there, in the order of write_set_version, and rows of  *)
(* an append that failed and was retried do not get in the way.              *)
NothingUnlearned ==
    lives = 1 /\ Pending = {} =>
        \A row \in mem.rows["pools"] : KeepsKnown(row.val, db["pools"][row.key].val)

(* With a caller that retries, every buffered row leaves the buffers: failed *)
(* inserts end, and nothing that was inserted is sent for ever.              *)
Drained == <>[](Pending = {})
=============================================================================
