---------------------------- MODULE Transaction ----------------------------
(***************************************************************************)
(* What count_block of src/src/main.c makes of a transaction: the filter,  *)
(* the balances, the transfers, the swaps with their prices and the        *)
(* registries, in that order, the first failure ending the block.          *)
(*                                                                         *)
(* The environment is the chain and the endpoint.  The chain runs calls,   *)
(* each the invocation of a program with what that program did: the        *)
(* invocations it made, the tokens and lamports it moved, the trade it     *)
(* executed, the line it logged.  The endpoint writes the document: it     *)
(* compiles keys to indices, lists the token accounts there were before    *)
(* and after, and may have cut the log.  What is read out of the document  *)
(* is compared with what the chain did.                                    *)
(***************************************************************************)
EXTENDS Swaps

CONSTANTS
    Calls,          \* the calls there are, a sequence of records
    MaxCalls,       \* bound: calls in a transaction
    Static, LoadedWritable, LoadedReadonly,   \* the keys of the message
    TokenAccounts,  \* key -> [mint, owner, decimals, amount]
    NewAccounts,    \* the token accounts that this transaction creates
    TempAccount,    \* a token account that may live only inside of it
    Lamports,       \* key -> lamports, of the accounts that have some
    Fee,            \* of the transaction, paid by the first key
    Outcomes,       \* what else there may be of meta: [err, has_meta, time, version]
    Faults          \* ways in which a document may be malformed

VARIABLES
    chain,    \* what was executed: which instructions, with what effects
    doc,      \* what the endpoint made of it: [outcome, fault, temp, logged]
    tx,       \* the transaction, once it is decoded
    stage,    \* where count_block is
    got,      \* what it extracted: [sol, tokens, transfers, swaps, bars]
    reg       \* the registries: [pools, tokens]

vars == <<chain, doc, tx, stage, got, reg>>

Reg == INSTANCE Dimensions
Slot == 1
Keys == Static \o LoadedWritable \o LoadedReadonly
Position == [k \in ToSet(Keys) |-> CHOOSE i \in DOMAIN Keys : Keys[i] = k]

Total(q, amount(_)) ==
    LET sum[i \in 0 .. Len(q)] == IF i = 0 THEN 0 ELSE sum[i - 1] + amount(q[i]) IN sum[Len(q)]

-----------------------------------------------------------------------------
(* THE CHAIN AND THE ENDPOINT (external) *)

(* What a sequence of movements does to the account a. *)
Effect(moves, a) ==
    Total(moves, LAMBDA m : (IF m.destination = a THEN m.amount - m.fee ELSE 0)
                            - (IF m.source = a THEN m.amount ELSE 0))

Run(call, nested) ==
    LET n == Len(chain.tops)
        path(p) == IF nested THEN <<n, Len(chain.inner[n]) + p>> ELSE <<n + 1, p - 1>>
        placed(q) == [i \in DOMAIN q |-> [q[i] EXCEPT !.at = path(@)]]
        trades == [i \in DOMAIN call.trades |->
                     [placed(call.trades)[i] EXCEPT !.nth = Len(chain.trades) + 1]]
        tokens == [a \in DOMAIN chain.tokens |-> chain.tokens[a] + Effect(call.moves, a)]
        lamports == [a \in DOMAIN chain.lamports |-> chain.lamports[a] + Effect(call.moves, a)]
    IN  /\ stage = "open"
        /\ Len(chain.calls) < MaxCalls
        /\ nested => n > 0
        /\ \A a \in DOMAIN tokens : tokens[a] >= 0
        /\ \A a \in DOMAIN lamports : lamports[a] >= Fee
        /\ \A a \in call.closes : tokens[a] = 0
        /\ \A i \in DOMAIN call.moves :
             {call.moves[i].source, call.moves[i].destination} \cap chain.closed = {}
        /\ chain' = [chain EXCEPT
              !.calls = Append(@, call.valid),
              !.tops = IF nested THEN @ ELSE Append(@, call.ixs[1]),
              !.inner = IF nested THEN [@ EXCEPT ![n] = @ \o call.ixs] ELSE Append(@, Tail(call.ixs)),
              !.logs = @ \o call.logs, !.tokens = tokens, !.lamports = lamports,
              !.moves = @ \o placed(call.moves), !.trades = @ \o trades,
              !.legs = @ \o placed(call.legs), !.closed = @ \cup call.closes,
              !.created = @ \cup call.creates]
        /\ UNCHANGED <<doc, tx, stage, got, reg>>

(* The documents of an accepted transaction, whole or with the log cut, with  *)
(* or without the temporary account; of the other outcomes; and, of a single  *)
(* call, the malformed ones.                                                  *)
Usual == [err |-> FALSE, has_meta |-> TRUE, time |-> TRUE, version |-> "v0"]
Documents ==
    LET Doc(fault, logged, outcome, temp) ==
            [fault |-> fault, logged |-> logged, outcome |-> outcome, temp |-> temp]
        all == Len(chain.logs)
    IN  {Doc("none", logged, Usual, temp) : logged \in 0 .. all, temp \in BOOLEAN}
        \cup {Doc("none", all, outcome, FALSE) : outcome \in Outcomes}
        \cup {Doc(fault, all, Usual, FALSE) : fault \in {f \in Faults : Len(chain.calls) = 1}}

(* A transaction with an invalid call was rejected. *)
Publish(d) ==
    /\ stage = "open" /\ chain.tops # <<>>
    /\ (\E i \in DOMAIN chain.calls : ~chain.calls[i]) => d.outcome.err
    /\ doc' = d /\ stage' = "document"
    /\ UNCHANGED <<chain, tx, got, reg>>

(* The document; a rejected transaction paid its fee and changed nothing else. *)
Compiled(ix) ==
    [program |-> Position[ix.program],
     accounts |-> [i \in DOMAIN ix.accounts |-> Position[ix.accounts[i]]], data |-> ix.data]
Listed(accounts, amounts) ==
    LET listed == SelectSeq(Keys, LAMBDA k : k \in accounts)
        entry(k) == [index |-> Position[k], mint |-> TokenAccounts[k].mint,
                     owner |-> TokenAccounts[k].owner, amount |-> amounts[k],
                     decimals |-> TokenAccounts[k].decimals]
    IN  [i \in DOMAIN listed |-> entry(listed[i])]

Holders == DOMAIN TokenAccounts
Initially == [a \in Holders |-> TokenAccounts[a].amount]
Hidden == IF doc.temp THEN {TempAccount} ELSE {}
InPre == Holders \ (NewAccounts \cup Hidden)
InPost == IF doc.outcome.err THEN InPre ELSE Holders \ (chain.closed \cup Hidden)

Entry ==
    LET legacy == doc.outcome.version = "legacy"
        is(fault) == doc.fault = fault
        funds(lamports) ==
            [i \in DOMAIN Keys |-> IF Keys[i] \in DOMAIN lamports THEN lamports[Keys[i]] ELSE 0]
        before == funds(Lamports)
        after == funds(IF doc.outcome.err THEN Lamports ELSE chain.lamports)
        paid == [after EXCEPT ![1] = IF is("supply") THEN @ + MaxDelta + Fee + 9 ELSE @ - Fee]
        pre == Listed(InPre, Initially)
    IN  [version |-> IF is("version") THEN "v1" ELSE doc.outcome.version,
         static |-> IF legacy THEN Keys ELSE Static,
         writable |-> LoadedWritable, readonly |-> LoadedReadonly,
         sigs |-> IF is("header") THEN Len(Keys) + 1 ELSE 1, ro_signed |-> 0, ro_unsigned |-> 1,
         ixs |-> [i \in DOMAIN chain.tops |->
                    IF is("index") THEN [Compiled(chain.tops[i]) EXCEPT !.program = Len(Keys) + 1]
                    ELSE Compiled(chain.tops[i])],
         inner |-> [i \in DOMAIN chain.inner |->
                      [index |-> i, ixs |-> [j \in DOMAIN chain.inner[i] |-> Compiled(chain.inner[i][j])]]],
         has_meta |-> doc.outcome.has_meta, err |-> doc.outcome.err,
         pre |-> before,
         post |-> IF is("half") THEN Unknown ELSE IF is("length") THEN Tail(paid) ELSE paid,
         pre_tokens |-> IF is("twice") THEN pre \o pre ELSE pre,
         post_tokens |-> IF is("decimals") THEN [pre EXCEPT ![1].decimals = 256]
                         ELSE Listed(InPost, IF doc.outcome.err THEN Initially ELSE chain.tokens),
         logs |-> SubSeq(chain.logs, 1, doc.logged)]

-----------------------------------------------------------------------------
(* COUNT_BLOCK *)

Fail == stage' = "failed" /\ UNCHANGED <<chain, doc, tx, got, reg>>

Decode ==
    /\ stage = "document"
    /\ \/ ~WellFormed(Entry) /\ Fail
       \/ /\ WellFormed(Entry)
          /\ tx' = Decoded(Entry)
          /\ stage' = IF IsVote(tx') THEN "dropped" ELSE "balances"
          /\ UNCHANGED <<chain, doc, got, reg>>

ExtractBalances ==
    LET sol == SolBalances(tx)
        tokens == TokenBalances(tx)
        learned[i \in 0 .. Len(tokens.rows)] ==
            IF i = 0 THEN reg.tokens
            ELSE Reg!ObserveBalance(learned[i - 1], tokens.rows[i].mint, tokens.rows[i].decimals, Slot)
    IN  /\ stage = "balances"
        /\ \/ ~(sol.ok /\ tokens.ok) /\ Fail
           \/ /\ sol.ok /\ tokens.ok
              /\ got' = [got EXCEPT !.sol = sol.rows, !.tokens = tokens.rows]
              /\ reg' = [reg EXCEPT !.tokens = learned[Len(tokens.rows)]]
              /\ stage' = "transfers" /\ UNCHANGED <<chain, doc, tx>>

ExtractTransfers ==
    LET transfers == Transfers(tx)
    IN  /\ stage = "transfers"
        /\ got' = [got EXCEPT !.transfers = transfers.rows]
        /\ stage' = IF transfers.ok THEN "swaps" ELSE "failed"
        /\ UNCHANGED <<chain, doc, tx, reg>>

(* normalize_swaps: the rows, the pools they name and the priced ones of    *)
(* pools, which go into the bars if the block has a time.                   *)
ObserveRow(pools, row) ==
    LET side(s) == [mint |-> s.mint, decimals |-> s.decimals]
    IN  Reg!ObserveSwap(pools, [pool |-> row.pool, in |-> side(row.in), out |-> side(row.out)], Slot)

SwapsOf(pools, rows) ==
    LET after[i \in 0 .. Len(rows)] == IF i = 0 THEN pools ELSE ObserveRow(after[i - 1], rows[i])
        fed == SelectSeq(rows, LAMBDA r : r.kind = "pool" /\ HasPrice(r) /\ doc.outcome.time)
    IN  [pools |-> after[Len(rows)],
         bars |-> [i \in DOMAIN fed |-> [pool |-> fed[i].pool, price |-> PriceOfSwap(fed[i])]]]

TakeSwaps ==
    LET swaps == NormalizeSwaps(tx)
        seen == SwapsOf(reg.pools, swaps.rows)
    IN  /\ stage = "swaps"
        /\ got' = [got EXCEPT !.swaps = swaps.rows, !.bars = seen.bars]
        /\ reg' = [reg EXCEPT !.pools = seen.pools]
        /\ stage' = IF swaps.ok THEN "dimensions" ELSE "failed"
        /\ UNCHANGED <<chain, doc, tx>>

(* Mistake: the inner instructions are not looked at. *)
CreationsOnTop == SelectSeq(tx.ixs, LAMBDA ix : IsCreation(tx, ix))

(* observe_dimensions: the top-level instructions, then all inner ones. *)
Creations ==
    LET inner == Concat([g \in DOMAIN tx.inner |-> tx.inner[g].ixs])
    IN  IF tx.has_meta /\ tx.success
        THEN SelectSeq(tx.ixs \o inner, LAMBDA ix : IsCreation(tx, ix)) ELSE <<>>

ObserveDimensions ==
    LET created == Creations
        after[i \in 0 .. Len(created)] ==
            IF i = 0 THEN reg
            ELSE LET data == created[i].data
                 IN  [pools |-> Reg!ObserveCreation(after[i - 1].pools,
                                    [pool |-> data.keys[1], creator |-> data.keys[2]], Slot),
                      tokens |-> Reg!ObserveMetadata(after[i - 1].tokens,
                                    [mint |-> data.keys[1], name |-> "name"], Slot)]
    IN  /\ stage = "dimensions"
        /\ reg' = after[Len(created)]
        /\ stage' = "done" /\ UNCHANGED <<chain, doc, tx, got>>

Init ==
    /\ chain = [calls |-> <<>>, tops |-> <<>>, inner |-> <<>>, logs |-> <<>>, moves |-> <<>>,
                trades |-> <<>>, legs |-> <<>>, tokens |-> Initially, lamports |-> Lamports,
                closed |-> {}, created |-> {}]
    /\ doc = Unknown /\ tx = Unknown /\ stage = "open"
    /\ got = [sol |-> <<>>, tokens |-> <<>>, transfers |-> <<>>, swaps |-> <<>>, bars |-> <<>>]
    /\ reg = [pools |-> <<>>, tokens |-> <<>>]

Next ==
    \/ \E c \in DOMAIN Calls, nested \in BOOLEAN : Run(Calls[c], nested)
    \/ \E d \in Documents : Publish(d)
    \/ Decode
    \/ ExtractBalances
    \/ ExtractTransfers
    \/ TakeSwaps
    \/ ObserveDimensions

Spec == Init /\ [][Next]_vars

-----------------------------------------------------------------------------
(* PROPERTIES *)

Stages == {"open", "document", "balances", "transfers", "swaps", "dimensions", "done", "dropped", "failed"}
Effective == stage = "done" /\ doc.outcome.has_meta /\ ~doc.outcome.err
IsListed(k) == k \in InPre \cup InPost
OwnerOf(k) == IF k \in Holders /\ IsListed(k) THEN TokenAccounts[k].owner ELSE Unknown
DecimalsOf(mint) == TokenAccounts[CHOOSE a \in Holders : TokenAccounts[a].mint = mint].decimals

(* No transaction the chain can produce, rejected or not, stops the indexer: *)
(* count_block fails only for a malformed document.  And one that was        *)
(* rejected leaves no movement, no swap and no pool.                         *)
OnlyMalformedFails ==
    doc # Unknown =>
        /\ stage = "failed" => doc.fault # "none"
        /\ doc.outcome.err => got.transfers = <<>> /\ got.swaps = <<>> /\ reg.pools = <<>>

(* Two extractors that read different parts of the document agree: what an  *)
(* account holds more or less, by the joined balance lists of balance.c, is *)
(* what the transfers found by transfer.c brought and took, whether the     *)
(* account was created, emptied, closed or touched several times; and the   *)
(* lamport deltas add up to the fee.                                        *)
LedgerExplainsBalances ==
    stage = "done" /\ doc.outcome.has_meta =>
        LET tokens == SelectSeq(got.transfers, LAMBDA r : r.kind # "sol")
            rows(a) == SelectSeq(got.tokens, LAMBDA r : r.account = a)
        IN  /\ \A a \in Holders \ Hidden :
                 /\ Total(rows(a), LAMBDA r : r.amount - r.previous) = Effect(tokens, a)
                 /\ Len(rows(a)) <= 1
            /\ Total(got.sol, LAMBDA r : r.delta) = -Fee

(* The transfers are the movements the chain made, in their order, each with *)
(* the mint, the scale and the owners of its two ends, also where the        *)
(* instruction names neither and one end lives only in this transaction.     *)
TransfersTrue ==
    Effective =>
        LET truth == SelectSeq(chain.moves, LAMBDA m : ~m.quiet /\ m.amount # 0)
        IN  /\ Len(got.transfers) = Len(truth)
            /\ \A i \in DOMAIN truth :
                 LET r == got.transfers[i]
                     m == truth[i]
                 IN  /\ <<r.at, r.kind, r.source, r.destination, r.amount, r.fee>>
                          = <<m.at, m.kind, m.source, m.destination, m.amount, m.fee>>
                     /\ m.kind # "sol" =>
                          /\ r.mint = m.mint /\ r.decimals = DecimalsOf(m.mint)
                          /\ r.source_owner = OwnerOf(m.source)
                          /\ r.destination_owner = OwnerOf(m.destination)

(* The amounts of a trade can be told if its own ray_log line is there to be *)
(* paired with it, or if nothing else moved its vaults and no other line     *)
(* looks like its own.  A Raydium swap in a layout that is not decoded       *)
(* shifts the pairing of all that follow.                                    *)
IsV4(t) == t.venue = "raydium_amm_v4"
V4Before(t) == SelectSeq(chain.trades, LAMBDA u : IsV4(u) /\ u.nth < t.nth)
Shifted(t) == \E i \in DOMAIN V4Before(t) : ~V4Before(t)[i].decoded
OwnLine(t) == IsV4(t) /\ ~Shifted(t) /\ Len(V4Before(t)) < doc.logged
LooksLike(t, u) ==
    \/ t.fixed = "in" /\ u.in.amount = t.in.amount
    \/ t.fixed = "out" /\ u.out.amount = t.out.amount
Mistaken(t) ==
    /\ IsV4(t) /\ Shifted(t)
    /\ \E i \in DOMAIN chain.trades :
         IsV4(chain.trades[i]) /\ chain.trades[i] # t /\ LooksLike(t, chain.trades[i])
Touches(m, t) == {m.source, m.destination} \cap t.vaults # {}
Alone(t) == Len(SelectSeq(chain.moves, LAMBDA m : Touches(m, t))) = Cardinality(t.vaults)
Told(t) == OwnLine(t) \/ (Alone(t) /\ ~Mistaken(t)) \/ t.fixed = "both"

(* Every swap that is decoded has one row, at its own path, with the pool and *)
(* the trader; the mints are those of the trade, the amount the instruction   *)
(* fixed is exact, the other one is whenever it can be told, however much of  *)
(* the log was cut.  Nothing is stated that did not happen: what cannot be    *)
(* resolved, because an account lives only in the transaction, stays unknown. *)
SwapsTrue ==
    Effective =>
        LET rows == SelectSeq(got.swaps, LAMBDA r : r.kind = "pool")
            truth == SelectSeq(chain.trades, LAMBDA t : t.decoded)
            exact(stated, true, known) == stated = true \/ (stated = Unknown /\ ~known)
            known == Hidden = {}
        IN  /\ Len(rows) = Len(truth)
            /\ \A i \in DOMAIN truth :
                 LET r == rows[i]
                     t == truth[i]
                 IN  /\ <<r.at, r.venue, r.pool, r.user>> = <<t.at, t.venue, t.pool, Keys[1]>>
                     /\ exact(r.in.mint, t.in.mint, known) /\ exact(r.out.mint, t.out.mint, known)
                     /\ t.fixed \in {"in", "both"} => r.in.amount = t.in.amount
                     /\ t.fixed \in {"out", "both"} => r.out.amount = t.out.amount
                     /\ Told(t) => /\ exact(r.in.amount, t.in.amount, known)
                                   /\ exact(r.out.amount, t.out.amount, known)

(* The row of a route names the mint it consumed on net and the mint it       *)
(* produced on net, with these amounts, when there is one of each; the mints  *)
(* in between cancel, and a route that ends where it began has no row.        *)
RouteTrue ==
    Effective =>
        LET rows == SelectSeq(got.swaps, LAMBDA r : r.kind = "aggregated")
            legs == chain.legs
            mints == UNION {{legs[i].in.mint, legs[i].out.mint} : i \in DOMAIN legs}
            net == [m \in mints |->
                      Total(legs, LAMBDA l : (IF l.out.mint = m THEN l.out.amount ELSE 0)
                                             - (IF l.in.mint = m THEN l.in.amount ELSE 0))]
            paid == {m \in mints : net[m] < 0}
            made == {m \in mints : net[m] > 0}
        IN  /\ Len(rows) <= 1
            /\ paid = {} \/ made = {} => rows = <<>>
            /\ (Cardinality(mints) <= MaxRouteMints /\ Cardinality(paid) = 1 /\ Cardinality(made) = 1) =>
                 /\ rows # <<>>
                 /\ rows[1].in.mint \in paid /\ rows[1].in.amount = -net[rows[1].in.mint]
                 /\ rows[1].out.mint \in made /\ rows[1].out.amount = net[rows[1].out.mint]
                 /\ rows[1].at = <<legs[1].at[1], 0>>

(* All prices of a pool have the same quote and the same base, whichever way  *)
(* the swaps went: a bar never mixes a price and its inverse.                 *)
OneQuotePerPool ==
    \A i, j \in DOMAIN got.bars :
        got.bars[i].pool = got.bars[j].pool =>
            /\ got.bars[i].price.quote = got.bars[j].price.quote
            /\ got.bars[i].price.base = got.bars[j].price.base

(* A pool that was traded is in the registry, with the mints of its trade,   *)
(* and with its creator if it was created in the same transaction, in which- *)
(* ever order the two events are.                                            *)
PoolsLearned ==
    Effective =>
        \A i \in DOMAIN chain.trades :
            LET t == chain.trades[i]
            IN  t.decoded =>
                  /\ t.pool \in DOMAIN reg.pools
                  /\ Hidden = {} =>
                       {reg.pools[t.pool].sides[k].mint : k \in DOMAIN reg.pools[t.pool].sides}
                          = {t.in.mint, t.out.mint}
                  /\ t.pool \in chain.created => reg.pools[t.pool].creator = Keys[1]
=============================================================================
