# TLA+ models of solana_c_indexer

Paths are relative to the repository (`src/` here is its root, so the C files are
`src/src/*.c` and the headers `src/include/*.h`).

## 1. The system

`solana_c_indexer` follows the tip of the Solana chain over a WebSocket, goes back for
what it missed over HTTP, turns blocks into swaps, transfers, balances and price bars
and writes them to two databases.

| component | state it keeps | operations | talks to |
|---|---|---|---|
| ring (`ring.c`) | bounded queue, head, tail, sequence numbers, closed flag, two condition variables | publish (drops the oldest or waits), consume, release, close, free | the live ring joins the receive and the processing thread, the recovery ring the fetchers and the processing thread |
| gaps (`gaps.c`) | sorted array of missing ranges, claimed or not | add, claim, resolve, release, watermark | shared by the three kinds of threads, one mutex |
| fetcher pool (`fetcher.c`) | a claim per worker, shared claim width, stop flag | claim, getBlocks, getBlock, publish, release, narrow, stop | gaps, rpc, recovery ring |
| pipeline (`pipeline.c`) | last seen, highest committed, last indexed, stop and failure flags | start with backfill, follow, observe, commit, watermark, save, drain, shut down | everything above, the handler in `main.c` |
| slot cursor (`slot_cursor.c`) | a position in memory and in a file | open, set, save | pipeline |
| pubsub (`pubsub.c`) | registry of subscriptions, request ids, backoff, idle timer | subscribe, unsubscribe, poll (reconnects and subscribes anew) | websocket, receive thread |
| rpc (`rpc.c`) | endpoint index, request ids, one response buffer | getSlot, getBlocks in chunks, getBlock, batches, retries, rotation | fetchers, backfill |
| stores (`store.c`, `pg_store.c`, `ch_store.c`) | rows by key, buffered rows per table | write, reorg, prune, read a range, append, flush | not called by `main.c` yet |
| registries (`bar.c`, `pool.c`, `token.c`, `map.c`) | merged records by key | observe, recompute, lookup | handler, stores |
| decoders and extractors (`block.c`, `swap.c`, `transfer.c`, `balance.c`, `price.c`, `venue*.c`, `*_program.c`) | none | pure functions of one block or transaction | handler |
| infrastructure (`json.c`, `config.c`, `log.c`, `error.c`, `arena.c`, `vec.c`, `base58.c`, ...) | none that outlives a call | | all |

What is hard to get right: three kinds of threads share the gap set and two rings; the
durable position must never pass a block that is not stored, whatever crashes, stops,
fails or is delivered twice; shutdown has to get threads out of condition waits; a lost
connection has to be noticed and every subscription made again; a file has to survive a
crash in the middle of its own replacement; a flush that fails half way is repeated
against a table that may have got the rows; the events of a transaction have to be told
from a document that states most of them indirectly. `PROJECT.json` lists each hazard at its line
with the properties aimed at it.

What makes each part correct:

* **ring**: each document has exactly one owner and is freed once; an entry dropped is
  counted, and only entries dropped are; no publisher sleeps next to a free cell.
* **gaps**: the array holds every slot still missing, and the watermark lies below the
  lowest of them.
* **pipeline with fetchers**: the durable position never passes a block that is neither
  stored nor unobtainable; what is missing is fetched in the end; a stop always ends the
  program.
* **slot cursor**: the next start reads a position that was really saved.
* **pubsub**: a notification reaches the subscription it is for, and no subscription stays
  forgotten on a live connection or after a lost one.
* **confirmed tier and bars**: tables and bars are a function of the blocks of this chain,
  not of the order they came in or of what was undone.
* **rpc**: every endpoint is asked before a call gives up, a range is listed whole, and an
  answer reaches the call it answers.
* **finalized tier and registries**: what was promoted is stored or still buffered, never
  in pieces; what is known of a pool stays known and beside the right mint.
* **decoding**: balances, transfers, swaps, prices and pools are those of the transaction,
  and what cannot be told is left open instead of guessed.

## 2. Modules and the code

| module | models | state and actions |
|---|---|---|
| `Ring` | `ring.c`, and the counting of dropped entries in `run_processor` | head, tail, cells and flags as in the struct; one action per critical section of publish, consume, release, close and free; waiting on a condition variable is membership in `asleep` or `woken`, with spurious wake-ups; `block_when_full` is chosen when the ring is made |
| `GapSet` | what `gaps.h` promises | the set of outstanding slots, the part of it that was recorded and not resolved since (`missing`), and what a release has out of the set |
| `Gaps` | `gaps.c` | the array of ranges with split, coalesce, coarsen, claim and the two critical sections of a release; `missing` is history; refines `GapSet` |
| `Pipeline` | `pipeline.c`, `fetcher.c`, the use of the cursor | a receive thread, a processing thread, fetchers, the chain, faults; uses the gap set as `GapSet` and the rings as `Ring` specifies them |
| `AtomicCursor` | what `slot_cursor.h` promises | a position in memory, one on disk, and those a power failure may bring back |
| `CursorFile` | `slot_cursor.c` | the file, its temporary copy and what of either has reached the disk; refines `AtomicCursor` |
| `PubSub` | `pubsub.c` | registry, request and server ids, backoff, idle timer; connection and server are external |
| `Rpc` | `rpc.c` | endpoint index, ids, response buffer; a step is one HTTP round trip or the handling of one document; the endpoints are external |
| `Dimensions` | `pool.c`, `token.c`, `put_pool` and `put_token` of `pg_store.c` | operators: what an observation makes of a record, in the registry and in the table |
| `Finalized` | `ch_store.c`, `ch_rows.c`, the insert of `ch.c`, the reference stores of `store.c` | registries, confirmed rows, a writer per table, tables; index, reorg, prune, promote, flush insert by insert, restart |
| `Wire` | `block.c`, `vote_filter.c`, `system_program.c`, `token_program.c`, `token_2022.c` | operators: from a document to a transaction, and the layouts of instructions |
| `Movements` | `balance.c`, `transfer.c` | operators: the rows each extractor finds, or that it fails |
| `Swaps` | `venue*.c`, `swap.c`, the orientation in `price.c` | operators: decoding an instruction or event, normalising, netting a route, which mint is the quote |
| `Transaction` | `count_block` and the functions it calls in `main.c` | the chain and the endpoint write a document, then one action per stage of `count_block` |
| `Confirmed` | `bar.c`, the swaps, balances and bars of `pg_store.c`, `normalize_swaps` of `main.c` | the registry of bars, three tables, the fork of the chain; one action per store operation |

`MC*` modules give the constants small values and `*Proofs` modules hold the theorems,
each with the facts on natural numbers it needs.
`PROJECT.json` maps every definition to its lines. Operators marked "Mistake" are wrong
versions of a definition; each property is known to be refuted by one of them.

How the modules fit together: `Gaps` implements `GapSet` (`ImplementsGapSet`), and the
pipeline's threads change the set only as `GapSet` allows (`UsesGapSet`), so `Pipeline`
need not carry the array. `CursorFile` implements `AtomicCursor`, whose `Save` is one
step, which is why `Pipeline` saves in one step; that a power failure may bring back an
older position is harmless there, because the sets `OnlyKnownLosses` compares it with
only grow. `Ring` shows that the two queues of `Pipeline` may be sequences. `Rpc` shows
what `Pipeline` assumes of a request: it ends, and a listing is complete as far as the
endpoints are. `Transaction` composes `Wire`, `Movements`, `Swaps` and `Dimensions` in the
order of the handler; `Finalized` takes the registries of `Dimensions` from there to the
tables, and compares the tables with the reference store.

Abstractions that matter:

* `Pipeline`: a block is its slot number, and one RPC is one step with every answer the
  code tells apart. A fetcher reads the shared claim width together with its claim. The
  polling fallback of `run_subscription` is staying in the phase "follow". Thread start
  failures, statistics and logging are left out. The range limit of the gap set (the fault
  "coarsen") adds any slots between outstanding ones, or takes such slots away again, as
  `GapSet` allows; the watermark may start from any outstanding slot that no missing one
  lies below. The fault "memory" lets every allocation of the set fail: a hole, a range
  given back or the upper part of a split is lost (`forgotten`), or nothing is claimed.
  `missing`, `cover`, `origin`, `absent`, `escaped` and `forgotten` are history: only those
  two choices look at `missing`.
* `Gaps`: when the array is full is left open, and a claim may be cut at any width up to
  `claim_span`, as the width the fetchers share only ever narrows. With `OutOfMemory` any entry may be the one
  there is no memory for; without it, `allocated` only tells a backfill from a later start.
* `PubSub`: what a subscription is about is its handle. A message is a confirmation, a
  refusal, a success without an unsigned result, the answer to an unsubscribe, a
  notification, or noise: what does not parse, or is neither answer nor notification, which
  `poll` passes over. A confirmation that fails to parse for want of memory is not
  modelled. `NoUnsubscribe` holds the handles registered without an `unsubscribe_method`. Time is counted in units and
  passes only where the code looks at a clock or waits.
* `Confirmed`: the stores are not wired into `main.c` yet, so the caller is the one
  `store.h` describes: a block is written with the bars it contributes; a reorg
  recomputes bars from the swaps that remain in the tier, in any order; pruning stays
  `Margin` slots below what is finalized and indexed. Prices and volumes are small integers (double rounding
  is out of reach), one volume stands for two, the quote of a bar is left out, and one
  balance table stands for both. One life of the process: a failed transaction ends it.
* `Rpc`: a document is its kind (garbage, error with a code, result, ...). Calls of one
  client follow each other, as a client belongs to one thread. Statistics are left out.
* `Finalized`: the caller is the one `store.h` and `ch_store.h` describe, since no code
  calls the stores yet. It retries an append that failed with the same slots or more, never
  fewer (`retry`). Columns are not told apart; a row that ran out of memory is one that is
  not `whole`. Replacement by version is ClickHouse's and external, read with FINAL.
* `Transaction`: the chain is the reference. Each call of the bounded set says what the
  invoked program does (its inner instructions, movements, trades and log line), so the
  properties compare what was extracted from the document with what happened. Amounts are
  small numbers, data bytes are a discriminant with its fields; base58, base64, text and
  JSON are taken as read. Whatever the endpoint cuts or the chain leaves out of the
  balance lists is left out of the document too. A document is varied in one way at a
  time, and malformed ones have one call.

## 3. Runs

| run | checks | shows |
|---|---|---|
| `Ring` | 5 invariants, `PublishReturns` | both kinds of ring with two producers over a ring that wraps |
| `Gaps` | `WatermarkTrusted`, `ImplementsGapSet` | two workers and a producer of gaps at the range limit, with claims of every width |
| `PipelineRestart` | `TypeOK`, `OnlyKnownLosses` | two runs with stops, crashes, failing RPC, a failing getSlot at the start, a gap list without memory and slots delivered twice or late: the durable position passes a block that was not stored only in four named ways |
| `PipelineShutdown` | `ShutdownEnds`, `UsesGapSet` | every way to stop, with a skipped slot, also with a fetcher blocked on the full recovery ring |
| `PipelineRecovers` | `HolesFilled`, `DrainTerminates` | two fetchers and an endpoint that fails any number of times but in the end answers: what is missing before the drain is over is stored, with one named exception, and the drain ends |
| `PipelineStopLoss` | `NothingLost`, refuted | the finding of section 5 |
| `CursorFile` | `NothingTorn`, `ImplementsAtomicCursor` | failing calls, crashes and power failures at every step of a save |
| `PubSub` | `Routed`, `NeverDeaf`, `Reestablished` | two subscriptions that come and go while a connection dies, with refusals, answers without an id and messages nobody can use |
| `Confirmed` | `RowsExact`, `BarsAreFolds`, `TiersAgree`, `BalancesNewest` | blocks in any order, two forks, reorgs, failed transactions, pruning |
| `Rpc` | `EveryoneAsked`, `ParseBlamesAnswer`, `BlocksExact`, `BatchMatched`, `CallReturns` | calls, ranges and batches over three endpoints that fail, refuse, lag or answer badly |
| `Finalized` | `PromotedKept`, `OnlyWholeRows`, `DecimalsRideWithMint`, `NothingUnlearned`, `Drained` | blocks in any order, a reorg, memory running out, inserts that fail or land although they failed, restarts |
| `Transaction` | `OnlyMalformedFails`, `LedgerExplainsBalances`, `TransfersTrue`, `SwapsTrue`, `RouteTrue`, `OneQuotePerPool`, `PoolsLearned` | transactions of up to two calls out of 39, as the endpoint may write them down |

Every module with state defines `TypeOK`. It is proved for `Ring`, `Pipeline`,
`CursorFile` and `Rpc`, checked by `PipelineRestart`, and holds in the other runs when it
is added to their configuration.

**Bounds.** Ring: depth 2 and five documents wrap the ring twice and fill it with both
producers waiting. Gaps: the slots 0 to 4,
two ranges and claims cut at every width make every split and merge happen, let a slot be
recorded below an entry that a split has left in front, and let the range limit join
entries in that state. Pipeline: three or four slots give a backfill, a live slot, a hole
between them and a claim of two slots; a recovery ring of depth 1 scales the code's 4 and
is full after one block. A split that fails needs four slots, one more than
`PipelineRestart` has room for: only the theorem covers it. That run takes states together
that differ only in history no step and no property looks at (`View`): the way a block was
given up, and that it was stored after all. PubSub: units scale 500 ms (first delay), 1 s (the pipeline's poll) and 30 s (longest
delay); `IdSpace` scales 2^64; the second of the two subscriptions cannot be ended on the server. Confirmed: four slots a second apart with a "minute" of two
seconds, so a long bar holds two slots and two long bars exist; `Byte` = 2 makes packed
slot numbers cross bytes. Rpc: as many attempts as endpoints, so that any start of the
rotation decides whether all are asked; chunks of two over six slots give one to three
chunks, a short one, and one that ends with `MaxSlot`, which scales 2^64 - 1; `Word`
scales the ids. Finalized: three blocks, two of which trade one pool in both directions, the poorer
observation first or last, so that a failed append, which leaves rows in the buffers, may
be retried after a block that changes what the registries know; one fault, which is such
an append, an insert that fails or lands without saying so, or a crash between two inserts. Transaction: two calls put two trades on one pool, a trade beside a
transfer to its vault, a creation beside a trade, a route of two legs and an instruction
inside another; `MaxDelta` 20 scales 2^63 - 1 above every amount but one, `MaxRouteMints`
3 scales 24 and is reached.

**Fairness.** `Ring`: a thread that is awake goes on, the consumer keeps consuming and a
timed wait ends; a consumer that failed closes the ring, as `run_processor` does. Nobody
has to publish. `Pipeline`: each thread that can move does, and requests and the handler
return, as they have time limits or are local; nobody has to produce slots, start, stop
or crash the program. A refused or failed request may always be the answer, except in
`PipelineRecovers` (`AnsweringSpec`): there a fetcher that asks again and again gets its
listing, or its block, in the end, after any number of failures and narrowed claims. The
code has no bound after which it gives up, so nothing ends without it. `PubSub`: the caller polls again and again; a connection attempt
made again and again succeeds once, and a server that is there answers,
which may be a refusal or an answer without an id; connections may
die up to `MaxDeaths` times. `Rpc`: curl ends every round trip, by its time limits if not
otherwise. `Finalized`: a caller that retries a flush (`ch_store.h`), against a database
that fails up to `MaxFaults` times. `Gaps`, `CursorFile`, `Confirmed` and `Transaction`
state safety only.

## 4. Theorems

| theorem | for every | says |
|---|---|---|
| `RingInvariant`, `RingAccounting`, `RingEntriesSound`, `RingNoLostWakeup`, `RingNothingAfterClosed`, `RingOneOwner` | depth, finite set of producers, set of documents, kind of ring | `TypeOK`, `DropsVisible`; `EntriesSound`; `NoLostWakeup`; `NothingAfterClosed`; `OneOwner` |
| `GapsInvariant`, `GapsImplementsGapSet`, `GapsWatermarkTrusted` | number of slots, fetchers, range limit, widths of claims; memory suffices | `Gaps` implements `GapSet`; `WatermarkTrusted` |
| `PipelineInvariant`, `PipelineTypes`, `PipelineOnlyKnownLosses` | chain, fetchers, depths, runs, set of faults | `TypeOK`, `OnlyKnownLosses` |
| `PipelineUsesGapSet` | the same, without the faults "crash" and "memory" | the threads use the set as `GapSet` allows |
| `CursorInvariant`, `CursorNeverTorn`, `CursorIsAtomic` | set of positions | `NothingTorn`; `CursorFile` implements `AtomicCursor` |
| `RpcInvariant`, `RpcEveryoneAsked`, `RpcParseBlamesAnswer`, `RpcBlocksExact`, `RpcBatchMatched` | number of endpoints and attempts, chain, chunk limit, largest slot, batch | `TypeOK`; `EveryoneAsked`; `ParseBlamesAnswer`; `BlocksExact`; `BatchMatched` |
| `PubSubInvariant`, `PubSubRouted`, `PubSubNeverDeaf` | number of subscriptions, lost connections and messages under way, delays and timeouts; two request ids per subscription (`IdsSuffice`) | `TypeOK`; `Routed`; `NeverDeaf` |
| `ConfirmedInvariant`, `ConfirmedBalancesNewest` | blocks, forks, margin; no block delivered twice | `BalancesNewest` |
| `ConfirmedRowsExact` | the same, with one path per event (`PathsUnique`) | `RowsExact` |
| `ConfirmedBarsInvariant`, `ConfirmedBarsAreFolds` | the same, with a margin longer than a bar (`MarginCovers`) | `BarsAreFolds` |
| `ConfirmedTiersAgree` | the same, with numbers that fit their packed widths (`WidthsFit`) and the powers of a byte (`PowersOfByte`) | `TiersAgree` |
| `FinalizedInvariant`, `FinalizedTypes`, `FinalizedKeeps`, `FinalizedWhole`, `FinalizedDecimals`, `FinalizedRemembers` | number of slots, blocks, reorgs, failures and restarts | `TypeOK`; `PromotedKept`; `OnlyWholeRows`; `DecimalsRideWithMint`; `NothingUnlearned` |

They rest on the assumptions named in the modules (`RingAssumption`, `GapsAssumption`,
`PipelineAssumption`, `CursorFileAssumption`, `PubSubAssumption`, `ConstantsOK`,
`ConfirmedAssumption` and `FinalizedAssumption`),
which say that bounds and depths are positive and markers are not slots, and of the blocks
of `Confirmed` that they are finitely many and that the numbers in their rows are natural.
The hypotheses in
the middle column are not idle; section 6 says what happens without them. `MCConfirmed`
satisfies those of the confirmed tier. `MarginCovers` is what `store.h` 194-195 leaves to
the caller that prunes ("the safety margin the caller enforces by its choice of slot"): no
two swaps of one bar are further apart in slots than the margin. `WidthsFit` says what the
types of `idx_bar_seq` do (`bar.h` 58-64), and `PowersOfByte` is arithmetic: the provers
know nothing of `^`. A crash is left
out of `PipelineUsesGapSet` because the set dies with the process, and a failed allocation
because the set then forgets: `GapSet` describes one life of a set that has memory.
`PipelineOnlyKnownLosses` covers both.

* **Ring.** `NoLostWakeup` is not inductive: one consumed entry wakes one producer, so
  the free cells have to be counted against the producers already woken. The invariant
  adds that a producer waits in exactly one of the two sets and only on a blocking ring
  that is open, and the occupancy of the ring. `NothingAfterClosed` is an action property;
  it needs `Told`: once a consumer was told that nothing more comes, the ring is closed and
  empty, and stays so because every publisher that wakes up looks at the flag again.
  `OneOwner` counts owners; `OwnerInv` adds `Stored`, that a cell outside the occupied part
  holds no document, so that a cell reused after a wrap does not hide one.
* **Gaps.** The comment in `gaps.c` calls the array sorted and disjoint, and it is neither.
  What is true instead, and inductive, is `Reached`: a scan from the front finds a missing
  slot in an entry before it meets one that starts above the slot. So the first entry
  starts at or below every missing slot, which is all the watermark needs. `GapsInv` adds
  that no entry is empty and that a fetcher giving a range back holds no other. One lemma
  per loop of the code says that it keeps `Reached`: `CoalesceKeeps`, `CoarsenKeeps`,
  `InsertKeeps`, `CutKeeps`, `ClaimKeeps`. On the way `ClosestIsPair` shows that the
  unsigned subtraction in `coarsen` does not wrap, because `coalesce` runs before it.
* **Pipeline.** `OnlyKnownLosses` says nothing about where a block is that was not
  stored. The invariant adds `Accounted`: every block up to `cover`, the highest slot the
  program knows of, is stored, unobtainable, given up in a named way (`escaped`, or
  `forgotten` for want of memory), recorded, on its way back into the record or being
  handled. `DropKeeps` says that a split that fails keeps it, as what goes is in
  `forgotten`. `Bounded` keeps all the threads hold at or
  below `cover`, `Origins` says where the responsibility begins and `AtRest` what the
  processing thread and a stopped process hold. `Mark` reads a slot that no missing one
  lies below, so with `Accounted` the new position passes only what is accounted for. The
  refinement maps each fetcher in the middle of a release to its `returning` set, and needs
  `Resting`: a program that is down has nothing recorded, and fetchers are gone before the
  processing thread is joined.
* **CursorFile.** `SaveInProgress` says what the temporary file holds at each step of a
  save, in the cache and on the disk; the rename then replaces a whole position by a whole
  one. The refinement maps the file seen through `Parse` to the position of
  `AtomicCursor`.
* **Rpc.** `Rotation` counts back from the endpoint the client is at: those it left less
  than `attempt` rotations ago were asked, so after as many attempts as endpoints all were,
  wherever the first call began. `Ranges` says what the vector holds between two chunks;
  the chunk that ends with the largest slot leaves the loop before its start would wrap.
* **PubSub.** The client matches answers by request id and notifications by server id, and
  both may be used again, so neither property says enough to be kept by a step. `IdsInv`
  gives every id the connection still waits for an age, the number of ids drawn since, and
  bounds it by what the connection can have drawn (`Drawn`: a subscription costs an id to
  be asked for and one to be given up). With `IdsSuffice`, which 2^64 ids satisfy, the next
  id is none of them. `ToServerInv` and `ConfirmationsInv` say that a server id is confirmed
  once, for the entry the server uses it for, before it is given up, once, after that entry
  is gone. `KnownAs` follows an entry across the stream: it is confirmed under an id, or
  the confirmation arrives before position `n`. `NotificationsInv` says it of every
  notification under way and `ServerInv` of the next one, so a notification never overtakes
  the confirmation it depends on. An answer nobody can use changes nothing but the stream
  (`NoiseKeeps`).
* **Confirmed.** `ChainInv` ties the blocks that are indexed to the fork the chain is on
  and to what was pruned, `SwapsInv` the table to those blocks, and `BalancesInv` says that
  a block that was indexed has a row at least as new as itself, unless it was pruned or a
  reorg took the row.
  `BarsAreFolds` is about folds in any order, so it is stated without one: `Fits` says of a
  bar and a set of swaps what the bar must be (the price of the first and of the last, the
  highest, the lowest, the sum and the number), which determines it (`FitsIsBar`), and one
  more swap keeps it (`FoldedFits`). `Holds` says it of a registry and the swaps folded so
  far, for the bars that are wanted; `FoldHolds` carries it over a sequence of any length,
  which `SumsExist` and `FoldExists` make possible by giving the recursive functions of the
  library a value. The registry then `Holds` what was written, a pruned block included. A
  reorg reads only what was not pruned, and `ReorgBars` says why that is enough: a bar it
  rebuilds closes at or above the fork, so by `MarginCovers` all its swaps lie above what
  was pruned (`MarginInv`), and a bar it leaves alone has no swap above the fork.
  `TiersAgree` takes the same facts for the contribution of one block (`ContributionHolds`).
  `MergedFits` says that `put_bar` makes the bar of the union, `PackOrder` that the bytes of
  a packed place compare as the place does, from the quotients of `BigEndianDigits`.
  A late block never adds to a bar whose row was pruned, again by the margin.

* **Finalized.** `WriterOK` says that the complete rows of a writer are whole rows at the
  front of its buffer and that only the open one lies behind them, so the body a flush
  sends has no torn row. `Kept` follows a row: once appended, it is in the body of its
  writer or in its table at its version or a newer one. A writer is reset only after its
  insert landed, and a table's version of a key never falls (`MergedFacts`), so neither
  part can break the other; `Passed` adds that the writers a flush has passed are empty, so
  that at its end everything is in the tables and what `safe` counts survives a crash. The
  records of the registries are those of `Registries` through any number of observations,
  and `RowsOK` and `EntryOK` carry them to the confirmed rows, the buffers and the tables,
  which is what `DecimalsRideWithMint` needs. `PgFine` says that a column of the confirmed
  tier comes from what the registry still knows, which holds in one life only.
  `NothingUnlearned` compares rows of a pool that may be in the confirmed tier, in the
  buffer after an append that failed, in the body of a flush or in the table, and none of
  them may be newer and poorer. Its invariant, `History`, has three parts. `PoolRows`: the
  rows of the confirmed tier are in the order in which the registry learned, and the
  registry knows more than any of them. `AllOvertaken`: a pool with a row in the buffer or
  the table is promoted, or the append that sent the row failed, and the version of its
  retry is no older; this is where the retry with no fewer slots is needed, and that reorgs
  and pruning leave the rows still to be promoted alone. `AllLasting`: what a promoted
  record knew is in the last row of its pool that is still to be sent, none being newer,
  or, when there is none, in the table. An append puts its rows behind all others in the
  order of the write set (`AppendedAdds`), and of the rows of a key that an insert sends
  the last of the highest version wins (`MergedRows`).

Facts about loops are proved from facts on natural numbers: a set that holds zero and every successor
holds every natural number, a non-empty set of them has a least and, if bounded, a greatest
element, and a step that can be repeated gives a whole iteration (`IterationExists`), which
is what a recursive function over `0 .. n` needs to exist.

In obligations about lengths of sequences, the SMT translation of tlapm 1.4.5 says of every
function with domain `1 .. n` that `Len` is `n`, and also the reverse, that anything
with a length has that domain. Where a function over `0 .. n` occurs beside a sequence the
reverse could make an obligation hold for the wrong reason, so such functions are hidden
from those steps, and the obligations were solved once more with the reverse taken out.

Model-checked only: all liveness properties (fairness is outside the prover), and what
`Transaction` states, which rests on what recursive walks over lists compute: induction over
data.

## 5. Finding

**A stop loses listed slots** (`fetcher.c:223`, run `PipelineStopLoss`). The loop of
`work_range` is left when the pool stops, and the code after it resolves the rest of the
claim as slots that never existed. The cursor passes them.

## 6. Deviations without a run

Each item with constants was found by TLC with the module named and the constants given;
the others were met while translating, and the model does what the code does.

*Pipeline, connection and tables*

* **The seam of a backfill** (`pipeline.c:933` against `gaps.h:14-16`, "resumes at a point
  it can trust"). The backfill ends below the tip that was asked for, and the first live
  slot records nothing below itself (213-215). What was produced in between, or the whole
  backfill when getSlot failed (914-926), is in no record. `NothingLost` is refuted with
  four slots, the fault "crash", `RecDepth` 2, `StartSlot` 1, `EndSlot` 0 and one run.
* **No reconnect after a few failures** (`pubsub.c:436` against `pubsub.h:6-8`,
  "re-established without its involvement"). The delay doubles on every poll and is
  compared with the poll's budget; with the pipeline's budget of one second
  (`pipeline.c:22`) no attempt is made any more after the second or third failure.
  `Reestablished` is refuted with `BackoffInitial` 2, `BackoffMax` 16, `IdleTimeout` and
  `PollTimeout` 4.
* **A route and its first leg share a key** (`pg_store.c:457` against `decisions.md:353`,
  "identifies an event uniquely"). The key of a swap leaves out whether the instruction is
  an inner one; the second of the two rows is dropped. `RowsExact` is refuted with
  `Blocks <- RouteBlocks`.
* **The drain ends early** (`pipeline.c:991` and 1002 against the comment at 981-983).
  The receive thread sees the gap set empty before the processing thread recorded the
  hole below the last live slot. `DrainedWhenDone` is refuted by `Pipeline` with three
  slots, `EndSlot` 3, depths 2 and no fault.
  A hole recorded after that is not filled in this run, so `HolesFilled` speaks of what is
  missing while the program follows or drains. A drain may also end while a fetcher is
  between the two halves of a release, with the range out of the set; `HolesFilled` names
  that exception.
* **A release has a gap** (`gaps.c:316`). The range is out of the set between its two
  critical sections, and a watermark read then passes it. `NothingLost` is refuted with
  the faults "rpc" and "crash", `StartSlot` 0 and four slots.
* **A failed allocation forgets slots** (`gaps.c:282` against 278-280, "the upper part is
  kept outstanding rather than dropped"): with `OutOfMemory` `ImplementsGapSet` is refuted,
  as the upper part of a split is dropped. A hole that cannot be recorded is logged and
  given up (`pipeline.c:222`), and a release whose second half fails loses the range
  (`gaps.c:318-326`). `OnlyKnownLosses` names the three as `forgotten`.
* **An answer without an id** (`pubsub.c:384` against 136-137, "a caller never
  observes a connected-but-unsubscribed state"): a subscribe request that succeeds without an
  unsigned result is taken for neither confirmed nor refused. The entry stays unconfirmed,
  `poll` reports nothing, and the request is not repeated before the next reconnect.
  `NeverDeaf` and `Reestablished` except it by name.
* **The array is not "sorted and disjoint"** (`gaps.h:18`): a slot may be recorded while a
  worker holds a claim that covers it, and a claim that is resolved in the middle leaves
  its upper part in front of entries that start below it. `WatermarkTrusted` does not need
  it.
* **The watermark is not always "the highest slot with nothing outstanding beneath it"**
  (`gaps.h:14`): when the range limit joins two entries that such a split has left out of
  order, the slots between them, which nobody recorded, may lie below the first entry, and
  a later coalescing may drop such slots again. With `MaxSlot` 5 and `MaxRanges` 3 the array
  comes to be 4, 4 claimed, 3 to 5, where 3 was resolved before the limit put it back.
  No missing slot is concerned: `WatermarkTrusted` says which of the two sets the answer
  is right for.
* **A drain need not end** (`pipeline.c:985-986`, "so the set always empties"): a range that
  fails for ever is released and claimed for ever. With `FairSpec` in place of
  `AnsweringSpec` the run `PipelineRecovers` refutes `DrainTerminates`.
* **Delivering a block twice doubles its bars** (`pg_store.c:286-288` against
  `pg_store.h:8-9`; `test_pg_store.c:252-255` says it is meant): `Redeliver` = TRUE.
* **Pruning too close to the tip** breaks bars that are still open: `Margin` = 0. In the
  code's units the margin has to be at least the 150 slots of a minute.

*rpc*

* The rotation is kept from call to call and also moves after the last attempt of a call,
  so calls do not "start at the first" (`rpc.h:32`) endpoint; and "every attempt against
  every endpoint failed" (`rpc.h:87`) is not so when there are more endpoints than
  attempts. `EveryoneAsked` has the condition.
* A call of a batch that nobody answered is reported NOT_FOUND (`rpc.c:494`), like a
  skipped slot. `BatchMatched` therefore speaks of calls that were answered.
* getBlocks that fails in a later chunk leaves the earlier ones in the caller's vector, and
  after a failover a lagging endpoint lists fewer slots than there are; `BlocksExact` asks
  for the slots all endpoints have.

*Finalized tier and registries*

* The version of a pool or token is the highest slot of its write set (`ch_store.c:485`),
  not the moment the record was read. An append that ran out of memory leaves rows in the
  buffers; if the caller retried it with fewer slots, the older record would carry the
  higher version and win. `NothingUnlearned` is refuted without the guard `to >= retry`.
* A column that fails leaves its row open for good: the writer is reset only after an
  insert, which a writer without complete rows never has, and every later append to that
  table is refused (`ch_rows.c:84`, `ch_store.c:579`).
* `ch_rows.h:102-105` says the body is "Empty while a row is open"; the code returns the
  complete rows, which is what `OnlyWholeRows` and `PromotedKept` need.
* Promotion reads a pool or token only with the range that holds its `first_seen_slot`, so
  what later blocks add (a creator, decimals, a name) does not reach the finalized tier.
* After a restart the registries start empty: a later record of a pool may lack what an
  earlier one had and replaces it by its higher version, a bar keeps only the part with
  more swaps, and `put_pool` may pair a mint with the other mint's decimals
  (`pg_store.c:253`). `NothingUnlearned`, and `DecimalsRideWithMint` for the confirmed
  tier, speak of one life of the process.
* A reorg replaces blocks but not what the registry counted: `swap_count` of a pool counts
  a swap again when its block is observed again.

*Decoding*

* The amount taken from a vault is what the vault gained or lost in the whole transaction.
  If the log was cut and the pool was traded twice, or tokens were sent to its vault, the
  side the instruction does not fix is wrong. A Raydium v4 swap in a layout that is not
  decoded shifts the pairing of log lines for the following ones, and a coinciding amount
  makes the pairing look right (`swap.c:422`). `Told` in `Transaction` names these cases.
* Two routes in one transaction are netted together, and the largest net amount is chosen
  among raw amounts of different mints (`swap.c:542-557`); `RouteTrue` speaks of routes
  with one mint paid and one made. Sums that wrap 2^64 are not modelled.
* A failure in the middle of a block leaves the registries with what the transactions
  before it added.

## 7. Not modelled, and the plan

`PROJECT.json` lists every component with its status. Left out for good: JSON,
configuration, logging and error texts, the containers and `map.c` (they are sequences and
functions here), libpq, libcurl and the websocket framing, and the decimal and base
conversions: they carry no protocol, and their correctness is a matter of bytes that an
abstraction of the data removes. Left out of modelled parts: statistics, the progress
line, thread start failures, column encodings and DDL, instruction kinds that move
nothing, and the requests of the polling fallback.

Done, in this order: `Ring`, `Gaps` over `GapSet`, `Pipeline` composed of them,
`CursorFile` over `AtomicCursor`, `PubSub`, `Confirmed`, `Rpc`, `Dimensions`, `Finalized`,
and `Wire`, `Movements` and `Swaps` composed in `Transaction`; then the theorems of
section 4. What is left is proof of what `Transaction` states, which needs induction over
data.
