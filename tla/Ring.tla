-------------------------------- MODULE Ring --------------------------------
(***************************************************************************)
(* The bounded hand-off of src/src/ring.c.  Producers publish documents,   *)
(* one consumer takes them.  Everything between a lock and the matching    *)
(* unlock or condition wait is one step: the mutex makes it atomic.  The   *)
(* same code is the live ring (which drops its oldest entry, with one      *)
(* producer) and the recovery ring (which waits, one producer per fetcher).*)
(*                                                                         *)
(* The consumer is run_processor (src/src/pipeline.c): it keeps the next   *)
(* sequence number it expects and adds up the jumps, releases each         *)
(* document after handling it, and closes the ring when its handler fails. *)
(***************************************************************************)
EXTENDS Naturals, FiniteSets

CONSTANTS Producers,     \* threads that publish
          Docs,          \* documents to be published; each one only once
          NoDoc,         \* the NULL document
          Depth          \* cells of the ring

ASSUME RingAssumption ==
    /\ Depth \in Nat /\ Depth >= 2       \* idx_ring_new refuses less
    /\ NoDoc \notin Docs
    /\ IsFiniteSet(Producers)

VARIABLES
    block_when_full,  \* wait for room instead of dropping the oldest
    queue,      \* the array: position modulo Depth -> [seq, doc]
    head, tail, \* next publish and next consume position
    next_seq,   \* sequence number of the next entry
    closed,     \* idx_ring_close was called
    destroyed,  \* idx_ring_free was called
    consumed, dropped,  \* the statistics of these names
    asleep,     \* producers in the condition wait on not_full
    woken,      \* producers out of the wait, not yet holding the lock
    carrying,   \* the document each producer is inside publish with
    fresh,      \* documents nobody has published yet
    frees,      \* how often each document was freed
    consumer,   \* where the consumer is
    held,       \* the document the consumer owns
    expected,   \* the consumer's next_seq (struct idx_pipeline)
    jumps       \* its queue_dropped: the sequence numbers it never saw

ringVars  == <<block_when_full, queue, head, tail, next_seq, closed, destroyed, consumed,
               dropped>>
waitVars  == <<asleep, woken>>
userVars  == <<carrying, fresh, frees>>
readVars  == <<consumer, held, expected, jumps>>
vars      == <<ringVars, waitVars, userVars, readVars>>

ConsumerStates == {"out", "asleep", "awake", "failed", "done"}

Cells   == 0 .. Depth - 1
Cell(i) == i % Depth

(* Mistake: the last cell but one too late. *)
FullTooLate == head - tail > Depth
Full    == head - tail >= Depth
Empty   == head = tail

TypeOK ==
    /\ block_when_full \in BOOLEAN
    /\ queue \in [Cells -> [seq : Nat, doc : Docs \cup {NoDoc}]]
    /\ head \in Nat /\ tail \in Nat /\ next_seq \in Nat
    /\ closed \in BOOLEAN /\ destroyed \in BOOLEAN
    /\ consumed \in Nat /\ dropped \in Nat
    /\ asleep \subseteq Producers /\ woken \subseteq Producers
    /\ carrying \in [Producers -> Docs \cup {NoDoc}]
    /\ fresh \subseteq Docs
    /\ frees \in [Docs -> Nat]
    /\ consumer \in ConsumerStates
    /\ held \in Docs \cup {NoDoc}
    /\ expected \in Nat /\ jumps \in Nat

(* idx_ring_new: calloc leaves every cell empty and every counter zero. *)
Init ==
    /\ block_when_full \in BOOLEAN
    /\ queue = [i \in Cells |-> [seq |-> 0, doc |-> NoDoc]]
    /\ head = 0 /\ tail = 0 /\ next_seq = 0
    /\ closed = FALSE /\ destroyed = FALSE
    /\ consumed = 0 /\ dropped = 0
    /\ asleep = {} /\ woken = {}
    /\ carrying = [p \in Producers |-> NoDoc]
    /\ fresh = Docs
    /\ frees = [d \in Docs |-> 0]
    /\ consumer = "out" /\ held = NoDoc
    /\ expected = 0 /\ jumps = 0

-----------------------------------------------------------------------------
(* idx_json_free of a document; freeing NULL does nothing. *)
Freed(d) == IF d = NoDoc THEN frees ELSE [frees EXCEPT ![d] = @ + 1]

(* Mistake: signal only when the ring was full, though two may be waiting. *)
SignalIfFull ==
    IF Full THEN \E p \in asleep : asleep' = asleep \ {p} /\ woken' = woken \cup {p}
            ELSE UNCHANGED waitVars

(* pthread_cond_signal(not_full): one sleeping producer, if any, wakes. *)
SignalNotFull ==
    \/ asleep = {} /\ UNCHANGED waitVars
    \/ \E p \in asleep : asleep' = asleep \ {p} /\ woken' = woken \cup {p}

(* pthread_cond_signal(not_empty): the consumer is the only one waiting. *)
SignalNotEmpty == consumer' = IF consumer = "asleep" THEN "awake" ELSE consumer

Entry(d) == [seq |-> next_seq, doc |-> d]

(* The tail of idx_ring_publish: store the entry, number it, signal. *)
Put(d) ==
    /\ queue' = [queue EXCEPT ![Cell(head)] = Entry(d)]
    /\ next_seq' = next_seq + 1
    /\ head' = head + 1
    /\ SignalNotEmpty
    /\ UNCHANGED <<block_when_full, closed, destroyed, consumed, held, expected, jumps>>

(* Mistake: a publish goes on waiting for room after the close. *)
PublishClosedWithRoom(p, d) ==
    /\ closed /\ ~Full
    /\ frees' = Freed(d)
    /\ carrying' = [carrying EXCEPT ![p] = NoDoc]
    /\ UNCHANGED <<ringVars, readVars>>

(* publish on a ring that is closed frees the document it was given. *)
PublishClosed(p, d) ==
    /\ closed
    /\ frees' = Freed(d)
    /\ carrying' = [carrying EXCEPT ![p] = NoDoc]
    /\ UNCHANGED <<ringVars, readVars>>

(* Mistake: store without looking at closed again. *)
PublishRoomUnchecked(p, d) ==
    /\ ~Full
    /\ Put(d)
    /\ carrying' = [carrying EXCEPT ![p] = NoDoc]
    /\ UNCHANGED <<tail, dropped, frees>>

(* There is room. *)
PublishRoom(p, d) ==
    /\ ~closed /\ ~Full
    /\ Put(d)
    /\ carrying' = [carrying EXCEPT ![p] = NoDoc]
    /\ UNCHANGED <<tail, dropped, frees>>

(* No room and not blocking: drop_oldest, then store. *)
PublishDrop(p, d) ==
    /\ ~closed /\ Full /\ ~block_when_full
    /\ frees' = Freed(queue[Cell(tail)].doc)
    /\ queue' = [queue EXCEPT ![Cell(tail)].doc = NoDoc,
                              ![Cell(head)] = Entry(d)]
    /\ tail' = tail + 1
    /\ dropped' = dropped + 1
    /\ next_seq' = next_seq + 1
    /\ head' = head + 1
    /\ SignalNotEmpty
    /\ carrying' = [carrying EXCEPT ![p] = NoDoc]
    /\ UNCHANGED <<block_when_full, closed, destroyed, consumed, held, expected, jumps>>

(* No room and blocking: wait on not_full, keeping the document. *)
PublishWait(p, d) ==
    /\ ~closed /\ Full /\ block_when_full
    /\ carrying' = [carrying EXCEPT ![p] = d]
    /\ UNCHANGED <<ringVars, readVars, frees>>

(* idx_ring_publish, entered with a document of the caller's. *)
Publish(p, d) ==
    /\ ~destroyed
    /\ carrying[p] = NoDoc
    /\ d \in fresh
    /\ fresh' = fresh \ {d}
    /\ \/ /\ PublishClosed(p, d) \/ PublishRoom(p, d) \/ PublishDrop(p, d)
          /\ UNCHANGED waitVars
       \/ /\ PublishWait(p, d)
          /\ asleep' = asleep \cup {p}
          /\ UNCHANGED woken

(* A woken producer has the lock again: it looks at closed, then at the room. *)
PublishResume(p) ==
    /\ p \in woken
    /\ UNCHANGED fresh
    /\ woken' = woken \ {p}
    /\ \/ /\ PublishClosed(p, carrying[p]) \/ PublishRoom(p, carrying[p])
          /\ UNCHANGED asleep
       \/ /\ PublishWait(p, carrying[p])
          /\ asleep' = asleep \cup {p}

(* POSIX allows a wait to return without a signal. *)
SpuriousWakeup ==
    /\ \/ \E p \in asleep : asleep' = asleep \ {p} /\ woken' = woken \cup {p}
                            /\ UNCHANGED consumer
       \/ consumer = "asleep" /\ consumer' = "awake" /\ UNCHANGED waitVars
    /\ UNCHANGED <<ringVars, userVars, held, expected, jumps>>

-----------------------------------------------------------------------------
(* run_processor compares the number of an entry with the one it expected.   *)
(* Mistake: count entries instead.                                           *)
Jump(seq)            == seq - expected
ExpectedByCount(seq) == expected + 1
NextExpected(seq)    == seq + 1

(* Mistake: the cell keeps a document that now belongs to the consumer. *)
CellKept    == queue
CellEmptied == [queue EXCEPT ![Cell(tail)].doc = NoDoc]

(* idx_ring_consume finds an entry: it moves to the consumer, which then     *)
(* compares the sequence number with the one it expected (run_processor).    *)
ConsumeTake ==
    /\ ~Empty
    /\ held' = queue[Cell(tail)].doc
    /\ queue' = CellEmptied
    /\ tail' = tail + 1
    /\ consumed' = consumed + 1
    /\ jumps' = jumps + Jump(queue[Cell(tail)].seq)
    /\ expected' = NextExpected(queue[Cell(tail)].seq)
    /\ consumer' = "out"
    /\ SignalNotFull
    /\ UNCHANGED <<block_when_full, head, next_seq, closed, destroyed, dropped, userVars>>

(* Nothing queued: the close is reported, or the call waits, or (with no     *)
(* timeout) it returns at once, leaving everything as it was.                *)
ConsumeEmpty ==
    /\ Empty
    /\ consumer' = IF closed THEN "done" ELSE "asleep"
    /\ UNCHANGED <<ringVars, waitVars, userVars, held, expected, jumps>>

Consume ==
    /\ consumer \in {"out", "awake"}
    /\ held = NoDoc
    /\ ConsumeTake \/ ConsumeEmpty

(* pthread_cond_timedwait times out: the call returns without a second look. *)
ConsumeTimeout ==
    /\ consumer = "asleep"
    /\ consumer' = "out"
    /\ UNCHANGED <<ringVars, waitVars, userVars, held, expected, jumps>>

(* idx_ring_release after the handler; a failed handler ends the consumer. *)
Release ==
    /\ held # NoDoc
    /\ frees' = Freed(held)
    /\ held' = NoDoc
    /\ consumer' \in {consumer, "failed"}
    /\ UNCHANGED <<ringVars, waitVars, carrying, fresh, expected, jumps>>

-----------------------------------------------------------------------------
(* idx_ring_close: both condition variables are broadcast. *)
Close ==
    /\ ~destroyed
    /\ closed' = TRUE
    /\ asleep' = {}
    /\ woken' = woken \cup asleep
    /\ SignalNotEmpty
    /\ UNCHANGED <<block_when_full, queue, head, tail, next_seq, destroyed, consumed, dropped,
                   userVars, held, expected, jumps>>

(* idx_ring_free, once every thread that used the ring has been joined. *)
Destroy ==
    /\ closed /\ ~destroyed
    /\ asleep = {} /\ woken = {}
    /\ consumer \in {"failed", "done"}
    /\ destroyed' = TRUE
    /\ frees' = [d \in Docs |->
                   frees[d] + Cardinality({i \in tail .. head - 1 : queue[Cell(i)].doc = d})]
    /\ tail' = head
    /\ UNCHANGED <<block_when_full, queue, head, next_seq, closed, consumed, dropped, waitVars,
                   carrying, fresh, readVars>>

Next ==
    \/ \E p \in Producers : (\E d \in Docs : Publish(p, d)) \/ PublishResume(p)
    \/ SpuriousWakeup
    \/ Consume \/ ConsumeTimeout \/ Release
    \/ Close \/ Destroy

Spec == Init /\ [][Next]_vars

(* A woken thread gets the mutex eventually; the consumer keeps polling and  *)
(* releasing; a consumer whose handler failed goes on to close the ring.     *)
(* Nobody is obliged to publish or to ask for a shutdown.                    *)
Fairness ==
    /\ \A p \in Producers : WF_vars(PublishResume(p))
    /\ WF_vars(Consume) /\ WF_vars(ConsumeTimeout) /\ WF_vars(Release)
    /\ WF_vars(consumer = "failed" /\ Close)

FairSpec == Spec /\ Fairness

-----------------------------------------------------------------------------
(* PROPERTIES *)

(* The ring never holds more than Depth entries, and every position passed   *)
(* by the tail was either consumed or dropped, never both.                   *)
Occupancy ==
    /\ tail <= head /\ head - tail <= Depth
    /\ next_seq = head
    /\ ~destroyed => tail = consumed + dropped

(* The entry at a position between tail and head is the one that was         *)
(* published there: its sequence number is its position.                     *)
SeqIsPosition ==
    \A i \in 0 .. head - 1 : i >= tail => queue[Cell(i)].seq = i

(* ring.c 147-166 and 218-221: whatever the wrap-around, and with a producer *)
(* that moves the tail to drop and a consumer that moves it to take, the     *)
(* ring never overfills, every entry leaves it exactly once, and the entry   *)
(* the tail points at is the oldest one still there.                         *)
EntriesSound == Occupancy /\ SeqIsPosition

(* pipeline.c 413-417 with ring.c 114-125: the jumps the consumer adds up,    *)
(* plus the one it is about to see, are exactly the entries the producer      *)
(* dropped: no drop goes unnoticed and none is counted twice.                 *)
DropsVisible ==
    ~destroyed => /\ expected <= tail
                  /\ jumps + (tail - expected) = dropped

(* ring.c 147-161 and 226: a producer asleep on not_full is never left there  *)
(* while there is room nobody was woken for.                                  *)
NoLostWakeup ==
    asleep # {} => /\ ~closed
                   /\ Depth - (head - tail) <= Cardinality(woken)

(* ring.h, "The ring owns every document it holds and frees the ones it       *)
(* drops": each document has exactly one owner (its maker, a publish call,    *)
(* a cell, the consumer) or was freed exactly once.                           *)
OneOwner ==
    \A d \in Docs :
       Cardinality({p \in Producers : carrying[p] = d})
       + (IF destroyed THEN 0
          ELSE Cardinality({i \in Cells : queue[i].doc = d}))
       + (IF held = d THEN 1 ELSE 0)
       + (IF d \in fresh THEN 1 ELSE 0)
       + frees[d] = 1

(* ring.c 155-160 and 199-205: once the consumer was told the ring is closed  *)
(* nothing is left in it, and no publish that was waiting adds to it later.   *)
NothingAfterClosed == consumer = "done" => Empty

(* ring.c 154-161, 226 and 240-249: a publish that had to wait for room       *)
(* returns: the consumer makes room, or a close releases it.                  *)
PublishReturns ==
    \A p \in Producers : carrying[p] # NoDoc ~> carrying[p] = NoDoc
=============================================================================
