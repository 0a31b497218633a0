-------------------------------- MODULE Gaps --------------------------------
(***************************************************************************)
(* The missing-slot list of src/src/gaps.c, entry by entry: the sorted     *)
(* array with its claimed flags, the splits, the merges and the range      *)
(* limit.  Every critical section is one step; idx_gaps_release is two.    *)
(*                                                                         *)
(* The callers are those of the pipeline: queue_backfill records one range *)
(* before any thread runs, the processing thread records holes above the   *)
(* highest live slot and resolves slots it committed, and each fetcher     *)
(* claims a range and works through it (work_range).                       *)
(***************************************************************************)
EXTENDS Integers, Sequences, SequencesExt, FiniteSetsExt

CONSTANTS Workers,      \* the fetchers
          MaxSlot,      \* bound: slots are 0 .. MaxSlot
          MaxRanges,    \* max_ranges
          MaxSpan,      \* claim_span, the widest claim; refusals narrow it
          OutOfMemory,  \* whether realloc may fail
          None          \* IDX_SLOT_NONE

ASSUME GapsAssumption ==
    /\ MaxSlot \in Nat /\ MaxRanges \in Nat \ {0} /\ MaxSpan \in Nat \ {0}
    /\ OutOfMemory \in BOOLEAN /\ None \notin Int

Slots == 0 .. MaxSlot

VARIABLES
    floor,      \* the slot the run resumes at; 0 is "wherever the tip is"
    ranges,     \* the array: [from, to, claimed]
    allocated,  \* whether the array was ever needed
    last_seen,  \* the processing thread's highest live slot
    committing, \* the slot it is committing, or None
    missing,    \* history: slots recorded and not resolved since
    claim,      \* the part of each fetcher's claim it has not dealt with
    releasing   \* the range each fetcher is in the middle of giving back

vars == <<floor, ranges, allocated, missing, last_seen, committing, claim, releasing>>

NoRange == [from |-> 1, to |-> 0]
Entries == [from : Slots, to : Slots, claimed : BOOLEAN]
Range2  == {r \in [from : Slots, to : Slots] : r.from <= r.to}
Span(r) == r.from .. r.to

(* All slots the entries of r cover. *)
SlotsOf(r) == UNION {Span(r[i]) : i \in DOMAIN r}

TypeOK ==
    /\ ranges \in Seq(Entries) /\ \A i \in DOMAIN ranges : ranges[i].from <= ranges[i].to
    /\ allocated \in BOOLEAN /\ floor \in Slots
    /\ missing \subseteq Slots /\ last_seen \in Slots \cup {None}
    /\ committing \in Slots \cup {None}
    /\ claim \in [Workers -> Range2 \cup {NoRange}]
    /\ releasing \in [Workers -> Range2 \cup {NoRange}]

Init ==
    /\ floor \in Slots
    /\ ranges = <<>> /\ allocated = FALSE /\ missing = {}
    /\ last_seen = None /\ committing = None
    /\ claim = [w \in Workers |-> NoRange]
    /\ releasing = [w \in Workers |-> NoRange]

-----------------------------------------------------------------------------
(* THE ARRAY *)

(* reserve_one: when the array is full is left open, so any entry may be the *)
(* one there is no memory for.                                               *)
Failures == IF OutOfMemory THEN BOOLEAN ELSE {FALSE}

(* coalesce: unclaimed neighbours that touch or overlap become one. *)
Touching(a, b) == ~a.claimed /\ ~b.claimed /\ a.to + 1 >= b.from

(* The entry b, after the ones that were gone through already. *)
Joined(done, b) ==
    IF done # <<>> /\ Touching(done[Len(done)], b)
    THEN [done EXCEPT ![Len(done)].to = IF b.to > @ THEN b.to ELSE @]
    ELSE Append(done, b)

Coalesce(r) ==
    LET done[n \in 0 .. Len(r)] == IF n = 0 THEN <<>> ELSE Joined(done[n - 1], r[n])
    IN  done[Len(r)]

(* coarsen, one turn of its loop: the first of the closest pairs of          *)
(* unclaimed neighbours becomes one entry.                                   *)
Mergeable(r)   == {i \in 1 .. Len(r) - 1 : ~r[i].claimed /\ ~r[i + 1].claimed}
Distance(r, i) == r[i + 1].from - r[i].to
Closest(r)     == Min({i \in Mergeable(r) :
                         \A j \in Mergeable(r) : Distance(r, i) <= Distance(r, j)})

(* Mistake: the second of the pair goes, the first is not widened. *)
CoarsenDropping(r) ==
    IF Len(r) <= MaxRanges \/ Mergeable(r) = {} THEN r ELSE RemoveAt(r, Closest(r) + 1)

CoarsenOnce(r) ==
    IF Len(r) <= MaxRanges \/ Mergeable(r) = {} THEN r
    ELSE LET best == Closest(r)
         IN  RemoveAt([r EXCEPT ![best].to = r[best + 1].to], best + 1)

(* Every turn removes an entry, so Len(r) turns are enough. *)
Coarsen(r) ==
    LET turn[n \in 0 .. Len(r)] == IF n = 0 THEN r ELSE CoarsenOnce(turn[n - 1])
    IN  turn[Len(r)]

(* Mistake: the new range is the last entry. *)
InsertLast(r, from, to) ==
    Coarsen(Coalesce(Append(r, [from |-> from, to |-> to, claimed |-> FALSE])))

(* insert: before the first entry that does not start below the new one. *)
Insert(r, from, to) ==
    LET at == Min({i \in 1 .. Len(r) + 1 : i = Len(r) + 1 \/ r[i].from >= from})
    IN  Coarsen(Coalesce(InsertAt(r, at, [from |-> from, to |-> to, claimed |-> FALSE])))

(* idx_gaps_resolve, on one entry: what is left of it.  An allocation that   *)
(* fails leaves no entry for the upper part.                                 *)
Cut(e, from, to, failed) ==
    IF e.to < from \/ e.from > to             THEN <<e>>
    ELSE IF from <= e.from /\ to >= e.to      THEN <<>>
    ELSE IF from <= e.from                    THEN <<[e EXCEPT !.from = to + 1]>>
    ELSE IF to >= e.to \/ failed              THEN <<[e EXCEPT !.to = from - 1]>>
    ELSE <<[e EXCEPT !.to = from - 1], [e EXCEPT !.from = to + 1]>>

CutAll(r, from, to, fails) ==
    LET done[n \in 0 .. Len(r)] ==
            IF n = 0 THEN <<>> ELSE done[n - 1] \o Cut(r[n], from, to, n \in fails)
    IN  done[Len(r)]

ResolveArray(from, to) ==
    /\ \E fails \in IF OutOfMemory THEN SUBSET DOMAIN ranges ELSE {{}} :
          ranges' = CutAll(ranges, from, to, fails)
    /\ missing' = missing \ (from .. to)
    /\ UNCHANGED allocated

(* The array after an insert; a failed allocation leaves it alone. *)
InsertArray(from, to) ==
    \E failed \in Failures :
        IF failed THEN UNCHANGED <<ranges, allocated, missing>>
        ELSE /\ ranges' = Insert(ranges, from, to) /\ allocated' = TRUE
             /\ missing' = missing \cup (from .. to)

(* idx_gaps_claim: the first unclaimed entry, split when it is wider than    *)
(* span, the width the fetchers share.                                       *)
FirstUnclaimed == SelectInSeq(ranges, LAMBDA e : ~e.claimed)

ClaimArray(i, span) ==
    LET e   == ranges[i]
        cut == e.from + span - 1
    IN  IF e.to > cut
        THEN ranges' = InsertAt([ranges EXCEPT ![i].from = cut + 1], i,
                                [e EXCEPT !.to = cut, !.claimed = TRUE])
        ELSE ranges' = [ranges EXCEPT ![i].claimed = TRUE]

-----------------------------------------------------------------------------
(* THE CALLERS *)

(* queue_backfill, before the other threads start. *)
Backfill(to) ==
    /\ ranges = <<>> /\ ~allocated /\ last_seen = None
    /\ floor # 0 /\ floor <= to
    /\ InsertArray(floor, to)
    /\ UNCHANGED <<floor, last_seen, committing, claim, releasing>>

(* observe_live_slot: the hole below a live slot is recorded, the slot is    *)
(* the new frontier, and the block goes to the handler.  The receive loop    *)
(* has already skipped slots below the floor.                                *)
ObserveLive(slot) ==
    /\ committing = None /\ slot >= floor
    /\ committing' = slot
    /\ last_seen' = IF last_seen = None \/ slot > last_seen THEN slot ELSE last_seen
    /\ IF last_seen # None /\ slot > last_seen + 1
       THEN InsertArray(last_seen + 1, slot - 1)
       ELSE UNCHANGED <<ranges, allocated, missing>>
    /\ UNCHANGED <<floor, claim, releasing>>

(* A published slot is in a claimed entry and no fetcher has it ahead of it. *)
Published ==
    {s \in SlotsOf(SelectSeq(ranges, LAMBDA e : e.claimed)) :
        \A w \in Workers : s \notin Span(claim[w])}

(* A recovered block is taken from the ring and goes to the handler. *)
TakeRecovered(slot) ==
    /\ committing = None /\ slot \in Published
    /\ committing' = slot
    /\ UNCHANGED <<floor, ranges, allocated, missing, last_seen, claim, releasing>>

(* commit_block, after the handler returned: the slot is resolved. *)
Commit ==
    /\ committing # None
    /\ ResolveArray(committing, committing)
    /\ committing' = None
    /\ UNCHANGED <<floor, last_seen, claim, releasing>>

(* run_worker: claim the next range, or wait if there is none.  How far the   *)
(* width was narrowed by now is left open (see Pipeline for how it is).       *)
Claim(w, span) ==
    /\ claim[w] = NoRange /\ releasing[w] = NoRange
    /\ FirstUnclaimed # 0
    /\ LET i == FirstUnclaimed IN
       /\ ClaimArray(i, span)
       /\ claim' = [claim EXCEPT ![w] = [from |-> ranges[i].from,
                                         to |-> Min({ranges[i].to, ranges[i].from + span - 1})]]
    /\ UNCHANGED <<floor, allocated, missing, last_seen, committing, releasing>>

(* What is left of a claim once everything up to slot was dealt with. *)
Rest(r, slot) == IF slot >= r.to THEN NoRange ELSE [r EXCEPT !.from = slot + 1]

(* work_range: slots getBlocks left out never existed. *)
ResolveAbsent(w, slot) ==
    /\ slot \in Span(claim[w])
    /\ ResolveArray(claim[w].from, slot)
    /\ claim' = [claim EXCEPT ![w] = Rest(@, slot)]
    /\ UNCHANGED <<floor, last_seen, committing, releasing>>

(* work_range: a fetched block is published; the slot stays outstanding. *)
PublishBlock(w) ==
    /\ claim[w] # NoRange
    /\ claim' = [claim EXCEPT ![w] = Rest(@, @.from)]
    /\ UNCHANGED <<floor, ranges, allocated, missing, last_seen, committing, releasing>>

(* idx_gaps_release, first critical section: the range is resolved. *)
BeginRelease(w) ==
    /\ claim[w] # NoRange
    /\ ResolveArray(claim[w].from, claim[w].to)
    /\ releasing' = [releasing EXCEPT ![w] = claim[w]]
    /\ claim' = [claim EXCEPT ![w] = NoRange]
    /\ UNCHANGED <<floor, last_seen, committing>>

(* idx_gaps_release, second critical section: it is inserted again. *)
EndRelease(w) ==
    /\ releasing[w] # NoRange
    /\ InsertArray(releasing[w].from, releasing[w].to)
    /\ releasing' = [releasing EXCEPT ![w] = NoRange]
    /\ UNCHANGED <<floor, last_seen, committing, claim>>

Next ==
    \/ \E slot \in Slots : Backfill(slot) \/ ObserveLive(slot) \/ TakeRecovered(slot)
    \/ Commit
    \/ \E w \in Workers :
          \/ \E span \in 1 .. MaxSpan : Claim(w, span)
          \/ PublishBlock(w) \/ BeginRelease(w) \/ EndRelease(w)
          \/ \E slot \in Slots : ResolveAbsent(w, slot)

Spec == Init /\ [][Next]_vars

-----------------------------------------------------------------------------
(* PROPERTIES *)

Abstract == INSTANCE GapSet WITH
                outstanding <- SlotsOf(ranges),
                returning   <- [w \in Workers |-> Span(releasing[w])]

(* gaps.h 38-46: the list implements the set it stands for.  Splits, merges,  *)
(* claims and the range limit never lose a slot that was recorded and not     *)
(* resolved, and the limit only adds slots between outstanding ones.          *)
ImplementsGapSet == Abstract!Spec

(* Mistake: the missing slot itself is taken for complete. *)
WatermarkAtGap(r, highest) ==
    IF r = <<>> THEN highest
    ELSE IF highest = None \/ r[1].from < highest THEN r[1].from ELSE highest

(* idx_gaps_watermark *)
Watermark(r, highest) ==
    IF r = <<>> THEN highest
    ELSE IF r[1].from = 0 THEN None
    ELSE IF highest = None \/ r[1].from - 1 < highest THEN r[1].from - 1
    ELSE highest

(* gaps.h 11-16, gaps.c 328-351: although the code only looks at the first    *)
(* entry, and claimed entries may overlap others and be out of order, no slot *)
(* that was recorded and not resolved since lies at or below the answer, and  *)
(* no higher answer is missed below the first outstanding slot.  Without the  *)
(* range limit the two meet; with it, see README, section 6.                  *)
WatermarkTrusted ==
    \A highest \in Slots :
       LET below(S) == {s \in 0 .. highest : \A o \in S : s < o}
           mark == Watermark(ranges, highest)
       IN  /\ mark = None \/ mark \in below(missing)
           /\ \A s \in below(SlotsOf(ranges)) : mark # None /\ s <= mark
=============================================================================
