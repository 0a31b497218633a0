------------------------------ MODULE Pipeline ------------------------------
(***************************************************************************)
(* The pipeline of src/src/pipeline.c with its fetchers (src/src/fetcher.c)*)
(* and its durable position (src/src/slot_cursor.c): a receive thread      *)
(* follows the tip, a processing thread commits blocks and decides what is *)
(* durably indexed, fetchers go back for what is missing, and the process  *)
(* may be asked to stop, may fail or may crash and be started again.       *)
(*                                                                         *)
(* The gap set is used as GapSet specifies it, and the two rings as Ring   *)
(* does: the live one drops its oldest entry, the recovery one makes its   *)
(* producer wait.  A block is its slot number.  Every critical section,    *)
(* RPC answer and handler call is a step.                                  *)
(*                                                                         *)
(* cover, origin, absent, escaped and forgotten are history variables; see *)
(* below.                                                                  *)
(***************************************************************************)
EXTENDS Integers, Sequences, FiniteSets

CONSTANTS
    MaxSlot,    \* bound: the chain has slots 1 .. MaxSlot
    Blocks,     \* the slots that have a block; the others were skipped
    Fetchers,   \* fetcher threads; none if recovery is off
    LiveDepth,  \* depth of the live ring
    RecDepth,   \* depth of the recovery ring
    ClaimSpan,  \* claim_span
    StartSlot,  \* --start-slot, 0 for the tip
    EndSlot,    \* --end-slot, 0 for none
    MaxRuns,    \* bound: how often the program is started
    Faults      \* what may go wrong, of the kinds below

FaultKinds == {"stop", "crash", "handler", "socket", "redeliver", "sizing", "rpc", "gone",
               "coarsen", "memory"}

Slots == 1 .. MaxSlot
None  == -1     \* IDX_SLOT_NONE; below every slot, as the code treats it

ASSUME PipelineAssumption ==
    /\ MaxSlot \in Nat /\ Blocks \subseteq 1 .. MaxSlot
    /\ LiveDepth \in Nat \ {0} /\ RecDepth \in Nat \ {0} /\ ClaimSpan \in Nat \ {0}
    /\ StartSlot \in 0 .. MaxSlot /\ EndSlot \in 0 .. MaxSlot
    /\ MaxRuns \in Nat /\ Faults \subseteq FaultKinds

VARIABLES
    tip,        \* the newest slot of the chain
    runs,       \* how often the program was started
    \* what outlives the process
    saved,      \* last_indexed in the cursor file
    committed,  \* slots the handler has stored
    \* the receive thread
    phase,      \* where idx_pipeline_run is
    clean,      \* following ended with IDX_OK
    floor,      \* resume slot
    delivered,  \* the last slot of a socket that delivers in order
    stop,       \* stop requested
    \* the rings
    live, liveClosed,
    recovered, recClosed,
    \* the gap set: what it holds, what of that was recorded and not resolved
    \* since, and what can be claimed
    outstanding, missing, claimable,
    forgotten,  \* history: blocks it lost for want of memory
    \* the processing thread
    proc,       \* where run_processor is
    entry,      \* the slot it handles
    failed,     \* processor_failed
    liveDone, recDone,
    last_seen, highest, last_indexed,
    \* the fetchers
    poolStop, span,
    fpc,        \* where each one is
    range,      \* the part of its claim it has not dealt with
    \* history
    origin,     \* the first slot this index is responsible for
    cover,      \* the highest slot the program knows it must account for
    absent,     \* slots the endpoint does not retain or refuses to serve
    escaped     \* slots given up without being indexed

rxVars   == <<phase, clean, floor, delivered>>
liveVars == <<live, liveClosed>>
recVars  == <<recovered, recClosed>>
gapVars  == <<outstanding, missing, claimable, forgotten>>
procVars == <<proc, entry, failed, liveDone, recDone, last_seen, highest, last_indexed>>
poolVars == <<poolStop, span, fpc, range>>
histVars == <<origin, cover, absent, escaped>>
diskVars == <<saved, committed>>
vars == <<tip, runs, diskVars, rxVars, stop, liveVars, recVars, gapVars, procVars,
          poolVars, histVars>>

Phases   == {"down", "follow", "drain", "close", "stop", "join", "final"}
ProcPcs  == {"live", "recover", "handle", "mark", "ended"}
FetchPcs == {"idle", "claim", "query", "work", "fetch", "publish", "release", "done"}
Unset    == MaxSlot + 1    \* origin before the first slot is known

TypeOK ==
    /\ tip \in 0 .. MaxSlot /\ runs \in 0 .. MaxRuns
    /\ saved \in None .. MaxSlot /\ committed \subseteq Slots
    /\ phase \in Phases /\ clean \in BOOLEAN /\ floor \in 0 .. MaxSlot + 1
    /\ delivered \in 0 .. MaxSlot /\ stop \in BOOLEAN
    /\ live \in Seq(Slots) /\ liveClosed \in BOOLEAN
    /\ recovered \in Seq(Slots) /\ recClosed \in BOOLEAN
    /\ claimable \subseteq outstanding /\ missing \subseteq outstanding
    /\ outstanding \subseteq Slots /\ forgotten \subseteq Slots
    /\ proc \in ProcPcs /\ entry \in Slots \cup {None} /\ failed \in BOOLEAN
    /\ liveDone \in BOOLEAN /\ recDone \in BOOLEAN
    /\ last_seen \in None .. MaxSlot /\ highest \in None .. MaxSlot
    /\ last_indexed \in None .. MaxSlot
    /\ poolStop \in BOOLEAN /\ span \in Nat \ {0}
    /\ fpc \in [Fetchers -> FetchPcs]
    /\ range \in [Fetchers -> [from : 1 .. MaxSlot + 1, to : Slots \cup {0}]]
    /\ origin \in 1 .. Unset /\ cover \in None .. MaxSlot
    /\ absent \subseteq Slots /\ escaped \subseteq Slots

-----------------------------------------------------------------------------
Lowest(S)  == CHOOSE m \in S : \A s \in S : m <= s
Larger(a, b) == IF a > b THEN a ELSE b
Span(f)    == range[f].from .. range[f].to
NoRange    == [from |-> 1, to |-> 0]

(* Slots a fetcher has taken out of the set and not put back yet. *)
Returning == {s \in Slots : \E f \in Fetchers : fpc[f] = "release" /\ s \in Span(f)}

StopRequested == stop \/ failed

(* A process that is not running: everything it knew is gone. *)
Asleep ==
    /\ phase' = "down" /\ clean' = FALSE /\ floor' = 0 /\ delivered' = 0 /\ stop' = FALSE
    /\ live' = <<>> /\ liveClosed' = FALSE /\ recovered' = <<>> /\ recClosed' = FALSE
    /\ outstanding' = {} /\ missing' = {} /\ claimable' = {}
    /\ proc' = "ended" /\ entry' = None /\ failed' = FALSE
    /\ liveDone' = FALSE /\ recDone' = FALSE
    /\ last_seen' = None /\ highest' = saved /\ last_indexed' = saved
    /\ poolStop' = FALSE /\ span' = ClaimSpan
    /\ fpc' = [f \in Fetchers |-> "done"] /\ range' = [f \in Fetchers |-> NoRange]
    /\ cover' = saved

Init ==
    /\ tip \in 0 .. MaxSlot /\ runs = 0
    /\ saved = None /\ committed = {}
    /\ phase = "down" /\ clean = FALSE /\ floor = 0 /\ delivered = 0 /\ stop = FALSE
    /\ live = <<>> /\ liveClosed = FALSE /\ recovered = <<>> /\ recClosed = FALSE
    /\ outstanding = {} /\ missing = {} /\ claimable = {} /\ forgotten = {}
    /\ proc = "ended" /\ entry = None /\ failed = FALSE
    /\ liveDone = FALSE /\ recDone = FALSE
    /\ last_seen = None /\ highest = None /\ last_indexed = None
    /\ poolStop = FALSE /\ span = ClaimSpan
    /\ fpc = [f \in Fetchers |-> "done"] /\ range = [f \in Fetchers |-> NoRange]
    /\ origin = (IF StartSlot = 0 THEN Unset ELSE StartSlot)
    /\ cover = None /\ absent = {} /\ escaped = {}

-----------------------------------------------------------------------------
(* THE GAP SET, as in GapSet *)

Hull(S) == {s \in Slots : (\E a \in S : a <= s) /\ (\E b \in S : s <= b)}

(* insert, for idx_gaps_add and the second half of idx_gaps_release.  The    *)
(* range limit may add slots between outstanding ones, and a later merge may *)
(* take such slots away again, unless they are claimed.  Without memory for  *)
(* another entry the range is lost: every caller goes on.                    *)
Recordings(new) ==
    IF "coarsen" \in Faults
    THEN {o \in SUBSET Hull(outstanding \cup new) :
            missing \cup new \cup (outstanding \ claimable) \subseteq o}
    ELSE {outstanding \cup new}

Record(new) ==
    \/ /\ outstanding' \in Recordings(new)
       /\ missing' = missing \cup new
       /\ claimable' = (claimable \cup new \cup (outstanding' \ outstanding)) \cap outstanding'
       /\ UNCHANGED forgotten
    \/ /\ "memory" \in Faults
       /\ forgotten' = forgotten \cup ((Blocks \cap new) \ committed)
       /\ UNCHANGED <<outstanding, missing, claimable>>

(* idx_gaps_resolve.  Slots from the middle of an entry split it, and without *)
(* memory for the split what the entry holds above them goes as well.  Which  *)
(* entries there are is not known here: what goes is of one kind, claimed or  *)
(* not, and connected to old.                                                 *)
UpperPart(old, up) ==
    /\ up \cap old = {} /\ up \subseteq outstanding
    /\ up \subseteq claimable \/ up \cap claimable = {}
    /\ \A s \in up : \A t \in old : t < s /\ t .. s \subseteq old \cup up
    /\ \E s \in outstanding : old \subseteq s + 1 .. MaxSlot /\ s + 1 \in old

SplitLosses(old) ==
    {{}} \cup IF "memory" \in Faults THEN {up \in SUBSET Slots : UpperPart(old, up)} ELSE {}

Drop(old) ==
    \E lost \in SplitLosses(old) :
       /\ outstanding' = outstanding \ (old \cup lost)
       /\ missing' = missing \ (old \cup lost)
       /\ claimable' = claimable \ (old \cup lost)
       /\ forgotten' = forgotten \cup ((Blocks \cap lost) \ committed)

(* The starts the first entry of the list can have: no missing slot is below *)
(* it, though one that the range limit added may be (see Gaps).              *)
Firsts == {o \in outstanding : \A m \in missing : o <= m}

(* Mistake: the missing slot itself is taken for complete. *)
WatermarksAtGap ==
    IF outstanding = {} THEN {highest}
    ELSE {IF highest = None \/ o < highest THEN o ELSE highest : o \in Firsts}

(* idx_gaps_watermark *)
Watermarks ==
    IF outstanding = {} THEN {highest}
    ELSE {IF highest = None \/ o - 1 < highest THEN o - 1 ELSE highest : o \in Firsts}

-----------------------------------------------------------------------------
(* STARTING: idx_pipeline_open, idx_slot_cursor_resume_slot, queue_backfill *)

ResumeSlot == IF saved # None THEN saved + 1 ELSE StartSlot

(* Where the range that queue_backfill records ends.  There is none if the    *)
(* endpoint did not say where the tip is, the list had no memory for it, or   *)
(* nothing lies behind the tip.                                               *)
BackfillEnd   == IF EndSlot # 0 /\ tip - 1 > EndSlot THEN EndSlot ELSE tip - 1
NeedsBackfill == Fetchers # {} /\ ResumeSlot # 0 /\ ResumeSlot < tip

Start ==
    /\ phase = "down" /\ runs < MaxRuns
    /\ runs' = runs + 1
    /\ phase' = "follow"
    /\ floor' = ResumeSlot
    /\ \/ /\ NeedsBackfill
          /\ outstanding' = ResumeSlot .. BackfillEnd
          /\ cover' = Larger(ResumeSlot - 1, BackfillEnd)
       \/ /\ ~NeedsBackfill \/ Faults \cap {"sizing", "memory"} # {}
          /\ outstanding' = {}
          /\ cover' = ResumeSlot - 1
    /\ missing' = outstanding' /\ claimable' = outstanding'
    /\ proc' = "live"
    /\ fpc' = [f \in Fetchers |-> "idle"]
    /\ origin' = IF saved = None /\ StartSlot = 0 THEN Unset ELSE origin
    /\ UNCHANGED <<tip, diskVars, clean, delivered, stop, liveVars, recVars, entry, failed,
                   liveDone, recDone, last_seen, highest, last_indexed, poolStop, span,
                   range, absent, escaped, forgotten>>

-----------------------------------------------------------------------------
(* THE RECEIVE THREAD *)

(* Following ended: run on to the drain only after a clean end. *)
EndFollow(ok) ==
    /\ clean' = ok
    /\ phase' = IF ok /\ ~StopRequested THEN "drain" ELSE "close"

(* idx_ring_publish on the live ring: when it is full the oldest is lost. *)
PublishLive(slot) ==
    live' = Append(IF Len(live) >= LiveDepth THEN Tail(live) ELSE live, slot)

(* run_subscription and run_fallback handle one notification.  Slots in      *)
(* between were lost with the connection, or could not be fetched; a slot    *)
(* may come twice or late.                                                   *)
Deliver(slot) ==
    /\ phase = "follow" /\ ~StopRequested
    /\ slot \in Blocks /\ slot <= tip
    /\ IF "redeliver" \in Faults THEN UNCHANGED delivered
                                ELSE delivered < slot /\ delivered' = slot
    /\ \/ /\ slot < floor                               \* already indexed
          /\ UNCHANGED <<phase, clean, live>>
       \/ /\ slot >= floor /\ EndSlot # 0 /\ slot > EndSlot
          /\ EndFollow(TRUE)
          /\ UNCHANGED live
       \/ /\ slot >= floor /\ ~(EndSlot # 0 /\ slot > EndSlot) /\ liveClosed
          /\ EndFollow(FALSE)
          /\ UNCHANGED live
       \/ /\ slot >= floor /\ ~(EndSlot # 0 /\ slot > EndSlot) /\ ~liveClosed
          /\ PublishLive(slot)
          /\ IF EndSlot # 0 /\ slot >= EndSlot THEN EndFollow(TRUE)
             ELSE UNCHANGED <<phase, clean>>
    /\ UNCHANGED <<tip, runs, diskVars, floor, stop, liveClosed, recVars, gapVars, procVars,
                   poolVars, histVars>>

(* The loop sees the stop flag, or the subscription fails for good. *)
FollowEnds ==
    /\ phase = "follow"
    /\ \/ StopRequested /\ EndFollow(TRUE)
       \/ "socket" \in Faults /\ EndFollow(FALSE)
    /\ UNCHANGED <<tip, runs, diskVars, floor, delivered, stop, liveVars, recVars, gapVars,
                   procVars, poolVars, histVars>>

(* drain_recovery: wait until nothing is missing or a stop is requested. *)
DrainEnds ==
    /\ phase = "drain"
    /\ Fetchers = {} \/ StopRequested \/ outstanding = {}
    /\ phase' = "close"
    /\ UNCHANGED <<tip, runs, diskVars, clean, floor, delivered, stop, liveVars, recVars,
                   gapVars, procVars, poolVars, histVars>>

(* idx_pipeline_run shuts down in this order. *)
CloseLive ==
    /\ phase = "close"
    /\ liveClosed' = TRUE
    /\ phase' = "stop"
    /\ UNCHANGED <<tip, runs, diskVars, clean, floor, delivered, stop, live, recVars, gapVars,
                   procVars, poolVars, histVars>>

StopPool ==
    /\ phase = "stop"
    /\ poolStop' = TRUE
    /\ phase' = "join"
    /\ UNCHANGED <<tip, runs, diskVars, clean, floor, delivered, stop, liveVars, recVars,
                   gapVars, procVars, span, fpc, range, histVars>>

JoinPool ==
    /\ phase = "join"
    /\ \A f \in Fetchers : fpc[f] = "done"
    /\ recClosed' = TRUE
    /\ phase' = "final"
    /\ UNCHANGED <<tip, runs, diskVars, clean, floor, delivered, stop, liveVars, recovered,
                   gapVars, procVars, poolVars, histVars>>

JoinProcessor ==
    /\ phase = "final" /\ proc = "ended"
    /\ Asleep
    /\ UNCHANGED <<tip, runs, diskVars, origin, absent, escaped, forgotten>>

-----------------------------------------------------------------------------
(* THE PROCESSING THREAD *)

(* observe_live_slot: the distance from the last live slot is a hole; one    *)
(* that cannot be recorded is logged and given up.  With no last one there   *)
(* is none, whatever lies between the backfill and here.                     *)
ObserveLive(slot) ==
    /\ IF last_seen # None /\ slot > last_seen + 1
       THEN Record(last_seen + 1 .. slot - 1)
       ELSE UNCHANGED gapVars
    /\ last_seen' = Larger(last_seen, slot)
    /\ origin' = IF origin = Unset THEN slot ELSE origin
    /\ escaped' = IF last_seen = None /\ origin # Unset
                  THEN escaped \cup ((Blocks \cap (cover + 1 .. slot - 1)) \ committed)
                  ELSE escaped
    /\ cover' = Larger(cover, slot)

(* run_processor looks at the live ring first. *)
TakeLive ==
    /\ proc = "live" /\ ~liveDone /\ live # <<>>
    /\ ObserveLive(Head(live))
    /\ entry' = Head(live)
    /\ live' = Tail(live)
    /\ proc' = "handle"
    /\ UNCHANGED <<tip, runs, diskVars, rxVars, stop, liveClosed, recVars, failed, liveDone,
                   recDone, highest, last_indexed, poolVars, absent>>

PassLive ==
    /\ proc = "live" /\ (liveDone \/ live = <<>>)
    /\ liveDone' = (liveDone \/ liveClosed)
    /\ proc' = "recover"
    /\ UNCHANGED <<tip, runs, diskVars, rxVars, stop, liveVars, recVars, gapVars, entry, failed,
                   recDone, last_seen, highest, last_indexed, poolVars, histVars>>

TakeRecovered ==
    /\ proc = "recover" /\ ~recDone /\ recovered # <<>>
    /\ entry' = Head(recovered)
    /\ recovered' = Tail(recovered)
    /\ proc' = "handle"
    /\ UNCHANGED <<tip, runs, diskVars, rxVars, stop, liveVars, recClosed, gapVars, failed,
                   liveDone, recDone, last_seen, highest, last_indexed, poolVars, histVars>>

(* save_cursor: it may be too early, or the write may fail. *)
SaveCursor == saved' \in {saved, last_indexed'}

(* Nothing to recover; once both rings are done the thread saves and ends. *)
PassRecovered ==
    /\ proc = "recover" /\ (recDone \/ recovered = <<>>)
    /\ recDone' = (recDone \/ recClosed)
    /\ IF liveDone /\ recDone' THEN proc' = "ended" /\ saved' \in {saved, last_indexed}
                               ELSE proc' = "live" /\ UNCHANGED saved
    /\ UNCHANGED <<tip, runs, committed, rxVars, stop, liveVars, recVars, gapVars, entry, failed,
                   liveDone, last_seen, highest, last_indexed, poolVars, histVars>>

(* commit_block: the handler stored the block; the slot is resolved. *)
Commit ==
    /\ proc = "handle"
    /\ committed' = committed \cup {entry}
    /\ highest' = Larger(highest, entry)
    /\ Drop({entry})
    /\ entry' = None
    /\ proc' = "mark"
    /\ UNCHANGED <<tip, runs, saved, rxVars, stop, liveVars, recVars, failed, liveDone, recDone,
                   last_seen, last_indexed, poolVars, histVars>>

(* update_watermark, then save_cursor.  A slot that is in the middle of      *)
(* being released is not seen to be missing.                                 *)
Mark ==
    /\ proc = "mark"
    /\ \E mark \in Watermarks :
          /\ last_indexed' = mark
          /\ escaped' = escaped \cup ((Blocks \cap Returning \cap (1 .. mark)) \ committed)
    /\ SaveCursor
    /\ proc' = "live"
    /\ UNCHANGED <<tip, runs, committed, rxVars, stop, liveVars, recVars, gapVars, entry, failed,
                   liveDone, recDone, last_seen, highest, poolVars, origin, cover, absent>>

(* Mistake: a fetcher that waits for room is left waiting. *)
CloseLiveRingOnly == liveClosed' = TRUE /\ UNCHANGED recClosed
CloseBothRings    == liveClosed' = TRUE /\ recClosed' = TRUE

(* The handler failed: the thread closes both rings, saves and ends. *)
HandlerFails ==
    /\ proc = "handle" /\ "handler" \in Faults
    /\ failed' = TRUE
    /\ CloseBothRings
    /\ saved' \in {saved, last_indexed}
    /\ proc' = "ended"
    /\ UNCHANGED <<tip, runs, committed, rxVars, stop, live, recovered, gapVars, entry, liveDone,
                   recDone, last_seen, highest, last_indexed, poolVars, histVars>>

-----------------------------------------------------------------------------
(* THE FETCHERS *)

(* What every step of one fetcher leaves alone. *)
FetcherFrame ==
    UNCHANGED <<tip, runs, diskVars, rxVars, stop, liveVars, recClosed, procVars, poolStop,
                origin, cover>>

Goto(f, pc) == fpc' = [fpc EXCEPT ![f] = pc]

(* Slots of the claim that have a block: what getBlocks answers. *)
Listed(f) == Blocks \cap Span(f)

(* run_worker looks at the stop flag, ... *)
Poll(f) ==
    /\ fpc[f] = "idle" /\ ~poolStop
    /\ Goto(f, "claim")
    /\ UNCHANGED <<recovered, gapVars, span, range, absent, escaped>>
    /\ FetcherFrame

FetcherDone(f) ==
    /\ fpc[f] = "idle" /\ poolStop
    /\ Goto(f, "done")
    /\ UNCHANGED <<recovered, gapVars, span, range, absent, escaped>>
    /\ FetcherFrame

(* ... then claims the lowest range, at most span slots of it, or idles: also *)
(* when a range has to be split and there is no memory for that.              *)
TooWide == Lowest(claimable) .. Lowest(claimable) + span \subseteq claimable

ClaimNothing(f) ==
    /\ fpc[f] = "claim"
    /\ claimable = {} \/ (claimable # {} /\ "memory" \in Faults /\ TooWide)
    /\ Goto(f, "idle")
    /\ UNCHANGED <<recovered, gapVars, span, range, absent, escaped>>
    /\ FetcherFrame

Claim(f) ==
    /\ fpc[f] = "claim" /\ claimable # {}
    /\ \E to \in claimable :
         LET from == Lowest(claimable) IN
         /\ from .. to \subseteq claimable /\ to - from < span
         /\ to + 1 \in claimable => to + 1 - from = span
         /\ claimable' = claimable \ (from .. to)
         /\ range' = [range EXCEPT ![f] = [from |-> from, to |-> to]]
    /\ Goto(f, "query")
    /\ UNCHANGED <<recovered, outstanding, missing, forgotten, span, absent, escaped>>
    /\ FetcherFrame

(* idx_gaps_release: out of the set now, back in with EndRelease. *)
BeginRelease(f) ==
    /\ Drop(Span(f))
    /\ Goto(f, "release")
    /\ UNCHANGED <<recovered, range, absent, escaped>>
    /\ FetcherFrame

(* Mistake: what was taken out is not put back. *)
EndReleaseForgets(f) ==
    /\ fpc[f] = "release"
    /\ Goto(f, "idle")
    /\ range' = [range EXCEPT ![f] = NoRange]
    /\ UNCHANGED <<recovered, gapVars, span, absent, escaped>>
    /\ FetcherFrame

(* Mistake: the range is back in the set, but still marked as claimed. *)
EndReleaseStillClaimed(f) ==
    /\ fpc[f] = "release"
    /\ outstanding' = outstanding \cup Span(f) /\ missing' = missing \cup Span(f)
    /\ UNCHANGED <<claimable, forgotten>>
    /\ Goto(f, "idle")
    /\ range' = [range EXCEPT ![f] = NoRange]
    /\ UNCHANGED <<recovered, span, absent, escaped>>
    /\ FetcherFrame

EndRelease(f) ==
    /\ fpc[f] = "release"
    /\ Record(Span(f))
    /\ Goto(f, "idle")
    /\ range' = [range EXCEPT ![f] = NoRange]
    /\ UNCHANGED <<recovered, span, absent, escaped>>
    /\ FetcherFrame

(* The answers to getBlocks: the listed slots, ... *)
GetBlocks(f) ==
    /\ fpc[f] = "query"
    /\ Goto(f, "work")
    /\ UNCHANGED <<recovered, gapVars, span, range, absent, escaped>>
    /\ FetcherFrame

(* ... that the range is not retained, or that even one slot is refused ...  *)
GetBlocksGone(f) ==
    /\ fpc[f] = "query" /\ "gone" \in Faults
    /\ Drop(Span(f))
    /\ absent' = absent \cup Span(f)
    /\ Goto(f, "idle")
    /\ range' = [range EXCEPT ![f] = NoRange]
    /\ UNCHANGED <<recovered, span, escaped>>
    /\ FetcherFrame

(* ... or a failure, or a refusal of the width, which narrows later claims.   *)
Width(f) == range[f].to - range[f].from + 1

(* Mistake: narrow_span halves a width of one. *)
NarrowedAlways(f) == IF span >= Width(f) THEN Width(f) \div 2 ELSE span
Narrowed(f) == IF Width(f) > 1 /\ span >= Width(f) THEN Width(f) \div 2 ELSE span

GetBlocksFails(f) ==
    /\ fpc[f] = "query" /\ "rpc" \in Faults
    /\ span' \in {span, Narrowed(f)}
    /\ BeginRelease(f)

(* work_range after a stop: what was listed and not fetched is resolved with *)
(* the rest.                                                                 *)
WorkStopped(f) ==
    /\ fpc[f] = "work" /\ poolStop /\ Listed(f) # {}
    /\ Drop(Span(f))
    /\ escaped' = escaped \cup (Listed(f) \ committed)
    /\ Goto(f, "idle")
    /\ range' = [range EXCEPT ![f] = NoRange]
    /\ UNCHANGED <<recovered, span, absent>>
    /\ FetcherFrame

(* Slots after the last listed one never existed, ... *)
WorkEnd(f) ==
    /\ fpc[f] = "work" /\ Listed(f) = {}
    /\ Drop(Span(f))
    /\ Goto(f, "idle")
    /\ range' = [range EXCEPT ![f] = NoRange]
    /\ UNCHANGED <<recovered, span, absent, escaped>>
    /\ FetcherFrame

(* ... nor did the ones before the next, which is fetched. *)
WorkNext(f) ==
    /\ fpc[f] = "work" /\ Listed(f) # {} /\ ~poolStop
    /\ Drop(range[f].from .. Lowest(Listed(f)) - 1)
    /\ range' = [range EXCEPT ![f].from = Lowest(Listed(f))]
    /\ Goto(f, "fetch")
    /\ UNCHANGED <<recovered, span, absent, escaped>>
    /\ FetcherFrame

(* The answers to getBlock; the stop flag is not looked at again before. *)
GetBlock(f) ==
    /\ fpc[f] = "fetch"
    /\ Goto(f, "publish")
    /\ UNCHANGED <<recovered, gapVars, span, range, absent, escaped>>
    /\ FetcherFrame

GetBlockGone(f) ==
    /\ fpc[f] = "fetch" /\ "gone" \in Faults
    /\ Drop({range[f].from})
    /\ absent' = absent \cup {range[f].from}
    /\ range' = [range EXCEPT ![f].from = @ + 1]
    /\ Goto(f, "work")
    /\ UNCHANGED <<recovered, span, escaped>>
    /\ FetcherFrame

GetBlockFails(f) ==
    /\ fpc[f] = "fetch" /\ "rpc" \in Faults
    /\ BeginRelease(f)
    /\ UNCHANGED span

(* publish_block on the recovery ring: room, or it was closed. *)
PublishRecovered(f) ==
    /\ fpc[f] = "publish" /\ ~recClosed /\ Len(recovered) < RecDepth
    /\ recovered' = Append(recovered, range[f].from)
    /\ range' = [range EXCEPT ![f].from = @ + 1]
    /\ Goto(f, "work")
    /\ UNCHANGED <<gapVars, span, absent, escaped>>
    /\ FetcherFrame

PublishRefused(f) ==
    /\ fpc[f] = "publish" /\ recClosed
    /\ BeginRelease(f)
    /\ UNCHANGED span

Fetch(f) ==
    \/ Poll(f) \/ FetcherDone(f) \/ ClaimNothing(f) \/ Claim(f) \/ EndRelease(f)
    \/ GetBlocks(f) \/ GetBlocksGone(f) \/ GetBlocksFails(f)
    \/ WorkStopped(f) \/ WorkEnd(f) \/ WorkNext(f)
    \/ GetBlock(f) \/ GetBlockGone(f) \/ GetBlockFails(f)
    \/ PublishRecovered(f) \/ PublishRefused(f)

-----------------------------------------------------------------------------
(* THE ENVIRONMENT *)

Produce ==
    /\ tip < MaxSlot
    /\ tip' = tip + 1
    /\ UNCHANGED <<runs, diskVars, rxVars, stop, liveVars, recVars, gapVars, procVars, poolVars,
                   histVars>>

RequestStop ==
    /\ "stop" \in Faults /\ phase # "down" /\ ~stop
    /\ stop' = TRUE
    /\ UNCHANGED <<tip, runs, diskVars, rxVars, liveVars, recVars, gapVars, procVars, poolVars,
                   histVars>>

Crash ==
    /\ "crash" \in Faults /\ phase # "down"
    /\ Asleep
    /\ UNCHANGED <<tip, runs, diskVars, origin, absent, escaped, forgotten>>

Receive == (\E slot \in Slots : Deliver(slot)) \/ FollowEnds \/ DrainEnds \/ CloseLive
           \/ StopPool \/ JoinPool \/ JoinProcessor

Process == TakeLive \/ PassLive \/ TakeRecovered \/ PassRecovered \/ Commit \/ Mark
           \/ HandlerFails

Next == Start \/ Receive \/ Process \/ (\E f \in Fetchers : Fetch(f))
        \/ Produce \/ RequestStop \/ Crash

Spec == Init /\ [][Next]_vars

(* Threads that can run do run, a handler and an RPC return, and a refused   *)
(* or failed RPC may always be the answer.  Nobody has to produce slots,     *)
(* start the program, stop it or crash it.                                   *)
Fairness ==
    /\ WF_vars(FollowEnds \/ DrainEnds \/ CloseLive \/ StopPool \/ JoinPool \/ JoinProcessor)
    /\ WF_vars(Process)
    /\ \A f \in Fetchers : WF_vars(Fetch(f))

FairSpec == Spec /\ Fairness

(* An endpoint that is asked again and again in the end answers; it may fail *)
(* or refuse any number of times before.                                     *)
AnsweringSpec ==
    FairSpec /\ \A f \in Fetchers : SF_vars(GetBlocks(f)) /\ SF_vars(GetBlock(f))

-----------------------------------------------------------------------------
(* PROPERTIES *)

(* Blocks the index is responsible for up to a slot. *)
Due(slot) == Blocks \cap (origin .. slot)

(* pipeline.c 236-247 and 348-354, fetcher.c 274-278: in every run, whatever  *)
(* crashes, stops, fails and interleaves, the durable position never passes   *)
(* a block that was not stored, unless the endpoint does not have it or it    *)
(* left by one of four ways: the distance between the backfill and the first  *)
(* live slot, a release that was under way, a claim that was being worked     *)
(* when the pool was stopped (escaped), and a gap list that had no memory for *)
(* a hole, for a range given back or for a split (forgotten).                 *)
OnlyKnownLosses ==
    Due(Larger(saved, last_indexed)) \subseteq committed \cup absent \cup escaped \cup forgotten

(* gaps.h 14-16, "a restart resumes at a point it can trust rather than at a  *)
(* high-water mark that skips whatever was still in flight": whenever the     *)
(* process is gone, the cursor file is below every block it still owes.       *)
NothingLost == phase = "down" => Due(saved) \subseteq committed \cup absent

(* pipeline.c 1063-1079: whatever the fetchers and the processing thread are  *)
(* waiting for, a shutdown that was requested, or forced by a handler that    *)
(* failed, comes to its end.                                                  *)
ShutdownEnds == (phase # "down" /\ StopRequested) ~> (phase = "down")

(* pipeline.c 985-986, "so the set always empties": a drain ends.             *)
DrainTerminates == (phase = "drain") ~> (phase # "drain")

(* pipeline.c 979-984: a bounded run that ended cleanly has nothing missing.  *)
(* The code does not keep this promise: README, section 6.                    *)
DrainedWhenDone ==
    phase = "final" /\ proc = "ended" /\ clean /\ ~StopRequested => outstanding = {}

(* fetcher.c 154-308, pipeline.c 348-354 and 975-996: in a run nobody stops,  *)
(* a block that is missing while the program follows the tip or drains is     *)
(* stored in the end, unless the endpoint does not have it.  One way out is   *)
(* left, and named: the drain may end while a fetcher is in the middle of     *)
(* giving the block back.  A hole that is found when the drain is over is not *)
(* promised anything: that drain ended too early (README, section 6).         *)
HolesFilled ==
    \A slot \in Blocks :
        (slot \in missing /\ phase \in {"follow", "drain"})
            ~> \/ slot \in committed \cup absent
               \/ phase = "close" /\ slot \in Returning

GS == INSTANCE GapSet WITH Workers <- Fetchers,
         returning <- [f \in Fetchers |-> IF fpc[f] = "release" THEN Span(f) ELSE {}]

(* pipeline.c 36-41: between them the threads change the gap set only as      *)
(* gaps.h describes, so what the list of gaps.c implements is what the        *)
(* pipeline relies on.                                                        *)
UsesGapSet == GS!Spec
=============================================================================
