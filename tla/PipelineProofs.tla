--------------------------- MODULE PipelineProofs ---------------------------
(***************************************************************************)
(* For any number of slots, fetchers, runs and for every kind of fault:    *)
(* the durable position passes a block that is not stored only in the ways *)
(* Pipeline names.                                                         *)
(***************************************************************************)
EXTENDS Pipeline, WellFoundedInduction, TLAPS

(* Where a fetcher holds a claim that is not empty. *)
Holding == {"query", "fetch", "publish", "release"}

(* Everything the threads know of lies at or below cover. *)
Bounded ==
    /\ \A s \in outstanding : s <= cover
    /\ \A f \in Fetchers : fpc[f] \in {"idle", "claim", "done"} \/ range[f].to <= cover
    /\ \A f \in Fetchers : fpc[f] \in Holding => range[f].from <= range[f].to
    /\ \A i \in 1 .. Len(recovered) : recovered[i] <= cover
    /\ entry <= cover /\ highest <= cover /\ last_seen <= cover
    /\ last_indexed <= cover /\ saved <= cover

(* The responsibility starts where the program was told to, or at its first  *)
(* live slot.                                                                *)
Origins ==
    /\ origin = Unset => cover = None
    /\ StartSlot # 0 => origin = StartSlot

(* The processing thread owns a slot during a handler call and not outside,  *)
(* and a process that is down knows nothing but its cursor file.             *)
AtRest ==
    /\ proc \in {"live", "recover", "mark"} => entry = None
    /\ proc = "handle" => entry \in Slots
    /\ phase = "down" =>
          /\ proc = "ended" /\ entry = None /\ recovered = <<>>
          /\ fpc = [f \in Fetchers |-> "done"]
          /\ last_seen = None /\ highest = saved /\ last_indexed = saved

(* Every block below cover is stored, not to be had, given up, recorded as   *)
(* missing and not resolved since, on its way back into the record, or being *)
(* handled.  Slots that only the range limit added would not do: it may take *)
(* them away again.                                                          *)
Accounted ==
    \A s \in Due(cover) : \/ s \in committed \cup absent \cup escaped \cup forgotten
                          \/ s \in missing \cup Returning
                          \/ s = entry

(* The two positions the program has claimed to be complete. *)
Settled(slot) == Due(slot) \subseteq committed \cup absent \cup escaped \cup forgotten
KnownLosses   == Settled(saved) /\ Settled(last_indexed)

(* The inductive invariant. *)
PipelineInv == TypeOK /\ Bounded /\ Origins /\ AtRest /\ Accounted /\ KnownLosses

(* The truth values among the variables. *)
Flags == /\ clean \in BOOLEAN /\ stop \in BOOLEAN /\ liveClosed \in BOOLEAN
         /\ recClosed \in BOOLEAN /\ failed \in BOOLEAN /\ liveDone \in BOOLEAN
         /\ recDone \in BOOLEAN /\ poolStop \in BOOLEAN

-----------------------------------------------------------------------------
(* A nonempty set of naturals has a lowest member. *)
LEMMA LowestIsIn ==
    ASSUME NEW S, S \subseteq Nat, S # {}
    PROVE  Lowest(S) \in S /\ \A s \in S : Lowest(S) <= s
<1> DEFINE R == OpToRel(<, Nat)
<1>1. R = {ss \in Nat \X Nat : ss[1] < ss[2]}
  BY Zenon DEF OpToRel
<1>2. IsWellFoundedOn(R, Nat)
  BY NatLessThanWellFounded
<1> HIDE DEF R
<1>3. PICK x \in S : \A y \in S : ~(<<y, x>> \in R)
  BY <1>2, WFMin
<1>4. ASSUME NEW y \in S
      PROVE  x <= y
  <2>1. SUFFICES ASSUME y < x PROVE FALSE
    OBVIOUS
  <2>2. <<y, x>> \in Nat \X Nat /\ <<y, x>>[1] < <<y, x>>[2]
    BY <2>1
  <2>3. <<y, x>> \in R
    BY <2>2, <1>1, Zenon
  <2> QED BY <2>3, <1>3, Zenon
<1> QED BY <1>4 DEF Lowest

(* The initial states satisfy the invariant. *)
LEMMA PipelineInitially == Init => PipelineInv
<1> SUFFICES ASSUME Init PROVE PipelineInv
  OBVIOUS
<1> USE PipelineAssumption DEF Init
<1>1. TypeOK
  <2>1. /\ tip \in 0 .. MaxSlot /\ runs \in 0 .. MaxRuns
        /\ saved \in None .. MaxSlot /\ committed \subseteq Slots
        /\ phase \in Phases /\ floor \in 0 .. MaxSlot + 1 /\ delivered \in 0 .. MaxSlot
    BY DEF Phases, Slots, None
  <2>2. /\ live \in Seq(Slots) /\ recovered \in Seq(Slots)
        /\ claimable \subseteq outstanding /\ missing \subseteq outstanding
        /\ outstanding \subseteq Slots
    OBVIOUS
  <2>3. /\ proc \in ProcPcs /\ entry \in Slots \cup {None}
        /\ last_seen \in None .. MaxSlot /\ highest \in None .. MaxSlot
        /\ last_indexed \in None .. MaxSlot
    BY DEF ProcPcs, None
  <2>4. /\ span \in Nat \ {0}
        /\ fpc \in [Fetchers -> FetchPcs]
        /\ range \in [Fetchers -> [from : 1 .. MaxSlot + 1, to : Slots \cup {0}]]
    BY DEF FetchPcs, NoRange
  <2>5. /\ origin \in 1 .. Unset /\ cover \in None .. MaxSlot
        /\ absent \subseteq Slots /\ escaped \subseteq Slots /\ forgotten \subseteq Slots
    BY DEF None, Unset
  <2>6. Flags
    BY Zenon DEF Flags
  <2> QED BY <2>1, <2>2, <2>3, <2>4, <2>5, <2>6 DEF TypeOK, Flags
<1>2. Bounded /\ Origins /\ AtRest
  BY DEF Bounded, Holding, Origins, AtRest, Slots, None, Unset
<1>3. Accounted /\ KnownLosses
  BY DEF Accounted, KnownLosses, Settled, Due, None, Unset
<1> QED BY <1>1, <1>2, <1>3 DEF PipelineInv

(* A step that touches no position, no record and no slot on its way. *)
LEMMA UntouchedKeeps ==
    ASSUME PipelineInv, TypeOK', AtRest',
           UNCHANGED <<saved, committed, recovered, outstanding, missing, forgotten, entry, last_seen,
                       highest, last_indexed, fpc, range, histVars>>
    PROVE  PipelineInv'
<1> USE DEF PipelineInv, histVars
<1>1. Bounded'
  BY DEF Bounded
<1>2. Origins'
  BY DEF Origins
<1>3. Accounted'
  BY DEF Accounted, Due, Returning, Span
<1>4. KnownLosses'
  BY DEF KnownLosses, Settled, Due
<1> QED BY <1>1, <1>2, <1>3, <1>4

(* A process that ends or crashes forgets all but its cursor file. *)
LEMMA AsleepKeeps ==
    ASSUME PipelineInv, Asleep, UNCHANGED <<tip, runs, diskVars, origin, absent, escaped, forgotten>>
    PROVE  PipelineInv'
<1> USE PipelineAssumption DEF PipelineInv, Asleep, diskVars
<1>1. TypeOK'
  <2>1. /\ (tip \in 0 .. MaxSlot /\ runs \in 0 .. MaxRuns)'
        /\ (saved \in None .. MaxSlot /\ committed \subseteq Slots)'
        /\ (phase \in Phases /\ floor \in 0 .. MaxSlot + 1 /\ delivered \in 0 .. MaxSlot)'
    BY DEF TypeOK, Phases
  <2>2. /\ (live \in Seq(Slots) /\ recovered \in Seq(Slots))'
        /\ (claimable \subseteq outstanding /\ missing \subseteq outstanding)'
        /\ (outstanding \subseteq Slots)'
    OBVIOUS
  <2>3. /\ (proc \in ProcPcs /\ entry \in Slots \cup {None})'
        /\ (last_seen \in None .. MaxSlot /\ highest \in None .. MaxSlot)'
        /\ (last_indexed \in None .. MaxSlot)'
    BY DEF TypeOK, ProcPcs, None
  <2>4. /\ (span \in Nat \ {0})'
        /\ (fpc \in [Fetchers -> FetchPcs])'
        /\ (range \in [Fetchers -> [from : 1 .. MaxSlot + 1, to : Slots \cup {0}]])'
    BY DEF FetchPcs, NoRange
  <2>5. /\ (origin \in 1 .. Unset /\ cover \in None .. MaxSlot)'
        /\ (absent \subseteq Slots /\ escaped \subseteq Slots /\ forgotten \subseteq Slots)'
    BY DEF TypeOK
  <2>6. Flags'
    BY Zenon DEF Flags
  <2> QED BY <2>1, <2>2, <2>3, <2>4, <2>5, <2>6 DEF TypeOK, Flags
<1>2. Bounded'
  BY DEF TypeOK, Bounded, Holding, None
<1>3. Origins'
  BY DEF Origins, Bounded, TypeOK, None
<1>4. AtRest'
  BY DEF AtRest
<1>5. Accounted'
  BY DEF Accounted, Due, KnownLosses, Settled
<1>6. KnownLosses'
  BY DEF KnownLosses, Settled, Due
<1> QED BY <1>1, <1>2, <1>3, <1>4, <1>5, <1>6

-----------------------------------------------------------------------------
(* The receive thread. *)
LEMMA ReceiveKeeps == PipelineInv /\ Receive => PipelineInv'
<1> SUFFICES ASSUME PipelineInv, Receive PROVE PipelineInv'
  OBVIOUS
<1> USE PipelineAssumption
    DEF PipelineInv, rxVars, liveVars, recVars, gapVars, procVars, poolVars, histVars, diskVars
<1>1. ASSUME NEW slot \in Slots, Deliver(slot)
      PROVE  PipelineInv'
  <2> USE <1>1 DEF Deliver, EndFollow
  <2>1. live' \in Seq(Slots)
    <3>1. CASE UNCHANGED live
      BY <3>1 DEF TypeOK
    <3>2. CASE PublishLive(slot) /\ Len(live) >= LiveDepth
      <4>1. Tail(live) \in Seq(Slots)
        BY <3>2 DEF TypeOK
      <4> QED BY <4>1, <3>2 DEF PublishLive
    <3>3. CASE PublishLive(slot) /\ ~(Len(live) >= LiveDepth)
      BY <3>3 DEF TypeOK, PublishLive
    <3> QED BY <3>1, <3>2, <3>3
  <2>2. delivered' \in 0 .. MaxSlot /\ phase' \in Phases
    BY DEF TypeOK, Phases, Slots
  <2>3. Flags'
    BY Zenon DEF Flags, TypeOK
  <2>4. TypeOK'
    BY <2>1, <2>2, <2>3 DEF TypeOK, Flags
  <2>5. AtRest'
    BY DEF AtRest
  <2> QED BY <2>4, <2>5, UntouchedKeeps
<1>2. ASSUME FollowEnds \/ DrainEnds \/ CloseLive \/ StopPool \/ JoinPool
      PROVE  PipelineInv'
  <2> USE <1>2 DEF FollowEnds, EndFollow, DrainEnds, CloseLive, StopPool, JoinPool
  <2>1. TypeOK'
    <3>1. Flags'
      BY Zenon DEF Flags, TypeOK
    <3>2. phase' \in Phases
      BY DEF Phases
    <3> QED BY <3>1, <3>2 DEF TypeOK, Flags
  <2>2. AtRest'
    BY DEF AtRest
  <2> QED BY <2>1, <2>2, UntouchedKeeps
<1>3. CASE JoinProcessor
  BY <1>3, AsleepKeeps DEF JoinProcessor
<1> QED BY <1>1, <1>2, <1>3 DEF Receive

(* The chain, the operator and a crash. *)
LEMMA EnvironmentKeeps == PipelineInv /\ (Produce \/ RequestStop \/ Crash) => PipelineInv'
<1> SUFFICES ASSUME PipelineInv, Produce \/ RequestStop \/ Crash PROVE PipelineInv'
  OBVIOUS
<1> USE PipelineAssumption
    DEF PipelineInv, rxVars, liveVars, recVars, gapVars, procVars, poolVars, histVars, diskVars
<1>1. ASSUME Produce \/ RequestStop
      PROVE  PipelineInv'
  <2>1. TypeOK'
    <3>1. Flags'
      BY <1>1, Zenon DEF Flags, TypeOK, Produce, RequestStop
    <3>2. tip' \in 0 .. MaxSlot
      BY <1>1 DEF TypeOK, Produce, RequestStop
    <3> QED BY <1>1, <3>1, <3>2 DEF TypeOK, Flags, Produce, RequestStop
  <2>2. AtRest'
    BY <1>1 DEF AtRest, Produce, RequestStop
  <2> QED BY <1>1, <2>1, <2>2, UntouchedKeeps DEF Produce, RequestStop
<1>2. CASE Crash
  BY <1>2, AsleepKeeps DEF Crash
<1> QED BY <1>1, <1>2

-----------------------------------------------------------------------------
(* What idx_gaps_watermark answers never lies above a missing slot. *)
LEMMA WatermarkBelow ==
    ASSUME PipelineInv, NEW w \in Watermarks
    PROVE  /\ w \in None .. MaxSlot /\ w <= cover
           /\ \A s \in missing : s > w
<1> USE PipelineAssumption DEF PipelineInv, TypeOK, Bounded, None, Slots
<1>1. CASE outstanding = {}
  BY <1>1 DEF Watermarks
<1>2. CASE outstanding # {}
  <2>1. PICK o \in Firsts : w = IF highest = None \/ o - 1 < highest THEN o - 1 ELSE highest
    BY <1>2 DEF Watermarks
  <2>2. o \in Slots /\ o <= cover /\ \A s \in missing : o <= s
    BY DEF Firsts
  <2> QED BY <2>1, <2>2
<1> QED BY <1>1, <1>2

(* What joining ranges adds lies below what was recorded already. *)
LEMMA HullBelow ==
    ASSUME NEW S, NEW c \in Int, \A s \in S : s \in Slots /\ s <= c
    PROVE  \A s \in Hull(S) : s \in Slots /\ s <= c
<1> SUFFICES ASSUME NEW s \in Hull(S) PROVE s \in Slots /\ s <= c
  OBVIOUS
<1>1. s \in Slots /\ \E b \in S : s <= b
  BY DEF Hull
<1> QED BY <1>1, PipelineAssumption DEF Slots

(* Recording slots, with or without the range limit: no missing slot is      *)
(* forgotten, only space between recorded ones is filled, and a block that   *)
(* there is no memory for is accounted for as forgotten.                     *)
LEMMA RecordKeeps ==
    ASSUME NEW new, new \subseteq Slots, TypeOK, Record(new)
    PROVE  /\ missing \subseteq missing' /\ missing' \subseteq outstanding'
           /\ claimable' \subseteq outstanding'
           /\ outstanding' \subseteq Hull(outstanding \cup new)
           /\ forgotten \subseteq forgotten' /\ forgotten' \subseteq Slots
           /\ \A s \in Blocks \cap new : s \in committed \cup missing' \cup forgotten'
           /\ "memory" \notin Faults => missing' = missing \cup new
<1>1. missing \subseteq outstanding /\ outstanding \subseteq Slots /\ claimable \subseteq outstanding
      /\ forgotten \subseteq Slots
  BY DEF TypeOK
<1>2. outstanding \cup new \subseteq Hull(outstanding \cup new)
  BY <1>1, PipelineAssumption DEF Hull, Slots
<1>3. CASE forgotten' = forgotten /\ missing' = missing \cup new
  BY <1>1, <1>2, <1>3 DEF Record, Recordings
<1>4. CASE /\ "memory" \in Faults
           /\ forgotten' = forgotten \cup ((Blocks \cap new) \ committed)
           /\ UNCHANGED <<outstanding, missing, claimable>>
  BY <1>1, <1>2, <1>4
<1> QED BY <1>3, <1>4 DEF Record

(* Resolving slots: what goes with them for want of memory is accounted for. *)
LEMMA DropKeeps ==
    ASSUME NEW old, TypeOK, Drop(old)
    PROVE  /\ missing' \subseteq missing /\ outstanding' \subseteq outstanding
           /\ missing' \subseteq outstanding' /\ claimable' \subseteq outstanding'
           /\ forgotten \subseteq forgotten' /\ forgotten' \subseteq Slots
           /\ \A s \in Blocks \cap missing :
                 s \in old \/ s \in committed \cup missing' \cup forgotten'
           /\ "memory" \notin Faults =>
                 missing' = missing \ old /\ outstanding' = outstanding \ old
<1>1. missing \subseteq outstanding /\ claimable \subseteq outstanding /\ forgotten \subseteq Slots
  BY DEF TypeOK
<1>2. PICK lost \in SplitLosses(old) :
         /\ outstanding' = outstanding \ (old \cup lost)
         /\ missing' = missing \ (old \cup lost)
         /\ claimable' = claimable \ (old \cup lost)
         /\ forgotten' = forgotten \cup ((Blocks \cap lost) \ committed)
  BY DEF Drop
<1>3. lost \subseteq Slots /\ ("memory" \notin Faults => lost = {})
  BY DEF SplitLosses
<1> QED BY <1>1, <1>2, <1>3

(* A new live slot: what lies between it and cover is recorded, given up, or *)
(* before the origin.                                                        *)
LEMMA TakeLiveKeeps == PipelineInv /\ TakeLive => PipelineInv'
<1> SUFFICES ASSUME PipelineInv, TakeLive PROVE PipelineInv'
  OBVIOUS
<1> USE PipelineAssumption DEF PipelineInv, TakeLive, ObserveLive,
        rxVars, liveVars, recVars, gapVars, procVars, poolVars, histVars, diskVars
<1> DEFINE slot == Head(live)
<1>1. slot \in Slots /\ Tail(live) \in Seq(Slots)
  BY DEF TypeOK
<1>2. entry' = slot /\ entry = None
  BY DEF AtRest
<1> HIDE DEF slot
<1>3. /\ last_seen' = Larger(last_seen, slot) /\ cover' = Larger(cover, slot)
      /\ origin' = (IF origin = Unset THEN slot ELSE origin)
      /\ escaped' = (IF last_seen = None /\ origin # Unset
                     THEN escaped \cup ((Blocks \cap (cover + 1 .. slot - 1)) \ committed)
                     ELSE escaped)
      /\ \/ (last_seen = None \/ slot <= last_seen + 1) /\ UNCHANGED gapVars
         \/ last_seen # None /\ slot > last_seen + 1 /\ Record(last_seen + 1 .. slot - 1)
  BY <1>1 DEF slot, TypeOK, None, Slots
<1>4. /\ claimable' \subseteq outstanding' /\ missing' \subseteq outstanding'
      /\ missing \subseteq missing' /\ outstanding' \subseteq Slots
      /\ \A s \in outstanding' : s <= cover'
      /\ forgotten \subseteq forgotten' /\ forgotten' \subseteq Slots
      /\ last_seen # None => \A s \in Blocks \cap (last_seen + 1 .. slot - 1) :
                                s \in committed \cup missing' \cup forgotten'
  <2>1. CASE UNCHANGED gapVars /\ (last_seen = None \/ slot <= last_seen + 1)
    <3>1. last_seen # None => last_seen + 1 .. slot - 1 = {}
      BY <2>1, <1>1 DEF TypeOK, None, Slots
    <3> QED BY <2>1, <3>1, <1>1, <1>3 DEF TypeOK, Bounded, Larger, None, Slots
  <2>2. CASE last_seen # None /\ Record(last_seen + 1 .. slot - 1)
    <3> DEFINE new == last_seen + 1 .. slot - 1
    <3>2. \A s \in new : s \in Slots /\ s <= cover'
      BY <2>2, <1>1, <1>3 DEF TypeOK, Larger, None, Slots
    <3>3. \A s \in outstanding : s \in Slots /\ s <= cover'
      BY <1>1, <1>3 DEF TypeOK, Bounded, Larger, None, Slots
    <3>4. cover' \in Int
      BY <1>1, <1>3 DEF TypeOK, Larger, None, Slots
    <3>1. Record(new)
      BY <2>2
    <3> HIDE DEF new
    <3>5. /\ missing \subseteq missing' /\ missing' \subseteq outstanding'
          /\ claimable' \subseteq outstanding'
          /\ outstanding' \subseteq Hull(outstanding \cup new)
          /\ forgotten \subseteq forgotten' /\ forgotten' \subseteq Slots
          /\ \A s \in Blocks \cap new : s \in committed \cup missing' \cup forgotten'
      BY <3>1, <3>2, RecordKeeps
    <3>6. \A s \in Hull(outstanding \cup new) : s \in Slots /\ s <= cover'
      BY <3>2, <3>3, <3>4, HullBelow
    <3> QED BY <3>5, <3>6 DEF new
  <2> QED BY <1>3, <2>1, <2>2
<1>5. TypeOK'
  <2>1. proc' \in ProcPcs /\ entry' \in Slots \cup {None}
    BY <1>1, <1>2 DEF ProcPcs
  <2>2. last_seen' \in None .. MaxSlot /\ cover' \in None .. MaxSlot /\ origin' \in 1 .. Unset
    BY <1>1, <1>3 DEF TypeOK, Larger, Slots, Unset, None
  <2>3. escaped' \subseteq Slots
    BY <1>3 DEF TypeOK, Slots
  <2> QED BY <1>1, <1>4, <2>1, <2>2, <2>3 DEF TypeOK
<1>6. Bounded'
  <2>1. cover' \in Int /\ cover' >= cover /\ cover' >= slot
    BY <1>1, <1>3 DEF TypeOK, Larger, Slots, None
  <2>2. last_seen' <= cover'
    BY <1>1, <1>3 DEF TypeOK, Bounded, Larger, Slots, None
  <2>3. \A i \in 1 .. Len(recovered) : recovered[i] \in Slots
    BY DEF TypeOK
  <2>4. \A f \in Fetchers : range[f].to \in Int
    BY DEF TypeOK, Slots
  <2>5. \A f \in Fetchers : fpc[f] \in {"idle", "claim", "done"} \/ range[f].to <= cover'
    BY <2>1, <2>4 DEF TypeOK, Bounded, None
  <2>6. \A i \in 1 .. Len(recovered) : recovered[i] <= cover'
    BY <2>1, <2>3 DEF TypeOK, Bounded, Slots, None
  <2>7. entry' <= cover' /\ highest <= cover' /\ last_indexed <= cover' /\ saved <= cover'
    BY <1>1, <1>2, <2>1 DEF TypeOK, Bounded, Slots, None
  <2> QED BY <1>4, <2>2, <2>5, <2>6, <2>7 DEF Bounded
<1>7. Origins'
  BY <1>1, <1>3 DEF Origins, TypeOK, Slots, Unset, None
<1>8. AtRest'
  BY <1>1, <1>2 DEF AtRest
<1>9. Accounted'
  <2> SUFFICES ASSUME NEW s \in Due(cover)'
               PROVE  s \in (committed \cup absent \cup escaped \cup forgotten
                              \cup missing \cup Returning)'
                      \/ s = slot
    BY <1>2 DEF Accounted
  <2>1. s \in Blocks /\ s \in Int /\ origin' <= s /\ s <= cover'
    BY <1>1, <1>3 DEF Due, TypeOK, Larger, Slots, None, Unset
  <2>2. Returning' = Returning
    BY DEF Returning, Span
  <2>3. CASE origin = Unset
    <3>1. cover = None /\ cover' = slot /\ origin' = slot
      BY <2>3, <1>1, <1>3 DEF Origins, Larger, Slots, None
    <3> QED BY <3>1, <2>1, <1>1 DEF Slots
  <2>4. CASE origin # Unset /\ s <= cover
    <3>1. s \in Due(cover)
      BY <2>1, <2>4, <1>3 DEF Due, TypeOK, Unset, None
    <3>2. s # None
      BY <2>1 DEF None
    <3> QED BY <3>1, <3>2, <1>2, <1>3, <1>4, <2>2 DEF Accounted
  <2>5. CASE origin # Unset /\ s > cover
    <3>1. s <= slot
      BY <2>1, <2>5, <1>1, <1>3 DEF Larger, TypeOK, Slots, None
    <3>2. CASE last_seen = None /\ s < slot
      <4>1. s \in cover + 1 .. slot - 1
        BY <2>1, <2>5, <3>2, <1>1 DEF TypeOK, Slots, None
      <4> QED BY <4>1, <2>1, <2>5, <3>2, <1>3
    <3>3. CASE last_seen # None /\ s < slot
      <4>1. s \in last_seen + 1 .. slot - 1
        BY <2>1, <2>5, <3>3, <1>1 DEF TypeOK, Bounded, Slots, None
      <4> QED BY <4>1, <2>1, <3>3, <1>4
    <3> QED BY <3>1, <3>2, <3>3, <2>1, <1>1 DEF Slots
  <2> QED BY <2>3, <2>4, <2>5, <2>1 DEF TypeOK, None
<1>10. KnownLosses'
  <2>1. escaped \subseteq escaped' /\ forgotten \subseteq forgotten'
    BY <1>3, <1>4
  <2>2. CASE origin = Unset
    <3>1. cover = None /\ origin' = slot
      BY <2>2, <1>3 DEF Origins
    <3>2. Due(saved)' = {} /\ Due(last_indexed)' = {}
      BY <3>1, <1>1 DEF Bounded, TypeOK, Due, None, Slots
    <3> QED BY <3>2 DEF KnownLosses, Settled
  <2>3. CASE origin # Unset
    BY <2>3, <2>1, <1>3 DEF KnownLosses, Settled, Due
  <2> QED BY <2>2, <2>3
<1> QED BY <1>5, <1>6, <1>7, <1>8, <1>9, <1>10

(* The processing thread's other steps. *)
LEMMA ProcessKeeps == PipelineInv /\ Process => PipelineInv'
<1> SUFFICES ASSUME PipelineInv, Process PROVE PipelineInv'
  OBVIOUS
<1> USE PipelineAssumption
    DEF PipelineInv, rxVars, liveVars, recVars, gapVars, procVars, poolVars, histVars, diskVars
<1>1. CASE TakeLive
  BY <1>1, TakeLiveKeeps
<1>2. ASSUME PassLive
      PROVE  PipelineInv'
  <2> USE <1>2 DEF PassLive
  <2>1. TypeOK'
    <3>1. Flags'
      BY Zenon DEF Flags, TypeOK
    <3>2. proc' \in ProcPcs
      BY DEF ProcPcs
    <3> QED BY <3>1, <3>2 DEF TypeOK, Flags
  <2>2. AtRest'
    BY DEF AtRest
  <2> QED BY <2>1, <2>2, UntouchedKeeps
<1>3. ASSUME TakeRecovered
      PROVE  PipelineInv'
  <2> USE <1>3 DEF TakeRecovered
  <2>1. entry' \in Slots /\ entry' <= cover /\ recovered' \in Seq(Slots)
    BY DEF TypeOK, Bounded
  <2>2. TypeOK'
    <3>1. proc' \in ProcPcs /\ entry' \in Slots \cup {None}
      BY <2>1 DEF ProcPcs
    <3> QED BY <2>1, <3>1 DEF TypeOK
  <2>3. Bounded'
    <3>1. \A i \in 1 .. Len(recovered') : recovered'[i] <= cover
      BY DEF TypeOK, Bounded
    <3> QED BY <2>1, <3>1 DEF Bounded
  <2>4. Origins' /\ KnownLosses'
    BY DEF Origins, KnownLosses, Settled, Due
  <2>5. AtRest'
    BY <2>1 DEF AtRest
  <2>6. Accounted'
    <3>1. \A s \in Due(cover) : s # entry
      BY DEF AtRest, Due, None
    <3> QED BY <3>1 DEF Accounted, Due, Returning, Span
  <2> QED BY <2>2, <2>3, <2>4, <2>5, <2>6
<1>4. ASSUME PassRecovered
      PROVE  PipelineInv'
  <2> USE <1>4 DEF PassRecovered
  <2>1. saved' \in {saved, last_indexed} /\ proc' \in {"ended", "live"} /\ entry = None
    BY DEF AtRest
  <2>2. TypeOK'
    <3>1. Flags'
      BY Zenon DEF Flags, TypeOK
    <3>2. proc' \in ProcPcs /\ saved' \in None .. MaxSlot
      BY <2>1 DEF TypeOK, ProcPcs
    <3> QED BY <3>1, <3>2 DEF TypeOK, Flags
  <2>3. Bounded'
    BY <2>1 DEF Bounded
  <2>4. Origins'
    BY DEF Origins
  <2>5. AtRest'
    BY <2>1 DEF AtRest
  <2>6. Accounted'
    BY DEF Accounted, Due, Returning, Span
  <2>7. KnownLosses'
    BY <2>1 DEF KnownLosses, Settled, Due
  <2> QED BY <2>2, <2>3, <2>4, <2>5, <2>6, <2>7
<1>5. ASSUME Commit
      PROVE  PipelineInv'
  <2> USE <1>5 DEF Commit
  <2>1. entry \in Slots /\ phase # "down"
    BY DEF AtRest
  <2>9. /\ outstanding' \subseteq outstanding
        /\ missing' \subseteq outstanding' /\ claimable' \subseteq outstanding'
        /\ forgotten \subseteq forgotten' /\ forgotten' \subseteq Slots
        /\ \A s \in Blocks \cap missing :
              s = entry \/ s \in committed \cup missing' \cup forgotten'
    BY DropKeeps
  <2>2. TypeOK'
    <3>1. proc' \in ProcPcs /\ entry' \in Slots \cup {None} /\ committed' \subseteq Slots
      BY <2>1 DEF TypeOK, ProcPcs
    <3>2. highest' \in None .. MaxSlot
      BY <2>1 DEF TypeOK, Larger, Slots, None
    <3> QED BY <2>9, <3>1, <3>2 DEF TypeOK
  <2>3. Bounded'
    <3>1. entry' <= cover' /\ highest' <= cover'
      BY <2>1 DEF TypeOK, Bounded, Larger, Slots, None
    <3> QED BY <2>9, <3>1 DEF Bounded
  <2>4. Origins'
    BY DEF Origins
  <2>5. AtRest'
    BY <2>1 DEF AtRest
  <2>6. Accounted'
    <3> SUFFICES ASSUME NEW s \in Due(cover)
                 PROVE  s \in committed' \cup absent \cup escaped \cup forgotten'
                        \/ s \in missing' \cup Returning
      BY DEF Accounted, Due, Returning, Span
    <3>1. s \in Blocks
      BY DEF Due
    <3> QED BY <2>9, <3>1 DEF Accounted
  <2>7. KnownLosses'
    BY <2>9 DEF KnownLosses, Settled, Due
  <2> QED BY <2>2, <2>3, <2>4, <2>5, <2>6, <2>7
<1>6. ASSUME Mark
      PROVE  PipelineInv'
  <2> USE <1>6 DEF Mark, SaveCursor
  <2>1. PICK w \in Watermarks :
           /\ last_indexed' = w
           /\ escaped' = escaped \cup ((Blocks \cap Returning \cap (1 .. w)) \ committed)
    OBVIOUS
  <2>0. w \in None .. MaxSlot /\ w <= cover /\ \A s \in missing : s > w
    BY WatermarkBelow
  <2>2. saved' \in {saved, w} /\ entry = None /\ phase # "down"
    BY <2>1 DEF AtRest
  <2>3. TypeOK'
    <3>1. proc' \in ProcPcs /\ saved' \in None .. MaxSlot /\ last_indexed' \in None .. MaxSlot
      BY <2>0, <2>1, <2>2 DEF TypeOK, ProcPcs
    <3>2. escaped' \subseteq Slots
      BY <2>1 DEF TypeOK, Slots
    <3> QED BY <3>1, <3>2 DEF TypeOK
  <2>4. Bounded'
    BY <2>0, <2>1, <2>2 DEF Bounded
  <2>5. Origins'
    BY DEF Origins
  <2>6. AtRest'
    BY <2>2 DEF AtRest
  <2>7. Accounted'
    BY <2>1 DEF Accounted, Due, Returning, Span
  <2>8. Due(w) \subseteq committed \cup absent \cup escaped' \cup forgotten
    <3> SUFFICES ASSUME NEW s \in Due(w)
                 PROVE  s \in committed \cup absent \cup escaped' \cup forgotten
      OBVIOUS
    <3>1. s \in Blocks /\ s \in Int /\ s <= w /\ s >= 1
      BY <2>0 DEF Due, TypeOK, Unset, None
    <3>2. s \in Due(cover)
      BY <3>1, <2>0 DEF Due, TypeOK, Unset, None
    <3>3. s \notin missing
      BY <3>1, <2>0 DEF None
    <3>4. s # entry
      BY <3>1, <2>2 DEF None
    <3>5. s \in 1 .. w
      BY <3>1, <2>0 DEF None
    <3> QED BY <3>1, <3>2, <3>3, <3>4, <3>5, <2>1 DEF Accounted
  <2>9. KnownLosses'
    BY <2>1, <2>2, <2>8 DEF KnownLosses, Settled, Due
  <2> QED BY <2>3, <2>4, <2>5, <2>6, <2>7, <2>9
<1>7. ASSUME HandlerFails
      PROVE  PipelineInv'
  <2> USE <1>7 DEF HandlerFails, CloseBothRings
  <2>1. saved' \in {saved, last_indexed} /\ proc' = "ended" /\ phase # "down"
    BY DEF AtRest
  <2>2. TypeOK'
    <3>1. Flags'
      BY Zenon DEF Flags, TypeOK
    <3>2. proc' \in ProcPcs /\ saved' \in None .. MaxSlot
      BY <2>1 DEF TypeOK, ProcPcs
    <3> QED BY <3>1, <3>2 DEF TypeOK, Flags
  <2>3. Bounded'
    BY <2>1 DEF Bounded
  <2>4. Origins'
    BY DEF Origins
  <2>5. AtRest'
    BY <2>1 DEF AtRest
  <2>6. Accounted'
    BY DEF Accounted, Due, Returning, Span
  <2>7. KnownLosses'
    BY <2>1 DEF KnownLosses, Settled, Due
  <2> QED BY <2>2, <2>3, <2>4, <2>5, <2>6, <2>7
<1> QED BY <1>1, <1>2, <1>3, <1>4, <1>5, <1>6, <1>7 DEF Process

(* Starting: the backfill is recorded, or nothing above the cursor is known. *)
LEMMA StartKeeps == PipelineInv /\ Start => PipelineInv'
<1> SUFFICES ASSUME PipelineInv, Start PROVE PipelineInv'
  OBVIOUS
<1> USE PipelineAssumption
    DEF PipelineInv, rxVars, liveVars, recVars, gapVars, procVars, poolVars, histVars, diskVars
<1>1. /\ entry = None /\ recovered = <<>> /\ last_seen = None
      /\ highest = saved /\ last_indexed = saved
  BY DEF Start, AtRest
<1>2. /\ phase' = "follow" /\ proc' = "live" /\ fpc' = [f \in Fetchers |-> "idle"]
      /\ floor' = ResumeSlot /\ missing' = outstanding' /\ claimable' = outstanding'
      /\ runs' = runs + 1 /\ runs < MaxRuns
      /\ origin' = (IF saved = None /\ StartSlot = 0 THEN Unset ELSE origin)
  BY DEF Start
<1>3. UNCHANGED <<tip, saved, committed, clean, delivered, stop, liveVars, recVars, entry, failed,
                  liveDone, recDone, last_seen, highest, last_indexed, poolStop, span,
                  range, absent, escaped, forgotten>>
  BY DEF Start
<1>4. \/ /\ NeedsBackfill
         /\ outstanding' = ResumeSlot .. BackfillEnd
         /\ cover' = Larger(ResumeSlot - 1, BackfillEnd)
      \/ outstanding' = {} /\ cover' = ResumeSlot - 1
  BY DEF Start
<1>5. ResumeSlot \in 0 .. MaxSlot + 1 /\ BackfillEnd \in None .. MaxSlot
  BY DEF TypeOK, ResumeSlot, BackfillEnd, None
<1>6. /\ outstanding' \subseteq Slots /\ cover' \in None .. MaxSlot
      /\ cover' >= ResumeSlot - 1
      /\ \A s \in outstanding' : s <= cover'
      /\ \A s \in Slots : s >= ResumeSlot /\ s <= cover' => s \in outstanding'
  BY <1>4, <1>5 DEF TypeOK, NeedsBackfill, Larger, Slots, None
<1>7. saved <= ResumeSlot - 1 /\ saved \in None .. MaxSlot
  BY DEF TypeOK, ResumeSlot, None
<1>8. TypeOK'
  <2>1. phase' \in Phases /\ proc' \in ProcPcs /\ fpc' \in [Fetchers -> FetchPcs]
    BY <1>2 DEF Phases, ProcPcs, FetchPcs
  <2>2. runs' \in 0 .. MaxRuns /\ origin' \in 1 .. Unset
    BY <1>2 DEF TypeOK, Unset
  <2> QED BY <1>2, <1>3, <1>5, <1>6, <2>1, <2>2 DEF TypeOK
<1>9. Bounded'
  <2>1. entry <= cover' /\ saved <= cover' /\ None <= cover'
    BY <1>1, <1>5, <1>6, <1>7 DEF None
  <2>2. \A f \in Fetchers : fpc'[f] = "idle"
    BY <1>2
  <2> QED BY <1>1, <1>3, <1>6, <2>1, <2>2 DEF Bounded, Holding
<1>10. Origins'
  <2>1. CASE saved = None /\ StartSlot = 0
    <3>1. ResumeSlot = 0
      BY <2>1 DEF ResumeSlot
    <3>2. cover' = None
      BY <3>1, <1>4 DEF NeedsBackfill, None
    <3> QED BY <2>1, <3>2 DEF Origins
  <2>2. CASE saved # None
    <3>1. origin # Unset
      BY <2>2 DEF Origins, Bounded, TypeOK, None
    <3> QED BY <1>2, <2>2, <3>1 DEF Origins
  <2>3. CASE StartSlot # 0
    BY <1>2, <2>3 DEF Origins, Unset
  <2> QED BY <2>1, <2>2, <2>3
<1>11. AtRest'
  BY <1>1, <1>2, <1>3 DEF AtRest
<1>12. Accounted'
  <2> SUFFICES ASSUME NEW s \in Due(cover)'
               PROVE  s \in committed \cup absent \cup escaped \cup forgotten \cup outstanding'
    BY <1>2, <1>3 DEF Accounted
  <2>1. s \in Blocks /\ s \in Slots /\ origin' <= s /\ s <= cover'
    BY <1>2, <1>6 DEF Due, TypeOK, Slots, None, Unset
  <2>2. CASE s >= ResumeSlot
    BY <2>1, <2>2, <1>6
  <2>3. CASE s < ResumeSlot
    <3>1. CASE saved # None
      <4>1. s \in Due(saved)
        BY <3>1, <2>1, <2>3, <1>2 DEF Due, ResumeSlot, TypeOK, Slots, None, Unset
      <4> QED BY <4>1 DEF KnownLosses, Settled
    <3>2. CASE saved = None
      BY <3>2, <2>1, <2>3, <1>2 DEF ResumeSlot, Origins, Slots, Unset
    <3> QED BY <3>1, <3>2
  <2> QED BY <2>1, <2>2, <2>3, <1>5 DEF Slots
<1>13. KnownLosses'
  <2>1. CASE saved = None
    <3>1. Due(saved)' = {}
      BY <2>1, <1>2, <1>3 DEF Due, TypeOK, None, Unset
    <3> QED BY <3>1, <1>1, <1>3 DEF KnownLosses, Settled, Due
  <2>2. CASE saved # None
    BY <2>2, <1>1, <1>2, <1>3 DEF KnownLosses, Settled, Due
  <2> QED BY <2>1, <2>2
<1> QED BY <1>8, <1>9, <1>10, <1>11, <1>12, <1>13

-----------------------------------------------------------------------------
Claims == [from : 1 .. MaxSlot + 1, to : Slots \cup {0}]

(* What a step of a fetcher has to show: types and bounds of what it writes, *)
(* and that no slot it takes from the record drops out of the account.       *)
LEMMA FetcherMoves ==
    ASSUME NEW f \in Fetchers, NEW pc \in FetchPcs, NEW r \in Claims,
           PipelineInv, FetcherFrame, fpc[f] # "done",
           fpc' = [fpc EXCEPT ![f] = pc], range' = [range EXCEPT ![f] = r],
           pc \in {"idle", "claim", "done"} \/ r.to <= cover,
           pc \in Holding => r.from <= r.to,
           recovered' \in Seq(Slots), \A i \in 1 .. Len(recovered') : recovered'[i] <= cover,
           claimable' \subseteq outstanding', missing' \subseteq outstanding',
           outstanding' \subseteq Slots,
           \A s \in outstanding' : s <= cover,
           span' \in Nat \ {0},
           absent \subseteq absent', absent' \subseteq Slots,
           escaped \subseteq escaped', escaped' \subseteq Slots,
           forgotten \subseteq forgotten', forgotten' \subseteq Slots,
           \A s \in Blocks : s \in missing \/ (fpc[f] = "release" /\ s \in Span(f))
              => \/ s \in committed \cup absent' \cup escaped' \cup forgotten' \cup missing'
                 \/ pc = "release" /\ s \in r.from .. r.to
    PROVE  PipelineInv'
<1> USE DEF PipelineInv, FetcherFrame, rxVars, liveVars, procVars, diskVars
<1>1. TypeOK'
  <2>1. fpc' \in [Fetchers -> FetchPcs] /\ range' \in [Fetchers -> Claims]
    BY DEF TypeOK, Claims
  <2> QED BY <2>1 DEF TypeOK, Claims
<1>2. Bounded'
  <2>1. ASSUME NEW g \in Fetchers
        PROVE  /\ fpc'[g] \in {"idle", "claim", "done"} \/ range'[g].to <= cover
               /\ fpc'[g] \in Holding => range'[g].from <= range'[g].to
    BY DEF TypeOK, Bounded, Claims
  <2> QED BY <2>1 DEF Bounded
<1>3. Origins'
  BY DEF Origins
<1>4. AtRest'
  <2>1. phase # "down"
    BY DEF AtRest
  <2> QED BY <2>1 DEF AtRest
<1>5. Accounted'
  <2> SUFFICES ASSUME NEW s \in Due(cover)
               PROVE  s \in committed \cup absent' \cup escaped' \cup forgotten'
                            \cup missing' \cup Returning'
                      \/ s = entry
    BY DEF Accounted, Due
  <2>1. s \in Blocks /\ s \in Slots
    BY PipelineAssumption DEF Due, Slots
  <2>2. (pc = "release" /\ s \in r.from .. r.to) => s \in Returning'
    BY <2>1 DEF Returning, Span, TypeOK
  <2>3. CASE s \in missing \/ (fpc[f] = "release" /\ s \in Span(f))
    BY <2>1, <2>2, <2>3
  <2>4. CASE \E g \in Fetchers \ {f} : fpc[g] = "release" /\ s \in Span(g)
    <3>1. PICK g \in Fetchers \ {f} : fpc[g] = "release" /\ s \in Span(g)
      BY <2>4
    <3>2. fpc'[g] = "release" /\ range'[g] = range[g]
      BY <3>1 DEF TypeOK
    <3> QED BY <2>1, <3>1, <3>2 DEF Returning, Span
  <2>5. CASE s \in committed \cup absent \cup escaped \cup forgotten \/ s = entry
    BY <2>5
  <2> QED BY <2>3, <2>4, <2>5 DEF Accounted, Returning
<1>6. KnownLosses'
  BY DEF KnownLosses, Settled, Due
<1> QED BY <1>1, <1>2, <1>3, <1>4, <1>5, <1>6

(* Moving the start of a claim. *)
LEMMA ClaimFrom ==
    ASSUME NEW f \in Fetchers, range \in [Fetchers -> Claims], NEW from \in 1 .. MaxSlot + 1
    PROVE  /\ [from |-> from, to |-> range[f].to] \in Claims
           /\ [range EXCEPT ![f].from = from]
                = [range EXCEPT ![f] = [from |-> from, to |-> range[f].to]]
<1>1. range[f] \in Claims
  OBVIOUS
<1>2. [range[f] EXCEPT !.from = from] = [from |-> from, to |-> range[f].to]
  BY <1>1 DEF Claims
<1>3. [range EXCEPT ![f].from = from] = [range EXCEPT ![f] = [range[f] EXCEPT !.from = from]]
  OBVIOUS
<1> QED BY <1>1, <1>2, <1>3 DEF Claims

(* The fetchers. *)
LEMMA FetchKeeps ==
    ASSUME NEW f \in Fetchers, PipelineInv, Fetch(f)
    PROVE  PipelineInv'
<1> USE PipelineAssumption DEF PipelineInv, gapVars, Goto, Holding
<1>1. /\ fpc \in [Fetchers -> FetchPcs] /\ range \in [Fetchers -> Claims] /\ range[f] \in Claims
      /\ recovered \in Seq(Slots) /\ \A i \in 1 .. Len(recovered) : recovered[i] <= cover
      /\ claimable \subseteq outstanding /\ missing \subseteq outstanding
      /\ outstanding \subseteq Slots
      /\ \A s \in outstanding : s <= cover
      /\ span \in Nat \ {0} /\ absent \subseteq Slots /\ escaped \subseteq Slots
      /\ forgotten \subseteq Slots /\ cover \in Int
  BY DEF TypeOK, Bounded, Claims, None
<1>2. NoRange \in Claims
  BY DEF NoRange, Claims
<1>3. fpc[f] \in {"idle", "claim", "done"} \/ range[f].to <= cover
  BY DEF Bounded
<1>4. range = [range EXCEPT ![f] = range[f]] /\ fpc = [fpc EXCEPT ![f] = fpc[f]]
  BY <1>1
<1>5. Span(f) \subseteq Slots
  BY <1>1 DEF Span, Claims, Slots
<1>6. FetchPcs = {"idle", "claim", "query", "work", "fetch", "publish", "release", "done"}
  BY DEF FetchPcs
<1>7. CASE Poll(f) \/ FetcherDone(f) \/ ClaimNothing(f)
  BY <1>7, <1>1, <1>4, <1>6, FetcherMoves DEF Poll, FetcherDone, ClaimNothing
<1>8. ASSUME Claim(f)
      PROVE  PipelineInv'
  <2> DEFINE from == Lowest(claimable)
  <2>1. claimable \subseteq Nat /\ claimable # {}
    BY <1>8, <1>1 DEF Claim, Slots
  <2>2. from \in claimable /\ \A s \in claimable : from <= s
    BY <2>1, LowestIsIn
  <2> HIDE DEF from
  <2>3. PICK to \in claimable :
           /\ claimable' = claimable \ (from .. to)
           /\ range' = [range EXCEPT ![f] = [from |-> from, to |-> to]]
    BY <1>8 DEF Claim, from
  <2>4. [from |-> from, to |-> to] \in Claims /\ from <= to /\ to <= cover
    BY <1>1, <2>2 DEF Claims, Slots
  <2> QED BY <1>8, <1>1, <1>6, <2>3, <2>4, FetcherMoves DEF Claim
<1>9. ASSUME EndRelease(f)
      PROVE  PipelineInv'
  <2>2. \A s \in Span(f) : s \in Slots /\ s <= cover
    BY <1>9, <1>1, <1>3, <1>5 DEF EndRelease, Span, Claims, Slots
  <2>3. \A s \in Hull(outstanding \cup Span(f)) : s \in Slots /\ s <= cover
    BY <1>1, <2>2, HullBelow
  <2>4. /\ missing \subseteq missing' /\ missing' \subseteq outstanding'
        /\ claimable' \subseteq outstanding'
        /\ outstanding' \subseteq Hull(outstanding \cup Span(f))
        /\ forgotten \subseteq forgotten' /\ forgotten' \subseteq Slots
        /\ \A s \in Blocks \cap Span(f) : s \in committed \cup missing' \cup forgotten'
    BY <1>9, <1>5, RecordKeeps DEF EndRelease
  <2> QED BY <1>9, <1>1, <1>2, <1>6, <2>3, <2>4, FetcherMoves DEF EndRelease
<1>23. ASSUME NEW old, Drop(old)
       PROVE  /\ claimable' \subseteq outstanding' /\ missing' \subseteq outstanding'
              /\ outstanding' \subseteq Slots /\ \A s \in outstanding' : s <= cover
              /\ forgotten \subseteq forgotten' /\ forgotten' \subseteq Slots
              /\ \A s \in Blocks \cap missing :
                    s \in old \/ s \in committed \cup missing' \cup forgotten'
  BY <1>23, <1>1, DropKeeps
<1>10. ASSUME BeginRelease(f), span' \in Nat \ {0}, fpc[f] \in {"query", "fetch", "publish"}
       PROVE  PipelineInv'
  <2>1. range' = [range EXCEPT ![f] = range[f]] /\ range[f].from <= range[f].to
    BY <1>10, <1>4 DEF BeginRelease, Bounded
  <2>2. Drop(Span(f)) /\ UNCHANGED <<recovered, absent, escaped>> /\ FetcherFrame
        /\ fpc' = [fpc EXCEPT ![f] = "release"]
    BY <1>10 DEF BeginRelease
  <2>3. \A s \in Span(f) : s \in range[f].from .. range[f].to
    BY DEF Span
  <2> QED BY <1>10, <1>1, <1>3, <1>6, <1>23, <2>1, <2>2, <2>3, FetcherMoves
<1>11. CASE GetBlocks(f)
  BY <1>11, <1>1, <1>3, <1>4, <1>6, FetcherMoves DEF GetBlocks
<1>12. ASSUME GetBlocksGone(f)
       PROVE  PipelineInv'
  <2>1. Drop(Span(f)) /\ absent' = absent \cup Span(f) /\ fpc[f] = "query"
    BY <1>12 DEF GetBlocksGone
  <2> QED BY <1>12, <1>1, <1>2, <1>5, <1>6, <1>23, <2>1, FetcherMoves DEF GetBlocksGone
<1>13. CASE GetBlocksFails(f)
  <2>1. span' \in Nat \ {0}
    BY <1>13, <1>1 DEF GetBlocksFails, Narrowed, Width, Claims, Slots
  <2> QED BY <1>13, <1>10, <2>1 DEF GetBlocksFails
<1>14. ASSUME WorkStopped(f)
       PROVE  PipelineInv'
  <2>1. escaped' \subseteq Slots /\ escaped \subseteq escaped'
    BY <1>14, <1>1 DEF WorkStopped, Listed, Slots
  <2>2. Drop(Span(f)) /\ fpc[f] = "work"
    BY <1>14 DEF WorkStopped
  <2>3. \A s \in Blocks : s \in missing =>
                              s \in committed \cup escaped' \cup forgotten' \cup missing'
    BY <1>14, <1>23, <2>2 DEF WorkStopped, Listed
  <2> QED BY <1>14, <1>1, <1>2, <1>6, <1>23, <2>1, <2>2, <2>3, FetcherMoves DEF WorkStopped
<1>15. ASSUME WorkEnd(f)
       PROVE  PipelineInv'
  <2>1. \A s \in Blocks : s \notin Span(f)
    BY <1>15 DEF WorkEnd, Listed
  <2>2. Drop(Span(f)) /\ fpc[f] = "work"
    BY <1>15 DEF WorkEnd
  <2> QED BY <1>15, <1>1, <1>2, <1>6, <1>23, <2>1, <2>2, FetcherMoves DEF WorkEnd
<1>16. ASSUME WorkNext(f)
       PROVE  PipelineInv'
  <2> DEFINE l == Lowest(Listed(f))
  <2>1. Listed(f) \subseteq Nat
    BY <1>5 DEF Listed, Slots
  <2>2. l \in Listed(f) /\ \A s \in Listed(f) : l <= s
    BY <1>16, <2>1, LowestIsIn DEF WorkNext
  <2>3. /\ Drop(range[f].from .. l - 1) /\ fpc' = [fpc EXCEPT ![f] = "fetch"]
        /\ range' = [range EXCEPT ![f].from = l]
    BY <1>16 DEF WorkNext
  <2> HIDE DEF l
  <2>4. \A s \in Blocks : s \notin range[f].from .. l - 1
    BY <1>1, <1>5, <2>1, <2>2 DEF Listed, Span, Claims, Slots
  <2> DEFINE r == [from |-> l, to |-> range[f].to]
  <2>5. r \in Claims /\ range' = [range EXCEPT ![f] = r]
    <3>1. l \in 1 .. MaxSlot + 1
      BY <1>5, <2>2 DEF Listed, Slots
    <3> QED BY <3>1, <1>1, <2>3, ClaimFrom
  <2>6. fpc[f] = "work" /\ r.to <= cover
    BY <1>16, <1>3 DEF WorkNext
  <2>7. r.from <= r.to
    BY <1>1, <2>2 DEF Listed, Span, Claims, Slots
  <2>8. /\ claimable' \subseteq outstanding' /\ missing' \subseteq outstanding'
        /\ outstanding' \subseteq Slots /\ \A s \in outstanding' : s <= cover
        /\ forgotten \subseteq forgotten' /\ forgotten' \subseteq Slots
        /\ \A s \in Blocks \cap missing : s \in committed \cup missing' \cup forgotten'
    BY <1>23, <2>3, <2>4
  <2>9. UNCHANGED <<recovered, span, absent, escaped>> /\ FetcherFrame
    BY <1>16 DEF WorkNext
  <2> HIDE DEF r
  <2> QED BY <1>1, <1>6, <2>3, <2>5, <2>6, <2>7, <2>8, <2>9, FetcherMoves
<1>17. ASSUME GetBlock(f)
       PROVE  PipelineInv'
  <2>1. range[f].from <= range[f].to
    BY <1>17 DEF GetBlock, Bounded
  <2> QED BY <1>17, <1>1, <1>3, <1>4, <1>6, <2>1, FetcherMoves DEF GetBlock
<1>18. ASSUME fpc[f] \in {"fetch", "publish"}, range[f].from \in Slots
       PROVE  /\ [from |-> range[f].from + 1, to |-> range[f].to] \in Claims
              /\ [range EXCEPT ![f].from = @ + 1]
                    = [range EXCEPT ![f] = [from |-> range[f].from + 1, to |-> range[f].to]]
  <2>1. range[f].from + 1 \in 1 .. MaxSlot + 1
    BY <1>18 DEF Slots
  <2> QED BY <2>1, <1>1, ClaimFrom
<1>19. ASSUME GetBlockGone(f)
       PROVE  PipelineInv'
  <2>1. range[f].from \in Slots /\ fpc[f] = "fetch"
    BY <1>19, <1>1 DEF GetBlockGone, Bounded, Claims, Slots
  <2> DEFINE r == [from |-> range[f].from + 1, to |-> range[f].to]
  <2>2. r \in Claims /\ range' = [range EXCEPT ![f] = r]
    BY <1>18, <1>19, <2>1 DEF GetBlockGone
  <2>3. r.to <= cover
    BY <1>3, <2>1
  <2> HIDE DEF r
  <2>4. /\ UNCHANGED <<recovered, span, escaped>> /\ FetcherFrame
        /\ fpc' = [fpc EXCEPT ![f] = "work"]
        /\ absent' = absent \cup {range[f].from}
        /\ Drop({range[f].from})
    BY <1>19 DEF GetBlockGone
  <2>5. absent' \subseteq Slots
    BY <1>1, <2>1, <2>4
  <2> QED BY <1>1, <1>6, <1>23, <2>1, <2>2, <2>3, <2>4, <2>5, FetcherMoves
<1>20. CASE GetBlockFails(f)
  BY <1>20, <1>10, <1>1 DEF GetBlockFails
<1>21. ASSUME PublishRecovered(f)
       PROVE  PipelineInv'
  <2>1. range[f].from <= range[f].to /\ range[f].to <= cover /\ fpc[f] = "publish"
    BY <1>21, <1>3 DEF PublishRecovered, Bounded
  <2>2. range[f].from \in Slots /\ range[f].from <= cover
    BY <2>1, <1>1 DEF Claims, Slots
  <2> DEFINE r == [from |-> range[f].from + 1, to |-> range[f].to]
  <2>3. r \in Claims /\ range' = [range EXCEPT ![f] = r] /\ r.to <= cover
    BY <1>18, <1>21, <2>1, <2>2 DEF PublishRecovered
  <2>4. recovered' = Append(recovered, range[f].from)
    BY <1>21 DEF PublishRecovered
  <2>5. recovered' \in Seq(Slots) /\ \A i \in 1 .. Len(recovered') : recovered'[i] <= cover
    BY <2>2, <2>4, <1>1
  <2> HIDE DEF r
  <2> QED BY <1>21, <1>1, <1>6, <2>1, <2>3, <2>5, FetcherMoves DEF PublishRecovered
<1>22. CASE PublishRefused(f)
  BY <1>22, <1>10, <1>1 DEF PublishRefused
<1> QED BY <1>7, <1>8, <1>9, <1>11, <1>12, <1>13, <1>14, <1>15, <1>16, <1>17, <1>19, <1>20,
           <1>21, <1>22 DEF Fetch

-----------------------------------------------------------------------------
(* The account holds in every reachable state, for any chain, any number of  *)
(* fetchers and runs, and any fault.                                         *)
THEOREM PipelineInvariant == Spec => []PipelineInv
<1>1. ASSUME PipelineInv, [Next]_vars
      PROVE  PipelineInv'
  <2>1. CASE Start
    BY <1>1, <2>1, StartKeeps
  <2>2. CASE Receive
    BY <1>1, <2>2, ReceiveKeeps
  <2>3. CASE Process
    BY <1>1, <2>3, ProcessKeeps
  <2>4. CASE \E f \in Fetchers : Fetch(f)
    BY <1>1, <2>4, FetchKeeps
  <2>5. CASE Produce \/ RequestStop \/ Crash
    BY <1>1, <2>5, EnvironmentKeeps
  <2>6. CASE UNCHANGED vars
    <3> USE <1>1, <2>6 DEF PipelineInv, vars, rxVars, liveVars, recVars, gapVars, procVars,
            poolVars, histVars, diskVars
    <3>1. TypeOK'
      BY DEF TypeOK
    <3>2. AtRest'
      BY DEF AtRest
    <3> QED BY <3>1, <3>2, UntouchedKeeps
  <2> QED BY <1>1, <2>1, <2>2, <2>3, <2>4, <2>5, <2>6 DEF Next
<1> QED BY <1>1, PipelineInitially, PTL DEF Spec

(* Every variable keeps its type, the record of what is missing among them.  *)
THEOREM PipelineTypes == Spec => []TypeOK
<1>1. PipelineInv => TypeOK
  BY DEF PipelineInv
<1> QED BY <1>1, PipelineInvariant, PTL

(* pipeline.c 236-247, 348-354: neither the cursor file nor the position in   *)
(* memory ever passes a block the index owes, except in the ways that the     *)
(* history variables escaped and forgotten name, the second of them for every *)
(* place where the list of gaps can run out of memory.                        *)
THEOREM PipelineOnlyKnownLosses == Spec => []OnlyKnownLosses
<1>1. PipelineInv => OnlyKnownLosses
  BY DEF PipelineInv, KnownLosses, Settled, OnlyKnownLosses, Larger
<1> QED BY <1>1, PipelineInvariant, PTL

-----------------------------------------------------------------------------
(* THE GAP SET *)

(* What idx_gaps_release has taken out and not put back yet, by fetcher. *)
Back == [f \in Fetchers |-> IF fpc[f] = "release" THEN Span(f) ELSE {}]

(* A process that is down has nothing recorded as missing, and the fetchers  *)
(* are gone before the processing thread is joined.                          *)
Resting ==
    /\ phase = "down" => outstanding = {}
    /\ phase = "final" => \A f \in Fetchers : fpc[f] = "done"

(* idx_gaps_resolve of a range, an empty one included, is a step of GapSet.  *)
LEMMA DropIsResolve ==
    ASSUME NEW from \in Int, NEW to \in Int, from <= to => from \in Slots /\ to \in Slots,
           GS!Resolved(from .. to), Back' = Back
    PROVE  GS!Next \/ UNCHANGED <<outstanding, missing, Back>>
<1>1. CASE from <= to
  <2>1. GS!Resolve(from, to)
    BY <1>1 DEF GS!Resolve, Back
  <2> QED BY <1>1, <2>1 DEF GS!Next
<1>2. CASE ~(from <= to)
  <2>1. from .. to = {}
    BY <1>2
  <2>2. UNCHANGED <<outstanding, missing>>
    BY <2>1 DEF GS!Resolved
  <2> QED BY <2>2
<1> QED BY <1>1, <1>2

(* Dropping slots is what GapSet calls resolving them. *)
LEMMA DropIsResolved ==
    ASSUME NEW old, Drop(old), "memory" \notin Faults
    PROVE  GS!Resolved(old)
<1>1. SplitLosses(old) = {{}}
  BY DEF SplitLosses
<1> QED BY <1>1 DEF Drop, GS!Resolved

(* Recording slots, with or without the range limit, is what GapSet allows:  *)
(* no missing slot is forgotten and only space between slots is filled.      *)
LEMMA RecordIsRecorded ==
    ASSUME NEW new, TypeOK, new \subseteq Slots, Record(new), "memory" \notin Faults
    PROVE  GS!Recorded(new)
<1>1. Hull(outstanding \cup new) = GS!Hull(outstanding \cup new)
  BY DEF Hull, GS!Hull
<1> QED BY <1>1, RecordKeeps DEF GS!Recorded

(* The receive thread and the environment leave the gap set alone, but that  *)
(* an ending process forgets it (idx_pipeline_run, idx_pipeline_open).       *)
LEMMA RestingKeeps ==
    ASSUME PipelineInv, Resting, [Next]_vars
    PROVE  Resting'
<1> USE DEF Resting, vars, rxVars, liveVars, recVars, gapVars, procVars, poolVars, histVars, diskVars
<1>1. CASE Start
  BY <1>1 DEF Start
<1>2. CASE Receive
  <2>1. ASSUME NEW slot \in Slots, Deliver(slot)
        PROVE  Resting'
    BY <2>1 DEF Deliver, EndFollow
  <2>2. CASE FollowEnds \/ DrainEnds \/ CloseLive \/ StopPool \/ JoinPool
    BY <2>2 DEF FollowEnds, EndFollow, DrainEnds, CloseLive, StopPool, JoinPool
  <2>3. CASE JoinProcessor
    BY <2>3 DEF JoinProcessor, Asleep
  <2> QED BY <1>2, <2>1, <2>2, <2>3 DEF Receive
<1>3. CASE Process
  <2>1. UNCHANGED <<phase, fpc>> /\ proc # "ended"
    BY <1>3 DEF Process, TakeLive, PassLive, TakeRecovered, PassRecovered, Commit, Mark,
                HandlerFails
  <2>2. phase # "down"
    BY <2>1 DEF PipelineInv, AtRest
  <2> QED BY <2>1, <2>2
<1>4. ASSUME NEW f \in Fetchers, Fetch(f)
      PROVE  Resting'
  <2>1. phase' = phase
    BY <1>4 DEF Fetch, Poll, FetcherDone, ClaimNothing, Claim, EndRelease, GetBlocks,
                GetBlocksGone, GetBlocksFails, WorkStopped, WorkEnd, WorkNext, GetBlock,
                GetBlockGone, GetBlockFails, PublishRecovered, PublishRefused, BeginRelease,
                FetcherFrame
  <2>2. fpc[f] # "done"
    BY <1>4 DEF Fetch, Poll, FetcherDone, ClaimNothing, Claim, EndRelease, GetBlocks,
                GetBlocksGone, GetBlocksFails, WorkStopped, WorkEnd, WorkNext, GetBlock,
                GetBlockGone, GetBlockFails, PublishRecovered, PublishRefused
  <2>3. phase # "down" /\ phase # "final"
    BY <2>2 DEF PipelineInv, AtRest
  <2> QED BY <2>1, <2>3
<1>5. CASE Produce \/ RequestStop \/ Crash
  BY <1>5 DEF Produce, RequestStop, Crash, Asleep
<1>6. CASE UNCHANGED vars
  BY <1>6
<1> QED BY <1>1, <1>2, <1>3, <1>4, <1>5, <1>6 DEF Next

(* What a fetcher has out is known from where it is and from its claim. *)
LEMMA BackMoves ==
    ASSUME NEW f \in Fetchers, NEW pc, NEW r,
           fpc' = [fpc EXCEPT ![f] = pc], range' = [range EXCEPT ![f] = r], TypeOK
    PROVE  Back' = [Back EXCEPT ![f] = IF pc = "release" THEN r.from .. r.to ELSE {}]
BY DEF Back, Span, TypeOK

(* Every step of a fetcher (work_range, publish_block, run_worker) is a      *)
(* resolve, a half of a release, or nothing to the gap set.                  *)
LEMMA FetchUsesGapSet ==
    ASSUME PipelineInv, NEW f \in Fetchers, Fetch(f), "memory" \notin Faults
    PROVE  GS!Next \/ UNCHANGED <<outstanding, missing, Back>>
<1> DEFINE Goal == GS!Next \/ UNCHANGED <<outstanding, missing, Back>>
<1>1. TypeOK
  BY DEF PipelineInv
<1>2. range[f] \in Claims /\ range[f].from \in Int /\ range[f].to \in Int
  BY <1>1, PipelineAssumption DEF TypeOK, Claims, Slots
<1>3. range[f].from <= range[f].to => range[f].from \in Slots /\ range[f].to \in Slots
  BY <1>1, PipelineAssumption DEF TypeOK, Slots
<1>4. Back \in [Fetchers -> SUBSET Int] /\ (fpc[f] # "release" => Back[f] = {})
  BY DEF Back, Span
<1>5. ASSUME NEW pc, pc # "release", fpc[f] # "release", Goto(f, pc),
             \E r : range' = [range EXCEPT ![f] = r]
      PROVE  Back' = Back
  <2>1. PICK r : range' = [range EXCEPT ![f] = r]
    BY <1>5
  <2>2. Back' = [Back EXCEPT ![f] = {}]
    <3>1. Back' = [Back EXCEPT ![f] = IF pc = "release" THEN r.from .. r.to ELSE {}]
      BY <1>1, <1>5, <2>1, BackMoves DEF Goto
    <3> QED BY <3>1, <1>5
  <2> QED BY <2>2, <1>4, <1>5
<1>6. ASSUME UNCHANGED range
      PROVE  \E r : range' = [range EXCEPT ![f] = r]
  <2>1. range = [range EXCEPT ![f] = range[f]]
    BY <1>1 DEF TypeOK
  <2> QED BY <1>6, <2>1
<1>7. ASSUME NEW from, range' = [range EXCEPT ![f].from = from]
      PROVE  \E r : range' = [range EXCEPT ![f] = r]
  BY <1>7
<1>8. CASE Poll(f) \/ FetcherDone(f) \/ ClaimNothing(f) \/ GetBlocks(f) \/ GetBlock(f)
  <2>1. UNCHANGED <<range, outstanding, missing>> /\ fpc[f] # "release"
    BY <1>8 DEF Poll, FetcherDone, ClaimNothing, GetBlocks, GetBlock, gapVars
  <2>2. Goto(f, "claim") \/ Goto(f, "done") \/ Goto(f, "idle") \/ Goto(f, "work")
        \/ Goto(f, "publish")
    BY <1>8 DEF Poll, FetcherDone, ClaimNothing, GetBlocks, GetBlock
  <2>3. Back' = Back
    BY <2>1, <2>2, <1>5, <1>6
  <2> QED BY <2>1, <2>3
<1>9. CASE Claim(f)
  <2>1. Goto(f, "query") /\ UNCHANGED <<outstanding, missing>> /\ fpc[f] # "release"
        /\ \E r : range' = [range EXCEPT ![f] = r]
    BY <1>9 DEF Claim
  <2>2. Back' = Back
    BY <2>1, <1>5
  <2> QED BY <2>1, <2>2
<1>10. CASE GetBlocksGone(f) \/ WorkStopped(f) \/ WorkEnd(f)
  <2>1. /\ Goto(f, "idle") /\ fpc[f] # "release" /\ range' = [range EXCEPT ![f] = NoRange]
        /\ GS!Resolved(range[f].from .. range[f].to)
    BY <1>10, DropIsResolved DEF GetBlocksGone, WorkStopped, WorkEnd, Span
  <2>2. Back' = Back
    BY <2>1, <1>5
  <2> QED BY <2>1, <2>2, <1>2, <1>3, DropIsResolve
<1>11. CASE WorkNext(f)
  <2> DEFINE l == Lowest(Listed(f))
  <2>1. /\ Goto(f, "fetch") /\ fpc[f] # "release" /\ range' = [range EXCEPT ![f].from = l]
        /\ GS!Resolved(range[f].from .. l - 1)
    BY <1>11, DropIsResolved DEF WorkNext
  <2>2. Listed(f) \subseteq Nat /\ Listed(f) # {} /\ Listed(f) \subseteq Span(f)
    BY <1>11, PipelineAssumption DEF WorkNext, Listed, Slots
  <2>3. l \in Int /\ range[f].from <= l /\ l <= range[f].to
    BY <2>2, <1>2, LowestIsIn DEF Span
  <2>4. Back' = Back
    BY <2>1, <1>5, <1>7
  <2> HIDE DEF l
  <2>5. range[f].from <= l - 1 => range[f].from \in Slots /\ l - 1 \in Slots
    BY <2>3, <1>2, <1>3, PipelineAssumption DEF Slots
  <2>6. l - 1 \in Int
    BY <2>3
  <2> QED BY <2>1, <2>4, <2>5, <2>6, <1>2, DropIsResolve
<1>12. CASE GetBlockGone(f)
  <2>1. /\ Goto(f, "work") /\ fpc[f] # "release"
        /\ range' = [range EXCEPT ![f].from = @ + 1]
        /\ GS!Resolved({range[f].from})
    BY <1>12, DropIsResolved DEF GetBlockGone
  <2>2. GS!Resolved(range[f].from .. range[f].from)
    <3>1. range[f].from .. range[f].from = {range[f].from}
      BY <1>2
    <3> QED BY <3>1, <2>1 DEF GS!Resolved
  <2>3. Back' = Back
    BY <2>1, <1>5, <1>7
  <2>4. range[f].from \in Slots
    BY <1>12, <1>3 DEF GetBlockGone, PipelineInv, Bounded, Holding
  <2> QED BY <2>1, <2>2, <2>3, <2>4, <1>2, DropIsResolve
<1>13. CASE PublishRecovered(f)
  <2>1. /\ Goto(f, "work") /\ fpc[f] # "release" /\ UNCHANGED <<outstanding, missing>>
        /\ range' = [range EXCEPT ![f].from = @ + 1]
    BY <1>13 DEF PublishRecovered, gapVars
  <2>2. Back' = Back
    BY <2>1, <1>5, <1>7
  <2> QED BY <2>1, <2>2
<1>14. CASE GetBlocksFails(f) \/ GetBlockFails(f) \/ PublishRefused(f)
  <2>1. /\ fpc' = [fpc EXCEPT ![f] = "release"] /\ fpc[f] \in Holding \ {"release"}
        /\ range' = range /\ GS!Resolved(range[f].from .. range[f].to)
    BY <1>14, DropIsResolved
       DEF GetBlocksFails, GetBlockFails, PublishRefused, BeginRelease, Span, Goto, Holding
  <2>2. Back' = [Back EXCEPT ![f] = range[f].from .. range[f].to]
    BY <2>1, <1>1 DEF Back, Span, TypeOK
  <2>3. PICK from \in Slots, to \in Slots : from = range[f].from /\ to = range[f].to
    BY <2>1, <1>3 DEF PipelineInv, Bounded
  <2>4. GS!BeginRelease(f, from, to)
    BY <2>1, <2>2, <2>3, <1>4 DEF GS!BeginRelease, Back
  <2> QED BY <2>4 DEF GS!Next
<1>15. CASE EndRelease(f)
  <2>1. /\ fpc' = [fpc EXCEPT ![f] = "idle"] /\ fpc[f] = "release"
        /\ range' = [range EXCEPT ![f] = NoRange] /\ Record(range[f].from .. range[f].to)
    BY <1>15 DEF EndRelease, Goto, Span
  <2>2. Back' = [Back EXCEPT ![f] = {}] /\ Back[f] = range[f].from .. range[f].to
    <3>1. Back' = [Back EXCEPT ![f] = IF "idle" = "release" THEN NoRange.from .. NoRange.to ELSE {}]
      BY <2>1, <1>1, BackMoves
    <3>2. Back[f] = range[f].from .. range[f].to
      BY <2>1 DEF Back, Span
    <3> QED BY <3>1, <3>2
  <2>3. range[f].from <= range[f].to
    BY <2>1 DEF PipelineInv, Bounded, Holding
  <2>4. Back[f] # {} /\ Back[f] \subseteq Slots
    BY <2>2, <2>3, <1>2, <1>3, PipelineAssumption DEF Slots
  <2>5. GS!Recorded(Back[f])
    BY <2>4, <2>1, <2>2, <1>1, RecordIsRecorded
  <2>6. GS!EndRelease(f)
    BY <2>4, <2>5, <2>2 DEF GS!EndRelease, Back
  <2> QED BY <2>6 DEF GS!Next
<1> QED BY <1>8, <1>9, <1>10, <1>11, <1>12, <1>13, <1>14, <1>15 DEF Fetch

(* The same for the other threads: only an observed hole, a committed slot,  *)
(* the first backfill and the end of a run change what is missing.           *)
LEMMA NextUsesGapSet ==
    ASSUME PipelineInv, Resting, "crash" \notin Faults, "memory" \notin Faults, [Next]_vars
    PROVE  GS!Next \/ UNCHANGED <<outstanding, missing, Back>>
<1> USE DEF vars, rxVars, liveVars, recVars, gapVars, procVars, poolVars, histVars, diskVars
<1>1. TypeOK
  BY DEF PipelineInv
<1>2. ASSUME UNCHANGED <<fpc, range>>
      PROVE  Back' = Back
  BY <1>2 DEF Back, Span
<1>3. ASSUME \A f \in Fetchers : fpc[f] # "release" /\ fpc'[f] # "release"
      PROVE  Back' = Back
  BY <1>3 DEF Back
<1>4. CASE Start
  <2>1. /\ outstanding = {} /\ missing = {} /\ Back' = Back
        /\ missing' = outstanding'
    <3>1. phase = "down" /\ fpc = [f \in Fetchers |-> "done"] /\ fpc' = [f \in Fetchers |-> "idle"]
      BY <1>4 DEF Start, PipelineInv, AtRest
    <3>2. Back' = Back
      BY <3>1, <1>3
    <3> QED BY <1>1, <1>4, <3>1, <3>2 DEF Resting, TypeOK, Start
  <2>2. CASE outstanding' = {}
    BY <2>1, <2>2
  <2>3. CASE NeedsBackfill /\ outstanding' = ResumeSlot .. BackfillEnd
    <3> DEFINE a == ResumeSlot
               b == BackfillEnd
    <3>1. a \in Slots /\ b \in Int /\ b < MaxSlot
      BY <2>3, <1>1, PipelineAssumption
         DEF NeedsBackfill, ResumeSlot, BackfillEnd, TypeOK, Slots, None
    <3> HIDE DEF a, b
    <3>2. CASE a <= b
      <4>1. b \in Slots
        BY <3>1, <3>2, PipelineAssumption DEF Slots
      <4>2. a .. b \subseteq Slots /\ outstanding' = a .. b
        BY <2>3, <3>1, PipelineAssumption DEF a, b, Slots
      <4>3. a .. b \subseteq GS!Hull(outstanding \cup (a .. b))
        BY <4>2, PipelineAssumption DEF GS!Hull, Slots
      <4>4. GS!Add(a, b)
        BY <2>1, <4>2, <4>3 DEF GS!Add, GS!Recorded, Back
      <4> QED BY <3>1, <4>1, <4>4 DEF GS!Next
    <3>3. CASE ~(a <= b)
      <4>1. a .. b = {}
        BY <3>3, <3>1 DEF Slots
      <4>2. outstanding' = a .. b
        BY <2>3 DEF a, b
      <4> QED BY <2>1, <4>1, <4>2
    <3> QED BY <3>2, <3>3
  <2> QED BY <1>4, <2>2, <2>3 DEF Start
<1>5. CASE JoinProcessor
  <2>1. outstanding' = {} /\ missing' = {}
    BY <1>5 DEF JoinProcessor, Asleep
  <2>2. Back' = Back
    <3>1. /\ \A f \in Fetchers : fpc[f] = "done"
          /\ fpc' = [f \in Fetchers |-> "done"]
      BY <1>5 DEF JoinProcessor, Asleep, Resting
    <3> QED BY <3>1, <1>3
  <2>3. GS!Resolved(1 .. MaxSlot)
    BY <2>1, <1>1 DEF TypeOK, Slots, GS!Resolved
  <2> QED BY <2>2, <2>3, PipelineAssumption, DropIsResolve DEF Slots
<1>6. CASE TakeLive
  <2> DEFINE slot == Head(live)
  <2>1. slot \in Slots /\ Back' = Back
    BY <1>6, <1>1, <1>2 DEF TakeLive, TypeOK
  <2>2. CASE UNCHANGED gapVars
    BY <2>1, <2>2
  <2>3. CASE last_seen # None /\ slot > last_seen + 1 /\ Record(last_seen + 1 .. slot - 1)
    <3> HIDE DEF slot
    <3>1. last_seen + 1 \in Slots /\ slot - 1 \in Slots
      BY <2>1, <2>3, <1>1, PipelineAssumption DEF TypeOK, Slots, None
    <3>2. last_seen + 1 .. slot - 1 \subseteq Slots
      BY <3>1, PipelineAssumption DEF Slots
    <3>3. GS!Recorded(last_seen + 1 .. slot - 1)
      BY <2>3, <3>2, <1>1, RecordIsRecorded
    <3>4. GS!Add(last_seen + 1, slot - 1)
      BY <2>1, <3>3 DEF GS!Add, Back
    <3> QED BY <3>1, <3>4 DEF GS!Next
  <2> QED BY <1>6, <2>2, <2>3 DEF TakeLive, ObserveLive
<1>7. CASE Commit
  <2>1. entry \in Slots /\ GS!Resolved({entry}) /\ Back' = Back
    BY <1>7, <1>2, DropIsResolved DEF Commit, PipelineInv, AtRest
  <2>2. entry \in Int /\ GS!Resolved(entry .. entry)
    <3>1. entry .. entry = {entry} /\ entry \in Int
      BY <2>1 DEF Slots
    <3> QED BY <3>1, <2>1 DEF GS!Resolved
  <2> QED BY <2>1, <2>2, DropIsResolve
<1>8. ASSUME NEW slot \in Slots, Deliver(slot)
      PROVE  UNCHANGED <<outstanding, missing, Back>>
  BY <1>8, <1>2 DEF Deliver
<1>9. CASE FollowEnds \/ DrainEnds \/ CloseLive \/ StopPool \/ JoinPool
  BY <1>9, <1>2 DEF FollowEnds, DrainEnds, CloseLive, StopPool, JoinPool
<1>10. CASE PassLive \/ TakeRecovered \/ PassRecovered \/ Mark \/ HandlerFails
  BY <1>10, <1>2 DEF PassLive, TakeRecovered, PassRecovered, Mark, HandlerFails
<1>11. CASE Produce \/ RequestStop \/ UNCHANGED vars
  BY <1>11, <1>2 DEF Produce, RequestStop
<1>12. CASE \E f \in Fetchers : Fetch(f)
  BY <1>12, FetchUsesGapSet
<1>13. ~Crash
  BY DEF Crash
<1> QED BY <1>4, <1>5, <1>6, <1>7, <1>8, <1>9, <1>10, <1>11, <1>12, <1>13
        DEF Next, Receive, Process

(* pipeline.c 36-41: as long as the process does not die, which takes the gap *)
(* set with it, and memory suffices for the list, any number of fetchers, the *)
(* processing thread and the start and end of a run change the set only as    *)
(* gaps.h describes.  With the list of gaps.c shown to implement GapSet, what *)
(* OnlyKnownLosses needs of it is what it does.                               *)
THEOREM PipelineUsesGapSet == Faults \cap {"crash", "memory"} = {} => (Spec => UsesGapSet)
<1> SUFFICES ASSUME "crash" \notin Faults, "memory" \notin Faults
             PROVE  Spec => UsesGapSet
  OBVIOUS
<1>1. Init => Resting
  BY DEF Init, Resting
<1>2. Init => GS!Init
  <2> SUFFICES ASSUME Init PROVE GS!Init
    OBVIOUS
  <2>1. Back = [f \in Fetchers |-> {}]
    BY DEF Init, Back
  <2> QED BY <2>1 DEF Init, GS!Init, Back
<1>3. PipelineInv /\ Resting /\ [Next]_vars => Resting'
  BY RestingKeeps
<1>4. PipelineInv /\ Resting /\ [Next]_vars => [GS!Next]_(GS!gapSetVars)
  <2> SUFFICES ASSUME PipelineInv, Resting, [Next]_vars
               PROVE  [GS!Next]_(GS!gapSetVars)
    OBVIOUS
  <2>1. GS!Next \/ UNCHANGED <<outstanding, missing, Back>>
    BY NextUsesGapSet
  <2> QED BY <2>1 DEF GS!gapSetVars, Back
<1> QED BY <1>1, <1>2, <1>3, <1>4, PipelineInvariant, PTL DEF Spec, UsesGapSet, GS!Spec
=============================================================================
