-------------------------- MODULE CursorFileProofs --------------------------
(***************************************************************************)
(* The cursor file is never torn and behaves like an atomic cursor,        *)
(* whichever calls fail, wherever the program dies and whenever the        *)
(* machine loses power.                                                    *)
(***************************************************************************)
EXTENDS CursorFile, TLAPS

(***************************************************************************)
(* What makes the two properties inductive: between the steps of a save    *)
(* the temporary file holds what the program last put there, it is flushed *)
(* before it is renamed, and the position being saved is a saved one.      *)
(***************************************************************************)
SaveInProgress ==
    /\ pc \in {"write", "sync", "rename"} => mem \in saved
    /\ pc \in {"sync", "rename"} => tmp = Format(mem)
    /\ pc = "rename" => synced

CursorInv == TypeOK /\ NothingTorn /\ SaveInProgress

\* Writing a position (slot_cursor.c:233-237) and reading it back
\* (slot_cursor.c:103-182) gives the same position.
LEMMA RoundTrip ==
    ASSUME NEW position \in Positions
    PROVE  /\ Format(position) \in Contents
           /\ Readable(Format(position))
           /\ Parse(Format(position)) = position
BY CursorFileAssumption DEF Positions, Contents, Format, Readable, Parse

\* Every reachable state satisfies the inductive invariant, power failures
\* included.
THEOREM CursorInvariant == Spec => []CursorInv
<1>1. Init => CursorInv
  BY CursorFileAssumption
  DEF Init, CursorInv, TypeOK, NothingTorn, SaveInProgress, Positions, Contents,
      Readable, Parse
<1>2. CursorInv /\ [Next]_vars => CursorInv'
  <2> SUFFICES ASSUME CursorInv, [Next]_vars
               PROVE  CursorInv'
    OBVIOUS
  <2> USE DEF CursorInv, TypeOK, NothingTorn, SaveInProgress
  <2>1. CASE Open
    <3>1. Parse(file) \in Positions
      BY <2>1 DEF Open, Positions, Contents, Readable, Parse
    <3> QED
      BY <2>1, <3>1 DEF Open
  <2>2. CASE SaveOpen
    BY <2>2, CursorFileAssumption DEF SaveOpen, Contents
  <2>3. CASE SaveWrite
    BY <2>3, RoundTrip DEF SaveWrite
  <2>4. CASE SaveSync
    BY <2>4 DEF SaveSync
  <2>5. CASE SaveRename
    <3>1. /\ synced /\ tmp = Format(mem) /\ mem \in saved /\ mem \in Positions
      BY <2>5 DEF SaveRename
    <3>2. file' = Format(mem) /\ onDisk' = onDisk \cup {Format(mem)}
      BY <2>5, <3>1 DEF SaveRename
    <3>3. Readable(Format(mem)) /\ Parse(Format(mem)) = mem
      BY <3>1, RoundTrip
    <3>4. NothingTorn'
      BY <2>5, <3>1, <3>2, <3>3 DEF SaveRename
    <3>5. TypeOK'
      BY <2>5, <3>1, <3>2, RoundTrip DEF SaveRename, Contents
    <3> QED
      BY <2>5, <3>4, <3>5 DEF SaveRename
  <2>6. CASE SaveFails
    BY <2>6 DEF SaveFails, Contents
  <2>7. ASSUME NEW slot \in Slots, SetIndexed(slot)
        PROVE  CursorInv'
    BY <2>7 DEF SetIndexed, Positions
  <2>8. CASE WriteBack
    BY <2>8 DEF WriteBack
  <2>9. CASE Crash
    BY <2>9 DEF Crash
  <2>10. CASE PowerLoss
    BY <2>10 DEF PowerLoss, Contents
  <2>11. CASE UNCHANGED vars
    BY <2>11 DEF vars
  <2> QED
    BY <2>1, <2>2, <2>3, <2>4, <2>5, <2>6, <2>7, <2>8, <2>9, <2>10, <2>11 DEF Next
<1> QED
  BY <1>1, <1>2, PTL DEF Spec

\* A crash or a power failure at any step of idx_slot_cursor_save
\* (slot_cursor.c:213-264) leaves a file the next start can read, with a
\* position that was saved.
THEOREM CursorNeverTorn == Spec => []NothingTorn
BY CursorInvariant, PTL DEF CursorInv

\* The file implements the atomic cursor that Pipeline.tla assumes, whichever
\* calls of idx_slot_cursor_save fail, wherever the program dies and whenever
\* the machine loses power (slot_cursor.c:213-264).
THEOREM CursorIsAtomic == Spec => ImplementsAtomicCursor
<1> DEFINE Earlier == {Parse(content) : content \in onDisk}
<1>1. Init => Atomic!Init
  BY DEF Init, Atomic!Init, Parse
<1>2. CursorInv /\ [Next]_vars => [Atomic!Next]_<<mem, Parse(file), Earlier>>
  <2> SUFFICES ASSUME CursorInv, [Next]_vars
               PROVE  Atomic!Next \/ UNCHANGED <<mem, Parse(file), Earlier>>
    OBVIOUS
  <2> USE DEF Atomic!Next
  <2>1. CASE Open
    BY <2>1 DEF Open, Atomic!Restart
  <2>2. CASE SaveOpen \/ SaveWrite \/ SaveSync \/ SaveFails \/ Crash
    BY <2>2 DEF SaveOpen, SaveWrite, SaveSync, SaveFails, Crash
  <2>3. CASE SaveRename
    <3>1. tmp = Format(mem) /\ synced /\ mem \in Positions
      BY <2>3 DEF SaveRename, CursorInv, SaveInProgress, TypeOK
    <3>2. Parse(tmp) = mem
      BY <3>1, RoundTrip
    <3>3. onDisk' = onDisk \cup {tmp} /\ file' = tmp /\ mem' = mem
      BY <2>3, <3>1 DEF SaveRename
    <3>4. Earlier' = Earlier \cup {mem}
      BY <3>2, <3>3
    <3> QED
      BY <3>2, <3>3, <3>4 DEF Atomic!Save
  <2>4. ASSUME NEW slot \in Slots, SetIndexed(slot)
        PROVE  Atomic!Next
    BY <2>4 DEF SetIndexed, Atomic!Move
  <2>5. CASE WriteBack
    BY <2>5 DEF WriteBack, Atomic!Settle
  <2>6. CASE PowerLoss
    <3>1. PICK content \in onDisk : file' = content /\ onDisk' = {content}
      BY <2>6 DEF PowerLoss
    <3>2. Parse(content) \in Earlier /\ Earlier' = {Parse(content)}
      BY <3>1
    <3> QED
      BY <2>6, <3>1, <3>2 DEF PowerLoss, Atomic!PowerLoss
  <2>7. CASE UNCHANGED vars
    BY <2>7 DEF vars
  <2> QED
    BY <2>1, <2>2, <2>3, <2>4, <2>5, <2>6, <2>7 DEF Next
<1> QED
  BY <1>1, <1>2, CursorInvariant, PTL DEF Spec, Atomic!Spec, ImplementsAtomicCursor
=============================================================================
