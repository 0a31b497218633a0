----------------------------- MODULE CursorFile -----------------------------
(***************************************************************************)
(* The cursor file of src/src/slot_cursor.c: a save writes a temporary     *)
(* file, flushes it to disk and renames it over the old one, and a start   *)
(* reads it back.  The program may die at any point (the files stay as the *)
(* operating system sees them), any system call may fail, and the machine  *)
(* may lose power: what the disk then holds is one of the states of the    *)
(* file since the file system last wrote its metadata, and data that was   *)
(* not flushed may be cut short.                                           *)
(***************************************************************************)
EXTENDS Naturals

CONSTANTS
    Slots,      \* the positions the pipeline assigns
    None,       \* IDX_SLOT_NONE
    Absent,     \* no such file
    Blank,      \* a file without a last_indexed line
    Broken      \* a file that ends within the last_indexed line's key

ASSUME CursorFileAssumption ==
    /\ Slots \subseteq Nat
    /\ None \notin Slots /\ Absent \notin Slots
    /\ Blank \notin Slots /\ Broken \notin Slots
    /\ None \notin {Absent, Blank, Broken}
    /\ Absent \notin {Blank, Broken} /\ Blank # Broken

VARIABLES
    mem,        \* cursor->last_indexed
    pc,         \* "down", "run" or the step of idx_slot_cursor_save
    tmp,        \* the temporary file as the operating system sees it
    synced,     \* was the temporary file flushed to disk?
    file,       \* the cursor file as the operating system sees it
    onDisk,     \* what the cursor file may hold after a power failure
    saved       \* the positions handed to a save so far

vars == <<mem, pc, tmp, synced, file, onDisk, saved>>

Positions == Slots \cup {None}

Contents == Slots \cup {Absent, Blank, Broken}

(***************************************************************************)
(* Writing and reading.  A position of IDX_SLOT_NONE writes no line; a     *)
(* file that was cut short may hold no line, a line without its number or  *)
(* a number without its last digits, which reads as a lower slot.          *)
(***************************************************************************)
Format(position) == IF position = None THEN Blank ELSE position

CutShort(position) ==
    IF position = None
    THEN {Blank}
    ELSE {Blank, Broken} \cup ({position \div 10^k : k \in 1..9} \ {0})

Readable(content) == content # Broken

Parse(content) == IF content \in {Absent, Blank} THEN None ELSE content

-----------------------------------------------------------------------------
Init == /\ mem = None
        /\ pc = "down"
        /\ tmp = Absent
        /\ synced = FALSE
        /\ file = Absent
        /\ onDisk = {Absent}
        /\ saved = {None}

\* idx_slot_cursor_open: a file that cannot be read ends the program.
Open == /\ pc = "down"
        /\ Readable(file)
        /\ mem' = Parse(file)
        /\ pc' = "run"
        /\ UNCHANGED <<tmp, synced, file, onDisk, saved>>

\* idx_slot_cursor_set_indexed, from update_watermark: also downwards.
SetIndexed(slot) ==
        /\ pc = "run"
        /\ mem' = slot
        /\ UNCHANGED <<pc, tmp, synced, file, onDisk, saved>>

\* Mistake: the position is written into the file itself.
SaveOpenInPlace == /\ pc = "run"
                   /\ tmp' = Blank
                   /\ file' = Blank
                   /\ synced' = FALSE
                   /\ saved' = saved \cup {mem}
                   /\ pc' = "write"
                   /\ UNCHANGED <<mem, onDisk>>

\* fopen(tmp, "w") empties a temporary file a crash left behind.
SaveOpen == /\ pc = "run"
            /\ tmp' = Blank
            /\ synced' = FALSE
            /\ saved' = saved \cup {mem}
            /\ pc' = "write"
            /\ UNCHANGED <<mem, file, onDisk>>

\* fputs, fprintf and fflush.
SaveWrite == /\ pc = "write"
             /\ tmp' = Format(mem)
             /\ pc' = "sync"
             /\ UNCHANGED <<mem, synced, file, onDisk, saved>>

\* Mistake: the rename is not preceded by an fsync.
SaveSyncSkipped == /\ pc = "sync"
                   /\ pc' = "rename"
                   /\ UNCHANGED <<mem, tmp, synced, file, onDisk, saved>>

\* fsync and fclose.
SaveSync == /\ pc = "sync"
            /\ synced' = TRUE
            /\ pc' = "rename"
            /\ UNCHANGED <<mem, tmp, file, onDisk, saved>>

\* rename: the directory is not flushed, so the old file may come back.
SaveRename ==
    /\ pc = "rename"
    /\ file' = tmp
    /\ onDisk' = onDisk \cup {tmp} \cup IF synced THEN {} ELSE CutShort(mem)
    /\ tmp' = Absent
    /\ pc' = "run"
    /\ UNCHANGED <<mem, synced, saved>>

\* Any of the calls fails: the temporary file is removed.
SaveFails == /\ pc \in {"write", "sync", "rename"}
             /\ tmp' = Absent
             /\ pc' = "run"
             /\ UNCHANGED <<mem, synced, file, onDisk, saved>>

-----------------------------------------------------------------------------
\* The file system writes back its metadata.
WriteBack == /\ onDisk # {file}
             /\ onDisk' = {file}
             /\ UNCHANGED <<mem, pc, tmp, synced, file, saved>>

\* The program dies; a temporary file stays where it is.
Crash == /\ pc # "down"
         /\ pc' = "down"
         /\ UNCHANGED <<mem, tmp, synced, file, onDisk, saved>>

\* The machine loses power.
PowerLoss == /\ \E content \in onDisk : /\ file' = content
                                        /\ onDisk' = {content}
             /\ tmp' \in {Absent, tmp}
             /\ pc' = "down"
             /\ UNCHANGED <<mem, synced, saved>>

Next == \/ Open \/ SaveOpen \/ SaveWrite \/ SaveSync \/ SaveRename \/ SaveFails
        \/ \E slot \in Slots : SetIndexed(slot)
        \/ WriteBack \/ Crash \/ PowerLoss

Spec == Init /\ [][Next]_vars

-----------------------------------------------------------------------------
TypeOK == /\ mem \in Positions
          /\ pc \in {"down", "run", "write", "sync", "rename"}
          /\ tmp \in Contents
          /\ synced \in BOOLEAN
          /\ file \in Contents
          /\ onDisk \subseteq Contents
          /\ saved \subseteq Positions

(***************************************************************************)
(* "A crash mid-write cannot corrupt the existing state"                   *)
(* (src/include/slot_cursor.h:92-95): whenever the program dies, the power *)
(* goes or a call fails, the next start can read the file and finds a      *)
(* position that was handed to idx_slot_cursor_save, never one that was    *)
(* cut short.                                                              *)
(***************************************************************************)
NothingTorn ==
    \A content \in onDisk \cup {file} :
        Readable(content) /\ Parse(content) \in saved

\* The cursor as the pipeline sees it.
Atomic == INSTANCE AtomicCursor WITH
              position <- mem,
              durable  <- Parse(file),
              earlier  <- {Parse(content) : content \in onDisk}

(***************************************************************************)
(* A save that may fail or be interrupted at each of its steps             *)
(* (slot_cursor.c:213-264) replaces the durable position in one step or    *)
(* not at all, a start finds it, and a power failure at most brings back a *)
(* position that was durable before: this is what Pipeline.tla assumes of  *)
(* SaveCursor and Crash.                                                   *)
(***************************************************************************)
ImplementsAtomicCursor == Atomic!Spec
=============================================================================
