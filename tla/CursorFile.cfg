\* Saves, failing calls, crashes and power failures in any order.
CONSTANTS
    Slots <- MCSlots
    None = None
    Absent = Absent
    Blank = Blank
    Broken = Broken
SPECIFICATION Spec
INVARIANTS NothingTorn
PROPERTIES ImplementsAtomicCursor
