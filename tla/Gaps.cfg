\* Slots 0 .. 4 and two ranges: enough for the range limit to join entries that a
\* split has left out of order, with claims cut at every width up to the whole range.
CONSTANTS
    w1 = w1  w2 = w2
    Workers = {w1, w2}
    MaxSlot = 4
    MaxRanges = 2
    MaxSpan = 4
    OutOfMemory = FALSE
    None = None
SPECIFICATION Spec
SYMMETRY Symmetry
INVARIANTS WatermarkTrusted
PROPERTIES ImplementsGapSet
