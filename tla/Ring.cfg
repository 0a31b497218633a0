\* Two producers; the ring drops its oldest entry or makes them wait.
CONSTANTS
    p1 = p1  p2 = p2
    d1 = d1  d2 = d2  d3 = d3  d4 = d4  d5 = d5
    Producers = {p1, p2}
    Docs = {d1, d2, d3, d4, d5}
    NoDoc = NoDoc
    Depth = 2
SPECIFICATION FairSpec
INVARIANTS EntriesSound DropsVisible OneOwner NoLostWakeup NothingAfterClosed
PROPERTIES PublishReturns
\* A ring that was freed stays freed, and documents run out.
CHECK_DEADLOCK FALSE
