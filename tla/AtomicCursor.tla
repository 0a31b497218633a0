---------------------------- MODULE AtomicCursor ----------------------------
(***************************************************************************)
(* What the pipeline relies on when it saves its position                  *)
(* (src/include/slot_cursor.h): a position in memory, a durable one, a     *)
(* save that replaces the durable one in a single step, and a restart that *)
(* finds it.  Pipeline.tla uses the cursor file in exactly this way.       *)
(*                                                                         *)
(* A power failure may bring back a position that was durable before: the  *)
(* directory is not flushed after the rename.  Such a position is no less  *)
(* trustworthy than it was when it was saved, because stored blocks stay   *)
(* stored.                                                                 *)
(***************************************************************************)
CONSTANTS Slots, None

VARIABLES position, durable,
          earlier       \* what a power failure may leave as the durable one

Init == /\ position = None
        /\ durable = None
        /\ earlier = {None}

\* idx_slot_cursor_set_indexed: upwards or downwards.
Move == /\ position' \in Slots
        /\ UNCHANGED <<durable, earlier>>

Save == /\ durable' = position
        /\ earlier' = earlier \cup {position}
        /\ UNCHANGED position

\* The file system has caught up.
Settle == /\ earlier' = {durable}
          /\ UNCHANGED <<position, durable>>

PowerLoss == /\ durable' \in earlier
             /\ earlier' = {durable'}
             /\ UNCHANGED position

Restart == /\ position' = durable
           /\ UNCHANGED <<durable, earlier>>

Next == Move \/ Save \/ Settle \/ PowerLoss \/ Restart

Spec == Init /\ [][Next]_<<position, durable, earlier>>
=============================================================================
