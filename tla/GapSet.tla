------------------------------- MODULE GapSet -------------------------------
(***************************************************************************)
(* What src/include/gaps.h promises, as sets of slots.  A slot that was    *)
(* recorded as missing stays outstanding until somebody resolves it.  The  *)
(* range limit may add slots that nobody recorded, between slots that are  *)
(* already there, and these it may also take away again.  Claims do not    *)
(* show: they change who may fetch a slot, not whether it is missing.      *)
(*                                                                         *)
(* A release takes the range out of the set and puts it back, in two       *)
(* critical sections.  Slots that are out in between are "returning".      *)
(***************************************************************************)
EXTENDS Integers

CONSTANTS Slots, Workers

VARIABLES outstanding,  \* what the set holds
          missing,      \* of that, what was recorded and not resolved since
          returning
gapSetVars == <<outstanding, missing, returning>>

Init ==
    /\ outstanding = {} /\ missing = {}
    /\ returning = [w \in Workers |-> {}]

(* A slot of S, or one between two of them. *)
Hull(S) == {s \in Slots : (\E a \in S : a <= s) /\ (\E b \in S : s <= b)}

(* The set after a range was recorded: no missing slot is forgotten, and     *)
(* coarsening only fills space between outstanding ones.                     *)
Recorded(new) ==
    /\ missing' = missing \cup new
    /\ missing' \subseteq outstanding'
    /\ outstanding' \subseteq Hull(outstanding \cup new)

Resolved(old) ==
    /\ missing' = missing \ old
    /\ outstanding' = outstanding \ old

Add(from, to) ==
    /\ UNCHANGED returning
    /\ Recorded(from .. to)

Resolve(from, to) ==
    /\ UNCHANGED returning
    /\ Resolved(from .. to)

(* The whole released range comes back, also what was resolved meanwhile.    *)
BeginRelease(w, from, to) ==
    /\ returning[w] = {}
    /\ Resolved(from .. to)
    /\ returning' = [returning EXCEPT ![w] = from .. to]

EndRelease(w) ==
    /\ returning[w] # {}
    /\ Recorded(returning[w])
    /\ returning' = [returning EXCEPT ![w] = {}]

Next ==
    \/ \E from, to \in Slots : Resolve(from, to)
    \/ \E from, to \in Slots : Add(from, to)
    \/ \E w \in Workers :
          \/ \E from, to \in Slots : BeginRelease(w, from, to)
          \/ EndRelease(w)

Spec == Init /\ [][Next]_gapSetVars
=============================================================================
