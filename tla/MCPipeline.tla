----------------------------- MODULE MCPipeline -----------------------------
(***************************************************************************)
(* TLC instances of Pipeline.                                              *)
(***************************************************************************)
EXTENDS Pipeline

(* No step looks at the history of what was given up, and OnlyKnownLosses    *)
(* not at the way it went nor at what was stored after all: states that only *)
(* differ there need to be gone on from once.                                *)
GivenUp == (absent \cup escaped \cup forgotten) \ committed

View == <<tip, runs, diskVars, floor, phase, delivered, stop, liveVars, recVars,
          outstanding, missing, claimable, procVars, poolVars, origin, cover, GivenUp>>
=============================================================================
