----------------------------- MODULE MCPipeline -----------------------------
(***************************************************************************)
(* Small instances of Pipeline.  Evidence of a few bytes, cut into chunks  *)
(* of two; the pools are model values.                                     *)
(***************************************************************************)
EXTENDS Pipeline, TLC

\* The threads of a pool can be exchanged for one another.
PoolSymmetry ==
    Permutations(Scanners) \cup Permutations(Carvers) \cup Permutations(Stringers)

\* Where reads are not short, the instances meet what ClaimCovered assumes.
ASSUME InstanceGeometry == "short" \in ReadFaults \/ Geometry
=============================================================================
