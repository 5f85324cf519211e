----------------------------- MODULE MCSessions -----------------------------
(***************************************************************************)
(* Small instances of Sessions.  All overlaps reach at least PatLen - 1, so*)
(* that every signature can be seen by the chunk that owns it.             *)
(***************************************************************************)
EXTENDS Sessions

\* Two geometries, with and without a chunk limit, one run id or another.  A
\* limit of 3 chunks is all of the evidence in the second geometry.
MixedOptions ==
    {[size |-> g[1], overlap |-> g[2], maxBytes |-> MaxU64, maxChunks |-> n,
      run |-> r] :
        g \in {<<2, 1>>, <<3, 2>>}, n \in {2, 3, MaxU64}, r \in RunIds}

\* The options are among those the theorems about chains of runs are for.
ASSUME OptionsReadWhole == WholeReads
=============================================================================
