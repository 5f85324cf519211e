----------------------------- MODULE ChunkLoop ------------------------------
(***************************************************************************)
(* build_chunks as the loop it is, to check the closed forms of Chunking   *)
(* against, and what the rest of the system expects of the geometry, for   *)
(* every small evidence, chunk size and overlap.                           *)
(***************************************************************************)
EXTENDS Chunking, Sequences

CONSTANTS Totals, Sizes, Overlaps,   \* the arguments build_chunks is given
          PatLens                    \* lengths of the signatures

ASSUME ArgumentAssumption ==
    /\ Totals \cup Sizes \cup Overlaps \subseteq 0 .. MaxU64
    /\ PatLens \subseteq Nat \ {0}

VARIABLES total, size, overlap, start, chunks
loopVars == <<total, size, overlap, start, chunks>>

LoopStart == /\ total \in Totals /\ size \in Sizes /\ overlap \in Overlaps
             /\ start = 0 /\ chunks = <<>>

(* One turn of `while start < total_len`.                                  *)
PushChunk ==
    /\ size # 0 /\ start < total
    /\ chunks' = Append(chunks,
         [start  |-> start,
          length |-> Min2(total - start, SatAdd(size, overlap)),
          valid  |-> Min2(total - start, size)])
    /\ start' = SatAdd(start, size)
    /\ UNCHANGED <<total, size, overlap>>

AtEnd == size = 0 \/ start >= total
Returned == AtEnd /\ UNCHANGED loopVars

LoopStep == PushChunk \/ Returned

Loop == LoopStart /\ [][LoopStep]_loopVars

-----------------------------------------------------------------------------
(* What the loop pushes is what Chunking says chunk k is, and at the end   *)
(* all of it, also where `start` saturates at the largest u64.             *)
LoopBuildsChunks ==
    LET ids == ChunkIds(total, size)
    IN  /\ \A i \in DOMAIN chunks :
             /\ i - 1 \in ids
             /\ chunks[i] = [start  |-> ChunkStart(i - 1, size),
                             length |-> ChunkLength(i - 1, total, size, overlap),
                             valid  |-> ChunkValid(i - 1, total, size)]
        /\ AtEnd => Len(chunks) = Cardinality(ids)

FullRead(k) == ChunkLength(k, total, size, overlap)

(* A signature of n bytes at p ends before its owner's overlap does.       *)
Reached(p, n) == (p % size) + n <= size + overlap

(* Every byte of the evidence is owned by exactly one chunk, so no span    *)
(* and no hit is kept twice; and a signature that lies in the evidence is  *)
(* found by exactly one chunk if it ends before its owner's overlap does,  *)
(* and by none if it reaches further: with an overlap of the signature's   *)
(* length less one none is lost, and with a shorter one exactly those are  *)
(* that straddle the boundary too far.                                     *)
OwnedOnce ==
    size # 0 =>
    /\ \A p \in 0 .. total - 1 :
          Cardinality({k \in ChunkIds(total, size) :
                         p \in OwnedBy(k, FullRead(k), total, size)}) = 1
    /\ \A n \in PatLens : \A p \in 0 .. total - n :
          Cardinality({k \in ChunkIds(total, size) :
              FoundIn(k, p, n, FullRead(k), total, size)})
            = IF Reached(p, n) THEN 1 ELSE 0
=============================================================================
