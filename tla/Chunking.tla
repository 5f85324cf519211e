------------------------------ MODULE Chunking ------------------------------
(***************************************************************************)
(* The geometry of a scan: how the evidence is cut into overlapping chunks *)
(* (chunk.rs), how many bytes of a chunk are read under a byte limit       *)
(* (pipeline/mod.rs), and which of the positions a scanner reports for a   *)
(* chunk count as that chunk's own (pipeline/workers.rs).                  *)
(*                                                                         *)
(* Offsets are u64.  MaxU64 is the width's largest value, so that the      *)
(* saturating additions of the code stay visible.                          *)
(***************************************************************************)
EXTENDS Integers, FiniteSets

CONSTANT MaxU64

ASSUME MaxU64Assumption == MaxU64 \in Nat

Min2(a, b) == IF a <= b THEN a ELSE b

Max2(a, b) == IF a <= b THEN b ELSE a

(* Mutant: the addition wraps around.                                      *)
WrapAdd(a, b) == (a + b) % (MaxU64 + 1)

(* u64::saturating_add *)
SatAdd(a, b) == Min2(a + b, MaxU64)

(* Where chunk k starts: `start` after k rounds of start.saturating_add.   *)
ChunkStart(k, size) == Min2(k * size, MaxU64)

(* The ids build_chunks hands out: it pushes a chunk while start < total,  *)
(* and starts are increasing, so chunk k exists exactly when its start is  *)
(* inside the evidence.  A chunk size of zero yields no chunk at all.      *)
ChunkIds(total, size) ==
    IF size = 0 THEN {}
    ELSE {k \in 0 .. total : ChunkStart(k, size) < total}

(* The bytes a chunk reaches over, overlap included, and the prefix of     *)
(* them that belongs to it alone.                                          *)
ChunkLength(k, total, size, overlap) ==
    Min2(total - ChunkStart(k, size), SatAdd(size, overlap))

ChunkValid(k, total, size) == Min2(total - ChunkStart(k, size), size)

(* What a resumed run makes of the checkpoint's offset: the chunks before  *)
(* it, for the chunk limit, and the first chunk the loop does not skip.    *)
ResumeChunks(offset, size) == IF size > 0 THEN offset \div size ELSE 0
FirstChunk(offset, total, size) ==
    Cardinality({k \in ChunkIds(total, size) : ChunkStart(k, size) < offset})

(* Mutant: valid_length is ignored, all that was read is kept.             *)
OwnedByRead(k, len, total, size) ==
    LET start == ChunkStart(k, size) IN start .. start + len - 1

(* Offsets the chunk owns: a hit or a span starting here is kept, any      *)
(* other is left to the next chunk.  `len` is what was really read.        *)
OwnedBy(k, len, total, size) ==
    LET start == ChunkStart(k, size)
    IN  start .. start + Min2(ChunkValid(k, total, size), len) - 1

(* Offset o carries a pattern of n bytes: the scanner reports it in chunk  *)
(* k when all of its bytes are in the data, and the worker keeps it when   *)
(* the chunk owns its first byte.                                          *)
FoundIn(k, o, n, len, total, size) ==
    /\ o \in OwnedBy(k, len, total, size)
    /\ o + n <= ChunkStart(k, size) + len
=============================================================================
