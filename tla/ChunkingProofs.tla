--------------------------- MODULE ChunkingProofs ---------------------------
(***************************************************************************)
(* Lemmas about the geometry of Chunking, for every evidence and every     *)
(* chunk size that is not zero: which chunk owns an offset, and what that  *)
(* chunk sees when it is read in full.                                     *)
(***************************************************************************)
EXTENDS Chunking, FiniteSetTheorems, TLAPS

(* Multiplication is monotone, and k * n + n is (k + 1) * n.               *)
LEMMA ProductMonotone ==
    ASSUME NEW a \in Nat, NEW b \in Nat, NEW c \in Nat, a <= b
    PROVE  a * c <= b * c
<1>1. PICK d \in Nat : b = a + d
  <2>1. b - a \in Nat /\ b = a + (b - a)
    OBVIOUS
  <2>2. QED
    BY <2>1
<1>2. b * c = a * c + d * c
  BY <1>1
<1>3. d * c \in Nat /\ a * c \in Nat
  OBVIOUS
<1>4. QED
  BY <1>2, <1>3

LEMMA ProductStep ==
    ASSUME NEW k \in Nat, NEW n \in Nat
    PROVE  (k + 1) * n = k * n + n /\ k * n \in Nat
OBVIOUS

LEMMA ProductAtLeast ==
    ASSUME NEW k \in Nat, NEW n \in Nat \ {0}
    PROVE  k <= k * n
<1>1. n = 1 + (n - 1) /\ n - 1 \in Nat
  OBVIOUS
<1>2. k * n = k + k * (n - 1) /\ k * (n - 1) \in Nat
  BY <1>1
<1>3. QED
  BY <1>2

LEMMA Division ==
    ASSUME NEW p \in Nat, NEW n \in Nat \ {0}
    PROVE  /\ p \div n \in Nat
           /\ (p \div n) * n <= p /\ p < (p \div n) * n + n
OBVIOUS

(* The intervals k * n .. k * n + n - 1 do not meet.                       *)
LEMMA DivisionUnique ==
    ASSUME NEW p \in Nat, NEW n \in Nat \ {0}, NEW k \in Nat,
           k * n <= p, p < k * n + n
    PROVE  k = p \div n
<1> DEFINE q == p \div n
<1>1. q \in Nat /\ q * n \in Nat /\ q * n <= p /\ p < q * n + n
  BY Division
<1> HIDE DEF q
<1>2. k * n \in Nat
  OBVIOUS
<1>3. CASE k < q
  <2>1. (k + 1) * n <= q * n
    BY <1>1, <1>3, ProductMonotone
  <2>2. (k + 1) * n = k * n + n
    BY ProductStep
  <2>3. QED
    BY <1>1, <1>2, <2>1, <2>2
<1>4. CASE q < k
  <2>1. (q + 1) * n <= k * n
    BY <1>1, <1>4, ProductMonotone
  <2>2. (q + 1) * n = q * n + n
    BY <1>1, ProductStep
  <2>3. QED
    BY <1>1, <1>2, <2>1, <2>2
<1>5. k = q
  BY <1>1, <1>3, <1>4
<1>6. QED
  BY <1>5 DEF q

-----------------------------------------------------------------------------
(* Chunk k starts at k * size: inside the evidence nothing saturates.      *)
LEMMA ChunkIdsAre ==
    ASSUME NEW total \in 0 .. MaxU64, NEW size \in 1 .. MaxU64, NEW k
    PROVE  /\ k \in ChunkIds(total, size) <=> k \in Nat /\ k * size < total
           /\ k \in ChunkIds(total, size) => ChunkStart(k, size) = k * size
<1>1. total \in Nat /\ size \in Nat \ {0} /\ total <= MaxU64 /\ MaxU64 \in Nat
  BY MaxU64Assumption
<1>2. CASE k \in Nat
  <2>1. k * size \in Nat /\ k <= k * size
    BY <1>1, <1>2, ProductAtLeast
  <2>2. QED
    BY <1>1, <1>2, <2>1 DEF ChunkIds, ChunkStart, Min2
<1>3. CASE k \notin Nat
  BY <1>1, <1>3 DEF ChunkIds
<1>4. QED
  BY <1>2, <1>3

(* However much of it was read, a chunk owns only offsets whose quotient   *)
(* by the chunk size is its id.                                            *)
LEMMA OwnerIsQuotient ==
    ASSUME NEW total \in 0 .. MaxU64, NEW size \in 1 .. MaxU64,
           NEW k \in ChunkIds(total, size), NEW len \in Int,
           NEW p \in OwnedBy(k, len, total, size)
    PROVE  p \in Nat /\ k = p \div size
<1>1. total \in Nat /\ size \in Nat \ {0}
  BY MaxU64Assumption
<1>2. k \in Nat /\ k * size \in Nat /\ ChunkStart(k, size) = k * size
  BY <1>1, ChunkIdsAre
<1> DEFINE first == k * size
<1>3. first \in Nat /\ ChunkStart(k, size) = first
  BY <1>2
<1> HIDE DEF first
<1>4. p \in Nat /\ first <= p /\ p < first + size
  BY <1>1, <1>3 DEF OwnedBy, ChunkValid, Min2
<1>5. QED
  BY <1>1, <1>2, <1>4, DivisionUnique DEF first

(* A chunk that was read in full sees a signature it owns: the overlap     *)
(* reaches the signature's last byte.                                      *)
LEMMA SeenWhenReadInFull ==
    ASSUME NEW total \in 0 .. MaxU64, NEW size \in 1 .. MaxU64,
           NEW overlap \in Nat, NEW n \in Nat \ {0}, overlap >= n - 1,
           NEW p \in Nat, p + n <= total
    PROVE  /\ p \div size \in ChunkIds(total, size)
           /\ FoundIn(p \div size, p, n,
                      ChunkLength(p \div size, total, size, overlap),
                      total, size)
<1>1. /\ total \in Nat /\ size \in Nat \ {0} /\ total <= MaxU64
      /\ size <= MaxU64 /\ MaxU64 \in Nat
  BY MaxU64Assumption
<1> DEFINE k == p \div size
           first == k * size
           full == ChunkLength(k, total, size, overlap)
<1>2. k \in Nat /\ first \in Nat /\ first <= p /\ p < first + size
  BY <1>1, Division
<1>3. k \in ChunkIds(total, size) /\ ChunkStart(k, size) = first
  <2>1. first < total
    BY <1>1, <1>2
  <2>2. QED
    BY <1>1, <1>2, <2>1, ChunkIdsAre
<1> HIDE DEF first
<1>4. full = Min2(total - first, Min2(size + overlap, MaxU64))
  BY <1>3 DEF ChunkLength, SatAdd
<1>5. ChunkValid(k, total, size) = Min2(total - first, size)
  BY <1>3 DEF ChunkValid
<1> HIDE DEF k, full
<1>6. p \in OwnedBy(k, full, total, size)
  <2>1. p < first + Min2(ChunkValid(k, total, size), full)
    BY <1>1, <1>2, <1>4, <1>5 DEF Min2
  <2>2. Min2(ChunkValid(k, total, size), full) \in Int
    BY <1>1, <1>2, <1>4, <1>5 DEF Min2
  <2>3. QED
    BY <1>2, <1>3, <2>1, <2>2 DEF OwnedBy
<1>7. p + n <= ChunkStart(k, size) + full
  BY <1>1, <1>2, <1>3, <1>4 DEF Min2
<1>8. FoundIn(k, p, n, full, total, size)
  BY <1>6, <1>7 DEF FoundIn
<1>9. QED
  BY <1>3, <1>8 DEF k, full

-----------------------------------------------------------------------------
(* Where the multiples of the chunk size lie: in order, and at chunk       *)
(* starts; so a scan resumed at the m-th skips the m chunks before it.     *)
LEMMA ProductOrder ==
    ASSUME NEW k \in Nat, NEW m \in Nat, NEW n \in Nat \ {0}
    PROVE  /\ k * n < m * n <=> k < m
           /\ k < m => k * n + n <= m * n
<1>1. /\ k * n \in Nat /\ m * n \in Nat
      /\ (k + 1) * n = k * n + n
  BY ProductStep
<1>2. CASE k < m
  <2>1. (k + 1) * n <= m * n
    BY <1>2, ProductMonotone
  <2>2. QED
    BY <1>1, <1>2, <2>1
<1>3. CASE m <= k
  <2>1. m * n <= k * n
    BY <1>3, ProductMonotone
  <2>2. QED
    BY <1>1, <1>3, <2>1
<1>4. QED
  BY <1>2, <1>3

LEMMA FirstChunkAt ==
    ASSUME NEW total \in 0 .. MaxU64, NEW size \in 1 .. MaxU64,
           NEW m \in Nat, m = 0 \/ m * size < total
    PROVE  FirstChunk(m * size, total, size) = m
<1>1. total \in Nat /\ size \in Nat \ {0}
  BY MaxU64Assumption
<1>2. ASSUME NEW k \in 0 .. m - 1
      PROVE  k \in ChunkIds(total, size) /\ ChunkStart(k, size) < m * size
  <2>1. k \in Nat /\ k * size \in Nat /\ m * size \in Nat /\ m * size < total
    BY <1>1, <1>2, ProductStep
  <2>2. k * size < m * size
    BY <1>1, <1>2, <2>1, ProductOrder
  <2>3. k * size < total
    BY <1>1, <2>1, <2>2
  <2>4. QED
    BY <2>1, <2>2, <2>3, ChunkIdsAre
<1>3. ASSUME NEW k \in ChunkIds(total, size), ChunkStart(k, size) < m * size
      PROVE  k \in 0 .. m - 1
  <2>1. k \in Nat /\ k * size < m * size
    BY <1>3, ChunkIdsAre
  <2>2. k < m
    BY <1>1, <2>1, ProductOrder
  <2>3. QED
    BY <2>1, <2>2
<1>4. {k \in ChunkIds(total, size) : ChunkStart(k, size) < m * size} = 0 .. m - 1
  BY <1>2, <1>3
<1>5. Cardinality(0 .. m - 1) = m
  BY FS_Interval
<1>6. QED
  BY <1>4, <1>5 DEF FirstChunk

=============================================================================
