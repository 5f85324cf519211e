----------------------------- MODULE ScanProofs -----------------------------
(***************************************************************************)
(* Theorems about the chunks of a scan and what is read out of them, for   *)
(* every evidence, chunk size and overlap.                                 *)
(*                                                                         *)
(* The first part is about build_chunks: it returns the chunks Chunking    *)
(* speaks of, these share the evidence out among themselves, and each      *)
(* signature is seen by the one chunk that owns its first byte.            *)
(*                                                                         *)
(* The second part is about the strings and the regions of high entropy a  *)
(* worker finds in the chunks: nothing but text, none missed, none twice.  *)
(***************************************************************************)
EXTENDS ChunkLoop, StringRuns, ChunkingProofs, SequenceTheorems, WellFoundedInduction

(* The arguments build_chunks is given never change.                       *)
ArgsType == total \in 0 .. MaxU64 /\ size \in 0 .. MaxU64
            /\ overlap \in 0 .. MaxU64

(* Chunk k starts at k * size: inside the evidence nothing saturates.      *)
LEMMA IdsAre ==
    ASSUME ArgsType, size # 0, NEW k
    PROVE  /\ k \in ChunkIds(total, size) <=> k \in Nat /\ k * size < total
           /\ k \in ChunkIds(total, size) => ChunkStart(k, size) = k * size
BY ChunkIdsAre, MaxU64Assumption DEF ArgsType

(* What chunk k owns when it was read in full: its size bytes, the last    *)
(* chunk what is left.                                                     *)
LEMMA OwnedRange ==
    ASSUME ArgsType, size # 0, NEW k \in ChunkIds(total, size)
    PROVE  OwnedBy(k, FullRead(k), total, size)
             = k * size .. Min2(total, k * size + size) - 1
<1>1. /\ total \in Nat /\ size \in Nat \ {0} /\ overlap \in Nat
      /\ total <= MaxU64 /\ size <= MaxU64 /\ MaxU64 \in Nat
  BY MaxU64Assumption DEF ArgsType
<1>2. /\ k \in Nat /\ k * size \in Nat /\ k * size < total
      /\ ChunkStart(k, size) = k * size
  BY <1>1, IdsAre
<1> DEFINE first == k * size
<1>3. first \in Nat /\ first < total /\ ChunkStart(k, size) = first
  BY <1>2
<1> HIDE DEF first
<1>4. ChunkValid(k, total, size) = Min2(total - first, size)
  BY <1>3 DEF ChunkValid
<1>5. Min2(ChunkValid(k, total, size), FullRead(k)) = Min2(total - first, size)
  BY <1>1, <1>3, <1>4 DEF FullRead, ChunkLength, SatAdd, Min2
<1>6. OwnedBy(k, FullRead(k), total, size)
        = first .. first + Min2(total - first, size) - 1
  BY <1>3, <1>5 DEF OwnedBy
<1>7. first + Min2(total - first, size) = Min2(total, first + size)
  BY <1>1, <1>3 DEF Min2
<1>8. OwnedBy(k, FullRead(k), total, size)
        = first .. Min2(total, first + size) - 1
  BY <1>1, <1>3, <1>6, <1>7 DEF Min2
<1>9. QED
  BY <1>8 DEF first

(* The one owner of byte p is chunk p \div size.                           *)
LEMMA OwnerIs ==
    ASSUME ArgsType, size # 0, NEW p \in 0 .. total - 1
    PROVE  /\ p \div size \in ChunkIds(total, size)
           /\ \A k \in ChunkIds(total, size) :
                p \in OwnedBy(k, FullRead(k), total, size) <=> k = p \div size
<1>1. p \in Nat /\ total \in Nat /\ size \in Nat \ {0} /\ p < total
  BY MaxU64Assumption DEF ArgsType
<1> DEFINE q == p \div size
<1>2. q \in Nat /\ q * size \in Nat /\ q * size <= p /\ p < q * size + size
  BY <1>1, Division
<1> HIDE DEF q
<1>3. q \in ChunkIds(total, size)
  BY <1>1, <1>2, IdsAre
<1>4. ASSUME NEW k \in ChunkIds(total, size)
      PROVE  p \in OwnedBy(k, FullRead(k), total, size) <=> k = q
  <2>1. k \in Nat /\ k * size \in Nat /\ k * size < total
    BY <1>1, IdsAre
  <2>2. p \in OwnedBy(k, FullRead(k), total, size)
          <=> k * size <= p /\ p < k * size + size
    <3>1. p \in OwnedBy(k, FullRead(k), total, size)
            <=> p \in k * size .. Min2(total, k * size + size) - 1
      BY OwnedRange
    <3>2. QED
      BY <1>1, <2>1, <3>1 DEF Min2
  <2>3. k * size <= p /\ p < k * size + size => k = q
    BY <1>1, <2>1, DivisionUnique DEF q
  <2>4. QED
    BY <1>2, <2>2, <2>3
<1>5. QED
  BY <1>3, <1>4 DEF q

LEMMA Remainder ==
    ASSUME NEW p \in Nat, NEW n \in Nat \ {0}
    PROVE  p % n = p - (p \div n) * n
OBVIOUS

(* A chunk sees a signature it owns when its overlap reaches the last byte.*)
LEMMA SeenByOwner ==
    ASSUME ArgsType, size # 0, NEW n \in Nat \ {0},
           NEW p \in 0 .. total - n, NEW k \in ChunkIds(total, size)
    PROVE  FoundIn(k, p, n, FullRead(k), total, size)
             <=> k = p \div size /\ Reached(p, n)
<1>1. /\ total \in Nat /\ size \in Nat \ {0} /\ overlap \in Nat
      /\ total <= MaxU64 /\ MaxU64 \in Nat /\ p \in Nat /\ p + n <= total
  BY MaxU64Assumption DEF ArgsType
<1>2. p \in 0 .. total - 1
  BY <1>1
<1>3. p \in OwnedBy(k, FullRead(k), total, size) <=> k = p \div size
  BY <1>2, OwnerIs
<1> DEFINE q == p \div size
           first == q * size
<1>4. /\ first \in Nat /\ first <= p /\ p % size = p - first
      /\ ChunkStart(q, size) = first
  <2>1. q \in Nat /\ q * size \in Nat /\ q * size <= p
    BY <1>1, Division
  <2>2. q * size < total
    BY <1>1, <2>1
  <2>3. ChunkStart(q, size) = q * size
    BY <2>1, <2>2, IdsAre
  <2>4. p % size = p - q * size
    BY <1>1, Remainder
  <2>5. QED
    BY <2>1, <2>3, <2>4
<1> HIDE DEF first
<1>5. FullRead(q) = Min2(total - first, SatAdd(size, overlap))
  BY <1>4 DEF FullRead, ChunkLength
<1>6. p + n <= first + FullRead(q) <=> Reached(p, n)
  BY <1>1, <1>4, <1>5 DEF Reached, SatAdd, Min2, ArgsType
<1> HIDE DEF q
<1>7. QED
  BY <1>3, <1>4, <1>6 DEF FoundIn, q

-----------------------------------------------------------------------------
LEMMA ArgsInit == LoopStart => ArgsType
BY ArgumentAssumption DEF LoopStart, ArgsType

LEMMA ArgsNext == ArgsType /\ [LoopStep]_loopVars => ArgsType'
BY DEF ArgsType, LoopStep, PushChunk, Returned, loopVars

LEMMA OwnedOnceHolds == ArgsType => OwnedOnce
<1> SUFFICES ASSUME ArgsType, size # 0 PROVE OwnedOnce
  BY DEF OwnedOnce
<1>1. ASSUME NEW p \in 0 .. total - 1
      PROVE  Cardinality({k \in ChunkIds(total, size) :
                            p \in OwnedBy(k, FullRead(k), total, size)}) = 1
  <2>1. {k \in ChunkIds(total, size) :
           p \in OwnedBy(k, FullRead(k), total, size)} = {p \div size}
    BY OwnerIs
  <2>2. QED
    BY <2>1, FS_Singleton
<1>2. ASSUME NEW n \in PatLens, NEW p \in 0 .. total - n
      PROVE  Cardinality({k \in ChunkIds(total, size) :
                            FoundIn(k, p, n, FullRead(k), total, size)})
               = IF Reached(p, n) THEN 1 ELSE 0
  <2> DEFINE finders == {k \in ChunkIds(total, size) :
                           FoundIn(k, p, n, FullRead(k), total, size)}
  <2>1. n \in Nat \ {0} /\ p \in 0 .. total - 1
    BY <1>2, ArgumentAssumption, MaxU64Assumption DEF ArgsType
  <2>2. p \div size \in ChunkIds(total, size)
    BY <2>1, OwnerIs
  <2>3. \A k \in ChunkIds(total, size) :
           FoundIn(k, p, n, FullRead(k), total, size) <=> k = p \div size /\ Reached(p, n)
    BY <2>1, SeenByOwner
  <2>4. finders = IF Reached(p, n) THEN {p \div size} ELSE {}
    BY <2>2, <2>3
  <2>5. Cardinality(finders) = IF Reached(p, n) THEN 1 ELSE 0
    BY <2>4, FS_Singleton, FS_EmptySet
  <2>6. QED
    BY <2>5
<1>3. QED
  BY <1>1, <1>2 DEF OwnedOnce

(* The chunks share the evidence out: every byte has exactly one owner,    *)
(* and a signature is seen by its owner, hence exactly once, if it ends    *)
(* before the owner's overlap does, and by no chunk at all otherwise.      *)
THEOREM EveryByteOwnedOnce == Loop => []OwnedOnce
<1>1. Loop => []ArgsType
  BY ArgsInit, ArgsNext, PTL DEF Loop
<1>2. QED
  BY <1>1, OwnedOnceHolds, PTL

-----------------------------------------------------------------------------
(* build_chunks itself: after n rounds `start` is n * size, saturated, and *)
(* the chunks pushed are the first n.                                      *)
ChunkAt(k) == [start  |-> ChunkStart(k, size),
               length |-> ChunkLength(k, total, size, overlap),
               valid  |-> ChunkValid(k, total, size)]
LoopInv ==
    /\ ArgsType
    /\ chunks \in Seq([start : Int, length : Int, valid : Int])
    /\ start = ChunkStart(Len(chunks), size)
    /\ size = 0 => chunks = <<>>
    /\ \A i \in DOMAIN chunks :
          i - 1 \in ChunkIds(total, size) /\ chunks[i] = ChunkAt(i - 1)

(* saturating_add of the size takes the start of chunk k to that of k + 1. *)
LEMMA NextStart ==
    ASSUME ArgsType, NEW k \in Nat
    PROVE  /\ SatAdd(ChunkStart(k, size), size) = ChunkStart(k + 1, size)
           /\ ChunkStart(k, size) \in Nat
<1>1. size \in Nat /\ size <= MaxU64 /\ MaxU64 \in Nat
  BY MaxU64Assumption DEF ArgsType
<1>2. k * size \in Nat /\ (k + 1) * size = k * size + size
  BY <1>1, ProductStep
<1>3. QED
  BY <1>1, <1>2 DEF SatAdd, ChunkStart, Min2

LEMMA LoopNext == LoopInv /\ [LoopStep]_loopVars => LoopInv'
<1> SUFFICES ASSUME LoopInv, [LoopStep]_loopVars PROVE LoopInv'
  OBVIOUS
<1> DEFINE n == Len(chunks)
<1>1. ArgsType /\ ArgsType' /\ n \in Nat /\ DOMAIN chunks = 1 .. n
  BY ArgsNext DEF LoopInv
<1>2. CASE PushChunk
  <2>1. /\ size # 0 /\ start < total /\ start = ChunkStart(n, size)
        /\ UNCHANGED <<total, size, overlap>>
    BY <1>2 DEF PushChunk, LoopInv
  <2>2. n \in ChunkIds(total, size)
    <3>1. total \in Nat /\ size \in Nat \ {0} /\ total <= MaxU64 /\ MaxU64 \in Nat
      BY <2>1, MaxU64Assumption DEF LoopInv, ArgsType
    <3>2. n * size \in Nat
      BY <1>1, <3>1, ProductStep
    <3>3. n * size < total
      BY <2>1, <3>1, <3>2 DEF ChunkStart, Min2
    <3>4. QED
      BY <1>1, <2>1, <3>3, IdsAre
  <2>3. chunks' = Append(chunks, ChunkAt(n))
    BY <1>2, <2>1 DEF PushChunk, ChunkAt, ChunkLength, ChunkValid
  <2>4. ChunkAt(n) \in [start : Int, length : Int, valid : Int]
    <3>1. ChunkStart(n, size) \in Nat
      BY <1>1, NextStart
    <3>2. ChunkLength(n, total, size, overlap) \in Int
      BY <1>1, <3>1, MaxU64Assumption DEF ArgsType, ChunkLength, SatAdd, Min2
    <3>3. ChunkValid(n, total, size) \in Int
      BY <1>1, <3>1, MaxU64Assumption DEF ArgsType, ChunkValid, Min2
    <3>4. QED
      BY <3>1, <3>2, <3>3 DEF ChunkAt
  <2>5. /\ chunks' \in Seq([start : Int, length : Int, valid : Int])
        /\ Len(chunks') = n + 1 /\ DOMAIN chunks' = 1 .. n + 1
        /\ \A i \in 1 .. n : chunks'[i] = chunks[i]
        /\ chunks'[n + 1] = ChunkAt(n)
    BY <1>1, <2>3, <2>4 DEF LoopInv
  <2>6. start' = ChunkStart(Len(chunks'), size)
    BY <1>1, <1>2, <2>1, <2>5, NextStart DEF PushChunk
  <2>7. \A i \in DOMAIN chunks' :
          i - 1 \in ChunkIds(total, size) /\ chunks'[i] = ChunkAt(i - 1)
    <3> TAKE i \in DOMAIN chunks'
    <3>1. CASE i \in 1 .. n
      BY <1>1, <2>5, <3>1 DEF LoopInv
    <3>2. CASE i = n + 1
      <4>1. i - 1 = n
        BY <1>1, <3>2
      <4>2. QED
        BY <2>2, <2>5, <3>2, <4>1
    <3>3. QED
      BY <1>1, <2>5, <3>1, <3>2
  <2>8. QED
    BY <1>1, <2>1, <2>5, <2>6, <2>7 DEF LoopInv, ChunkAt
<1>3. CASE UNCHANGED loopVars
  BY <1>3 DEF LoopInv, ArgsType, ChunkAt, loopVars
<1>4. QED
  BY <1>2, <1>3 DEF LoopStep, Returned

LEMMA LoopInit == LoopStart => LoopInv
<1> SUFFICES ASSUME LoopStart PROVE LoopInv
  OBVIOUS
<1>1. ArgsType /\ chunks = <<>> /\ start = 0
  BY ArgsInit DEF LoopStart
<1>2. ChunkStart(0, size) = 0
  BY <1>1, MaxU64Assumption DEF ArgsType, ChunkStart, Min2
<1>3. QED
  BY <1>1, <1>2 DEF LoopInv

(* When the loop is left, the chunks pushed are all there are.             *)
LEMMA AllPushed ==
    ASSUME LoopInv, AtEnd
    PROVE  Len(chunks) = Cardinality(ChunkIds(total, size))
<1>1. ArgsType /\ Len(chunks) \in Nat /\ start = ChunkStart(Len(chunks), size)
  BY DEF LoopInv
<1>2. CASE size = 0
  BY <1>2, FS_EmptySet DEF LoopInv, ChunkIds
<1>3. CASE size # 0
  <2>1. /\ total \in Nat /\ size \in Nat \ {0} /\ total <= MaxU64
        /\ MaxU64 \in Nat /\ start >= total
    BY <1>1, <1>3, MaxU64Assumption DEF ArgsType, AtEnd
  <2> DEFINE n == Len(chunks)
  <2>2. n * size \in Nat /\ n * size >= total
    BY <1>1, <2>1, ProductStep DEF ChunkStart, Min2
  <2>3. ASSUME NEW k \in ChunkIds(total, size) PROVE k \in 0 .. n - 1
    <3>1. k \in Nat /\ k * size < total /\ k * size \in Nat
      BY <1>1, <1>3, <2>1, IdsAre, ProductStep
    <3>2. n <= k => n * size <= k * size
      BY <1>1, <2>1, <3>1, ProductMonotone
    <3>3. QED
      BY <1>1, <2>1, <2>2, <3>1, <3>2
  <2>4. ASSUME NEW k \in 0 .. n - 1 PROVE k \in ChunkIds(total, size)
    <3>1. k + 1 \in DOMAIN chunks /\ (k + 1) - 1 = k
      BY <1>1 DEF LoopInv
    <3>2. QED
      BY <3>1 DEF LoopInv
  <2>5. ChunkIds(total, size) = 0 .. n - 1
    BY <2>3, <2>4
  <2>6. Cardinality(0 .. n - 1) = n
    <3>1. n \in Nat /\ n - 1 \in Int
      BY <1>1
    <3>2. Cardinality(0 .. n - 1) = IF 0 > n - 1 THEN 0 ELSE (n - 1) - 0 + 1
      BY <3>1, FS_Interval, SMTT(30)
    <3>3. QED
      BY <3>1, <3>2
  <2>7. QED
    BY <2>5, <2>6
<1>4. QED
  BY <1>2, <1>3

(* The loop of build_chunks computes what the closed forms of Chunking     *)
(* say, the saturation of `start` at the largest u64 included.             *)
THEOREM BuildChunksCorrect == Loop => []LoopBuildsChunks
<1>1. LoopInv => LoopBuildsChunks
  BY AllPushed DEF LoopInv, LoopBuildsChunks, ChunkAt
<1>2. QED
  BY <1>1, LoopInit, LoopNext, PTL DEF Loop
-----------------------------------------------------------------------------
(* What the passes over a chunk go by: where it starts, where its own part *)
(* ends, and how far its data reaches.                                     *)
LEMMA Bounds ==
    /\ EvidenceLen \in Nat /\ ChunkSize \in Nat \ {0} /\ Overlap \in Nat
    /\ EvidenceLen <= MaxU64 /\ ChunkSize <= MaxU64 /\ MaxU64 \in Nat
    /\ MinLen \in Nat \ {0} /\ MaxLen \in Nat \ {0} /\ Window \in Nat \ {0}
BY StringRunsAssumption, MaxU64Assumption

LEMMA IdIs ==
    ASSUME NEW c
    PROVE  /\ c \in Ids <=> c \in Nat /\ c * ChunkSize < EvidenceLen
           /\ c \in Ids => /\ Start(c) = c * ChunkSize /\ Start(c) \in Nat
                           /\ Start(c) < EvidenceLen
<1>1. EvidenceLen \in 0 .. MaxU64 /\ ChunkSize \in 1 .. MaxU64
  BY Bounds
<1>2. c \in Ids <=> c \in Nat /\ c * ChunkSize < EvidenceLen
  BY <1>1, ChunkIdsAre DEF Ids
<1>3. c \in Ids => Start(c) = c * ChunkSize
  BY <1>1, ChunkIdsAre DEF Ids, Start
<1>4. c \in Nat => c * ChunkSize \in Nat
  BY Bounds, ProductStep
<1>5. QED
  BY <1>2, <1>3, <1>4

LEMMA ChunkIs ==
    ASSUME NEW c \in Ids
    PROVE  /\ Start(c) \in Nat /\ OwnStop(c) \in Nat /\ Stop(c) \in Nat
           /\ Start(c) < OwnStop(c) /\ OwnStop(c) <= Stop(c) /\ Stop(c) <= EvidenceLen
           /\ OwnStop(c) <= Start(c) + ChunkSize
           /\ Owned(c) = Start(c) .. OwnStop(c) - 1
           /\ \A x \in Nat : x <= EvidenceLen /\ x <= OwnStop(c) + Overlap => x <= Stop(c)
<1>1. Start(c) \in Nat /\ Start(c) < EvidenceLen
  BY IdIs
<1> DEFINE first == Start(c)
<1>2. /\ ChunkValid(c, EvidenceLen, ChunkSize) = Min2(EvidenceLen - first, ChunkSize)
      /\ ChunkLength(c, EvidenceLen, ChunkSize, Overlap)
           = Min2(EvidenceLen - first, Min2(ChunkSize + Overlap, MaxU64))
      /\ first = ChunkStart(c, ChunkSize)
  BY DEF ChunkValid, ChunkLength, SatAdd, Start
<1>3. /\ OwnStop(c) = first + Min2(EvidenceLen - first, ChunkSize)
      /\ Stop(c) = first + Min2(EvidenceLen - first, Min2(ChunkSize + Overlap, MaxU64))
      /\ Owned(c) = first .. first + Min2(Min2(EvidenceLen - first, ChunkSize), EvidenceLen) - 1
  BY <1>2 DEF OwnStop, Stop, Owned, OwnedBy
<1>4. first \in Nat /\ first < EvidenceLen
  BY <1>1
<1> HIDE DEF first
<1>5. /\ OwnStop(c) \in Nat /\ Stop(c) \in Nat
      /\ first < OwnStop(c) /\ OwnStop(c) <= Stop(c) /\ Stop(c) <= EvidenceLen
      /\ OwnStop(c) <= first + ChunkSize
  BY <1>3, <1>4, Bounds DEF Min2
<1>6. Min2(Min2(EvidenceLen - first, ChunkSize), EvidenceLen) = Min2(EvidenceLen - first, ChunkSize)
  BY <1>4, Bounds DEF Min2
<1>7. ASSUME NEW x \in Nat, x <= EvidenceLen, x <= OwnStop(c) + Overlap
      PROVE  x <= Stop(c)
  BY <1>3, <1>4, <1>7, Bounds DEF Min2
<1>8. Owned(c) = first .. OwnStop(c) - 1
  <2> DEFINE own == Min2(EvidenceLen - first, ChunkSize)
             last == Min2(own, EvidenceLen)
  <2>1. OwnStop(c) = first + own /\ Owned(c) = first .. first + last - 1
    BY <1>3
  <2>2. last = own /\ own \in Nat
    BY <1>4, <1>6, Bounds DEF Min2
  <2> HIDE DEF own, last
  <2>3. OwnStop(c) - 1 = first + last - 1
    BY <1>4, <2>1, <2>2
  <2>4. QED
    BY <2>1, <2>3, Zenon
<1>9. QED
  BY <1>4, <1>5, <1>7, <1>8 DEF first

(* Chunks own their parts of the evidence in order.                        *)
LEMMA ChunkOrder ==
    ASSUME NEW c \in Ids, NEW d \in Ids, c < d
    PROVE  OwnStop(c) <= Start(d)
<1>1. c \in Nat /\ d \in Nat /\ Start(c) = c * ChunkSize /\ Start(d) = d * ChunkSize
  BY IdIs
<1>2. c * ChunkSize + ChunkSize <= d * ChunkSize
  BY <1>1, Bounds, ProductOrder
<1>3. OwnStop(c) <= Start(c) + ChunkSize /\ OwnStop(c) \in Nat /\ Start(c) \in Nat /\ Start(d) \in Nat
  BY ChunkIs
<1>4. Start(c) + ChunkSize <= Start(d)
  BY <1>1, <1>2
<1>5. QED
  BY <1>3, <1>4, Bounds

LEMMA LastChunk ==
    ASSUME NEW c \in Ids, c + 1 \notin Ids, NEW d \in Ids
    PROVE  d <= c
<1>1. c \in Nat /\ d \in Nat /\ d * ChunkSize < EvidenceLen
  BY IdIs
<1>2. ~((c + 1) * ChunkSize < EvidenceLen)
  BY <1>1, IdIs
<1>3. SUFFICES ASSUME c + 1 <= d PROVE FALSE
  BY <1>1
<1>4. (c + 1) * ChunkSize <= d * ChunkSize
  BY <1>1, <1>3, Bounds, ProductMonotone
<1>5. (c + 1) * ChunkSize \in Nat /\ d * ChunkSize \in Nat
  BY <1>1, Bounds, ProductStep
<1>6. QED
  BY <1>1, <1>2, <1>4, <1>5, Bounds

LEMMA FirstChunkIs == EvidenceLen # 0 => 0 \in Ids /\ Start(0) = 0
BY IdIs, Bounds

(* Every byte is in some chunk's own part.                                 *)
LEMMA OwnerOf ==
    ASSUME NEW i \in 0 .. EvidenceLen - 1
    PROVE  \E c \in Ids : i \in Owned(c)
<1> DEFINE c == i \div ChunkSize
           first == c * ChunkSize
<1>1. c \in Nat /\ first \in Nat /\ first <= i /\ i < first + ChunkSize
  BY Bounds, Division
<1> HIDE DEF c
<1>2. c \in Ids /\ Start(c) = first
  BY <1>1, Bounds, IdIs
<1> HIDE DEF first
<1>3. OwnStop(c) = first + Min2(EvidenceLen - first, ChunkSize)
  BY <1>2 DEF OwnStop, ChunkValid, Start
<1>4. i < OwnStop(c)
  BY <1>1, <1>3, Bounds DEF Min2
<1>5. QED
  BY <1>1, <1>2, <1>4, ChunkIs, Bounds
-----------------------------------------------------------------------------
(* The least of a set of naturals.                                         *)
LEMMA LeastIs ==
    ASSUME NEW S, S \subseteq Nat, S # {}
    PROVE  \E x \in S : \A y \in S : x <= y
<1>1. IsWellFoundedOn(OpToRel(<, Nat), Nat)
  BY NatLessThanWellFounded
<1>2. PICK x \in S : \A y \in S : ~ (<<y, x>> \in OpToRel(<, Nat))
  BY <1>1, WFMin
<1>3. \A y \in S : ~(y < x)
  BY <1>2 DEF OpToRel
<1>4. \A y \in S : x <= y
  BY <1>3
<1>5. QED
  BY <1>4

(* Induction over the naturals, about a set instead of a predicate.        *)
LEMMA Induction ==
    ASSUME NEW T, 0 \in T, \A k \in Nat : k \in T => k + 1 \in T
    PROVE  \A k \in Nat : k \in T
<1> SUFFICES ASSUME Nat \ T # {} PROVE FALSE
  OBVIOUS
<1>1. PICK x \in Nat \ T : \A y \in Nat \ T : x <= y
  BY LeastIs
<1>2. x # 0 /\ x - 1 \in Nat /\ (x - 1) + 1 = x
  BY <1>1
<1>3. x - 1 \in T
  BY <1>1, <1>2
<1>4. QED
  BY <1>1, <1>2, <1>3

(* A recursive function over 0 .. n exists when its step stays in a set.   *)
Stepping(S, n) == [S \X (1 .. n) -> S]
Unrolled(g, S, s, n, step) ==
    g \in [0 .. n -> S] /\ g[0] = s /\ \A i \in 1 .. n : g[i] = step[<<g[i - 1], i>>]

LEMMA Recursion ==
    ASSUME NEW S, NEW s \in S, NEW n \in Nat, NEW step \in Stepping(S, n)
    PROVE  \E g : Unrolled(g, S, s, n, step)
<1> USE DEF Stepping
<1> DEFINE P(k) == \E g \in [0 .. k -> S] :
                     g[0] = s /\ \A i \in 1 .. k : g[i] = step[<<g[i - 1], i>>]
           T == {k \in Nat : k <= n => P(k)}
<1>1. 0 \in T
  <2> DEFINE g == [i \in 0 .. 0 |-> s]
  <2>1. g \in [0 .. 0 -> S] /\ g[0] = s /\ 1 .. 0 = {}
    OBVIOUS
  <2> HIDE DEF g
  <2>2. P(0)
    BY <2>1
  <2>3. QED
    BY <2>2
<1>2. ASSUME NEW k \in Nat, k \in T PROVE k + 1 \in T
  <2> SUFFICES ASSUME k + 1 <= n PROVE P(k + 1)
    OBVIOUS
  <2>1. PICK g \in [0 .. k -> S] :
               g[0] = s /\ \A i \in 1 .. k : g[i] = step[<<g[i - 1], i>>]
    BY <1>2
  <2> DEFINE h == [i \in 0 .. k + 1 |-> IF i <= k THEN g[i] ELSE step[<<g[k], k + 1>>]]
  <2>2. g[k] \in S /\ k + 1 \in 1 .. n
    BY <2>1
  <2>3. step[<<g[k], k + 1>>] \in S
    BY <2>2
  <2>4. \A i \in 0 .. k : g[i] \in S
    BY <2>1
  <2>5. h \in [0 .. k + 1 -> S]
    BY <2>3, <2>4
  <2>6. h[0] = s
    BY <2>1
  <2>7. ASSUME NEW i \in 1 .. k + 1 PROVE h[i] = step[<<h[i - 1], i>>]
    <3>1. CASE i = k + 1
      <4>1. i - 1 = k /\ k \in 0 .. k + 1 /\ ~(i <= k) /\ i \in 0 .. k + 1
        BY <3>1
      <4>2. h[i] = step[<<g[k], k + 1>>] /\ h[i - 1] = g[k]
        BY <4>1
      <4>3. QED
        BY <4>2, <3>1
    <3>2. CASE i # k + 1
      <4>1. i \in 1 .. k /\ i - 1 \in 0 .. k /\ i \in 0 .. k + 1 /\ i - 1 \in 0 .. k + 1
        BY <3>2
      <4>2. h[i] = g[i] /\ h[i - 1] = g[i - 1]
        BY <4>1
      <4>3. QED
        BY <4>1, <4>2, <2>1
    <3>3. QED
      BY <3>1, <3>2
  <2> HIDE DEF h
  <2>8. QED
    BY <2>5, <2>6, <2>7
<1> HIDE DEF P
<1>3. n \in T
  BY <1>1, <1>2, Induction
<1>4. P(n)
  BY <1>3
<1>5. QED
  BY <1>4 DEF P, Unrolled

------------------------------------------------
-----------------------------------------------------------------------------
(* Characters and the runs they make.                                      *)
TextPasses == {"ascii", "utf8", "le0", "le1", "be0", "be1"}

LEMMA CharIs ==
    ASSUME NEW p \in TextPasses, NEW i \in Nat, NEW stop \in Nat
    PROVE  /\ Char(p, i, stop) \in 0 .. 2
           /\ Char(p, i, stop) # 0 => i + Char(p, i, stop) <= stop
           /\ p # "utf8" /\ Char(p, i, stop) # 0 => Char(p, i, stop) = Width(p)
<1>1. CASE p = "utf8"
  BY <1>1 DEF Char, Decoded
<1>2. CASE p # "utf8"
  BY <1>2 DEF Char, Width
<1>3. QED
  BY <1>1, <1>2

(* Whether a character is there depends on the end of the data only        *)
(* through its last byte.                                                  *)
LEMMA CharFits ==
    ASSUME NEW p \in TextPasses \ {"utf8"}, NEW i \in Nat, NEW stop \in Nat, NEW end \in Nat,
           Char(p, i, stop) # 0, i + Width(p) <= end
    PROVE  Char(p, i, end) # 0
BY DEF Char, Width

LEMMA WideChar ==
    ASSUME NEW p \in {"le0", "le1", "be0", "be1"}, NEW i \in Nat, NEW stop \in Nat,
           Char(p, i, stop) # 0
    PROVE  /\ p \in {"le0", "le1"} => evidence[i] = "text" /\ evidence[i + 1] = "nul"
           /\ p \in {"be0", "be1"} => evidence[i] = "nul" /\ evidence[i + 1] = "text"
BY DEF Char, Letter

(* What is known of the first characters of the run that starts at i.      *)
RunSet(p, i, stop) ==
    {r \in [end : Nat, chars : Nat] :
        /\ r.chars = 0 => r.end = i
        /\ r.chars # 0 => i < r.end /\ r.end <= stop
        /\ p # "utf8" => /\ r.end = i + r.chars * Width(p)
                         /\ \A m \in 0 .. r.chars - 1 : Char(p, i + m * Width(p), stop) # 0}

LEMMA LongerIs ==
    ASSUME NEW p \in TextPasses, NEW i \in Nat, NEW stop \in Nat,
           NEW r \in RunSet(p, i, stop)
    PROVE  /\ Longer(p, r, stop) \in RunSet(p, i, stop)
           /\ \/ Longer(p, r, stop) = r /\ Char(p, r.end, stop) = 0
              \/ Longer(p, r, stop).chars = r.chars + 1
<1> DEFINE n == Char(p, r.end, stop)
           w == Width(p)
<1>1. /\ r \in [end : Nat, chars : Nat] /\ r.end \in Nat /\ r.chars \in Nat
      /\ r.chars = 0 => r.end = i
      /\ r.chars # 0 => i < r.end /\ r.end <= stop
      /\ p # "utf8" => /\ r.end = i + r.chars * w
                       /\ \A m \in 0 .. r.chars - 1 : Char(p, i + m * w, stop) # 0
  BY DEF RunSet
<1>2. n \in 0 .. 2 /\ (n # 0 => r.end + n <= stop) /\ (p # "utf8" /\ n # 0 => n = w)
  BY <1>1, CharIs
<1>3. CASE n = 0
  BY <1>3 DEF Longer
<1>4. CASE n # 0
  <2> DEFINE e == r.end + n
             s == [end |-> e, chars |-> r.chars + 1]
  <2>1. Longer(p, r, stop) = s
    BY <1>4 DEF Longer
  <2>2. s \in [end : Nat, chars : Nat] /\ s.end = e /\ s.chars = r.chars + 1
    BY <1>1, <1>2
  <2>3. i < e /\ e <= stop
    BY <1>1, <1>2, <1>4
  <2>4. ASSUME p # "utf8"
        PROVE  /\ e = i + (r.chars + 1) * w
               /\ \A m \in 0 .. r.chars : Char(p, i + m * w, stop) # 0
    <3>1. w \in {1, 2} /\ n = w /\ r.end = i + r.chars * w
      BY <1>1, <1>2, <1>4, <2>4 DEF Width
    <3>2. e = i + (r.chars + 1) * w
      BY <1>1, <3>1
    <3>3. ASSUME NEW m \in 0 .. r.chars PROVE Char(p, i + m * w, stop) # 0
      <4>1. CASE m = r.chars
        BY <1>4, <3>1, <4>1
      <4>2. CASE m # r.chars
        <5>1. m \in 0 .. r.chars - 1
          BY <1>1, <4>2
        <5>2. QED
          BY <1>1, <2>4, <5>1
      <4>3. QED
        BY <4>1, <4>2
    <3>4. QED
      BY <3>2, <3>3
  <2> HIDE DEF s, e, n
  <2>5. s \in RunSet(p, i, stop)
    <3>1. s.chars - 1 = r.chars /\ s.chars # 0
      BY <1>1, <2>2
    <3>2. QED
      BY <2>2, <2>3, <2>4, <3>1 DEF RunSet
  <2>6. QED
    BY <2>1, <2>2, <2>5
<1>5. QED
  BY <1>3, <1>4

(* The run from i: its characters follow one another, and it ends with     *)
(* MaxLen of them or where no character is.                                *)
LEMMA RunIs ==
    ASSUME NEW p \in TextPasses, NEW i \in Nat, NEW stop \in Nat
    PROVE  /\ RunFrom(p, i, stop) \in RunSet(p, i, stop)
           /\ RunFrom(p, i, stop).chars <= MaxLen
           /\ \/ RunFrom(p, i, stop).chars = MaxLen
              \/ Char(p, RunFrom(p, i, stop).end, stop) = 0
<1> DEFINE S == RunSet(p, i, stop)
           s == [end |-> i, chars |-> 0]
           IsRun(f) == f = [n \in 0 .. MaxLen |-> IF n = 0 THEN s ELSE Longer(p, f[n - 1], stop)]
           step == [a \in S \X (1 .. MaxLen) |-> Longer(p, a[1], stop)]
<1>1. s \in S
  BY DEF RunSet, Width
<1>2. \A a \in S \X (1 .. MaxLen) : Longer(p, a[1], stop) \in S
  BY LongerIs
<1>3. step \in Stepping(S, MaxLen)
  BY <1>2 DEF Stepping
<1>4. MaxLen \in Nat /\ MaxLen # 0
  BY Bounds
<1> HIDE DEF S, s
<1>5. PICK g : Unrolled(g, S, s, MaxLen, step)
  <2> HIDE DEF step
  <2>1. \A T, t, n, st : t \in T /\ n \in Nat /\ st \in Stepping(T, n)
                           => \E g : Unrolled(g, T, t, n, st)
    BY Recursion
  <2>2. QED
    BY <1>1, <1>3, <1>4, <2>1, Zenon
<1>6. \A n \in 1 .. MaxLen : g[n] = Longer(p, g[n - 1], stop)
  <2> TAKE n \in 1 .. MaxLen
  <2>1. g[n - 1] \in S /\ g[n] = step[<<g[n - 1], n>>]
    <3> HIDE DEF step
    <3>1. n - 1 \in 0 .. MaxLen
      BY <1>4
    <3>2. QED
      BY <3>1, <1>5 DEF Unrolled
  <2>2. <<g[n - 1], n>> \in S \X (1 .. MaxLen)
    BY <2>1
  <2>3. step[<<g[n - 1], n>>] = Longer(p, g[n - 1], stop)
    BY <2>2
  <2>4. QED
    BY <2>1, <2>3
<1> HIDE DEF step
<1>7. IsRun(g)
  BY <1>4, <1>5, <1>6 DEF Unrolled
<1> DEFINE f == CHOOSE f : IsRun(f)
<1>8. IsRun(f)
  BY <1>7
<1>9. RunFrom(p, i, stop) = f[MaxLen]
  BY DEF RunFrom, s
<1> HIDE DEF f
<1>10. f[0] = s /\ \A n \in 1 .. MaxLen : f[n] = Longer(p, f[n - 1], stop)
  BY <1>4, <1>8
<1> HIDE DEF IsRun
<1> DEFINE Good(n) == /\ f[n] \in S /\ f[n].chars <= n
                      /\ f[n].chars = n \/ Char(p, f[n].end, stop) = 0
           T == {n \in Nat : n <= MaxLen => Good(n)}
<1>11. 0 \in T
  BY <1>1, <1>10 DEF s
<1>12. ASSUME NEW n \in Nat, n \in T PROVE n + 1 \in T
  <2> SUFFICES ASSUME n + 1 <= MaxLen PROVE Good(n + 1)
    OBVIOUS
  <2>1. n + 1 \in 1 .. MaxLen /\ (n + 1) - 1 = n /\ n <= MaxLen
    BY <1>4
  <2>2. f[n] \in S /\ f[n].chars <= n /\ (f[n].chars = n \/ Char(p, f[n].end, stop) = 0)
    BY <1>12, <2>1
  <2>3. f[n + 1] = Longer(p, f[n], stop)
    BY <1>10, <2>1
  <2> DEFINE r == f[n]
             q == f[n + 1]
  <2>4. /\ q \in S /\ r \in S /\ r.chars \in Nat
        /\ (q = r /\ Char(p, r.end, stop) = 0) \/ q.chars = r.chars + 1
    <3> HIDE DEF r, q
    <3>1. r \in S /\ q = Longer(p, r, stop)
      BY <2>2, <2>3 DEF r, q
    <3>2. r \in RunSet(p, i, stop)
      BY <3>1 DEF S
    <3>3. r.chars \in Nat
      BY <3>2 DEF RunSet
    <3>4. q \in RunSet(p, i, stop)
      BY <3>1, <3>2, LongerIs
    <3>5. (q = r /\ Char(p, r.end, stop) = 0) \/ q.chars = r.chars + 1
      BY <3>1, <3>2, LongerIs
    <3>6. QED
      BY <3>1, <3>3, <3>4, <3>5 DEF S
  <2>5. q = Longer(p, r, stop)
    BY <2>3
  <2>6. Char(p, r.end, stop) = 0 => Longer(p, r, stop) = r
    BY DEF Longer
  <2>7. r.chars <= n /\ (r.chars = n \/ Char(p, r.end, stop) = 0)
    BY <2>2
  <2> HIDE DEF r, q
  <2>8. q \in S /\ q.chars <= n + 1 /\ (q.chars = n + 1 \/ Char(p, q.end, stop) = 0)
    BY <2>4, <2>5, <2>6, <2>7
  <2>9. QED
    BY <2>8 DEF q
<1> HIDE DEF T
<1>13. MaxLen \in T
  BY <1>4, <1>11, <1>12, Induction
<1>14. Good(MaxLen)
  BY <1>4, <1>13 DEF T
<1>15. QED
  BY <1>9, <1>14 DEF S

(* The run that starts with a character: not empty, and within the data.   *)
LEMMA RunGoesOn ==
    ASSUME NEW p \in TextPasses, NEW i \in Nat, NEW stop \in Nat,
           Char(p, i, stop) # 0, NEW r, r = RunFrom(p, i, stop)
    PROVE  /\ r.end \in Nat /\ r.chars \in Nat \ {0} /\ i < r.end /\ r.end <= stop
           /\ r.chars <= MaxLen
           /\ r.chars = MaxLen \/ Char(p, r.end, stop) = 0
           /\ p # "utf8" => /\ r.end = i + r.chars * Width(p)
                            /\ \A m \in 0 .. r.chars - 1 : Char(p, i + m * Width(p), stop) # 0
<1>1. /\ r \in RunSet(p, i, stop) /\ r.chars <= MaxLen
      /\ r.chars = MaxLen \/ Char(p, r.end, stop) = 0
  BY RunIs
<1>2. /\ r.end \in Nat /\ r.chars \in Nat
      /\ r.chars = 0 => r.end = i
      /\ r.chars # 0 => i < r.end /\ r.end <= stop
      /\ p # "utf8" => /\ r.end = i + r.chars * Width(p)
                       /\ \A m \in 0 .. r.chars - 1 : Char(p, i + m * Width(p), stop) # 0
  BY <1>1 DEF RunSet
<1>3. r.chars # 0
  BY <1>1, <1>2, Bounds
<1>4. QED
  BY <1>1, <1>2, <1>3
-----------------------------------------------------------------------------
(* The order of the passes.                                                *)
LEMMA PassNumbers ==
    /\ PassNo("ascii") = 1 /\ PassNo("utf8") = 2 /\ PassNo("le0") = 3 /\ PassNo("le1") = 4
    /\ PassNo("be0") = 5 /\ PassNo("be1") = 6 /\ PassNo("entropy") = 7 /\ PassNo("next") = 8
<1>1. DOMAIN Passes = 1 .. 8
  BY DEF Passes
<1>2. /\ Passes[1] = "ascii" /\ Passes[2] = "utf8" /\ Passes[3] = "le0" /\ Passes[4] = "le1"
      /\ Passes[5] = "be0" /\ Passes[6] = "be1" /\ Passes[7] = "entropy" /\ Passes[8] = "next"
  BY DEF Passes
<1>3. ASSUME NEW n \in 1 .. 8 PROVE PassNo(Passes[n]) = n
  <2>1. \A m \in 1 .. 8 : Passes[m] = Passes[n] => m = n
    BY <1>2
  <2>2. QED
    BY <1>1, <2>1 DEF PassNo
<1>4. QED
  BY <1>2, <1>3

LEMMA NextPassIs ==
    ASSUME NEW p \in TextPasses
    PROVE  /\ PassNo(p) \in 1 .. 6
           /\ Passes[PassNo(p) + 1] \in TextPasses \cup {"entropy"}
           /\ PassNo(Passes[PassNo(p) + 1]) = PassNo(p) + 1
           /\ \A q \in TextPasses : PassNo(q) = PassNo(p) => q = p
<1>1. /\ Passes[2] = "utf8" /\ Passes[3] = "le0" /\ Passes[4] = "le1"
      /\ Passes[5] = "be0" /\ Passes[6] = "be1" /\ Passes[7] = "entropy"
  BY DEF Passes
<1>2. PassNo(p) \in 1 .. 6 /\ \A q \in TextPasses : PassNo(q) = PassNo(p) => q = p
  BY PassNumbers DEF TextPasses
<1>3. /\ Passes[PassNo(p) + 1] \in TextPasses \cup {"entropy"}
      /\ PassNo(Passes[PassNo(p) + 1]) = PassNo(p) + 1
  BY <1>1, PassNumbers DEF TextPasses
<1>4. QED
  BY <1>2, <1>3

-----------------------------------------------------------------------------
(* Where the scanners are.                                                 *)
First(c, p) == Start(c) + Skew(p)

(* A pass steps from character to character.                               *)
OnGrid(c, p, i) == \E j \in Nat : i = First(c, p) + j * Width(p)

ScanInv ==
    /\ evidence \in [0 .. EvidenceLen - 1 -> Bytes]
    /\ scan \in TextPasses \cup {"entropy", "next"}
    /\ Done \/ chunk \in Ids
    /\ Text => pos \in Nat /\ pos <= Stop(chunk) + 2 /\ OnGrid(chunk, scan, pos)
    /\ scan = "entropy" => /\ pos \in Nat /\ pos <= OwnStop(chunk)
                           /\ \E m \in Nat : pos = Start(chunk) + m * Window
    /\ Done => pos \in 0 .. EvidenceLen

(* Pass p has left chunk c behind, or position i of it.                    *)
Passed(c, p) == Done \/ c < chunk \/ (c = chunk /\ PassNo(p) < PassNo(scan))
Behind(c, p, i) == Passed(c, p) \/ (c = chunk /\ p = scan /\ i < pos)

LEMMA Scanning ==
    ASSUME ScanInv, Text
    PROVE  /\ scan \in TextPasses /\ chunk \in Ids /\ chunk \in Nat /\ ~Done
           /\ pos \in Nat /\ pos <= Stop(chunk) + 2 /\ OnGrid(chunk, scan, pos)
           /\ Start(chunk) \in Nat /\ Stop(chunk) \in Nat /\ Stop(chunk) <= EvidenceLen
           /\ Start(chunk) <= pos
<1>1. /\ scan \in TextPasses /\ chunk \in Ids /\ ~Done
      /\ pos \in Nat /\ pos <= Stop(chunk) + 2 /\ OnGrid(chunk, scan, pos)
  BY DEF ScanInv, Text, Done
<1>2. chunk \in Nat /\ Start(chunk) \in Nat /\ Stop(chunk) \in Nat /\ Stop(chunk) <= EvidenceLen
  BY <1>1, IdIs, ChunkIs
<1>3. Start(chunk) <= pos
  BY <1>1, <1>2 DEF OnGrid, First, Skew, Width
<1>4. QED
  BY <1>1, <1>2, <1>3

(* One step of a pass: behind a byte, or behind a run.                     *)
LEMMA Advances ==
    ASSUME ScanInv, Skip \/ Run
    PROVE  /\ Text /\ pos' \in Nat /\ pos < pos' /\ pos' <= Stop(chunk) + 2
           /\ OnGrid(chunk, scan, pos')
           /\ evidence' = evidence /\ chunk' = chunk /\ scan' = scan
           /\ region' = region /\ regions' = regions
           /\ \A i \in Nat :
                scan # "utf8" /\ OnGrid(chunk, scan, i) /\ pos < i /\ i < pos'
                  => \/ Char(scan, i, Stop(chunk)) = 0
                     \/ i >= Width(scan) /\ Char(scan, i - Width(scan), Stop(chunk)) # 0
<1>1. /\ Text /\ pos + Width(scan) <= Stop(chunk)
      /\ evidence' = evidence /\ chunk' = chunk /\ scan' = scan
      /\ region' = region /\ regions' = regions
  <2>1. /\ Text /\ ~Exhausted(scan, pos)
        /\ evidence' = evidence /\ chunk' = chunk /\ scan' = scan
        /\ region' = region /\ regions' = regions
    BY DEF Skip, Run
  <2>2. QED
    BY <2>1, Scanning DEF Exhausted, Width
<1> DEFINE w == Width(scan)
           stop == Stop(chunk)
           first == First(chunk, scan)
<1>2. /\ scan \in TextPasses /\ pos \in Nat /\ stop \in Nat /\ w \in {1, 2} /\ first \in Nat
      /\ scan \in {"ascii", "utf8"} <=> w = 1
  BY <1>1, Scanning DEF Width, First, Skew
<1>3. PICK j \in Nat : pos = first + j * w
  BY <1>1, Scanning DEF OnGrid
<1>4. CASE Skip
  <2>1. pos' = pos + Stride(scan, pos, stop)
    BY <1>4 DEF Skip
  <2>2. CASE scan # "utf8"
    <3>1. pos' = pos + w
      BY <2>1, <2>2 DEF Stride
    <3>2. pos' = first + (j + 1) * w
      BY <1>2, <1>3, <3>1
    <3>3. ASSUME NEW i \in Nat, OnGrid(chunk, scan, i), pos < i, i < pos' PROVE FALSE
      <4>1. PICK l \in Nat : i = first + l * w
        BY <3>3 DEF OnGrid
      <4> HIDE DEF first, w
      <4>2. QED
        BY <1>2, <1>3, <3>1, <3>3, <4>1
    <3>4. OnGrid(chunk, scan, pos')
      BY <3>2 DEF OnGrid
    <3>5. QED
      BY <1>1, <1>2, <3>1, <3>3, <3>4
  <2>3. CASE scan = "utf8"
    <3>1. Stride(scan, pos, stop) \in {1, 2}
      BY <2>3 DEF Stride, Decoded, Max2
    <3>2. pos' \in Nat /\ pos < pos' /\ pos' <= stop + 2 /\ w = 1
      BY <1>1, <1>2, <2>1, <2>3, <3>1
    <3>3. pos' = first + (pos' - first) * w /\ pos' - first \in Nat
      BY <1>2, <1>3, <3>2
    <3>4. OnGrid(chunk, scan, pos')
      BY <3>3 DEF OnGrid
    <3>5. QED
      BY <1>1, <2>3, <3>2, <3>4
  <2>4. QED
    BY <2>2, <2>3
<1>5. CASE Run
  <2> DEFINE r == RunFrom(scan, pos, stop)
  <2>1. Char(scan, pos, stop) # 0 /\ pos' = ResumeAt(scan, r)
    BY <1>5 DEF Run
  <2>2. /\ r.end \in Nat /\ r.chars \in Nat \ {0} /\ pos < r.end /\ r.end <= stop
        /\ r.chars = MaxLen \/ Char(scan, r.end, stop) = 0
        /\ scan # "utf8" => /\ r.end = pos + r.chars * w
                            /\ \A m \in 0 .. r.chars - 1 : Char(scan, pos + m * w, stop) # 0
    BY <1>2, <2>1, RunGoesOn
  <2>3. \/ pos' = r.end
        \/ w = 2 /\ pos' = r.end + 2 /\ r.chars # MaxLen
    BY <1>2, <2>1 DEF ResumeAt
  <2> HIDE DEF r
  <2>4. pos' \in Nat /\ pos < pos' /\ pos' <= stop + 2
    BY <1>2, <2>2, <2>3
  <2>5. OnGrid(chunk, scan, pos')
    <3>1. CASE scan = "utf8"
      <4>1. w = 1 /\ pos' - first \in Nat /\ pos' = first + (pos' - first) * w
        BY <1>2, <1>3, <2>4, <3>1
      <4>2. QED
        BY <4>1 DEF OnGrid
    <3>2. CASE scan # "utf8"
      <4>1. pos' = first + (j + r.chars) * w \/ pos' = first + (j + r.chars + 1) * w
        BY <1>2, <1>3, <2>2, <2>3, <3>2
      <4>2. QED
        BY <2>2, <4>1 DEF OnGrid
    <3>3. QED
      BY <3>1, <3>2
  <2>6. ASSUME NEW i \in Nat, scan # "utf8", OnGrid(chunk, scan, i), pos < i, i < pos'
        PROVE  \/ Char(scan, i, stop) = 0
               \/ i >= w /\ Char(scan, i - w, stop) # 0
    <3>1. PICK l \in Nat : i = first + l * w
      BY <2>6 DEF OnGrid
    <3> DEFINE m == l - j - 1
    <3>2. m \in Nat /\ i = pos + (m + 1) * w /\ i - w = pos + m * w /\ i >= w
      <4> HIDE DEF first, w
      <4>1. l > j
        BY <1>2, <1>3, <2>6, <3>1
      <4>2. QED
        BY <1>2, <1>3, <3>1, <4>1
    <3>3. CASE m < r.chars
      <4>1. m \in 0 .. r.chars - 1
        BY <2>2, <3>2, <3>3
      <4>2. Char(scan, pos + m * w, stop) # 0
        BY <2>2, <2>6, <4>1
      <4>3. QED
        BY <3>2, <4>2
    <3>4. CASE m >= r.chars
      <4> HIDE DEF m, w
      <4>1. i >= pos + r.chars * w + w
        BY <1>2, <2>2, <3>2, <3>4
      <4>2. FALSE
        BY <1>2, <2>2, <2>3, <2>6, <4>1
      <4>3. QED
        BY <4>2
    <3>5. QED
      BY <2>2, <3>2, <3>3, <3>4
  <2>7. QED
    BY <1>1, <2>4, <2>5, <2>6
<1>6. QED
  BY <1>4, <1>5

LEMMA ScanStarts == Init => ScanInv
<1> SUFFICES ASSUME Init PROVE ScanInv
  OBVIOUS
<1>1. CASE EvidenceLen = 0
  <2>1. scan = "next" /\ pos = 0 /\ Done /\ ~Text /\ evidence \in [0 .. EvidenceLen - 1 -> Bytes]
    BY <1>1 DEF Init, Done, Text
  <2>2. QED
    BY <1>1, <2>1 DEF ScanInv
<1>2. CASE EvidenceLen # 0
  <2>1. /\ scan = "ascii" /\ pos = 0 /\ chunk = 0 /\ ~Done
        /\ evidence \in [0 .. EvidenceLen - 1 -> Bytes]
    BY <1>2 DEF Init, Done
  <2>2. 0 \in Ids /\ Start(0) = 0 /\ Stop(0) \in Nat
    BY <1>2, FirstChunkIs, ChunkIs
  <2>3. OnGrid(0, "ascii", 0)
    <3>1. 0 = First(0, "ascii") + 0 * Width("ascii")
      BY <2>2 DEF First, Skew, Width
    <3>2. QED
      BY <3>1 DEF OnGrid
  <2>4. QED
    BY <2>1, <2>2, <2>3 DEF ScanInv, TextPasses
<1>3. QED
  BY <1>1, <1>2

(* A pass over a chunk starts at its first position.                       *)
LEMMA FirstFits ==
    ASSUME NEW c \in Ids, NEW p \in TextPasses
    PROVE  /\ First(c, p) \in Nat /\ Start(c) <= First(c, p) /\ First(c, p) <= Stop(c) + 2
           /\ OnGrid(c, p, First(c, p))
<1>1. Start(c) \in Nat /\ Stop(c) \in Nat /\ Start(c) <= Stop(c)
  BY ChunkIs
<1>2. First(c, p) \in Nat /\ Start(c) <= First(c, p) /\ First(c, p) <= Stop(c) + 2
  BY <1>1 DEF First, Skew
<1>3. First(c, p) = First(c, p) + 0 * Width(p)
  BY <1>2 DEF Width
<1>4. QED
  BY <1>2, <1>3 DEF OnGrid

LEMMA GridIs ==
    ASSUME NEW c \in Ids, NEW p \in TextPasses, NEW i, OnGrid(c, p, i)
    PROVE  i \in Nat /\ Start(c) <= i /\ First(c, p) <= i
<1>1. PICK j \in Nat : i = First(c, p) + j * Width(p)
  BY DEF OnGrid
<1>2. First(c, p) \in Nat /\ Start(c) <= First(c, p) /\ Start(c) \in Nat
  BY FirstFits, ChunkIs
<1>3. Width(p) \in {1, 2}
  BY DEF Width
<1> HIDE DEF First, Width
<1>4. QED
  BY <1>1, <1>2, <1>3

LEMMA ScanKeeps == ScanInv /\ [Next]_vars => ScanInv'
<1> SUFFICES ASSUME ScanInv, [Next]_vars PROVE ScanInv'
  OBVIOUS
<1>1. CASE Skip \/ Run
  <2>1. /\ Text /\ pos' \in Nat /\ pos' <= Stop(chunk) + 2 /\ OnGrid(chunk, scan, pos')
        /\ evidence' = evidence /\ chunk' = chunk /\ scan' = scan
    BY <1>1, Advances
  <2>2. OnGrid(chunk', scan', pos') /\ pos' <= Stop(chunk') + 2
    BY <2>1
  <2>3. chunk' \in Ids /\ scan' \in TextPasses
    BY <2>1, Scanning
  <2>4. QED
    BY <2>1, <2>2, <2>3 DEF ScanInv, Done, TextPasses
<1>2. CASE NextPass
  <2> DEFINE q == Passes[PassNo(scan) + 1]
  <2>1. /\ Text /\ evidence' = evidence /\ chunk' = chunk
        /\ scan' = q /\ pos' = First(chunk, scan')
    BY <1>2 DEF NextPass, First
  <2>2. scan \in TextPasses /\ chunk \in Ids /\ q \in TextPasses \cup {"entropy"}
    BY <2>1, Scanning, NextPassIs
  <2> HIDE DEF q
  <2>3. CASE q \in TextPasses
    <3>1. /\ First(chunk, q) \in Nat /\ First(chunk, q) <= Stop(chunk) + 2
          /\ OnGrid(chunk, q, First(chunk, q))
      BY <2>2, <2>3, FirstFits
    <3>2. pos' \in Nat /\ pos' <= Stop(chunk') + 2 /\ OnGrid(chunk', scan', pos')
      BY <2>1, <3>1
    <3>3. QED
      BY <2>1, <2>2, <2>3, <3>2 DEF ScanInv, Done, TextPasses
  <2>4. CASE q = "entropy"
    <3>1. pos' = Start(chunk) /\ pos' \in Nat /\ pos' <= OwnStop(chunk)
      BY <2>1, <2>2, <2>4, ChunkIs DEF First, Skew
    <3>2. pos' = Start(chunk') + 0 * Window
      BY <2>1, <3>1, Bounds
    <3>3. QED
      BY <2>1, <2>2, <2>4, <3>1, <3>2 DEF ScanInv, Done, Text
  <2>5. QED
    BY <2>2, <2>3, <2>4
<1>3. CASE WindowHigh \/ WindowLow
  <2>1. /\ scan = "entropy" /\ pos + Window <= OwnStop(chunk) /\ pos' = pos + Window
        /\ evidence' = evidence /\ chunk' = chunk /\ scan' = scan
    BY <1>3 DEF WindowHigh, WindowLow
  <2>2. chunk \in Ids /\ pos \in Nat /\ \E m \in Nat : pos = Start(chunk) + m * Window
    BY <2>1 DEF ScanInv, Done
  <2>3. PICK m \in Nat : pos = Start(chunk) + m * Window
    BY <2>2
  <2>4. pos' = Start(chunk') + (m + 1) * Window /\ pos' \in Nat
    <3>1. (m + 1) * Window = m * Window + Window /\ m * Window \in Nat /\ Start(chunk) \in Nat
      BY <2>2, Bounds, ProductStep, ChunkIs
    <3>2. QED
      BY <2>1, <2>3, <3>1, Bounds
  <2>5. \E l \in Nat : pos' = Start(chunk') + l * Window
    BY <2>4
  <2>6. QED
    BY <2>1, <2>2, <2>4, <2>5 DEF ScanInv, Done, Text
<1>4. CASE NextChunk
  <2>1. scan = "entropy" /\ evidence' = evidence
    BY <1>4 DEF NextChunk
  <2>2. CASE chunk + 1 \in Ids
    <3>1. chunk' = chunk + 1 /\ scan' = "ascii" /\ pos' = Start(chunk + 1)
      BY <1>4, <2>2 DEF NextChunk
    <3>2. First(chunk + 1, "ascii") = Start(chunk + 1)
      BY <2>2, ChunkIs DEF First, Skew
    <3>3. pos' \in Nat /\ pos' <= Stop(chunk') + 2 /\ OnGrid(chunk', scan', pos')
      BY <2>2, <3>1, <3>2, FirstFits DEF TextPasses
    <3>4. QED
      BY <2>1, <2>2, <3>1, <3>3 DEF ScanInv, Done, TextPasses
  <2>3. CASE chunk + 1 \notin Ids
    <3>1. scan' = "next" /\ pos' = EvidenceLen
      BY <1>4, <2>3 DEF NextChunk
    <3>2. QED
      BY <2>1, <3>1, Bounds DEF ScanInv, Done, Text
  <2>4. QED
    BY <2>2, <2>3
<1>5. CASE UNCHANGED vars
  <2>1. evidence' = evidence /\ chunk' = chunk /\ scan' = scan /\ pos' = pos
    BY <1>5 DEF vars
  <2>2. QED
    BY <2>1 DEF ScanInv, Done, Text, OnGrid
<1>6. QED
  BY <1>1, <1>2, <1>3, <1>4, <1>5 DEF Next

(* The bytes do not change, and what is read off them does not.            *)
LEMMA BytesStay ==
    ASSUME [Next]_vars
    PROVE  /\ evidence' = evidence
           /\ \A p, i, stop : /\ Char(p, i, stop)' = Char(p, i, stop)
                              /\ RunFrom(p, i, stop)' = RunFrom(p, i, stop)
                              /\ Chars(p, i, stop)' = Chars(p, i, stop)
           /\ \A p, i : Begins(p, i)' = Begins(p, i)
           /\ \A i : High(i)' = High(i)
<1>1. evidence' = evidence
  BY DEF Next, Skip, Run, NextPass, WindowHigh, WindowLow, NextChunk, vars
<1>2. ASSUME NEW p, NEW i, NEW stop PROVE Char(p, i, stop)' = Char(p, i, stop)
  BY <1>1 DEF Char, Decoded, Letter, Width
<1>3. ASSUME NEW p, NEW i, NEW stop PROVE RunFrom(p, i, stop)' = RunFrom(p, i, stop)
  BY <1>1 DEF RunFrom, Longer, Char, Decoded, Letter, Width
<1>4. ASSUME NEW p, NEW i, NEW n PROVE Chars(p, i, n)' = Chars(p, i, n)
  BY <1>2 DEF Chars
<1>5. ASSUME NEW p, NEW i PROVE Begins(p, i)' = Begins(p, i)
  BY <1>2 DEF Begins
<1>6. ASSUME NEW i PROVE High(i)' = High(i)
  BY <1>1 DEF High
<1>7. QED
  BY <1>1, <1>2, <1>3, <1>4, <1>5, <1>6

(* What the scanners have behind them grows, by what a step of a pass      *)
(* reads; where a pass ends, no character is left.                         *)
LEMMA BehindGrows ==
    ASSUME ScanInv, [Next]_vars, NEW c \in Ids, NEW p \in TextPasses, NEW i \in Int
    PROVE  /\ Behind(c, p, i) => Behind(c, p, i)'
           /\ /\ Behind(c, p, i)' /\ OnGrid(c, p, i) /\ Char(p, i, Stop(c)) # 0
              => \/ Behind(c, p, i)
                 \/ (Skip \/ Run) /\ c = chunk /\ p = scan /\ pos <= i /\ i < pos'
<1>1. c \in Nat /\ PassNo(p) \in 1 .. 6
  BY IdIs, NextPassIs
<1>2. CASE Skip \/ Run
  <2>1. /\ ~Done /\ pos \in Nat /\ pos' \in Nat /\ pos < pos' /\ chunk' = chunk /\ scan' = scan
    BY <1>2, Advances, Scanning
  <2>2. Passed(c, p)' = Passed(c, p)
    BY <2>1 DEF Passed, Done
  <2>3. QED
    BY <1>2, <2>1, <2>2 DEF Behind
<1>3. CASE NextPass
  <2>1. /\ Text /\ ~Done /\ chunk' = chunk /\ pos' = First(chunk, scan')
        /\ scan' = Passes[PassNo(scan) + 1] /\ Exhausted(scan, pos)
    BY <1>3 DEF NextPass, First, Text, Done
  <2>2. /\ scan \in TextPasses /\ chunk \in Ids /\ chunk \in Nat /\ pos \in Nat /\ Stop(chunk) \in Nat
        /\ Start(chunk) \in Nat
    BY <2>1, Scanning
  <2>3. /\ scan' \in TextPasses \cup {"entropy"} /\ PassNo(scan') = PassNo(scan) + 1
        /\ PassNo(scan) \in 1 .. 6
        /\ PassNo(scan) = PassNo(p) => p = scan
    BY <2>1, <2>2, NextPassIs
  <2>4. ~Done'
    BY <2>3 DEF Done, TextPasses
  <2>5. Behind(c, p, i) => Behind(c, p, i)'
    <3>1. CASE Passed(c, p)
      BY <1>1, <2>1, <2>2, <2>3, <3>1 DEF Passed, Behind
    <3>2. CASE c = chunk /\ p = scan /\ i < pos
      BY <1>1, <2>1, <2>2, <2>3, <3>2 DEF Passed, Behind
    <3>3. QED
      BY <3>1, <3>2 DEF Behind
  <2>6. ASSUME Behind(c, p, i)', OnGrid(c, p, i), ~Behind(c, p, i), Char(p, i, Stop(c)) # 0
        PROVE  FALSE
    <3>1. ~(c < chunk) /\ ~(c = chunk /\ PassNo(p) < PassNo(scan)) /\ ~(c = chunk /\ p = scan /\ i < pos)
      BY <2>6 DEF Behind, Passed
    <3>2. i >= First(c, p) /\ i \in Nat
      BY <2>6, GridIs
    <3>3. c = chunk /\ (PassNo(p) < PassNo(scan) + 1 \/ (p = scan' /\ i < pos'))
      BY <2>1, <2>3, <2>4, <2>6, <3>1 DEF Behind, Passed
    <3>4. CASE p = scan' /\ i < pos'
      BY <2>1, <2>2, <3>2, <3>3, <3>4 DEF First, Skew
    <3>5. CASE PassNo(p) < PassNo(scan) + 1
      <4>1. p = scan /\ i >= pos
        BY <1>1, <2>2, <2>3, <3>1, <3>3, <3>5
      <4>2. i + Width(p) > Stop(c)
        BY <2>1, <2>2, <3>3, <4>1 DEF Exhausted, Width
      <4>3. Char(p, i, Stop(c)) = 0
        BY <2>2, <3>2, <3>3, <4>2 DEF Char, Width
      <4>4. QED
        BY <2>6, <4>3
    <3>6. QED
      BY <3>3, <3>4, <3>5
  <2>7. QED
    BY <2>5, <2>6
<1>4. CASE WindowHigh \/ WindowLow
  <2>1. /\ scan = "entropy" /\ chunk' = chunk /\ scan' = scan
    BY <1>4 DEF WindowHigh, WindowLow
  <2>2. Behind(c, p, i)' = Behind(c, p, i)
    BY <2>1 DEF Behind, Passed, Done, TextPasses
  <2>3. QED
    BY <2>2
<1>5. CASE NextChunk
  <2>1. scan = "entropy" /\ ~Done /\ chunk \in Ids /\ chunk \in Nat /\ PassNo(scan) = 7
    BY <1>5, IdIs, PassNumbers DEF NextChunk, ScanInv, Done
  <2>2. CASE chunk + 1 \in Ids
    <3>1. /\ chunk' = chunk + 1 /\ scan' = "ascii" /\ pos' = Start(chunk + 1) /\ ~Done'
          /\ PassNo(scan') = 1
      BY <1>5, <2>2, PassNumbers DEF NextChunk, Done
    <3>2. Behind(c, p, i) => Behind(c, p, i)'
      BY <1>1, <2>1, <3>1 DEF Behind, Passed, TextPasses
    <3>3. ASSUME Behind(c, p, i)', OnGrid(c, p, i), ~Behind(c, p, i) PROVE FALSE
      <4>1. ~(c < chunk) /\ ~(c = chunk /\ PassNo(p) < 7)
        BY <2>1, <3>3 DEF Behind, Passed
      <4>2. c = chunk + 1 /\ p = "ascii" /\ i < Start(chunk + 1)
        BY <1>1, <2>1, <3>1, <3>3, <4>1 DEF Behind, Passed
      <4>3. i >= Start(c) /\ Start(c) \in Nat
        BY <3>3, GridIs, ChunkIs
      <4>4. QED
        BY <4>2, <4>3
    <3>4. QED
      BY <3>2, <3>3
  <2>3. CASE chunk + 1 \notin Ids
    <3>1. Done'
      BY <1>5, <2>3 DEF NextChunk, Done
    <3>2. c <= chunk
      BY <2>1, <2>3, LastChunk
    <3>3. Behind(c, p, i)
      BY <1>1, <2>1, <3>2 DEF Behind, Passed
    <3>4. Behind(c, p, i)'
      BY <3>1 DEF Behind, Passed
    <3>5. QED
      BY <3>3, <3>4
  <2>4. QED
    BY <2>2, <2>3
<1>6. CASE UNCHANGED vars
  <2>1. chunk' = chunk /\ scan' = scan /\ pos' = pos
    BY <1>6 DEF vars
  <2>2. Behind(c, p, i)' = Behind(c, p, i)
    BY <2>1 DEF Behind, Passed, Done
  <2>3. QED
    BY <2>2
<1>7. QED
  BY <1>2, <1>3, <1>4, <1>5, <1>6 DEF Next

(* The first MinLen characters of a string that begins in a chunk's own    *)
(* part are in the chunk's data when the overlap reaches so far.           *)
LEMMA StringFits ==
    ASSUME NEW p \in TextPasses \ {"utf8"}, NEW c \in Ids, NEW i \in Owned(c),
           Overlap >= Width(p) * MinLen - 1, Chars(p, i, MinLen)
    PROVE  /\ i \in Nat
           /\ \A m \in 0 .. MinLen - 1 : Char(p, i + m * Width(p), Stop(c)) # 0
<1> DEFINE w == Width(p)
           last == i + (MinLen - 1) * w
<1>1. /\ w \in {1, 2} /\ i \in Nat /\ Start(c) <= i /\ i < OwnStop(c)
      /\ OwnStop(c) \in Nat /\ Stop(c) \in Nat
  BY ChunkIs DEF Width
<1>2. \A m \in 0 .. MinLen - 1 : Char(p, i + m * w, EvidenceLen) # 0
  BY DEF Chars
<1>3. last \in Nat /\ Char(p, last, EvidenceLen) # 0
  BY <1>1, <1>2, Bounds
<1>4. last + w <= EvidenceLen
  BY <1>3, CharIs, Bounds
<1>5. last + w <= Stop(c)
  <2>1. last + w \in Nat /\ last + w <= OwnStop(c) + Overlap
    BY <1>1, Bounds
  <2>2. QED
    BY <1>4, <2>1, ChunkIs
<1>6. ASSUME NEW m \in 0 .. MinLen - 1 PROVE Char(p, i + m * w, Stop(c)) # 0
  <2>1. i + m * w \in Nat /\ i + m * w + w <= last + w
    BY <1>1, Bounds
  <2>2. i + m * w + w <= Stop(c)
    BY <1>1, <1>3, <1>5, <2>1
  <2>3. QED
    BY <1>1, <1>2, <2>1, <2>2, CharFits, Bounds
<1>7. QED
  BY <1>1, <1>6
-----------------------------------------------------------------------------
(* The strings.                                                            *)
SpanInv ==
    \A s \in spans :
        /\ s \in SpanSet /\ s.from \in Owned(s.chunk) /\ OnGrid(s.chunk, s.pass, s.from)
        /\ Char(s.pass, s.from, Stop(s.chunk)) # 0
        /\ RunFrom(s.pass, s.from, Stop(s.chunk)).end = s.to
        /\ Behind(s.chunk, s.pass, s.to - 1)

ApartInv ==
    \A s, t \in spans :
        s # t /\ s.pass = t.pass /\ s.chunk = t.chunk => s.to <= t.from \/ t.to <= s.from

(* The span of the run at pos.                                             *)
RunHere == [pass |-> scan, chunk |-> chunk, from |-> pos,
            to |-> RunFrom(scan, pos, Stop(chunk)).end]

LEMMA SpansGrow ==
    ASSUME [Next]_vars
    PROVE  /\ spans \subseteq spans'
           /\ \A s \in spans' \ spans :
                Run /\ s = RunHere /\ pos \in Owned(chunk) /\ Char(scan, pos, Stop(chunk)) # 0
<1>1. CASE Run
  <2> DEFINE r == RunFrom(scan, pos, Stop(chunk))
             s == [pass |-> scan, chunk |-> chunk, from |-> pos, to |-> r.end]
  <2>1. /\ Char(scan, pos, Stop(chunk)) # 0
        /\ \/ spans' = spans
           \/ spans' = spans \cup {s} /\ Kept(pos)
    BY <1>1 DEF Run
  <2>2. s = RunHere
    BY DEF RunHere
  <2> HIDE DEF s
  <2>3. QED
    BY <1>1, <2>1, <2>2 DEF Kept
<1>2. CASE ~Run
  <2>1. spans' = spans
    BY <1>2 DEF Next, Skip, NextPass, WindowHigh, WindowLow, NextChunk, vars
  <2>2. QED
    BY <2>1
<1>3. QED
  BY <1>1, <1>2

(* What a step of Run knows of the span it may keep.                       *)
LEMMA RunHereIs ==
    ASSUME ScanInv, Run, NEW s, s = RunHere
    PROVE  /\ s.pass = scan /\ s.chunk = chunk /\ s.from = pos /\ s \in SpanSet
           /\ s.to = RunFrom(scan, pos, Stop(chunk)).end
           /\ pos < s.to /\ s.to <= pos' /\ s.to <= Stop(chunk)
<1>1. /\ scan \in TextPasses /\ chunk \in Ids /\ pos \in Nat /\ Stop(chunk) \in Nat
      /\ Stop(chunk) <= EvidenceLen
  BY Scanning DEF Run
<1> DEFINE r == RunFrom(scan, pos, Stop(chunk))
<1>2. Char(scan, pos, Stop(chunk)) # 0 /\ pos' = ResumeAt(scan, r)
  BY DEF Run
<1>3. r.end \in Nat /\ pos < r.end /\ r.end <= Stop(chunk)
  BY <1>1, <1>2, RunGoesOn
<1>4. r.end <= pos'
  <2> HIDE DEF r
  <2>1. QED
    BY <1>2, <1>3 DEF ResumeAt
<1> HIDE DEF r
<1>5. s = [pass |-> scan, chunk |-> chunk, from |-> pos, to |-> r.end]
  BY DEF RunHere, r
<1>6. s \in SpanSet
  BY <1>1, <1>3, <1>5, Bounds DEF SpanSet, TextPasses
<1>7. QED
  BY <1>3, <1>4, <1>5, <1>6 DEF r

LEMMA SpansKeep == ScanInv /\ SpanInv /\ [Next]_vars => SpanInv'
<1> SUFFICES ASSUME ScanInv, SpanInv, [Next]_vars, NEW s \in spans'
             PROVE  /\ s \in SpanSet /\ s.from \in Owned(s.chunk) /\ OnGrid(s.chunk, s.pass, s.from)
                    /\ Char(s.pass, s.from, Stop(s.chunk))' # 0
                    /\ RunFrom(s.pass, s.from, Stop(s.chunk))'.end = s.to
                    /\ Behind(s.chunk, s.pass, s.to - 1)'
  BY DEF SpanInv
<1>1. CASE s \in spans
  <2>1. /\ s \in SpanSet /\ s.from \in Owned(s.chunk) /\ OnGrid(s.chunk, s.pass, s.from)
        /\ Char(s.pass, s.from, Stop(s.chunk)) # 0
        /\ RunFrom(s.pass, s.from, Stop(s.chunk)).end = s.to
        /\ Behind(s.chunk, s.pass, s.to - 1)
    BY <1>1 DEF SpanInv
  <2>2. s.chunk \in Ids /\ s.pass \in TextPasses /\ s.to - 1 \in Int
    BY <2>1, Bounds DEF SpanSet, TextPasses
  <2>3. Behind(s.chunk, s.pass, s.to - 1)'
    BY <2>1, <2>2, BehindGrows
  <2>4. QED
    BY <2>1, <2>3, BytesStay
<1>2. CASE s \notin spans
  <2>1. Run /\ s = RunHere /\ pos \in Owned(chunk) /\ Char(scan, pos, Stop(chunk)) # 0
    BY <1>2, SpansGrow
  <2>2. /\ s.pass = scan /\ s.chunk = chunk /\ s.from = pos /\ s \in SpanSet
        /\ s.to = RunFrom(scan, pos, Stop(chunk)).end
        /\ pos < s.to /\ s.to <= pos'
    BY <2>1, RunHereIs
  <2>3. /\ OnGrid(chunk, scan, pos) /\ chunk' = chunk /\ scan' = scan /\ pos' \in Nat
    BY <2>1, Advances, Scanning
  <2>4. Behind(s.chunk, s.pass, s.to - 1)'
    <3>1. s.to \in Nat
      BY <2>2, Bounds DEF SpanSet
    <3>2. QED
      BY <2>2, <2>3, <3>1 DEF Behind
  <2>5. Char(s.pass, s.from, Stop(s.chunk)) # 0 /\ RunFrom(s.pass, s.from, Stop(s.chunk)).end = s.to
    BY <2>1, <2>2
  <2>6. QED
    BY <2>1, <2>2, <2>3, <2>4, <2>5, BytesStay
<1>3. QED
  BY <1>1, <1>2

LEMMA ApartKeeps == ScanInv /\ SpanInv /\ ApartInv /\ [Next]_vars => ApartInv'
<1> SUFFICES ASSUME ScanInv, SpanInv, ApartInv, [Next]_vars PROVE ApartInv'
  OBVIOUS
<1>1. ASSUME NEW s \in spans' \ spans, NEW t \in spans, s.pass = t.pass, s.chunk = t.chunk
      PROVE  t.to <= s.from
  <2>1. Run /\ s = RunHere
    BY <1>1, SpansGrow
  <2>2. s.pass = scan /\ s.chunk = chunk /\ s.from = pos
    BY <2>1, RunHereIs
  <2>3. ~Done /\ chunk \in Nat /\ PassNo(scan) \in Nat /\ pos \in Nat
    BY <2>1, Scanning, NextPassIs DEF Run
  <2>4. Behind(chunk, scan, t.to - 1) /\ t.to \in Nat
    <3>1. t \in SpanSet /\ Behind(t.chunk, t.pass, t.to - 1)
      BY DEF SpanInv
    <3>2. t.to \in Nat
      BY <3>1, Bounds DEF SpanSet
    <3>3. t.chunk = chunk /\ t.pass = scan
      BY <1>1, <2>2
    <3>4. QED
      BY <3>1, <3>2, <3>3
  <2>5. t.to - 1 < pos
    BY <2>3, <2>4 DEF Behind, Passed
  <2>6. QED
    BY <2>2, <2>3, <2>4, <2>5
<1>2. \A s, t \in spans' \ spans : s = t
  BY SpansGrow
<1>3. QED
  BY <1>1, <1>2 DEF ApartInv

(* Every true start of a string that a pass has behind it is kept.         *)
FoundInv ==
    \A c \in Ids : \A p \in TextPasses \ {"utf8"} : \A i \in Owned(c) :
        /\ OnGrid(c, p, i) /\ Behind(c, p, i)
        /\ MinLen <= MaxLen /\ Overlap >= Width(p) * MinLen - 1
        /\ Begins(p, i) /\ Chars(p, i, MinLen)
        => \E s \in spans : s.pass = p /\ s.from = i

(* So is every stretch of text of the least length.                        *)
CoveredInv ==
    \A c \in Ids : \A i \in Owned(c) :
        /\ Behind(c, "ascii", i)
        /\ MinLen <= MaxLen /\ Overlap >= MinLen - 1 /\ Chars("ascii", i, MinLen)
        => \E s \in spans : s.pass = "ascii" /\ s.from < i + MinLen /\ i < s.to

(* A run is kept when it starts in the chunk's own part and is long enough.*)
LEMMA RunKept ==
    ASSUME ScanInv, Run, scan # "utf8", pos \in Owned(chunk),
           RunFrom(scan, pos, Stop(chunk)).chars >= MinLen
    PROVE  RunHere \in spans'
<1> DEFINE r == RunFrom(scan, pos, Stop(chunk))
           s == [pass |-> scan, chunk |-> chunk, from |-> pos, to |-> r.end]
<1>1. Reported(scan, pos, r) /\ Kept(pos)
  BY DEF Reported, Kept
<1>2. spans' = spans \cup {s}
  BY <1>1 DEF Run
<1>3. s = RunHere
  BY DEF RunHere
<1> HIDE DEF s
<1>4. QED
  BY <1>2, <1>3

LEMMA FoundKeeps == ScanInv /\ FoundInv /\ [Next]_vars => FoundInv'
<1> SUFFICES ASSUME ScanInv, FoundInv, [Next]_vars,
                    NEW c \in Ids, NEW p \in TextPasses \ {"utf8"}, NEW i \in Owned(c),
                    OnGrid(c, p, i), Behind(c, p, i)',
                    MinLen <= MaxLen, Overlap >= Width(p) * MinLen - 1,
                    Begins(p, i)', Chars(p, i, MinLen)'
             PROVE  \E s \in spans' : s.pass = p /\ s.from = i
  BY DEF FoundInv
<1>1. Begins(p, i) /\ Chars(p, i, MinLen)
  BY BytesStay
<1> DEFINE w == Width(p)
<1>2. i \in Nat /\ \A m \in 0 .. MinLen - 1 : Char(p, i + m * w, Stop(c)) # 0
  BY <1>1, StringFits
<1>3. w \in {1, 2} /\ Char(p, i, Stop(c)) # 0
  <2>1. w \in {1, 2}
    BY DEF Width
  <2>2. 0 \in 0 .. MinLen - 1 /\ i + 0 * w = i
    BY <1>2, <2>1, Bounds
  <2>3. QED
    BY <1>2, <2>1, <2>2
<1>4. Stop(c) \in Nat /\ Stop(c) <= EvidenceLen
  BY ChunkIs
<1>5. CASE Behind(c, p, i)
  <2>1. PICK s \in spans : s.pass = p /\ s.from = i
    BY <1>1, <1>5 DEF FoundInv
  <2>2. s \in spans'
    BY SpansGrow
  <2>3. QED
    BY <2>1, <2>2
<1>6. CASE ~Behind(c, p, i)
  <2>1. (Skip \/ Run) /\ c = chunk /\ p = scan /\ pos <= i /\ i < pos'
    BY <1>2, <1>3, <1>6, BehindGrows
  <2>2. pos \in Nat
    BY <2>1, Advances, Scanning
  <2>3. i = pos
    <3>1. SUFFICES ASSUME pos < i PROVE FALSE
      BY <1>2, <2>1, <2>2
    <3>2. i >= w /\ Char(p, i - w, Stop(c)) # 0
      BY <1>2, <1>3, <2>1, <3>1, Advances
    <3>3. Char(p, i - w, EvidenceLen) # 0
      <4>1. i - w \in Nat /\ EvidenceLen \in Nat /\ Stop(c) \in Nat
        BY <1>2, <1>3, <1>4, <3>2, Bounds
      <4>2. i - w + w <= Stop(c)
        BY <1>2, <1>3, <1>4, CharIs
      <4>3. (i - w) + w <= EvidenceLen
        BY <1>3, <1>4, <4>1, <4>2
      <4>4. QED
        BY <3>2, <4>1, <4>3, CharFits
    <3>4. QED
      BY <1>1, <1>2, <1>3, <3>2, <3>3 DEF Begins
  <2>4. Run
    BY <1>3, <2>1, <2>3 DEF Skip
  <2> DEFINE r == RunFrom(p, i, Stop(c))
  <2>5. /\ r.chars \in Nat
        /\ r.chars = MaxLen \/ Char(p, r.end, Stop(c)) = 0
        /\ r.end = i + r.chars * w
    BY <1>2, <1>3, <1>4, RunGoesOn
  <2> HIDE DEF r
  <2>6. r.chars >= MinLen
    <3>1. SUFFICES ASSUME r.chars < MinLen PROVE FALSE
      BY <2>5, Bounds
    <3>2. r.chars \in 0 .. MinLen - 1 /\ r.chars # MaxLen
      BY <2>5, <3>1, Bounds
    <3>3. QED
      BY <1>2, <2>5, <3>2
  <2>7. RunHere \in spans'
    BY <2>1, <2>3, <2>4, <2>6, RunKept DEF r
  <2>8. RunHere.pass = p /\ RunHere.from = i
    BY <2>1, <2>3 DEF RunHere
  <2>9. QED
    BY <2>7, <2>8
<1>7. QED
  BY <1>5, <1>6

LEMMA CoveredKeeps == ScanInv /\ CoveredInv /\ [Next]_vars => CoveredInv'
<1> SUFFICES ASSUME ScanInv, CoveredInv, [Next]_vars,
                    NEW c \in Ids, NEW i \in Owned(c), Behind(c, "ascii", i)',
                    MinLen <= MaxLen, Overlap >= MinLen - 1, Chars("ascii", i, MinLen)'
             PROVE  \E s \in spans' : s.pass = "ascii" /\ s.from < i + MinLen /\ i < s.to
  BY DEF CoveredInv
<1> DEFINE p == "ascii"
<1>1. Chars(p, i, MinLen)
  BY BytesStay
<1>2. p \in TextPasses \ {"utf8"} /\ Width(p) = 1 /\ Skew(p) = 0
  BY DEF TextPasses, Width, Skew
<1>3. i \in Nat /\ \A m \in 0 .. MinLen - 1 : Char(p, i + m, Stop(c)) # 0
  <2>1. Overlap >= Width(p) * MinLen - 1
    BY <1>2, Bounds
  <2>2. i \in Nat /\ \A m \in 0 .. MinLen - 1 : Char(p, i + m * Width(p), Stop(c)) # 0
    BY <1>1, <1>2, <2>1, StringFits
  <2>3. \A m \in 0 .. MinLen - 1 : m * Width(p) = m
    BY <1>2, Bounds
  <2>4. QED
    BY <2>2, <2>3
<1> HIDE DEF p
<1>4. Char(p, i, Stop(c)) # 0
  <2>1. 0 \in 0 .. MinLen - 1 /\ i + 0 = i
    BY <1>3, Bounds
  <2>2. QED
    BY <1>3, <2>1
<1>5. /\ Stop(c) \in Nat /\ Start(c) \in Nat /\ OwnStop(c) \in Nat
      /\ Owned(c) = Start(c) .. OwnStop(c) - 1 /\ Start(c) <= i /\ i < OwnStop(c)
  BY ChunkIs
<1>6. OnGrid(c, p, i)
  <2>1. First(c, p) = Start(c)
    BY <1>2, <1>5 DEF First
  <2>2. i - Start(c) \in Nat /\ i = First(c, p) + (i - Start(c)) * Width(p)
    BY <1>2, <1>3, <1>5, <2>1
  <2>3. QED
    BY <2>2 DEF OnGrid
<1>7. CASE Behind(c, p, i)
  <2>1. PICK s \in spans : s.pass = p /\ s.from < i + MinLen /\ i < s.to
    BY <1>1, <1>7 DEF CoveredInv, p
  <2>2. s \in spans'
    BY SpansGrow
  <2>3. QED
    BY <2>1, <2>2 DEF p
<1>8. CASE ~Behind(c, p, i)
  <2>1. (Skip \/ Run) /\ c = chunk /\ p = scan /\ pos <= i /\ i < pos'
    <3>1. Behind(c, p, i)' /\ p \in TextPasses /\ i \in Int
      BY <1>2, <1>3 DEF p
    <3>2. QED
      BY <1>4, <1>6, <1>8, <3>1, BehindGrows
  <2>2. pos \in Nat /\ Start(c) <= pos
    BY <2>1, Advances, Scanning
  <2>3. Run
    <3>1. SUFFICES ASSUME Skip PROVE FALSE
      BY <2>1
    <3>2. pos' = pos + 1 /\ Char(p, pos, Stop(c)) = 0
      BY <1>2, <2>1, <3>1 DEF Skip, Stride, Width
    <3>3. i = pos
      BY <1>3, <2>1, <2>2, <3>2
    <3>4. QED
      BY <1>4, <3>2, <3>3
  <2> DEFINE r == RunFrom(p, pos, Stop(c))
  <2>4. Char(p, pos, Stop(c)) # 0 /\ pos' = r.end
    BY <1>2, <2>1, <2>3 DEF Run, ResumeAt, p
  <2>5. /\ r.chars \in Nat
        /\ r.chars = MaxLen \/ Char(p, r.end, Stop(c)) = 0
        /\ r.end = pos + r.chars
    <3>1. /\ r.chars \in Nat
          /\ r.chars = MaxLen \/ Char(p, r.end, Stop(c)) = 0
          /\ r.end = pos + r.chars * Width(p)
      BY <1>2, <1>5, <2>2, <2>4, RunGoesOn
    <3> HIDE DEF r
    <3>2. QED
      BY <1>2, <2>2, <3>1
  <2> HIDE DEF r
  <2>6. r.chars >= MinLen
    <3>1. SUFFICES ASSUME r.chars < MinLen PROVE FALSE
      BY <2>5, Bounds
    <3>2. r.chars # MaxLen /\ r.end - i \in 0 .. MinLen - 1 /\ i + (r.end - i) = r.end
      BY <1>3, <2>1, <2>2, <2>4, <2>5, <3>1, Bounds
    <3>3. QED
      BY <1>3, <2>5, <3>2
  <2>7. RunHere \in spans'
    <3>1. pos \in Owned(chunk)
      BY <1>3, <1>5, <2>1, <2>2
    <3>2. QED
      BY <1>2, <2>1, <2>3, <2>6, <3>1, RunKept DEF r
  <2>8. RunHere.pass = p /\ RunHere.from = pos /\ RunHere.to = r.end
    BY <2>1 DEF RunHere, r
  <2>9. pos < i + MinLen /\ i < r.end
    BY <1>3, <2>1, <2>2, <2>4, Bounds
  <2>10. QED
    BY <2>7, <2>8, <2>9 DEF p
<1>9. QED
  BY <1>7, <1>8
-----------------------------------------------------------------------------
StringInv == ScanInv /\ SpanInv /\ ApartInv /\ FoundInv /\ CoveredInv

LEMMA StringsStart == Init => StringInv
<1> SUFFICES ASSUME Init PROVE StringInv
  OBVIOUS
<1>1. ScanInv /\ spans = {}
  BY ScanStarts DEF Init
<1>2. ASSUME NEW c \in Ids, NEW p \in TextPasses, NEW i \in Owned(c), Behind(c, p, i) PROVE FALSE
  <2>1. c \in Nat /\ EvidenceLen # 0 /\ i \in Nat
    BY IdIs, ChunkIs, Bounds
  <2>2. chunk = 0 /\ scan = "ascii" /\ pos = 0
    BY <2>1 DEF Init
  <2>3. PassNo(p) \in 1 .. 6 /\ PassNo("ascii") = 1
    BY NextPassIs, PassNumbers
  <2>4. QED
    BY <1>2, <2>1, <2>2, <2>3 DEF Behind, Passed, Done
<1>3. FoundInv
  BY <1>2 DEF FoundInv
<1>4. CoveredInv
  BY <1>2 DEF CoveredInv, TextPasses
<1>5. QED
  BY <1>1, <1>3, <1>4 DEF StringInv, SpanInv, ApartInv

LEMMA StringsKeep == StringInv /\ [Next]_vars => StringInv'
BY ScanKeeps, SpansKeep, ApartKeeps, FoundKeeps, CoveredKeeps DEF StringInv

LEMMA StringInvHolds == Spec => []StringInv
BY StringsStart, StringsKeep, PTL DEF Spec

(* What is known of a span that was kept.                                  *)
LEMMA SpanIs ==
    ASSUME ScanInv, SpanInv, NEW s \in spans
    PROVE  /\ s.pass \in TextPasses /\ s.chunk \in Ids /\ s.chunk \in Nat
           /\ s.from \in Nat /\ s.to \in Nat /\ s.from < s.to
           /\ Start(s.chunk) \in Nat /\ OwnStop(s.chunk) \in Nat /\ Stop(s.chunk) \in Nat
           /\ Start(s.chunk) <= s.from /\ s.from < OwnStop(s.chunk) /\ s.to <= Stop(s.chunk)
           /\ Char(s.pass, s.from, Stop(s.chunk)) # 0
           /\ s.to = RunFrom(s.pass, s.from, Stop(s.chunk)).end
           /\ OnGrid(s.chunk, s.pass, s.from)
<1>1. /\ s \in SpanSet /\ s.from \in Owned(s.chunk) /\ OnGrid(s.chunk, s.pass, s.from)
      /\ Char(s.pass, s.from, Stop(s.chunk)) # 0
      /\ RunFrom(s.pass, s.from, Stop(s.chunk)).end = s.to
  BY DEF SpanInv
<1>2. /\ s.pass \in TextPasses /\ s.chunk \in Ids /\ s.from \in Nat /\ s.to \in Nat
  BY <1>1, Bounds DEF SpanSet, TextPasses
<1>3. /\ s.chunk \in Nat /\ Start(s.chunk) \in Nat /\ OwnStop(s.chunk) \in Nat
      /\ Stop(s.chunk) \in Nat /\ Owned(s.chunk) = Start(s.chunk) .. OwnStop(s.chunk) - 1
  BY <1>2, IdIs, ChunkIs
<1>4. Start(s.chunk) <= s.from /\ s.from < OwnStop(s.chunk)
  BY <1>1, <1>2, <1>3
<1>5. s.from < s.to /\ s.to <= Stop(s.chunk)
  BY <1>1, <1>2, <1>3, RunGoesOn
<1>6. QED
  BY <1>1, <1>2, <1>3, <1>4, <1>5

(* What the strings reported cover is text of their encoding from end to   *)
(* end, inside the bytes their chunks hold, wherever the data is cut.      *)
THEOREM SpansAreWithin == Spec => []SpansAreText
<1>1. StringInv => SpansAreText
  BY SpanIs DEF StringInv, SpansAreText
<1>2. QED
  BY <1>1, StringInvHolds, PTL

-----------------------------------------------------------------------------
(* The two passes of a UTF-16 encoding look for pairs at positions of      *)
(* either parity.                                                          *)
Wide == {"le0", "le1", "be0", "be1"}

LEMMA EncodingIs ==
    ASSUME NEW p \in TextPasses, NEW q \in TextPasses, Encoding(p) = Encoding(q), p # q
    PROVE  \/ p = "le0" /\ q = "le1"
           \/ p = "le1" /\ q = "le0"
           \/ p = "be0" /\ q = "be1"
           \/ p = "be1" /\ q = "be0"
<1>1. /\ Encoding("ascii") = "ascii" /\ Encoding("utf8") = "utf8"
      /\ Encoding("le0") = "le" /\ Encoding("le1") = "le"
      /\ Encoding("be0") = "be" /\ Encoding("be1") = "be"
  BY DEF Encoding
<1>2. QED
  BY <1>1 DEF TextPasses

(* The bytes of the two halves of a UTF-16 character.                      *)
Lead(p) == IF p \in {"le0", "le1"} THEN "text" ELSE "nul"
Trail(p) == IF p \in {"le0", "le1"} THEN "nul" ELSE "text"

LEMMA WideText ==
    ASSUME ScanInv, SpanInv, NEW s \in spans, s.pass \in Wide, NEW x \in s.from .. s.to - 1
    PROVE  \E k \in Nat :
             \/ x = First(s.chunk, s.pass) + 2 * k /\ evidence[x] = Lead(s.pass)
             \/ x = First(s.chunk, s.pass) + 2 * k + 1 /\ evidence[x] = Trail(s.pass)
<1> DEFINE p == s.pass
           r == RunFrom(p, s.from, Stop(s.chunk))
           first == First(s.chunk, p)
<1>1. /\ p \in TextPasses /\ s.chunk \in Ids /\ s.from \in Nat /\ s.to \in Nat /\ Stop(s.chunk) \in Nat
      /\ Char(p, s.from, Stop(s.chunk)) # 0 /\ s.to = r.end /\ OnGrid(s.chunk, p, s.from)
  BY SpanIs
<1>2. Width(p) = 2 /\ first \in Nat /\ p # "utf8"
  BY <1>1, FirstFits DEF Width, Wide
<1>3. /\ r.end \in Nat /\ r.chars \in Nat /\ r.end = s.from + r.chars * 2
      /\ \A m \in 0 .. r.chars - 1 : Char(p, s.from + m * 2, Stop(s.chunk)) # 0
  BY <1>1, <1>2, RunGoesOn
<1> HIDE DEF first, r, p
<1>4. PICK j \in Nat : s.from = first + j * 2
  BY <1>1, <1>2 DEF OnGrid, first, p
<1>5. PICK m \in Nat : x = s.from + m * 2 \/ x = s.from + m * 2 + 1
  <2> DEFINE d == x - s.from
             m == d \div 2
  <2>1. d \in Nat /\ x = s.from + d
    BY <1>1
  <2> HIDE DEF d
  <2>2. m \in Nat /\ (d = m * 2 \/ d = m * 2 + 1)
    BY <2>1
  <2> HIDE DEF m
  <2>3. x = s.from + m * 2 \/ x = s.from + m * 2 + 1
    BY <1>1, <2>1, <2>2
  <2>4. QED
    BY <2>2, <2>3
<1>6. m \in 0 .. r.chars - 1
  BY <1>1, <1>3, <1>5
<1>7. Char(p, s.from + m * 2, Stop(s.chunk)) # 0
  BY <1>3, <1>6
<1>8. evidence[s.from + m * 2] = Lead(p) /\ evidence[s.from + m * 2 + 1] = Trail(p)
  <2>1. s.from + m * 2 \in Nat /\ p \in {"le0", "le1", "be0", "be1"}
    BY <1>1 DEF Wide, p
  <2>2. QED
    BY <1>1, <1>7, <2>1, WideChar DEF Lead, Trail
<1>9. s.from + m * 2 = first + 2 * (j + m) /\ j + m \in Nat
  BY <1>1, <1>2, <1>4
<1>10. \/ x = first + 2 * (j + m) /\ evidence[x] = Lead(p)
       \/ x = first + 2 * (j + m) + 1 /\ evidence[x] = Trail(p)
  BY <1>5, <1>8, <1>9
<1>11. QED
  BY <1>9, <1>10 DEF first, p

(* So no byte is in a span of each.                                        *)
LEMMA SiblingsApart ==
    ASSUME ScanInv, SpanInv, NEW s \in spans, NEW t \in spans, s.chunk = t.chunk,
           \/ s.pass = "le0" /\ t.pass = "le1"
           \/ s.pass = "be0" /\ t.pass = "be1",
           NEW x \in s.from .. s.to - 1, x \in t.from .. t.to - 1
    PROVE  FALSE
<1>1. Start(s.chunk) \in Nat
  BY SpanIs
<1>2. First(s.chunk, s.pass) = Start(s.chunk) /\ First(t.chunk, t.pass) = Start(s.chunk) + 1
  BY <1>1 DEF First, Skew
<1>3. Lead(t.pass) = Lead(s.pass) /\ Trail(t.pass) = Trail(s.pass) /\ Lead(s.pass) # Trail(s.pass)
  BY DEF Lead, Trail
<1>4. s.pass \in Wide /\ t.pass \in Wide
  BY DEF Wide
<1>5. PICK k \in Nat :
             \/ x = Start(s.chunk) + 2 * k /\ evidence[x] = Lead(s.pass)
             \/ x = Start(s.chunk) + 2 * k + 1 /\ evidence[x] = Trail(s.pass)
  BY <1>2, <1>4, WideText
<1>6. PICK l \in Nat :
             \/ x = Start(s.chunk) + 1 + 2 * l /\ evidence[x] = Lead(s.pass)
             \/ x = Start(s.chunk) + 1 + 2 * l + 1 /\ evidence[x] = Trail(s.pass)
  BY <1>2, <1>3, <1>4, WideText
<1>7. QED
  BY <1>1, <1>3, <1>5, <1>6

(* Text is reported twice in one encoding only at a seam between chunks:   *)
(* for every evidence, chunk size, overlap and limits, two spans over the  *)
(* same bytes are of different chunks, and the earlier one's run began in  *)
(* its own part and went on into the later one's.                          *)
THEOREM TwiceAtSeam == Spec => []TwiceOnlyAtSeam
<1>1. ASSUME StringInv PROVE TwiceOnlyAtSeam
  <2> SUFFICES ASSUME NEW s \in spans, NEW t \in spans, s # t, Encoding(s.pass) = Encoding(t.pass),
                      s.chunk <= t.chunk, s.from <= Ends(t), t.from <= Ends(s)
               PROVE  s.chunk < t.chunk /\ s.from < Start(t.chunk) /\ Start(t.chunk) < s.to
    BY DEF TwiceOnlyAtSeam
  <2>1. /\ s.pass \in TextPasses /\ s.chunk \in Ids /\ s.chunk \in Nat
        /\ s.from \in Nat /\ s.to \in Nat /\ s.from < s.to /\ s.from < OwnStop(s.chunk)
        /\ OwnStop(s.chunk) \in Nat
    BY <1>1, SpanIs DEF StringInv
  <2>2. /\ t.pass \in TextPasses /\ t.chunk \in Ids /\ t.chunk \in Nat
        /\ t.from \in Nat /\ t.to \in Nat /\ t.from < t.to
        /\ Start(t.chunk) \in Nat /\ Start(t.chunk) <= t.from
    BY <1>1, SpanIs DEF StringInv
  <2>3. s.from < t.to /\ t.from < s.to
    BY <2>1, <2>2 DEF Ends
  <2>4. CASE s.chunk < t.chunk
    <3>1. OwnStop(s.chunk) <= Start(t.chunk)
      BY <2>1, <2>2, <2>4, ChunkOrder
    <3>2. QED
      BY <2>1, <2>2, <2>3, <2>4, <3>1
  <2>5. CASE s.chunk = t.chunk
    <3>1. s.pass # t.pass
      BY <1>1, <2>1, <2>2, <2>3, <2>5 DEF StringInv, ApartInv
    <3> DEFINE x == IF s.from <= t.from THEN t.from ELSE s.from
    <3>2. x \in s.from .. s.to - 1 /\ x \in t.from .. t.to - 1
      BY <2>1, <2>2, <2>3
    <3> HIDE DEF x
    <3>3. FALSE
      BY <1>1, <2>1, <2>2, <2>5, <3>1, <3>2, EncodingIs, SiblingsApart DEF StringInv
    <3>4. QED
      BY <3>3
  <2>6. QED
    BY <2>1, <2>2, <2>4, <2>5
<1>2. QED
  BY <1>1, StringInvHolds, PTL
-----------------------------------------------------------------------------
(* One of the two passes of an encoding stops at every position.           *)
LEMMA OneParity ==
    ASSUME NEW p \in TextPasses, NEW q \in TextPasses,
           \/ p = "ascii" /\ q = "ascii"
           \/ p = "le0" /\ q = "le1"
           \/ p = "be0" /\ q = "be1",
           NEW c \in Ids, NEW i \in Owned(c)
    PROVE  OnGrid(c, p, i) \/ OnGrid(c, q, i)
<1> DEFINE first == Start(c)
           d == i - first
<1>1. first \in Nat /\ d \in Nat /\ i = first + d
  BY ChunkIs
<1> HIDE DEF first, d
<1>2. CASE p = "ascii"
  <2>1. i = First(c, p) + d * Width(p)
    BY <1>1, <1>2 DEF First, Skew, Width, first
  <2>2. QED
    BY <1>1, <2>1 DEF OnGrid
<1>3. CASE p # "ascii"
  <2>1. First(c, p) = first /\ First(c, q) = first + 1 /\ Width(p) = 2 /\ Width(q) = 2
    BY <1>1, <1>3 DEF First, Skew, Width, first
  <2> DEFINE m == d \div 2
  <2>2. m \in Nat /\ (d = m * 2 \/ d = m * 2 + 1)
    BY <1>1
  <2> HIDE DEF m
  <2>3. i = First(c, p) + m * Width(p) \/ i = First(c, q) + m * Width(q)
    BY <1>1, <2>1, <2>2
  <2>4. QED
    BY <2>2, <2>3 DEF OnGrid
<1>4. QED
  BY <1>2, <1>3

LEMMA SameChars ==
    ASSUME NEW p, NEW q, (p = "le0" /\ q = "le1") \/ (p = "be0" /\ q = "be1")
    PROVE  /\ Width(p) = Width(q) /\ Encoding(p) = Encoding(q)
           /\ \A i : Begins(p, i) = Begins(q, i)
           /\ \A i, n : Chars(p, i, n) = Chars(q, i, n)
<1>1. Width(p) = Width(q)
  BY DEF Width
<1>2. \A i, stop : Char(p, i, stop) = Char(q, i, stop)
  BY <1>1 DEF Char, Letter
<1>3. /\ Encoding("le0") = "le" /\ Encoding("le1") = "le"
      /\ Encoding("be0") = "be" /\ Encoding("be1") = "be"
  BY DEF Encoding
<1>4. Encoding(p) = Encoding(q)
  BY <1>3
<1>5. \A i : Begins(p, i) = Begins(q, i)
  BY <1>1, <1>2 DEF Begins
<1>6. \A i, n : Chars(p, i, n) = Chars(q, i, n)
  BY <1>1, <1>2 DEF Chars
<1>7. QED
  BY <1>1, <1>4, <1>5, <1>6

(* Nothing is missed, wherever the chunks and the limits cut: a string of  *)
(* at least string_min_len characters is reported at its true start when   *)
(* the overlap reaches its first characters, and no stretch of ASCII text  *)
(* of that length goes unreported, for every evidence and every setting.   *)
THEOREM NoStringMissed == Spec => []NothingMissed
<1>1. ASSUME StringInv, Done, MinLen <= MaxLen PROVE StringsFound
  <2> SUFFICES ASSUME NEW p \in {"ascii", "le0", "be0"}, Overlap >= Width(p) * MinLen - 1,
                      NEW i \in 0 .. EvidenceLen - 1, Begins(p, i), Chars(p, i, MinLen)
               PROVE  \E s \in spans : Encoding(s.pass) = Encoding(p) /\ s.from = i
    BY DEF StringsFound
  <2>1. PICK c \in Ids : i \in Owned(c)
    BY OwnerOf
  <2> DEFINE q == IF p = "ascii" THEN "ascii" ELSE IF p = "le0" THEN "le1" ELSE "be1"
  <2>2. p \in TextPasses \ {"utf8"} /\ q \in TextPasses \ {"utf8"}
    BY DEF TextPasses
  <2>3. OnGrid(c, p, i) \/ OnGrid(c, q, i)
    BY <2>1, <2>2, OneParity
  <2>4. q = p \/ (p = "le0" /\ q = "le1") \/ (p = "be0" /\ q = "be1")
    OBVIOUS
  <2> HIDE DEF q
  <2>5. /\ Width(q) = Width(p) /\ Encoding(q) = Encoding(p)
        /\ Begins(q, i) /\ Chars(q, i, MinLen)
    BY <2>4, SameChars
  <2>6. Behind(c, p, i) /\ Behind(c, q, i)
    BY <1>1 DEF Behind, Passed
  <2>7. CASE OnGrid(c, p, i)
    <3>1. \E s \in spans : s.pass = p /\ s.from = i
      BY <1>1, <2>1, <2>2, <2>6, <2>7 DEF StringInv, FoundInv
    <3>2. QED
      BY <3>1
  <2>8. CASE OnGrid(c, q, i)
    <3>1. \E s \in spans : s.pass = q /\ s.from = i
      BY <1>1, <2>1, <2>2, <2>5, <2>6, <2>8 DEF StringInv, FoundInv
    <3>2. QED
      BY <2>5, <3>1
  <2>9. QED
    BY <2>3, <2>7, <2>8
<1>2. ASSUME StringInv, MinLen <= MaxLen PROVE TextCovered
  <2> SUFFICES ASSUME Done, Overlap >= MinLen - 1, NEW i \in 0 .. EvidenceLen - MinLen,
                      Chars("ascii", i, MinLen)
               PROVE  \E s \in spans : s.pass = "ascii" /\ s.from < i + MinLen /\ i < s.to
    BY DEF TextCovered
  <2>1. i \in 0 .. EvidenceLen - 1
    BY Bounds
  <2>2. PICK c \in Ids : i \in Owned(c)
    BY <2>1, OwnerOf
  <2>3. Behind(c, "ascii", i)
    BY DEF Behind, Passed
  <2>4. QED
    BY <1>2, <2>2, <2>3 DEF StringInv, CoveredInv
<1>3. StringInv => NothingMissed
  BY <1>1, <1>2 DEF NothingMissed, StringsFound
<1>4. QED
  BY <1>3, StringInvHolds, PTL
-----------------------------------------------------------------------------
(* The regions of high entropy: made of whole windows of one chunk's own   *)
(* part.                                                                   *)
Segment(c, r) ==
    /\ r = [from |-> r.from, to |-> r.to]
    /\ r.from \in Owned(c) /\ r.to \in Owned(c) /\ r.from <= r.to

(* The windows looked at so far.                                           *)
Looked(c, i) == Done \/ c < chunk \/ (c = chunk /\ scan = "entropy" /\ i < pos)

Covers(r, i) == r.from <= i /\ i + Window - 1 <= r.to

All == regions \cup region

RegionInv ==
    /\ scan # "entropy" => region = {}
    /\ \A r \in region : region = {r} /\ r.to + 1 = pos /\ Segment(chunk, r)
    /\ \A r \in regions : \E c \in Ids : Segment(c, r) /\ Looked(c, r.to)
    /\ scan = "entropy" => \A r \in regions : r.to + 1 = pos => pos = Start(chunk)
    /\ \A r, q \in All : r # q => r.to < q.from \/ q.to < r.from
    /\ \A r, q \in All : r.to + 1 = q.from => \E c \in Ids : q.from = Start(c)
    /\ \A c \in Ids : \A i \in Windows(c) :
         Looked(c, i) => (High(i) <=> \E r \in All : Covers(r, i))

LEMMA WindowIs ==
    ASSUME NEW c \in Ids, NEW i \in Windows(c)
    PROVE  /\ i \in Nat /\ i \in Owned(c) /\ Start(c) <= i /\ i + Window <= OwnStop(c)
           /\ \E j \in Nat : i = Start(c) + j * Window
<1> DEFINE first == Start(c)
           d == i - first
<1>1. i \in Owned(c) /\ d % Window = 0 /\ i + Window <= OwnStop(c)
  BY DEF Windows
<1>2. first \in Nat /\ i \in Nat /\ first <= i /\ d \in Nat /\ i = first + d
  BY <1>1, ChunkIs
<1> HIDE DEF d
<1> DEFINE j == d \div Window
<1>3. j \in Nat /\ d = j * Window
  BY <1>1, <1>2, Bounds
<1> HIDE DEF j
<1>4. QED
  BY <1>1, <1>2, <1>3

(* Windows lie one behind the other.                                       *)
LEMMA WindowOrder ==
    ASSUME NEW first \in Nat, NEW i \in Nat, NEW k \in Nat,
           \E j \in Nat : i = first + j * Window, \E j \in Nat : k = first + j * Window
    PROVE  i < k => i + Window <= k
<1>1. PICK j \in Nat : i = first + j * Window
  OBVIOUS
<1>2. PICK m \in Nat : k = first + m * Window
  OBVIOUS
<1>3. /\ j * Window \in Nat /\ m * Window \in Nat
      /\ j * Window < m * Window <=> j < m
      /\ j < m => j * Window + Window <= m * Window
  BY Bounds, ProductOrder, ProductStep
<1>4. QED
  BY <1>1, <1>2, <1>3, Bounds

LEMMA Entropy ==
    ASSUME ScanInv, scan = "entropy"
    PROVE  /\ ~Done /\ chunk \in Ids /\ chunk \in Nat /\ pos \in Nat
           /\ Start(chunk) \in Nat /\ OwnStop(chunk) \in Nat
           /\ Start(chunk) <= pos /\ pos <= OwnStop(chunk)
           /\ \E m \in Nat : pos = Start(chunk) + m * Window
<1>1. /\ ~Done /\ chunk \in Ids /\ pos \in Nat /\ pos <= OwnStop(chunk)
      /\ \E m \in Nat : pos = Start(chunk) + m * Window
  BY DEF ScanInv, Done
<1>2. chunk \in Nat /\ Start(chunk) \in Nat /\ OwnStop(chunk) \in Nat
  BY <1>1, IdIs, ChunkIs
<1>3. PICK m \in Nat : pos = Start(chunk) + m * Window
  BY <1>1
<1>4. m * Window \in Nat
  BY Bounds, ProductStep
<1>5. QED
  BY <1>1, <1>2, <1>3, <1>4

(* What was looked at lies before pos.                                     *)
LEMMA LookedBefore ==
    ASSUME ScanInv, scan = "entropy", NEW c \in Ids, NEW x \in Owned(c), Looked(c, x)
    PROVE  /\ x \in Nat /\ x < pos
           /\ x \in Windows(c) => x + Window <= pos
<1>1. /\ ~Done /\ chunk \in Ids /\ chunk \in Nat /\ pos \in Nat /\ c \in Nat
      /\ Start(chunk) \in Nat /\ Start(chunk) <= pos
      /\ \E m \in Nat : pos = Start(chunk) + m * Window
  BY Entropy, IdIs
<1>2. x \in Nat /\ x < OwnStop(c) /\ OwnStop(c) \in Nat
  BY ChunkIs
<1>3. CASE c < chunk
  <2>1. OwnStop(c) <= Start(chunk)
    BY <1>1, <1>3, ChunkOrder
  <2>2. x \in Windows(c) => x + Window <= OwnStop(c)
    BY WindowIs
  <2>3. QED
    BY <1>1, <1>2, <2>1, <2>2, Bounds
<1>4. CASE c = chunk
  <2>1. x < pos
    BY <1>1, <1>4 DEF Looked
  <2>2. ASSUME x \in Windows(c) PROVE x + Window <= pos
    <3>1. \E j \in Nat : x = Start(chunk) + j * Window
      BY <1>4, <2>2, WindowIs
    <3>2. QED
      BY <1>1, <1>2, <2>1, <3>1, WindowOrder
  <2>3. QED
    BY <1>2, <2>1, <2>2
<1>5. c < chunk \/ c = chunk
  BY <1>1 DEF Looked
<1>6. QED
  BY <1>3, <1>4, <1>5

(* A step looks at one window more at most, the one at pos.                *)
LEMMA LookedGrows ==
    ASSUME ScanInv, [Next]_vars, NEW c \in Ids, NEW i \in Owned(c)
    PROVE  /\ Looked(c, i) => Looked(c, i)'
           /\ Looked(c, i)' /\ i \in Windows(c)
              => Looked(c, i) \/ ((WindowHigh \/ WindowLow) /\ c = chunk /\ i = pos)
<1>1. c \in Nat /\ i \in Nat /\ Start(c) \in Nat /\ Start(c) <= i
  BY IdIs, ChunkIs
<1>2. CASE Skip \/ Run
  <2>1. Text /\ chunk' = chunk /\ scan' = scan
    BY <1>2, Advances
  <2>2. Looked(c, i)' = Looked(c, i)
    BY <2>1 DEF Looked, Done, Text
  <2>3. QED
    BY <2>2
<1>3. CASE NextPass
  <2>1. Text /\ chunk' = chunk /\ pos' = First(chunk, scan') /\ scan' = Passes[PassNo(scan) + 1]
    BY <1>3 DEF NextPass, First
  <2>2. scan \in TextPasses /\ scan' \in TextPasses \cup {"entropy"} /\ ~Done /\ ~Done'
    BY <2>1, Scanning, NextPassIs DEF Done, TextPasses
  <2>3. c = chunk /\ scan' = "entropy" => ~(i < pos')
    BY <1>1, <2>1 DEF First, Skew
  <2>4. Looked(c, i)' = Looked(c, i)
    BY <2>1, <2>2, <2>3 DEF Looked, TextPasses
  <2>5. QED
    BY <2>4
<1>4. CASE WindowHigh \/ WindowLow
  <2>1. /\ scan = "entropy" /\ pos + Window <= OwnStop(chunk) /\ pos' = pos + Window
        /\ chunk' = chunk /\ scan' = scan
    BY <1>4 DEF WindowHigh, WindowLow
  <2>2. /\ ~Done /\ pos \in Nat /\ Start(chunk) \in Nat
        /\ \E m \in Nat : pos = Start(chunk) + m * Window
    BY <2>1, Entropy
  <2>3. ~Done'
    BY <2>1, <2>2 DEF Done
  <2>4. Looked(c, i) => Looked(c, i)'
    BY <1>1, <2>1, <2>2, Bounds DEF Looked
  <2>5. ASSUME Looked(c, i)', i \in Windows(c), ~Looked(c, i) PROVE c = chunk /\ i = pos
    <3>1. c = chunk /\ i < pos + Window /\ ~(i < pos)
      BY <2>1, <2>2, <2>3, <2>5 DEF Looked
    <3>2. \E j \in Nat : i = Start(chunk) + j * Window
      BY <2>5, <3>1, WindowIs
    <3>3. pos < i => pos + Window <= i
      BY <1>1, <2>2, <3>2, WindowOrder
    <3>4. QED
      BY <1>1, <2>2, <3>1, <3>3, Bounds
  <2>6. QED
    BY <1>4, <2>4, <2>5
<1>5. CASE NextChunk
  <2>1. /\ scan = "entropy" /\ pos + Window > OwnStop(chunk)
        /\ \/ chunk' = chunk + 1 /\ scan' = "ascii"
           \/ chunk + 1 \notin Ids /\ Done'
    BY <1>5 DEF NextChunk, Done
  <2>2. ~Done /\ chunk \in Ids /\ chunk \in Nat /\ pos \in Nat /\ OwnStop(chunk) \in Nat
    BY <2>1, Entropy
  <2>3. Looked(c, i) => Looked(c, i)'
    BY <1>1, <2>1, <2>2 DEF Looked
  <2>4. ASSUME Looked(c, i)', i \in Windows(c) PROVE Looked(c, i)
    <3>1. c <= chunk
      <4>1. CASE chunk' = chunk + 1 /\ scan' = "ascii"
        BY <1>1, <2>2, <2>4, <4>1 DEF Looked, Done
      <4>2. CASE chunk + 1 \notin Ids
        BY <2>2, <4>2, LastChunk
      <4>3. QED
        BY <2>1, <4>1, <4>2
    <3>2. ASSUME c = chunk PROVE i < pos
      <4>1. i + Window <= OwnStop(chunk)
        BY <2>4, <3>2, WindowIs
      <4>2. QED
        BY <1>1, <2>1, <2>2, <4>1, Bounds
    <3>3. QED
      BY <1>1, <2>1, <2>2, <3>1, <3>2 DEF Looked
  <2>5. QED
    BY <2>3, <2>4
<1>6. CASE UNCHANGED vars
  <2>1. Looked(c, i)' = Looked(c, i)
    BY <1>6 DEF vars, Looked, Done
  <2>2. QED
    BY <2>1
<1>7. QED
  BY <1>2, <1>3, <1>4, <1>5, <1>6 DEF Next

LEMMA RegionIs ==
    ASSUME ScanInv, RegionInv, NEW r \in All
    PROVE  /\ r.from \in Nat /\ r.to \in Nat /\ r.from <= r.to
           /\ \E c \in Ids : r.from \in Owned(c) /\ r.to \in Owned(c)
           /\ scan = "entropy" => r.to < pos
<1>1. CASE r \in regions
  <2>1. PICK c \in Ids : Segment(c, r) /\ Looked(c, r.to)
    BY <1>1 DEF RegionInv
  <2>2. r.from \in Owned(c) /\ r.to \in Owned(c) /\ r.from <= r.to
    BY <2>1 DEF Segment
  <2>3. scan = "entropy" => r.to < pos
    BY <2>1, <2>2, LookedBefore
  <2>4. r.from \in Nat /\ r.to \in Nat
    BY <2>2, ChunkIs
  <2>5. QED
    BY <2>2, <2>3, <2>4
<1>2. CASE r \in region
  <2>1. scan = "entropy" /\ r.to + 1 = pos /\ Segment(chunk, r)
    BY <1>2 DEF RegionInv
  <2>2. chunk \in Ids /\ pos \in Nat /\ r.from \in Owned(chunk) /\ r.to \in Owned(chunk)
        /\ r.from <= r.to
    BY <2>1, Entropy DEF Segment
  <2>3. r.from \in Nat /\ r.to \in Nat
    BY <2>2, ChunkIs
  <2>4. QED
    BY <2>1, <2>2, <2>3
<1>3. QED
  BY <1>1, <1>2 DEF All

LEMMA RegionsStart == Init => RegionInv
<1> SUFFICES ASSUME Init PROVE RegionInv
  OBVIOUS
<1>1. region = {} /\ regions = {} /\ scan # "entropy" /\ All = {}
  BY DEF Init, All
<1>2. ASSUME NEW c \in Ids, NEW i \in Windows(c) PROVE ~Looked(c, i)
  <2>1. c \in Nat /\ EvidenceLen # 0
    BY IdIs, Bounds
  <2>2. chunk = 0 /\ scan = "ascii"
    BY <2>1 DEF Init
  <2>3. QED
    BY <2>1, <2>2 DEF Looked, Done
<1>3. QED
  BY <1>1, <1>2 DEF RegionInv

(* A window of high entropy starts a region or lengthens the one open.     *)
LEMMA HighIs ==
    ASSUME ScanInv, RegionInv, WindowHigh
    PROVE  \E n :
             /\ region' = {n} /\ regions' = regions /\ Segment(chunk, n)
             /\ n.to = pos + Window - 1
             /\ \/ region = {} /\ n.from = pos
                \/ \E r : region = {r} /\ n.from = r.from /\ r.to + 1 = pos
<1>1. /\ scan = "entropy" /\ pos + Window <= OwnStop(chunk) /\ regions' = regions
      /\ region' = IF region = {} THEN {[from |-> pos, to |-> RegionEnd(pos)]}
                   ELSE {[r EXCEPT !.to = RegionEnd(pos)] : r \in region}
  BY DEF WindowHigh
<1>2. /\ pos \in Nat /\ chunk \in Ids /\ Start(chunk) \in Nat /\ OwnStop(chunk) \in Nat
      /\ Start(chunk) <= pos /\ RegionEnd(pos) = pos + Window - 1
      /\ Owned(chunk) = Start(chunk) .. OwnStop(chunk) - 1
  BY <1>1, Entropy, ChunkIs DEF RegionEnd
<1> DEFINE end == RegionEnd(pos)
<1>3. /\ end \in Owned(chunk) /\ pos <= end /\ end \in Nat
      /\ pos \in Owned(chunk)
  <2> DEFINE first == Start(chunk)
             stop == OwnStop(chunk)
  <2>1. /\ first \in Nat /\ stop \in Nat /\ pos \in Nat /\ Window \in Nat \ {0}
        /\ first <= pos /\ pos + Window <= stop /\ end = pos + Window - 1
    BY <1>1, <1>2, Bounds
  <2> HIDE DEF first, stop, end
  <2>2. end \in Nat /\ pos <= end /\ end \in first .. stop - 1 /\ pos \in first .. stop - 1
    BY <2>1
  <2>3. QED
    BY <1>2, <2>2 DEF first, stop
<1> HIDE DEF end
<1>4. ASSUME NEW a \in Owned(chunk), a <= end
      PROVE  Segment(chunk, [from |-> a, to |-> end])
  BY <1>3, <1>4 DEF Segment
<1>5. CASE region = {}
  <2> DEFINE n == [from |-> pos, to |-> end]
  <2>1. region' = {n}
    BY <1>1, <1>5 DEF end
  <2>2. Segment(chunk, n) /\ n.from = pos /\ n.to = pos + Window - 1
    BY <1>2, <1>3, <1>4 DEF end
  <2> HIDE DEF n
  <2>3. QED
    BY <1>1, <1>5, <2>1, <2>2
<1>6. CASE region # {}
  <2>1. PICK r : r \in region
    BY <1>6
  <2>2. region = {r} /\ r.to + 1 = pos /\ Segment(chunk, r)
    BY <2>1 DEF RegionInv
  <2> DEFINE n == [from |-> r.from, to |-> end]
  <2>3. r = [from |-> r.from, to |-> r.to] /\ r.from \in Owned(chunk) /\ r.from <= r.to
        /\ r.to \in Owned(chunk)
    BY <2>2 DEF Segment
  <2>4. [r EXCEPT !.to = end] = n
    BY <2>3
  <2>5. region' = {n}
    <3> HIDE DEF n
    <3>1. region' = {[q EXCEPT !.to = end] : q \in {r}}
      BY <1>1, <1>6, <2>2 DEF end
    <3>2. QED
      BY <2>4, <3>1
  <2>6. r.from <= end
    BY <1>2, <1>3, <2>2, <2>3, ChunkIs
  <2>7. Segment(chunk, n) /\ n.from = r.from /\ n.to = pos + Window - 1
    BY <1>2, <1>4, <2>3, <2>6 DEF end
  <2> HIDE DEF n
  <2>8. QED
    BY <1>1, <2>2, <2>5, <2>7
<1>7. QED
  BY <1>5, <1>6

LEMMA HighKeeps ==
    ASSUME ScanInv, RegionInv, WindowHigh
    PROVE  RegionInv'
<1>1. PICK n :
             /\ region' = {n} /\ regions' = regions /\ Segment(chunk, n)
             /\ n.to = pos + Window - 1
             /\ \/ region = {} /\ n.from = pos
                \/ \E r : region = {r} /\ n.from = r.from /\ r.to + 1 = pos
  BY HighIs
<1>2. /\ scan = "entropy" /\ scan' = scan /\ chunk' = chunk /\ pos' = pos + Window
      /\ High(pos) /\ pos \in Nat /\ chunk \in Ids /\ [Next]_vars
  BY Entropy DEF WindowHigh, Next
<1>3. n.from \in Nat /\ n.from <= n.to /\ n.to \in Nat /\ n.from <= pos
  <2>1. n.from \in Owned(chunk) /\ n.to \in Owned(chunk) /\ n.from <= n.to
    BY <1>1 DEF Segment
  <2>2. n.from \in Nat /\ n.to \in Nat
    BY <1>2, <2>1, ChunkIs
  <2>3. n.from <= pos
    <3>1. CASE n.from = pos
      BY <1>2, <3>1
    <3>2. ASSUME NEW r \in region, n.from = r.from PROVE n.from <= pos
      BY <1>2, <3>2, RegionIs DEF All
    <3>3. QED
      BY <1>1, <3>1, <3>2
  <2>4. QED
    BY <2>1, <2>2, <2>3
<1>4. All' = regions \cup {n}
  BY <1>1 DEF All
<1>5. ASSUME NEW r \in regions
      PROVE  /\ r \in All /\ r.from \in Nat /\ r.to \in Nat /\ r.from <= r.to /\ r.to < pos
  BY <1>2, RegionIs DEF All
<1>6. ASSUME NEW r \in regions PROVE r = n \/ r.to < n.from
  <2>1. CASE n.from = pos
    BY <1>2, <1>5, <2>1
  <2>2. ASSUME NEW q, region = {q}, n.from = q.from, q.to + 1 = pos PROVE r = n \/ r.to < n.from
    <3>1. q \in All /\ r \in All
      BY <2>2 DEF All
    <3>2. r # q => r.to < q.from \/ q.to < r.from
      BY <3>1 DEF RegionInv
    <3>3. q.to \in Nat
      BY <3>1, RegionIs
    <3>4. r # q
      <4>1. SUFFICES ASSUME r = q PROVE FALSE
        OBVIOUS
      <4>2. r.to + 1 = pos
        BY <2>2, <4>1
      <4>3. pos = Start(chunk)
        BY <1>2, <4>2 DEF RegionInv
      <4>4. Segment(chunk, q)
        BY <2>2 DEF RegionInv
      <4>5. q.to >= Start(chunk)
        BY <1>2, <4>4, ChunkIs DEF Segment
      <4>6. QED
        BY <1>2, <2>2, <3>3, <4>3, <4>5
    <3>5. QED
      BY <1>2, <1>5, <2>2, <3>2, <3>3, <3>4
  <2>3. QED
    BY <1>1, <2>1, <2>2
<1>7. \A r \in region' : region' = {r} /\ r.to + 1 = pos' /\ Segment(chunk', r)
  <2>1. n.to + 1 = pos'
    BY <1>1, <1>2, Bounds
  <2>2. QED
    BY <1>1, <1>2, <2>1
<1>8. \A r \in regions' : \E c \in Ids : Segment(c, r) /\ Looked(c, r.to)'
  <2> TAKE r \in regions'
  <2>1. PICK c \in Ids : Segment(c, r) /\ Looked(c, r.to)
    BY <1>1 DEF RegionInv
  <2>2. Looked(c, r.to)'
    BY <1>2, <2>1, LookedGrows DEF Segment
  <2>3. QED
    BY <2>1, <2>2
<1>9. \A r \in regions' : r.to + 1 # pos'
  BY <1>1, <1>2, <1>5, Bounds
<1>10. \A r, q \in All' : r # q => r.to < q.from \/ q.to < r.from
  <2>1. ASSUME NEW r \in regions, NEW q \in regions PROVE r # q => r.to < q.from \/ q.to < r.from
    BY DEF RegionInv, All
  <2>2. QED
    BY <1>4, <1>6, <2>1
<1>11. \A r, q \in All' : r.to + 1 = q.from => \E c \in Ids : q.from = Start(c)
  <2> SUFFICES ASSUME NEW r \in All', NEW q \in All', r.to + 1 = q.from
               PROVE  \E c \in Ids : q.from = Start(c)
    OBVIOUS
  <2>1. CASE r \in regions /\ q \in regions
    BY <2>1 DEF RegionInv, All
  <2>2. CASE r = n
    <3>1. q.from <= pos
      BY <1>2, <1>3, <1>4, <1>5
    <3>2. QED
      BY <1>1, <1>2, <1>3, <1>4, <1>5, <2>2, <3>1, Bounds
  <2>3. CASE r \in regions /\ q = n
    <3>1. CASE n.from = pos
      <4>1. pos = Start(chunk)
        BY <1>2, <2>3, <3>1 DEF RegionInv
      <4>2. QED
        BY <1>2, <2>3, <3>1, <4>1
    <3>2. ASSUME NEW o, region = {o}, n.from = o.from
          PROVE  \E c \in Ids : q.from = Start(c)
      <4>1. o \in All /\ r \in All /\ r.to + 1 = o.from
        BY <2>3, <3>2 DEF All
      <4>2. QED
        BY <2>3, <3>2, <4>1 DEF RegionInv
    <3>3. QED
      BY <1>1, <3>1, <3>2
  <2>4. QED
    BY <1>4, <2>1, <2>2, <2>3
<1>12. \A c \in Ids : \A i \in Windows(c) :
         Looked(c, i)' => (High(i)' <=> \E r \in All' : Covers(r, i))
  <2> TAKE c \in Ids
  <2> TAKE i \in Windows(c)
  <2> HAVE Looked(c, i)'
  <2>1. i \in Nat /\ i \in Owned(c) /\ High(i)' = High(i)
    BY <1>2, WindowIs, BytesStay
  <2>2. CASE Looked(c, i)
    <3>1. i + Window <= pos
      BY <1>2, <2>1, <2>2, LookedBefore
    <3>2. High(i) <=> \E r \in All : Covers(r, i)
      BY <2>2 DEF RegionInv
    <3>3. Covers(n, i) <=> \E r \in region : Covers(r, i)
      <4>1. CASE region = {} /\ n.from = pos
        BY <1>2, <1>3, <2>1, <3>1, <4>1, Bounds DEF Covers
      <4>2. ASSUME NEW r, region = {r}, n.from = r.from, r.to + 1 = pos
            PROVE  Covers(n, i) <=> \E q \in region : Covers(q, i)
        <5>1. r.to \in Nat /\ r.from \in Nat
          BY <4>2, RegionIs DEF All
        <5>2. Covers(n, i) <=> n.from <= i
          BY <1>1, <1>2, <1>3, <2>1, <3>1, Bounds DEF Covers
        <5>3. Covers(r, i) <=> r.from <= i
          BY <1>2, <2>1, <3>1, <4>2, <5>1, Bounds DEF Covers
        <5>4. QED
          BY <4>2, <5>2, <5>3
      <4>3. QED
        BY <1>1, <4>1, <4>2
    <3>4. QED
      BY <1>4, <2>1, <3>2, <3>3 DEF All
  <2>3. CASE ~Looked(c, i)
    <3>1. i = pos
      BY <1>2, <2>1, <2>3, LookedGrows
    <3>2. Covers(n, i)
      BY <1>1, <1>2, <1>3, <3>1, Bounds DEF Covers
    <3>3. QED
      BY <1>2, <1>4, <2>1, <3>1, <3>2
  <2>4. QED
    BY <2>2, <2>3
<1>13. QED
  BY <1>2, <1>7, <1>8, <1>9, <1>10, <1>11, <1>12 DEF RegionInv

(* At a window of low entropy, and at the end of a chunk, the open region  *)
(* is reported: the regions stay the same.                                 *)
LEMMA LowKeeps ==
    ASSUME ScanInv, RegionInv, WindowLow \/ NextChunk
    PROVE  RegionInv'
<1>1. /\ scan = "entropy" /\ regions' = All /\ region' = {} /\ [Next]_vars
      /\ scan' = "entropy" => /\ WindowLow /\ chunk' = chunk /\ pos' = pos + Window /\ ~High(pos)
  BY DEF WindowLow, NextChunk, Closing, All, Next
<1>2. All' = All
  BY <1>1 DEF All
<1>3. pos \in Nat /\ chunk \in Ids /\ chunk \in Nat /\ ~Done
  BY <1>1, Entropy
<1>4. ASSUME NEW r \in All
      PROVE  r.from \in Nat /\ r.to \in Nat /\ r.from <= r.to /\ r.to < pos
  BY <1>1, RegionIs
<1>5. ASSUME NEW x, x < pos PROVE Looked(chunk, x)
  BY <1>1, <1>5 DEF Looked
<1>6. \A r \in regions' : \E c \in Ids : Segment(c, r) /\ Looked(c, r.to)'
  <2> TAKE r \in regions'
  <2>1. CASE r \in regions
    <3>1. PICK c \in Ids : Segment(c, r) /\ Looked(c, r.to)
      BY <2>1 DEF RegionInv
    <3>2. Looked(c, r.to)'
      BY <1>1, <3>1, LookedGrows DEF Segment
    <3>3. QED
      BY <3>1, <3>2
  <2>2. CASE r \in region
    <3>1. Segment(chunk, r) /\ r.to < pos
      BY <1>4, <2>2 DEF RegionInv, All
    <3>2. PICK c \in Ids : c = chunk
      BY <1>3
    <3>3. Segment(c, r) /\ Looked(c, r.to)
      BY <1>5, <3>1, <3>2
    <3>4. Looked(c, r.to)'
      BY <1>1, <3>3, LookedGrows DEF Segment
    <3>5. QED
      BY <3>3, <3>4
  <2>3. QED
    BY <1>1, <2>1, <2>2 DEF All
<1>7. scan' = "entropy" => \A r \in regions' : r.to + 1 # pos'
  BY <1>1, <1>3, <1>4, Bounds
<1>8. \A c \in Ids : \A i \in Windows(c) :
         Looked(c, i)' => (High(i)' <=> \E r \in All' : Covers(r, i))
  <2> TAKE c \in Ids
  <2> TAKE i \in Windows(c)
  <2> HAVE Looked(c, i)'
  <2>1. i \in Nat /\ i \in Owned(c) /\ High(i)' = High(i)
    BY <1>1, WindowIs, BytesStay
  <2>2. CASE Looked(c, i)
    <3>1. High(i) <=> \E r \in All : Covers(r, i)
      BY <2>2 DEF RegionInv
    <3>2. QED
      BY <1>2, <2>1, <3>1
  <2>3. CASE ~Looked(c, i)
    <3>1. i = pos /\ ~High(pos)
      <4>1. (WindowHigh \/ WindowLow) /\ i = pos
        BY <1>1, <2>1, <2>3, LookedGrows
      <4>2. scan' = "entropy"
        BY <4>1 DEF WindowHigh, WindowLow
      <4>3. QED
        BY <1>1, <4>1, <4>2
    <3>2. \A r \in All : ~Covers(r, i)
      BY <1>3, <1>4, <3>1, Bounds DEF Covers
    <3>3. QED
      BY <1>2, <2>1, <3>1, <3>2
  <2>4. QED
    BY <2>2, <2>3
<1>9. \A r, q \in All' : r # q => r.to < q.from \/ q.to < r.from
  BY <1>2 DEF RegionInv
<1>10. \A r, q \in All' : r.to + 1 = q.from => \E c \in Ids : q.from = Start(c)
  BY <1>2 DEF RegionInv
<1>11. QED
  BY <1>1, <1>6, <1>7, <1>8, <1>9, <1>10 DEF RegionInv

LEMMA RegionsKeep == ScanInv /\ RegionInv /\ [Next]_vars => RegionInv'
<1> SUFFICES ASSUME ScanInv, RegionInv, [Next]_vars PROVE RegionInv'
  OBVIOUS
<1>1. CASE WindowHigh
  BY <1>1, HighKeeps
<1>2. CASE WindowLow \/ NextChunk
  BY <1>2, LowKeeps
<1>3. CASE Skip \/ Run \/ NextPass \/ UNCHANGED vars
  <2>1. /\ regions' = regions /\ region' = region
        /\ \/ scan # "entropy" /\ chunk' = chunk /\ (scan' = "entropy" => pos' = Start(chunk'))
           \/ scan' = scan /\ chunk' = chunk /\ pos' = pos
    <3>1. CASE Skip \/ Run
      <4>1. /\ Text /\ scan' = scan /\ chunk' = chunk /\ regions' = regions /\ region' = region
        BY <3>1, Advances
      <4>2. QED
        BY <4>1 DEF Text
    <3>2. CASE NextPass
      <4>1. /\ Text /\ chunk' = chunk /\ pos' = Start(chunk) + Skew(scan')
            /\ regions' = regions /\ region' = region
        BY <3>2 DEF NextPass
      <4>2. Start(chunk) \in Nat
        BY <4>1, Scanning
      <4>3. QED
        BY <4>1, <4>2 DEF Text, Skew
    <3>3. CASE UNCHANGED vars
      BY <3>3 DEF vars
    <3>4. QED
      BY <1>3, <3>1, <3>2, <3>3
  <2>2. All' = All
    BY <2>1 DEF All
  <2>3. scan' # "entropy" => region' = {}
    BY <2>1 DEF RegionInv
  <2>4. \A r \in region' : region' = {r} /\ r.to + 1 = pos' /\ Segment(chunk', r)
    BY <2>1 DEF RegionInv
  <2>5. \A r \in regions' : \E c \in Ids : Segment(c, r) /\ Looked(c, r.to)'
    <3> TAKE r \in regions'
    <3>1. PICK c \in Ids : Segment(c, r) /\ Looked(c, r.to)
      BY <2>1 DEF RegionInv
    <3>2. Looked(c, r.to)'
      BY <3>1, LookedGrows DEF Segment
    <3>3. QED
      BY <3>1, <3>2
  <2>6. scan' = "entropy" => \A r \in regions' : r.to + 1 = pos' => pos' = Start(chunk')
    BY <2>1 DEF RegionInv
  <2>7. \A c \in Ids : \A i \in Windows(c) :
           Looked(c, i)' => (High(i)' <=> \E r \in All' : Covers(r, i))
    <3> TAKE c \in Ids
    <3> TAKE i \in Windows(c)
    <3> HAVE Looked(c, i)'
    <3>1. i \in Owned(c) /\ High(i)' = High(i)
      BY WindowIs, BytesStay
    <3>2. Looked(c, i)
      <4>1. ASSUME WindowHigh \/ WindowLow PROVE Looked(c, i)
        <5>1. scan = "entropy" /\ pos' = pos + Window
          BY <4>1 DEF WindowHigh, WindowLow
        <5>2. pos' # pos
          BY <5>1, Entropy, Bounds
        <5>3. QED
          BY <2>1, <5>1, <5>2
      <4>2. QED
        BY <3>1, <4>1, LookedGrows
    <3>3. QED
      BY <2>2, <3>1, <3>2 DEF RegionInv
  <2>8. \A r, q \in All' : r # q => r.to < q.from \/ q.to < r.from
    BY <2>2 DEF RegionInv
  <2>9. \A r, q \in All' : r.to + 1 = q.from => \E c \in Ids : q.from = Start(c)
    BY <2>2 DEF RegionInv
  <2>10. QED
    BY <2>3, <2>4, <2>5, <2>6, <2>7, <2>8, <2>9 DEF RegionInv
<1>4. QED
  BY <1>1, <1>2, <1>3 DEF Next

LEMMA RegionInvHolds == Spec => [](ScanInv /\ RegionInv)
<1>1. Init => ScanInv /\ RegionInv
  BY ScanStarts, RegionsStart
<1>2. ScanInv /\ RegionInv /\ [Next]_vars => (ScanInv /\ RegionInv)'
  BY ScanKeeps, RegionsKeep
<1>3. QED
  BY <1>1, <1>2, PTL DEF Spec

(* At the end the regions reported are exactly the windows of high         *)
(* entropy, each in one of them: neighbours of one chunk are joined, and   *)
(* two regions touch only where a chunk starts.                            *)
THEOREM RegionsAreExact == Spec => []RegionsExact
<1>1. ASSUME ScanInv, RegionInv, Done PROVE RegionsExact
  <2>1. All = regions
    BY <1>1 DEF RegionInv, Done, All
  <2>2. ASSUME NEW c \in Ids, NEW i \in Windows(c)
        PROVE  Cardinality({r \in regions : r.from <= i /\ i + Window - 1 <= r.to})
                 = IF High(i) THEN 1 ELSE 0
    <3> DEFINE S == {r \in regions : r.from <= i /\ i + Window - 1 <= r.to}
    <3>1. i \in Nat
      BY WindowIs
    <3>2. High(i) <=> \E r \in regions : Covers(r, i)
      BY <1>1, <2>1 DEF RegionInv, Looked
    <3>3. ASSUME NEW r \in S, NEW q \in S PROVE r = q
      <4>1. r.from \in Nat /\ r.to \in Nat /\ q.from \in Nat /\ q.to \in Nat
        BY <1>1, <2>1, RegionIs
      <4>2. r # q => r.to < q.from \/ q.to < r.from
        BY <1>1, <2>1 DEF RegionInv
      <4>3. QED
        BY <3>1, <4>1, <4>2, Bounds
    <3>4. High(i) <=> S # {}
      BY <3>2 DEF Covers
    <3> HIDE DEF S
    <3>5. CASE S = {}
      BY <3>4, <3>5, FS_EmptySet DEF S
    <3>6. CASE S # {}
      <4>1. PICK r : S = {r}
        BY <3>3, <3>6
      <4>2. Cardinality(S) = 1
        BY <4>1, FS_Singleton
      <4>3. QED
        BY <3>4, <3>6, <4>2 DEF S
    <3>7. QED
      BY <3>5, <3>6
  <2>3. \A r, q \in regions : r.to + 1 = q.from => \E c \in Ids : q.from = Start(c)
    BY <1>1, <2>1 DEF RegionInv
  <2>4. QED
    BY <2>2, <2>3 DEF RegionsExact
<1>2. ScanInv /\ RegionInv => RegionsExact
  BY <1>1 DEF RegionsExact
<1>3. QED
  BY <1>2, RegionInvHolds, PTL

-----------------------------------------------------------------------------
(* The scanners stay within the evidence, and what they keep lies in it.   *)
THEOREM StringTypes == Spec => []TypeOK
<1>1. ASSUME ScanInv, SpanInv, RegionInv PROVE TypeOK
  <2>1. scan \in {Passes[n] : n \in DOMAIN Passes}
    <3>1. DOMAIN Passes = 1 .. 8
      BY DEF Passes
    <3>2. /\ Passes[1] = "ascii" /\ Passes[2] = "utf8" /\ Passes[3] = "le0" /\ Passes[4] = "le1"
          /\ Passes[5] = "be0" /\ Passes[6] = "be1" /\ Passes[7] = "entropy" /\ Passes[8] = "next"
      BY DEF Passes
    <3>3. \E n \in 1 .. 8 : scan = Passes[n]
      BY <1>1, <3>2 DEF ScanInv, TextPasses
    <3>4. QED
      BY <3>1, <3>3
  <2>2. pos \in 0 .. EvidenceLen + 2
    <3>1. CASE Text
      BY <1>1, <3>1, Scanning, Bounds
    <3>2. CASE scan = "entropy"
      <4>1. pos \in Nat /\ chunk \in Ids /\ pos <= OwnStop(chunk)
        BY <1>1, <3>2, Entropy
      <4>2. OwnStop(chunk) \in Nat /\ OwnStop(chunk) <= EvidenceLen
        BY <4>1, ChunkIs, Bounds
      <4>3. QED
        BY <4>1, <4>2, Bounds
    <3>3. CASE Done
      BY <1>1, <3>3, Bounds DEF ScanInv
    <3>4. QED
      BY <3>1, <3>2, <3>3 DEF Text, Done
  <2>3. spans \subseteq SpanSet
    BY <1>1 DEF SpanInv
  <2>4. Cardinality(region) <= 1
    <3>1. CASE region = {}
      <4>1. Cardinality(region) = 0
        BY <3>1, FS_EmptySet
      <4>2. QED
        BY <4>1
    <3>2. CASE region # {}
      <4>1. PICK r : region = {r}
        BY <1>1, <3>2 DEF RegionInv
      <4>2. Cardinality(region) = 1
        BY <4>1, FS_Singleton
      <4>3. QED
        BY <4>2
    <3>3. QED
      BY <3>1, <3>2
  <2>5. \A r \in regions : \E c \in Ids : r.from \in Owned(c) /\ r.to \in Owned(c)
    BY <1>1 DEF RegionInv, Segment
  <2>6. Done \/ chunk \in Ids
    BY <1>1 DEF ScanInv
  <2>7. QED
    BY <2>1, <2>2, <2>3, <2>4, <2>5, <2>6 DEF TypeOK
<1>2. StringInv /\ ScanInv /\ RegionInv => TypeOK
  BY <1>1 DEF StringInv
<1>3. QED
  BY <1>2, StringInvHolds, RegionInvHolds, PTL
=============================================================================
