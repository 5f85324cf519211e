--------------------------- MODULE SessionProofs ----------------------------
(***************************************************************************)
(* What a checkpoint stands for, however long the chain of cancelled,      *)
(* limited, crashed and resumed runs is that led to it.                    *)
(***************************************************************************)
EXTENDS Sessions, ChunkingProofs

LEMMA Constants ==
    /\ MaxU64 \in Nat /\ EvidenceLen \in 0 .. MaxU64 /\ EvidenceLen \in Nat
    /\ Sigs \subseteq Nat /\ PatLen \in Nat \ {0} /\ MaxRuns \in Nat
    /\ \A o \in Options :
         /\ o.size \in 0 .. MaxU64 /\ o.overlap \in 0 .. MaxU64
         /\ o.maxBytes \in 0 .. MaxU64 /\ o.maxChunks \in 0 .. MaxU64
         /\ o.size \in Nat /\ o.overlap \in Nat /\ o.maxBytes \in Nat
         /\ o.run \in RunIds
<1>1. /\ MaxU64 \in Nat /\ EvidenceLen \in 0 .. MaxU64
      /\ Sigs \subseteq Nat /\ PatLen \in Nat \ {0} /\ MaxRuns \in Nat
  BY MaxU64Assumption, OptionsAssumption
<1>2. Options \subseteq [size : 0 .. MaxU64, overlap : 0 .. MaxU64,
                         maxBytes : 0 .. MaxU64, maxChunks : 0 .. MaxU64,
                         run : RunIds]
  BY OptionsAssumption
<1>3. QED
  BY <1>1, <1>2

(* How many chunks a resumed run skips is a number.                        *)
LEMMA FirstChunkNat ==
    ASSUME NEW total \in Nat, NEW size \in Nat, NEW offset
    PROVE  FirstChunk(offset, total, size) \in Nat
<1> DEFINE skipped == {k \in ChunkIds(total, size) : ChunkStart(k, size) < offset}
<1>1. IsFiniteSet(0 .. total) /\ IsFiniteSet({})
  BY FS_Interval, FS_EmptySet
<1>2. skipped \subseteq 0 .. total
  BY DEF ChunkIds
<1>3. IsFiniteSet(skipped)
  BY <1>1, <1>2, FS_Subset
<1>4. QED
  BY <1>3, FS_CardinalityType DEF FirstChunk

(* What a scanned chunk adds to the position is positive.                  *)
LEMMA ReadLength ==
    ASSUME TypeOK, cursor \in Ids, ~OutOfBytes
    PROVE  /\ ChunkLength(cursor, EvidenceLen, opts.size, opts.overlap)
                \in Nat \ {0}
           /\ opts.maxBytes - (scanned + resume) \in Nat \ {0}
<1>1. opts \in Options /\ scanned \in Nat /\ resume \in Nat /\ cursor \in Nat
  BY DEF TypeOK
<1>2. opts.size # 0 /\ ChunkStart(cursor, opts.size) < EvidenceLen
  BY DEF Ids, ChunkIds
<1>3. /\ opts.size \in 1 .. MaxU64 /\ opts.overlap \in 0 .. MaxU64
      /\ opts.maxBytes \in Nat
  BY <1>1, <1>2, Constants
<1>4. ChunkStart(cursor, opts.size) = cursor * opts.size
      /\ cursor * opts.size \in Nat
  <2>1. ChunkStart(cursor, opts.size) = cursor * opts.size
    BY <1>3, Constants, ChunkIdsAre DEF Ids
  <2>2. opts.size \in Nat
    BY <1>1, Constants
  <2>3. cursor * opts.size \in Nat
    BY <1>1, <2>2, ProductStep
  <2>4. QED
    BY <2>1, <2>3
<1>5. ChunkStart(cursor, opts.size) \in Nat
  BY <1>4
<1>6. ChunkLength(cursor, EvidenceLen, opts.size, opts.overlap) \in Nat \ {0}
  BY <1>2, <1>3, <1>5, Constants DEF ChunkLength, SatAdd, Min2
<1>7. QED
  BY <1>1, <1>3, <1>6 DEF OutOfBytes

-----------------------------------------------------------------------------
LEMMA TypeInit == Init => TypeOK
BY Constants DEF Init, TypeOK, Never

LEMMA TypeScan == TypeOK /\ ScanChunk => TypeOK'
<1> SUFFICES ASSUME TypeOK, ScanChunk PROVE TypeOK'
  OBVIOUS
<1> DEFINE room == opts.maxBytes - (scanned + resume)
           full == ChunkLength(cursor, EvidenceLen, opts.size, opts.overlap)
           len == Min2(room, full)
           hits == {h \in Sigs :
                      FoundIn(cursor, h, PatLen, len, EvidenceLen, opts.size)}
<1>1. /\ scanned' = scanned + len
      /\ times' = [h \in Sigs |-> times[h] + IF h \in hits THEN 1 ELSE 0]
      /\ buffered' = buffered \cup hits
      /\ cursor' = cursor + 1 /\ seen' = seen + 1
      /\ next' = SatAdd(ChunkStart(cursor, opts.size), opts.size)
      /\ UNCHANGED <<mode, opts, resume, records, ckpt, runs>>
  BY DEF ScanChunk
<1>2. room \in Nat /\ full \in Nat
  BY ReadLength DEF ScanChunk
<1> HIDE DEF room, full
<1>3. len \in Nat
  BY <1>2 DEF Min2
<1>4. hits \subseteq Sigs
  OBVIOUS
<1> HIDE DEF len, hits
<1>5. times' \in [Sigs -> Nat]
  BY <1>1 DEF TypeOK
<1>6. next' \in Nat
  <2>1. opts.size \in Nat /\ MaxU64 \in Nat /\ cursor \in Nat
    BY Constants DEF TypeOK
  <2>2. cursor * opts.size \in Nat
    BY <2>1, ProductStep
  <2>3. ChunkStart(cursor, opts.size) \in Nat
    BY <2>1, <2>2 DEF ChunkStart, Min2
  <2>4. QED
    BY <1>1, <2>1, <2>3 DEF SatAdd, Min2
<1>7. scanned' \in Nat /\ buffered' \subseteq Sigs /\ cursor' \in Nat
      /\ seen' \in Nat
  BY <1>1, <1>3, <1>4 DEF TypeOK
<1>8. QED
  BY <1>1, <1>5, <1>6, <1>7 DEF TypeOK

LEMMA TypeStart ==
    TypeOK /\ \/ \E o \in Options : StartFresh(o) \/ ResumeRefused(o)
              \/ \E o \in Options : \E c \in ckpt : StartResumed(o, c)
    => TypeOK'
<1> SUFFICES ASSUME TypeOK,
                    \/ \E o \in Options : StartFresh(o) \/ ResumeRefused(o)
                    \/ \E o \in Options : \E c \in ckpt : StartResumed(o, c)
             PROVE  TypeOK'
  OBVIOUS
<1>1. ASSUME NEW o \in Options, OpenSink(o)
      PROVE  /\ runs' \in 0 .. MaxRuns /\ opts' \in Options
             /\ records' \in [RunIds -> SUBSET Sigs] /\ buffered' \subseteq Sigs
  BY <1>1, Constants DEF OpenSink, TypeOK
<1>2. ASSUME NEW o \in Options, StartFresh(o)
      PROVE  TypeOK'
  BY <1>1, <1>2 DEF StartFresh, BeginAt, Never, TypeOK
<1>3. ASSUME NEW o \in Options, ResumeRefused(o)
      PROVE  TypeOK'
  BY <1>1, <1>3 DEF ResumeRefused, readerVars, TypeOK
<1>4. ASSUME NEW o \in Options, NEW c \in ckpt, StartResumed(o, c)
      PROVE  TypeOK'
  <2>1. c.next \in Nat /\ c.times \in [Sigs -> Nat]
    BY Constants DEF TypeOK
  <2>2. FirstChunk(c.next, EvidenceLen, o.size) \in Nat
    BY Constants, FirstChunkNat
  <2>3. QED
    BY <1>1, <1>4, <2>1, <2>2 DEF StartResumed, BeginAt, TypeOK
<1>5. QED
  BY <1>2, <1>3, <1>4

LEMMA TypeJoin ==
    ASSUME TypeOK, JoinAndFlush, ckpt' \subseteq ckpt \cup {SavedState}
    PROVE  TypeOK'
<1>1. records' \in [RunIds -> SUBSET Sigs]
  BY DEF JoinAndFlush, TypeOK
<1>2. SavedState \in [size : Nat, overlap : Nat, next : 0 .. EvidenceLen,
                      len : {EvidenceLen}, times : [Sigs -> Nat]]
  BY Constants DEF SavedState, Min2, TypeOK
<1>3. QED
  BY <1>1, <1>2 DEF JoinAndFlush, readerVars, TypeOK

LEMMA TypeNext == TypeOK /\ [Next]_vars => TypeOK'
<1> SUFFICES ASSUME TypeOK, [Next]_vars PROVE TypeOK'
  OBVIOUS
<1>1. CASE ScanChunk
  BY <1>1, TypeScan
<1>2. CASE Flush
  BY <1>2 DEF Flush, readerVars, TypeOK
<1>3. CASE StopCancelled \/ StopLimit \/ RunComplete \/ TornCheckpoint
  <2>1. JoinAndFlush /\ ckpt' \subseteq ckpt \cup {SavedState}
    BY <1>3 DEF StopCancelled, StopLimit, RunComplete, TornCheckpoint, EndRun
  <2>2. QED
    BY <2>1, TypeJoin
<1>4. CASE Crash
  BY <1>4 DEF Crash, readerVars, TypeOK
<1>5. CASE UNCHANGED vars
  BY <1>5 DEF vars, readerVars, TypeOK
<1>6. QED
  BY <1>1, <1>2, <1>3, <1>4, <1>5, TypeStart DEF Next, Idle

(* Every reachable state is well typed: whatever was saved under whatever  *)
(* command line, a checkpoint's offset lies within the evidence.           *)
THEOREM SessionTypes == Spec => []TypeOK
<1>1. QED
  BY TypeInit, TypeNext, PTL DEF Spec

-----------------------------------------------------------------------------
(* Every signature below the offset was handled once, no other was.        *)
Exact(handled, offset) ==
    \A h \in Sigs : handled[h] = IF h < offset THEN 1 ELSE 0

(* A run is between two chunks: it has dealt with the ones below `cursor`, *)
(* and is not at its byte limit, so that no read of it was cut.            *)
Position == scanned + resume
ScanExact ==
    mode = "scanning" =>
        /\ next = ChunkStart(cursor, opts.size)
        /\ Exact(times, cursor * opts.size)
        /\ Position <= cursor * (opts.size + opts.overlap)
        /\ cursor \in Ids \/ (Position < opts.maxBytes /\ seen # 0)

(* A checkpoint lies at the start of a chunk that is still to be read.     *)
SavedExact ==
    \A c \in ckpt : /\ c.next < EvidenceLen /\ c.size # 0
                    /\ \E m \in Nat : c.next = m * c.size
                    /\ Exact(c.times, c.next)

ChainInv == ScanExact /\ SavedExact

LEMMA OptionsAre ==
    ASSUME WholeReads, NEW o \in Options
    PROVE  /\ o.size \in 1 .. MaxU64 /\ o.size \in Nat \ {0}
           /\ o.overlap \in Nat /\ o.overlap >= PatLen - 1
           /\ o.maxBytes \in Nat
BY Constants DEF WholeReads

(* A full read of a chunk meets the signatures whose first byte lies in it.*)
LEMMA HitsOfChunk ==
    ASSUME WholeReads, NEW o \in Options, NEW h \in Sigs,
           NEW k \in ChunkIds(EvidenceLen, o.size)
    PROVE  FoundIn(k, h, PatLen,
                   ChunkLength(k, EvidenceLen, o.size, o.overlap),
                   EvidenceLen, o.size)
           <=> k * o.size <= h /\ h < (k + 1) * o.size
<1> DEFINE full == ChunkLength(k, EvidenceLen, o.size, o.overlap)
<1>1. /\ o.size \in 1 .. MaxU64 /\ o.size \in Nat \ {0} /\ o.overlap \in Nat
      /\ o.overlap >= PatLen - 1 /\ h \in Nat /\ h + PatLen <= EvidenceLen
  BY OptionsAre, Constants DEF WholeReads
<1>2. k \in Nat /\ ChunkStart(k, o.size) = k * o.size
  BY <1>1, Constants, ChunkIdsAre
<1>3. k * o.size \in Nat /\ (k + 1) * o.size = k * o.size + o.size
  BY <1>1, <1>2, ProductStep
<1>4. full \in Int
  <2>1. ChunkStart(k, o.size) \in Nat
    BY <1>2, <1>3
  <2>2. QED
    BY <1>1, <2>1, Constants DEF ChunkLength, SatAdd, Min2
<1>5. ASSUME FoundIn(k, h, PatLen, full, EvidenceLen, o.size)
      PROVE  k = h \div o.size
  <2>1. h \in OwnedBy(k, full, EvidenceLen, o.size)
    BY <1>5 DEF FoundIn
  <2> HIDE DEF full
  <2>2. QED
    BY <1>1, <1>4, <2>1, Constants, OwnerIsQuotient
<1>6. ASSUME k = h \div o.size
      PROVE  FoundIn(k, h, PatLen, full, EvidenceLen, o.size)
  BY <1>1, <1>6, Constants, SeenWhenReadInFull
<1>7. k = h \div o.size <=> k * o.size <= h /\ h < k * o.size + o.size
  BY <1>1, <1>2, Division, DivisionUnique
<1>8. QED
  BY <1>3, <1>5, <1>6, <1>7

-----------------------------------------------------------------------------
LEMMA ExactInit == WholeReads /\ Init => ChainInv
BY DEF Init, ChainInv, ScanExact, SavedExact

LEMMA ExactScan ==
    ASSUME WholeReads, TypeOK, ScanExact, ScanChunk
    PROVE  ScanExact'
<1> DEFINE size == opts.size
           room == opts.maxBytes - Position
           full == ChunkLength(cursor, EvidenceLen, opts.size, opts.overlap)
<1>1. /\ mode = "scanning" /\ cursor \in Ids /\ ~OutOfBytes /\ opts \in Options
      /\ cursor \in Nat /\ seen \in Nat /\ scanned \in Nat /\ resume \in Nat
      /\ times \in [Sigs -> Nat] /\ opts' = opts /\ resume' = resume
      /\ cursor' = cursor + 1 /\ seen' = seen + 1
      /\ next' = SatAdd(ChunkStart(cursor, size), size)
  BY DEF ScanChunk, TypeOK
<1>2. /\ size \in 1 .. MaxU64 /\ size \in Nat \ {0} /\ opts.overlap \in Nat
      /\ opts.maxBytes \in Nat /\ MaxU64 \in Nat
  BY <1>1, OptionsAre, Constants
<1>3. /\ ChunkStart(cursor, size) = cursor * size
      /\ cursor * size \in Nat /\ (cursor + 1) * size = cursor * size + size
      /\ cursor * (size + opts.overlap) \in Nat
      /\ (cursor + 1) * (size + opts.overlap)
           = cursor * (size + opts.overlap) + (size + opts.overlap)
  <2>1. ChunkStart(cursor, size) = cursor * size
    BY <1>1, <1>2, Constants, ChunkIdsAre DEF Ids
  <2>2. size + opts.overlap \in Nat
    BY <1>2
  <2>3. QED
    BY <1>1, <1>2, <2>1, <2>2, ProductStep
<1>4. full \in Nat \ {0} /\ room \in Nat \ {0}
  BY <1>1, ReadLength DEF Position
<1>5. full <= size + opts.overlap
  <2>1. ChunkStart(cursor, size) \in Nat
    BY <1>3
  <2>2. QED
    BY <1>2, <2>1, Constants DEF ChunkLength, SatAdd, Min2
<1>6. cursor * (size + opts.overlap) + full < opts.maxBytes
  BY <1>1 DEF WholeReads, Ids
<1>7. Position <= cursor * (size + opts.overlap) /\ Position \in Nat
  BY <1>1 DEF ScanExact, Position
<1>8. Position + full < opts.maxBytes /\ Min2(room, full) = full
  <2> HIDE DEF full
  <2>1. Position + full < opts.maxBytes
    BY <1>2, <1>3, <1>4, <1>6, <1>7
  <2>2. QED
    BY <1>2, <1>4, <1>7, <2>1 DEF Min2
<1>9. Position' <= cursor' * (size + opts.overlap) /\ Position' < opts.maxBytes
  <2>1. scanned' = scanned + full
    BY <1>8 DEF ScanChunk, Position
  <2> HIDE DEF full
  <2>2. Position' = Position + full
    BY <1>1, <1>4, <2>1 DEF Position
  <2>3. QED
    BY <1>1, <1>2, <1>3, <1>4, <1>5, <1>7, <1>8, <2>2
<1>10. next' = ChunkStart(cursor', size)
  <2>1. next' = Min2(cursor * size + size, MaxU64)
    BY <1>1, <1>3 DEF SatAdd
  <2>2. QED
    BY <1>1, <1>3, <2>1 DEF ChunkStart
<1>11. ASSUME NEW h \in Sigs
       PROVE  times'[h] = IF h < cursor' * size THEN 1 ELSE 0
  <2>1. times'[h] = times[h] +
          IF FoundIn(cursor, h, PatLen, full, EvidenceLen, size) THEN 1 ELSE 0
    BY <1>8 DEF ScanChunk, Position
  <2>2. FoundIn(cursor, h, PatLen, full, EvidenceLen, size)
        <=> cursor * size <= h /\ h < (cursor + 1) * size
    BY <1>1, HitsOfChunk DEF Ids
  <2>3. times[h] = IF h < cursor * size THEN 1 ELSE 0
    BY <1>1 DEF ScanExact, Exact
  <2>4. h \in Nat
    BY Constants
  <2> HIDE DEF full
  <2>5. QED
    BY <1>1, <1>2, <1>3, <2>1, <2>2, <2>3, <2>4
<1>12. QED
  BY <1>1, <1>9, <1>10, <1>11 DEF ScanExact, Exact

(* A fresh run starts at the first chunk, a resumed one at the chunk its   *)
(* checkpoint lies at the start of.                                        *)
LEMMA ExactFresh ==
    ASSUME WholeReads, NEW o \in Options, StartFresh(o)
    PROVE  ScanExact'
<1>1. /\ opts' = o /\ cursor' = 0 /\ next' = 0 /\ seen' = 0 /\ scanned' = 0
      /\ resume' = 0 /\ times' = Never
  BY DEF StartFresh, OpenSink, BeginAt
<1>2. /\ o.size \in 1 .. MaxU64 /\ o.size \in Nat \ {0} /\ o.overlap \in Nat
      /\ MaxU64 \in Nat /\ EvidenceLen \in 0 .. MaxU64 /\ EvidenceLen > 0
  BY OptionsAre, Constants DEF WholeReads
<1>3. 0 * o.size = 0 /\ 0 * (o.size + o.overlap) = 0
  BY <1>2
<1>4. 0 \in ChunkIds(EvidenceLen, o.size) /\ ChunkStart(0, o.size) = 0
  BY <1>2, <1>3, ChunkIdsAre
<1>5. Exact(Never, 0)
  BY Constants DEF Exact, Never
<1>6. QED
  BY <1>1, <1>3, <1>4, <1>5 DEF ScanExact, Exact, Ids, Position

LEMMA ExactResumed ==
    ASSUME WholeReads, TypeOK, SavedExact, NEW o \in Options, NEW c \in ckpt,
           StartResumed(o, c)
    PROVE  ScanExact'
<1>1. PICK m \in Nat : c.next = m * c.size
  BY DEF SavedExact
<1>2. /\ opts' = o /\ next' = c.next /\ seen' = 0 /\ scanned' = 0
      /\ resume' = c.next /\ times' = c.times /\ c.size = o.size
      /\ cursor' = FirstChunk(c.next, EvidenceLen, o.size)
      /\ c.next < EvidenceLen
  BY DEF StartResumed, OpenSink, BeginAt, Fits
<1>3. /\ o.size \in 1 .. MaxU64 /\ o.size \in Nat \ {0} /\ o.overlap \in Nat
      /\ EvidenceLen \in 0 .. MaxU64
  BY OptionsAre, Constants
<1>4. cursor' = m
  BY <1>1, <1>2, <1>3, FirstChunkAt
<1>5. m \in ChunkIds(EvidenceLen, o.size) /\ ChunkStart(m, o.size) = c.next
  BY <1>1, <1>2, <1>3, ChunkIdsAre
<1>6. 0 + c.next <= m * (o.size + o.overlap)
  <2>1. m * (o.size + o.overlap) = m * o.size + m * o.overlap
    BY <1>3
  <2>2. m * o.size \in Nat /\ m * o.overlap \in Nat
    BY <1>3, ProductStep
  <2>3. QED
    BY <1>1, <1>2, <2>1, <2>2
<1>7. Exact(c.times, m * o.size)
  BY <1>1, <1>2 DEF SavedExact
<1>8. QED
  BY <1>2, <1>4, <1>5, <1>6, <1>7 DEF ScanExact, Exact, Ids, Position

(* A run that leaves its loop early has a chunk left to read, and saves    *)
(* where that chunk starts.                                                *)
LEMMA ExactSaved ==
    ASSUME WholeReads, TypeOK, ScanExact, mode = "scanning",
           cursor \in Ids \/ OutOfChunks \/ OutOfBytes
    PROVE  /\ SavedState.next < EvidenceLen /\ SavedState.size # 0
           /\ \E m \in Nat : SavedState.next = m * SavedState.size
           /\ Exact(SavedState.times, SavedState.next)
<1>1. /\ opts \in Options /\ cursor \in Nat /\ seen \in Nat
      /\ Position \in Nat /\ next = ChunkStart(cursor, opts.size)
      /\ Exact(times, cursor * opts.size)
      /\ cursor \in Ids \/ (Position < opts.maxBytes /\ seen # 0)
  BY DEF TypeOK, ScanExact, Position
<1>2. /\ opts.size \in 1 .. MaxU64 /\ opts.size \in Nat \ {0}
      /\ opts.maxBytes \in Nat /\ EvidenceLen \in 0 .. MaxU64
      /\ EvidenceLen \in Nat
  BY <1>1, OptionsAre, Constants
<1>3. cursor \in Ids
  <2>1. OutOfBytes => ~(Position < opts.maxBytes)
    BY <1>1, <1>2 DEF OutOfBytes, Position
  <2>2. QED
    BY <1>1, <2>1 DEF OutOfChunks
<1>4. next = cursor * opts.size /\ cursor * opts.size < EvidenceLen
      /\ cursor * opts.size \in Nat
  BY <1>1, <1>2, <1>3, ChunkIdsAre, ProductStep DEF Ids
<1>5. SavedState.next = cursor * opts.size
  BY <1>2, <1>4 DEF SavedState, Min2
<1>6. SavedState.size = opts.size /\ SavedState.times = times
  BY DEF SavedState
<1>7. QED
  BY <1>1, <1>2, <1>4, <1>5, <1>6

LEMMA SavedNext ==
    ASSUME WholeReads, TypeOK, ChainInv, [Next]_vars
    PROVE  SavedExact'
<1>1. CASE UNCHANGED ckpt
  BY <1>1 DEF ChainInv, SavedExact, Exact
<1>2. CASE TornCheckpoint
  BY <1>2 DEF TornCheckpoint, SavedExact
<1>3. CASE StopCancelled \/ StopLimit
  <2>1. /\ mode = "scanning" /\ ckpt' = {SavedState}
        /\ cursor \in Ids \/ OutOfChunks \/ OutOfBytes
    BY <1>3 DEF StopCancelled, StopLimit, EndRun, JoinAndFlush
  <2>2. /\ SavedState.next < EvidenceLen /\ SavedState.size # 0
        /\ \E m \in Nat : SavedState.next = m * SavedState.size
        /\ Exact(SavedState.times, SavedState.next)
    BY <2>1, ExactSaved DEF ChainInv
  <2>3. QED
    BY <2>1, <2>2 DEF SavedExact, Exact
<1>4. QED
  BY <1>1, <1>2, <1>3 DEF Next, StartFresh, StartResumed, ResumeRefused,
     ScanChunk, Flush, RunComplete, EndRun, Crash, Idle, vars

LEMMA ChainNext ==
    ASSUME WholeReads, TypeOK, ChainInv, [Next]_vars
    PROVE  ChainInv'
<1>1. SavedExact'
  BY SavedNext
<1>2. ASSUME ScanChunk
      PROVE  ScanExact'
  BY <1>2, ExactScan DEF ChainInv
<1>3. ASSUME NEW o \in Options, StartFresh(o)
      PROVE  ScanExact'
  BY <1>3, ExactFresh
<1>4. ASSUME NEW o \in Options, NEW c \in ckpt, StartResumed(o, c)
      PROVE  ScanExact'
  BY <1>4, ExactResumed DEF ChainInv
<1>5. ASSUME Flush \/ UNCHANGED vars \/ \E o \in Options : ResumeRefused(o)
      PROVE  ScanExact'
  <2>1. UNCHANGED <<mode, readerVars, times>>
        /\ (mode = "scanning" => UNCHANGED opts)
    BY <1>5 DEF Flush, ResumeRefused, vars, readerVars
  <2>2. QED
    BY <2>1 DEF ChainInv, ScanExact, Exact, Ids, Position, readerVars
<1>6. ASSUME \/ StopCancelled \/ StopLimit \/ RunComplete
             \/ TornCheckpoint \/ Crash
      PROVE  ScanExact'
  BY <1>6 DEF StopCancelled, StopLimit, RunComplete, TornCheckpoint, EndRun,
     JoinAndFlush, Crash, ScanExact
<1>7. ScanExact'
  BY <1>2, <1>3, <1>4, <1>5, <1>6 DEF Next, Idle
<1>8. QED
  BY <1>1, <1>7 DEF ChainInv

LEMMA ChainAlways == ASSUME WholeReads PROVE Spec => [](TypeOK /\ ChainInv)
<1>1. Init => TypeOK /\ ChainInv
  BY TypeInit, ExactInit
<1>2. TypeOK /\ ChainInv /\ [Next]_vars => (TypeOK /\ ChainInv)'
  BY TypeNext, ChainNext
<1>3. QED
  BY <1>1, <1>2, PTL DEF Spec

(* A checkpoint stands for exactly the evidence before its offset: resuming*)
(* from it handles no signature twice and leaves none out (state.rs and    *)
(* the reader loop of pipeline/mod.rs), along every chain of runs.         *)
THEOREM ResumedExactly == ASSUME WholeReads PROVE Spec => []ResumeExact
<1>1. ChainInv => ResumeExact
  BY DEF ChainInv, SavedExact, Exact, ResumeExact
<1>2. QED
  BY <1>1, ChainAlways, PTL

(* A checkpoint that was written can be used: the offset it saves is       *)
(* inside the evidence, so validate() does not refuse it.                  *)
THEOREM SavedUsable == ASSUME WholeReads PROVE Spec => []CheckpointUsable
<1>1. ChainInv => CheckpointUsable
  BY DEF ChainInv, SavedExact, CheckpointUsable
<1>2. QED
  BY <1>1, ChainAlways, PTL

(* A run that gets to the end by itself has handled every signature once,  *)
(* counted over the whole chain of runs it goes back to.                   *)
THEOREM ChainComplete == ASSUME WholeReads PROVE Spec => CompleteExact
<1>1. ASSUME TypeOK, ChainInv, RunComplete, NEW h \in Sigs
      PROVE  times[h] = 1
  <2>1. /\ mode = "scanning" /\ cursor \notin Ids /\ cursor \in Nat
        /\ opts \in Options
    BY <1>1 DEF RunComplete, EndRun, JoinAndFlush, TypeOK
  <2>2. /\ opts.size \in 1 .. MaxU64 /\ opts.size \in Nat \ {0}
        /\ EvidenceLen \in 0 .. MaxU64 /\ EvidenceLen \in Nat
        /\ h \in Nat /\ PatLen \in Nat \ {0} /\ h + PatLen <= EvidenceLen
    BY <2>1, OptionsAre, Constants DEF WholeReads
  <2>3. cursor * opts.size \in Nat /\ ~(cursor * opts.size < EvidenceLen)
    BY <2>1, <2>2, ChunkIdsAre, ProductStep DEF Ids
  <2>4. h < cursor * opts.size
    BY <2>2, <2>3
  <2>5. QED
    BY <1>1, <2>1, <2>4 DEF ChainInv, ScanExact, Exact
<1>2. TypeOK /\ ChainInv =>
        [RunComplete =>
           \A h \in Sigs : h + PatLen <= EvidenceLen => times[h] = 1]_vars
  BY <1>1
<1>3. QED
  BY <1>2, ChainAlways, PTL DEF CompleteExact

-----------------------------------------------------------------------------
(* A run, be it refused later, opens the metadata files of run id `r`.     *)
Opens(r) ==
    \E o \in Options :
        o.run = r /\ (\/ StartFresh(o) \/ ResumeRefused(o)
                     \/ \E c \in ckpt : StartResumed(o, c))

LEMMA OpeningKeepsOthers ==
    ASSUME TypeOK, NEW o \in Options, OpenSink(o),
           NEW r \in RunIds, r # o.run
    PROVE  records'[r] = records[r]
BY DEF OpenSink, TypeOK

LEMMA FlushingAdds ==
    ASSUME TypeOK, NEW r \in RunIds,
           records' = [records EXCEPT ![opts.run] = @ \cup buffered]
    PROVE  records[r] \subseteq records'[r]
BY DEF TypeOK

(* Records on disk disappear in one way only: a run opens the files of the *)
(* same run id again (the sinks' File::create, called by main).  Scanning, *)
(* flushes, Ctrl+C, limits, crashes, torn checkpoints and runs under other *)
(* ids keep them, so RecordsSurvive fails for reused run ids alone.        *)
THEOREM LostOnlyByReopening ==
    Spec => [][\A r \in RunIds :
                  Opens(r) \/ records[r] \subseteq records'[r]]_vars
<1>1. ASSUME TypeOK, Next, NEW r \in RunIds, ~Opens(r)
      PROVE  records[r] \subseteq records'[r]
  <2>1. ASSUME NEW o \in Options,
               \/ StartFresh(o) \/ ResumeRefused(o)
               \/ \E c \in ckpt : StartResumed(o, c)
        PROVE  records[r] \subseteq records'[r]
    <3>1. r # o.run
      BY <1>1, <2>1 DEF Opens
    <3>2. OpenSink(o)
      BY <2>1 DEF StartFresh, ResumeRefused, StartResumed
    <3>3. QED
      BY <1>1, <3>1, <3>2, OpeningKeepsOthers
  <2>2. CASE ScanChunk \/ Crash \/ Idle
    BY <2>2 DEF ScanChunk, Crash, Idle, vars
  <2>3. CASE Flush
    BY <1>1, <2>3, FlushingAdds DEF Flush
  <2>4. CASE StopCancelled \/ StopLimit \/ RunComplete \/ TornCheckpoint
    <3>1. JoinAndFlush
      BY <2>4 DEF StopCancelled, StopLimit, RunComplete, TornCheckpoint, EndRun
    <3>2. QED
      BY <1>1, <3>1, FlushingAdds DEF JoinAndFlush
  <2>5. QED
    BY <1>1, <2>1, <2>2, <2>3, <2>4 DEF Next
<1>2. TypeOK /\ [Next]_vars =>
        [\A r \in RunIds : Opens(r) \/ records[r] \subseteq records'[r]]_vars
  BY <1>1
<1>3. QED
  BY <1>2, SessionTypes, PTL DEF Spec

=============================================================================
