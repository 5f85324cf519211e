--------------------------- MODULE PipelineProofs ---------------------------
(***************************************************************************)
(* Theorems about Pipeline, for every evidence, pool size and limit: its   *)
(* types, its file limit, and what becomes of a hit.  A signature is       *)
(* counted by one scanner at most, and a counted hit is in exactly one     *)
(* place (a scanner's hands, the channel, a carver's hands) until it is    *)
(* settled or dropped.  So the run implements HitLedger, and a run that    *)
(* ends without a panic or a sink error has recorded every carved file,    *)
(* with the summary last.                                                  *)
(***************************************************************************)
EXTENDS Pipeline, ChunkingProofs, FiniteSetTheorems, SequenceTheorems, TLAPS

(* The pools are finite and not empty: workers.max(1).                     *)
LEMMA PoolsNonempty ==
    /\ PoolSize \in Nat \ {0} /\ ChannelCap \in Nat \ {0} /\ WideCap \in Nat \ {0}
    /\ IsFiniteSet(Carvers) /\ Cardinality(Carvers) = PoolSize /\ Carvers # {}
<1>1. /\ PoolSize \in Nat \ {0} /\ ChannelCap \in Nat \ {0}
      /\ WideCap \in Nat \ {0}
  BY PoolAssumption DEF PoolSize, ChannelCap, WideCap, Max2
<1>2. IsFiniteSet(Carvers) /\ Cardinality(Carvers) = PoolSize
  BY PoolAssumption
<1>3. QED
  BY <1>1, <1>2, FS_EmptySet

(* The geometry stays within the naturals.                                 *)
LEMMA StartType == \A k \in Nat : Start(k) \in Nat
<1> SUFFICES ASSUME NEW k \in Nat PROVE Start(k) \in Nat
  OBVIOUS
<1>1. ChunkSize \in Nat /\ MaxU64 \in Nat
  BY GeometryAssumption, MaxU64Assumption
<1>2. k * ChunkSize \in Nat
  BY <1>1
<1>3. QED
  BY <1>1, <1>2 DEF Start, ChunkStart, Min2

LEMMA GeometryType ==
    /\ ChunksBefore \in Nat
    /\ FirstChunk(ResumeOffset, EvidenceLen, ChunkSize) \in Nat
    /\ \A k \in Nat : SatAdd(Start(k), ChunkSize) \in Nat
    /\ \A k \in Nat : ChunkLength(k, EvidenceLen, ChunkSize, Overlap) \in Int
<1>1. ChunksBefore \in Nat
  BY GeometryAssumption, MaxU64Assumption DEF ChunksBefore, ResumeChunks
<1>2. FirstChunk(ResumeOffset, EvidenceLen, ChunkSize) \in Nat
  <2> DEFINE ids == {k \in ChunkIds(EvidenceLen, ChunkSize) :
                        ChunkStart(k, ChunkSize) < ResumeOffset}
  <2>1. ids \subseteq 0 .. EvidenceLen
    BY DEF ChunkIds
  <2>2. EvidenceLen \in Int
    BY GeometryAssumption, MaxU64Assumption
  <2>3. IsFiniteSet(0 .. EvidenceLen)
    BY <2>2, FS_Interval
  <2>4. IsFiniteSet(ids)
    BY <2>1, <2>3, FS_Subset
  <2>5. Cardinality(ids) \in Nat
    BY <2>4, FS_CardinalityType
  <2>6. QED
    BY <2>5 DEF FirstChunk
<1>3. \A k \in Nat : SatAdd(Start(k), ChunkSize) \in Nat
  BY StartType, GeometryAssumption, MaxU64Assumption DEF SatAdd, Min2
<1>4. \A k \in Nat : ChunkLength(k, EvidenceLen, ChunkSize, Overlap) \in Int
  BY StartType, GeometryAssumption, MaxU64Assumption
     DEF ChunkLength, SatAdd, Min2, Start
<1>5. QED
  BY <1>1, <1>2, <1>3, <1>4

LEMMA EventType ==
    \A kind \in Kinds, id \in Nat : Event(kind, id) \in Events
BY DEF Event, Events

LEMMA InitTypeOK == Init => TypeOK
<1> SUFFICES ASSUME Init PROVE TypeOK
  OBVIOUS
<1>1. ReaderType
  BY GeometryType, GeometryAssumption
     DEF Init, ReaderType, ReaderPcs, Jobs, NoJob, Stops
<1>2. ScanQType /\ HitQType /\ StrQType /\ MetaQType
  BY PoolsNonempty DEF Init, ScanQType, HitQType, StrQType, MetaQType
<1>3. ScanType /\ CarveType /\ StrType
  BY DEF Init, ScanType, ScanPcs, CarveType, CarvePcs, StrType, StrPcs, Jobs,
         NoJob
<1>4. MetaType
  BY DEF Init, MetaType
<1>5. cancel \in BOOLEAN
  BY DEF Init
<1>6. filesCarved \in Nat /\ FateType /\ panics \in Nat
  BY DEF Init, FateType, Fates
<1>7. QED
  BY <1>1, <1>2, <1>3, <1>4, <1>5, <1>6 DEF TypeOK

(* A group of variables that a step leaves alone keeps its type.           *)
LEMMA Frame ==
    /\ ReaderType /\ UNCHANGED readerVars => ReaderType'
    /\ ScanQType /\ UNCHANGED scanQ => ScanQType'
    /\ HitQType /\ UNCHANGED hitQ => HitQType'
    /\ StrQType /\ UNCHANGED strQ => StrQType'
    /\ MetaQType /\ UNCHANGED metaQ => MetaQType'
    /\ ScanType /\ UNCHANGED scanVars => ScanType'
    /\ CarveType /\ UNCHANGED carveVars => CarveType'
    /\ StrType /\ UNCHANGED strVars => StrType'
    /\ MetaType /\ UNCHANGED metaVars => MetaType'
    /\ FateType /\ UNCHANGED fate => FateType'
<1>1. ReaderType /\ UNCHANGED readerVars => ReaderType'
  BY DEF ReaderType, readerVars
<1>2. /\ ScanQType /\ UNCHANGED scanQ => ScanQType'
      /\ HitQType /\ UNCHANGED hitQ => HitQType'
      /\ StrQType /\ UNCHANGED strQ => StrQType'
      /\ MetaQType /\ UNCHANGED metaQ => MetaQType'
  BY DEF ScanQType, HitQType, StrQType, MetaQType
<1>3. ScanType /\ UNCHANGED scanVars => ScanType'
  BY DEF ScanType, scanVars
<1>4. CarveType /\ UNCHANGED carveVars => CarveType'
  BY DEF CarveType, carveVars
<1>5. StrType /\ UNCHANGED strVars => StrType'
  BY DEF StrType, strVars
<1>6. MetaType /\ UNCHANGED metaVars => MetaType'
  BY DEF MetaType, metaVars
<1>7. FateType /\ UNCHANGED fate => FateType'
  BY DEF FateType
<1>8. QED
  BY <1>1, <1>2, <1>3, <1>4, <1>5, <1>6, <1>7

(* Receiving from a channel: the message and the channel keep their types. *)
LEMMA PopType ==
    ASSUME NEW S, NEW q \in Seq(S), q # <<>>, NEW cap \in Nat, Len(q) <= cap
    PROVE  /\ Head(q) \in S /\ Tail(q) \in Seq(S)
           /\ Len(Tail(q)) <= cap
BY HeadTailProperties, LenProperties

(* What SendMeta appends is an event, and it fits.                         *)
LEMMA SendMetaType ==
    ASSUME MetaQType, NEW e \in Events, SendMeta(e)
    PROVE  MetaQType'
BY PoolsNonempty DEF MetaQType, SendMeta

LEMMA ReaderStepType == TypeOK /\ ReaderStep => TypeOK'
<1> SUFFICES ASSUME TypeOK, ReaderStep PROVE TypeOK'
  OBVIOUS
<1> USE DEF TypeOK
<1>1. ASSUME ReaderType', ReaderOnly PROVE TypeOK'
  BY <1>1, Frame DEF ReaderOnly
<1>2. CASE LoopEnds
  <2>1. ReaderType'
    BY <1>2 DEF LoopEnds, ReaderType, ReaderPcs
  <2>2. QED
    BY <1>1, <1>2, <2>1 DEF LoopEnds
<1>3. CASE CheckFiles
  <2>1. ReaderType'
    BY <1>3 DEF CheckFiles, ReaderType, ReaderPcs, Stops
  <2>2. QED
    BY <1>1, <1>3, <2>1 DEF CheckFiles
<1>4. CASE CheckStop
  <2>1. StopReasons \subseteq Stops
    BY DEF StopReasons, Stops
  <2>2. ReaderType'
    BY <1>4, <2>1 DEF CheckStop, ReaderType, ReaderPcs
  <2>3. QED
    BY <1>1, <1>4, <2>2 DEF CheckStop
<1>5. CASE ReadChunk
  <2>1. Wanted \in Nat
    <3>1. cursor \in Nat /\ cursor \in Ids /\ bytesScanned \in Nat
      BY <1>5 DEF ReaderType, ReadChunk
    <3>2. MaxBytes - Scanned \in Nat
      BY <1>5, <3>1, GeometryAssumption, LimitAssumption, MaxU64Assumption
         DEF ReadChunk, StopReasons, Scanned
    <3>3. ChunkLength(cursor, EvidenceLen, ChunkSize, Overlap) \in Nat
      BY <3>1, StartType, GeometryAssumption, MaxU64Assumption
         DEF Ids, ChunkIds, ChunkLength, SatAdd, Min2, Start
    <3>4. QED
      BY <3>2, <3>3 DEF Wanted, Min2
  <2>2. ReadLens \subseteq Nat
    BY <2>1 DEF ReadLens
  <2>3. ReaderType'
    BY <1>5, <2>2, GeometryType DEF ReadChunk, ReaderType, ReaderPcs, Jobs
  <2>4. QED
    BY <1>1, <1>5, <2>3 DEF ReadChunk
<1>6. CASE ReadFails
  <2>1. ReaderType'
    BY <1>6 DEF ReadFails, ReaderType, ReaderPcs
  <2>2. QED
    BY <1>1, <1>6, <2>1 DEF ReadFails
<1>7. CASE SendJob
  <2>1. ReaderType'
    BY <1>7 DEF SendJob, ReaderType, ReaderPcs, Jobs, NoJob
  <2>2. ScanQType'
    BY <1>7, PoolsNonempty DEF SendJob, ScanQType, ReaderType
  <2>3. QED
    BY <1>7, <2>1, <2>2, Frame DEF SendJob
<1>8. CASE SendFlush
  <2>1. ReaderType'
    BY <1>8 DEF SendFlush, ReaderType, ReaderPcs
  <2>2. MetaQType'
    <3>1. Event("flush", 0) \in Events
      BY EventType DEF Kinds
    <3>2. QED
      BY <1>8, <3>1, SendMetaType, Frame DEF SendFlush, MetaClosed
  <2>3. QED
    BY <1>8, <2>1, <2>2, Frame DEF SendFlush
<1>9. CASE NextChunk
  <2>1. stop' \subseteq Stops /\ rpc' \in {"close", "loop"}
    BY <1>9 DEF NextChunk, ReaderType, Stops
  <2>2. cursor' \in Nat
    BY <1>9 DEF NextChunk, ReaderType
  <2>3. ReaderType'
    BY <1>9, <2>1, <2>2 DEF NextChunk, ReaderType, ReaderPcs
  <2>4. QED
    BY <1>1, <1>9, <2>3 DEF NextChunk
<1>10. CASE \/ CloseChannels \/ JoinScanners \/ JoinCarvers \/ JoinStringers
            \/ ProcessExit
  <2>1. ReaderType'
    BY <1>10 DEF CloseChannels, JoinScanners, JoinCarvers, JoinStringers,
                 ProcessExit, JoinPool, ReaderType, ReaderPcs
  <2>2. QED
    BY <1>1, <1>10, <2>1 DEF CloseChannels, JoinScanners, JoinCarvers,
                             JoinStringers, ProcessExit, JoinPool
<1>11. CASE SendSummary
  <2>1. ReaderType'
    BY <1>11 DEF SendSummary, ReaderType, ReaderPcs
  <2>2. MetaQType'
    <3>1. Event("summary", filesCarved) \in Events
      BY EventType DEF Kinds
    <3>2. QED
      BY <1>11, <3>1, SendMetaType, Frame DEF SendSummary, MetaClosed
  <2>3. QED
    BY <1>11, <2>1, <2>2, Frame DEF SendSummary
<1>12. CASE Finish
  <2>1. saved' = {Min2(nextOffset, EvidenceLen)} \/ saved' = saved
    BY <1>12 DEF Finish
  <2>2. Min2(nextOffset, EvidenceLen) \in Nat
    BY GeometryAssumption, MaxU64Assumption DEF ReaderType, Min2
  <2>3. saved' \subseteq Nat
    BY <2>1, <2>2 DEF ReaderType
  <2>4. /\ rpc' = "done"
        /\ UNCHANGED <<cursor, job, bytesScanned, chunksSeen, nextOffset, stop>>
        /\ ReaderOnly
    BY <1>12 DEF Finish
  <2>5. ReaderType'
    BY <2>3, <2>4 DEF ReaderType, ReaderPcs
  <2>6. QED
    BY <1>1, <2>4, <2>5
<1>13. QED
  BY <1>2, <1>3, <1>4, <1>5, <1>6, <1>7, <1>8, <1>9, <1>10, <1>11, <1>12
     DEF ReaderStep

LEMMA ScanStepType ==
    ASSUME TypeOK, NEW s \in Scanners, ScanStep(s)
    PROVE  TypeOK'
<1> USE DEF TypeOK
<1>1. scanJob[s] \in Jobs /\ scanTodo[s] \subseteq Sigs
  BY DEF ScanType
<1>2. CASE ScanRecv(s)
  <2>1. Head(scanQ) \in Jobs /\ ScanQType'
    <3>1. scanQ \in Seq(Jobs) /\ scanQ # <<>> /\ Len(scanQ) <= ChannelCap
      BY <1>2 DEF ScanRecv, ScanQType
    <3>2. /\ Head(scanQ) \in Jobs /\ Tail(scanQ) \in Seq(Jobs)
          /\ Len(Tail(scanQ)) <= ChannelCap
      BY <3>1, PopType, PoolsNonempty
    <3>3. QED
      BY <1>2, <3>2 DEF ScanRecv, ScanQType
  <2>2. JobHits(Head(scanQ)) \subseteq Sigs
    BY DEF JobHits
  <2>3. ScanType'
    BY <1>2, <2>1, <2>2 DEF ScanRecv, ScanType, ScanPcs
  <2>4. QED
    BY <1>2, <2>1, <2>3, Frame DEF ScanRecv
<1>3. CASE ScanEnd(s)
  <2>1. ScanType'
    BY <1>3 DEF ScanEnd, ScanType, ScanPcs
  <2>2. QED
    BY <1>3, <2>1, Frame DEF ScanEnd
<1>4. CASE CountHit(s)
  <2>1. FateType'
    BY <1>1, <1>4 DEF CountHit, FateType, Fates
  <2>2. QED
    BY <1>4, <2>1, Frame DEF CountHit
<1>5. CASE SendHit(s)
  <2>1. PICK h \in Counted(s) :
          \/ /\ fate' = [fate EXCEPT ![h] = "dropped"]
             /\ scanTodo' = [scanTodo EXCEPT ![s] = {}]
             /\ UNCHANGED hitQ
          \/ /\ Len(hitQ) < WideCap
             /\ hitQ' = Append(hitQ, h)
             /\ scanTodo' = [scanTodo EXCEPT ![s] = @ \ {h}]
             /\ UNCHANGED fate
    BY <1>5 DEF SendHit
  <2>2. h \in Sigs
    BY <1>1 DEF Counted
  <2>3. HitQType'
    BY <2>1, <2>2, PoolsNonempty DEF HitQType
  <2>4. FateType'
    BY <2>1, <2>2 DEF FateType, Fates
  <2>5. ScanType'
    BY <1>5, <2>1 DEF SendHit, ScanType
  <2>6. QED
    BY <1>5, <2>3, <2>4, <2>5, Frame DEF SendHit
<1>6. ASSUME NEW at, JobStepEnds(s, at), UNCHANGED scanTodo
      PROVE  ScanType'
  BY <1>6 DEF JobStepEnds, AfterJobStep, ScanType, ScanPcs, Jobs, NoJob
<1>7. CASE HitsSent(s)
  <2>1. ScanType'
    BY <1>6, <1>7 DEF HitsSent
  <2>2. QED
    BY <1>7, <2>1, Frame DEF HitsSent
<1>8. CASE SendSpans(s)
  <2>1. ScanType'
    <3>1. CASE JobStepEnds(s, "strings")
      BY <1>6, <1>8, <3>1 DEF SendSpans
    <3>2. CASE /\ scanPc' = [scanPc EXCEPT ![s] = "done"]
               /\ scanJob' = [scanJob EXCEPT ![s] = NoJob]
      BY <1>8, <3>2 DEF SendSpans, ScanType, ScanPcs, Jobs, NoJob
    <3>3. QED
      BY <1>8, <3>1, <3>2 DEF SendSpans
  <2>2. JobSpans(scanJob[s]) \in SUBSET Spans
    BY DEF JobSpans
  <2>3. StrQType'
    BY <1>8, <2>2, PoolsNonempty DEF SendSpans, StrQType
  <2>4. QED
    BY <1>8, <2>1, <2>3, Frame DEF SendSpans
<1>9. CASE SendEntropy(s)
  <2>1. ScanType'
    BY <1>6, <1>9 DEF SendEntropy
  <2>2. scanJob[s].chunk \in Nat
    BY <1>1 DEF Jobs
  <2>3. Event("entropy", Start(scanJob[s].chunk)) \in Events
    BY <2>2, StartType, EventType DEF Kinds
  <2>4. MetaQType'
    BY <1>9, <2>3, SendMetaType, Frame DEF SendEntropy
  <2>5. QED
    BY <1>9, <2>1, <2>4, Frame DEF SendEntropy
<1>10. QED
  BY <1>2, <1>3, <1>4, <1>5, <1>7, <1>8, <1>9 DEF ScanStep

LEMMA CarverLeavesType ==
    ASSUME HitQType, CarveType, FateType, NEW c \in Carvers, NEW lost,
           CarverLeaves(c, lost)
    PROVE  HitQType' /\ CarveType' /\ FateType'
<1>1. HitQType'
  BY PoolsNonempty DEF CarverLeaves, HitQType
<1>2. CarveType'
  BY DEF CarverLeaves, CarveType, CarvePcs, ParserStages
<1>3. FateType'
  <2> DEFINE gone == lost \cup IF \A d \in Carvers \ {c} : carvePc[d] = "done"
                               THEN QueuedHits ELSE {}
  <2>1. fate' = [h \in Sigs |-> IF h \in gone THEN "dropped" ELSE fate[h]]
    BY DEF CarverLeaves
  <2> HIDE DEF gone
  <2>2. QED
    BY <2>1 DEF FateType, Fates
<1>4. QED
  BY <1>1, <1>2, <1>3

LEMMA CarveStepType ==
    ASSUME TypeOK, NEW c \in Carvers, CarveStep(c)
    PROVE  TypeOK'
<1> USE DEF TypeOK
<1>1. CASE CarveRecv(c)
  <2>1. Head(hitQ) \in Sigs /\ HitQType'
    <3>1. hitQ \in Seq(Sigs) /\ hitQ # <<>> /\ Len(hitQ) <= WideCap
      BY <1>1 DEF CarveRecv, HitQType
    <3>2. /\ Head(hitQ) \in Sigs /\ Tail(hitQ) \in Seq(Sigs)
          /\ Len(Tail(hitQ)) <= WideCap
      BY <3>1, PopType, PoolsNonempty
    <3>3. QED
      BY <1>1, <3>2 DEF CarveRecv, HitQType
  <2>2. CarveType'
    BY <1>1, <2>1 DEF CarveRecv, CarveType, CarvePcs
  <2>3. QED
    BY <1>1, <2>1, <2>2, Frame DEF CarveRecv
<1>2. CASE CarveEnd(c)
  <2>1. CarveType'
    BY <1>2 DEF CarveEnd, CarveType, CarvePcs
  <2>2. QED
    BY <1>2, <2>1, Frame DEF CarveEnd
<1>3. CASE CheckLimit(c)
  <2>1. HitQType' /\ CarveType' /\ FateType'
    <3>1. CASE LimitReached(filesCarved)
      BY <1>3, <3>1, CarverLeavesType DEF CheckLimit
    <3>2. CASE ~LimitReached(filesCarved)
      <4>1. HitQType' /\ FateType'
        BY <1>3, <3>2, Frame DEF CheckLimit
      <4>2. CarveType'
        BY <1>3, <3>2 DEF CheckLimit, CarveType, CarvePcs
      <4>3. QED
        BY <4>1, <4>2
    <3>3. QED
      BY <3>1, <3>2
  <2>2. QED
    BY <1>3, <2>1, Frame DEF CheckLimit
<1>4. CASE CarveNothing(c)
  <2>1. carveHit[c] \in Sigs
    BY <1>4 DEF CarveNothing, CarveType
  <2>2. FateType'
    BY <1>4, <2>1 DEF CarveNothing, FateType, Fates
  <2>3. CarveType'
    BY <1>4 DEF CarveNothing, CarveType, CarvePcs
  <2>4. QED
    BY <1>4, <2>2, <2>3, Frame DEF CarveNothing
<1>5. CASE CarveFile(c)
  <2>1. carveHit[c] \in Sigs
    BY <1>5 DEF CarveFile, CarveType
  <2>2. FateType'
    BY <1>5, <2>1 DEF CarveFile, FateType, Fates, Settled
  <2>3. CarveType'
    BY <1>5, <2>1 DEF CarveFile, CarveType, CarvePcs
  <2>4. filesCarved' \in Nat
    BY <1>5 DEF CarveFile
  <2>5. QED
    BY <1>5, <2>2, <2>3, <2>4, Frame DEF CarveFile
<1>6. CASE SendRecord(c)
  <2>1. carveHit[c] \in Sigs /\ carveHit[c] \in Nat
    BY <1>6, ContentAssumption DEF SendRecord, CarveType
  <2>2. MetaQType'
    <3>1. Event("file", carveHit[c]) \in Events
      BY <2>1, EventType DEF Kinds
    <3>2. QED
      BY <1>6, <3>1, SendMetaType, Frame DEF SendRecord, MetaClosed
  <2>3. CarveType'
    BY <1>6, <2>1 DEF SendRecord, AfterRecord, CarveType, CarvePcs, ParserStages
  <2>4. QED
    BY <1>6, <2>2, <2>3, Frame DEF SendRecord
<1>7. CASE ParseSqlite(c)
  <2>1. /\ carvePc[c] \in ParserStages
        /\ carveHit[c] \in Sigs /\ carveHit[c] \in Nat
    BY <1>7, ContentAssumption DEF ParseSqlite, CarveType, ParserStages
  <2>2. NextStage(carvePc[c]) \in {"cookie", "download", "limit"}
    BY <2>1 DEF NextStage, ParserStages
  <2>3. MetaQType'
    <3>1. Event(carvePc[c], carveHit[c]) \in Events
      BY <2>1, EventType DEF Kinds, ParserStages
    <3>2. QED
      BY <1>7, <3>1, SendMetaType, Frame DEF ParseSqlite, MetaClosed
  <2>4. \E pc \in {"cookie", "download", "limit"} :
          carvePc' = [carvePc EXCEPT ![c] = pc]
    BY <1>7, <2>2 DEF ParseSqlite
  <2>5. CarveType'
    BY <1>7, <2>1, <2>4 DEF ParseSqlite, CarveType, CarvePcs, ParserStages
  <2>6. QED
    BY <1>7, <2>3, <2>5, Frame DEF ParseSqlite
<1>8. CASE CheckTotal(c)
  <2>1. HitQType' /\ CarveType' /\ FateType'
    <3>1. CASE LimitReached(carveTotal[c])
      BY <1>8, <3>1, CarverLeavesType DEF CheckTotal
    <3>2. CASE ~LimitReached(carveTotal[c])
      <4>1. HitQType' /\ FateType'
        BY <1>8, <3>2, Frame DEF CheckTotal
      <4>2. CarveType'
        BY <1>8, <3>2 DEF CheckTotal, CarveType, CarvePcs
      <4>3. QED
        BY <4>1, <4>2
    <3>3. QED
      BY <3>1, <3>2
  <2>2. QED
    BY <1>8, <2>1, Frame DEF CheckTotal
<1>9. QED
  BY <1>1, <1>2, <1>3, <1>4, <1>5, <1>6, <1>7, <1>8 DEF CarveStep

LEMMA StrStepType ==
    ASSUME TypeOK, NEW t \in Stringers, StrStep(t)
    PROVE  TypeOK'
<1> USE DEF TypeOK
<1>1. CASE StrRecv(t)
  <2>1. Head(strQ) \in SUBSET Spans /\ StrQType'
    <3>1. strQ \in Seq(SUBSET Spans) /\ strQ # <<>> /\ Len(strQ) <= ChannelCap
      BY <1>1 DEF StrRecv, StrQType
    <3>2. /\ Head(strQ) \in SUBSET Spans /\ Tail(strQ) \in Seq(SUBSET Spans)
          /\ Len(Tail(strQ)) <= ChannelCap
      BY <3>1, PopType, PoolsNonempty
    <3>3. QED
      BY <1>1, <3>2 DEF StrRecv, StrQType
  <2>2. StrType'
    BY <1>1, <2>1 DEF StrRecv, StrType, StrPcs
  <2>3. QED
    BY <1>1, <2>1, <2>2, Frame DEF StrRecv
<1>2. CASE StrEnd(t)
  <2>1. StrType'
    BY <1>2 DEF StrEnd, StrType, StrPcs
  <2>2. QED
    BY <1>2, <2>1, Frame DEF StrEnd
<1>3. CASE SendArtefact(t)
  <2>1. PICK p \in strTodo[t] :
          /\ SendMeta(Event("string", p)) \/ MetaClosed
          /\ strTodo' = [strTodo EXCEPT ![t] = @ \ {p}]
          /\ strPc' = [strPc EXCEPT ![t] = IF strTodo[t] = {p} THEN "recv"
                                           ELSE "work"]
    BY <1>3 DEF SendArtefact
  <2>2. p \in Nat
    BY <2>1, ContentAssumption DEF StrType
  <2>3. Event("string", p) \in Events
    BY <2>2, EventType DEF Kinds
  <2>4. MetaQType'
    BY <2>1, <2>3, SendMetaType, Frame DEF MetaClosed
  <2>5. StrType'
    BY <2>1 DEF StrType, StrPcs
  <2>6. QED
    BY <1>3, <2>4, <2>5, Frame DEF SendArtefact
<1>4. QED
  BY <1>1, <1>2, <1>3 DEF StrStep

LEMMA MetaStepType == TypeOK /\ MetaStep => TypeOK'
<1> SUFFICES ASSUME TypeOK, MetaStep PROVE TypeOK'
  OBVIOUS
<1> USE DEF TypeOK
<1>1. CASE MetaRecv
  <2>1. Head(metaQ) \in Events /\ MetaQType'
    <3>1. metaQ \in Seq(Events) /\ metaQ # <<>> /\ Len(metaQ) <= WideCap
      BY <1>1 DEF MetaRecv, MetaQType
    <3>2. /\ Head(metaQ) \in Events /\ Tail(metaQ) \in Seq(Events)
          /\ Len(Tail(metaQ)) <= WideCap
      BY <3>1, PopType, PoolsNonempty
    <3>3. QED
      BY <1>1, <3>2 DEF MetaRecv, MetaQType
  <2>2. /\ UNCHANGED metaPc
        /\ \/ flushed' = Len(log) /\ UNCHANGED <<log, metaErrors>>
           \/ log' = Append(log, Head(metaQ)) /\ UNCHANGED <<flushed, metaErrors>>
           \/ metaErrors' = metaErrors + 1 /\ UNCHANGED <<log, flushed>>
    BY <1>1 DEF MetaRecv
  <2>3. MetaType'
    BY <2>1, <2>2, SMTT(30) DEF MetaType
  <2>4. QED
    BY <1>1, <2>1, <2>3, Frame DEF MetaRecv
<1>2. CASE MetaEnd
  <2>1. MetaType'
    BY <1>2 DEF MetaEnd, MetaType
  <2>2. QED
    BY <1>2, <2>1, Frame DEF MetaEnd
<1>3. QED
  BY <1>1, <1>2 DEF MetaStep

LEMMA PanicType == TypeOK /\ Panic => TypeOK'
<1> SUFFICES ASSUME TypeOK, Panic PROVE TypeOK'
  OBVIOUS
<1> USE DEF TypeOK
<1>1. ASSUME PanicBudget PROVE panics' \in Nat
  BY <1>1 DEF PanicBudget
<1>2. ASSUME NEW s \in Scanners, ScanPanic(s) PROVE TypeOK'
  <2>1. ScanType'
    BY <1>2 DEF ScanPanic, ScanType, ScanPcs, Jobs, NoJob
  <2>2. QED
    BY <1>1, <1>2, <2>1, Frame DEF ScanPanic
<1>3. ASSUME NEW c \in Carvers, CarvePanic(c) PROVE TypeOK'
  <2>1. HitQType' /\ CarveType' /\ FateType'
    BY <1>3, CarverLeavesType DEF CarvePanic
  <2>2. QED
    BY <1>1, <1>3, <2>1, Frame DEF CarvePanic
<1>4. ASSUME NEW t \in Stringers, StrPanic(t) PROVE TypeOK'
  <2>1. StrType'
    BY <1>4 DEF StrPanic, StrType, StrPcs
  <2>2. QED
    BY <1>1, <1>4, <2>1, Frame DEF StrPanic
<1>5. CASE MetaPanic
  <2>1. MetaQType'
    BY <1>5, PoolsNonempty DEF MetaPanic, MetaQType
  <2>2. MetaType'
    BY <1>5 DEF MetaPanic, MetaType
  <2>3. QED
    BY <1>1, <1>5, <2>1, <2>2, Frame DEF MetaPanic
<1>6. QED
  BY <1>2, <1>3, <1>4, <1>5 DEF Panic

LEMMA NextTypeOK == TypeOK /\ [Next]_vars => TypeOK'
<1> SUFFICES ASSUME TypeOK, [Next]_vars PROVE TypeOK'
  OBVIOUS
<1>1. CASE Cancel
  <2>1. cancel' \in BOOLEAN
    BY <1>1 DEF Cancel
  <2>2. QED
    BY <1>1, <2>1, Frame DEF Cancel, TypeOK
<1>2. ASSUME UNCHANGED vars PROVE TypeOK'
  BY <1>2, Frame DEF TypeOK, vars
<1>3. CASE Terminated
  BY <1>2, <1>3 DEF Terminated
<1>4. QED
  BY <1>1, <1>2, <1>3, ReaderStepType, ScanStepType, CarveStepType,
     StrStepType, MetaStepType, PanicType DEF Next

(* The state always has its type; above all, every channel stays within    *)
(* its capacity, and the chunk being read is one of build_chunks.          *)
THEOREM TypeCorrect == Spec => []TypeOK
<1>1. QED
  BY InitTypeOK, NextTypeOK, PTL DEF Spec

-----------------------------------------------------------------------------
(* The file limit: how far a run can overshoot it, and that nothing else   *)
(* makes the carvers give up a hit.                                        *)

(* The carvers that are past the load of files_carved and have not counted *)
(* their file yet.                                                         *)
AtCarve == {c \in Carvers : carvePc[c] = "carve"}

(* The files there may still be are counted with the files there are.      *)
CountBound(limit) ==
    IF limit = 0 THEN filesCarved = 0 /\ AtCarve = {}
    ELSE filesCarved + Cardinality(AtCarve) <= limit - 1 + PoolSize

OvershootInv == \A limit \in MaxFiles : CountBound(limit)

(* A carver that is gone left for the limit, by a panic, or because no hit *)
(* is left and none can come any more.                                     *)
NoMoreHits == ReaderClosed /\ ScannersDone /\ hitQ = <<>>
GaveUp == LimitReached(filesCarved) \/ panics > 0
CarverGone == \A c \in Carvers : carvePc[c] = "done" => GaveUp \/ NoMoreHits
TotalCounted == \A c \in Carvers : carveTotal[c] <= filesCarved
DropsHaveCause == Dropped # {} => GaveUp

(* While hits may still come and the limit is not reached, each carver     *)
(* that is gone has cost a panic.                                          *)
GoneCarvers == {c \in Carvers : carvePc[c] = "done"}
GoneByPanic ==
    LimitReached(filesCarved) \/ NoMoreHits \/ Cardinality(GoneCarvers) <= panics

DropInv ==
    /\ DropsHaveCause /\ CarverGone /\ TotalCounted
    /\ GoneByPanic /\ DroppedOnlyAtLimit

-----------------------------------------------------------------------------
(* Who changes what.  Only a carver touches the carvers and the counter.   *)
LEMMA NotACarver ==
    ASSUME TypeOK, [Next]_vars,
           \A c \in Carvers : ~CarveStep(c) /\ ~CarvePanic(c)
    PROVE  UNCHANGED <<carveVars, filesCarved>> /\ panics <= panics'
<1>1. panics \in Nat
  BY DEF TypeOK
<1>2. CASE ReaderStep
  BY <1>1, <1>2 DEF ReaderStep, LoopEnds, CheckFiles, CheckStop, ReadChunk,
     ReadFails, SendJob, SendFlush, NextChunk, CloseChannels, JoinScanners,
     JoinCarvers, JoinStringers, SendSummary, Finish, ProcessExit, JoinPool,
     ReaderOnly
<1>3. ASSUME NEW s \in Scanners, ScanStep(s)
      PROVE  UNCHANGED <<carveVars, filesCarved, panics>>
  BY <1>3 DEF ScanStep, ScanRecv, ScanEnd, CountHit, SendHit, HitsSent,
     SendSpans, SendEntropy
<1>4. ASSUME NEW t \in Stringers, StrStep(t)
      PROVE  UNCHANGED <<carveVars, filesCarved, panics>>
  BY <1>4 DEF StrStep, StrRecv, StrEnd, SendArtefact
<1>5. CASE MetaStep
  BY <1>1, <1>5 DEF MetaStep, MetaRecv, MetaEnd
<1>6. CASE Cancel
  BY <1>1, <1>6 DEF Cancel
<1>7. CASE Panic
  BY <1>1, <1>7 DEF Panic, ScanPanic, StrPanic, MetaPanic, PanicBudget
<1>8. CASE UNCHANGED vars
  BY <1>1, <1>8 DEF vars
<1>9. QED
  BY <1>1, <1>2, <1>3, <1>4, <1>5, <1>6, <1>7, <1>8 DEF Next, Terminated

(* A carver that goes anywhere but to its handler leaves AtCarve.          *)
LEMMA CarverMoves ==
    ASSUME TypeOK, NEW c \in Carvers, NEW pc, pc # "carve",
           carvePc' = [carvePc EXCEPT ![c] = pc]
    PROVE  AtCarve' \subseteq AtCarve \ {c}
BY DEF TypeOK, CarveType, AtCarve

LEMMA AtCarveFinite ==
    /\ IsFiniteSet(AtCarve) /\ Cardinality(AtCarve) \in 0 .. PoolSize
    /\ IsFiniteSet(AtCarve') /\ Cardinality(AtCarve') \in 0 .. PoolSize
<1>1. /\ IsFiniteSet(AtCarve) /\ Cardinality(AtCarve) <= Cardinality(Carvers)
      /\ IsFiniteSet(AtCarve') /\ Cardinality(AtCarve') <= Cardinality(Carvers)
  BY PoolsNonempty, FS_Subset DEF AtCarve
<1>2. Cardinality(AtCarve) \in Nat /\ Cardinality(AtCarve') \in Nat
  BY <1>1, FS_CardinalityType
<1>3. QED
  BY <1>1, <1>2, PoolsNonempty

-----------------------------------------------------------------------------
(* No carver more is past the check, and no file more is counted.          *)
LEMMA BoundFrame ==
    ASSUME TypeOK, NEW limit \in MaxFiles, CountBound(limit),
           UNCHANGED filesCarved, AtCarve' \subseteq AtCarve
    PROVE  CountBound(limit)'
<1>1. filesCarved \in Nat /\ limit \in Nat
  BY LimitAssumption DEF TypeOK
<1>2. CASE limit = 0
  BY <1>2 DEF CountBound
<1>3. CASE limit # 0
  <2>1. Cardinality(AtCarve') <= Cardinality(AtCarve)
    BY AtCarveFinite, FS_Subset
  <2>2. QED
    BY <1>1, <1>3, <2>1, AtCarveFinite, PoolsNonempty DEF CountBound
<1>4. QED
  BY <1>2, <1>3

(* The two steps the bound is about: passing the check while the limit is  *)
(* not reached, and counting the file.                                     *)
LEMMA BoundCheckLimit ==
    ASSUME TypeOK, NEW c \in Carvers, CheckLimit(c),
           NEW limit \in MaxFiles, CountBound(limit)
    PROVE  CountBound(limit)'
<1>1. filesCarved \in Nat /\ limit \in Nat /\ UNCHANGED filesCarved
  BY LimitAssumption DEF TypeOK, CheckLimit
<1>2. CASE LimitReached(filesCarved)
  <2>1. carvePc' = [carvePc EXCEPT ![c] = "done"]
    BY <1>2 DEF CheckLimit, CarverLeaves
  <2>2. AtCarve' \subseteq AtCarve
    BY <2>1, CarverMoves
  <2>3. QED
    BY <1>1, <2>2, BoundFrame
<1>3. CASE ~LimitReached(filesCarved)
  <2>1. filesCarved < limit
    BY <1>1, <1>3 DEF LimitReached
  <2>2. QED
    BY <1>1, <2>1, AtCarveFinite, PoolsNonempty DEF CountBound
<1>4. QED
  BY <1>2, <1>3

LEMMA BoundCarveFile ==
    ASSUME TypeOK, NEW c \in Carvers, CarveFile(c),
           NEW limit \in MaxFiles, CountBound(limit)
    PROVE  CountBound(limit)'
<1>1. filesCarved \in Nat /\ limit \in Nat /\ filesCarved' = filesCarved + 1
  BY LimitAssumption DEF TypeOK, CarveFile
<1>2. c \in AtCarve /\ AtCarve' \subseteq AtCarve \ {c}
  BY CarverMoves DEF CarveFile, AtCarve
<1>3. IsFiniteSet(AtCarve \ {c})
      /\ Cardinality(AtCarve \ {c}) = Cardinality(AtCarve) - 1
  BY <1>2, AtCarveFinite, FS_RemoveElement
<1>4. Cardinality(AtCarve') <= Cardinality(AtCarve) - 1
  BY <1>2, <1>3, FS_Subset
<1>5. QED
  BY <1>1, <1>2, <1>4, AtCarveFinite, PoolsNonempty DEF CountBound

LEMMA BoundNext ==
    ASSUME TypeOK, OvershootInv, [Next]_vars
    PROVE  OvershootInv'
<1> SUFFICES ASSUME NEW limit \in MaxFiles PROVE CountBound(limit)'
  BY DEF OvershootInv
<1>1. CountBound(limit)
  BY DEF OvershootInv
<1>2. ASSUME NEW c \in Carvers, CarveStep(c) PROVE CountBound(limit)'
  <2>1. CASE CheckLimit(c)
    BY <1>1, <2>1, BoundCheckLimit
  <2>2. CASE CarveFile(c)
    BY <1>1, <2>2, BoundCarveFile
  <2>3. CASE \/ CarveRecv(c) \/ CarveEnd(c) \/ CarveNothing(c)
             \/ SendRecord(c) \/ ParseSqlite(c) \/ CheckTotal(c)
    <3>1. UNCHANGED filesCarved
      BY <2>3 DEF CarveRecv, CarveEnd, CarveNothing, SendRecord, ParseSqlite,
                  CheckTotal
    <3>2. \E pc \in {"recv", "check", "done", "history", "cookie", "download",
                     "limit"} : carvePc' = [carvePc EXCEPT ![c] = pc]
      BY <2>3 DEF CarveRecv, CarveEnd, CarveNothing, SendRecord, AfterRecord,
         ParseSqlite, ParserStages, NextStage, CheckTotal, CarverLeaves
    <3>3. AtCarve' \subseteq AtCarve
      BY <3>2, CarverMoves
    <3>4. QED
      BY <1>1, <3>1, <3>3, BoundFrame
  <2>4. QED
    BY <1>2, <2>1, <2>2, <2>3 DEF CarveStep
<1>3. ASSUME NEW c \in Carvers, CarvePanic(c) PROVE CountBound(limit)'
  <2>1. UNCHANGED filesCarved /\ carvePc' = [carvePc EXCEPT ![c] = "done"]
    BY <1>3 DEF CarvePanic, CarverLeaves
  <2>2. AtCarve' \subseteq AtCarve
    BY <2>1, CarverMoves
  <2>3. QED
    BY <1>1, <2>1, <2>2, BoundFrame
<1>4. CASE \A c \in Carvers : ~CarveStep(c) /\ ~CarvePanic(c)
  <2>1. UNCHANGED <<carvePc, filesCarved>>
    BY <1>4, NotACarver DEF carveVars
  <2>2. QED
    BY <1>1, <2>1, BoundFrame DEF AtCarve
<1>5. QED
  BY <1>2, <1>3, <1>4

LEMMA BoundInit == Init => OvershootInv
<1> SUFFICES ASSUME Init, NEW limit \in MaxFiles PROVE CountBound(limit)
  BY DEF OvershootInv
<1>1. filesCarved = 0 /\ AtCarve = {}
  BY DEF Init, AtCarve
<1>2. Cardinality(AtCarve) = 0
  BY <1>1, FS_EmptySet
<1>3. limit \in Nat
  BY LimitAssumption
<1>4. QED
  BY <1>1, <1>2, <1>3, PoolsNonempty DEF CountBound

(* However the carvers interleave their loads and their fetch_adds, a run  *)
(* carves at most one file per other carver beyond max_files, and none at  *)
(* all when the limit is zero.                                             *)
THEOREM OvershootBounded == Spec => []BoundedOvershoot
<1>1. TypeOK /\ OvershootInv => BoundedOvershoot
  <2> SUFFICES ASSUME TypeOK, OvershootInv, NEW limit \in MaxFiles
               PROVE  filesCarved <= IF limit = 0 THEN 0 ELSE limit + PoolSize - 1
    BY DEF BoundedOvershoot
  <2>1. filesCarved \in Nat /\ limit \in Nat /\ CountBound(limit)
    BY LimitAssumption DEF TypeOK, OvershootInv
  <2>2. QED
    BY <2>1, AtCarveFinite, PoolsNonempty DEF CountBound
<1>2. Init /\ []TypeOK /\ [][Next]_vars => []OvershootInv
  BY BoundInit, BoundNext, PTL
<1>3. QED
  BY <1>1, <1>2, TypeCorrect, PTL DEF Spec

-----------------------------------------------------------------------------
(* Nothing takes back a reason a carver had to leave.                      *)
LEMMA CarversFrame ==
    ASSUME NEW c \in Carvers, CarveStep(c) \/ CarvePanic(c)
    PROVE  UNCHANGED <<rpc, scanPc>>
BY DEF CarveStep, CarveRecv, CarveEnd, CheckLimit, CarveNothing, CarveFile,
   SendRecord, ParseSqlite, CheckTotal, CarvePanic, readerVars, scanVars

LEMMA CountersGrow ==
    ASSUME TypeOK, [Next]_vars
    PROVE  filesCarved <= filesCarved' /\ panics <= panics'
<1>1. filesCarved \in Nat /\ panics \in Nat
  BY DEF TypeOK
<1>2. ASSUME NEW c \in Carvers, CarveStep(c)
      PROVE  filesCarved <= filesCarved' /\ panics <= panics'
  BY <1>1, <1>2 DEF CarveStep, CarveRecv, CarveEnd, CheckLimit, CarveNothing,
     CarveFile, SendRecord, ParseSqlite, CheckTotal
<1>3. ASSUME NEW c \in Carvers, CarvePanic(c)
      PROVE  filesCarved <= filesCarved' /\ panics <= panics'
  BY <1>1, <1>3 DEF CarvePanic, PanicBudget
<1>4. QED
  BY <1>1, <1>2, <1>3, NotACarver

LEMMA LimitStable ==
    ASSUME NEW m \in Nat, NEW n \in Nat, m <= n, LimitReached(m)
    PROVE  LimitReached(n)
BY LimitAssumption DEF LimitReached

LEMMA GaveUpStable ==
    ASSUME TypeOK, TypeOK', [Next]_vars, GaveUp
    PROVE  GaveUp'
<1>1. /\ filesCarved \in Nat /\ filesCarved' \in Nat
      /\ panics \in Nat /\ panics' \in Nat
  BY DEF TypeOK
<1>2. LimitReached(filesCarved) => LimitReached(filesCarved')
  BY <1>1, CountersGrow, LimitStable
<1>3. panics > 0 => panics' > 0
  BY <1>1, CountersGrow
<1>4. QED
  BY <1>2, <1>3 DEF GaveUp, LimitReached

LEMMA NoMoreHitsStable ==
    ASSUME NoMoreHits, [Next]_vars
    PROVE  NoMoreHits'
<1>1. ReaderClosed /\ ScannersDone /\ hitQ = <<>>
  BY DEF NoMoreHits
<1>2. CASE ReaderStep
  <2>1. UNCHANGED <<scanPc, hitQ>>
    BY <1>2 DEF ReaderStep, LoopEnds, CheckFiles, CheckStop, ReadChunk,
       ReadFails, SendJob, SendFlush, NextChunk, CloseChannels, JoinScanners,
       JoinCarvers, JoinStringers, SendSummary, Finish, ProcessExit, JoinPool,
       ReaderOnly, scanVars
  <2>2. ReaderClosed'
    BY <1>1, <1>2 DEF ReaderClosed, ReaderStep, LoopEnds, CheckFiles,
       CheckStop, ReadChunk, ReadFails, SendJob, SendFlush, NextChunk,
       CloseChannels, JoinScanners, JoinCarvers, JoinStringers, SendSummary,
       Finish, ProcessExit, JoinPool
  <2>3. QED
    BY <1>1, <2>1, <2>2 DEF NoMoreHits, ScannersDone
<1>3. ASSUME NEW s \in Scanners PROVE ~ScanStep(s) /\ ~ScanPanic(s)
  BY <1>1 DEF ScannersDone, ScanStep, ScanRecv, ScanEnd, CountHit, Counted,
     SendHit, HitsSent, SendSpans, SendEntropy, ScanPanic
<1>4. ASSUME NEW c \in Carvers, CarveStep(c) \/ CarvePanic(c)
      PROVE  NoMoreHits'
  <2>1. UNCHANGED <<rpc, scanPc>>
    BY <1>4, CarversFrame
  <2>2. hitQ' = <<>>
    BY <1>1, <1>4 DEF CarveStep, CarveRecv, CarveEnd, CheckLimit, CarveNothing,
       CarveFile, SendRecord, ParseSqlite, CheckTotal, CarvePanic, CarverLeaves
  <2>3. QED
    BY <1>1, <2>1, <2>2 DEF NoMoreHits, ScannersDone, ReaderClosed
<1>5. ASSUME UNCHANGED <<rpc, scanPc, hitQ>> PROVE NoMoreHits'
  BY <1>1, <1>5 DEF NoMoreHits, ScannersDone, ReaderClosed
<1>6. ASSUME NEW t \in Stringers, StrStep(t) \/ StrPanic(t) PROVE NoMoreHits'
  BY <1>5, <1>6 DEF StrStep, StrRecv, StrEnd, SendArtefact, StrPanic,
     readerVars, scanVars
<1>7. CASE MetaStep \/ MetaPanic
  BY <1>5, <1>7 DEF MetaStep, MetaRecv, MetaEnd, MetaPanic, readerVars, scanVars
<1>8. CASE Cancel
  BY <1>5, <1>8 DEF Cancel, readerVars, scanVars
<1>9. CASE UNCHANGED vars
  BY <1>5, <1>9 DEF vars, readerVars, scanVars
<1>10. QED
  BY <1>2, <1>3, <1>4, <1>6, <1>7, <1>8, <1>9 DEF Next, Panic, Terminated

-----------------------------------------------------------------------------
LEMMA TotalNext ==
    ASSUME TypeOK, TypeOK', TotalCounted, [Next]_vars
    PROVE  TotalCounted'
<1> SUFFICES ASSUME NEW d \in Carvers PROVE carveTotal'[d] <= filesCarved'
  BY DEF TotalCounted
<1>1. /\ filesCarved \in Nat /\ filesCarved' \in Nat
      /\ filesCarved <= filesCarved'
      /\ carveTotal \in [Carvers -> Nat] /\ carveTotal[d] <= filesCarved
  BY CountersGrow DEF TypeOK, CarveType, TotalCounted
<1>2. CASE \A c \in Carvers : ~CarveStep(c) /\ ~CarvePanic(c)
  BY <1>1, <1>2, NotACarver DEF carveVars
<1>3. ASSUME NEW c \in Carvers, CarveStep(c) \/ CarvePanic(c)
      PROVE  carveTotal'[d] <= filesCarved'
  <2>1. \/ carveTotal' = carveTotal
        \/ carveTotal' = [carveTotal EXCEPT ![c] = 0]
        \/ /\ carveTotal' = [carveTotal EXCEPT ![c] = filesCarved + 1]
           /\ filesCarved' = filesCarved + 1
    BY <1>3 DEF CarveStep, CarveRecv, CarveEnd, CheckLimit, CarveNothing,
       CarveFile, SendRecord, ParseSqlite, CheckTotal, CarvePanic, CarverLeaves
  <2>2. QED
    BY <1>1, <2>1
<1>4. QED
  BY <1>2, <1>3

(* The ways out of a carver's loop, each with its reason.                  *)
LEMMA LeavingReasons ==
    ASSUME TypeOK, TypeOK', TotalCounted, [Next]_vars, NEW c \in Carvers,
           carvePc[c] # "done", carvePc'[c] = "done"
    PROVE  GaveUp' \/ NoMoreHits'
<1>1. /\ filesCarved \in Nat /\ panics \in Nat
      /\ carvePc \in [Carvers -> CarvePcs] /\ carveTotal \in [Carvers -> Nat]
  BY DEF TypeOK, CarveType
<1>2. PICK d \in Carvers : CarveStep(d) \/ CarvePanic(d)
  BY NotACarver DEF carveVars
<1>3. c = d
  <2>1. \E pc : carvePc' = [carvePc EXCEPT ![d] = pc]
    BY <1>2 DEF CarveStep, CarveRecv, CarveEnd, CheckLimit, CarveNothing,
       CarveFile, SendRecord, ParseSqlite, CheckTotal, CarvePanic, CarverLeaves
  <2>2. QED
    BY <1>1, <2>1
<1>4. CASE CarvePanic(d)
  <2>1. panics' = panics + 1
    BY <1>4 DEF CarvePanic, PanicBudget
  <2>2. QED
    BY <1>1, <2>1 DEF GaveUp
<1>5. CASE CarveEnd(d)
  <2>1. NoMoreHits /\ UNCHANGED <<rpc, scanPc, hitQ>>
    BY <1>5 DEF CarveEnd, NoMoreHits, readerVars, scanVars
  <2>2. QED
    BY <2>1 DEF NoMoreHits, ReaderClosed, ScannersDone
<1>6. CASE CheckLimit(d)
  <2>1. LimitReached(filesCarved) /\ UNCHANGED filesCarved
    BY <1>1, <1>3, <1>6 DEF CheckLimit
  <2>2. QED
    BY <2>1 DEF GaveUp, LimitReached
<1>7. CASE CheckTotal(d)
  <2>1. LimitReached(carveTotal[d]) /\ UNCHANGED filesCarved
    BY <1>1, <1>3, <1>7 DEF CheckTotal
  <2>2. LimitReached(filesCarved)
    BY <1>1, <2>1, LimitStable DEF TotalCounted
  <2>3. QED
    BY <2>1, <2>2 DEF GaveUp, LimitReached
<1>8. CASE \/ CarveRecv(d) \/ CarveNothing(d) \/ CarveFile(d)
           \/ SendRecord(d) \/ ParseSqlite(d)
  <2>1. \E pc \in {"check", "recv", "record", "history", "cookie", "download",
                   "limit"} : carvePc' = [carvePc EXCEPT ![d] = pc]
    BY <1>8 DEF CarveRecv, CarveNothing, CarveFile, SendRecord, AfterRecord,
       ParseSqlite, ParserStages, NextStage
  <2>2. QED
    BY <1>1, <1>3, <2>1
<1>9. QED
  BY <1>2, <1>4, <1>5, <1>6, <1>7, <1>8 DEF CarveStep

LEMMA GoneNext ==
    ASSUME TypeOK, TypeOK', CarverGone, TotalCounted, [Next]_vars
    PROVE  CarverGone'
<1> SUFFICES ASSUME NEW c \in Carvers, carvePc'[c] = "done"
             PROVE  GaveUp' \/ NoMoreHits'
  BY DEF CarverGone
<1>1. CASE carvePc[c] = "done"
  BY <1>1, GaveUpStable, NoMoreHitsStable DEF CarverGone
<1>2. CASE carvePc[c] # "done"
  BY <1>2, LeavingReasons
<1>3. QED
  BY <1>1, <1>2

(* Only the scanners and the carvers decide about hits.                    *)
LEMMA FateFrame ==
    ASSUME [Next]_vars,
           \A s \in Scanners : ~ScanStep(s),
           \A c \in Carvers : ~CarveStep(c) /\ ~CarvePanic(c)
    PROVE  UNCHANGED fate
<1>1. ASSUME NEW t \in Stringers, StrStep(t) \/ StrPanic(t)
      PROVE  UNCHANGED fate
  BY <1>1 DEF StrStep, StrRecv, StrEnd, SendArtefact, StrPanic
<1>2. ReaderStep => UNCHANGED fate
  BY DEF ReaderStep, LoopEnds, CheckFiles, CheckStop, ReadChunk, ReadFails,
     SendJob, SendFlush, NextChunk, CloseChannels, JoinScanners,
     JoinCarvers, JoinStringers, SendSummary, Finish, ProcessExit,
     JoinPool, ReaderOnly
<1>3. MetaStep \/ MetaPanic => UNCHANGED fate
  BY DEF MetaStep, MetaRecv, MetaEnd, MetaPanic
<1>4. ASSUME NEW s \in Scanners, ScanPanic(s) PROVE UNCHANGED fate
  BY <1>4 DEF ScanPanic
<1>5. Cancel \/ Terminated \/ UNCHANGED vars => UNCHANGED fate
  BY DEF Cancel, Terminated, vars
<1>6. QED
  BY <1>1, <1>2, <1>3, <1>4, <1>5 DEF Next, Panic

(* A hit is dropped by the scanner that finds every carver gone, or by a   *)
(* carver that leaves.                                                     *)
LEMMA DroppedNext ==
    ASSUME TypeOK, TypeOK', DropInv, [Next]_vars
    PROVE  DropsHaveCause'
<1> SUFFICES ASSUME NEW h \in Sigs, fate'[h] = "dropped" PROVE GaveUp'
  BY DEF DropsHaveCause, Dropped
<1>1. CASE fate[h] = "dropped"
  <2>1. GaveUp
    BY <1>1 DEF DropInv, DropsHaveCause, Dropped
  <2>2. QED
    BY <2>1, GaveUpStable
<1>2. CASE fate[h] # "dropped"
  <2>1. fate \in [Sigs -> Fates]
    BY DEF TypeOK, FateType
  <2>2. ASSUME NEW s \in Scanners, ScanStep(s) PROVE GaveUp
    <3>1. SendHit(s) /\ CarversDone
      BY <1>2, <2>1, <2>2 DEF ScanStep, ScanRecv, ScanEnd, CountHit, SendHit,
         HitsSent, SendSpans, SendEntropy
    <3>2. ~ScannersDone
      BY <3>1 DEF SendHit, ScannersDone
    <3>3. PICK c \in Carvers : carvePc[c] = "done"
      BY <3>1, PoolsNonempty DEF CarversDone
    <3>4. QED
      BY <3>2, <3>3 DEF DropInv, CarverGone, NoMoreHits
  <2>3. ASSUME NEW c \in Carvers, CarveStep(c) \/ CarvePanic(c) PROVE GaveUp'
    <3>1. CASE CarveStep(c)
      <4>1. ~CarveNothing(c) /\ ~CarveFile(c)
        BY <1>2, <2>1 DEF CarveNothing, CarveFile, Settled
      <4>2. \/ CheckLimit(c) /\ LimitReached(filesCarved)
            \/ CheckTotal(c) /\ LimitReached(carveTotal[c])
        BY <1>2, <3>1, <4>1 DEF CarveStep, CarveRecv, CarveEnd, CheckLimit,
           SendRecord, ParseSqlite, CheckTotal
      <4>3. UNCHANGED filesCarved
        BY <4>2 DEF CheckLimit, CheckTotal
      <4>4. LimitReached(carveTotal[c]) => LimitReached(filesCarved)
        BY LimitStable DEF DropInv, TotalCounted, TypeOK, CarveType
      <4>5. QED
        BY <4>2, <4>3, <4>4 DEF GaveUp, LimitReached
    <3>2. CASE CarvePanic(c)
      <4>1. panics' = panics + 1 /\ panics \in Nat
        BY <3>2 DEF CarvePanic, PanicBudget, TypeOK
      <4>2. QED
        BY <4>1 DEF GaveUp
    <3>3. QED
      BY <2>3, <3>1, <3>2
  <2>4. \/ \E s \in Scanners : ScanStep(s)
        \/ \E c \in Carvers : CarveStep(c) \/ CarvePanic(c)
    <3>1. ~UNCHANGED fate
      BY <1>2
    <3>2. QED
      BY <3>1, FateFrame
  <2>5. QED
    BY <2>2, <2>3, <2>4, GaveUpStable
<1>3. QED
  BY <1>1, <1>2

LEMMA CarversFinite ==
    ASSUME NEW S, S \subseteq Carvers
    PROVE  IsFiniteSet(S) /\ Cardinality(S) \in Nat /\ Cardinality(S) <= Cardinality(Carvers)
BY PoolsNonempty, FS_Subset, FS_CardinalityType

LEMMA DroppedFinite ==
    /\ IsFiniteSet(Dropped) /\ Cardinality(Dropped) \in Nat
    /\ IsFiniteSet(Dropped') /\ Cardinality(Dropped') \in Nat
<1>1. IsFiniteSet(Dropped) /\ IsFiniteSet(Dropped')
  BY ContentAssumption, FS_Subset DEF Dropped
<1>2. QED
  BY <1>1, FS_CardinalityType

(* A panic takes one carver out of the pool.                               *)
LEMMA OneGoes ==
    ASSUME TypeOK, NEW c \in Carvers, CarvePanic(c)
    PROVE  /\ panics' = panics + 1 /\ c \notin GoneCarvers
           /\ GoneCarvers' = GoneCarvers \cup {c}
           /\ Cardinality(GoneCarvers') = Cardinality(GoneCarvers) + 1
<1>1. carvePc \in [Carvers -> CarvePcs]
  BY DEF TypeOK, CarveType
<1>2. /\ panics' = panics + 1 /\ carvePc[c] = "carve"
      /\ carvePc' = [carvePc EXCEPT ![c] = "done"]
  BY DEF CarvePanic, PanicBudget, CarverLeaves
<1>3. c \notin GoneCarvers /\ GoneCarvers' = GoneCarvers \cup {c}
  BY <1>1, <1>2 DEF GoneCarvers
<1>4. IsFiniteSet(GoneCarvers)
  BY CarversFinite DEF GoneCarvers
<1>5. QED
  BY <1>2, <1>3, <1>4, FS_AddElement

LEMMA GoneByPanicNext ==
    ASSUME TypeOK, TypeOK', GoneByPanic, TotalCounted, [Next]_vars
    PROVE  GoneByPanic'
<1>1. /\ filesCarved \in Nat /\ filesCarved' \in Nat /\ panics \in Nat /\ panics' \in Nat
      /\ filesCarved <= filesCarved' /\ panics <= panics'
      /\ carvePc \in [Carvers -> CarvePcs] /\ carveTotal \in [Carvers -> Nat]
  BY CountersGrow DEF TypeOK, CarveType
<1>2. CASE LimitReached(filesCarved)
  <2>1. LimitReached(filesCarved')
    BY <1>1, <1>2, LimitStable
  <2>2. QED
    BY <2>1 DEF GoneByPanic, LimitReached
<1>3. CASE NoMoreHits
  BY <1>3, NoMoreHitsStable DEF GoneByPanic
<1> SUFFICES ASSUME ~LimitReached(filesCarved), ~NoMoreHits,
                    Cardinality(GoneCarvers) <= panics
             PROVE  LimitReached(filesCarved)' \/ Cardinality(GoneCarvers') <= panics'
  BY <1>2, <1>3 DEF GoneByPanic
<1>4. /\ Cardinality(GoneCarvers) \in Nat /\ IsFiniteSet(GoneCarvers)
      /\ Cardinality(GoneCarvers') \in Nat
  BY CarversFinite DEF GoneCarvers
<1>5. ASSUME GoneCarvers' \subseteq GoneCarvers
      PROVE  Cardinality(GoneCarvers') <= panics'
  BY <1>1, <1>4, <1>5, FS_Subset
<1>6. CASE \A c \in Carvers : ~CarveStep(c) /\ ~CarvePanic(c)
  <2>1. GoneCarvers' = GoneCarvers
    BY <1>6, NotACarver DEF carveVars, GoneCarvers
  <2>2. QED
    BY <1>5, <2>1
<1>7. ASSUME NEW c \in Carvers, CarvePanic(c)
      PROVE  Cardinality(GoneCarvers') <= panics'
  BY <1>1, <1>4, <1>7, OneGoes
<1>8. ASSUME NEW c \in Carvers, CarveStep(c)
      PROVE  LimitReached(filesCarved)' \/ GoneCarvers' \subseteq GoneCarvers
  <2>1. ~CarveEnd(c)
    BY DEF CarveEnd, NoMoreHits
  <2>2. CASE CheckLimit(c)
    BY <1>1, <2>2 DEF CheckLimit, GoneCarvers
  <2>3. CASE CheckTotal(c)
    <3>1. ~LimitReached(carveTotal[c])
      BY <1>1, LimitStable DEF TotalCounted
    <3>2. QED
      BY <1>1, <2>3, <3>1 DEF CheckTotal, GoneCarvers
  <2>4. CASE \/ CarveRecv(c) \/ CarveNothing(c) \/ CarveFile(c)
             \/ SendRecord(c) \/ ParseSqlite(c)
    <3>1. \E pc \in {"check", "recv", "record", "history", "cookie", "download",
                     "limit"} : carvePc' = [carvePc EXCEPT ![c] = pc]
      BY <2>4 DEF CarveRecv, CarveNothing, CarveFile, SendRecord, AfterRecord,
         ParseSqlite, ParserStages, NextStage
    <3>2. QED
      BY <1>1, <3>1 DEF GoneCarvers
  <2>5. QED
    BY <1>8, <2>1, <2>2, <2>3, <2>4 DEF CarveStep
<1>9. QED
  BY <1>5, <1>6, <1>7, <1>8

(* Before the limit a step gives up at most the one hit of a carver that   *)
(* panics, unless the whole pool has.                                      *)
LEMMA DroppedCountNext ==
    ASSUME TypeOK, TypeOK', DropInv, [Next]_vars
    PROVE  DroppedOnlyAtLimit'
<1>1. /\ filesCarved \in Nat /\ filesCarved' \in Nat /\ panics \in Nat /\ panics' \in Nat
      /\ filesCarved <= filesCarved' /\ panics <= panics'
      /\ fate \in [Sigs -> Fates] /\ carveTotal \in [Carvers -> Nat]
      /\ Cardinality(Carvers) \in Nat
  BY CountersGrow, CarversFinite DEF TypeOK, CarveType, FateType
<1>2. DroppedOnlyAtLimit /\ GoneByPanic /\ TotalCounted
  BY DEF DropInv
<1>3. CASE LimitReached(filesCarved)
  <2>1. LimitReached(filesCarved')
    BY <1>1, <1>3, LimitStable
  <2>2. QED
    BY <2>1 DEF DroppedOnlyAtLimit, LimitReached
<1>4. CASE panics >= Cardinality(Carvers)
  BY <1>1, <1>4 DEF DroppedOnlyAtLimit
<1> SUFFICES ASSUME ~LimitReached(filesCarved), ~(panics >= Cardinality(Carvers)),
                    Cardinality(Dropped) <= panics
             PROVE  Cardinality(Dropped') <= panics' \/ panics' >= Cardinality(Carvers)
  BY <1>2, <1>3, <1>4 DEF DroppedOnlyAtLimit
<1>5. ASSUME Dropped' \subseteq Dropped
      PROVE  Cardinality(Dropped') <= panics'
  BY <1>1, <1>5, DroppedFinite, FS_Subset
<1>6. ASSUME NEW s \in Scanners, ScanStep(s)
      PROVE  Dropped' \subseteq Dropped
  <2>1. ~(SendHit(s) /\ CarversDone)
    <3> SUFFICES ASSUME SendHit(s), CarversDone PROVE FALSE
      OBVIOUS
    <3>1. ~NoMoreHits
      BY DEF SendHit, ScannersDone, NoMoreHits
    <3>2. GoneCarvers = Carvers
      BY DEF CarversDone, GoneCarvers
    <3>3. QED
      BY <1>1, <1>2, <3>1, <3>2 DEF GoneByPanic
  <2>2. CASE CountHit(s)
    BY <1>1, <2>2 DEF CountHit, Dropped
  <2>3. CASE ~CountHit(s)
    <3>1. UNCHANGED fate
      BY <1>6, <2>1, <2>3 DEF ScanStep, ScanRecv, ScanEnd, SendHit, HitsSent,
         SendSpans, SendEntropy
    <3>2. QED
      BY <3>1 DEF Dropped
  <2>4. QED
    BY <2>2, <2>3
<1>7. ASSUME NEW c \in Carvers, CarveStep(c)
      PROVE  Dropped' \subseteq Dropped
  <2>1. ~LimitReached(carveTotal[c])
    BY <1>1, <1>2, LimitStable DEF TotalCounted
  <2>2. CASE CarveNothing(c) \/ CarveFile(c)
    BY <1>1, <2>2 DEF CarveNothing, CarveFile, Settled, Dropped
  <2>3. CASE ~CarveNothing(c) /\ ~CarveFile(c)
    <3>1. UNCHANGED fate
      BY <1>7, <2>1, <2>3 DEF CarveStep, CarveRecv, CarveEnd, CheckLimit,
         SendRecord, ParseSqlite, CheckTotal
    <3>2. QED
      BY <3>1 DEF Dropped
  <2>4. QED
    BY <2>2, <2>3
<1>8. ASSUME NEW c \in Carvers, CarvePanic(c)
      PROVE  Cardinality(Dropped') <= panics' \/ panics' >= Cardinality(Carvers)
  <2> DEFINE last == \A d \in Carvers \ {c} : carvePc[d] = "done"
             gone == {carveHit[c]} \cup IF last THEN QueuedHits ELSE {}
  <2>1. fate' = [h \in Sigs |-> IF h \in gone THEN "dropped" ELSE fate[h]]
    BY <1>8 DEF CarvePanic, CarverLeaves
  <2>2. Dropped' = Dropped \cup (gone \cap Sigs)
    <3> HIDE DEF gone
    <3>1. QED
      BY <1>1, <2>1 DEF Dropped
  <2>3. CASE last /\ ~NoMoreHits
    <3>1. GoneCarvers' = Carvers
      BY <1>8, <2>3, OneGoes DEF GoneCarvers
    <3>2. Cardinality(GoneCarvers) <= panics /\ Cardinality(GoneCarvers) \in Nat
      BY <1>2, <2>3, CarversFinite DEF GoneByPanic, GoneCarvers
    <3>3. panics' = panics + 1 /\ Cardinality(Carvers) = Cardinality(GoneCarvers) + 1
      BY <1>8, <3>1, OneGoes
    <3>4. QED
      BY <1>1, <3>2, <3>3
  <2>4. CASE ~last \/ NoMoreHits
    <3>1. gone = {carveHit[c]}
      <4>1. NoMoreHits => QueuedHits = {}
        BY DEF NoMoreHits, QueuedHits
      <4>2. QED
        BY <2>4, <4>1
    <3>2. Dropped' \subseteq Dropped \cup {carveHit[c]}
      BY <2>2, <3>1
    <3>3. /\ IsFiniteSet(Dropped \cup {carveHit[c]})
          /\ Cardinality(Dropped \cup {carveHit[c]}) <= Cardinality(Dropped) + 1
      <4>1. IsFiniteSet(Dropped) /\ Cardinality(Dropped) \in Nat
        BY DroppedFinite
      <4> HIDE DEF Dropped
      <4>2. /\ IsFiniteSet(Dropped \cup {carveHit[c]})
            /\ Cardinality(Dropped \cup {carveHit[c]})
                 = IF carveHit[c] \in Dropped THEN Cardinality(Dropped)
                   ELSE Cardinality(Dropped) + 1
        BY <4>1, FS_AddElement
      <4>3. QED
        BY <4>1, <4>2
    <3>4. Cardinality(Dropped') <= Cardinality(Dropped) + 1
      <4>1. Cardinality(Dropped') <= Cardinality(Dropped \cup {carveHit[c]})
        BY <3>2, <3>3, FS_Subset
      <4>2. Cardinality(Dropped \cup {carveHit[c]}) \in Nat
        BY <3>3, FS_CardinalityType
      <4>3. QED
        BY <3>3, <4>1, <4>2, DroppedFinite
    <3>5. QED
      BY <1>1, <1>8, <3>4, OneGoes, DroppedFinite
  <2>5. QED
    BY <2>3, <2>4
<1>9. CASE /\ \A s \in Scanners : ~ScanStep(s)
           /\ \A c \in Carvers : ~CarveStep(c) /\ ~CarvePanic(c)
  <2>1. Dropped' = Dropped
    BY <1>9, FateFrame DEF Dropped
  <2>2. QED
    BY <1>5, <2>1
<1>10. QED
  BY <1>5, <1>6, <1>7, <1>8, <1>9

LEMMA DropNext ==
    ASSUME TypeOK, TypeOK', DropInv, [Next]_vars
    PROVE  DropInv'
BY DroppedNext, GoneNext, TotalNext, GoneByPanicNext, DroppedCountNext DEF DropInv

LEMMA DropInit == Init => DropInv
<1> SUFFICES ASSUME Init PROVE DropInv
  OBVIOUS
<1>1. Dropped = {} /\ GoneCarvers = {}
  BY DEF Init, Dropped, GoneCarvers
<1>5. DropsHaveCause /\ GoneByPanic /\ DroppedOnlyAtLimit
  BY <1>1, FS_EmptySet DEF DropsHaveCause, GoneByPanic, DroppedOnlyAtLimit, Init
<1>2. CarverGone
  BY DEF Init, CarverGone
<1>3. TotalCounted
  BY DEF Init, TotalCounted
<1>4. QED
  BY <1>2, <1>3, <1>5 DEF DropInv

(* Before the file limit is reached a counted hit is given up only by the  *)
(* panic of the carver that holds it, one a panic, until the last carver   *)
(* has panicked: whatever the order in which the reader closes the         *)
(* channels and the scanners and carvers finish, no carver that is still   *)
(* needed leaves, and the others work off what a panicking one leaves.     *)
THEOREM DropsExplained == Spec => []DroppedOnlyAtLimit
<1>1. DropInv => DroppedOnlyAtLimit
  BY DEF DropInv
<1>2. Init /\ []TypeOK /\ [][Next]_vars => []DropInv
  BY DropInit, DropNext, PTL
<1>3. QED
  BY <1>1, <1>2, TypeCorrect, PTL DEF Spec

-----------------------------------------------------------------------------
(* The chunk that owns offset h, and the first chunk not yet sent.         *)
Owner(h) == h \div ChunkSize
Unsent == IF rpc \in {"flush", "next"} THEN cursor + 1 ELSE cursor

(* No scanner has dealt with h, or is about to.                            *)
Fresh(h) == fate[h] = "unseen" /\ \A s \in Scanners : h \notin scanTodo[s]

(* The jobs are of different chunks, and a signature stays untouched until *)
(* the job of the chunk that owns it is received.                          *)
Untouched(h) ==
    Owner(h) >= Unsent \/ \E i \in DOMAIN scanQ : scanQ[i].chunk = Owner(h)
JobInv ==
    /\ rpc = "send" => job.chunk = cursor /\ cursor \in Ids
    /\ \A i \in DOMAIN scanQ : scanQ[i].chunk \in Ids /\ scanQ[i].chunk < Unsent
    /\ \A i, j \in DOMAIN scanQ : scanQ[i].chunk = scanQ[j].chunk => i = j
    /\ \A h \in Sigs : Untouched(h) => Fresh(h)

(* The hits still to be sent belong to one scanner, at its hit loop, which *)
(* has counted one of them at most.                                        *)
Holding(c) == carvePc[c] \in {"check", "carve"}
ScannerHits ==
    \A s \in Scanners :
        /\ scanTodo[s] # {} => scanPc[s] = "hits"
        /\ \A h \in scanTodo[s] :
              /\ fate[h] \in {"unseen", "found"}
              /\ \A r \in Scanners : h \in scanTodo[r] => r = s
        /\ \A h, g \in scanTodo[s] :
              fate[h] = "found" /\ fate[g] = "found" => h = g

(* The hits in the channel are found, different, and nowhere else.         *)
QueueHits ==
    /\ IsInjective(hitQ)
    /\ \A h \in QueuedHits :
          fate[h] = "found" /\ \A s \in Scanners : h \notin scanTodo[s]

(* The hit a carver is to check or to carve is found and nowhere else.     *)
CarverHits ==
    \A c \in Carvers : Holding(c) =>
        /\ fate[carveHit[c]] = "found" /\ carveHit[c] \notin QueuedHits
        /\ \A s \in Scanners : carveHit[c] \notin scanTodo[s]
        /\ \A d \in Carvers : Holding(d) /\ carveHit[d] = carveHit[c] => d = c

(* No counted hit is lost.                                                 *)
Placed(h) ==
    \/ \E s \in Scanners : h \in scanTodo[s]
    \/ h \in QueuedHits
    \/ \E c \in Carvers : Holding(c) /\ carveHit[c] = h
NoneLost ==
    /\ \A h \in Sigs : fate[h] = "found" => Placed(h)
    /\ CarversDone => hitQ = <<>>

HitInv == JobInv /\ ScannerHits /\ QueueHits /\ CarverHits /\ NoneLost

-----------------------------------------------------------------------------
(* Only the chunk that owns a signature reports it.                        *)
LEMMA ReportedByOwner ==
    ASSUME NEW j \in Jobs, j.chunk \in Ids, NEW h \in JobHits(j)
    PROVE  h \in Sigs /\ Owner(h) = j.chunk
<1>1. EvidenceLen \in 0 .. MaxU64 /\ ChunkSize \in 1 .. MaxU64
  BY GeometryAssumption, MaxU64Assumption DEF Ids, ChunkIds
<1>2. /\ h \in Sigs /\ j.len \in Int
      /\ h \in OwnedBy(j.chunk, j.len, EvidenceLen, ChunkSize)
  BY DEF JobHits, FoundIn, Jobs
<1>3. QED
  BY <1>1, <1>2, OwnerIsQuotient DEF Owner, Ids

(* The elements of a channel without repetitions, as it is received from   *)
(* and sent to.                                                            *)
LEMMA QueuePop ==
    ASSUME NEW S, NEW q \in Seq(S), q # <<>>, IsInjective(q)
    PROVE  /\ Head(q) \in Range(q) /\ IsInjective(Tail(q))
           /\ Range(Tail(q)) = Range(q) \ {Head(q)}
<1>1. /\ Len(q) \in Nat \ {0} /\ DOMAIN q = 1 .. Len(q) /\ Head(q) = q[1]
      /\ Tail(q) \in Seq(S) /\ Len(Tail(q)) = Len(q) - 1
      /\ DOMAIN Tail(q) = 1 .. Len(q) - 1
      /\ \A i \in 1 .. Len(q) - 1 : Tail(q)[i] = q[i + 1]
  BY HeadTailProperties, LenProperties, EmptySeq
<1>2. Head(q) \in Range(q)
  BY <1>1 DEF Range
<1>3. IsInjective(Tail(q))
  BY <1>1 DEF IsInjective
<1>4. ASSUME NEW i \in 1 .. Len(q) - 1
      PROVE  Tail(q)[i] \in Range(q) \ {Head(q)}
  BY <1>1, <1>4 DEF IsInjective, Range
<1>5. ASSUME NEW x \in Range(q) \ {Head(q)} PROVE x \in Range(Tail(q))
  <2>1. PICK i \in 1 .. Len(q) : x = q[i]
    BY <1>1 DEF Range
  <2>2. i - 1 \in 1 .. Len(q) - 1 /\ Tail(q)[i - 1] = x
    BY <1>1, <2>1
  <2>3. QED
    BY <1>1, <2>2 DEF Range
<1>6. QED
  BY <1>1, <1>2, <1>3, <1>4, <1>5 DEF Range

LEMMA QueuePush ==
    ASSUME NEW S, NEW q \in Seq(S), NEW x \in S
    PROVE  /\ Range(Append(q, x)) = Range(q) \cup {x}
           /\ IsInjective(q) /\ x \notin Range(q) => IsInjective(Append(q, x))
<1>1. /\ Len(q) \in Nat /\ DOMAIN q = 1 .. Len(q)
      /\ DOMAIN Append(q, x) = 1 .. Len(q) + 1
      /\ \A i \in 1 .. Len(q) : Append(q, x)[i] = q[i]
      /\ Append(q, x)[Len(q) + 1] = x
  BY AppendProperties, LenProperties
<1>2. QED
  BY <1>1 DEF Range, IsInjective

LEMMA QueuedIsRange == QueuedHits = Range(hitQ)
BY DEF QueuedHits, Range

-----------------------------------------------------------------------------
(* The reader and the jobs.                                                *)
LEMMA JobFrame ==
    ASSUME JobInv, UNCHANGED <<rpc, cursor, job, scanQ>>,
           \A h \in Sigs : Fresh(h) => Fresh(h)'
    PROVE  JobInv'
BY DEF JobInv, Untouched, Unsent, Owner

LEMMA JobReader ==
    ASSUME TypeOK, JobInv, ReaderStep
    PROVE  JobInv'
<1>1. UNCHANGED <<fate, scanTodo>>
  BY DEF ReaderStep, LoopEnds, CheckFiles, CheckStop, ReadChunk, ReadFails,
     SendJob, SendFlush, NextChunk, CloseChannels, JoinScanners, JoinCarvers,
     JoinStringers, SendSummary, Finish, ProcessExit, JoinPool, ReaderOnly,
     scanVars
<1>2. ASSUME UNCHANGED scanQ, Unsent' = Unsent,
             rpc' = "send" => job'.chunk = cursor' /\ cursor' \in Ids
      PROVE  JobInv'
  BY <1>1, <1>2 DEF JobInv, Untouched, Fresh
<1>3. CASE \/ LoopEnds \/ CheckFiles \/ CheckStop \/ ReadFails \/ SendFlush
           \/ CloseChannels \/ JoinScanners \/ JoinCarvers \/ JoinStringers
           \/ SendSummary \/ Finish \/ ProcessExit
  <2>1. UNCHANGED scanQ /\ Unsent' = Unsent /\ rpc' # "send"
    BY <1>3 DEF LoopEnds, CheckFiles, CheckStop, ReadFails, SendFlush,
       CloseChannels, JoinScanners, JoinCarvers, JoinStringers, SendSummary,
       Finish, ProcessExit, JoinPool, ReaderOnly, Unsent
  <2>2. QED
    BY <1>2, <2>1
<1>4. CASE ReadChunk
  <2>1. UNCHANGED <<scanQ, cursor>> /\ Unsent' = Unsent /\ cursor \in Ids
    BY <1>4 DEF ReadChunk, ReaderOnly, Unsent, TypeOK, ReaderType
  <2>2. rpc' = "send" => job'.chunk = cursor
    BY <1>4 DEF ReadChunk
  <2>3. QED
    BY <1>2, <2>1, <2>2
<1>5. CASE SendJob
  <2>1. cursor \in Nat /\ job.chunk = cursor /\ cursor \in Ids
        /\ job \in Jobs /\ UNCHANGED cursor /\ Unsent = cursor
    BY <1>5 DEF SendJob, JobInv, Unsent, TypeOK, ReaderType
  <2>2. CASE rpc' = "failed"
    BY <1>2, <1>5, <2>1, <2>2 DEF SendJob, Unsent
  <2>3. CASE rpc' # "failed"
    <3>1. scanQ' = Append(scanQ, job) /\ rpc' \in {"flush", "next"}
      BY <1>5, <2>3 DEF SendJob
    <3>2. Unsent' = cursor + 1
      BY <2>1, <3>1 DEF Unsent
    <3>3. /\ Len(scanQ) \in Nat /\ DOMAIN scanQ = 1 .. Len(scanQ)
          /\ DOMAIN scanQ' = 1 .. Len(scanQ) + 1
          /\ \A i \in 1 .. Len(scanQ) : scanQ'[i] = scanQ[i]
          /\ scanQ'[Len(scanQ) + 1] = job
      BY <2>1, <3>1, AppendProperties, LenProperties DEF TypeOK, ScanQType
    <3>4. \A i \in 1 .. Len(scanQ) :
             /\ scanQ[i].chunk \in Ids /\ scanQ[i].chunk < cursor
             /\ scanQ[i].chunk \in Nat
      <4>1. \A i \in DOMAIN scanQ :
               scanQ[i].chunk \in Ids /\ scanQ[i].chunk < Unsent
        BY DEF JobInv
      <4>2. Ids \subseteq Nat
        BY GeometryAssumption, MaxU64Assumption DEF Ids, ChunkIds
      <4>3. QED
        BY <2>1, <3>3, <4>1, <4>2
    <3>5. \A i \in DOMAIN scanQ' :
             scanQ'[i].chunk \in Ids /\ scanQ'[i].chunk < Unsent'
      BY <2>1, <3>2, <3>3, <3>4
    <3>6. \A i, j \in DOMAIN scanQ' :
             scanQ'[i].chunk = scanQ'[j].chunk => i = j
      BY <2>1, <3>3, <3>4 DEF JobInv
    <3>7. ASSUME NEW h \in Sigs, Untouched(h)' PROVE Untouched(h)
      <4>1. Owner(h)' = Owner(h)
        BY DEF Owner
      <4>2. CASE Owner(h) >= cursor + 1
        <5>1. Owner(h) \in Int
          BY GeometryAssumption, ContentAssumption, MaxU64Assumption, <2>1
             DEF Owner, Ids, ChunkIds
        <5>2. QED
          BY <2>1, <4>2, <5>1 DEF Untouched
      <4>3. CASE \E i \in DOMAIN scanQ' : scanQ'[i].chunk = Owner(h)
        BY <2>1, <3>3, <4>3 DEF Untouched
      <4>4. QED
        BY <3>2, <3>7, <4>1, <4>2, <4>3 DEF Untouched
    <3>8. QED
      BY <1>1, <3>1, <3>5, <3>6, <3>7 DEF JobInv, Fresh
  <2>4. QED
    BY <2>2, <2>3
<1>6. CASE NextChunk
  <2>1. UNCHANGED scanQ /\ rpc' # "send"
    BY <1>6 DEF NextChunk, ReaderOnly
  <2>2. Unsent' = Unsent
    BY <1>6 DEF NextChunk, Unsent
  <2>3. QED
    BY <1>2, <2>1, <2>2
<1>7. QED
  BY <1>3, <1>4, <1>5, <1>6 DEF ReaderStep

-----------------------------------------------------------------------------
(* The scanners.                                                           *)
LEMMA HitsScanRecv ==
    ASSUME TypeOK, HitInv, NEW s \in Scanners, ScanRecv(s)
    PROVE  HitInv'
<1> USE DEF HitInv
<1> DEFINE j == Head(scanQ)
<1>1. /\ scanQ \in Seq(Jobs) /\ scanQ # <<>> /\ scanQ' = Tail(scanQ)
      /\ scanTodo' = [scanTodo EXCEPT ![s] = JobHits(j)]
      /\ scanPc' = [scanPc EXCEPT ![s] = "hits"]
      /\ UNCHANGED <<rpc, cursor, job, hitQ, fate, carvePc, carveHit>>
  BY DEF ScanRecv, readerVars, carveVars, TypeOK, ScanQType
<1>2. /\ Len(scanQ) \in Nat \ {0} /\ DOMAIN scanQ = 1 .. Len(scanQ)
      /\ j = scanQ[1] /\ j \in Jobs
      /\ DOMAIN Tail(scanQ) = 1 .. Len(scanQ) - 1
      /\ \A i \in 1 .. Len(scanQ) - 1 : Tail(scanQ)[i] = scanQ[i + 1]
  BY <1>1, HeadTailProperties, LenProperties, EmptySeq
<1>3. j.chunk \in Ids /\ j.chunk < Unsent
  BY <1>2 DEF JobInv
<1>4. ASSUME NEW h \in JobHits(j)
      PROVE  h \in Sigs /\ Owner(h) = j.chunk /\ Fresh(h)
  <2>1. h \in Sigs /\ Owner(h) = j.chunk
    BY <1>2, <1>3, ReportedByOwner
  <2>2. QED
    BY <1>2, <2>1 DEF JobInv, Untouched
<1>5. scanPc[s] = "recv" /\ scanTodo[s] = {} /\ s \in DOMAIN scanTodo
      /\ s \in DOMAIN scanPc
  BY DEF ScanRecv, ScannerHits, TypeOK, ScanType
<1>6. /\ \A r \in Scanners \ {s} : scanTodo'[r] = scanTodo[r]
      /\ scanTodo'[s] = JobHits(j)
      /\ \A r \in Scanners \ {s} : scanPc'[r] = scanPc[r]
      /\ scanPc'[s] = "hits"
  BY <1>1, <1>5 DEF TypeOK, ScanType
<1> HIDE DEF j
<1>7. JobInv'
  <2>1. Unsent' = Unsent /\ Unsent \in Nat /\ j.chunk \in Nat
    BY <1>1, <1>2 DEF Unsent, TypeOK, ReaderType, Jobs
  <2>2. ASSUME NEW h \in Sigs, Untouched(h)'
        PROVE  Untouched(h) /\ Owner(h) # j.chunk
    <3>1. Owner(h)' = Owner(h)
      BY DEF Owner
    <3>2. CASE Owner(h) >= Unsent
      BY <1>3, <2>1, <3>2 DEF Untouched
    <3>3. CASE \E i \in DOMAIN Tail(scanQ) : Tail(scanQ)[i].chunk = Owner(h)
      <4>1. PICK i \in 1 .. Len(scanQ) - 1 : scanQ[i + 1].chunk = Owner(h)
        BY <1>2, <3>3
      <4>2. i + 1 \in DOMAIN scanQ /\ i + 1 # 1 /\ 1 \in DOMAIN scanQ
        BY <1>2
      <4>3. QED
        BY <1>2, <4>1, <4>2 DEF JobInv, Untouched
    <3>4. QED
      BY <1>1, <2>1, <2>2, <3>1, <3>2, <3>3 DEF Untouched
  <2>3. ASSUME NEW h \in Sigs, Untouched(h)' PROVE Fresh(h)'
    <3>1. Fresh(h) /\ h \notin JobHits(j)
      BY <1>4, <2>2, <2>3 DEF JobInv
    <3>2. QED
      BY <1>1, <1>6, <3>1 DEF Fresh
  <2>4. \A i \in DOMAIN scanQ' : i + 1 \in DOMAIN scanQ /\ scanQ'[i] = scanQ[i + 1]
    BY <1>1, <1>2
  <2>5. \A i, k \in DOMAIN scanQ' : scanQ'[i].chunk = scanQ'[k].chunk => i = k
    <3> TAKE i, k \in DOMAIN scanQ'
    <3>1. i \in Int /\ k \in Int
      BY <1>1, <1>2
    <3>2. QED
      BY <2>4, <3>1 DEF JobInv
  <2>6. /\ rpc' = "send" => job'.chunk = cursor' /\ cursor' \in Ids
        /\ \A i \in DOMAIN scanQ' :
              scanQ'[i].chunk \in Ids /\ scanQ'[i].chunk < Unsent'
    BY <1>1, <2>1, <2>4 DEF JobInv
  <2>7. QED
    BY <2>3, <2>5, <2>6 DEF JobInv
<1>8. ScannerHits'
  BY <1>1, <1>4, <1>6 DEF ScannerHits, Fresh
<1>9. QueueHits'
  BY <1>1, <1>4, <1>6 DEF QueueHits, QueuedHits, Fresh
<1>10. CarverHits'
  BY <1>1, <1>4, <1>6 DEF CarverHits, Holding, QueuedHits, Fresh
<1>11. NoneLost'
  BY <1>1, <1>5, <1>6 DEF NoneLost, Placed, Holding, QueuedHits, CarversDone
<1>12. QED
  BY <1>7, <1>8, <1>9, <1>10, <1>11

LEMMA HitsCount ==
    ASSUME TypeOK, HitInv, NEW s \in Scanners, CountHit(s)
    PROVE  HitInv'
<1> USE DEF HitInv
<1>1. /\ Counted(s) = {}
      /\ UNCHANGED <<rpc, cursor, job, scanQ, hitQ, scanTodo, scanPc, carvePc,
                     carveHit>>
  BY DEF CountHit, readerVars, carveVars, scanVars
<1>2. PICK h \in scanTodo[s] : fate' = [fate EXCEPT ![h] = "found"]
  BY DEF CountHit
<1>3. h \in Sigs /\ fate \in [Sigs -> Fates]
  BY DEF TypeOK, ScanType, FateType
<1>4. fate[h] = "unseen" /\ fate'[h] = "found"
      /\ \A g \in Sigs : g # h => fate'[g] = fate[g]
  BY <1>1, <1>2, <1>3 DEF Counted, ScannerHits
<1>5. \A r \in Scanners : scanTodo[r] \subseteq Sigs
  BY DEF TypeOK, ScanType
<1>6. JobInv'
  BY <1>1, <1>4, JobFrame DEF Fresh
<1>7. ScannerHits'
  <2>1. \A r \in Scanners : h \in scanTodo[r] => r = s
    BY DEF ScannerHits
  <2>2. \A g \in scanTodo[s] : fate[g] # "found"
    BY <1>1 DEF Counted
  <2>3. QED
    BY <1>1, <1>4, <1>5, <2>1, <2>2 DEF ScannerHits
<1>8. QueuedHits \subseteq Sigs
  BY DEF TypeOK, HitQType, QueuedHits
<1>9. QueueHits'
  BY <1>1, <1>4, <1>8 DEF QueueHits, QueuedHits
<1>10. CarverHits'
  BY <1>1, <1>3, <1>4 DEF CarverHits, Holding, QueuedHits, TypeOK, CarveType
<1>11. NoneLost'
  BY <1>1, <1>4 DEF NoneLost, Placed, Holding, QueuedHits, CarversDone
<1>12. QED
  BY <1>6, <1>7, <1>9, <1>10, <1>11

LEMMA HitsSendHit ==
    ASSUME TypeOK, HitInv, NEW s \in Scanners, SendHit(s)
    PROVE  HitInv'
<1> USE DEF HitInv
<1>1. PICK h \in Counted(s) :
        \/ /\ CarversDone
           /\ fate' = [fate EXCEPT ![h] = "dropped"]
           /\ scanTodo' = [scanTodo EXCEPT ![s] = {}]
           /\ UNCHANGED hitQ
        \/ /\ ~CarversDone
           /\ hitQ' = Append(hitQ, h)
           /\ scanTodo' = [scanTodo EXCEPT ![s] = @ \ {h}]
           /\ UNCHANGED fate
  BY DEF SendHit
<1>2. /\ UNCHANGED <<rpc, cursor, job, scanQ, scanPc, carvePc, carveHit>>
      /\ scanPc[s] = "hits"
  BY DEF SendHit, readerVars, carveVars
<1>3. /\ h \in scanTodo[s] /\ h \in Sigs /\ fate[h] = "found"
      /\ fate \in [Sigs -> Fates] /\ scanTodo \in [Scanners -> SUBSET Sigs]
      /\ carveHit \in [Carvers -> Sigs \cup {0}]
      /\ \A c \in Carvers : Holding(c) => carveHit[c] \in Sigs
  BY <1>1 DEF Counted, TypeOK, ScanType, FateType, CarveType, Holding
<1>4. /\ h \notin QueuedHits
      /\ \A c \in Carvers : Holding(c) => carveHit[c] # h
      /\ \A r \in Scanners : h \in scanTodo[r] => r = s
      /\ \A g \in scanTodo[s] : fate[g] = "found" => g = h
  BY <1>3 DEF QueueHits, CarverHits, ScannerHits
<1>5. /\ \A r \in Scanners : scanTodo'[r] \subseteq scanTodo[r] \ {h}
      /\ \A r \in Scanners \ {s} : scanTodo'[r] = scanTodo[r]
      /\ \A g \in Sigs : g # h => fate'[g] = fate[g]
  BY <1>1, <1>3, <1>4
<1>6. JobInv'
  BY <1>2, <1>3, <1>5, JobFrame DEF Fresh
<1>7. ScannerHits'
  <2>1. \A r \in Scanners : \A g \in scanTodo'[r] :
           g \in scanTodo[r] /\ g # h /\ g \in Sigs /\ fate'[g] = fate[g]
    BY <1>3, <1>5
  <2>2. QED
    BY <1>2, <2>1 DEF ScannerHits
<1>8. QueuedHits \subseteq Sigs /\ hitQ \in Seq(Sigs)
  BY DEF TypeOK, HitQType, QueuedHits
<1>9. CASE CarversDone
  <2>1. /\ fate' = [fate EXCEPT ![h] = "dropped"] /\ UNCHANGED hitQ
        /\ scanTodo' = [scanTodo EXCEPT ![s] = {}]
    BY <1>1, <1>9
  <2>2. QueuedHits' = QueuedHits
    BY <2>1 DEF QueuedHits
  <2>3. QueueHits'
    BY <1>4, <1>5, <1>8, <2>1, <2>2 DEF QueueHits
  <2>4. CarverHits'
    BY <1>2, <1>3, <1>4, <1>5, <2>2 DEF CarverHits, Holding
  <2>5. ASSUME NEW g \in Sigs, fate'[g] = "found" PROVE Placed(g)'
    <3>1. g # h /\ fate[g] = "found" /\ g \notin scanTodo[s]
      BY <1>3, <1>4, <2>1, <2>5
    <3>2. Placed(g)
      BY <3>1 DEF NoneLost
    <3>3. QED
      BY <1>2, <1>5, <2>2, <3>1, <3>2 DEF Placed, Holding
  <2>6. NoneLost'
    BY <1>2, <2>1, <2>5 DEF NoneLost, CarversDone
  <2>7. QED
    BY <1>6, <1>7, <2>3, <2>4, <2>6
<1>10. CASE ~CarversDone
  <2>1. /\ hitQ' = Append(hitQ, h) /\ UNCHANGED fate
        /\ scanTodo' = [scanTodo EXCEPT ![s] = @ \ {h}]
    BY <1>1, <1>10
  <2>2. QueuedHits' = QueuedHits \cup {h} /\ IsInjective(hitQ)'
    <3>1. QueuedHits' = Range(hitQ')
      BY DEF QueuedHits, Range
    <3>2. IsInjective(hitQ) /\ h \notin Range(hitQ)
      BY <1>4, QueuedIsRange DEF QueueHits
    <3>3. /\ Range(hitQ') = Range(hitQ) \cup {h}
          /\ IsInjective(hitQ')
      BY <1>3, <1>8, <2>1, <3>2, QueuePush
    <3>4. QED
      BY <3>1, <3>3, QueuedIsRange
  <2>3. QueueHits'
    BY <1>3, <1>5, <2>1, <2>2 DEF QueueHits
  <2>4. CarverHits'
    BY <1>2, <1>4, <1>5, <2>1, <2>2 DEF CarverHits, Holding
  <2>5. ASSUME NEW g \in Sigs, fate'[g] = "found" PROVE Placed(g)'
    <3>1. Placed(g)
      BY <2>1, <2>5 DEF NoneLost
    <3>2. \A r \in Scanners : g \in scanTodo[r] => g \in scanTodo'[r] \/ g = h
      BY <1>3, <2>1
    <3>3. QED
      BY <1>2, <2>2, <3>1, <3>2 DEF Placed, Holding
  <2>6. ~CarversDone'
    BY <1>2, <1>10 DEF CarversDone
  <2>7. NoneLost'
    BY <2>5, <2>6 DEF NoneLost
  <2>8. QED
    BY <1>6, <1>7, <2>3, <2>4, <2>7
<1>11. QED
  BY <1>9, <1>10

(* A scanner goes on, or ends, with no hit in its hands.                   *)
LEMMA HitsScanIdle ==
    ASSUME TypeOK, HitInv, NEW s \in Scanners, NEW pc,
           scanPc' = [scanPc EXCEPT ![s] = pc], scanTodo[s] = {},
           UNCHANGED <<rpc, cursor, job, scanQ, scanTodo, hitQ, fate, carvePc,
                       carveHit>>
    PROVE  HitInv'
<1> USE DEF HitInv
<1>1. JobInv'
  BY JobFrame DEF Fresh
<1>2. ScannerHits'
  BY DEF ScannerHits, TypeOK, ScanType
<1>3. QueueHits' /\ CarverHits'
  BY DEF QueueHits, CarverHits, Holding, QueuedHits
<1>4. NoneLost'
  BY DEF NoneLost, Placed, Holding, QueuedHits, CarversDone
<1>5. QED
  BY <1>1, <1>2, <1>3, <1>4

LEMMA HitsScanPanic ==
    ASSUME TypeOK, HitInv, NEW s \in Scanners, ScanPanic(s)
    PROVE  HitInv'
<1> USE DEF HitInv
<1>1. /\ Counted(s) = {} /\ scanTodo' = [scanTodo EXCEPT ![s] = {}]
      /\ scanPc' = [scanPc EXCEPT ![s] = "done"]
      /\ UNCHANGED <<rpc, cursor, job, scanQ, hitQ, fate, carvePc, carveHit>>
  BY DEF ScanPanic, readerVars, carveVars
<1>2. /\ \A r \in Scanners : scanTodo'[r] \subseteq scanTodo[r]
      /\ \A r \in Scanners \ {s} : scanTodo'[r] = scanTodo[r]
      /\ \A g \in scanTodo[s] : fate[g] # "found"
  BY <1>1 DEF Counted, TypeOK, ScanType
<1>3. JobInv'
  BY <1>1, <1>2, JobFrame DEF Fresh
<1>4. ScannerHits'
  BY <1>1, <1>2 DEF ScannerHits, TypeOK, ScanType
<1>5. QueueHits' /\ CarverHits'
  BY <1>1, <1>2 DEF QueueHits, CarverHits, Holding, QueuedHits
<1>6. NoneLost'
  BY <1>1, <1>2 DEF NoneLost, Placed, Holding, QueuedHits, CarversDone
<1>7. QED
  BY <1>3, <1>4, <1>5, <1>6

LEMMA HitsScanStep ==
    ASSUME TypeOK, HitInv, NEW s \in Scanners, ScanStep(s)
    PROVE  HitInv'
<1>1. CASE ScanRecv(s)
  BY <1>1, HitsScanRecv
<1>2. CASE CountHit(s)
  BY <1>2, HitsCount
<1>3. CASE SendHit(s)
  BY <1>3, HitsSendHit
<1>4. CASE ScanEnd(s) \/ HitsSent(s) \/ SendSpans(s) \/ SendEntropy(s)
  <2>1. scanTodo[s] = {}
    BY <1>4 DEF ScanEnd, HitsSent, SendSpans, SendEntropy, HitInv, ScannerHits
  <2>2. \E pc : scanPc' = [scanPc EXCEPT ![s] = pc]
    BY <1>4 DEF ScanEnd, HitsSent, SendSpans, SendEntropy, JobStepEnds
  <2>3. UNCHANGED <<rpc, cursor, job, scanQ, scanTodo, hitQ, fate, carvePc,
                    carveHit>>
    BY <1>4 DEF ScanEnd, HitsSent, SendSpans, SendEntropy, readerVars, carveVars
  <2>4. QED
    BY <2>1, <2>2, <2>3, HitsScanIdle
<1>5. QED
  BY <1>1, <1>2, <1>3, <1>4 DEF ScanStep

-----------------------------------------------------------------------------
(* The carvers.                                                            *)
LEMMA HitsCarveRecv ==
    ASSUME TypeOK, HitInv, NEW c \in Carvers, CarveRecv(c)
    PROVE  HitInv'
<1> USE DEF HitInv
<1> DEFINE h == Head(hitQ)
<1>1. /\ hitQ \in Seq(Sigs) /\ hitQ # <<>> /\ hitQ' = Tail(hitQ)
      /\ carveHit' = [carveHit EXCEPT ![c] = h]
      /\ carvePc' = [carvePc EXCEPT ![c] = "check"]
      /\ carvePc[c] = "recv"
      /\ UNCHANGED <<rpc, cursor, job, scanQ, fate, scanTodo, scanPc>>
  BY DEF CarveRecv, readerVars, scanVars, TypeOK, HitQType
<1>2. /\ h \in QueuedHits /\ IsInjective(hitQ')
      /\ QueuedHits' = QueuedHits \ {h}
  <2>1. QueuedHits' = Range(hitQ')
    BY DEF QueuedHits, Range
  <2>2. IsInjective(hitQ)
    BY DEF QueueHits
  <2>3. /\ h \in Range(hitQ) /\ IsInjective(hitQ')
        /\ Range(hitQ') = Range(hitQ) \ {h}
    BY <1>1, <2>2, QueuePop
  <2>4. QED
    BY <2>1, <2>3, QueuedIsRange
<1> HIDE DEF h
<1>3. /\ \A d \in Carvers \ {c} : Holding(d)' = Holding(d)
      /\ \A d \in Carvers \ {c} : carveHit'[d] = carveHit[d]
      /\ ~Holding(c) /\ Holding(c)' /\ carveHit'[c] = h
  BY <1>1 DEF Holding, TypeOK, CarveType
<1>4. /\ fate[h] = "found"
      /\ \A s \in Scanners : h \notin scanTodo[s]
      /\ \A d \in Carvers : Holding(d) => carveHit[d] # h
  BY <1>2 DEF QueueHits, CarverHits
<1>5. JobInv'
  BY <1>1, JobFrame DEF Fresh
<1>6. ScannerHits'
  BY <1>1 DEF ScannerHits
<1>7. QueueHits'
  BY <1>1, <1>2 DEF QueueHits
<1>8. CarverHits'
  BY <1>1, <1>2, <1>3, <1>4 DEF CarverHits
<1>9. NoneLost'
  <2>1. ~CarversDone'
    BY <1>3 DEF CarversDone, Holding
  <2>2. ASSUME NEW g \in Sigs, fate[g] = "found" PROVE Placed(g)'
    BY <1>1, <1>2, <1>3, <2>2 DEF NoneLost, Placed
  <2>3. QED
    BY <1>1, <2>1, <2>2 DEF NoneLost
<1>10. QED
  BY <1>5, <1>6, <1>7, <1>8, <1>9

(* c leaves its loop with the hit it holds, if any.                        *)
LEMMA HitsCarverLeaves ==
    ASSUME TypeOK, HitInv, NEW c \in Carvers, NEW lost, CarverLeaves(c, lost),
           lost = IF Holding(c) THEN {carveHit[c]} ELSE {},
           UNCHANGED <<rpc, cursor, job, scanQ, scanTodo, scanPc>>
    PROVE  HitInv'
<1> USE DEF HitInv
<1> DEFINE last == \A d \in Carvers \ {c} : carvePc[d] = "done"
           gone == lost \cup IF last THEN QueuedHits ELSE {}
<1>1. /\ carvePc' = [carvePc EXCEPT ![c] = "done"]
      /\ carveHit' = [carveHit EXCEPT ![c] = 0]
      /\ hitQ' = IF last THEN <<>> ELSE hitQ
      /\ fate' = [h \in Sigs |-> IF h \in gone THEN "dropped" ELSE fate[h]]
  BY DEF CarverLeaves
<1>2. /\ \A d \in Carvers \ {c} : Holding(d)' = Holding(d)
      /\ \A d \in Carvers \ {c} : carveHit'[d] = carveHit[d]
      /\ ~Holding(c)' /\ carvePc'[c] = "done"
  BY <1>1 DEF Holding, TypeOK, CarveType
<1>3. \A h \in gone : /\ fate[h] = "found"
                      /\ \A s \in Scanners : h \notin scanTodo[s]
  <2>1. \A h \in lost : Holding(c) /\ h = carveHit[c]
    OBVIOUS
  <2>2. QED
    BY <2>1 DEF QueueHits, CarverHits
<1>4. QueuedHits' = IF last THEN {} ELSE QueuedHits
  BY <1>1 DEF QueuedHits
<1>5. \A d \in Carvers \ {c} : Holding(d) =>
         carveHit[d] \in Sigs /\ carveHit[d] \notin gone
  BY DEF CarverHits, TypeOK, CarveType, Holding
<1>6. /\ \A h \in Sigs \ gone : fate'[h] = fate[h]
      /\ \A h \in Sigs : fate'[h] = "found" => fate[h] = "found" /\ h \notin gone
  BY <1>1
<1>7. QueuedHits \subseteq Sigs /\ \A s \in Scanners : scanTodo[s] \subseteq Sigs
  BY DEF TypeOK, HitQType, QueuedHits, ScanType
<1>8. ~last => QueuedHits \cap gone = {}
  BY DEF CarverHits
<1>9. last <=> CarversDone'
  BY <1>1, <1>2 DEF CarversDone, TypeOK, CarveType
<1> HIDE DEF last, gone
<1>10. JobInv'
  BY <1>3, <1>6, JobFrame DEF Fresh
<1>11. ScannerHits'
  BY <1>3, <1>6, <1>7 DEF ScannerHits
<1>12. QueueHits'
  <2>1. IsInjective(hitQ')
    BY <1>1 DEF QueueHits, IsInjective
  <2>2. QED
    BY <1>4, <1>6, <1>7, <1>8, <2>1 DEF QueueHits
<1>13. CarverHits'
  BY <1>2, <1>4, <1>5, <1>6 DEF CarverHits
<1>14. ASSUME NEW g \in Sigs, fate'[g] = "found" PROVE Placed(g)'
  <2>1. fate[g] = "found" /\ g \notin gone
    BY <1>6, <1>14
  <2>2. Placed(g)
    BY <2>1 DEF NoneLost
  <2>3. CASE g \in QueuedHits
    BY <1>4, <2>1, <2>3 DEF gone, Placed
  <2>4. ~(Holding(c) /\ carveHit[c] = g)
    BY <2>1 DEF gone
  <2>5. QED
    BY <1>2, <2>2, <2>3, <2>4 DEF Placed
<1>15. NoneLost'
  BY <1>1, <1>9, <1>14 DEF NoneLost
<1>16. QED
  BY <1>10, <1>11, <1>12, <1>13, <1>15

(* A handler's result settles the hit.                                     *)
LEMMA HitsSettled ==
    ASSUME TypeOK, HitInv, NEW c \in Carvers, Holding(c), NEW f, f # "found",
           fate' = [fate EXCEPT ![carveHit[c]] = f], ~Holding(c)',
           \A d \in Carvers \ {c} : Holding(d)' = Holding(d)
                                    /\ carveHit'[d] = carveHit[d],
           ~CarversDone',
           UNCHANGED <<rpc, cursor, job, scanQ, scanTodo, scanPc, hitQ>>
    PROVE  HitInv'
<1> USE DEF HitInv
<1> DEFINE h == carveHit[c]
<1>1. /\ h \in Sigs /\ fate \in [Sigs -> Fates] /\ fate[h] = "found"
      /\ h \notin QueuedHits
      /\ \A s \in Scanners : h \notin scanTodo[s] /\ scanTodo[s] \subseteq Sigs
      /\ \A d \in Carvers \ {c} : Holding(d) =>
            carveHit[d] # h /\ carveHit[d] \in Sigs
  BY DEF CarverHits, TypeOK, CarveType, FateType, ScanType, Holding
<1>2. /\ \A g \in Sigs \ {h} : fate'[g] = fate[g]
      /\ fate'[h] = f
  BY <1>1
<1> HIDE DEF h
<1>3. JobInv'
  BY <1>1, <1>2, JobFrame DEF Fresh
<1>4. ScannerHits'
  BY <1>1, <1>2 DEF ScannerHits
<1>5. QueuedHits \subseteq Sigs /\ QueuedHits' = QueuedHits
  BY DEF TypeOK, HitQType, QueuedHits
<1>6. QueueHits'
  BY <1>1, <1>2, <1>5 DEF QueueHits
<1>7. CarverHits'
  BY <1>1, <1>2, <1>5 DEF CarverHits
<1>8. NoneLost'
  BY <1>1, <1>2, <1>5 DEF NoneLost, Placed, h
<1>9. QED
  BY <1>3, <1>4, <1>6, <1>7, <1>8

(* A carver goes on between steps that are not about its hit.              *)
LEMMA HitsCarverMoves ==
    ASSUME TypeOK, HitInv, NEW c \in Carvers, NEW pc,
           carvePc' = [carvePc EXCEPT ![c] = pc],
           pc = "done" => hitQ = <<>>,
           \/ Holding(c) /\ pc = "carve" /\ UNCHANGED carveHit
           \/ ~Holding(c) /\ pc \notin {"check", "carve"}
              /\ \A d \in Carvers \ {c} : carveHit'[d] = carveHit[d],
           UNCHANGED <<rpc, cursor, job, scanQ, scanTodo, scanPc, hitQ, fate>>
    PROVE  HitInv'
<1> USE DEF HitInv
<1>1. carvePc'[c] = pc /\ \A d \in Carvers \ {c} : carvePc'[d] = carvePc[d]
  BY DEF TypeOK, CarveType
<1>2. \A d \in Carvers : /\ Holding(d)' = Holding(d)
                         /\ Holding(d) => carveHit'[d] = carveHit[d]
  BY <1>1 DEF Holding
<1>3. JobInv'
  BY JobFrame DEF Fresh
<1>4. ScannerHits'
  BY DEF ScannerHits
<1>5. QueueHits' /\ CarverHits'
  BY <1>2 DEF QueueHits, CarverHits, QueuedHits
<1>6. NoneLost'
  <2>1. CarversDone' => hitQ' = <<>>
    BY <1>1 DEF CarversDone
  <2>2. ASSUME NEW h \in Sigs, fate[h] = "found" PROVE Placed(h)'
    BY <1>2, <2>2 DEF NoneLost, Placed, QueuedHits
  <2>3. QED
    BY <2>1, <2>2 DEF NoneLost
<1>7. QED
  BY <1>3, <1>4, <1>5, <1>6

LEMMA HitsCarveStep ==
    ASSUME TypeOK, HitInv, NEW c \in Carvers, CarveStep(c)
    PROVE  HitInv'
<1>1. UNCHANGED <<rpc, cursor, job, scanQ, scanTodo, scanPc>>
  BY DEF CarveStep, CarveRecv, CarveEnd, CheckLimit, CarveNothing, CarveFile,
     SendRecord, ParseSqlite, CheckTotal, readerVars, scanVars
<1>2. CASE CarveRecv(c)
  BY <1>2, HitsCarveRecv
<1>3. CASE CheckLimit(c)
  <2>1. Holding(c)
    BY <1>3 DEF CheckLimit, Holding
  <2>2. CASE LimitReached(filesCarved)
    BY <1>1, <1>3, <2>1, <2>2, HitsCarverLeaves DEF CheckLimit
  <2>3. CASE ~LimitReached(filesCarved)
    BY <1>1, <1>3, <2>1, <2>3, HitsCarverMoves DEF CheckLimit
  <2>4. QED
    BY <2>2, <2>3
<1>4. CASE CarveNothing(c) \/ CarveFile(c)
  <2>1. carvePc[c] = "carve" /\ Holding(c) /\ ~CarversDone
    BY <1>4 DEF CarveNothing, CarveFile, Holding, CarversDone
  <2>2. /\ UNCHANGED hitQ
        /\ \E f \in Settled : fate' = [fate EXCEPT ![carveHit[c]] = f]
        /\ \E pc \in {"recv", "record"} : carvePc' = [carvePc EXCEPT ![c] = pc]
        /\ \A d \in Carvers \ {c} : carveHit'[d] = carveHit[d]
    BY <1>4 DEF CarveNothing, CarveFile, Settled, TypeOK, CarveType
  <2>3. /\ ~Holding(c)' /\ ~CarversDone'
        /\ \A d \in Carvers \ {c} : Holding(d)' = Holding(d)
    BY <2>2 DEF Holding, CarversDone, TypeOK, CarveType
  <2>4. PICK f \in Settled : fate' = [fate EXCEPT ![carveHit[c]] = f]
    BY <2>2
  <2>5. f # "found"
    BY DEF Settled
  <2>6. QED
    BY <1>1, <2>1, <2>2, <2>3, <2>4, <2>5, HitsSettled
<1>5. CASE CarveEnd(c) \/ SendRecord(c) \/ ParseSqlite(c)
  <2>1. /\ ~Holding(c) /\ UNCHANGED <<hitQ, carveHit, fate>>
        /\ \E pc \in {"done", "history", "cookie", "download", "limit"} :
              /\ carvePc' = [carvePc EXCEPT ![c] = pc]
              /\ pc = "done" => hitQ = <<>>
    BY <1>5 DEF CarveEnd, SendRecord, AfterRecord, ParseSqlite, ParserStages,
       NextStage, Holding
  <2>2. QED
    BY <1>1, <2>1, HitsCarverMoves
<1>6. CASE CheckTotal(c)
  <2>1. ~Holding(c)
    BY <1>6 DEF CheckTotal, Holding
  <2>2. CASE LimitReached(carveTotal[c])
    BY <1>1, <1>6, <2>1, <2>2, HitsCarverLeaves DEF CheckTotal
  <2>3. CASE ~LimitReached(carveTotal[c])
    <3>1. /\ carvePc' = [carvePc EXCEPT ![c] = "recv"]
          /\ carveHit' = [carveHit EXCEPT ![c] = 0]
          /\ UNCHANGED <<hitQ, fate>>
      BY <1>6, <2>3 DEF CheckTotal
    <3>2. \A d \in Carvers \ {c} : carveHit'[d] = carveHit[d]
      BY <3>1 DEF TypeOK, CarveType
    <3>3. QED
      BY <1>1, <2>1, <3>1, <3>2, HitsCarverMoves
  <2>4. QED
    BY <2>2, <2>3
<1>7. QED
  BY <1>2, <1>3, <1>4, <1>5, <1>6 DEF CarveStep

LEMMA HitsCarvePanic ==
    ASSUME TypeOK, HitInv, NEW c \in Carvers, CarvePanic(c)
    PROVE  HitInv'
<1>1. Holding(c) /\ CarverLeaves(c, {carveHit[c]})
      /\ UNCHANGED <<rpc, cursor, job, scanQ, scanTodo, scanPc>>
  BY DEF CarvePanic, Holding, readerVars, scanVars
<1>2. QED
  BY <1>1, HitsCarverLeaves

-----------------------------------------------------------------------------
LEMMA HitsNext == TypeOK /\ HitInv /\ [Next]_vars => HitInv'
<1> SUFFICES ASSUME TypeOK, HitInv, [Next]_vars PROVE HitInv'
  OBVIOUS
<1>1. ASSUME JobInv',
             UNCHANGED <<fate, scanTodo, scanPc, hitQ, carvePc, carveHit>>
      PROVE  HitInv'
  BY <1>1 DEF HitInv, ScannerHits, QueueHits, CarverHits, NoneLost, Placed,
     Holding, QueuedHits, CarversDone
<1>2. ASSUME UNCHANGED <<rpc, cursor, job, scanQ, fate, scanTodo, scanPc, hitQ,
                         carvePc, carveHit>>
      PROVE  HitInv'
  <2>1. JobInv'
    BY <1>2, JobFrame DEF HitInv, Fresh
  <2>2. QED
    BY <1>1, <1>2, <2>1
<1>3. CASE ReaderStep
  <2>1. UNCHANGED <<fate, scanTodo, scanPc, hitQ, carvePc, carveHit>>
    BY <1>3 DEF ReaderStep, LoopEnds, CheckFiles, CheckStop, ReadChunk,
       ReadFails, SendJob, SendFlush, NextChunk, CloseChannels, JoinScanners,
       JoinCarvers, JoinStringers, SendSummary, Finish, ProcessExit, JoinPool,
       ReaderOnly, scanVars, carveVars
  <2>2. QED
    BY <1>1, <1>3, <2>1, JobReader DEF HitInv
<1>4. ASSUME NEW t \in Stringers, StrStep(t) \/ StrPanic(t) PROVE HitInv'
  BY <1>2, <1>4 DEF StrStep, StrRecv, StrEnd, SendArtefact, StrPanic,
     readerVars, scanVars, carveVars
<1>5. CASE MetaStep \/ MetaPanic \/ Cancel \/ UNCHANGED vars
  BY <1>2, <1>5 DEF MetaStep, MetaRecv, MetaEnd, MetaPanic, Cancel, vars,
     readerVars, scanVars, carveVars
<1>6. QED
  BY <1>3, <1>4, <1>5, HitsScanStep, HitsScanPanic, HitsCarveStep,
     HitsCarvePanic DEF Next, Panic, Terminated

LEMMA HitsInit == Init => HitInv
<1> SUFFICES ASSUME Init PROVE HitInv
  OBVIOUS
<1>1. JobInv
  BY DEF Init, JobInv, Untouched, Fresh
<1>2. QueuedHits = {} /\ IsInjective(hitQ) /\ hitQ = <<>>
  BY DEF Init, QueuedHits, IsInjective
<1>3. /\ \A s \in Scanners : scanTodo[s] = {}
      /\ \A c \in Carvers : carvePc[c] = "recv"
      /\ \A h \in Sigs : fate[h] = "unseen"
  BY DEF Init
<1>4. ScannerHits /\ QueueHits /\ CarverHits
  BY <1>2, <1>3 DEF ScannerHits, QueueHits, CarverHits, Holding
<1>5. NoneLost
  BY <1>2, <1>3 DEF NoneLost
<1>6. QED
  BY <1>1, <1>4, <1>5 DEF HitInv

(* Whatever the interleaving, a signature is counted by one scanner at     *)
(* most, the chunk's owner, and from then on its hit is in exactly one     *)
(* place, until its handler settles it or a leaving worker drops it.       *)
THEOREM HitsInOnePlace == Spec => []HitInv
<1>1. Init /\ []TypeOK /\ [][Next]_vars => []HitInv
  BY HitsInit, HitsNext, PTL
<1>2. QED
  BY <1>1, TypeCorrect, PTL DEF Spec

-----------------------------------------------------------------------------
(* The record of h is in the metadata channel, or in the log.              *)
RecordQueued(h) == \E i \in DOMAIN metaQ : metaQ[i] = Event("file", h)
Logged(h) == \E i \in DOMAIN log : log[i] = Event("file", h)
AtRecord(c) == carvePc[c] = "record"

(* There is one record of a carved file at most: still to be sent by one   *)
(* carver, in the channel, or in the log.                                  *)
SendsOne ==
    \A c \in Carvers : AtRecord(c) =>
        /\ fate[carveHit[c]] = "file"
        /\ ~RecordQueued(carveHit[c]) /\ ~Logged(carveHit[c])
        /\ \A d \in Carvers : AtRecord(d) /\ carveHit[d] = carveHit[c] => d = c
QueuedOnce ==
    \A h \in Sigs : \A i, j \in DOMAIN metaQ :
        metaQ[i] = Event("file", h) /\ metaQ[j] = Event("file", h) => i = j
QueuesOne ==
    /\ QueuedOnce
    /\ \A h \in Sigs : RecordQueued(h) => fate[h] = "file" /\ ~Logged(h)
LogsOne == \A h \in Sigs : Logged(h) => fate[h] = "file"

(* Without a panic and without a sink error no record is lost on its way.  *)
Clean == panics = 0 /\ metaErrors = 0
RecordKept ==
    Clean => \A h \in Sigs : fate[h] = "file" =>
        \/ \E c \in Carvers : AtRecord(c) /\ carveHit[c] = h
        \/ RecordQueued(h) \/ Logged(h)

FileSet == {h \in Sigs : fate[h] = "file"}
FilesCounted == filesCarved = Cardinality(FileSet)

RecordInv == SendsOne /\ QueuesOne /\ LogsOne /\ RecordKept /\ FilesCounted

(* The joins: what has ended by the time the reader is past them.          *)
Joined ==
    /\ rpc \in {"joinCarve", "joinString", "summary", "joinMeta", "done"}
          => ScannersDone
    /\ rpc \in {"joinString", "summary", "joinMeta", "done"} => CarversDone
    /\ rpc \in {"summary", "joinMeta", "done"} => StringersDone
    /\ rpc = "done" => metaPc = "done"

(* The metadata thread ends when no sender is left and nothing is queued,  *)
(* and what it has logged is flushed.                                      *)
MetaEnded ==
    Clean /\ metaPc = "done" =>
        MetaSendersGone /\ metaQ = <<>> /\ flushed = Len(log)

(* Nothing comes after the summary.                                        *)
SummaryLast ==
    Clean /\ rpc \in {"joinMeta", "done"} =>
        IF metaQ # <<>>
        THEN metaQ[Len(metaQ)] = Event("summary", filesCarved)
        ELSE log # <<>> /\ log[Len(log)] = Event("summary", filesCarved)

EndInv == Joined /\ MetaEnded /\ SummaryLast

-----------------------------------------------------------------------------
(* The steps that records, files and the log notice.                       *)
OtherEvent(e) == e \in Events /\ e.kind # "file"
Quiet ==
    /\ UNCHANGED <<filesCarved, log>>
    /\ \A h \in Sigs : fate'[h] = "file" <=> fate[h] = "file"
    /\ \A c \in Carvers : /\ AtRecord(c)' = AtRecord(c)
                          /\ AtRecord(c) => carveHit'[c] = carveHit[c]
    /\ metaQ' = metaQ \/ \E e : OtherEvent(e) /\ metaQ' = Append(metaQ, e)
    /\ panics <= panics' /\ metaErrors <= metaErrors'

LEMMA ReaderQuiet == TypeOK /\ ReaderStep => Quiet
<1> SUFFICES ASSUME TypeOK, ReaderStep PROVE Quiet
  OBVIOUS
<1>1. filesCarved \in Nat /\ panics \in Nat
  BY DEF TypeOK
<1>2. /\ UNCHANGED <<filesCarved, log, fate, carvePc, carveHit, panics,
                     metaErrors>>
      /\ \/ UNCHANGED metaQ
         \/ SendMeta(Event("flush", 0))
         \/ SendMeta(Event("summary", filesCarved))
  BY DEF ReaderStep, LoopEnds, CheckFiles, CheckStop, ReadChunk,
     ReadFails, SendJob, SendFlush, NextChunk, CloseChannels, JoinScanners,
     JoinCarvers, JoinStringers, SendSummary, Finish, ProcessExit, JoinPool,
     ReaderOnly, scanVars, carveVars, metaVars, MetaClosed
<1>3. /\ OtherEvent(Event("flush", 0))
      /\ OtherEvent(Event("summary", filesCarved))
  BY <1>1 DEF OtherEvent, Event, Events, Kinds
<1>4. metaQ' = metaQ \/ \E e : OtherEvent(e) /\ metaQ' = Append(metaQ, e)
  BY <1>2, <1>3 DEF SendMeta
<1>5. QED
  BY <1>1, <1>2, <1>4 DEF Quiet, AtRecord, TypeOK, MetaType

LEMMA ScanQuiet ==
    ASSUME TypeOK, HitInv, NEW s \in Scanners, ScanStep(s) \/ ScanPanic(s)
    PROVE  Quiet
<1>1. panics \in Nat /\ scanJob[s].chunk \in Nat /\ fate \in [Sigs -> Fates]
  BY DEF TypeOK, ScanType, Jobs, FateType
<1>2. /\ UNCHANGED <<filesCarved, log, carvePc, carveHit, metaErrors>>
      /\ panics <= panics'
      /\ \/ UNCHANGED metaQ
         \/ SendMeta(Event("entropy", Start(scanJob[s].chunk)))
  BY <1>1 DEF ScanStep, ScanRecv, ScanEnd, CountHit, SendHit, HitsSent,
     SendSpans, SendEntropy, ScanPanic, PanicBudget, carveVars, metaVars
<1>3. OtherEvent(Event("entropy", Start(scanJob[s].chunk)))
  BY <1>1, StartType DEF OtherEvent, Event, Events, Kinds
<1>4. metaQ' = metaQ \/ \E e : OtherEvent(e) /\ metaQ' = Append(metaQ, e)
  BY <1>2, <1>3 DEF SendMeta
<1>5. \A h \in Sigs : fate'[h] = "file" <=> fate[h] = "file"
  <2>1. CASE UNCHANGED fate
    BY <2>1
  <2>2. CASE \E h \in scanTodo[s], f \in {"found", "dropped"} :
                fate' = [fate EXCEPT ![h] = f]
    <3>1. \A h \in scanTodo[s] : fate[h] # "file"
      BY DEF HitInv, ScannerHits
    <3>2. QED
      BY <1>1, <2>2, <3>1
  <2>3. QED
    BY <2>1, <2>2 DEF ScanStep, ScanRecv, ScanEnd, CountHit, SendHit, HitsSent,
       SendSpans, SendEntropy, ScanPanic, Counted
<1>6. QED
  BY <1>2, <1>4, <1>5 DEF Quiet, AtRecord, TypeOK, MetaType

LEMMA StrQuiet ==
    ASSUME TypeOK, NEW t \in Stringers, StrStep(t) \/ StrPanic(t)
    PROVE  Quiet
<1>1. panics \in Nat /\ strTodo[t] \subseteq Nat
  BY ContentAssumption DEF TypeOK, StrType
<1>2. /\ UNCHANGED <<filesCarved, log, fate, carvePc, carveHit, metaErrors>>
      /\ panics <= panics'
      /\ UNCHANGED metaQ \/ \E p \in strTodo[t] : SendMeta(Event("string", p))
  BY <1>1 DEF StrStep, StrRecv, StrEnd, SendArtefact, MetaClosed, StrPanic,
     PanicBudget, carveVars, metaVars
<1>3. \A p \in strTodo[t] : OtherEvent(Event("string", p))
  BY <1>1 DEF OtherEvent, Event, Events, Kinds
<1>4. metaQ' = metaQ \/ \E e : OtherEvent(e) /\ metaQ' = Append(metaQ, e)
  BY <1>2, <1>3 DEF SendMeta
<1>5. QED
  BY <1>2, <1>4 DEF Quiet, AtRecord, TypeOK, MetaType

(* A carver that leaves gives up hits, never files.                        *)
LEMMA LeavesQuiet ==
    ASSUME TypeOK, HitInv, NEW c \in Carvers, NEW lost, CarverLeaves(c, lost),
           ~AtRecord(c), \A h \in lost : fate[h] = "found",
           UNCHANGED <<filesCarved, log, metaQ, metaErrors>>, panics <= panics'
    PROVE  Quiet
<1> DEFINE gone == lost \cup IF \A d \in Carvers \ {c} : carvePc[d] = "done"
                             THEN QueuedHits ELSE {}
<1>1. /\ carvePc' = [carvePc EXCEPT ![c] = "done"]
      /\ carveHit' = [carveHit EXCEPT ![c] = 0]
      /\ fate' = [h \in Sigs |-> IF h \in gone THEN "dropped" ELSE fate[h]]
  BY DEF CarverLeaves
<1>2. \A h \in gone : fate[h] = "found"
  BY DEF HitInv, QueueHits
<1> HIDE DEF gone
<1>3. \A h \in Sigs : fate'[h] = "file" <=> fate[h] = "file"
  BY <1>1, <1>2
<1>4. \A d \in Carvers : /\ AtRecord(d)' = AtRecord(d)
                         /\ AtRecord(d) => carveHit'[d] = carveHit[d]
  BY <1>1 DEF AtRecord, TypeOK, CarveType
<1>5. QED
  BY <1>3, <1>4 DEF Quiet, TypeOK, MetaType

LEMMA CarveQuiet ==
    ASSUME TypeOK, HitInv, NEW c \in Carvers, CarveStep(c) \/ CarvePanic(c),
           ~CarveFile(c), ~SendRecord(c)
    PROVE  Quiet
<1>1. /\ panics \in Nat /\ metaErrors \in Nat /\ fate \in [Sigs -> Fates]
      /\ carvePc \in [Carvers -> CarvePcs]
      /\ carveHit \in [Carvers -> Sigs \cup {0}]
  BY DEF TypeOK, MetaType, FateType, CarveType
<1>2. /\ UNCHANGED <<filesCarved, log, metaErrors>> /\ panics <= panics'
      /\ ~AtRecord(c)
  BY <1>1 DEF CarveStep, CarveRecv, CarveEnd, CheckLimit, CarveNothing,
     CarveFile, ParseSqlite, CheckTotal, CarvePanic, PanicBudget, AtRecord,
     metaVars, ParserStages
<1>4. Holding(c) => fate[carveHit[c]] = "found"
  BY DEF HitInv, CarverHits
<1>5. CASE CarverLeaves(c, {carveHit[c]}) /\ Holding(c) /\ UNCHANGED metaQ
  BY <1>2, <1>4, <1>5, LeavesQuiet
<1>6. CASE CarverLeaves(c, {}) /\ UNCHANGED metaQ
  BY <1>2, <1>6, LeavesQuiet
<1>7. ASSUME NEW pc, pc # "record", carvePc' = [carvePc EXCEPT ![c] = pc],
             \A d \in Carvers \ {c} : carveHit'[d] = carveHit[d],
             \A h \in Sigs : fate'[h] = "file" <=> fate[h] = "file",
             metaQ' = metaQ \/ \E e : OtherEvent(e) /\ metaQ' = Append(metaQ, e)
      PROVE  Quiet
  <2>1. \A d \in Carvers : /\ AtRecord(d)' = AtRecord(d)
                           /\ AtRecord(d) => carveHit'[d] = carveHit[d]
    BY <1>1, <1>2, <1>7 DEF AtRecord
  <2>2. QED
    BY <1>1, <1>2, <1>7, <2>1 DEF Quiet
<1>8. CASE CarveNothing(c)
  <2>1. /\ UNCHANGED metaQ /\ carvePc' = [carvePc EXCEPT ![c] = "recv"]
        /\ \A d \in Carvers \ {c} : carveHit'[d] = carveHit[d]
        /\ \E f \in Settled \ {"file"} : fate' = [fate EXCEPT ![carveHit[c]] = f]
        /\ Holding(c)
    BY <1>1, <1>8 DEF CarveNothing, Holding
  <2>2. \A h \in Sigs : fate'[h] = "file" <=> fate[h] = "file"
    BY <1>1, <1>4, <2>1
  <2>3. QED
    BY <1>7, <2>1, <2>2
<1>9. CASE ParseSqlite(c)
  <2>1. /\ carvePc[c] \in ParserStages /\ carveHit[c] \in Nat
        /\ UNCHANGED <<fate, carveHit>>
        /\ UNCHANGED metaQ \/ SendMeta(Event(carvePc[c], carveHit[c]))
        /\ \E pc \in {"cookie", "download", "limit"} :
              carvePc' = [carvePc EXCEPT ![c] = pc]
    BY <1>1, <1>9, ContentAssumption DEF ParseSqlite, ParserStages, NextStage,
       MetaClosed
  <2>2. OtherEvent(Event(carvePc[c], carveHit[c]))
    BY <2>1 DEF OtherEvent, Event, Events, Kinds, ParserStages
  <2>3. metaQ' = metaQ \/ \E e : OtherEvent(e) /\ metaQ' = Append(metaQ, e)
    BY <2>1, <2>2 DEF SendMeta
  <2>4. QED
    BY <1>7, <2>1, <2>3
<1>10. CASE \/ CarveRecv(c) \/ CarveEnd(c)
            \/ CheckLimit(c) /\ ~LimitReached(filesCarved)
            \/ CheckTotal(c) /\ ~LimitReached(carveTotal[c])
  <2>1. /\ UNCHANGED <<metaQ, fate>>
        /\ \E pc : pc # "record" /\ carvePc' = [carvePc EXCEPT ![c] = pc]
        /\ \A d \in Carvers \ {c} : carveHit'[d] = carveHit[d]
    BY <1>1, <1>10 DEF CarveRecv, CarveEnd, CheckLimit, CheckTotal
  <2>2. QED
    BY <1>7, <2>1
<1>11. QED
  BY <1>5, <1>6, <1>8, <1>9, <1>10 DEF CarveStep, CheckLimit, CheckTotal,
     CarvePanic, Holding

(* Every other step is one of these four.                                  *)
LEMMA StepsAre ==
    ASSUME TypeOK, HitInv, [Next]_vars
    PROVE  \/ Quiet
           \/ \E c \in Carvers : CarveFile(c) \/ SendRecord(c)
           \/ MetaRecv \/ MetaPanic
<1>1. CASE MetaEnd \/ Cancel \/ UNCHANGED vars
  <2>1. /\ UNCHANGED <<filesCarved, log, fate, carvePc, carveHit, panics, metaQ>>
        /\ metaErrors <= metaErrors' /\ panics <= panics'
    BY <1>1 DEF MetaEnd, Cancel, vars, carveVars, metaVars, TypeOK, MetaType
  <2>2. QED
    BY <2>1 DEF Quiet, AtRecord
<1>2. QED
  BY <1>1, ReaderQuiet, ScanQuiet, CarveQuiet, StrQuiet
     DEF Next, Panic, MetaStep, Terminated

-----------------------------------------------------------------------------
(* The records in the channel, after a send and after a receive.           *)
LEMMA RecordsAfterSend ==
    ASSUME TypeOK, NEW e \in Events, metaQ' = Append(metaQ, e)
    PROVE  /\ Len(metaQ) \in Nat /\ DOMAIN metaQ = 1 .. Len(metaQ)
           /\ DOMAIN metaQ' = 1 .. Len(metaQ) + 1
           /\ \A i \in 1 .. Len(metaQ) : metaQ'[i] = metaQ[i]
           /\ metaQ'[Len(metaQ) + 1] = e
           /\ \A h : RecordQueued(h)' <=> RecordQueued(h) \/ e = Event("file", h)
<1>1. /\ Len(metaQ) \in Nat /\ DOMAIN metaQ = 1 .. Len(metaQ)
      /\ DOMAIN metaQ' = 1 .. Len(metaQ) + 1
      /\ \A i \in 1 .. Len(metaQ) : metaQ'[i] = metaQ[i]
      /\ metaQ'[Len(metaQ) + 1] = e
  BY AppendProperties, LenProperties DEF TypeOK, MetaQType
<1>2. \A h : Event("file", h)' = Event("file", h)
  BY DEF Event
<1>3. QED
  BY <1>1, <1>2 DEF RecordQueued

LEMMA RecordsAfterReceive ==
    ASSUME TypeOK, metaQ # <<>>, metaQ' = Tail(metaQ)
    PROVE  /\ Len(metaQ) \in Nat \ {0} /\ DOMAIN metaQ = 1 .. Len(metaQ)
           /\ Head(metaQ) = metaQ[1]
           /\ Len(metaQ') = Len(metaQ) - 1
           /\ DOMAIN metaQ' = 1 .. Len(metaQ) - 1
           /\ \A i \in 1 .. Len(metaQ) - 1 : metaQ'[i] = metaQ[i + 1]
           /\ \A h : RecordQueued(h)' => RecordQueued(h)
           /\ \A h : RecordQueued(h) =>
                        RecordQueued(h)' \/ Head(metaQ) = Event("file", h)
<1>1. metaQ \in Seq(Events)
  BY DEF TypeOK, MetaQType
<1>2. /\ Len(metaQ) \in Nat \ {0} /\ DOMAIN metaQ = 1 .. Len(metaQ)
      /\ Head(metaQ) = metaQ[1]
      /\ Len(metaQ') = Len(metaQ) - 1
      /\ DOMAIN metaQ' = 1 .. Len(metaQ) - 1
      /\ \A i \in 1 .. Len(metaQ) - 1 : metaQ'[i] = metaQ[i + 1]
  BY <1>1, HeadTailProperties, LenProperties, EmptySeq
<1>3. \A i \in 1 .. Len(metaQ) - 1 : i + 1 \in 1 .. Len(metaQ)
  BY <1>2
<1>4. ASSUME NEW h, RecordQueued(h)' PROVE RecordQueued(h)
  BY <1>2, <1>3, <1>4 DEF RecordQueued, Event
<1>5. ASSUME NEW h, RecordQueued(h)
      PROVE  RecordQueued(h)' \/ Head(metaQ) = Event("file", h)
  <2>1. PICK i \in 1 .. Len(metaQ) : metaQ[i] = Event("file", h)
    BY <1>2, <1>5 DEF RecordQueued
  <2>2. CASE i = 1
    BY <1>2, <2>1, <2>2
  <2>3. CASE i # 1
    <3>1. i - 1 \in 1 .. Len(metaQ) - 1 /\ metaQ'[i - 1] = metaQ[i]
      BY <1>2, <2>1, <2>3
    <3>2. QED
      BY <1>2, <2>1, <3>1 DEF RecordQueued, Event
  <2>4. QED
    BY <2>2, <2>3
<1>6. QED
  BY <1>2, <1>4, <1>5

LEMMA FileSetFinite ==
    IsFiniteSet(FileSet) /\ Cardinality(FileSet) \in Nat
<1>1. IsFiniteSet(FileSet)
  BY ContentAssumption, FS_Subset DEF FileSet
<1>2. QED
  BY <1>1, FS_CardinalityType

LEMMA CleanBefore ==
    ASSUME TypeOK, Clean', panics <= panics', metaErrors <= metaErrors'
    PROVE  Clean
BY DEF Clean, TypeOK, MetaType

-----------------------------------------------------------------------------
LEMMA RecordQuiet == TypeOK /\ RecordInv /\ Quiet => RecordInv'
<1> SUFFICES ASSUME TypeOK, RecordInv, Quiet PROVE RecordInv'
  OBVIOUS
<1>1. /\ UNCHANGED <<filesCarved, log>>
      /\ \A h \in Sigs : fate'[h] = "file" <=> fate[h] = "file"
      /\ \A c \in Carvers : /\ AtRecord(c)' = AtRecord(c)
                            /\ AtRecord(c) => carveHit'[c] = carveHit[c]
      /\ panics <= panics' /\ metaErrors <= metaErrors'
  BY DEF Quiet
<1>2. \A h : Logged(h)' <=> Logged(h)
  BY <1>1 DEF Logged, Event
<1>3. (\A h : RecordQueued(h)' <=> RecordQueued(h)) /\ QueuedOnce'
  <2>1. CASE UNCHANGED metaQ
    BY <2>1 DEF RecordQueued, Event, RecordInv, QueuesOne, QueuedOnce
  <2>2. ASSUME NEW e, OtherEvent(e), metaQ' = Append(metaQ, e)
        PROVE  (\A h : RecordQueued(h)' <=> RecordQueued(h)) /\ QueuedOnce'
    <3>1. e \in Events /\ \A h : e # Event("file", h)
      BY <2>2 DEF OtherEvent, Event
    <3>2. /\ Len(metaQ) \in Nat /\ DOMAIN metaQ = 1 .. Len(metaQ)
          /\ DOMAIN metaQ' = 1 .. Len(metaQ) + 1
          /\ \A i \in 1 .. Len(metaQ) : metaQ'[i] = metaQ[i]
          /\ metaQ'[Len(metaQ) + 1] = e
          /\ \A h : RecordQueued(h)' <=> RecordQueued(h)
      BY <2>2, <3>1, RecordsAfterSend
    <3>3. \A h \in Sigs : \A i \in DOMAIN metaQ' :
             metaQ'[i] = Event("file", h) => i \in DOMAIN metaQ /\ metaQ[i] = metaQ'[i]
      BY <3>1, <3>2
    <3>4. QED
      BY <3>2, <3>3 DEF RecordInv, QueuesOne, QueuedOnce, Event
  <2>3. QED
    BY <2>1, <2>2 DEF Quiet
<1>4. \A c \in Carvers : AtRecord(c) => carveHit[c] \in Sigs
  BY DEF AtRecord, TypeOK, CarveType
<1>5. SendsOne'
  BY <1>1, <1>2, <1>3, <1>4 DEF RecordInv, SendsOne
<1>6. QueuesOne' /\ LogsOne'
  BY <1>1, <1>2, <1>3 DEF RecordInv, QueuesOne, LogsOne
<1>7. RecordKept'
  <2>1. ASSUME Clean', NEW h \in Sigs, fate'[h] = "file"
        PROVE  \/ \E c \in Carvers : AtRecord(c)' /\ carveHit'[c] = h
               \/ RecordQueued(h)' \/ Logged(h)'
    <3>1. Clean
      BY <1>1, <2>1, CleanBefore
    <3>2. \/ \E c \in Carvers : AtRecord(c) /\ carveHit[c] = h
          \/ RecordQueued(h) \/ Logged(h)
      BY <1>1, <2>1, <3>1 DEF RecordInv, RecordKept
    <3>3. QED
      BY <1>1, <1>2, <1>3, <3>2
  <2>2. QED
    BY <2>1 DEF RecordKept
<1>8. FilesCounted'
  <2>1. FileSet' = FileSet
    BY <1>1 DEF FileSet
  <2>2. QED
    BY <1>1, <2>1 DEF RecordInv, FilesCounted
<1>9. QED
  BY <1>5, <1>6, <1>7, <1>8 DEF RecordInv

LEMMA RecordCarveFile ==
    ASSUME TypeOK, HitInv, RecordInv, NEW c \in Carvers, CarveFile(c)
    PROVE  RecordInv'
<1> DEFINE h == carveHit[c]
<1>1. /\ UNCHANGED <<carveHit, metaQ, log, panics, metaErrors>>
      /\ fate' = [fate EXCEPT ![h] = "file"]
      /\ carvePc' = [carvePc EXCEPT ![c] = "record"]
      /\ filesCarved' = filesCarved + 1
      /\ carvePc[c] = "carve"
  BY DEF CarveFile, metaVars
<1>2. /\ h \in Sigs /\ fate[h] = "found" /\ fate \in [Sigs -> Fates]
      /\ \A d \in Carvers : AtRecord(d) => carveHit[d] \in Sigs
  BY <1>1 DEF HitInv, CarverHits, Holding, TypeOK, CarveType, FateType, AtRecord
<1>3. /\ fate'[h] = "file" /\ \A g \in Sigs \ {h} : fate'[g] = fate[g]
      /\ AtRecord(c)' /\ \A d \in Carvers \ {c} : AtRecord(d)' = AtRecord(d)
  BY <1>1, <1>2 DEF AtRecord, TypeOK, CarveType
<1>4. ~RecordQueued(h) /\ ~Logged(h)
      /\ \A d \in Carvers : AtRecord(d) => carveHit[d] # h
  BY <1>2 DEF RecordInv, QueuesOne, LogsOne, SendsOne
<1>5. \A g : RecordQueued(g)' = RecordQueued(g) /\ Logged(g)' = Logged(g)
  BY <1>1 DEF RecordQueued, Logged, Event
<1> HIDE DEF h
<1>6. SendsOne'
  <2>1. ASSUME NEW d \in Carvers, AtRecord(d)', d # c
        PROVE  /\ AtRecord(d) /\ carveHit'[d] = carveHit[d]
               /\ carveHit[d] \in Sigs \ {h}
    BY <1>1, <1>2, <1>3, <1>4, <2>1
  <2>2. carveHit'[c] = h
    BY <1>1 DEF h
  <2>3. ASSUME NEW d \in Carvers, AtRecord(d)'
        PROVE  /\ fate'[carveHit'[d]] = "file"
               /\ ~RecordQueued(carveHit'[d]) /\ ~Logged(carveHit'[d])
    BY <1>3, <1>4, <2>1, <2>2, <2>3 DEF RecordInv, SendsOne
  <2>4. ASSUME NEW d \in Carvers, NEW b \in Carvers, AtRecord(d)', AtRecord(b)',
               carveHit'[d] = carveHit'[b]
        PROVE  d = b
    BY <1>4, <2>1, <2>2, <2>4 DEF RecordInv, SendsOne
  <2>5. QED
    BY <1>5, <2>3, <2>4 DEF SendsOne
<1>7. QueuesOne' /\ LogsOne'
  BY <1>1, <1>3, <1>5 DEF RecordInv, QueuesOne, LogsOne, QueuedOnce, Event
<1>8. RecordKept'
  <2>1. ASSUME Clean, NEW g \in Sigs, fate'[g] = "file"
        PROVE  \/ \E d \in Carvers : AtRecord(d)' /\ carveHit'[d] = g
               \/ RecordQueued(g)' \/ Logged(g)'
    <3>1. CASE g = h
      BY <1>1, <1>3, <3>1 DEF h
    <3>2. CASE g # h
      <4>1. \/ \E d \in Carvers : AtRecord(d) /\ carveHit[d] = g
            \/ RecordQueued(g) \/ Logged(g)
        BY <1>3, <2>1, <3>2 DEF RecordInv, RecordKept
      <4>2. ~AtRecord(c)
        BY <1>1 DEF AtRecord
      <4>3. QED
        BY <1>1, <1>3, <1>5, <4>1, <4>2
    <3>3. QED
      BY <3>1, <3>2
  <2>2. Clean' = Clean
    BY <1>1 DEF Clean
  <2>3. QED
    BY <2>1, <2>2 DEF RecordKept
<1>9. FilesCounted'
  <2>1. FileSet' = FileSet \cup {h} /\ h \notin FileSet
    BY <1>2, <1>3 DEF FileSet
  <2>2. Cardinality(FileSet') = Cardinality(FileSet) + 1
    BY <2>1, FileSetFinite, FS_AddElement
  <2>3. QED
    BY <1>1, <2>2 DEF RecordInv, FilesCounted
<1>10. QED
  BY <1>6, <1>7, <1>8, <1>9 DEF RecordInv

(* The record goes from the carver to the channel; it is lost only when    *)
(* the metadata thread has panicked.                                       *)
LEMMA RecordSend ==
    ASSUME TypeOK, RecordInv, MetaEnded, NEW c \in Carvers, SendRecord(c)
    PROVE  RecordInv'
<1> DEFINE h == carveHit[c]
<1>1. /\ UNCHANGED <<carveHit, log, fate, filesCarved, panics, metaErrors>>
      /\ AtRecord(c) /\ carvePc' = [carvePc EXCEPT ![c] = AfterRecord(c)]
      /\ \/ metaPc = "run" /\ metaQ' = Append(metaQ, Event("file", h))
         \/ metaPc = "done" /\ UNCHANGED metaQ
  BY DEF SendRecord, metaVars, AtRecord, SendMeta, MetaClosed
<1>2. /\ h \in Sigs /\ h \in Nat /\ fate[h] = "file"
      /\ ~RecordQueued(h) /\ ~Logged(h)
      /\ \A d \in Carvers : AtRecord(d) /\ carveHit[d] = h => d = c
  BY <1>1, ContentAssumption
     DEF RecordInv, SendsOne, AtRecord, TypeOK, CarveType
<1>3. ~AtRecord(c)' /\ \A d \in Carvers \ {c} : AtRecord(d)' = AtRecord(d)
  BY <1>1 DEF AtRecord, AfterRecord, TypeOK, CarveType
<1>4. \A g : Logged(g)' = Logged(g)
  BY <1>1 DEF Logged, Event
<1>5. LogsOne' /\ FilesCounted'
  BY <1>1, <1>4 DEF RecordInv, LogsOne, FilesCounted, FileSet
<1> HIDE DEF h
<1>6. CASE metaQ' = Append(metaQ, Event("file", h))
  <2>1. Event("file", h) \in Events
    BY <1>2 DEF Event, Events, Kinds
  <2>2. /\ Len(metaQ) \in Nat /\ DOMAIN metaQ = 1 .. Len(metaQ)
        /\ DOMAIN metaQ' = 1 .. Len(metaQ) + 1
        /\ \A i \in 1 .. Len(metaQ) : metaQ'[i] = metaQ[i]
        /\ metaQ'[Len(metaQ) + 1] = Event("file", h)
        /\ \A g : RecordQueued(g)' <=>
                     RecordQueued(g) \/ Event("file", h) = Event("file", g)
    BY <1>6, <2>1, RecordsAfterSend
  <2>3. \A g : RecordQueued(g)' <=> RecordQueued(g) \/ g = h
    BY <2>2 DEF Event
  <2>4. SendsOne'
    BY <1>1, <1>2, <1>3, <1>4, <2>3 DEF RecordInv, SendsOne
  <2>5. QueuedOnce'
    <3>1. \A i \in DOMAIN metaQ : metaQ[i] # Event("file", h)
      BY <1>2 DEF RecordQueued
    <3>2. \A g : Event("file", g) = Event("file", h) => g = h
      BY DEF Event
    <3>3. ASSUME NEW g \in Sigs, NEW i \in DOMAIN metaQ', NEW j \in DOMAIN metaQ',
                 metaQ'[i] = Event("file", g), metaQ'[j] = Event("file", g)
          PROVE  i = j
      BY <2>2, <3>1, <3>2, <3>3 DEF RecordInv, QueuesOne, QueuedOnce
    <3>4. QED
      BY <3>3 DEF QueuedOnce, Event
  <2>6. QueuesOne'
    BY <1>1, <1>2, <1>4, <2>3, <2>5 DEF RecordInv, QueuesOne
  <2>7. RecordKept'
    BY <1>1, <1>3, <1>4, <2>3 DEF RecordInv, RecordKept, Clean, h
  <2>8. QED
    BY <1>5, <2>4, <2>6, <2>7 DEF RecordInv
<1>7. CASE metaPc = "done" /\ UNCHANGED metaQ
  <2>1. ~Clean'
    BY <1>1, <1>7 DEF MetaEnded, MetaSendersGone, CarversDone, AtRecord, Clean
  <2>2. \A g : RecordQueued(g)' = RecordQueued(g)
    BY <1>7 DEF RecordQueued, Event
  <2>3. SendsOne' /\ QueuesOne'
    BY <1>1, <1>3, <1>4, <1>7, <2>2
       DEF RecordInv, SendsOne, QueuesOne, QueuedOnce, Event
  <2>4. QED
    BY <1>5, <2>1, <2>3 DEF RecordInv, RecordKept
<1>8. QED
  BY <1>1, <1>6, <1>7

LEMMA RecordReceive ==
    ASSUME TypeOK, RecordInv, MetaRecv
    PROVE  RecordInv'
<1> DEFINE e == Head(metaQ)
<1>1. /\ UNCHANGED <<carvePc, carveHit, fate, filesCarved, panics>>
      /\ metaQ # <<>> /\ metaQ' = Tail(metaQ)
      /\ \/ e.kind = "flush" /\ UNCHANGED <<log, metaErrors>>
         \/ log' = Append(log, e) /\ UNCHANGED metaErrors
         \/ metaErrors' = metaErrors + 1 /\ UNCHANGED log
  BY DEF MetaRecv, carveVars
<1>2. /\ Len(metaQ) \in Nat \ {0} /\ DOMAIN metaQ = 1 .. Len(metaQ)
      /\ e = metaQ[1]
      /\ DOMAIN metaQ' = 1 .. Len(metaQ) - 1
      /\ \A i \in 1 .. Len(metaQ) - 1 : metaQ'[i] = metaQ[i + 1]
      /\ \A h : RecordQueued(h)' => RecordQueued(h)
      /\ \A h : RecordQueued(h) => RecordQueued(h)' \/ e = Event("file", h)
  BY <1>1, RecordsAfterReceive
<1>3. metaErrors \in Nat /\ log \in Seq(Events) /\ e \in Events
  BY <1>1, <1>2, HeadTailProperties DEF TypeOK, MetaType, MetaQType
<1> HIDE DEF e
<1>4. ASSUME NEW h, e = Event("file", h) PROVE RecordQueued(h)
  <2>1. 1 \in DOMAIN metaQ /\ metaQ[1] = Event("file", h)
    BY <1>2, <1>4
  <2>2. QED
    BY <2>1 DEF RecordQueued
<1>5. ASSUME NEW h \in Sigs, e = Event("file", h) PROVE ~RecordQueued(h)'
  <2>1. ASSUME NEW i \in 1 .. Len(metaQ) - 1, metaQ'[i] = Event("file", h)
        PROVE  FALSE
    <3>1. i + 1 \in DOMAIN metaQ /\ 1 \in DOMAIN metaQ /\ i + 1 # 1
          /\ metaQ[i + 1] = Event("file", h) /\ metaQ[1] = Event("file", h)
      BY <1>2, <1>5, <2>1
    <3>2. QED
      BY <3>1 DEF RecordInv, QueuesOne, QueuedOnce
  <2>2. QED
    BY <1>2, <2>1 DEF RecordQueued, Event
<1>6. /\ \A h : Logged(h) => Logged(h)'
      /\ \A h : Logged(h)' => Logged(h) \/ e = Event("file", h)
      /\ log' = Append(log, e) => \A h : e = Event("file", h) => Logged(h)'
  <2>1. CASE UNCHANGED log
    <3>1. Len(Append(log, e)) # Len(log)
      BY <1>3, AppendProperties
    <3>2. QED
      BY <2>1, <3>1 DEF Logged, Event
  <2>2. CASE log' = Append(log, e)
    <3>1. /\ Len(log) \in Nat /\ DOMAIN log = 1 .. Len(log)
          /\ DOMAIN log' = 1 .. Len(log) + 1
          /\ \A i \in 1 .. Len(log) : log'[i] = log[i]
          /\ log'[Len(log) + 1] = e
      BY <1>3, <2>2, AppendProperties, LenProperties
    <3>2. QED
      BY <3>1 DEF Logged, Event
  <2>3. QED
    BY <1>1, <2>1, <2>2
<1>7. SendsOne'
  <2>1. \A c \in Carvers : AtRecord(c) =>
           carveHit[c] \in Sigs /\ e # Event("file", carveHit[c])
    BY <1>4 DEF RecordInv, SendsOne, TypeOK, CarveType, AtRecord
  <2>2. \A c \in Carvers : AtRecord(c)' = AtRecord(c)
    BY <1>1 DEF AtRecord
  <2>3. QED
    BY <1>1, <1>2, <1>6, <2>1, <2>2 DEF RecordInv, SendsOne
<1>8. QueuesOne'
  <2>1. QueuedOnce'
    <3>1. ASSUME NEW h \in Sigs, NEW i \in DOMAIN metaQ', NEW j \in DOMAIN metaQ',
                 metaQ'[i] = Event("file", h), metaQ'[j] = Event("file", h)
          PROVE  i = j
      <4>1. i + 1 \in DOMAIN metaQ /\ j + 1 \in DOMAIN metaQ
            /\ metaQ[i + 1] = Event("file", h) /\ metaQ[j + 1] = Event("file", h)
            /\ i \in Int /\ j \in Int
        BY <1>2, <3>1
      <4>2. i + 1 = j + 1
        BY <4>1 DEF RecordInv, QueuesOne, QueuedOnce
      <4>3. QED
        BY <4>1, <4>2
    <3>2. QED
      BY <3>1 DEF QueuedOnce, Event
  <2>2. ASSUME NEW h \in Sigs, RecordQueued(h)' PROVE fate[h] = "file" /\ ~Logged(h)'
    BY <1>2, <1>5, <1>6, <2>2 DEF RecordInv, QueuesOne
  <2>3. QED
    BY <1>1, <2>1, <2>2 DEF QueuesOne
<1>9. LogsOne'
  BY <1>1, <1>4, <1>6 DEF RecordInv, LogsOne, QueuesOne
<1>10. RecordKept'
  <2>1. ASSUME Clean', NEW h \in Sigs, fate'[h] = "file"
        PROVE  \/ \E c \in Carvers : AtRecord(c)' /\ carveHit'[c] = h
               \/ RecordQueued(h)' \/ Logged(h)'
    <3>1. Clean /\ UNCHANGED metaErrors
      BY <1>1, <1>3, <2>1 DEF Clean
    <3>2. e = Event("file", h) => log' = Append(log, e)
      BY <1>1, <1>3, <3>1 DEF Event
    <3>3. \/ \E c \in Carvers : AtRecord(c) /\ carveHit[c] = h
          \/ RecordQueued(h) \/ Logged(h)
      BY <1>1, <2>1, <3>1 DEF RecordInv, RecordKept
    <3>4. QED
      BY <1>1, <1>2, <1>6, <3>2, <3>3 DEF AtRecord
  <2>2. QED
    BY <2>1 DEF RecordKept
<1>11. FilesCounted'
  BY <1>1 DEF RecordInv, FilesCounted, FileSet
<1>12. QED
  BY <1>7, <1>8, <1>9, <1>10, <1>11 DEF RecordInv

LEMMA RecordMetaPanic ==
    ASSUME TypeOK, RecordInv, MetaPanic
    PROVE  RecordInv'
<1>1. /\ UNCHANGED <<carvePc, carveHit, fate, filesCarved, log>>
      /\ metaQ' = <<>> /\ panics' = panics + 1
  BY DEF MetaPanic, PanicBudget, carveVars
<1>2. ~Clean'
  BY <1>1 DEF Clean, TypeOK
<1>3. \A h : ~RecordQueued(h)' /\ Logged(h)' = Logged(h)
  BY <1>1 DEF RecordQueued, Logged, Event
<1>4. SendsOne' /\ LogsOne'
  BY <1>1, <1>3 DEF RecordInv, SendsOne, LogsOne, AtRecord
<1>5. QueuesOne'
  BY <1>1, <1>3 DEF QueuesOne, QueuedOnce
<1>6. FilesCounted'
  BY <1>1 DEF RecordInv, FilesCounted, FileSet
<1>7. QED
  BY <1>2, <1>4, <1>5, <1>6 DEF RecordInv, RecordKept

LEMMA RecordNext ==
    ASSUME TypeOK, HitInv, RecordInv, MetaEnded, [Next]_vars
    PROVE  RecordInv'
BY StepsAre, RecordQuiet, RecordCarveFile, RecordSend, RecordReceive,
   RecordMetaPanic

LEMMA RecordInit == Init => RecordInv
<1> SUFFICES ASSUME Init PROVE RecordInv
  OBVIOUS
<1>1. /\ \A h \in Sigs : fate[h] = "unseen"
      /\ \A c \in Carvers : carvePc[c] = "recv"
      /\ metaQ = <<>> /\ log = <<>> /\ filesCarved = 0
  BY DEF Init
<1>2. SendsOne /\ QueuesOne /\ LogsOne /\ RecordKept
  BY <1>1 DEF SendsOne, AtRecord, QueuesOne, QueuedOnce, RecordQueued, LogsOne,
     Logged, RecordKept
<1>3. FileSet = {}
  BY <1>1 DEF FileSet
<1>4. FilesCounted
  BY <1>1, <1>3, FS_EmptySet DEF FilesCounted
<1>5. QED
  BY <1>2, <1>4 DEF RecordInv

-----------------------------------------------------------------------------
(* The end of the run.                                                     *)

(* A thread that has ended stays ended.                                    *)
LEMMA DoneStays ==
    ASSUME TypeOK, [Next]_vars
    PROVE  /\ ScannersDone => ScannersDone'
           /\ CarversDone => CarversDone'
           /\ StringersDone => StringersDone'
           /\ metaPc = "done" => metaPc' = "done"
<1>1. CASE ReaderStep
  <2>1. UNCHANGED <<scanPc, carvePc, strPc, metaPc>>
    BY <1>1 DEF ReaderStep, LoopEnds, CheckFiles, CheckStop, ReadChunk,
       ReadFails, SendJob, SendFlush, NextChunk, CloseChannels, JoinScanners,
       JoinCarvers, JoinStringers, SendSummary, Finish, ProcessExit, JoinPool,
       ReaderOnly, scanVars, carveVars, strVars, metaVars
  <2>2. QED
    BY <2>1 DEF ScannersDone, CarversDone, StringersDone
<1>2. ASSUME NEW s \in Scanners, ScanStep(s) \/ ScanPanic(s)
      PROVE  scanPc[s] # "done" /\ UNCHANGED <<carvePc, strPc, metaPc>>
  BY <1>2 DEF ScanStep, ScanRecv, ScanEnd, CountHit, SendHit, HitsSent,
     SendSpans, SendEntropy, ScanPanic, Counted, carveVars, strVars, metaVars
<1>3. ASSUME NEW c \in Carvers, CarveStep(c) \/ CarvePanic(c)
      PROVE  carvePc[c] # "done" /\ UNCHANGED <<scanPc, strPc, metaPc>>
  BY <1>3 DEF CarveStep, CarveRecv, CarveEnd, CheckLimit, CarveNothing,
     CarveFile, SendRecord, ParseSqlite, CheckTotal, CarvePanic, ParserStages,
     scanVars, strVars, metaVars
<1>4. ASSUME NEW t \in Stringers, StrStep(t) \/ StrPanic(t)
      PROVE  strPc[t] # "done" /\ UNCHANGED <<scanPc, carvePc, metaPc>>
  BY <1>4 DEF StrStep, StrRecv, StrEnd, SendArtefact, StrPanic, scanVars,
     carveVars, metaVars
<1>5. ASSUME MetaStep \/ MetaPanic
      PROVE  metaPc = "run" /\ UNCHANGED <<scanPc, carvePc, strPc>>
  BY <1>5 DEF MetaStep, MetaRecv, MetaEnd, MetaPanic, scanVars, carveVars, strVars
<1>6. ASSUME Cancel \/ UNCHANGED vars
      PROVE  UNCHANGED <<scanPc, carvePc, strPc, metaPc>>
  BY <1>6 DEF Cancel, vars, scanVars, carveVars, strVars, metaVars
<1>7. QED
  BY <1>1, <1>2, <1>3, <1>4, <1>5, <1>6
     DEF Next, Panic, Terminated, ScannersDone, CarversDone, StringersDone

(* When the pools have ended, only the reader and the metadata thread are  *)
(* left.                                                                   *)
LEMMA PoolsIdle ==
    ASSUME ScannersDone, CarversDone, StringersDone, [Next]_vars
    PROVE  ReaderStep \/ MetaRecv \/ MetaEnd \/ MetaPanic \/ Cancel
           \/ UNCHANGED vars
<1>1. ASSUME NEW s \in Scanners, ScanStep(s) \/ ScanPanic(s)
      PROVE  scanPc[s] # "done"
  BY <1>1 DEF ScanStep, ScanRecv, ScanEnd, CountHit, SendHit, HitsSent,
     SendSpans, SendEntropy, ScanPanic
<1>2. ASSUME NEW c \in Carvers, CarveStep(c) \/ CarvePanic(c)
      PROVE  carvePc[c] # "done"
  BY <1>2 DEF CarveStep, CarveRecv, CarveEnd, CheckLimit, CarveNothing,
     CarveFile, SendRecord, ParseSqlite, CheckTotal, CarvePanic, ParserStages
<1>3. ASSUME NEW t \in Stringers, StrStep(t) \/ StrPanic(t)
      PROVE  strPc[t] # "done"
  BY <1>3 DEF StrStep, StrRecv, StrEnd, SendArtefact, StrPanic
<1>4. QED
  BY <1>1, <1>2, <1>3
     DEF Next, Panic, MetaStep, Terminated, ScannersDone, CarversDone,
         StringersDone

(* The reader goes through the joins in order.                             *)
LEMMA JoinedNext == TypeOK /\ Joined /\ [Next]_vars => Joined'
<1> SUFFICES ASSUME TypeOK, Joined, [Next]_vars PROVE Joined'
  OBVIOUS
<1>1. CASE UNCHANGED rpc
  BY <1>1, DoneStays DEF Joined
<1>2. CASE ReaderStep
  <2>1. \/ rpc' \notin {"joinCarve", "joinString", "summary", "joinMeta", "done"}
        \/ rpc = "joinScan" /\ ScannersDone /\ rpc' = "joinCarve"
        \/ rpc = "joinCarve" /\ CarversDone /\ rpc' = "joinString"
        \/ rpc = "joinString" /\ StringersDone /\ rpc' = "summary"
        \/ rpc = "summary" /\ rpc' = "joinMeta"
        \/ rpc = "joinMeta" /\ metaPc = "done" /\ rpc' = "done"
    BY <1>2 DEF ReaderStep, LoopEnds, CheckFiles, CheckStop, ReadChunk,
       ReadFails, SendJob, SendFlush, NextChunk, CloseChannels, JoinScanners,
       JoinCarvers, JoinStringers, SendSummary, Finish, ProcessExit, JoinPool,
       TypeOK, ReaderType
  <2>2. QED
    BY <2>1, DoneStays DEF Joined
<1>3. QED
  BY <1>1, <1>2 DEF Next, ScanStep, ScanRecv, ScanEnd, CountHit, SendHit,
     HitsSent, SendSpans, SendEntropy, CarveStep, CarveRecv, CarveEnd,
     CheckLimit, CarveNothing, CarveFile, SendRecord, ParseSqlite, CheckTotal,
     StrStep, StrRecv, StrEnd, SendArtefact, MetaStep, MetaRecv, MetaEnd,
     Cancel, Panic, ScanPanic, CarvePanic, StrPanic, MetaPanic, Terminated,
     readerVars, vars

(* A run without a panic and a sink error so far was one before.           *)
LEMMA ErrorsGrow ==
    ASSUME TypeOK, HitInv, [Next]_vars, Clean'
    PROVE  Clean /\ UNCHANGED <<panics, metaErrors>> /\ ~MetaPanic
<1>1. ASSUME NEW c \in Carvers, CarveFile(c) \/ SendRecord(c)
      PROVE  UNCHANGED <<panics, metaErrors>>
  BY <1>1 DEF CarveFile, SendRecord, metaVars
<1>2. panics <= panics' /\ metaErrors <= metaErrors'
  BY <1>1, StepsAre
     DEF Quiet, MetaRecv, MetaPanic, PanicBudget, TypeOK, MetaType
<1>3. Clean
  BY <1>2, CleanBefore
<1>4. QED
  BY <1>3 DEF Clean, MetaPanic, PanicBudget

LEMMA MetaEndedNext ==
    ASSUME TypeOK, HitInv, MetaEnded, [Next]_vars
    PROVE  MetaEnded'
<1> SUFFICES ASSUME Clean', metaPc' = "done"
             PROVE  MetaSendersGone' /\ metaQ' = <<>> /\ flushed' = Len(log')
  BY DEF MetaEnded
<1>1. Clean /\ UNCHANGED metaErrors /\ ~MetaPanic
  BY ErrorsGrow
<1>2. CASE metaPc = "done"
  <2>1. /\ ReaderLeftMeta /\ ScannersDone /\ CarversDone /\ StringersDone
        /\ metaQ = <<>> /\ flushed = Len(log)
    BY <1>1, <1>2 DEF MetaEnded, MetaSendersGone
  <2>2. ReaderStep \/ Cancel \/ UNCHANGED vars
    BY <1>1, <1>2, <2>1, PoolsIdle DEF MetaRecv, MetaEnd
  <2>3. ReaderLeftMeta' /\ UNCHANGED <<metaQ, flushed, log>>
    BY <2>1, <2>2 DEF ReaderLeftMeta, ReaderStep, LoopEnds, CheckFiles,
       CheckStop, ReadChunk, ReadFails, SendJob, SendFlush, NextChunk,
       CloseChannels, JoinScanners, JoinCarvers, JoinStringers, SendSummary,
       Finish, ProcessExit, JoinPool, ReaderOnly, Cancel, metaVars, readerVars,
       vars
  <2>4. QED
    BY <2>1, <2>3, DoneStays DEF MetaSendersGone
<1>3. CASE metaPc # "done"
  <2>1. ASSUME NEW c \in Carvers, CarveStep(c) \/ CarvePanic(c)
        PROVE  UNCHANGED metaPc
    BY <2>1 DEF CarveStep, CarveRecv, CarveEnd, CheckLimit, CarveNothing,
       CarveFile, SendRecord, ParseSqlite, CheckTotal, CarvePanic, metaVars
  <2>2. ASSUME NEW s \in Scanners, ScanStep(s) \/ ScanPanic(s)
        PROVE  UNCHANGED metaPc
    BY <2>2 DEF ScanStep, ScanRecv, ScanEnd, CountHit, SendHit, HitsSent,
       SendSpans, SendEntropy, ScanPanic, metaVars
  <2>3. ASSUME NEW t \in Stringers, StrStep(t) \/ StrPanic(t)
        PROVE  UNCHANGED metaPc
    BY <2>3 DEF StrStep, StrRecv, StrEnd, SendArtefact, StrPanic, metaVars
  <2>4. ASSUME ReaderStep \/ Cancel \/ MetaRecv \/ UNCHANGED vars
        PROVE  UNCHANGED metaPc
    BY <2>4 DEF ReaderStep, LoopEnds, CheckFiles, CheckStop, ReadChunk,
       ReadFails, SendJob, SendFlush, NextChunk, CloseChannels, JoinScanners,
       JoinCarvers, JoinStringers, SendSummary, Finish, ProcessExit, JoinPool,
       ReaderOnly, Cancel, MetaRecv, metaVars, vars
  <2>5. MetaEnd
    BY <1>1, <1>3, <2>1, <2>2, <2>3, <2>4 DEF Next, Panic, MetaStep, Terminated
  <2>6. MetaSendersGone' = MetaSendersGone
    BY <2>5 DEF MetaEnd, MetaSendersGone, ReaderLeftMeta, ScannersDone,
       CarversDone, StringersDone, readerVars, scanVars, carveVars, strVars
  <2>7. QED
    BY <1>1, <2>5, <2>6 DEF MetaEnd, TypeOK, MetaType
<1>4. QED
  BY <1>2, <1>3

LEMMA SummaryNext ==
    ASSUME TypeOK, HitInv, EndInv, [Next]_vars
    PROVE  SummaryLast'
<1> DEFINE summary == Event("summary", filesCarved)
<1> SUFFICES ASSUME Clean', rpc' \in {"joinMeta", "done"}
             PROVE  IF metaQ' # <<>> THEN metaQ'[Len(metaQ')] = summary'
                    ELSE log' # <<>> /\ log'[Len(log')] = summary'
  BY DEF SummaryLast
<1>1. Clean /\ UNCHANGED metaErrors /\ ~MetaPanic
  BY ErrorsGrow
<1>2. /\ metaQ \in Seq(Events) /\ log \in Seq(Events) /\ metaErrors \in Nat
      /\ filesCarved \in Nat
  BY DEF TypeOK, MetaType, MetaQType
<1>3. summary \in Events /\ summary.kind = "summary"
  BY <1>2 DEF Event, Events, Kinds
<1>4. CASE rpc \in {"joinMeta", "done"}
  <2>1. ScannersDone /\ CarversDone /\ StringersDone
    BY <1>4 DEF EndInv, Joined
  <2>2. UNCHANGED <<filesCarved, metaQ, log>> \/ MetaRecv
    BY <1>1, <1>4, <2>1, PoolsIdle DEF ReaderStep, LoopEnds, CheckFiles,
       CheckStop, ReadChunk, ReadFails, SendJob, SendFlush, NextChunk,
       CloseChannels, JoinScanners, JoinCarvers, JoinStringers, SendSummary,
       Finish, ProcessExit, JoinPool, ReaderOnly, MetaEnd, Cancel, metaVars, vars
  <2>3. IF metaQ # <<>> THEN metaQ[Len(metaQ)] = summary
        ELSE log # <<>> /\ log[Len(log)] = summary
    BY <1>1, <1>4 DEF EndInv, SummaryLast
  <2>4. CASE UNCHANGED <<filesCarved, metaQ, log>>
    BY <2>3, <2>4 DEF Event
  <2>5. CASE MetaRecv
    <3>1. /\ metaQ # <<>> /\ metaQ' = Tail(metaQ) /\ UNCHANGED filesCarved
          /\ Head(metaQ).kind # "flush" => log' = Append(log, Head(metaQ))
      BY <1>1, <1>2, <2>5 DEF MetaRecv
    <3>2. /\ Len(metaQ) \in Nat \ {0} /\ Head(metaQ) = metaQ[1]
          /\ Len(metaQ') = Len(metaQ) - 1
          /\ \A i \in 1 .. Len(metaQ) - 1 : metaQ'[i] = metaQ[i + 1]
          /\ metaQ' \in Seq(Events)
      BY <1>2, <3>1, HeadTailProperties, LenProperties, EmptySeq
    <3>3. metaQ[Len(metaQ)] = summary /\ summary' = summary
      BY <2>3, <3>1 DEF Event
    <3>4. CASE Len(metaQ) = 1
      <4>1. metaQ' = <<>> /\ log' = Append(log, summary)
        BY <1>3, <3>1, <3>2, <3>3, <3>4, EmptySeq
      <4>2. log' # <<>> /\ log'[Len(log')] = summary
        BY <1>2, <1>3, <4>1, AppendProperties, EmptySeq
      <4>3. QED
        BY <3>3, <4>1, <4>2
    <3>5. CASE Len(metaQ) # 1
      <4>1. metaQ' # <<>> /\ metaQ'[Len(metaQ')] = metaQ[Len(metaQ)]
        BY <3>2, <3>5, EmptySeq
      <4>2. QED
        BY <3>3, <4>1
    <3>6. QED
      BY <3>4, <3>5
  <2>6. QED
    BY <2>2, <2>4, <2>5
<1>5. CASE rpc \notin {"joinMeta", "done"}
  <2>1. SendSummary
    BY <1>5 DEF Next, ReaderStep, LoopEnds, CheckFiles, CheckStop, ReadChunk,
       ReadFails, SendJob, SendFlush, NextChunk, CloseChannels, JoinScanners,
       JoinCarvers, JoinStringers, Finish, ProcessExit, JoinPool, ScanStep,
       ScanRecv, ScanEnd, CountHit, SendHit, HitsSent, SendSpans, SendEntropy,
       CarveStep, CarveRecv, CarveEnd, CheckLimit, CarveNothing, CarveFile,
       SendRecord, ParseSqlite, CheckTotal, StrStep, StrRecv, StrEnd,
       SendArtefact, MetaStep, MetaRecv, MetaEnd, Cancel, Panic, ScanPanic,
       CarvePanic, StrPanic, MetaPanic, Terminated, readerVars, vars, TypeOK,
       ReaderType
  <2>2. metaPc # "done"
    BY <1>1, <1>5, <2>1
       DEF EndInv, MetaEnded, MetaSendersGone, ReaderLeftMeta, SendSummary
  <2>3. metaQ' = Append(metaQ, summary) /\ UNCHANGED filesCarved
    BY <2>1, <2>2 DEF SendSummary, SendMeta, MetaClosed
  <2>4. metaQ' # <<>> /\ metaQ'[Len(metaQ')] = summary
    BY <1>2, <1>3, <2>3, AppendProperties, EmptySeq
  <2>5. QED
    BY <2>3, <2>4 DEF Event
<1>6. QED
  BY <1>4, <1>5

LEMMA EndNext == TypeOK /\ HitInv /\ EndInv /\ [Next]_vars => EndInv'
BY JoinedNext, MetaEndedNext, SummaryNext DEF EndInv

LEMMA EndInit == Init => EndInv
BY DEF Init, EndInv, Joined, MetaEnded, SummaryLast

LEMMA RecordsCorrect == Spec => [](RecordInv /\ EndInv)
<1>1. EndInv => MetaEnded
  BY DEF EndInv
<1>2. TypeOK /\ HitInv /\ RecordInv /\ EndInv /\ [Next]_vars
         => (RecordInv /\ EndInv)'
  BY <1>1, RecordNext, EndNext
<1>3. Init => RecordInv /\ EndInv
  BY RecordInit, EndInit
<1>4. QED
  BY <1>2, <1>3, TypeCorrect, HitsInOnePlace, PTL DEF Spec

(* A run that ends without a panic and without a sink error has recorded   *)
(* every carved file, has counted them right, and its summary is the last  *)
(* record and is flushed.                                                  *)
THEOREM RunIsRecorded == Spec => []RunRecorded
<1>1. TypeOK /\ RecordInv /\ EndInv => RunRecorded
  <2> SUFFICES ASSUME TypeOK, RecordInv, EndInv, rpc = "done", Clean
               PROVE  /\ log # <<>> /\ flushed = Len(log)
                      /\ log[Len(log)] = Event("summary", filesCarved)
                      /\ \A h \in Sigs : fate[h] = "file" <=> Logged(h)
                      /\ filesCarved = Cardinality(FileSet)
    BY DEF RunRecorded, Clean, Logged, FileSet
  <2>1. CarversDone /\ metaPc = "done"
    BY DEF EndInv, Joined
  <2>2. metaQ = <<>> /\ flushed = Len(log)
    BY <2>1 DEF EndInv, MetaEnded
  <2>3. log # <<>> /\ log[Len(log)] = Event("summary", filesCarved)
    BY <2>2 DEF EndInv, SummaryLast
  <2>4. ASSUME NEW h \in Sigs, fate[h] = "file" PROVE Logged(h)
    <3>1. ~RecordQueued(h) /\ \A c \in Carvers : ~AtRecord(c)
      BY <2>1, <2>2 DEF RecordQueued, CarversDone, AtRecord
    <3>2. QED
      BY <2>4, <3>1 DEF RecordInv, RecordKept
  <2>5. QED
    BY <2>2, <2>3, <2>4 DEF RecordInv, LogsOne, FilesCounted
<1>2. QED
  BY <1>1, TypeCorrect, RecordsCorrect, PTL

-----------------------------------------------------------------------------
(* The run implements the ledger of hits.                                  *)

(* The four things that can happen to the fates, all before the last join. *)
Found(h) == fate[h] = "unseen" /\ fate' = [fate EXCEPT ![h] = "found"]
SettledAs(h, f) == fate[h] = "found" /\ fate' = [fate EXCEPT ![h] = f]
GivenUp(lost) ==
    /\ \A h \in lost : fate[h] = "found"
    /\ fate' = [h \in Sigs |-> IF h \in lost THEN "dropped" ELSE fate[h]]
FateMoves ==
    /\ rpc # "done" /\ UNCHANGED <<rpc, log>>
    /\ \/ \E h \in Sigs : Found(h)
       \/ \E h \in Sigs, f \in Settled : SettledAs(h, f)
       \/ \E lost \in SUBSET Sigs : GivenUp(lost)

LEMMA CarverGivesUp ==
    ASSUME TypeOK, HitInv, NEW c \in Carvers, NEW lost, CarverLeaves(c, lost),
           lost = {} \/ (lost = {carveHit[c]} /\ Holding(c))
    PROVE  \E gone \in SUBSET Sigs : GivenUp(gone)
<1> DEFINE gone == lost \cup IF \A d \in Carvers \ {c} : carvePc[d] = "done"
                             THEN QueuedHits ELSE {}
<1>1. QueuedHits \subseteq Sigs
  BY LenProperties, ElementOfSeq DEF QueuedHits, TypeOK, HitQType
<1>2. lost \subseteq Sigs /\ \A h \in lost : fate[h] = "found"
  BY DEF HitInv, CarverHits, Holding, TypeOK, CarveType
<1>3. \A h \in QueuedHits : fate[h] = "found"
  BY DEF HitInv, QueueHits
<1>4. fate' = [h \in Sigs |-> IF h \in gone THEN "dropped" ELSE fate[h]]
  BY DEF CarverLeaves
<1>5. gone \in SUBSET Sigs /\ \A h \in gone : fate[h] = "found"
  BY <1>1, <1>2, <1>3
<1> HIDE DEF gone
<1>6. QED
  BY <1>4, <1>5 DEF GivenUp

LEMMA FateSteps ==
    ASSUME TypeOK, HitInv, Joined, [Next]_vars
    PROVE  UNCHANGED fate \/ FateMoves
<1>1. fate \in [Sigs -> Fates]
  BY DEF TypeOK, FateType
<1>2. CASE ReaderStep \/ MetaStep \/ MetaPanic \/ Cancel \/ UNCHANGED vars
  BY <1>2 DEF ReaderStep, LoopEnds, CheckFiles, CheckStop, ReadChunk,
     ReadFails, SendJob, SendFlush, NextChunk, CloseChannels, JoinScanners,
     JoinCarvers, JoinStringers, SendSummary, Finish, ProcessExit, JoinPool,
     ReaderOnly, MetaStep, MetaRecv, MetaEnd, MetaPanic, Cancel, vars
<1>3. ASSUME NEW t \in Stringers, StrStep(t) \/ StrPanic(t)
      PROVE  UNCHANGED fate
  BY <1>3 DEF StrStep, StrRecv, StrEnd, SendArtefact, StrPanic
<1>4. ASSUME NEW s \in Scanners, ScanStep(s) \/ ScanPanic(s)
      PROVE  UNCHANGED fate \/ FateMoves
  <2>1. scanPc[s] # "done" /\ UNCHANGED <<rpc, log>>
    BY <1>4 DEF ScanStep, ScanRecv, ScanEnd, CountHit, SendHit, HitsSent,
       SendSpans, SendEntropy, ScanPanic, readerVars, metaVars
  <2>2. rpc # "done"
    BY <2>1 DEF Joined, ScannersDone
  <2>3. scanTodo[s] \subseteq Sigs
    BY DEF TypeOK, ScanType
  <2>4. CASE CountHit(s)
    <3>1. PICK h \in scanTodo[s] : fate' = [fate EXCEPT ![h] = "found"]
      BY <2>4 DEF CountHit
    <3>2. fate[h] = "unseen"
      BY <2>4 DEF CountHit, Counted, HitInv, ScannerHits
    <3>3. QED
      BY <2>1, <2>2, <2>3, <3>1, <3>2 DEF FateMoves, Found
  <2>5. CASE SendHit(s) /\ ~UNCHANGED fate
    <3>1. PICK h \in Counted(s) : fate' = [fate EXCEPT ![h] = "dropped"]
      BY <2>5 DEF SendHit
    <3>2. h \in Sigs /\ fate[h] = "found"
      BY <2>3 DEF Counted
    <3>3. fate' = [g \in Sigs |-> IF g \in {h} THEN "dropped" ELSE fate[g]]
      BY <1>1, <3>1
    <3>4. GivenUp({h}) /\ {h} \in SUBSET Sigs
      BY <3>2, <3>3 DEF GivenUp
    <3>5. QED
      BY <2>1, <2>2, <3>4 DEF FateMoves
  <2>6. QED
    BY <1>4, <2>4, <2>5 DEF ScanStep, ScanRecv, ScanEnd, HitsSent, SendSpans,
       SendEntropy, ScanPanic
<1>5. ASSUME NEW c \in Carvers, CarveStep(c) \/ CarvePanic(c)
      PROVE  UNCHANGED fate \/ FateMoves
  <2>1. carvePc[c] # "done" /\ UNCHANGED <<rpc, log>>
    BY <1>5 DEF CarveStep, CarveRecv, CarveEnd, CheckLimit, CarveNothing,
       CarveFile, SendRecord, ParseSqlite, CheckTotal, CarvePanic,
       ParserStages, readerVars, metaVars
  <2>2. rpc # "done"
    BY <2>1 DEF Joined, CarversDone
  <2>3. CASE \E f \in Settled :
                /\ carvePc[c] = "carve"
                /\ fate' = [fate EXCEPT ![carveHit[c]] = f]
    <3>1. carveHit[c] \in Sigs /\ fate[carveHit[c]] = "found"
      BY <2>3 DEF HitInv, CarverHits, Holding, TypeOK, CarveType
    <3>2. QED
      BY <2>1, <2>2, <2>3, <3>1 DEF FateMoves, SettledAs
  <2>4. CASE \/ CarverLeaves(c, {carveHit[c]}) /\ Holding(c)
             \/ CarverLeaves(c, {})
    <3>1. \E gone \in SUBSET Sigs : GivenUp(gone)
      <4>1. CASE CarverLeaves(c, {carveHit[c]}) /\ Holding(c)
        BY <4>1, CarverGivesUp
      <4>2. CASE CarverLeaves(c, {})
        BY <4>2, CarverGivesUp
      <4>3. QED
        BY <2>4, <4>1, <4>2
    <3>2. QED
      BY <2>1, <2>2, <3>1 DEF FateMoves
  <2>5. QED
    BY <1>5, <2>3, <2>4 DEF CarveStep, CarveRecv, CarveEnd, CheckLimit,
       CarveNothing, CarveFile, SendRecord, ParseSqlite, CheckTotal,
       CarvePanic, Holding, Settled
<1>6. QED
  BY <1>2, <1>3, <1>4, <1>5 DEF Next, Panic, Terminated

(* The records of the log are counted one by one.                          *)
LEMMA RecordsUnchanged == UNCHANGED log => UNCHANGED FileRecords
BY DEF FileRecords, Event

LEMMA RecordCounted ==
    ASSUME NEW s \in Seq(Events), NEW e \in Events, NEW h \in Sigs
    PROVE  LET At(q) == {i \in DOMAIN q : q[i] = Event("file", h)}
           IN  /\ e # Event("file", h) => At(Append(s, e)) = At(s)
               /\ e = Event("file", h) => At(Append(s, e)) = At(s) \cup {Len(s) + 1}
<1>1. /\ Len(s) \in Nat /\ DOMAIN s = 1 .. Len(s)
      /\ DOMAIN Append(s, e) = 1 .. Len(s) + 1
      /\ \A i \in 1 .. Len(s) : Append(s, e)[i] = s[i]
      /\ Append(s, e)[Len(s) + 1] = e
  BY AppendProperties, LenProperties
<1>2. DOMAIN Append(s, e) = DOMAIN s \cup {Len(s) + 1}
  BY <1>1
<1>3. QED
  BY <1>1, <1>2

LEMMA LogSteps ==
    ASSUME TypeOK, HitInv, RecordInv, Joined, [Next]_vars
    PROVE  \/ UNCHANGED log
           \/ /\ rpc # "done" /\ UNCHANGED <<rpc, fate>>
              /\ metaQ # <<>> /\ Head(metaQ) \in Events
              /\ log' = Append(log, Head(metaQ))
<1>1. ASSUME NEW c \in Carvers, CarveFile(c) \/ SendRecord(c)
      PROVE  UNCHANGED log
  BY <1>1 DEF CarveFile, SendRecord, metaVars
<1>2. CASE MetaRecv
  <2>1. metaPc = "run" /\ metaQ # <<>> /\ UNCHANGED <<rpc, fate>>
        /\ (UNCHANGED log \/ log' = Append(log, Head(metaQ)))
    BY <1>2 DEF MetaRecv, readerVars
  <2>2. rpc # "done"
    BY <2>1 DEF Joined
  <2>3. Head(metaQ) \in Events
    BY <2>1, HeadTailProperties DEF TypeOK, MetaQType
  <2>4. QED
    BY <2>1, <2>2, <2>3
<1>3. QED
  BY <1>1, <1>2, StepsAre DEF Quiet, MetaPanic

(* A step of the run settles, drops or records in the ledger, closes it,   *)
(* or leaves it as it is.                                                  *)
LEMMA LedgerRecords ==
    ASSUME TypeOK, HitInv, RecordInv, rpc # "done", UNCHANGED <<rpc, fate>>,
           metaQ # <<>>, Head(metaQ) \in Events, log' = Append(log, Head(metaQ))
    PROVE  UNCHANGED FileRecords \/ \E h \in Sigs : Ledger!Record(h)
<1> DEFINE e == Head(metaQ)
           At(q, h) == {i \in DOMAIN q : q[i] = Event("file", h)}
<1>1. log \in Seq(Events)
  BY DEF TypeOK, MetaType
<1>2. /\ FileRecords = [h \in Sigs |-> Cardinality(At(log, h))]
      /\ FileRecords' = [h \in Sigs |-> Cardinality(At(log', h))]
  BY DEF FileRecords, Event
<1>3. \A h \in Sigs :
        /\ e # Event("file", h) => At(log', h) = At(log, h)
        /\ e = Event("file", h) => At(log', h) = At(log, h) \cup {Len(log) + 1}
  BY <1>1, RecordCounted
<1>4. CASE \A h \in Sigs : e # Event("file", h)
  BY <1>2, <1>3, <1>4
<1>5. ASSUME NEW h \in Sigs, e = Event("file", h)
      PROVE  Ledger!Record(h)
  <2>1. RecordQueued(h)
    <3>1. 1 \in DOMAIN metaQ /\ metaQ[1] = e
      BY HeadTailProperties, LenProperties, EmptySeq DEF TypeOK, MetaQType
    <3>2. QED
      BY <1>5, <3>1 DEF RecordQueued
  <2>2. fate[h] = "file" /\ ~Logged(h)
    BY <2>1 DEF RecordInv, QueuesOne
  <2>3. At(log, h) = {} /\ At(log', h) = {Len(log) + 1}
    BY <1>3, <1>5, <2>2 DEF Logged
  <2>4. FileRecords[h] = 0 /\ FileRecords'[h] = 1
    BY <1>2, <2>3, FS_EmptySet, FS_Singleton
  <2>5. ASSUME NEW g \in Sigs, g # h PROVE FileRecords'[g] = FileRecords[g]
    <3>1. e # Event("file", g)
      BY <1>5, <2>5 DEF Event
    <3>2. QED
      BY <1>2, <1>3, <3>1
  <2>6. FileRecords' = [FileRecords EXCEPT ![h] = 1]
    BY <1>2, <2>4, <2>5
  <2>7. QED
    BY <2>2, <2>4, <2>6 DEF Ledger!Record
<1>6. QED
  BY <1>4, <1>5

LEMMA LedgerSteps ==
    ASSUME TypeOK, HitInv, RecordInv, Joined, [Next]_vars
    PROVE  [Ledger!Next]_(Ledger!vars)
<1>1. CASE FateMoves
  <2>1. UNCHANGED FileRecords /\ rpc # "done" /\ UNCHANGED rpc
    BY <1>1, RecordsUnchanged DEF FateMoves
  <2>2. ASSUME NEW h \in Sigs, Found(h) PROVE Ledger!Find(h)
    BY <2>1, <2>2 DEF Found, Ledger!Find
  <2>3. ASSUME NEW h \in Sigs, NEW f \in Settled, SettledAs(h, f)
        PROVE  Ledger!Settle(h)
    BY <2>1, <2>3 DEF SettledAs, Ledger!Settle
  <2>4. ASSUME NEW lost \in SUBSET Sigs, GivenUp(lost) PROVE Ledger!Drop(lost)
    BY <2>1, <2>4 DEF GivenUp, Ledger!Drop
  <2>5. QED
    BY <1>1, <2>2, <2>3, <2>4 DEF FateMoves, Ledger!Next
<1>2. CASE UNCHANGED fate /\ ~UNCHANGED log
  <2>1. /\ rpc # "done" /\ UNCHANGED rpc /\ metaQ # <<>> /\ Head(metaQ) \in Events
        /\ log' = Append(log, Head(metaQ))
    BY <1>2, LogSteps
  <2>2. UNCHANGED FileRecords \/ \E h \in Sigs : Ledger!Record(h)
    BY <1>2, <2>1, LedgerRecords
  <2>3. QED
    BY <1>2, <2>1, <2>2 DEF Ledger!Next, Ledger!vars
<1>3. CASE UNCHANGED <<fate, log>>
  <2>1. UNCHANGED FileRecords
    BY <1>3, RecordsUnchanged
  <2>2. CASE (rpc' = "done") = (rpc = "done")
    BY <1>3, <2>1, <2>2 DEF Ledger!vars
  <2>3. CASE rpc # "done" /\ rpc' = "done"
    <3>1. Finish
      BY <2>3 DEF Next, ReaderStep, LoopEnds, CheckFiles, CheckStop, ReadChunk,
         ReadFails, SendJob, SendFlush, NextChunk, CloseChannels, JoinScanners,
         JoinCarvers, JoinStringers, SendSummary, ProcessExit, JoinPool,
         ScanStep, ScanRecv, ScanEnd, CountHit, SendHit, HitsSent, SendSpans,
         SendEntropy, CarveStep, CarveRecv, CarveEnd, CheckLimit, CarveNothing,
         CarveFile, SendRecord, ParseSqlite, CheckTotal, StrStep, StrRecv,
         StrEnd, SendArtefact, MetaStep, MetaRecv, MetaEnd, Cancel, Panic,
         ScanPanic, CarvePanic, StrPanic, MetaPanic, Terminated, readerVars, vars
    <3>2. rpc = "joinMeta"
      BY <3>1 DEF Finish
    <3>3. ScannersDone /\ CarversDone
      BY <3>2 DEF Joined
    <3>4. \A h \in Sigs : ~Placed(h)
      BY <3>3 DEF HitInv, NoneLost, ScannerHits, Placed, Holding, QueuedHits,
         ScannersDone, CarversDone
    <3>5. \A h \in Sigs : fate[h] # "found"
      BY <3>4 DEF HitInv, NoneLost
    <3>6. QED
      BY <1>3, <2>1, <2>3, <3>5 DEF Ledger!Next, Ledger!Close
  <2>4. CASE rpc = "done" /\ rpc' # "done"
    BY <2>4 DEF Next, ReaderStep, LoopEnds, CheckFiles, CheckStop, ReadChunk,
       ReadFails, SendJob, SendFlush, NextChunk, CloseChannels, JoinScanners,
       JoinCarvers, JoinStringers, SendSummary, Finish, ProcessExit, JoinPool,
       ScanStep, ScanRecv, ScanEnd, CountHit, SendHit, HitsSent, SendSpans,
       SendEntropy, CarveStep, CarveRecv, CarveEnd, CheckLimit, CarveNothing,
       CarveFile, SendRecord, ParseSqlite, CheckTotal, StrStep, StrRecv,
       StrEnd, SendArtefact, MetaStep, MetaRecv, MetaEnd, Cancel, Panic,
       ScanPanic, CarvePanic, StrPanic, MetaPanic, Terminated, readerVars, vars
  <2>5. QED
    BY <2>2, <2>3, <2>4
<1>4. QED
  BY <1>1, <1>2, <1>3, FateSteps

LEMMA LedgerInit == Init => Ledger!Init
<1> SUFFICES ASSUME Init PROVE Ledger!Init
  OBVIOUS
<1>1. log = <<>> /\ rpc = "loop" /\ fate = [h \in Sigs |-> "unseen"]
  BY DEF Init
<1>2. \A h \in Sigs : {i \in DOMAIN log : log[i] = Event("file", h)} = {}
  BY <1>1
<1>3. FileRecords = [h \in Sigs |-> 0]
  BY <1>2, FS_EmptySet DEF FileRecords
<1>4. QED
  BY <1>1, <1>3 DEF Ledger!Init

(* The run, with all its threads and channels, does to its hits only what  *)
(* the ledger allows: each is found once, settled or dropped once and for  *)
(* good, recorded once at most and only when carved, and none is open when *)
(* the run is over.                                                        *)
THEOREM LedgerImplemented == Spec => ImplementsLedger
<1>1. EndInv => Joined
  BY DEF EndInv
<1>2. Spec => [](TypeOK /\ HitInv /\ RecordInv /\ Joined)
  BY <1>1, TypeCorrect, HitsInOnePlace, RecordsCorrect, PTL
<1>3. QED
  BY <1>2, LedgerInit, LedgerSteps, PTL DEF Spec, ImplementsLedger, Ledger!Spec

-----------------------------------------------------------------------------
(* What a run may claim to have dealt with: as long as nothing panicked,   *)
(* the file limit was not reached and the byte limit cut no read short,    *)
(* every signature before the offset the run reports has been handed to    *)
(* its handler.                                                            *)
(* A read that the byte limit cuts reads up to the limit.                  *)
NotCut == Scanned < MaxBytes
WholeScan == ~GaveUp /\ NotCut

First == FirstChunk(ResumeOffset, EvidenceLen, ChunkSize)
Full(k) == ChunkLength(k, EvidenceLen, ChunkSize, Overlap)

(* The reader: the chunks below Dealt are behind it, and it leaves its     *)
(* loop for a limit or because no chunk is left.                           *)
Dealt == IF rpc \in {"send", "flush", "next"} THEN cursor + 1 ELSE cursor
PastLoop == rpc \in {"close", "joinScan", "joinCarve", "joinString", "summary",
                     "joinMeta", "done"}
ReaderAt ==
    /\ First <= cursor
    /\ rpc \notin {"failed", "exited"} => nextOffset <= Dealt * ChunkSize
    /\ PastLoop => stop # {} \/ cursor \notin Ids

FullJobs ==
    NotCut => /\ rpc = "send" => job.len = Full(cursor)
              /\ \A i \in DOMAIN scanQ : scanQ[i].len = Full(scanQ[i].chunk)

(* Without a panic the scanners go on until the reader has closed the      *)
(* channel and it is empty, and the stringers outlive them.                *)
ScannerGone ==
    panics = 0 => \A s \in Scanners :
        /\ scanPc[s] = "done" => ReaderClosed /\ scanQ = <<>>
        /\ scanPc[s] = "strings" => StringScan
StringerGone ==
    panics = 0 /\ StringScan =>
        \A t \in Stringers : strPc[t] = "done" => ScannersDone

(* A signature of a chunk that was sent has been counted, or is about to.  *)
InHand(h) ==
    \/ fate[h] # "unseen"
    \/ \E i \in DOMAIN scanQ : scanQ[i].chunk = Owner(h)
    \/ \E s \in Scanners : h \in scanTodo[s]
SentIsSeen ==
    WholeScan => \A h \in Sigs :
        First <= Owner(h) /\ Owner(h) < Unsent => InHand(h)

CoverInv == ReaderAt /\ FullJobs /\ ScannerGone /\ StringerGone /\ SentIsSeen

-----------------------------------------------------------------------------
LEMMA SizesAre ==
    ASSUME Geometry
    PROVE  /\ EvidenceLen \in Nat /\ EvidenceLen \in 0 .. MaxU64
           /\ ChunkSize \in Nat \ {0} /\ ChunkSize \in 1 .. MaxU64
           /\ Overlap \in Nat /\ MaxU64 \in Nat /\ MaxBytes \in Nat
           /\ ResumeOffset \in Nat /\ PatLen \in Nat \ {0}
           /\ Sigs \subseteq Nat
           /\ \A k \in Ids : k \in Nat /\ Start(k) = k * ChunkSize
                             /\ k * ChunkSize < EvidenceLen
<1>1. /\ EvidenceLen \in Nat /\ EvidenceLen \in 0 .. MaxU64
      /\ ChunkSize \in Nat \ {0} /\ ChunkSize \in 1 .. MaxU64
      /\ Overlap \in Nat /\ MaxU64 \in Nat /\ MaxBytes \in Nat
      /\ ResumeOffset \in Nat /\ PatLen \in Nat \ {0} /\ Sigs \subseteq Nat
  BY GeometryAssumption, MaxU64Assumption, LimitAssumption, ContentAssumption
     DEF Geometry
<1>2. QED
  BY <1>1, ChunkIdsAre DEF Ids, Start

(* The chunks below the resume offset are skipped, and no other.           *)
LEMMA FirstIs ==
    ASSUME Geometry
    PROVE  First \in Nat /\ First * ChunkSize = ResumeOffset
<1>1. PICK m \in Nat : ResumeOffset = m * ChunkSize
  BY DEF Geometry
<1>2. m = 0 \/ m * ChunkSize < EvidenceLen
  <2>1. m <= m * ChunkSize
    BY SizesAre, ProductAtLeast
  <2>2. QED
    BY <1>1, <2>1, GeometryAssumption
<1>3. First = m
  BY <1>1, <1>2, SizesAre, FirstChunkAt DEF First
<1>4. QED
  BY <1>1, <1>3

(* A read that leaves the byte limit unmet has returned all of the chunk.  *)
LEMMA ReadIsWhole ==
    ASSUME Geometry, TypeOK, rpc = "ready", StopReasons = {}, NEW n \in ReadLens
    PROVE  n \in Nat \ {0} /\ (Scanned + n < MaxBytes => n = Full(cursor))
<1>1. cursor \in Ids /\ bytesScanned \in Nat
  BY DEF TypeOK, ReaderType
<1>2. Start(cursor) \in Nat /\ Start(cursor) < EvidenceLen
  BY <1>1, SizesAre, ProductStep
<1>3. Scanned \in Nat /\ Scanned < MaxBytes
  <2>1. Scanned \in Nat
    BY <1>1, SizesAre DEF Scanned
  <2>2. ~(Scanned >= MaxBytes)
    <3>1. CASE cancel
      BY <3>1 DEF StopReasons
    <3>2. CASE chunksSeen + ChunksBefore >= MaxChunks
      BY <3>2 DEF StopReasons
    <3>3. QED
      BY <3>1, <3>2 DEF StopReasons
  <2>3. QED
    BY <2>1, <2>2, SizesAre
<1>4. Full(cursor) \in Nat \ {0}
  BY <1>2, SizesAre DEF Full, ChunkLength, Start, SatAdd, Min2
<1>5. n = Min2(MaxBytes - Scanned, Full(cursor))
  BY DEF Geometry, ReadLens, Wanted, Full
<1>6. QED
  BY <1>3, <1>4, <1>5, SizesAre DEF Min2

-----------------------------------------------------------------------------
(* Only the reader moves the reader.                                       *)
LEMMA ReaderAlone ==
    ASSUME [Next]_vars, ~ReaderStep
    PROVE  UNCHANGED readerVars
BY DEF Next, ScanStep, ScanRecv, ScanEnd, CountHit, SendHit, HitsSent,
   SendSpans, SendEntropy, CarveStep, CarveRecv, CarveEnd, CheckLimit,
   CarveNothing, CarveFile, SendRecord, ParseSqlite, CheckTotal, StrStep,
   StrRecv, StrEnd, SendArtefact, MetaStep, MetaRecv, MetaEnd, Cancel, Panic,
   ScanPanic, CarvePanic, StrPanic, MetaPanic, Terminated, vars

(* The jobs come from the reader and go to the scanners.                   *)
LEMMA JobsMove ==
    ASSUME [Next]_vars, ~SendJob, \A s \in Scanners : ~ScanRecv(s)
    PROVE  UNCHANGED scanQ
BY DEF Next, ReaderStep, LoopEnds, CheckFiles, CheckStop, ReadChunk, ReadFails,
   SendFlush, NextChunk, CloseChannels, JoinScanners, JoinCarvers,
   JoinStringers, SendSummary, Finish, ProcessExit, JoinPool, ReaderOnly,
   ScanStep, ScanEnd, CountHit, SendHit, HitsSent, SendSpans, SendEntropy,
   CarveStep, CarveRecv, CarveEnd, CheckLimit, CarveNothing, CarveFile,
   SendRecord, ParseSqlite, CheckTotal, StrStep, StrRecv, StrEnd, SendArtefact,
   MetaStep, MetaRecv, MetaEnd, Cancel, Panic, ScanPanic, CarvePanic, StrPanic,
   MetaPanic, Terminated, vars

(* The steps of the reader, as far as its position is concerned.           *)
LEMMA ReaderMoves ==
    ASSUME Geometry, TypeOK, ReaderStep
    PROVE  \/ /\ UNCHANGED <<cursor, bytesScanned, nextOffset>>
              /\ rpc' = "failed" \/ (Dealt' = Dealt /\ Unsent' = Unsent)
              /\ rpc' # "send" /\ rpc # "send"
              /\ PastLoop' => (PastLoop /\ UNCHANGED stop)
                              \/ stop' # {} \/ cursor \notin Ids
              /\ rpc' \in {"failed", "exited"} \/ rpc \notin {"failed", "exited"}
           \/ ReadChunk \/ SendJob \/ NextChunk
BY DEF ReaderStep, LoopEnds, CheckFiles, CheckStop, ReadFails, SendFlush,
   CloseChannels, JoinScanners, JoinCarvers, JoinStringers, SendSummary,
   Finish, ProcessExit, JoinPool, ReaderOnly, Dealt, Unsent, PastLoop, TypeOK,
   ReaderType

LEMMA BytesGrow ==
    ASSUME Geometry, TypeOK, [Next]_vars
    PROVE  bytesScanned <= bytesScanned' /\ (NotCut' => NotCut)
<1>1. bytesScanned \in Nat
  BY DEF TypeOK, ReaderType
<1>2. CASE ReadChunk
  <2>1. \A n \in ReadLens : n \in Nat
    BY <1>2, ReadIsWhole DEF ReadChunk
  <2>2. bytesScanned <= bytesScanned' /\ bytesScanned' \in Nat
    BY <1>1, <1>2, <2>1 DEF ReadChunk
  <2>3. QED
    BY <1>1, <2>2, SizesAre DEF NotCut, Scanned
<1>3. CASE ReaderStep /\ ~ReadChunk
  <2>1. UNCHANGED bytesScanned
    BY <1>3, ReaderMoves DEF SendJob, NextChunk
  <2>2. QED
    BY <1>1, <2>1 DEF NotCut, Scanned
<1>4. CASE ~ReaderStep
  <2>1. UNCHANGED bytesScanned
    BY <1>4, ReaderAlone DEF readerVars
  <2>2. QED
    BY <1>1, <2>1 DEF NotCut, Scanned
<1>5. QED
  BY <1>2, <1>3, <1>4

LEMMA ReaderAtNext ==
    ASSUME Geometry, TypeOK, ReaderAt, [Next]_vars
    PROVE  ReaderAt'
<1>1. cursor \in Nat /\ First \in Nat /\ First' = First /\ Ids' = Ids
  BY FirstIs DEF TypeOK, ReaderType, First, Ids
<1>2. CASE ReadChunk
  <2>1. PICK n \in ReadLens :
           /\ n # 0 => /\ nextOffset' = SatAdd(Start(cursor), ChunkSize)
                       /\ rpc' = "send"
           /\ UNCHANGED cursor
    BY <1>2 DEF ReadChunk
  <2>2. n # 0
    BY <1>2, ReadIsWhole DEF ReadChunk
  <2>3. cursor \in Ids
    BY <1>2 DEF ReadChunk, TypeOK, ReaderType
  <2>4. nextOffset' <= cursor * ChunkSize + ChunkSize
    BY <2>1, <2>2, <2>3, SizesAre, ProductStep DEF SatAdd, Min2
  <2>5. Dealt' * ChunkSize = cursor * ChunkSize + ChunkSize
    BY <1>1, <2>1, <2>2, SizesAre, ProductStep DEF Dealt
  <2>6. QED
    BY <1>1, <2>1, <2>2, <2>4, <2>5 DEF ReaderAt, PastLoop
<1>3. CASE SendJob
  <2>1. UNCHANGED <<cursor, nextOffset>> /\ rpc = "send"
        /\ rpc' \in {"failed", "flush", "next"}
    BY <1>3 DEF SendJob
  <2>2. rpc' # "failed" => Dealt' = Dealt
    BY <2>1 DEF Dealt
  <2>3. QED
    BY <1>1, <2>1, <2>2 DEF ReaderAt, PastLoop
<1>4. CASE NextChunk
  <2>1. /\ cursor' = cursor + 1 /\ UNCHANGED nextOffset /\ rpc = "next"
        /\ rpc' = "loop" \/ (rpc' = "close" /\ stop' # {})
    BY <1>4 DEF NextChunk
  <2>2. Dealt' = Dealt /\ cursor <= cursor'
    BY <1>1, <2>1 DEF Dealt
  <2>3. First <= cursor'
    BY <1>1, <2>1 DEF ReaderAt
  <2>4. QED
    BY <1>1, <2>1, <2>2, <2>3 DEF ReaderAt, PastLoop
<1>5. CASE ~ReaderStep
  BY <1>1, <1>5, ReaderAlone DEF ReaderAt, Dealt, PastLoop, readerVars
<1>6. QED
  BY <1>1, <1>2, <1>3, <1>4, <1>5, ReaderMoves DEF ReaderAt

LEMMA FullJobsNext ==
    ASSUME Geometry, TypeOK, JobInv, FullJobs, [Next]_vars
    PROVE  FullJobs'
<1> SUFFICES ASSUME NotCut'
             PROVE  /\ rpc' = "send" => job'.len = Full(cursor')
                    /\ \A i \in DOMAIN scanQ' : scanQ'[i].len = Full(scanQ'[i].chunk)
  BY DEF FullJobs, Full
<1>1. NotCut
  BY BytesGrow
<1>2. /\ rpc = "send" => job.len = Full(cursor)
      /\ \A i \in DOMAIN scanQ : scanQ[i].len = Full(scanQ[i].chunk)
  BY <1>1 DEF FullJobs
<1>3. scanQ \in Seq(Jobs) /\ job \in Jobs
  BY DEF TypeOK, ScanQType, ReaderType
<1>4. rpc' = "send" => job'.len = Full(cursor')
  <2>1. CASE ReadChunk
    <3>1. PICK n \in ReadLens :
             /\ n # 0 => job' = [chunk |-> cursor, len |-> n]
                         /\ bytesScanned' = bytesScanned + n
             /\ UNCHANGED cursor
      BY <2>1 DEF ReadChunk
    <3>2. n \in Nat \ {0} /\ (Scanned + n < MaxBytes => n = Full(cursor))
      BY <2>1, ReadIsWhole DEF ReadChunk
    <3>3. Scanned + n < MaxBytes
      BY <3>1, <3>2, SizesAre DEF NotCut, Scanned, TypeOK, ReaderType
    <3>4. QED
      BY <3>1, <3>2, <3>3 DEF Full
  <2>2. CASE ReaderStep /\ ~ReadChunk
    <3>1. rpc' # "send"
      BY <2>2, ReaderMoves DEF SendJob, NextChunk
    <3>2. QED
      BY <3>1
  <2>3. CASE ~ReaderStep
    BY <1>2, <2>3, ReaderAlone DEF readerVars, Full
  <2>4. QED
    BY <2>1, <2>2, <2>3
<1>5. \A i \in DOMAIN scanQ' : scanQ'[i].len = Full(scanQ'[i].chunk)
  <2>1. CASE SendJob /\ ~UNCHANGED scanQ
    <3>1. scanQ' = Append(scanQ, job) /\ rpc = "send"
      BY <2>1 DEF SendJob
    <3>2. job.len = Full(job.chunk)
      BY <1>2, <3>1 DEF JobInv
    <3>3. /\ Len(scanQ) \in Nat /\ DOMAIN scanQ = 1 .. Len(scanQ)
          /\ DOMAIN scanQ' = 1 .. Len(scanQ) + 1
          /\ \A i \in 1 .. Len(scanQ) : scanQ'[i] = scanQ[i]
          /\ scanQ'[Len(scanQ) + 1] = job
      BY <1>3, <3>1, AppendProperties, LenProperties
    <3>4. QED
      BY <1>2, <3>2, <3>3
  <2>2. ASSUME NEW s \in Scanners, ScanRecv(s)
        PROVE  \A i \in DOMAIN scanQ' : scanQ'[i].len = Full(scanQ'[i].chunk)
    <3>1. scanQ # <<>> /\ scanQ' = Tail(scanQ)
      BY <2>2 DEF ScanRecv
    <3>2. /\ Len(scanQ) \in Nat \ {0} /\ DOMAIN scanQ = 1 .. Len(scanQ)
          /\ DOMAIN scanQ' = 1 .. Len(scanQ) - 1
          /\ \A i \in 1 .. Len(scanQ) - 1 : scanQ'[i] = scanQ[i + 1]
      BY <1>3, <3>1, HeadTailProperties, LenProperties, EmptySeq
    <3>3. \A i \in 1 .. Len(scanQ) - 1 : i + 1 \in DOMAIN scanQ
      BY <3>2
    <3>4. QED
      BY <1>2, <3>2, <3>3
  <2>3. CASE UNCHANGED scanQ
    BY <1>2, <2>3
  <2>4. QED
    BY <2>1, <2>2, <2>3, JobsMove
<1>6. QED
  BY <1>4, <1>5

-----------------------------------------------------------------------------
(* The pools, as long as nothing panics.                                   *)
LEMMA PanicsGrow ==
    ASSUME TypeOK, [Next]_vars, panics' = 0
    PROVE  panics = 0 /\ ~Panic
<1>1. panics <= panics' /\ panics \in Nat
  BY CountersGrow DEF TypeOK
<1>2. Panic => panics' = panics + 1
  BY DEF Panic, ScanPanic, CarvePanic, StrPanic, MetaPanic, PanicBudget
<1>3. QED
  BY <1>1, <1>2

LEMMA PoolsHaveThreads == Scanners # {} /\ Stringers # {}
<1>1. PoolSize \in Nat \ {0}
  BY PoolsNonempty
<1>2. QED
  BY <1>1, PoolAssumption, FS_EmptySet

LEMMA ClosedStays ==
    ASSUME TypeOK, [Next]_vars, ReaderClosed
    PROVE  ReaderClosed' /\ (scanQ = <<>> => UNCHANGED scanQ)
<1>1. ReaderClosed'
  <2>1. CASE ReaderStep
    BY <2>1 DEF ReaderStep, LoopEnds, CheckFiles, CheckStop, ReadChunk,
       ReadFails, SendJob, SendFlush, NextChunk, CloseChannels, JoinScanners,
       JoinCarvers, JoinStringers, SendSummary, Finish, ProcessExit, JoinPool,
       ReaderClosed
  <2>2. CASE ~ReaderStep
    BY <2>2, ReaderAlone DEF ReaderClosed, readerVars
  <2>3. QED
    BY <2>1, <2>2
<1>2. ~SendJob /\ (scanQ = <<>> => \A s \in Scanners : ~ScanRecv(s))
  BY DEF SendJob, ReaderClosed, ScanRecv
<1>3. QED
  BY <1>1, <1>2, JobsMove

LEMMA ScannerGoneNext ==
    ASSUME TypeOK, ScannerGone, StringerGone, [Next]_vars
    PROVE  ScannerGone'
<1> SUFFICES ASSUME panics' = 0, NEW s \in Scanners
             PROVE  /\ scanPc'[s] = "done" => ReaderClosed' /\ scanQ' = <<>>
                    /\ scanPc'[s] = "strings" => StringScan
  BY DEF ScannerGone
<1>1. panics = 0 /\ ~Panic /\ scanPc \in [Scanners -> ScanPcs]
  BY PanicsGrow DEF TypeOK, ScanType
<1>2. CASE UNCHANGED scanPc
  BY <1>1, <1>2, ClosedStays DEF ScannerGone
<1>3. ASSUME NEW r \in Scanners, ScanStep(r), ~UNCHANGED scanPc
      PROVE  \/ /\ scanPc' = [scanPc EXCEPT ![r] = "done"]
                /\ ReaderClosed /\ scanQ = <<>>
             \/ \E pc \in {"recv", "hits", "entropy"} :
                   scanPc' = [scanPc EXCEPT ![r] = pc]
             \/ StringScan /\ scanPc' = [scanPc EXCEPT ![r] = "strings"]
  <2>1. CASE SendSpans(r)
    <3>1. scanPc[r] = "strings"
      BY <2>1 DEF SendSpans
    <3>2. StringScan /\ ~ScannersDone
      BY <1>1, <3>1 DEF ScannerGone, ScannersDone
    <3>3. ~StringersDone
      BY <1>1, <3>2, PoolsHaveThreads DEF StringerGone, StringersDone
    <3>4. QED
      BY <2>1, <3>3 DEF SendSpans, JobStepEnds, AfterJobStep
  <2>2. CASE ScanEnd(r)
    BY <2>2 DEF ScanEnd
  <2>3. CASE HitsSent(r)
    BY <2>3 DEF HitsSent, JobStepEnds, AfterJobStep
  <2>4. CASE SendEntropy(r)
    BY <2>4 DEF SendEntropy, JobStepEnds, AfterJobStep
  <2>5. CASE ScanRecv(r)
    BY <2>5 DEF ScanRecv
  <2>6. QED
    BY <1>3, <2>1, <2>2, <2>3, <2>4, <2>5
       DEF ScanStep, CountHit, SendHit, scanVars
<1>4. CASE \E r \in Scanners : ScanStep(r) /\ ~UNCHANGED scanPc
  BY <1>1, <1>3, <1>4, ClosedStays DEF ScannerGone
<1>5. UNCHANGED scanPc \/ \E r \in Scanners : ScanStep(r)
  BY <1>1 DEF Next, ReaderStep, LoopEnds, CheckFiles, CheckStop, ReadChunk,
     ReadFails, SendJob, SendFlush, NextChunk, CloseChannels, JoinScanners,
     JoinCarvers, JoinStringers, SendSummary, Finish, ProcessExit, JoinPool,
     ReaderOnly, CarveStep, CarveRecv, CarveEnd, CheckLimit, CarveNothing,
     CarveFile, SendRecord, ParseSqlite, CheckTotal, StrStep, StrRecv, StrEnd,
     SendArtefact, MetaStep, MetaRecv, MetaEnd, Cancel, Terminated, scanVars, vars
<1>6. QED
  BY <1>2, <1>4, <1>5

LEMMA StringerGoneNext ==
    ASSUME TypeOK, StringerGone, [Next]_vars
    PROVE  StringerGone'
<1> SUFFICES ASSUME panics' = 0, StringScan, NEW t \in Stringers,
                    strPc'[t] = "done"
             PROVE  ScannersDone'
  BY DEF StringerGone
<1>1. panics = 0 /\ ~Panic /\ strPc \in [Stringers -> StrPcs]
  BY PanicsGrow DEF TypeOK, StrType
<1>2. CASE strPc[t] = "done"
  BY <1>1, <1>2, DoneStays DEF StringerGone
<1>3. CASE strPc[t] # "done"
  <2>1. \E r \in Stringers : StrStep(r)
    BY <1>1, <1>3 DEF Next, ReaderStep, LoopEnds, CheckFiles, CheckStop,
       ReadChunk, ReadFails, SendJob, SendFlush, NextChunk, CloseChannels,
       JoinScanners, JoinCarvers, JoinStringers, SendSummary, Finish,
       ProcessExit, JoinPool, ReaderOnly, ScanStep, ScanRecv, ScanEnd, CountHit,
       SendHit, HitsSent, SendSpans, SendEntropy, CarveStep, CarveRecv,
       CarveEnd, CheckLimit, CarveNothing, CarveFile, SendRecord, ParseSqlite,
       CheckTotal, MetaStep, MetaRecv, MetaEnd, Cancel, Terminated, strVars, vars
  <2>2. ScannersDone
    BY <1>1, <1>3, <2>1 DEF StrStep, StrRecv, StrEnd, SendArtefact
  <2>3. QED
    BY <2>2, DoneStays
<1>4. QED
  BY <1>2, <1>3

-----------------------------------------------------------------------------
(* A signature of a chunk that was sent stays in hand.                     *)
LEMMA FatesAdvance ==
    ASSUME TypeOK, HitInv, Joined, [Next]_vars, NEW h \in Sigs,
           fate[h] # "unseen"
    PROVE  fate'[h] # "unseen"
<1>1. fate \in [Sigs -> Fates]
  BY DEF TypeOK, FateType
<1>2. CASE FateMoves
  BY <1>1, <1>2 DEF FateMoves, Found, SettledAs, GivenUp, Settled
<1>3. QED
  BY <1>2, FateSteps

(* The job of the chunk that owns h carries h, when it was read in full.   *)
LEMMA OwnerReports ==
    ASSUME Geometry, NEW j \in Jobs, NEW h \in Sigs, j.chunk = Owner(h),
           j.len = Full(j.chunk)
    PROVE  h \in JobHits(j)
<1>1. h \in Nat /\ h + PatLen <= EvidenceLen
  BY SizesAre DEF Geometry
<1>2. FoundIn(Owner(h), h, PatLen,
              ChunkLength(Owner(h), EvidenceLen, ChunkSize, Overlap),
              EvidenceLen, ChunkSize)
  BY <1>1, SizesAre, SeenWhenReadInFull DEF Owner, Geometry
<1>3. QED
  BY <1>2 DEF JobHits, Full

LEMMA WholeBefore ==
    ASSUME Geometry, TypeOK, TypeOK', [Next]_vars, WholeScan'
    PROVE  WholeScan
BY BytesGrow, GaveUpStable DEF WholeScan

LEMMA HitsMove ==
    ASSUME [Next]_vars, \A s \in Scanners : ~ScanRecv(s) /\ ~SendHit(s)
                                            /\ ~ScanPanic(s)
    PROVE  UNCHANGED scanTodo
BY DEF Next, ReaderStep, LoopEnds, CheckFiles, CheckStop, ReadChunk, ReadFails,
   SendJob, SendFlush, NextChunk, CloseChannels, JoinScanners, JoinCarvers,
   JoinStringers, SendSummary, Finish, ProcessExit, JoinPool, ReaderOnly,
   ScanStep, ScanEnd, CountHit, HitsSent, SendSpans, SendEntropy,
   CarveStep, CarveRecv, CarveEnd, CheckLimit, CarveNothing, CarveFile,
   SendRecord, ParseSqlite, CheckTotal, StrStep, StrRecv, StrEnd, SendArtefact,
   MetaStep, MetaRecv, MetaEnd, Cancel, Panic, CarvePanic, StrPanic,
   MetaPanic, Terminated, scanVars, vars

LEMMA UnsentMoves ==
    ASSUME Geometry, TypeOK, [Next]_vars
    PROVE  \/ UNCHANGED scanQ /\ Unsent' = Unsent
           \/ /\ rpc = "send" /\ scanQ' = Append(scanQ, job)
              /\ Unsent = cursor /\ Unsent' = cursor + 1
           \/ (\E s \in Scanners : ScanRecv(s)) /\ Unsent' = Unsent
<1>1. cursor \in Nat
  BY DEF TypeOK, ReaderType
<1>2. CASE ~ReaderStep
  <2>1. Unsent' = Unsent
    BY <1>2, ReaderAlone DEF Unsent, readerVars
  <2>2. ~SendJob
    BY <1>2 DEF ReaderStep
  <2>3. QED
    BY <2>1, <2>2, JobsMove
<1>3. CASE SendJob
  BY <1>3 DEF SendJob, Unsent
<1>4. CASE ReaderStep /\ ~SendJob
  <2>1. UNCHANGED scanQ
    BY <1>4 DEF ReaderStep, LoopEnds, CheckFiles, CheckStop, ReadChunk,
       ReadFails, SendFlush, NextChunk, CloseChannels, JoinScanners,
       JoinCarvers, JoinStringers, SendSummary, Finish, ProcessExit, JoinPool,
       ReaderOnly
  <2>2. Unsent' = Unsent
    BY <1>1, <1>4 DEF ReaderStep, LoopEnds, CheckFiles, CheckStop, ReadChunk,
       ReadFails, SendFlush, NextChunk, CloseChannels, JoinScanners,
       JoinCarvers, JoinStringers, SendSummary, Finish, ProcessExit, JoinPool,
       ReaderOnly, Unsent
  <2>3. QED
    BY <2>1, <2>2
<1>5. QED
  BY <1>2, <1>3, <1>4

LEMMA SeenNext ==
    ASSUME Geometry, TypeOK, TypeOK', HitInv, Joined, DropInv, FullJobs,
           SentIsSeen, [Next]_vars
    PROVE  SentIsSeen'
<1>1. First \in Nat /\ First' = First /\ \A h : Owner(h)' = Owner(h)
  BY FirstIs DEF First, Owner
<1> SUFFICES ASSUME WholeScan', NEW h \in Sigs,
                    First <= Owner(h), Owner(h) < Unsent'
             PROVE  InHand(h)'
  BY <1>1 DEF SentIsSeen
<1>2. WholeScan /\ cursor \in Nat /\ Owner(h) \in Nat
  BY WholeBefore, SizesAre DEF Owner, TypeOK, ReaderType
<1>3. \/ InHand(h)
      \/ /\ rpc = "send" /\ scanQ' = Append(scanQ, job) /\ Owner(h) = cursor
  BY <1>2, UnsentMoves DEF SentIsSeen
<1>4. scanQ \in Seq(Jobs) /\ job \in Jobs
  BY DEF TypeOK, ScanQType, ReaderType
<1>5. CASE fate[h] # "unseen"
  BY <1>5, FatesAdvance DEF InHand
<1>6. ASSUME scanQ' = Append(scanQ, job), rpc = "send"
      PROVE  /\ \A i \in DOMAIN scanQ : i \in DOMAIN scanQ' /\ scanQ'[i] = scanQ[i]
             /\ \E i \in DOMAIN scanQ' : scanQ'[i].chunk = cursor
  <2>1. /\ Len(scanQ) \in Nat /\ DOMAIN scanQ = 1 .. Len(scanQ)
        /\ DOMAIN scanQ' = 1 .. Len(scanQ) + 1
        /\ \A i \in 1 .. Len(scanQ) : scanQ'[i] = scanQ[i]
        /\ scanQ'[Len(scanQ) + 1] = job
    BY <1>4, <1>6, AppendProperties, LenProperties
  <2>2. job.chunk = cursor
    BY <1>6 DEF HitInv, JobInv
  <2>3. QED
    BY <2>1, <2>2
<1>7. CASE Owner(h) = cursor /\ rpc = "send" /\ scanQ' = Append(scanQ, job)
  BY <1>1, <1>6, <1>7 DEF InHand
<1>8. ASSUME NEW i \in DOMAIN scanQ, scanQ[i].chunk = Owner(h)
      PROVE  InHand(h)'
  <2>1. CASE UNCHANGED scanQ
    BY <1>1, <1>8, <2>1 DEF InHand
  <2>2. CASE rpc = "send" /\ scanQ' = Append(scanQ, job)
    BY <1>1, <1>6, <1>8, <2>2 DEF InHand
  <2>3. ASSUME NEW s \in Scanners, ScanRecv(s)
        PROVE  InHand(h)'
    <3>1. /\ scanQ # <<>> /\ scanQ' = Tail(scanQ)
          /\ scanTodo' = [scanTodo EXCEPT ![s] = JobHits(Head(scanQ))]
          /\ scanTodo \in [Scanners -> SUBSET Sigs]
      BY <2>3 DEF ScanRecv, TypeOK, ScanType
    <3>2. /\ Len(scanQ) \in Nat \ {0} /\ DOMAIN scanQ = 1 .. Len(scanQ)
          /\ Head(scanQ) = scanQ[1] /\ Head(scanQ) \in Jobs
          /\ DOMAIN scanQ' = 1 .. Len(scanQ) - 1
          /\ \A k \in 1 .. Len(scanQ) - 1 : scanQ'[k] = scanQ[k + 1]
      BY <1>4, <3>1, HeadTailProperties, LenProperties, EmptySeq
    <3>3. CASE i = 1
      <4>1. scanQ[1].len = Full(scanQ[1].chunk)
        BY <1>2, <3>2 DEF FullJobs, WholeScan
      <4>2. h \in JobHits(Head(scanQ))
        BY <1>8, <3>2, <3>3, <4>1, OwnerReports
      <4>3. h \in scanTodo'[s]
        BY <3>1, <4>2
      <4>4. QED
        BY <4>3 DEF InHand
    <3>4. CASE i # 1
      <4>1. i - 1 \in DOMAIN scanQ' /\ scanQ'[i - 1] = scanQ[i]
        BY <3>2, <3>4
      <4>2. QED
        BY <1>1, <1>8, <4>1 DEF InHand
    <3>5. QED
      BY <3>3, <3>4
  <2>4. QED
    BY <2>1, <2>2, <2>3, UnsentMoves
<1>9. ASSUME NEW s \in Scanners, h \in scanTodo[s], fate[h] = "unseen"
      PROVE  InHand(h)'
  <2>1. /\ scanPc[s] = "hits" /\ scanTodo \in [Scanners -> SUBSET Sigs]
        /\ scanPc \in [Scanners -> ScanPcs]
    BY <1>9 DEF HitInv, ScannerHits, TypeOK, ScanType
  <2>2. ASSUME NEW r \in Scanners, ScanRecv(r) PROVE h \in scanTodo'[s]
    <3>1. r # s /\ scanTodo' = [scanTodo EXCEPT ![r] = JobHits(Head(scanQ))]
      BY <2>1, <2>2 DEF ScanRecv
    <3>2. QED
      BY <1>9, <2>1, <3>1
  <2>3. ASSUME NEW r \in Scanners, SendHit(r) PROVE h \in scanTodo'[s]
    <3>1. ~CarversDone
      <4>1. scanPc[r] = "hits"
        BY <2>3 DEF SendHit
      <4>2. ~ScannersDone
        BY <4>1 DEF ScannersDone
      <4>3. QED
        BY <1>2, <4>2, PoolsNonempty
           DEF DropInv, CarverGone, NoMoreHits, WholeScan, CarversDone
    <3>2. PICK g \in Counted(r) : scanTodo' = [scanTodo EXCEPT ![r] = @ \ {g}]
      BY <2>3, <3>1 DEF SendHit
    <3>3. g # h
      BY <1>9, <3>2 DEF Counted
    <3>4. QED
      BY <1>9, <2>1, <3>2, <3>3
  <2>4. \A r \in Scanners : ~ScanPanic(r)
    <3>1. panics' = 0
      BY DEF WholeScan, GaveUp, TypeOK
    <3>2. QED
      BY <3>1, PanicsGrow DEF Panic
  <2>5. h \in scanTodo'[s]
    BY <1>9, <2>2, <2>3, <2>4, HitsMove
  <2>6. QED
    BY <2>5 DEF InHand
<1>10. QED
  BY <1>3, <1>5, <1>7, <1>8, <1>9 DEF InHand

LEMMA CoverInit == Geometry /\ Init => CoverInv
<1> SUFFICES ASSUME Geometry, Init PROVE CoverInv
  OBVIOUS
<1>1. /\ rpc = "loop" /\ cursor = First /\ nextOffset = ResumeOffset
      /\ scanQ = <<>> /\ \A s \in Scanners : scanPc[s] = "recv"
      /\ StringScan => \A t \in Stringers : strPc[t] = "recv"
  BY DEF Init, First
<1>2. First \in Nat /\ First * ChunkSize = ResumeOffset
  BY FirstIs
<1>3. ReaderAt
  BY <1>1, <1>2, SizesAre DEF ReaderAt, Dealt, PastLoop
<1>4. FullJobs /\ ScannerGone /\ StringerGone
  BY <1>1 DEF FullJobs, ScannerGone, StringerGone
<1>5. SentIsSeen
  <2>1. ASSUME NEW h \in Sigs, First <= Owner(h), Owner(h) < Unsent
        PROVE  FALSE
    <3>1. Owner(h) \in Nat /\ Unsent = First
      BY <1>1, SizesAre DEF Owner, Unsent
    <3>2. QED
      BY <1>2, <2>1, <3>1
  <2>2. QED
    BY <2>1 DEF SentIsSeen
<1>6. QED
  BY <1>3, <1>4, <1>5 DEF CoverInv

(* At the end no signature is unseen that the run claims to have dealt     *)
(* with, and none is open or dropped.                                      *)
LEMMA CoverEnd ==
    ASSUME Geometry, TypeOK, HitInv, Joined, DropInv, CoverInv
    PROVE  WholeScan => CheckpointCovers
<1> SUFFICES ASSUME WholeScan, rpc = "done", NEW h \in Sigs,
                    ResumeOffset <= h, h < Claimed
             PROVE  fate[h] \in Settled
  BY DEF CheckpointCovers
<1>1. /\ cursor \in Nat /\ nextOffset \in Nat /\ First \in Nat /\ h \in Nat
      /\ First * ChunkSize = ResumeOffset
      /\ fate \in [Sigs -> Fates] /\ panics \in Nat
  BY FirstIs, SizesAre DEF TypeOK, ReaderType, FateType
<1>2. Owner(h) \in Nat /\ Owner(h) * ChunkSize \in Nat
      /\ Owner(h) * ChunkSize <= h /\ h < Owner(h) * ChunkSize + ChunkSize
  BY <1>1, SizesAre, Division, ProductStep DEF Owner
<1>3. First <= Owner(h)
  <2>1. CASE Owner(h) + 1 <= First
    <3>1. (Owner(h) + 1) * ChunkSize <= ResumeOffset
      BY <1>1, <1>2, <2>1, SizesAre, ProductMonotone
    <3>2. (Owner(h) + 1) * ChunkSize = Owner(h) * ChunkSize + ChunkSize
      BY <1>2, SizesAre, ProductStep
    <3>3. QED
      BY <1>1, <1>2, <3>1, <3>2, SizesAre
  <2>2. QED
    BY <1>1, <1>2, <2>1
<1>4. Owner(h) < Unsent /\ Unsent = cursor
  <2>1. Unsent = cursor /\ Dealt = cursor
    BY DEF Unsent, Dealt
  <2>2. ASSUME cursor <= Owner(h) PROVE FALSE
    <3>1. cursor * ChunkSize <= Owner(h) * ChunkSize /\ cursor * ChunkSize \in Nat
      BY <1>1, <1>2, <2>2, SizesAre, ProductMonotone, ProductStep
    <3>2. CASE stop = {}
      <4>1. cursor \notin Ids
        BY <3>2 DEF CoverInv, ReaderAt, PastLoop
      <4>2. EvidenceLen <= cursor * ChunkSize
        BY <1>1, <3>1, <4>1, SizesAre, ChunkIdsAre DEF Ids
      <4>3. h < EvidenceLen
        BY <3>2 DEF Claimed
      <4>4. QED
        BY <1>1, <1>2, <3>1, <4>2, <4>3, SizesAre
    <3>3. CASE stop # {}
      <4>1. nextOffset <= cursor * ChunkSize
        BY <2>1 DEF CoverInv, ReaderAt
      <4>2. h < nextOffset
        BY <1>1, <3>3, SizesAre DEF Claimed, Min2
      <4>3. QED
        BY <1>1, <1>2, <3>1, <4>1, <4>2
    <3>4. QED
      BY <3>2, <3>3
  <2>3. QED
    BY <1>1, <1>2, <2>1, <2>2
<1>5. ScannersDone /\ CarversDone /\ panics = 0
  BY <1>1 DEF Joined, WholeScan, GaveUp
<1>6. scanQ = <<>> /\ \A s \in Scanners : scanTodo[s] = {}
  BY <1>5, PoolsHaveThreads
     DEF CoverInv, ScannerGone, ScannersDone, HitInv, ScannerHits
<1>7. fate[h] # "unseen"
  BY <1>3, <1>4, <1>6 DEF CoverInv, SentIsSeen, InHand
<1>8. fate[h] # "found"
  <2>1. ~Placed(h)
    BY <1>5, <1>6 DEF HitInv, NoneLost, Placed, Holding, QueuedHits, CarversDone
  <2>2. QED
    BY <2>1 DEF HitInv, NoneLost
<1>9. fate[h] # "dropped"
  BY DEF DropInv, DropsHaveCause, Dropped, WholeScan, GaveUp
<1>10. QED
  BY <1>1, <1>7, <1>8, <1>9 DEF Fates, Settled

LEMMA DropsCounted == Spec => []DropInv
<1>1. Init /\ []TypeOK /\ [][Next]_vars => []DropInv
  BY DropInit, DropNext, PTL
<1>2. QED
  BY <1>1, TypeCorrect, PTL DEF Spec

(* A run claims no more than it did: in a run that nothing panicked in,    *)
(* that did not reach its file limit and whose byte limit cut no read      *)
(* short, every signature between the offset it resumed from and the one   *)
(* its checkpoint carries (or the end of the evidence) went to a handler.  *)
THEOREM ClaimCovered ==
    ASSUME Geometry
    PROVE  Spec => [](WholeScan => CheckpointCovers)
<1> DEFINE Base == TypeOK /\ HitInv /\ Joined /\ DropInv
<1>1. EndInv => Joined
  BY DEF EndInv
<1>2. Spec => []Base
  BY <1>1, TypeCorrect, HitsInOnePlace, RecordsCorrect, DropsCounted, PTL
<1>3. Init => CoverInv
  BY CoverInit
<1>4. Base /\ Base' /\ CoverInv /\ [Next]_vars => CoverInv'
  <2> SUFFICES ASSUME Base, Base', CoverInv, [Next]_vars PROVE CoverInv'
    OBVIOUS
  <2>1. JobInv
    BY DEF HitInv
  <2>2. QED
    BY <2>1, ReaderAtNext, FullJobsNext, ScannerGoneNext, StringerGoneNext,
       SeenNext DEF CoverInv
<1>5. Base /\ CoverInv => (WholeScan => CheckpointCovers)
  BY CoverEnd
<1> HIDE DEF Base
<1>6. QED
  BY <1>2, <1>3, <1>4, <1>5, PTL DEF Spec

=============================================================================
