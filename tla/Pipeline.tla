------------------------------ MODULE Pipeline ------------------------------
(***************************************************************************)
(* One run of the scanning pipeline: run_pipeline_inner (the reader, which *)
(* is the thread that called it) and the threads it spawns, connected by   *)
(* bounded channels:                                                       *)
(*                                                                         *)
(*   reader --scanQ--> scanners --hitQ--> carvers --metaQ--> metadata      *)
(*                        |  `----strQ--> stringers --metaQ----^           *)
(*                        `--(entropy)----------------metaQ----^           *)
(*                                                                         *)
(* A channel is a sequence.  A send blocks while the channel is full and   *)
(* fails once every receiver is gone; a receive blocks while it is empty   *)
(* and ends the receiver's loop once every sender is gone.                 *)
(***************************************************************************)
EXTENDS Chunking, Sequences, FiniteSets

CONSTANTS
    EvidenceLen, ChunkSize, Overlap,   \* the geometry of the scan
    ResumeOffset,  \* next_offset of the validated checkpoint, or 0
    Workers,       \* the `workers` argument, which may be 0
    Scanners, Carvers, Stringers,      \* the threads of each pool
    Sigs, PatLen,  \* offsets that carry a signature, and its length
    SqliteSigs,    \* the signatures whose handler carves "sqlite" files
    StringScan,    \* TRUE iff there is a string scanner
    Spans,         \* offsets where an artefact-bearing string starts
    EntropyWindow, \* the entropy windows of at most this many bytes, or {}
    MaxFiles,      \* {} or {limit}: Config::max_files
    MaxBytes, MaxChunks,   \* MaxU64 when the option is absent
    MayCancel,     \* TRUE iff Ctrl+C may be pressed
    Progress,      \* TRUE iff a progress reporter is configured
    Checkpoint,    \* TRUE iff a checkpoint path is configured
    ReadFaults,    \* subset of {"short", "error"} the evidence may show
    WriteFaults,   \* TRUE iff writes of the sink or checkpoint may fail
    MaxPanics      \* bound: how many threads may panic in a run

(* Every pool has workers.max(1) threads.                                  *)
PoolSize == Max2(Workers, 1)

ASSUME GeometryAssumption ==
    /\ EvidenceLen \in 0 .. MaxU64
    /\ ChunkSize \in 0 .. MaxU64
    /\ Overlap \in 0 .. MaxU64
    /\ ResumeOffset \in Nat
    /\ ResumeOffset = 0 \/ ResumeOffset < EvidenceLen

ASSUME PoolAssumption ==
    /\ Workers \in Nat
    /\ \A pool \in {Scanners, Carvers, Stringers} :
          IsFiniteSet(pool) /\ Cardinality(pool) = PoolSize

ASSUME ContentAssumption ==
    /\ Sigs \subseteq Nat /\ SqliteSigs \subseteq Sigs
    /\ IsFiniteSet(Sigs)
    /\ PatLen \in Nat \ {0}
    /\ Spans \subseteq Nat
    /\ EntropyWindow \subseteq Nat \ {0}

ASSUME LimitAssumption ==
    /\ MaxFiles \subseteq Nat
    /\ \A m, n \in MaxFiles : m = n
    /\ MaxBytes \in 0 .. MaxU64 /\ MaxChunks \in 0 .. MaxU64
    /\ MaxPanics \in Nat
    /\ \A flag \in {StringScan, MayCancel, Progress, Checkpoint, WriteFaults} :
          flag \in BOOLEAN

VARIABLES
    rpc, cursor, job,          \* the reader: where it is, its chunk, its job
    bytesScanned, chunksSeen, nextOffset, stop, saved,
    cancel,                    \* the cancel flag
    scanQ, hitQ, strQ, metaQ,  \* the channels
    scanPc, scanJob, scanTodo, \* per scanner: its job and hits still to send
    carvePc, carveHit, carveTotal,  \* per carver: its hit and new_total
    strPc, strTodo,            \* per stringer: spans still to extract
    metaPc, log, flushed, metaErrors,
    filesCarved,               \* the shared counter
    fate,                      \* history: what became of each signature
    panics

readerVars  == <<rpc, cursor, job, bytesScanned, chunksSeen, nextOffset,
                 stop, saved>>
scanVars    == <<scanPc, scanJob, scanTodo>>
carveVars   == <<carvePc, carveHit, carveTotal>>
strVars     == <<strPc, strTodo>>
metaVars    == <<metaPc, log, flushed, metaErrors>>
vars == <<readerVars, cancel, scanQ, hitQ, strQ, metaQ, scanVars, carveVars,
          strVars, metaVars, filesCarved, fate, panics>>

-----------------------------------------------------------------------------
Ids == ChunkIds(EvidenceLen, ChunkSize)
Start(k) == ChunkStart(k, ChunkSize)
ChunksBefore == ResumeChunks(ResumeOffset, ChunkSize)

Jobs == [chunk : Nat, len : Nat]
NoJob == [chunk |-> 0, len |-> 0]

JobHits(j) ==
    {h \in Sigs : FoundIn(j.chunk, h, PatLen, j.len, EvidenceLen, ChunkSize)}
JobSpans(j) ==
    Spans \cap OwnedBy(j.chunk, j.len, EvidenceLen, ChunkSize)
HasWindow(j) ==
    \E w \in EntropyWindow :
        Min2(ChunkValid(j.chunk, EvidenceLen, ChunkSize), j.len) >= w

(* channel_cap = max(workers * 2, 1); hits and metadata get twice that.    *)
ChannelCap == Max2(2 * Workers, 1)
WideCap == 2 * ChannelCap

(* Mutant: the limit must be exceeded, not just met.                       *)
LimitExceeded(n) == \E limit \in MaxFiles : n > limit

(* Option<max_files>: reached when there is a limit and n is at least it.  *)
LimitReached(n) == \E limit \in MaxFiles : n >= limit

Settled == {"file", "none", "error", "nohandler"}
Fates == {"unseen", "found", "dropped"} \cup Settled

Kinds == {"file", "history", "cookie", "download", "string", "entropy",
          "summary", "flush"}
Event(kind, id) == [kind |-> kind, id |-> id]

-----------------------------------------------------------------------------
(* Mutant: the senders are dropped only after the scanners were joined.    *)
ReaderClosedLate == rpc \in {"joinCarve", "joinString", "summary", "joinMeta",
                             "done", "failed", "exited"}

(* Which ends of the channels are gone.  The reader holds its own copies   *)
(* of the senders until it closes them, or until it returns early.         *)
ReaderClosed == rpc \in {"joinScan", "joinCarve", "joinString", "summary",
                         "joinMeta", "done", "failed", "exited"}
ReaderLeftMeta == rpc \in {"joinMeta", "done", "failed", "exited"}
ScannersDone  == \A s \in Scanners : scanPc[s] = "done"
CarversDone   == \A c \in Carvers : carvePc[c] = "done"
StringersDone == \A t \in Stringers : strPc[t] = "done"
MetaSendersGone == /\ ReaderLeftMeta
                   /\ ScannersDone /\ CarversDone /\ StringersDone

(* The process is gone once main has returned the error.                   *)
Running == rpc # "exited"

(* Mutant: the metadata channel is unbounded().                            *)
SendMetaUnbounded(e) == /\ metaPc = "run"
                        /\ metaQ' = Append(metaQ, e)

SendMeta(e) == /\ metaPc = "run"
               /\ Len(metaQ) < WideCap
               /\ metaQ' = Append(metaQ, e)
MetaClosed == metaPc = "done" /\ UNCHANGED metaQ

Init ==
    /\ rpc = "loop"
    /\ cursor = FirstChunk(ResumeOffset, EvidenceLen, ChunkSize)
    /\ job = NoJob
    /\ bytesScanned = 0 /\ chunksSeen = 0 /\ nextOffset = ResumeOffset
    /\ stop = (IF ResumeOffset >= MaxBytes THEN {"max_bytes"} ELSE {})
              \cup (IF ChunksBefore >= MaxChunks THEN {"max_chunks"} ELSE {})
    /\ saved = {} /\ cancel = FALSE
    /\ scanQ = <<>> /\ hitQ = <<>> /\ strQ = <<>> /\ metaQ = <<>>
    /\ scanPc = [s \in Scanners |-> "recv"]
    /\ scanJob = [s \in Scanners |-> NoJob]
    /\ scanTodo = [s \in Scanners |-> {}]
    /\ carvePc = [c \in Carvers |-> "recv"]
    /\ carveHit = [c \in Carvers |-> 0]
    /\ carveTotal = [c \in Carvers |-> 0]
    /\ strPc = [t \in Stringers |-> IF StringScan THEN "recv" ELSE "done"]
    /\ strTodo = [t \in Stringers |-> {}]
    /\ metaPc = "run" /\ log = <<>> /\ flushed = 0 /\ metaErrors = 0
    /\ filesCarved = 0
    /\ fate = [h \in Sigs |-> "unseen"]
    /\ panics = 0

-----------------------------------------------------------------------------
(* The reader.                                                             *)

ReaderOnly == UNCHANGED <<cancel, scanQ, hitQ, strQ, metaQ, scanVars,
                          carveVars, strVars, metaVars, filesCarved, fate,
                          panics>>

(* No chunk is left, or a limit was already reached before the first one.  *)
LoopEnds ==
    /\ rpc = "loop"
    /\ stop # {} \/ cursor \notin Ids
    /\ rpc' = "close"
    /\ UNCHANGED <<cursor, job, bytesScanned, chunksSeen, nextOffset, stop,
                   saved>>
    /\ ReaderOnly

(* The load of files_carved, against the carvers' fetch_add.               *)
CheckFiles ==
    /\ rpc = "loop" /\ stop = {} /\ cursor \in Ids
    /\ IF LimitReached(filesCarved)
       THEN stop' = {"max_files"} /\ rpc' = "close"
       ELSE rpc' = "ready" /\ UNCHANGED stop
    /\ UNCHANGED <<cursor, job, bytesScanned, chunksSeen, nextOffset, saved>>
    /\ ReaderOnly

Scanned == bytesScanned + ResumeOffset

StopReasons ==
    IF cancel THEN {"cancelled"}
    ELSE IF chunksSeen + ChunksBefore >= MaxChunks THEN {"max_chunks"}
    ELSE IF Scanned >= MaxBytes THEN {"max_bytes"} ELSE {}

CheckStop ==
    /\ rpc = "ready" /\ StopReasons # {}
    /\ stop' = StopReasons /\ rpc' = "close"
    /\ UNCHANGED <<cursor, job, bytesScanned, chunksSeen, nextOffset, saved>>
    /\ ReaderOnly

(* What is asked of the evidence, and what it may give back: all of it,    *)
(* fewer bytes when read_at returns 0 early.                               *)
Wanted == Min2(MaxBytes - Scanned,
               ChunkLength(cursor, EvidenceLen, ChunkSize, Overlap))
ReadLens == IF "short" \in ReadFaults THEN 0 .. Wanted ELSE {Wanted}

(* Mutant: the next offset counts the overlap as dealt with.               *)
ReadChunkOverlap ==
    /\ rpc = "ready" /\ StopReasons = {}
    /\ \E n \in ReadLens \ {0} :
          /\ job' = [chunk |-> cursor, len |-> n]
          /\ bytesScanned' = bytesScanned + n
          /\ nextOffset' = SatAdd(Start(cursor), n)
    /\ chunksSeen' = chunksSeen + 1 /\ rpc' = "send"
    /\ UNCHANGED <<cursor, stop, saved>>
    /\ ReaderOnly

ReadChunk ==
    /\ rpc = "ready" /\ StopReasons = {}
    /\ \E n \in ReadLens :
          IF n = 0
          THEN /\ rpc' = "close"
               /\ UNCHANGED <<job, bytesScanned, chunksSeen, nextOffset>>
          ELSE /\ job' = [chunk |-> cursor, len |-> n]
               /\ bytesScanned' = bytesScanned + n
               /\ chunksSeen' = chunksSeen + 1
               /\ nextOffset' = SatAdd(Start(cursor), ChunkSize)
               /\ rpc' = "send"
    /\ UNCHANGED <<cursor, stop, saved>>
    /\ ReaderOnly

(* A read error leaves run_pipeline_inner through `?`: nothing is joined.  *)
ReadFails ==
    /\ rpc = "ready" /\ StopReasons = {} /\ "error" \in ReadFaults
    /\ rpc' = "failed"
    /\ UNCHANGED <<cursor, job, bytesScanned, chunksSeen, nextOffset, stop,
                   saved>>
    /\ ReaderOnly

SendJob ==
    /\ rpc = "send"
    /\ \/ ScannersDone /\ rpc' = "failed" /\ UNCHANGED <<scanQ, job>>
       \/ /\ ~ScannersDone /\ Len(scanQ) < ChannelCap
          /\ scanQ' = Append(scanQ, job) /\ job' = NoJob
          /\ rpc' \in IF Progress THEN {"flush", "next"} ELSE {"next"}
    /\ UNCHANGED <<cursor, bytesScanned, chunksSeen, nextOffset, stop, saved,
                   cancel, hitQ, strQ, metaQ, scanVars, carveVars, strVars,
                   metaVars, filesCarved, fate, panics>>

(* When the progress interval has elapsed the sink is told to flush.       *)
SendFlush ==
    /\ rpc = "flush"
    /\ SendMeta(Event("flush", 0)) \/ MetaClosed
    /\ rpc' = "next"
    /\ UNCHANGED <<cursor, job, bytesScanned, chunksSeen, nextOffset, stop,
                   saved, cancel, scanQ, hitQ, strQ, scanVars, carveVars,
                   strVars, metaVars, filesCarved, fate, panics>>

NextChunk ==
    /\ rpc = "next"
    /\ cursor' = cursor + 1
    /\ IF Scanned >= MaxBytes
       THEN stop' = {"max_bytes"} /\ rpc' = "close"
       ELSE rpc' = "loop" /\ UNCHANGED stop
    /\ UNCHANGED <<job, bytesScanned, chunksSeen, nextOffset, saved>>
    /\ ReaderOnly

(* drop(scan_tx), drop(hit_tx), drop(string_tx), then one join per pool.   *)
JoinPool(at, pooldone, next) ==
    /\ rpc = at /\ pooldone /\ rpc' = next
    /\ UNCHANGED <<cursor, job, bytesScanned, chunksSeen, nextOffset, stop,
                   saved>>
    /\ ReaderOnly

CloseChannels == JoinPool("close", TRUE, "joinScan")
JoinScanners  == JoinPool("joinScan", ScannersDone, "joinCarve")
JoinCarvers   == JoinPool("joinCarve", CarversDone, "joinString")
(* Mutant: the string workers are not waited for.                          *)
JoinStringersEarly == JoinPool("joinString", TRUE, "summary")
JoinStringers == JoinPool("joinString", StringersDone, "summary")

(* The summary carries the counters as they are now; then drop(meta_tx).   *)
SendSummary ==
    /\ rpc = "summary"
    /\ SendMeta(Event("summary", filesCarved)) \/ MetaClosed
    /\ rpc' = "joinMeta"
    /\ UNCHANGED <<cursor, job, bytesScanned, chunksSeen, nextOffset, stop,
                   saved, cancel, scanQ, hitQ, strQ, scanVars, carveVars,
                   strVars, metaVars, filesCarved, fate, panics>>

(* The checkpoint is written after everything was joined, and only when a  *)
(* stop was flagged.  A write that fails is only logged.                   *)
Finish ==
    /\ rpc = "joinMeta" /\ metaPc = "done"
    /\ rpc' = "done"
    /\ \/ Checkpoint /\ stop # {} /\ saved' = {Min2(nextOffset, EvidenceLen)}
       \/ (Checkpoint /\ stop # {} => WriteFaults) /\ UNCHANGED saved
    /\ UNCHANGED <<cursor, job, bytesScanned, chunksSeen, nextOffset, stop>>
    /\ ReaderOnly

(* main returns the error; the detached threads die with the process.      *)
ProcessExit == JoinPool("failed", TRUE, "exited")

Cancel ==
    /\ MayCancel /\ ~cancel /\ rpc \notin {"done", "exited"}
    /\ cancel' = TRUE
    /\ UNCHANGED <<readerVars, scanQ, hitQ, strQ, metaQ, scanVars, carveVars,
                   strVars, metaVars, filesCarved, fate, panics>>

-----------------------------------------------------------------------------
(* The scan workers.  The signatures of a job are counted and sent one by  *)
(* one, in whatever order the scanner lists them; then the job's strings,  *)
(* then its entropy regions.                                               *)

ScanRecv(s) ==
    /\ Running /\ scanPc[s] = "recv" /\ scanQ # <<>>
    /\ scanQ' = Tail(scanQ)
    /\ scanJob' = [scanJob EXCEPT ![s] = Head(scanQ)]
    /\ scanTodo' = [scanTodo EXCEPT ![s] = JobHits(Head(scanQ))]
    /\ scanPc' = [scanPc EXCEPT ![s] = "hits"]
    /\ UNCHANGED <<readerVars, cancel, hitQ, strQ, metaQ, carveVars, strVars,
                   metaVars, filesCarved, fate, panics>>

(* The receive fails: scan_tx is gone and the channel is empty.            *)
ScanEnd(s) ==
    /\ Running /\ scanPc[s] = "recv" /\ scanQ = <<>> /\ ReaderClosed
    /\ scanPc' = [scanPc EXCEPT ![s] = "done"]
    /\ UNCHANGED <<readerVars, cancel, scanQ, hitQ, strQ, metaQ, scanJob,
                   scanTodo, carveVars, strVars, metaVars, filesCarved, fate,
                   panics>>

(* The hit s has counted and not sent yet.                                 *)
Counted(s) == {h \in scanTodo[s] : fate[h] = "found"}

CountHit(s) ==
    /\ Running /\ scanPc[s] = "hits" /\ Counted(s) = {}
    /\ \E h \in scanTodo[s] : fate' = [fate EXCEPT ![h] = "found"]
    /\ UNCHANGED <<readerVars, cancel, scanQ, hitQ, strQ, metaQ, scanVars,
                   carveVars, strVars, metaVars, filesCarved, panics>>

(* A failed send breaks the hit loop: this hit and those after it are lost,*)
(* the rest of the job still runs.                                         *)
SendHit(s) ==
    /\ Running /\ scanPc[s] = "hits"
    /\ \E h \in Counted(s) :
          \/ /\ CarversDone
             /\ fate' = [fate EXCEPT ![h] = "dropped"]
             /\ scanTodo' = [scanTodo EXCEPT ![s] = {}]
             /\ UNCHANGED hitQ
          \/ /\ ~CarversDone /\ Len(hitQ) < WideCap
             /\ hitQ' = Append(hitQ, h)
             /\ scanTodo' = [scanTodo EXCEPT ![s] = @ \ {h}]
             /\ UNCHANGED fate
    /\ UNCHANGED <<readerVars, cancel, scanQ, strQ, metaQ, scanPc, scanJob,
                   carveVars, strVars, metaVars, filesCarved, panics>>

(* The step of s's job that follows `at`: back to the channel at the end.  *)
AfterJobStep(s, at) ==
    IF at = "hits" /\ StringScan /\ JobSpans(scanJob[s]) # {} THEN "strings"
    ELSE IF at # "entropy" /\ HasWindow(scanJob[s]) THEN "entropy"
    ELSE "recv"

JobStepEnds(s, at) ==
    LET next == AfterJobStep(s, at)
    IN  /\ scanPc' = [scanPc EXCEPT ![s] = next]
        /\ scanJob' = [scanJob EXCEPT ![s] = IF next = "recv" THEN NoJob ELSE @]

HitsSent(s) ==
    /\ Running /\ scanPc[s] = "hits" /\ scanTodo[s] = {}
    /\ JobStepEnds(s, "hits")
    /\ UNCHANGED <<readerVars, cancel, scanQ, hitQ, strQ, metaQ, scanTodo,
                   carveVars, strVars, metaVars, filesCarved, fate, panics>>

(* One string job per chunk.  Here a failed send leaves the job loop: the  *)
(* worker is finished.                                                     *)
SendSpans(s) ==
    /\ Running /\ scanPc[s] = "strings"
    /\ \/ /\ StringersDone
          /\ scanPc' = [scanPc EXCEPT ![s] = "done"]
          /\ scanJob' = [scanJob EXCEPT ![s] = NoJob]
          /\ UNCHANGED strQ
       \/ /\ ~StringersDone /\ Len(strQ) < ChannelCap
          /\ strQ' = Append(strQ, JobSpans(scanJob[s]))
          /\ JobStepEnds(s, "strings")
    /\ UNCHANGED <<readerVars, cancel, scanQ, hitQ, metaQ, scanTodo, carveVars,
                   strVars, metaVars, filesCarved, fate, panics>>

(* At most one region per chunk: the detector may find none.               *)
SendEntropy(s) ==
    /\ Running /\ scanPc[s] = "entropy"
    /\ \/ UNCHANGED metaQ
       \/ SendMeta(Event("entropy", Start(scanJob[s].chunk)))
    /\ JobStepEnds(s, "entropy")
    /\ UNCHANGED <<readerVars, cancel, scanQ, hitQ, strQ, scanTodo, carveVars,
                   strVars, metaVars, filesCarved, fate, panics>>

-----------------------------------------------------------------------------
(* The carve workers.                                                      *)

CarveRecv(c) ==
    /\ Running /\ carvePc[c] = "recv" /\ hitQ # <<>>
    /\ hitQ' = Tail(hitQ)
    /\ carveHit' = [carveHit EXCEPT ![c] = Head(hitQ)]
    /\ carvePc' = [carvePc EXCEPT ![c] = "check"]
    /\ UNCHANGED <<readerVars, cancel, scanQ, strQ, metaQ, scanVars, carveTotal,
                   strVars, metaVars, filesCarved, fate, panics>>

(* Mutant: an empty channel ends the loop, as with try_iter().             *)
CarveEndEmpty(c) ==
    /\ Running /\ carvePc[c] = "recv" /\ hitQ = <<>> /\ ReaderClosed
    /\ carvePc' = [carvePc EXCEPT ![c] = "done"]
    /\ UNCHANGED <<readerVars, cancel, scanQ, hitQ, strQ, metaQ, scanVars,
                   carveHit, carveTotal, strVars, metaVars, filesCarved, fate,
                   panics>>

CarveEnd(c) ==
    /\ Running /\ carvePc[c] = "recv" /\ hitQ = <<>>
    /\ ReaderClosed /\ ScannersDone
    /\ carvePc' = [carvePc EXCEPT ![c] = "done"]
    /\ UNCHANGED <<readerVars, cancel, scanQ, hitQ, strQ, metaQ, scanVars,
                   carveHit, carveTotal, strVars, metaVars, filesCarved, fate,
                   panics>>

(* c leaves its loop.  It gives up the hits in `lost`, and the last carver *)
(* to leave takes the receiver, and all that is queued, with it.           *)
QueuedHits == {hitQ[i] : i \in DOMAIN hitQ}
CarverLeaves(c, lost) ==
    LET last == \A d \in Carvers \ {c} : carvePc[d] = "done"
        gone == lost \cup IF last THEN QueuedHits ELSE {}
    IN  /\ carvePc' = [carvePc EXCEPT ![c] = "done"]
        /\ carveHit' = [carveHit EXCEPT ![c] = 0]
        /\ carveTotal' = [carveTotal EXCEPT ![c] = 0]
        /\ hitQ' = IF last THEN <<>> ELSE hitQ
        /\ fate' = [h \in Sigs |-> IF h \in gone THEN "dropped" ELSE fate[h]]

(* The load of files_carved that follows the receive.                      *)
CheckLimit(c) ==
    /\ Running /\ carvePc[c] = "check"
    /\ IF LimitReached(filesCarved)
       THEN CarverLeaves(c, {carveHit[c]})
       ELSE /\ carvePc' = [carvePc EXCEPT ![c] = "carve"]
            /\ UNCHANGED <<hitQ, carveHit, carveTotal, fate>>
    /\ UNCHANGED <<readerVars, cancel, scanQ, strQ, metaQ, scanVars, strVars,
                   metaVars, filesCarved, panics>>

(* No handler, Ok(None) or Err: the hit leaves no file behind it.          *)
CarveNothing(c) ==
    /\ Running /\ carvePc[c] = "carve"
    /\ \E f \in Settled \ {"file"} :
          fate' = [fate EXCEPT ![carveHit[c]] = f]
    /\ carvePc' = [carvePc EXCEPT ![c] = "recv"]
    /\ carveHit' = [carveHit EXCEPT ![c] = 0]
    /\ UNCHANGED <<readerVars, cancel, scanQ, hitQ, strQ, metaQ, scanVars,
                   carveTotal, strVars, metaVars, filesCarved, panics>>

(* Mutant: new_total is checked before the record is sent.                 *)
CarveFileUnrecorded(c) ==
    /\ Running /\ carvePc[c] = "carve"
    /\ filesCarved' = filesCarved + 1
    /\ carveTotal' = [carveTotal EXCEPT ![c] = filesCarved + 1]
    /\ fate' = [fate EXCEPT ![carveHit[c]] = "file"]
    /\ carvePc' = [carvePc EXCEPT ![c] =
                      IF LimitReached(filesCarved + 1) THEN "limit" ELSE "record"]
    /\ UNCHANGED <<readerVars, cancel, scanQ, hitQ, strQ, metaQ, scanVars,
                   carveHit, strVars, metaVars, panics>>

(* Ok(Some(file)), counted by fetch_add, whose result is new_total.        *)
CarveFile(c) ==
    /\ Running /\ carvePc[c] = "carve"
    /\ filesCarved' = filesCarved + 1
    /\ carveTotal' = [carveTotal EXCEPT ![c] = filesCarved + 1]
    /\ fate' = [fate EXCEPT ![carveHit[c]] = "file"]
    /\ carvePc' = [carvePc EXCEPT ![c] = "record"]
    /\ UNCHANGED <<readerVars, cancel, scanQ, hitQ, strQ, metaQ, scanVars,
                   carveHit, strVars, metaVars, panics>>

(* A carved sqlite file goes on to the browser parsers, in this order.     *)
AfterRecord(c) ==
    IF carveHit[c] \in SqliteSigs THEN "history" ELSE "limit"

SendRecord(c) ==
    /\ Running /\ carvePc[c] = "record"
    /\ SendMeta(Event("file", carveHit[c])) \/ MetaClosed
    /\ carvePc' = [carvePc EXCEPT ![c] = AfterRecord(c)]
    /\ UNCHANGED <<readerVars, cancel, scanQ, hitQ, strQ, scanVars, carveHit,
                   carveTotal, strVars, metaVars, filesCarved, fate, panics>>

ParserStages == {"history", "cookie", "download"}
NextStage(stage) ==
    CASE stage = "history" -> "cookie"
      [] stage = "cookie" -> "download"
      [] stage = "download" -> "limit"

(* A parser finds no record, or one; an error is counted and yields none.  *)
(* A closed metadata channel skips the parsers that are left.              *)
ParseSqlite(c) ==
    /\ Running /\ carvePc[c] \in ParserStages
    /\ \/ /\ UNCHANGED metaQ
          /\ carvePc' = [carvePc EXCEPT ![c] = NextStage(@)]
       \/ /\ SendMeta(Event(carvePc[c], carveHit[c]))
          /\ carvePc' = [carvePc EXCEPT ![c] = NextStage(@)]
       \/ /\ MetaClosed
          /\ carvePc' = [carvePc EXCEPT ![c] = "limit"]
    /\ UNCHANGED <<readerVars, cancel, scanQ, hitQ, strQ, scanVars, carveHit,
                   carveTotal, strVars, metaVars, filesCarved, fate, panics>>

(* The carver whose file made the limit stops, the others go on.           *)
CheckTotal(c) ==
    /\ Running /\ carvePc[c] = "limit"
    /\ IF LimitReached(carveTotal[c])
       THEN CarverLeaves(c, {})
       ELSE /\ carvePc' = [carvePc EXCEPT ![c] = "recv"]
            /\ carveHit' = [carveHit EXCEPT ![c] = 0]
            /\ carveTotal' = [carveTotal EXCEPT ![c] = 0]
            /\ UNCHANGED <<hitQ, fate>>
    /\ UNCHANGED <<readerVars, cancel, scanQ, strQ, metaQ, scanVars, strVars,
                   metaVars, filesCarved, panics>>

-----------------------------------------------------------------------------
(* The string workers.                                                     *)

StrRecv(t) ==
    /\ Running /\ strPc[t] = "recv" /\ strQ # <<>>
    /\ strQ' = Tail(strQ)
    /\ strTodo' = [strTodo EXCEPT ![t] = Head(strQ)]
    /\ strPc' = [strPc EXCEPT ![t] = "work"]
    /\ UNCHANGED <<readerVars, cancel, scanQ, hitQ, metaQ, scanVars, carveVars,
                   metaVars, filesCarved, fate, panics>>

StrEnd(t) ==
    /\ Running /\ strPc[t] = "recv" /\ strQ = <<>>
    /\ ReaderClosed /\ ScannersDone
    /\ strPc' = [strPc EXCEPT ![t] = "done"]
    /\ UNCHANGED <<readerVars, cancel, scanQ, hitQ, strQ, metaQ, scanVars,
                   carveVars, strTodo, metaVars, filesCarved, fate, panics>>

(* Spans are handled in order; a failed send skips the artefact only.      *)
SendArtefact(t) ==
    /\ Running /\ strPc[t] = "work"
    /\ \E p \in strTodo[t] :
          /\ \A q \in strTodo[t] : p <= q
          /\ SendMeta(Event("string", p)) \/ MetaClosed
          /\ strTodo' = [strTodo EXCEPT ![t] = @ \ {p}]
          /\ strPc' = [strPc EXCEPT ![t] = IF strTodo[t] = {p} THEN "recv"
                                           ELSE "work"]
    /\ UNCHANGED <<readerVars, cancel, scanQ, hitQ, strQ, scanVars, carveVars,
                   metaVars, filesCarved, fate, panics>>

-----------------------------------------------------------------------------
(* The metadata thread.  `log` is what the sink accepted, `flushed` how    *)
(* much of it a flush has pushed out of the sink's buffers.                *)

MetaRecv ==
    /\ Running /\ metaPc = "run" /\ metaQ # <<>>
    /\ metaQ' = Tail(metaQ)
    /\ \/ /\ Head(metaQ).kind = "flush"
          /\ flushed' = Len(log) /\ UNCHANGED <<log, metaErrors>>
       \/ /\ Head(metaQ).kind # "flush"
          /\ log' = Append(log, Head(metaQ)) /\ UNCHANGED <<flushed, metaErrors>>
       \/ /\ WriteFaults
          /\ metaErrors' = metaErrors + 1 /\ UNCHANGED <<log, flushed>>
    /\ UNCHANGED <<readerVars, cancel, scanQ, hitQ, strQ, scanVars, carveVars,
                   strVars, metaPc, filesCarved, fate, panics>>

MetaEnd ==
    /\ Running /\ metaPc = "run" /\ metaQ = <<>> /\ MetaSendersGone
    /\ metaPc' = "done"
    /\ \/ flushed' = Len(log) /\ UNCHANGED metaErrors
       \/ /\ WriteFaults
          /\ metaErrors' = metaErrors + 1 /\ UNCHANGED flushed
    /\ UNCHANGED <<readerVars, cancel, scanQ, hitQ, strQ, metaQ, scanVars,
                   carveVars, strVars, log, filesCarved, fate, panics>>

-----------------------------------------------------------------------------
(* A panic unwinds one thread and drops its ends of the channels; the join *)
(* ignores it.                                                             *)

PanicBudget == Running /\ panics < MaxPanics /\ panics' = panics + 1

ScanPanic(s) ==
    /\ PanicBudget /\ scanPc[s] \in {"hits", "strings", "entropy"}
    /\ Counted(s) = {}
    /\ scanPc' = [scanPc EXCEPT ![s] = "done"]
    /\ scanJob' = [scanJob EXCEPT ![s] = NoJob]
    /\ scanTodo' = [scanTodo EXCEPT ![s] = {}]
    /\ UNCHANGED <<readerVars, cancel, scanQ, hitQ, strQ, metaQ, carveVars,
                   strVars, metaVars, filesCarved, fate>>

CarvePanic(c) ==
    /\ PanicBudget /\ carvePc[c] = "carve"
    /\ CarverLeaves(c, {carveHit[c]})
    /\ UNCHANGED <<readerVars, cancel, scanQ, strQ, metaQ, scanVars, strVars,
                   metaVars, filesCarved>>

StrPanic(t) ==
    /\ PanicBudget /\ strPc[t] = "work"
    /\ strPc' = [strPc EXCEPT ![t] = "done"]
    /\ strTodo' = [strTodo EXCEPT ![t] = {}]
    /\ UNCHANGED <<readerVars, cancel, scanQ, hitQ, strQ, metaQ, scanVars,
                   carveVars, metaVars, filesCarved, fate>>

MetaPanic ==
    /\ PanicBudget /\ metaPc = "run" /\ metaQ # <<>>
    /\ metaPc' = "done" /\ metaQ' = <<>>
    /\ UNCHANGED <<readerVars, cancel, scanQ, hitQ, strQ, scanVars, carveVars,
                   strVars, log, flushed, metaErrors, filesCarved, fate>>

-----------------------------------------------------------------------------
ReaderStep ==
    \/ LoopEnds \/ CheckFiles \/ CheckStop \/ ReadChunk \/ ReadFails
    \/ SendJob \/ SendFlush \/ NextChunk
    \/ CloseChannels \/ JoinScanners \/ JoinCarvers \/ JoinStringers
    \/ SendSummary \/ Finish \/ ProcessExit
ScanStep(s) ==
    \/ ScanRecv(s) \/ ScanEnd(s) \/ CountHit(s) \/ SendHit(s) \/ HitsSent(s)
    \/ SendSpans(s) \/ SendEntropy(s)
CarveStep(c) ==
    \/ CarveRecv(c) \/ CarveEnd(c) \/ CheckLimit(c)
    \/ CarveNothing(c) \/ CarveFile(c)
    \/ SendRecord(c) \/ ParseSqlite(c) \/ CheckTotal(c)
StrStep(t) == StrRecv(t) \/ StrEnd(t) \/ SendArtefact(t)
MetaStep == MetaRecv \/ MetaEnd
Panic ==
    \/ \E s \in Scanners : ScanPanic(s)
    \/ \E c \in Carvers : CarvePanic(c)
    \/ \E t \in Stringers : StrPanic(t)
    \/ MetaPanic

(* The run is over; only this keeps TLC from calling it a deadlock.        *)
Over == rpc \in {"done", "exited"}
Terminated == Over /\ UNCHANGED vars

Next ==
    \/ ReaderStep
    \/ \E s \in Scanners : ScanStep(s)
    \/ \E c \in Carvers : CarveStep(c)
    \/ \E t \in Stringers : StrStep(t)
    \/ MetaStep
    \/ Cancel
    \/ Panic
    \/ Terminated

Spec == Init /\ [][Next]_vars

(* The operating system runs every thread that can run.  Nobody has to     *)
(* press Ctrl+C and nothing has to panic.                                  *)
Fairness ==
    /\ WF_vars(ReaderStep)
    /\ \A s \in Scanners : WF_vars(ScanStep(s))
    /\ \A c \in Carvers : WF_vars(CarveStep(c))
    /\ \A t \in Stringers : WF_vars(StrStep(t))
    /\ WF_vars(MetaStep)

FairSpec == Spec /\ Fairness

-----------------------------------------------------------------------------
(* The types of the state, channel bounds included.                        *)
ReaderPcs == {"loop", "ready", "send", "flush", "next", "close", "joinScan",
              "joinCarve", "joinString", "summary", "joinMeta", "done",
              "failed", "exited"}
CarvePcs == {"recv", "check", "carve", "record", "limit", "done"}
            \cup ParserStages
ScanPcs == {"recv", "hits", "strings", "entropy", "done"}
StrPcs == {"recv", "work", "done"}
Stops == {"max_bytes", "max_chunks", "max_files", "cancelled"}
Events == [kind : Kinds, id : Nat]

ReaderType ==
    /\ rpc \in ReaderPcs /\ cursor \in Nat /\ job \in Jobs
    /\ bytesScanned \in Nat /\ chunksSeen \in Nat /\ nextOffset \in Nat
    /\ stop \subseteq Stops /\ saved \subseteq Nat
    /\ rpc = "ready" => cursor \in Ids
ScanQType == scanQ \in Seq(Jobs) /\ Len(scanQ) <= ChannelCap
HitQType == hitQ \in Seq(Sigs) /\ Len(hitQ) <= WideCap
StrQType == strQ \in Seq(SUBSET Spans) /\ Len(strQ) <= ChannelCap
MetaQType == metaQ \in Seq(Events) /\ Len(metaQ) <= WideCap
ScanType ==
    /\ scanPc \in [Scanners -> ScanPcs]
    /\ scanJob \in [Scanners -> Jobs]
    /\ scanTodo \in [Scanners -> SUBSET Sigs]
CarveType ==
    /\ carvePc \in [Carvers -> CarvePcs]
    /\ carveHit \in [Carvers -> Sigs \cup {0}]
    /\ \A c \in Carvers :
          carvePc[c] \notin {"recv", "done"} => carveHit[c] \in Sigs
    /\ carveTotal \in [Carvers -> Nat]
StrType ==
    /\ strPc \in [Stringers -> StrPcs]
    /\ strTodo \in [Stringers -> SUBSET Spans]
MetaType ==
    /\ metaPc \in {"run", "done"} /\ log \in Seq(Events)
    /\ flushed \in Nat /\ metaErrors \in Nat
FateType == fate \in [Sigs -> Fates]

TypeOK ==
    /\ ReaderType /\ cancel \in BOOLEAN
    /\ ScanQType /\ HitQType /\ StrQType /\ MetaQType
    /\ ScanType /\ CarveType /\ StrType /\ MetaType
    /\ filesCarved \in Nat /\ FateType /\ panics \in Nat

(* The file limit is a load and a later fetch_add: every carver may be past*)
(* the check when the limit is reached, so a run can carve up to one file  *)
(* per other carver too many, and never more.  A limit of zero is exact.   *)
BoundedOvershoot ==
    \A limit \in MaxFiles :
        filesCarved <= IF limit = 0 THEN 0 ELSE limit + PoolSize - 1

Dropped == {h \in Sigs : fate[h] = "dropped"}

(* Before the file limit is reached a counted hit is given up only by the  *)
(* panic of the carver that holds it, one hit a panic: no carver leaves    *)
(* its loop while hits are on their way, whatever the order in which the   *)
(* reader closes the channels and the scanners finish, and the others work *)
(* off what a carver that panicked leaves queued.  Only when the last of   *)
(* them has panicked the channel and all that is still found are lost.     *)
DroppedOnlyAtLimit ==
    \/ LimitReached(filesCarved)
    \/ Cardinality(Dropped) <= panics
    \/ panics >= Cardinality(Carvers)

(* A run that ends normally, with no panic and no sink error, has recorded *)
(* every carved file, its summary is the last record and agrees with the   *)
(* records before it, and the final flush came after it.                   *)
RunRecorded ==
    rpc = "done" /\ panics = 0 /\ metaErrors = 0 =>
        /\ log # <<>> /\ flushed = Len(log)
        /\ log[Len(log)] = Event("summary", filesCarved)
        /\ \A h \in Sigs :
              fate[h] = "file" <=> \E i \in DOMAIN log : log[i] = Event("file", h)
        /\ filesCarved = Cardinality({h \in Sigs : fate[h] = "file"})

(* Reads return what they are asked for, a resumed scan starts at a chunk  *)
(* boundary, and the overlap reaches over a signature less its first byte. *)
Geometry ==
    /\ ChunkSize # 0
    /\ \E m \in 0 .. ResumeOffset : ResumeOffset = m * ChunkSize
    /\ Overlap >= PatLen - 1
    /\ \A h \in Sigs : h + PatLen <= EvidenceLen
    /\ "short" \notin ReadFaults

(* What the run claims to have dealt with: the evidence up to the offset   *)
(* its checkpoint carries, or all of it when no limit stopped the run.     *)
(* Every signature in that part has been handed to its handler.            *)
Claimed == IF stop = {} THEN EvidenceLen ELSE Min2(nextOffset, EvidenceLen)
CheckpointCovers ==
    rpc = "done" =>
        \A h \in Sigs :
            ResumeOffset <= h /\ h < Claimed => fate[h] \in Settled

(* Every run ends: the threads never wait for each other for ever,         *)
(* whichever limit, cancellation, read error or panic occurs.              *)
Termination == <>Over

(* The detailed run implements the ledger of hits: found once, settled or  *)
(* dropped once, a file recorded at most once, none open at the end.       *)
FileRecords ==
    [h \in Sigs |-> Cardinality({i \in DOMAIN log : log[i] = Event("file", h)})]
Ledger == INSTANCE HitLedger WITH records <- FileRecords, closed <- rpc = "done"
ImplementsLedger == Ledger!Spec
=============================================================================
