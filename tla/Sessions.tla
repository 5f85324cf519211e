------------------------------ MODULE Sessions ------------------------------
(***************************************************************************)
(* A sequence of runs of the program on one piece of evidence: each starts *)
(* afresh or from the checkpoint an earlier one left, creates its metadata *)
(* files under its run id, scans, and ends by itself, by Ctrl+C, by a      *)
(* limit, or by a crash.                                                   *)
(*                                                                         *)
(* Within a run the worker threads are left out: Pipeline shows that a run *)
(* that ends has handed every signature it found to a handler and recorded *)
(* what was carved (without a file limit, which drops hits).  So scanning  *)
(* a chunk is one step here, and its records wait in the sink's buffers.   *)
(***************************************************************************)
EXTENDS Chunking

CONSTANTS
    EvidenceLen,
    Sigs, PatLen,  \* offsets that carry a signature, and its length
    Options,       \* the command lines: [size, overlap, maxBytes, maxChunks, run]
    RunIds,
    MaxRuns        \* bound: how many times the program is started

ASSUME OptionsAssumption ==
    /\ EvidenceLen \in 0 .. MaxU64
    /\ Options \subseteq [size : 0 .. MaxU64, overlap : 0 .. MaxU64,
                          maxBytes : 0 .. MaxU64, maxChunks : 0 .. MaxU64,
                          run : RunIds]
    /\ Sigs \subseteq Nat /\ PatLen \in Nat \ {0} /\ MaxRuns \in Nat

VARIABLES
    mode,      \* "idle", or "scanning" while a run is in its reader loop
    opts,      \* the command line of the last run
    resume, cursor, seen, scanned, next,  \* the reader's locals
    buffered,  \* signatures recorded in this run and not flushed yet
    records,   \* run id -> signatures with a record in its metadata files
    times,     \* history: how often each signature was handled, counting
               \* from the fresh start this run goes back to
    ckpt,      \* {} or the checkpoint file, with `times` when it was saved
    runs

readerVars == <<resume, cursor, seen, scanned, next>>
vars == <<mode, opts, readerVars, buffered, records, times, ckpt, runs>>

Never == [h \in Sigs |-> 0]

Init ==
    /\ mode = "idle" /\ opts \in Options
    /\ resume = 0 /\ cursor = 0 /\ seen = 0 /\ scanned = 0 /\ next = 0
    /\ buffered = {} /\ records = [r \in RunIds |-> {}]
    /\ times = Never /\ ckpt = {} /\ runs = 0

-----------------------------------------------------------------------------
(* main builds the sink first, and the sink creates its files with         *)
(* File::create: what they held is gone.                                   *)
OpenSink(o) == /\ runs < MaxRuns /\ runs' = runs + 1
               /\ opts' = o
               /\ records' = [records EXCEPT ![o.run] = {}]
               /\ buffered' = {}

BeginAt(offset) ==
    /\ mode' = "scanning"
    /\ resume' = offset /\ next' = offset /\ seen' = 0 /\ scanned' = 0

StartFresh(o) ==
    /\ mode = "idle"
    /\ OpenSink(o)
    /\ BeginAt(0) /\ cursor' = 0
    /\ times' = Never
    /\ UNCHANGED ckpt

(* Mutant: a checkpoint of another chunk size is accepted.                 *)
FitsAnySize(c, o) == c.len = EvidenceLen /\ c.next < EvidenceLen

(* A checkpoint is refused unless it fits; its run id is not looked at     *)
(* beyond a warning.                                                       *)
Fits(c, o) == /\ c.size = o.size /\ c.overlap = o.overlap
              /\ c.len = EvidenceLen
              /\ c.next < EvidenceLen

StartResumed(o, c) ==
    /\ mode = "idle" /\ Fits(c, o)
    /\ OpenSink(o)
    /\ BeginAt(c.next) /\ cursor' = FirstChunk(c.next, EvidenceLen, o.size)
    /\ times' = c.times
    /\ UNCHANGED ckpt

(* The checkpoint cannot be read or does not fit, which is found out after *)
(* the sink was opened.                                                    *)
ResumeRefused(o) ==
    /\ mode = "idle" /\ \A c \in ckpt : ~Fits(c, o)
    /\ OpenSink(o)
    /\ UNCHANGED <<mode, readerVars, times, ckpt>>

-----------------------------------------------------------------------------
Ids == ChunkIds(EvidenceLen, opts.size)

(* Mutant: the limit is looked at after a chunk, be it the last one.       *)
OutOfChunksLate == seen + ResumeChunks(resume, opts.size) >= opts.maxChunks

(* The limits, as the loop sees them.  Both are also looked at before the  *)
(* loop; in it, max_chunks is looked at when there is a chunk to read, and *)
(* max_bytes also after a chunk, be it the last one.                       *)
OutOfChunks == /\ seen + ResumeChunks(resume, opts.size) >= opts.maxChunks
               /\ seen = 0 \/ cursor \in Ids
OutOfBytes == scanned + resume >= opts.maxBytes

ScanChunk ==
    /\ mode = "scanning" /\ cursor \in Ids /\ ~OutOfChunks /\ ~OutOfBytes
    /\ LET room == opts.maxBytes - (scanned + resume)
           len == Min2(room, ChunkLength(cursor, EvidenceLen, opts.size,
                                         opts.overlap))
           hits == {h \in Sigs :
                      FoundIn(cursor, h, PatLen, len, EvidenceLen, opts.size)}
       IN  /\ scanned' = scanned + len
           /\ times' = [h \in Sigs |-> times[h] + IF h \in hits THEN 1 ELSE 0]
           /\ buffered' = buffered \cup hits
    /\ seen' = seen + 1 /\ cursor' = cursor + 1
    /\ next' = SatAdd(ChunkStart(cursor, opts.size), opts.size)
    /\ UNCHANGED <<mode, opts, resume, records, ckpt, runs>>

(* The progress flush.                                                     *)
Flush == /\ mode = "scanning" /\ buffered # {}
         /\ records' = [records EXCEPT ![opts.run] = @ \cup buffered]
         /\ buffered' = {}
         /\ UNCHANGED <<mode, opts, readerVars, times, ckpt, runs>>

(* Mutant: what the last chunk reached over is saved, overlap included,    *)
(* without min(total_bytes).                                               *)
SavedUnclamped == [size |-> opts.size, overlap |-> opts.overlap,
                   next |-> next + opts.overlap, len |-> EvidenceLen,
                   times |-> times]

SavedState == [size |-> opts.size, overlap |-> opts.overlap,
               next |-> Min2(next, EvidenceLen), len |-> EvidenceLen,
               times |-> times]

(* Everything is joined and flushed; the checkpoint is written only when   *)
(* the loop was left early.                                                *)
JoinAndFlush ==
    /\ mode = "scanning" /\ mode' = "idle"
    /\ records' = [records EXCEPT ![opts.run] = @ \cup buffered]
    /\ buffered' = {}
    /\ UNCHANGED <<opts, readerVars, times, runs>>

(* Mutant: the checkpoint carries the offset this run started from.        *)
EndRunStale(early) ==
    /\ JoinAndFlush
    /\ ckpt' = IF early THEN {[SavedState EXCEPT !.next = resume]} ELSE ckpt

EndRun(early) == JoinAndFlush /\ ckpt' = IF early THEN {SavedState} ELSE ckpt

(* Ctrl+C is noticed at the top of the loop, with a chunk still to read.   *)
StopCancelled == cursor \in Ids /\ EndRun(TRUE)
StopLimit == (OutOfChunks \/ OutOfBytes) /\ EndRun(TRUE)
RunComplete == cursor \notin Ids /\ ~OutOfChunks /\ ~OutOfBytes /\ EndRun(FALSE)

(* fs::write truncates the file before it writes: killed in between, the   *)
(* run leaves no checkpoint that can be read, not even an older one.       *)
TornCheckpoint == (OutOfChunks \/ OutOfBytes \/ cursor \in Ids)
                  /\ JoinAndFlush /\ ckpt' = {}

(* Killed, or left through an error: no flush, no checkpoint.              *)
Crash == /\ mode = "scanning" /\ mode' = "idle"
         /\ buffered' = {}
         /\ UNCHANGED <<opts, readerVars, records, times, ckpt, runs>>

Idle == mode = "idle" /\ runs = MaxRuns /\ UNCHANGED vars

Next ==
    \/ \E o \in Options : StartFresh(o)
    \/ \E o \in Options : \E c \in ckpt : StartResumed(o, c)
    \/ \E o \in Options : ResumeRefused(o)
    \/ ScanChunk \/ Flush
    \/ StopCancelled \/ StopLimit \/ RunComplete
    \/ TornCheckpoint \/ Crash
    \/ Idle

Spec == Init /\ [][Next]_vars

-----------------------------------------------------------------------------
TypeOK ==
    /\ mode \in {"idle", "scanning"} /\ opts \in Options
    /\ resume \in Nat /\ cursor \in Nat /\ seen \in Nat /\ scanned \in Nat
    /\ next \in Nat
    /\ buffered \subseteq Sigs /\ records \in [RunIds -> SUBSET Sigs]
    /\ times \in [Sigs -> Nat]
    /\ ckpt \subseteq [size : Nat, overlap : Nat, next : 0 .. EvidenceLen,
                       len : {EvidenceLen}, times : [Sigs -> Nat]]
    /\ runs \in 0 .. MaxRuns

(* What the command lines have to be like for a chain of runs to be exact: *)
(* chunks are not empty, the overlap reaches over a signature less its     *)
(* first byte, and no byte limit is so low that it could cut a read short. *)
(* The position a run compares with the limit counts every overlap it has  *)
(* read, so it may be ahead of the offset by one overlap per chunk.        *)
WholeReads ==
    /\ EvidenceLen # 0 /\ \A h \in Sigs : h + PatLen <= EvidenceLen
    /\ \A o \in Options :
         /\ o.size # 0 /\ o.overlap >= PatLen - 1
         /\ \A k \in ChunkIds(EvidenceLen, o.size) :
              k * (o.size + o.overlap)
                + ChunkLength(k, EvidenceLen, o.size, o.overlap) < o.maxBytes

(* A checkpoint stands for exactly the evidence before its offset: along   *)
(* the chain of runs that led to it every signature before the offset was  *)
(* handled once, none twice, and none behind it at all - however often the *)
(* chain was cancelled, limited, crashed and resumed.                      *)
ResumeExact ==
    \A c \in ckpt : \A h \in Sigs :
        c.times[h] = IF h < c.next THEN 1 ELSE 0

(* A checkpoint that was written can be used: the same command line would  *)
(* not be refused.                                                         *)
CheckpointUsable == \A c \in ckpt : c.next < EvidenceLen

(* A run that reaches the end by itself has handled every signature once,  *)
(* counting from the fresh start its chain goes back to.                   *)
CompleteExact ==
    [][RunComplete => \A h \in Sigs : h + PatLen <= EvidenceLen => times[h] = 1]_vars

(* A record that is on disk stays there, whatever is started later.        *)
RecordsSurvive == [][\A r \in RunIds : records[r] \subseteq records'[r]]_vars
=============================================================================
