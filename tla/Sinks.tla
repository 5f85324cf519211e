------------------------------- MODULE Sinks -------------------------------
(***************************************************************************)
(* The metadata sinks (src/src/metadata): the JSON-lines, CSV and Parquet  *)
(* outputs, driven by the metadata thread (pipeline/workers.rs).           *)
(*                                                                         *)
(* A record of a line format is Parts units, the last of them its end of   *)
(* line; units gather in the writer's buffer of Cap units and reach the    *)
(* file when it is full, flushed or dropped.  A record of Parquet waits    *)
(* twice, in the category's rows and in the open row group, and its file   *)
(* can be read only once the footer is written.  At most MaxFails writes   *)
(* to disk fail, and the process may end at any moment without dropping    *)
(* the sink (an early return of the pipeline, a kill).                     *)
(***************************************************************************)
EXTENDS Integers, Sequences, FiniteSets, SequencesExt

CONSTANTS
    Kinds,      \* the kinds of record the metadata thread receives
    Parts,      \* units of a record in a line format
    Cap,        \* units a line writer buffers
    RowGroup,   \* parquet_row_group_size
    MaxRecords, \* bound: records received
    MaxFails    \* bound: writes to disk that fail

(* File types that Parquet treats alike stand for each other. *)
FileKinds == {"jpeg", "png", "gif", "sqlite", "pdf", "zip", "docx", "webp", "mp3"}

ArtefactKinds == {"url", "email", "phone", "generic"}

OtherKinds == {"history", "cookies", "downloads", "run", "entropy"}

ASSUME SinksAssumption ==
    /\ Kinds \subseteq FileKinds \cup ArtefactKinds \cup OtherKinds
    /\ Parts \in Nat \ {0, 1} /\ Cap \in Nat \ {0} /\ RowGroup \in Nat \ {0}
    /\ MaxRecords \in Nat /\ MaxFails \in Nat

VARIABLES
    backend,   \* MetadataBackendKind
    asked,     \* records received so far; a record is its number
    accepted,  \* by file: the records whose record_x returned Ok, in order
    errors,    \* metadata_errors
    fails,     \* by file: writes to disk that failed
    buf,       \* by file: units in the line writer, or rows of the category
    group,     \* by file: rows of the open row group (ArrowWriter)
    file,      \* by file: units, or rows of closed row groups, on disk
    status,    \* by file: of a Parquet writer, none, open, broken or finished
    torn,      \* by file: a CSV record was left without its end
    phase,     \* of the metadata thread
    todo,      \* files the current flush or drop has still to visit
    flushed    \* by file: how many records were accepted at the last good flush

vars == <<backend, asked, accepted, errors, fails, buf, group, file, status, torn,
          phase, todo, flushed>>

Backends == {"jsonl", "csv", "parquet"}

ParquetFile(k) == CASE k = "docx" -> "zip" [] k = "mp3" -> "other" [] OTHER -> k

FileOf(b, k) ==
    CASE b = "parquet" /\ k = "generic"     -> "nowhere"
      [] b = "parquet" /\ k \in FileKinds   -> ParquetFile(k)
      [] b # "parquet" /\ k \in FileKinds   -> "files"
      [] b # "parquet" /\ k \in ArtefactKinds -> "strings"
      [] OTHER -> k

LineOrder ==
    <<"files", "strings", "history", "cookies", "downloads", "run", "entropy">>

ParquetOrder ==
    <<"jpeg", "png", "gif", "sqlite", "pdf", "zip", "webp", "other", "url", "email",
      "phone", "history", "cookies", "downloads", "entropy", "run">>

Names == {FileOf(b, k) : b \in Backends, k \in Kinds} \ {"nowhere"}

Files == {FileOf(backend, k) : k \in Kinds} \ {"nowhere"}

(* Where a flush or a drop comes to file f. *)
Place(f) ==
    LET order == IF backend = "parquet" THEN ParquetOrder ELSE LineOrder
    IN  CHOOSE n \in DOMAIN order : order[n] = f

Line == backend # "parquet"

Unit(r, i) == <<r, i>>

UnitsEndless(r) == [i \in 1..(Parts - 1) |-> Unit(r, i)]

Units(r) == [i \in 1..Parts |-> Unit(r, i)]

(* The header record 0 that CsvSink::new leaves in the buffer. *)
Opening(b) == IF b = "csv" THEN Units(0) ELSE << >>

Init ==
    /\ backend \in Backends
    /\ asked = 0
    /\ accepted = [f \in Names |-> << >>]
    /\ errors = 0
    /\ fails = [f \in Names |-> 0]
    /\ buf = [f \in Names |-> Opening(backend)]
    /\ group = [f \in Names |-> << >>]
    /\ file = [f \in Names |-> << >>]
    /\ status = [f \in Names |-> "none"]
    /\ torn = [f \in Names |-> FALSE]
    /\ phase = "taking"
    /\ todo = {}
    /\ flushed = [f \in Names |-> 0]

MayFail == FoldFunction(+, 0, fails) < MaxFails

Of(f) == [buf |-> buf[f], group |-> group[f], file |-> file[f], failed |-> FALSE]

-----------------------------------------------------------------------------
(* Writers: each operator yields the set of outcomes of a call. *)

(* A BufWriter forgets what did get written when the write fails; the CSV    *)
(* writer keeps its whole buffer, and writes that part again later.          *)
SpillFails(w) ==
    { [w EXCEPT !.file = @ \o SubSeq(w.buf, 1, n),
                !.buf = IF backend = "csv" THEN @ ELSE SubSeq(@, n + 1, Len(@)),
                !.failed = TRUE] : n \in 0..(Len(w.buf) - 1) }

Spill(w) ==
    {[w EXCEPT !.file = @ \o w.buf, !.buf = << >>]}
        \cup (IF MayFail THEN SpillFails(w) ELSE {})

PutUnitDirect(w, u) ==
    IF w.failed THEN {w}
    ELSE IF Len(w.buf) < Cap THEN {[w EXCEPT !.buf = Append(@, u)]}
    ELSE {[w EXCEPT !.file = Append(@, u)]}

PutUnit(w, u) ==
    IF w.failed THEN {w}
    ELSE IF Len(w.buf) < Cap THEN {[w EXCEPT !.buf = Append(@, u)]}
    ELSE { IF x.failed THEN x ELSE [x EXCEPT !.buf = Append(@, u)] : x \in Spill(w) }

PutLine(w, us) ==
    LET put[n \in 0..Len(us)] ==
          IF n = 0 THEN {w} ELSE UNION {PutUnit(x, us[n]) : x \in put[n - 1]}
    IN  put[Len(us)]

(* ArrowWriter::write: a full row group is closed and written. *)
PutGroup(w, broken) ==
    IF Len(w.group) < RowGroup THEN {w}
    ELSE (IF broken THEN {}
          ELSE {[w EXCEPT !.file = @ \o SubSeq(w.group, 1, RowGroup),
                          !.group = SubSeq(@, RowGroup + 1, Len(@))]})
         \cup (IF broken \/ MayFail THEN {[w EXCEPT !.group = << >>, !.failed = TRUE]} ELSE {})

FlushRowsKeeping(w, broken) == PutGroup([w EXCEPT !.group = @ \o w.buf], broken)

FlushRows(w, broken) ==
    PutGroup([w EXCEPT !.group = @ \o w.buf, !.buf = << >>], broken)

AppendRowLate(w, r, broken) ==
    LET held == [w EXCEPT !.buf = Append(@, r)]
    IN  IF Len(held.buf) > RowGroup THEN FlushRows(held, broken) ELSE {held}

AppendRow(w, r, broken) ==
    LET held == [w EXCEPT !.buf = Append(@, r)]
    IN  IF Len(held.buf) >= RowGroup THEN FlushRows(held, broken) ELSE {held}

(* finish: what is held becomes the last row group, then the footer. *)
FinishRows(w, broken) ==
    (IF broken THEN {} ELSE {[w EXCEPT !.file = @ \o w.group \o w.buf,
                                       !.group = << >>, !.buf = << >>]})
        \cup (IF broken \/ MayFail
              THEN {[w EXCEPT !.group = << >>, !.buf = << >>, !.failed = TRUE]} ELSE {})

(* The file f after outcome w; a failure that no earlier one caused is new. *)
Became(f, w) ==
    /\ buf' = [buf EXCEPT ![f] = w.buf]
    /\ group' = [group EXCEPT ![f] = w.group]
    /\ file' = [file EXCEPT ![f] = w.file]
    /\ fails' = [fails EXCEPT ![f] = @ + IF w.failed /\ status[f] # "broken" THEN 1 ELSE 0]

Broken(f) == status[f] = "broken"

Mark(f, w, good) ==
    status' = [status EXCEPT ![f] = IF w.failed THEN "broken" ELSE good]

-----------------------------------------------------------------------------
(* The metadata thread. *)

Accept(f, r, ok) ==
    /\ accepted' = IF ok THEN [accepted EXCEPT ![f] = Append(@, r)] ELSE accepted
    /\ errors' = errors + IF ok THEN 0 ELSE 1

(* record_x of the JSON-lines sink. *)
RecordJson(f, r) ==
    /\ backend = "jsonl"
    /\ \E w \in PutLine(Of(f), Units(r)) :
         /\ Became(f, w)
         /\ Accept(f, r, ~w.failed)
         /\ UNCHANGED <<status, torn>>

(* record_x of the CSV sink: once a record was left half written, the count  *)
(* of fields is wrong for ever, and every later record lacks its end.        *)
RecordCsv(f, r) ==
    /\ backend = "csv"
    /\ \E w \in PutLine(Of(f), IF torn[f] THEN Front(Units(r)) ELSE Units(r)) :
         /\ Became(f, w)
         /\ torn' = [torn EXCEPT ![f] = @ \/ w.failed]
         /\ Accept(f, r, ~torn'[f])
         /\ UNCHANGED status

(* record_x of the Parquet sink: the writer is created on first use. *)
RecordParquet(f, r) ==
    /\ backend = "parquet"
    /\ \E w \in AppendRow(Of(f), r, Broken(f)) :
         /\ Became(f, w)
         /\ Mark(f, w, IF Broken(f) THEN "broken" ELSE "open")
         /\ Accept(f, r, ~w.failed)
         /\ UNCHANGED torn

Record ==
    /\ phase = "taking" /\ asked < MaxRecords
    /\ asked' = asked + 1
    /\ \E k \in Kinds :
         LET f == FileOf(backend, k) IN
           \/ /\ f = "nowhere"
              /\ UNCHANGED <<accepted, errors, fails, buf, group, file, status, torn>>
           \/ f # "nowhere" /\ RecordJson(f, asked')
           \/ f # "nowhere" /\ RecordCsv(f, asked')
           \/ f # "nowhere" /\ RecordParquet(f, asked')
    /\ UNCHANGED <<backend, phase, todo, flushed>>

(* MetadataEvent::Flush, and the flush when the channel is closed. *)
VisitsForgetting(p) == Files \ {"strings"}

VisitsEvents(p) == IF p = "ending" THEN {} ELSE Files

Visits(p) == Files

(* The phase after a flush: more events, or the sink is dropped. *)
AfterFlush(p) == IF p = "flushing" THEN "taking" ELSE "dropping"

StartFlush ==
    /\ phase = "taking"
    /\ \E p \in {"flushing", "ending"} :
         /\ todo' = Visits(p)
         /\ phase' = IF todo' = {} THEN AfterFlush(p) ELSE p
    /\ UNCHANGED <<backend, asked, accepted, errors, fails, buf, group, file, status, torn,
                   flushed>>

Written(f) == IF Line THEN Spill(Of(f)) ELSE FlushRows(Of(f), Broken(f))

NextToVisit(f) == f \in todo /\ \A g \in todo : Place(f) <= Place(g)

(* One writer of flush; the first that fails ends the flush. *)
FlushOne ==
    /\ phase \in {"flushing", "ending"}
    /\ \E f \in todo : \E w \in Written(f) :
         /\ NextToVisit(f)
         /\ Became(f, w)
         /\ IF Line THEN UNCHANGED status ELSE Mark(f, w, status[f])
         /\ errors' = errors + IF w.failed THEN 1 ELSE 0
         /\ todo' = IF w.failed THEN {} ELSE todo \ {f}
         /\ IF todo' # {} THEN UNCHANGED <<phase, flushed>>
            ELSE /\ phase' = AfterFlush(phase)
                 /\ flushed' = IF w.failed THEN flushed
                               ELSE [x \in Names |-> Len(accepted[x])]
    /\ UNCHANGED <<backend, asked, accepted, torn>>

(* The thread returns and drops the sink: line writers flush what is left    *)
(* and ignore the outcome; Parquet finishes its writers up to the first      *)
(* that fails.                                                               *)
StartDrop ==
    /\ phase = "dropping"
    /\ todo' = {f \in Files : Line \/ status[f] # "none"}
    /\ phase' = IF todo' = {} THEN "gone" ELSE "closing"
    /\ UNCHANGED <<backend, asked, accepted, errors, fails, buf, group, file, status, torn,
                   flushed>>

CloseOne ==
    /\ phase = "closing"
    /\ \E f \in todo : \E w \in IF Line THEN Spill(Of(f)) ELSE FinishRows(Of(f), Broken(f)) :
         /\ NextToVisit(f)
         /\ Became(f, w)
         /\ IF Line THEN UNCHANGED status ELSE Mark(f, w, "finished")
         /\ todo' = IF w.failed /\ ~Line THEN {} ELSE todo \ {f}
    /\ phase' = IF todo' = {} THEN "gone" ELSE "closing"
    /\ UNCHANGED <<backend, asked, accepted, errors, torn, flushed>>

(* The process ends while the thread runs: nothing is flushed or finished. *)
Killed ==
    /\ phase \notin {"gone", "killed"}
    /\ phase' = "killed"
    /\ UNCHANGED <<backend, asked, accepted, errors, fails, buf, group, file, status, torn,
                   todo, flushed>>

Next == Record \/ StartFlush \/ FlushOne \/ StartDrop \/ CloseOne \/ Killed

Spec == Init /\ [][Next]_vars

-----------------------------------------------------------------------------
(* What a reader of the output finds. *)

(* In a line format: the lines that hold one record and nothing else. *)
EndsLine(us, i) == us[i][2] = Parts

WholeLine(us, i) ==
    /\ i >= Parts /\ EndsLine(us, i)
    /\ i = Parts \/ EndsLine(us, i - Parts)
    /\ \A j \in 1..Parts : us[i - Parts + j] = Unit(us[i][1], j)

Lines(us) ==
    LET read[n \in 0..Len(us)] ==
          IF n = 0 THEN << >>
          ELSE IF WholeLine(us, n) /\ us[n][1] # 0 THEN Append(read[n - 1], us[n][1])
          ELSE read[n - 1]
    IN  read[Len(us)]

Found(f) ==
    IF Line THEN Lines(file[f])
    ELSE IF status[f] = "finished" THEN file[f] ELSE << >>

Lost(f) == ToSet(accepted[f]) \ ToSet(Found(f))

Recorded == 1..MaxRecords

Held == IF Line THEN (0..MaxRecords) \X (1..Parts) ELSE Recorded

TypeOK ==
    /\ backend \in Backends
    /\ asked \in 0..MaxRecords /\ errors \in Nat
    /\ accepted \in [Names -> Seq(Recorded)]
    /\ fails \in [Names -> Nat]
    /\ buf \in [Names -> Seq(Held)] /\ group \in [Names -> Seq(Held)]
    /\ file \in [Names -> Seq(Held)]
    /\ status \in [Names -> {"none", "open", "broken", "finished"}]
    /\ torn \in [Names -> BOOLEAN]
    /\ flushed \in [Names -> Nat]
    /\ \A f \in Names :
         /\ Len(group[f]) < RowGroup
         /\ IF Line THEN Len(buf[f]) <= Cap + Parts ELSE Len(buf[f]) < RowGroup
         /\ flushed[f] <= Len(accepted[f])
    /\ phase \in {"taking", "flushing", "ending", "dropping", "closing", "gone", "killed"}
    /\ todo \subseteq Files

(* However the process ended, what can be read of a file is a prefix of what *)
(* was recorded: a line torn by the end of the process never passes for a    *)
(* record, and none is missing before one that is found.  In a line format   *)
(* this asks that no write to that file failed; a Parquet file whose writer  *)
(* failed, at whatever write, is found with nothing but what it accepted.    *)
PrefixRecovered ==
    \A f \in Names : (Line => fails[f] = 0) => IsPrefix(Found(f), accepted[f])

(* What the JSON-lines and CSV sinks had accepted at a flush that succeeded  *)
(* can be read whatever happens to the process, and to the other files of    *)
(* the sink, afterwards.                                                     *)
FlushedSurvives ==
    Line => \A f \in Names : fails[f] = 0 => Len(Found(f)) >= flushed[f]

(* A failed write of a line format can cost records of its own file only; one *)
(* of Parquet, whose drop ends at the first writer that fails, also the files *)
(* that would have been finished after it.                                    *)
Spoilt(f) ==
    IF Line THEN fails[f] > 0 ELSE \E g \in Files : Place(g) <= Place(f) /\ fails[g] > 0

(* A run that came to its end without a counted error has every record it    *)
(* accepted in its files.  With the line formats, writes that fail while the  *)
(* writers are dropped can only lose what a counted flush failed to write     *)
(* before; the drop of the Parquet sink does lose rows that nothing counts,   *)
(* but then its failure was the only one of the run, and it spares the files  *)
(* finished before.                                                           *)
LossCounted ==
    phase = "gone" /\ errors = 0 => \A f \in Files :
        Lost(f) # {} => /\ ~Line /\ Spoilt(f)
                        /\ \A g, h \in Names : fails[g] > 0 /\ fails[h] > 0 => g = h

(* Two records never share a line unless one of them failed: each failed     *)
(* write of the JSON-lines sink costs at most one record accepted after it.  *)
SpoilsOne ==
    backend = "jsonl" => \A f \in Names :
        buf[f] = << >> => Cardinality(Lost(f)) <= fails[f]

(* After a clean end every file that no failed write reached holds exactly    *)
(* what was accepted, in order, row groups and buffers included, however many *)
(* other files of the sink failed before or during the drop.                  *)
CleanEndComplete ==
    phase = "gone" => \A f \in Files : Spoilt(f) \/ Found(f) = accepted[f]
=============================================================================
