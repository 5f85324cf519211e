----------------------------- MODULE StringRuns -----------------------------
(***************************************************************************)
(* What a scan worker reads out of a chunk besides signatures: the runs of *)
(* text the CPU string scanner reports (strings/cpu.rs), of which the      *)
(* worker keeps those that start in the chunk's own part                   *)
(* (pipeline/workers.rs), and the regions of high entropy (entropy.rs).    *)
(*                                                                         *)
(* A byte is one of five kinds: printable ASCII, NUL, another control      *)
(* character, the lead of a two-byte UTF-8 character, a continuation.      *)
(* Chunks are scanned independently, so one after the other is enough.     *)
(***************************************************************************)
EXTENDS Chunking

CONSTANTS
    Bytes,        \* the kinds of byte the evidence is made of
    EvidenceLen, ChunkSize, Overlap,
    MinLen,       \* string_min_len; 0 does as 1 does
    MaxLen,       \* string_max_len; 0 stands for one beyond any string
    Window        \* entropy_window_size

ASSUME StringRunsAssumption ==
    /\ Bytes \subseteq {"text", "nul", "control", "lead", "cont"}
    /\ EvidenceLen \in 0..MaxU64 /\ ChunkSize \in 1..MaxU64 /\ Overlap \in 0..MaxU64
    /\ MinLen \in Nat \ {0} /\ MaxLen \in Nat \ {0} /\ Window \in Nat \ {0}

VARIABLES
    evidence,  \* the bytes
    chunk,     \* the chunk being scanned
    scan,      \* which scanner of the worker is running
    pos,       \* its position in the evidence
    spans,     \* the spans kept so far
    region,    \* the entropy region being extended, {} or {[from, to]}
    regions    \* the entropy regions reported

vars == <<evidence, chunk, scan, pos, spans, region, regions>>

(* One pass per encoding; the UTF-16 ones have a pass per parity. *)
Passes == <<"ascii", "utf8", "le0", "le1", "be0", "be1", "entropy", "next">>

PassNo(p) == CHOOSE n \in DOMAIN Passes : Passes[n] = p

Skew(p) == IF p \in {"le1", "be1"} THEN 1 ELSE 0

Ids == ChunkIds(EvidenceLen, ChunkSize)

Start(c) == ChunkStart(c, ChunkSize)

(* Mutant: a chunk is read without its overlap. *)
StopOwn(c) == Start(c) + ChunkValid(c, EvidenceLen, ChunkSize)

Stop(c) == Start(c) + ChunkLength(c, EvidenceLen, ChunkSize, Overlap)

Owned(c) == OwnedBy(c, EvidenceLen, EvidenceLen, ChunkSize)

OwnStop(c) == Start(c) + ChunkValid(c, EvidenceLen, ChunkSize)

Init ==
    /\ evidence \in [0..(EvidenceLen - 1) -> Bytes]
    /\ chunk = 0
    /\ scan = IF EvidenceLen = 0 THEN "next" ELSE "ascii"
    /\ pos = 0
    /\ spans = {}
    /\ region = {}
    /\ regions = {}

-----------------------------------------------------------------------------
(* Characters. *)

(* Mutant: what follows a lead byte is not looked at. *)
DecodedBlind(i, stop) ==
    IF evidence[i] = "lead" THEN 2 ELSE IF evidence[i] = "cont" THEN 0 ELSE 1

(* decode_utf8_at: the bytes the character at i takes, 0 when there is none. *)
Decoded(i, stop) ==
    IF evidence[i] \in {"text", "nul", "control"} THEN 1
    ELSE IF evidence[i] = "lead" /\ i + 1 < stop /\ evidence[i + 1] = "cont" THEN 2 ELSE 0

(* The bytes a character of pass p takes, for UTF-8 at least. *)
Width(p) == IF p \in {"ascii", "utf8"} THEN 1 ELSE 2

(* is_printable, and pair_ok of the UTF-16 scan. *)
Letter(p, i) ==
    \/ p = "ascii" /\ evidence[i] = "text"
    \/ p \in {"le0", "le1"} /\ evidence[i] = "text" /\ evidence[i + 1] = "nul"
    \/ p \in {"be0", "be1"} /\ evidence[i] = "nul" /\ evidence[i + 1] = "text"

(* The bytes of the character of pass p at i, 0 when no run may go on there; *)
(* is_printable_unicode leaves control characters out.                       *)
Char(p, i, stop) ==
    IF p = "utf8"
    THEN IF i < stop /\ evidence[i] \in {"text", "lead"} THEN Decoded(i, stop) ELSE 0
    ELSE IF i + Width(p) <= stop /\ Letter(p, i) THEN Width(p) ELSE 0

(* Where a pass goes on after a position that starts no run. *)
Stride(p, i, stop) == IF p = "utf8" THEN Max2(1, Decoded(i, stop)) ELSE Width(p)

(* One character more, unless the run is at its end. *)
Longer(p, r, stop) ==
    LET c == Char(p, r.end, stop)
    IN  IF c = 0 THEN r ELSE [end |-> r.end + c, chars |-> r.chars + 1]

(* The run that starts at i: up to MaxLen characters. *)
RunFrom(p, i, stop) ==
    LET run[n \in 0..MaxLen] ==
          IF n = 0 THEN [end |-> i, chars |-> 0] ELSE Longer(p, run[n - 1], stop)
    IN  run[MaxLen]

Multibyte(i, j) == \E x \in i..(j - 1) : evidence[x] = "lead"

(* Long enough to be reported; the UTF-8 pass leaves plain ASCII to the other. *)
Reported(p, i, run) ==
    run.chars >= MinLen /\ (p = "utf8" => Multibyte(i, run.end))

-----------------------------------------------------------------------------
(* The passes over a chunk. *)

(* Where a pass goes on after a run: behind it, and the UTF-16 passes behind *)
(* the pair that ended it, unless MaxLen did.                                *)
ResumeAt(p, run) ==
    IF p \in {"ascii", "utf8"} \/ run.chars = MaxLen THEN run.end ELSE run.end + 2

(* From here on a pass has nothing left to read. *)
Exhausted(p, i) == i + Width(p) > Stop(chunk)

(* Mutant: a chunk keeps the spans that start in its overlap. *)
KeptAll(i) == TRUE

(* span.local_start < effective_valid *)
Kept(i) == i \in Owned(chunk)

Text == scan \notin {"entropy", "next"}

Skip ==
    /\ Text /\ ~Exhausted(scan, pos)
    /\ Char(scan, pos, Stop(chunk)) = 0
    /\ pos' = pos + Stride(scan, pos, Stop(chunk))
    /\ UNCHANGED <<evidence, chunk, scan, spans, region, regions>>

Run ==
    /\ Text /\ ~Exhausted(scan, pos)
    /\ Char(scan, pos, Stop(chunk)) # 0
    /\ LET run == RunFrom(scan, pos, Stop(chunk))
       IN  /\ spans' = IF Reported(scan, pos, run) /\ Kept(pos)
                       THEN spans \cup {[pass |-> scan, chunk |-> chunk, from |-> pos, to |-> run.end]}
                       ELSE spans
           /\ pos' = ResumeAt(scan, run)
    /\ UNCHANGED <<evidence, chunk, scan, region, regions>>

NextPass ==
    /\ Text /\ Exhausted(scan, pos)
    /\ scan' = Passes[PassNo(scan) + 1]
    /\ pos' = Start(chunk) + Skew(scan')
    /\ UNCHANGED <<evidence, chunk, spans, region, regions>>

(* A window reaches the threshold, here the largest entropy its size allows. *)
High(i) == Cardinality({evidence[x] : x \in i..(i + Window - 1)}) = Window

(* Mutant: global_end is the first byte behind the window. *)
RegionEndBehind(i) == i + Window

RegionEnd(i) == i + Window - 1

(* Mutant: the region that is still open at the end of a chunk is forgotten. *)
Forgotten(r) == {}

Closing(r) == r

(* detect_entropy_regions, over the chunk's own part. *)
WindowHigh ==
    /\ scan = "entropy" /\ pos + Window <= OwnStop(chunk) /\ High(pos)
    /\ region' = IF region = {} THEN {[from |-> pos, to |-> RegionEnd(pos)]}
                 ELSE {[r EXCEPT !.to = RegionEnd(pos)] : r \in region}
    /\ pos' = pos + Window
    /\ UNCHANGED <<evidence, chunk, scan, spans, regions>>

WindowLow ==
    /\ scan = "entropy" /\ pos + Window <= OwnStop(chunk) /\ ~High(pos)
    /\ regions' = regions \cup region
    /\ region' = {}
    /\ pos' = pos + Window
    /\ UNCHANGED <<evidence, chunk, scan, spans>>

NextChunk ==
    /\ scan = "entropy" /\ pos + Window > OwnStop(chunk)
    /\ regions' = regions \cup Closing(region)
    /\ region' = {}
    /\ IF chunk + 1 \in Ids
       THEN chunk' = chunk + 1 /\ scan' = "ascii" /\ pos' = Start(chunk + 1)
       ELSE chunk' = chunk /\ scan' = "next" /\ pos' = EvidenceLen
    /\ UNCHANGED <<evidence, spans>>

Next == Skip \/ Run \/ NextPass \/ WindowHigh \/ WindowLow \/ NextChunk

Spec == Init /\ [][Next]_vars

-----------------------------------------------------------------------------
Done == scan = "next"

Ends(s) == s.to - 1

Encoding(p) == CASE p \in {"le0", "le1"} -> "le" [] p \in {"be0", "be1"} -> "be" [] OTHER -> p

SpanSet == [pass : {"ascii", "utf8", "le0", "le1", "be0", "be1"},
            chunk : Ids,
            from : 0..EvidenceLen, to : 0..EvidenceLen]

TypeOK ==
    /\ scan \in {Passes[n] : n \in DOMAIN Passes}
    /\ Done \/ chunk \in Ids
    /\ pos \in 0..(EvidenceLen + 2)
    /\ spans \subseteq SpanSet
    /\ Cardinality(region) <= 1
    /\ \A r \in regions : \E c \in Ids :
         r.from \in Owned(c) /\ r.to \in Owned(c)

(* What a span covers is text of its encoding from end to end, inside the    *)
(* bytes its chunk holds: a run that the end of the chunk's data cuts, in    *)
(* the middle of a character or not, is never reported beyond it.            *)
SpansAreText ==
    \A s \in spans :
        /\ s.to <= Stop(s.chunk)
        /\ RunFrom(s.pass, s.from, Stop(s.chunk)).end = s.to

(* The characters of pass p one after the other from i on, at least n. *)
Chars(p, i, n) == \A m \in 0..(n - 1) : Char(p, i + m * Width(p), EvidenceLen) # 0

Begins(p, i) == i < Width(p) \/ Char(p, i - Width(p), EvidenceLen) = 0

(* A string of at least MinLen characters is reported at its true start      *)
(* whatever chunk boundaries it crosses, provided the overlap is not shorter *)
(* than its first MinLen characters less one byte.                           *)
StringsFound ==
    Done => \A p \in {"ascii", "le0", "be0"} :
        Overlap >= Width(p) * MinLen - 1 =>
            \A i \in 0..(EvidenceLen - 1) :
                Begins(p, i) /\ Chars(p, i, MinLen) =>
                    \E s \in spans : Encoding(s.pass) = Encoding(p) /\ s.from = i

(* No stretch of MinLen bytes of ASCII text goes unreported: what the cut at *)
(* MaxLen or at a chunk's end leaves over is shorter than a string.          *)
TextCovered ==
    Done /\ Overlap >= MinLen - 1 =>
        \A i \in 0..(EvidenceLen - MinLen) :
            Chars("ascii", i, MinLen) =>
                \E s \in spans : s.pass = "ascii" /\ s.from < i + MinLen /\ i < s.to

(* Whatever the chunk boundaries and limits, neither the start nor a part of *)
(* a string is missed.  (Nothing rejects a string_min_len above              *)
(* string_max_len; then no string is long enough.)                           *)
NothingMissed == MinLen <= MaxLen => StringsFound /\ TextCovered

(* Text is reported twice in one encoding only at a seam: by two chunks, the *)
(* earlier of which followed a run that began in its own part into the later *)
(* one's.  Neither a single chunk, nor a run that begins behind the seam,    *)
(* leads to two spans over the same bytes.                                   *)
TwiceOnlyAtSeam ==
    \A s, t \in spans :
        /\ s # t /\ Encoding(s.pass) = Encoding(t.pass)
        /\ s.chunk <= t.chunk /\ s.from <= Ends(t) /\ t.from <= Ends(s)
        => s.chunk < t.chunk /\ s.from < Start(t.chunk) /\ Start(t.chunk) < s.to

(* The regions are exactly the high windows of each chunk, neighbours        *)
(* joined, none reported twice: windows count from the chunk's start, and    *)
(* what is left behind the last whole window is never looked at.             *)
Windows(c) == {i \in Owned(c) : (i - Start(c)) % Window = 0 /\ i + Window <= OwnStop(c)}

RegionsExact ==
    Done =>
        /\ \A c \in Ids : \A i \in Windows(c) :
               Cardinality({r \in regions : r.from <= i /\ i + Window - 1 <= r.to})
                   = IF High(i) THEN 1 ELSE 0
        /\ \A r, q \in regions :
               r.to + 1 = q.from =>
                   \E c \in Ids : q.from = Start(c)
=============================================================================
