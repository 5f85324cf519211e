------------------------------- MODULE Carving -------------------------------
(***************************************************************************)
(* What the file type handlers of carve/ share: the life of one output     *)
(* file, CarveStream (read_exact copies what it reads), write_range, the   *)
(* size limits and the record returned.                                    *)
(*                                                                         *)
(* A handler reads the evidence from a hit on.  Offsets are relative to    *)
(* where the file would start.  The evidence is what a parser finds at an  *)
(* offset: a token [k, n, m], its kind and the numbers that stand there.   *)
(* Anywhere else it finds bytes that fit no format.                        *)
(***************************************************************************)
EXTENDS Integers, Sequences, SequencesExt

CONSTANT Jobs

ASSUME CarvingAssumption ==
    \A j \in Jobs : /\ j.fmt \in STRING
                    /\ j.len \in Nat       \* bytes of evidence
                    /\ j.maxSize \in Nat   \* 0 for none
                    /\ j.minSize \in Nat
                    /\ j.kinds \subseteq STRING \* allowed_kinds, {} for none
                    /\ j.ends \subseteq Nat \* where the format may end
                    /\ DOMAIN j.at \subseteq Nat
                    /\ \A p \in DOMAIN j.at : /\ j.at[p].k \in STRING
                                             /\ j.at[p].n \in Nat /\ j.at[p].m \in Nat

VARIABLES
    job,        \* [fmt, at, len, maxSize, minSize, kinds, ends]
    phase,      \* see Phases
    pos,        \* where the parser reads next, before anything is copied
    mem,        \* the locals of the handler's loop
    goal,       \* {} or the end of the range that will be copied
    written,    \* bytes copied to the output file
    validated, truncated,
    onDisk,     \* whether the output file exists
    kind,       \* the kind of document found inside (ole, zip), or none
    carved      \* {} or the CarvedFile returned

vars == <<job, phase, pos, mem, goal, written, validated, truncated, onDisk,
          kind, carved>>
parser == <<pos, mem, goal, kind>>
flags == <<validated, truncated>>
disk == <<onDisk, carved>>

(* Copying handlers: create, walk, flush.  The others parse first: parse,  *)
(* create, copy, flush.                                                    *)
Phases == {"create", "walk", "parse", "copy", "flush", "done", "failed"}

Streams == {"png", "gif", "webp", "wav", "avi", "sqlite", "ogg", "tar",
            "rtf", "mp3", "ole", "jpeg", "pdf", "fb2", "zipstream"}

(* Those that look at something before they create the file.               *)
Previewed == {"tar", "fb2"}

(* Those that do more than copy a range once the file is created: look for *)
(* its end, or into what was copied.                                       *)
Searches == {"bzip2", "gzip", "xz", "zip"}

(* Those that call a file valid exactly when it is not truncated.          *)
Judged == {"bmp", "7z", "mp4", "mp4qt", "mov", "webm", "rar", "tiff", "elf", "ico",
           "lrf", "mobi", "wmv", "eml"}

Init ==
    /\ job \in Jobs
    /\ phase = IF job.fmt \in Streams \ Previewed THEN "create" ELSE "parse"
    /\ pos = 0 /\ mem = <<>> /\ goal = {} /\ written = 0
    /\ validated = FALSE /\ truncated = FALSE /\ onDisk = FALSE
    /\ kind = "" /\ carved = {}

Nothing == [k |-> "none", n |-> 0, m |-> 0]
Token(p) == IF p \in DOMAIN job.at THEN job.at[p] ELSE Nothing
Lesser(a, b) == IF a <= b THEN a ELSE b
Larger(a, b) == IF a >= b THEN a ELSE b

-----------------------------------------------------------------------------
(* output_path and File::create                                            *)
Create == /\ phase = "create" /\ onDisk' = TRUE
          /\ phase' = IF job.fmt \in Streams \cup Searches THEN "walk" ELSE "copy"
          /\ UNCHANGED <<job, parser, written, flags, carved>>

(* create_dir_all, File::create, a read, a write, or the flush fails: the  *)
(* handler returns an error and leaves the file as it is.                  *)
Fails == /\ phase \in {"create", "walk", "copy", "flush"} /\ phase' = "failed"
         /\ UNCHANGED <<job, parser, written, flags, disk>>

(* Ok(None), with or without a file to remove.                             *)
GiveUp == phase' = "done" /\ onDisk' = FALSE /\ UNCHANGED <<job, parser, flags, carved>>

-----------------------------------------------------------------------------
(* Mutant: the limit is looked at after the bytes were written.            *)
ReadExactLate(s, n) ==
    IF s.cut THEN s
    ELSE IF s.at + n > job.len THEN [at |-> job.len, cut |-> TRUE]
    ELSE [at |-> s.at + n, cut |-> job.maxSize > 0 /\ s.at > job.maxSize]

(* Mutant: a short read counts for a whole one.                            *)
ReadExactBlind(s, n) ==
    IF s.cut THEN s
    ELSE IF job.maxSize > 0 /\ s.at + n > job.maxSize THEN [s EXCEPT !.cut = TRUE]
    ELSE [s EXCEPT !.at = @ + n]

(* CarveStream::read_exact.  Truncated is found out before a byte is read, *)
(* Eof after what there is was copied; the closure stops at either.        *)
ReadExact(s, n) ==
    IF s.cut THEN s
    ELSE IF job.maxSize > 0 /\ s.at + n > job.maxSize THEN [s EXCEPT !.cut = TRUE]
    ELSE IF s.at + n > job.len THEN [at |-> job.len, cut |-> TRUE]
    ELSE [s EXCEPT !.at = @ + n]

Reads(ns) ==
    LET after[i \in 0 .. Len(ns)] ==
          IF i = 0 THEN [at |-> written, cut |-> FALSE] ELSE ReadExact(after[i - 1], ns[i])
    IN after[Len(ns)]
Fits(ns) == ~Reads(ns).cut

Walking(f) == phase = "walk" /\ job.fmt = f

(* The loop goes on, with m for its locals.                                *)
Continue(ns, m) == /\ Fits(ns) /\ written' = Reads(ns).at /\ mem' = m
                   /\ UNCHANGED <<job, phase, pos, goal, kind, flags, disk>>

(* One of the reads fails: Truncated or Eof, which both mark the file.     *)
Cut(ns) == /\ ~Fits(ns) /\ written' = Reads(ns).at
           /\ truncated' = TRUE /\ phase' = "flush"
           /\ UNCHANGED <<job, parser, validated, disk>>

(* The loop is left with Ok.                                               *)
Stop(ns, v) == /\ Fits(ns) /\ written' = Reads(ns).at
               /\ validated' = v /\ phase' = "flush"
               /\ UNCHANGED <<job, parser, truncated, disk>>

Accept(ns) == Stop(ns, TRUE)

(* CarveError::Invalid                                                     *)
Reject(ns) == Fits(ns) /\ written' = Reads(ns).at /\ GiveUp

-----------------------------------------------------------------------------
Parsing(f) == phase = "parse" /\ job.fmt = f

(* read_exact_at: all n bytes at p or nothing.                             *)
Has(p, n) == p + n <= job.len

(* max_end, without a limit past everything.                               *)
Capped(e) == IF job.maxSize > 0 THEN Lesser(e, job.maxSize) ELSE e
Capping(e) == job.maxSize > 0 /\ e >= job.maxSize

Advance(p, m) == /\ pos' = p /\ mem' = m
                 /\ UNCHANGED <<job, phase, goal, kind, written, flags, disk>>

NotThis == GiveUp /\ UNCHANGED written

(* A header or directory too short for read_exact_at, where that is an     *)
(* error.                                                                  *)
Broken == phase' = "failed" /\ UNCHANGED <<job, parser, written, flags, disk>>

Promising == /\ phase' = "create"
             /\ UNCHANGED <<job, parser, written, flags, disk>>

(* The end of the range is known: what is made of it before the copy.      *)
Settle(e, v, t) == /\ goal' = {e} /\ validated' = v /\ truncated' = t
                   /\ phase' = IF onDisk THEN "copy" ELSE "create"
                   /\ UNCHANGED <<job, pos, mem, kind, written, disk>>

(* Mutant: the end of the evidence goes unnoticed.                         *)
WriteRangeSilent ==
    /\ phase = "copy"
    /\ \E e \in goal : /\ written' = Lesser(e, job.len)
                       /\ UNCHANGED truncated
    /\ phase' = "flush"
    /\ UNCHANGED <<job, parser, validated, disk>>

(* write_range and eof_truncated                                           *)
WriteRange ==
    /\ phase = "copy"
    /\ \E e \in goal : /\ written' = Lesser(e, job.len)
                       /\ truncated' = (truncated \/ e > job.len)
    /\ validated' = (validated /\ (job.fmt \in Judged => ~truncated'))
    /\ phase' = "flush"
    /\ UNCHANGED <<job, parser, disk>>

-----------------------------------------------------------------------------
(* The handlers that do not flag a file of max_size at their end.          *)
Unflagged == {"png", "gif", "jpeg", "pdf", "fb2", "bzip2", "gzip", "xz",
              "zip", "zipstream"} \cup Judged

AtLimit == job.fmt \notin Unflagged /\ job.maxSize > 0 /\ written >= job.maxSize

(* Without ID3 tag, frames enough or a cut an MP3 is no MP3.               *)
Unconvincing == job.fmt = "mp3" /\ ~validated /\ ~truncated

(* allowed_kinds: the type is that of the handler when no kind was found.  *)
(* A ZIP without require_eocd is kept whatever it is.                      *)
Unwanted == /\ job.fmt # "zipstream" /\ job.kinds # {}
            /\ (IF kind = "" THEN job.fmt ELSE kind) \notin job.kinds

Unkept == Unconvincing \/ written < job.minSize \/ Unwanted

(* Mutant: min_size is looked at after the record was made.                *)
DiscardKeeping == /\ phase = "flush" /\ Unkept /\ phase' = "done"
                  /\ UNCHANGED <<job, parser, written, flags, disk>>

Discard == phase = "flush" /\ Unkept /\ UNCHANGED written /\ GiveUp

Deliver == /\ phase = "flush" /\ ~Unkept
           /\ carved' = {[size |-> written, validated |-> validated,
                          truncated |-> truncated \/ AtLimit]}
           /\ phase' = "done"
           /\ UNCHANGED <<job, parser, written, flags, onDisk>>

Ended == phase \in {"done", "failed"} /\ UNCHANGED vars

Shared == Create \/ WriteRange \/ Discard \/ Deliver \/ Ended

-----------------------------------------------------------------------------
TypeOK ==
    /\ job \in Jobs /\ phase \in Phases
    /\ pos \in Nat /\ written \in 0 .. job.len /\ goal \subseteq Nat
    /\ validated \in BOOLEAN /\ truncated \in BOOLEAN /\ onDisk \in BOOLEAN
    /\ carved \subseteq [size : Nat, validated : BOOLEAN, truncated : BOOLEAN]

Limit == IF job.maxSize > 0 THEN job.maxSize ELSE job.len

(* The header of some block ends within the limit, and n with its data.    *)
DataOverLimit(n) ==
    \E p \in DOMAIN job.at : /\ p + job.at[p].n <= Limit
                             /\ n <= p + job.at[p].n + job.at[p].m

(* No file is larger than max_size, in whatever pieces it was copied, but  *)
(* for what the code does not measure against it: the line end of a PDF,   *)
(* the signature of a RAR archive and, in one of version 4 that is then    *)
(* marked as truncated, the packed data of the last block whose header was *)
(* within max_size.                                                        *)
SizeWithinLimit ==
    \A c \in carved : \/ c.size <= Limit
                      \/ job.fmt = "pdf" /\ c.size <= Limit + 2
                      \/ /\ job.fmt = "rar" /\ c.truncated
                         /\ \/ c.size <= 8
                            \/ Token(0).k = "rar4" /\ DataOverLimit(c.size)

(* Handlers that record as whole what the end of the evidence or max_size  *)
(* cut short.                                                              *)
Silent == {"ole", "elf", "ico", "lrf", "mobi", "eml", "wmv", "gzip"}

(* Files that hold what the handler takes for their end before it: the end *)
(* mark of a thumbnail or of an earlier version (n = 1), or a box of size  *)
(* 0, which reaches to the end of the file but is left out.                *)
HoldsEarlierEnd ==
    \E p \in DOMAIN job.at :
        \/ job.fmt \in {"jpeg", "pdf"} /\ job.at[p].k = "mark" /\ job.at[p].n = 1
        \/ job.fmt \in {"mp4", "mp4qt", "mov"} /\ job.at[p].k = "box" /\ job.at[p].n = 0

(* A record that says validated and not truncated is believed by whoever   *)
(* filters on these flags: the file then ends where its format says.       *)
ValidMeansWhole ==
    \A c \in carved :
        c.validated /\ ~c.truncated /\ job.fmt \notin Silent /\ ~HoldsEarlierEnd
            => c.size \in job.ends

(* A file that lies whole in the evidence, and within the limits, is       *)
(* carved whole and never marked as damaged.                               *)
WholeFileCarved ==
    \A e \in job.ends :
        /\ phase = "done" /\ ~Unwanted /\ \A f \in job.ends : f <= e
        /\ e <= job.len /\ e >= job.minSize /\ (job.maxSize > 0 => e < job.maxSize)
        /\ ~HoldsEarlierEnd
        => carved = {[size |-> e, validated |-> TRUE, truncated |-> FALSE]}

(* A file is on disk exactly when its record is returned, unless the       *)
(* handler failed.                                                         *)
FileIffCarved == phase = "done" => (onDisk <=> carved # {})

(* Every walk ends, also on structures that lead back to themselves.       *)
Termination == <>(phase \in {"done", "failed"})
=============================================================================
