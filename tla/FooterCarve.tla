---------------------------- MODULE FooterCarve -----------------------------
(***************************************************************************)
(* FooterCarveHandler::process_hit (carve/footer.rs): copy the evidence    *)
(* from a hit on, buffer by buffer, until a footer pattern shows up in the *)
(* buffer or across its edge, for which the tail of the buffer before is   *)
(* carried along.                                                          *)
(*                                                                         *)
(* Offsets are relative to the hit.  The evidence is what the search can   *)
(* tell of it: its length and where footer patterns occur in it.           *)
(***************************************************************************)
EXTENDS Integers

CONSTANTS
    Jobs,          \* [len, footers, headers, maxSize, minSize], see below
    MaxFooterLen,  \* max_footer_len: the longest footer pattern
    BufSize,       \* buf_size
    MinRead        \* a read_at before the end returns so many bytes at least

ASSUME FooterAssumption ==
    /\ MaxFooterLen \in Nat \ {0} /\ BufSize \in Nat \ {0}
    /\ MinRead \in 1 .. BufSize
    /\ Jobs \subseteq
         [len     : Nat,  \* bytes of evidence from the hit on
          footers : SUBSET [at : Nat, size : 1 .. MaxFooterLen],
          headers : SUBSET (Nat \ {0}),  \* lengths of the headers at the hit
          maxSize : Nat,  \* 0 for none
          minSize : Nat]

(* What the search relies on: before the end of the evidence a read is     *)
(* never shorter than the carry.  pread of a file or device and libewf     *)
(* return all that was asked for there.                                    *)
ASSUME ReadAssumption == MinRead >= MaxFooterLen - 1

VARIABLES
    job,
    phase,      \* "create", "read", "flush", then "done" or "failed"
    written,    \* bytes_written; the next read is at this offset too
    carry,      \* length of the carry: the bytes just before `written`
    footer,     \* {} or the footer the search settled on (validated)
    onDisk,     \* whether the output file exists
    carved      \* {} or the CarvedFile returned

vars == <<job, phase, written, carry, footer, onDisk, carved>>

Least(a, b) == IF a <= b THEN a ELSE b

Init == /\ job \in Jobs /\ phase = "create" /\ written = 0 /\ carry = 0
        /\ footer = {} /\ onDisk = FALSE /\ carved = {}

Ends(f) == f.at + f.size

-----------------------------------------------------------------------------
Create == /\ phase = "create" /\ phase' = "read" /\ onDisk' = TRUE
          /\ UNCHANGED <<job, written, carry, footer, carved>>

CreateFails == /\ phase = "create" /\ phase' = "failed"
               /\ UNCHANGED <<job, written, carry, footer, onDisk, carved>>

TooLong == job.maxSize > 0 /\ written >= job.maxSize

(* `truncated`: the size limit or the end of the evidence comes first.     *)
Truncate == /\ phase = "read"
            /\ TooLong \/ written >= job.len
            /\ phase' = "flush"
            /\ UNCHANGED <<job, written, carry, footer, onDisk, carved>>

(* The bytes asked for, as far as the evidence has them.                   *)
Asked == LET room == IF job.maxSize > 0
                     THEN Least(BufSize, job.maxSize - written) ELSE BufSize
         IN  Least(room, job.len - written)

ReadSizes == {n \in 1 .. Asked : n >= MinRead \/ n = Asked}

(* Mutant: the last place in the buffer is not tried.                      *)
VisibleShort(n) == {f \in job.footers :
                      f.at >= written - carry /\ Ends(f) < written + n}

(* The footers in search_buf: carry, then the n bytes read.                *)
Visible(n) == {f \in job.footers :
                 f.at >= written - carry /\ Ends(f) <= written + n}

HeaderSeen(n) == written > 0 \/ \E h \in job.headers : h <= n

ReadOk(n) == phase = "read" /\ ~TooLong /\ n \in ReadSizes

HeaderMismatch(n) ==
    /\ ReadOk(n) /\ ~HeaderSeen(n)
    /\ phase' = "done" /\ onDisk' = FALSE
    /\ UNCHANGED <<job, written, carry, footer, carved>>

(* find_first_pattern; of two patterns at one place the one that is        *)
(* configured first is taken, which may be either.                         *)
FirstIn(n, f) == f \in Visible(n) /\ \A g \in Visible(n) : f.at <= g.at

(* write_len = pos + pat_len - carry.len(): up to the end of the footer.   *)
FooterFound(n) ==
    /\ ReadOk(n) /\ HeaderSeen(n)
    /\ \E f \in job.footers : /\ FirstIn(n, f)
                              /\ footer' = {f} /\ written' = Ends(f)
    /\ phase' = "flush"
    /\ UNCHANGED <<job, carry, onDisk, carved>>

(* Mutant: the whole buffer is carried along.                              *)
KeepAll(n) == n

(* Mutant: the carry is one byte short.                                    *)
KeepShort(n) == Least(n, IF MaxFooterLen > 1 THEN MaxFooterLen - 2 ELSE 0)

Keep(n) == Least(n, MaxFooterLen - 1)

NoFooter(n) ==
    /\ ReadOk(n) /\ HeaderSeen(n) /\ Visible(n) = {}
    /\ written' = written + n /\ carry' = Keep(n)
    /\ UNCHANGED <<job, phase, footer, onDisk, carved>>

(* A read, a write or the flush fails: the file stays as it is.            *)
IoFails == /\ phase \in {"read", "flush"} /\ phase' = "failed"
           /\ UNCHANGED <<job, written, carry, footer, onDisk, carved>>

(* Mutant: a file below min_size stays on disk.                            *)
FinishKeeping ==
    /\ phase = "flush" /\ phase' = "done"
    /\ carved' = IF written < job.minSize THEN {}
                 ELSE {[size |-> written, validated |-> footer # {}]}
    /\ UNCHANGED <<job, written, carry, footer, onDisk>>

Finish ==
    /\ phase = "flush" /\ phase' = "done"
    /\ IF written < job.minSize
       THEN onDisk' = FALSE /\ UNCHANGED carved
       ELSE /\ carved' = {[size |-> written, validated |-> footer # {}]}
            /\ UNCHANGED onDisk
    /\ UNCHANGED <<job, written, carry, footer>>

Ended == phase \in {"done", "failed"} /\ UNCHANGED vars

Next == \/ Create \/ CreateFails \/ Truncate
        \/ \E n \in 1 .. BufSize :
              HeaderMismatch(n) \/ FooterFound(n) \/ NoFooter(n)
        \/ IoFails \/ Finish \/ Ended

Spec == Init /\ [][Next]_vars

-----------------------------------------------------------------------------
TypeOK ==
    /\ job \in Jobs
    /\ phase \in {"create", "read", "flush", "done", "failed"}
    /\ written \in Nat /\ carry \in 0 .. MaxFooterLen - 1
    /\ footer \subseteq job.footers
    /\ onDisk \in BOOLEAN
    /\ carved \subseteq [size : Nat, validated : BOOLEAN]

(* The last byte that may be carved.                                       *)
Limit == IF job.maxSize > 0 THEN Least(job.len, job.maxSize) ELSE job.len

(* No footer is missed for the edge of a buffer or for a short read: what  *)
(* has been copied holds no footer that starts before the one the carve    *)
(* ends with, and when the carve ends without one, it reaches the limit    *)
(* and holds none at all.                                                  *)
NoFooterMissed ==
    /\ footer = {} => /\ \A g \in job.footers : Ends(g) > written
                      /\ phase = "flush" => written = Limit
    /\ \A f \in footer : /\ Ends(f) = written /\ written <= Limit
                         /\ \A g \in job.footers :
                               g.at < f.at => Ends(g) > written

(* A footer the search finds ends in the bytes just read: else             *)
(* pos + pat_len - carry.len() would be negative, which a usize is not.    *)
FooterEndsInBuffer ==
    phase = "read" => \A n \in 1 .. BufSize :
        n \in ReadSizes => \A f \in Visible(n) : Ends(f) > written

(* What is returned is on disk, and what is not returned was removed: only *)
(* a handler that failed leaves a file nobody knows of.                    *)
FileIffCarved == phase = "done" => (onDisk <=> carved # {})
=============================================================================
