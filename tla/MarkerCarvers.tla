---------------------------- MODULE MarkerCarvers ----------------------------
(***************************************************************************)
(* The handlers that look for a byte pattern at the end of the file, one   *)
(* buffer after another, the tail of the buffer before carried along:      *)
(* jpeg, pdf, fb2, which copy what they look through, and bzip2, gzip, xz, *)
(* eml, zip, which copy the range afterwards.  A "mark" token is the       *)
(* pattern.                                                                *)
(***************************************************************************)
EXTENDS Carving

CONSTANTS BufSize,  \* buf_size, 64 KiB
          MinRead,  \* a read_at before the end returns so many bytes at least
          Preview   \* MAX_TAG_SEARCH_BYTES of fb2.rs

MarkLen == [jpeg |-> 2, pdf |-> 5, fb2 |-> 14, bzip2 |-> 6, gzip |-> 3, xz |-> 2,
            eml |-> 6, zip |-> 4, zipstream |-> 4]

ASSUME MarkerAssumption == BufSize \in Nat /\ MinRead \in 13 .. BufSize

-----------------------------------------------------------------------------
(* One read at p: as much as the buffer, max_size and the evidence allow,  *)
(* or less, but never less than the carry.                                 *)
Asked(p) ==
    LET room == IF job.maxSize > 0 THEN Lesser(BufSize, job.maxSize - p) ELSE BufSize
    IN Lesser(room, job.len - p)

ReadSizes(p) == {n \in 1 .. Asked(p) : n >= MinRead \/ n = Asked(p)}

Carry == IF mem = <<>> THEN 0 ELSE mem[1]

(* Mutant: the pattern is looked for in the new bytes only.                *)
SeenInBuffer(p, n) ==
    {q \in DOMAIN job.at : /\ job.at[q].k = "mark"
                           /\ q >= p /\ q + MarkLen[job.fmt] <= p + n}

(* The patterns in search_buf, the carry and n bytes read at p.            *)
Seen(p, n) == {q \in DOMAIN job.at : /\ job.at[q].k = "mark"
                                     /\ q >= p - Carry
                                     /\ q + MarkLen[job.fmt] <= p + n}

Kept(n) == <<Lesser(n, MarkLen[job.fmt] - 1)>>
MarkEnd(q) == q + MarkLen[job.fmt]

-----------------------------------------------------------------------------
(* jpeg, pdf, fb2: copy and look.                                          *)

LimitOrEof == /\ Capping(written) \/ written >= job.len
              /\ truncated' = TRUE /\ phase' = "flush"
              /\ UNCHANGED <<job, parser, written, validated, disk>>

CopyOn(n) == /\ ~Capping(written) /\ n \in ReadSizes(written) /\ Seen(written, n) = {}
             /\ written' = written + n /\ mem' = Kept(n)
             /\ UNCHANGED <<job, phase, pos, goal, kind, flags, disk>>

(* The copy ends with the first pattern seen.                              *)
CopyMark(n, ended) ==
    /\ ~Capping(written) /\ n \in ReadSizes(written) /\ Seen(written, n) # {}
    /\ written' = MarkEnd(Min(Seen(written, n))) /\ validated' = TRUE
    /\ phase' = ended
    /\ UNCHANGED <<job, parser, truncated, disk>>

(* No header is looked at; prev is a carry of one byte.                    *)
Jpeg == /\ Walking("jpeg")
        /\ LimitOrEof \/ \E n \in 1 .. BufSize : CopyOn(n) \/ CopyMark(n, "flush")

(* %PDF- is looked for in a first buffer that can hold it.                 *)
PdfForeign(n) == written = 0 /\ n >= 5 /\ Token(0).k # "pdf"

Pdf == /\ Walking("pdf") /\ ~validated
       /\ \/ LimitOrEof
          \/ \E n \in 1 .. BufSize :
               \/ /\ ~Capping(written) /\ n \in ReadSizes(written) /\ PdfForeign(n)
                  /\ NotThis
               \/ ~PdfForeign(n) /\ (CopyOn(n) \/ CopyMark(n, "walk"))

(* The line end after %%EOF, whatever max_size is.                         *)
PdfLineEnd ==
    LET next(p) == IF Has(p, 1) THEN Token(p).k ELSE "none"
        more == CASE next(written) = "lf" -> 1
                  [] next(written) = "cr" -> IF next(written + 1) = "lf" THEN 2 ELSE 1
                  [] OTHER -> 0
    IN /\ Walking("pdf") /\ validated
       /\ written' = written + more /\ phase' = "flush"
       /\ UNCHANGED <<job, parser, flags, disk>>

(* contains_fictionbook_marker; n is where the first such tag ends.        *)
Fb2Preview == /\ Parsing("fb2")
              /\ LET ok == Token(0).k = "fb2" /\ Token(0).n <= Lesser(Preview, job.len)
                 IN (ok /\ Promising) \/ (~ok /\ NotThis)

Fb2 == /\ Walking("fb2")
       /\ LimitOrEof \/ \E n \in 1 .. BufSize : CopyOn(n) \/ CopyMark(n, "flush")

-----------------------------------------------------------------------------
(* bzip2, gzip, xz, eml: look for the end, then copy.                      *)

Unending == job.len + 1  \* u64::MAX: write_range comes to the end before it

Looking == ~Capping(pos)
AtEof == Looking /\ pos >= job.len

LookOn(n, found) == /\ Looking /\ n \in ReadSizes(pos) /\ found = {}
                    /\ Advance(pos + n, Kept(n))

(* max_size comes first.                                                   *)
NoEnd(v) == ~Looking /\ Settle(job.maxSize, v, TRUE)

LookFrom(start) == /\ phase' = "create" /\ pos' = start
                   /\ UNCHANGED <<job, mem, goal, kind, written, flags, disk>>

(* A header too short for read_exact_at is an error, a wrong one is not.   *)
Bzip2Header == /\ Parsing("bzip2")
               /\ \/ Has(0, 4) /\ Token(0).k = "bzip2" /\ LookFrom(4)
                  \/ Has(0, 4) /\ Token(0).k # "bzip2" /\ NotThis
                  \/ ~Has(0, 4) /\ Broken

(* At the end of the evidence neither flag is set.                         *)
Bzip2 == /\ Walking("bzip2")
         /\ \/ NoEnd(FALSE)
            \/ AtEof /\ Settle(pos, FALSE, FALSE)
            \/ \E n \in 1 .. BufSize :
                 \/ LookOn(n, Seen(pos, n))
                 \/ /\ Looking /\ n \in ReadSizes(pos) /\ Seen(pos, n) # {}
                    /\ LET e == MarkEnd(Min(Seen(pos, n))) IN Settle(e, TRUE, Capping(e))

(* parse_gzip_header; n is the length of the header with its extra field,  *)
(* name and comment, which may lie past the end of the evidence.           *)
GzipHeader == /\ Parsing("gzip")
              /\ LET ok == Has(0, 10) /\ Token(0).k = "gzip"
                 IN (ok /\ LookFrom(Token(0).n)) \/ (~ok /\ NotThis)

(* The next member or the end of the evidence ends this one.               *)
Gzip == /\ Walking("gzip")
        /\ \/ NoEnd(FALSE)
           \/ AtEof /\ Settle(pos, TRUE, FALSE)
           \/ \E n \in 1 .. BufSize :
                LET later == Seen(pos, n) \ {0}
                IN \/ LookOn(n, later)
                   \/ /\ Looking /\ n \in ReadSizes(pos) /\ later # {}
                      /\ Settle(Min(later), TRUE, Capping(Min(later)))

XzHeader == /\ Parsing("xz")
            /\ \/ Has(0, 12) /\ Token(0).k = "xz" /\ LookFrom(12)
               \/ Has(0, 12) /\ Token(0).k # "xz" /\ NotThis
               \/ ~Has(0, 12) /\ Broken

(* A footer counts if its CRC is right (n = 1) and it is not the header.   *)
Xz == /\ Walking("xz")
      /\ \/ NoEnd(FALSE)
         \/ AtEof /\ Settle(Capped(Unending), FALSE, job.maxSize > 0)
         \/ \E n \in 1 .. BufSize :
              LET footers == {q \in Seen(pos, n) : Token(q).n = 1 /\ MarkEnd(q) > 12}
              IN \/ LookOn(n, footers)
                 \/ /\ Looking /\ n \in ReadSizes(pos) /\ footers # {}
                    /\ LET e == MarkEnd(Min(footers)) IN Settle(e, TRUE, Capping(e))

(* Enough header fields, an address and line ends, and no template, before *)
(* the search for the next message of an mbox; the flags are those of the  *)
(* copy alone.                                                             *)
Eml == /\ Parsing("eml")
       /\ \/ Token(0).k # "eml" /\ NotThis
          \/ /\ Token(0).k = "eml"
             /\ \/ ~Looking /\ Settle(job.maxSize, TRUE, FALSE)
                \/ AtEof /\ Settle(pos, TRUE, FALSE)
                \/ \E n \in 1 .. BufSize :
                     LET later == {q \in Seen(pos, n) : q > 0 /\ q = Min(Seen(pos, n))}
                     IN \/ LookOn(n, later)
                        \/ /\ Looking /\ n \in ReadSizes(pos) /\ later # {}
                           /\ Settle(Min(later), TRUE, FALSE)

-----------------------------------------------------------------------------
(* zip.  The end record: n and m of its mark are offset and size of the    *)
(* central directory, n of what follows the length of the comment.         *)

EndRecord(q) == q + 22 + Token(q + 4).n

(* read_eocd: without the whole record there is no comment.                *)
EndOf(q) == IF Has(q, 22) THEN EndRecord(q) ELSE q + 22

(* find_eocd: only a record that stands right behind its directory.        *)
Sound(q) == Has(q, 22) /\ Token(q).n + Token(q).m = q

LastSound == IF Len(mem) < 2 THEN {} ELSE mem[2]

ZipFound(q) == LET e == EndRecord(q)
               IN /\ goal' = {Capped(e)} /\ mem' = <<0, {q}>> /\ validated' = TRUE
                  /\ truncated' = (job.maxSize > 0 /\ e > job.maxSize)
                  /\ phase' = "create"
                  /\ UNCHANGED <<job, pos, kind, written, disk>>

(* The whole evidence, or all of max_size, is searched for the last one.   *)
ZipScan ==
    /\ Parsing("zip")
    /\ \/ (~Looking \/ AtEof) /\ LastSound = {} /\ NotThis
       \/ (~Looking \/ AtEof) /\ \E q \in LastSound : ZipFound(q)
       \/ \E n \in 1 .. BufSize :
            /\ Looking /\ n \in ReadSizes(pos)
            /\ \/ pos = 0 /\ n >= 4 /\ Token(0).k # "zip" /\ NotThis
               \/ /\ ~(pos = 0 /\ n >= 4 /\ Token(0).k # "zip")
                  /\ LET sound == {q \in Seen(pos, n) : Sound(q)}
                     IN Advance(pos + n, Kept(n) \o
                                   <<IF sound = {} THEN LastSound ELSE {Max(sound)}>>)

(* The entries of the directory up to the first that is none.              *)
Names == {"docx", "xlsx", "pptx", "mimetype", "entry"}
ZipEntries(q) ==
    LET dir == {p \in DOMAIN job.at : p \in Token(q).n .. Token(q).n + Token(q).m - 1}
    IN {p \in dir : \A d \in dir : d <= p => Token(d).k \in Names}

(* classify_zip, in what was copied: the first name of an Office document, *)
(* or else what is stored as the last mimetype entry, whose n is the       *)
(* offset of its local header.                                             *)
ZipKind(q, size) ==
    LET office == {p \in ZipEntries(q) : Token(p).k \in {"docx", "xlsx", "pptx"}}
        mimes == {p \in ZipEntries(q) : Token(p).k = "mimetype"}
        stored == Token(Token(Max(mimes)).n)
    IN CASE Token(q).m = 0 \/ Token(q).n + Token(q).m > size -> ""
         [] office # {} -> Token(Min(office)).k
         [] office = {} /\ mimes # {} /\ stored.k \in {"odt", "epub"} -> stored.k
         [] OTHER -> ""

(* write_range, then the kind by which the file may be moved or dropped.   *)
ZipCopy ==
    /\ Walking("zip")
    /\ \E e \in goal : /\ written' = Lesser(e, job.len)
                       /\ truncated' = (truncated \/ e > job.len)
    /\ \E q \in mem[2] : kind' = ZipKind(q, written')
    /\ phase' = "flush"
    /\ UNCHANGED <<job, pos, mem, goal, validated, disk>>

(* Without require_eocd: copied up to the first end record, whatever it    *)
(* says, with the rest of that record.                                     *)
ZipEnd(n) ==
    /\ ~Capping(written) /\ n \in ReadSizes(written) /\ Seen(written, n) # {}
    /\ LET q == Min(Seen(written, n))
           e == EndOf(q)
       IN /\ written' = Lesser(Capped(e), job.len)
          /\ truncated' = (Capped(e) # e \/ Capped(e) > job.len)
          /\ kind' = IF Has(q, 22) THEN ZipKind(q, written') ELSE ""
    /\ validated' = TRUE /\ phase' = "flush"
    /\ UNCHANGED <<job, pos, mem, goal, disk>>

ZipForeign(n) == written = 0 /\ n >= 4 /\ Token(0).k # "zip"

ZipStream == /\ Walking("zipstream")
             /\ \/ LimitOrEof
                \/ \E n \in 1 .. BufSize :
                     \/ /\ ~Capping(written) /\ n \in ReadSizes(written)
                        /\ ZipForeign(n) /\ NotThis
                     \/ ~ZipForeign(n) /\ (CopyOn(n) \/ ZipEnd(n))

-----------------------------------------------------------------------------
MarkerNext == \/ Jpeg \/ Pdf \/ PdfLineEnd \/ Fb2Preview \/ Fb2
              \/ Bzip2Header \/ Bzip2 \/ GzipHeader \/ Gzip \/ XzHeader \/ Xz
              \/ Eml \/ ZipScan \/ ZipCopy \/ ZipStream
=============================================================================
