----------------------------- MODULE SizedCarvers -----------------------------
(***************************************************************************)
(* The handlers that work out where the file ends from its header, tables  *)
(* or boxes, read in place, and then copy that range: bmp, 7z, elf, ico,   *)
(* lrf, mobi, wmv, webm, mp4, mov, rar, tiff.                              *)
(***************************************************************************)
EXTENDS Carving

CONSTANTS IcoImage,  \* MAX_SINGLE_IMAGE_SIZE
          IcoMax,    \* MAX_REASONABLE_ICO_SIZE
          WebmScan,  \* how far webm looks for the segment, 1 MiB
          RarHeader, \* MAX_RAR5_HEADER_BYTES
          TiffData   \* MAX_TIFF_DATA_BYTES

ASSUME SizedAssumption == IcoMax \in Nat

At(p) == Token(p)

-----------------------------------------------------------------------------
(* bmp and 7z flag max_size.                                               *)

Flagged(e) == Settle(Capped(e), TRUE, job.maxSize > 0 /\ e > job.maxSize)

(* n is the declared file size.  A header cut off before the dimensions    *)
(* counts without them.                                                    *)
Bmp == /\ Parsing("bmp")
       /\ LET ok == /\ Has(0, 18)
                    /\ At(0).k = "bmp" \/ (At(0).k = "huge" /\ ~Has(0, 26))
          IN (ok /\ Flagged(At(0).n)) \/ (~ok /\ NotThis)

SevenZ == /\ Parsing("7z")
          /\ LET ok == Has(0, 32) /\ At(0).k = "7z"
             IN (ok /\ Flagged(32 + At(0).n + At(0).m)) \/ (~ok /\ NotThis)

-----------------------------------------------------------------------------
(* elf, ico, lrf, mobi and wmv do not.                                     *)

Unflag(e) == Settle(Capped(e), TRUE, FALSE)

(* n and m are the ends of the program and section header tables, 0 for    *)
(* none.                                                                   *)
Elf == /\ Parsing("elf")
       /\ \/ ~Has(0, 64) /\ Broken
          \/ Has(0, 64) /\ At(0).k # "elf" /\ NotThis
          \/ /\ Has(0, 64) /\ At(0).k = "elf"
             /\ LET size == Larger(At(0).n, At(0).m)
                IN Unflag(IF size = 0 THEN 64 ELSE size)

(* n is the number of images, each with its size n and offset m.           *)
IcoEntries == {At(6 + 16 * i) : i \in 0 .. At(0).n - 1}
IcoHeader == 6 + 16 * At(0).n

(* validate_image_data                                                     *)
IcoShows(x) == x.n >= 8 /\ Has(x.m, 8) /\ At(x.m).k = "image"

IcoSound == /\ \A x \in IcoEntries : x.n \in 1 .. IcoImage /\ x.m >= IcoHeader
            /\ \E x \in IcoEntries : IcoShows(x)

IcoLike == Has(0, 6) /\ At(0).k = "ico" /\ At(0).n \in 1 .. 64

Ico == /\ Parsing("ico")
       /\ \/ ~Has(0, 6) /\ Broken
          \/ Has(0, 6) /\ ~IcoLike /\ NotThis
          \/ IcoLike /\ ~Has(0, IcoHeader) /\ Broken
          \/ IcoLike /\ Has(0, IcoHeader) /\ ~IcoSound /\ NotThis
          \/ /\ IcoLike /\ Has(0, IcoHeader) /\ IcoSound
             /\ Unflag(Lesser(Max({x.m + x.n : x \in IcoEntries}), IcoMax))

(* n is the declared size.                                                 *)
Lrf == /\ Parsing("lrf")
       /\ \/ ~Has(0, 12) /\ Broken
          \/ Has(0, 12) /\ At(0).k # "lrf" /\ NotThis
          \/ /\ Has(0, 12) /\ At(0).k = "lrf"
             /\ Unflag(CASE At(0).n > 0     -> At(0).n
                         [] job.maxSize > 0 -> job.maxSize
                         [] OTHER           -> 1024)

(* n is the number of records; nothing says how long the last one is.      *)
MobiRecords == 0 .. At(0).n - 1
MobiOffset(i) == At(78 + 8 * i).n
MobiTable == 78 + 8 * At(0).n
MobiOffsets == {MobiOffset(i) : i \in MobiRecords}

(* The last record is taken to be as long as the one before.               *)
MobiLast ==
    LET last == Max(MobiOffsets)
        atLast == {i \in MobiRecords : MobiOffset(i) = last}
    IN CASE At(0).n = 1             -> 4096
         [] Cardinality(atLast) > 1 -> 1
         [] OTHER                   -> last - Max(MobiOffsets \ {last})

MobiLike == Has(0, 78) /\ At(0).k = "mobi" /\ At(0).n \in 1 .. 4096

Mobi == /\ Parsing("mobi")
        /\ \/ At(0).k = "early" /\ NotThis
           \/ At(0).k # "early" /\ ~Has(0, 78) /\ Broken
           \/ At(0).k # "early" /\ Has(0, 78) /\ ~MobiLike /\ NotThis
           \/ MobiLike /\ ~Has(0, MobiTable) /\ Broken
           \/ /\ MobiLike /\ Has(0, MobiTable)
              /\ \/ Min(MobiOffsets) < MobiTable /\ NotThis
                 \/ /\ Min(MobiOffsets) >= MobiTable
                    /\ Unflag(Max(MobiOffsets) + MobiLast)

(* n is the size of the header, whose objects follow one another.          *)
WmvHeader == /\ Parsing("wmv") /\ pos = 0
             /\ \/ ~Has(0, 30) /\ Broken
                \/ Has(0, 30) /\ At(0).k # "wmv" /\ NotThis
                \/ Has(0, 30) /\ At(0).k = "wmv" /\ Advance(30, mem)

(* n is the size of the object, m that of the file in the file properties. *)
WmvObject ==
    LET within == pos + 24 <= At(0).n
        tells == At(pos).k = "properties" /\ Has(pos + 40, 8)
    IN /\ Parsing("wmv") /\ pos > 0
       /\ \/ ~within /\ Unflag(At(0).n)
          \/ within /\ ~Has(pos, 24) /\ Broken
          \/ within /\ Has(pos, 24) /\ At(pos).n < 24 /\ Unflag(At(0).n)
          \/ /\ within /\ Has(pos, 24) /\ At(pos).n >= 24
             /\ \/ tells /\ Unflag(At(pos).m)
                \/ ~tells /\ Advance(pos + At(pos).n, mem)

-----------------------------------------------------------------------------
(* webm: the EBML header, whose id is the pattern; n for id and size, m    *)
(* for what they announce; then elements up to the segment, likewise.      *)

WebmHeader ==
    LET head == At(0)
    IN /\ Parsing("webm") /\ pos = 0
       /\ \/ head.k \notin {"ebml", "foreign"} /\ NotThis
          \/ /\ head.k \in {"ebml", "foreign"}
             /\ \/ ~Has(0, head.n + head.m) /\ Broken
                \/ Has(0, head.n + head.m) /\ head.k = "foreign" /\ NotThis
                \/ /\ Has(0, head.n + head.m) /\ head.k = "ebml"
                   /\ Advance(head.n + head.m, <<head.n + head.m>>)

(* The flag for max_size is set after the copy, which makes no difference. *)
WebmElement ==
    LET x == At(pos)
        missing == \/ pos >= mem[1] + WebmScan
                   \/ x.k \notin {"element", "segment", "endless"} \/ ~Has(pos, x.n)
        end == Capped(pos + x.n + x.m)
    IN /\ Parsing("webm") /\ pos > 0
       /\ \/ missing /\ Broken
          \/ ~missing /\ x.k = "element" /\ Advance(pos + x.n + x.m, mem)
          \/ ~missing /\ x.k = "segment" /\ Settle(end, TRUE, Capping(end))
          \/ /\ ~missing /\ x.k = "endless"
             /\ LET all == IF job.maxSize > 0 THEN job.maxSize ELSE job.len
                IN Settle(all, FALSE, Capping(all))

-----------------------------------------------------------------------------
(* mp4, mov: boxes of size n.  m says how it is written: 1 in an extended  *)
(* header, 0 in a plain one.  Nothing marks the last box, and a box is     *)
(* taken for one whatever its type.                                        *)

Quicktime == {"mp4", "mp4qt", "mov"}

BoxesOver(m, t) == \/ m = {"ftyp", "moov"} /\ Settle(pos, TRUE, t)
                   \/ m # {"ftyp", "moov"} /\ NotThis

(* The brand decides who takes the file; mov must be able to read it.      *)
FirstBox(x, head) ==
    CASE job.fmt = "mp4"   -> x.k = "ftyp" \/ (x.k = "qt" /\ ~Has(head, 4))
      [] job.fmt = "mp4qt" -> x.k \in {"ftyp", "qt"}
      [] job.fmt = "mov"   -> x.k = "qt" /\ Has(head, 4)

Box ==
    LET x == At(pos)
        head == IF x.m = 1 THEN 16 ELSE 8
        seen == IF mem = <<>> THEN {} ELSE mem[1]
        first == IF pos = 0 THEN {"ftyp"} ELSE {}
        now == seen \cup first \cup ({x.k} \cap {"moov"})
        readable == Has(pos, head) /\ x.n >= head
    IN /\ phase = "parse" /\ job.fmt \in Quicktime
       /\ \/ Capping(pos) /\ BoxesOver(seen, TRUE)
          \/ ~Capping(pos) /\ ~readable /\ BoxesOver(seen, FALSE)
          \/ /\ ~Capping(pos) /\ readable
             /\ \/ pos = 0 /\ ~FirstBox(x, head) /\ NotThis
                \/ /\ pos = 0 => FirstBox(x, head)
                   /\ \/ job.maxSize > 0 /\ pos + x.n > job.maxSize /\ BoxesOver(now, TRUE)
                      \/ /\ job.maxSize > 0 => pos + x.n <= job.maxSize
                         /\ Advance(pos + x.n, <<now>>)

-----------------------------------------------------------------------------
(* rar, version 4: blocks with a header of n bytes and m bytes of data.    *)
(* Version 5: the same, but the data counts for max_size.                  *)

RarSignature == /\ Parsing("rar") /\ pos = 0
                /\ \/ Has(0, 8) /\ At(0).k = "rar4" /\ Advance(7, mem)
                   \/ Has(0, 8) /\ At(0).k = "rar5" /\ Advance(8, mem)
                   \/ (~Has(0, 8) \/ At(0).k \notin {"rar4", "rar5"}) /\ NotThis

RarCut == Settle(pos, TRUE, TRUE)

(* The size of packed data stands behind the common header, that of large  *)
(* files behind the file header.                                           *)
Rar4Data(x) == CASE x.k = "file"  -> 11
                 [] x.k = "large" -> 36
                 [] OTHER         -> 7

Rar4Block ==
    LET x == At(pos)
        over == job.maxSize > 0 /\ pos + x.n > job.maxSize
    IN /\ Parsing("rar") /\ pos > 0 /\ At(0).k = "rar4"
       /\ \/ (Capping(pos) \/ ~Has(pos, 7)) /\ RarCut
          \/ /\ ~Capping(pos) /\ Has(pos, 7)
             /\ \/ x.n < 7 /\ NotThis
                \/ x.n >= 7 /\ over /\ RarCut
                \/ x.n >= 7 /\ ~over /\ x.k = "end" /\ Settle(pos + x.n, TRUE, FALSE)
                \/ /\ x.n >= 7 /\ ~over /\ x.k # "end"
                   /\ \/ x.k = "large" /\ Has(pos, 11) /\ x.n < 36 /\ NotThis
                      \/ /\ ~(x.k = "large" /\ Has(pos, 11) /\ x.n < 36)
                         /\ \/ ~Has(pos, Rar4Data(x)) /\ RarCut
                            \/ Has(pos, Rar4Data(x)) /\ Advance(pos + x.n + x.m, mem)

Rar5Block ==
    LET x == At(pos)
        end == pos + x.n + x.m
    IN /\ Parsing("rar") /\ pos > 0 /\ At(0).k = "rar5"
       /\ \/ (Capping(pos) \/ ~Has(pos, 5)) /\ RarCut
          \/ /\ ~Capping(pos) /\ Has(pos, 5)
             /\ \/ (x.k \notin {"block", "end"} \/ x.n > RarHeader) /\ NotThis
                \/ /\ x.k \in {"block", "end"} /\ x.n <= RarHeader
                   /\ \/ ~Has(pos, x.n) /\ RarCut
                      \/ /\ Has(pos, x.n) /\ job.maxSize > 0 /\ end > job.maxSize
                         /\ RarCut
                      \/ /\ Has(pos, x.n) /\ (job.maxSize > 0 => end <= job.maxSize)
                         /\ \/ x.k = "end" /\ Settle(end, TRUE, FALSE)
                            \/ x.k = "block" /\ Advance(end, mem)

-----------------------------------------------------------------------------
(* tiff: directories (IFD) of n entries, m for the next one, in a queue.   *)
(* An entry has m bytes of data at n, or n itself if they are at most 4.   *)

Mentioned == {"sub", "strips", "counts", "tiles", "tileCounts"}

TiffHeader ==
    /\ Parsing("tiff") /\ pos = 0
    /\ LET ok == Has(0, 8) /\ At(0).k = "tiff"
           queue == IF At(0).n >= 8 THEN <<At(0).n>> ELSE <<>>
       IN \/ ok /\ Advance(8, <<[queue |-> queue, seen |-> {}, end |-> 8]>>)
          \/ ~ok /\ NotThis

(* The table of an IFD, and where it ends.                                 *)
IfdEntries(ifd) == [i \in 1 .. At(ifd).n |-> At(ifd + 2 + 12 * (i - 1))]
IfdEnd(ifd) == ifd + 6 + 12 * At(ifd).n
IfdWhole(ifd) == IfdEnd(ifd) <= job.len /\ At(ifd).n <= 4096

(* read_u32_array                                                          *)
Array(x) == IF x.m <= 4 THEN <<x.n>>
            ELSE [j \in 1 .. x.m \div 4 |-> At(x.n + 4 * (j - 1)).n]

Unreadable(entries) ==
    {i \in DOMAIN entries :
       LET x == entries[i]
       IN x.k \in Mentioned /\ x.m > 4 /\ (x.m > TiffData \/ ~Has(x.n, x.m))}

(* An entry that cannot be read ends the table, but its end counts.        *)
Looked(entries) == IF Unreadable(entries) = {} THEN entries
                   ELSE SubSeq(entries, 1, Min(Unreadable(entries)))

Tagged(entries, tag) == {i \in DOMAIN entries : entries[i].k = tag /\ entries[i].m > 0}

(* update_max_with_offsets: the last of each tag counts.                   *)
PairEnds(entries, starts, sizes) ==
    LET of(tag) == Array(entries[Max(Tagged(entries, tag))])
    IN IF Tagged(entries, starts) # {} /\ Tagged(entries, sizes) # {}
       THEN {of(starts)[i] + of(sizes)[i] : i \in DOMAIN of(starts) \cap DOMAIN of(sizes)}
       ELSE {}

DataEnds(entries) ==
    {entries[i].n + entries[i].m : i \in {i \in DOMAIN entries : entries[i].m > 4}}

(* An offset that lies in the header is none, and 0 is passed by.          *)
SubIfds(entries) ==
    FlattenSeq([i \in DOMAIN entries |->
                  IF i \in Tagged(entries, "sub")
                  THEN [j \in DOMAIN Array(entries[i]) |->
                          IF Array(entries[i])[j] >= 8 THEN Array(entries[i])[j] ELSE 0]
                  ELSE <<>>])

EndAfter(known, ifd) == Max({known, IfdEnd(ifd)} \cup DataEnds(Looked(IfdEntries(ifd))))
NextIfd(ifd) == IF At(ifd).m > 0 THEN <<At(ifd).m>> ELSE <<>>

TiffCut(e) == Settle(Capped(e), TRUE, TRUE)

(* parse_ifd for the first of the queue.  One that was seen is passed by.  *)
TiffIfd ==
    LET m == mem[1]
        ifd == Head(m.queue)
        entries == IfdEntries(ifd)
        end == EndAfter(m.end, ifd)
    IN /\ Parsing("tiff") /\ pos > 0 /\ m.queue # <<>>
       /\ \/ /\ ifd \in m.seen \cup {0}
             /\ Advance(pos, <<[m EXCEPT !.queue = Tail(@)]>>)
          \/ ifd \notin m.seen \cup {0} /\ ~IfdWhole(ifd) /\ TiffCut(m.end)
          \/ /\ ifd \notin m.seen \cup {0} /\ IfdWhole(ifd)
             /\ Unreadable(entries) # {} /\ TiffCut(end)
          \/ /\ ifd \notin m.seen \cup {0} /\ IfdWhole(ifd) /\ Unreadable(entries) = {}
             /\ Advance(pos, <<[queue |-> Tail(m.queue) \o SubIfds(entries) \o NextIfd(ifd),
                                seen |-> m.seen \cup {ifd},
                                end |-> Max({end} \cup PairEnds(entries, "strips", "counts")
                                            \cup PairEnds(entries, "tiles", "tileCounts"))]>>)

TiffEnd == Parsing("tiff") /\ pos > 0 /\ mem[1].queue = <<>> /\ Flagged(mem[1].end)

-----------------------------------------------------------------------------
SizedNext == \/ Bmp \/ SevenZ \/ Elf \/ Ico \/ Lrf \/ Mobi
             \/ WmvHeader \/ WmvObject \/ WebmHeader \/ WebmElement \/ Box
             \/ RarSignature \/ Rar4Block \/ Rar5Block
             \/ TiffHeader \/ TiffIfd \/ TiffEnd
=============================================================================
