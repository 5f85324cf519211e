---------------------------- MODULE StreamCarvers ----------------------------
(***************************************************************************)
(* The handlers that copy while they parse: png, gif, webp, wav, avi,      *)
(* sqlite, ogg, tar, mp3.  Each one is the loop of its process_hit; a token is  *)
(* what a parser finds at an offset, its n what is declared there.         *)
(***************************************************************************)
EXTENDS Carving

CONSTANTS U32,        \* 2^32
          OggPages,   \* the page limit of ogg.rs, 1000000
          Mp3Frames,  \* max_frames of mp3.rs, 100000
          Mp3Max      \* its limit when there is none, 500 MiB

Here == Token(written)

-----------------------------------------------------------------------------
(* PNG: signature, then chunks up to IEND.                                 *)

PngSignature ==
    /\ Walking("png") /\ written = 0
    /\ \/ Cut(<<8>>)
       \/ Here.k # "png" /\ Reject(<<8>>)
       \/ Here.k = "png" /\ Continue(<<8>>, <<"chunks">>)

(* max_size as u32 drops the upper half of the limit.                      *)
PngTooLong(len) == job.maxSize > 0 /\ len > job.maxSize % U32

(* Truncated although the chunk may fit: nothing of it is copied but its   *)
(* length and type.                                                        *)
PngRefuse(ns) == /\ Fits(ns) /\ written' = Reads(ns).at
                 /\ truncated' = TRUE /\ phase' = "flush"
                 /\ UNCHANGED <<job, parser, validated, disk>>

(* length, type, data and CRC; k is "none" when the type is no UTF-8       *)
PngChunk ==
    /\ Walking("png") /\ written > 0
    /\ LET head == <<4, 4>>
           all == <<4, 4, Here.n, 4>>
       IN \/ Cut(head)
          \/ Here.k = "none" /\ Reject(head)
          \/ Here.k # "none" /\ PngTooLong(Here.n) /\ PngRefuse(head)
          \/ /\ Here.k # "none" /\ ~PngTooLong(Here.n) /\ Fits(head)
             /\ \/ Cut(all)
                \/ Here.k = "IEND" /\ Accept(all)
                \/ Here.k # "IEND" /\ Continue(all, mem)

-----------------------------------------------------------------------------
(* GIF: header and screen descriptor, then blocks up to the trailer.       *)

(* n is the size of the global color table.                                *)
GifHeader ==
    /\ Walking("gif") /\ written = 0
    /\ \/ Cut(<<6>>)
       \/ Here.k # "gif" /\ Reject(<<6>>)
       \/ /\ Here.k = "gif" /\ Fits(<<6>>)
          /\ LET all == <<6, 7, Here.n>>
             IN Cut(all) \/ Continue(all, <<"blocks">>)

GifBlock ==
    /\ Walking("gif") /\ mem = <<"blocks">>
    /\ LET parts == CASE Here.k = "extension" -> <<1, 1>>
                      [] Here.k = "image"     -> <<1, 9, Here.n, 1>>
                      [] OTHER                -> <<1>>
       IN \/ Cut(parts)
          \/ Here.k \in {"extension", "image"} /\ Continue(parts, <<"sub">>)
          \/ Here.k = "trailer" /\ Accept(parts)
          \/ Here.k \notin {"extension", "image", "trailer"} /\ Reject(parts)

(* read_sub_blocks: length bytes, the last of which is 0                   *)
GifSubBlock ==
    /\ Walking("gif") /\ mem = <<"sub">>
    /\ \/ Cut(<<1, Here.n>>)
       \/ Continue(<<1, Here.n>>, IF Here.n = 0 THEN <<"blocks">> ELSE mem)

-----------------------------------------------------------------------------
(* A header that declares the size of the whole: it is copied as far as    *)
(* max_size goes, and counts as whole either way; the limit is flagged     *)
(* when the record is made.                                                *)

SizedFile(f, head, total, wrong) ==
    LET rest == Larger(Capped(total), head) - head
    IN /\ Walking(f)
       /\ \/ Cut(<<head>>)
          \/ wrong /\ Reject(<<head>>)
          \/ /\ ~wrong /\ Fits(<<head>>)
             /\ Cut(<<head, rest>>) \/ Accept(<<head, rest>>)

(* parse_riff_header: the chunk size does not count its own header.        *)
RiffTotal == Here.n + 8

Webp == SizedFile("webp", 12, RiffTotal, Here.k # "WEBP" \/ RiffTotal < 12)
Wav == SizedFile("wav", 12, RiffTotal, Here.k # "WAVE" \/ RiffTotal < 12)
Avi == SizedFile("avi", 12, RiffTotal, Here.k # "AVI" \/ RiffTotal < 12)

(* n is the page size (1 for 65536), m the number of pages (0 before 3.7.0)*)
SqlitePage == IF Here.n = 1 THEN 65536 ELSE Here.n
PageSizes == {512, 1024, 2048, 4096, 8192, 16384, 32768, 65536}

Sqlite == SizedFile("sqlite", 100, SqlitePage * Larger(Here.m, 1),
                    Here.k # "sqlite" \/ SqlitePage \notin PageSizes)

-----------------------------------------------------------------------------
(* Ogg: pages up to one that ends the stream; n segments, m bytes of data. *)

OggPage ==
    LET all == <<27, Here.n, Here.m>>
        pages == IF mem = <<>> THEN 1 ELSE mem[1] + 1
    IN /\ Walking("ogg")
       /\ \/ Cut(<<27>>)
          \/ Here.k \notin {"page", "eos"} /\ Reject(<<27>>)
          \/ /\ Here.k \in {"page", "eos"} /\ Fits(<<27>>)
             /\ \/ Cut(all)
                \/ Here.k = "eos" /\ Accept(all)
                \/ Here.k = "page" /\ pages > OggPages /\ Reject(all)
                \/ Here.k = "page" /\ pages <= OggPages /\ Continue(all, <<pages>>)

-----------------------------------------------------------------------------
(* Tar: blocks up to two that are zero.  mem[1] is zero_blocks.            *)

(* The pattern tar_ustar hits in the middle of a header; so near to the    *)
(* start of the evidence there is none.                                    *)
TarStart == /\ Parsing("tar")
            /\ \/ Token(0).k = "early" /\ NotThis
               \/ Token(0).k # "early" /\ Promising

Zeros == IF mem = <<>> THEN 0 ELSE mem[1]

(* The data of a member fills whole blocks.                                *)
TarData(size) == ((size + 511) \div 512) * 512

TarBlock ==
    /\ Walking("tar")
    /\ \/ Cut(<<512>>)
       \/ Here.k = "zero" /\ Zeros + 1 >= 2 /\ Accept(<<512>>)
       \/ Here.k = "zero" /\ Zeros + 1 < 2 /\ Continue(<<512>>, <<Zeros + 1>>)
       \/ /\ Here.k = "member" /\ Fits(<<512>>)
          /\ LET all == <<512, TarData(Here.n)>>
             IN Cut(all) \/ Continue(all, <<0>>)
       \/ Here.k \notin {"zero", "member"} /\ Reject(<<512>>)

-----------------------------------------------------------------------------
(* MP3: an ID3v2 tag or a frame, then the frames that follow, which are    *)
(* peeked at before they are copied.  mem is how it began and how many     *)
(* frames there were.                                                      *)

Mp3Start ==
    /\ Walking("mp3") /\ written = 0
    /\ LET all == <<10, Larger(Here.n, 10) - 10>>
       IN \/ Cut(<<10>>)
          \/ Here.k \notin {"id3", "frame"} /\ Reject(<<10>>)
          \/ /\ Here.k \in {"id3", "frame"} /\ Fits(<<10>>)
             /\ \/ Cut(all)
                \/ Here.k = "id3" /\ Continue(all, <<"id3", 0>>)
                \/ Here.k = "frame" /\ Continue(all, <<"sync", 1>>)

(* MIN_FRAMES_FOR_SYNC_VALIDATION                                          *)
Mp3Sure == mem[1] = "id3" \/ mem[2] >= 3

Mp3Goes == /\ mem[2] < Mp3Frames
           /\ written < (IF job.maxSize > 0 THEN job.maxSize ELSE Mp3Max)
           /\ Has(written, 4)

Mp3Frame ==
    /\ Walking("mp3") /\ written > 0
    /\ \/ /\ ~Mp3Goes \/ Here.k \notin {"id3v1", "frame"}
          /\ Stop(<<>>, Mp3Sure)
       \/ /\ Mp3Goes /\ Here.k = "id3v1"
          /\ Cut(<<128>>) \/ Stop(<<128>>, Mp3Sure)
       \/ /\ Mp3Goes /\ Here.k = "frame"
          /\ Cut(<<Here.n>>) \/ Continue(<<Here.n>>, <<mem[1], mem[2] + 1>>)

-----------------------------------------------------------------------------
StreamNext == \/ PngSignature \/ PngChunk
              \/ GifHeader \/ GifBlock \/ GifSubBlock
              \/ Webp \/ Wav \/ Avi \/ Sqlite
              \/ OggPage \/ TarStart \/ TarBlock \/ Mp3Start \/ Mp3Frame
=============================================================================
