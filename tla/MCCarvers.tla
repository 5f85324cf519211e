------------------------------ MODULE MCCarvers ------------------------------
(***************************************************************************)
(* Small evidence for the file type handlers.  A layout is the file as its *)
(* format has it: tokens one after another, each with the width it really  *)
(* has, and whether the last one ends the file.  The evidence and max_size *)
(* end at, just before and just after every token.                         *)
(***************************************************************************)
EXTENDS Carvers

T(k, n, m, w) == [k |-> k, n |-> n, m |-> m, w |-> w]

OffsetIn(ts, i) == FoldLeft(LAMBDA sum, t : sum + t.w, 0, SubSeq(ts, 1, i - 1))
Total(ts) == OffsetIn(ts, Len(ts) + 1)

Laid(ts) ==
    [p \in {OffsetIn(ts, i) : i \in 1 .. Len(ts)} |->
       LET t == ts[CHOOSE i \in 1 .. Len(ts) : OffsetIn(ts, i) = p]
       IN [k |-> t.k, n |-> t.n, m |-> t.m]]

Cuts(ts) == {OffsetIn(ts, i) : i \in 2 .. Len(ts) + 1}
            \cup {OffsetIn(ts, i) + d : i \in 2 .. Len(ts), d \in {1, 9}}
            \cup {Total(ts) - 1, Total(ts) + 3}

(* Where the pattern that was hit ends: so much evidence there is at least.*)
HitLen == [png |-> 8, gif |-> 6, webp |-> 4, wav |-> 4, avi |-> 4, sqlite |-> 16, ogg |-> 4,
           tar |-> 262, rtf |-> 5, mp3 |-> 2, ole |-> 8, jpeg |-> 3, pdf |-> 5, fb2 |-> 5,
           bzip2 |-> 3, gzip |-> 3, xz |-> 6, eml |-> 6, zip |-> 4, zipstream |-> 4,
           bmp |-> 2, elf |-> 4, ico |-> 4, lrf |-> 4, mobi |-> 68, wmv |-> 16, webm |-> 4,
           mp4 |-> 8, mp4qt |-> 8, mov |-> 12, rar |-> 7, tiff |-> 4] @@ [f \in {"7z"} |-> 6]

JobsWith(fmt, ts, ends, kinds) ==
    LET jobs(limits, least) ==
          [fmt : {fmt}, at : {Laid(ts)}, len : {c \in Cuts(ts) : c > HitLen[fmt]} \cup {HitLen[fmt]},
           maxSize : limits, minSize : {least}, kinds : kinds, ends : {ends}]
    IN jobs({0, 3} \cup Cuts(ts), 0) \cup jobs({0}, Total(ts) - 2)

JobsOf(fmt, ts, whole, kinds) ==
    JobsWith(fmt, ts, IF whole THEN {Total(ts)} ELSE {}, kinds)

Family(fmt, wholes, others) ==
    UNION {JobsOf(fmt, ts, TRUE, {{}}) : ts \in wholes}
    \cup UNION {JobsOf(fmt, ts, FALSE, {{}}) : ts \in others}

-----------------------------------------------------------------------------
PngHead == T("png", 0, 0, 8)
PngData(n) == T("IDAT", n, 0, n + 12)
PngEnd == T("IEND", 0, 0, 12)
PngJobs == Family("png", {<<PngHead, PngEnd>>, <<PngHead, PngData(5), PngData(0), PngEnd>>,
                          <<PngHead, PngData(30), PngEnd>>},
                  {<<T("none", 0, 0, 20)>>, <<PngHead, PngData(3), T("none", 0, 0, 9)>>})

GifHead(table) == T("gif", table, 0, 13 + table)
GifExt == T("extension", 0, 0, 2)
GifImage(table) == T("image", table, 0, 11 + table)
GifSub(n) == T("sub", n, 0, n + 1)
GifEnd == T("trailer", 0, 0, 1)
GifJobs == Family("gif", {<<GifHead(6), GifExt, GifSub(3), GifSub(0), GifEnd>>,
                          <<GifHead(0), GifImage(6), GifSub(2), GifSub(0), GifEnd>>},
                  {<<T("none", 0, 0, 20)>>, <<GifHead(0), GifImage(0), GifSub(0)>>})

RiffJobs == UNION {Family(f[1], {<<T(f[2], 20, 0, 28)>>, <<T(f[2], 4, 0, 12)>>},
                          {<<T(f[2], 3, 0, 30)>>, <<T("other", 20, 0, 28)>>}) :
                     f \in {<<"webp", "WEBP">>, <<"wav", "WAVE">>, <<"avi", "AVI">>}}

SqliteJobs == Family("sqlite", {<<T("sqlite", 512, 0, 512)>>, <<T("sqlite", 1024, 3, 3072)>>,
                                <<T("sqlite", 1, 1, 65536)>>},
                     {<<T("sqlite", 500, 1, 500)>>, <<T("none", 0, 0, 200)>>})

OggP(k, segments, data) == T(k, segments, data, 27 + segments + data)
OggJobs == Family("ogg", {<<OggP("eos", 0, 0)>>, <<OggP("page", 1, 9), OggP("eos", 2, 30)>>},
                  {<<OggP("page", 1, 4), T("none", 0, 0, 40)>>,
                   [i \in 1 .. OggPages + 2 |-> OggP("page", 1, 0)]})

Member(n) == <<T("member", n, 0, 512), T("data", 0, 0, TarData(n))>>
Zeroes == <<T("zero", 0, 0, 512), T("zero", 0, 0, 512)>>
TarJobs == Family("tar", {<<T("member", 0, 0, 512)>> \o Zeroes,
                          Member(1) \o SubSeq(Zeroes, 1, 1) \o Member(513) \o Zeroes},
                  {<<T("early", 0, 0, 600)>>, Member(512) \o <<T("none", 0, 0, 512)>>})

Frame(n) == T("frame", n, 0, n)
Tag1 == T("id3v1", 0, 0, 128)
(* An MP3 may end after each of its frames, without ID3 tag from the third *)
(* on.                                                                     *)
Mp3File(ts) ==
    JobsWith("mp3", ts, {OffsetIn(ts, i) : i \in (IF ts[1].k = "id3" THEN 2 ELSE 4) .. Len(ts) + 1},
             {{}})
Mp3Jobs == UNION {Mp3File(ts) : ts \in
                    {<<T("id3", 20, 0, 20)>>, <<T("id3", 10, 0, 10), Frame(32), Tag1>>,
                     <<Frame(24), Frame(24), Frame(26)>>, <<Frame(24), Frame(24)>>,
                     <<Frame(24), Frame(24), Frame(24), Tag1>>}}
           \cup Family("mp3", {}, {<<T("none", 0, 0, 50)>>})

StreamJobs == PngJobs \cup GifJobs \cup RiffJobs \cup SqliteJobs \cup OggJobs
              \cup TarJobs \cup Mp3Jobs

-----------------------------------------------------------------------------
Chars(s) == [i \in 1 .. Len(s) |-> T(s[i], 0, 0, 1)]
Rtf(s) == <<T("rtf", 0, 0, 5)>> \o Chars(s)
RtfJobs ==
    Family("rtf", {Rtf(<<"\\", "a", "{", "\\", "}", "a", "}", " ", "}">>),
                   Rtf(<<"{", "\\", "b", "i", "n", "0", " ", "}", "\\", "\\", "}">>),
                   Rtf(<<"\\", "b", "i", "n", "2", " ", "a", "a", "}">>)},
           {Rtf(<<"{", "}", "a">>), <<T("none", 0, 0, 9)>>})

(* An OLE file of 512 byte sectors: its header with the DIFAT, then        *)
(* sectors; fat and dir are what is in sectors 0 and 1.                    *)
OleFile(first, fats, sectors) ==
    <<T("ole", 3, first, 76)>> \o [i \in 1 .. Len(fats) |-> T("difat", fats[i], 0, 4)]
    \o <<T("rest", 0, 0, 436 - 4 * Len(fats))>>
    \o [i \in 1 .. Len(sectors) |-> T(sectors[i].k, sectors[i].n, 0, 512)]

S(k, n) == [k |-> k, n |-> n]
OleWhole == {OleFile(1, <<0>>, <<S("fat", 2), S("WordDocument", 2), S("dir", NoSector)>>),
             OleFile(0, <<1>>, <<S("Workbook", 0), S("fat", 1)>>),
             OleFile(NoSector, <<0, 1>>, <<S("fat", 1), S("fat", 2), S("data", 0)>>)}
OleOther == {<<T("ole", 9, 0, 600)>>, OleFile(0, <<>>, <<S("dir", 0)>>)}
OleJobs == UNION {JobsOf("ole", ts, TRUE, {{}, {"doc"}, {"ppt", "ole"}}) : ts \in OleWhole}
           \cup UNION {JobsOf("ole", ts, FALSE, {{}}) : ts \in OleOther}

DocumentJobs == RtfJobs \cup OleJobs

-----------------------------------------------------------------------------
D(w) == T("data", 0, 0, w)
Mark(fmt, n) == T("mark", n, 0, MarkLen[fmt])
Foreign == <<D(20)>>

JpegJobs == Family("jpeg", {<<D(29), Mark("jpeg", 0)>>, <<D(15), Mark("jpeg", 0)>>,
                            <<D(9), Mark("jpeg", 1), D(12), Mark("jpeg", 0)>>}, {<<D(33)>>})

(* A PDF is whole with or without the line end behind its mark.            *)
PdfFile == <<T("pdf", 0, 0, 13), Mark("pdf", 0)>>
PdfWith(lineEnd) == LET ts == PdfFile \o lineEnd
                    IN JobsWith("pdf", ts, Total(PdfFile) .. Total(ts), {{}})
PdfJobs == UNION {PdfWith(lineEnd) : lineEnd \in
                    {<<>>, <<T("lf", 0, 0, 1)>>, <<T("cr", 0, 0, 1)>>,
                     <<T("cr", 0, 0, 1), T("lf", 0, 0, 1)>>}}
           \cup Family("pdf", {<<T("pdf", 0, 0, 13), Mark("pdf", 1), D(9), Mark("pdf", 0)>>},
                       {Foreign, <<T("pdf", 0, 0, 20)>>})

Fb2Jobs == Family("fb2", {<<T("fb2", Preview, 0, 25), Mark("fb2", 0)>>},
                  {Foreign, <<T("fb2", Preview + 1, 0, 40)>>})

(* The handler leaves out the checksum behind the mark.                    *)
Bzip2Jobs == JobsWith("bzip2", <<T("bzip2", 0, 0, 17), Mark("bzip2", 0), D(4)>>, {23}, {{}})
             \cup Family("bzip2", {}, {Foreign})

XzJobs == Family("xz", {<<T("xz", 0, 0, 9), Mark("xz", 1), D(9), Mark("xz", 0), D(10), Mark("xz", 1)>>},
                 {Foreign, <<T("xz", 0, 0, 30)>>})

(* Nothing marks the end of these but the next one, for which evidence and *)
(* max_size must leave room, or the end of the evidence.                   *)
UpToNext(fmt, ts, next) ==
    LET room(j) == next + MarkLen[fmt] <= (IF j.maxSize > 0 THEN Lesser(j.len, j.maxSize) ELSE j.len)
    IN {[j EXCEPT !.ends = IF j.len = next \/ room(j) THEN {next} ELSE {}] :
          j \in JobsOf(fmt, ts, TRUE, {{}})}

GzipJobs == UpToNext("gzip", <<T("gzip", 12, 0, 20), Mark("gzip", 0), D(9)>>, 20)
            \cup Family("gzip", {}, {Foreign})
EmlJobs == UpToNext("eml", <<T("eml", 0, 0, 27), Mark("eml", 0), D(9)>>, 27)
           \cup Family("eml", {}, {Foreign})

EndRec(fmt, at, size, comment) ==
    <<T("mark", at, size, 4), T("rest", comment, 0, 18 + comment)>>
Docx == <<T("zip", 0, 0, 20), T("docx", 0, 0, 10)>> \o EndRec("zip", 20, 10, 3)
Odt == <<T("zip", 0, 0, 9), T("odt", 0, 0, 9), T("mimetype", 9, 0, 6), T("entry", 0, 0, 6)>>
       \o EndRec("zip", 18, 12, 0)
Stored == <<T("zip", 0, 0, 9)>> \o EndRec("zip", 0, 4, 0) \o <<T("entry", 0, 0, 5), T("data", 0, 0, 3)>>
          \o EndRec("zip", 31, 8, 0)
ZipJobs ==
    UNION {JobsOf(f, ts, TRUE, {{}, {"zip"}, {"docx"}}) : f \in {"zip", "zipstream"}, ts \in {Docx, Odt}}
    \cup JobsOf("zip", Stored, TRUE, {{}})
    \cup UNION {JobsOf(f, ts, FALSE, {{}}) : f \in {"zip", "zipstream"}, ts \in {Foreign, <<T("zip", 0, 0, 30)>>}}

MarkerJobs == JpegJobs \cup PdfJobs \cup Fb2Jobs \cup Bzip2Jobs \cup XzJobs \cup GzipJobs
              \cup EmlJobs \cup ZipJobs

-----------------------------------------------------------------------------
BmpFile(k, size) == <<T(k, size, 0, 18), D(8), D(8)>>
BmpJobs == Family("bmp", {BmpFile("bmp", 34)}, {BmpFile("huge", 34), Foreign})

SevenZJobs == Family("7z", {<<T("7z", 5, 7, 32), D(12)>>, <<T("7z", 0, 0, 32)>>}, {<<D(40)>>})

ElfJobs == Family("elf", {<<T("elf", 80, 90, 64), D(26)>>, <<T("elf", 0, 0, 64)>>}, {<<D(70)>>})

Icon(size, at) == T("icon", size, at, 16)
IcoJobs == Family("ico",
    {<<T("ico", 2, 0, 6), Icon(9, 38), Icon(12, 47), D(9), T("image", 0, 0, 12)>>},
    {<<T("ico", 1, 0, 6), Icon(0, 22), D(9)>>, <<T("ico", 1, 0, 6), Icon(9, 21), D(9)>>,
     <<T("ico", 1, 0, 6), Icon(IcoImage + 1, 22), D(9)>>, <<T("ico", 1, 0, 6), Icon(9, 22), D(9)>>,
     <<T("ico", 2, 0, 6), Icon(20, 38), Icon(9, IcoMax), T("image", 0, 0, 70)>>, Foreign})

LrfJobs == Family("lrf", {<<T("lrf", 30, 0, 12), D(18)>>}, {<<T("lrf", 0, 0, 12), D(9)>>, Foreign})

MobiFile(a, b, rest) == <<T("mobi", 2, 0, 78), T("record", a, 0, 8), T("record", b, 0, 8), D(rest)>>
MobiJobs == Family("mobi", {MobiFile(94, 101, 14), MobiFile(101, 94, 14), MobiFile(94, 94, 1)},
                   {<<T("mobi", 1, 0, 78), T("record", 86, 0, 8), D(4)>>, MobiFile(90, 99, 20),
                    <<T("early", 0, 0, 90)>>, <<D(90)>>})

WmvFile(size) == <<T("wmv", 102, 0, 30), T("object", 24, 0, 24), T("properties", 48, size, 48), D(20)>>
WmvJobs == Family("wmv", {WmvFile(122), <<T("wmv", 60, 0, 30), T("object", 30, 0, 30)>>},
                  {<<T("wmv", 60, 0, 30), T("object", 9, 0, 30)>>, <<D(40)>>})

Ebml == T("ebml", 8, 10, 18)
WebmJobs == Family("webm", {<<Ebml, T("element", 4, 6, 10), T("segment", 6, 20, 26)>>},
                   {<<Ebml, T("endless", 6, 0, 26)>>, <<T("foreign", 8, 10, 18)>>, <<Ebml, D(9)>>,
                    <<Ebml, T("element", 4, WebmScan, WebmScan + 4), T("segment", 6, 4, 10)>>, Foreign})

(* Every box may be the last, once there was a moov.                       *)
Boxes(fmts, ts) ==
    LET ends == {OffsetIn(ts, i + 1) : i \in {i \in 1 .. Len(ts) :
                                               \E h \in 1 .. i : ts[h].k = "moov"}}
    IN UNION {JobsWith(f, ts, ends, {{}}) : f \in fmts}
NoBoxes(fmts, ts) == {[j EXCEPT !.ends = {}] : j \in Boxes(fmts, ts)}
Bx(k, n) == T(k, n, 0, n)
Extended(n) == T("box", n, 1, n)
LastBox(w) == T("box", 0, 0, w)
QtFile == <<Bx("qt", 12), Bx("moov", 9), Extended(20)>>
FtypFile == <<Bx("ftyp", 12), Extended(20), Bx("moov", 9), Bx("foreign", 14)>>
BoxJobs == Boxes({"mp4qt", "mov"}, QtFile) \cup NoBoxes({"mp4"}, QtFile)
           \cup Boxes({"mp4qt", "mp4"}, FtypFile) \cup NoBoxes({"mov"}, FtypFile)
           \cup Family("mov", {<<Bx("qt", 12), Bx("moov", 9), LastBox(20)>>}, {})
           \cup Family("mp4", {<<Bx("ftyp", 12), Bx("moov", 9), LastBox(20)>>},
                       {<<Bx("ftyp", 12), LastBox(20)>>})
           \cup NoBoxes(Quicktime, <<Bx("box", 12), Bx("moov", 9)>>)
           \cup NoBoxes(Quicktime, <<Bx("qt", 12), Bx("box", 20)>>)

RarJobs == Family("rar",
    {<<T("rar4", 0, 0, 7), T("block", 13, 0, 13), T("file", 32, 20, 52), T("large", 40, 5, 45), T("end", 7, 0, 7)>>,
     <<T("rar5", 0, 0, 8), T("block", 6, 10, 16), T("end", 6, 0, 6)>>},
    {<<T("rar4", 0, 0, 7), T("large", 33, 9, 42)>>, <<T("rar4", 0, 0, 7), T("block", 6, 0, 10)>>,
     <<T("rar5", 0, 0, 8), T("block", RarHeader + 1, 0, 9)>>, Foreign})

(* Two directories that lead to each other, and a strip of two pieces.     *)
Tiff == <<T("tiff", 8, 0, 8),
          T("ifd", 3, 50, 2), T("sub", 8, 4, 12), T("strips", 56, 8, 12), T("counts", 64, 8, 12), D(4),
          T("ifd", 0, 8, 2), D(4),
          T("value", 72, 0, 4), T("value", 80, 0, 4), T("value", 8, 0, 4), T("value", 5, 0, 4), D(13)>>
TiffOne == <<T("tiff", 8, 0, 8), T("ifd", 2, 0, 2), T("tiles", 38, 4, 12), T("tileCounts", 7, 4, 12), D(4), D(7)>>
TiffJobs == Family("tiff", {Tiff, TiffOne},
                   {<<T("tiff", 8, 0, 8), T("ifd", 1, 0, 2), T("strips", 26, TiffData + 4, 12), D(20)>>,
                    Foreign})
            \cup JobsWith("tiff", <<T("tiff", 0, 0, 8), D(4)>>, {8}, {{}})

SizedJobs == BmpJobs \cup SevenZJobs \cup ElfJobs \cup IcoJobs \cup LrfJobs \cup MobiJobs
             \cup WmvJobs \cup WebmJobs \cup BoxJobs \cup RarJobs \cup TiffJobs

AllJobs == StreamJobs \cup DocumentJobs \cup MarkerJobs \cup SizedJobs
=============================================================================
