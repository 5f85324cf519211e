--------------------------- MODULE DocumentCarvers ---------------------------
(***************************************************************************)
(* The document handlers that copy while they parse: rtf, byte by byte,    *)
(* and ole, which looks into the file allocation table in the evidence     *)
(* before it copies what follows the header.                               *)
(***************************************************************************)
EXTENDS Carving

CONSTANTS DirSteps,  \* the limit on directory sectors of ole.rs, 1024
          NoSector,  \* sector ids from 0xFFFFFFFA on
          OleMax     \* its limit when there is none, 512 MiB

ASSUME DocumentAssumption == OleMax \in Nat

-----------------------------------------------------------------------------
(* RTF: a token is one character.                                          *)

Letters == {"a", "b", "i", "n"}
Digits == {"0", "1", "2", "3"}
DigitValue == [d \in Digits |-> CASE d = "0" -> 0 [] d = "1" -> 1
                                  [] d = "2" -> 2 [] d = "3" -> 3]

RtfHeader ==
    /\ Walking("rtf") /\ written = 0
    /\ \/ Cut(<<5>>)
       \/ Token(0).k # "rtf" /\ Reject(<<5>>)
       \/ /\ Token(0).k = "rtf"
          /\ Continue(<<5>>, <<[depth |-> 1, control |-> FALSE, word |-> <<>>,
                                bin |-> 0, pending |-> {}]>>)

(* The byte that ended a control word is looked at once more.              *)
RtfByte ==
    /\ Walking("rtf") /\ written > 0
    /\ \E b \in (IF mem[1].pending = {} THEN {Token(written).k} ELSE mem[1].pending) :
         LET ns == IF mem[1].pending = {} THEN <<1>> ELSE <<>>
             m == [mem[1] EXCEPT !.pending = {}]
             Goes(x) == Continue(ns, <<x>>)
         IN \/ Cut(ns)
            \/ /\ m.bin > 0 /\ Goes([m EXCEPT !.bin = @ - 1])
            \/ /\ m.bin = 0 /\ m.control
               /\ \/ /\ m.word = <<>> /\ b \in {"{", "}", "\\"}
                     /\ Goes([m EXCEPT !.control = FALSE])
                  \/ b \in Letters /\ Goes([m EXCEPT !.word = Append(@, b)])
                  \/ /\ m.word = <<"b", "i", "n">> /\ b \in Digits
                     /\ Goes([m EXCEPT !.bin = @ * 10 + DigitValue[b]])
                  \/ /\ b \notin Letters
                     /\ m.word # <<>> \/ b \notin {"{", "}", "\\"}
                     /\ m.word # <<"b", "i", "n">> \/ b \notin Digits
                     /\ Goes([m EXCEPT !.control = FALSE, !.word = <<>>,
                                       !.pending = {b}])
            \/ /\ m.bin = 0 /\ ~m.control
               /\ \/ /\ b = "\\"
                     /\ Goes([m EXCEPT !.control = TRUE, !.word = <<>>])
                  \/ b = "{" /\ Goes([m EXCEPT !.depth = @ + 1])
                  \/ b = "}" /\ m.depth > 1 /\ Goes([m EXCEPT !.depth = @ - 1])
                  \/ b = "}" /\ m.depth <= 1 /\ Accept(ns)
                  \/ b \notin {"\\", "{", "}"} /\ Goes(m)

-----------------------------------------------------------------------------
(* OLE.  The header token holds the version and the first directory        *)
(* sector; the DIFAT array in it names the FAT sectors; a FAT sector token *)
(* holds the highest sector it knows of, a directory token the next        *)
(* directory sector, and as its kind the stream names found there.         *)

Difat(i) == Token(76 + 4 * i)

FatSectors == {Difat(i).n : i \in {i \in 0 .. 108 :
                                     \A h \in 0 .. i : Difat(h).k = "difat"}}
FatCount == Cardinality({i \in 0 .. 108 : \A h \in 0 .. i : Difat(h).k = "difat"})

OleLimit == IF job.maxSize > 0 THEN job.maxSize ELSE OleMax

(* The header counts 512 bytes whatever the version.                       *)
SectorAt(id) == 512 + id * mem[1].sector

(* A sector is read if it lies within the limit and the evidence.          *)
Sector(id) == SectorAt(id) + mem[1].sector <= Lesser(OleLimit, job.len)

OleHeader ==
    /\ Walking("ole") /\ written = 0
    /\ \/ Cut(<<512>>)
       \/ (Token(0).k # "ole" \/ Token(0).n \notin {3, 4}) /\ Reject(<<512>>)
       \/ /\ Token(0).k = "ole" /\ Token(0).n \in {3, 4}
          /\ LET first == {Token(0).m} \ {NoSector}
             IN Continue(<<512>>, <<[sector |-> IF Token(0).n = 3 THEN 512 ELSE 4096,
                                     dir |-> IF FatCount = 0 THEN {} ELSE first,
                                     visited |-> 0, streams |-> {}, fat |-> 0,
                                     high |-> Max(FatSectors \cup first \cup {0})]>>)

(* The first of these is what a document with several of them is taken for.*)
OleKind(streams) ==
    CASE "WordDocument" \in streams -> "doc"
      [] "Workbook" \in streams -> "xls"
      [] "PowerPoint" \in streams -> "ppt"
      [] OTHER -> ""

(* Mutant: the sectors visited are not counted.                            *)
OleDirectoryEndless ==
    /\ Walking("ole") /\ written > 0
    /\ \E id \in mem[1].dir :
         LET there == Token(SectorAt(id))
             next == IF there.n = NoSector THEN {} ELSE {there.n}
         IN Continue(<<>>, <<[mem[1] EXCEPT !.streams = @ \cup {there.k},
                                           !.dir = IF Sector(id) THEN next ELSE {}]>>)

(* classify_ole_kind: one directory sector, which may lead back to an      *)
(* earlier one.                                                            *)
OleDirectory ==
    /\ Walking("ole") /\ written > 0
    /\ \E id \in mem[1].dir :
         LET there == Token(SectorAt(id))
             next == IF there.n = NoSector THEN {} ELSE {there.n}
             m == mem[1]
         IN IF ~Sector(id) THEN Continue(<<>>, <<[m EXCEPT !.dir = {}]>>)
            ELSE Continue(<<>>,
                   <<[m EXCEPT !.streams = @ \cup {there.k},
                               !.visited = @ + 1,
                               !.dir = IF m.visited + 1 < DirSteps THEN next ELSE {}]>>)

(* refine_ole_size: one FAT sector.                                        *)
OleFat ==
    /\ Walking("ole") /\ written > 0 /\ mem[1].dir = {} /\ mem[1].fat < FatCount
    /\ LET id == Difat(mem[1].fat).n
           known == Token(SectorAt(id)).n
       IN Continue(<<>>, <<IF Sector(id)
                           THEN [mem[1] EXCEPT !.fat = @ + 1, !.high = Larger(@, known)]
                           ELSE [mem[1] EXCEPT !.fat = FatCount]>>)

OleSize == IF FatCount = 0 THEN 512 + mem[1].sector ELSE SectorAt(mem[1].high + 1)

(* What follows the header, as much as there is: that the evidence ends    *)
(* before the last sector is not noted.                                    *)
OleCopy ==
    /\ Walking("ole") /\ written > 0 /\ mem[1].dir = {} /\ mem[1].fat >= FatCount
    /\ written' = Reads(<<Larger(Lesser(OleSize, OleLimit), 512) - 512>>).at
    /\ kind' = OleKind(mem[1].streams)
    /\ validated' = TRUE /\ phase' = "flush"
    /\ UNCHANGED <<job, pos, mem, goal, truncated, disk>>

-----------------------------------------------------------------------------
DocumentNext == RtfHeader \/ RtfByte \/ OleHeader \/ OleDirectory \/ OleFat \/ OleCopy
=============================================================================
