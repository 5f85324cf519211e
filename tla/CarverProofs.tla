---------------------------- MODULE CarverProofs -----------------------------
(***************************************************************************)
(* What every file type handler keeps, for every evidence, every limit and *)
(* every place where the evidence ends: the types of its state, that no    *)
(* file grows past max_size but for what the code does not measure, and    *)
(* that a file is on disk exactly when its record is returned.             *)
(***************************************************************************)
EXTENDS Carvers, FiniteSetTheorems, SequenceTheorems, WellFoundedInduction, TLAPS

(* The least of a set of naturals.                                         *)
LEMMA LeastIs ==
    ASSUME NEW S, S \subseteq Nat, S # {}
    PROVE  Min(S) \in S /\ \A y \in S : Min(S) <= y
<1>1. IsWellFoundedOn(OpToRel(<, Nat), Nat)
  BY NatLessThanWellFounded
<1>2. PICK x \in S : \A y \in S : ~ (<<y, x>> \in OpToRel(<, Nat))
  BY <1>1, WFMin
<1>3. \A y \in S : ~(y < x)
  BY <1>2 DEF OpToRel
<1>4. \A y \in S : x <= y
  BY <1>3
<1>5. QED
  BY <1>4 DEF Min

(* Induction over the naturals, about a set instead of a predicate.        *)
LEMMA Induction ==
    ASSUME NEW T, 0 \in T, \A k \in Nat : k \in T => k + 1 \in T
    PROVE  \A k \in Nat : k \in T
<1> SUFFICES ASSUME Nat \ T # {} PROVE FALSE
  OBVIOUS
<1>1. PICK x \in Nat \ T : \A y \in Nat \ T : x <= y
  BY LeastIs
<1>2. x # 0 /\ x - 1 \in Nat /\ (x - 1) + 1 = x
  BY <1>1
<1>3. x - 1 \in T
  BY <1>1, <1>2
<1>4. QED
  BY <1>1, <1>2, <1>3

(* The greatest of a bounded set of naturals.                              *)
LEMMA GreatestIs ==
    ASSUME NEW S, S \subseteq Nat, S # {}, NEW b \in Nat, \A y \in S : y <= b
    PROVE  Max(S) \in S /\ \A y \in S : y <= Max(S)
<1> DEFINE above == {u \in Nat : \A y \in S : y <= u}
<1>1. above \subseteq Nat /\ b \in above
  OBVIOUS
<1>2. PICK u \in above : \A v \in above : u <= v
  BY <1>1, LeastIs
<1>3. u \in S
  <2> SUFFICES ASSUME u \notin S PROVE FALSE
    OBVIOUS
  <2>1. \A y \in S : y \in Nat /\ y < u
    BY <1>2
  <2>2. u \in Nat /\ \E y \in S : y \in Nat /\ y < u
    BY <2>1, <1>2
  <2>3. u - 1 \in Nat /\ \A y \in S : y <= u - 1
    BY <2>1, <2>2
  <2>4. u - 1 \in above
    BY <2>3
  <2>5. QED
    BY <1>2, <2>2, <2>4
<1>4. u \in S /\ \A y \in S : u >= y
  BY <1>2, <1>3
<1>5. QED
  BY <1>4 DEF Max

(* A table of naturals has a bound.                                        *)
LEMMA TableBounded ==
    ASSUME NEW n \in Nat, NEW f \in [0 .. n -> Nat]
    PROVE  \E b \in Nat : \A i \in 0 .. n : f[i] <= b
<1> DEFINE T == {k \in Nat : k <= n => \E b \in Nat : \A i \in 0 .. k : f[i] <= b}
<1>1. 0 \in T
  <2>1. f[0] \in Nat /\ \A i \in 0 .. 0 : i = 0
    OBVIOUS
  <2>2. QED
    BY <2>1
<1>2. ASSUME NEW k \in Nat, k \in T PROVE k + 1 \in T
  <2> SUFFICES ASSUME k + 1 <= n PROVE \E b \in Nat : \A i \in 0 .. k + 1 : f[i] <= b
    OBVIOUS
  <2>1. PICK b \in Nat : \A i \in 0 .. k : f[i] <= b
    BY <1>2
  <2>2. k + 1 \in 0 .. n /\ f[k + 1] \in Nat
    OBVIOUS
  <2> DEFINE c == IF b >= f[k + 1] THEN b ELSE f[k + 1]
  <2>3. c \in Nat /\ b <= c /\ f[k + 1] <= c
    BY <2>2
  <2> HIDE DEF c
  <2>4. ASSUME NEW i \in 0 .. k + 1 PROVE f[i] <= c
    <3>1. CASE i = k + 1
      BY <3>1, <2>3
    <3>2. CASE i # k + 1
      <4>1. i \in 0 .. k /\ f[i] \in Nat /\ f[i] <= b
        BY <3>2, <2>1
      <4>2. QED
        BY <4>1, <2>3
    <3>3. QED
      BY <3>1, <3>2
  <2>5. QED
    BY <2>3, <2>4
<1> HIDE DEF T
<1>3. n \in T
  BY <1>1, <1>2, Induction
<1>4. QED
  BY <1>3 DEF T

(* A recursive function over 0 .. n exists when its step stays in a set.   *)
Stepping(S, n) == [S \X (1 .. n) -> S]
Unrolled(g, S, s, n, step) ==
    g \in [0 .. n -> S] /\ g[0] = s /\ \A i \in 1 .. n : g[i] = step[<<g[i - 1], i>>]

LEMMA Recursion ==
    ASSUME NEW S, NEW s \in S, NEW n \in Nat, NEW step \in Stepping(S, n)
    PROVE  \E g : Unrolled(g, S, s, n, step)
<1> USE DEF Stepping
<1> DEFINE P(k) == \E g \in [0 .. k -> S] :
                     g[0] = s /\ \A i \in 1 .. k : g[i] = step[<<g[i - 1], i>>]
           T == {k \in Nat : k <= n => P(k)}
<1>1. 0 \in T
  <2> DEFINE g == [i \in 0 .. 0 |-> s]
  <2>1. g \in [0 .. 0 -> S] /\ g[0] = s /\ 1 .. 0 = {}
    OBVIOUS
  <2> HIDE DEF g
  <2>2. P(0)
    BY <2>1
  <2>3. QED
    BY <2>2
<1>2. ASSUME NEW k \in Nat, k \in T PROVE k + 1 \in T
  <2> SUFFICES ASSUME k + 1 <= n PROVE P(k + 1)
    OBVIOUS
  <2>1. PICK g \in [0 .. k -> S] :
               g[0] = s /\ \A i \in 1 .. k : g[i] = step[<<g[i - 1], i>>]
    BY <1>2
  <2> DEFINE h == [i \in 0 .. k + 1 |-> IF i <= k THEN g[i] ELSE step[<<g[k], k + 1>>]]
  <2>2. g[k] \in S /\ k + 1 \in 1 .. n
    BY <2>1
  <2>3. step[<<g[k], k + 1>>] \in S
    BY <2>2
  <2>4. \A i \in 0 .. k : g[i] \in S
    BY <2>1
  <2>5. h \in [0 .. k + 1 -> S]
    BY <2>3, <2>4
  <2>6. h[0] = s
    BY <2>1
  <2>7. ASSUME NEW i \in 1 .. k + 1 PROVE h[i] = step[<<h[i - 1], i>>]
    <3>1. CASE i = k + 1
      <4>1. i - 1 = k /\ k \in 0 .. k + 1 /\ ~(i <= k) /\ i \in 0 .. k + 1
        BY <3>1
      <4>2. h[i] = step[<<g[k], k + 1>>] /\ h[i - 1] = g[k]
        BY <4>1
      <4>3. QED
        BY <4>2, <3>1
    <3>2. CASE i # k + 1
      <4>1. i \in 1 .. k /\ i - 1 \in 0 .. k /\ i \in 0 .. k + 1 /\ i - 1 \in 0 .. k + 1
        BY <3>2
      <4>2. h[i] = g[i] /\ h[i - 1] = g[i - 1]
        BY <4>1
      <4>3. QED
        BY <4>1, <4>2, <2>1
    <3>3. QED
      BY <3>1, <3>2
  <2> HIDE DEF h
  <2>8. QED
    BY <2>5, <2>6, <2>7
<1> HIDE DEF P
<1>3. n \in T
  BY <1>1, <1>2, Induction
<1>4. P(n)
  BY <1>3
<1>5. QED
  BY <1>4 DEF P, Unrolled

-----------------------------------------------------------------------------
(* CarveStream: the reads of a step end within the evidence, and within    *)
(* max_size when the step began there.                                     *)
Ends == {p \in 0 .. job.len :
           job.maxSize > 0 /\ written <= job.maxSize => p <= job.maxSize}
Streamed == [at : Ends, cut : BOOLEAN]

LEMMA JobIs ==
    ASSUME job \in Jobs
    PROVE  /\ job.len \in Nat /\ job.maxSize \in Nat /\ job.minSize \in Nat
           /\ DOMAIN job.at \subseteq Nat
           /\ \A p : Token(p).n \in Nat /\ Token(p).m \in Nat
BY CarvingAssumption DEF Token, Nothing

LEMMA ReadExactEnds ==
    ASSUME job \in Jobs, NEW s \in Streamed, NEW n \in Nat
    PROVE  ReadExact(s, n) \in Streamed
<1>1. /\ job.len \in Nat /\ job.maxSize \in Nat
  BY JobIs
<1>2. s.at \in Ends /\ s.cut \in BOOLEAN /\ s = [at |-> s.at, cut |-> s.cut]
  BY DEF Streamed
<1>3. s.at + n \in Nat /\ s.at \in 0 .. job.len
  BY <1>1, <1>2 DEF Ends
<1>4. [s EXCEPT !.cut = TRUE] \in Streamed
  BY <1>2 DEF Streamed
<1>5. CASE s.cut \/ (job.maxSize > 0 /\ s.at + n > job.maxSize)
  BY <1>4, <1>5 DEF ReadExact
<1>6. CASE ~s.cut /\ ~(job.maxSize > 0 /\ s.at + n > job.maxSize) /\ s.at + n > job.len
  <2>1. job.len \in Ends
    BY <1>1, <1>3, <1>6 DEF Ends
  <2>2. ReadExact(s, n) = [at |-> job.len, cut |-> TRUE]
    BY <1>6 DEF ReadExact
  <2>3. QED
    BY <2>1, <2>2 DEF Streamed
<1>7. CASE ~s.cut /\ ~(job.maxSize > 0 /\ s.at + n > job.maxSize) /\ ~(s.at + n > job.len)
  <2>1. s.at + n \in Ends
    BY <1>1, <1>3, <1>7 DEF Ends
  <2>2. ReadExact(s, n) = [at |-> s.at + n, cut |-> s.cut]
    BY <1>2, <1>7 DEF ReadExact
  <2>3. QED
    BY <1>2, <2>1, <2>2 DEF Streamed
<1>8. QED
  BY <1>5, <1>6, <1>7

LEMMA ReadsEnd ==
    ASSUME job \in Jobs, written \in 0 .. job.len, NEW ns \in Seq(Nat)
    PROVE  Reads(ns) \in Streamed
<1> DEFINE start == [at |-> written, cut |-> FALSE]
           Run(f) == f = [i \in 0 .. Len(ns) |-> IF i = 0 THEN start
                                                 ELSE ReadExact(f[i - 1], ns[i])]
           step == [p \in Streamed \X (1 .. Len(ns)) |-> ReadExact(p[1], ns[p[2]])]
<1>1. start \in Streamed
  BY JobIs DEF Streamed, Ends
<1>2. Len(ns) \in Nat /\ \A i \in 1 .. Len(ns) : ns[i] \in Nat
  OBVIOUS
<1>3. \A p \in Streamed \X (1 .. Len(ns)) : ReadExact(p[1], ns[p[2]]) \in Streamed
  BY <1>2, ReadExactEnds
<1>4. step \in Stepping(Streamed, Len(ns))
  BY <1>3 DEF Stepping
<1> HIDE DEF start
<1>5. PICK g : Unrolled(g, Streamed, start, Len(ns), step)
  <2>1. Len(ns) \in Nat
    BY <1>2
  <2> HIDE DEF step
  <2>2. \A S, s, n, st : s \in S /\ n \in Nat /\ st \in Stepping(S, n)
                           => \E g : Unrolled(g, S, s, n, st)
    BY Recursion
  <2>3. QED
    BY <1>1, <1>4, <2>1, <2>2, Zenon
<1>6. \A i \in 1 .. Len(ns) : g[i] = ReadExact(g[i - 1], ns[i])
  <2> TAKE i \in 1 .. Len(ns)
  <2>1. g[i - 1] \in Streamed /\ g[i] = step[<<g[i - 1], i>>]
    <3> HIDE DEF step
    <3>1. i - 1 \in 0 .. Len(ns)
      BY <1>2
    <3>2. QED
      BY <3>1, <1>5 DEF Unrolled
  <2>2. <<g[i - 1], i>> \in Streamed \X (1 .. Len(ns))
    BY <2>1
  <2>3. step[<<g[i - 1], i>>] = ReadExact(g[i - 1], ns[i])
    BY <2>2
  <2>4. QED
    BY <2>1, <2>3
<1> HIDE DEF step
<1>7. Run(g)
  BY <1>2, <1>5, <1>6 DEF Unrolled
<1> DEFINE f == CHOOSE f : Run(f)
<1>8. Run(f)
  BY <1>7
<1>9. Reads(ns) = f[Len(ns)]
  BY DEF Reads, start
<1> HIDE DEF f
<1>10. \A k \in Nat : k <= Len(ns) => f[k] \in Streamed
  <2> DEFINE T == {k \in Nat : k <= Len(ns) => f[k] \in Streamed}
  <2>1. 0 \in T
    BY <1>1, <1>2, <1>8
  <2>2. ASSUME NEW k \in Nat, k \in T PROVE k + 1 \in T
    <3> SUFFICES ASSUME k + 1 <= Len(ns) PROVE f[k + 1] \in Streamed
      BY DEF T
    <3>1. k + 1 \in 0 .. Len(ns) /\ k + 1 # 0 /\ (k + 1) - 1 = k /\ k + 1 \in 1 .. Len(ns)
      BY <1>2
    <3>2. f[k] \in Streamed
      BY <2>2, <1>2
    <3>3. f[k + 1] = ReadExact(f[k], ns[k + 1])
      BY <3>1, <1>8
    <3>4. QED
      BY <3>1, <3>2, <3>3, <1>2, ReadExactEnds
  <2> HIDE DEF T
  <2>3. \A k \in Nat : k \in T
    BY <2>1, <2>2, Induction
  <2>4. QED
    BY <2>3 DEF T
<1>11. QED
  BY <1>2, <1>9, <1>10

-----------------------------------------------------------------------------
(* The output file is there from its creation to the end of the copy, and  *)
(* a record is made of what stays.                                         *)
DiskInv ==
    /\ phase \in {"create", "parse"} => ~onDisk
    /\ phase \in {"walk", "copy", "flush"} => onDisk
    /\ phase # "done" => carved = {}
    /\ FileIffCarved

(* The ways a step of a handler may change the phase and the file.         *)
Onward == /\ phase \in {"walk", "parse"} /\ UNCHANGED disk
          /\ phase' = phase \/ phase' = "failed" \/ (phase = "walk" /\ phase' = "flush")
             \/ (phase = "parse" /\ phase' = "create")
             \/ (phase' = IF onDisk THEN "copy" ELSE "create")
Dropped == phase \in {"walk", "parse"} /\ phase' = "done" /\ ~onDisk' /\ UNCHANGED carved

LEMMA HandlerMoves == Steps => Shared \/ Onward \/ Dropped
<1> USE DEF Walking, Parsing, Continue, Cut, Stop, Accept, Reject, GiveUp, NotThis,
            Broken, Promising, Advance, Settle, disk, Onward, Dropped
<1> HIDE DEF Shared
<1>1. StreamNext => Onward \/ Dropped
  <2>1. PngSignature \/ PngChunk => Onward \/ Dropped
    BY DEF PngSignature, PngChunk, PngRefuse
  <2>2. GifHeader \/ GifBlock \/ GifSubBlock => Onward \/ Dropped
    BY DEF GifHeader, GifBlock, GifSubBlock
  <2>3. Webp \/ Wav \/ Avi \/ Sqlite => Onward \/ Dropped
    BY DEF Webp, Wav, Avi, Sqlite, SizedFile
  <2>4. OggPage \/ TarStart \/ TarBlock => Onward \/ Dropped
    BY DEF OggPage, TarStart, TarBlock
  <2>5. Mp3Start \/ Mp3Frame => Onward \/ Dropped
    BY DEF Mp3Start, Mp3Frame
  <2>6. QED
    BY <2>1, <2>2, <2>3, <2>4, <2>5 DEF StreamNext
<1>2. DocumentNext => Onward \/ Dropped
  <2>1. RtfHeader \/ RtfByte => Onward \/ Dropped
    BY DEF RtfHeader, RtfByte
  <2>2. OleHeader => Onward \/ Dropped
    BY ZenonT(40) DEF OleHeader
  <2>3. OleDirectory => Onward \/ Dropped
    BY Zenon DEF OleDirectory
  <2>4. OleFat \/ OleCopy => Onward \/ Dropped
    BY DEF OleFat, OleCopy
  <2>5. QED
    BY <2>1, <2>2, <2>3, <2>4 DEF DocumentNext
<1>3. MarkerNext => Onward \/ Dropped
  <2> USE DEF LimitOrEof, CopyOn, CopyMark, LookOn, NoEnd, LookFrom
  <2>1. Jpeg \/ Pdf \/ PdfLineEnd \/ Fb2Preview \/ Fb2 => Onward \/ Dropped
    BY DEF Jpeg, Pdf, PdfLineEnd, Fb2Preview, Fb2
  <2>2. Bzip2Header \/ Bzip2 \/ GzipHeader \/ Gzip => Onward \/ Dropped
    BY DEF Bzip2Header, Bzip2, GzipHeader, Gzip
  <2>3. XzHeader \/ Xz \/ Eml => Onward \/ Dropped
    BY DEF XzHeader, Xz, Eml
  <2>4. ZipScan \/ ZipCopy \/ ZipStream => Onward \/ Dropped
    BY DEF ZipScan, ZipCopy, ZipStream, ZipEnd, ZipFound
  <2>5. QED
    BY <2>1, <2>2, <2>3, <2>4 DEF MarkerNext
<1>4. SizedNext => Onward \/ Dropped
  <2>1. Bmp \/ SevenZ \/ Elf \/ Ico \/ Lrf \/ Mobi => Onward \/ Dropped
    BY DEF Bmp, SevenZ, Elf, Ico, Lrf, Mobi, Flagged, Unflag
  <2>2. WmvHeader \/ WmvObject \/ WebmHeader \/ WebmElement => Onward \/ Dropped
    BY DEF WmvHeader, WmvObject, WebmHeader, WebmElement, Unflag
  <2>3. Box => Onward \/ Dropped
    BY DEF Box, BoxesOver
  <2>4. RarSignature \/ Rar4Block \/ Rar5Block => Onward \/ Dropped
    BY DEF RarSignature, Rar4Block, Rar5Block, RarCut
  <2>5. TiffHeader \/ TiffEnd => Onward \/ Dropped
    BY DEF TiffHeader, TiffEnd, Flagged
  <2>6. TiffIfd => Onward \/ Dropped
    BY DEF TiffIfd, TiffCut
  <2>7. QED
    BY <2>1, <2>2, <2>3, <2>4, <2>5, <2>6 DEF SizedNext
<1>5. QED
  BY <1>1, <1>2, <1>3, <1>4 DEF Steps

LEMMA DiskStep == DiskInv /\ [Next]_vars => DiskInv'
<1> SUFFICES ASSUME DiskInv, [Next]_vars PROVE DiskInv'
  OBVIOUS
<1> USE DEF DiskInv, FileIffCarved, disk
<1>1. CASE Shared
  <2>1. CASE Create
    BY <2>1 DEF Create
  <2>2. CASE WriteRange
    BY <2>2 DEF WriteRange
  <2>3. CASE Discard
    BY <2>3 DEF Discard, GiveUp
  <2>4. CASE Deliver
    BY <2>4 DEF Deliver
  <2>5. CASE Ended
    BY <2>5 DEF Ended, vars
  <2>6. QED
    BY <1>1, <2>1, <2>2, <2>3, <2>4, <2>5 DEF Shared
<1>2. CASE Onward
  BY <1>2 DEF Onward
<1>3. CASE Dropped
  BY <1>3 DEF Dropped
<1>4. CASE Fails
  BY <1>4 DEF Fails
<1>5. CASE UNCHANGED vars
  BY <1>5 DEF vars
<1>6. QED
  BY <1>1, <1>2, <1>3, <1>4, <1>5, HandlerMoves DEF Next

(* A record is returned for every file that is left on disk, and for none  *)
(* that is not, unless the handler failed.                                 *)
THEOREM FileKept == Spec => []FileIffCarved
<1>1. Init => DiskInv
  BY DEF Init, DiskInv, FileIffCarved
<1>2. DiskInv => FileIffCarved
  BY DEF DiskInv
<1>3. QED
  BY <1>1, <1>2, DiskStep, PTL DEF Spec

-----------------------------------------------------------------------------
(* Sizes.  What was written and the end of the range that will be are      *)
(* within the limit, but for the cases the code does not measure.          *)
Within(n) == job.maxSize > 0 => n <= job.maxSize
RarOver(n) == n <= 8 \/ (Token(0).k = "rar4" /\ DataOverLimit(n))
Excused(n) == job.fmt = "rar" /\ truncated /\ RarOver(n)
LineEnd(n) == job.fmt = "pdf" /\ job.maxSize > 0 /\ n <= job.maxSize + 2

Sized ==
    /\ phase \in {"create", "parse"} => written = 0
    /\ phase \in {"walk", "copy"} => Within(written)
    /\ phase = "flush" => Within(written) \/ Excused(written) \/ LineEnd(written)
    /\ \A e \in goal : Within(e) \/ Excused(e)
    /\ SizeWithinLimit

(* Where a parser that must not look past the limit stands.                *)
Steady ==
    phase = "parse" =>
        /\ job.fmt \in Quicktime => Within(pos)
        /\ job.fmt = "rar" => Within(pos) \/ RarOver(pos)

(* The locals of the loops from which an end is computed.                  *)
Kinds == {Nothing.k} \cup UNION {{j.at[p].k : p \in DOMAIN j.at} : j \in Jobs}
OleLocals == [sector : Nat, dir : SUBSET Nat, visited : Nat, streams : SUBSET Kinds,
              fat : Nat, high : Nat]
TiffLocals == [queue : Seq(Nat), seen : SUBSET Nat, end : Nat]
Locals ==
    /\ job.fmt = "ole" /\ phase = "walk" /\ written > 0 => mem[1] \in OleLocals
    /\ job.fmt = "tiff" /\ phase = "parse" /\ pos > 0 => mem[1] \in TiffLocals
    /\ job.fmt = "zip" /\ phase = "parse" => LastSound \subseteq Nat

CarveInv == TypeOK /\ DiskInv /\ Sized /\ Steady /\ Locals

(* What every step needs: the types of the next state, the places of the   *)
(* file, and the sizes.                                                    *)
LEMMA TheFormat ==
    ASSUME job' = job
    PROVE  /\ \A n : Within(n)' <=> Within(n)
           /\ \A n : LineEnd(n)' <=> LineEnd(n)
           /\ \A n : RarOver(n)' <=> RarOver(n)
           /\ \A n : DataOverLimit(n)' <=> DataOverLimit(n)
           /\ Token(0)' = Token(0)
BY DEF Within, LineEnd, RarOver, DataOverLimit, Limit, Token

(* What is less than what may be over is excused as well.                  *)
LEMMA LessIsOver ==
    ASSUME job \in Jobs, NEW n \in Nat, NEW k \in Nat, k <= n, RarOver(n)
    PROVE  RarOver(k)
<1>1. \A p \in DOMAIN job.at : p \in Nat /\ job.at[p].n \in Nat /\ job.at[p].m \in Nat
  BY CarvingAssumption
<1>2. CASE n <= 8
  BY <1>2 DEF RarOver
<1>3. CASE Token(0).k = "rar4" /\ DataOverLimit(n)
  <2>1. PICK p \in DOMAIN job.at : /\ p + job.at[p].n <= Limit
                                   /\ n <= p + job.at[p].n + job.at[p].m
    BY <1>3 DEF DataOverLimit
  <2>2. k <= p + job.at[p].n + job.at[p].m
    BY <1>1, <2>1
  <2>3. QED
    BY <1>3, <2>1, <2>2 DEF DataOverLimit, RarOver
<1>4. QED
  BY <1>2, <1>3 DEF RarOver

LEMMA ZeroIsWithin == ASSUME job \in Jobs PROVE Within(0)
BY JobIs DEF Within

LEMMA ReadsWithin ==
    ASSUME TypeOK, Within(written), NEW ns \in Seq(Nat)
    PROVE  Reads(ns).at \in 0 .. job.len /\ Within(Reads(ns).at)
<1>1. job \in Jobs /\ written \in 0 .. job.len /\ job.len \in Nat /\ job.maxSize \in Nat
  BY JobIs DEF TypeOK
<1>2. Reads(ns).at \in Ends
  BY <1>1, ReadsEnd DEF Streamed
<1>3. QED
  BY <1>1, <1>2 DEF Ends, Within

(* A read that fits is one round more; the locals are the loop's own.      *)
LEMMA ContinueKeeps ==
    ASSUME CarveInv, phase = "walk", NEW ns \in Seq(Nat), NEW m, Continue(ns, m),
           job.fmt = "ole" => m[1] \in OleLocals
    PROVE  TypeOK' /\ Sized' /\ Steady' /\ Locals'
<1>1. /\ job' = job /\ phase' = "walk" /\ pos' = pos /\ goal' = goal /\ mem' = m
      /\ validated' = validated /\ truncated' = truncated /\ onDisk' = onDisk
      /\ carved' = carved /\ written' = Reads(ns).at
  BY DEF Continue, flags, disk
<1>2. written' \in 0 .. job.len /\ Within(written')
  BY <1>1, ReadsWithin DEF CarveInv, Sized
<1>3. TypeOK'
  BY <1>1, <1>2 DEF CarveInv, TypeOK
<1>4. Sized'
  BY <1>1, <1>2, TheFormat DEF CarveInv, Sized, Excused, SizeWithinLimit, Limit
<1>5. Steady' /\ Locals'
  BY <1>1 DEF Steady, Locals
<1>6. QED
  BY <1>3, <1>4, <1>5

(* The steps of a walk that end the copy.                                  *)
LEMMA CopyEnds ==
    ASSUME CarveInv, phase = "walk", job' = job, phase' = "flush", goal' = goal,
           pos' = pos, carved' = carved, onDisk' = onDisk,
           validated' \in BOOLEAN, truncated' \in BOOLEAN,
           job.fmt = "rar" /\ truncated => truncated',
           written' \in 0 .. job.len, Within(written') \/ LineEnd(written')
    PROVE  TypeOK' /\ Sized' /\ Steady' /\ Locals'
<1>1. TypeOK'
  BY DEF CarveInv, TypeOK, Phases
<1>2. Sized'
  BY TheFormat DEF CarveInv, Sized, Excused, SizeWithinLimit, Limit
<1>3. Steady' /\ Locals'
  BY DEF Steady, Locals
<1>4. QED
  BY <1>1, <1>2, <1>3

LEMMA CutKeeps ==
    ASSUME CarveInv, phase = "walk", NEW ns \in Seq(Nat),
           Cut(ns) \/ (\E v \in BOOLEAN : Stop(ns, v)) \/ PngRefuse(ns)
    PROVE  TypeOK' /\ Sized' /\ Steady' /\ Locals'
<1>1. /\ job' = job /\ phase' = "flush" /\ pos' = pos /\ goal' = goal
      /\ onDisk' = onDisk /\ carved' = carved /\ written' = Reads(ns).at
      /\ truncated' = truncated \/ truncated' = TRUE
      /\ validated' = validated \/ validated' \in BOOLEAN
  BY DEF Cut, Stop, PngRefuse, parser, disk
<1>2. written' \in 0 .. job.len /\ Within(written')
  BY <1>1, ReadsWithin DEF CarveInv, Sized
<1>3. validated \in BOOLEAN /\ truncated \in BOOLEAN
  BY DEF CarveInv, TypeOK
<1>4. validated' \in BOOLEAN
  BY <1>1, <1>3
<1>5. truncated' \in BOOLEAN /\ (truncated => truncated')
  BY <1>1, <1>3, Zenon
<1>6. QED
  BY <1>1, <1>2, <1>4, <1>5, CopyEnds

(* The handler returns without a record, or fails.                         *)
LEMMA LeaveKeeps ==
    ASSUME CarveInv, job' = job, phase' \in {"done", "failed"}, goal' = goal, pos' = pos,
           carved' = carved, onDisk' \in BOOLEAN,
           validated' = validated, truncated' = truncated, written' \in 0 .. job.len
    PROVE  TypeOK' /\ Sized' /\ Steady' /\ Locals'
<1>1. TypeOK'
  BY DEF CarveInv, TypeOK, Phases
<1>2. Sized'
  BY TheFormat DEF CarveInv, Sized, Excused, SizeWithinLimit, Limit
<1>3. Steady' /\ Locals'
  BY DEF Steady, Locals
<1>4. QED
  BY <1>1, <1>2, <1>3

LEMMA GiveUpKeeps ==
    ASSUME CarveInv,
           NotThis \/ Broken \/ Fails
           \/ (phase = "walk" /\ \E ns \in Seq(Nat) : Reject(ns))
    PROVE  TypeOK' /\ Sized' /\ Steady' /\ Locals'
<1>1. /\ job' = job /\ phase' \in {"done", "failed"} /\ goal' = goal /\ pos' = pos
      /\ carved' = carved /\ (onDisk' = onDisk \/ onDisk' = FALSE)
      /\ validated' = validated /\ truncated' = truncated
  BY DEF NotThis, Broken, Fails, Reject, GiveUp, parser, flags, disk
<1>2. written' \in 0 .. job.len
  <2>1. CASE written' = written
    BY <2>1 DEF CarveInv, TypeOK
  <2>2. CASE phase = "walk" /\ \E ns \in Seq(Nat) : Reject(ns)
    BY <2>2, ReadsWithin DEF Reject, CarveInv, Sized
  <2>3. QED
    BY <2>1, <2>2 DEF NotThis, Broken, Fails
<1>3. onDisk' \in BOOLEAN
  BY <1>1 DEF CarveInv, TypeOK
<1>4. QED
  BY <1>1, <1>2, <1>3, LeaveKeeps

(* A parser moves on, in place or to the search behind the header.         *)
LEMMA AdvanceKeeps ==
    ASSUME CarveInv, phase \in {"parse", "walk"}, NEW p \in Nat, NEW m, Advance(p, m),
           job.fmt # "ole",
           job.fmt \in Quicktime => Within(p),
           job.fmt = "rar" => Within(p) \/ RarOver(p),
           job.fmt = "tiff" => m[1] \in TiffLocals,
           job.fmt = "zip" => (IF Len(m) < 2 THEN {} ELSE m[2]) \subseteq Nat
    PROVE  TypeOK' /\ Sized' /\ Steady' /\ Locals'
<1>1. /\ job' = job /\ phase' = phase /\ pos' = p /\ goal' = goal /\ mem' = m
      /\ validated' = validated /\ truncated' = truncated /\ onDisk' = onDisk
      /\ carved' = carved /\ written' = written
  BY DEF Advance, flags, disk
<1>2. TypeOK'
  BY <1>1 DEF CarveInv, TypeOK
<1>3. Sized'
  BY <1>1, TheFormat DEF CarveInv, Sized, Excused, SizeWithinLimit, Limit
<1>4. Steady'
  BY <1>1, TheFormat DEF Steady, Within, Quicktime
<1>5. Locals'
  BY <1>1 DEF Locals, LastSound
<1>6. QED
  BY <1>2, <1>3, <1>4, <1>5

LEMMA PromisingKeeps ==
    ASSUME CarveInv, phase = "parse", Promising \/ (\E p \in Nat : LookFrom(p))
    PROVE  TypeOK' /\ Sized' /\ Steady' /\ Locals'
<1>1. /\ job' = job /\ phase' = "create" /\ pos' \in Nat /\ goal' = goal
      /\ validated' = validated /\ truncated' = truncated /\ onDisk' = onDisk
      /\ carved' = carved /\ written' = written
  BY DEF Promising, LookFrom, parser, flags, disk, CarveInv, TypeOK
<1>2. TypeOK'
  BY <1>1 DEF CarveInv, TypeOK, Phases
<1>3. Sized'
  BY <1>1, TheFormat DEF CarveInv, Sized, Excused, SizeWithinLimit, Limit
<1>4. Steady' /\ Locals'
  BY <1>1 DEF Steady, Locals
<1>5. QED
  BY <1>2, <1>3, <1>4

(* The end is known, and where it is past the limit the code says so.      *)
LEMMA SettleKeeps ==
    ASSUME CarveInv, phase \in {"parse", "walk"}, NEW e \in Nat, NEW v \in BOOLEAN,
           NEW t \in BOOLEAN, Settle(e, v, t),
           Within(e) \/ (job.fmt = "rar" /\ t /\ RarOver(e))
    PROVE  TypeOK' /\ Sized' /\ Steady' /\ Locals'
<1>1. /\ job' = job /\ phase' = (IF onDisk THEN "copy" ELSE "create")
      /\ pos' = pos /\ goal' = {e} /\ validated' = v /\ truncated' = t
      /\ onDisk' = onDisk /\ carved' = carved /\ written' = written
  BY DEF Settle, disk
<1>2. phase = "walk" => onDisk
  BY DEF CarveInv, DiskInv
<1>3. TypeOK'
  BY <1>1 DEF CarveInv, TypeOK, Phases
<1>4. Within(written) /\ (phase' = "create" => written = 0)
  BY <1>1, <1>2, ZeroIsWithin DEF CarveInv, TypeOK, Sized
<1>5. \A x \in goal' : Within(x)' \/ Excused(x)'
  BY <1>1, TheFormat DEF Excused
<1>6. SizeWithinLimit'
  BY <1>1, TheFormat DEF CarveInv, Sized, SizeWithinLimit, Limit
<1>7. Sized'
  BY <1>1, <1>4, <1>5, <1>6, TheFormat DEF Sized
<1>8. Steady' /\ Locals'
  BY <1>1 DEF Steady, Locals
<1>9. QED
  BY <1>3, <1>7, <1>8

(* What all handlers share: the file is created, the range is copied, the  *)
(* record is made.                                                         *)
LEMMA SharedKeeps ==
    ASSUME CarveInv, Shared
    PROVE  TypeOK' /\ Sized' /\ Steady' /\ Locals'
<1>t. /\ job \in Jobs /\ written \in 0 .. job.len /\ goal \subseteq Nat
      /\ job.len \in Nat /\ job.maxSize \in Nat
      /\ validated \in BOOLEAN /\ truncated \in BOOLEAN
  BY JobIs DEF CarveInv, TypeOK
<1>1. CASE Create
  <2>1. /\ phase = "create" /\ job' = job /\ phase' \in {"walk", "copy"} /\ pos' = pos
        /\ goal' = goal /\ mem' = mem /\ written' = written /\ onDisk' = TRUE
        /\ validated' = validated /\ truncated' = truncated /\ carved' = carved
    BY <1>1 DEF Create, parser, flags
  <2>2. written' = 0 /\ Within(0)
    BY <2>1, <1>t, ZeroIsWithin DEF CarveInv, Sized
  <2>3. TypeOK'
    BY <2>1 DEF CarveInv, TypeOK, Phases
  <2>4. Sized'
    BY <2>1, <2>2, TheFormat DEF CarveInv, Sized, Excused, SizeWithinLimit, Limit
  <2>5. Steady' /\ Locals'
    BY <2>1, <2>2 DEF Steady, Locals
  <2>6. QED
    BY <2>3, <2>4, <2>5
<1>2. CASE WriteRange
  <2>1. PICK e \in goal : /\ written' = Lesser(e, job.len)
                          /\ truncated' = (truncated \/ e > job.len)
    BY <1>2 DEF WriteRange
  <2>2. /\ job' = job /\ phase' = "flush" /\ pos' = pos /\ goal' = goal /\ onDisk' = onDisk
        /\ validated' = (validated /\ (job.fmt \in Judged => ~truncated'))
        /\ carved' = carved
    BY <1>2 DEF WriteRange, parser, disk
  <2>3. e \in Nat /\ written' \in 0 .. job.len /\ written' <= e
    BY <2>1, <1>t DEF Lesser
  <2>4. validated' \in BOOLEAN /\ truncated' \in BOOLEAN
    BY <2>1, <2>2, Zenon
  <2>5. Within(e) \/ Excused(e)
    BY DEF CarveInv, Sized
  <2>6. Within(written') \/ (Excused(written') /\ truncated)
    BY <2>3, <2>5, <1>t, LessIsOver DEF Within, Excused
  <2>7. truncated => truncated'
    BY <2>1
  <2>8. TypeOK'
    BY <2>2, <2>3, <2>4 DEF CarveInv, TypeOK, Phases
  <2>9. Sized'
    BY <2>2, <2>6, <2>7, TheFormat DEF CarveInv, Sized, Excused, SizeWithinLimit, Limit
  <2>10. QED
    BY <2>2, <2>8, <2>9 DEF Steady, Locals
<1>3. CASE Discard
  <2>1. /\ job' = job /\ phase' = "done" /\ goal' = goal /\ pos' = pos /\ carved' = carved
        /\ onDisk' = FALSE /\ written' = written
        /\ validated' = validated /\ truncated' = truncated
    BY <1>3 DEF Discard, GiveUp, parser, flags
  <2>2. QED
    BY <2>1, <1>t, LeaveKeeps
<1>4. CASE Deliver
  <2>1. /\ phase = "flush" /\ job' = job /\ phase' = "done" /\ goal' = goal /\ pos' = pos
        /\ carved' = {[size |-> written, validated |-> validated,
                       truncated |-> truncated \/ AtLimit]}
        /\ onDisk' = onDisk /\ written' = written
        /\ validated' = validated /\ truncated' = truncated
    BY <1>4 DEF Deliver, parser, flags
  <2>2. (truncated \/ AtLimit) \in BOOLEAN /\ written \in Nat
    BY <1>t
  <2>3. TypeOK'
    BY <2>1, <2>2 DEF CarveInv, TypeOK, Phases
  <2>4. Within(written) \/ Excused(written) \/ LineEnd(written)
    BY <2>1 DEF CarveInv, Sized
  <2>5. ASSUME NEW c \in carved' PROVE c.size = written /\ (truncated => c.truncated)
    <3>1. c = [size |-> written, validated |-> validated, truncated |-> truncated \/ AtLimit]
      BY <2>1
    <3>2. c.size = written /\ (c.truncated <=> truncated \/ AtLimit)
      BY <3>1
    <3>3. QED
      BY <3>2
  <2>6. SizeWithinLimit'
    BY <2>1, <2>4, <2>5, <1>t, TheFormat
       DEF SizeWithinLimit, Limit, Within, Excused, RarOver, LineEnd
  <2>7. Sized'
    BY <2>1, <2>6, TheFormat DEF CarveInv, Sized, Excused
  <2>8. QED
    BY <2>1, <2>3, <2>7 DEF Steady, Locals
<1>5. CASE Ended
  BY <1>5, TheFormat DEF Ended, vars, CarveInv, TypeOK, Sized, Excused, SizeWithinLimit,
                         Limit, Steady, Locals, LastSound
<1>6. QED
  BY <1>1, <1>2, <1>3, <1>4, <1>5 DEF Shared

-----------------------------------------------------------------------------
(* The handlers that copy while they parse.                                *)
Tried(ns) == \/ Cut(ns) \/ Reject(ns) \/ PngRefuse(ns)
             \/ \E v \in BOOLEAN : Stop(ns, v)
             \/ \E m : Continue(ns, m)

LEMMA TriedKeeps ==
    ASSUME CarveInv, phase = "walk", job.fmt # "ole", NEW ns \in Seq(Nat), Tried(ns)
    PROVE  TypeOK' /\ Sized' /\ Steady' /\ Locals'
<1>1. CASE Cut(ns) \/ PngRefuse(ns) \/ \E v \in BOOLEAN : Stop(ns, v)
  BY <1>1, CutKeeps
<1>2. CASE Reject(ns)
  BY <1>2, GiveUpKeeps
<1>3. CASE \E m : Continue(ns, m)
  BY <1>3, ContinueKeeps
<1>4. QED
  BY <1>1, <1>2, <1>3 DEF Tried

LEMMA StreamKeeps ==
    ASSUME CarveInv, StreamNext
    PROVE  TypeOK' /\ Sized' /\ Steady' /\ Locals'
<1>1. job \in Jobs /\ written \in Nat /\ Here.n \in Nat /\ Here.m \in Nat
  BY JobIs DEF CarveInv, TypeOK, Here
<1>2. ASSUME NEW ns \in Seq(Nat), phase = "walk", job.fmt # "ole",
             Cut(ns) \/ Reject(ns) \/ PngRefuse(ns) \/ Accept(ns)
             \/ (\E v \in BOOLEAN : Stop(ns, v)) \/ \E m : Continue(ns, m)
      PROVE  TypeOK' /\ Sized' /\ Steady' /\ Locals'
  BY <1>2, TriedKeeps DEF Tried, Accept
<1>3. CASE PngSignature
  <2>1. <<8>> \in Seq(Nat)
    OBVIOUS
  <2>2. QED
    BY <1>2, <1>3, <2>1 DEF PngSignature, Walking
<1>4. CASE PngChunk
  <2>1. <<4, 4>> \in Seq(Nat) /\ <<4, 4, Here.n, 4>> \in Seq(Nat)
    BY <1>1
  <2>2. QED
    BY <1>2, <1>4, <2>1 DEF PngChunk, Walking
<1>5. CASE GifHeader
  <2>1. <<6>> \in Seq(Nat) /\ <<6, 7, Here.n>> \in Seq(Nat)
    BY <1>1
  <2>2. QED
    BY <1>2, <1>5, <2>1 DEF GifHeader, Walking
<1>6. CASE GifBlock
  <2>1. <<1, 1>> \in Seq(Nat) /\ <<1, 9, Here.n, 1>> \in Seq(Nat) /\ <<1>> \in Seq(Nat)
    BY <1>1
  <2> DEFINE parts == CASE Here.k = "extension" -> <<1, 1>>
                        [] Here.k = "image"     -> <<1, 9, Here.n, 1>>
                        [] OTHER                -> <<1>>
  <2>2. parts \in Seq(Nat)
    BY <2>1
  <2>3. /\ phase = "walk" /\ job.fmt # "ole"
        /\ Cut(parts) \/ Reject(parts) \/ Accept(parts) \/ \E m : Continue(parts, m)
    BY <1>6 DEF GifBlock, Walking
  <2>4. QED
    BY <1>2, <2>2, <2>3
<1>7. CASE GifSubBlock
  <2>1. <<1, Here.n>> \in Seq(Nat)
    BY <1>1
  <2>2. QED
    BY <1>2, <1>7, <2>1 DEF GifSubBlock, Walking
<1>8. ASSUME NEW f, f # "ole", NEW head \in Nat, NEW total \in Nat, NEW wrong,
             SizedFile(f, head, total, wrong)
      PROVE  TypeOK' /\ Sized' /\ Steady' /\ Locals'
  <2>1. job.maxSize \in Nat
    BY <1>1, JobIs
  <2>2. Larger(Capped(total), head) - head \in Nat
    BY <2>1 DEF Larger, Capped, Lesser
  <2>3. <<head>> \in Seq(Nat) /\ <<head, Larger(Capped(total), head) - head>> \in Seq(Nat)
    BY <2>2
  <2>4. QED
    BY <1>2, <1>8, <2>3 DEF SizedFile, Walking
<1>9. CASE Webp \/ Wav \/ Avi
  <2>1. RiffTotal \in Nat /\ 12 \in Nat
    BY <1>1 DEF RiffTotal
  <2>2. QED
    BY <1>8, <1>9, <2>1 DEF Webp, Wav, Avi
<1>10. CASE Sqlite
  <2>1. SqlitePage \in Nat /\ Larger(Here.m, 1) \in Nat
    BY <1>1 DEF SqlitePage, Larger
  <2>2. SqlitePage * Larger(Here.m, 1) \in Nat /\ 100 \in Nat
    BY <2>1
  <2>3. QED
    BY <1>8, <1>10, <2>2 DEF Sqlite
<1>11. CASE OggPage
  <2>1. <<27>> \in Seq(Nat) /\ <<27, Here.n, Here.m>> \in Seq(Nat)
    BY <1>1
  <2>2. QED
    BY <1>2, <1>11, <2>1 DEF OggPage, Walking
<1>12. CASE TarStart
  BY <1>12, GiveUpKeeps, PromisingKeeps DEF TarStart, Parsing
<1>13. CASE TarBlock
  <2> DEFINE header == <<512>>
             block == <<512, TarData(Here.n)>>
  <2>1. TarData(Here.n) \in Nat
    BY <1>1 DEF TarData
  <2>2. header \in Seq(Nat) /\ block \in Seq(Nat)
    BY <2>1
  <2>3. phase = "walk" /\ job.fmt # "ole"
    BY <1>13 DEF TarBlock, Walking
  <2>4. \/ Cut(header) \/ Accept(header) \/ Reject(header)
        \/ Continue(header, <<Zeros + 1>>)
        \/ Cut(block) \/ Continue(block, <<0>>)
    BY <1>13 DEF TarBlock
  <2> HIDE DEF header, block
  <2>5. Tried(header) \/ Tried(block)
    BY <2>4 DEF Tried, Accept
  <2>6. QED
    BY <2>2, <2>3, <2>5, TriedKeeps
<1>14. CASE Mp3Start
  <2>1. <<10>> \in Seq(Nat) /\ <<10, Larger(Here.n, 10) - 10>> \in Seq(Nat)
    BY <1>1 DEF Larger
  <2>2. QED
    BY <1>2, <1>14, <2>1 DEF Mp3Start, Walking
<1>15. CASE Mp3Frame
  <2>1. <<>> \in Seq(Nat) /\ <<128>> \in Seq(Nat) /\ <<Here.n>> \in Seq(Nat)
    BY <1>1
  <2>2. Mp3Sure \in BOOLEAN
    BY DEF Mp3Sure
  <2>3. QED
    BY <1>2, <1>15, <2>1, <2>2 DEF Mp3Frame, Walking
<1>16. QED
  BY <1>3, <1>4, <1>5, <1>6, <1>7, <1>9, <1>10, <1>11, <1>12, <1>13, <1>14, <1>15
     DEF StreamNext

-----------------------------------------------------------------------------
(* The document handlers.  The difat of an ole file is a table, so that    *)
(* the highest sector it names is a number.                                *)
LEMMA FatTable ==
    ASSUME job \in Jobs
    PROVE  /\ FatCount \in Nat
           /\ \A S \in SUBSET {Token(0).m} : Max(FatSectors \cup S \cup {0}) \in Nat
<1> DEFINE known == {i \in 0 .. 108 : \A h \in 0 .. i : Difat(h).k = "difat"}
           sector == [i \in 0 .. 108 |-> Difat(i).n]
<1>1. \A p : Token(p).n \in Nat /\ Token(p).m \in Nat
  BY JobIs
<1>2. IsFiniteSet(0 .. 108) /\ known \subseteq 0 .. 108
  <2>1. 0 \in Int /\ 108 \in Int
    OBVIOUS
  <2>2. IsFiniteSet(0 .. 108)
    BY <2>1, FS_Interval, Zenon
  <2>3. QED
    BY <2>2
<1>3. FatCount \in Nat
  <2>1. IsFiniteSet(known)
    BY <1>2, FS_Subset
  <2>2. QED
    BY <2>1, FS_CardinalityType DEF FatCount
<1>4. sector \in [0 .. 108 -> Nat] /\ 108 \in Nat
  BY <1>1 DEF Difat
<1>5. PICK b \in Nat : \A i \in 0 .. 108 : sector[i] <= b
  BY <1>4, TableBounded
<1>6. \A x \in FatSectors : x \in Nat /\ x <= b
  BY <1>1, <1>5 DEF FatSectors, Difat
<1>7. ASSUME NEW S \in SUBSET {Token(0).m} PROVE Max(FatSectors \cup S \cup {0}) \in Nat
  <2> DEFINE all == FatSectors \cup S \cup {0}
             c == b + Token(0).m
  <2>1. c \in Nat /\ b <= c /\ Token(0).m <= c /\ 0 <= c
    BY <1>1
  <2>2. all \subseteq Nat /\ all # {}
    BY <1>1, <1>6
  <2>3. \A y \in all : y <= c
    BY <1>1, <1>6, <2>1
  <2> HIDE DEF all, c
  <2>4. Max(all) \in all
    BY <2>1, <2>2, <2>3, GreatestIs
  <2>5. QED
    BY <2>2, <2>4 DEF all
<1>8. QED
  BY <1>3, <1>7

LEMMA DocumentKeeps ==
    ASSUME CarveInv, DocumentNext
    PROVE  TypeOK' /\ Sized' /\ Steady' /\ Locals'
<1>1. /\ job \in Jobs /\ written \in Nat /\ job.len \in Nat /\ job.maxSize \in Nat
      /\ \A p : Token(p).n \in Nat /\ Token(p).m \in Nat
  BY JobIs DEF CarveInv, TypeOK
<1>2. <<>> \in Seq(Nat) /\ <<1>> \in Seq(Nat) /\ <<5>> \in Seq(Nat) /\ <<512>> \in Seq(Nat)
  OBVIOUS
<1>3. CASE RtfHeader
  <2>1. /\ phase = "walk" /\ job.fmt # "ole"
        /\ Cut(<<5>>) \/ Reject(<<5>>) \/ \E m : Continue(<<5>>, m)
    BY <1>3 DEF RtfHeader, Walking
  <2>2. QED
    BY <1>2, <2>1, TriedKeeps DEF Tried
<1>4. CASE RtfByte
  <2> DEFINE ns == IF mem[1].pending = {} THEN <<1>> ELSE <<>>
  <2>1. ns \in Seq(Nat)
    BY <1>2
  <2>2. phase = "walk" /\ job.fmt # "ole"
    BY <1>4 DEF RtfByte, Walking
  <2>3. Cut(ns) \/ Accept(ns) \/ \E m : Continue(ns, m)
    BY <1>4 DEF RtfByte
  <2>4. Tried(ns)
    BY <2>3 DEF Tried, Accept
  <2>5. QED
    BY <2>1, <2>2, <2>4, TriedKeeps
<1>5. CASE OleHeader
  <2> DEFINE first == {Token(0).m} \ {NoSector}
             m == [sector |-> IF Token(0).n = 3 THEN 512 ELSE 4096,
                   dir |-> IF FatCount = 0 THEN {} ELSE first,
                   visited |-> 0, streams |-> {}, fat |-> 0,
                   high |-> Max(FatSectors \cup first \cup {0})]
  <2>1. phase = "walk" /\ (Cut(<<512>>) \/ Reject(<<512>>) \/ Continue(<<512>>, <<m>>))
    BY <1>5 DEF OleHeader, Walking
  <2>2. first \in SUBSET {Token(0).m} /\ first \subseteq Nat
    BY <1>1
  <2>3. Max(FatSectors \cup first \cup {0}) \in Nat
    BY <1>1, <2>2, FatTable
  <2>4. m \in OleLocals
    <3> HIDE DEF first
    <3>1. (IF FatCount = 0 THEN {} ELSE first) \in SUBSET Nat
      BY <2>2
    <3>2. (IF Token(0).n = 3 THEN 512 ELSE 4096) \in Nat
      OBVIOUS
    <3>3. QED
      BY <2>3, <3>1, <3>2 DEF OleLocals
  <2>5. <<m>>[1] = m
    OBVIOUS
  <2> DEFINE ns == <<512>>
             locals == <<m>>
  <2>6. ns \in Seq(Nat) /\ locals[1] \in OleLocals
    BY <2>4, <2>5
  <2>7. Cut(ns) \/ Reject(ns) \/ Continue(ns, locals)
    BY <2>1
  <2> HIDE DEF m, ns, locals
  <2>8. CASE Cut(ns)
    BY <2>1, <2>6, <2>8, CutKeeps
  <2>9. CASE Reject(ns)
    BY <2>1, <2>6, <2>9, GiveUpKeeps
  <2>10. CASE Continue(ns, locals)
    BY <2>1, <2>6, <2>10, ContinueKeeps
  <2>11. QED
    BY <2>7, <2>8, <2>9, <2>10
<1>6. ASSUME Walking("ole"), written > 0
      PROVE  phase = "walk" /\ job.fmt = "ole" /\ mem[1] \in OleLocals
  BY <1>6 DEF Walking, CarveInv, Locals
<1>7. ASSUME phase = "walk", NEW m \in OleLocals, Continue(<<>>, <<m>>)
      PROVE  TypeOK' /\ Sized' /\ Steady' /\ Locals'
  <2>1. <<m>>[1] \in OleLocals
    OBVIOUS
  <2>2. QED
    BY <1>2, <1>7, <2>1, ContinueKeeps
<1>8. CASE OleDirectory
  <2>1. phase = "walk" /\ mem[1] \in OleLocals
    BY <1>6, <1>8 DEF OleDirectory
  <2> DEFINE m == mem[1]
  <2>2. PICK id \in m.dir :
          LET there == Token(SectorAt(id))
              next == IF there.n = NoSector THEN {} ELSE {there.n}
          IN IF ~Sector(id) THEN Continue(<<>>, <<[m EXCEPT !.dir = {}]>>)
             ELSE Continue(<<>>,
                    <<[m EXCEPT !.streams = @ \cup {there.k},
                                !.visited = @ + 1,
                                !.dir = IF m.visited + 1 < DirSteps THEN next ELSE {}]>>)
    BY <1>8 DEF OleDirectory
  <2> DEFINE there == Token(SectorAt(id))
             next == IF there.n = NoSector THEN {} ELSE {there.n}
             after == [m EXCEPT !.streams = @ \cup {there.k}, !.visited = @ + 1,
                                !.dir = IF m.visited + 1 < DirSteps THEN next ELSE {}]
  <2>3. there.k \in Kinds /\ there.n \in Nat
    BY <1>1 DEF Token, Kinds
  <2> HIDE DEF there
  <2>4. [m EXCEPT !.dir = {}] \in OleLocals
    BY <2>1 DEF OleLocals
  <2>5. after \in OleLocals
    <3>1. (IF m.visited + 1 < DirSteps THEN next ELSE {}) \in SUBSET Nat
      BY <2>3
    <3>2. m.streams \cup {there.k} \in SUBSET Kinds /\ m.visited + 1 \in Nat
      BY <2>1, <2>3 DEF OleLocals
    <3> HIDE DEF next
    <3>3. QED
      BY <2>1, <3>1, <3>2 DEF OleLocals
  <2>6. Continue(<<>>, <<[m EXCEPT !.dir = {}]>>) \/ Continue(<<>>, <<after>>)
    BY <2>2 DEF there
  <2> HIDE DEF after
  <2>7. QED
    BY <1>7, <2>1, <2>4, <2>5, <2>6
<1>9. CASE OleFat
  <2>1. phase = "walk" /\ mem[1] \in OleLocals
    BY <1>6, <1>9 DEF OleFat
  <2> DEFINE m == mem[1]
             known == Token(SectorAt(Difat(m.fat).n)).n
             looked == [m EXCEPT !.fat = @ + 1, !.high = Larger(@, known)]
             left == [m EXCEPT !.fat = FatCount]
  <2>2. known \in Nat /\ FatCount \in Nat
    BY <1>1, FatTable
  <2>3. Continue(<<>>, <<looked>>) \/ Continue(<<>>, <<left>>)
    BY <1>9 DEF OleFat
  <2> HIDE DEF known
  <2>4. looked \in OleLocals /\ left \in OleLocals
    <3>1. m.fat + 1 \in Nat /\ Larger(m.high, known) \in Nat
      BY <2>1, <2>2 DEF OleLocals, Larger
    <3>2. QED
      BY <2>1, <2>2, <3>1 DEF OleLocals
  <2> HIDE DEF looked, left
  <2>5. QED
    BY <1>7, <2>1, <2>3, <2>4
<1>10. CASE OleCopy
  <2> DEFINE rest == Larger(Lesser(OleSize, OleLimit), 512) - 512
  <2>1. phase = "walk" /\ mem[1] \in OleLocals /\ job.fmt = "ole"
    BY <1>6, <1>10 DEF OleCopy
  <2>2. OleLimit \in Nat
    BY <1>1, DocumentAssumption DEF OleLimit
  <2>3. OleSize \in Nat
    <3>1. mem[1].sector \in Nat /\ mem[1].high + 1 \in Nat
      BY <2>1 DEF OleLocals
    <3>2. (mem[1].high + 1) * mem[1].sector \in Nat
      BY <3>1
    <3>3. QED
      BY <3>1, <3>2 DEF OleSize, SectorAt
  <2>4. <<rest>> \in Seq(Nat)
    BY <2>2, <2>3 DEF Larger, Lesser
  <2>5. /\ written' = Reads(<<rest>>).at /\ validated' = TRUE /\ phase' = "flush"
        /\ job' = job /\ pos' = pos /\ goal' = goal /\ truncated' = truncated
        /\ onDisk' = onDisk /\ carved' = carved
    BY <1>10 DEF OleCopy, disk
  <2> HIDE DEF rest
  <2>6. written' \in 0 .. job.len /\ Within(written')
    BY <2>1, <2>4, <2>5, ReadsWithin DEF CarveInv, Sized
  <2>7. truncated' \in BOOLEAN /\ validated' \in BOOLEAN
    BY <2>5 DEF CarveInv, TypeOK
  <2>8. QED
    BY <2>1, <2>5, <2>6, <2>7, CopyEnds
<1>11. QED
  BY <1>3, <1>4, <1>5, <1>8, <1>9, <1>10 DEF DocumentNext

-----------------------------------------------------------------------------
(* The handlers that look for a pattern.  A read stays within the evidence *)
(* and the limit, and so does a pattern that is seen in it.                *)
Marked == {"jpeg", "pdf", "fb2", "bzip2", "gzip", "xz", "eml", "zip", "zipstream"}

LEMMA SearchIs ==
    ASSUME job \in Jobs, job.fmt \in Marked, NEW p \in Nat, ~Capping(p),
           NEW n \in ReadSizes(p)
    PROVE  /\ n \in Nat /\ p + n <= job.len /\ Within(p + n)
           /\ Seen(p, n) \subseteq Nat
           /\ \A q \in Seen(p, n) : /\ q \in Nat /\ q <= MarkEnd(q)
                                    /\ MarkEnd(q) \in 0 .. p + n
<1>1. job.len \in Nat /\ job.maxSize \in Nat /\ DOMAIN job.at \subseteq Nat
  BY JobIs
<1>2. BufSize \in Nat
  BY MarkerAssumption
<1>3. MarkLen[job.fmt] \in Nat
  BY DEF MarkLen, Marked
<1>4. Asked(p) \in Int /\ p + Asked(p) <= job.len
  BY <1>1, <1>2 DEF Asked, Lesser
<1>5. job.maxSize > 0 => p + Asked(p) <= job.maxSize
  BY <1>1, <1>2 DEF Asked, Lesser
<1>6. n \in Nat /\ n <= Asked(p)
  BY <1>4 DEF ReadSizes
<1>7. p + n <= job.len /\ Within(p + n)
  BY <1>1, <1>4, <1>5, <1>6 DEF Within
<1>8. Seen(p, n) \subseteq Nat
  BY <1>1 DEF Seen
<1>9. ASSUME NEW q \in Seen(p, n)
      PROVE  q \in Nat /\ q <= MarkEnd(q) /\ MarkEnd(q) \in 0 .. p + n
  BY <1>3, <1>6, <1>8 DEF Seen, MarkEnd
<1>10. QED
  BY <1>6, <1>7, <1>8, <1>9

(* A copying search goes on.                                               *)
LEMMA CopyGoesOn ==
    ASSUME CarveInv, phase = "walk", job.fmt # "ole", job' = job, phase' = "walk",
           goal' = goal, pos' = pos, carved' = carved, onDisk' = onDisk,
           validated' \in BOOLEAN, truncated' = truncated,
           written' \in 0 .. job.len, Within(written')
    PROVE  TypeOK' /\ Sized' /\ Steady' /\ Locals'
<1>1. TypeOK'
  BY DEF CarveInv, TypeOK, Phases
<1>2. Sized'
  BY TheFormat DEF CarveInv, Sized, Excused, SizeWithinLimit, Limit
<1>3. Steady' /\ Locals'
  BY DEF Steady, Locals
<1>4. QED
  BY <1>1, <1>2, <1>3

LEMMA CopySearchKeeps ==
    ASSUME CarveInv, phase = "walk", job.fmt \in Marked,
           \/ LimitOrEof
           \/ \E n \in 1 .. BufSize : CopyOn(n)
           \/ \E n \in 1 .. BufSize : CopyMark(n, "flush") \/ CopyMark(n, "walk")
    PROVE  TypeOK' /\ Sized' /\ Steady' /\ Locals'
<1>1. /\ job \in Jobs /\ job.fmt \notin {"ole", "rar"} /\ written \in 0 .. job.len
      /\ written \in Nat /\ Within(written)
      /\ validated \in BOOLEAN /\ truncated \in BOOLEAN
  BY JobIs DEF CarveInv, TypeOK, Sized, Marked
<1>2. CASE LimitOrEof
  <2>1. /\ job' = job /\ phase' = "flush" /\ pos' = pos /\ goal' = goal
        /\ written' = written /\ validated' = validated /\ truncated' = TRUE
        /\ onDisk' = onDisk /\ carved' = carved
    BY <1>2 DEF LimitOrEof, parser, disk
  <2>2. validated' \in BOOLEAN /\ truncated' \in BOOLEAN
    BY <1>1, <2>1
  <2>3. QED
    BY <1>1, <2>1, <2>2, CopyEnds
<1>3. ASSUME NEW n \in 1 .. BufSize, CopyOn(n)
      PROVE  TypeOK' /\ Sized' /\ Steady' /\ Locals'
  <2>1. /\ job' = job /\ phase' = phase /\ pos' = pos /\ goal' = goal
        /\ written' = written + n /\ validated' = validated /\ truncated' = truncated
        /\ onDisk' = onDisk /\ carved' = carved
        /\ ~Capping(written) /\ n \in ReadSizes(written)
    BY <1>3 DEF CopyOn, flags, disk
  <2>2. written' \in 0 .. job.len /\ Within(written')
    BY <1>1, <2>1, SearchIs
  <2>3. QED
    BY <1>1, <2>1, <2>2, CopyGoesOn
<1>4. ASSUME NEW n \in 1 .. BufSize, NEW ended \in {"flush", "walk"}, CopyMark(n, ended)
      PROVE  TypeOK' /\ Sized' /\ Steady' /\ Locals'
  <2> DEFINE q == Min(Seen(written, n))
  <2>1. /\ job' = job /\ phase' = ended /\ pos' = pos /\ goal' = goal
        /\ written' = MarkEnd(q) /\ validated' = TRUE /\ truncated' = truncated
        /\ onDisk' = onDisk /\ carved' = carved
        /\ ~Capping(written) /\ n \in ReadSizes(written) /\ Seen(written, n) # {}
    BY <1>4 DEF CopyMark, parser, disk
  <2>2. /\ n \in Nat /\ written + n <= job.len /\ Within(written + n)
        /\ Seen(written, n) \subseteq Nat
        /\ \A x \in Seen(written, n) : MarkEnd(x) \in 0 .. written + n
    BY <1>1, <2>1, SearchIs
  <2>3. q \in Seen(written, n)
    BY <2>1, <2>2, LeastIs
  <2> HIDE DEF q
  <2>4. written' \in 0 .. written + n
    BY <2>1, <2>2, <2>3
  <2>5. written' \in 0 .. job.len /\ Within(written')
    BY <1>1, <2>2, <2>4, JobIs DEF Within
  <2>6. validated' \in BOOLEAN /\ truncated' \in BOOLEAN
    BY <1>1, <2>1
  <2>7. QED
    BY <1>1, <2>1, <2>5, <2>6, CopyEnds, CopyGoesOn
<1>5. QED
  BY <1>2, <1>3, <1>4

(* A looking search: it goes on, or the end is found, or there is none.    *)
LEMMA LookKeeps ==
    ASSUME CarveInv, phase \in {"parse", "walk"}, job.fmt \in Marked \ {"zip"},
           \/ \E v \in BOOLEAN : NoEnd(v)
           \/ ~Looking /\ Settle(job.maxSize, TRUE, FALSE)
           \/ AtEof /\ \E v \in BOOLEAN : Settle(pos, v, FALSE)
           \/ Settle(Capped(Unending), FALSE, job.maxSize > 0)
           \/ \E n \in 1 .. BufSize : \E found : LookOn(n, found)
    PROVE  TypeOK' /\ Sized' /\ Steady' /\ Locals'
<1>1. /\ job \in Jobs /\ job.len \in Nat /\ job.maxSize \in Nat /\ pos \in Nat
      /\ (job.maxSize > 0) \in BOOLEAN /\ TRUE \in BOOLEAN /\ FALSE \in BOOLEAN
  BY JobIs DEF CarveInv, TypeOK
<1>2. job.fmt \in Marked /\ job.fmt \notin Quicktime \cup {"ole", "rar", "tiff", "zip"}
  BY DEF Marked, Quicktime
<1>3. Within(job.maxSize) /\ (Looking => Within(pos))
  BY <1>1 DEF Within, Looking, Capping
<1>4. ASSUME NEW v \in BOOLEAN, NEW t \in BOOLEAN, Settle(job.maxSize, v, t)
      PROVE  TypeOK' /\ Sized' /\ Steady' /\ Locals'
  BY <1>1, <1>3, <1>4, SettleKeeps
<1>5. ASSUME NEW v \in BOOLEAN, AtEof, Settle(pos, v, FALSE)
      PROVE  TypeOK' /\ Sized' /\ Steady' /\ Locals'
  BY <1>1, <1>3, <1>5, SettleKeeps DEF AtEof
<1>6. CASE Settle(Capped(Unending), FALSE, job.maxSize > 0)
  <2>1. Capped(Unending) \in Nat /\ Within(Capped(Unending))
    BY <1>1 DEF Capped, Unending, Lesser, Within
  <2>2. QED
    BY <1>1, <1>6, <2>1, SettleKeeps
<1>7. ASSUME NEW n \in 1 .. BufSize, NEW found, LookOn(n, found)
      PROVE  TypeOK' /\ Sized' /\ Steady' /\ Locals'
  <2>1. ~Capping(pos) /\ n \in ReadSizes(pos) /\ Advance(pos + n, Kept(n))
    BY <1>7 DEF LookOn, Looking
  <2>2. pos + n \in Nat
    BY <1>1, <1>2, <2>1, SearchIs
  <2>3. QED
    BY <1>1, <1>2, <2>1, <2>2, AdvanceKeeps
<1>8. QED
  BY <1>1, <1>4, <1>5, <1>6, <1>7 DEF NoEnd

(* The end is that of a pattern seen, or its start.                        *)
LEMMA FoundKeeps ==
    ASSUME CarveInv, phase \in {"parse", "walk"}, job.fmt \in Marked \ {"zip"},
           NEW n \in ReadSizes(pos), Looking,
           NEW S, S \subseteq Seen(pos, n), S # {},
           NEW t \in BOOLEAN,
           Settle(Min(S), TRUE, t) \/ Settle(MarkEnd(Min(S)), TRUE, t)
    PROVE  TypeOK' /\ Sized' /\ Steady' /\ Locals'
<1>1. /\ job \in Jobs /\ job.len \in Nat /\ job.maxSize \in Nat /\ pos \in Nat
      /\ job.fmt \in Marked /\ ~Capping(pos) /\ TRUE \in BOOLEAN
  BY JobIs DEF CarveInv, TypeOK, Looking
<1>2. /\ n \in Nat /\ Within(pos + n) /\ Seen(pos, n) \subseteq Nat
      /\ \A q \in Seen(pos, n) : /\ q \in Nat /\ q <= MarkEnd(q)
                                 /\ MarkEnd(q) \in 0 .. pos + n
  BY <1>1, SearchIs
<1>3. Min(S) \in S
  BY <1>2, LeastIs
<1>4. ASSUME NEW e \in {Min(S), MarkEnd(Min(S))} PROVE e \in Nat /\ Within(e)
  <2>1. e \in 0 .. pos + n
    BY <1>1, <1>2, <1>3
  <2>2. QED
    BY <1>1, <1>2, <2>1 DEF Within
<1>5. QED
  BY <1>1, <1>4, SettleKeeps

LEMMA PdfLineEndKeeps ==
    ASSUME CarveInv, PdfLineEnd
    PROVE  TypeOK' /\ Sized' /\ Steady' /\ Locals'
<1> DEFINE next(p) == IF Has(p, 1) THEN Token(p).k ELSE "none"
           more == CASE next(written) = "lf" -> 1
                     [] next(written) = "cr" -> IF next(written + 1) = "lf" THEN 2 ELSE 1
                     [] OTHER -> 0
<1>1. /\ phase = "walk" /\ job.fmt = "pdf" /\ written' = written + more /\ phase' = "flush"
      /\ job' = job /\ pos' = pos /\ goal' = goal /\ onDisk' = onDisk /\ carved' = carved
      /\ validated' = validated /\ truncated' = truncated
  BY DEF PdfLineEnd, Walking, parser, flags, disk
<1>2. /\ job \in Jobs /\ job.len \in Nat /\ job.maxSize \in Nat /\ written \in 0 .. job.len
      /\ Within(written) /\ validated' \in BOOLEAN /\ truncated' \in BOOLEAN
  BY <1>1, JobIs DEF CarveInv, TypeOK, Sized
<1>3. more \in 0 .. 2 /\ written + more <= job.len
  <2>1. CASE next(written) = "lf"
    <3>1. Has(written, 1)
      BY <2>1
    <3>2. more = 1
      BY <2>1
    <3>3. QED
      BY <1>2, <3>1, <3>2 DEF Has
  <2>2. CASE next(written) # "lf" /\ next(written) = "cr"
    <3>1. Has(written, 1)
      BY <2>2
    <3>2. CASE next(written + 1) = "lf"
      <4>1. Has(written + 1, 1)
        BY <3>2
      <4>2. more = 2
        BY <2>2, <3>2
      <4>3. QED
        BY <1>2, <4>1, <4>2 DEF Has
    <3>3. CASE next(written + 1) # "lf"
      <4>1. more = 1
        BY <2>2, <3>3
      <4>2. QED
        BY <1>2, <3>1, <4>1 DEF Has
    <3>4. QED
      BY <3>2, <3>3
  <2>3. CASE next(written) # "lf" /\ next(written) # "cr"
    <3>1. more = 0
      BY <2>3
    <3>2. QED
      BY <1>2, <3>1
  <2>4. QED
    BY <2>1, <2>2, <2>3
<1> HIDE DEF more
<1>4. written' \in 0 .. job.len
  BY <1>1, <1>2, <1>3
<1>5. Within(written') \/ LineEnd(written')
  BY <1>1, <1>2, <1>3 DEF Within, LineEnd
<1>6. QED
  BY <1>1, <1>2, <1>4, <1>5, CopyEnds

LEMMA ZipScanKeeps ==
    ASSUME CarveInv, ZipScan
    PROVE  TypeOK' /\ Sized' /\ Steady' /\ Locals'
<1>1. /\ job \in Jobs /\ job.len \in Nat /\ job.maxSize \in Nat /\ pos \in Nat
      /\ phase = "parse" /\ job.fmt = "zip" /\ written = 0 /\ LastSound \subseteq Nat
      /\ \A p : Token(p).n \in Nat /\ Token(p).m \in Nat
      /\ job.fmt \in Marked /\ job.fmt \notin Quicktime \cup {"ole", "rar", "tiff"}
  BY JobIs DEF CarveInv, TypeOK, Sized, Locals, ZipScan, Parsing, Marked, Quicktime
<1>2. CASE NotThis
  BY <1>2, GiveUpKeeps
<1>3. ASSUME NEW q \in LastSound, ZipFound(q)
      PROVE  TypeOK' /\ Sized' /\ Steady' /\ Locals'
  <2> DEFINE e == EndRecord(q)
  <2>1. /\ goal' = {Capped(e)} /\ validated' = TRUE
        /\ truncated' = (job.maxSize > 0 /\ e > job.maxSize)
        /\ phase' = "create" /\ job' = job /\ pos' = pos /\ written' = written
        /\ onDisk' = onDisk /\ carved' = carved
    BY <1>3 DEF ZipFound, disk
  <2>2. e \in Nat
    BY <1>1 DEF EndRecord
  <2> HIDE DEF e
  <2>3. Capped(e) \in Nat /\ Within(Capped(e))
    BY <1>1, <2>2 DEF Capped, Lesser, Within
  <2>4. validated' \in BOOLEAN /\ truncated' \in BOOLEAN
    BY <2>1
  <2>5. TypeOK'
    BY <2>1, <2>3, <2>4 DEF CarveInv, TypeOK, Phases
  <2>6. Sized'
    BY <1>1, <2>1, <2>3, TheFormat DEF CarveInv, Sized, Excused, SizeWithinLimit, Limit
  <2>7. QED
    BY <2>1, <2>5, <2>6 DEF Steady, Locals
<1>4. ASSUME NEW n \in 1 .. BufSize, Looking, n \in ReadSizes(pos),
             LET sound == {q \in Seen(pos, n) : Sound(q)}
             IN Advance(pos + n, Kept(n) \o
                          <<IF sound = {} THEN LastSound ELSE {Max(sound)}>>)
      PROVE  TypeOK' /\ Sized' /\ Steady' /\ Locals'
  <2> DEFINE sound == {q \in Seen(pos, n) : Sound(q)}
             last == IF sound = {} THEN LastSound ELSE {Max(sound)}
             m == Kept(n) \o <<last>>
  <2>1. /\ n \in Nat /\ pos + n \in Nat /\ Seen(pos, n) \subseteq Nat
        /\ \A q \in Seen(pos, n) : q <= MarkEnd(q) /\ MarkEnd(q) \in 0 .. pos + n
    BY <1>1, <1>4, SearchIs DEF Looking
  <2>2. \A q \in sound : q \in Nat /\ q <= pos + n
    BY <1>1, <2>1
  <2>3. last \subseteq Nat
    <3>1. CASE sound = {}
      BY <1>1, <3>1
    <3>2. CASE sound # {}
      <4>1. sound \subseteq Nat
        BY <2>1
      <4>2. Max(sound) \in sound
        BY <2>1, <2>2, <3>2, <4>1, GreatestIs
      <4>3. QED
        BY <3>2, <4>1, <4>2
    <3>3. QED
      BY <3>1, <3>2
  <2>4. Advance(pos + n, m)
    BY <1>4
  <2> HIDE DEF sound, last
  <2>5. (IF Len(m) < 2 THEN {} ELSE m[2]) \subseteq Nat
    <3> DEFINE a == Lesser(n, MarkLen[job.fmt] - 1)
               both == {a, last}
    <3>1. m = <<a>> \o <<last>>
      BY DEF Kept
    <3> HIDE DEF a, m
    <3>2. <<a>> \in Seq(both) /\ <<last>> \in Seq(both)
      OBVIOUS
    <3>3. Len(m) = 2 /\ m[2] = last
      BY <3>1, <3>2
    <3>4. QED
      BY <2>3, <3>3
  <2> HIDE DEF m
  <2>6. QED
    BY <1>1, <2>1, <2>4, <2>5, AdvanceKeeps
<1>5. QED
  BY <1>2, <1>3, <1>4 DEF ZipScan

(* What a zip handler writes of its range.                                 *)
LEMMA ZipCopyKeeps ==
    ASSUME CarveInv, ZipCopy
    PROVE  TypeOK' /\ Sized' /\ Steady' /\ Locals'
<1>1. PICK e \in goal : /\ written' = Lesser(e, job.len)
                        /\ truncated' = (truncated \/ e > job.len)
  BY DEF ZipCopy
<1>2. /\ phase = "walk" /\ job.fmt = "zip" /\ phase' = "flush" /\ job' = job
      /\ pos' = pos /\ goal' = goal /\ validated' = validated
      /\ onDisk' = onDisk /\ carved' = carved
  BY DEF ZipCopy, Walking, disk
<1>3. /\ job \in Jobs /\ job.len \in Nat /\ job.maxSize \in Nat /\ e \in Nat /\ Within(e)
      /\ validated' \in BOOLEAN
  BY <1>2, JobIs DEF CarveInv, TypeOK, Sized, Excused
<1>4. truncated' \in BOOLEAN
  BY <1>1
<1>5. written' \in 0 .. job.len /\ Within(written')
  BY <1>1, <1>3 DEF Lesser, Within
<1>6. QED
  BY <1>2, <1>3, <1>4, <1>5, CopyEnds

LEMMA ZipEndKeeps ==
    ASSUME CarveInv, phase = "walk", job.fmt = "zipstream", NEW n \in Nat, ZipEnd(n)
    PROVE  TypeOK' /\ Sized' /\ Steady' /\ Locals'
<1> DEFINE q == Min(Seen(written, n))
           e == EndOf(q)
<1>1. /\ written' = Lesser(Capped(e), job.len)
      /\ truncated' = (Capped(e) # e \/ Capped(e) > job.len)
      /\ validated' = TRUE /\ phase' = "flush" /\ job' = job /\ pos' = pos /\ goal' = goal
      /\ onDisk' = onDisk /\ carved' = carved
      /\ ~Capping(written) /\ n \in ReadSizes(written) /\ Seen(written, n) # {}
  BY DEF ZipEnd, disk
<1>2. /\ job \in Jobs /\ job.len \in Nat /\ job.maxSize \in Nat /\ written \in Nat
      /\ job.fmt \in Marked /\ \A p : Token(p).n \in Nat
  BY JobIs DEF CarveInv, TypeOK, Marked
<1>3. Seen(written, n) \subseteq Nat
  BY <1>1, <1>2, SearchIs
<1>4. q \in Nat
  BY <1>1, <1>3, LeastIs
<1> HIDE DEF q
<1>5. e \in Nat
  BY <1>2, <1>4 DEF EndOf, EndRecord
<1> HIDE DEF e
<1>6. Capped(e) \in Nat /\ Within(Capped(e))
  BY <1>2, <1>5 DEF Capped, Lesser, Within
<1>7. written' \in 0 .. job.len /\ Within(written')
  BY <1>1, <1>2, <1>6 DEF Lesser, Within
<1>8. truncated' \in BOOLEAN /\ validated' \in BOOLEAN
  BY <1>1
<1>9. QED
  BY <1>1, <1>7, <1>8, CopyEnds

LEMMA MarkerKeeps ==
    ASSUME CarveInv, MarkerNext
    PROVE  TypeOK' /\ Sized' /\ Steady' /\ Locals'
<1>1. /\ job \in Jobs /\ \A p : Token(p).n \in Nat
      /\ job.maxSize \in Nat /\ BufSize \in Nat /\ pos \in Nat
      /\ TRUE \in BOOLEAN /\ FALSE \in BOOLEAN
  BY JobIs, MarkerAssumption DEF CarveInv, TypeOK
<1>2. CASE Jpeg \/ Pdf \/ Fb2
  <2>1. /\ phase = "walk" /\ job.fmt \in Marked
        /\ \/ LimitOrEof \/ NotThis
           \/ \E n \in 1 .. BufSize : CopyOn(n)
           \/ \E n \in 1 .. BufSize : CopyMark(n, "flush") \/ CopyMark(n, "walk")
    BY <1>2 DEF Jpeg, Pdf, Fb2, Walking, Marked
  <2>2. QED
    BY <2>1, GiveUpKeeps, CopySearchKeeps
<1>3. CASE PdfLineEnd
  BY <1>3, PdfLineEndKeeps
<1>4. CASE Fb2Preview \/ Bzip2Header \/ GzipHeader \/ XzHeader
  <2>1. /\ phase = "parse"
        /\ \/ NotThis \/ Broken \/ Promising
           \/ LookFrom(4) \/ LookFrom(12) \/ LookFrom(Token(0).n)
    BY <1>4 DEF Fb2Preview, Bzip2Header, GzipHeader, XzHeader, Parsing
  <2>2. 4 \in Nat /\ 12 \in Nat /\ Token(0).n \in Nat
    BY <1>1
  <2>3. QED
    BY <2>1, <2>2, GiveUpKeeps, PromisingKeeps
<1>5. ASSUME NEW n \in 1 .. BufSize, phase \in {"parse", "walk"},
             job.fmt \in Marked \ {"zip"}, Looking, n \in ReadSizes(pos),
             NEW S, S \subseteq Seen(pos, n), S # {},
             \/ Settle(Min(S), TRUE, FALSE) \/ Settle(Min(S), TRUE, Capping(Min(S)))
             \/ Settle(MarkEnd(Min(S)), TRUE, Capping(MarkEnd(Min(S))))
      PROVE  TypeOK' /\ Sized' /\ Steady' /\ Locals'
  <2>1. \A e : Capping(e) \in BOOLEAN
    BY DEF Capping
  <2>2. n \in ReadSizes(pos) /\ Looking
    BY <1>5
  <2>3. PICK t \in BOOLEAN : Settle(Min(S), TRUE, t) \/ Settle(MarkEnd(Min(S)), TRUE, t)
    BY <1>1, <1>5, <2>1
  <2>4. QED
    BY <1>5, <2>2, <2>3, FoundKeeps
<1>6. CASE Bzip2
  <2>1. phase \in {"parse", "walk"} /\ job.fmt \in Marked \ {"zip"}
    BY <1>6 DEF Bzip2, Walking, Marked
  <2>2. \/ NoEnd(FALSE) \/ (AtEof /\ Settle(pos, FALSE, FALSE))
        \/ \E n \in 1 .. BufSize :
             \/ LookOn(n, Seen(pos, n))
             \/ /\ Looking /\ n \in ReadSizes(pos) /\ Seen(pos, n) # {}
                /\ Settle(MarkEnd(Min(Seen(pos, n))), TRUE,
                          Capping(MarkEnd(Min(Seen(pos, n)))))
    BY <1>6 DEF Bzip2
  <2>3. QED
    BY <1>1, <1>5, <2>1, <2>2, LookKeeps
<1>7. CASE Gzip
  <2>1. phase \in {"parse", "walk"} /\ job.fmt \in Marked \ {"zip"}
    BY <1>7 DEF Gzip, Walking, Marked
  <2>2. CASE NoEnd(FALSE) \/ (AtEof /\ Settle(pos, TRUE, FALSE))
    BY <1>1, <2>1, <2>2, LookKeeps
  <2>3. ASSUME NEW n \in 1 .. BufSize, LookOn(n, Seen(pos, n) \ {0})
        PROVE  TypeOK' /\ Sized' /\ Steady' /\ Locals'
    BY <2>1, <2>3, LookKeeps
  <2>4. ASSUME NEW n \in 1 .. BufSize, Looking, n \in ReadSizes(pos),
               Seen(pos, n) \ {0} # {},
               Settle(Min(Seen(pos, n) \ {0}), TRUE, Capping(Min(Seen(pos, n) \ {0})))
        PROVE  TypeOK' /\ Sized' /\ Steady' /\ Locals'
    <3>1. Seen(pos, n) \ {0} \subseteq Seen(pos, n)
      OBVIOUS
    <3>2. QED
      BY <1>5, <2>1, <2>4, <3>1
  <2>5. QED
    BY <1>7, <2>2, <2>3, <2>4 DEF Gzip
<1>8. CASE Xz
  <2> DEFINE footers(n) == {q \in Seen(pos, n) : Token(q).n = 1 /\ MarkEnd(q) > 12}
  <2>1. phase \in {"parse", "walk"} /\ job.fmt \in Marked \ {"zip"}
    BY <1>8 DEF Xz, Walking, Marked
  <2>2. CASE NoEnd(FALSE) \/ Settle(Capped(Unending), FALSE, job.maxSize > 0)
    BY <1>1, <2>1, <2>2, LookKeeps
  <2>3. ASSUME NEW n \in 1 .. BufSize, LookOn(n, footers(n))
        PROVE  TypeOK' /\ Sized' /\ Steady' /\ Locals'
    BY <2>1, <2>3, LookKeeps
  <2>4. ASSUME NEW n \in 1 .. BufSize, Looking, n \in ReadSizes(pos), footers(n) # {},
               Settle(MarkEnd(Min(footers(n))), TRUE, Capping(MarkEnd(Min(footers(n)))))
        PROVE  TypeOK' /\ Sized' /\ Steady' /\ Locals'
    <3>1. footers(n) \subseteq Seen(pos, n)
      OBVIOUS
    <3> HIDE DEF footers
    <3>2. QED
      BY <1>5, <2>1, <2>4, <3>1
  <2>5. QED
    BY <1>8, <2>2, <2>3, <2>4 DEF Xz
<1>9. CASE Eml
  <2> DEFINE later(n) == {q \in Seen(pos, n) : q > 0 /\ q = Min(Seen(pos, n))}
  <2>1. phase \in {"parse", "walk"} /\ job.fmt \in Marked \ {"zip"}
    BY <1>9 DEF Eml, Parsing, Marked
  <2>2. CASE NotThis
    BY <2>2, GiveUpKeeps
  <2>3. CASE (~Looking /\ Settle(job.maxSize, TRUE, FALSE))
             \/ (AtEof /\ Settle(pos, TRUE, FALSE))
    BY <1>1, <2>1, <2>3, LookKeeps
  <2>4. ASSUME NEW n \in 1 .. BufSize, LookOn(n, later(n))
        PROVE  TypeOK' /\ Sized' /\ Steady' /\ Locals'
    BY <2>1, <2>4, LookKeeps
  <2>5. ASSUME NEW n \in 1 .. BufSize, Looking, n \in ReadSizes(pos), later(n) # {},
               Settle(Min(later(n)), TRUE, FALSE)
        PROVE  TypeOK' /\ Sized' /\ Steady' /\ Locals'
    <3>1. later(n) \subseteq Seen(pos, n)
      OBVIOUS
    <3> HIDE DEF later
    <3>2. QED
      BY <1>5, <2>1, <2>5, <3>1
  <2>6. QED
    BY <1>9, <2>2, <2>3, <2>4, <2>5 DEF Eml
<1>10. CASE ZipScan
  BY <1>10, ZipScanKeeps
<1>11. CASE ZipCopy
  BY <1>11, ZipCopyKeeps
<1>12. CASE ZipStream
  <2>1. phase = "walk" /\ job.fmt = "zipstream" /\ job.fmt \in Marked
    BY <1>12 DEF ZipStream, Walking, Marked
  <2>2. \/ LimitOrEof \/ NotThis
        \/ \E n \in 1 .. BufSize : CopyOn(n)
        \/ \E n \in 1 .. BufSize : ZipEnd(n)
    BY <1>12 DEF ZipStream
  <2>3. \A n \in 1 .. BufSize : n \in Nat
    BY <1>1
  <2>4. QED
    BY <2>1, <2>2, <2>3, GiveUpKeeps, CopySearchKeeps, ZipEndKeeps
<1>13. QED
  BY <1>2, <1>3, <1>4, <1>6, <1>7, <1>8, <1>9, <1>10, <1>11, <1>12 DEF MarkerNext

-----------------------------------------------------------------------------
(* The handlers that work out the end first.                               *)

(* Sequences in a row are a sequence.                                      *)
LEMMA FlattenIsSeq ==
    ASSUME NEW S, NEW seqs \in Seq(Seq(S))
    PROVE  FlattenSeq(seqs) \in Seq(S)
<1>1. CASE Len(seqs) = 0
  <2>1. seqs = <<>>
    BY <1>1
  <2>2. QED
    BY <1>1, <2>1 DEF FlattenSeq
<1>2. CASE Len(seqs) # 0
  <2> DEFINE n == Len(seqs)
             Run(f) == f = [i \in 1 .. n |-> IF i = 1 THEN seqs[i] ELSE f[i - 1] \o seqs[i]]
             step == [p \in Seq(S) \X (1 .. n - 1) |-> p[1] \o seqs[p[2] + 1]]
             f == CHOOSE f : Run(f)
  <2>1. n \in Nat \ {0} /\ n - 1 \in Nat /\ \A i \in 1 .. n : seqs[i] \in Seq(S)
    BY <1>2
  <2>2. FlattenSeq(seqs) = f[n]
    BY <1>2 DEF FlattenSeq
  <2> HIDE DEF n
  <2>3. \A p \in Seq(S) \X (1 .. n - 1) : p[1] \o seqs[p[2] + 1] \in Seq(S)
    <3> TAKE p \in Seq(S) \X (1 .. n - 1)
    <3>1. p[1] \in Seq(S) /\ p[2] + 1 \in 1 .. n
      BY <2>1
    <3>2. seqs[p[2] + 1] \in Seq(S)
      BY <2>1, <3>1
    <3>3. QED
      BY <3>1, <3>2
  <2>4. step \in Stepping(Seq(S), n - 1)
    BY <2>3 DEF Stepping
  <2>5. 1 \in 1 .. n /\ seqs[1] \in Seq(S)
    BY <2>1
  <2> HIDE DEF step
  <2>6. PICK g : Unrolled(g, Seq(S), seqs[1], n - 1, step)
    BY <2>1, <2>4, <2>5, Recursion
  <2> DEFINE h == [i \in 1 .. n |-> g[i - 1]]
  <2>7. Run(h)
    <3>1. ASSUME NEW i \in 1 .. n
          PROVE  h[i] = IF i = 1 THEN seqs[i] ELSE h[i - 1] \o seqs[i]
      <4>1. CASE i = 1
        BY <2>1, <2>6, <4>1 DEF Unrolled
      <4>2. CASE i # 1
        <5>1. i - 1 \in 1 .. n - 1 /\ (i - 1) - 1 \in 0 .. n - 1 /\ i - 1 \in 1 .. n
          BY <2>1, <4>2
        <5>2. g[i - 1] = step[<<g[(i - 1) - 1], i - 1>>] /\ g[(i - 1) - 1] \in Seq(S)
          BY <2>6, <5>1 DEF Unrolled
        <5>3. <<g[(i - 1) - 1], i - 1>> \in Seq(S) \X (1 .. n - 1)
          BY <5>1, <5>2
        <5>4. step[<<g[(i - 1) - 1], i - 1>>] = g[(i - 1) - 1] \o seqs[(i - 1) + 1]
          BY <5>3 DEF step
        <5>5. (i - 1) + 1 = i /\ h[i] = g[i - 1] /\ h[i - 1] = g[(i - 1) - 1]
          BY <2>1, <5>1
        <5>6. QED
          BY <4>2, <5>2, <5>4, <5>5
      <4>3. QED
        BY <4>1, <4>2
    <3>2. h = [i \in 1 .. n |-> h[i]]
      OBVIOUS
    <3> HIDE DEF h
    <3>3. QED
      BY <3>1, <3>2
  <2> HIDE DEF h
  <2>8. Run(f)
    BY <2>7
  <2> HIDE DEF f
  <2> DEFINE T == {k \in Nat : k + 1 <= n => f[k + 1] \in Seq(S)}
  <2>9. 0 \in T
    BY <2>1, <2>5, <2>8
  <2>10. ASSUME NEW k \in Nat, k \in T PROVE k + 1 \in T
    <3> SUFFICES ASSUME (k + 1) + 1 <= n PROVE f[(k + 1) + 1] \in Seq(S)
      OBVIOUS
    <3>1. /\ k + 1 \in 1 .. n /\ (k + 1) + 1 \in 1 .. n /\ (k + 1) + 1 # 1
          /\ ((k + 1) + 1) - 1 = k + 1
      BY <2>1
    <3>2. f[k + 1] \in Seq(S)
      BY <2>1, <2>10, <3>1
    <3>3. f[(k + 1) + 1] = f[k + 1] \o seqs[(k + 1) + 1]
      BY <2>8, <3>1
    <3>4. QED
      BY <2>1, <3>1, <3>2, <3>3
  <2> HIDE DEF T
  <2>11. n - 1 \in T
    BY <2>1, <2>9, <2>10, Induction
  <2>12. (n - 1) + 1 = n
    BY <2>1
  <2>13. QED
    BY <2>1, <2>2, <2>11, <2>12 DEF T
<1>3. QED
  BY <1>1, <1>2

(* A table has a greatest entry, and so has what is picked from it.        *)
LEMMA TableMax ==
    ASSUME NEW n \in Nat, NEW f \in [0 .. n -> Nat], NEW S, S # {},
           S \subseteq {f[i] : i \in 0 .. n}
    PROVE  S \subseteq Nat /\ Max(S) \in S /\ \A y \in S : y <= Max(S)
<1>1. PICK b \in Nat : \A i \in 0 .. n : f[i] <= b
  BY TableBounded
<1>2. S \subseteq Nat /\ \A y \in S : y <= b
  BY <1>1
<1>3. QED
  BY <1>2, GreatestIs

LEMMA CappedKeeps ==
    ASSUME CarveInv, phase = "parse", NEW e \in Nat, NEW v \in BOOLEAN, NEW t \in BOOLEAN,
           Settle(Capped(e), v, t)
    PROVE  TypeOK' /\ Sized' /\ Steady' /\ Locals'
<1>1. job \in Jobs /\ job.maxSize \in Nat
  BY JobIs DEF CarveInv, TypeOK
<1>2. Capped(e) \in Nat /\ Within(Capped(e))
  BY <1>1 DEF Capped, Lesser, Within
<1>3. QED
  BY <1>2, SettleKeeps

LEMMA FlaggedKeeps ==
    ASSUME CarveInv, phase = "parse", NEW e \in Nat, Flagged(e) \/ Unflag(e)
    PROVE  TypeOK' /\ Sized' /\ Steady' /\ Locals'
<1>1. TRUE \in BOOLEAN /\ FALSE \in BOOLEAN /\ (job.maxSize > 0 /\ e > job.maxSize) \in BOOLEAN
  OBVIOUS
<1>2. \/ Settle(Capped(e), TRUE, FALSE)
      \/ Settle(Capped(e), TRUE, job.maxSize > 0 /\ e > job.maxSize)
  BY DEF Flagged, Unflag
<1>3. QED
  BY <1>1, <1>2, CappedKeeps

(* The images of an icon.                                                  *)
LEMMA IcoKeeps ==
    ASSUME CarveInv, Ico
    PROVE  TypeOK' /\ Sized' /\ Steady' /\ Locals'
<1>1. job \in Jobs /\ \A p : At(p).n \in Nat /\ At(p).m \in Nat
  BY JobIs DEF CarveInv, TypeOK, At
<1>2. phase = "parse"
  BY DEF Ico, Parsing
<1>3. CASE NotThis \/ Broken
  BY <1>3, GiveUpKeeps
<1>4. ASSUME IcoLike, Unflag(Lesser(Max({x.m + x.n : x \in IcoEntries}), IcoMax))
      PROVE  TypeOK' /\ Sized' /\ Steady' /\ Locals'
  <2> DEFINE last == At(0).n - 1
             f == [i \in 0 .. last |-> At(6 + 16 * i).m + At(6 + 16 * i).n]
             ends == {x.m + x.n : x \in IcoEntries}
  <2>1. last \in Nat
    BY <1>1, <1>4 DEF IcoLike
  <2>2. f \in [0 .. last -> Nat]
    BY <1>1
  <2>3. ends = {f[i] : i \in 0 .. last}
    BY DEF IcoEntries
  <2>4. ends # {} /\ ends \subseteq {f[i] : i \in 0 .. last}
    <3>1. 0 \in 0 .. last
      BY <2>1
    <3>2. QED
      BY <2>3, <3>1
  <2>5. Max(ends) \in Nat
    <3> HIDE DEF ends, f, last
    <3>1. ends \subseteq Nat /\ Max(ends) \in ends
      BY <2>1, <2>2, <2>4, TableMax
    <3>2. QED
      BY <3>1
  <2> HIDE DEF ends
  <2>6. Lesser(Max(ends), IcoMax) \in Nat
    BY <2>5, SizedAssumption DEF Lesser
  <2>7. QED
    BY <1>2, <1>4, <2>6, FlaggedKeeps DEF ends
<1>5. QED
  BY <1>3, <1>4 DEF Ico

(* The records of a mobi file: the last is taken to be as long as the one  *)
(* before, which there is unless it is the only one or shares its offset.  *)
LEMMA MobiKeeps ==
    ASSUME CarveInv, Mobi
    PROVE  TypeOK' /\ Sized' /\ Steady' /\ Locals'
<1>1. job \in Jobs /\ \A p : At(p).n \in Nat /\ At(p).m \in Nat
  BY JobIs DEF CarveInv, TypeOK, At
<1>2. phase = "parse"
  BY DEF Mobi, Parsing
<1>3. CASE NotThis \/ Broken
  BY <1>3, GiveUpKeeps
<1>4. ASSUME MobiLike, Unflag(Max(MobiOffsets) + MobiLast)
      PROVE  TypeOK' /\ Sized' /\ Steady' /\ Locals'
  <2> DEFINE count == At(0).n
             f == [i \in 0 .. count - 1 |-> MobiOffset(i)]
             last == Max(MobiOffsets)
             atLast == {i \in MobiRecords : MobiOffset(i) = last}
             rest == MobiOffsets \ {last}
  <2>1. count \in Nat /\ count >= 1 /\ count - 1 \in Nat /\ 0 \in 0 .. count - 1
    <3>1. count \in 1 .. 4096
      BY <1>4, SMTT(30) DEF MobiLike
    <3> HIDE DEF count
    <3>2. QED
      BY <3>1
  <2>2. f \in [0 .. count - 1 -> Nat]
    BY <1>1 DEF MobiOffset
  <2>3. MobiOffsets = {f[i] : i \in 0 .. count - 1} /\ MobiRecords = 0 .. count - 1
    BY DEF MobiOffsets, MobiRecords
  <2>4. MobiOffsets # {} /\ \A i \in MobiRecords : MobiOffset(i) \in MobiOffsets
    BY <2>1, <2>3 DEF MobiOffsets
  <2> HIDE DEF count, f
  <2>5. MobiOffsets \subseteq Nat /\ last \in MobiOffsets /\ \A y \in MobiOffsets : y <= last
    BY <2>1, <2>2, <2>3, <2>4, TableMax
  <2>6. IsFiniteSet(MobiRecords) /\ Cardinality(MobiRecords) = count
    <3>1. 0 \in Int /\ count - 1 \in Int
      BY <2>1
    <3>2. IsFiniteSet(0 .. count - 1)
          /\ Cardinality(0 .. count - 1) = IF 0 > count - 1 THEN 0 ELSE (count - 1) - 0 + 1
      BY <3>1, FS_Interval
    <3>3. QED
      BY <2>1, <2>3, <3>2
  <2>7. Cardinality(atLast) \in Nat
    <3>1. atLast \in SUBSET MobiRecords
      OBVIOUS
    <3> HIDE DEF atLast
    <3>2. IsFiniteSet(atLast)
      BY <2>6, <3>1, FS_Subset
    <3>3. QED
      BY <3>2, FS_CardinalityType
  <2>8. CASE count = 1
    BY <1>2, <1>4, <2>5, <2>8, FlaggedKeeps DEF MobiLast, count
  <2>9. CASE count # 1 /\ Cardinality(atLast) > 1
    <3>1. MobiLast = 1
      BY <2>9 DEF MobiLast, count
    <3>2. last \in Nat
      BY <2>5
    <3> HIDE DEF last
    <3>3. last + MobiLast \in Nat
      BY <3>1, <3>2
    <3>4. QED
      BY <1>2, <1>4, <3>3, FlaggedKeeps DEF last
  <2>10. CASE count # 1 /\ ~(Cardinality(atLast) > 1)
    <3>1. rest # {}
      <4> SUFFICES ASSUME rest = {} PROVE FALSE
        OBVIOUS
      <4>1. \A i \in MobiRecords : MobiOffset(i) = last
        BY <2>4
      <4>2. atLast = MobiRecords
        BY <4>1
      <4> HIDE DEF atLast
      <4>3. QED
        BY <2>1, <2>6, <2>10, <4>2
    <3>2. rest \subseteq {f[i] : i \in 0 .. count - 1}
      BY <2>3
    <3>3. Max(rest) \in rest
      <4> HIDE DEF rest
      <4>1. QED
        BY <2>1, <2>2, <3>1, <3>2, TableMax
    <3>4. Max(rest) \in Nat /\ Max(rest) <= last /\ last \in Nat
      BY <2>5, <3>3
    <3>5. MobiLast = last - Max(rest)
      BY <2>10 DEF MobiLast, count
    <3> HIDE DEF rest, last
    <3>6. last + MobiLast \in Nat
      BY <3>4, <3>5
    <3>7. QED
      BY <1>2, <1>4, <3>6, FlaggedKeeps DEF last
  <2>11. QED
    BY <2>8, <2>9, <2>10
<1>5. QED
  BY <1>3, <1>4 DEF Mobi

LEMMA HeaderKeeps ==
    ASSUME CarveInv, Bmp \/ SevenZ \/ Elf \/ Lrf
    PROVE  TypeOK' /\ Sized' /\ Steady' /\ Locals'
<1>1. /\ job \in Jobs /\ job.maxSize \in Nat
      /\ \A p : At(p).n \in Nat /\ At(p).m \in Nat
  BY JobIs DEF CarveInv, TypeOK, At
<1>2. phase = "parse"
  BY DEF Bmp, SevenZ, Elf, Lrf, Parsing
<1>3. CASE NotThis \/ Broken
  BY <1>3, GiveUpKeeps
<1>4. CASE Bmp
  BY <1>1, <1>2, <1>3, <1>4, FlaggedKeeps DEF Bmp
<1>5. CASE SevenZ
  <2>1. 32 + At(0).n + At(0).m \in Nat
    BY <1>1
  <2>2. QED
    BY <1>2, <1>3, <1>5, <2>1, FlaggedKeeps DEF SevenZ
<1>6. CASE Elf
  <2> DEFINE size == Larger(At(0).n, At(0).m)
             e == IF size = 0 THEN 64 ELSE size
  <2>1. e \in Nat
    BY <1>1 DEF Larger
  <2>2. NotThis \/ Broken \/ Unflag(e)
    BY <1>6 DEF Elf
  <2> HIDE DEF e
  <2>3. QED
    BY <1>2, <1>3, <2>1, <2>2, FlaggedKeeps
<1>7. CASE Lrf
  <2> DEFINE e == CASE At(0).n > 0     -> At(0).n
                    [] job.maxSize > 0 -> job.maxSize
                    [] OTHER           -> 1024
  <2>1. e \in Nat
    <3>1. CASE At(0).n > 0 /\ job.maxSize > 0
      BY <1>1, <3>1
    <3>2. CASE At(0).n > 0 /\ ~(job.maxSize > 0)
      BY <1>1, <3>2
    <3>3. CASE ~(At(0).n > 0)
      BY <1>1, <3>3
    <3>4. QED
      BY <3>1, <3>2, <3>3
  <2>2. NotThis \/ Broken \/ Unflag(e)
    BY <1>7 DEF Lrf
  <2> HIDE DEF e
  <2>3. QED
    BY <1>2, <1>3, <2>1, <2>2, FlaggedKeeps
<1>8. QED
  BY <1>4, <1>5, <1>6, <1>7

(* The objects of a wmv file, the elements of a webm file.                 *)
LEMMA ElementsKeep ==
    ASSUME CarveInv, WmvHeader \/ WmvObject \/ WebmHeader \/ WebmElement
    PROVE  TypeOK' /\ Sized' /\ Steady' /\ Locals'
<1>1. /\ job \in Jobs /\ job.maxSize \in Nat /\ job.len \in Nat /\ pos \in Nat
      /\ \A p : At(p).n \in Nat /\ At(p).m \in Nat
      /\ \A e : Capping(e) \in BOOLEAN
  BY JobIs DEF CarveInv, TypeOK, At, Capping
<1>2. phase = "parse" /\ job.fmt \in {"wmv", "webm"}
  BY DEF WmvHeader, WmvObject, WebmHeader, WebmElement, Parsing
<1>3. CASE NotThis \/ Broken
  BY <1>3, GiveUpKeeps
<1>4. ASSUME NEW p \in Nat, NEW m, Advance(p, m)
      PROVE  TypeOK' /\ Sized' /\ Steady' /\ Locals'
  BY <1>2, <1>4, AdvanceKeeps DEF Quicktime
<1>5. CASE WmvHeader
  BY <1>3, <1>4, <1>5 DEF WmvHeader
<1>6. CASE WmvObject
  <2>1. pos + At(pos).n \in Nat
    BY <1>1
  <2>2. \/ Broken \/ Unflag(At(0).n) \/ Unflag(At(pos).m) \/ Advance(pos + At(pos).n, mem)
    BY <1>6 DEF WmvObject
  <2>3. QED
    BY <1>1, <1>2, <1>3, <1>4, <2>1, <2>2, FlaggedKeeps
<1>7. CASE WebmHeader
  <2>1. At(0).n + At(0).m \in Nat
    BY <1>1
  <2>2. NotThis \/ Broken \/ Advance(At(0).n + At(0).m, <<At(0).n + At(0).m>>)
    BY <1>7 DEF WebmHeader
  <2>3. QED
    BY <1>3, <1>4, <2>1, <2>2
<1>8. CASE WebmElement
  <2> DEFINE next == pos + At(pos).n + At(pos).m
             all == IF job.maxSize > 0 THEN job.maxSize ELSE job.len
  <2>1. next \in Nat /\ all \in Nat /\ Within(all)
    BY <1>1 DEF Within
  <2>2. \/ Broken \/ Advance(next, mem)
        \/ Settle(Capped(next), TRUE, Capping(Capped(next)))
        \/ Settle(all, FALSE, Capping(all))
    BY <1>8 DEF WebmElement
  <2> HIDE DEF next, all
  <2>3. TRUE \in BOOLEAN /\ FALSE \in BOOLEAN
    OBVIOUS
  <2>4. CASE Settle(all, FALSE, Capping(all))
    BY <1>1, <1>2, <2>1, <2>3, <2>4, SettleKeeps
  <2>5. CASE Settle(Capped(next), TRUE, Capping(Capped(next)))
    BY <1>1, <1>2, <2>1, <2>3, <2>5, CappedKeeps
  <2>6. QED
    BY <1>3, <1>4, <2>1, <2>2, <2>4, <2>5
<1>9. QED
  BY <1>5, <1>6, <1>7, <1>8

(* A box that does not fit within the limit is never stepped over.         *)
LEMMA BoxKeeps ==
    ASSUME CarveInv, Box
    PROVE  TypeOK' /\ Sized' /\ Steady' /\ Locals'
<1>1. /\ job \in Jobs /\ job.maxSize \in Nat /\ pos \in Nat
      /\ \A p : At(p).n \in Nat
      /\ TRUE \in BOOLEAN /\ FALSE \in BOOLEAN
  BY JobIs DEF CarveInv, TypeOK, At
<1>2. phase = "parse" /\ job.fmt \in Quicktime /\ job.fmt \notin {"ole", "rar", "tiff", "zip"}
  BY DEF Box, Quicktime
<1>3. Within(pos)
  BY <1>2 DEF CarveInv, Steady
<1>4. ASSUME NEW m, NEW t \in BOOLEAN, BoxesOver(m, t)
      PROVE  TypeOK' /\ Sized' /\ Steady' /\ Locals'
  BY <1>1, <1>2, <1>3, <1>4, SettleKeeps, GiveUpKeeps DEF BoxesOver
<1>5. ASSUME NEW m, job.maxSize > 0 => pos + At(pos).n <= job.maxSize,
             Advance(pos + At(pos).n, m)
      PROVE  TypeOK' /\ Sized' /\ Steady' /\ Locals'
  <2>1. pos + At(pos).n \in Nat /\ Within(pos + At(pos).n)
    BY <1>1, <1>5 DEF Within
  <2>2. QED
    BY <1>2, <1>5, <2>1, AdvanceKeeps
<1>6. \/ NotThis
      \/ \E m : BoxesOver(m, TRUE) \/ BoxesOver(m, FALSE)
      \/ /\ job.maxSize > 0 => pos + At(pos).n <= job.maxSize
         /\ \E m : Advance(pos + At(pos).n, m)
  BY DEF Box
<1>7. QED
  BY <1>1, <1>4, <1>5, <1>6, GiveUpKeeps

(* The blocks of a rar archive.                                            *)
LEMMA RarKeeps ==
    ASSUME CarveInv, RarSignature \/ Rar4Block \/ Rar5Block
    PROVE  TypeOK' /\ Sized' /\ Steady' /\ Locals'
<1>1. /\ job \in Jobs /\ job.maxSize \in Nat /\ pos \in Nat
      /\ \A p : At(p).n \in Nat /\ At(p).m \in Nat
      /\ TRUE \in BOOLEAN /\ FALSE \in BOOLEAN
  BY JobIs DEF CarveInv, TypeOK, At
<1>2. phase = "parse" /\ job.fmt = "rar"
  BY DEF RarSignature, Rar4Block, Rar5Block, Parsing
<1>3. job.fmt \notin Quicktime \cup {"ole", "tiff", "zip"}
  BY <1>2 DEF Quicktime
<1>4. CASE NotThis
  BY <1>4, GiveUpKeeps
<1>5. ASSUME NEW p \in Nat, NEW m, Advance(p, m),
             Within(p) \/ RarOver(p)
      PROVE  TypeOK' /\ Sized' /\ Steady' /\ Locals'
  BY <1>2, <1>3, <1>5, AdvanceKeeps
<1>6. ASSUME RarCut
      PROVE  TypeOK' /\ Sized' /\ Steady' /\ Locals'
  <2>1. Within(pos) \/ RarOver(pos)
    BY <1>2, <1>6 DEF CarveInv, Steady
  <2>2. QED
    BY <1>1, <1>2, <1>6, <2>1, SettleKeeps DEF RarCut
<1>7. ASSUME NEW e \in Nat, job.maxSize > 0 => e <= job.maxSize, Settle(e, TRUE, FALSE)
      PROVE  TypeOK' /\ Sized' /\ Steady' /\ Locals'
  BY <1>1, <1>2, <1>7, SettleKeeps DEF Within
<1>8. CASE RarSignature
  <2>1. 7 \in Nat /\ 8 \in Nat /\ RarOver(7) /\ RarOver(8)
    BY DEF RarOver
  <2>2. NotThis \/ Advance(7, mem) \/ Advance(8, mem)
    BY <1>8 DEF RarSignature, At
  <2>3. QED
    BY <1>4, <1>5, <2>1, <2>2
<1>9. CASE Rar4Block
  <2> DEFINE end == pos + At(pos).n
             next == pos + At(pos).n + At(pos).m
  <2>1. Token(0).k = "rar4" /\ end \in Nat /\ next \in Nat
    BY <1>1, <1>9 DEF Rar4Block, At
  <2>2. \/ NotThis \/ RarCut
        \/ /\ ~(job.maxSize > 0 /\ end > job.maxSize) /\ At(pos).n >= 7
           /\ Advance(next, mem)
        \/ ~(job.maxSize > 0 /\ end > job.maxSize) /\ Settle(end, TRUE, FALSE)
    BY <1>9 DEF Rar4Block
  <2>3. CASE /\ ~(job.maxSize > 0 /\ end > job.maxSize) /\ At(pos).n >= 7
             /\ Advance(next, mem)
    <3>1. pos \in DOMAIN job.at /\ At(pos) = job.at[pos]
      BY <2>3 DEF At, Token, Nothing
    <3>2. CASE job.maxSize > 0
      <4>1. pos + job.at[pos].n <= Limit /\ next <= pos + job.at[pos].n + job.at[pos].m
        BY <1>1, <2>1, <2>3, <3>1, <3>2 DEF Limit
      <4>2. RarOver(next)
        BY <2>1, <3>1, <4>1 DEF RarOver, DataOverLimit
      <4>3. QED
        BY <1>5, <2>1, <2>3, <4>2
    <3>3. CASE ~(job.maxSize > 0)
      BY <1>5, <2>1, <2>3, <3>3 DEF Within
    <3>4. QED
      BY <3>2, <3>3
  <2> HIDE DEF end, next
  <2>4. CASE ~(job.maxSize > 0 /\ end > job.maxSize) /\ Settle(end, TRUE, FALSE)
    <3>1. job.maxSize > 0 => end <= job.maxSize
      BY <1>1, <2>1, <2>4
    <3>2. QED
      BY <1>7, <2>1, <2>4, <3>1
  <2>5. QED
    BY <1>4, <1>6, <2>2, <2>3, <2>4
<1>10. CASE Rar5Block
  <2> DEFINE end == pos + At(pos).n + At(pos).m
  <2>1. Token(0).k = "rar5" /\ end \in Nat
    BY <1>1, <1>10 DEF Rar5Block, At
  <2>2. \/ NotThis \/ RarCut
        \/ /\ job.maxSize > 0 => end <= job.maxSize
           /\ Advance(end, mem) \/ Settle(end, TRUE, FALSE)
    BY <1>10 DEF Rar5Block
  <2> HIDE DEF end
  <2>3. CASE NotThis \/ RarCut
    BY <1>4, <1>6, <2>1, <2>3
  <2>4. CASE (job.maxSize > 0 => end <= job.maxSize) /\ Advance(end, mem)
    BY <1>1, <1>5, <2>1, <2>4 DEF Within
  <2>5. CASE (job.maxSize > 0 => end <= job.maxSize) /\ Settle(end, TRUE, FALSE)
    BY <1>7, <2>1, <2>5
  <2>6. QED
    BY <2>2, <2>3, <2>4, <2>5
<1>11. QED
  BY <1>8, <1>9, <1>10

(* The entries of a directory of a tiff file, and the ends they declare.   *)
LEMMA IfdIs ==
    ASSUME job \in Jobs, NEW ifd \in Nat
    PROVE  /\ IfdEntries(ifd) \in [1 .. At(ifd).n -> {Token(p) : p \in Nat}]
           /\ IfdEntries(ifd) \in Seq({Token(p) : p \in Nat})
           /\ IfdEnd(ifd) \in Nat /\ NextIfd(ifd) \in Seq(Nat)
<1>1. At(ifd).n \in Nat /\ At(ifd).m \in Nat
  BY JobIs DEF At
<1> DEFINE n == At(ifd).n
           tokens == {Token(p) : p \in Nat}
<1>2. \A i \in 1 .. n : At(ifd + 2 + 12 * (i - 1)) \in tokens
  <2> TAKE i \in 1 .. n
  <2>1. ifd + 2 + 12 * (i - 1) \in Nat
    BY <1>1
  <2>2. QED
    BY <2>1 DEF At
<1>3. IfdEntries(ifd) = [i \in 1 .. n |-> At(ifd + 2 + 12 * (i - 1))]
  BY DEF IfdEntries
<1>4. IfdEnd(ifd) \in Nat /\ NextIfd(ifd) \in Seq(Nat)
  BY <1>1 DEF IfdEnd, NextIfd
<1>5. n \in Nat
  BY <1>1
<1> HIDE DEF n, tokens
<1>6. IfdEntries(ifd) \in [1 .. n -> tokens]
  BY <1>2, <1>3
<1>7. IfdEntries(ifd) \in Seq(tokens)
  BY <1>5, <1>6, SeqDef
<1>8. QED
  BY <1>4, <1>6, <1>7 DEF n, tokens

(* Sets of numbers that have a greatest.                                   *)
Bounded(S) == S \subseteq Nat /\ \E b \in Nat : \A y \in S : y <= b

LEMMA BoundedIs ==
    /\ \A S, T : Bounded(S) /\ Bounded(T) => Bounded(S \cup T)
    /\ \A n \in Nat : Bounded({n})
    /\ \A S : Bounded(S) /\ S # {} => Max(S) \in S /\ Max(S) \in Nat
<1>1. ASSUME NEW S, NEW T, Bounded(S), Bounded(T) PROVE Bounded(S \cup T)
  <2>1. PICK b \in Nat : \A y \in S : y <= b
    BY <1>1 DEF Bounded
  <2>2. PICK c \in Nat : \A y \in T : y <= c
    BY <1>1 DEF Bounded
  <2>3. S \cup T \subseteq Nat
    BY <1>1 DEF Bounded
  <2>4. b + c \in Nat /\ \A y \in S \cup T : y <= b + c
    BY <2>1, <2>2, <2>3
  <2>5. QED
    BY <2>3, <2>4 DEF Bounded
<1>2. ASSUME NEW n \in Nat PROVE Bounded({n})
  BY <1>2 DEF Bounded
<1>3. ASSUME NEW S, Bounded(S), S # {} PROVE Max(S) \in S /\ Max(S) \in Nat
  BY <1>3, GreatestIs DEF Bounded
<1>4. QED
  BY <1>1, <1>2, <1>3

LEMMA TableIsBounded ==
    ASSUME NEW n \in Nat, NEW f \in [1 .. n -> Nat], NEW S, S \subseteq {f[i] : i \in 1 .. n}
    PROVE  Bounded(S)
<1> DEFINE g == [i \in 0 .. n |-> IF i = 0 THEN 0 ELSE f[i]]
<1>1. g \in [0 .. n -> Nat]
  OBVIOUS
<1>2. \A i \in 1 .. n : g[i] = f[i]
  OBVIOUS
<1> HIDE DEF g
<1>3. PICK b \in Nat : \A i \in 0 .. n : g[i] <= b
  BY <1>1, TableBounded
<1>4. \A i \in 1 .. n : f[i] \in Nat /\ f[i] <= b
  BY <1>2, <1>3
<1>5. QED
  BY <1>4 DEF Bounded

(* read_u32_array reads numbers.                                           *)
LEMMA ArrayIs ==
    ASSUME job \in Jobs, NEW x \in {Token(p) : p \in Nat}
    PROVE  Array(x) \in Seq(Nat)
<1>1. x.n \in Nat /\ x.m \in Nat /\ \A p : At(p).n \in Nat
  BY JobIs DEF At
<1>2. CASE x.m <= 4
  BY <1>1, <1>2 DEF Array
<1>3. CASE ~(x.m <= 4)
  <2> DEFINE n == x.m \div 4
             a == [j \in 1 .. n |-> At(x.n + 4 * (j - 1)).n]
  <2>1. n \in Nat
    BY <1>1
  <2>2. Array(x) = a
    BY <1>3 DEF Array
  <2> HIDE DEF n
  <2>3. a \in [1 .. n -> Nat]
    BY <1>1
  <2> HIDE DEF a
  <2>4. QED
    BY <2>1, <2>2, <2>3, SeqDef
<1>4. QED
  BY <1>2, <1>3

LEMMA DataEndsBounded ==
    ASSUME job \in Jobs, NEW es \in Seq({Token(p) : p \in Nat})
    PROVE  Bounded(DataEnds(es))
<1> DEFINE tokens == {Token(p) : p \in Nat}
           n == Len(es)
           f == [i \in 1 .. n |-> es[i].n + es[i].m]
<1>1. \A x \in tokens : x.n + x.m \in Nat
  BY JobIs
<1>2. n \in Nat /\ \A i \in 1 .. n : es[i] \in tokens
  OBVIOUS
<1>3. DOMAIN es = 1 .. n
  OBVIOUS
<1> HIDE DEF tokens, n
<1>4. f \in [1 .. n -> Nat]
  BY <1>1, <1>2
<1>5. DataEnds(es) \subseteq {f[i] : i \in 1 .. n}
  BY <1>3 DEF DataEnds
<1> HIDE DEF f
<1>6. QED
  BY <1>2, <1>4, <1>5, TableIsBounded

LEMMA PairEndsBounded ==
    ASSUME job \in Jobs, NEW es \in Seq({Token(p) : p \in Nat}), NEW starts, NEW sizes
    PROVE  Bounded(PairEnds(es, starts, sizes))
<1> DEFINE tokens == {Token(p) : p \in Nat}
           of(tag) == Array(es[Max(Tagged(es, tag))])
<1>1. CASE Tagged(es, starts) = {} \/ Tagged(es, sizes) = {}
  <2>1. PairEnds(es, starts, sizes) = {}
    BY <1>1 DEF PairEnds
  <2>2. QED
    BY <2>1 DEF Bounded
<1>2. CASE Tagged(es, starts) # {} /\ Tagged(es, sizes) # {}
  <2>1. ASSUME NEW tag, Tagged(es, tag) # {} PROVE of(tag) \in Seq(Nat)
    <3>1. Len(es) \in Nat /\ DOMAIN es = 1 .. Len(es)
      OBVIOUS
    <3>2. Tagged(es, tag) \subseteq 1 .. Len(es)
      BY <3>1 DEF Tagged
    <3>3. Bounded(Tagged(es, tag))
      BY <3>1, <3>2 DEF Bounded
    <3>4. Max(Tagged(es, tag)) \in 1 .. Len(es)
      BY <2>1, <3>2, <3>3, BoundedIs
    <3>5. es[Max(Tagged(es, tag))] \in tokens
      BY <3>4
    <3> HIDE DEF tokens
    <3>6. QED
      BY <3>5, ArrayIs DEF tokens
  <2> DEFINE a == of(starts)
             b == of(sizes)
             f == [i \in 1 .. Len(a) |-> IF i \in DOMAIN b THEN a[i] + b[i] ELSE 0]
  <2>2. PairEnds(es, starts, sizes) = {a[i] + b[i] : i \in DOMAIN a \cap DOMAIN b}
    BY <1>2 DEF PairEnds
  <2>3. a \in Seq(Nat) /\ b \in Seq(Nat)
    BY <1>2, <2>1
  <2> HIDE DEF a, b
  <2>4. Len(a) \in Nat /\ DOMAIN a = 1 .. Len(a) /\ DOMAIN b = 1 .. Len(b)
        /\ (\A i \in 1 .. Len(a) : a[i] \in Nat) /\ (\A i \in DOMAIN b : b[i] \in Nat)
    BY <2>3
  <2>5. f \in [1 .. Len(a) -> Nat]
    BY <2>4
  <2>6. PairEnds(es, starts, sizes) \subseteq {f[i] : i \in 1 .. Len(a)}
    BY <2>2, <2>4
  <2> HIDE DEF f
  <2>7. QED
    BY <2>4, <2>5, <2>6, TableIsBounded
<1>3. QED
  BY <1>1, <1>2

LEMMA EndAfterIs ==
    ASSUME job \in Jobs, NEW known \in Nat, NEW ifd \in Nat
    PROVE  EndAfter(known, ifd) \in Nat
<1> DEFINE tokens == {Token(p) : p \in Nat}
           es == IfdEntries(ifd)
           broken == Unreadable(es)
           ends == {known, IfdEnd(ifd)} \cup DataEnds(Looked(es))
<1>1. es \in Seq(tokens) /\ IfdEnd(ifd) \in Nat
  BY IfdIs
<1> HIDE DEF es
<1>2. Looked(es) \in Seq(tokens)
  <2>1. CASE broken = {}
    BY <1>1, <2>1 DEF Looked
  <2>2. CASE broken # {}
    <3>1. DOMAIN es = 1 .. Len(es) /\ Len(es) \in Nat
      BY <1>1
    <3>2. broken \subseteq 1 .. Len(es)
      BY <3>1 DEF Unreadable
    <3>3. Min(broken) \in 1 .. Len(es)
      <4>1. broken \subseteq Nat
        BY <3>1, <3>2
      <4>2. Min(broken) \in broken
        BY <2>2, <4>1, LeastIs
      <4>3. QED
        BY <3>2, <4>2
    <3>4. \A i \in 1 .. Min(broken) : es[i] \in tokens
      <4> TAKE i \in 1 .. Min(broken)
      <4>1. i \in 1 .. Len(es)
        BY <3>1, <3>3
      <4>2. QED
        BY <1>1, <4>1
    <3>5. 1 \in Int /\ Min(broken) \in Int
      BY <3>1, <3>3
    <3> HIDE DEF tokens, broken
    <3>6. SubSeq(es, 1, Min(broken)) \in Seq(tokens)
      BY <3>4, <3>5, SubSeqProperties
    <3>7. QED
      BY <2>2, <3>6 DEF Looked, broken
  <2>3. QED
    BY <2>1, <2>2
<1>3. Bounded(DataEnds(Looked(es)))
  BY <1>2, DataEndsBounded
<1>4. Bounded({known}) /\ Bounded({IfdEnd(ifd)})
  BY <1>1, BoundedIs
<1>5. Bounded({known} \cup {IfdEnd(ifd)})
  BY <1>4, BoundedIs
<1>6. Bounded(({known} \cup {IfdEnd(ifd)}) \cup DataEnds(Looked(es)))
  BY <1>3, <1>5, BoundedIs
<1>7. ends = ({known} \cup {IfdEnd(ifd)}) \cup DataEnds(Looked(es)) /\ ends # {}
  OBVIOUS
<1>8. EndAfter(known, ifd) = Max(ends)
  BY DEF EndAfter, es
<1> HIDE DEF ends
<1>9. QED
  BY <1>6, <1>7, <1>8, BoundedIs

LEMMA SubIfdsAre ==
    ASSUME job \in Jobs, NEW es \in Seq({Token(p) : p \in Nat})
    PROVE  SubIfds(es) \in Seq(Nat)
<1> DEFINE tokens == {Token(p) : p \in Nat}
           subs(i) == [j \in DOMAIN Array(es[i]) |->
                         IF Array(es[i])[j] >= 8 THEN Array(es[i])[j] ELSE 0]
           row(i) == IF i \in Tagged(es, "sub") THEN subs(i) ELSE <<>>
           rows == [i \in DOMAIN es |-> row(i)]
<1>1. DOMAIN es = 1 .. Len(es) /\ Len(es) \in Nat /\ \A i \in 1 .. Len(es) : es[i] \in tokens
  OBVIOUS
<1>2. ASSUME NEW i \in 1 .. Len(es) PROVE row(i) \in Seq(Nat)
  <2> DEFINE a == Array(es[i])
  <2>1. a \in Seq(Nat)
    <3>1. es[i] \in tokens
      BY <1>1
    <3>2. QED
      BY <3>1, ArrayIs
  <2>2. subs(i) = [j \in DOMAIN a |-> IF a[j] >= 8 THEN a[j] ELSE 0]
    OBVIOUS
  <2> HIDE DEF a
  <2>3. Len(a) \in Nat /\ DOMAIN a = 1 .. Len(a) /\ \A j \in 1 .. Len(a) : a[j] \in Nat
    BY <2>1
  <2>4. subs(i) \in [1 .. Len(a) -> Nat]
    BY <2>2, <2>3
  <2> HIDE DEF subs
  <2>5. subs(i) \in Seq(Nat)
    BY <2>3, <2>4, SeqDef, SMTT(30)
  <2>6. <<>> \in Seq(Nat)
    OBVIOUS
  <2>7. QED
    BY <2>5, <2>6
<1> HIDE DEF row
<1>3. rows \in [1 .. Len(es) -> Seq(Nat)]
  BY <1>1, <1>2
<1> HIDE DEF rows
<1>4. rows \in Seq(Seq(Nat))
  <2> DEFINE lists == Seq(Nat)
  <2>1. rows \in [1 .. Len(es) -> lists]
    BY <1>3
  <2> HIDE DEF lists
  <2>2. rows \in Seq(lists)
    BY <1>1, <2>1, SeqDef
  <2>3. QED
    BY <2>2 DEF lists
<1>5. FlattenSeq(rows) \in Seq(Nat)
  BY <1>4, FlattenIsSeq
<1>6. SubIfds(es) = FlattenSeq(rows)
  BY DEF SubIfds, rows, row
<1>7. QED
  BY <1>5, <1>6

LEMMA TiffKeeps ==
    ASSUME CarveInv, TiffHeader \/ TiffIfd \/ TiffEnd
    PROVE  TypeOK' /\ Sized' /\ Steady' /\ Locals'
<1>1. /\ job \in Jobs /\ pos \in Nat /\ TRUE \in BOOLEAN
      /\ \A p : At(p).n \in Nat /\ At(p).m \in Nat
  BY JobIs DEF CarveInv, TypeOK, At
<1>2. phase = "parse" /\ job.fmt = "tiff" /\ job.fmt \notin Quicktime \cup {"ole", "rar", "zip"}
  BY DEF TiffHeader, TiffIfd, TiffEnd, Parsing, Quicktime
<1>3. CASE NotThis
  BY <1>3, GiveUpKeeps
<1>4. ASSUME NEW p \in Nat, NEW m \in TiffLocals, Advance(p, <<m>>)
      PROVE  TypeOK' /\ Sized' /\ Steady' /\ Locals'
  <2>1. <<m>>[1] \in TiffLocals
    OBVIOUS
  <2>2. QED
    BY <1>2, <1>4, <2>1, AdvanceKeeps
<1>5. ASSUME NEW e \in Nat, TiffCut(e) PROVE TypeOK' /\ Sized' /\ Steady' /\ Locals'
  BY <1>1, <1>2, <1>5, CappedKeeps DEF TiffCut
<1>6. CASE TiffHeader
  <2> DEFINE queue == IF At(0).n >= 8 THEN <<At(0).n>> ELSE <<>>
             m == [queue |-> queue, seen |-> {}, end |-> 8]
  <2>1. queue \in Seq(Nat)
    BY <1>1
  <2>2. NotThis \/ Advance(8, <<m>>)
    BY <1>6 DEF TiffHeader
  <2> HIDE DEF queue
  <2>3. m \in TiffLocals /\ 8 \in Nat
    BY <2>1 DEF TiffLocals
  <2> HIDE DEF m
  <2>4. QED
    BY <1>3, <1>4, <2>2, <2>3
<1>7. ASSUME pos > 0 PROVE mem[1] \in TiffLocals
  BY <1>2, <1>7 DEF CarveInv, Locals
<1>8. CASE TiffEnd
  <2>1. mem[1].end \in Nat
    BY <1>7, <1>8 DEF TiffEnd, TiffLocals
  <2>2. QED
    BY <1>2, <1>8, <2>1, FlaggedKeeps DEF TiffEnd
<1>9. CASE TiffIfd
  <2> DEFINE m == mem[1]
             ifd == Head(m.queue)
             entries == IfdEntries(ifd)
             end == EndAfter(m.end, ifd)
             strips == PairEnds(entries, "strips", "counts")
             tiles == PairEnds(entries, "tiles", "tileCounts")
             passed == [m EXCEPT !.queue = Tail(@)]
             after == [queue |-> Tail(m.queue) \o SubIfds(entries) \o NextIfd(ifd),
                       seen |-> m.seen \cup {ifd}, end |-> Max({end} \cup strips \cup tiles)]
  <2>1. m \in TiffLocals /\ m.queue # <<>>
    BY <1>7, <1>9, SMTT(30) DEF TiffIfd
  <2>2. \/ TiffCut(m.end) \/ TiffCut(end) \/ Advance(pos, <<passed>>) \/ Advance(pos, <<after>>)
    BY <1>9 DEF TiffIfd
  <2> HIDE DEF m
  <2>3. m.queue \in Seq(Nat) /\ m.seen \in SUBSET Nat /\ m.end \in Nat
    BY <2>1 DEF TiffLocals
  <2>4. ifd \in Nat /\ Tail(m.queue) \in Seq(Nat)
    BY <2>1, <2>3
  <2> HIDE DEF ifd
  <2>5. entries \in Seq({Token(p) : p \in Nat}) /\ NextIfd(ifd) \in Seq(Nat)
    BY <1>1, <2>4, IfdIs
  <2>6. end \in Nat
    BY <1>1, <2>3, <2>4, EndAfterIs
  <2> HIDE DEF entries, end
  <2>7. SubIfds(entries) \in Seq(Nat)
    BY <1>1, <2>5, SubIfdsAre
  <2>8. Bounded(strips) /\ Bounded(tiles) /\ Bounded({end})
    BY <1>1, <2>5, <2>6, PairEndsBounded, BoundedIs
  <2> HIDE DEF strips, tiles
  <2>9. Bounded({end} \cup strips)
    BY <2>8, BoundedIs
  <2>10. Bounded({end} \cup strips \cup tiles) /\ {end} \cup strips \cup tiles # {}
    BY <2>8, <2>9, BoundedIs
  <2>11. Max({end} \cup strips \cup tiles) \in Nat
    BY <2>10, BoundedIs
  <2>12. Tail(m.queue) \o SubIfds(entries) \o NextIfd(ifd) \in Seq(Nat)
    BY <2>4, <2>5, <2>7
  <2>13. m.seen \cup {ifd} \in SUBSET Nat
    BY <2>3, <2>4
  <2>14. after \in TiffLocals
    BY <2>11, <2>12, <2>13, SMTT(30) DEF TiffLocals
  <2>15. passed \in TiffLocals
    BY <2>1, <2>4 DEF TiffLocals
  <2> HIDE DEF after, passed
  <2>16. QED
    BY <1>1, <1>4, <1>5, <2>2, <2>3, <2>6, <2>14, <2>15
<1>10. QED
  BY <1>6, <1>8, <1>9

LEMMA SizedKeeps ==
    ASSUME CarveInv, SizedNext
    PROVE  TypeOK' /\ Sized' /\ Steady' /\ Locals'
BY HeaderKeeps, IcoKeeps, MobiKeeps, ElementsKeep, BoxKeeps, RarKeeps, TiffKeeps
   DEF SizedNext

-----------------------------------------------------------------------------
LEMMA CarveInit == Init => CarveInv
<1> SUFFICES ASSUME Init PROVE CarveInv
  OBVIOUS
<1>1. /\ job \in Jobs /\ phase \in {"create", "parse"} /\ pos = 0 /\ mem = <<>> /\ goal = {}
      /\ written = 0 /\ validated = FALSE /\ truncated = FALSE /\ onDisk = FALSE
      /\ carved = {}
  BY DEF Init
<1>2. job.len \in Nat
  BY <1>1, JobIs
<1>3. TypeOK
  <2>1. phase \in Phases /\ job \in Jobs
    BY <1>1 DEF Phases
  <2>2. pos \in Nat /\ written \in 0 .. job.len
    BY <1>1, <1>2
  <2>3. goal \subseteq Nat
        /\ carved \subseteq [size : Nat, validated : BOOLEAN, truncated : BOOLEAN]
    BY <1>1
  <2>4. validated \in BOOLEAN /\ truncated \in BOOLEAN /\ onDisk \in BOOLEAN
    BY <1>1
  <2>5. QED
    BY <2>1, <2>2, <2>3, <2>4 DEF TypeOK
<1>4. DiskInv
  BY <1>1 DEF DiskInv, FileIffCarved
<1>5. Sized
  BY <1>1 DEF Sized, SizeWithinLimit
<1>6. Steady
  BY <1>1, ZeroIsWithin DEF Steady
<1>7. LastSound \subseteq Nat
  <2>1. Len(mem) = 0
    BY <1>1
  <2>2. LastSound = {}
    BY <2>1 DEF LastSound
  <2>3. QED
    BY <2>2
<1>8. Locals
  BY <1>1, <1>7 DEF Locals
<1>9. QED
  BY <1>3, <1>4, <1>5, <1>6, <1>8 DEF CarveInv

LEMMA CarveNext == CarveInv /\ [Next]_vars => CarveInv'
<1> SUFFICES ASSUME CarveInv, [Next]_vars PROVE CarveInv'
  OBVIOUS
<1>1. DiskInv'
  BY DiskStep DEF CarveInv
<1>2. CASE Shared
  BY <1>1, <1>2, SharedKeeps DEF CarveInv
<1>3. CASE StreamNext
  BY <1>1, <1>3, StreamKeeps DEF CarveInv
<1>4. CASE DocumentNext
  BY <1>1, <1>4, DocumentKeeps DEF CarveInv
<1>5. CASE MarkerNext
  BY <1>1, <1>5, MarkerKeeps DEF CarveInv
<1>6. CASE SizedNext
  BY <1>1, <1>6, SizedKeeps DEF CarveInv
<1>7. CASE Fails
  BY <1>1, <1>7, GiveUpKeeps DEF CarveInv
<1>8. CASE UNCHANGED vars
  BY <1>1, <1>8, TheFormat DEF vars, CarveInv, TypeOK, Sized, Excused, SizeWithinLimit,
                               Limit, Steady, Locals, LastSound
<1>9. QED
  BY <1>2, <1>3, <1>4, <1>5, <1>6, <1>7, <1>8 DEF Next, Steps

(* Every handler keeps the types: offsets are numbers, and no more is      *)
(* written than the evidence holds.                                        *)
THEOREM CarverTypes == Spec => []TypeOK
<1>1. CarveInv => TypeOK
  BY DEF CarveInv
<1>2. QED
  BY <1>1, CarveInit, CarveNext, PTL DEF Spec

(* No file is larger than max_size, in whatever pieces it was copied, but  *)
(* for the line end of a PDF, the signature of a RAR archive and, in one   *)
(* of version 4, the packed data of the last block whose header was within *)
(* the limit.                                                              *)
THEOREM SizesWithinLimit == Spec => []SizeWithinLimit
<1>1. CarveInv => SizeWithinLimit
  BY DEF CarveInv, Sized
<1>2. QED
  BY <1>1, CarveInit, CarveNext, PTL DEF Spec

=============================================================================
