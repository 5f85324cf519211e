----------------------------- MODULE SinkProofs -----------------------------
(***************************************************************************)
(* Theorems about the metadata sinks, for every kind of record, buffer     *)
(* size, row group and number of records.                                  *)
(*                                                                         *)
(* The argument is about the units a line file is sent, on disk or still   *)
(* in the buffer: writes move the border between the two, and only records *)
(* add to the end.  What can be read back grows line by line with them.    *)
(***************************************************************************)
EXTENDS Sinks, FiniteSetTheorems, SequenceTheorems, WellFoundedInduction, TLAPS

(* The least of a set of naturals.                                         *)
LEMMA LeastIs ==
    ASSUME NEW S, S \subseteq Nat, S # {}
    PROVE  Min(S) \in S /\ \A y \in S : Min(S) <= y
<1>1. IsWellFoundedOn(OpToRel(<, Nat), Nat)
  BY NatLessThanWellFounded
<1>2. PICK x \in S : \A y \in S : ~ (<<y, x>> \in OpToRel(<, Nat))
  BY <1>1, WFMin
<1>3. \A y \in S : ~(y < x)
  BY <1>2 DEF OpToRel
<1>4. \A y \in S : x <= y
  BY <1>3
<1>5. QED
  BY <1>4 DEF Min

(* Induction over the naturals, about a set instead of a predicate.        *)
LEMMA Induction ==
    ASSUME NEW T, 0 \in T, \A k \in Nat : k \in T => k + 1 \in T
    PROVE  \A k \in Nat : k \in T
<1> SUFFICES ASSUME Nat \ T # {} PROVE FALSE
  OBVIOUS
<1>1. PICK x \in Nat \ T : \A y \in Nat \ T : x <= y
  BY LeastIs
<1>2. x # 0 /\ x - 1 \in Nat /\ (x - 1) + 1 = x
  BY <1>1
<1>3. x - 1 \in T
  BY <1>1, <1>2
<1>4. QED
  BY <1>1, <1>2, <1>3

(* A recursive function over 0 .. n exists when its step stays in a set.   *)
Stepping(S, n) == [S \X (1 .. n) -> S]
Unrolled(g, S, s, n, step) ==
    g \in [0 .. n -> S] /\ g[0] = s /\ \A i \in 1 .. n : g[i] = step[<<g[i - 1], i>>]

LEMMA Recursion ==
    ASSUME NEW S, NEW s \in S, NEW n \in Nat, NEW step \in Stepping(S, n)
    PROVE  \E g : Unrolled(g, S, s, n, step)
<1> USE DEF Stepping
<1> DEFINE P(k) == \E g \in [0 .. k -> S] :
                     g[0] = s /\ \A i \in 1 .. k : g[i] = step[<<g[i - 1], i>>]
           T == {k \in Nat : k <= n => P(k)}
<1>1. 0 \in T
  <2> DEFINE g == [i \in 0 .. 0 |-> s]
  <2>1. g \in [0 .. 0 -> S] /\ g[0] = s /\ 1 .. 0 = {}
    OBVIOUS
  <2> HIDE DEF g
  <2>2. P(0)
    BY <2>1
  <2>3. QED
    BY <2>2
<1>2. ASSUME NEW k \in Nat, k \in T PROVE k + 1 \in T
  <2> SUFFICES ASSUME k + 1 <= n PROVE P(k + 1)
    OBVIOUS
  <2>1. PICK g \in [0 .. k -> S] :
               g[0] = s /\ \A i \in 1 .. k : g[i] = step[<<g[i - 1], i>>]
    BY <1>2
  <2> DEFINE h == [i \in 0 .. k + 1 |-> IF i <= k THEN g[i] ELSE step[<<g[k], k + 1>>]]
  <2>2. g[k] \in S /\ k + 1 \in 1 .. n
    BY <2>1
  <2>3. step[<<g[k], k + 1>>] \in S
    BY <2>2
  <2>4. \A i \in 0 .. k : g[i] \in S
    BY <2>1
  <2>5. h \in [0 .. k + 1 -> S]
    BY <2>3, <2>4
  <2>6. h[0] = s
    BY <2>1
  <2>7. ASSUME NEW i \in 1 .. k + 1 PROVE h[i] = step[<<h[i - 1], i>>]
    <3>1. CASE i = k + 1
      <4>1. i - 1 = k /\ k \in 0 .. k + 1 /\ ~(i <= k) /\ i \in 0 .. k + 1
        BY <3>1
      <4>2. h[i] = step[<<g[k], k + 1>>] /\ h[i - 1] = g[k]
        BY <4>1
      <4>3. QED
        BY <4>2, <3>1
    <3>2. CASE i # k + 1
      <4>1. i \in 1 .. k /\ i - 1 \in 0 .. k /\ i \in 0 .. k + 1 /\ i - 1 \in 0 .. k + 1
        BY <3>2
      <4>2. h[i] = g[i] /\ h[i - 1] = g[i - 1]
        BY <4>1
      <4>3. QED
        BY <4>1, <4>2, <2>1
    <3>3. QED
      BY <3>1, <3>2
  <2> HIDE DEF h
  <2>8. QED
    BY <2>5, <2>6, <2>7
<1> HIDE DEF P
<1>3. n \in T
  BY <1>1, <1>2, Induction
<1>4. P(n)
  BY <1>3
<1>5. QED
  BY <1>4 DEF P, Unrolled

-----------------------------------------------------------------------------
(* What can be read of a sequence of units.                                *)
UnitSet == (0 .. MaxRecords) \X (1 .. Parts)

LineStep(us, n, read) ==
    IF WholeLine(us, n) /\ us[n][1] # 0 THEN Append(read, us[n][1]) ELSE read

LEMMA UnitsAre ==
    ASSUME NEW us \in Seq(UnitSet), NEW n \in 1 .. Len(us)
    PROVE  /\ us[n] \in UnitSet /\ us[n][1] \in 0 .. MaxRecords /\ us[n][2] \in 1 .. Parts
           /\ us[n][1] # 0 => us[n][1] \in Recorded
<1>1. us[n] \in UnitSet
  BY ElementOfSeq
<1>2. MaxRecords \in Nat
  BY SinksAssumption
<1>3. QED
  BY <1>1, <1>2 DEF UnitSet, Recorded

LEMMA LinesUnroll ==
    ASSUME NEW us \in Seq(UnitSet)
    PROVE  \E g \in [0 .. Len(us) -> Seq(Recorded)] :
             /\ g[0] = << >> /\ Lines(us) = g[Len(us)]
             /\ \A n \in 1 .. Len(us) : g[n] = LineStep(us, n, g[n - 1])
<1> DEFINE Run(f) == f = [n \in 0 .. Len(us) |->
                            IF n = 0 THEN << >>
                            ELSE IF WholeLine(us, n) /\ us[n][1] # 0
                                 THEN Append(f[n - 1], us[n][1])
                            ELSE f[n - 1]]
           step == [p \in Seq(Recorded) \X (1 .. Len(us)) |-> LineStep(us, p[2], p[1])]
<1>1. Len(us) \in Nat /\ << >> \in Seq(Recorded)
  OBVIOUS
<1>2. ASSUME NEW s \in Seq(Recorded), NEW n \in 1 .. Len(us)
      PROVE  LineStep(us, n, s) \in Seq(Recorded)
  BY UnitsAre, AppendProperties DEF LineStep
<1>3. step \in Stepping(Seq(Recorded), Len(us))
  BY <1>2 DEF Stepping
<1>4. PICK g : Unrolled(g, Seq(Recorded), << >>, Len(us), step)
  <2> HIDE DEF step
  <2>1. \A S, s, n, st : s \in S /\ n \in Nat /\ st \in Stepping(S, n)
                           => \E g : Unrolled(g, S, s, n, st)
    BY Recursion
  <2>2. QED
    BY <1>1, <1>3, <2>1, Zenon
<1>5. /\ g \in [0 .. Len(us) -> Seq(Recorded)] /\ g[0] = << >>
      /\ \A n \in 1 .. Len(us) : g[n] = step[<<g[n - 1], n>>]
  BY <1>4 DEF Unrolled
<1>6. ASSUME NEW n \in 1 .. Len(us) PROVE g[n] = LineStep(us, n, g[n - 1])
  <2>1. n - 1 \in 0 .. Len(us)
    BY <1>1
  <2>2. g[n - 1] \in Seq(Recorded)
    BY <1>5, <2>1
  <2>3. <<g[n - 1], n>> \in Seq(Recorded) \X (1 .. Len(us))
    BY <2>2
  <2>4. step[<<g[n - 1], n>>] = LineStep(us, n, g[n - 1])
    BY <2>3
  <2>5. QED
    BY <1>5, <2>4
<1> HIDE DEF step
<1>7. Run(g)
  <2>1. g = [n \in 0 .. Len(us) |-> g[n]]
    BY <1>5
  <2>2. \A n \in 0 .. Len(us) : n = 0 \/ n \in 1 .. Len(us)
    BY <1>1
  <2>3. \A n \in 0 .. Len(us) :
          g[n] = IF n = 0 THEN << >>
                 ELSE IF WholeLine(us, n) /\ us[n][1] # 0 THEN Append(g[n - 1], us[n][1])
                 ELSE g[n - 1]
    BY <2>2, <1>5, <1>6 DEF LineStep
  <2>4. QED
    BY <2>1, <2>3
<1> DEFINE f == CHOOSE f : Run(f)
<1>8. Run(f)
  BY <1>7
<1>9. Lines(us) = f[Len(us)]
  BY DEF Lines
<1> HIDE DEF f
<1>10. \A n \in 0 .. Len(us) : f[n] = g[n]
  <2> DEFINE T == {n \in Nat : n <= Len(us) => f[n] = g[n]}
  <2>1. f[0] = << >>
    BY <1>1, <1>8
  <2>2. \A n \in 1 .. Len(us) : f[n] = LineStep(us, n, f[n - 1])
    <3> TAKE n \in 1 .. Len(us)
    <3>1. n \in 0 .. Len(us) /\ n # 0
      BY <1>1
    <3>2. QED
      BY <3>1, <1>8 DEF LineStep
  <2> HIDE DEF Run
  <2>3. 0 \in T
    BY <2>1, <1>5
  <2>4. ASSUME NEW n \in Nat, n \in T PROVE n + 1 \in T
    <3> SUFFICES ASSUME n + 1 <= Len(us) PROVE f[n + 1] = g[n + 1]
      BY DEF T
    <3>1. n + 1 \in 1 .. Len(us) /\ (n + 1) - 1 = n /\ n <= Len(us)
      BY <1>1
    <3>2. f[n] = g[n]
      BY <2>4, <3>1
    <3>3. QED
      BY <3>1, <3>2, <2>2, <1>6
  <2> HIDE DEF T
  <2>5. \A n \in Nat : n \in T
    BY <2>3, <2>4, Induction
  <2>6. QED
    BY <2>5, <1>1 DEF T
<1>11. Lines(us) = g[Len(us)]
  BY <1>1, <1>9, <1>10
<1>12. QED
  BY <1>5, <1>6, <1>11

(* Prefixes, element by element.                                           *)
LEMMA PrefixMeans ==
    ASSUME NEW S, NEW s \in Seq(S), NEW t \in Seq(S)
    PROVE  IsPrefix(s, t) <=> Len(s) <= Len(t) /\ \A i \in 1 .. Len(s) : s[i] = t[i]
<1>1. Len(s) \in Nat /\ Len(t) \in Nat
  OBVIOUS
<1>2. SubSeq(s, 1, Len(s)) = s
  BY SubSeqFull
<1>3. ASSUME Len(s) <= Len(t)
      PROVE  s = SubSeq(t, 1, Len(s)) <=> \A i \in 1 .. Len(s) : s[i] = t[i]
  <2> DEFINE u == SubSeq(t, 1, Len(s))
  <2>1. \A i \in 1 .. Len(s) : t[i] \in S
    BY <1>1, <1>3, ElementOfSeq
  <2>2. u \in Seq(S) /\ Len(u) = Len(s) /\ \A i \in 1 .. Len(s) : u[i] = t[i]
    BY <1>1, <2>1, SubSeqProperties
  <2> HIDE DEF u
  <2>3. (\A i \in 1 .. Len(s) : s[i] = u[i]) => s = u
    BY <2>2, SeqEqual
  <2>4. s = u <=> \A i \in 1 .. Len(s) : s[i] = t[i]
    BY <2>2, <2>3
  <2>5. QED
    BY <2>4 DEF u
<1>4. QED
  BY <1>2, <1>3 DEF IsPrefix

LEMMA PrefixAppend ==
    ASSUME NEW S, NEW s \in Seq(S), NEW t \in Seq(S), NEW e \in S, IsPrefix(s, t)
    PROVE  IsPrefix(s, Append(t, e))
<1>1. /\ Append(t, e) \in Seq(S) /\ Len(Append(t, e)) = Len(t) + 1
      /\ \A i \in 1 .. Len(t) : Append(t, e)[i] = t[i]
  BY AppendProperties
<1>2. Len(s) <= Len(t) /\ \A i \in 1 .. Len(s) : s[i] = t[i]
  BY PrefixMeans
<1>3. Len(s) \in Nat /\ Len(t) \in Nat
  OBVIOUS
<1>4. Len(s) <= Len(Append(t, e)) /\ \A i \in 1 .. Len(s) : s[i] = Append(t, e)[i]
  BY <1>1, <1>2, <1>3
<1>5. QED
  BY <1>1, <1>4, PrefixMeans

(* One unit more: a line more, or none.                                    *)
LEMMA LinesType ==
    ASSUME NEW us \in Seq(UnitSet)
    PROVE  Lines(us) \in Seq(Recorded)
<1>1. PICK g \in [0 .. Len(us) -> Seq(Recorded)] : Lines(us) = g[Len(us)]
  BY LinesUnroll
<1>2. QED
  BY <1>1

LEMMA LinesEmpty == Lines(<< >>) = << >>
<1>1. << >> \in Seq(UnitSet) /\ Len(<< >>) = 0
  BY EmptySeq
<1>2. \A us \in Seq(UnitSet) : \E g \in [0 .. Len(us) -> Seq(Recorded)] :
             g[0] = << >> /\ Lines(us) = g[Len(us)]
  BY LinesUnroll
<1>3. QED
  BY <1>1, <1>2

LEMMA LinesAppend ==
    ASSUME NEW us \in Seq(UnitSet), NEW u \in UnitSet
    PROVE  LET ext == Append(us, u) IN Lines(ext) = LineStep(ext, Len(us) + 1, Lines(us))
<1> DEFINE ext == Append(us, u)
<1>1. /\ ext \in Seq(UnitSet) /\ Len(ext) = Len(us) + 1 /\ Len(us) \in Nat
      /\ \A n \in 1 .. Len(us) : ext[n] = us[n]
  BY AppendProperties
<1> HIDE DEF ext
<1>2. PICK g \in [0 .. Len(us) -> Seq(Recorded)] :
             /\ g[0] = << >> /\ Lines(us) = g[Len(us)]
             /\ \A n \in 1 .. Len(us) : g[n] = LineStep(us, n, g[n - 1])
  BY LinesUnroll
<1>3. PICK h \in [0 .. Len(ext) -> Seq(Recorded)] :
             /\ h[0] = << >> /\ Lines(ext) = h[Len(ext)]
             /\ \A n \in 1 .. Len(ext) : h[n] = LineStep(ext, n, h[n - 1])
  BY <1>1, LinesUnroll
<1>4. ASSUME NEW n \in 1 .. Len(us), NEW s PROVE LineStep(ext, n, s) = LineStep(us, n, s)
  <2>1. Parts \in Nat \ {0, 1}
    BY SinksAssumption
  <2>2. ext[n] = us[n]
    BY <1>1
  <2>3. ASSUME n >= Parts, n # Parts PROVE ext[n - Parts] = us[n - Parts]
    <3>1. n - Parts \in 1 .. Len(us)
      BY <1>1, <2>1, <2>3
    <3>2. QED
      BY <1>1, <3>1
  <2>4. ASSUME n >= Parts, NEW j \in 1 .. Parts PROVE ext[n - Parts + j] = us[n - Parts + j]
    <3>1. n - Parts + j \in 1 .. Len(us)
      BY <1>1, <2>1, <2>4
    <3>2. QED
      BY <3>1, <1>1
  <2>5. WholeLine(ext, n) <=> WholeLine(us, n)
    BY <2>2, <2>3, <2>4 DEF WholeLine, EndsLine
  <2>6. QED
    BY <2>2, <2>5 DEF LineStep
<1>5. \A n \in 0 .. Len(us) : g[n] = h[n]
  <2> DEFINE T == {n \in Nat : n <= Len(us) => g[n] = h[n]}
  <2>1. 0 \in T
    BY <1>2, <1>3
  <2>2. ASSUME NEW n \in Nat, n \in T PROVE n + 1 \in T
    <3> SUFFICES ASSUME n + 1 <= Len(us) PROVE g[n + 1] = h[n + 1]
      BY DEF T
    <3>1. n + 1 \in 1 .. Len(us) /\ n + 1 \in 1 .. Len(ext) /\ (n + 1) - 1 = n /\ n <= Len(us)
      BY <1>1
    <3>2. g[n] = h[n]
      BY <2>2, <3>1
    <3>3. QED
      BY <3>1, <3>2, <1>2, <1>3, <1>4
  <2> HIDE DEF T
  <2>3. \A n \in Nat : n \in T
    BY <2>1, <2>2, Induction
  <2>4. QED
    BY <2>3, <1>1 DEF T
<1>6. /\ Len(us) \in 0 .. Len(us) /\ Len(ext) \in 1 .. Len(ext) /\ Len(ext) - 1 = Len(us)
  BY <1>1
<1>7. Lines(ext) = LineStep(ext, Len(us) + 1, Lines(us))
  BY <1>1, <1>2, <1>3, <1>5, <1>6
<1>8. QED
  BY <1>7 DEF ext

(* One sequence behind another, under a name of its own: the provers are   *)
(* slow at seeing through nested concatenations.                           *)
Joined(a, b) == a \o b

LEMMA JoinedOver ==
    ASSUME NEW S, NEW a \in Seq(S), NEW b \in Seq(S), NEW c \in Seq(S)
    PROVE  Joined(Joined(a, b), c) = Joined(a, Joined(b, c))
BY ConcatAssociative, SMTT(30) DEF Joined

(* The part of a text that is sent so far grows at its end.                *)
LEMMA SentAppend ==
    ASSUME NEW S, NEW us \in Seq(S), NEW more \in Seq(S), NEW n \in Nat, n + 1 <= Len(more)
    PROVE  /\ us \o SubSeq(more, 1, n) \in Seq(S) /\ more[n + 1] \in S
           /\ Len(us \o SubSeq(more, 1, n)) = Len(us) + n
           /\ us \o SubSeq(more, 1, n + 1) = Append(us \o SubSeq(more, 1, n), more[n + 1])
<1> DEFINE a == SubSeq(more, 1, n)
           b == <<more[n + 1]>>
<1>1. Len(more) \in Nat /\ n + 1 \in 1 .. Len(more) /\ 1 \in 1 .. Len(more) /\ (n + 1) - 1 = n
  OBVIOUS
<1>2. more[n + 1] \in S /\ \A i \in 1 .. n : more[i] \in S
  BY <1>1, ElementOfSeq
<1>3. a \in Seq(S) /\ b \in Seq(S) /\ Len(a) = n
  BY <1>2, SubSeqProperties
<1>4. SubSeq(more, 1, n + 1) = a \o b
  BY <1>1, SubSeqRecursiveSecond, n + 1 \in 1 .. Len(more)
<1> HIDE DEF a, b
<1>5. us \o a \in Seq(S) /\ Len(us \o a) = Len(us) + n
  BY <1>3, ConcatProperties
<1>6. (us \o a) \o b = us \o (a \o b)
  <2>1. Joined(Joined(us, a), b) = Joined(us, Joined(a, b))
    BY <1>3, JoinedOver
  <2>2. QED
    BY <2>1, Zenon DEF Joined
<1>7. Append(us \o a, more[n + 1]) = (us \o a) \o b
  BY <1>2, <1>5, AppendIsConcat DEF b
<1>8. QED
  BY <1>2, <1>4, <1>5, <1>6, <1>7 DEF a

(* What is read of the beginning of a file stays when the file grows.      *)
LEMMA LinesGrow ==
    ASSUME NEW us \in Seq(UnitSet), NEW more \in Seq(UnitSet)
    PROVE  /\ us \o more \in Seq(UnitSet)
           /\ IsPrefix(Lines(us), Lines(us \o more))
<1> DEFINE part(n) == us \o SubSeq(more, 1, n)
           T == {n \in Nat : n <= Len(more) => IsPrefix(Lines(us), Lines(part(n)))}
<1>1. Len(more) \in Nat /\ Lines(us) \in Seq(Recorded)
  BY LinesType
<1>2. ASSUME NEW n \in Nat, n <= Len(more) PROVE part(n) \in Seq(UnitSet)
  <2>1. \A i \in 1 .. n : more[i] \in UnitSet
    BY <1>1, <1>2, ElementOfSeq
  <2>2. SubSeq(more, 1, n) \in Seq(UnitSet)
    BY <2>1, SubSeqProperties
  <2>3. QED
    BY <2>2, ConcatProperties
<1>3. 0 \in T
  <2>1. SubSeq(more, 1, 0) = << >>
    BY SubSeqEmpty
  <2>2. part(0) = us
    BY <2>1, ConcatEmptySeq
  <2>3. Len(Lines(us)) <= Len(Lines(us))
    BY <1>1
  <2>4. IsPrefix(Lines(us), Lines(us))
    BY <2>3 DEF IsPrefix
  <2> HIDE DEF part
  <2>5. QED
    BY <2>2, <2>4
<1>4. ASSUME NEW n \in Nat, n \in T PROVE n + 1 \in T
  <2> SUFFICES ASSUME n + 1 <= Len(more) PROVE IsPrefix(Lines(us), Lines(part(n + 1)))
    OBVIOUS
  <2>1. n + 1 \in 1 .. Len(more) /\ n <= Len(more) /\ (n + 1) - 1 = n
    BY <1>1
  <2>2. part(n) \in Seq(UnitSet) /\ more[n + 1] \in UnitSet
    BY <1>2, <2>1, ElementOfSeq
  <2>3. part(n + 1) = Append(part(n), more[n + 1])
    BY <2>1, SentAppend
  <2> HIDE DEF part
  <2>4. Lines(part(n)) \in Seq(Recorded) /\ IsPrefix(Lines(us), Lines(part(n)))
    BY <2>1, <2>2, <1>4, LinesType
  <2>5. LET ext == Append(part(n), more[n + 1]) IN
          Lines(ext) = LineStep(ext, Len(part(n)) + 1, Lines(part(n)))
    BY <2>2, LinesAppend
  <2>6. \/ Lines(part(n + 1)) = Lines(part(n))
        \/ \E r : Lines(part(n + 1)) = Append(Lines(part(n)), r) /\ r \in Recorded
    <3> DEFINE ext == Append(part(n), more[n + 1])
    <3>1. ext \in Seq(UnitSet) /\ Len(part(n)) + 1 \in 1 .. Len(ext)
      BY <2>2, AppendProperties
    <3>2. ext[Len(part(n)) + 1][1] # 0 => ext[Len(part(n)) + 1][1] \in Recorded
      BY <3>1, UnitsAre
    <3>3. QED
      BY <2>3, <2>5, <3>2 DEF LineStep
  <2>7. CASE Lines(part(n + 1)) = Lines(part(n))
    BY <2>7, <2>4
  <2>8. ASSUME NEW r \in Recorded, Lines(part(n + 1)) = Append(Lines(part(n)), r)
        PROVE  IsPrefix(Lines(us), Lines(part(n + 1)))
    BY <2>8, <2>4, <1>1, PrefixAppend
  <2>9. QED
    BY <2>6, <2>7, <2>8
<1> HIDE DEF T
<1>5. Len(more) \in T
  BY <1>1, <1>3, <1>4, Induction
<1>6. SubSeq(more, 1, Len(more)) = more
  BY SubSeqFull
<1>7. part(Len(more)) = us \o more
  BY <1>6
<1>8. part(Len(more)) \in Seq(UnitSet)
  BY <1>1, <1>2
<1> HIDE DEF part
<1>9. IsPrefix(Lines(us), Lines(part(Len(more))))
  BY <1>1, <1>5 DEF T
<1>10. QED
  BY <1>7, <1>8, <1>9

-----------------------------------------------------------------------------
(* A line reaches a file unit by unit.  Only its last unit makes a         *)
(* difference to the reader, and only if the line began on its own.        *)
Clean(us) == us = << >> \/ EndsLine(us, Len(us))

LEMMA UnitsType ==
    ASSUME NEW r \in 0 .. MaxRecords
    PROVE  /\ Units(r) \in Seq(UnitSet) /\ Len(Units(r)) = Parts
           /\ \A i \in 1 .. Parts : Units(r)[i] = <<r, i>>
<1>1. Parts \in Nat
  BY SinksAssumption
<1>2. \A i \in 1 .. Parts : <<r, i>> \in UnitSet
  BY Zenon DEF UnitSet
<1>3. QED
  BY <1>1, <1>2 DEF Units, Unit

LEMMA PieceRead ==
    ASSUME NEW us \in Seq(UnitSet), NEW r \in 0 .. MaxRecords, NEW n \in Nat, n < Parts
    PROVE  LET sent == us \o SubSeq(Units(r), 1, n) IN
             /\ sent \in Seq(UnitSet) /\ Len(sent) = Len(us) + n
             /\ Lines(sent) = Lines(us)
             /\ n = 0 => sent = us
             /\ n > 0 => ~Clean(sent)
<1> DEFINE sent(k) == us \o SubSeq(Units(r), 1, k)
           T == {k \in Nat : k < Parts => Lines(sent(k)) = Lines(us)}
<1>1. /\ Parts \in Nat /\ Units(r) \in Seq(UnitSet) /\ Len(Units(r)) = Parts
      /\ \A i \in 1 .. Parts : Units(r)[i] = <<r, i>>
  BY UnitsType, SinksAssumption
<1>2. ASSUME NEW k \in Nat, k + 1 <= Parts
      PROVE  /\ sent(k) \in Seq(UnitSet) /\ Len(sent(k)) = Len(us) + k
             /\ sent(k + 1) = Append(sent(k), <<r, k + 1>>) /\ <<r, k + 1>> \in UnitSet
  <2>1. k + 1 \in 1 .. Parts
    BY <1>1, <1>2
  <2>2. Units(r)[k + 1] = <<r, k + 1>>
    BY <1>1, <2>1
  <2> DEFINE line == Units(r)
  <2>3. line \in Seq(UnitSet) /\ k + 1 <= Len(line)
    BY <1>1, <1>2
  <2> HIDE DEF line
  <2>4. /\ us \o SubSeq(line, 1, k) \in Seq(UnitSet) /\ line[k + 1] \in UnitSet
        /\ Len(us \o SubSeq(line, 1, k)) = Len(us) + k
        /\ us \o SubSeq(line, 1, k + 1) = Append(us \o SubSeq(line, 1, k), line[k + 1])
    BY <2>3, SentAppend
  <2>5. QED
    BY <2>2, <2>4 DEF line
<1>3. sent(0) = us
  BY SubSeqEmpty, ConcatEmptySeq
<1> HIDE DEF sent
<1>4. 0 \in T
  BY <1>3
<1>5. ASSUME NEW k \in Nat, k \in T PROVE k + 1 \in T
  <2> SUFFICES ASSUME k + 1 < Parts PROVE Lines(sent(k + 1)) = Lines(us)
    OBVIOUS
  <2>1. k < Parts /\ k + 1 <= Parts
    BY <1>1
  <2>2. /\ sent(k) \in Seq(UnitSet) /\ <<r, k + 1>> \in UnitSet
        /\ sent(k + 1) = Append(sent(k), <<r, k + 1>>)
    BY <1>2, <2>1
  <2> DEFINE ext == Append(sent(k), <<r, k + 1>>)
  <2>3. ext[Len(sent(k)) + 1] = <<r, k + 1>>
    BY <2>2, AppendProperties
  <2>4. ~WholeLine(ext, Len(sent(k)) + 1)
    BY <2>3, <1>1 DEF WholeLine, EndsLine
  <2>5. Lines(ext) = Lines(sent(k))
    BY <2>2, <2>4, LinesAppend DEF LineStep
  <2> HIDE DEF ext
  <2>6. QED
    BY <2>1, <2>2, <2>5, <1>5 DEF ext
<1> HIDE DEF T
<1>6. n \in T
  BY <1>4, <1>5, Induction
<1>7. Lines(sent(n)) = Lines(us)
  BY <1>6 DEF T
<1>8. sent(n) \in Seq(UnitSet) /\ Len(sent(n)) = Len(us) + n
  <2>1. n + 1 <= Parts
    BY <1>1
  <2>2. QED
    BY <2>1, <1>2
<1>9. ASSUME n > 0 PROVE ~Clean(sent(n))
  <2>1. n - 1 \in Nat /\ (n - 1) + 1 = n /\ (n - 1) + 1 <= Parts
    BY <1>1, <1>9
  <2>2. /\ sent(n - 1) \in Seq(UnitSet) /\ <<r, n>> \in UnitSet
        /\ sent(n) = Append(sent(n - 1), <<r, n>>)
    BY <1>2, <2>1
  <2>3. sent(n) # << >> /\ sent(n)[Len(sent(n))] = <<r, n>>
    BY <2>2, AppendProperties
  <2>4. QED
    BY <2>3, <1>1 DEF Clean, EndsLine
<1>10. QED
  BY <1>3, <1>7, <1>8, <1>9 DEF sent

LEMMA LineRead ==
    ASSUME NEW us \in Seq(UnitSet), NEW r \in 0 .. MaxRecords
    PROVE  LET sent == us \o Units(r) IN
             /\ sent \in Seq(UnitSet) /\ Clean(sent)
             /\ Lines(sent) = IF Clean(us) /\ r # 0 THEN Append(Lines(us), r) ELSE Lines(us)
<1> DEFINE most == us \o SubSeq(Units(r), 1, Parts - 1)
           sent == us \o Units(r)
<1>1. /\ Parts \in Nat /\ Parts - 1 \in Nat /\ Parts - 1 < Parts /\ (Parts - 1) + 1 = Parts
      /\ Parts \in 1 .. Parts
      /\ Units(r) \in Seq(UnitSet) /\ Len(Units(r)) = Parts
      /\ \A i \in 1 .. Parts : Units(r)[i] = <<r, i>>
  BY UnitsType, SinksAssumption
<1>2. most \in Seq(UnitSet) /\ Len(most) = Len(us) + (Parts - 1) /\ Lines(most) = Lines(us)
  BY <1>1, PieceRead
<1>3. sent = Append(most, <<r, Parts>>) /\ <<r, Parts>> \in UnitSet
  <2>1. SubSeq(Units(r), 1, Parts) = Units(r)
    BY <1>1, SubSeqFull
  <2>2. /\ us \o SubSeq(Units(r), 1, (Parts - 1) + 1) = Append(most, Units(r)[(Parts - 1) + 1])
        /\ Units(r)[(Parts - 1) + 1] \in UnitSet
    BY <1>1, SentAppend
  <2>3. QED
    BY <2>1, <2>2, <1>1
<1>4. /\ sent \in Seq(UnitSet) /\ Len(sent) = Len(us) + Parts /\ Len(us) \in Nat
      /\ \A j \in 1 .. Parts : sent[Len(us) + j] = <<r, j>>
      /\ \A i \in 1 .. Len(us) : sent[i] = us[i]
  <2>1. Len(us) \in Nat
    OBVIOUS
  <2>2. /\ sent \in Seq(UnitSet) /\ Len(sent) = Len(us) + Parts
        /\ \A i \in 1 .. Len(us) + Parts :
             sent[i] = IF i <= Len(us) THEN us[i] ELSE Units(r)[i - Len(us)]
    BY <1>1, ConcatProperties
  <2> HIDE DEF sent
  <2>3. ASSUME NEW j \in 1 .. Parts PROVE sent[Len(us) + j] = <<r, j>>
    <3>1. /\ Len(us) + j \in 1 .. Len(us) + Parts /\ ~(Len(us) + j <= Len(us))
          /\ (Len(us) + j) - Len(us) = j
      BY <1>1, <2>1
    <3>2. QED
      BY <2>2, <3>1, <1>1
  <2>4. ASSUME NEW i \in 1 .. Len(us) PROVE sent[i] = us[i]
    <3>1. i \in 1 .. Len(us) + Parts /\ i <= Len(us)
      BY <1>1, <2>1
    <3>2. QED
      BY <3>1, <2>2
  <2>5. QED
    BY <2>1, <2>2, <2>3, <2>4
<1> HIDE DEF most, sent
<1>5. Lines(sent) = LineStep(sent, Len(sent), Lines(us))
  BY <1>1, <1>2, <1>3, <1>4, LinesAppend
<1>6. sent[Len(sent)] = <<r, Parts>>
  BY <1>1, <1>4
<1>7. Len(sent) >= Parts /\ (Len(sent) = Parts <=> us = << >>) /\ Len(sent) - Parts = Len(us)
  BY <1>1, <1>4
<1>8. us # << >> => sent[Len(us)] = us[Len(us)]
  BY <1>4
<1>9. WholeLine(sent, Len(sent)) <=> Clean(us)
  <2>1. EndsLine(sent, Len(sent))
    BY <1>6 DEF EndsLine
  <2>2. us # << >> => (EndsLine(sent, Len(sent) - Parts) <=> EndsLine(us, Len(us)))
    BY <1>7, <1>8 DEF EndsLine
  <2>3. \A j \in 1 .. Parts : sent[Len(sent) - Parts + j] = Unit(sent[Len(sent)][1], j)
    <3>1. Len(sent) - Parts = Len(us) /\ sent[Len(sent)][1] = r
      BY <1>6, <1>7
    <3>2. \A j \in 1 .. Parts : sent[Len(us) + j] = Unit(r, j)
      BY <1>4 DEF Unit
    <3>3. QED
      BY <3>1, <3>2
  <2>4. Len(sent) = Parts \/ EndsLine(sent, Len(sent) - Parts) <=> Clean(us)
    BY <1>7, <2>2, Zenon DEF Clean
  <2>5. QED
    BY <1>7, <2>1, <2>3, <2>4 DEF WholeLine
<1>10. Clean(sent)
  BY <1>6 DEF Clean, EndsLine
<1>11. QED
  BY <1>4, <1>5, <1>6, <1>9, <1>10 DEF LineStep, sent

(* The last element of a concatenation.                                    *)
LEMMA AppendLater ==
    ASSUME NEW S, NEW s \in Seq(S), NEW t \in Seq(S), NEW e \in S
    PROVE  s \o Append(t, e) = Append(s \o t, e)
<1>1. <<e>> \in Seq(S) /\ Append(t, e) = t \o <<e>>
  BY AppendIsConcat
<1>2. s \o t \in Seq(S)
  BY ConcatProperties
<1>3. Append(s \o t, e) = (s \o t) \o <<e>>
  BY <1>2, AppendIsConcat
<1> DEFINE one == <<e>>
<1> HIDE DEF one
<1>4. one \in Seq(S)
  BY <1>1 DEF one
<1>5. (s \o t) \o one = s \o (t \o one)
  <2>1. Joined(Joined(s, t), one) = Joined(s, Joined(t, one))
    BY <1>4, JoinedOver
  <2>2. QED
    BY <2>1, Zenon DEF Joined
<1>6. QED
  BY <1>1, <1>3, <1>5 DEF one

-----------------------------------------------------------------------------
(* The line writers.  What was sent is what is on disk and in the buffer.  *)
Writers == [buf : Seq(Held), group : Seq(Held), file : Seq(Held), failed : BOOLEAN]

Sent(w) == w.file \o w.buf

Grown(old, new) == \E more \in Seq(Held) : new = old \o more

LEMMA GrownSame ==
    ASSUME NEW s \in Seq(Held) PROVE Grown(s, s)
<1>1. << >> \in Seq(Held) /\ s = s \o << >>
  BY EmptySeq, ConcatEmptySeq
<1>2. QED
  BY <1>1 DEF Grown

LEMMA GrownTwice ==
    ASSUME NEW s \in Seq(Held), NEW t, NEW u, Grown(s, t), Grown(t, u)
    PROVE  Grown(s, u)
<1>1. PICK a \in Seq(Held) : t = s \o a
  BY DEF Grown
<1>2. PICK b \in Seq(Held) : u = t \o b
  BY DEF Grown
<1>3. a \o b \in Seq(Held)
  BY ConcatProperties
<1>4. (s \o a) \o b = s \o (a \o b)
  <2>1. Joined(Joined(s, a), b) = Joined(s, Joined(a, b))
    BY JoinedOver
  <2>2. QED
    BY <2>1, Zenon DEF Joined
<1>5. u = s \o (a \o b)
  BY <1>1, <1>2, <1>4, Zenon
<1>6. QED
  BY <1>3, <1>5 DEF Grown

(* A writer's buffer cut in two.                                           *)
LEMMA CutInTwo ==
    ASSUME NEW S, NEW s \in Seq(S), NEW n \in 0 .. Len(s)
    PROVE  /\ SubSeq(s, 1, n) \in Seq(S) /\ SubSeq(s, n + 1, Len(s)) \in Seq(S)
           /\ Len(SubSeq(s, n + 1, Len(s))) = Len(s) - n
           /\ SubSeq(s, 1, n) \o SubSeq(s, n + 1, Len(s)) = s
<1>1. Len(s) \in Nat /\ \A i \in 1 .. Len(s) : s[i] \in S
  BY ElementOfSeq
<1>2. (\A i \in 1 .. n : s[i] \in S) /\ (\A i \in n + 1 .. Len(s) : s[i] \in S)
  BY <1>1
<1>3. /\ SubSeq(s, 1, n) \in Seq(S) /\ SubSeq(s, n + 1, Len(s)) \in Seq(S)
      /\ Len(SubSeq(s, n + 1, Len(s))) = IF n + 1 <= Len(s) THEN Len(s) - (n + 1) + 1 ELSE 0
  BY <1>1, <1>2, SubSeqProperties
<1>4. SubSeq(s, 1, n) \o SubSeq(s, n + 1, Len(s)) = SubSeq(s, 1, Len(s))
  BY <1>1, ConcatAdjacentSubSeq, 1 \in 1 .. Len(s) + 1, n \in 1 - 1 .. Len(s), Len(s) \in n .. Len(s)
<1>5. SubSeq(s, 1, Len(s)) = s
  BY SubSeqFull
<1>6. Len(SubSeq(s, n + 1, Len(s))) = Len(s) - n
  BY <1>1, <1>3
<1>7. QED
  BY <1>3, <1>4, <1>5, <1>6

LEMMA SpillEnds ==
    ASSUME NEW w \in Writers, ~w.failed, NEW x \in Spill(w)
    PROVE  /\ x \in Writers /\ x.group = w.group
           /\ Len(x.buf) <= Len(w.buf) /\ Grown(w.file, x.file)
           /\ ~x.failed => x.buf = << >> /\ x.file = Sent(w)
           /\ x.failed => w.buf # << >>
           /\ x.failed /\ backend = "jsonl" => Sent(x) = Sent(w)
<1>1. /\ w.buf \in Seq(Held) /\ w.group \in Seq(Held) /\ w.file \in Seq(Held)
      /\ w = [buf |-> w.buf, group |-> w.group, file |-> w.file, failed |-> w.failed]
      /\ Len(w.buf) \in Nat
  BY DEF Writers
<1>2. CASE x = [w EXCEPT !.file = @ \o w.buf, !.buf = << >>]
  <2>1. x = [buf |-> << >>, group |-> w.group, file |-> w.file \o w.buf, failed |-> w.failed]
    BY <1>1, <1>2
  <2>2. w.file \o w.buf \in Seq(Held) /\ << >> \in Seq(Held) /\ Len(<< >>) = 0
    BY <1>1, ConcatProperties, EmptySeq
  <2>3. Grown(w.file, w.file \o w.buf)
    BY <1>1 DEF Grown
  <2>4. x \in Writers
    BY <1>1, <2>1, <2>2 DEF Writers
  <2>5. QED
    BY <1>1, <2>1, <2>2, <2>3, <2>4 DEF Sent
<1>3. CASE x \in SpillFails(w)
  <2>1. PICK n \in 0 .. (Len(w.buf) - 1) :
               x = [w EXCEPT !.file = @ \o SubSeq(w.buf, 1, n),
                             !.buf = IF backend = "csv" THEN @ ELSE SubSeq(@, n + 1, Len(@)),
                             !.failed = TRUE]
    BY <1>3 DEF SpillFails
  <2> DEFINE head == SubSeq(w.buf, 1, n)
             rest == SubSeq(w.buf, n + 1, Len(w.buf))
  <2>2. /\ head \in Seq(Held) /\ rest \in Seq(Held) /\ Len(rest) = Len(w.buf) - n
        /\ head \o rest = w.buf
    BY <1>1, CutInTwo, n \in 0 .. Len(w.buf)
  <2> HIDE DEF head, rest
  <2>3. x = [buf |-> IF backend = "csv" THEN w.buf ELSE rest, group |-> w.group,
             file |-> w.file \o head, failed |-> TRUE]
    BY <1>1, <2>1 DEF head, rest
  <2>4. w.file \o head \in Seq(Held)
    BY <1>1, <2>2, ConcatProperties
  <2>5. Grown(w.file, w.file \o head)
    BY <2>2 DEF Grown
  <2>6. (w.file \o head) \o rest = w.file \o (head \o rest)
    <3> DEFINE old == w.file
    <3>1. old \in Seq(Held) /\ head \in Seq(Held) /\ rest \in Seq(Held)
      BY <1>1, <2>2
    <3> HIDE DEF old
    <3>2. (old \o head) \o rest = old \o (head \o rest)
      <4>1. Joined(Joined(old, head), rest) = Joined(old, Joined(head, rest))
        BY <3>1, JoinedOver
      <4>2. QED
        BY <4>1, Zenon DEF Joined
    <3>3. QED
      BY <3>2 DEF old
  <2>7. (w.file \o head) \o rest = w.file \o w.buf
    BY <2>2, <2>6
  <2>8. x \in Writers
    BY <1>1, <2>2, <2>3, <2>4 DEF Writers
  <2>9. Len(x.buf) <= Len(w.buf)
    BY <1>1, <2>2, <2>3
  <2>10. w.buf # << >>
    BY <1>1, EmptySeq
  <2>11. backend = "jsonl" => Sent(x) = Sent(w)
    BY <2>3, <2>7 DEF Sent
  <2>12. QED
    BY <2>3, <2>5, <2>8, <2>9, <2>10, <2>11
<1>4. QED
  BY <1>2, <1>3 DEF Spill

LEMMA WithBuffer ==
    ASSUME NEW w \in Writers, NEW b, NEW v, v = [w EXCEPT !.buf = b]
    PROVE  v = [buf |-> b, group |-> w.group, file |-> w.file, failed |-> w.failed]
<1>1. w = [buf |-> w.buf, group |-> w.group, file |-> w.file, failed |-> w.failed]
  BY DEF Writers
<1>2. QED
  BY <1>1

LEMMA PutUnitEnds ==
    ASSUME NEW w \in Writers, NEW u \in Held, NEW x \in PutUnit(w, u)
    PROVE  /\ x \in Writers
           /\ w.failed => x = w
           /\ ~w.failed =>
                /\ x.group = w.group /\ Grown(w.file, x.file)
                /\ Len(w.buf) <= Cap + Parts => Len(x.buf) <= Cap + Parts
                /\ ~x.failed => Sent(x) = Append(Sent(w), u)
                /\ x.failed /\ backend = "jsonl" => Sent(x) = Sent(w)
<1>1. /\ w.buf \in Seq(Held) /\ w.group \in Seq(Held) /\ w.file \in Seq(Held)
      /\ w = [buf |-> w.buf, group |-> w.group, file |-> w.file, failed |-> w.failed]
      /\ Len(w.buf) \in Nat /\ w.failed \in BOOLEAN
      /\ Cap \in Nat /\ Cap >= 1 /\ Parts \in Nat
  BY SinksAssumption DEF Writers
<1>2. CASE w.failed
  <2>1. x = w
    <3>1. PutUnit(w, u) = {w}
      BY <1>2, Zenon DEF PutUnit
    <3>2. QED
      BY <3>1
  <2>2. QED
    BY <1>2, <2>1
<1>3. CASE ~w.failed /\ Len(w.buf) < Cap
  <2>1. x = [w EXCEPT !.buf = Append(w.buf, u)]
    BY <1>3 DEF PutUnit
  <2>2. x = [buf |-> Append(w.buf, u), group |-> w.group, file |-> w.file, failed |-> w.failed]
    BY <2>1, WithBuffer, Zenon
  <2>3. Append(w.buf, u) \in Seq(Held) /\ Len(Append(w.buf, u)) = Len(w.buf) + 1
    BY <1>1, AppendProperties
  <2>4. x \in Writers
    BY <1>1, <2>2, <2>3 DEF Writers
  <2>5. w.file \o Append(w.buf, u) = Append(w.file \o w.buf, u)
    BY <1>1, AppendLater, SMTT(30)
  <2>6. Grown(w.file, w.file)
    BY <1>1, GrownSame
  <2>7. Len(w.buf) < Cap => Len(x.buf) <= Cap + Parts
    BY <1>1, <2>2, <2>3
  <2>8. Sent(x) = Append(Sent(w), u)
    BY <2>2, <2>5, Zenon DEF Sent
  <2>9. QED
    BY <1>3, <2>2, <2>4, <2>6, <2>7, <2>8
<1>4. CASE ~w.failed /\ ~(Len(w.buf) < Cap)
  <2>1. PICK y \in Spill(w) : x = IF y.failed THEN y ELSE [y EXCEPT !.buf = Append(@, u)]
    BY <1>4 DEF PutUnit
  <2>2. /\ y \in Writers /\ y.group = w.group
        /\ Len(y.buf) <= Len(w.buf) /\ Grown(w.file, y.file)
        /\ ~y.failed => y.buf = << >> /\ y.file = Sent(w)
        /\ y.failed /\ backend = "jsonl" => Sent(y) = Sent(w)
    BY <1>4, SpillEnds
  <2>3. CASE y.failed
    <3>1. Len(y.buf) \in Nat
      BY <2>2 DEF Writers
    <3>2. QED
      BY <1>1, <1>4, <2>1, <2>2, <2>3, <3>1
  <2>4. CASE ~y.failed
    <3>1. x = [buf |-> Append(<< >>, u), group |-> y.group, file |-> y.file, failed |-> y.failed]
      BY <2>1, <2>2, <2>4 DEF Writers
    <3>2. << >> \in Seq(Held) /\ Append(<< >>, u) \in Seq(Held) /\ Len(Append(<< >>, u)) = 1
      BY EmptySeq, AppendProperties
    <3>3. y.file \in Seq(Held) /\ y.group \in Seq(Held) /\ y.failed \in BOOLEAN
      BY <2>2 DEF Writers
    <3>4. x \in Writers
      BY <3>1, <3>2, <3>3 DEF Writers
    <3>5. Sent(x) = Append(y.file, u)
      <4>1. y.file \o Append(<< >>, u) = Append(y.file \o << >>, u)
        BY <3>2, <3>3, AppendLater
      <4>2. y.file \o << >> = y.file
        BY <3>3, ConcatEmptySeq
      <4>3. QED
        BY <3>1, <4>1, <4>2 DEF Sent
    <3>6. x.group = w.group /\ Grown(w.file, x.file) /\ x.failed = y.failed
      BY <2>2, <3>1
    <3>7. Len(x.buf) <= Cap + Parts
      BY <1>1, <3>1, <3>2
    <3>8. Sent(x) = Append(Sent(w), u)
      BY <2>2, <2>4, <3>5
    <3>9. QED
      BY <1>4, <2>4, <3>4, <3>6, <3>7, <3>8
  <2>5. QED
    BY <2>2, <2>3, <2>4 DEF Writers
<1>5. QED
  BY <1>1, <1>2, <1>3, <1>4

(* How far a line has come: whole, or cut short by a write that failed.    *)
Put(w, us, n, x) ==
    /\ x \in Writers /\ x.group = w.group /\ Grown(w.file, x.file)
    /\ Len(x.buf) <= Cap + Parts
    /\ ~x.failed => Sent(x) = Sent(w) \o SubSeq(us, 1, n)
    /\ x.failed /\ backend = "jsonl" =>
         \E m \in Nat : m < n /\ Sent(x) = Sent(w) \o SubSeq(us, 1, m)

LEMMA SentType ==
    ASSUME NEW w \in Writers PROVE Sent(w) \in Seq(Held)
<1>1. w.file \in Seq(Held) /\ w.buf \in Seq(Held)
  BY DEF Writers
<1>2. QED
  BY <1>1, ConcatProperties DEF Sent

LEMMA PutLineUnroll ==
    ASSUME NEW w \in Writers, NEW us \in Seq(Held)
    PROVE  \E g \in [0 .. Len(us) -> SUBSET Writers] :
             /\ g[0] = {w} /\ PutLine(w, us) = g[Len(us)]
             /\ \A n \in 1 .. Len(us) : g[n] = UNION {PutUnit(x, us[n]) : x \in g[n - 1]}
<1> DEFINE After(S, n) == UNION {PutUnit(x, us[n]) : x \in S}
           Run(f) == f = [n \in 0 .. Len(us) |-> IF n = 0 THEN {w} ELSE After(f[n - 1], n)]
           step == [p \in (SUBSET Writers) \X (1 .. Len(us)) |-> After(p[1], p[2])]
<1>1. Len(us) \in Nat /\ {w} \in SUBSET Writers
  OBVIOUS
<1>2. ASSUME NEW S \in SUBSET Writers, NEW n \in 1 .. Len(us)
      PROVE  After(S, n) \in SUBSET Writers
  <2>1. us[n] \in Held
    BY ElementOfSeq
  <2>2. ASSUME NEW x \in S, NEW y \in PutUnit(x, us[n]) PROVE y \in Writers
    BY <2>1, PutUnitEnds
  <2>3. QED
    BY <2>2
<1> HIDE DEF After
<1>3. step \in Stepping(SUBSET Writers, Len(us))
  BY <1>2 DEF Stepping
<1>4. PICK g : Unrolled(g, SUBSET Writers, {w}, Len(us), step)
  <2> HIDE DEF step
  <2>1. \A S, s, n, st : s \in S /\ n \in Nat /\ st \in Stepping(S, n)
                           => \E g : Unrolled(g, S, s, n, st)
    BY Recursion
  <2>2. QED
    BY <1>1, <1>3, <2>1, Zenon
<1>5. /\ g \in [0 .. Len(us) -> SUBSET Writers] /\ g[0] = {w}
      /\ \A n \in 1 .. Len(us) : g[n] = step[<<g[n - 1], n>>]
  BY <1>4 DEF Unrolled
<1>6. ASSUME NEW n \in 1 .. Len(us) PROVE g[n] = After(g[n - 1], n)
  <2>1. n - 1 \in 0 .. Len(us)
    BY <1>1
  <2>2. g[n - 1] \in SUBSET Writers
    BY <1>5, <2>1
  <2>3. <<g[n - 1], n>> \in (SUBSET Writers) \X (1 .. Len(us))
    BY <2>2
  <2>4. step[<<g[n - 1], n>>] = After(g[n - 1], n)
    BY <2>3
  <2>5. QED
    BY <1>5, <2>4
<1> HIDE DEF step
<1>7. Run(g)
  <2>1. g = [n \in 0 .. Len(us) |-> g[n]]
    BY <1>5
  <2>2. \A n \in 0 .. Len(us) : n = 0 \/ n \in 1 .. Len(us)
    BY <1>1
  <2>3. \A n \in 0 .. Len(us) : g[n] = IF n = 0 THEN {w} ELSE After(g[n - 1], n)
    BY <2>2, <1>5, <1>6
  <2>4. QED
    BY <2>1, <2>3
<1> DEFINE f == CHOOSE f : Run(f)
<1>8. Run(f)
  BY <1>7
<1>9. PutLine(w, us) = f[Len(us)]
  BY DEF PutLine, After
<1> HIDE DEF f
<1>10. \A n \in 0 .. Len(us) : f[n] = g[n]
  <2> DEFINE T == {n \in Nat : n <= Len(us) => f[n] = g[n]}
  <2>1. f[0] = {w}
    BY <1>1, <1>8
  <2>2. \A n \in 1 .. Len(us) : f[n] = After(f[n - 1], n)
    <3> TAKE n \in 1 .. Len(us)
    <3>1. n \in 0 .. Len(us) /\ n # 0
      BY <1>1
    <3>2. QED
      BY <3>1, <1>8
  <2> HIDE DEF Run
  <2>3. 0 \in T
    BY <2>1, <1>5
  <2>4. ASSUME NEW n \in Nat, n \in T PROVE n + 1 \in T
    <3> SUFFICES ASSUME n + 1 <= Len(us) PROVE f[n + 1] = g[n + 1]
      BY DEF T
    <3>1. n + 1 \in 1 .. Len(us) /\ (n + 1) - 1 = n /\ n <= Len(us)
      BY <1>1
    <3>2. f[n] = g[n]
      BY <2>4, <3>1
    <3>3. QED
      BY <3>1, <3>2, <2>2, <1>6
  <2> HIDE DEF T
  <2>5. \A n \in Nat : n \in T
    BY <2>3, <2>4, Induction
  <2>6. QED
    BY <2>5, <1>1 DEF T
<1>11. PutLine(w, us) = g[Len(us)]
  BY <1>1, <1>9, <1>10
<1>12. \A n \in 1 .. Len(us) : g[n] = UNION {PutUnit(x, us[n]) : x \in g[n - 1]}
  BY <1>6 DEF After
<1>13. QED
  BY <1>5, <1>11, <1>12

LEMMA PutLineEnds ==
    ASSUME NEW w \in Writers, ~w.failed, Len(w.buf) <= Cap + Parts,
           NEW us \in Seq(Held), NEW y \in PutLine(w, us)
    PROVE  Put(w, us, Len(us), y)
<1>1. PICK g \in [0 .. Len(us) -> SUBSET Writers] :
             /\ g[0] = {w} /\ PutLine(w, us) = g[Len(us)]
             /\ \A n \in 1 .. Len(us) : g[n] = UNION {PutUnit(x, us[n]) : x \in g[n - 1]}
  BY PutLineUnroll
<1>2. Len(us) \in Nat /\ Sent(w) \in Seq(Held)
  BY SentType
<1> DEFINE T == {n \in Nat : n <= Len(us) => \A x \in g[n] : Put(w, us, n, x)}
<1>3. 0 \in T
  <2>1. w.file \in Seq(Held)
    BY DEF Writers
  <2>2. Grown(w.file, w.file)
    BY <2>1, GrownSame
  <2>3. Sent(w) = Sent(w) \o SubSeq(us, 1, 0)
    <3>1. SubSeq(us, 1, 0) = << >>
      BY SubSeqEmpty
    <3>2. Sent(w) \o << >> = Sent(w)
      BY <1>2, ConcatEmptySeq, Zenon
    <3>3. QED
      BY <3>1, <3>2, Zenon
  <2>4. Put(w, us, 0, w)
    BY <2>2, <2>3 DEF Put
  <2>5. QED
    BY <1>1, <2>4
<1>4. ASSUME NEW n \in Nat, n \in T PROVE n + 1 \in T
  <2> SUFFICES ASSUME n + 1 <= Len(us), NEW x \in g[n + 1] PROVE Put(w, us, n + 1, x)
    BY DEF T
  <2>1. n + 1 \in 1 .. Len(us) /\ (n + 1) - 1 = n /\ n <= Len(us) /\ n \in 0 .. Len(us)
    BY <1>2
  <2>2. PICK v \in g[n] : x \in PutUnit(v, us[n + 1])
    <3>1. x \in UNION {PutUnit(v, us[n + 1]) : v \in g[n]}
      BY <1>1, <2>1
    <3>2. QED
      BY <3>1
  <2>3. Put(w, us, n, v) /\ v \in Writers
    BY <2>1, <2>2, <1>4 DEF Put
  <2>4. us[n + 1] \in Held
    BY <2>1, ElementOfSeq
  <2>5. /\ x \in Writers
        /\ v.failed => x = v
        /\ ~v.failed =>
             /\ x.group = v.group /\ Grown(v.file, x.file)
             /\ Len(v.buf) <= Cap + Parts => Len(x.buf) <= Cap + Parts
             /\ ~x.failed => Sent(x) = Append(Sent(v), us[n + 1])
             /\ x.failed /\ backend = "jsonl" => Sent(x) = Sent(v)
    BY <2>2, <2>3, <2>4, PutUnitEnds
  <2>6. CASE v.failed
    <3>1. x = v
      BY <2>5, <2>6
    <3>2. ASSUME NEW m \in Nat, m < n PROVE m < n + 1
      BY <3>2
    <3>3. QED
      BY <2>3, <2>6, <3>1, <3>2 DEF Put
  <2>7. CASE ~v.failed
    <3>1. Sent(v) = Sent(w) \o SubSeq(us, 1, n)
      BY <2>3, <2>7 DEF Put
    <3>2. Sent(w) \o SubSeq(us, 1, n + 1) = Append(Sent(w) \o SubSeq(us, 1, n), us[n + 1])
      BY <1>2, SentAppend
    <3>3. Grown(w.file, x.file)
      <4>1. w.file \in Seq(Held) /\ Grown(w.file, v.file) /\ Grown(v.file, x.file)
        BY <2>3, <2>5, <2>7 DEF Put, Writers
      <4>2. QED
        BY <4>1, GrownTwice
    <3>4. x.group = w.group /\ Len(x.buf) <= Cap + Parts
      BY <2>3, <2>5, <2>7 DEF Put
    <3>5. ~x.failed => Sent(x) = Sent(w) \o SubSeq(us, 1, n + 1)
      BY <2>5, <2>7, <3>1, <3>2
    <3>6. x.failed /\ backend = "jsonl" => Sent(x) = Sent(w) \o SubSeq(us, 1, n) /\ n < n + 1
      BY <2>5, <2>7, <3>1
    <3>7. QED
      BY <2>5, <3>3, <3>4, <3>5, <3>6 DEF Put
  <2>8. QED
    BY <2>6, <2>7
<1> HIDE DEF T
<1>5. \A n \in Nat : n \in T
  BY <1>3, <1>4, Induction
<1>6. QED
  BY <1>1, <1>2, <1>5 DEF T

-----------------------------------------------------------------------------
(* The Parquet writers.  Rows are on disk, in the open row group or in the *)
(* category's buffer, and move from right to left.                         *)
Rows(w) == w.file \o w.group \o w.buf

LEMMA RowsParts ==
    ASSUME NEW w \in Writers
    PROVE  /\ w.buf \in Seq(Held) /\ w.group \in Seq(Held) /\ w.file \in Seq(Held)
           /\ w = [buf |-> w.buf, group |-> w.group, file |-> w.file, failed |-> w.failed]
           /\ Len(w.buf) \in Nat /\ Len(w.group) \in Nat /\ w.failed \in BOOLEAN
           /\ w.file \o w.group \in Seq(Held) /\ Rows(w) \in Seq(Held)
<1>1. /\ w.buf \in Seq(Held) /\ w.group \in Seq(Held) /\ w.file \in Seq(Held)
      /\ w = [buf |-> w.buf, group |-> w.group, file |-> w.file, failed |-> w.failed]
      /\ w.failed \in BOOLEAN
  BY DEF Writers
<1>2. w.file \o w.group \in Seq(Held)
  BY <1>1, ConcatProperties
<1>3. Rows(w) \in Seq(Held)
  BY <1>1, <1>2, ConcatProperties DEF Rows
<1>4. QED
  BY <1>1, <1>2, <1>3

LEMMA WriterWith ==
    ASSUME NEW w \in Writers, NEW g, NEW b, NEW v, v = [w EXCEPT !.group = g, !.buf = b]
    PROVE  v = [buf |-> b, group |-> g, file |-> w.file, failed |-> w.failed]
<1>1. w = [buf |-> w.buf, group |-> w.group, file |-> w.file, failed |-> w.failed]
  BY RowsParts
<1>2. QED
  BY <1>1

LEMMA PutGroupEnds ==
    ASSUME NEW w \in Writers, ~w.failed, Len(w.group) < 2 * RowGroup,
           NEW broken \in BOOLEAN, NEW x \in PutGroup(w, broken)
    PROVE  /\ x \in Writers /\ x.buf = w.buf /\ Len(x.group) < RowGroup
           /\ ~x.failed => x.file \o x.group = w.file \o w.group
           /\ broken /\ ~x.failed => x.file = w.file
<1>1. RowGroup \in Nat /\ RowGroup >= 1
  BY SinksAssumption
<1>w. w = [buf |-> w.buf, group |-> w.group, file |-> w.file, failed |-> w.failed]
  BY RowsParts
<1>2. CASE x = w /\ Len(w.group) < RowGroup
  BY <1>2
<1>3. CASE /\ Len(w.group) >= RowGroup /\ ~broken
           /\ x = [w EXCEPT !.file = @ \o SubSeq(w.group, 1, RowGroup),
                            !.group = SubSeq(@, RowGroup + 1, Len(@))]
  <2> DEFINE old == w.file
             head == SubSeq(w.group, 1, RowGroup)
             rest == SubSeq(w.group, RowGroup + 1, Len(w.group))
  <2>1. w.group \in Seq(Held) /\ old \in Seq(Held) /\ w.buf \in Seq(Held) /\ Len(w.group) \in Nat
    BY RowsParts
  <2>2. RowGroup \in 0 .. Len(w.group)
    BY <1>1, <1>3, <2>1
  <2>3. /\ head \in Seq(Held) /\ rest \in Seq(Held) /\ Len(rest) = Len(w.group) - RowGroup
        /\ head \o rest = w.group
    BY <2>1, <2>2, CutInTwo
  <2>4. x = [buf |-> w.buf, group |-> rest, file |-> old \o head, failed |-> w.failed]
    BY <1>3, <1>w
  <2> HIDE DEF old, head, rest
  <2>5. old \o head \in Seq(Held)
    BY <2>1, <2>3, ConcatProperties
  <2>6. (old \o head) \o rest = old \o (head \o rest)
    <3>1. Joined(Joined(old, head), rest) = Joined(old, Joined(head, rest))
      BY <2>1, <2>3, JoinedOver
    <3>2. QED
      BY <3>1, Zenon DEF Joined
  <2>7. w.failed \in BOOLEAN
    BY RowsParts
  <2>8. x \in Writers
    BY <2>1, <2>3, <2>4, <2>5, <2>7 DEF Writers
  <2>9. x.file \o x.group = w.file \o w.group
    BY <2>3, <2>4, <2>6 DEF old
  <2>10. Len(x.group) < RowGroup
    BY <1>1, <2>1, <2>3, <2>4
  <2>11. QED
    BY <1>3, <2>4, <2>8, <2>9, <2>10
<1>4. CASE x = [w EXCEPT !.group = << >>, !.failed = TRUE]
  <2>1. x = [buf |-> w.buf, group |-> << >>, file |-> w.file, failed |-> TRUE]
    BY <1>4, <1>w
  <2>2. << >> \in Seq(Held) /\ Len(<< >>) = 0
    BY EmptySeq
  <2>3. QED
    BY <1>1, <2>1, <2>2, RowsParts DEF Writers
<1>5. \/ x = w /\ Len(w.group) < RowGroup
      \/ /\ Len(w.group) >= RowGroup /\ ~broken
         /\ x = [w EXCEPT !.file = @ \o SubSeq(w.group, 1, RowGroup),
                          !.group = SubSeq(@, RowGroup + 1, Len(@))]
      \/ x = [w EXCEPT !.group = << >>, !.failed = TRUE]
  <2>1. Len(w.group) \in Nat
    BY RowsParts
  <2>2. QED
    BY <1>1, <2>1 DEF PutGroup
<1>6. QED
  BY <1>2, <1>3, <1>4, <1>5

LEMMA FlushRowsEnds ==
    ASSUME NEW w \in Writers, ~w.failed, Len(w.group) < RowGroup, Len(w.buf) <= RowGroup,
           NEW broken \in BOOLEAN, NEW x \in FlushRows(w, broken)
    PROVE  /\ x \in Writers /\ x.buf = << >> /\ Len(x.group) < RowGroup
           /\ ~x.failed => Rows(x) = Rows(w)
<1> DEFINE both == w.group \o w.buf
<1>1. /\ w.buf \in Seq(Held) /\ w.group \in Seq(Held) /\ w.file \in Seq(Held)
      /\ Len(w.buf) \in Nat /\ Len(w.group) \in Nat /\ w.failed \in BOOLEAN
      /\ RowGroup \in Nat
  BY RowsParts, SinksAssumption
<1>2. both \in Seq(Held) /\ Len(both) = Len(w.group) + Len(w.buf)
  BY <1>1, ConcatProperties
<1>3. PICK v : v = [w EXCEPT !.group = both, !.buf = << >>]
  OBVIOUS
<1>4. x \in PutGroup(v, broken)
  BY <1>3 DEF FlushRows
<1> HIDE DEF both
<1>5. v = [buf |-> << >>, group |-> both, file |-> w.file, failed |-> w.failed]
  BY <1>3, WriterWith, Zenon
<1>6. v \in Writers
  <2>1. << >> \in Seq(Held)
    BY EmptySeq
  <2>2. QED
    BY <1>1, <1>5, <1>2, <2>1 DEF Writers
<1>7. Len(v.group) < 2 * RowGroup /\ ~v.failed
  <2>1. \A a, b, c, d \in Nat : a < d /\ b <= d /\ c = a + b => c < 2 * d
    OBVIOUS
  <2>3. Len(both) \in Nat
    BY <1>2, LenProperties, Zenon
  <2>4. Len(both) < 2 * RowGroup
    BY <1>1, <1>2, <2>1, <2>3
  <2>2. v.group = both /\ v.failed = w.failed
    BY <1>5
  <2>5. QED
    BY <2>2, <2>4
<1>8. /\ x \in Writers /\ x.buf = v.buf /\ Len(x.group) < RowGroup
      /\ ~x.failed => x.file \o x.group = v.file \o v.group
  BY <1>6, <1>7, <1>4, PutGroupEnds
<1>9. ASSUME ~x.failed PROVE Rows(x) = Rows(w)
  <2> DEFINE file0 == w.file
             group0 == w.group
             buf0 == w.buf
             rows == file0 \o (group0 \o buf0)
  <2>1. file0 \in Seq(Held) /\ group0 \in Seq(Held) /\ buf0 \in Seq(Held)
    BY <1>1
  <2>2. x.file \o x.group = rows
    BY <1>5, <1>8, <1>9 DEF both
  <2>3. x.buf = << >>
    BY <1>5, <1>8
  <2>4. rows \in Seq(Held)
    BY <2>2, <1>8, RowsParts
  <2>5. rows \o << >> = rows
    BY <2>4, ConcatEmptySeq
  <2>6. Rows(x) = rows
    BY <2>2, <2>3, <2>5 DEF Rows
  <2>7. Rows(w) = (file0 \o group0) \o buf0
    BY DEF Rows
  <2> HIDE DEF file0, group0, buf0
  <2>8. (file0 \o group0) \o buf0 = file0 \o (group0 \o buf0)
    <3>1. Joined(Joined(file0, group0), buf0) = Joined(file0, Joined(group0, buf0))
      BY <2>1, JoinedOver
    <3>2. QED
      BY <3>1, Zenon DEF Joined
  <2>9. QED
    BY <2>6, <2>7, <2>8
<1>10. QED
  BY <1>5, <1>8, <1>9

LEMMA AppendRowEnds ==
    ASSUME NEW w \in Writers, ~w.failed, Len(w.group) < RowGroup, Len(w.buf) < RowGroup,
           NEW r \in Held, NEW broken \in BOOLEAN, NEW x \in AppendRow(w, r, broken)
    PROVE  /\ x \in Writers /\ Len(x.buf) < RowGroup /\ Len(x.group) < RowGroup
           /\ ~x.failed => Rows(x) = Append(Rows(w), r)
<1>1. /\ w.buf \in Seq(Held) /\ w.group \in Seq(Held) /\ w.file \in Seq(Held)
      /\ Len(w.buf) \in Nat /\ Len(w.group) \in Nat /\ w.failed \in BOOLEAN
      /\ w.file \o w.group \in Seq(Held) /\ RowGroup \in Nat /\ RowGroup >= 1
  BY RowsParts, SinksAssumption
<1>h. PICK held : held = [w EXCEPT !.buf = Append(w.buf, r)]
  OBVIOUS
<1>2. held = [buf |-> Append(w.buf, r), group |-> w.group, file |-> w.file, failed |-> w.failed]
  BY <1>h, WithBuffer, Zenon
<1>3. Append(w.buf, r) \in Seq(Held) /\ Len(Append(w.buf, r)) = Len(w.buf) + 1
  BY <1>1, AppendProperties
<1>4. held \in Writers
  BY <1>1, <1>2, <1>3 DEF Writers
<1>5. ~held.failed /\ Len(held.group) < RowGroup /\ Len(held.buf) <= RowGroup
      /\ Len(held.buf) \in Nat
  BY <1>1, <1>2, <1>3
<1>6. Rows(held) = Append(Rows(w), r)
  <2> DEFINE most == w.file \o w.group
  <2>1. Rows(held) = most \o Append(w.buf, r) /\ Rows(w) = most \o w.buf
    BY <1>2 DEF Rows
  <2>2. most \in Seq(Held)
    BY <1>1
  <2> HIDE DEF most
  <2>3. most \o Append(w.buf, r) = Append(most \o w.buf, r)
    BY <1>1, <2>2, AppendLater, SMTT(30)
  <2>4. QED
    BY <2>1, <2>3
<1>7. \/ Len(held.buf) >= RowGroup /\ x \in FlushRows(held, broken)
      \/ Len(held.buf) < RowGroup /\ x = held
  BY <1>5, <1>1, <1>h DEF AppendRow
<1>8. CASE Len(held.buf) >= RowGroup /\ x \in FlushRows(held, broken)
  <2>1. /\ x \in Writers /\ x.buf = << >> /\ Len(x.group) < RowGroup
        /\ ~x.failed => Rows(x) = Rows(held)
    BY <1>4, <1>5, <1>8, FlushRowsEnds
  <2>2. Len(<< >>) = 0
    BY EmptySeq
  <2>3. QED
    BY <1>1, <1>6, <2>1, <2>2
<1>9. CASE Len(held.buf) < RowGroup /\ x = held
  BY <1>4, <1>5, <1>6, <1>9
<1>10. QED
  BY <1>7, <1>8, <1>9

LEMMA FinishRowsEnds ==
    ASSUME NEW w \in Writers, ~w.failed, NEW broken \in BOOLEAN, NEW x \in FinishRows(w, broken)
    PROVE  /\ x \in Writers /\ x.buf = << >> /\ x.group = << >>
           /\ ~x.failed => x.file = Rows(w)
<1>1. << >> \in Seq(Held)
  BY EmptySeq
<1>w. w = [buf |-> w.buf, group |-> w.group, file |-> w.file, failed |-> w.failed]
  BY RowsParts
<1>2. CASE x = [w EXCEPT !.file = @ \o w.group \o w.buf, !.group = << >>, !.buf = << >>]
  <2>1. x = [buf |-> << >>, group |-> << >>, file |-> Rows(w), failed |-> w.failed]
    BY <1>2, <1>w DEF Rows
  <2>2. QED
    BY <1>1, <2>1, RowsParts DEF Writers
<1>3. CASE x = [w EXCEPT !.group = << >>, !.buf = << >>, !.failed = TRUE]
  <2>1. x = [buf |-> << >>, group |-> << >>, file |-> w.file, failed |-> TRUE]
    BY <1>3, <1>w
  <2>2. QED
    BY <1>1, <2>1, RowsParts DEF Writers
<1>4. QED
  BY <1>2, <1>3 DEF FinishRows

-----------------------------------------------------------------------------
(* The invariant.  A file of another backend is never touched.             *)
Untouched ==
    \A f \in Names \ Files :
        /\ accepted[f] = << >> /\ file[f] = << >> /\ group[f] = << >>
        /\ fails[f] = 0 /\ status[f] = "none"

Stream(f) == file[f] \o buf[f]

(* Without a failed write a line file is sent what was accepted, in order. *)
Lined ==
    Line => \A f \in Names : fails[f] = 0 =>
        ~torn[f] /\ Clean(Stream(f)) /\ Lines(Stream(f)) = accepted[f]

FlushKept == Line => \A f \in Names : fails[f] = 0 => Len(Lines(file[f])) >= flushed[f]

NoFail == \A f \in Names : fails[f] = 0

LineStatus == Line => \A f \in Names : status[f] = "none"

(* A line file that a flush or a clean drop has visited is all on disk.    *)
Visited ==
    Line => \A f \in Files \ todo :
        phase \in {"flushing", "ending"} \/ (phase \in {"closing", "gone"} /\ fails[f] = 0)
            => buf[f] = << >>

(* Until the drop each failed write of a line file is counted, and if none *)
(* was, the drop has nothing left to write.                                *)
Counted ==
    Line /\ errors = 0 =>
        /\ NoFail
        /\ phase \in {"dropping", "closing", "gone"} => \A f \in Files : buf[f] = << >>

(* A failed write of the JSON-lines sink leaves one line that is cut short *)
(* at most, and such a line spoils the one after it.                       *)
Spoiled(f) == ToSet(accepted[f]) \ ToSet(Lines(Stream(f)))

SpoilBudget ==
    backend = "jsonl" => \A f \in Names :
        Cardinality(Spoiled(f)) + (IF Clean(Stream(f)) THEN 0 ELSE 1) <= fails[f]

(* A Parquet file without a failed write holds its rows in order.          *)
Rowed ==
    ~Line => \A f \in Names : fails[f] = 0 =>
        /\ status[f] # "broken"
        /\ status[f] = "none" => accepted[f] = << >>
        /\ file[f] \o group[f] \o buf[f] = accepted[f]
        /\ status[f] = "finished" =>
             group[f] = << >> /\ buf[f] = << >> /\ phase \in {"closing", "gone", "killed"}

(* The drop has finished the Parquet writers it has visited, up to the     *)
(* first that failed.                                                      *)
Finished ==
    ~Line /\ phase \in {"closing", "gone"} =>
        \A f \in Files \ todo : status[f] \in {"none", "finished"} \/ Spoilt(f)

LineInv == Lined /\ FlushKept /\ LineStatus /\ Visited /\ Counted /\ SpoilBudget

SinkInv == TypeOK /\ Untouched /\ LineInv /\ Rowed /\ Finished

-----------------------------------------------------------------------------
(* A writer and the state.                                                 *)
LEMMA NamesAre ==
    ASSUME backend \in Backends
    PROVE  /\ Files \subseteq Names
           /\ \A k \in Kinds : FileOf(backend, k) # "nowhere" => FileOf(backend, k) \in Files
BY DEF Files, Names

LEMMA OfWriter ==
    ASSUME TypeOK, NEW f \in Names
    PROVE  /\ Of(f) \in Writers /\ ~Of(f).failed
           /\ Of(f).buf = buf[f] /\ Of(f).group = group[f] /\ Of(f).file = file[f]
           /\ Len(Of(f).group) < RowGroup
           /\ IF Line THEN Len(Of(f).buf) <= Cap + Parts ELSE Len(Of(f).buf) < RowGroup
           /\ Sent(Of(f)) = Stream(f) /\ Rows(Of(f)) = file[f] \o group[f] \o buf[f]
<1>1. Of(f) = [buf |-> buf[f], group |-> group[f], file |-> file[f], failed |-> FALSE]
  BY DEF Of
<1>2. buf[f] \in Seq(Held) /\ group[f] \in Seq(Held) /\ file[f] \in Seq(Held)
  BY DEF TypeOK
<1>3. Of(f) \in Writers
  BY <1>1, <1>2 DEF Writers
<1>4. /\ Of(f).buf = buf[f] /\ Of(f).group = group[f] /\ Of(f).file = file[f] /\ ~Of(f).failed
  BY <1>1
<1>5. Len(group[f]) < RowGroup /\ IF Line THEN Len(buf[f]) <= Cap + Parts ELSE Len(buf[f]) < RowGroup
  BY DEF TypeOK
<1>6. QED
  BY <1>3, <1>4, <1>5 DEF Sent, Rows, Stream

(* The types of the files after a writer's step.                           *)
FileTypes ==
    /\ fails \in [Names -> Nat]
    /\ buf \in [Names -> Seq(Held)] /\ group \in [Names -> Seq(Held)]
    /\ file \in [Names -> Seq(Held)]
    /\ \A f \in Names :
         /\ Len(group[f]) < RowGroup
         /\ IF Line THEN Len(buf[f]) <= Cap + Parts ELSE Len(buf[f]) < RowGroup

OnlyAt(f, w) ==
    /\ buf'[f] = w.buf /\ group'[f] = w.group /\ file'[f] = w.file
    /\ fails'[f] = fails[f] + IF w.failed /\ status[f] # "broken" THEN 1 ELSE 0
    /\ \A g \in Names \ {f} :
         /\ buf'[g] = buf[g] /\ group'[g] = group[g] /\ file'[g] = file[g]
         /\ fails'[g] = fails[g]

LEMMA BecameEnds ==
    ASSUME TypeOK, backend' = backend, NEW f \in Names, NEW w \in Writers, Became(f, w),
           Len(w.group) < RowGroup,
           IF Line THEN Len(w.buf) <= Cap + Parts ELSE Len(w.buf) < RowGroup
    PROVE  FileTypes' /\ OnlyAt(f, w)
<1>1. /\ fails \in [Names -> Nat]
      /\ buf \in [Names -> Seq(Held)] /\ group \in [Names -> Seq(Held)]
      /\ file \in [Names -> Seq(Held)]
      /\ \A g \in Names :
           /\ Len(group[g]) < RowGroup
           /\ IF Line THEN Len(buf[g]) <= Cap + Parts ELSE Len(buf[g]) < RowGroup
  BY DEF TypeOK
<1>2. w.buf \in Seq(Held) /\ w.group \in Seq(Held) /\ w.file \in Seq(Held)
  BY DEF Writers
<1>3. /\ buf' = [buf EXCEPT ![f] = w.buf]
      /\ group' = [group EXCEPT ![f] = w.group]
      /\ file' = [file EXCEPT ![f] = w.file]
      /\ fails' = [fails EXCEPT ![f] = @ + IF w.failed /\ status[f] # "broken" THEN 1 ELSE 0]
  BY DEF Became
<1>4. Held' = Held /\ Line' = Line
  BY DEF Held, Line
<1>5. OnlyAt(f, w)
  BY <1>1, <1>3 DEF OnlyAt
<1>6. fails' \in [Names -> Nat]
  BY <1>1, <1>3
<1>7. buf' \in [Names -> Seq(Held)] /\ group' \in [Names -> Seq(Held)]
      /\ file' \in [Names -> Seq(Held)]
  BY <1>1, <1>2, <1>3
<1>8. ASSUME NEW g \in Names
      PROVE  /\ Len(group'[g]) < RowGroup
             /\ IF Line THEN Len(buf'[g]) <= Cap + Parts ELSE Len(buf'[g]) < RowGroup
  <2>1. CASE g = f
    BY <1>5, <2>1 DEF OnlyAt
  <2>2. CASE g # f
    <3>1. buf'[g] = buf[g] /\ group'[g] = group[g]
      BY <1>5, <2>2 DEF OnlyAt
    <3>2. QED
      BY <1>1, <3>1
  <2>3. QED
    BY <2>1, <2>2
<1>9. QED
  BY <1>4, <1>5, <1>6, <1>7, <1>8 DEF FileTypes

(* Records lost are a finite set.                                          *)
LEMMA ToSetAppend ==
    ASSUME NEW S, NEW s \in Seq(S), NEW e \in S
    PROVE  ToSet(Append(s, e)) = ToSet(s) \cup {e}
<1>1. /\ Len(s) \in Nat /\ DOMAIN s = 1 .. Len(s)
      /\ Len(Append(s, e)) = Len(s) + 1 /\ DOMAIN Append(s, e) = 1 .. Len(s) + 1
      /\ \A i \in 1 .. Len(s) : Append(s, e)[i] = s[i]
      /\ Append(s, e)[Len(s) + 1] = e
  BY AppendProperties, LenProperties
<1>2. \A i \in 1 .. Len(s) + 1 : i \in 1 .. Len(s) \/ i = Len(s) + 1
  BY <1>1
<1>3. \A i \in 1 .. Len(s) : i \in 1 .. Len(s) + 1
  BY <1>1
<1>4. Len(s) + 1 \in 1 .. Len(s) + 1
  BY <1>1
<1>5. ASSUME NEW x \in ToSet(Append(s, e)) PROVE x \in ToSet(s) \cup {e}
  BY <1>1, <1>2 DEF ToSet
<1>6. ASSUME NEW x \in ToSet(s) \cup {e} PROVE x \in ToSet(Append(s, e))
  BY <1>1, <1>3, <1>4 DEF ToSet
<1>7. QED
  BY <1>5, <1>6

LEMMA SpoiledCount ==
    ASSUME TypeOK, NEW f \in Names
    PROVE  IsFiniteSet(Spoiled(f)) /\ Cardinality(Spoiled(f)) \in Nat
<1>1. accepted[f] \in Seq(Recorded)
  BY DEF TypeOK
<1>2. ToSet(accepted[f]) \subseteq Recorded
  BY <1>1, ElementOfSeq, LenProperties DEF ToSet
<1>3. IsFiniteSet(Recorded)
  BY FS_Interval, SinksAssumption DEF Recorded
<1>4. Spoiled(f) \subseteq Recorded
  BY <1>2 DEF Spoiled
<1>5. IsFiniteSet(Spoiled(f))
  BY <1>3, <1>4, FS_Subset
<1>6. QED
  BY <1>5, FS_CardinalityType

-----------------------------------------------------------------------------
(* Line files.  A spill or the loss of one moves no unit to another place. *)
Sideways ==
    \A g \in Names :
        /\ fails[g] <= fails'[g] /\ fails'[g] \in Nat
        /\ Grown(file[g], file'[g])
        /\ fails'[g] = 0 \/ backend = "jsonl" => file'[g] \o buf'[g] = Stream(g)

LEMMA HeldInLines == Line => Held = UnitSet
BY DEF Held, UnitSet

LEMMA StreamType ==
    ASSUME TypeOK, Line, NEW f \in Names
    PROVE  /\ Stream(f) \in Seq(UnitSet) /\ file[f] \in Seq(UnitSet)
           /\ Lines(Stream(f)) \in Seq(Recorded) /\ Lines(file[f]) \in Seq(Recorded)
<1>1. file[f] \in Seq(UnitSet) /\ buf[f] \in Seq(UnitSet)
  BY HeldInLines DEF TypeOK
<1>2. Stream(f) \in Seq(UnitSet)
  BY <1>1, ConcatProperties DEF Stream
<1>3. QED
  BY <1>1, <1>2, LinesType

LEMMA MoreToRead ==
    ASSUME TypeOK, Line, NEW f \in Names, NEW new, Grown(file[f], new)
    PROVE  Len(Lines(new)) \in Nat /\ Len(Lines(file[f])) <= Len(Lines(new))
<1>1. PICK more \in Seq(UnitSet) : new = file[f] \o more
  BY HeldInLines DEF Grown
<1>2. file[f] \in Seq(UnitSet)
  BY StreamType
<1>3. new \in Seq(UnitSet) /\ IsPrefix(Lines(file[f]), Lines(new))
  BY <1>1, <1>2, LinesGrow
<1>4. Lines(new) \in Seq(Recorded)
  BY <1>3, LinesType
<1>5. QED
  BY <1>3, <1>4 DEF IsPrefix

LEMMA SidewaysKeeps ==
    ASSUME TypeOK, Line, Lined, SpoilBudget, Sideways,
           backend' = backend, accepted' = accepted, torn' = torn
    PROVE  /\ Lined' /\ SpoilBudget'
           /\ \A g \in Names : fails'[g] = 0 =>
                fails[g] = 0 /\ Len(Lines(file[g])) <= Len(Lines(file'[g]))
<1>1. fails \in [Names -> Nat]
  BY DEF TypeOK
<1>2. ASSUME NEW g \in Names, fails'[g] = 0
      PROVE  /\ fails[g] = 0 /\ Len(Lines(file[g])) <= Len(Lines(file'[g]))
             /\ ~torn'[g] /\ Clean(file'[g] \o buf'[g])
             /\ Lines(file'[g] \o buf'[g]) = accepted'[g]
  <2>1. fails[g] = 0
    <3>1. fails[g] \in Nat /\ fails[g] <= fails'[g]
      BY <1>1 DEF Sideways
    <3>2. QED
      BY <1>2, <3>1
  <2>2. file'[g] \o buf'[g] = Stream(g) /\ Grown(file[g], file'[g])
    BY <1>2 DEF Sideways
  <2>3. ~torn[g] /\ Clean(Stream(g)) /\ Lines(Stream(g)) = accepted[g]
    BY <2>1 DEF Lined
  <2>4. QED
    BY <2>1, <2>2, <2>3, MoreToRead
<1>3. Lined'
  BY <1>2 DEF Lined, Stream
<1>4. SpoilBudget'
  <2> SUFFICES ASSUME backend = "jsonl", NEW g \in Names
               PROVE  Cardinality(ToSet(accepted[g]) \ ToSet(Lines(file'[g] \o buf'[g])))
                        + (IF Clean(file'[g] \o buf'[g]) THEN 0 ELSE 1) <= fails'[g]
    BY DEF SpoilBudget, Spoiled, Stream
  <2>1. /\ file'[g] \o buf'[g] = Stream(g)
        /\ fails[g] <= fails'[g] /\ fails'[g] \in Nat /\ fails[g] \in Nat
    BY <1>1 DEF Sideways
  <2>2. Cardinality(Spoiled(g)) + (IF Clean(Stream(g)) THEN 0 ELSE 1) <= fails[g]
    BY DEF SpoilBudget
  <2>3. Cardinality(Spoiled(g)) \in Nat
    BY SpoiledCount
  <2>4. Cardinality(Spoiled(g)) + (IF Clean(Stream(g)) THEN 0 ELSE 1) <= fails'[g]
    BY <2>1, <2>2, <2>3
  <2>5. QED
    BY <2>1, <2>4 DEF Spoiled
<1>5. QED
  BY <1>2, <1>3, <1>4

(* One writer of a flush, or of the drop.                                  *)
LEMMA SpillStep ==
    ASSUME TypeOK, Line, LineStatus, backend' = backend, NEW f \in Names,
           NEW x \in Spill(Of(f)), Became(f, x)
    PROVE  /\ FileTypes' /\ Sideways /\ OnlyAt(f, x) /\ group' = group
           /\ ~x.failed => buf'[f] = << >>
           /\ x.failed => buf[f] # << >> /\ fails'[f] > 0
<1>1. /\ Of(f) \in Writers /\ ~Of(f).failed
      /\ Of(f).buf = buf[f] /\ Of(f).group = group[f] /\ Of(f).file = file[f]
      /\ Len(Of(f).group) < RowGroup /\ Len(Of(f).buf) <= Cap + Parts
      /\ Sent(Of(f)) = Stream(f)
  BY OfWriter
<1>2. /\ x \in Writers /\ x.group = group[f]
      /\ Len(x.buf) <= Len(buf[f]) /\ Grown(file[f], x.file)
      /\ ~x.failed => x.buf = << >> /\ x.file = Stream(f)
      /\ x.failed => buf[f] # << >>
      /\ x.failed /\ backend = "jsonl" => Sent(x) = Stream(f)
  BY <1>1, SpillEnds
<1>3. Len(x.buf) <= Cap + Parts
  <2>1. x.buf \in Seq(Held) /\ buf[f] \in Seq(Held)
    BY <1>2 DEF Writers, TypeOK
  <2>2. Len(x.buf) \in Nat /\ Len(buf[f]) \in Nat
    BY <2>1, LenProperties
  <2>3. Len(buf[f]) <= Cap + Parts /\ Cap + Parts \in Nat
    BY <1>1, SinksAssumption
  <2>4. QED
    BY <1>2, <2>2, <2>3
<1>4. Len(x.group) < RowGroup
  BY <1>1, <1>2
<1>5. FileTypes' /\ OnlyAt(f, x)
  BY <1>2, <1>3, <1>4, BecameEnds
<1>6. status[f] # "broken" /\ fails \in [Names -> Nat]
  BY DEF LineStatus, TypeOK
<1>7. fails'[f] = fails[f] + (IF x.failed THEN 1 ELSE 0) /\ fails[f] \in Nat
  BY <1>5, <1>6 DEF OnlyAt
<1>8. group' = group
  <2>1. group' = [group EXCEPT ![f] = x.group] /\ group \in [Names -> Seq(Held)]
    BY DEF Became, TypeOK
  <2>2. QED
    BY <1>2, <2>1
<1>9. Sideways
  <2> SUFFICES ASSUME NEW g \in Names
               PROVE  /\ fails[g] <= fails'[g] /\ fails'[g] \in Nat
                      /\ Grown(file[g], file'[g])
                      /\ fails'[g] = 0 \/ backend = "jsonl" => file'[g] \o buf'[g] = Stream(g)
    BY DEF Sideways
  <2>1. CASE g = f
    <3>1. file'[f] = x.file /\ buf'[f] = x.buf
      BY <1>5 DEF OnlyAt
    <3>2. ~x.failed => x.file \o x.buf = Stream(f)
      <4>1. Stream(f) \in Seq(UnitSet)
        BY StreamType
      <4>2. Stream(f) \o << >> = Stream(f)
        BY <4>1, ConcatEmptySeq
      <4>3. QED
        BY <1>2, <4>2
    <3>3. fails'[f] = 0 \/ backend = "jsonl" => x.file \o x.buf = Stream(f)
      <4>1. fails'[f] = 0 => ~x.failed
        BY <1>7
      <4>2. x.failed /\ backend = "jsonl" => x.file \o x.buf = Stream(f)
        BY <1>2, Zenon DEF Sent
      <4>3. QED
        BY <3>2, <4>1, <4>2, Zenon
    <3>4. fails[f] <= fails'[f] /\ fails'[f] \in Nat
      BY <1>7
    <3>5. QED
      BY <2>1, <1>2, <3>1, <3>3, <3>4
  <2>2. CASE g # f
    <3>1. fails'[g] = fails[g] /\ file'[g] = file[g] /\ buf'[g] = buf[g]
      BY <1>5, <2>2 DEF OnlyAt
    <3>2. file[g] \in Seq(Held) /\ fails[g] \in Nat
      BY DEF TypeOK
    <3>3. Grown(file[g], file[g])
      BY <3>2, GrownSame
    <3>4. QED
      BY <3>1, <3>2, <3>3 DEF Stream
  <2>3. QED
    BY <2>1, <2>2
<1>10. ~x.failed => buf'[f] = << >>
  BY <1>2, <1>5 DEF OnlyAt
<1>11. x.failed => buf[f] # << >> /\ fails'[f] > 0
  BY <1>2, <1>7
<1>12. QED
  BY <1>5, <1>8, <1>9, <1>10, <1>11

LEMMA AtMostOneMore ==
    ASSUME NEW S, IsFiniteSet(S), NEW T, NEW r
    PROVE  /\ T \subseteq S =>
                Cardinality(T) \in Nat /\ Cardinality(T) <= Cardinality(S)
           /\ T \subseteq S \cup {r} =>
                Cardinality(T) \in Nat /\ Cardinality(T) <= Cardinality(S) + 1
<1>1. IsFiniteSet(S \cup {r}) /\ Cardinality(S) \in Nat
  BY FS_AddElement, FS_CardinalityType
<1>2. Cardinality(S \cup {r}) \in Nat /\ Cardinality(S \cup {r}) <= Cardinality(S) + 1
  <2>1. Cardinality(S \cup {r}) = IF r \in S THEN Cardinality(S) ELSE Cardinality(S) + 1
    BY FS_AddElement
  <2>2. QED
    BY <1>1, <2>1
<1>3. ASSUME T \subseteq S
      PROVE  Cardinality(T) \in Nat /\ Cardinality(T) <= Cardinality(S)
  <2>1. IsFiniteSet(T) /\ Cardinality(T) <= Cardinality(S)
    BY <1>3, FS_Subset
  <2>2. QED
    BY <2>1, FS_CardinalityType
<1>4. ASSUME T \subseteq S \cup {r}
      PROVE  Cardinality(T) \in Nat /\ Cardinality(T) <= Cardinality(S) + 1
  <2>1. IsFiniteSet(T) /\ Cardinality(T) <= Cardinality(S \cup {r})
    BY <1>1, <1>4, FS_Subset
  <2>2. Cardinality(T) \in Nat
    BY <2>1, FS_CardinalityType
  <2>3. QED
    BY <1>1, <1>2, <2>1, <2>2
<1>5. QED
  BY <1>3, <1>4

(* A record of a line format: what its file is sent, and what that costs.  *)
LEMMA SpoiledByOk ==
    ASSUME TypeOK, Line, NEW f \in Names, NEW r \in Recorded, NEW new,
           new = Stream(f) \o Units(r)
    PROVE  LET lost == ToSet(Append(accepted[f], r)) \ ToSet(Lines(new)) IN
             /\ Clean(new) /\ Cardinality(lost) \in Nat
             /\ Cardinality(lost) <= Cardinality(Spoiled(f)) + (IF Clean(Stream(f)) THEN 0 ELSE 1)
<1> DEFINE lost == ToSet(Append(accepted[f], r)) \ ToSet(Lines(new))
<1>1. r \in 0 .. MaxRecords /\ r # 0
  BY SinksAssumption DEF Recorded
<1>2. /\ Stream(f) \in Seq(UnitSet) /\ Lines(Stream(f)) \in Seq(Recorded)
      /\ accepted[f] \in Seq(Recorded)
  BY StreamType DEF TypeOK
<1>3. /\ Clean(new)
      /\ Lines(new) = IF Clean(Stream(f)) THEN Append(Lines(Stream(f)), r) ELSE Lines(Stream(f))
  BY <1>1, <1>2, LineRead
<1>4. ToSet(Append(accepted[f], r)) = ToSet(accepted[f]) \cup {r}
  BY <1>2, ToSetAppend
<1>5. IsFiniteSet(Spoiled(f)) /\ Cardinality(Spoiled(f)) \in Nat
  BY SpoiledCount
<1>6. CASE Clean(Stream(f))
  <2>1. ToSet(Lines(new)) = ToSet(Lines(Stream(f))) \cup {r}
    BY <1>2, <1>3, <1>6, ToSetAppend
  <2>2. lost \subseteq Spoiled(f)
    BY <1>4, <2>1 DEF Spoiled
  <2>3. Cardinality(lost) \in Nat /\ Cardinality(lost) <= Cardinality(Spoiled(f))
    BY <1>5, <2>2, AtMostOneMore
  <2>4. QED
    BY <1>3, <1>5, <1>6, <2>3
<1>7. CASE ~Clean(Stream(f))
  <2>1. lost \subseteq Spoiled(f) \cup {r}
    BY <1>3, <1>4, <1>7 DEF Spoiled
  <2>2. Cardinality(lost) \in Nat /\ Cardinality(lost) <= Cardinality(Spoiled(f)) + 1
    BY <1>5, <2>1, AtMostOneMore
  <2>3. QED
    BY <1>3, <1>7, <2>2
<1>8. QED
  BY <1>6, <1>7

(* What a record of a line format does to the sink.                        *)
Taking ==
    /\ phase = "taking" /\ phase' = phase /\ backend' = backend /\ todo' = todo
    /\ flushed' = flushed /\ asked' \in 0 .. MaxRecords

LEMMA AcceptEnds ==
    ASSUME TypeOK, NEW f \in Names, NEW r \in Recorded, NEW ok \in BOOLEAN, Accept(f, r, ok)
    PROVE  /\ accepted' \in [Names -> Seq(Recorded)] /\ errors' \in Nat
           /\ accepted'[f] = IF ok THEN Append(accepted[f], r) ELSE accepted[f]
           /\ \A g \in Names \ {f} : accepted'[g] = accepted[g]
           /\ \A g \in Names : Len(accepted[g]) \in Nat /\ Len(accepted[g]) <= Len(accepted'[g])
           /\ errors' = 0 => ok /\ errors = 0
<1>1. accepted \in [Names -> Seq(Recorded)] /\ errors \in Nat
  BY DEF TypeOK
<1>2. \A g \in Names : Len(accepted[g]) \in Nat
  BY <1>1, LenProperties
<1>3. errors' = errors + IF ok THEN 0 ELSE 1
  BY DEF Accept
<1>4. errors' \in Nat /\ (errors' = 0 => ok /\ errors = 0)
  BY <1>1, <1>3
<1>5. CASE ok
  <2>1. Append(accepted[f], r) \in Seq(Recorded) /\ Len(Append(accepted[f], r)) = Len(accepted[f]) + 1
    BY <1>1, AppendProperties
  <2>2. accepted' = [accepted EXCEPT ![f] = Append(accepted[f], r)]
    BY <1>5 DEF Accept
  <2>3. /\ accepted' \in [Names -> Seq(Recorded)] /\ accepted'[f] = Append(accepted[f], r)
        /\ \A g \in Names \ {f} : accepted'[g] = accepted[g]
    BY <1>1, <2>1, <2>2
  <2>4. ASSUME NEW g \in Names PROVE Len(accepted[g]) <= Len(accepted'[g])
    <3>1. CASE g = f
      BY <1>2, <2>1, <2>3, <3>1
    <3>2. CASE g # f
      BY <1>2, <2>3, <3>2
    <3>3. QED
      BY <3>1, <3>2
  <2>5. QED
    BY <1>2, <1>4, <1>5, <2>3, <2>4
<1>6. CASE ~ok
  <2>1. accepted' = accepted
    BY <1>6 DEF Accept
  <2>2. QED
    BY <1>1, <1>2, <1>4, <1>6, <2>1
<1>7. QED
  BY <1>5, <1>6

(* The types that a record keeps.                                          *)
LEMMA TakenTypes ==
    ASSUME TypeOK, FileTypes', Taking, accepted' \in [Names -> Seq(Recorded)], errors' \in Nat,
           torn' \in [Names -> BOOLEAN],
           status' \in [Names -> {"none", "open", "broken", "finished"}],
           \A g \in Names : Len(accepted[g]) \in Nat /\ Len(accepted[g]) <= Len(accepted'[g])
    PROVE  TypeOK'
<1>1. Files' = Files /\ flushed' = flushed /\ todo' = todo /\ phase' = "taking"
      /\ backend' = backend /\ asked' \in 0 .. MaxRecords
  BY DEF Files, Taking
<1>2. /\ flushed \in [Names -> Nat] /\ accepted \in [Names -> Seq(Recorded)]
      /\ \A g \in Names : flushed[g] <= Len(accepted[g])
      /\ todo \subseteq Files /\ backend \in Backends
  BY DEF TypeOK
<1>3. ASSUME NEW g \in Names PROVE flushed[g] <= Len(accepted'[g])
  <2>1. accepted[g] \in Seq(Recorded) /\ accepted'[g] \in Seq(Recorded)
    BY <1>2
  <2> DEFINE before == Len(accepted[g])
             after == Len(accepted'[g])
  <2>2. before \in Nat /\ after \in Nat
    BY <2>1, LenProperties
  <2>3. flushed[g] \in Nat /\ flushed[g] <= before /\ before <= after
    BY <1>2
  <2> HIDE DEF before, after
  <2>4. flushed[g] <= after
    BY <2>2, <2>3
  <2>5. QED
    BY <2>4 DEF after
<1>4. flushed' \in [Names -> Nat] /\ \A g \in Names : flushed'[g] <= Len(accepted'[g])
  BY <1>1, <1>2, <1>3
<1>5. /\ backend' \in Backends /\ todo' \subseteq Files'
      /\ phase' \in {"taking", "flushing", "ending", "dropping", "closing", "gone", "killed"}
  BY <1>1, <1>2
<1>6. QED
  BY <1>1, <1>4, <1>5, Zenon DEF TypeOK, FileTypes

LEMMA LineTaken ==
    ASSUME SinkInv, Line, Taking, status' = status, NEW f \in Files, NEW r \in Recorded,
           NEW us \in Seq(Held), NEW w \in PutLine(Of(f), us), Became(f, w),
           NEW ok \in BOOLEAN, Accept(f, r, ok), ok => ~w.failed,
           torn' \in [Names -> BOOLEAN], \A g \in Names \ {f} : torn'[g] = torn[g],
           fails[f] = 0 /\ ~w.failed => us = Units(r) /\ ok /\ ~torn'[f],
           backend = "jsonl" => us = Units(r) /\ (ok <=> ~w.failed)
    PROVE  SinkInv'
<1>1. /\ TypeOK /\ Untouched /\ Lined /\ FlushKept /\ LineStatus /\ Visited /\ Counted
      /\ SpoilBudget
  BY DEF SinkInv, LineInv
<1>2. f \in Names /\ backend \in Backends /\ Line' /\ Files' = Files
  BY <1>1, NamesAre DEF TypeOK, Taking, Line, Files
<1>3. /\ Of(f) \in Writers /\ ~Of(f).failed
      /\ Of(f).buf = buf[f] /\ Of(f).group = group[f] /\ Of(f).file = file[f]
      /\ Len(Of(f).group) < RowGroup /\ Len(Of(f).buf) <= Cap + Parts
      /\ Sent(Of(f)) = Stream(f)
  BY <1>1, <1>2, OfWriter
<1>4. Put(Of(f), us, Len(us), w)
  BY <1>3, PutLineEnds
<1>5. /\ w \in Writers /\ w.group = group[f] /\ Grown(file[f], w.file) /\ Len(w.buf) <= Cap + Parts
      /\ w.failed \in BOOLEAN
      /\ ~w.failed => w.file \o w.buf = Stream(f) \o us
  <2>1. SubSeq(us, 1, Len(us)) = us
    BY SubSeqFull
  <2>2. /\ w \in Writers /\ w.group = group[f] /\ Grown(file[f], w.file)
        /\ Len(w.buf) <= Cap + Parts
        /\ ~w.failed => w.file \o w.buf = Stream(f) \o SubSeq(us, 1, Len(us))
    BY <1>3, <1>4 DEF Put, Sent
  <2>3. w.failed \in BOOLEAN
    BY <2>2 DEF Writers
  <2>4. QED
    BY <2>1, <2>2, <2>3
<1>6. FileTypes' /\ OnlyAt(f, w)
  BY <1>1, <1>2, <1>3, <1>5, BecameEnds DEF Taking
<1>7. /\ accepted' \in [Names -> Seq(Recorded)] /\ errors' \in Nat
      /\ accepted'[f] = IF ok THEN Append(accepted[f], r) ELSE accepted[f]
      /\ \A g \in Names \ {f} : accepted'[g] = accepted[g]
      /\ \A g \in Names : Len(accepted[g]) \in Nat /\ Len(accepted[g]) <= Len(accepted'[g])
      /\ errors' = 0 => ok /\ errors = 0
  BY <1>1, <1>2, AcceptEnds
<1>8. /\ fails[f] \in Nat /\ fails'[f] = fails[f] + IF w.failed THEN 1 ELSE 0
      /\ fails'[f] = 0 => fails[f] = 0 /\ ~w.failed
      /\ buf'[f] = w.buf /\ file'[f] = w.file
      /\ \A g \in Names \ {f} :
           /\ buf'[g] = buf[g] /\ group'[g] = group[g] /\ file'[g] = file[g]
           /\ fails'[g] = fails[g]
  <2>1. fails[f] \in Nat /\ status[f] # "broken"
    BY <1>1, <1>2 DEF TypeOK, LineStatus
  <2>2. fails'[f] = fails[f] + IF w.failed THEN 1 ELSE 0
    BY <1>6, <2>1 DEF OnlyAt
  <2>3. fails'[f] = 0 => fails[f] = 0 /\ ~w.failed
    BY <2>1, <2>2
  <2>4. QED
    BY <1>6, <2>1, <2>2, <2>3 DEF OnlyAt
<1>9. TypeOK'
  <2>1. status' \in [Names -> {"none", "open", "broken", "finished"}]
    BY <1>1 DEF TypeOK
  <2>2. QED
    BY <1>1, <1>6, <1>7, <2>1, TakenTypes
<1>10. Untouched'
  <2> SUFFICES ASSUME NEW g \in Names \ Files
               PROVE  /\ accepted'[g] = << >> /\ file'[g] = << >> /\ group'[g] = << >>
                      /\ fails'[g] = 0 /\ status'[g] = "none"
    BY DEF Untouched, Files, Taking
  <2>1. g # f /\ g \in Names
    BY <1>1
  <2>2. /\ accepted[g] = << >> /\ file[g] = << >> /\ group[g] = << >>
        /\ fails[g] = 0 /\ status[g] = "none"
    BY <1>1 DEF Untouched
  <2>3. QED
    BY <1>7, <1>8, <2>1, <2>2
<1>11. Stream(f) \in Seq(UnitSet) /\ Lines(Stream(f)) \in Seq(Recorded)
       /\ r \in 0 .. MaxRecords /\ r # 0
  BY <1>1, <1>2, StreamType DEF Recorded
<1>12. ASSUME NEW g \in Names, fails'[g] = 0
       PROVE  /\ ~torn'[g] /\ Clean(file'[g] \o buf'[g])
              /\ Lines(file'[g] \o buf'[g]) = accepted'[g]
  <2>1. CASE g = f
    <3>1. /\ fails[f] = 0 /\ ~w.failed /\ us = Units(r) /\ ok /\ ~torn'[f]
      BY <1>8, <1>12, <2>1
    <3>2. Clean(Stream(f)) /\ Lines(Stream(f)) = accepted[f]
      BY <1>1, <1>2, <3>1 DEF Lined
    <3>3. file'[f] \o buf'[f] = Stream(f) \o Units(r)
      BY <1>5, <1>8, <3>1
    <3>4. Clean(Stream(f) \o Units(r)) /\ Lines(Stream(f) \o Units(r)) = Append(Lines(Stream(f)), r)
      BY <1>11, <3>2, LineRead
    <3>5. QED
      BY <1>7, <2>1, <3>1, <3>2, <3>3, <3>4
  <2>2. CASE g # f
    BY <1>1, <1>7, <1>8, <1>12, <2>2 DEF Lined, Stream
  <2>3. QED
    BY <2>1, <2>2
<1>13. Lined'
  BY <1>12 DEF Lined, Stream
<1>14. FlushKept'
  <2> SUFFICES ASSUME NEW g \in Names, fails'[g] = 0 PROVE Len(Lines(file'[g])) >= flushed[g]
    BY DEF FlushKept, Taking
  <2>1. fails[g] = 0
    BY <1>8
  <2>2. Len(Lines(file[g])) >= flushed[g]
    BY <1>1, <2>1 DEF FlushKept
  <2>3. CASE g = f
    <3>1. Len(Lines(w.file)) \in Nat /\ Len(Lines(file[f])) <= Len(Lines(w.file))
      BY <1>1, <1>2, <1>5, MoreToRead
    <3>2. Lines(file[f]) \in Seq(Recorded) /\ flushed[f] \in Nat
      BY <1>1, <1>2, StreamType DEF TypeOK
    <3>3. QED
      BY <1>8, <2>2, <2>3, <3>1, <3>2
  <2>4. CASE g # f
    BY <1>8, <2>2, <2>4
  <2>5. QED
    BY <2>3, <2>4
<1>15. LineStatus' /\ Visited'
  BY <1>1 DEF LineStatus, Visited, Taking
<1>16. Counted'
  <2> SUFFICES ASSUME errors' = 0, NEW g \in Names PROVE fails'[g] = 0
    BY DEF Counted, NoFail, Taking
  <2>1. errors = 0 /\ ~w.failed
    BY <1>7
  <2>2. fails[g] = 0
    BY <1>1, <2>1 DEF Counted, NoFail
  <2>3. QED
    BY <1>8, <2>1, <2>2
<1>17. SpoilBudget'
  <2> SUFFICES ASSUME backend = "jsonl", NEW g \in Names
               PROVE  Cardinality(ToSet(accepted'[g]) \ ToSet(Lines(file'[g] \o buf'[g])))
                        + (IF Clean(file'[g] \o buf'[g]) THEN 0 ELSE 1) <= fails'[g]
    BY DEF SpoilBudget, Spoiled, Stream, Taking
  <2>1. /\ Cardinality(Spoiled(g)) + (IF Clean(Stream(g)) THEN 0 ELSE 1) <= fails[g]
        /\ Cardinality(Spoiled(g)) \in Nat
    BY <1>1, SpoiledCount DEF SpoilBudget
  <2>2. CASE g = f /\ ~w.failed
    <3> DEFINE new == file'[f] \o buf'[f]
    <3>1. new = Stream(f) \o Units(r) /\ accepted'[f] = Append(accepted[f], r)
      BY <1>5, <1>7, <1>8, <2>2
    <3>2. /\ Clean(new) /\ Cardinality(ToSet(Append(accepted[f], r)) \ ToSet(Lines(new))) \in Nat
          /\ Cardinality(ToSet(Append(accepted[f], r)) \ ToSet(Lines(new)))
               <= Cardinality(Spoiled(f)) + (IF Clean(Stream(f)) THEN 0 ELSE 1)
      BY <1>1, <1>2, <3>1, SpoiledByOk
    <3> DEFINE lost == Cardinality(ToSet(Append(accepted[f], r)) \ ToSet(Lines(new)))
               slack == Cardinality(Spoiled(f)) + (IF Clean(Stream(f)) THEN 0 ELSE 1)
    <3>3. lost \in Nat /\ slack \in Nat /\ lost <= slack /\ slack <= fails[f] /\ fails'[f] = fails[f]
      BY <1>8, <2>1, <2>2, <3>2
    <3> HIDE DEF lost, slack
    <3>4. lost + 0 <= fails'[f]
      BY <1>8, <3>3
    <3>5. QED
      BY <2>2, <3>1, <3>2, <3>4 DEF lost
  <2>3. CASE g = f /\ w.failed
    <3>1. us = Units(r) /\ accepted'[f] = accepted[f] /\ fails'[f] = fails[f] + 1
      BY <1>7, <1>8, <2>3
    <3>2. Len(Units(r)) = Parts
      BY <1>11, UnitsType
    <3>3. PICK m \in Nat : m < Parts /\ w.file \o w.buf = Stream(f) \o SubSeq(Units(r), 1, m)
      BY <1>3, <1>4, <2>3, <3>1, <3>2 DEF Put, Sent
    <3>4. Lines(Stream(f) \o SubSeq(Units(r), 1, m)) = Lines(Stream(f))
      BY <1>11, <3>3, PieceRead
    <3>5. Lines(file'[f] \o buf'[f]) = Lines(Stream(f))
      BY <1>8, <3>3, <3>4
    <3>6. ToSet(accepted'[f]) \ ToSet(Lines(file'[f] \o buf'[f])) = Spoiled(f)
      BY <3>1, <3>5 DEF Spoiled
    <3>7. Cardinality(Spoiled(f)) <= fails[f]
      BY <1>8, <2>1, <2>3
    <3> DEFINE lost == Cardinality(Spoiled(f))
    <3>8. lost \in Nat
      BY <2>1, <2>3
    <3>9. lost + 1 <= fails'[f] /\ lost + 0 <= fails'[f]
      BY <1>8, <3>1, <3>7, <3>8
    <3>10. QED
      BY <2>3, <3>6, <3>9
  <2>4. CASE g # f
    <3>1. accepted'[g] = accepted[g] /\ file'[g] \o buf'[g] = Stream(g) /\ fails'[g] = fails[g]
      BY <1>7, <1>8, <2>4 DEF Stream
    <3>2. QED
      BY <2>1, <3>1 DEF Spoiled
  <2>5. QED
    BY <2>2, <2>3, <2>4
<1>18. Rowed' /\ Finished'
  BY <1>2 DEF Rowed, Finished
<1>19. QED
  BY <1>9, <1>10, <1>13, <1>14, <1>15, <1>16, <1>17, <1>18 DEF SinkInv, LineInv

LEMMA FrontUnits ==
    ASSUME NEW r \in 0 .. MaxRecords PROVE Front(Units(r)) \in Seq(UnitSet)
<1>1. Units(r) \in Seq(UnitSet) /\ Len(Units(r)) = Parts /\ Parts \in Nat \ {0, 1}
  BY UnitsType, SinksAssumption
<1>2. Front(Units(r)) = SubSeq(Units(r), 1, Parts - 1)
  BY <1>1 DEF Front
<1>3. \A i \in 1 .. Parts - 1 : Units(r)[i] \in UnitSet
  <2>1. \A i \in 1 .. Parts - 1 : i \in 1 .. Parts
    BY <1>1
  <2>2. QED
    BY <1>1, <2>1, ElementOfSeq
<1>4. SubSeq(Units(r), 1, Parts - 1) \in Seq(UnitSet)
  BY <1>1, <1>3, SubSeqProperties
<1>5. QED
  BY <1>2, <1>4

LEMMA JsonKeeps ==
    ASSUME SinkInv, Taking, NEW f \in Files, NEW r \in Recorded, RecordJson(f, r)
    PROVE  SinkInv'
<1>1. PICK w \in PutLine(Of(f), Units(r)) :
             Became(f, w) /\ Accept(f, r, ~w.failed) /\ UNCHANGED <<status, torn>>
  BY DEF RecordJson
<1>2. Line /\ backend = "jsonl"
  BY DEF RecordJson, Line
<1>3. TypeOK
  BY DEF SinkInv
<1>4. r \in 0 .. MaxRecords
  BY SinksAssumption DEF Recorded
<1>5. Units(r) \in Seq(Held)
  BY <1>2, <1>4, UnitsType, HeldInLines
<1>6. torn' = torn /\ torn' \in [Names -> BOOLEAN] /\ (~w.failed) \in BOOLEAN
  BY <1>1, <1>3 DEF TypeOK
<1>7. f \in Names
  BY <1>3, NamesAre DEF TypeOK
<1>8. fails[f] = 0 => ~torn[f]
  BY <1>2, <1>7 DEF SinkInv, LineInv, Lined
<1>9. QED
  BY <1>1, <1>2, <1>5, <1>6, <1>8, LineTaken

LEMMA CsvKeeps ==
    ASSUME SinkInv, Taking, NEW f \in Files, NEW r \in Recorded, RecordCsv(f, r)
    PROVE  SinkInv'
<1> DEFINE us == IF torn[f] THEN Front(Units(r)) ELSE Units(r)
<1>1. PICK w \in PutLine(Of(f), us) :
             /\ Became(f, w) /\ torn' = [torn EXCEPT ![f] = @ \/ w.failed]
             /\ Accept(f, r, ~torn'[f]) /\ UNCHANGED status
  BY DEF RecordCsv
<1>2. Line /\ backend = "csv"
  BY DEF RecordCsv, Line
<1>3. TypeOK
  BY DEF SinkInv
<1>4. r \in 0 .. MaxRecords
  BY SinksAssumption DEF Recorded
<1>5. us \in Seq(Held)
  BY <1>2, <1>4, UnitsType, FrontUnits, HeldInLines
<1>7. f \in Names
  BY <1>3, NamesAre DEF TypeOK
<1>8. fails[f] = 0 => ~torn[f]
  BY <1>2, <1>7 DEF SinkInv, LineInv, Lined
<1>9. /\ torn' \in [Names -> BOOLEAN] /\ \A g \in Names \ {f} : torn'[g] = torn[g]
      /\ torn'[f] <=> torn[f] \/ w.failed
  <2>1. torn \in [Names -> BOOLEAN]
    BY <1>3 DEF TypeOK
  <2>2. (torn[f] \/ w.failed) \in BOOLEAN
    OBVIOUS
  <2>3. QED
    BY <1>1, <1>7, <2>1, <2>2, Zenon
<1>10. (~torn'[f]) \in BOOLEAN
  OBVIOUS
<1> DEFINE ok == ~torn'[f]
<1>11. ok => ~w.failed
  BY <1>9
<1>12. fails[f] = 0 /\ ~w.failed => us = Units(r) /\ ok /\ ~torn'[f]
  BY <1>8, <1>9
<1>13. Accept(f, r, ok) /\ Became(f, w) /\ ok \in BOOLEAN /\ w \in PutLine(Of(f), us)
  BY <1>1, <1>10
<1>14. backend # "jsonl" /\ status' = status
  BY <1>1, <1>2
<1> HIDE DEF ok, us
<1>15. QED
  BY <1>2, <1>5, <1>9, <1>11, <1>12, <1>13, <1>14, LineTaken

LEMMA ParquetKeeps ==
    ASSUME SinkInv, Taking, NEW f \in Files, NEW r \in Recorded, RecordParquet(f, r)
    PROVE  SinkInv'
<1>1. PICK w \in AppendRow(Of(f), r, Broken(f)) :
             /\ Became(f, w) /\ Mark(f, w, IF Broken(f) THEN "broken" ELSE "open")
             /\ Accept(f, r, ~w.failed) /\ UNCHANGED torn
  BY DEF RecordParquet
<1>2. /\ TypeOK /\ Untouched /\ Rowed /\ ~Line /\ ~Line' /\ backend' = backend
      /\ backend \in Backends /\ Files' = Files
  BY DEF SinkInv, RecordParquet, Line, Taking, TypeOK, Files
<1>3. f \in Names /\ r \in Held
  BY <1>2, NamesAre DEF Held
<1>4. /\ Of(f) \in Writers /\ ~Of(f).failed
      /\ Len(Of(f).group) < RowGroup /\ Len(Of(f).buf) < RowGroup
      /\ Rows(Of(f)) = file[f] \o group[f] \o buf[f]
  BY <1>2, <1>3, OfWriter
<1>5. /\ w \in Writers /\ Len(w.buf) < RowGroup /\ Len(w.group) < RowGroup
      /\ ~w.failed => Rows(w) = Append(Rows(Of(f)), r)
  <2>1. Broken(f) \in BOOLEAN
    BY DEF Broken
  <2>2. QED
    BY <1>1, <1>3, <1>4, <2>1, AppendRowEnds
<1>6. FileTypes' /\ OnlyAt(f, w)
  BY <1>1, <1>2, <1>3, <1>5, BecameEnds
<1>7. /\ accepted' \in [Names -> Seq(Recorded)] /\ errors' \in Nat
      /\ accepted'[f] = IF ~w.failed THEN Append(accepted[f], r) ELSE accepted[f]
      /\ \A g \in Names \ {f} : accepted'[g] = accepted[g]
      /\ \A g \in Names : Len(accepted[g]) \in Nat /\ Len(accepted[g]) <= Len(accepted'[g])
  <2>1. (~w.failed) \in BOOLEAN
    OBVIOUS
  <2>2. QED
    BY <1>1, <1>2, <1>3, <2>1, AcceptEnds
<1>8. /\ status \in [Names -> {"none", "open", "broken", "finished"}]
      /\ status' = [status EXCEPT ![f] = IF w.failed \/ Broken(f) THEN "broken" ELSE "open"]
  BY <1>1, <1>2 DEF TypeOK, Mark
<1>9. /\ status' \in [Names -> {"none", "open", "broken", "finished"}]
      /\ status'[f] = IF w.failed \/ Broken(f) THEN "broken" ELSE "open"
      /\ \A g \in Names \ {f} : status'[g] = status[g]
  BY <1>3, <1>8
<1>10. TypeOK'
  <2>1. torn' \in [Names -> BOOLEAN]
    BY <1>1, <1>2 DEF TypeOK
  <2>2. QED
    BY <1>2, <1>6, <1>7, <1>9, <2>1, TakenTypes
<1>11. Untouched'
  <2> SUFFICES ASSUME NEW g \in Names \ Files
               PROVE  /\ accepted'[g] = << >> /\ file'[g] = << >> /\ group'[g] = << >>
                      /\ fails'[g] = 0 /\ status'[g] = "none"
    BY DEF Untouched, Files, Taking
  <2>1. g # f /\ g \in Names
    BY <1>2
  <2>2. /\ accepted[g] = << >> /\ file[g] = << >> /\ group[g] = << >>
        /\ fails[g] = 0 /\ status[g] = "none"
    BY <1>2 DEF Untouched
  <2>3. QED
    BY <1>6, <1>7, <1>9, <2>1, <2>2 DEF OnlyAt
<1>12. Rowed'
  <2> SUFFICES ASSUME NEW g \in Names, fails'[g] = 0
               PROVE  /\ status'[g] # "broken"
                      /\ status'[g] = "none" => accepted'[g] = << >>
                      /\ file'[g] \o group'[g] \o buf'[g] = accepted'[g]
                      /\ status'[g] # "finished"
    BY DEF Rowed
  <2>1. CASE g = f
    <3>1. fails[f] = 0 /\ ~(w.failed /\ status[f] # "broken")
      <4>1. fails[f] \in Nat /\ fails'[f] = fails[f] + IF w.failed /\ status[f] # "broken" THEN 1 ELSE 0
        BY <1>2, <1>3, <1>6 DEF OnlyAt, TypeOK
      <4>2. QED
        BY <4>1, <2>1
    <3>2. status[f] # "broken" /\ Rows(Of(f)) = accepted[f]
      BY <1>2, <1>3, <1>4, <3>1 DEF Rowed
    <3>3. ~w.failed /\ ~Broken(f)
      BY <3>1, <3>2 DEF Broken
    <3>4. file'[f] \o group'[f] \o buf'[f] = Rows(w)
      BY <1>6 DEF Rows, OnlyAt
    <3>5. QED
      BY <1>5, <1>7, <1>9, <2>1, <3>2, <3>3, <3>4
  <2>2. CASE g # f
    <3>1. /\ fails[g] = 0 /\ status'[g] = status[g] /\ accepted'[g] = accepted[g]
          /\ file'[g] = file[g] /\ group'[g] = group[g] /\ buf'[g] = buf[g]
      BY <1>6, <1>7, <1>9, <2>2 DEF OnlyAt
    <3>2. QED
      BY <1>2, <3>1 DEF Rowed, Taking
  <2>3. QED
    BY <2>1, <2>2
<1>13. Finished' /\ LineInv'
  BY <1>2 DEF Finished, LineInv, Lined, FlushKept, LineStatus, Visited, Counted, SpoilBudget,
              Taking, Line
<1>14. QED
  BY <1>10, <1>11, <1>12, <1>13 DEF SinkInv

(* A record that no file takes leaves the files alone.                     *)
LEMMA RecordKeeps ==
    ASSUME SinkInv, Record PROVE SinkInv'
<1>1. TypeOK /\ asked \in 0 .. MaxRecords /\ MaxRecords \in Nat /\ backend \in Backends
  BY SinksAssumption DEF SinkInv, TypeOK
<1>2. Taking /\ asked' \in Recorded
  <2>1. /\ phase = "taking" /\ asked < MaxRecords /\ asked' = asked + 1
        /\ UNCHANGED <<backend, phase, todo, flushed>>
    BY DEF Record
  <2>2. QED
    BY <1>1, <2>1 DEF Taking, Recorded
<1>3. PICK k \in Kinds :
        LET f == FileOf(backend, k) IN
           \/ /\ f = "nowhere"
              /\ UNCHANGED <<accepted, errors, fails, buf, group, file, status, torn>>
           \/ f # "nowhere" /\ RecordJson(f, asked')
           \/ f # "nowhere" /\ RecordCsv(f, asked')
           \/ f # "nowhere" /\ RecordParquet(f, asked')
  BY DEF Record
<1>4. CASE UNCHANGED <<accepted, errors, fails, buf, group, file, status, torn>>
  <2>1. backend' = backend /\ todo' = todo /\ flushed' = flushed /\ phase' = phase
    BY DEF Record
  <2>2. TypeOK'
    <3>1. Line' = Line /\ Held' = Held
      BY <2>1 DEF Line, Held
    <3>2. /\ accepted' = accepted /\ errors' = errors /\ fails' = fails /\ buf' = buf
          /\ group' = group /\ file' = file /\ status' = status /\ torn' = torn
      BY <1>4
    <3>3. FileTypes'
      BY <1>1, <3>1, <3>2 DEF TypeOK, FileTypes
    <3>4. /\ accepted \in [Names -> Seq(Recorded)] /\ errors \in Nat
          /\ torn \in [Names -> BOOLEAN]
          /\ status \in [Names -> {"none", "open", "broken", "finished"}]
      BY <1>1 DEF TypeOK
    <3>5. \A g \in Names : Len(accepted[g]) \in Nat /\ Len(accepted[g]) <= Len(accepted[g])
      <4>1. \A g \in Names : accepted[g] \in Seq(Recorded)
        BY <3>4
      <4>2. \A g \in Names : Len(accepted[g]) \in Nat
        BY <4>1, LenProperties
      <4>3. QED
        BY <4>2
    <3>6. QED
      BY <1>1, <1>2, <3>2, <3>3, <3>4, <3>5, TakenTypes
  <2>3. TypeOK /\ Untouched /\ LineInv /\ Rowed /\ Finished
    BY DEF SinkInv
  <2>4. Files' = Files /\ Line' = Line
    BY <2>1 DEF Files, Line
  <2>8. Untouched'
    BY <1>4, <2>3, <2>4 DEF Untouched
  <2>9. Rowed'
    BY <1>4, <2>1, <2>3, <2>4 DEF Rowed
  <2>10. Finished'
    <3>1. phase' = "taking"
      BY DEF Record
    <3>2. QED
      BY <3>1 DEF Finished
  <2>5. Lined' /\ FlushKept' /\ LineStatus' /\ SpoilBudget'
    BY <1>4, <2>1, <2>3
       DEF LineInv, Lined, FlushKept, LineStatus, SpoilBudget, Spoiled, Stream, Line
  <2>6. Visited' /\ Counted'
    BY <1>4, <2>1, <2>3 DEF LineInv, Visited, Counted, NoFail, Line, Files
  <2>7. QED
    BY <2>2, <2>8, <2>9, <2>10, <2>5, <2>6 DEF SinkInv, LineInv
<1>5. ASSUME FileOf(backend, k) # "nowhere" PROVE FileOf(backend, k) \in Files
  BY <1>1, <1>5, NamesAre
<1>6. QED
  BY <1>2, <1>3, <1>4, <1>5, JsonKeeps, CsvKeeps, ParquetKeeps

(* The steps of a flush and of the drop.                                   *)
LEMMA StartFlushKeeps ==
    ASSUME SinkInv, StartFlush PROVE SinkInv'
<1>1. TypeOK /\ Untouched /\ LineInv /\ Rowed /\ phase = "taking"
  BY DEF SinkInv, StartFlush
<1>2. /\ UNCHANGED <<backend, asked, accepted, errors, fails, buf, group, file, status, torn,
                     flushed>>
      /\ todo' = Files
      /\ phase' \in {"taking", "flushing", "ending", "dropping"}
      /\ phase' = "dropping" => Files = {}
  BY DEF StartFlush, Visits, AfterFlush
<1>3. Files' = Files /\ Line' = Line /\ Held' = Held
  BY <1>2 DEF Files, Line, Held
<1>4. TypeOK'
  BY <1>1, <1>2, <1>3 DEF TypeOK
<1>5. Untouched'
  BY <1>1, <1>2, <1>3 DEF Untouched
<1>6. Lined' /\ FlushKept' /\ LineStatus' /\ SpoilBudget'
  BY <1>1, <1>2, <1>3 DEF LineInv, Lined, FlushKept, LineStatus, SpoilBudget, Spoiled, Stream
<1>7. Visited'
  BY <1>2, <1>3 DEF Visited
<1>8. Counted'
  BY <1>1, <1>2, <1>3 DEF LineInv, Counted, NoFail
<1>9. Rowed' /\ Finished'
  BY <1>1, <1>2, <1>3 DEF Rowed, Finished
<1>10. QED
  BY <1>4, <1>5, <1>6, <1>7, <1>8, <1>9 DEF SinkInv, LineInv

LEMMA KilledKeeps ==
    ASSUME SinkInv, Killed PROVE SinkInv'
<1>1. TypeOK /\ Untouched /\ LineInv /\ Rowed
  BY DEF SinkInv
<1>2. /\ UNCHANGED <<backend, asked, accepted, errors, fails, buf, group, file, status, torn,
                     todo, flushed>>
      /\ phase' = "killed"
  BY DEF Killed
<1>3. Files' = Files /\ Line' = Line /\ Held' = Held
  BY <1>2 DEF Files, Line, Held
<1>4. TypeOK'
  BY <1>1, <1>2, <1>3 DEF TypeOK
<1>5. Untouched'
  BY <1>1, <1>2, <1>3 DEF Untouched
<1>6. Lined' /\ FlushKept' /\ LineStatus' /\ SpoilBudget'
  BY <1>1, <1>2, <1>3 DEF LineInv, Lined, FlushKept, LineStatus, SpoilBudget, Spoiled, Stream
<1>7. Visited' /\ Counted' /\ Rowed' /\ Finished'
  BY <1>1, <1>2, <1>3 DEF LineInv, Visited, Counted, NoFail, Rowed, Finished
<1>8. QED
  BY <1>4, <1>5, <1>6, <1>7 DEF SinkInv, LineInv

LEMMA StartDropKeeps ==
    ASSUME SinkInv, StartDrop PROVE SinkInv'
<1>1. TypeOK /\ Untouched /\ LineInv /\ Rowed /\ phase = "dropping"
  BY DEF SinkInv, StartDrop
<1>2. /\ UNCHANGED <<backend, asked, accepted, errors, fails, buf, group, file, status, torn,
                     flushed>>
      /\ todo' = {f \in Files : Line \/ status[f] # "none"}
      /\ phase' \in {"closing", "gone"}
  BY DEF StartDrop
<1>3. Files' = Files /\ Line' = Line /\ Held' = Held
  BY <1>2 DEF Files, Line, Held
<1>4. TypeOK'
  BY <1>1, <1>2, <1>3 DEF TypeOK
<1>5. Untouched'
  BY <1>1, <1>2, <1>3 DEF Untouched
<1>6. Lined' /\ FlushKept' /\ LineStatus' /\ SpoilBudget'
  BY <1>1, <1>2, <1>3 DEF LineInv, Lined, FlushKept, LineStatus, SpoilBudget, Spoiled, Stream
<1>7. Visited'
  BY <1>2, <1>3 DEF Visited
<1>8. Counted'
  BY <1>1, <1>2, <1>3 DEF LineInv, Counted, NoFail
<1>9. Rowed' /\ Finished'
  BY <1>1, <1>2, <1>3 DEF Rowed, Finished
<1>10. QED
  BY <1>4, <1>5, <1>6, <1>7, <1>8, <1>9 DEF SinkInv, LineInv

(* The types that a step on one file's writer keeps.                       *)
LEMMA StepTypes ==
    ASSUME TypeOK, FileTypes', backend' = backend, asked' = asked, accepted' = accepted,
           torn' = torn, errors' \in Nat, todo' \subseteq todo,
           status' \in [Names -> {"none", "open", "broken", "finished"}],
           flushed' = flushed \/ flushed' = [x \in Names |-> Len(accepted[x])],
           phase' \in {"taking", "flushing", "ending", "dropping", "closing", "gone", "killed"}
    PROVE  TypeOK'
<1>1. Files' = Files /\ Line' = Line /\ Held' = Held
  BY DEF Files, Line, Held
<1>2. flushed' \in [Names -> Nat] /\ \A g \in Names : flushed'[g] <= Len(accepted[g])
  <2>1. \A g \in Names : accepted[g] \in Seq(Recorded)
    BY DEF TypeOK
  <2>2. \A g \in Names : Len(accepted[g]) \in Nat
    BY <2>1, LenProperties
  <2>3. CASE flushed' = flushed
    BY <2>3 DEF TypeOK
  <2>4. CASE flushed' = [x \in Names |-> Len(accepted[x])]
    BY <2>2, <2>4
  <2>5. QED
    BY <2>3, <2>4
<1>3. QED
  BY <1>1, <1>2 DEF TypeOK, FileTypes

LEMMA FlushLineKeeps ==
    ASSUME SinkInv, Line, FlushOne PROVE SinkInv'
<1>1. /\ TypeOK /\ Untouched /\ Lined /\ FlushKept /\ LineStatus /\ Visited /\ Counted
      /\ SpoilBudget
  BY DEF SinkInv, LineInv
<1>f. PICK f \in todo : \E w \in Spill(Of(f)) :
        /\ Became(f, w) /\ UNCHANGED status
        /\ errors' = errors + IF w.failed THEN 1 ELSE 0
        /\ todo' = IF w.failed THEN {} ELSE todo \ {f}
        /\ IF todo' # {} THEN UNCHANGED <<phase, flushed>>
           ELSE /\ phase' = AfterFlush(phase)
                /\ flushed' = IF w.failed THEN flushed
                              ELSE [x \in Names |-> Len(accepted[x])]
  BY DEF FlushOne, Written
<1>2. PICK w \in Spill(Of(f)) :
        /\ Became(f, w) /\ UNCHANGED status
        /\ errors' = errors + IF w.failed THEN 1 ELSE 0
        /\ todo' = IF w.failed THEN {} ELSE todo \ {f}
        /\ IF todo' # {} THEN UNCHANGED <<phase, flushed>>
           ELSE /\ phase' = AfterFlush(phase)
                /\ flushed' = IF w.failed THEN flushed
                              ELSE [x \in Names |-> Len(accepted[x])]
  BY <1>f
<1>3. /\ UNCHANGED <<backend, asked, accepted, torn>> /\ phase \in {"flushing", "ending"}
  BY DEF FlushOne
<1>4. /\ Files' = Files /\ Line' = Line /\ todo \subseteq Files /\ f \in Files
      /\ f \in Names /\ Files \subseteq Names
  <2>1. todo \subseteq Files /\ backend \in Backends
    BY <1>1 DEF TypeOK
  <2>2. QED
    BY <1>3, <2>1, NamesAre DEF Files, Line
<1>5. /\ FileTypes' /\ Sideways /\ OnlyAt(f, w) /\ group' = group
      /\ ~w.failed => buf'[f] = << >>
      /\ w.failed => buf[f] # << >> /\ fails'[f] > 0
  BY <1>1, <1>f, <1>2, <1>3, <1>4, SpillStep
<1>6. /\ Lined' /\ SpoilBudget'
      /\ \A g \in Names : fails'[g] = 0 =>
           fails[g] = 0 /\ Len(Lines(file[g])) <= Len(Lines(file'[g]))
  BY <1>1, <1>3, <1>5, SidewaysKeeps
<1>7. phase' \in {"taking", "flushing", "ending", "dropping"} /\ todo' \subseteq todo
      /\ (flushed' = flushed \/ flushed' = [x \in Names |-> Len(accepted[x])])
  BY <1>f, <1>2, <1>3 DEF AfterFlush
<1>8. TypeOK'
  <2>1. errors' \in Nat /\ status' \in [Names -> {"none", "open", "broken", "finished"}]
    BY <1>1, <1>f, <1>2 DEF TypeOK
  <2>2. QED
    BY <1>1, <1>3, <1>5, <1>7, <2>1, StepTypes
<1>9. \A g \in Names \ {f} :
        /\ buf'[g] = buf[g] /\ group'[g] = group[g] /\ file'[g] = file[g] /\ fails'[g] = fails[g]
  BY <1>5 DEF OnlyAt
<1>10. Untouched'
  BY <1>1, <1>f, <1>2, <1>3, <1>4, <1>9 DEF Untouched
<1>11. ASSUME ~w.failed, NEW g \in Files, g \notin todo' PROVE buf'[g] = << >>
  BY <1>1, <1>f, <1>2, <1>3, <1>4, <1>5, <1>9, <1>11 DEF Visited
<1>12. FlushKept'
  <2> SUFFICES ASSUME NEW g \in Names, fails'[g] = 0 PROVE Len(Lines(file'[g])) >= flushed'[g]
    BY DEF FlushKept
  <2>1. Len(Lines(file'[g])) \in Nat
    <3>1. Lines(file'[g]) \in Seq(Recorded)
      <4>1. file'[g] \in Seq(UnitSet)
        BY <1>4, <1>5, HeldInLines, <1>3 DEF FileTypes, Held, Line, UnitSet
      <4>2. QED
        BY <4>1, LinesType
    <3>2. QED
      BY <3>1, LenProperties
  <2>2. CASE flushed' = flushed
    <3>1. fails[g] = 0 /\ Len(Lines(file[g])) <= Len(Lines(file'[g]))
      BY <1>6
    <3>2. Len(Lines(file[g])) >= flushed[g] /\ Len(Lines(file[g])) \in Nat /\ flushed[g] \in Nat
      <4>1. Lines(file[g]) \in Seq(Recorded)
        BY <1>1, StreamType
      <4>2. QED
        BY <1>1, <3>1, <4>1, LenProperties DEF FlushKept, TypeOK
    <3>3. QED
      BY <2>1, <2>2, <3>1, <3>2
  <2>3. CASE ~w.failed /\ todo' = {} /\ flushed' = [x \in Names |-> Len(accepted[x])]
    <3>1. CASE g \in Files
      <4>1. buf'[g] = << >>
        BY <1>11, <2>3, <3>1
      <4>2. file'[g] \in Seq(Held')
        BY <1>5 DEF FileTypes
      <4>3. file'[g] \o buf'[g] = file'[g]
        BY <4>1, <4>2, ConcatEmptySeq
      <4>4. Lines(file'[g]) = accepted[g]
        BY <1>3, <1>4, <1>6, <4>3 DEF Lined, Stream
      <4>5. QED
        BY <2>1, <2>3, <4>4
    <3>2. CASE g \notin Files
      <4>1. accepted[g] = << >>
        BY <1>1, <3>2 DEF Untouched
      <4>2. flushed'[g] = 0
        BY <2>3, <4>1, EmptySeq
      <4>3. QED
        BY <2>1, <4>2
    <3>3. QED
      BY <3>1, <3>2
  <2>4. QED
    BY <1>f, <1>2, <2>2, <2>3
<1>13. LineStatus'
  BY <1>1, <1>f, <1>2 DEF LineStatus
<1>14. Visited'
  BY <1>f, <1>2, <1>4, <1>7, <1>11 DEF Visited, AfterFlush
<1>15. Counted'
  <2> SUFFICES ASSUME errors' = 0
               PROVE  /\ \A g \in Names : fails'[g] = 0
                      /\ phase' \in {"dropping", "closing", "gone"} => \A g \in Files : buf'[g] = << >>
    BY <1>4 DEF Counted, NoFail
  <2>1. errors = 0 /\ ~w.failed
    BY <1>1, <1>f, <1>2 DEF TypeOK
  <2>2. \A g \in Names : fails[g] = 0
    BY <1>1, <2>1 DEF Counted, NoFail
  <2>3. fails'[f] = 0
    BY <1>4, <1>5, <2>1, <2>2 DEF OnlyAt
  <2>4. \A g \in Names : fails'[g] = 0
    BY <1>9, <2>2, <2>3
  <2>5. phase' \in {"dropping", "closing", "gone"} => todo' = {}
    BY <1>f, <1>2, <1>3
  <2>6. QED
    BY <1>11, <2>1, <2>4, <2>5
<1>16. Rowed' /\ Finished'
  BY <1>4 DEF Rowed, Finished
<1>17. QED
  BY <1>6, <1>8, <1>10, <1>12, <1>13, <1>14, <1>15, <1>16 DEF SinkInv, LineInv

LEMMA CloseLineKeeps ==
    ASSUME SinkInv, Line, CloseOne PROVE SinkInv'
<1>1. /\ TypeOK /\ Untouched /\ Lined /\ FlushKept /\ LineStatus /\ Visited /\ Counted
      /\ SpoilBudget
  BY DEF SinkInv, LineInv
<1>f. PICK f \in todo : \E w \in Spill(Of(f)) :
        Became(f, w) /\ UNCHANGED status /\ todo' = todo \ {f}
  BY DEF CloseOne
<1>2. PICK w \in Spill(Of(f)) :
        Became(f, w) /\ UNCHANGED status /\ todo' = todo \ {f}
  BY <1>f
<1>3. /\ UNCHANGED <<backend, asked, accepted, errors, torn, flushed>>
      /\ phase = "closing" /\ phase' \in {"closing", "gone"}
  BY DEF CloseOne
<1>4. /\ Files' = Files /\ Line' = Line /\ todo \subseteq Files /\ f \in Files
      /\ f \in Names /\ Files \subseteq Names
  <2>1. todo \subseteq Files /\ backend \in Backends
    BY <1>1 DEF TypeOK
  <2>2. QED
    BY <1>3, <2>1, NamesAre DEF Files, Line
<1>5. /\ FileTypes' /\ Sideways /\ OnlyAt(f, w) /\ group' = group
      /\ ~w.failed => buf'[f] = << >>
      /\ w.failed => buf[f] # << >> /\ fails'[f] > 0
  BY <1>1, <1>f, <1>2, <1>3, <1>4, SpillStep
<1>6. /\ Lined' /\ SpoilBudget'
      /\ \A g \in Names : fails'[g] = 0 =>
           fails[g] = 0 /\ Len(Lines(file[g])) <= Len(Lines(file'[g]))
  BY <1>1, <1>3, <1>5, SidewaysKeeps
<1>8. TypeOK'
  <2>1. errors' \in Nat /\ status' \in [Names -> {"none", "open", "broken", "finished"}]
    BY <1>1, <1>f, <1>2, <1>3 DEF TypeOK
  <2>2. QED
    BY <1>1, <1>f, <1>2, <1>3, <1>5, <2>1, StepTypes
<1>9. \A g \in Names \ {f} :
        /\ buf'[g] = buf[g] /\ group'[g] = group[g] /\ file'[g] = file[g] /\ fails'[g] = fails[g]
  BY <1>5 DEF OnlyAt
<1>10. Untouched'
  BY <1>1, <1>f, <1>2, <1>3, <1>4, <1>9 DEF Untouched
<1>11. FlushKept'
  <2> SUFFICES ASSUME NEW g \in Names, fails'[g] = 0 PROVE Len(Lines(file'[g])) >= flushed[g]
    BY <1>3 DEF FlushKept
  <2>1. Grown(file[g], file'[g]) /\ fails[g] = 0
    BY <1>5, <1>6 DEF Sideways
  <2>2. Len(Lines(file'[g])) \in Nat /\ Len(Lines(file[g])) <= Len(Lines(file'[g]))
    BY <1>1, <2>1, MoreToRead
  <2>3. Lines(file[g]) \in Seq(Recorded) /\ flushed[g] \in Nat
    BY <1>1, StreamType DEF TypeOK
  <2>4. Len(Lines(file[g])) \in Nat /\ Len(Lines(file[g])) >= flushed[g]
    BY <1>1, <2>1, <2>3, LenProperties DEF FlushKept
  <2>5. QED
    BY <2>2, <2>3, <2>4
<1>12. LineStatus'
  BY <1>1, <1>f, <1>2 DEF LineStatus
<1>13. Visited'
  <2> SUFFICES ASSUME NEW g \in Files, g \notin todo', fails'[g] = 0 PROVE buf'[g] = << >>
    BY <1>3, <1>4 DEF Visited
  <2>1. CASE g = f
    BY <1>5, <2>1
  <2>2. CASE g # f
    BY <1>1, <1>f, <1>2, <1>3, <1>4, <1>9, <2>2 DEF Visited
  <2>3. QED
    BY <2>1, <2>2
<1>14. Counted'
  <2> SUFFICES ASSUME errors = 0
               PROVE  /\ \A g \in Names : fails'[g] = 0
                      /\ \A g \in Files : buf'[g] = << >>
    BY <1>3, <1>4 DEF Counted, NoFail
  <2>1. (\A g \in Names : fails[g] = 0) /\ (\A g \in Files : buf[g] = << >>)
    BY <1>1, <1>3 DEF Counted, NoFail
  <2>2. ~w.failed
    BY <1>4, <1>5, <2>1
  <2>3. fails'[f] = 0 /\ buf'[f] = << >>
    BY <1>4, <1>5, <2>1, <2>2 DEF OnlyAt
  <2>4. QED
    BY <1>4, <1>9, <2>1, <2>3
<1>15. Rowed' /\ Finished'
  BY <1>4 DEF Rowed, Finished
<1>16. QED
  BY <1>6, <1>8, <1>10, <1>11, <1>12, <1>13, <1>14, <1>15 DEF SinkInv, LineInv

LEMMA FlushParquetKeeps ==
    ASSUME SinkInv, ~Line, FlushOne PROVE SinkInv'
<1>1. TypeOK /\ Untouched /\ Rowed
  BY DEF SinkInv
<1>f. PICK f \in todo : \E w \in FlushRows(Of(f), Broken(f)) :
        /\ Became(f, w) /\ Mark(f, w, status[f])
        /\ errors' = errors + IF w.failed THEN 1 ELSE 0
        /\ todo' = IF w.failed THEN {} ELSE todo \ {f}
        /\ IF todo' # {} THEN UNCHANGED <<phase, flushed>>
           ELSE /\ phase' = AfterFlush(phase)
                /\ flushed' = IF w.failed THEN flushed
                              ELSE [x \in Names |-> Len(accepted[x])]
  BY DEF FlushOne, Written
<1>2. PICK w \in FlushRows(Of(f), Broken(f)) :
        /\ Became(f, w) /\ Mark(f, w, status[f])
        /\ errors' = errors + IF w.failed THEN 1 ELSE 0
        /\ todo' = IF w.failed THEN {} ELSE todo \ {f}
        /\ IF todo' # {} THEN UNCHANGED <<phase, flushed>>
           ELSE /\ phase' = AfterFlush(phase)
                /\ flushed' = IF w.failed THEN flushed
                              ELSE [x \in Names |-> Len(accepted[x])]
  BY <1>f
<1>3. /\ UNCHANGED <<backend, asked, accepted, torn>> /\ phase \in {"flushing", "ending"}
  BY DEF FlushOne
<1>4. /\ Files' = Files /\ Line' = Line /\ todo \subseteq Files /\ f \in Files
      /\ f \in Names /\ Files \subseteq Names
  <2>1. todo \subseteq Files /\ backend \in Backends
    BY <1>1 DEF TypeOK
  <2>2. QED
    BY <1>3, <1>f, <2>1, NamesAre DEF Files, Line
<1>5. /\ Of(f) \in Writers /\ ~Of(f).failed
      /\ Len(Of(f).group) < RowGroup /\ Len(Of(f).buf) < RowGroup
      /\ Rows(Of(f)) = file[f] \o group[f] \o buf[f]
  BY <1>1, <1>4, OfWriter
<1>6. /\ w \in Writers /\ w.buf = << >> /\ Len(w.group) < RowGroup
      /\ ~w.failed => Rows(w) = Rows(Of(f))
  <2>1. Broken(f) \in BOOLEAN
    BY DEF Broken
  <2>2. Len(Of(f).buf) <= RowGroup
    <3>1. Len(Of(f).buf) \in Nat /\ RowGroup \in Nat
      BY <1>5, RowsParts, SinksAssumption
    <3>2. QED
      BY <1>5, <3>1
  <2>3. QED
    BY <1>2, <1>5, <2>1, <2>2, FlushRowsEnds
<1>7. FileTypes' /\ OnlyAt(f, w)
  <2>1. Len(w.buf) < RowGroup
    BY <1>6, EmptySeq, SinksAssumption
  <2>2. QED
    BY <1>1, <1>2, <1>3, <1>4, <1>6, <2>1, BecameEnds
<1>8. /\ status' \in [Names -> {"none", "open", "broken", "finished"}]
      /\ status'[f] = IF w.failed THEN "broken" ELSE status[f]
      /\ \A g \in Names \ {f} : status'[g] = status[g]
  <2>1. status' = [status EXCEPT ![f] = IF w.failed THEN "broken" ELSE status[f]]
    BY <1>2 DEF Mark
  <2>2. status \in [Names -> {"none", "open", "broken", "finished"}]
    BY <1>1 DEF TypeOK
  <2>3. QED
    BY <1>4, <2>1, <2>2
<1>9. phase' \in {"taking", "flushing", "ending", "dropping"} /\ todo' \subseteq todo
      /\ (flushed' = flushed \/ flushed' = [x \in Names |-> Len(accepted[x])])
  BY <1>2, <1>3 DEF AfterFlush
<1>10. TypeOK'
  <2>1. errors' \in Nat
    BY <1>1, <1>2 DEF TypeOK
  <2>2. QED
    BY <1>1, <1>3, <1>7, <1>8, <1>9, <2>1, StepTypes
<1>11. Untouched'
  BY <1>1, <1>3, <1>4, <1>7, <1>8 DEF Untouched, OnlyAt
<1>12. Rowed'
  <2> SUFFICES ASSUME NEW g \in Names, fails'[g] = 0
               PROVE  /\ status'[g] # "broken"
                      /\ status'[g] = "none" => accepted[g] = << >>
                      /\ file'[g] \o group'[g] \o buf'[g] = accepted[g]
                      /\ status'[g] # "finished"
    BY <1>3 DEF Rowed
  <2>1. CASE g = f
    <3>1. fails[f] = 0 /\ ~(w.failed /\ status[f] # "broken")
      <4>1. fails[f] \in Nat /\ fails'[f] = fails[f] + IF w.failed /\ status[f] # "broken" THEN 1 ELSE 0
        BY <1>1, <1>4, <1>7 DEF OnlyAt, TypeOK
      <4>2. QED
        BY <4>1, <2>1
    <3>2. /\ status[f] # "broken" /\ Rows(Of(f)) = accepted[f] /\ status[f] # "finished"
          /\ status[f] = "none" => accepted[f] = << >>
      BY <1>1, <1>3, <1>4, <1>5, <3>1 DEF Rowed
    <3>3. file'[f] \o group'[f] \o buf'[f] = Rows(w)
      BY <1>7 DEF Rows, OnlyAt
    <3>4. QED
      BY <1>6, <1>8, <2>1, <3>1, <3>2, <3>3
  <2>2. CASE g # f
    <3>1. /\ fails[g] = 0 /\ status'[g] = status[g]
          /\ file'[g] = file[g] /\ group'[g] = group[g] /\ buf'[g] = buf[g]
      BY <1>7, <1>8, <2>2 DEF OnlyAt
    <3>2. QED
      BY <1>1, <1>3, <3>1 DEF Rowed
  <2>3. QED
    BY <2>1, <2>2
<1>13. Finished' /\ LineInv'
  <2>1. ~Line' /\ backend' # "jsonl"
    BY <1>3, <1>4 DEF Line
  <2>2. QED
    BY <1>9, <2>1 DEF Finished, LineInv, Lined, FlushKept, LineStatus, Visited, Counted, SpoilBudget
<1>14. QED
  BY <1>10, <1>11, <1>12, <1>13 DEF SinkInv

LEMMA CloseParquetKeeps ==
    ASSUME SinkInv, ~Line, CloseOne PROVE SinkInv'
<1>1. TypeOK /\ Untouched /\ Rowed /\ Finished
  BY DEF SinkInv
<1>f. PICK f \in todo : \E w \in FinishRows(Of(f), Broken(f)) :
        /\ NextToVisit(f) /\ Became(f, w) /\ Mark(f, w, "finished")
        /\ todo' = IF w.failed THEN {} ELSE todo \ {f}
  BY DEF CloseOne
<1>2. PICK w \in FinishRows(Of(f), Broken(f)) :
        /\ NextToVisit(f) /\ Became(f, w) /\ Mark(f, w, "finished")
        /\ todo' = IF w.failed THEN {} ELSE todo \ {f}
  BY <1>f
<1>3. /\ UNCHANGED <<backend, asked, accepted, errors, torn, flushed>>
      /\ phase = "closing" /\ phase' \in {"closing", "gone"}
  BY DEF CloseOne
<1>4. /\ Files' = Files /\ Line' = Line /\ todo \subseteq Files /\ f \in Files
      /\ f \in Names /\ Files \subseteq Names
  <2>1. todo \subseteq Files /\ backend \in Backends
    BY <1>1 DEF TypeOK
  <2>2. QED
    BY <1>3, <1>f, <2>1, NamesAre DEF Files, Line
<1>5. /\ Of(f) \in Writers /\ ~Of(f).failed /\ Rows(Of(f)) = file[f] \o group[f] \o buf[f]
  BY <1>1, <1>4, OfWriter
<1>6. /\ w \in Writers /\ w.buf = << >> /\ w.group = << >>
      /\ ~w.failed => w.file = Rows(Of(f))
  <2>1. Broken(f) \in BOOLEAN
    BY DEF Broken
  <2>2. QED
    BY <1>2, <1>5, <2>1, FinishRowsEnds
<1>7. FileTypes' /\ OnlyAt(f, w)
  <2>1. Len(w.buf) < RowGroup /\ Len(w.group) < RowGroup
    BY <1>6, EmptySeq, SinksAssumption
  <2>2. QED
    BY <1>1, <1>2, <1>3, <1>4, <1>6, <2>1, BecameEnds
<1>8. /\ status' \in [Names -> {"none", "open", "broken", "finished"}]
      /\ status'[f] = IF w.failed THEN "broken" ELSE "finished"
      /\ \A g \in Names \ {f} : status'[g] = status[g]
  <2>1. status' = [status EXCEPT ![f] = IF w.failed THEN "broken" ELSE "finished"]
    BY <1>2 DEF Mark
  <2>2. status \in [Names -> {"none", "open", "broken", "finished"}]
    BY <1>1 DEF TypeOK
  <2>3. QED
    BY <1>4, <2>1, <2>2
<1>9. TypeOK'
  <2>1. errors' \in Nat /\ todo' \subseteq todo
    BY <1>1, <1>2, <1>3 DEF TypeOK
  <2>2. QED
    BY <1>1, <1>3, <1>7, <1>8, <2>1, StepTypes
<1>10. Untouched'
  BY <1>1, <1>3, <1>4, <1>7, <1>8 DEF Untouched, OnlyAt
<1>11. ASSUME NEW g \in Names, fails'[g] = 0
       PROVE  /\ fails[g] = 0 /\ (g = f => ~w.failed)
              /\ status'[g] # "broken"
              /\ status'[g] = "none" => accepted[g] = << >>
              /\ file'[g] \o group'[g] \o buf'[g] = accepted[g]
              /\ status'[g] = "finished" => group'[g] = << >> /\ buf'[g] = << >>
  <2>1. CASE g = f
    <3>1. fails[f] = 0 /\ ~(w.failed /\ status[f] # "broken")
      <4>1. fails[f] \in Nat /\ fails'[f] = fails[f] + IF w.failed /\ status[f] # "broken" THEN 1 ELSE 0
        BY <1>1, <1>4, <1>7 DEF OnlyAt, TypeOK
      <4>2. QED
        BY <4>1, <1>11, <2>1
    <3>2. status[f] # "broken" /\ Rows(Of(f)) = accepted[f]
      BY <1>1, <1>4, <1>5, <3>1 DEF Rowed
    <3>3. w.file = accepted[f] /\ w.file \in Seq(Held) /\ ~w.failed
      BY <1>6, <3>1, <3>2 DEF Writers
    <3>4. file'[f] = w.file /\ group'[f] = << >> /\ buf'[f] = << >>
      BY <1>6, <1>7 DEF OnlyAt
    <3>5. file'[f] \o group'[f] \o buf'[f] = accepted[f]
      BY <3>3, <3>4, ConcatEmptySeq
    <3>6. QED
      BY <1>8, <2>1, <3>1, <3>3, <3>4, <3>5
  <2>2. CASE g # f
    <3>1. /\ fails[g] = 0 /\ status'[g] = status[g]
          /\ file'[g] = file[g] /\ group'[g] = group[g] /\ buf'[g] = buf[g]
      BY <1>7, <1>8, <1>11, <2>2 DEF OnlyAt
    <3>2. QED
      BY <1>1, <2>2, <3>1 DEF Rowed
  <2>3. QED
    BY <2>1, <2>2
<1>12. Rowed'
  BY <1>3, <1>11 DEF Rowed
<1>13. Finished'
  <2>1. /\ \A g \in Names : fails[g] > 0 => fails'[g] > 0
        /\ w.failed => fails'[f] > 0
    <3>1. \A g \in Names : fails[g] \in Nat
      BY <1>1 DEF TypeOK
    <3>2. status[f] = "broken" => fails[f] > 0
      <4>1. fails[f] = 0 => status[f] # "broken"
        BY <1>1, <1>4, Zenon DEF Rowed
      <4>2. QED
        BY <1>4, <3>1, <4>1
    <3>3. fails'[f] = fails[f] + IF w.failed /\ status[f] # "broken" THEN 1 ELSE 0
      BY <1>7 DEF OnlyAt
    <3>4. \A g \in Names \ {f} : fails'[g] = fails[g]
      BY <1>7 DEF OnlyAt
    <3>5. fails'[f] \in Nat /\ (fails[f] > 0 => fails'[f] > 0) /\ (w.failed => fails'[f] > 0)
      BY <1>4, <3>1, <3>2, <3>3
    <3>6. QED
      BY <1>4, <3>4, <3>5
  <2>2. /\ \A g \in todo : Place(f) <= Place(g)
        /\ \A g \in Names : Place(g)' = Place(g)
    BY <1>2, <1>3 DEF NextToVisit, Place
  <2> SUFFICES ASSUME NEW g \in Files, g \notin todo'
               PROVE  status'[g] \in {"none", "finished"} \/ Spoilt(g)'
    BY <1>4 DEF Finished
  <2>3. Spoilt(g)' <=> \E x \in Files : Place(x) <= Place(g) /\ fails'[x] > 0
    BY <1>4, <2>2 DEF Spoilt
  <2>4. CASE g \in todo /\ w.failed
    BY <1>4, <2>1, <2>2, <2>3, <2>4
  <2>5. CASE g = f /\ ~w.failed
    BY <1>8, <2>5
  <2>6. CASE g \notin todo
    <3>1. g # f /\ status'[g] = status[g] /\ (status[g] \in {"none", "finished"} \/ Spoilt(g))
      BY <1>1, <1>2, <1>3, <1>4, <1>8, <2>6 DEF Finished
    <3>2. Spoilt(g) => \E x \in Files : Place(x) <= Place(g) /\ fails[x] > 0
      BY DEF Spoilt
    <3>3. QED
      BY <1>4, <2>1, <2>3, <3>1, <3>2
  <2>7. CASE g # f /\ g \in todo /\ ~w.failed
    BY <1>2, <2>7
  <2>8. QED
    BY <2>4, <2>5, <2>6, <2>7
<1>14. LineInv'
  <2>1. ~Line' /\ backend' # "jsonl"
    BY <1>3, <1>4 DEF Line
  <2>2. QED
    BY <2>1 DEF LineInv, Lined, FlushKept, LineStatus, Visited, Counted, SpoilBudget
<1>15. QED
  BY <1>9, <1>10, <1>12, <1>13, <1>14 DEF SinkInv

(* The beginning: a CSV buffer holds the header, and no file holds a line. *)
LEMMA InitKeeps == Init => SinkInv
<1> SUFFICES ASSUME Init PROVE SinkInv
  OBVIOUS
<1>1. /\ Parts \in Nat /\ Cap \in Nat /\ RowGroup \in Nat /\ RowGroup > 0 /\ MaxRecords \in Nat
      /\ 0 \in 0 .. MaxRecords
  BY SinksAssumption
<1>2. << >> \in Seq(Held) /\ << >> \in Seq(Recorded) /\ << >> \in Seq(UnitSet) /\ Len(<< >>) = 0
  BY EmptySeq
<1>3. backend \in Backends
  BY DEF Init
<1>4. Line => /\ Opening(backend) \in Seq(Held) /\ Len(Opening(backend)) <= Cap + Parts
              /\ Clean(<< >> \o Opening(backend)) /\ Lines(<< >> \o Opening(backend)) = << >>
  <2>1. CASE backend = "csv"
    <3>1. Opening(backend) = Units(0)
      BY <2>1 DEF Opening
    <3>2. Units(0) \in Seq(UnitSet) /\ Len(Units(0)) = Parts
      BY <1>1, UnitsType
    <3>3. Clean(<< >> \o Units(0)) /\ Lines(<< >> \o Units(0)) = Lines(<< >>)
      BY <1>1, <1>2, LineRead
    <3>4. QED
      BY <1>1, <3>1, <3>2, <3>3, HeldInLines, LinesEmpty
  <2>2. CASE backend # "csv"
    <3>1. Opening(backend) = << >>
      BY <2>2 DEF Opening
    <3>2. << >> \o << >> = << >>
      BY <1>2, ConcatEmptySeq
    <3>3. QED
      BY <1>1, <1>2, <3>1, <3>2, LinesEmpty DEF Clean
  <2>3. QED
    BY <2>1, <2>2
<1>5. ~Line => Opening(backend) = << >>
  BY DEF Line, Opening
<1>6. \A f \in Names :
        /\ accepted[f] = << >> /\ fails[f] = 0 /\ buf[f] = Opening(backend) /\ group[f] = << >>
        /\ file[f] = << >> /\ status[f] = "none" /\ torn[f] = FALSE /\ flushed[f] = 0
  BY DEF Init
<1>7. TypeOK
  <2>1. /\ asked \in 0 .. MaxRecords /\ errors \in Nat
        /\ accepted \in [Names -> Seq(Recorded)] /\ fails \in [Names -> Nat]
        /\ group \in [Names -> Seq(Held)] /\ file \in [Names -> Seq(Held)]
        /\ status \in [Names -> {"none", "open", "broken", "finished"}]
        /\ torn \in [Names -> BOOLEAN] /\ flushed \in [Names -> Nat]
        /\ phase = "taking" /\ todo \subseteq Files
    BY <1>1, <1>2 DEF Init
  <2>2. buf \in [Names -> Seq(Held)]
    <3>1. Opening(backend) \in Seq(Held)
      BY <1>2, <1>4, <1>5
    <3>2. QED
      BY <3>1 DEF Init
  <2>3. ASSUME NEW f \in Names
        PROVE  /\ Len(group[f]) < RowGroup
               /\ IF Line THEN Len(buf[f]) <= Cap + Parts ELSE Len(buf[f]) < RowGroup
               /\ flushed[f] <= Len(accepted[f])
    BY <1>1, <1>2, <1>4, <1>5, <1>6
  <2>4. QED
    BY <1>3, <2>1, <2>2, <2>3 DEF TypeOK
<1>8. Untouched
  BY <1>6 DEF Untouched
<1>9. Lined
  BY <1>4, <1>6 DEF Lined, Stream
<1>10. FlushKept
  BY <1>2, <1>6, LinesEmpty DEF FlushKept
<1>11. LineStatus /\ Visited /\ Counted /\ Finished
  BY <1>6 DEF LineStatus, Visited, Counted, NoFail, Finished, Init
<1>12. SpoilBudget
  <2> SUFFICES ASSUME backend = "jsonl", NEW f \in Names
               PROVE  Cardinality(Spoiled(f)) + (IF Clean(Stream(f)) THEN 0 ELSE 1) <= fails[f]
    BY DEF SpoilBudget
  <2>1. Clean(Stream(f))
    BY <1>4, <1>6 DEF Stream, Line
  <2>2. ToSet(accepted[f]) = {}
    <3>1. DOMAIN accepted[f] = {}
      BY <1>2, <1>6, EmptySeq
    <3>2. QED
      BY <3>1 DEF ToSet
  <2>3. Cardinality(Spoiled(f)) = 0
    BY <2>2, FS_EmptySet DEF Spoiled
  <2>4. QED
    BY <1>6, <2>1, <2>3
<1>13. Rowed
  <2> SUFFICES ASSUME ~Line, NEW f \in Names PROVE file[f] \o group[f] \o buf[f] = << >>
    BY <1>6 DEF Rowed
  <2>1. << >> \o << >> = << >>
    BY <1>2, ConcatEmptySeq
  <2>2. QED
    BY <1>5, <1>6, <2>1
<1>14. QED
  BY <1>7, <1>8, <1>9, <1>10, <1>11, <1>12, <1>13 DEF SinkInv, LineInv

LEMMA StepKeeps == SinkInv /\ [Next]_vars => SinkInv'
<1> SUFFICES ASSUME SinkInv, [Next]_vars PROVE SinkInv'
  OBVIOUS
<1>1. CASE Record
  BY <1>1, RecordKeeps
<1>2. CASE StartFlush
  BY <1>2, StartFlushKeeps
<1>3. CASE FlushOne
  BY <1>3, FlushLineKeeps, FlushParquetKeeps
<1>4. CASE StartDrop
  BY <1>4, StartDropKeeps
<1>5. CASE CloseOne
  BY <1>5, CloseLineKeeps, CloseParquetKeeps
<1>6. CASE Killed
  BY <1>6, KilledKeeps
<1>7. CASE UNCHANGED vars
  <2>1. Files' = Files /\ Line' = Line /\ Held' = Held
    BY <1>7 DEF vars, Files, Line, Held
  <2>2. TypeOK /\ Untouched /\ LineInv /\ Rowed /\ Finished
    BY DEF SinkInv
  <2>3. TypeOK'
    BY <1>7, <2>1, <2>2 DEF vars, TypeOK
  <2>4. Untouched' /\ Rowed'
    BY <1>7, <2>1, <2>2 DEF vars, Untouched, Rowed
  <2>8. Finished'
    <3>1. \A f : Spoilt(f)' <=> Spoilt(f)
      BY <1>7, <2>1 DEF vars, Spoilt, Place
    <3>2. QED
      BY <1>7, <2>1, <2>2, <3>1 DEF vars, Finished
  <2>5. Lined' /\ FlushKept' /\ LineStatus' /\ SpoilBudget'
    BY <1>7, <2>1, <2>2
       DEF vars, LineInv, Lined, FlushKept, LineStatus, SpoilBudget, Spoiled, Stream
  <2>6. Visited' /\ Counted'
    BY <1>7, <2>1, <2>2 DEF vars, LineInv, Visited, Counted, NoFail
  <2>7. QED
    BY <2>3, <2>4, <2>5, <2>6, <2>8 DEF SinkInv, LineInv
<1>8. QED
  BY <1>1, <1>2, <1>3, <1>4, <1>5, <1>6, <1>7 DEF Next

(* The inductive invariant of the sinks.                                   *)
THEOREM SinkInvariant == Spec => []SinkInv
<1>1. Init => SinkInv
  BY InitKeeps
<1>2. SinkInv /\ [Next]_vars => SinkInv'
  BY StepKeeps
<1>3. QED
  BY <1>1, <1>2, PTL DEF Spec

(* The types of the sinks hold in every state: among them, that no buffer  *)
(* outgrows its capacity and that no flush counts a record not accepted.   *)
THEOREM SinkTypes == Spec => []TypeOK
<1>1. SinkInv => TypeOK
  BY DEF SinkInv
<1>2. QED
  BY <1>1, SinkInvariant, PTL

(* A drop that came to its end left no file to visit.                      *)
Emptied == phase = "gone" => todo = {}

LEMMA GoneIsEmptied == Spec => []Emptied
<1>1. Init => Emptied
  BY DEF Init, Emptied
<1>2. Emptied /\ [Next]_vars => Emptied'
  <2> SUFFICES ASSUME Emptied, [Next]_vars, phase' = "gone" PROVE todo' = {}
    BY DEF Emptied
  <2>1. CASE Record
    BY <2>1 DEF Record
  <2>2. CASE StartFlush
    BY <2>2 DEF StartFlush, AfterFlush
  <2>3. CASE FlushOne
    BY <2>3 DEF FlushOne, AfterFlush
  <2>4. CASE StartDrop
    BY <2>4 DEF StartDrop
  <2>5. CASE CloseOne
    BY <2>5 DEF CloseOne
  <2>6. CASE Killed
    BY <2>6 DEF Killed
  <2>7. CASE UNCHANGED vars
    BY <2>7 DEF vars, Emptied
  <2>8. QED
    BY <2>1, <2>2, <2>3, <2>4, <2>5, <2>6, <2>7 DEF Next
<1>3. QED
  BY <1>1, <1>2, PTL DEF Spec

(* A Parquet writer that failed is never finished, and until the drop each *)
(* failed write is counted; the drop ends at the first one.                *)
Breaks == ~Line => \A f \in Names : fails[f] > 0 => status[f] = "broken"

DropAlone ==
    ~Line /\ errors = 0 =>
        /\ phase # "gone" => NoFail
        /\ \A g, h \in Names : fails[g] > 0 /\ fails[h] > 0 => g = h

LEMMA WriterBreaks ==
    ASSUME TypeOK, Breaks, ~Line, backend' = backend, NEW f \in Names, NEW w, NEW good,
           Became(f, w), Mark(f, w, good), Broken(f) => w.failed \/ good = "broken"
    PROVE  /\ Breaks'
           /\ \A g \in Names \ {f} : fails'[g] = fails[g]
           /\ ~w.failed => fails'[f] = fails[f]
<1>1. fails \in [Names -> Nat] /\ status \in [Names -> {"none", "open", "broken", "finished"}]
  BY DEF TypeOK
<1>2. /\ \A g \in Names \ {f} : fails'[g] = fails[g] /\ status'[g] = status[g]
      /\ fails'[f] = fails[f] + IF w.failed /\ status[f] # "broken" THEN 1 ELSE 0
      /\ status'[f] = IF w.failed THEN "broken" ELSE good
  BY <1>1 DEF Became, Mark
<1>3. ~w.failed => fails'[f] = fails[f]
  BY <1>1, <1>2
<1>4. fails'[f] > 0 => status'[f] = "broken"
  BY <1>1, <1>2, <1>3 DEF Breaks, Broken
<1>5. QED
  BY <1>2, <1>3, <1>4 DEF Breaks

ParquetFails == Breaks /\ DropAlone

LEMMA ParquetFailsKeeps == TypeOK /\ ParquetFails /\ [Next]_vars => ParquetFails'
<1> SUFFICES ASSUME TypeOK, Breaks, DropAlone, [Next]_vars PROVE ParquetFails'
  BY DEF ParquetFails
<1>1. backend' = backend
  BY DEF Next, Record, StartFlush, FlushOne, StartDrop, CloseOne, Killed, vars
<1>2. Line' = Line /\ Files \subseteq Names /\ errors \in Nat /\ fails \in [Names -> Nat]
  <2>1. backend \in Backends /\ errors \in Nat /\ fails \in [Names -> Nat]
    BY DEF TypeOK
  <2>2. QED
    BY <1>1, <2>1, NamesAre DEF Line
<1> SUFFICES ASSUME ~Line PROVE ParquetFails'
  BY <1>2 DEF ParquetFails, Breaks, DropAlone
<1>3. ASSUME fails' = fails, status' = status, errors' = errors, phase' = "gone" \/ phase # "gone"
      PROVE  ParquetFails'
  BY <1>2, <1>3 DEF ParquetFails, Breaks, DropAlone, NoFail
<1>4. CASE Record
  <2>1. PICK k \in Kinds :
          \/ UNCHANGED <<errors, fails, status>>
          \/ FileOf(backend, k) # "nowhere" /\ RecordParquet(FileOf(backend, k), asked')
    BY <1>4 DEF Record, RecordJson, RecordCsv, Line
  <2>2. phase = "taking" /\ phase' = phase
    BY <1>4 DEF Record
  <2>3. CASE UNCHANGED <<errors, fails, status>>
    BY <1>3, <2>2, <2>3
  <2> DEFINE f == FileOf(backend, k)
  <2>4. CASE f # "nowhere" /\ RecordParquet(f, asked')
    <3>1. f \in Names
      <4>1. backend \in Backends
        BY DEF TypeOK
      <4>2. QED
        BY <4>1, <2>4, <1>2 DEF Files
    <3> HIDE DEF f
    <3>2. PICK w : /\ Became(f, w) /\ Mark(f, w, IF Broken(f) THEN "broken" ELSE "open")
                   /\ Accept(f, asked', ~w.failed)
      BY <2>4 DEF RecordParquet
    <3>3. /\ Breaks' /\ \A g \in Names \ {f} : fails'[g] = fails[g]
          /\ ~w.failed => fails'[f] = fails[f]
      BY <1>1, <3>1, <3>2, WriterBreaks
    <3>4. errors' = 0 => errors = 0 /\ ~w.failed
      BY <1>2, <3>2 DEF Accept
    <3>5. DropAlone'
      BY <1>2, <2>2, <3>3, <3>4 DEF DropAlone, NoFail
    <3>6. QED
      BY <3>3, <3>5 DEF ParquetFails
  <2>5. QED
    BY <2>1, <2>3, <2>4
<1>5. CASE FlushOne
  <2>1. PICK f \in todo : \E w : /\ Became(f, w) /\ Mark(f, w, status[f])
                                 /\ errors' = errors + IF w.failed THEN 1 ELSE 0
    BY <1>5 DEF FlushOne
  <2>2. PICK w : /\ Became(f, w) /\ Mark(f, w, status[f])
                 /\ errors' = errors + IF w.failed THEN 1 ELSE 0
    BY <2>1
  <2>3. f \in Names /\ phase # "gone"
    BY <1>2, <1>5, <2>1 DEF TypeOK, FlushOne
  <2>4. /\ Breaks' /\ \A g \in Names \ {f} : fails'[g] = fails[g]
        /\ ~w.failed => fails'[f] = fails[f]
    BY <1>1, <2>2, <2>3, WriterBreaks DEF Broken
  <2>5. errors' = 0 => errors = 0 /\ ~w.failed
    BY <1>2, <2>2
  <2>6. DropAlone'
    BY <1>2, <2>3, <2>4, <2>5 DEF DropAlone, NoFail
  <2>7. QED
    BY <2>4, <2>6 DEF ParquetFails
<1>6. CASE CloseOne
  <2>1. PICK f \in todo : \E w \in FinishRows(Of(f), Broken(f)) :
                            /\ Became(f, w) /\ Mark(f, w, "finished")
                            /\ todo' = IF w.failed THEN {} ELSE todo \ {f}
    BY <1>6 DEF CloseOne
  <2>2. PICK w \in FinishRows(Of(f), Broken(f)) :
                            /\ Became(f, w) /\ Mark(f, w, "finished")
                            /\ todo' = IF w.failed THEN {} ELSE todo \ {f}
    BY <2>1
  <2>3. /\ f \in Names /\ phase = "closing" /\ errors' = errors
        /\ phase' = IF todo' = {} THEN "gone" ELSE "closing"
    BY <1>2, <1>6, <2>1 DEF TypeOK, CloseOne
  <2>4. Broken(f) => w.failed
    BY <2>2 DEF FinishRows, Of
  <2>5. /\ Breaks' /\ \A g \in Names \ {f} : fails'[g] = fails[g]
        /\ ~w.failed => fails'[f] = fails[f]
    BY <1>1, <2>2, <2>3, <2>4, WriterBreaks
  <2>6. phase' # "gone" => ~w.failed
    BY <2>2, <2>3
  <2>7. ASSUME errors' = 0 PROVE /\ phase' # "gone" => NoFail'
                                /\ \A g \in Names \ {f} : ~(fails'[g] > 0)
    <3>1. \A g \in Names : fails[g] = 0
      BY <2>3, <2>7 DEF DropAlone, NoFail
    <3>2. QED
      BY <2>3, <2>5, <2>6, <3>1 DEF NoFail
  <2>8. DropAlone'
    BY <2>7 DEF DropAlone
  <2>9. QED
    BY <2>5, <2>8 DEF ParquetFails
<1>7. CASE StartFlush \/ StartDrop \/ Killed \/ UNCHANGED vars
  BY <1>3, <1>7 DEF StartFlush, StartDrop, Killed, vars
<1>8. QED
  BY <1>4, <1>5, <1>6, <1>7 DEF Next

LEMMA ParquetFailures == Spec => []ParquetFails
<1>1. Init => ParquetFails
  BY DEF Init, ParquetFails, Breaks, DropAlone, NoFail
<1>2. QED
  BY <1>1, ParquetFailsKeeps, SinkTypes, PTL DEF Spec

(* What an emptied buffer, or a finished footer, means for the reader.     *)
LEMMA EmptyBufferFound ==
    ASSUME SinkInv, Line, NEW f \in Names, buf[f] = << >>
    PROVE  /\ Stream(f) = file[f] /\ Found(f) = Lines(Stream(f))
           /\ fails[f] = 0 => Found(f) = accepted[f]
<1>1. TypeOK /\ Lined
  BY DEF SinkInv, LineInv
<1>2. file[f] \in Seq(Held)
  BY <1>1 DEF TypeOK
<1>3. Stream(f) = file[f]
  BY <1>2, ConcatEmptySeq DEF Stream
<1>4. QED
  BY <1>1, <1>3 DEF Found, Lined

LEMMA FinishedFound ==
    ASSUME SinkInv, ~Line, NEW f \in Names, fails[f] = 0, status[f] = "finished"
    PROVE  Found(f) = accepted[f]
<1>1. TypeOK /\ Rowed
  BY DEF SinkInv
<1>2. file[f] \in Seq(Held) /\ group[f] = << >> /\ buf[f] = << >>
      /\ file[f] \o group[f] \o buf[f] = accepted[f]
  BY <1>1 DEF TypeOK, Rowed
<1>3. file[f] = accepted[f]
  BY <1>2, ConcatEmptySeq
<1>4. QED
  BY <1>3 DEF Found

LEMMA UntouchedFound ==
    ASSUME SinkInv, NEW f \in Names \ Files
    PROVE  accepted[f] = << >> /\ Found(f) = << >>
BY LinesEmpty DEF SinkInv, Untouched, Found

(* Whatever the process was doing when it ended, a reader of a file finds  *)
(* the first records it accepted and no others: of a line file that no     *)
(* write to it failed on, of a Parquet file whatever failed.               *)
THEOREM WhatIsFoundIsAPrefix == Spec => []PrefixRecovered
<1>1. SinkInv /\ ParquetFails => PrefixRecovered
  <2> SUFFICES ASSUME SinkInv, Breaks, NEW f \in Names, Line => fails[f] = 0
               PROVE  IsPrefix(Found(f), accepted[f])
    BY DEF PrefixRecovered, ParquetFails
  <2>1. TypeOK /\ Lined /\ accepted[f] \in Seq(Recorded) /\ fails[f] \in Nat
    BY DEF SinkInv, LineInv, TypeOK
  <2>2. CASE Line
    <3>1. file[f] \in Seq(UnitSet) /\ buf[f] \in Seq(UnitSet)
      BY <2>1, <2>2, HeldInLines DEF TypeOK
    <3>2. IsPrefix(Lines(file[f]), Lines(file[f] \o buf[f]))
      BY <3>1, LinesGrow
    <3>3. QED
      BY <2>1, <2>2, <3>2 DEF Found, Lined, Stream
  <2>3. CASE ~Line /\ status[f] = "finished"
    <3>1. fails[f] = 0
      BY <2>1, <2>3 DEF Breaks
    <3>2. Found(f) = accepted[f]
      BY <2>1, <2>3, <3>1, FinishedFound
    <3>3. QED
      BY <2>1, <3>2, PrefixMeans
  <2>4. CASE ~Line /\ status[f] # "finished"
    <3>1. Found(f) = << >>
      BY <2>4 DEF Found
    <3>2. << >> \in Seq(Recorded) /\ Len(<< >>) = 0 /\ Len(accepted[f]) \in Nat
      BY <2>1, EmptySeq, LenProperties
    <3>3. \A i \in 1 .. Len(<< >>) : FALSE
      BY <3>2
    <3>4. Len(<< >>) <= Len(accepted[f])
      BY <3>2
    <3> DEFINE none == << >>
    <3>5. /\ none \in Seq(Recorded) /\ Len(none) <= Len(accepted[f])
          /\ \A i \in 1 .. Len(none) : none[i] = accepted[f][i]
      BY <3>2, <3>3, <3>4
    <3> HIDE DEF none
    <3>6. IsPrefix(none, accepted[f])
      BY <2>1, <3>5, PrefixMeans
    <3>7. QED
      BY <3>1, <3>6 DEF none
  <2>5. QED
    BY <2>2, <2>3, <2>4
<1>2. QED
  BY <1>1, SinkInvariant, ParquetFailures, PTL

(* What the JSON-lines and CSV sinks had accepted at a flush that          *)
(* succeeded is found by every later reader, whatever ends the process.    *)
THEOREM WhatIsFlushedIsFound == Spec => []FlushedSurvives
<1>1. SinkInv => FlushedSurvives
  BY DEF SinkInv, LineInv, FlushKept, FlushedSurvives, Found
<1>2. QED
  BY <1>1, SinkInvariant, PTL

(* Every Parquet file has its place in the drop.                           *)
LEMMA PlaceIs ==
    ASSUME backend = "parquet", NEW f \in Files
    PROVE  Place(f) \in 1 .. 16
<1>1. PICK k \in Kinds : f = FileOf("parquet", k) /\ f # "nowhere"
  BY DEF Files
<1>2. k \in FileKinds \cup ArtefactKinds \cup OtherKinds
  BY SinksAssumption
<1>3. DOMAIN ParquetOrder = 1 .. 16
  BY DEF ParquetOrder
<1>4. \E n \in 1 .. 16 : ParquetOrder[n] = f
  <2>1. f \in {"jpeg", "png", "gif", "sqlite", "pdf", "zip", "webp", "other"} \/
        f \in {"url", "email", "phone", "history", "cookies", "downloads", "entropy", "run"}
    BY <1>1, <1>2 DEF FileOf, ParquetFile, FileKinds, ArtefactKinds, OtherKinds
  <2>2. /\ ParquetOrder[1] = "jpeg" /\ ParquetOrder[2] = "png" /\ ParquetOrder[3] = "gif"
        /\ ParquetOrder[4] = "sqlite" /\ ParquetOrder[5] = "pdf" /\ ParquetOrder[6] = "zip"
        /\ ParquetOrder[7] = "webp" /\ ParquetOrder[8] = "other"
    BY DEF ParquetOrder
  <2>3. /\ ParquetOrder[9] = "url" /\ ParquetOrder[10] = "email" /\ ParquetOrder[11] = "phone"
        /\ ParquetOrder[12] = "history" /\ ParquetOrder[13] = "cookies"
        /\ ParquetOrder[14] = "downloads" /\ ParquetOrder[15] = "entropy"
        /\ ParquetOrder[16] = "run"
    BY DEF ParquetOrder
  <2>4. QED
    BY <2>1, <2>2, <2>3
<1>5. Place(f) = CHOOSE n \in 1 .. 16 : ParquetOrder[n] = f
  BY <1>3 DEF Place
<1>6. QED
  BY <1>4, <1>5

(* What a finished drop leaves of a file that no failed write spoilt.      *)
LEMMA UnspoiltFound ==
    ASSUME SinkInv, Emptied, phase = "gone", NEW f \in Files, ~Spoilt(f)
    PROVE  Found(f) = accepted[f]
<1>1. todo = {} /\ TypeOK /\ f \in Names
  <2>1. TypeOK
    BY DEF SinkInv
  <2>2. backend \in Backends
    BY <2>1 DEF TypeOK
  <2>3. QED
    BY <2>1, <2>2, NamesAre DEF Emptied
<1>2. fails[f] \in Nat
  BY <1>1 DEF TypeOK
<1>3. CASE Line
  <2>1. fails[f] = 0
    BY <1>2, <1>3 DEF Spoilt
  <2>2. buf[f] = << >>
    BY <1>1, <1>3, <2>1 DEF SinkInv, LineInv, Visited
  <2>3. QED
    BY <1>1, <1>3, <2>1, <2>2, EmptyBufferFound
<1>4. CASE ~Line
  <2>1. fails[f] = 0
    <3>1. Place(f) <= Place(f)
      <4>1. Place(f) \in 1 .. 16
        BY <1>4, PlaceIs DEF Line
      <4>2. QED
        BY <4>1
    <3>2. QED
      BY <1>2, <1>4, <3>1 DEF Spoilt
  <2>2. status[f] \in {"none", "finished"} /\ Rowed
    BY <1>1, <1>4 DEF SinkInv, Finished
  <2>3. CASE status[f] = "none"
    BY <1>1, <1>4, <2>1, <2>2, <2>3 DEF Rowed, Found
  <2>4. CASE status[f] = "finished"
    BY <1>1, <1>4, <2>1, <2>4, FinishedFound
  <2>5. QED
    BY <2>2, <2>3, <2>4
<1>5. QED
  BY <1>3, <1>4

(* A sink that came to its end without a counted error has in its files    *)
(* every record it accepted: the drop of a line sink, which counts         *)
(* nothing, has nothing left that it could lose, and that of a Parquet     *)
(* sink loses only what is finished from its first failed writer on.       *)
THEOREM NoLossWithoutError == Spec => []LossCounted
<1>1. SinkInv /\ Emptied /\ ParquetFails => LossCounted
  <2> SUFFICES ASSUME SinkInv, Emptied, DropAlone, phase = "gone", errors = 0,
                      NEW f \in Files, Lost(f) # {}
               PROVE  /\ ~Line /\ Spoilt(f)
                      /\ \A g, h \in Names : fails[g] > 0 /\ fails[h] > 0 => g = h
    BY DEF LossCounted, ParquetFails
  <2>1. Spoilt(f)
    BY UnspoiltFound DEF Lost
  <2>2. ASSUME Line PROVE FALSE
    <3>1. TypeOK /\ NoFail
      BY <2>2 DEF SinkInv, LineInv, Counted
    <3>2. f \in Names
      BY <3>1, NamesAre DEF TypeOK
    <3>3. QED
      BY <2>1, <2>2, <3>1, <3>2 DEF Spoilt, NoFail
  <2>3. QED
    BY <2>1, <2>2 DEF DropAlone
<1>2. QED
  BY <1>1, SinkInvariant, GoneIsEmptied, ParquetFailures, PTL

(* Each failed write of the JSON-lines sink costs a reader at most one of  *)
(* the records accepted: the line it cut short spoils the next, no more.   *)
THEOREM OneRecordAFailure == Spec => []SpoilsOne
<1>1. SinkInv => SpoilsOne
  <2> SUFFICES ASSUME SinkInv, backend = "jsonl", NEW f \in Names, buf[f] = << >>
               PROVE  Cardinality(Lost(f)) <= fails[f]
    BY DEF SpoilsOne
  <2>1. Line /\ TypeOK /\ SpoilBudget
    BY DEF Line, SinkInv, LineInv
  <2>2. Lost(f) = Spoiled(f)
    BY <2>1, EmptyBufferFound DEF Lost, Spoiled
  <2>3. Cardinality(Spoiled(f)) \in Nat /\ fails[f] \in Nat
    BY <2>1, SpoiledCount DEF TypeOK
  <2>4. Cardinality(Spoiled(f)) + (IF Clean(Stream(f)) THEN 0 ELSE 1) <= fails[f]
    BY <2>1 DEF SpoilBudget
  <2>5. QED
    BY <2>2, <2>3, <2>4
<1>2. QED
  BY <1>1, SinkInvariant, PTL

(* A sink that was dropped to its end holds, in every format, exactly what *)
(* each file accepted, in order, unless a write to that file failed or, of *)
(* Parquet, to one that the drop finishes before it.                       *)
THEOREM NothingIsLeftBehind == Spec => []CleanEndComplete
<1>1. SinkInv /\ Emptied => CleanEndComplete
  BY UnspoiltFound DEF CleanEndComplete
<1>2. QED
  BY <1>1, SinkInvariant, GoneIsEmptied, PTL

=============================================================================
