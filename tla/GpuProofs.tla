----------------------------- MODULE GpuProofs ------------------------------
(***************************************************************************)
(* A scan on a shared device returns what the CPU finds, for every number  *)
(* of workers, every chunk, every buffer size and every interleaving of    *)
(* the work items.                                                         *)
(***************************************************************************)
EXTENDS GpuScan, FiniteSetTheorems, WellFoundedInduction, TLAPS

(* The least of a set of naturals.                                         *)
LEMMA MinIs ==
    ASSUME NEW S, S \subseteq Nat, S # {}
    PROVE  Min(S) \in S /\ \A y \in S : Min(S) <= y
<1>1. IsWellFoundedOn(OpToRel(<, Nat), Nat)
  BY NatLessThanWellFounded
<1>2. PICK x \in S : \A y \in S : ~ (<<y, x>> \in OpToRel(<, Nat))
  BY <1>1, WFMin
<1>3. \A y \in S : ~(y < x)
  BY <1>2 DEF OpToRel
<1>4. \A y \in S : x <= y
  BY <1>3
<1>5. QED
  BY <1>4 DEF Min

LEMMA MinOfTwo ==
    ASSUME NEW a \in Nat, NEW b \in Nat
    PROVE  Min({a, b}) = IF a <= b THEN a ELSE b
<1>1. Min({a, b}) \in {a, b} /\ Min({a, b}) <= a /\ Min({a, b}) <= b
  BY MinIs
<1>2. QED
  BY <1>1

LEMMA Division ==
    ASSUME NEW p \in Nat, NEW n \in Nat \ {0}
    PROVE  p \div n \in Nat /\ n * (p \div n) \in Nat
           /\ n * (p \div n) <= p /\ p < n * (p \div n) + n
OBVIOUS

-----------------------------------------------------------------------------
(* What is looked for in a chunk.                                          *)
LEMMA ChunkIs ==
    ASSUME NEW c \in Chunks
    PROVE  Len(c) \in Nat /\ (c # <<>> => Len(c) # 0)
BY GpuAssumption

LEMMA TextEndIs ==
    ASSUME NEW c \in Chunks, NEW i \in 0 .. Len(c)
    PROVE  TextEnd(c, i) \in i .. Len(c) /\ ~Text(c, TextEnd(c, i))
<1> DEFINE S == {e \in i .. Len(c) : ~Text(c, e)}
<1>1. Len(c) \in Nat
  BY ChunkIs
<1>2. Len(c) \in S
  BY <1>1 DEF Text
<1>3. S \subseteq Nat
  BY <1>1
<1>4. Min(S) \in S
  BY <1>2, <1>3, MinIs
<1>5. QED
  BY <1>4 DEF TextEnd

(* A kernel is started for the whole chunk, or for nothing: the count of   *)
(* blocks wraps to zero.                                                   *)
LEMMA WorkItemsAre ==
    ASSUME NEW c \in Chunks, Len(c) <= MaxU32
    PROVE  WorkItems(c) \in {0, Len(c)}
<1>1. /\ Len(c) \in Nat /\ MaxU32 \in Nat \ {0} /\ Block \in Nat \ {0}
      /\ Block <= MaxU32
  BY ChunkIs, GpuAssumption
<1> DEFINE sum == Len(c) + Block - 1
           held == sum % (MaxU32 + 1)
<1>2. CASE scanner.api = "opencl"
  BY <1>2 DEF WorkItems
<1>3. CASE scanner.api # "opencl" /\ sum <= MaxU32
  <2>1. held = sum /\ sum \in Nat
    BY <1>1, <1>3
  <2>2. sum < Block * (sum \div Block) + Block /\ Block * (sum \div Block) \in Nat
    BY <1>1, <2>1, Division
  <2>3. Len(c) <= Block * (sum \div Block)
    BY <1>1, <2>2
  <2>4. Min({Len(c), Block * (sum \div Block)}) = Len(c)
    BY <1>1, <2>2, <2>3, MinOfTwo
  <2>5. QED
    BY <1>3, <2>1, <2>4 DEF WorkItems
<1>4. CASE scanner.api # "opencl" /\ sum > MaxU32
  <2>1. held = sum - (MaxU32 + 1) /\ held \in Nat /\ held < Block
    BY <1>1, <1>4
  <2>2. held \div Block = 0
    <3> HIDE DEF held
    <3>1. QED
      BY <1>1, <2>1
  <2>3. Min({Len(c), Block * (held \div Block)}) = 0
    BY <1>1, <2>2, MinOfTwo
  <2>4. QED
    BY <1>4, <2>3 DEF WorkItems
<1>5. QED
  BY <1>1, <1>2, <1>3, <1>4

(* What the work items of a chunk find, all together.                      *)
Expected(c) == UNION {Matches(c, i) : i \in 0 .. Len(c) - 1}

LEMMA ExpectedSignatures ==
    ASSUME scanner.task = "signatures", NEW c \in Chunks
    PROVE  Expected(c) = Cpu(c)
<1>1. \A i \in 0 .. Len(c) - 1 : Matches(c, i) = {m \in Signatures(c) : m.from = i}
  BY DEF Matches
<1>2. \A m \in Signatures(c) : m.from \in 0 .. Len(c) - 1
  BY DEF Signatures
<1>3. Cpu(c) = Signatures(c)
  BY DEF Cpu
<1>4. QED
  BY <1>1, <1>2, <1>3 DEF Expected

(* The pieces of a text: the first, of MaxLen bytes if there are others.   *)
LEMMA PiecesAre ==
    ASSUME NEW c \in Chunks, NEW i \in 0 .. Len(c) - 1, Begins(c, i)
    PROVE  /\ Piece(c, i) \in Pieces(c, i) /\ Piece(c, i).from = i
           /\ \A p \in Pieces(c, i) :
                /\ p.from \in 0 .. Len(c) - 1 /\ p.len \in 0 .. MaxLen
                /\ p # Piece(c, i) => Piece(c, i).len = MaxLen
<1> DEFINE e == TextEnd(c, i)
<1>1. Len(c) \in Nat /\ i \in Nat /\ MaxLen \in Nat \ {0}
  BY ChunkIs, GpuAssumption
<1>2. e \in i .. Len(c) /\ e # i
  BY <1>1, TextEndIs DEF Begins
<1>3. ASSUME NEW s \in i .. e - 1, (s - i) % MaxLen = 0, NEW p, p = Piece(c, s)
      PROVE  /\ p.from \in 0 .. Len(c) - 1 /\ p.len \in 0 .. MaxLen
             /\ s # i => Piece(c, i).len = MaxLen
  <2>1. s \in 0 .. Len(c) /\ s \in 0 .. Len(c) - 1
    BY <1>1, <1>2
  <2>2. TextEnd(c, s) - s \in Nat
    BY <1>1, <2>1, TextEndIs, SMTT(30)
  <2>3. p.from = s /\ p.len = Min({MaxLen, TextEnd(c, s) - s})
    BY <1>3 DEF Piece, Item
  <2>4. p.len \in 0 .. MaxLen
    BY <1>1, <2>2, <2>3, MinOfTwo
  <2>5. ASSUME s # i
        PROVE  Piece(c, i).len = MaxLen
    <3>1. s - i \in Nat \ {0}
      BY <1>1, <2>5
    <3>2. MaxLen <= s - i
      BY <1>1, <1>3, <3>1
    <3>3. MaxLen <= e - i /\ e - i \in Nat
      BY <1>1, <1>2, <3>2
    <3>4. Min({MaxLen, e - i}) = MaxLen
      BY <1>1, <3>3, MinOfTwo
    <3>5. QED
      BY <3>4 DEF Piece, Item
  <2>6. QED
    BY <2>1, <2>3, <2>4, <2>5
<1>4. Piece(c, i) \in Pieces(c, i)
  <2>1. i \in i .. e - 1 /\ (i - i) % MaxLen = 0
    BY <1>1, <1>2
  <2>2. QED
    BY <2>1 DEF Pieces
<1>5. QED
  BY <1>3, <1>4 DEF Pieces, Piece, Item

(* Extending the first pieces the work items found gives every piece.      *)
LEMMA ExpectedStrings ==
    ASSUME scanner.task # "signatures", NEW c \in Chunks
    PROVE  Expected(c) \subseteq Cpu(c) /\ Extended(c, Expected(c)) = Cpu(c)
<1>1. Cpu(c) = {p \in UNION {Pieces(c, i) : i \in {i \in 0 .. Len(c) - 1 : Begins(c, i)}} :
                  p.len >= MinLen}
  BY DEF Cpu, Strings
<1>2. \A m : m \in Expected(c) <=>
        \E i \in 0 .. Len(c) - 1 : Begins(c, i) /\ m = Piece(c, i) /\ m.len >= MinLen
  BY DEF Expected, Matches
<1>3. \A p : p \in Cpu(c) <=>
        /\ p.len >= MinLen
        /\ \E i \in 0 .. Len(c) - 1 : Begins(c, i) /\ p \in Pieces(c, i)
  BY <1>1
<1>4. Expected(c) \subseteq Cpu(c)
  BY <1>2, <1>3, PiecesAre
<1>5. ASSUME NEW p \in Extended(c, Expected(c))
      PROVE  p \in Cpu(c)
  <2>1. PICK s \in Expected(c) : /\ p \in Pieces(c, s.from)
                                 /\ p = s \/ (s.len >= MaxLen /\ p.len >= MinLen)
    BY DEF Extended
  <2>2. PICK i \in 0 .. Len(c) - 1 : Begins(c, i) /\ s = Piece(c, i) /\ s.len >= MinLen
    BY <1>2
  <2>3. s.from = i
    BY <2>2, PiecesAre
  <2>4. QED
    BY <1>3, <2>1, <2>2, <2>3
<1>6. ASSUME NEW p \in Cpu(c)
      PROVE  p \in Extended(c, Expected(c))
  <2>1. PICK i \in 0 .. Len(c) - 1 : Begins(c, i) /\ p \in Pieces(c, i)
    BY <1>3
  <2>2. p.len >= MinLen
    BY <1>3
  <2> DEFINE s == Piece(c, i)
  <2>3. s.from = i /\ p.len \in 0 .. MaxLen /\ (p # s => s.len = MaxLen)
    BY <2>1, PiecesAre
  <2>4. MaxLen \in Nat /\ MinLen \in Nat
    BY GpuAssumption
  <2>5. s.len >= MinLen /\ (p = s \/ s.len >= MaxLen)
    BY <2>2, <2>3, <2>4
  <2>6. s \in Expected(c)
    BY <1>2, <2>1, <2>5
  <2> HIDE DEF s
  <2>7. p \in {q \in Pieces(c, s.from) : q = s \/ (s.len >= MaxLen /\ q.len >= MinLen)}
    BY <2>1, <2>2, <2>3, <2>5
  <2>8. QED
    BY <2>6, <2>7 DEF Extended
<1>7. QED
  BY <1>4, <1>5, <1>6

(* The items of a chunk are finitely many.                                 *)
LEMMA ItemsFinite ==
    ASSUME NEW A, IsFiniteSet(A), NEW B, IsFiniteSet(B),
           NEW S, S \subseteq [from : A, len : B]
    PROVE  IsFiniteSet(S)
<1> DEFINE f == [m \in S |-> <<m.from, m.len>>]
<1>1. IsFiniteSet(A \X B)
  BY FS_Product
<1>2. f \in [S -> A \X B] /\ DOMAIN f = S
  OBVIOUS
<1>3. \A a, b \in S : f[a] = f[b] => a = b
  OBVIOUS
<1>4. f \in Injection(S, A \X B)
  BY <1>2, <1>3 DEF Injection, IsInjective
<1>5. QED
  BY <1>1, <1>4, FS_Injection

LEMMA CpuItems ==
    ASSUME NEW c \in Chunks
    PROVE  Cpu(c) \subseteq Items /\ IsFiniteSet(Cpu(c))
<1>1. Len(c) \in Nat /\ MaxLen \in Nat
  BY ChunkIs, GpuAssumption
<1>2. CASE scanner.task = "signatures"
  <2>1. Cpu(c) \subseteq [from : 0 .. Len(c) - 1, len : PatLens]
    BY <1>2 DEF Cpu, Signatures
  <2>2. IsFiniteSet(0 .. Len(c) - 1) /\ IsFiniteSet(PatLens)
    BY <1>1, FS_Interval, GpuAssumption
  <2>3. IsFiniteSet(Cpu(c))
    BY <2>1, <2>2, ItemsFinite
  <2>4. PatLens \subseteq Nat /\ 0 .. Len(c) - 1 \subseteq Nat
    BY <1>1, GpuAssumption
  <2>5. QED
    BY <2>1, <2>3, <2>4 DEF Items
<1>3. CASE scanner.task # "signatures"
  <2>1. Cpu(c) \subseteq [from : 0 .. Len(c) - 1, len : 0 .. MaxLen]
    <3>1. ASSUME NEW p \in Cpu(c)
          PROVE  p \in [from : 0 .. Len(c) - 1, len : 0 .. MaxLen]
      <4>1. PICK i \in 0 .. Len(c) - 1 : Begins(c, i) /\ p \in Pieces(c, i)
        BY <1>3 DEF Cpu, Strings
      <4>2. p.from \in 0 .. Len(c) - 1 /\ p.len \in 0 .. MaxLen
        BY <4>1, PiecesAre
      <4>3. PICK j : p = Piece(c, j)
        BY <4>1 DEF Pieces
      <4>4. PICK n : p = [from |-> j, len |-> n]
        BY <4>3 DEF Piece, Item
      <4>5. QED
        BY <4>2, <4>4
    <3>2. QED
      BY <3>1
  <2>2. IsFiniteSet(0 .. Len(c) - 1) /\ IsFiniteSet(0 .. MaxLen)
    BY <1>1, FS_Interval
  <2>3. IsFiniteSet(Cpu(c))
    BY <2>1, <2>2, ItemsFinite
  <2>4. 0 .. MaxLen \subseteq Nat /\ 0 .. Len(c) - 1 \subseteq Nat
    BY <1>1
  <2>5. QED
    BY <2>1, <2>3, <2>4 DEF Items
<1>4. QED
  BY <1>2, <1>3

(* A finite set in some order: each of its elements once.                  *)
LEMMA InOrderIs ==
    ASSUME NEW S, IsFiniteSet(S)
    PROVE  /\ InOrder(S) \in Seq(S) /\ IsInjective(InOrder(S))
           /\ ToSet(InOrder(S)) = S
<1> DEFINE n == Cardinality(S)
           f == InOrder(S)
<1>1. n \in Nat /\ ExistsBijection(1 .. n, S)
  BY FS_CardinalityType
<1>2. PICK g : g \in [1 .. n -> S] /\ IsInjective(g)
  BY <1>1 DEF ExistsBijection, Bijection, Injection
<1>3. f \in [1 .. n -> S] /\ IsInjective(f)
  BY <1>2 DEF InOrder, SetToSeq
<1> HIDE DEF f
<1>4. f \in Injection(1 .. n, S)
  BY <1>3 DEF Injection
<1>5. Cardinality(1 .. n) = Cardinality(S)
  BY <1>1, FS_Interval
<1>6. f \in Surjection(1 .. n, S)
  BY <1>4, <1>5, FS_Injection
<1>7. \A x \in S : \E i \in 1 .. n : f[i] = x
  BY <1>6 DEF Surjection
<1>8. ToSet(f) = S
  BY <1>3, <1>7 DEF ToSet
<1>9. f \in Seq(S)
  BY <1>1, <1>3
<1>10. QED
  BY <1>3, <1>8, <1>9 DEF f

(* Two sequences without repetition and with nothing in common.            *)
LEMMA Appended ==
    ASSUME NEW T, NEW s \in Seq(T), NEW t \in Seq(T), IsInjective(s),
           IsInjective(t), ToSet(s) \cap ToSet(t) = {}
    PROVE  IsInjective(s \o t) /\ ToSet(s \o t) = ToSet(s) \cup ToSet(t)
<1> DEFINE u == s \o t
<1>1. /\ DOMAIN s = 1 .. Len(s) /\ DOMAIN t = 1 .. Len(t)
      /\ Len(s) \in Nat /\ Len(t) \in Nat
      /\ DOMAIN u = 1 .. Len(s) + Len(t)
      /\ \A i \in 1 .. Len(s) : u[i] = s[i]
      /\ \A i \in 1 .. Len(s) + Len(t) :
            i > Len(s) => u[i] = t[i - Len(s)] /\ i - Len(s) \in 1 .. Len(t)
      /\ \A j \in 1 .. Len(t) : u[Len(s) + j] = t[j]
  OBVIOUS
<1> HIDE DEF u
<1>2. \A i \in DOMAIN s : s[i] \in ToSet(s)
  BY DEF ToSet
<1>3. \A i \in DOMAIN t : t[i] \in ToSet(t)
  BY DEF ToSet
<1>4. ASSUME NEW a \in DOMAIN u, NEW b \in DOMAIN u, u[a] = u[b]
      PROVE  a = b
  <2>1. CASE a \in 1 .. Len(s) /\ b \in 1 .. Len(s)
    BY <1>1, <1>4, <2>1 DEF IsInjective
  <2>2. CASE a > Len(s) /\ b > Len(s)
    <3>1. a - Len(s) = b - Len(s)
      BY <1>1, <1>4, <2>2 DEF IsInjective
    <3>2. QED
      BY <1>1, <3>1
  <2>3. ASSUME NEW x \in 1 .. Len(s), NEW y \in 1 .. Len(s) + Len(t), y > Len(s)
        PROVE  u[x] # u[y]
    <3>1. u[x] = s[x] /\ x \in DOMAIN s
      BY <1>1, <2>3
    <3>2. u[y] = t[y - Len(s)] /\ y - Len(s) \in DOMAIN t
      BY <1>1, <2>3
    <3>3. u[x] \in ToSet(s) /\ u[y] \in ToSet(t)
      BY <1>2, <1>3, <3>1, <3>2, Zenon
    <3>4. QED
      BY <3>3
  <2>4. QED
    BY <1>1, <1>4, <2>1, <2>2, <2>3
<1>5. ToSet(u) = ToSet(s) \cup ToSet(t)
  <2>1. ASSUME NEW i \in DOMAIN u
        PROVE  u[i] \in ToSet(s) \cup ToSet(t)
    BY <1>1, <1>2, <1>3
  <2>2. ASSUME NEW i \in DOMAIN s
        PROVE  s[i] \in ToSet(u)
    BY <1>1 DEF ToSet
  <2>3. ASSUME NEW i \in DOMAIN t
        PROVE  t[i] \in ToSet(u)
    <3>1. Len(s) + i \in DOMAIN u /\ u[Len(s) + i] = t[i]
      BY <1>1
    <3>2. QED
      BY <3>1 DEF ToSet
  <2>4. QED
    BY <2>1, <2>2, <2>3 DEF ToSet
<1>6. QED
  BY <1>4, <1>5 DEF u, IsInjective

-----------------------------------------------------------------------------
(* The types of what TypeOK leaves out.                                    *)
Jobs == [on : Workers, item : Items]
Placed == [on : Workers, slot : Nat, item : Items]
Types ==
    /\ TypeOK
    /\ scanner \in [api : Apis \cup {"cpu"}, task : {"signatures", "strings"}]
    /\ data \in [Workers -> Chunks]
    /\ todo \in [Workers -> SUBSET Jobs]
    /\ slotted \in [Workers -> SUBSET Placed]
    /\ found \in [Workers -> Seq(Items)]

(* The mutex is held from where the kernel or the device is first used, so *)
(* that a kernel is launched on the buffers of the worker that launches it.*)
OnDevice ==
    IF scanner.api = "opencl" THEN {"args", "launch", "finish", "count", "slots"}
    ELSE {"buffers", "launch", "finish", "count", "slots"}
LockInv ==
    \A w \in Workers :
        /\ pc[w] \in OnDevice => lock = w
        /\ pc[w] \notin {"start", "done"} => ~OnCpu(w)
        /\ pc[w] = "args" => scanner.api = "opencl"
        /\ pc[w] = "launch" => Launched(w) = w

(* A match of the chunk waits to be counted, or has a slot of its own,     *)
(* where it is about to be stored or was: until the buffer is full, none   *)
(* is missing.                                                             *)
Settled(w) ==
    {j \in 0 .. MaxItems - 1 : j < count[w] /\ \A s \in slotted[w] : s.slot # j}
Pair(j, m) == [slot |-> j, item |-> m]
Holds(w) == {Pair(s.slot, s.item) : s \in slotted[w]}
            \cup {Pair(j, slots[w][j]) : j \in Settled(w)}
Waiting(w) == {t.item : t \in todo[w]}
Idle(w) == todo[w] = {} /\ slotted[w] = {}
Handed(w) ==
    /\ \A t \in todo[w] : t.on = w /\ t.item \in Expected(data[w])
    /\ \A s \in slotted[w] : s.on = w /\ s.slot < count[w]
    /\ \A s, t \in slotted[w] : s.slot = t.slot => s = t
    /\ \A p \in Holds(w) : p.item \in Expected(data[w]) /\ p.item \notin Waiting(w)
    /\ \A p, q \in Holds(w) : p.item = q.item => p = q
NoneMissing(w) ==
    count[w] <= MaxItems =>
        \A m \in Expected(data[w]) : m \in Waiting(w) \/ \E p \in Holds(w) : p.item = m
ItemsAt(w) ==
    /\ Handed(w)
    /\ pc[w] \in {"start", "buffers", "lock", "args", "launch"} =>
          Idle(w) /\ count[w] = 0
    /\ pc[w] \in {"finish", "count", "slots"} => NoneMissing(w)
    /\ pc[w] \in {"count", "slots"} => Idle(w)
    /\ pc[w] = "slots" => scanner.task = "signatures" \/ count[w] <= MaxItems
ItemInv == \A w \in Workers : ItemsAt(w)

GpuInv == Types /\ LockInv /\ ItemInv /\ ScanAgrees

(* What a scan may return.                                                 *)
Right(w, items) ==
    /\ items \in Seq(Items) /\ IsInjective(items)
    /\ ToSet(items) \subseteq Cpu(data[w])
    /\ \/ ToSet(items) = Cpu(data[w])
       \/ scanner.task = "signatures" /\ Len(items) = MaxItems

LEMMA CpuRight ==
    ASSUME Types, NEW w \in Workers
    PROVE  Right(w, InOrder(Cpu(data[w])))
<1>1. data[w] \in Chunks
  BY DEF Types
<1>2. Cpu(data[w]) \subseteq Items /\ IsFiniteSet(Cpu(data[w]))
  BY <1>1, CpuItems
<1>3. /\ InOrder(Cpu(data[w])) \in Seq(Cpu(data[w]))
      /\ IsInjective(InOrder(Cpu(data[w])))
      /\ ToSet(InOrder(Cpu(data[w]))) = Cpu(data[w])
  BY <1>2, InOrderIs
<1>4. InOrder(Cpu(data[w])) \in Seq(Items)
  BY <1>2, <1>3
<1>5. QED
  BY <1>3, <1>4 DEF Right

(* What was read back is what the work items found, and all of it unless   *)
(* there was more than the buffer holds.                                   *)
LEMMA SlotsRight ==
    ASSUME Types, ItemInv, NEW w \in Workers, pc[w] = "slots"
    PROVE  LET n == Min({count[w], MaxItems})
           IN  Right(w, Accepted(data[w], [i \in 1 .. n |-> slots[w][i - 1]]))
<1> DEFINE c == data[w]
           n == Min({count[w], MaxItems})
           items == [i \in 1 .. n |-> slots[w][i - 1]]
<1>1. /\ c \in Chunks /\ count[w] \in Nat /\ MaxItems \in Nat \ {0}
      /\ slots[w] \in [0 .. MaxItems - 1 -> Items]
      /\ scanner.task \in {"signatures", "strings"}
  BY GpuAssumption DEF Types, TypeOK
<1>2. /\ Handed(w) /\ NoneMissing(w) /\ todo[w] = {} /\ slotted[w] = {}
      /\ scanner.task = "signatures" \/ count[w] <= MaxItems
  BY DEF ItemInv, ItemsAt, Idle
<1>3. n \in Nat /\ n = IF count[w] <= MaxItems THEN count[w] ELSE MaxItems
  BY <1>1, MinOfTwo
<1>4. Settled(w) = 0 .. n - 1
  BY <1>1, <1>2, <1>3 DEF Settled
<1> HIDE DEF n
<1>5. items \in Seq(Items) /\ DOMAIN items = 1 .. n /\ Len(items) = n
  BY <1>1, <1>3
<1>6. Holds(w) = {Pair(j, slots[w][j]) : j \in 0 .. n - 1}
  BY <1>2, <1>4 DEF Holds
<1>7. \A i \in 1 .. n : Pair(i - 1, items[i]) \in Holds(w)
  BY <1>3, <1>6
<1>8. IsInjective(items)
  <2>1. ASSUME NEW a \in 1 .. n, NEW b \in 1 .. n, items[a] = items[b]
        PROVE  a = b
    <3>1. Pair(a - 1, items[a]) \in Holds(w) /\ Pair(b - 1, items[b]) \in Holds(w)
      BY <1>7
    <3>2. Pair(a - 1, items[a]) = Pair(b - 1, items[b])
      BY <1>2, <2>1, <3>1 DEF Handed, Pair
    <3>3. a - 1 = b - 1
      BY <3>2 DEF Pair
    <3>4. QED
      BY <1>3, <3>3
  <2>2. QED
    BY <1>5, <2>1 DEF IsInjective
<1>9. ToSet(items) \subseteq Expected(c)
  <2>1. \A i \in 1 .. n : items[i] \in Expected(c)
    BY <1>2, <1>7 DEF Handed, Pair
  <2>2. QED
    BY <1>5, <2>1 DEF ToSet
<1>10. count[w] <= MaxItems => ToSet(items) = Expected(c)
  <2>1. ASSUME count[w] <= MaxItems, NEW m \in Expected(c)
        PROVE  m \in ToSet(items)
    <3>1. PICK p \in Holds(w) : p.item = m
      BY <1>2, <2>1 DEF NoneMissing, Waiting
    <3>2. PICK j \in 0 .. n - 1 : p = Pair(j, slots[w][j])
      BY <1>6
    <3>3. j + 1 \in 1 .. n /\ items[j + 1] = m
      BY <1>3, <3>1, <3>2 DEF Pair
    <3>4. QED
      BY <1>5, <3>3 DEF ToSet
  <2>2. QED
    BY <1>9, <2>1
<1> HIDE DEF items, c
<1>11. CASE scanner.task = "signatures"
  <2>1. Expected(c) = Cpu(c) /\ Accepted(c, items) = items
    BY <1>1, <1>11, ExpectedSignatures DEF Accepted
  <2>2. count[w] <= MaxItems \/ n = MaxItems
    BY <1>3
  <2>3. QED
    BY <1>5, <1>8, <1>9, <1>10, <1>11, <2>1, <2>2 DEF Right, c, items, n
<1>12. CASE scanner.task # "signatures"
  <2> DEFINE rest == Cpu(c) \ ToSet(items)
  <2>1. ToSet(items) = Expected(c) /\ Expected(c) \subseteq Cpu(c)
        /\ Extended(c, Expected(c)) = Cpu(c)
    BY <1>1, <1>2, <1>10, <1>12, ExpectedStrings
  <2>2. Accepted(c, items) = items \o InOrder(rest)
    BY <1>12, <2>1 DEF Accepted
  <2>3. Cpu(c) \subseteq Items /\ IsFiniteSet(Cpu(c))
    BY <1>1, CpuItems
  <2>4. rest \subseteq Items /\ IsFiniteSet(rest)
    BY <2>3, FS_Subset
  <2> HIDE DEF rest
  <2>5. InOrder(rest) \in Seq(rest) /\ IsInjective(InOrder(rest))
        /\ ToSet(InOrder(rest)) = rest
    BY <2>4, InOrderIs
  <2>6. InOrder(rest) \in Seq(Items)
    BY <2>4, <2>5
  <2>7. ToSet(items) \cap ToSet(InOrder(rest)) = {}
    BY <2>5 DEF rest
  <2>8. IsInjective(items \o InOrder(rest))
        /\ ToSet(items \o InOrder(rest)) = ToSet(items) \cup rest
    BY <1>5, <1>8, <2>5, <2>6, <2>7, Appended
  <2>9. ToSet(items) \cup rest = Cpu(c)
    BY <2>1 DEF rest
  <2>10. items \o InOrder(rest) \in Seq(Items)
    BY <1>5, <2>6
  <2>11. QED
    BY <2>2, <2>8, <2>9, <2>10 DEF Right, c, items, n
<1>13. QED
  BY <1>11, <1>12

-----------------------------------------------------------------------------
LEMMA GpuInit == Init => GpuInv
<1> SUFFICES ASSUME Init PROVE GpuInv
  OBVIOUS
<1>1. MaxItems \in Nat \ {0} /\ None \notin Workers
  BY GpuAssumption
<1>2. Blank \in Items
  BY DEF Blank, Item, Items
<1>3. Types
  <2>1. \A w \in Workers : ToSet(found[w]) = {} /\ found[w] \in Seq(Items)
    BY DEF Init, ToSet
  <2>2. QED
    BY <1>1, <1>2, <2>1 DEF Init, Types, TypeOK, Steps
<1>4. LockInv
  BY DEF Init, LockInv, OnDevice
<1>5. ItemInv
  <2>1. ASSUME NEW w \in Workers
        PROVE  ItemsAt(w)
    <3>1. /\ pc[w] = "start" /\ todo[w] = {} /\ slotted[w] = {} /\ count[w] = 0
      BY DEF Init
    <3>2. Settled(w) = {}
      BY <1>1, <3>1 DEF Settled
    <3>3. Holds(w) = {}
      BY <3>1, <3>2 DEF Holds
    <3>4. QED
      BY <3>1, <3>3 DEF ItemsAt, Handed, Idle
  <2>2. QED
    BY <2>1 DEF ItemInv
<1>6. ScanAgrees
  BY DEF Init, ScanAgrees
<1>7. QED
  BY <1>3, <1>4, <1>5, <1>6 DEF GpuInv

(* What a worker's items are changes only where its own buffers do.        *)
LEMMA SameItems ==
    ASSUME NEW w \in Workers, Handed(w), UNCHANGED <<scanner, data>>,
           todo'[w] = todo[w], slotted'[w] = slotted[w],
           count'[w] = count[w], slots'[w] = slots[w]
    PROVE  /\ Handed(w)' /\ (NoneMissing(w) => NoneMissing(w)')
           /\ (Idle(w) => Idle(w)')
<1>1. Settled(w)' = Settled(w)
  BY DEF Settled
<1>2. Holds(w)' = Holds(w) /\ Waiting(w)' = Waiting(w)
  BY <1>1 DEF Holds, Waiting
<1>3. Expected(data[w])' = Expected(data[w])
  BY DEF Expected, Matches
<1>4. QED
  BY <1>2, <1>3 DEF Handed, NoneMissing, Idle

(* The steps that only move a worker on: what it is about to do is given.  *)
Moves(w) ==
    \/ Start(w) \/ CreateBuffers(w) \/ Lock(w) \/ SetArgs(w)
    \/ Finish(w) \/ ReadCount(w)

LEMMA MovesKeep ==
    ASSUME GpuInv, NEW w \in Workers, Moves(w)
    PROVE  GpuInv'
<1>1. /\ UNCHANGED <<scanner, data, todo, slotted, count, slots, found>>
      /\ pc' = [pc EXCEPT ![w] = pc'[w]] /\ pc[w] # "done" /\ pc'[w] # "done"
      /\ pc'[w] \in Steps /\ pc \in [Workers -> Steps]
      /\ lock' = lock \/ (lock = None /\ lock' = w)
      /\ args' = args \/ args' = w
  <2>1. pc \in [Workers -> Steps]
    BY DEF GpuInv, Types, TypeOK
  <2>2. PICK from, to \in Steps \ {"done"} : pc[w] = from /\ pc' = [pc EXCEPT ![w] = to]
    BY DEF Moves, Start, CreateBuffers, Lock, SetArgs, Finish, ReadCount, Go, Steps
  <2>3. pc'[w] = to /\ pc'[w] # "done"
    BY <2>1, <2>2
  <2>4. /\ UNCHANGED <<scanner, data, todo, slotted, count, slots, found>>
        /\ lock' = lock \/ (lock = None /\ lock' = w)
        /\ args' = args \/ args' = w
    BY DEF Moves, Start, CreateBuffers, Lock, SetArgs, Finish, ReadCount
  <2>5. QED
    BY <2>1, <2>2, <2>3, <2>4
<1>2. \A v \in Workers : pc'[v] = IF v = w THEN pc'[w] ELSE pc[v]
  BY <1>1
<1>3. Types'
  BY <1>1 DEF GpuInv, Types, TypeOK
<1>4. LockInv'
  <2>1. None \notin Workers
    BY GpuAssumption
  <2>2. ASSUME NEW v \in Workers, v # w
        PROVE  /\ pc'[v] \in OnDevice => lock' = v
               /\ pc'[v] \notin {"start", "done"} => ~OnCpu(v)
               /\ pc'[v] = "args" => scanner.api = "opencl"
               /\ pc'[v] = "launch" => Launched(v)' = v
    <3>1. pc'[v] = pc[v]
      BY <1>2, <2>2
    <3>2. pc[v] \in OnDevice => lock' = v
      BY <1>1, <2>1 DEF GpuInv, LockInv
    <3>3. SetArgs(w) /\ pc[v] = "launch" => v = w
      BY DEF SetArgs, Go, GpuInv, LockInv, OnDevice
    <3>4. args' = args \/ SetArgs(w)
      BY DEF Moves, Start, CreateBuffers, Lock, Finish, ReadCount
    <3>5. QED
      BY <1>1, <2>2, <3>1, <3>2, <3>3, <3>4 DEF GpuInv, LockInv, Launched
  <2>3. /\ pc'[w] \in OnDevice => lock' = w
        /\ pc'[w] \notin {"start", "done"} => ~OnCpu(w)
        /\ pc'[w] = "args" => scanner.api = "opencl"
        /\ pc'[w] = "launch" => Launched(w)' = w
    BY <1>1 DEF Moves, Start, CreateBuffers, Lock, SetArgs, Finish, ReadCount,
       Go, OnDevice, Launched, GpuInv, LockInv, Types, TypeOK
  <2>4. QED
    BY <1>1, <2>2, <2>3 DEF LockInv, OnDevice, OnCpu
<1>5. ItemInv'
  <2>1. ASSUME NEW v \in Workers
        PROVE  /\ Handed(v)' /\ (NoneMissing(v) => NoneMissing(v)')
               /\ (Idle(v) => Idle(v)')
    BY <1>1, SameItems DEF GpuInv, ItemInv, ItemsAt
  <2>2. ASSUME NEW v \in Workers, v # w
        PROVE  ItemsAt(v)'
    BY <1>1, <1>2, <2>1, <2>2 DEF GpuInv, ItemInv, ItemsAt
  <2>3. ItemsAt(w)'
    BY <1>1, <2>1 DEF Moves, Start, CreateBuffers, Lock, SetArgs, Finish,
       ReadCount, Go, Idle, GpuInv, ItemInv, ItemsAt, Types, TypeOK
  <2>4. QED
    BY <2>2, <2>3 DEF ItemInv
<1>6. ScanAgrees'
  <2>1. \A v \in Workers : pc'[v] = "done" => pc[v] = "done" /\ v # w
    BY <1>1, <1>2
  <2>2. QED
    BY <1>1, <2>1 DEF GpuInv, ScanAgrees, Cpu
<1>7. QED
  BY <1>3, <1>4, <1>5, <1>6 DEF GpuInv

(* A launch hands out exactly the matches of the worker's own chunk.       *)
LEMMA LaunchKeeps ==
    ASSUME GpuInv, NEW w \in Workers, Launch(w)
    PROVE  GpuInv'
<1> DEFINE c == data[w]
<1>1. /\ pc[w] = "launch" /\ pc \in [Workers -> Steps]
      /\ pc' = [pc EXCEPT ![w] = "finish"]
      /\ UNCHANGED <<scanner, data, lock, args, slotted, count, slots, found>>
      /\ c \in Chunks /\ Launched(w) = w
  BY DEF Launch, Go, GpuInv, LockInv, Types, TypeOK
<1>2. WorkItems(c) = Len(c)
  <2>1. Len(c) <= MaxU32
    <3>1. ~(Len(c) > MaxU32)
      BY <1>1 DEF GpuInv, LockInv, OnCpu
    <3>2. QED
      BY <1>1, <3>1, ChunkIs, GpuAssumption
  <2>2. WorkItems(c) \in {0, Len(c)} /\ WorkItems(c) > 0
    BY <1>1, <2>1, WorkItemsAre DEF Launch
  <2>3. QED
    BY <2>2
<1>3. todo' = [todo EXCEPT ![w] = {[on |-> w, item |-> m] : m \in Expected(c)}]
  BY <1>1, <1>2 DEF Launch, Expected
<1>4. Expected(c) \subseteq Items
  BY <1>1, ExpectedSignatures, ExpectedStrings, CpuItems
<1>5. todo'[w] = {[on |-> w, item |-> m] : m \in Expected(c)}
      /\ \A v \in Workers : v # w => todo'[v] = todo[v]
  BY <1>3 DEF GpuInv, Types
<1>6. Types'
  <2>1. todo' \in [Workers -> SUBSET Jobs]
    BY <1>3, <1>4 DEF GpuInv, Types, Jobs
  <2>2. pc' \in [Workers -> Steps]
    BY <1>1 DEF Steps
  <2>3. QED
    BY <1>1, <2>1, <2>2 DEF GpuInv, Types, TypeOK
<1>7. \A v \in Workers : pc'[v] = IF v = w THEN "finish" ELSE pc[v]
  BY <1>1
<1>8. LockInv'
  BY <1>1, <1>7 DEF GpuInv, LockInv, OnDevice, OnCpu, Launched
<1>9. ItemInv'
  <2>1. ASSUME NEW v \in Workers, v # w
        PROVE  ItemsAt(v)'
    <3>1. /\ Handed(v)' /\ (NoneMissing(v) => NoneMissing(v)')
          /\ (Idle(v) => Idle(v)')
      BY <1>1, <1>5, <2>1, SameItems DEF GpuInv, ItemInv, ItemsAt
    <3>2. QED
      BY <1>1, <1>7, <2>1, <3>1 DEF GpuInv, ItemInv, ItemsAt
  <2>2. count'[w] = 0 /\ slotted'[w] = {}
    BY <1>1 DEF GpuInv, ItemInv, ItemsAt, Idle
  <2>3. Holds(w)' = {}
    <3>1. \A j \in 0 .. MaxItems - 1 : ~(j < 0)
      BY GpuAssumption
    <3>2. Settled(w)' = {}
      BY <2>2, <3>1 DEF Settled
    <3>3. QED
      BY <2>2, <3>2 DEF Holds
  <2>4. Waiting(w)' = Expected(c)
    <3>1. \A t \in todo'[w] : t.item \in Expected(c)
      BY <1>5
    <3>2. ASSUME NEW m \in Expected(c)
          PROVE  \E t \in todo'[w] : t.item = m
      <4>1. [on |-> w, item |-> m] \in todo'[w]
        BY <1>5
      <4>2. QED
        BY <4>1
    <3>3. QED
      BY <3>1, <3>2 DEF Waiting
  <2>5. Expected(data[w])' = Expected(c)
    BY <1>1 DEF Expected, Matches
  <2>6. Handed(w)' /\ NoneMissing(w)'
    BY <1>5, <2>2, <2>3, <2>4, <2>5 DEF Handed, NoneMissing
  <2>7. ItemsAt(w)'
    BY <1>7, <2>6 DEF ItemsAt
  <2>8. QED
    BY <2>1, <2>7 DEF ItemInv
<1>10. ScanAgrees'
  BY <1>1, <1>7 DEF GpuInv, ScanAgrees, Cpu
<1>11. QED
  BY <1>6, <1>8, <1>9, <1>10 DEF GpuInv

(* A scan that returns something right.                                    *)
LEMMA ReturnKeeps ==
    ASSUME GpuInv, NEW w \in Workers, NEW items, Right(w, items),
           Return(w, items)
    PROVE  GpuInv'
<1>1. /\ pc \in [Workers -> Steps] /\ pc' = [pc EXCEPT ![w] = "done"]
      /\ found' = [found EXCEPT ![w] = items]
      /\ found \in [Workers -> Seq(Items)] /\ items \in Seq(Items)
      /\ lock' = IF lock = w THEN None ELSE lock
      /\ UNCHANGED <<scanner, data, args, todo, slotted, count, slots>>
  BY DEF Return, GpuInv, Types, TypeOK, Right
<1>2. \A v \in Workers : /\ pc'[v] = IF v = w THEN "done" ELSE pc[v]
                         /\ found'[v] = IF v = w THEN items ELSE found[v]
  BY <1>1
<1>3. Types'
  <2>1. pc' \in [Workers -> Steps] /\ found' \in [Workers -> Seq(Items)]
    BY <1>1 DEF Steps
  <2>2. ASSUME NEW v \in Workers
        PROVE  ToSet(found'[v]) \subseteq Items
    <3>1. found'[v] \in Seq(Items)
      BY <2>1
    <3>2. QED
      BY <3>1 DEF ToSet
  <2>3. lock' \in Workers \cup {None}
    BY <1>1 DEF GpuInv, Types, TypeOK
  <2>4. QED
    BY <1>1, <2>1, <2>2, <2>3 DEF GpuInv, Types, TypeOK
<1>4. LockInv'
  BY <1>1, <1>2 DEF GpuInv, LockInv, OnDevice, OnCpu, Launched
<1>5. ItemInv'
  <2>1. ASSUME NEW v \in Workers
        PROVE  /\ Handed(v)' /\ (NoneMissing(v) => NoneMissing(v)')
               /\ (Idle(v) => Idle(v)')
    BY <1>1, SameItems DEF GpuInv, ItemInv, ItemsAt
  <2>2. QED
    BY <1>1, <1>2, <2>1 DEF GpuInv, ItemInv, ItemsAt
<1>6. ScanAgrees'
  BY <1>1, <1>2 DEF GpuInv, ScanAgrees, Cpu, Right
<1>7. QED
  BY <1>3, <1>4, <1>5, <1>6 DEF GpuInv

LEMMA ReturnsKeep ==
    ASSUME GpuInv, NEW w \in Workers,
           \/ ScanOnCpu(w) \/ LaunchEmpty(w) \/ SpansOverflow(w)
           \/ ReadSlots(w) \/ DriverFails(w)
    PROVE  GpuInv'
<1>1. CASE ReadSlots(w)
  <2> DEFINE n == Min({count[w], MaxItems})
             items == Accepted(data[w], [i \in 1 .. n |-> slots[w][i - 1]])
  <2>1. pc[w] = "slots" /\ Return(w, items)
    BY <1>1 DEF ReadSlots
  <2>2. Right(w, items)
    BY <2>1, SlotsRight DEF GpuInv
  <2> HIDE DEF items
  <2>3. QED
    BY <2>1, <2>2, ReturnKeeps
<1>2. CASE UseCpu(w)
  <2>1. Right(w, InOrder(Cpu(data[w])))
    BY CpuRight DEF GpuInv
  <2>2. QED
    BY <1>2, <2>1, ReturnKeeps DEF UseCpu
<1>3. QED
  BY <1>1, <1>2 DEF ScanOnCpu, LaunchEmpty, SpansOverflow, DriverFails

(* A work item that counts a match moves it from the waiting ones to a     *)
(* slot of its own, the next one.                                          *)
LEMMA CountKeeps ==
    ASSUME GpuInv, NEW w \in Workers, Count(w)
    PROVE  GpuInv'
<1>1. PICK t \in todo[w] :
         /\ todo' = [todo EXCEPT ![w] = @ \ {t}]
         /\ slotted' = [slotted EXCEPT ![w] = @ \cup {[on |-> t.on, slot |-> count[t.on], item |-> t.item]}]
         /\ count' = [count EXCEPT ![t.on] = @ + 1]
         /\ UNCHANGED <<scanner, data, pc, lock, args, slots, found>>
  BY DEF Count
<1> DEFINE n == count[w]
           s == [on |-> w, slot |-> n, item |-> t.item]
<1>2. /\ Handed(w) /\ t.on = w /\ t.item \in Items /\ n \in Nat
      /\ todo[w] \subseteq Jobs /\ slotted[w] \subseteq Placed
      /\ MaxItems \in Nat \ {0}
  BY <1>1, GpuAssumption, SMTT(30) DEF GpuInv, Types, TypeOK, ItemInv, ItemsAt, Handed, Jobs
<1>3. \A v \in Workers :
        /\ todo'[v] = IF v = w THEN todo[w] \ {t} ELSE todo[v]
        /\ slotted'[v] = IF v = w THEN slotted[w] \cup {s} ELSE slotted[v]
        /\ count'[v] = IF v = w THEN n + 1 ELSE count[v]
  BY <1>1, <1>2 DEF GpuInv, Types, TypeOK
<1>4. Types'
  <2>1. s \in Placed
    BY <1>2 DEF Placed
  <2>2. todo' \in [Workers -> SUBSET Jobs] /\ count' \in [Workers -> Nat]
    BY <1>1, <1>2 DEF GpuInv, Types, TypeOK
  <2>3. slotted' = [slotted EXCEPT ![w] = @ \cup {s}]
    BY <1>1, <1>2
  <2>4. slotted' \in [Workers -> SUBSET Placed]
    BY <2>1, <2>3 DEF GpuInv, Types
  <2>5. QED
    BY <1>1, <2>2, <2>4 DEF GpuInv, Types, TypeOK
<1>5. LockInv'
  BY <1>1 DEF GpuInv, LockInv, OnDevice, OnCpu, Launched
<1>6. ASSUME NEW v \in Workers, v # w
      PROVE  ItemsAt(v)'
  <2>1. /\ Handed(v)' /\ (NoneMissing(v) => NoneMissing(v)')
        /\ (Idle(v) => Idle(v)')
    BY <1>1, <1>3, <1>6, SameItems DEF GpuInv, ItemInv, ItemsAt
  <2>2. QED
    BY <1>1, <1>3, <1>6, <2>1 DEF GpuInv, ItemInv, ItemsAt
<1>7. ItemsAt(w)'
  <2>1. \A u \in slotted[w] : u.slot < n /\ u.slot \in Nat
    BY <1>2 DEF Handed, Placed
  <2>2. Settled(w)' = Settled(w)
    <3>1. ASSUME NEW j \in 0 .. MaxItems - 1
          PROVE  j < count'[w] /\ (\A u \in slotted'[w] : u.slot # j)
                 <=> j < n /\ (\A u \in slotted[w] : u.slot # j)
      <4>1. j < n + 1 /\ j # n <=> j < n
        BY <1>2
      <4>2. (\A u \in slotted'[w] : u.slot # j)
              <=> j # n /\ \A u \in slotted[w] : u.slot # j
        <5>1. slotted'[w] = slotted[w] \cup {s} /\ s.slot = n
          BY <1>3
        <5> HIDE DEF s, n
        <5>2. QED
          BY <5>1
      <4>3. QED
        BY <1>3, <4>1, <4>2
    <3>2. QED
      BY <3>1 DEF Settled
  <2>3. Holds(w)' = Holds(w) \cup {Pair(n, t.item)}
    <3>1. Holds(w)' = {Pair(u.slot, u.item) : u \in slotted'[w]}
                      \cup {Pair(j, slots[w][j]) : j \in Settled(w)}
      BY <1>1, <2>2 DEF Holds
    <3>2. {Pair(u.slot, u.item) : u \in slotted'[w]}
            = {Pair(u.slot, u.item) : u \in slotted[w]} \cup {Pair(s.slot, s.item)}
      BY <1>3
    <3>3. s.slot = n /\ s.item = t.item
      OBVIOUS
    <3>4. QED
      BY <3>1, <3>2, <3>3 DEF Holds
  <2>4. Waiting(w)' = {u.item : u \in todo[w] \ {t}}
    BY <1>3 DEF Waiting
  <2>5. \A u \in todo[w] : u.item = t.item => u = t
    BY <1>2 DEF Handed, Jobs
  <2>6. Waiting(w) = Waiting(w)' \cup {t.item} /\ t.item \notin Waiting(w)'
    BY <2>4, <2>5 DEF Waiting
  <2>7. Expected(data[w])' = Expected(data[w])
    BY <1>1 DEF Expected, Matches
  <2>8. Handed(w)'
    <3>1. \A u \in todo'[w] : u.on = w /\ u.item \in Expected(data[w])
      BY <1>2, <1>3 DEF Handed
    <3>2. \A u \in slotted'[w] : u.on = w /\ u.slot < count'[w]
      BY <1>2, <1>3, <2>1 DEF Handed
    <3>3. \A u, v \in slotted'[w] : u.slot = v.slot => u = v
      BY <1>2, <1>3, <2>1 DEF Handed
    <3>4. \A p \in Holds(w)' : p.item \in Expected(data[w]) /\ p.item \notin Waiting(w)'
      BY <1>2, <2>3, <2>6 DEF Handed, Pair
    <3>5. \A p, q \in Holds(w)' : p.item = q.item => p = q
      BY <1>2, <2>3, <2>6 DEF Handed, Pair
    <3>6. QED
      BY <2>7, <3>1, <3>2, <3>3, <3>4, <3>5 DEF Handed
  <2>9. NoneMissing(w) => NoneMissing(w)'
    <3>1. ASSUME NoneMissing(w), count'[w] <= MaxItems, NEW m \in Expected(data[w])
          PROVE  m \in Waiting(w)' \/ \E p \in Holds(w)' : p.item = m
      <4>1. count[w] <= MaxItems
        BY <1>2, <1>3, <3>1
      <4>2. m \in Waiting(w) \/ \E p \in Holds(w) : p.item = m
        BY <3>1, <4>1 DEF NoneMissing
      <4>3. Pair(n, t.item) \in Holds(w)' /\ Pair(n, t.item).item = t.item
        BY <2>3 DEF Pair
      <4>4. m \in Waiting(w) => m \in Waiting(w)' \/ m = t.item
        BY <2>6
      <4>5. Holds(w) \subseteq Holds(w)'
        BY <2>3
      <4>6. QED
        BY <4>2, <4>3, <4>4, <4>5
    <3>2. QED
      BY <2>7, <3>1 DEF NoneMissing
  <2>10. pc[w] \notin {"start", "buffers", "lock", "args", "launch", "count", "slots"}
    BY <1>1 DEF GpuInv, ItemInv, ItemsAt, Idle
  <2>11. QED
    BY <1>1, <2>8, <2>9, <2>10 DEF GpuInv, ItemInv, ItemsAt
<1>8. ItemInv'
  BY <1>6, <1>7 DEF ItemInv
<1>9. ScanAgrees'
  BY <1>1 DEF GpuInv, ScanAgrees, Cpu
<1>10. QED
  BY <1>4, <1>5, <1>8, <1>9 DEF GpuInv

(* A work item that stores a match leaves it where it is; one without room *)
(* drops it, and then the buffer is full.                                  *)
LEMMA StoreKeeps ==
    ASSUME GpuInv, NEW w \in Workers, Store(w)
    PROVE  GpuInv'
<1>1. PICK s \in slotted[w] :
         /\ slotted' = [slotted EXCEPT ![w] = @ \ {s}]
         /\ slots' = IF s.slot < MaxItems
                     THEN [slots EXCEPT ![s.on][s.slot] = s.item] ELSE slots
         /\ UNCHANGED <<scanner, data, pc, lock, args, todo, count, found>>
  BY DEF Store
<1>2. /\ Handed(w) /\ s.on = w /\ s.item \in Items /\ s.slot \in Nat
      /\ s.slot < count[w] /\ count[w] \in Nat
      /\ slotted[w] \subseteq Placed /\ MaxItems \in Nat \ {0}
  BY <1>1, GpuAssumption, SMTT(30) DEF GpuInv, Types, TypeOK, ItemInv, ItemsAt, Handed, Placed
<1>3. \A v \in Workers :
        /\ slotted'[v] = IF v = w THEN slotted[w] \ {s} ELSE slotted[v]
        /\ slots'[v] = IF v = w /\ s.slot < MaxItems
                       THEN [slots[w] EXCEPT ![s.slot] = s.item] ELSE slots[v]
  BY <1>1, <1>2 DEF GpuInv, Types, TypeOK
<1>4. Types'
  <2>1. slotted' \in [Workers -> SUBSET Placed]
    BY <1>1 DEF GpuInv, Types
  <2>2. ASSUME NEW v \in Workers
        PROVE  slots'[v] \in [0 .. MaxItems - 1 -> Items]
    <3>1. slots[v] \in [0 .. MaxItems - 1 -> Items]
          /\ slots[w] \in [0 .. MaxItems - 1 -> Items]
      BY DEF GpuInv, Types, TypeOK
    <3>2. [slots[w] EXCEPT ![s.slot] = s.item] \in [0 .. MaxItems - 1 -> Items]
      BY <1>2, <3>1
    <3>3. QED
      BY <1>3, <3>1, <3>2
  <2>3. slots' \in [Workers -> [0 .. MaxItems - 1 -> Items]]
    <3>1. DOMAIN slots' = Workers /\ slots' = [v \in Workers |-> slots'[v]]
      BY <1>1, <1>2 DEF GpuInv, Types, TypeOK
    <3>2. QED
      BY <2>2, <3>1
  <2>4. QED
    BY <1>1, <2>1, <2>3 DEF GpuInv, Types, TypeOK
<1>5. LockInv'
  BY <1>1 DEF GpuInv, LockInv, OnDevice, OnCpu, Launched
<1>6. ASSUME NEW v \in Workers, v # w
      PROVE  ItemsAt(v)'
  <2>1. /\ Handed(v)' /\ (NoneMissing(v) => NoneMissing(v)')
        /\ (Idle(v) => Idle(v)')
    BY <1>1, <1>3, <1>6, SameItems DEF GpuInv, ItemInv, ItemsAt
  <2>2. QED
    BY <1>1, <1>3, <1>6, <2>1 DEF GpuInv, ItemInv, ItemsAt
<1>7. ItemsAt(w)'
  <2>1. \A u \in slotted[w] : u # s => u.slot # s.slot
    BY <1>2 DEF Handed
  <2>2. Settled(w)' = Settled(w) \cup (IF s.slot < MaxItems THEN {s.slot} ELSE {})
    <3>1. ASSUME NEW j \in 0 .. MaxItems - 1
          PROVE  j \in Settled(w)' <=> j \in Settled(w) \/ j = s.slot
      BY <1>1, <1>2, <1>3, <2>1 DEF Settled
    <3>2. s.slot < MaxItems <=> s.slot \in 0 .. MaxItems - 1
      BY <1>2
    <3>3. QED
      BY <3>1, <3>2 DEF Settled
  <2>3. s.slot \notin Settled(w)
    BY DEF Settled
  <2>4. \A j \in Settled(w) : slots'[w][j] = slots[w][j]
    BY <1>2, <1>3, <2>3 DEF Settled, GpuInv, Types, TypeOK
  <2>5. s.slot < MaxItems => slots'[w][s.slot] = s.item
    BY <1>2, <1>3 DEF GpuInv, Types, TypeOK
  <2>6. Holds(w) = {Pair(u.slot, u.item) : u \in slotted[w] \ {s}}
                   \cup {Pair(s.slot, s.item)}
                   \cup {Pair(j, slots[w][j]) : j \in Settled(w)}
    BY DEF Holds
  <2>7. Holds(w)' = {Pair(u.slot, u.item) : u \in slotted[w] \ {s}}
                    \cup (IF s.slot < MaxItems THEN {Pair(s.slot, s.item)} ELSE {})
                    \cup {Pair(j, slots[w][j]) : j \in Settled(w)}
    <3>1. {Pair(j, slots'[w][j]) : j \in Settled(w)'}
            = (IF s.slot < MaxItems THEN {Pair(s.slot, s.item)} ELSE {})
              \cup {Pair(j, slots[w][j]) : j \in Settled(w)}
      BY <2>2, <2>4, <2>5
    <3>2. Holds(w)' = {Pair(u.slot, u.item) : u \in slotted'[w]}
                      \cup {Pair(j, slots'[w][j]) : j \in Settled(w)'}
      BY DEF Holds
    <3>3. QED
      BY <1>3, <3>1, <3>2
  <2>8. Holds(w)' \subseteq Holds(w) /\ (s.slot < MaxItems => Holds(w)' = Holds(w))
    BY <2>6, <2>7
  <2>9. Waiting(w)' = Waiting(w) /\ Expected(data[w])' = Expected(data[w])
    BY <1>1 DEF Waiting, Expected, Matches
  <2>10. Handed(w)'
    BY <1>1, <1>2, <1>3, <2>8, <2>9 DEF Handed
  <2>11. NoneMissing(w) => NoneMissing(w)'
    <3>1. count[w] <= MaxItems => s.slot < MaxItems
      BY <1>2
    <3>2. QED
      BY <1>1, <2>8, <2>9, <3>1 DEF NoneMissing
  <2>12. pc[w] \notin {"start", "buffers", "lock", "args", "launch", "count", "slots"}
    BY <1>1 DEF GpuInv, ItemInv, ItemsAt, Idle
  <2>13. QED
    BY <1>1, <2>10, <2>11, <2>12 DEF GpuInv, ItemInv, ItemsAt
<1>8. ItemInv'
  BY <1>6, <1>7 DEF ItemInv
<1>9. ScanAgrees'
  BY <1>1 DEF GpuInv, ScanAgrees, Cpu
<1>10. QED
  BY <1>4, <1>5, <1>8, <1>9 DEF GpuInv

LEMMA GpuNext == GpuInv /\ [Next]_vars => GpuInv'
<1> SUFFICES ASSUME GpuInv, [Next]_vars PROVE GpuInv'
  OBVIOUS
<1>1. ASSUME NEW w \in Workers, Scan(w) \/ Device(w) \/ DriverFails(w)
      PROVE  GpuInv'
  BY <1>1, MovesKeep, LaunchKeeps, ReturnsKeep, CountKeeps, StoreKeeps
     DEF Scan, Device, Moves
<1>2. CASE UNCHANGED vars
  <2>1. Types' /\ LockInv' /\ ScanAgrees'
    BY <1>2 DEF vars, GpuInv, Types, TypeOK, LockInv, OnDevice, OnCpu, Launched,
       ScanAgrees, Cpu
  <2>2. ASSUME NEW v \in Workers
        PROVE  ItemsAt(v)'
    <3>1. /\ Handed(v)' /\ (NoneMissing(v) => NoneMissing(v)')
          /\ (Idle(v) => Idle(v)')
      BY <1>2, SameItems DEF vars, GpuInv, ItemInv, ItemsAt
    <3>2. QED
      BY <1>2, <3>1 DEF vars, GpuInv, ItemInv, ItemsAt
  <2>3. QED
    BY <2>1, <2>2 DEF GpuInv, ItemInv
<1>3. QED
  BY <1>1, <1>2 DEF Next, Terminated

(* Every reachable state is well typed: no work item writes outside the    *)
(* buffers of the kernel it belongs to, however many matches are counted.  *)
THEOREM GpuTypes == Spec => []TypeOK
<1>1. GpuInv => TypeOK
  BY DEF GpuInv, Types
<1>2. QED
  BY <1>1, GpuInit, GpuNext, PTL DEF Spec

(* Workers that share a kernel or a device, whose work items run in any    *)
(* order and whose driver calls may fail at any point, return what the CPU *)
(* finds in the same chunk, each item once; only hits beyond the buffer    *)
(* are dropped, strings never are.                                         *)
THEOREM SharedScanAgrees == Spec => []ScanAgrees
<1>1. GpuInv => ScanAgrees
  BY DEF GpuInv
<1>2. QED
  BY <1>1, GpuInit, GpuNext, PTL DEF Spec

=============================================================================
