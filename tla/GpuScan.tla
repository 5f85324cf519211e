------------------------------- MODULE GpuScan -------------------------------
(***************************************************************************)
(* The GPU scanners: scan workers that share one kernel (OpenCL) or one    *)
(* device (CUDA) behind a mutex.  A scan copies the chunk to the device,   *)
(* starts a work item per byte, waits for them and reads back what they    *)
(* appended to a buffer of MaxItems slots; on any failure of the driver    *)
(* the chunk is scanned by the CPU instead.                                *)
(*                                                                         *)
(* The byte of a chunk is 1 when it is text and 0 when not; the signatures *)
(* are texts of given lengths.  The task is the scan for signatures or the *)
(* ASCII pass of the scan for strings, whose other passes always run on    *)
(* the CPU.                                                                *)
(***************************************************************************)
EXTENDS Integers, Sequences, FiniteSets, FiniteSetsExt, SequencesExt

CONSTANTS
    Workers,   \* the scan workers
    Chunks,    \* what a chunk may hold
    PatLens,   \* the lengths of the signatures
    MinLen, MaxLen,  \* string_min_len, string_max_len
    MaxItems,  \* gpu_max_hits_per_chunk, gpu_max_string_spans_per_chunk
    MaxU32,    \* the largest u32
    Block,     \* BLOCK_SIZE, the work items of a CUDA block
    MaxFails,  \* bound: the failing calls of the driver
    None

ASSUME GpuAssumption ==
    /\ None \notin Workers /\ IsFiniteSet(Workers)
    /\ \A c \in Chunks : c \in Seq({0, 1})
    /\ PatLens \subseteq Nat \ {0} /\ IsFiniteSet(PatLens)
    /\ MinLen \in Nat \ {0} /\ MaxLen \in Nat \ {0}
    /\ MaxItems \in Nat \ {0} /\ MaxU32 \in Nat \ {0} /\ Block \in 1 .. MaxU32
    /\ MaxFails \in Nat

VARIABLES
    scanner,   \* which scanner the run was built with, and for what
    data,      \* each worker's chunk
    pc,        \* where each worker is in scan_chunk
    lock,      \* who holds the mutex
    args,      \* whose buffers the OpenCL kernel's arguments name
    todo,      \* matches no work item has counted yet, per worker that launched
    slotted,   \* counted matches with their slot, not stored yet
    count,     \* hit_count, span_count: in the buffers of each worker
    slots,     \* hit_offsets, span_starts, ...: likewise
    found,     \* what scan_chunk returned
    fails

vars == <<scanner, data, pc, lock, args, todo, slotted, count, slots, found, fails>>

-----------------------------------------------------------------------------
(* Positions count from zero, as in the code. *)
Text(c, i) == i < Len(c) /\ c[i + 1] = 1
AllText(c, i, n) == \A x \in i .. i + n - 1 : Text(c, x)

(* Where the text that holds position i ends.                              *)
TextEnd(c, i) == Min({e \in i .. Len(c) : ~Text(c, e)})
Begins(c, i) == Text(c, i) /\ (i = 0 \/ ~Text(c, i - 1))

Item(i, n) == [from |-> i, len |-> n]
Signatures(c) == {m \in [from : 0 .. Len(c) - 1, len : PatLens] : AllText(c, m.from, m.len)}

(* A piece of at most MaxLen bytes from i on.                              *)
Piece(c, i) == Item(i, Min({MaxLen, TextEnd(c, i) - i}))
TextBegin(c, i) == Max({b \in 0 .. i : Begins(c, b)})
Pieces(c, i) == {Piece(c, s) : s \in {s \in i .. TextEnd(c, i) - 1 : (s - i) % MaxLen = 0}}
Strings(c) == {p \in UNION {Pieces(c, i) : i \in {i \in 0 .. Len(c) - 1 : Begins(c, i)}} :
                 p.len >= MinLen}

(* What the CPU scanner returns, and so what a scan should.                *)
Cpu(c) == IF scanner.task = "signatures" THEN Signatures(c) ELSE Strings(c)

(* What the work item of position i appends.  The item of a string sees    *)
(* its first piece only.                                                   *)
Matches(c, i) ==
    IF scanner.task = "signatures" THEN {m \in Signatures(c) : m.from = i}
    ELSE {p \in {Piece(c, i)} : Begins(c, i) /\ p.len >= MinLen}

(* extend_long_ascii_spans: the pieces behind one that was cut at MaxLen.  *)
Extended(c, spans) ==
    UNION {{p \in Pieces(c, s.from) : p = s \/ (s.len >= MaxLen /\ p.len >= MinLen)} : s \in spans}

(* Results carry no order anyone relies on.                                *)
InOrder(items) == SetToSeq(items)

Accepted(c, items) ==
    IF scanner.task = "signatures" THEN items
    ELSE items \o InOrder(Extended(c, ToSet(items)) \ ToSet(items))

(* The work items a launch starts: CUDA counts blocks in u32, in which     *)
(* num_threads + BLOCK_SIZE - 1 wraps.                                     *)
WorkItems(c) ==
    IF scanner.api = "opencl" THEN Len(c)
    ELSE Min({Len(c), Block * (((Len(c) + Block - 1) % (MaxU32 + 1)) \div Block)})

-----------------------------------------------------------------------------
Apis == {"opencl", "cuda"}
Blank == Item(0, 0)

(* The scanners are built once; without a device, or without the feature,  *)
(* build_signature_scanner and build_string_scanner build the CPU's.       *)
Init ==
    /\ scanner \in [api : Apis \cup {"cpu"}, task : {"signatures", "strings"}]
    /\ data \in [Workers -> Chunks]
    /\ pc = [w \in Workers |-> "start"]
    /\ lock = None /\ args = None
    /\ todo = [w \in Workers |-> {}]
    /\ slotted = [w \in Workers |-> {}]
    /\ count = [w \in Workers |-> 0]
    /\ slots = [w \in Workers |-> [i \in 0 .. MaxItems - 1 |-> Blank]]
    /\ found = [w \in Workers |-> <<>>]
    /\ fails = 0

Go(w, from, to) == pc[w] = from /\ pc' = [pc EXCEPT ![w] = to]

(* scan_chunk returns; the guard of the mutex goes with it.                *)
Return(w, items) ==
    /\ pc' = [pc EXCEPT ![w] = "done"]
    /\ found' = [found EXCEPT ![w] = items]
    /\ lock' = IF lock = w THEN None ELSE lock
    /\ UNCHANGED <<scanner, data, args, todo, slotted, count, slots>>

UseCpu(w) == Return(w, InOrder(Cpu(data[w])))

(* An empty chunk, one too long for the u32 offsets, or no GPU.            *)
OnCpu(w) == scanner.api = "cpu" \/ data[w] = <<>> \/ Len(data[w]) > MaxU32

ScanOnCpu(w) == pc[w] = "start" /\ OnCpu(w) /\ UseCpu(w) /\ UNCHANGED fails

(* OpenCL creates its buffers before it takes the mutex, CUDA after.       *)
Start(w) ==
    /\ ~OnCpu(w)
    /\ Go(w, "start", IF scanner.api = "opencl" THEN "buffers" ELSE "lock")
    /\ UNCHANGED <<scanner, data, lock, args, todo, slotted, count, slots, found, fails>>

(* The buffers of this scan: a count of zero and slots of any content.     *)
CreateBuffers(w) ==
    /\ Go(w, "buffers", IF scanner.api = "opencl" THEN "lock" ELSE "launch")
    /\ UNCHANGED <<scanner, data, lock, args, todo, slotted, count, slots, found, fails>>

(* Mutant: the kernel is shared without waiting for the one that uses it.  *)
LockFree(w) ==
    /\ Go(w, "lock", IF scanner.api = "opencl" THEN "args" ELSE "buffers")
    /\ lock' = w
    /\ UNCHANGED <<scanner, data, args, todo, slotted, count, slots, found, fails>>

Lock(w) ==
    /\ lock = None /\ lock' = w
    /\ Go(w, "lock", IF scanner.api = "opencl" THEN "args" ELSE "buffers")
    /\ UNCHANGED <<scanner, data, args, todo, slotted, count, slots, found, fails>>

(* kernel.set_arg, an OpenCL kernel keeps its arguments between the calls. *)
SetArgs(w) ==
    /\ Go(w, "args", "launch")
    /\ args' = w
    /\ UNCHANGED <<scanner, data, lock, todo, slotted, count, slots, found, fails>>

(* The kernel runs on the buffers its arguments name; CUDA hands them over *)
(* with the launch.                                                        *)
Launched(w) == IF scanner.api = "opencl" THEN args ELSE w

Launch(w) ==
    LET on == Launched(w) IN
    /\ Go(w, "launch", "finish")
    /\ WorkItems(data[on]) > 0
    /\ todo' = [todo EXCEPT ![w] =
         {[on |-> on, item |-> m] : m \in UNION {Matches(data[on], i) : i \in 0 .. WorkItems(data[on]) - 1}}]
    /\ UNCHANGED <<scanner, data, lock, args, slotted, count, slots, found, fails>>

(* A launch of no blocks is an error.                                      *)
LaunchEmpty(w) ==
    /\ pc[w] = "launch" /\ WorkItems(data[Launched(w)]) = 0
    /\ UseCpu(w) /\ UNCHANGED fails

(* A work item goes through its patterns in order; atomic_inc hands out    *)
(* the slots.                                                              *)
Count(w) ==
    \E t \in todo[w] :
        /\ \A u \in todo[w] : u.item.from = t.item.from => t.item.len <= u.item.len
        /\ todo' = [todo EXCEPT ![w] = @ \ {t}]
        /\ slotted' = [slotted EXCEPT ![w] = @ \cup {[on |-> t.on, slot |-> count[t.on], item |-> t.item]}]
        /\ count' = [count EXCEPT ![t.on] = @ + 1]
        /\ UNCHANGED <<scanner, data, pc, lock, args, slots, found, fails>>

(* Mutant: the last slot is one too far.                                   *)
StorePast(w) ==
    \E s \in slotted[w] :
        /\ slotted' = [slotted EXCEPT ![w] = @ \ {s}]
        /\ slots' = IF s.slot <= MaxItems
                    THEN [slots EXCEPT ![s.on] = (s.slot :> s.item) @@ @] ELSE slots
        /\ UNCHANGED <<scanner, data, pc, lock, args, todo, count, found, fails>>

Store(w) ==
    \E s \in slotted[w] :
        /\ slotted' = [slotted EXCEPT ![w] = @ \ {s}]
        /\ slots' = IF s.slot < MaxItems
                    THEN [slots EXCEPT ![s.on][s.slot] = s.item] ELSE slots
        /\ UNCHANGED <<scanner, data, pc, lock, args, todo, count, found, fails>>

(* queue.finish, device.synchronize.                                       *)
Finish(w) ==
    /\ todo[w] = {} /\ slotted[w] = {}
    /\ Go(w, "finish", "count")
    /\ UNCHANGED <<scanner, data, lock, args, todo, slotted, count, slots, found, fails>>

(* Too many hits are cut; too many spans are scanned for again on the CPU. *)
ReadCount(w) ==
    /\ pc[w] = "count" /\ (scanner.task = "signatures" \/ count[w] <= MaxItems)
    /\ Go(w, "count", "slots")
    /\ UNCHANGED <<scanner, data, lock, args, todo, slotted, count, slots, found, fails>>

(* Mutant: the launch is tried again, with a buffer no larger.             *)
SpansRetry(w) ==
    /\ scanner.task = "strings" /\ count[w] > MaxItems
    /\ Go(w, "count", "launch")
    /\ count' = [count EXCEPT ![w] = 0]
    /\ UNCHANGED <<scanner, data, lock, args, todo, slotted, slots, found, fails>>

SpansOverflow(w) ==
    /\ pc[w] = "count" /\ scanner.task = "strings" /\ count[w] > MaxItems
    /\ UseCpu(w) /\ UNCHANGED fails

ReadSlots(w) ==
    /\ pc[w] = "slots"
    /\ LET n == Min({count[w], MaxItems})
       IN Return(w, Accepted(data[w], [i \in 1 .. n |-> slots[w][i - 1]]))
    /\ UNCHANGED fails

(* Any call of the driver may fail; what was launched still runs.          *)
DriverFails(w) ==
    /\ pc[w] \in {"buffers", "args", "launch", "finish", "count", "slots"}
    /\ fails < MaxFails /\ fails' = fails + 1
    /\ UseCpu(w)

Scan(w) ==
    \/ ScanOnCpu(w) \/ Start(w) \/ CreateBuffers(w) \/ Lock(w) \/ SetArgs(w)
    \/ Launch(w) \/ LaunchEmpty(w) \/ Finish(w)
    \/ ReadCount(w) \/ SpansOverflow(w) \/ ReadSlots(w)

Device(w) == Count(w) \/ Store(w)

Over == \A w \in Workers : pc[w] = "done" /\ todo[w] = {} /\ slotted[w] = {}
Terminated == Over /\ UNCHANGED vars

Next == (\E w \in Workers : Scan(w) \/ Device(w) \/ DriverFails(w)) \/ Terminated

(* Every worker and every launched kernel keeps running; that a call of    *)
(* the driver fails is never owed.                                         *)
Spec == Init /\ [][Next]_vars /\ \A w \in Workers : WF_vars(Scan(w)) /\ WF_vars(Device(w))

-----------------------------------------------------------------------------
Steps == {"start", "buffers", "lock", "args", "launch", "finish", "count", "slots", "done"}
Items == [from : Nat, len : Nat]

(* No work item writes outside the buffers its kernel was given, whatever  *)
(* the count has become.                                                   *)
TypeOK ==
    /\ pc \in [Workers -> Steps]
    /\ lock \in Workers \cup {None} /\ args \in Workers \cup {None}
    /\ slots \in [Workers -> [0 .. MaxItems - 1 -> Items]]
    /\ count \in [Workers -> Nat]
    /\ \A w \in Workers : ToSet(found[w]) \subseteq Items

(* A scan returns what the CPU scanner finds in the same chunk, and each   *)
(* item once, whoever shares the device, in whatever order the work items  *)
(* run and whichever calls fail.  Only hits beyond the buffer are dropped, *)
(* strings never are.                                                      *)
ScanAgrees ==
    \A w \in Workers : pc[w] = "done" =>
        LET items == found[w]
            right == Cpu(data[w])
        IN /\ IsInjective(items)
           /\ ToSet(items) \subseteq right
           /\ \/ ToSet(items) = right
              \/ scanner.task = "signatures" /\ Len(items) = MaxItems

(* Every scan returns: no worker waits for the mutex for ever, none for a  *)
(* kernel that does not end.                                               *)
Termination == <>Over
=============================================================================
