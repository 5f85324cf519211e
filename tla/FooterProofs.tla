---------------------------- MODULE FooterProofs ----------------------------
(***************************************************************************)
(* The footer search misses nothing, for every evidence, every set of      *)
(* footers, every limit and every way the reads may come short.            *)
(***************************************************************************)
EXTENDS FooterCarve, TLAPS

(* The carry is all that was copied or as long as a footer less one byte,  *)
(* unless the search is at its limit, where it reads no more.              *)
CarryReaches == \/ carry >= written \/ carry >= MaxFooterLen - 1
                \/ written = Limit

SearchInv ==
    /\ TypeOK
    /\ phase \in {"create", "read"} => footer = {}
    /\ phase = "create" => written = 0
    /\ written <= Limit
    /\ phase = "read" => CarryReaches
    /\ NoFooterMissed

(* The quantities of a job are the numbers the code reads off it.          *)
LEMMA JobTypes ==
    ASSUME TypeOK
    PROVE  /\ job.len \in Nat /\ job.maxSize \in Nat /\ job.minSize \in Nat
           /\ Limit \in Nat
           /\ \A f \in job.footers :
                 /\ f.at \in Nat /\ f.size \in 1 .. MaxFooterLen
                 /\ Ends(f) \in Nat /\ f.at < Ends(f)
                 /\ Ends(f) <= f.at + MaxFooterLen
  <1>1. /\ job.len \in Nat /\ job.maxSize \in Nat /\ job.minSize \in Nat
        /\ job.footers \subseteq [at : Nat, size : 1 .. MaxFooterLen]
    BY FooterAssumption DEF TypeOK
  <1>2. Limit \in Nat
    BY <1>1 DEF Limit, Least
  <1>3. ASSUME NEW f \in job.footers
        PROVE  /\ f.at \in Nat /\ f.size \in 1 .. MaxFooterLen
               /\ Ends(f) \in Nat /\ f.at < Ends(f)
               /\ Ends(f) <= f.at + MaxFooterLen
    <2>1. f.at \in Nat /\ f.size \in 1 .. MaxFooterLen
      BY <1>1
    <2> QED
      BY <2>1, FooterAssumption DEF Ends
  <1> QED
    BY <1>1, <1>2, <1>3

(* A read stays within the limit, and a read shorter than the carry        *)
(* reaches it.                                                             *)
LEMMA ReadReaches ==
    ASSUME SearchInv, NEW n \in Int, ReadOk(n)
    PROVE  /\ n >= 1 /\ written < Limit /\ written + n <= Limit
           /\ n >= MaxFooterLen - 1 \/ written + n = Limit
  <1>1. /\ job.len \in Nat /\ job.maxSize \in Nat /\ written \in Nat
        /\ written <= Limit
    BY JobTypes DEF SearchInv, TypeOK
  <1>2. /\ n >= 1 /\ n <= Asked
        /\ n >= MinRead \/ n = Asked
        /\ ~TooLong
    BY DEF ReadOk, ReadSizes
  <1>3. written + Asked <= Limit
    BY <1>1, <1>2, FooterAssumption DEF Asked, Limit, Least, TooLong
  <1>4. Asked = BufSize \/ written + Asked = Limit
    BY <1>1, <1>2, FooterAssumption DEF Asked, Limit, Least, TooLong
  <1>5. Asked \in Int /\ Limit \in Int
    BY <1>1, FooterAssumption DEF Asked, Limit, Least
  <1> QED
    BY <1>1, <1>2, <1>3, <1>4, <1>5, FooterAssumption, ReadAssumption

(* A footer that does not end in what was copied, and starts before what   *)
(* is searched, does not end in the bytes read either.                     *)
LEMMA NothingBefore ==
    ASSUME SearchInv, NEW n \in Int, ReadOk(n), NEW g \in job.footers,
           g \notin Visible(n)
    PROVE  Ends(g) > written + n
  <1>1. written \in Nat /\ carry \in Nat /\ n >= 1 /\ written < Limit
    BY ReadReaches, FooterAssumption DEF SearchInv, TypeOK
  <1>2. Ends(g) > written
    BY DEF SearchInv, NoFooterMissed, ReadOk
  <1>3. g.at \in Nat /\ Ends(g) \in Nat /\ Ends(g) <= g.at + MaxFooterLen
    BY JobTypes DEF SearchInv
  <1>4. Limit \in Nat
    BY JobTypes DEF SearchInv
  <1>5. carry >= written \/ carry >= MaxFooterLen - 1
    BY <1>1, <1>4 DEF SearchInv, CarryReaches, ReadOk
  <1>6. g.at >= written - carry
    BY <1>1, <1>2, <1>3, <1>5, FooterAssumption
  <1> QED
    BY <1>1, <1>3, <1>6 DEF Visible

-----------------------------------------------------------------------------
LEMMA SearchInit == ASSUME Init PROVE SearchInv
  <1>1. TypeOK
    <2>1. 0 \in 0 .. MaxFooterLen - 1
      BY FooterAssumption
    <2> QED
      BY <2>1 DEF Init, TypeOK
  <1>2. /\ \A g \in job.footers : Ends(g) > 0
        /\ 0 <= Limit
    BY <1>1, JobTypes
  <1> QED
    BY <1>1, <1>2 DEF Init, SearchInv, NoFooterMissed

(* The actions that read.                                                  *)
LEMMA SearchReads ==
    ASSUME SearchInv, NEW n \in 1 .. BufSize,
           HeaderMismatch(n) \/ FooterFound(n) \/ NoFooter(n)
    PROVE  SearchInv'
  <1>1. ReadOk(n) /\ n \in Int /\ phase = "read" /\ footer = {}
    BY DEF HeaderMismatch, FooterFound, NoFooter, ReadOk, SearchInv
  <1>2. /\ n >= 1 /\ written < Limit /\ written + n <= Limit
        /\ n >= MaxFooterLen - 1 \/ written + n = Limit
    BY <1>1, ReadReaches
  <1>3. TypeOK /\ Limit \in Nat /\ written \in Nat /\ MaxFooterLen \in Nat \ {0}
    BY JobTypes, FooterAssumption DEF SearchInv, TypeOK
  <1>4. CASE HeaderMismatch(n)
    BY <1>1, <1>4 DEF HeaderMismatch, SearchInv, TypeOK, NoFooterMissed, Limit,
                      Ends
  <1>5. CASE FooterFound(n)
    <2>1. PICK f \in job.footers :
             FirstIn(n, f) /\ footer' = {f} /\ written' = Ends(f)
      BY <1>5 DEF FooterFound
    <2>2. /\ phase' = "flush" /\ job' = job /\ carry' = carry
          /\ onDisk' = onDisk /\ carved' = carved
      BY <1>5 DEF FooterFound
    <2>3. Ends(f) \in Nat /\ Ends(f) <= written + n
      BY <2>1, <1>3, JobTypes DEF FirstIn, Visible
    <2>4. Limit' = Limit /\ Ends(f) <= Limit
      BY <1>2, <1>3, <2>2, <2>3 DEF Limit
    <2>5. ASSUME NEW g \in job.footers, g.at < f.at PROVE Ends(g) > Ends(f)
      <3>1. g.at \in Nat /\ f.at \in Nat /\ Ends(g) \in Nat
        BY <1>3, JobTypes
      <3>2. g \notin Visible(n)
        BY <2>1, <2>5, <3>1 DEF FirstIn
      <3>3. Ends(g) > written + n
        BY <1>1, <3>2, NothingBefore
      <3> QED
        BY <1>1, <1>3, <2>3, <3>1, <3>3
    <2>6. TypeOK'
      BY <1>3, <2>1, <2>2, <2>3 DEF TypeOK
    <2>7. NoFooterMissed'
      BY <2>1, <2>2, <2>4, <2>5 DEF NoFooterMissed, Ends
    <2> QED
      BY <2>1, <2>2, <2>4, <2>6, <2>7 DEF SearchInv
  <1>6. CASE NoFooter(n)
    <2>1. /\ written' = written + n /\ carry' = Keep(n) /\ Visible(n) = {}
          /\ job' = job /\ phase' = phase /\ footer' = footer
          /\ onDisk' = onDisk /\ carved' = carved
      BY <1>6 DEF NoFooter
    <2>2. Keep(n) \in 0 .. MaxFooterLen - 1
      BY <1>1, <1>2, <1>3 DEF Keep, Least
    <2>3. TypeOK'
      BY <1>1, <1>2, <1>3, <2>1, <2>2 DEF TypeOK
    <2>4. \A g \in job.footers : Ends(g) > written + n
      BY <1>1, <2>1, NothingBefore
    <2>5. Limit' = Limit
      BY <2>1 DEF Limit
    <2>6. CarryReaches'
      BY <1>1, <1>2, <1>3, <2>1, <2>5 DEF CarryReaches, Keep, Least
    <2>7. NoFooterMissed'
      BY <1>1, <2>1, <2>4 DEF NoFooterMissed, Ends
    <2> QED
      BY <1>1, <1>2, <2>1, <2>3, <2>5, <2>6, <2>7 DEF SearchInv
  <1> QED
    BY <1>4, <1>5, <1>6

(* The actions that do not read move neither the offset nor the footer.    *)
LEMMA SearchRest ==
    ASSUME SearchInv,
           Create \/ CreateFails \/ Truncate \/ IoFails \/ Finish \/ Ended
             \/ UNCHANGED vars
    PROVE  SearchInv'
  <1>1. TypeOK /\ Limit \in Nat /\ written \in Nat /\ written <= Limit
        /\ job.len \in Nat /\ job.maxSize \in Nat
    BY JobTypes DEF SearchInv, TypeOK
  <1>2. /\ job' = job /\ written' = written /\ carry' = carry
        /\ footer' = footer
    BY DEF Create, CreateFails, Truncate, IoFails, Finish, Ended, vars
  <1>3. Limit' = Limit
    BY <1>2 DEF Limit
  <1>4. TypeOK'
    <2>1. phase' \in {"create", "read", "flush", "done", "failed"}
      BY <1>1 DEF TypeOK, Create, CreateFails, Truncate, IoFails, Finish,
                  Ended, vars
    <2>2. onDisk' \in BOOLEAN
      BY <1>1 DEF TypeOK, Create, CreateFails, Truncate, IoFails, Finish,
                  Ended, vars
    <2>3. \/ carved' = carved
          \/ carved' = {[size |-> written, validated |-> footer # {}]}
      BY DEF Create, CreateFails, Truncate, IoFails, Finish, Ended, vars
    <2>4. carved' \subseteq [size : Nat, validated : BOOLEAN]
      <3>1. (footer # {}) \in BOOLEAN
        OBVIOUS
      <3>2. [size |-> written, validated |-> footer # {}]
              \in [size : Nat, validated : BOOLEAN]
        BY <1>1, <3>1, Zenon
      <3> QED
        BY <1>1, <2>3, <3>2, Zenon DEF TypeOK
    <2> QED
      BY <1>1, <1>2, <2>1, <2>2, <2>4 DEF TypeOK
  <1>5. \/ phase' = phase
        \/ phase = "create" /\ phase' = "read"
        \/ Truncate
        \/ phase' \in {"failed", "done"}
    BY DEF Create, CreateFails, Truncate, IoFails, Finish, Ended, vars
  <1>6. Truncate => written = Limit /\ phase = "read" /\ phase' = "flush"
    BY <1>1 DEF Truncate, TooLong, Limit, Least
  <1>7. phase' \in {"create", "read"} => footer' = {}
    BY <1>2, <1>5, <1>6 DEF SearchInv
  <1>8. phase' = "create" => written' = 0
    BY <1>2, <1>5, <1>6 DEF SearchInv
  <1>9. phase' = "read" => CarryReaches'
    <2>1. phase = "create" => carry >= written
      BY <1>1 DEF SearchInv, TypeOK
    <2> QED
      BY <1>2, <1>3, <1>5, <1>6, <2>1 DEF SearchInv, CarryReaches
  <1>10. NoFooterMissed'
    BY <1>2, <1>3, <1>5, <1>6 DEF SearchInv, NoFooterMissed, Ends
  <1> QED
    BY <1>1, <1>2, <1>3, <1>4, <1>7, <1>8, <1>9, <1>10 DEF SearchInv

LEMMA SearchInvariant == Spec => []SearchInv
  <1>1. Init => SearchInv
    BY SearchInit
  <1>2. SearchInv /\ [Next]_vars => SearchInv'
    BY SearchReads, SearchRest DEF Next
  <1> QED
    BY <1>1, <1>2, PTL DEF Spec

-----------------------------------------------------------------------------
(* process_hit of the footer handler finds the first footer it can: no     *)
(* footer ends in a carved file before the one it ends with, and a file    *)
(* without one holds none up to its limit.                                 *)
THEOREM FooterSearchCorrect == Spec => []NoFooterMissed
  <1>1. SearchInv => NoFooterMissed
    BY DEF SearchInv
  <1> QED
    BY <1>1, SearchInvariant, PTL

(* write_len is positive: the subtraction of the carry's length never      *)
(* underflows.                                                             *)
THEOREM WriteLenPositive == Spec => []FooterEndsInBuffer
  <1>1. SearchInv => FooterEndsInBuffer
    BY DEF SearchInv, NoFooterMissed, FooterEndsInBuffer, Visible
  <1> QED
    BY <1>1, SearchInvariant, PTL

-----------------------------------------------------------------------------
(* The variables of the handler keep their types: the carry is shorter     *)
(* than the longest footer, the footer is one of the job's.                *)
THEOREM FooterTypes == Spec => []TypeOK
  <1>1. SearchInv => TypeOK
    BY DEF SearchInv
  <1> QED
    BY <1>1, SearchInvariant, PTL

(* The output file is there from its creation to the end of the copy, and  *)
(* nothing is returned before that.                                        *)
FileInv ==
    /\ phase = "create" => ~onDisk
    /\ phase \in {"read", "flush"} => onDisk
    /\ phase # "done" => carved = {}
    /\ FileIffCarved

(* A handler that returns a file leaves it on disk, and one that returns   *)
(* none (the header was not there, the file is below min_size) removes it. *)
THEOREM FileKeptIffReturned == Spec => []FileIffCarved
  <1>1. Init => FileInv
    BY DEF Init, FileInv, FileIffCarved
  <1>2. FileInv /\ [Next]_vars => FileInv'
    <2> SUFFICES ASSUME FileInv, [Next]_vars PROVE FileInv'
      OBVIOUS
    <2>1. CASE Create \/ CreateFails \/ Truncate \/ IoFails \/ Ended
               \/ UNCHANGED vars
      BY <2>1 DEF FileInv, FileIffCarved, Create, CreateFails, Truncate,
                  IoFails, Ended, vars
    <2>2. ASSUME NEW n \in 1 .. BufSize,
                 HeaderMismatch(n) \/ FooterFound(n) \/ NoFooter(n)
          PROVE  FileInv'
      BY <2>2 DEF FileInv, FileIffCarved, HeaderMismatch, FooterFound,
                  NoFooter, ReadOk
    <2>3. CASE Finish
      BY <2>3 DEF FileInv, FileIffCarved, Finish
    <2> QED
      BY <2>1, <2>2, <2>3 DEF Next
  <1>3. FileInv => FileIffCarved
    BY DEF FileInv
  <1> QED
    BY <1>1, <1>2, <1>3, PTL DEF Spec

=============================================================================
