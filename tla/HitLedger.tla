----------------------------- MODULE HitLedger ------------------------------
(***************************************************************************)
(* What the pipeline promises about a signature hit, without its threads   *)
(* and channels: a signature is found at most once, a found hit is settled *)
(* by its handler or dropped, exactly once and for good, a carved file is  *)
(* recorded at most once and only after it was carved, and the run does    *)
(* not end while a found hit is still open.                                *)
(***************************************************************************)
EXTENDS Naturals

CONSTANTS Sigs, Settled

VARIABLES
    fate,     \* what became of each signature
    records,  \* how many records of the log are for its file
    closed
vars == <<fate, records, closed>>

Init == /\ fate = [h \in Sigs |-> "unseen"]
        /\ records = [h \in Sigs |-> 0]
        /\ closed = FALSE

Find(h) == /\ ~closed /\ fate[h] = "unseen"
           /\ fate' = [fate EXCEPT ![h] = "found"]
           /\ UNCHANGED <<records, closed>>

Settle(h) == /\ ~closed /\ fate[h] = "found"
             /\ \E f \in Settled : fate' = [fate EXCEPT ![h] = f]
             /\ UNCHANGED <<records, closed>>

(* A worker that leaves drops its hit and all that is queued, at once.     *)
Drop(lost) == /\ ~closed /\ \A h \in lost : fate[h] = "found"
              /\ fate' = [h \in Sigs |-> IF h \in lost THEN "dropped"
                                         ELSE fate[h]]
              /\ UNCHANGED <<records, closed>>

Record(h) == /\ ~closed /\ fate[h] = "file" /\ records[h] = 0
             /\ records' = [records EXCEPT ![h] = 1]
             /\ UNCHANGED <<fate, closed>>

Close == /\ ~closed /\ \A h \in Sigs : fate[h] # "found"
         /\ closed' = TRUE
         /\ UNCHANGED <<fate, records>>

Next == \/ \E h \in Sigs : Find(h) \/ Settle(h) \/ Record(h)
        \/ \E lost \in SUBSET Sigs : Drop(lost)
        \/ Close

Spec == Init /\ [][Next]_vars
=============================================================================
