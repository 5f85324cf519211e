------------------------------- MODULE Carvers -------------------------------
(***************************************************************************)
(* One call of process_hit of any file type handler: what all of them      *)
(* share, and the loop of the one the hit is for.                          *)
(***************************************************************************)
EXTENDS StreamCarvers, DocumentCarvers, MarkerCarvers, SizedCarvers

Steps == Shared \/ StreamNext \/ DocumentNext \/ MarkerNext \/ SizedNext

Next == Steps \/ Fails

(* A worker keeps running its handler; that a call fails is never owed.    *)
Spec == Init /\ [][Next]_vars /\ WF_vars(Steps)
=============================================================================
