------------------------------ MODULE MCFooter ------------------------------
(***************************************************************************)
(* Small evidence for FooterCarve: up to two footers of two lengths,       *)
(* anywhere, also overlapping each other, the header and the limits.       *)
(***************************************************************************)
EXTENDS FooterCarve

CONSTANTS Lens, FooterSizes, Headers, MaxSizes, MinSizes

FootersIn(len) == {f \in [at : 0 .. len - 1, size : FooterSizes] :
                     f.at + f.size <= len}

SmallJobs ==
    UNION {[len : {len}, footers : {{f, g} : f, g \in FootersIn(len)} \cup {{}},
            headers : Headers, maxSize : MaxSizes, minSize : MinSizes] :
             len \in Lens}
=============================================================================
