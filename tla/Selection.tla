------------------------------- MODULE Selection -------------------------------
(***************************************************************************)
(* A loop over a list that keeps some of its elements: SelectSeq as a      *)
(* recursive function, whose values a proof can follow.                    *)
(***************************************************************************)
EXTENDS Naturals, Sequences

\* The elements of s that are in S, in their order.
Kept(s, S) ==
    LET kept[k \in 0 .. Len(s)] ==
            IF k = 0 THEN <<>>
            ELSE IF s[k] \in S THEN Append(kept[k - 1], s[k]) ELSE kept[k - 1]
    IN  kept[Len(s)]
================================================================================
