----------------------------- MODULE Subsequence -----------------------------
(***************************************************************************)
(* A part of a sequence, in its order: what is read of a file, what is     *)
(* left of a stream.  It is a recursive function, and not SelectSeq, for   *)
(* the proofs, which can unfold it.                                        *)
(***************************************************************************)
EXTENDS Naturals, Sequences

\* The elements of s that are in S.
Only(s, S) ==
    LET kept[n \in 0 .. Len(s)] ==
            IF n = 0 THEN <<>>
            ELSE IF s[n] \in S THEN Append(kept[n - 1], s[n]) ELSE kept[n - 1]
    IN  kept[Len(s)]
==============================================================================
