----------------------------- MODULE MCSessions -----------------------------
(***************************************************************************)
(* Sessions with two connections and four names: the empty one, "ab" and   *)
(* "a", of which the one may be cut to the other, and one of two lines,    *)
(* "x:ab:1" and "x", which are read back as "ab" and as "x".               *)
(***************************************************************************)
EXTENDS Sessions, TLC

CONSTANTS c1, c2

MCConn == {c1, c2}
MCWord == {"a", "ab", "x", "0", "1"}
MCGranted == {"1"}
MCShorter == [w \in MCWord |-> IF w = "ab" THEN {"a"} ELSE {}]
MCUUID == {<<<<>>>>, <<<<"a">>>>, <<<<"ab">>>>, <<<<"x", "ab", "1">>, <<"x">>>>}
MCOldFiles == {<<>>, <<<<"x", "a", "1">>, <<"x", "ab", "0">>>>}
MCSymmetry == Permutations(MCConn)
=============================================================================
