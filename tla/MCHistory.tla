----------------------------- MODULE MCHistory -----------------------------
(***************************************************************************)
(* History with two levels, the second averaging the first, and the        *)
(* program's windows in small: a restart reads two rows more than memory   *)
(* and a flush keep.                                                       *)
(***************************************************************************)
EXTENDS History

MCInterval == <<2, 3>>
MCFrom == <<0, 1>>
=============================================================================
