----------------------------- MODULE MCServerLoop -----------------------------
(***************************************************************************)
(* ServerLoop with three client descriptors around the listener's, so that *)
(* the vector's order and the descriptors' order differ.                   *)
(***************************************************************************)
EXTENDS ServerLoop

MCListener == 2
MCFD == {1, MCListener, 3, 4}
MCFewFD == {1, MCListener, 3}
=============================================================================
