------------------------------ MODULE MCFraming ------------------------------
(***************************************************************************)
(* Framing with every kind of message, in every order and cut anywhere.    *)
(***************************************************************************)
EXTENDS Connection

MCKinds == AllKinds
=============================================================================
