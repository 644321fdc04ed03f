--------------------------- MODULE MCKeyedHistory ---------------------------
(***************************************************************************)
(* KeyedHistory with two interfaces.                                       *)
(***************************************************************************)
EXTENDS KeyedHistory

CONSTANTS eth0, eth1

MCDevice == {eth0, eth1}
=============================================================================
