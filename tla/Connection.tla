------------------------------ MODULE Connection ------------------------------
(***************************************************************************)
(* The two directions of a connection, requests (Framing) and replies      *)
(* (Sender).  One thread handles both, and a request is answered before    *)
(* the next bytes are read; but nothing of the one direction is seen by    *)
(* the other, so a behaviour shows one of them.                            *)
(***************************************************************************)
EXTENDS Framing, Sender

VARIABLE direction \* the one a behaviour is about

connectionVars == <<direction, vars, senderVars>>

ConnectionInit ==
    /\ direction \in {"requests", "replies"}
    /\ Init
    /\ InitSender
    /\ direction = "replies" => secure
    /\ direction = "requests" => tls

Requests == direction = "requests" /\ Next /\ UNCHANGED <<direction, senderVars>>

Replies == direction = "replies" /\ NextSender /\ UNCHANGED <<direction, vars>>

ConnectionSpec == ConnectionInit /\ [][Requests \/ Replies]_connectionVars
=============================================================================
