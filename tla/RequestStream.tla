---------------------------- MODULE RequestStream ----------------------------
(***************************************************************************)
(* What a connection promises its client: the server handles the requests  *)
(* it understands in the order they were sent, each once, however the      *)
(* network cuts them into pieces.  A connection may end at any time, after *)
(* which nothing more is handled.                                          *)
(***************************************************************************)
EXTENDS Naturals, Sequences, Subsequence

CONSTANTS Kinds,      \* the kinds of message a client sends
          Understood  \* those that carry a request the server can read

VARIABLES sent,    \* the kinds of the messages sent so far
          handled, \* positions in sent of the requests handled so far
          taken,   \* how many messages the server has dealt with
          up       \* the connection is open

vars == <<sent, handled, taken, up>>

\* Positions, among the first n messages, of those that carry a request.
Requests(n) == Only([i \in 1 .. n |-> i], {i \in 1 .. n : sent[i] \in Understood})

Init ==
    /\ sent = <<>>
    /\ handled = <<>>
    /\ taken = 0
    /\ up = TRUE

Send(kind) ==
    /\ sent' = Append(sent, kind)
    /\ UNCHANGED <<handled, taken, up>>

\* One receive may complete several messages.
Take ==
    /\ up
    /\ \E n \in taken .. Len(sent) :
          /\ taken' = n
          /\ handled' = Requests(n)
    /\ UNCHANGED <<sent, up>>

Drop ==
    /\ up
    /\ up' = FALSE
    /\ UNCHANGED <<sent, handled, taken>>

Next == (\E kind \in Kinds : Send(kind)) \/ Take \/ Drop

Spec == Init /\ [][Next]_vars
=============================================================================
