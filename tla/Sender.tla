-------------------------------- MODULE Sender --------------------------------
(***************************************************************************)
(* Replies on their way to a client (src/src/Socket.cpp, send and its      *)
(* calls in parse).  The socket does not block: over TLS send writes a     *)
(* piece of at most 8192 bytes after the other and tries again until there *)
(* is room, in the clear it gives all to the kernel once.  Nobody looks at *)
(* what it returns.                                                        *)
(*                                                                         *)
(* A piece is named by its reply and its place in it.  A query's reply is  *)
(* two calls, a header with the length and the data; others are one call.  *)
(***************************************************************************)
EXTENDS Naturals, Sequences, SequencesExt, Subsequence

CONSTANTS Pieces,     \* pieces of a large reply's data
          Room,       \* pieces the kernel holds for the client
          MaxReplies  \* bound on the replies of a connection

ASSUME SenderAssumption == {Pieces, Room} \subseteq Nat \ {0} /\ MaxReplies \in Nat

VARIABLES tls,      \* secure
          replies,  \* replies begun
          promised, \* their pieces, in order
          calls,    \* what is left of the calls of send being made
          held,     \* the record the TLS library could not write yet, if any
          wire,     \* pieces in the kernel and the network
          got,      \* pieces the client has
          gone,     \* the client has closed
          lost      \* pieces of calls that were given up

senderVars == <<tls, replies, promised, calls, held, wire, got, gone, lost>>

Piece(n, i) == [reply |-> n, place |-> i]

AllPieces == [reply : 1 .. MaxReplies, place : 0 .. Pieces]

Short(n) == <<<<Piece(n, 0)>>>>
Large(n) == <<<<Piece(n, 0)>>, [i \in 1 .. Pieces |-> Piece(n, i)]>>

ShorterOf(a, b) == IF a <= b THEN a ELSE b

InitSender ==
    /\ tls \in BOOLEAN
    /\ replies = 0
    /\ promised = <<>> /\ calls = <<>> /\ held = <<>> /\ wire = <<>> /\ got = <<>>
    /\ gone = FALSE
    /\ lost = {}

-----------------------------------------------------------------------------
\* parse() answers a request; the one before was answered.
BeginReply(reply) ==
    /\ calls = <<>> /\ ~gone
    /\ replies < MaxReplies
    /\ replies' = replies + 1
    /\ calls' = reply
    /\ promised' = promised \o FlattenSeq(reply)
    /\ UNCHANGED <<tls, held, wire, got, gone, lost>>

Sending == calls # <<>> /\ UNCHANGED <<tls, replies, promised, got, gone>>

\* The piece SSL_write is called with.
Next8192 == Head(Head(calls))

\* data.substr(r); the call returns behind its last piece.
Shortened ==
    IF Len(Head(calls)) = 1 THEN Tail(calls)
    ELSE <<Tail(Head(calls))>> \o Tail(calls)

(***************************************************************************)
(* SSL_write: a record that waits is finished before anything else, and    *)
(* counts for the piece of the call, whichever that is.                    *)
(***************************************************************************)
SslWrites ==
    /\ Sending /\ tls /\ ~gone
    /\ Len(wire) < Room
    /\ LET record == IF held = <<>> THEN Next8192 ELSE Head(held) IN
       /\ wire' = Append(wire, record)
       /\ lost' = (lost \cup {Next8192}) \ {record}
    /\ held' = <<>>
    /\ calls' = Shortened

\* Wrong: the piece is taken for written.
MutSslWants ==
    /\ Sending /\ tls /\ ~gone
    /\ Len(wire) = Room
    /\ held = <<>>
    /\ held' = <<Next8192>>
    /\ calls' = Shortened
    /\ UNCHANGED <<wire, lost>>

\* SSL_ERROR_WANT_WRITE: the loop tries the same piece again.
SslWants ==
    /\ Sending /\ tls /\ ~gone
    /\ Len(wire) = Room
    /\ held = <<>>
    /\ held' = <<Next8192>>
    /\ UNCHANGED <<calls, wire, lost>>

\* The call returns 0, and the next one is made all the same.
GiveUp ==
    /\ calls' = Tail(calls)
    /\ lost' = lost \cup ToSet(Head(calls))
    /\ UNCHANGED <<held, wire>>

(***************************************************************************)
(* A piece but the last is a copy made for the attempt.  The library       *)
(* refuses to go on with a record from another address than before: that   *)
(* of the next copy, or of another call.                                   *)
(***************************************************************************)
SslRefuses ==
    /\ Sending /\ tls /\ ~gone
    /\ held # <<>>
    /\ Len(Head(calls)) > 1 \/ Head(held) # Next8192
    /\ GiveUp

\* The client has closed.
SendFails == Sending /\ gone /\ GiveUp

\* In the clear what does not fit is not sent.
ClearSends ==
    /\ Sending /\ ~tls /\ ~gone
    /\ LET data == Head(calls)
           fits == ShorterOf(Len(data), Room - Len(wire))
       IN  /\ wire' = wire \o SubSeq(data, 1, fits)
           /\ lost' = lost \cup ToSet(SubSeq(data, fits + 1, Len(data)))
    /\ calls' = Tail(calls)
    /\ UNCHANGED held

-----------------------------------------------------------------------------
ClientReads ==
    /\ wire # <<>>
    /\ got' = Append(got, Head(wire))
    /\ wire' = Tail(wire)
    /\ UNCHANGED <<tls, replies, promised, calls, held, gone, lost>>

ClientCloses ==
    /\ ~gone
    /\ gone' = TRUE
    /\ UNCHANGED <<tls, replies, promised, calls, held, wire, got, lost>>

NextSender ==
    \/ BeginReply(Short(replies + 1)) \/ BeginReply(Large(replies + 1))
    \/ SslWrites \/ SslWants \/ SslRefuses \/ SendFails \/ ClearSends
    \/ ClientReads \/ ClientCloses

(***************************************************************************)
(* Every piece of every reply is with the client, on its way, still to be  *)
(* written, or was in a call that gave up: once, and in the order of the   *)
(* replies.  Pieces that had to wait for room are neither dropped nor      *)
(* written twice.  Over TLS, before the client closes, nothing is lost     *)
(* unless a piece of the data of a large reply is.                         *)
(***************************************************************************)
RepliesAreAccounted ==
    /\ Only(promised, AllPieces \ lost) = got \o wire \o FlattenSeq(calls)
    /\ tls /\ ~gone /\ lost # {} => \E p \in lost : p.place > 0
=============================================================================
