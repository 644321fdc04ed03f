------------------------------ MODULE SocketSet ------------------------------
(***************************************************************************)
(* The set of sockets the server watches (src/src/Socketset.cpp): a vector *)
(* of sockets in the order they were added, the fd_set handed to select,   *)
(* and the highest descriptor, from which select's first argument is       *)
(* computed.  A socket is a record:                                        *)
(*   fd       its descriptor                                               *)
(*   isServer the flag the timeout sweep skips                             *)
(*   idle     seconds since lastRequest, saturating one past the timeout   *)
(***************************************************************************)
EXTENDS Integers, Sequences

CONSTANTS FD,        \* the descriptors the process can be given
          FdSetSize, \* FD_SETSIZE: an fd_set has no room for more
          Timeout    \* seconds without a request that the sweep tolerates

ASSUME SocketSetAssumption ==
    /\ FdSetSize \in Nat
    /\ FD \subseteq 1 .. (FdSetSize - 1)
    /\ Timeout \in Nat

VARIABLES connections, \* vector<Socket> connections
          socketset,   \* the descriptors FD_SET in the watched set
          highest      \* the highest descriptor, or 0

setVars == <<connections, socketset, highest>>

Connection == [fd : FD, isServer : BOOLEAN, idle : 0 .. (Timeout + 1)]

Fds(conns) == {conns[i].fd : i \in 1 .. Len(conns)}

\* Wrong: the iterator was advanced before the erase.
MutErase(conns, i) ==
    LET next == IF i < Len(conns) THEN i + 1 ELSE i IN
    SubSeq(conns, 1, next - 1) \o SubSeq(conns, next + 1, Len(conns))

\* vector::erase
Erase(conns, i) == SubSeq(conns, 1, i - 1) \o SubSeq(conns, i + 1, Len(conns))

\* The loop that looks for the highest descriptor left, starting from 0.
HighestOf(conns) ==
    CHOOSE h \in {0} \cup Fds(conns) : \A fd \in Fds(conns) : fd <= h

-----------------------------------------------------------------------------
(***************************************************************************)
(* operator += : highest is raised before the socket is stored.            *)
(***************************************************************************)
Plus(conn) ==
    /\ highest' = IF conn.fd > highest THEN conn.fd ELSE highest
    /\ connections' = Append(connections, conn)
    /\ socketset' = socketset \cup {conn.fd}

(***************************************************************************)
(* operator -= is given a reference into the vector, at position i.  After *)
(* the erase that reference denotes the element that moved into position i *)
(* - or, when the last element was erased, the descriptor still stored     *)
(* there - so this, and not the erased socket, is what is compared with    *)
(* highest.                                                                *)
(***************************************************************************)
IdAfterErase(i) ==
    IF i < Len(connections) THEN connections[i + 1].fd ELSE connections[i].fd

\* Wrong: the last socket of the vector is taken for the highest.
MutMinus(i) ==
    LET rest == Erase(connections, i) IN
    /\ socketset' = socketset \ {connections[i].fd}
    /\ connections' = rest
    /\ highest' = IF connections[i].fd = highest
                  THEN (IF rest = <<>> THEN 0 ELSE rest[Len(rest)].fd)
                  ELSE highest

\* Wrong: FD_CLR is forgotten.
MutMinusKeepsBit(i) ==
    /\ connections' = Erase(connections, i)
    /\ UNCHANGED <<socketset, highest>>

Minus(i) ==
    /\ socketset' = socketset \ {connections[i].fd}
    /\ connections' = Erase(connections, i)
    /\ highest' = IF IdAfterErase(i) = highest
                  THEN HighestOf(Erase(connections, i))
                  ELSE highest

-----------------------------------------------------------------------------
SocketSetTypeOK ==
    /\ connections \in Seq(Connection)
    /\ socketset \subseteq FD
    /\ highest \in 0 .. (FdSetSize - 1)

(***************************************************************************)
(* The vector and the fd_set describe the same sockets, each descriptor    *)
(* once: `-=` erases by descriptor and clears by descriptor, so a          *)
(* descriptor held twice would leave a socket unwatched or a bit that      *)
(* nothing owns.                                                           *)
(***************************************************************************)
VectorMatchesSet ==
    /\ socketset = Fds(connections)
    /\ \A i, j \in 1 .. Len(connections) :
          connections[i].fd = connections[j].fd => i = j

(***************************************************************************)
(* select(highest + 1, ...) examines every watched socket.  The comparison *)
(* after the erase looks at the wrong socket, so highest may be too high,  *)
(* but it is never too low: no client can fall out of select's sight.      *)
(***************************************************************************)
SelectCoversWatched == \A fd \in socketset : fd <= highest
=============================================================================
