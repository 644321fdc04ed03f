----------------------------- MODULE ServerLoop -----------------------------
(***************************************************************************)
(* The main thread of the server (src/src/main.cpp): one select, at most   *)
(* one event served, one sweep for idle clients, and again.  The peers and *)
(* the kernel are the environment: they connect, send, close and finish    *)
(* TLS handshakes.  What a client says is left to the modules Framing and  *)
(* Session; here receive() has one of the outcomes that matter to the      *)
(* loop.                                                                   *)
(***************************************************************************)
EXTENDS SocketSet

CONSTANTS Listener,   \* the listening socket's descriptor
          MaxBacklog, \* bound on connections waiting to be accepted
          MaxUnread   \* bound on TLS records waiting in one socket

ASSUME ServerLoopAssumption ==
    /\ Listener \in FD
    /\ MaxBacklog \in Nat
    /\ MaxUnread \in Nat

VARIABLES pc,       \* where the main thread is in its loop
          readyset, \* what the last select reported
          fresh,    \* descriptor in startSSL, not yet stored; 0 when none
          scan,     \* position of the sweep's iterator
          open,     \* descriptors the process holds for its sockets
          backlog,  \* connections the kernel has queued on the listener
          unread,   \* records waiting to be read, per descriptor
          closed    \* descriptors whose peer has closed

loopVars == <<pc, readyset, fresh, scan>>
netVars  == <<open, backlog, unread, closed>>
vars     == <<setVars, loopVars, netVars>>

\* Wrong: the flag's meaning is inverted.
MutOverdue(conn) == conn.isServer /\ conn.idle > Timeout

\* What the sweep removes.
Overdue(conn) == ~conn.isServer /\ conn.idle > Timeout

\* What select would report of a descriptor.
Readable(fd) ==
    IF fd = Listener THEN backlog > 0 ELSE unread[fd] > 0 \/ fd \in closed

-----------------------------------------------------------------------------
(***************************************************************************)
(* listen() has succeeded, the listener is stored with isServer = true.    *)
(***************************************************************************)
ListenerSocket == [fd |-> Listener, isServer |-> TRUE, idle |-> 0]

Init ==
    /\ connections = <<ListenerSocket>>
    /\ socketset = {Listener}
    /\ highest = Listener
    /\ pc = "select"
    /\ readyset = {}
    /\ fresh = 0
    /\ scan = 1
    /\ open = {Listener}
    /\ backlog = 0
    /\ unread = [fd \in FD |-> 0]
    /\ closed = {}

-----------------------------------------------------------------------------
(***************************************************************************)
(* get_status(1): readyset is a copy of socketset that select reduces to   *)
(* the readable descriptors up to highest.  Nothing ready (the second is   *)
(* over) goes straight to the sweep; the listener comes before any client. *)
(***************************************************************************)
Select ==
    LET ready == {fd \in socketset : fd <= highest /\ Readable(fd)} IN
    /\ pc = "select"
    /\ readyset' = ready
    /\ pc' = IF ready = {} THEN "sweep"
             ELSE IF Listener \in ready THEN "accept" ELSE "dispatch"
    /\ scan' = 1
    /\ UNCHANGED <<setVars, fresh, netVars>>

(***************************************************************************)
(* listener.accept() gives any free descriptor: the statistics thread      *)
(* opens and closes files of its own, so descriptors do not come in the    *)
(* vector's order.  startSSL then spins until the handshake is over.       *)
(***************************************************************************)
Accept(fd) ==
    /\ pc = "accept"
    /\ fd \notin open
    /\ fresh' = fd
    /\ open' = open \cup {fd}
    /\ backlog' = backlog - 1
    /\ pc' = "handshake"
    /\ UNCHANGED <<setVars, readyset, scan, unread, closed>>

(***************************************************************************)
(* accept() returns -1 (no descriptor left, or the connection is gone).    *)
(* The socket is built and stored all the same; FD_SET(-1, ...) is undef-  *)
(* ined and the build's _FORTIFY_SOURCE turns it into an abort, which ends *)
(* the process and closes all it held.                                     *)
(***************************************************************************)
AcceptFails ==
    /\ pc = "accept"
    /\ pc' = "down"
    /\ connections' = <<>>
    /\ socketset' = {}
    /\ highest' = 0
    /\ readyset' = {}
    /\ open' = {}
    /\ backlog' = 0
    /\ unread' = [fd \in FD |-> 0]
    /\ closed' = {}
    /\ UNCHANGED <<fresh, scan>>

(***************************************************************************)
(* startSSL returns, its result ignored, and the socket is stored.  The    *)
(* isServer field of an accepted socket is never assigned: it is whatever  *)
(* the memory held.  lastRequest was set in accept(), so the time the      *)
(* handshake took counts against the new client.                           *)
(***************************************************************************)
HandshakeEnds(isServer, waited) ==
    /\ pc = "handshake"
    /\ Plus([fd |-> fresh, isServer |-> isServer,
             idle |-> IF isServer THEN 0 ELSE waited])
    /\ fresh' = 0
    /\ pc' = "sweep"
    /\ UNCHANGED <<readyset, scan, netVars>>

-----------------------------------------------------------------------------
\* Wrong: always the first socket of all.
MutFirstReady == 1

(***************************************************************************)
(* get_ready(): the first ready socket in the vector's order, and the      *)
(* first socket of all when none is.                                       *)
(***************************************************************************)
FirstReady ==
    LET readyAt == {i \in 1 .. Len(connections) : connections[i].fd \in readyset}
    IN  IF readyAt = {} THEN 1
        ELSE CHOOSE i \in readyAt : \A j \in readyAt : i <= j

\* lastRequest = get_current_time()
Touched(conn) == [conn EXCEPT !.idle = 0]

(***************************************************************************)
(* receive() took bytes and returned their number: they completed a        *)
(* request (lastRequest is refreshed) or did not.  Over TLS one record is  *)
(* read; in the clear everything is.                                       *)
(***************************************************************************)
Receive(complete, all) ==
    LET i == FirstReady
        fd == connections[i].fd
    IN  /\ pc = "dispatch"
        /\ unread[fd] > 0
        /\ connections' = IF complete
                          THEN [connections EXCEPT ![i] = Touched(@)]
                          ELSE connections
        /\ unread' = [unread EXCEPT ![fd] = IF all THEN 0 ELSE @ - 1]
        /\ pc' = "sweep"
        /\ UNCHANGED <<socketset, highest, readyset, fresh, scan, open,
                       backlog, closed>>

\* Wrong: erases the socket and forgets to close its descriptor.
MutForget(fd) ==
    /\ UNCHANGED open
    /\ unread' = [unread EXCEPT ![fd] = 0]
    /\ closed' = closed \ {fd}

\* ::close(): the descriptor is free again, what the kernel held for it gone.
Forget(fd) ==
    /\ open' = open \ {fd}
    /\ unread' = [unread EXCEPT ![fd] = 0]
    /\ closed' = closed \ {fd}

(***************************************************************************)
(* receive() returned 0: the peer closed, the read failed, or a TLS record *)
(* was still incomplete.  The socket is closed and erased.                 *)
(***************************************************************************)
ReceiveFails ==
    LET i == FirstReady IN
    /\ pc = "dispatch"
    /\ Minus(i)
    /\ Forget(connections[i].fd)
    /\ pc' = "sweep"
    /\ UNCHANGED <<readyset, fresh, scan, backlog>>

-----------------------------------------------------------------------------
\* Wrong: goes on behind the erased position instead of starting over.
MutSweepRemoves ==
    /\ pc = "sweep"
    /\ scan <= Len(connections)
    /\ Overdue(connections[scan])
    /\ Minus(scan)
    /\ Forget(connections[scan].fd)
    /\ scan' = scan + 1
    /\ UNCHANGED <<pc, readyset, fresh, backlog>>

(***************************************************************************)
(* The sweep's iterator: an idle client is removed, which invalidates the  *)
(* iterator, so the scan starts over; any other socket is passed by.  A    *)
(* whole scan without a removal ends the sweep.                            *)
(***************************************************************************)
SweepRemoves ==
    /\ pc = "sweep"
    /\ scan <= Len(connections)
    /\ Overdue(connections[scan])
    /\ Minus(scan)
    /\ Forget(connections[scan].fd)
    /\ scan' = 1
    /\ UNCHANGED <<pc, readyset, fresh, backlog>>

SweepPasses ==
    /\ pc = "sweep"
    /\ scan <= Len(connections)
    /\ ~Overdue(connections[scan])
    /\ scan' = scan + 1
    /\ UNCHANGED <<setVars, pc, readyset, fresh, netVars>>

SweepDone ==
    /\ pc = "sweep"
    /\ scan > Len(connections)
    /\ pc' = "select"
    /\ scan' = 1
    /\ UNCHANGED <<setVars, readyset, fresh, netVars>>

(***************************************************************************)
(* The service manager starts the process again (Restart=on-failure).      *)
(***************************************************************************)
Restart ==
    /\ pc = "down"
    /\ pc' = "select"
    /\ connections' = <<ListenerSocket>>
    /\ socketset' = {Listener}
    /\ highest' = Listener
    /\ open' = {Listener}
    /\ UNCHANGED <<readyset, fresh, scan, backlog, unread, closed>>

-----------------------------------------------------------------------------
(***************************************************************************)
(* The environment.                                                        *)
(***************************************************************************)
Connect ==
    /\ pc # "down"
    /\ backlog < MaxBacklog
    /\ backlog' = backlog + 1
    /\ UNCHANGED <<setVars, loopVars, open, unread, closed>>

PeerSends(fd) ==
    /\ fd \in open \ (closed \cup {Listener})
    /\ unread[fd] < MaxUnread
    /\ unread' = [unread EXCEPT ![fd] = @ + 1]
    /\ UNCHANGED <<setVars, loopVars, open, backlog, closed>>

PeerCloses(fd) ==
    /\ fd \in open \ (closed \cup {Listener})
    /\ closed' = closed \cup {fd}
    /\ UNCHANGED <<setVars, loopVars, open, backlog, unread>>

(***************************************************************************)
(* A second passes while the main thread waits.  What it does between two  *)
(* waits takes no time here: that time counts in the next wait.  The idle  *)
(* time of a socket the sweep skips is never read and stays 0.             *)
(***************************************************************************)
Tick ==
    /\ pc \in {"select", "handshake"}
    /\ connections' =
         [i \in 1 .. Len(connections) |->
            [connections[i] EXCEPT
               !.idle = IF connections[i].isServer \/ @ > Timeout THEN @ ELSE @ + 1]]
    /\ UNCHANGED <<socketset, highest, loopVars, netVars>>

-----------------------------------------------------------------------------
Loop ==
    \/ Select
    \/ \E fd \in FD : Accept(fd)
    \/ AcceptFails
    \/ \E complete, all \in BOOLEAN : Receive(complete, all)
    \/ ReceiveFails
    \/ SweepRemoves
    \/ SweepPasses
    \/ SweepDone
    \/ Restart

Handshake ==
    \E isServer \in BOOLEAN, waited \in 0 .. (Timeout + 1) :
        HandshakeEnds(isServer, waited)

Peers ==
    \/ Connect
    \/ \E fd \in FD : PeerSends(fd) \/ PeerCloses(fd)

Next == Loop \/ Handshake \/ Peers \/ Tick

Spec == Init /\ [][Next]_vars

(***************************************************************************)
(* The main thread keeps running, and time passes whatever it does.        *)
(* Nothing is assumed of the peers: a handshake may last forever.          *)
(***************************************************************************)
FairSpec == Spec /\ WF_vars(Loop) /\ SF_vars(Tick)

-----------------------------------------------------------------------------
TypeOK ==
    /\ SocketSetTypeOK
    /\ pc \in {"select", "accept", "handshake", "dispatch", "sweep", "down"}
    /\ readyset \subseteq FD
    /\ fresh \in FD \cup {0}
    /\ scan \in Nat
    /\ open \subseteq FD
    /\ backlog \in 0 .. MaxBacklog
    /\ unread \in [FD -> 0 .. MaxUnread]
    /\ closed \subseteq FD

(***************************************************************************)
(* Every descriptor the process holds is in the vector or in a handshake,  *)
(* and only once: none is leaked by a removal, none is closed while its    *)
(* socket is still served, and accept() cannot return one that the vector  *)
(* still names (whose bit and bytes would then be those of two clients).   *)
(***************************************************************************)
DescriptorsAccounted ==
    /\ open = Fds(connections) \cup ({fresh} \ {0})
    /\ fresh \notin Fds(connections)
    /\ (pc = "handshake") = (fresh # 0)

(***************************************************************************)
(* get_ready() never falls through to connections.front(), which is the    *)
(* listener: the socket main() calls receive() on, and perhaps closes, is  *)
(* one select reported.                                                    *)
(***************************************************************************)
ServedIsReady ==
    pc = "dispatch" => connections[FirstReady].fd \in readyset \ {Listener}

(***************************************************************************)
(* The server keeps listening: while it runs its listener is the first     *)
(* socket of the vector, whatever is erased around it.                     *)
(***************************************************************************)
ListenerKept == pc # "down" => connections # <<>> /\ connections[1] = ListenerSocket

(***************************************************************************)
(* When the sweep ends no client is overdue: starting over after each      *)
(* removal misses none although the erase moves the sockets behind it.     *)
(***************************************************************************)
SweepIsComplete ==
    [][pc = "sweep" /\ pc' = "select" =>
         \A i \in 1 .. Len(connections') : ~Overdue(connections'[i])]_vars

(***************************************************************************)
(* A client leaves the vector only because it was reported ready and its   *)
(* receive failed, or because it was overdue, or with the whole process.   *)
(***************************************************************************)
NoWrongRemoval ==
    [][\A i \in 1 .. Len(connections) :
         connections[i].fd \notin Fds(connections') =>
            \/ pc' = "down"
            \/ pc = "dispatch" /\ connections[i].fd \in readyset
            \/ pc = "sweep" /\ Overdue(connections[i])]_vars

(***************************************************************************)
(* A client whose peer has closed is let go, even one that a busier socket *)
(* earlier in the vector keeps from being served: at the latest the sweep  *)
(* finds it.  This needs the flag the sweep reads to be false, and the     *)
(* main thread not to spin in a handshake forever.                         *)
(***************************************************************************)
Sweepable(fd) ==
    \E i \in 1 .. Len(connections) :
        connections[i].fd = fd /\ ~connections[i].isServer

ClosedClientsReleased ==
    []<>(pc # "handshake") =>
        \A fd \in FD : (fd \in closed /\ Sweepable(fd)) ~> (fd \notin closed)
=============================================================================
