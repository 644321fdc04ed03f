--------------------------- MODULE Serving_proofs ---------------------------
(***************************************************************************)
(* Theorems about how clients are served: the server's main loop, for      *)
(* every set of descriptors, every FD_SETSIZE, every timeout and every     *)
(* bound on what waits; and the copies of the clients that poll it, for    *)
(* every finite set of devices, every kind of collector and every          *)
(* HISTORY_SIZE.                                                           *)
(***************************************************************************)
EXTENDS ServerLoop, Polling, SequenceFacts, FiniteSetTheorems

-----------------------------------------------------------------------------
(***************************************************************************)
(* Least and greatest elements, for the CHOOSEs of get_ready and `-=`.     *)
(***************************************************************************)

\* A set of natural numbers that is not empty has a least element.
LEMMA LeastExists ==
  ASSUME NEW T \in SUBSET Nat, T # {}
  PROVE  \E x \in T : \A y \in T : x <= y
<1>1. \E x \in T : \A y \in T : ~ (<<y, x>> \in OpToRel(<, Nat))
  BY WFMin, NatLessThanWellFounded
<1>2. PICK x \in T : \A y \in T : ~ (<<y, x>> \in OpToRel(<, Nat))
  BY <1>1
<1>3. \A y \in T : x <= y
  <2> TAKE y \in T
  <2>1. <<y, x>> \in Nat \X Nat
    OBVIOUS
  <2>2. ~ (y < x)
    BY <1>2, <2>1 DEF OpToRel
  <2> QED
    BY <2>2
<1> QED
  BY <1>3

\* A bounded set of natural numbers that is not empty has a greatest element.
LEMMA GreatestExists ==
  ASSUME NEW T \in SUBSET Nat, T # {}, NEW bound \in Nat, \A x \in T : x <= bound
  PROVE  \E x \in T : \A y \in T : y <= x
<1> DEFINE Rest == {bound - x : x \in T}
<1>1. Rest \in SUBSET Nat /\ Rest # {}
  <2>1. \A x \in T : bound - x \in Nat
    OBVIOUS
  <2>2. PICK x \in T : TRUE
    OBVIOUS
  <2>3. bound - x \in Rest
    OBVIOUS
  <2> QED
    BY <2>1, <2>3
<1> HIDE DEF Rest
<1>2. PICK r \in Rest : \A s \in Rest : r <= s
  BY <1>1, LeastExists
<1>3. PICK x \in T : r = bound - x
  BY DEF Rest
<1>4. \A y \in T : y <= x
  <2> TAKE y \in T
  <2>1. bound - y \in Rest
    BY DEF Rest
  <2>2. bound - x <= bound - y
    BY <1>2, <1>3, <2>1
  <2> QED
    BY <2>2
<1> QED
  BY <1>4

\* Descriptors are positive and fit an fd_set.
LEMMA DescriptorBounds ==
  /\ FdSetSize \in Nat
  /\ FdSetSize - 1 \in Nat
  /\ Listener \in FD
  /\ \A fd \in FD : fd \in Nat /\ 1 <= fd /\ fd <= FdSetSize - 1
<1>1. FdSetSize \in Nat /\ FD \subseteq 1 .. (FdSetSize - 1) /\ Listener \in FD
  BY SocketSetAssumption, ServerLoopAssumption
<1>2. \A fd \in FD : fd \in 1 .. (FdSetSize - 1)
  BY <1>1
<1>3. ASSUME NEW fd \in FD
      PROVE  fd \in Nat /\ 1 <= fd /\ fd <= FdSetSize - 1
  <2>1. fd \in 1 .. (FdSetSize - 1) /\ FdSetSize \in Nat
    BY <1>1, <1>2
  <2> QED
    BY <2>1
<1>4. FdSetSize - 1 \in Nat
  BY <1>1, <1>3
<1> QED
  BY <1>1, <1>3, <1>4

-----------------------------------------------------------------------------
(***************************************************************************)
(* What vector::erase leaves.                                              *)
(***************************************************************************)
LEMMA EraseProperties ==
  ASSUME NEW S, NEW conns \in Seq(S), NEW i \in 1 .. Len(conns)
  PROVE  /\ Erase(conns, i) \in Seq(S)
         /\ Len(Erase(conns, i)) = Len(conns) - 1
         /\ \A j \in 1 .. Len(conns) - 1 :
               Erase(conns, i)[j] = IF j < i THEN conns[j] ELSE conns[j + 1]
<1> DEFINE front == SubSeq(conns, 1, i - 1)
           back  == SubSeq(conns, i + 1, Len(conns))
<1>1. Len(conns) \in Nat /\ \A j \in 1 .. Len(conns) : conns[j] \in S
  BY LenProperties, ElementOfSeq
<1>2. /\ front \in Seq(S)
      /\ Len(front) = i - 1
      /\ \A j \in 1 .. i - 1 : front[j] = conns[j]
  <2>1. \A j \in 1 .. i - 1 : conns[j] \in S
    BY <1>1
  <2> QED
    BY <1>1, <2>1, SubSeqProperties
<1>3. /\ back \in Seq(S)
      /\ Len(back) = Len(conns) - i
      /\ \A j \in 1 .. Len(conns) - i : back[j] = conns[i + j]
  <2>1. \A j \in i + 1 .. Len(conns) : conns[j] \in S
    BY <1>1
  <2> QED
    BY <1>1, <2>1, SubSeqProperties
<1> HIDE DEF front, back
<1>4. /\ front \o back \in Seq(S)
      /\ Len(front \o back) = Len(front) + Len(back)
      /\ \A j \in 1 .. Len(front) + Len(back) :
            (front \o back)[j] = IF j <= Len(front) THEN front[j]
                                 ELSE back[j - Len(front)]
  BY <1>2, <1>3, ConcatProperties
<1>5. Erase(conns, i) = front \o back
  BY DEF Erase, front, back
<1>6. Len(Erase(conns, i)) = Len(conns) - 1
  <2>1. Len(front) + Len(back) = Len(conns) - 1
    BY <1>1, <1>2, <1>3
  <2>2. Len(front \o back) = Len(conns) - 1
    BY <2>1, <1>4
  <2> QED
    BY <2>2, <1>5
<1>7. ASSUME NEW j \in 1 .. Len(conns) - 1
      PROVE  Erase(conns, i)[j] = IF j < i THEN conns[j] ELSE conns[j + 1]
  <2>1. (front \o back)[j] = IF j <= i - 1 THEN front[j] ELSE back[j - (i - 1)]
    BY <1>1, <1>2, <1>3, <1>4, SMTT(30)
  <2>2. CASE j < i
    <3>1. j \in 1 .. i - 1 /\ j <= i - 1
      BY <2>2, <1>1
    <3>2. (front \o back)[j] = conns[j]
      BY <2>1, <3>1, <1>2
    <3> QED
      BY <2>2, <3>2, <1>5
  <2>3. CASE j >= i
    <3>1. back[j - (i - 1)] = conns[i + (j - (i - 1))]
      BY <2>3, <1>1, <1>3
    <3>2. i + (j - (i - 1)) = j + 1
      BY <1>1
    <3>3. (front \o back)[j] = conns[j + 1]
      BY <2>1, <2>3, <3>1, <3>2, <1>1
    <3>4. Erase(conns, i)[j] = conns[j + 1]
      BY <3>3, <1>5, Zenon
    <3>5. ~ (j < i)
      BY <2>3, <1>1
    <3> QED
      BY <3>4, <3>5, Zenon
  <2> QED
    BY <2>2, <2>3, <1>1
<1> QED
  BY <1>4, <1>5, <1>6, <1>7

-----------------------------------------------------------------------------
(***************************************************************************)
(* The socket set: its three facts survive += and `-=`.                    *)
(***************************************************************************)
DistinctFds(conns) ==
    \A i, j \in 1 .. Len(conns) : conns[i].fd = conns[j].fd => i = j

SetInv == SocketSetTypeOK /\ VectorMatchesSet /\ SelectCoversWatched

\* The descriptors of a vector are descriptors of the process.
LEMMA FdsAreDescriptors ==
  ASSUME NEW conns \in Seq(Connection)
  PROVE  Fds(conns) \subseteq FD
<1>1. \A i \in 1 .. Len(conns) : conns[i] \in Connection
  BY ElementOfSeq
<1> QED
  BY <1>1 DEF Fds, Connection

\* `-=` on the vector: the erased descriptor is gone, the others stay, each
\* still once.
LEMMA FdsOfErase ==
  ASSUME NEW conns \in Seq(Connection), NEW i \in 1 .. Len(conns), DistinctFds(conns)
  PROVE  /\ Fds(Erase(conns, i)) = Fds(conns) \ {conns[i].fd}
         /\ DistinctFds(Erase(conns, i))
<1> DEFINE rest == Erase(conns, i)
<1>1. /\ Len(conns) \in Nat
      /\ Len(rest) = Len(conns) - 1
      /\ \A j \in 1 .. Len(conns) - 1 :
            rest[j] = IF j < i THEN conns[j] ELSE conns[j + 1]
  BY EraseProperties, LenProperties
<1> HIDE DEF rest
<1>2. \A j \in 1 .. Len(rest) : rest[j].fd \in Fds(conns) \ {conns[i].fd}
  <2> TAKE j \in 1 .. Len(rest)
  <2>1. CASE j < i
    BY <1>1, <2>1 DEF Fds, DistinctFds
  <2>2. CASE ~ (j < i)
    BY <1>1, <2>2 DEF Fds, DistinctFds
  <2> QED
    BY <2>1, <2>2
<1>3. \A k \in 1 .. Len(conns) : k # i => conns[k].fd \in Fds(rest)
  <2> SUFFICES ASSUME NEW k \in 1 .. Len(conns), k # i
               PROVE  conns[k].fd \in Fds(rest)
    OBVIOUS
  <2>1. CASE k < i
    <3>1. k \in 1 .. Len(rest) /\ rest[k] = conns[k]
      BY <1>1, <2>1
    <3> QED
      BY <3>1 DEF Fds
  <2>2. CASE k > i
    <3>1. k - 1 \in 1 .. Len(rest) /\ rest[k - 1] = conns[k]
      BY <1>1, <2>2
    <3> QED
      BY <3>1 DEF Fds
  <2> QED
    BY <2>1, <2>2, <1>1
<1>4. Fds(rest) = Fds(conns) \ {conns[i].fd}
  BY <1>2, <1>3 DEF Fds
<1>5. DistinctFds(rest)
  <2> SUFFICES ASSUME NEW j \in 1 .. Len(rest), NEW k \in 1 .. Len(rest),
                      rest[j].fd = rest[k].fd
               PROVE  j = k
    BY DEF DistinctFds
  <2> DEFINE at(n) == IF n < i THEN n ELSE n + 1
  <2>1. /\ at(j) \in 1 .. Len(conns) /\ rest[j] = conns[at(j)]
        /\ at(k) \in 1 .. Len(conns) /\ rest[k] = conns[at(k)]
    BY <1>1
  <2>2. at(j) = at(k)
    BY <2>1 DEF DistinctFds
  <2> QED
    BY <2>2, <1>1
<1> QED
  BY <1>4, <1>5 DEF rest

\* The loop in `-=` finds a descriptor no other exceeds, or 0.
LEMMA HighestOfBounds ==
  ASSUME NEW conns \in Seq(Connection)
  PROVE  /\ HighestOf(conns) \in 0 .. (FdSetSize - 1)
         /\ \A fd \in Fds(conns) : fd <= HighestOf(conns)
<1> DEFINE T == {0} \cup Fds(conns)
<1>1. Fds(conns) \subseteq FD
  BY FdsAreDescriptors
<1>2. /\ T \in SUBSET Nat
      /\ T # {}
      /\ FdSetSize - 1 \in Nat
      /\ \A x \in T : x <= FdSetSize - 1
  BY <1>1, DescriptorBounds
<1>3. \E h \in T : \A y \in T : y <= h
  BY <1>2, GreatestExists
<1>4. \E h \in {0} \cup Fds(conns) : \A fd \in Fds(conns) : fd <= h
  BY <1>3
<1>5. /\ HighestOf(conns) \in {0} \cup Fds(conns)
      /\ \A fd \in Fds(conns) : fd <= HighestOf(conns)
  BY <1>4 DEF HighestOf
<1> QED
  BY <1>2, <1>5

\* `-=` keeps what the set promises: the vector and the fd_set agree, and
\* highest is not below any watched descriptor.
LEMMA MinusKeepsSet ==
  ASSUME SetInv, NEW i \in 1 .. Len(connections), Minus(i)
  PROVE  /\ SetInv'
         /\ connections' = Erase(connections, i)
         /\ Fds(connections') = Fds(connections) \ {connections[i].fd}
<1>1. /\ connections \in Seq(Connection)
      /\ DistinctFds(connections)
      /\ socketset = Fds(connections)
  BY DEF SetInv, SocketSetTypeOK, VectorMatchesSet, DistinctFds
<1>2. connections' = Erase(connections, i) /\ connections' \in Seq(Connection)
  BY <1>1, EraseProperties DEF Minus
<1>3. /\ Fds(Erase(connections, i)) = Fds(connections) \ {connections[i].fd}
      /\ DistinctFds(Erase(connections, i))
  BY <1>1, FdsOfErase
<1>4. socketset' = Fds(connections')
  BY <1>1, <1>2, <1>3 DEF Minus
<1>5. highest' \in 0 .. (FdSetSize - 1) /\ \A fd \in Fds(connections') : fd <= highest'
  <2>1. CASE IdAfterErase(i) = highest
    <3>1. highest' = HighestOf(connections')
      BY <2>1, <1>2 DEF Minus
    <3> QED
      BY <3>1, <1>2, HighestOfBounds
  <2>2. CASE IdAfterErase(i) # highest
    <3>1. highest' = highest
      BY <2>2 DEF Minus
    <3> QED
      BY <3>1, <1>1, <1>2, <1>3
         DEF SetInv, SocketSetTypeOK, SelectCoversWatched
  <2> QED
    BY <2>1, <2>2
<1>6. socketset' \subseteq FD
  BY <1>2, <1>4, FdsAreDescriptors
<1> QED
  BY <1>2, <1>3, <1>4, <1>5, <1>6
     DEF SetInv, SocketSetTypeOK, VectorMatchesSet, SelectCoversWatched, DistinctFds

\* `+=` of a descriptor that is new keeps it too.
LEMMA PlusKeepsSet ==
  ASSUME SetInv, NEW conn \in Connection, conn.fd \notin Fds(connections), Plus(conn)
  PROVE  /\ SetInv'
         /\ Fds(connections') = Fds(connections) \cup {conn.fd}
<1> DEFINE n == Len(connections)
<1>1. connections \in Seq(Connection) /\ n \in Nat
  BY LenProperties DEF SetInv, SocketSetTypeOK
<1>2. /\ connections' \in Seq(Connection)
      /\ Len(connections') = n + 1
      /\ \A i \in 1 .. n : connections'[i] = connections[i]
      /\ connections'[n + 1] = conn
  BY <1>1, AppendProperties DEF Plus
<1> HIDE DEF n
<1>3. Fds(connections') = Fds(connections) \cup {conn.fd}
  <2>1. \A i \in 1 .. n + 1 : connections'[i].fd \in Fds(connections) \cup {conn.fd}
    BY <1>1, <1>2 DEF Fds, n
  <2>2. \A i \in 1 .. n : connections[i].fd \in Fds(connections')
    BY <1>1, <1>2 DEF Fds
  <2>3. conn.fd \in Fds(connections')
    BY <1>1, <1>2 DEF Fds
  <2> QED
    BY <1>2, <2>1, <2>2, <2>3 DEF Fds, n
<1>4. conn.fd \in FD /\ conn.fd \in 0 .. (FdSetSize - 1)
  <2>1. conn.fd \in FD
    BY DEF Connection
  <2> QED
    BY <2>1, DescriptorBounds
<1>5. DistinctFds(connections')
  <2>1. \A i \in 1 .. n : connections[i].fd # conn.fd
    BY DEF Fds, n
  <2> QED
    BY <1>1, <1>2, <2>1 DEF DistinctFds, SetInv, VectorMatchesSet, n
<1>6. /\ highest' \in 0 .. (FdSetSize - 1)
      /\ \A fd \in socketset' : fd <= highest'
  <2>1. socketset \subseteq FD /\ highest \in 0 .. (FdSetSize - 1)
    BY DEF SetInv, SocketSetTypeOK
  <2>2. \A fd \in socketset : fd \in Nat /\ fd <= highest
    BY <2>1, DescriptorBounds DEF SetInv, SelectCoversWatched
  <2> QED
    BY <1>4, <2>1, <2>2 DEF Plus
<1>7. socketset' = Fds(connections') /\ socketset' \subseteq FD
  BY <1>3, <1>4 DEF Plus, SetInv, SocketSetTypeOK, VectorMatchesSet
<1> QED
  BY <1>2, <1>3, <1>5, <1>6, <1>7
     DEF SetInv, SocketSetTypeOK, VectorMatchesSet, SelectCoversWatched, DistinctFds

-----------------------------------------------------------------------------
(***************************************************************************)
(* The inductive invariant: the facts the runs check, and what they need   *)
(* of the loop's place: a client is served only when select reported one,  *)
(* the listener is accepted from only when something waits there, and the  *)
(* sweep leaves nobody overdue behind its iterator.                        *)
(***************************************************************************)
LoopInv ==
    /\ pc = "dispatch" => readyset # {} /\ readyset \subseteq socketset \ {Listener}
    /\ pc = "accept" => backlog > 0
    /\ pc = "down" => connections = <<>>
    /\ scan \in Nat \ {0}
    /\ pc # "sweep" => scan = 1
    /\ \A i \in 1 .. Len(connections) : i < scan => ~ Overdue(connections[i])

IInv == TypeOK /\ VectorMatchesSet /\ SelectCoversWatched
        /\ DescriptorsAccounted /\ ListenerKept /\ LoopInv

\* The invariant of the loop holds the invariant of the set.
LEMMA IInvHasSetInv == IInv => SetInv
  BY DEF IInv, SetInv, TypeOK

\* The listener is a socket.
LEMMA ListenerSocketType == ListenerSocket \in Connection
<1>1. 0 \in 0 .. (Timeout + 1)
  BY SocketSetAssumption
<1> QED
  BY <1>1, DescriptorBounds DEF ListenerSocket, Connection

\* A vector that holds the listener alone.
LEMMA OneListener ==
  /\ <<ListenerSocket>> \in Seq(Connection)
  /\ Len(<<ListenerSocket>>) = 1
  /\ <<ListenerSocket>>[1] = ListenerSocket
  /\ <<ListenerSocket>> # <<>>
  /\ Fds(<<ListenerSocket>>) = {Listener}
  /\ \A i, j \in 1 .. Len(<<ListenerSocket>>) : i = j
<1>1. <<ListenerSocket>> \in Seq(Connection)
  BY ListenerSocketType
<1>2. Fds(<<ListenerSocket>>) = {Listener}
  BY DEF Fds, ListenerSocket
<1> QED
  BY <1>1, <1>2

\* The loop begins with the listener alone.
LEMMA InitIInv == Init => IInv
<1> SUFFICES ASSUME Init PROVE IInv
  OBVIOUS
<1>1. Listener \in FD /\ Listener \in 0 .. (FdSetSize - 1) /\ Listener # 0
  BY DescriptorBounds
<1>2. TypeOK
  <2>1. backlog \in 0 .. MaxBacklog /\ unread \in [FD -> 0 .. MaxUnread]
    BY ServerLoopAssumption DEF Init
  <2> QED
    BY <1>1, <2>1, OneListener DEF Init, TypeOK, SocketSetTypeOK
<1>3. VectorMatchesSet /\ SelectCoversWatched
  BY <1>1, OneListener DEF Init, VectorMatchesSet, SelectCoversWatched
<1>4. DescriptorsAccounted
  BY <1>1, OneListener DEF Init, DescriptorsAccounted
<1>5. ListenerKept /\ LoopInv
  BY OneListener DEF Init, ListenerKept, LoopInv
<1> QED
  BY <1>2, <1>3, <1>4, <1>5 DEF IInv

\* get_ready() finds a client that select reported.
LEMMA FirstReadyFound ==
  ASSUME IInv, pc = "dispatch"
  PROVE  /\ FirstReady \in 1 .. Len(connections)
         /\ FirstReady # 1
         /\ connections[FirstReady].fd \in readyset
<1> DEFINE readyAt == {i \in 1 .. Len(connections) : connections[i].fd \in readyset}
<1>1. readyset # {} /\ readyset \subseteq Fds(connections) /\ Listener \notin readyset
  BY DEF IInv, LoopInv, VectorMatchesSet
<1>2. PICK fd \in readyset : fd \in Fds(connections)
  BY <1>1
<1>3. readyAt # {} /\ readyAt \in SUBSET Nat
  BY <1>2 DEF Fds
<1>4. \E i \in readyAt : \A j \in readyAt : i <= j
  BY <1>3, LeastExists
<1>5. FirstReady = CHOOSE i \in readyAt : \A j \in readyAt : i <= j
  BY <1>3 DEF FirstReady
<1>6. FirstReady \in readyAt
  BY <1>4, <1>5
<1>7. connections[1].fd = Listener
  BY DEF IInv, ListenerKept, ListenerSocket
<1> QED
  BY <1>1, <1>6, <1>7

\* Closing and erasing a client, in the dispatch or in the sweep.
LEMMA RemovalKeeps ==
  ASSUME IInv, pc \in {"dispatch", "sweep"}, pc' = "sweep",
         NEW i \in 1 .. Len(connections), i # 1,
         Minus(i), Forget(connections[i].fd), UNCHANGED fresh
  PROVE  /\ SetInv' /\ DescriptorsAccounted' /\ ListenerKept'
         /\ open' \subseteq FD
         /\ unread' \in [FD -> 0 .. MaxUnread]
         /\ closed' \subseteq FD
<1>1. SetInv
  BY IInvHasSetInv
<1>2. /\ SetInv'
      /\ connections' = Erase(connections, i)
      /\ Fds(connections') = Fds(connections) \ {connections[i].fd}
  BY <1>1, MinusKeepsSet
<1>3. connections[i].fd \in Fds(connections)
  BY DEF Fds
<1>4. fresh = 0 /\ open = Fds(connections)
  BY DEF IInv, DescriptorsAccounted
<1>5. 0 \notin Fds(connections)
  <2>1. Fds(connections) \subseteq FD
    BY <1>1, FdsAreDescriptors DEF SetInv, SocketSetTypeOK
  <2> QED
    BY <2>1, DescriptorBounds
<1>6. DescriptorsAccounted'
  BY <1>2, <1>4, <1>5 DEF Forget, DescriptorsAccounted
<1>7. ListenerKept'
  <2>1. connections \in Seq(Connection) /\ Len(connections) \in Nat
    BY <1>1, LenProperties DEF SetInv, SocketSetTypeOK
  <2>2. 1 < i /\ 1 \in 1 .. Len(connections) - 1
    BY <2>1
  <2>3. /\ Erase(connections, i)[1] = connections[1]
        /\ Len(Erase(connections, i)) = Len(connections) - 1
        /\ Erase(connections, i) \in Seq(Connection)
    BY <2>1, <2>2, EraseProperties
  <2>4. connections' # <<>>
    BY <1>2, <2>2, <2>3, EmptySeq
  <2>5. connections[1] = ListenerSocket
    BY DEF IInv, ListenerKept
  <2> QED
    BY <1>2, <2>3, <2>4, <2>5 DEF ListenerKept, ListenerSocket
<1>8. open' \subseteq FD /\ closed' \subseteq FD
  BY DEF IInv, TypeOK, Forget
<1>9. unread' \in [FD -> 0 .. MaxUnread]
  <2>1. 0 \in 0 .. MaxUnread
    BY ServerLoopAssumption
  <2>2. unread \in [FD -> 0 .. MaxUnread]
    BY DEF IInv, TypeOK
  <2> QED
    BY <2>1, <2>2 DEF Forget
<1> QED
  BY <1>2, <1>6, <1>7, <1>8, <1>9

-----------------------------------------------------------------------------
(***************************************************************************)
(* Steps that leave the vector of sockets alone keep what is said of it.   *)
(***************************************************************************)
LEMMA SameSetKeeps ==
  ASSUME IInv, UNCHANGED setVars
  PROVE  /\ SetInv'
         /\ pc' # "down" => (pc # "down" => ListenerKept')
         /\ Fds(connections') = Fds(connections)
         /\ UNCHANGED <<open, fresh>> /\ (pc' = "handshake") = (pc = "handshake")
               => DescriptorsAccounted'
  BY DEF IInv, TypeOK, SetInv, setVars, SocketSetTypeOK, VectorMatchesSet,
         SelectCoversWatched, ListenerKept, DescriptorsAccounted, Fds

\* select() changes no socket; only what is reported moves the loop on.
LEMMA SelectKeeps == IInv /\ Select => IInv'
<1> SUFFICES ASSUME IInv, Select PROVE IInv'
  OBVIOUS
<1> USE DEF Select
<1>1. UNCHANGED setVars /\ UNCHANGED <<open, fresh>>
  BY DEF netVars
<1>2. pc = "select" /\ pc' \in {"sweep", "accept", "dispatch"}
  OBVIOUS
<1>3. SetInv' /\ ListenerKept' /\ DescriptorsAccounted'
  BY <1>1, <1>2, SameSetKeeps
<1>4. readyset' \subseteq socketset /\ socketset \subseteq FD
  BY DEF IInv, TypeOK, SocketSetTypeOK
<1>5. TypeOK'
  BY <1>2, <1>3, <1>4 DEF IInv, TypeOK, SetInv, netVars
<1>6. LoopInv'
  <2>1. pc' = "dispatch" => readyset' # {} /\ readyset' \subseteq socketset' \ {Listener}
    BY <1>1, <1>4 DEF setVars
  <2>2. pc' = "accept" => backlog' > 0
    BY DEF Readable, netVars
  <2>3. scan' = 1 /\ \A i \in 1 .. Len(connections') : ~ (i < scan')
    BY DEF setVars
  <2> QED
    BY <2>1, <2>2, <2>3 DEF LoopInv
<1> QED
  BY <1>3, <1>5, <1>6 DEF IInv, SetInv

\* A descriptor that was free is open and in its handshake.
LEMMA AcceptKeeps == ASSUME NEW fd \in FD PROVE IInv /\ Accept(fd) => IInv'
<1> SUFFICES ASSUME IInv, Accept(fd) PROVE IInv'
  OBVIOUS
<1> USE DEF Accept
<1>1. UNCHANGED setVars /\ pc = "accept" /\ pc' = "handshake"
  OBVIOUS
<1>2. SetInv' /\ ListenerKept' /\ Fds(connections') = Fds(connections)
  BY <1>1, SameSetKeeps
<1>3. backlog' \in 0 .. MaxBacklog
  <2>1. backlog \in 0 .. MaxBacklog /\ backlog > 0 /\ MaxBacklog \in Nat
    BY <1>1, ServerLoopAssumption DEF IInv, TypeOK, LoopInv
  <2> QED
    BY <2>1
<1>4. TypeOK'
  BY <1>1, <1>2, <1>3 DEF IInv, TypeOK, SetInv
<1>5. DescriptorsAccounted'
  <2>1. open = Fds(connections)
    BY <1>1 DEF IInv, DescriptorsAccounted
  <2>2. fd # 0
    BY DescriptorBounds
  <2> QED
    BY <1>1, <1>2, <2>1, <2>2 DEF DescriptorsAccounted
<1>6. LoopInv'
  BY <1>1 DEF IInv, LoopInv, setVars
<1> QED
  BY <1>2, <1>4, <1>5, <1>6 DEF IInv, SetInv

\* The process that aborts has closed everything.
LEMMA AcceptFailsKeeps == IInv /\ AcceptFails => IInv'
<1> SUFFICES ASSUME IInv, AcceptFails PROVE IInv'
  OBVIOUS
<1> USE DEF AcceptFails
<1>1. connections' = <<>> /\ Fds(connections') = {} /\ pc = "accept" /\ pc' = "down"
  BY DEF Fds
<1>2. fresh' = 0 /\ scan' = 1
  BY <1>1 DEF IInv, DescriptorsAccounted, LoopInv
<1>3. SetInv'
  BY <1>1, DescriptorBounds
     DEF SetInv, SocketSetTypeOK, VectorMatchesSet, SelectCoversWatched
<1>4. TypeOK'
  <2>1. backlog' \in 0 .. MaxBacklog /\ unread' \in [FD -> 0 .. MaxUnread]
    BY ServerLoopAssumption
  <2> QED
    BY <1>2, <1>3, <2>1 DEF TypeOK, SetInv
<1>5. DescriptorsAccounted' /\ ListenerKept' /\ LoopInv'
  BY <1>1, <1>2 DEF DescriptorsAccounted, ListenerKept, LoopInv
<1> QED
  BY <1>3, <1>4, <1>5 DEF IInv, SetInv

\* The accepted socket is stored: nothing that was watched is lost.
LEMMA HandshakeKeeps == IInv /\ Handshake => IInv' /\ Fds(connections) \subseteq Fds(connections')
<1> SUFFICES ASSUME IInv, NEW isServer \in BOOLEAN, NEW waited \in 0 .. (Timeout + 1),
                    HandshakeEnds(isServer, waited)
             PROVE  IInv' /\ Fds(connections) \subseteq Fds(connections')
  BY DEF Handshake
<1> USE DEF HandshakeEnds
<1> DEFINE conn == [fd |-> fresh, isServer |-> isServer,
                    idle |-> IF isServer THEN 0 ELSE waited]
<1>1. pc = "handshake" /\ pc' = "sweep" /\ fresh' = 0 /\ scan' = 1
  BY DEF IInv, LoopInv
<1>2. fresh \in FD /\ fresh \notin Fds(connections)
  BY <1>1 DEF IInv, TypeOK, DescriptorsAccounted
<1>3. conn \in Connection
  <2>1. 0 \in 0 .. (Timeout + 1)
    BY SocketSetAssumption
  <2> QED
    BY <1>2, <2>1 DEF Connection
<1>4. SetInv' /\ Fds(connections') = Fds(connections) \cup {fresh}
  <2>1. conn.fd = fresh /\ Plus(conn)
    OBVIOUS
  <2> HIDE DEF conn
  <2> QED
    BY <1>2, <1>3, <2>1, IInvHasSetInv, PlusKeepsSet
<1>5. ListenerKept'
  <2>1. connections \in Seq(Connection) /\ connections # <<>> /\ connections[1] = ListenerSocket
    BY <1>1 DEF IInv, TypeOK, SocketSetTypeOK, ListenerKept
  <2>2. Len(connections) \in Nat \ {0}
    BY <2>1, EmptySeq
  <2> HIDE DEF conn
  <2>3. /\ Append(connections, conn) # <<>>
        /\ \A i \in 1 .. Len(connections) : Append(connections, conn)[i] = connections[i]
    BY <1>3, <2>1, AppendProperties
  <2>4. connections' = Append(connections, conn)
    BY DEF Plus, conn
  <2> QED
    BY <2>1, <2>2, <2>3, <2>4 DEF ListenerKept, ListenerSocket
<1>6. TypeOK'
  BY <1>1, <1>4 DEF IInv, TypeOK, SetInv, netVars
<1>7. DescriptorsAccounted'
  <2>1. open = Fds(connections) \cup {fresh} /\ 0 \notin FD
    BY <1>2, DescriptorBounds DEF IInv, DescriptorsAccounted
  <2>2. 0 \notin Fds(connections')
    BY <1>4, <2>1, FdsAreDescriptors DEF SetInv, SocketSetTypeOK
  <2> QED
    BY <1>1, <1>4, <2>1, <2>2 DEF DescriptorsAccounted, netVars
<1>8. LoopInv'
  BY <1>1 DEF LoopInv
<1> QED
  BY <1>4, <1>5, <1>6, <1>7, <1>8 DEF IInv, SetInv

\* A receive that took bytes keeps every socket and the listener untouched.
LEMMA ReceiveKeeps ==
  ASSUME NEW complete \in BOOLEAN, NEW all \in BOOLEAN
  PROVE  IInv /\ Receive(complete, all) => IInv' /\ Fds(connections') = Fds(connections)
<1> SUFFICES ASSUME IInv, Receive(complete, all) PROVE IInv' /\ Fds(connections') = Fds(connections)
  OBVIOUS
<1> DEFINE k == FirstReady
<1>1. pc = "dispatch" /\ pc' = "sweep" /\ scan' = 1
  BY DEF Receive, IInv, LoopInv
<1>2. k \in 1 .. Len(connections) /\ k # 1
  BY <1>1, FirstReadyFound
<1>3. connections \in Seq(Connection) /\ Len(connections) \in Nat
  BY LenProperties DEF IInv, TypeOK, SocketSetTypeOK
<1>4. Touched(connections[k]) \in Connection /\ Touched(connections[k]).fd = connections[k].fd
  <2>1. connections[k] \in Connection /\ 0 \in 0 .. (Timeout + 1)
    BY <1>2, <1>3, ElementOfSeq, SocketSetAssumption
  <2> QED
    BY <2>1 DEF Touched, Connection
<1>5. /\ connections' \in Seq(Connection)
      /\ Len(connections') = Len(connections)
      /\ \A j \in 1 .. Len(connections) : connections'[j].fd = connections[j].fd
      /\ connections'[1] = connections[1]
  <2>1. CASE complete
    <3>1. connections' = [connections EXCEPT ![k] = Touched(connections[k])]
      BY <2>1 DEF Receive
    <3> HIDE DEF k
    <3>2. /\ [connections EXCEPT ![k] = Touched(connections[k])] \in Seq(Connection)
          /\ Len([connections EXCEPT ![k] = Touched(connections[k])]) = Len(connections)
          /\ \A j \in 1 .. Len(connections) :
                [connections EXCEPT ![k] = Touched(connections[k])][j]
                  = IF j = k THEN Touched(connections[k]) ELSE connections[j]
      BY <1>2, <1>3, <1>4, ExceptSeq
    <3>3. 1 \in 1 .. Len(connections)
      BY <1>2, <1>3
    <3> QED
      BY <1>2, <1>4, <3>1, <3>2, <3>3
  <2>2. CASE ~ complete
    <3>1. connections' = connections
      BY <2>2 DEF Receive
    <3> QED
      BY <1>3, <3>1
  <2> QED
    BY <2>1, <2>2
<1>6. Fds(connections') = Fds(connections)
  BY <1>5 DEF Fds
<1>7. SetInv'
  BY <1>5, <1>6
     DEF Receive, IInv, TypeOK, SetInv, SocketSetTypeOK, VectorMatchesSet, SelectCoversWatched
<1>8. ListenerKept'
  <2>1. connections # <<>> /\ connections[1] = ListenerSocket
    BY <1>1 DEF IInv, ListenerKept
  <2>2. connections' # <<>>
    BY <1>3, <1>5, <2>1, EmptySeq
  <2> QED
    BY <1>5, <2>1, <2>2 DEF ListenerKept, ListenerSocket
<1>9. unread' \in [FD -> 0 .. MaxUnread]
  <2> DEFINE fd == connections[k].fd
  <2>1. unread \in [FD -> 0 .. MaxUnread] /\ MaxUnread \in Nat
    BY ServerLoopAssumption DEF IInv, TypeOK
  <2>2. fd \in FD
    <3>1. connections[k] \in Connection
      BY <1>2, <1>3, ElementOfSeq
    <3> QED
      BY <3>1 DEF Connection
  <2>3. unread[fd] > 0 /\ unread' = [unread EXCEPT ![fd] = IF all THEN 0 ELSE @ - 1]
    BY DEF Receive
  <2> HIDE DEF fd
  <2>4. (IF all THEN 0 ELSE unread[fd] - 1) \in 0 .. MaxUnread
    BY <2>1, <2>2, <2>3
  <2> QED
    BY <2>1, <2>2, <2>3, <2>4
<1>10. TypeOK'
  BY <1>1, <1>7, <1>9 DEF Receive, IInv, TypeOK, SetInv
<1>11. DescriptorsAccounted'
  BY <1>1, <1>6 DEF Receive, IInv, DescriptorsAccounted
<1>12. LoopInv'
  BY <1>1 DEF LoopInv
<1> QED
  BY <1>6, <1>7, <1>8, <1>10, <1>11, <1>12 DEF IInv, SetInv

\* A failed receive closes and erases a client, never the listener.
LEMMA ReceiveFailsKeeps == IInv /\ ReceiveFails => IInv'
<1> SUFFICES ASSUME IInv, ReceiveFails PROVE IInv'
  OBVIOUS
<1>1. pc = "dispatch" /\ pc' = "sweep" /\ scan' = 1
  BY DEF ReceiveFails, IInv, LoopInv
<1>2. FirstReady \in 1 .. Len(connections) /\ FirstReady # 1
  BY <1>1, FirstReadyFound
<1>3. Minus(FirstReady) /\ Forget(connections[FirstReady].fd) /\ UNCHANGED fresh
  BY DEF ReceiveFails
<1>4. /\ SetInv' /\ DescriptorsAccounted' /\ ListenerKept'
      /\ open' \subseteq FD
      /\ unread' \in [FD -> 0 .. MaxUnread]
      /\ closed' \subseteq FD
  BY <1>1, <1>2, <1>3, RemovalKeeps
<1>5. TypeOK'
  BY <1>1, <1>4 DEF ReceiveFails, IInv, TypeOK, SetInv
<1>6. LoopInv'
  BY <1>1 DEF LoopInv
<1> QED
  BY <1>4, <1>5, <1>6 DEF IInv, SetInv

\* The sweep closes and erases a client, and starts over.
LEMMA SweepRemovesKeeps == IInv /\ SweepRemoves => IInv'
<1> SUFFICES ASSUME IInv, SweepRemoves PROVE IInv'
  OBVIOUS
<1>1. pc = "sweep" /\ pc' = "sweep" /\ scan' = 1
  BY DEF SweepRemoves
<1>2. scan \in 1 .. Len(connections) /\ scan # 1
  <2>1. scan \in Nat \ {0} /\ scan <= Len(connections) /\ Len(connections) \in Nat
    BY LenProperties DEF SweepRemoves, IInv, LoopInv, TypeOK, SocketSetTypeOK
  <2>2. connections[1].isServer /\ ~ connections[scan].isServer
    BY <1>1 DEF SweepRemoves, Overdue, IInv, ListenerKept, ListenerSocket
  <2> QED
    BY <2>1, <2>2
<1>3. Minus(scan) /\ Forget(connections[scan].fd) /\ UNCHANGED fresh
  BY DEF SweepRemoves
<1>4. /\ SetInv' /\ DescriptorsAccounted' /\ ListenerKept'
      /\ open' \subseteq FD
      /\ unread' \in [FD -> 0 .. MaxUnread]
      /\ closed' \subseteq FD
  BY <1>1, <1>2, <1>3, RemovalKeeps
<1>5. TypeOK'
  BY <1>1, <1>4 DEF SweepRemoves, IInv, TypeOK, SetInv
<1>6. LoopInv'
  BY <1>1 DEF LoopInv
<1> QED
  BY <1>4, <1>5, <1>6 DEF IInv, SetInv

\* The sweep passes by a socket: every socket up to it is not overdue.
LEMMA SweepPassesKeeps == IInv /\ SweepPasses => IInv'
<1> SUFFICES ASSUME IInv, SweepPasses PROVE IInv'
  OBVIOUS
<1> USE DEF SweepPasses
<1>1. UNCHANGED setVars /\ UNCHANGED <<open, fresh>> /\ pc = "sweep" /\ pc' = "sweep"
  BY DEF netVars
<1>2. SetInv' /\ ListenerKept' /\ DescriptorsAccounted'
  BY <1>1, SameSetKeeps
<1>3. scan \in Nat \ {0} /\ scan' = scan + 1
  BY DEF IInv, LoopInv
<1>4. TypeOK'
  BY <1>1, <1>2, <1>3 DEF IInv, TypeOK, SetInv, netVars
<1>5. LoopInv'
  <2>1. ~ Overdue(connections[scan])
    OBVIOUS
  <2>2. \A i \in 1 .. Len(connections) : i < scan + 1 => i < scan \/ i = scan
    BY <1>3
  <2> QED
    BY <1>1, <1>3, <2>1, <2>2 DEF IInv, LoopInv, setVars
<1> QED
  BY <1>2, <1>4, <1>5 DEF IInv, SetInv

\* The sweep ends.
LEMMA SweepDoneKeeps == IInv /\ SweepDone => IInv'
<1> SUFFICES ASSUME IInv, SweepDone PROVE IInv'
  OBVIOUS
<1> USE DEF SweepDone
<1>1. /\ UNCHANGED setVars /\ UNCHANGED <<open, fresh>>
      /\ pc = "sweep" /\ pc' = "select" /\ scan' = 1
  BY DEF netVars
<1>2. SetInv' /\ ListenerKept' /\ DescriptorsAccounted'
  BY <1>1, SameSetKeeps
<1>3. TypeOK'
  BY <1>1, <1>2 DEF IInv, TypeOK, SetInv, netVars
<1>4. LoopInv'
  BY <1>1 DEF LoopInv
<1> QED
  BY <1>2, <1>3, <1>4 DEF IInv, SetInv

\* A process started again has the listener alone.
LEMMA RestartKeeps == IInv /\ Restart => IInv'
<1> SUFFICES ASSUME IInv, Restart PROVE IInv'
  OBVIOUS
<1> USE DEF Restart
<1>1. pc' = "select" /\ fresh' = 0 /\ scan' = 1
  BY DEF IInv, DescriptorsAccounted, LoopInv
<1>2. Listener \in FD /\ Listener \in 0 .. (FdSetSize - 1) /\ Listener # 0
  BY DescriptorBounds
<1>3. SetInv'
  BY <1>2, OneListener
     DEF SetInv, SocketSetTypeOK, VectorMatchesSet, SelectCoversWatched
<1>4. TypeOK'
  BY <1>1, <1>2, <1>3 DEF IInv, TypeOK, SetInv
<1>5. DescriptorsAccounted'
  BY <1>1, <1>2, OneListener DEF DescriptorsAccounted
<1>6. connections' = <<ListenerSocket>>
  OBVIOUS
<1> HIDE DEF Restart
<1>7. ListenerKept'
  BY <1>6, OneListener DEF ListenerKept, ListenerSocket
<1>8. LoopInv'
  BY <1>1 DEF LoopInv
<1> QED
  BY <1>3, <1>4, <1>5, <1>7, <1>8 DEF IInv, SetInv

\* Whatever the peers do, the sockets stay accounted for.
LEMMA PeersKeep == IInv /\ Peers => IInv'
<1> SUFFICES ASSUME IInv, Peers PROVE IInv'
  OBVIOUS
<1>1. UNCHANGED setVars /\ UNCHANGED loopVars /\ UNCHANGED open
  BY DEF Peers, Connect, PeerSends, PeerCloses
<1>2. pc' = pc /\ readyset' = readyset /\ fresh' = fresh /\ scan' = scan
  BY <1>1 DEF loopVars
<1>3. SetInv' /\ DescriptorsAccounted' /\ (pc # "down" => ListenerKept')
  BY <1>1, <1>2, SameSetKeeps DEF IInv
<1>4. ListenerKept'
  BY <1>2, <1>3 DEF ListenerKept
<1>5. /\ backlog' \in 0 .. MaxBacklog /\ backlog' >= backlog
      /\ unread' \in [FD -> 0 .. MaxUnread]
      /\ closed' \subseteq FD
  <2>0. /\ backlog \in 0 .. MaxBacklog /\ unread \in [FD -> 0 .. MaxUnread]
        /\ closed \subseteq FD /\ MaxBacklog \in Nat /\ MaxUnread \in Nat
    BY ServerLoopAssumption DEF IInv, TypeOK
  <2>1. CASE Connect
    BY <2>0, <2>1 DEF Connect
  <2>2. CASE \E fd \in FD : PeerSends(fd)
    BY <2>0, <2>2 DEF PeerSends
  <2>3. CASE \E fd \in FD : PeerCloses(fd)
    BY <2>0, <2>3 DEF PeerCloses
  <2> QED
    BY <2>1, <2>2, <2>3 DEF Peers
<1>6. TypeOK'
  BY <1>1, <1>2, <1>3, <1>5 DEF IInv, TypeOK, SetInv
<1>7. LoopInv'
  <2>1. pc' = "accept" => backlog' > 0
    BY <1>2, <1>5, ServerLoopAssumption DEF IInv, TypeOK, LoopInv
  <2> QED
    BY <1>1, <1>2, <2>1 DEF IInv, LoopInv, setVars
<1> QED
  BY <1>3, <1>4, <1>6, <1>7 DEF IInv, SetInv

\* A second passing changes no descriptor and not the listener.
LEMMA TickKeeps == IInv /\ Tick => IInv' /\ Fds(connections') = Fds(connections)
<1> SUFFICES ASSUME IInv, Tick PROVE IInv' /\ Fds(connections') = Fds(connections)
  OBVIOUS
<1> DEFINE aged(i) == [connections[i] EXCEPT
                         !.idle = IF connections[i].isServer \/ @ > Timeout THEN @ ELSE @ + 1]
<1>1. connections \in Seq(Connection) /\ Len(connections) \in Nat
  BY LenProperties DEF IInv, TypeOK, SocketSetTypeOK
<1>2. connections' = [i \in 1 .. Len(connections) |-> aged(i)]
  BY DEF Tick
<1>3. \A i \in 1 .. Len(connections) : aged(i) \in Connection /\ aged(i).fd = connections[i].fd
  <2> TAKE i \in 1 .. Len(connections)
  <2>1. connections[i] \in Connection /\ Timeout \in Nat
    BY <1>1, ElementOfSeq, SocketSetAssumption
  <2>2. connections[i].idle \in 0 .. (Timeout + 1)
    BY <2>1 DEF Connection
  <2>3. (IF connections[i].isServer \/ connections[i].idle > Timeout
         THEN connections[i].idle ELSE connections[i].idle + 1) \in 0 .. (Timeout + 1)
    BY <2>1, <2>2
  <2> QED
    BY <2>1, <2>3 DEF Connection
<1> HIDE DEF aged
<1>4. /\ connections' \in Seq(Connection)
      /\ Len(connections') = Len(connections)
      /\ \A i \in 1 .. Len(connections) : connections'[i] = aged(i)
  BY <1>1, <1>2, <1>3
<1>5. Fds(connections') = Fds(connections)
  BY <1>3, <1>4 DEF Fds
<1>6. /\ UNCHANGED <<socketset, highest>>
      /\ pc' = pc /\ readyset' = readyset /\ fresh' = fresh /\ scan' = scan
      /\ open' = open /\ backlog' = backlog /\ unread' = unread /\ closed' = closed
      /\ pc \in {"select", "handshake"}
  BY DEF Tick, loopVars, netVars
<1>7. SetInv'
  BY <1>3, <1>4, <1>5, <1>6
     DEF IInv, TypeOK, SetInv, SocketSetTypeOK, VectorMatchesSet, SelectCoversWatched
<1>8. ListenerKept'
  <2>1. connections # <<>> /\ connections[1] = ListenerSocket
    BY <1>6 DEF IInv, ListenerKept
  <2>2. 1 \in 1 .. Len(connections)
    BY <1>1, <2>1, EmptySeq
  <2>3. connections' # <<>>
    BY <1>4, <2>2, EmptySeq
  <2>4. aged(1) = connections[1]
    <3>1. connections[1].isServer /\ connections[1].idle = 0
      BY <2>1 DEF ListenerSocket
    <3>2. aged(1) = [ListenerSocket EXCEPT !.idle = 0]
      BY <2>1, <3>1 DEF aged
    <3>3. [ListenerSocket EXCEPT !.idle = 0] = ListenerSocket
      <4> DEFINE same == [ListenerSocket EXCEPT !.idle = 0]
      <4>1. DOMAIN ListenerSocket = {"fd", "isServer", "idle"}
        BY DEF ListenerSocket
      <4>2. same = [f \in {"fd", "isServer", "idle"} |->
                      IF f = "idle" THEN 0 ELSE ListenerSocket[f]]
        BY <4>1
      <4>3. ListenerSocket = [f \in {"fd", "isServer", "idle"} |-> ListenerSocket[f]]
        BY <4>1 DEF ListenerSocket
      <4>4. ListenerSocket["idle"] = 0
        BY DEF ListenerSocket
      <4> QED
        BY <4>2, <4>3, <4>4
    <3> QED
      BY <2>1, <3>2, <3>3
  <2> QED
    BY <1>4, <2>1, <2>2, <2>3, <2>4 DEF ListenerKept, ListenerSocket
<1>9. TypeOK'
  BY <1>6, <1>7 DEF IInv, TypeOK, SetInv
<1>10. DescriptorsAccounted'
  BY <1>5, <1>6 DEF IInv, DescriptorsAccounted
<1>11. LoopInv'
  BY <1>6 DEF IInv, LoopInv
<1> QED
  BY <1>5, <1>7, <1>8, <1>9, <1>10, <1>11 DEF IInv, SetInv

\* A step that changes nothing.
LEMMA StutterKeeps == IInv /\ UNCHANGED vars => IInv'
  BY DEF IInv, TypeOK, SocketSetTypeOK, VectorMatchesSet, SelectCoversWatched,
         DescriptorsAccounted, ListenerKept, LoopInv, vars, setVars, loopVars, netVars

\* Every step of the server and of its peers keeps the invariant.
LEMMA NextKeeps == IInv /\ [Next]_vars => IInv'
<1> SUFFICES ASSUME IInv, [Next]_vars PROVE IInv'
  OBVIOUS
<1>1. CASE Select
  BY <1>1, SelectKeeps
<1>2. CASE \E fd \in FD : Accept(fd)
  BY <1>2, AcceptKeeps
<1>3. CASE AcceptFails
  BY <1>3, AcceptFailsKeeps
<1>4. CASE \E complete, all \in BOOLEAN : Receive(complete, all)
  BY <1>4, ReceiveKeeps
<1>5. CASE ReceiveFails
  BY <1>5, ReceiveFailsKeeps
<1>6. CASE SweepRemoves
  BY <1>6, SweepRemovesKeeps
<1>7. CASE SweepPasses
  BY <1>7, SweepPassesKeeps
<1>8. CASE SweepDone
  BY <1>8, SweepDoneKeeps
<1>9. CASE Restart
  BY <1>9, RestartKeeps
<1>10. CASE Handshake
  BY <1>10, HandshakeKeeps
<1>11. CASE Peers
  BY <1>11, PeersKeep
<1>12. CASE Tick
  BY <1>12, TickKeeps
<1>13. CASE UNCHANGED vars
  BY <1>13, StutterKeeps
<1> QED
  BY <1>1, <1>2, <1>3, <1>4, <1>5, <1>6, <1>7, <1>8, <1>9, <1>10, <1>11, <1>12, <1>13
     DEF Next, Loop

-----------------------------------------------------------------------------
(***************************************************************************)
(* The theorems.                                                           *)
(***************************************************************************)
\* The invariant that carries all the others: it holds initially and every
\* step keeps it.
THEOREM Inductive == Spec => []IInv
<1> QED
  BY InitIInv, NextKeeps, PTL DEF Spec

(***************************************************************************)
(* Every variable keeps its type: in particular highest stays below        *)
(* FD_SETSIZE and the backlog is never accepted from when it is empty.     *)
(***************************************************************************)
THEOREM TypeCorrect == Spec => []TypeOK
<1>1. IInv => TypeOK
  BY DEF IInv
<1> QED
  BY <1>1, Inductive, PTL

(***************************************************************************)
(* The vector and the fd_set always describe the same sockets, each once.  *)
(***************************************************************************)
THEOREM VectorAlwaysMatchesSet == Spec => []VectorMatchesSet
<1>1. IInv => VectorMatchesSet
  BY DEF IInv
<1> QED
  BY <1>1, Inductive, PTL

(***************************************************************************)
(* select always examines every watched socket, although `-=` compares     *)
(* highest with a socket other than the one it erased.                     *)
(***************************************************************************)
THEOREM SelectAlwaysCoversWatched == Spec => []SelectCoversWatched
<1>1. IInv => SelectCoversWatched
  BY DEF IInv
<1> QED
  BY <1>1, Inductive, PTL

(***************************************************************************)
(* No descriptor is leaked, closed too early or held for two sockets.      *)
(***************************************************************************)
THEOREM DescriptorsAlwaysAccounted == Spec => []DescriptorsAccounted
<1>1. IInv => DescriptorsAccounted
  BY DEF IInv
<1> QED
  BY <1>1, Inductive, PTL

(***************************************************************************)
(* A server that runs keeps its listener, first in the vector.             *)
(***************************************************************************)
THEOREM ListenerAlwaysKept == Spec => []ListenerKept
<1>1. IInv => ListenerKept
  BY DEF IInv
<1> QED
  BY <1>1, Inductive, PTL

(***************************************************************************)
(* Only a client that select reported is served.                           *)
(***************************************************************************)
THEOREM ServedIsAlwaysReady == Spec => []ServedIsReady
<1>1. IInv => ServedIsReady
  <2> SUFFICES ASSUME IInv, pc = "dispatch"
               PROVE  connections[FirstReady].fd \in readyset \ {Listener}
    BY DEF ServedIsReady
  <2>1. readyset \subseteq socketset \ {Listener}
    BY DEF IInv, LoopInv
  <2> QED
    BY <2>1, FirstReadyFound
<1> QED
  BY <1>1, Inductive, PTL

(***************************************************************************)
(* No sweep ends with an overdue client left.                              *)
(***************************************************************************)
THEOREM SweepIsAlwaysComplete == Spec => SweepIsComplete
<1>1. IInv /\ [Next]_vars =>
        [pc = "sweep" /\ pc' = "select" =>
           \A i \in 1 .. Len(connections') : ~Overdue(connections'[i])]_vars
  <2> SUFFICES ASSUME IInv, Next, pc = "sweep", pc' = "select"
               PROVE  \A i \in 1 .. Len(connections') : ~Overdue(connections'[i])
    OBVIOUS
  <2>1. SweepDone
    BY DEF Next, Loop, Handshake, Peers, Select, Accept, AcceptFails, Receive,
           ReceiveFails, SweepRemoves, SweepPasses, Restart, HandshakeEnds,
           Connect, PeerSends, PeerCloses, Tick, loopVars
  <2>2. scan > Len(connections) /\ connections' = connections
    BY <2>1 DEF SweepDone, setVars
  <2>3. Len(connections) \in Nat /\ scan \in Nat
    BY LenProperties DEF IInv, TypeOK, SocketSetTypeOK
  <2>4. \A i \in 1 .. Len(connections) : i < scan
    BY <2>2, <2>3
  <2>5. \A i \in 1 .. Len(connections) : ~Overdue(connections[i])
    BY <2>4 DEF IInv, LoopInv
  <2> QED
    BY <2>2, <2>5
<1> QED
  BY <1>1, Inductive, PTL DEF Spec, SweepIsComplete

(***************************************************************************)
(* A client is let go only when it was ready and its receive failed, when  *)
(* it was overdue, or with the process.                                    *)
(***************************************************************************)
THEOREM NeverWrongRemoval == Spec => NoWrongRemoval
<1> DEFINE Allowed(i) == \/ pc' = "down"
                         \/ pc = "dispatch" /\ connections[i].fd \in readyset
                         \/ pc = "sweep" /\ Overdue(connections[i])
<1>1. IInv /\ [Next]_vars =>
        [\A i \in 1 .. Len(connections) :
           connections[i].fd \notin Fds(connections') => Allowed(i)]_vars
  <2> SUFFICES ASSUME IInv, Next, NEW i \in 1 .. Len(connections),
                      connections[i].fd \notin Fds(connections')
               PROVE  Allowed(i)
    OBVIOUS
  <2>1. connections[i].fd \in Fds(connections)
    BY DEF Fds
  <2>2. SetInv
    BY IInvHasSetInv
  <2>3. connections' # connections
    BY <2>1
  <2>4. CASE AcceptFails
    BY <2>4 DEF AcceptFails
  <2>5. CASE \E complete, all \in BOOLEAN : Receive(complete, all)
    BY <2>1, <2>5, ReceiveKeeps
  <2>6. CASE ReceiveFails
    <3>1. pc = "dispatch" /\ Minus(FirstReady)
      BY <2>6 DEF ReceiveFails
    <3>2. FirstReady \in 1 .. Len(connections) /\ connections[FirstReady].fd \in readyset
      BY <3>1, FirstReadyFound
    <3>3. Fds(connections') = Fds(connections) \ {connections[FirstReady].fd}
      BY <2>2, <3>1, <3>2, MinusKeepsSet
    <3> QED
      BY <2>1, <3>1, <3>2, <3>3
  <2>7. CASE SweepRemoves
    <3>1. /\ pc = "sweep" /\ Minus(scan) /\ Overdue(connections[scan])
          /\ scan <= Len(connections)
      BY <2>7 DEF SweepRemoves
    <3>2. scan \in 1 .. Len(connections)
      BY <3>1, LenProperties DEF IInv, LoopInv, TypeOK, SocketSetTypeOK
    <3>3. Fds(connections') = Fds(connections) \ {connections[scan].fd}
      BY <2>2, <3>1, <3>2, MinusKeepsSet
    <3>4. i = scan
      BY <2>1, <3>2, <3>3 DEF IInv, VectorMatchesSet
    <3> QED
      BY <3>1, <3>4
  <2>8. CASE Restart
    <3>1. connections = <<>>
      BY <2>8 DEF Restart, IInv, LoopInv
    <3> QED
      BY <3>1
  <2>9. CASE Handshake
    BY <2>1, <2>9, HandshakeKeeps
  <2>10. CASE Tick
    BY <2>1, <2>10, TickKeeps
  <2>11. ~ (Select \/ (\E fd \in FD : Accept(fd)) \/ SweepPasses \/ SweepDone \/ Peers)
    BY <2>3 DEF Select, Accept, SweepPasses, SweepDone, Peers, Connect, PeerSends,
                PeerCloses, setVars
  <2> QED
    BY <2>4, <2>5, <2>6, <2>7, <2>8, <2>9, <2>10, <2>11 DEF Next, Loop
<1> QED
  BY <1>1, Inductive, PTL DEF Spec, NoWrongRemoval

-----------------------------------------------------------------------------
(***************************************************************************)
(* Polling.  Its series are sequences of samples whose ids rise.           *)
(***************************************************************************)

\* A sample, and the samples of a level.
Sampling == [id : Nat, time : Nat]

Series == Seq(Sampling)

\* Ids rise from one, and reach no further than n.
Rising(all) ==
    \A i \in 1 .. Len(all) : 1 <= all[i].id /\ \A j \in 1 .. Len(all) : i < j => all[i].id < all[j].id

Reach(all, n) == \A i \in 1 .. Len(all) : all[i].id <= n

\* A memory is the end of the series, newest first.
IsEnd(mem, all) ==
    /\ Len(mem) <= Len(all)
    /\ \A j \in 1 .. Len(mem) : mem[j] = all[Len(all) + 1 - j]

\* A copy ends at p of the series; it is empty where p is 0.
EndsAt(p, have, all) ==
    /\ p \in 0 .. Len(all)
    /\ have = <<>> => p = 0
    /\ have # <<>> => p # 0 /\ all[p] = Last(have)

\* What is given follows what a client has, and what is left out is no longer held.
Follows(given, have, all, held) ==
    given = <<>> \/ \E p \in 0 .. Len(all), from, to \in 1 .. Len(all) :
                       /\ EndsAt(p, have, all)
                       /\ p < from /\ from <= to
                       /\ \A n \in p + 1 .. from - 1 : n < held
                       /\ given = SubSeq(all, from, to)

-----------------------------------------------------------------------------
\* Two sequences, one behind the other.
LEMMA JoinIs ==
  ASSUME NEW T, NEW a \in Seq(T), NEW b \in Seq(T)
  PROVE  /\ a \o b \in Seq(T) /\ Len(a \o b) = Len(a) + Len(b)
         /\ \A i \in 1 .. Len(a) : (a \o b)[i] = a[i]
         /\ \A i \in 1 .. Len(b) : (a \o b)[Len(a) + i] = b[i]
  OBVIOUS

\* A series backwards.
LEMMA ReverseIs ==
  ASSUME NEW s \in Series
  PROVE  /\ Reverse(s) \in Series /\ Len(Reverse(s)) = Len(s)
         /\ \A i \in 1 .. Len(s) : Reverse(s)[i] = s[Len(s) + 1 - i]
<1> DEFINE N == Len(s)
           r == Reverse(s)
<1>1. N \in Nat /\ \A i \in 1 .. N : s[i] \in Sampling
  BY DEF Series
<1>2. r = [i \in 1 .. N |-> s[N - i + 1]]
  BY DEF Reverse
<1> HIDE DEF N, r
<1>3. \A i \in 1 .. N : N - i + 1 \in 1 .. N /\ N - i + 1 = N + 1 - i
  BY <1>1
<1>4. r \in [1 .. N -> Sampling]
  BY <1>1, <1>2, <1>3
<1>5. r \in Series /\ Len(r) = N
  BY <1>1, <1>4 DEF Series
<1>6. \A i \in 1 .. N : r[i] = s[N + 1 - i]
  BY <1>2, <1>3
<1> QED
  BY <1>5, <1>6 DEF N, r

\* A rising series has no id twice.
LEMMA RisingOnce ==
  ASSUME NEW all \in Series, Rising(all), NEW i \in 1 .. Len(all), NEW j \in 1 .. Len(all),
         all[i].id = all[j].id
  PROVE  i = j
<1>1. all[i].id \in Nat /\ all[j].id \in Nat
  <2>1. all[i] \in Sampling /\ all[j] \in Sampling
    BY DEF Series
  <2> QED
    BY <2>1 DEF Sampling
<1>2. i < j => all[i].id < all[j].id
  BY DEF Rising
<1>3. j < i => all[j].id < all[i].id
  BY DEF Rising
<1>4. i \in Nat /\ j \in Nat
  BY DEF Series
<1> QED
  BY <1>1, <1>2, <1>3, <1>4

\* The least number of a set that has one.
LEMMA LeastIs ==
  ASSUME NEW S \in SUBSET Nat, NEW n \in S, \A m \in S : n <= m
  PROVE  Min(S) = n
<1>1. \A x \in S : (\A y \in S : x <= y) => x = n
  OBVIOUS
<1>2. (CHOOSE x \in S : \A y \in S : x <= y) = n
  BY <1>1
<1> QED
  BY <1>2 DEF Min

\* The place a copy ends at is the one there is.
LEMMA PlaceIs ==
  ASSUME NEW all \in Series, Rising(all), NEW have \in Series, NEW p, EndsAt(p, have, all)
  PROVE  p = IF have = <<>> THEN 0 ELSE SelectInSeq(all, LAMBDA x : x = Last(have))
<1>1. CASE have = <<>>
  BY <1>1 DEF EndsAt
<1>2. CASE have # <<>>
  <2> DEFINE I == {i \in 1 .. Len(all) : all[i] = Last(have)}
  <2>1. p \in I
    BY <1>2 DEF EndsAt
  <2>2. \A i \in I : i = p
    BY <2>1, RisingOnce
  <2>3. I \in SUBSET Nat /\ I # {}
    BY <2>1
  <2>4. SelectInSeq(all, LAMBDA x : x = Last(have)) = Min(I)
    BY <2>3 DEF SelectInSeq
  <2> HIDE DEF I
  <2>5. Min(I) = p
    BY <2>1, <2>2, <2>3, LeastIs
  <2> QED
    BY <1>2, <2>4, <2>5
<1> QED
  BY <1>1, <1>2

\* Where a set of numbers up to a bound has one, it has a least.
LEMMA LeastOfPlaces ==
  ASSUME NEW N \in Nat, NEW S \in SUBSET (1 .. N), S # {}
  PROVE  \E n \in S : (\A m \in S : n <= m) /\ Min(S) = n
<1>1. S \subseteq Nat
  OBVIOUS
<1>2. PICK n \in S : \A m \in S : ~ (<<m, n>> \in OpToRel(<, Nat))
  BY <1>1, NatLessThanWellFounded, WFMin
<1>3. ASSUME NEW m \in S PROVE n <= m
  <2>1. <<m, n>> \in Nat \X Nat /\ ~ (m < n)
    BY <1>1, <1>2 DEF OpToRel
  <2> QED
    BY <1>1, <2>1
<1> QED
  BY <1>1, <1>3, LeastIs

(***************************************************************************)
(* What is newer than a place of the series, of a memory that is its end:  *)
(* nothing, if the memory is empty or the place is the end; else all from  *)
(* behind the place, or from where the memory begins.                      *)
(***************************************************************************)
LEMMA NewerIs ==
  ASSUME NEW all \in Series, Rising(all), NEW mem \in Series, IsEnd(mem, all),
         NEW after \in Nat, NEW p \in 0 .. Len(all),
         \A i \in 1 .. Len(all) : all[i].id <= after <=> i <= p
  PROVE  LET given == NewerThan(mem, after)
             held  == Len(all) + 1 - Len(mem)
         IN  \/ given = <<>> /\ (mem = <<>> \/ p = Len(all))
             \/ \E from \in 1 .. Len(all) :
                   /\ p < from
                   /\ \A n \in p + 1 .. from - 1 : n < held
                   /\ given = SubSeq(all, from, Len(all))
<1> DEFINE given == NewerThan(mem, after)
           N == Len(all)
           M == Len(mem)
           I == {i \in 1 .. M : mem[i].id <= after}
           stop == SelectInSeq(mem, LAMBDA s : s.id <= after)
           last == IF stop = 0 THEN M ELSE stop - 1
<1>1. N \in Nat /\ M \in Nat /\ M <= N /\ p \in Nat /\ p <= N
  BY DEF IsEnd, Series
<1>2. ASSUME NEW j \in 1 .. M PROVE mem[j] = all[N + 1 - j] /\ N + 1 - j \in 1 .. N
  BY <1>1 DEF IsEnd
<1>3. \A j \in 1 .. M : j \in I <=> N + 1 - j <= p
  BY <1>2
<1>4. stop = IF I # {} THEN Min(I) ELSE 0
  BY DEF SelectInSeq
<1>5. given = Reverse(SubSeq(mem, 1, last))
  BY DEF NewerThan
<1>6. I \in SUBSET (1 .. M)
  OBVIOUS
<1> HIDE DEF stop, given, I
\* The samples kept are those behind p, as far as there are any.
<1>7. last \in Nat /\ last <= M /\ last <= N - p /\ (last = M \/ last = N - p)
  <2> HIDE DEF N, M
  <2>1. CASE I = {}
    <3>1. CASE M = 0
      BY <1>1, <1>4, <2>1, <3>1
    <3>2. CASE M # 0
      <4>1. M \in 1 .. M /\ M \notin I
        BY <1>1, <2>1, <3>2
      <4>2. ~(N + 1 - M <= p)
        BY <1>3, <4>1
      <4> QED
        BY <1>1, <1>4, <2>1, <4>2
    <3> QED
      BY <3>1, <3>2
  <2>2. CASE I # {}
    <3>1. PICK n \in I : (\A m \in I : n <= m) /\ Min(I) = n
      BY <1>1, <1>6, <2>2, LeastOfPlaces
    <3>2. stop = n /\ n \in 1 .. M /\ last = n - 1
      BY <1>1, <1>4, <1>6, <2>2, <3>1
    <3>3. N + 1 - n <= p
      BY <1>3, <3>1, <3>2
    <3>4. CASE n = 1
      BY <1>1, <3>2, <3>3, <3>4
    <3>5. CASE n # 1
      <4>1. n - 1 \in 1 .. M /\ n - 1 \notin I
        BY <1>1, <1>6, <3>1, <3>2, <3>5
      <4>2. ~(N + 1 - (n - 1) <= p)
        BY <1>3, <4>1
      <4> QED
        BY <1>1, <3>2, <3>3, <4>2
    <3> QED
      BY <3>4, <3>5
  <2> QED
    BY <2>1, <2>2
<1> HIDE DEF last
<1>8. CASE last = 0
  <2>1. SubSeq(mem, 1, last) = <<>>
    BY <1>1, <1>8 DEF Series
  <2>2. given = <<>>
    <3>1. SubSeq(mem, 1, last) \in Series /\ Len(SubSeq(mem, 1, last)) = 0
      BY <2>1, EmptySeq DEF Series
    <3>2. given \in Seq(Sampling) /\ Len(given) = 0
      BY <1>5, <3>1, ReverseIs DEF Series
    <3> QED
      BY <3>2, EmptySeq
  <2>3. mem = <<>> \/ p = N
    BY <1>1, <1>7, <1>8 DEF Series
  <2> QED
    BY <2>2, <2>3 DEF given
<1>9. CASE last # 0
  <2> DEFINE from == N + 1 - last
             q == SubSeq(all, from, N)
             r == SubSeq(mem, 1, last)
  <2>1. from \in 1 .. N /\ p < from /\ \A n \in p + 1 .. from - 1 : n < N + 1 - M
    <3> HIDE DEF N, M
    <3> QED
      BY <1>1, <1>7, <1>9
  <2>2. r \in Series /\ Len(r) = last /\ \A j \in 1 .. last : r[j] = mem[j]
    BY <1>1, <1>7, <1>9 DEF Series
  <2>3. q \in Series /\ Len(q) = last /\ \A j \in 1 .. last : q[j] = all[from - 1 + j]
    BY <1>1, <1>7, <1>9, <2>1 DEF Series
  <2> HIDE DEF q, r
  <2>4. given = [j \in 1 .. last |-> r[last - j + 1]]
    BY <1>5, <2>2 DEF Reverse, r
  <2>5. \A j \in 1 .. last : given[j] = q[j]
    <3> TAKE j \in 1 .. last
    <3>1. last - j + 1 \in 1 .. last /\ last - j + 1 \in 1 .. M
      BY <1>1, <1>7
    <3>2. given[j] = mem[last - j + 1]
      BY <2>2, <2>4, <3>1
    <3>3. mem[last - j + 1] = all[N + 1 - (last - j + 1)]
      BY <1>2, <3>1
    <3>4. N + 1 - (last - j + 1) = from - 1 + j
      BY <1>1, <1>7
    <3> QED
      BY <2>3, <3>2, <3>3, <3>4
  <2>6. given = q
    <3>1. q = [j \in 1 .. last |-> q[j]]
      BY <2>3, <1>7 DEF Series
    <3> QED
      BY <2>4, <2>5, <3>1
  <2> QED
    BY <2>1, <2>6 DEF given, q
<1> QED
  BY <1>8, <1>9

-----------------------------------------------------------------------------
\* What may be taken at a level whose newest id is n: nothing, or the next sample.
IsTaken(t, n) == t \in Series /\ (t = <<>> \/ (Len(t) = 1 /\ t[1].id = n + 1))

\* A series and the memory of it, and what they are a second later.
Grows(mem, all, m, a, n) ==
    /\ m \in Series /\ a \in Series
    /\ IsEnd(m, a) /\ Rising(a) /\ Reach(a, n)
    /\ Len(a) \in Len(all) .. Len(all) + 1
    /\ \A i \in 1 .. Len(all) : a[i] = all[i]
    /\ Len(a) + 1 - Len(m) >= Len(all) + 1 - Len(mem)

\* A sample in front of a memory.
LEMMA PushedIs ==
  ASSUME NEW mem \in Series, NEW s \in Sampling
  PROVE  LET m == Pushed(mem, s)
         IN  /\ m \in Series /\ Len(m) \in 1 .. Len(mem) + 1 /\ m[1] = s
             /\ \A j \in 2 .. Len(m) : m[j] = mem[j - 1]
<1> DEFINE b == <<s>> \o mem
           N == Len(mem)
           k == Min2(N + 1, HistorySize)
           m == Pushed(mem, s)
<1>1. N \in Nat /\ HistorySize \in Nat \ {0} /\ k \in 1 .. N + 1
  BY PollingAssumption DEF Series, Min2
<1>2. <<s>> \in Seq(Sampling) /\ Len(<<s>>) = 1 /\ <<s>>[1] = s
  OBVIOUS
<1>3. /\ b \in Seq(Sampling) /\ Len(b) = N + 1 /\ b[1] = s
      /\ \A j \in 2 .. N + 1 : b[j] = mem[j - 1]
  <2>1. mem \in Seq(Sampling)
    BY DEF Series
  <2>2. /\ b \in Seq(Sampling) /\ Len(b) = 1 + N
        /\ \A j \in 1 .. 1 + N : b[j] = IF j <= 1 THEN <<s>>[j] ELSE mem[j - 1]
    BY <1>2, <2>1, ConcatProperties
  <2>3. 1 \in 1 .. 1 + N /\ 1 + N = N + 1
    BY <1>1
  <2> HIDE DEF b, N
  <2> QED
    BY <1>1, <1>2, <2>2, <2>3
<1>4. m = SubSeq(b, 1, k)
  BY DEF Pushed
<1> HIDE DEF b, k, m, N
<1>5. m \in Seq(Sampling) /\ Len(m) = k /\ \A j \in 1 .. k : m[j] = b[j]
  BY <1>1, <1>3, <1>4
<1>6. /\ m \in Series /\ Len(m) \in 1 .. N + 1 /\ m[1] = s
      /\ \A j \in 2 .. Len(m) : m[j] = mem[j - 1]
  BY <1>1, <1>3, <1>5 DEF Series
<1> QED
  BY <1>6 DEF m, N

\* A memory that stays, or takes the next sample, stays the end of its series.
LEMMA SeriesGrows ==
  ASSUME NEW all \in Series, Rising(all), NEW n \in Nat, Reach(all, n),
         NEW mem \in Series, IsEnd(mem, all), NEW t, IsTaken(t, n),
         NEW m, m = mem \/ (t # <<>> /\ m = Pushed(mem, t[1]))
  PROVE  Grows(mem, all, m, Logged(all, m), n + Len(t))
<1> DEFINE N == Len(all)
           M == Len(mem)
           a == Logged(all, m)
<1>1. /\ N \in Nat /\ M \in Nat /\ M <= N /\ t \in Series /\ Len(t) \in {0, 1}
      /\ \A j \in 1 .. M : mem[j] = all[N + 1 - j]
  <2>1. t = <<>> => Len(t) = 0
    BY EmptySeq DEF IsTaken, Series
  <2> QED
    BY <2>1 DEF IsEnd, Series, IsTaken
<1>2. \A i \in 1 .. N : all[i] \in Sampling /\ all[i].id \in Nat /\ 1 <= all[i].id /\ all[i].id <= n
  <2>1. \A i \in 1 .. N : all[i] \in Sampling
    BY DEF Series
  <2> QED
    BY <2>1 DEF Sampling, Rising, Reach
<1>3. ToSet(all) = {all[i] : i \in 1 .. N}
  BY DEF ToSet, Series
<1>4. CASE m = mem
  <2>1. a = all
    <3>1. CASE mem = <<>>
      BY <1>4, <3>1 DEF Logged
    <3>2. CASE mem # <<>>
      <4>1. 1 \in 1 .. M
        BY <1>1, <3>2, EmptySeq DEF Series
      <4>2. mem[1] = all[N + 1 - 1] /\ N + 1 - 1 \in 1 .. N
        BY <1>1, <4>1
      <4>3. mem[1] \in ToSet(all)
        BY <1>3, <4>2
      <4> QED
        BY <1>4, <4>3 DEF Logged
    <3> QED
      BY <3>1, <3>2
  <2>2. Reach(all, n + Len(t))
    BY <1>1, <1>2 DEF Reach
  <2> QED
    BY <1>1, <1>4, <2>1, <2>2 DEF Grows
<1>5. CASE t # <<>> /\ m = Pushed(mem, t[1])
  <2> DEFINE s == t[1]
  <2>1. Len(t) = 1 /\ s \in Sampling /\ s.id = n + 1
    <3>1. Len(t) = 1 /\ s.id = n + 1 /\ t \in Seq(Sampling)
      BY <1>5 DEF IsTaken, Series
    <3>2. s \in Sampling
      BY <3>1, SeqOfOne
    <3> QED
      BY <3>1, <3>2
  <2>2. /\ m \in Series /\ Len(m) \in 1 .. M + 1 /\ m[1] = s
        /\ \A j \in 2 .. Len(m) : m[j] = mem[j - 1]
    BY <1>5, <2>1, PushedIs
  <2>3. a = Append(all, s)
    <3>1. s \notin ToSet(all)
      BY <1>2, <1>3, <2>1
    <3>2. m # <<>>
      BY <2>2, EmptySeq DEF Series
    <3> QED
      BY <2>2, <3>1, <3>2 DEF Logged
  <2>4. a \in Series /\ Len(a) = N + 1 /\ a[N + 1] = s /\ \A i \in 1 .. N : a[i] = all[i]
    BY <2>1, <2>3, AppendProperties DEF Series
  <2> HIDE DEF s, a
  <2>5. IsEnd(m, a)
    <3>1. ASSUME NEW j \in 1 .. Len(m) PROVE m[j] = a[N + 2 - j]
      <4>1. CASE j = 1
        BY <1>1, <2>2, <2>4, <4>1
      <4>2. CASE j # 1
        <5>1. j \in 2 .. Len(m) /\ j - 1 \in 1 .. M /\ N + 1 - (j - 1) = N + 2 - j
              /\ N + 2 - j \in 1 .. N
          BY <1>1, <2>2, <4>2
        <5> QED
          BY <1>1, <2>2, <2>4, <5>1
      <4> QED
        BY <4>1, <4>2
    <3>2. \A j \in 1 .. Len(m) : m[j] = a[Len(a) + 1 - j]
      BY <1>1, <2>2, <2>4, <3>1
    <3> QED
      BY <1>1, <2>2, <2>4, <3>2 DEF IsEnd
  <2>6. Reach(a, n + Len(t))
    <3>1. \A i \in 1 .. N + 1 : i \in 1 .. N \/ i = N + 1
      BY <1>1
    <3> QED
      BY <1>2, <2>1, <2>4, <3>1 DEF Reach
  <2>7. Rising(a)
    <3>1. ASSUME NEW i \in 1 .. N + 1 PROVE 1 <= a[i].id
      <4>1. i \in 1 .. N \/ i = N + 1
        BY <1>1
      <4> QED
        BY <1>2, <2>1, <2>4, <4>1
    <3>2. ASSUME NEW i \in 1 .. N + 1, NEW j \in 1 .. N + 1, i < j PROVE a[i].id < a[j].id
      <4>1. i \in 1 .. N /\ (j \in 1 .. N \/ j = N + 1)
        <5> HIDE DEF N
        <5> QED
          BY <1>1, <3>2
      <4>2. CASE j \in 1 .. N
        BY <2>4, <3>2, <4>1, <4>2 DEF Rising
      <4>3. CASE j = N + 1
        BY <1>2, <2>1, <2>4, <4>1, <4>3
      <4> QED
        BY <4>1, <4>2, <4>3
    <3> QED
      BY <2>4, <3>1, <3>2 DEF Rising
  <2> QED
    BY <1>1, <2>2, <2>4, <2>5, <2>6, <2>7 DEF Grows, a
<1> QED
  BY <1>4, <1>5

-----------------------------------------------------------------------------
\* An item as the collector has it.
Things == [key : Device, active : BOOLEAN, gpu : BOOLEAN, gpuUnit : BOOLEAN,
           mem : [Levels -> Series]]

\* A device has one item.
OneEach(its) == \A i, j \in 1 .. Len(its) : its[i].key = its[j].key => i = j

KeysOf(its) == {its[i].key : i \in 1 .. Len(its)}

\* The memories of a device, those it would begin with where it has no item.
MemOf(its, d) == IF d \in KeysOf(its) THEN ItemOf(its, d).mem ELSE Item(d).mem

\* What is known of items.
LEMMA ThingsAre ==
  ASSUME NEW its \in Seq(Things)
  PROVE  /\ Len(its) \in Nat /\ ToSet(its) = {its[i] : i \in 1 .. Len(its)}
         /\ \A i \in 1 .. Len(its) :
               its[i] \in Things /\ its[i].key \in Device /\ its[i].mem \in [Levels -> Series]
<1>1. Len(its) \in Nat /\ \A i \in 1 .. Len(its) : its[i] \in Things
  OBVIOUS
<1>2. \A t \in Things : t.key \in Device /\ t.mem \in [Levels -> Series]
  BY DEF Things
<1>3. ToSet(its) = {its[i] : i \in 1 .. Len(its)}
  BY DEF ToSet
<1> QED
  BY <1>1, <1>2, <1>3

\* The item of a device is the one with its key.
LEMMA ItemOfIs ==
  ASSUME NEW its \in Seq(Things), OneEach(its), NEW i \in 1 .. Len(its)
  PROVE  ItemOf(its, its[i].key) = its[i] /\ MemOf(its, its[i].key) = its[i].mem
<1>1. its[i] \in ToSet(its)
  BY ThingsAre
<1>2. \A t \in ToSet(its) : t.key = its[i].key => t = its[i]
  BY ThingsAre DEF OneEach
<1>3. ItemOf(its, its[i].key) = its[i]
  BY <1>1, <1>2 DEF ItemOf
<1> QED
  BY <1>3 DEF MemOf, KeysOf

\* An item that is made is one, with its rows.
LEMMA ItemIs ==
  ASSUME stored \in [Device -> Series], NEW d \in Device
  PROVE  /\ Item(d) \in Things /\ Item(d).key = d
         /\ Item(d).mem[1] = <<>> /\ Item(d).mem[2] = stored[d]
<1>1. stored[d] \in Series /\ <<>> \in Series
  BY DEF Series
<1>2. <<<<>>, stored[d]>> \in [1 .. 2 -> Series]
  BY <1>1
<1> QED
  BY <1>2 DEF Item, Things, Levels

\* A finite set as a sequence has each of its elements once.
LEMMA SequenceOfSet ==
  ASSUME NEW S, IsFiniteSet(S)
  PROVE  /\ SetToSeq(S) \in Seq(S) /\ Once(SetToSeq(S)) /\ Range(SetToSeq(S)) = S
         /\ Len(SetToSeq(S)) = Cardinality(S) /\ Cardinality(S) \in Nat
<1> DEFINE q == SetToSeq(S)
           N == Cardinality(S)
<1>1. N \in Nat /\ ExistsBijection(1 .. N, S)
  BY FS_CardinalityType
<1>2. \E f : f \in [1 .. N -> S] /\ \A a, b \in DOMAIN f : f[a] = f[b] => a = b
  BY <1>1 DEF ExistsBijection, Bijection, Injection, IsInjective
<1>3. q \in [1 .. N -> S] /\ \A a, b \in DOMAIN q : q[a] = q[b] => a = b
  BY <1>2, ZenonT(30) DEF SetToSeq, IsInjective
<1> HIDE DEF q
<1>4. q \in Seq(S) /\ Len(q) = N
  BY <1>1, <1>3
<1>5. Once(q)
  BY <1>3, <1>4 DEF Once
<1>6. q \in Injection(1 .. N, S)
  BY <1>3 DEF Injection, IsInjective
<1>7. Cardinality(1 .. N) = N
  <2>1. Cardinality(1 .. N) = IF 1 > N THEN 0 ELSE N - 1 + 1
    BY <1>1, FS_Interval
  <2> QED
    BY <1>1, <2>1
<1>8. q \in Surjection(1 .. N, S)
  BY <1>6, <1>7, FS_Injection DEF N
<1>9. Range(q) = S
  BY <1>3, <1>8 DEF Surjection, Range
<1> QED
  BY <1>1, <1>4, <1>5, <1>9 DEF q

\* What is made is a device each, of those without an item.
LEMMA MadeIs ==
  ASSUME NEW listed \in SUBSET Device
  PROVE  Made(listed) \in Seq(Device \ Devices) /\ Once(Made(listed))
<1> DEFINE q == SetToSeq(listed)
<1>1. IsFiniteSet(listed)
  BY PollingAssumption, FS_Subset
<1>2. q \in Seq(listed) /\ Once(q)
  BY <1>1, SequenceOfSet
<1> HIDE DEF q
<1>5. q \in Seq(Device) /\ Once(q)
  BY <1>2
<1>6. Only(q, Device \ Devices) \in Seq(Device \cap (Device \ Devices))
      /\ Once(Only(q, Device \ Devices))
  BY <1>5, OnlyType, OnlyOnce
<1>7. Device \cap (Device \ Devices) = Device \ Devices
  OBVIOUS
<1> QED
  BY <1>6, <1>7 DEF Made, q

\* The items of a second, those made for it in front.
LEMMA ItemsOfSecond ==
  ASSUME stored \in [Device -> Series], items \in Seq(Things), OneEach(items),
         NEW listed \in SUBSET Device,
         NEW its, its = [i \in 1 .. Len(Made(listed)) |-> Item(Made(listed)[i])] \o items
  PROVE  /\ its \in Seq(Things) /\ OneEach(its)
         /\ Devices \subseteq KeysOf(its) /\ KeysOf(its) \subseteq Devices \cup ToSet(Made(listed))
         /\ \A d \in Device : MemOf(its, d) = MemOf(items, d)
<1> DEFINE made == Made(listed)
           A == Len(made)
           B == Len(items)
           new == [i \in 1 .. A |-> Item(made[i])]
<1>1. /\ A \in Nat /\ \A i \in 1 .. A : made[i] \in Device /\ made[i] \notin Devices
      /\ \A i, j \in 1 .. A : made[i] = made[j] => i = j
      /\ ToSet(made) = {made[i] : i \in 1 .. A}
  <2>1. made \in Seq(Device \ Devices) /\ Once(made)
    BY MadeIs
  <2> HIDE DEF made
  <2> QED
    BY <2>1 DEF Once, ToSet
<1>2. B \in Nat /\ \A i \in 1 .. B : items[i] \in Things /\ items[i].key \in Devices
  BY ThingsAre DEF Devices
<1> HIDE DEF made
<1>3. \A i \in 1 .. A : new[i] \in Things /\ new[i] = Item(made[i]) /\ new[i].key = made[i]
  BY <1>1, ItemIs
<1>4. new \in Seq(Things) /\ Len(new) = A
  BY <1>1, <1>3
<1>5. its = new \o items
  BY DEF made
<1> HIDE DEF new, A, B
<1>6. /\ its \in Seq(Things) /\ Len(its) = A + B
      /\ \A i \in 1 .. A : its[i] = new[i]
      /\ \A i \in 1 .. B : its[A + i] = items[i]
  <2>1. new \in Seq(Things) /\ items \in Seq(Things) /\ B = Len(items)
    BY <1>4 DEF B
  <2>2. /\ new \o items \in Seq(Things) /\ Len(new \o items) = Len(new) + Len(items)
        /\ \A i \in 1 .. Len(new) : (new \o items)[i] = new[i]
        /\ \A i \in 1 .. Len(items) : (new \o items)[Len(new) + i] = items[i]
    BY <2>1, JoinIs
  <2> QED
    BY <1>4, <1>5, <2>1, <2>2, Zenon
<1>7. \A i \in 1 .. A + B : (i \in 1 .. A /\ its[i] = new[i])
                            \/ (i - A \in 1 .. B /\ its[i] = items[i - A])
  <2> SUFFICES ASSUME NEW i \in 1 .. A + B, i \notin 1 .. A
               PROVE  i - A \in 1 .. B /\ its[i] = items[i - A]
    BY <1>6
  <2>1. i - A \in 1 .. B /\ A + (i - A) = i
    BY <1>1, <1>2
  <2> QED
    BY <1>6, <2>1
<1>8. OneEach(its)
  <2> SUFFICES ASSUME NEW i \in 1 .. A + B, NEW j \in 1 .. A + B, its[i].key = its[j].key
               PROVE  i = j
    BY <1>6 DEF OneEach
  <2>1. CASE i \in 1 .. A /\ its[i] = new[i]
    <3>1. its[j].key \notin Devices
      BY <1>1, <1>3, <2>1
    <3>2. j \in 1 .. A /\ its[j] = new[j]
      BY <1>2, <1>7, <3>1
    <3> QED
      BY <1>1, <1>3, <2>1, <3>2
  <2>2. CASE i - A \in 1 .. B /\ its[i] = items[i - A]
    <3>1. j - A \in 1 .. B /\ its[j] = items[j - A]
      <4>1. its[j].key \in Devices
        BY <1>2, <2>2
      <4> QED
        BY <1>1, <1>3, <1>7, <4>1
    <3>2. i - A = j - A
      BY <2>2, <3>1 DEF OneEach, B
    <3> QED
      BY <1>1, <1>2, <3>2
  <2> QED
    BY <1>7, <2>1, <2>2
<1>9. \A j \in 1 .. B : A + j \in 1 .. A + B /\ its[A + j] = items[j]
  <2>1. \A j \in 1 .. B : A + j \in 1 .. A + B
    BY <1>1, <1>2
  <2> QED
    BY <1>6, <2>1
<1>10. Devices \subseteq KeysOf(its)
  <2>1. Devices = {items[j].key : j \in 1 .. B}
    BY DEF Devices, B
  <2>2. KeysOf(its) = {its[i].key : i \in 1 .. A + B}
    BY <1>6 DEF KeysOf
  <2> QED
    BY <1>9, <2>1, <2>2
<1>11. \A i \in 1 .. A : ToSet(made) = {made[n] : n \in 1 .. A} /\ made[i] \in ToSet(made)
  BY <1>1
<1>12. KeysOf(its) \subseteq Devices \cup ToSet(made)
  <2>1. KeysOf(its) = {its[i].key : i \in 1 .. A + B}
    BY <1>6 DEF KeysOf
  <2>2. \A i \in 1 .. A + B : its[i].key \in Devices \/ its[i].key \in ToSet(made)
    BY <1>2, <1>3, <1>7, <1>11
  <2> QED
    BY <2>1, <2>2
<1>13. ASSUME NEW d \in Device PROVE MemOf(its, d) = MemOf(items, d)
  <2>1. CASE d \in Devices
    <3>1. PICK j \in 1 .. B : items[j].key = d
      BY <2>1 DEF Devices, B
    <3>2. its[A + j] = items[j] /\ A + j \in 1 .. Len(its)
      BY <1>6, <1>9
    <3>3. MemOf(its, its[A + j].key) = its[A + j].mem
      BY <1>6, <1>8, <3>2, ItemOfIs
    <3>4. MemOf(items, items[j].key) = items[j].mem
      BY ItemOfIs DEF B
    <3> QED
      BY <3>1, <3>2, <3>3, <3>4
  <2>2. CASE d \notin Devices
    <3>1. MemOf(items, d) = Item(d).mem
      BY <2>2 DEF MemOf, KeysOf, Devices
    <3>2. CASE d \in KeysOf(its)
      <4>1. PICK i \in 1 .. A + B : its[i].key = d
        BY <1>6, <3>2 DEF KeysOf
      <4>2. i \in 1 .. A /\ its[i] = new[i]
        BY <1>2, <1>7, <2>2, <4>1
      <4>3. its[i] = Item(d)
        BY <1>3, <4>1, <4>2
      <4>4. MemOf(its, d) = its[i].mem
        BY <1>6, <1>8, <4>1, ItemOfIs
      <4> QED
        BY <3>1, <4>3, <4>4
    <3>3. CASE d \notin KeysOf(its)
      BY <3>1, <3>3 DEF MemOf
    <3> QED
      BY <3>2, <3>3
  <2> QED
    BY <2>1, <2>2
<1> QED
  BY <1>6, <1>8, <1>10, <1>12, <1>13 DEF made

\* An item a second later: each memory stays, or takes the sample taken.
SampledFrom(s, item, taken) ==
    /\ s \in Things /\ s.key = item.key
    /\ \A l \in Levels :
          s.mem[l] = item.mem[l]
          \/ (taken[l] # <<>> /\ s.mem[l] = Pushed(item.mem[l], taken[l][1]))

\* What a second does to an item.
LEMMA SampledIs ==
  ASSUME NEW item \in Things, NEW listed, NEW n \in [Levels -> Nat],
         NEW taken, \A l \in Levels : IsTaken(taken[l], n[l])
  PROVE  SampledFrom(Sampled(item, listed, taken), item, taken)
<1> DEFINE m == [l \in Levels |->
                    IF taken[l] # <<>> /\ (l = 2 \/ item.key \in listed)
                    THEN Pushed(item.mem[l], taken[l][1]) ELSE item.mem[l]]
<1>1. \A l \in Levels : item.mem[l] \in Series
  BY DEF Things
<1>2. m \in [Levels -> Series]
  <2>1. ASSUME NEW l \in Levels, taken[l] # <<>>
        PROVE  Pushed(item.mem[l], taken[l][1]) \in Series
    <3>1. taken[l] \in Seq(Sampling) /\ Len(taken[l]) = 1
      BY <2>1 DEF IsTaken, Series
    <3>2. taken[l][1] \in Sampling
      BY <3>1, SeqOfOne
    <3> QED
      BY <1>1, <3>2, PushedIs
  <2> QED
    BY <1>1, <2>1
<1> DEFINE s == Sampled(item, listed, taken)
<1>3. s = [item EXCEPT !.active = item.key \in listed, !.mem = m]
  BY DEF Sampled
<1>4. \A l \in Levels : m[l] = item.mem[l]
                        \/ (taken[l] # <<>> /\ m[l] = Pushed(item.mem[l], taken[l][1]))
  OBVIOUS
<1> HIDE DEF m, s
<1>5. s \in Things /\ s.key = item.key /\ s.mem = m
  <2>1. (item.key \in listed) \in BOOLEAN
    OBVIOUS
  <2> QED
    BY <1>2, <1>3, <2>1 DEF Things
<1> QED
  BY <1>4, <1>5 DEF s, SampledFrom

-----------------------------------------------------------------------------
(***************************************************************************)
(* The inductive invariant.  While the server runs, the memory of an item  *)
(* is the end of its series, and that of a device without an item the      *)
(* whole of it; ids have got no further than the counter.  A copy of this  *)
(* session ends in the series, and what is on its way follows it.          *)
(***************************************************************************)
PollingTypes ==
    /\ now \in Nat /\ kind \in Kinds /\ up \in BOOLEAN /\ connected \in BOOLEAN
    /\ session \in Nat /\ session <= now /\ seen \in Int /\ seen <= session
    /\ ids \in [Levels -> Nat]
    /\ items \in Seq(Things)
    /\ stored \in [Device -> Series]
    /\ log \in [Device -> [Levels -> Series]]
    /\ copy \in [Device -> [Levels -> Series]]

InSession ==
    /\ connected => up /\ seen = session
    /\ up => ids[2] = now \div 2

StoredRises ==
    \A d \in Device : Rising(Reverse(stored[d])) /\ Reach(Reverse(stored[d]), now \div 2)

OneItemEach ==
    /\ OneEach(items)
    /\ up \/ items = <<>>
    /\ kind \in Single => Devices \subseteq {TheOnly}

MemoryIsEnd ==
    \A d \in Device, l \in Levels :
        /\ Rising(log[d][l])
        /\ up => /\ Reach(log[d][l], ids[l])
                 /\ IsEnd(MemOf(items, d)[l], log[d][l])
                 /\ d \notin Devices => Len(log[d][l]) = Len(MemOf(items, d)[l])

CopyEnds ==
    seen = session =>
        \A d \in Device, l \in Levels : \E p \in Nat : EndsAt(p, copy[d][l], log[d][l])

Given(d, l) == Answered(reply.items, d, l)

ReplyFollows ==
    \A d \in Device, l \in Levels :
        /\ Given(d, l) \in Series
        /\ seen = session => Follows(Given(d, l), copy[d][l], log[d][l], Held(d, l))

PollingInv ==
    /\ PollingTypes
    /\ InSession
    /\ StoredRises
    /\ OneItemEach
    /\ MemoryIsEnd
    /\ CopyEnds
    /\ ReplyFollows

-----------------------------------------------------------------------------
\* A memory is a series.
LEMMA MemOfIs ==
  ASSUME stored \in [Device -> Series], NEW its \in Seq(Things), OneEach(its), NEW d \in Device
  PROVE  MemOf(its, d) \in [Levels -> Series]
<1>1. CASE d \in KeysOf(its)
  <2>1. PICK i \in 1 .. Len(its) : its[i].key = d
    BY <1>1 DEF KeysOf
  <2>2. MemOf(its, its[i].key) = its[i].mem
    BY ItemOfIs
  <2>3. its[i].mem \in [Levels -> Series]
    BY ThingsAre
  <2> QED
    BY <2>1, <2>2, <2>3
<1>2. CASE d \notin KeysOf(its)
  <2>1. MemOf(its, d) = Item(d).mem
    BY <1>2 DEF MemOf
  <2>2. Item(d) \in Things
    BY ItemIs
  <2> QED
    BY <2>1, <2>2 DEF Things
<1> QED
  BY <1>1, <1>2

\* What is held of a series while the server runs.
LEMMA HeldIs ==
  ASSUME PollingInv, up, NEW d \in Device, NEW l \in Levels
  PROVE  Held(d, l) = Len(log[d][l]) + 1 - Len(MemOf(items, d)[l])
<1>1. CASE d \in Devices
  BY <1>1 DEF Held, MemOf, KeysOf, Devices
<1>2. CASE d \notin Devices
  <2>1. Len(log[d][l]) = Len(MemOf(items, d)[l]) /\ log[d][l] \in Series
    BY <1>2 DEF PollingInv, PollingTypes, MemoryIsEnd
  <2>2. Len(log[d][l]) \in Nat
    BY <2>1 DEF Series
  <2> QED
    BY <1>2, <2>1, <2>2 DEF Held
<1> QED
  BY <1>1, <1>2

\* What is taken in a second.
Taken == <<<<Sample(ids[1] + 1, now + 1)>>,
           IF (now + 1) % 2 = 0 THEN <<Sample(ids[2] + 1, now + 1)>> ELSE <<>>>>

\* It is the next sample of each level, or nothing.
LEMMA TakenIs ==
  ASSUME now \in Nat, ids \in [Levels -> Nat]
  PROVE  /\ \A l \in Levels : IsTaken(Taken[l], ids[l]) /\ Len(Taken[l]) \in Nat
         /\ ids[2] = now \div 2 => ids[2] + Len(Taken[2]) = (now + 1) \div 2
<1>1. \A n \in Nat : /\ <<Sample(n + 1, now + 1)>> \in Series /\ <<>> \in Series
                     /\ <<Sample(n + 1, now + 1)>>[1].id = n + 1
                     /\ Len(<<Sample(n + 1, now + 1)>>) = 1
  BY DEF Sample, Series, Sampling
<1>2. Levels = {1, 2} /\ ids[1] \in Nat /\ ids[2] \in Nat
  BY DEF Levels
<1>3. Taken[1] = <<Sample(ids[1] + 1, now + 1)>>
  BY DEF Taken
<1>4. Taken[2] = IF (now + 1) % 2 = 0 THEN <<Sample(ids[2] + 1, now + 1)>> ELSE <<>>
  BY DEF Taken
<1>5. Len(<<>>) = 0
  BY EmptySeq
<1>6. IsTaken(Taken[1], ids[1]) /\ Len(Taken[1]) \in Nat
  BY <1>1, <1>2, <1>3 DEF IsTaken
<1>7. IsTaken(Taken[2], ids[2]) /\ Len(Taken[2]) = IF (now + 1) % 2 = 0 THEN 1 ELSE 0
  BY <1>1, <1>2, <1>4, <1>5 DEF IsTaken
<1>8. (now + 1) \div 2 = (now \div 2) + IF (now + 1) % 2 = 0 THEN 1 ELSE 0
  OBVIOUS
<1> QED
  BY <1>2, <1>6, <1>7, <1>8

\* A second, device by device.
GrowsAll ==
    \A d \in Device, l \in Levels :
        /\ Grows(MemOf(items, d)[l], log[d][l], MemOf(items', d)[l], log'[d][l], ids'[l])
        /\ d \notin KeysOf(items') => Len(log'[d][l]) = Len(MemOf(items', d)[l])

\* In a second every series grows.
LEMMA SecondGrows ==
  ASSUME PollingInv, NEW listed \in Listings, Second(listed)
  PROVE  /\ items' \in Seq(Things) /\ OneEach(items') /\ Devices \subseteq KeysOf(items')
         /\ kind \in Single => KeysOf(items') \subseteq {TheOnly}
         /\ ids' \in [Levels -> Nat] /\ ids'[2] = (now + 1) \div 2
         /\ log' \in [Device -> [Levels -> Series]]
         /\ GrowsAll
<1> DEFINE made == Made(listed)
           its == [i \in 1 .. Len(made) |-> Item(made[i])] \o items
<1>1. /\ now \in Nat /\ ids \in [Levels -> Nat] /\ items \in Seq(Things) /\ OneEach(items)
      /\ stored \in [Device -> Series] /\ log \in [Device -> [Levels -> Series]]
      /\ up /\ ids[2] = now \div 2 /\ (kind \in Single => Devices \subseteq {TheOnly})
  BY DEF PollingInv, PollingTypes, InSession, OneItemEach, Second
<1>2. listed \in SUBSET Device /\ (kind \in Single => listed = {TheOnly})
  <2>1. TheOnly \in Device
    BY PollingAssumption DEF TheOnly
  <2> QED
    BY <2>1 DEF Listings
<1>3. /\ its \in Seq(Things) /\ OneEach(its) /\ Devices \subseteq KeysOf(its)
      /\ KeysOf(its) \subseteq Devices \cup ToSet(made)
      /\ \A d \in Device : MemOf(its, d) = MemOf(items, d)
  BY <1>1, <1>2, ItemsOfSecond
<1>4. kind \in Single => ToSet(made) \subseteq {TheOnly}
  <2> SUFFICES ASSUME kind \in Single PROVE ToSet(made) \subseteq {TheOnly}
    OBVIOUS
  <2> DEFINE q == SetToSeq(listed)
             N == Cardinality(listed)
  <2>1. listed = {TheOnly} /\ IsFiniteSet(listed)
    BY <1>2, PollingAssumption, FS_Subset
  <2>2. q \in Seq(listed)
    BY <2>1, SequenceOfSet
  <2> HIDE DEF q
  <2>3. Only(q, Device \ Devices) \in Seq(listed)
    BY <2>2, OnlyType
  <2> QED
    BY <2>1, <2>3 DEF Made, ToSet, q
<1> HIDE DEF its
<1>5. /\ ids' = [l \in Levels |-> ids[l] + Len(Taken[l])]
      /\ items' = [i \in 1 .. Len(its) |-> Sampled(its[i], listed, Taken)]
      /\ log' = LogOf(items')
  BY DEF Second, Taken, its
<1>6. \A l \in Levels : IsTaken(Taken[l], ids[l]) /\ Len(Taken[l]) \in Nat
  BY <1>1, TakenIs
<1>7. ids' \in [Levels -> Nat] /\ ids'[2] = (now + 1) \div 2
  <2>1. 2 \in Levels
    BY DEF Levels
  <2>2. ids[2] + Len(Taken[2]) = (now + 1) \div 2
    BY <1>1, TakenIs
  <2>3. ids'[2] = ids[2] + Len(Taken[2])
    BY <1>5, <2>1
  <2>4. \A l \in Levels : ids[l] + Len(Taken[l]) \in Nat
    BY <1>1, <1>6
  <2> QED
    BY <1>5, <2>2, <2>3, <2>4
<1>8. Len(its) \in Nat /\ \A i \in 1 .. Len(its) : its[i] \in Things
  BY <1>3
<1>9. \A i \in 1 .. Len(its) :
         /\ items'[i] \in Things /\ items'[i].key = its[i].key
         /\ \A l \in Levels : \/ items'[i].mem[l] = its[i].mem[l]
                              \/ /\ Taken[l] # <<>>
                                 /\ items'[i].mem[l] = Pushed(its[i].mem[l], Taken[l][1])
  <2> TAKE i \in 1 .. Len(its)
  <2>1. items'[i] = Sampled(its[i], listed, Taken)
    BY <1>5
  <2>2. its[i] \in Things /\ ids \in [Levels -> Nat] /\ \A l \in Levels : IsTaken(Taken[l], ids[l])
    BY <1>1, <1>6, <1>8
  <2>3. SampledFrom(Sampled(its[i], listed, Taken), its[i], Taken)
    BY <2>2, SampledIs
  <2> QED
    BY <2>1, <2>3 DEF SampledFrom
<1>10. items' \in Seq(Things) /\ Len(items') = Len(its)
  BY <1>5, <1>8, <1>9
<1>11. OneEach(items') /\ KeysOf(items') = KeysOf(its)
  BY <1>3, <1>9, <1>10 DEF OneEach, KeysOf
<1>12. ASSUME NEW d \in Device, NEW l \in Levels
       PROVE  /\ Grows(MemOf(items, d)[l], log[d][l], MemOf(items', d)[l], log'[d][l], ids'[l])
              /\ d \notin KeysOf(items') => Len(log'[d][l]) = Len(MemOf(items', d)[l])
              /\ log'[d][l] \in Series
  <2> DEFINE all == log[d][l]
             mem == MemOf(items, d)[l]
             m == MemOf(items', d)[l]
  <2>1. /\ all \in Series /\ Rising(all) /\ Reach(all, ids[l]) /\ IsEnd(mem, all)
        /\ d \notin Devices => Len(all) = Len(mem)
    BY <1>1 DEF PollingInv, MemoryIsEnd
  <2>2. mem \in Series
    BY <1>1, MemOfIs
  <2>3. log'[d][l] = IF d \in KeysOf(items') THEN Logged(all, ItemOf(items', d).mem[l]) ELSE all
    BY <1>5 DEF LogOf, KeysOf
  <2>4. ids'[l] = ids[l] + Len(Taken[l]) /\ ids[l] \in Nat
    BY <1>1, <1>5
  <2>5. IsTaken(Taken[l], ids[l]) /\ Len(Taken[l]) \in Nat
    BY <1>6
  <2>6. CASE d \in KeysOf(items')
    <3>1. PICK i \in 1 .. Len(its) : items'[i].key = d
      BY <1>10, <2>6 DEF KeysOf
    <3>2. MemOf(items', items'[i].key) = items'[i].mem /\ ItemOf(items', items'[i].key) = items'[i]
      BY <1>10, <1>11, ItemOfIs
    <3>3. MemOf(its, its[i].key) = its[i].mem /\ its[i].key = d
      BY <1>3, <1>9, <3>1, ItemOfIs
    <3>4. mem = its[i].mem[l] /\ m = items'[i].mem[l]
      BY <1>3, <3>1, <3>2, <3>3
    <3>5. m = mem \/ (Taken[l] # <<>> /\ m = Pushed(mem, Taken[l][1]))
      BY <1>9, <3>4
    <3>6. log'[d][l] = Logged(all, m)
      BY <2>3, <2>6, <3>1, <3>2, <3>4
    <3> HIDE DEF all, mem, m
    <3>7. Grows(mem, all, m, Logged(all, m), ids[l] + Len(Taken[l]))
      BY <2>1, <2>2, <2>4, <2>5, <3>5, SeriesGrows
    <3>8. Logged(all, m) \in Series
      BY <3>7 DEF Grows
    <3> QED
      BY <2>4, <2>6, <3>6, <3>7, <3>8 DEF all, mem, m
  <2>7. CASE d \notin KeysOf(items')
    <3>1. d \notin Devices /\ d \notin KeysOf(items)
      BY <1>3, <1>11, <2>7 DEF KeysOf, Devices
    <3>2. m = mem /\ log'[d][l] = all
      BY <2>3, <2>7, <3>1 DEF MemOf
    <3>3. Len(all) \in Nat /\ Len(mem) \in Nat /\ \A i \in 1 .. Len(all) : all[i] \in Sampling
      BY <2>1, <2>2 DEF Series
    <3>4. Reach(all, ids[l] + Len(Taken[l]))
      <4>1. \A i \in 1 .. Len(all) : all[i].id \in Nat
        BY <3>3 DEF Sampling
      <4> HIDE DEF all
      <4> QED
        BY <2>1, <2>4, <2>5, <4>1 DEF Reach
    <3>5. Grows(mem, all, mem, all, ids[l] + Len(Taken[l]))
      <4> HIDE DEF all, mem
      <4> QED
        BY <2>1, <2>2, <3>3, <3>4 DEF Grows
    <3> QED
      BY <2>1, <2>4, <2>7, <3>1, <3>2, <3>5
  <2> QED
    BY <2>6, <2>7
<1>13. log' \in [Device -> [Levels -> Series]]
  <2>1. \A d \in Device, l \in Levels : log'[d][l] \in Series
    BY <1>12
  <2>2. log' = [d \in Device |-> [l \in Levels |-> log'[d][l]]]
    BY <1>5 DEF LogOf
  <2> QED
    BY <2>1, <2>2
<1>14. GrowsAll
  BY <1>12 DEF GrowsAll
<1> QED
  BY <1>1, <1>3, <1>4, <1>7, <1>10, <1>11, <1>13, <1>14

-----------------------------------------------------------------------------
\* The end of a series, turned, rises as the series does.
LEMMA EndReversed ==
  ASSUME NEW all \in Series, Rising(all), NEW n \in Nat, Reach(all, n),
         NEW mem \in Series, IsEnd(mem, all)
  PROVE  Rising(Reverse(mem)) /\ Reach(Reverse(mem), n)
<1> DEFINE N == Len(all)
           M == Len(mem)
           r == Reverse(mem)
<1>1. N \in Nat /\ M \in Nat /\ M <= N /\ \A j \in 1 .. M : mem[j] = all[N + 1 - j]
  BY DEF IsEnd, Series
<1>2. Len(r) = M /\ \A i \in 1 .. M : r[i] = mem[M + 1 - i]
  BY ReverseIs
<1> HIDE DEF N, M, r
<1>3. \A i \in 1 .. M : /\ M + 1 - i \in 1 .. M /\ N + 1 - (M + 1 - i) = N - M + i
                        /\ N - M + i \in 1 .. N
  BY <1>1
<1>4. \A i \in 1 .. M : r[i] = all[N - M + i]
  BY <1>1, <1>2, <1>3
<1>5. \A i, j \in 1 .. M : i < j => N - M + i < N - M + j
  BY <1>1
<1>6. /\ \A i \in 1 .. N : 1 <= all[i].id /\ all[i].id <= n
      /\ \A i, j \in 1 .. N : i < j => all[i].id < all[j].id
  BY DEF Rising, Reach, N
<1>7. Rising(r)
  BY <1>2, <1>3, <1>4, <1>5, <1>6 DEF Rising
<1>8. Reach(r, n)
  BY <1>2, <1>3, <1>4, <1>6 DEF Reach
<1> QED
  BY <1>7, <1>8 DEF r

\* A memory is the end of itself, turned.
LEMMA WholeReversed ==
  ASSUME NEW mem \in Series
  PROVE  /\ Reverse(mem) \in Series /\ IsEnd(mem, Reverse(mem)) /\ Len(Reverse(mem)) = Len(mem)
<1> DEFINE M == Len(mem)
           r == Reverse(mem)
<1>1. M \in Nat /\ r \in Series /\ Len(r) = M /\ \A i \in 1 .. M : r[i] = mem[M + 1 - i]
  BY ReverseIs DEF Series
<1> HIDE DEF M, r
<1>2. \A j \in 1 .. M : M + 1 - j \in 1 .. M /\ M + 1 - (M + 1 - j) = j
  BY <1>1
<1>3. \A j \in 1 .. M : mem[j] = r[M + 1 - j]
  BY <1>1, <1>2
<1> QED
  BY <1>1, <1>3 DEF IsEnd, M, r

\* A series goes on in another that begins with it.
GoesOn(all, a) == Len(all) <= Len(a) /\ \A i \in 1 .. Len(all) : a[i] = all[i]

\* A copy ends where it did.
LEMMA EndsOn ==
  ASSUME NEW all \in Series, NEW a \in Series, GoesOn(all, a), NEW have, NEW p,
         EndsAt(p, have, all)
  PROVE  EndsAt(p, have, a)
<1>1. Len(all) \in Nat /\ Len(a) \in Nat
  BY DEF Series
<1> QED
  BY <1>1 DEF EndsAt, GoesOn

\* What followed a copy follows it still.
LEMMA FollowsOn ==
  ASSUME NEW all \in Series, NEW a \in Series, GoesOn(all, a), NEW have, NEW given,
         NEW held \in Int, NEW h \in Int, held <= h, Follows(given, have, all, held)
  PROVE  Follows(given, have, a, h)
<1> SUFFICES ASSUME given # <<>> PROVE Follows(given, have, a, h)
  BY DEF Follows
<1>1. PICK p \in 0 .. Len(all), from \in 1 .. Len(all), to \in 1 .. Len(all) :
         /\ EndsAt(p, have, all)
         /\ p < from /\ from <= to
         /\ \A n \in p + 1 .. from - 1 : n < held
         /\ given = SubSeq(all, from, to)
  BY DEF Follows
<1>2. Len(all) \in Nat /\ Len(a) \in Nat /\ Len(all) <= Len(a)
  BY DEF Series, GoesOn
<1>3. EndsAt(p, have, a)
  BY <1>1, EndsOn
<1>4. \A n \in p + 1 .. from - 1 : n < h
  BY <1>1
<1>5. SubSeq(all, from, to) = SubSeq(a, from, to)
  <2>1. SubSeq(all, from, to) = [i \in 1 .. to - from + 1 |-> all[from + i - 1]]
    BY <1>1, <1>2 DEF Series
  <2>2. SubSeq(a, from, to) = [i \in 1 .. to - from + 1 |-> a[from + i - 1]]
    BY <1>1, <1>2 DEF Series
  <2>3. \A i \in 1 .. to - from + 1 : from + i - 1 \in 1 .. Len(all)
    BY <1>1, <1>2
  <2>4. \A i \in 1 .. to - from + 1 : all[from + i - 1] = a[from + i - 1]
    BY <2>3 DEF GoesOn
  <2> QED
    BY <2>1, <2>2, <2>4
<1>6. p \in 0 .. Len(a) /\ from \in 1 .. Len(a) /\ to \in 1 .. Len(a)
  BY <1>2
<1> QED
  BY <1>1, <1>3, <1>4, <1>5, <1>6 DEF Follows

\* A copy that takes what follows it ends in the series, too.
LEMMA EndsLater ==
  ASSUME NEW all \in Series, NEW have \in Series, NEW given \in Series, NEW held,
         Follows(given, have, all, held), NEW q \in Nat, EndsAt(q, have, all)
  PROVE  \E p \in Nat : EndsAt(p, have \o given, all)
<1>1. CASE given = <<>>
  <2>1. have \o given = have
    BY <1>1 DEF Series
  <2> QED
    BY <2>1
<1>2. CASE given # <<>>
  <2>1. PICK from \in 1 .. Len(all), to \in 1 .. Len(all) :
           from <= to /\ given = SubSeq(all, from, to)
    BY <1>2 DEF Follows
  <2> DEFINE K == Len(given)
             H == Len(have)
             both == have \o given
  <2>2. Len(all) \in Nat /\ H \in Nat /\ from \in Nat /\ to \in Nat
    BY DEF Series
  <2>3. K = to - from + 1 /\ K \in Nat /\ K # 0 /\ given[K] = all[to]
    BY <2>1, <2>2 DEF Series
  <2>4. both \in Seq(Sampling) /\ Len(both) = H + K /\ both[H + K] = given[K]
    <3>1. have \in Seq(Sampling) /\ given \in Seq(Sampling) /\ K \in 1 .. Len(given)
      BY <2>3 DEF Series
    <3> QED
      BY <3>1, JoinIs
  <2>5. both # <<>> /\ Last(both) = all[to]
    <3>1. Len(both) # 0
      BY <2>2, <2>3, <2>4
    <3> QED
      BY <2>3, <2>4, <3>1, EmptySeq DEF Last
  <2> QED
    BY <2>2, <2>5 DEF EndsAt
<1> QED
  BY <1>1, <1>2

-----------------------------------------------------------------------------
\* A later bound is a bound.
LEMMA ReachOn ==
  ASSUME NEW all \in Series, NEW m \in Nat, NEW n \in Nat, m <= n, Reach(all, m)
  PROVE  Reach(all, n)
<1>1. ASSUME NEW i \in 1 .. Len(all) PROVE all[i].id <= n
  <2>1. all[i] \in Sampling
    BY DEF Series
  <2>2. all[i].id \in Nat /\ all[i].id <= m
    BY <2>1 DEF Reach, Sampling
  <2> QED
    BY <2>2
<1> QED
  BY <1>1 DEF Reach

\* What grows goes on, and what is held begins no earlier.
LEMMA GrowsSo ==
  ASSUME NEW all \in Series, NEW mem \in Series, NEW m, NEW a, NEW n, Grows(mem, all, m, a, n)
  PROVE  /\ Len(all) \in Nat /\ Len(mem) \in Nat /\ Len(m) \in Nat /\ Len(a) \in Nat
         /\ Len(all) + 1 - Len(mem) <= Len(a) + 1 - Len(m)
         /\ Len(a) \in Len(all) .. Len(all) + 1
         /\ GoesOn(all, a)
<1>1. m \in Series /\ a \in Series
  BY DEF Grows
<1>2. Len(all) \in Nat /\ Len(mem) \in Nat /\ Len(m) \in Nat /\ Len(a) \in Nat
  BY <1>1 DEF Series
<1> DEFINE N == Len(all)
           A == Len(a)
<1>3. A \in N .. N + 1 /\ A + 1 - Len(m) >= N + 1 - Len(mem) /\ \A i \in 1 .. N : a[i] = all[i]
  BY DEF Grows
<1>4. N <= A /\ N + 1 - Len(mem) <= A + 1 - Len(m)
  <2> HIDE DEF N, A
  <2> QED
    BY <1>2, <1>3 DEF N, A
<1> QED
  BY <1>2, <1>3, <1>4 DEF GoesOn

\* What is held of a series later in the session, as it may be left behind.
LEMMA HeldLater ==
  ASSUME PollingInv, NEW listed \in Listings, Second(listed), NEW d \in Device, NEW l \in Levels
  PROVE  Held(d, l) \in Int /\ Held(d, l)' \in Int /\ Held(d, l) <= Held(d, l)'
<1>1. up /\ up'
  BY DEF Second
<1>2. /\ Grows(MemOf(items, d)[l], log[d][l], MemOf(items', d)[l], log'[d][l], ids'[l])
      /\ d \notin KeysOf(items') => Len(log'[d][l]) = Len(MemOf(items', d)[l])
  BY SecondGrows DEF GrowsAll
<1>3. /\ items \in Seq(Things) /\ OneEach(items) /\ stored \in [Device -> Series]
      /\ log[d][l] \in Series
  BY DEF PollingInv, PollingTypes, OneItemEach
<1>4. MemOf(items, d)[l] \in Series
  BY <1>3, MemOfIs
<1>5. /\ Len(log[d][l]) \in Nat /\ Len(MemOf(items, d)[l]) \in Nat
      /\ Len(log'[d][l]) \in Nat /\ Len(MemOf(items', d)[l]) \in Nat
  BY <1>2, <1>3, <1>4 DEF Grows, Series
<1>6. Held(d, l) = Len(log[d][l]) + 1 - Len(MemOf(items, d)[l])
  BY <1>1, HeldIs
<1>7. Held(d, l)' = Len(log'[d][l]) + 1 - Len(MemOf(items', d)[l])
  <2>1. CASE d \in KeysOf(items')
    BY <2>1 DEF Held, MemOf, KeysOf, Devices
  <2>2. CASE d \notin KeysOf(items')
    BY <1>1, <1>2, <1>5, <2>2 DEF Held, KeysOf, Devices
  <2> QED
    BY <2>1, <2>2
<1>8. Len(log[d][l]) + 1 - Len(MemOf(items, d)[l]) <= Len(log'[d][l]) + 1 - Len(MemOf(items', d)[l])
  BY <1>2, <1>3, <1>4, GrowsSo
<1>9. /\ Len(log[d][l]) + 1 - Len(MemOf(items, d)[l]) \in Int
      /\ Len(log'[d][l]) + 1 - Len(MemOf(items', d)[l]) \in Int
  BY <1>5
<1> QED
  BY <1>6, <1>7, <1>8, <1>9, Zenon

\* A second keeps the invariant.
LEMMA SecondKeeps ==
  ASSUME PollingInv, NEW listed \in Listings, Second(listed)
  PROVE  PollingInv'
<1>1. /\ PollingTypes /\ InSession /\ StoredRises /\ OneItemEach /\ MemoryIsEnd /\ CopyEnds
      /\ ReplyFollows
  BY DEF PollingInv
<1>2. /\ up /\ up' = TRUE /\ now' = now + 1 /\ kind' = kind /\ session' = session
      /\ stored' = stored /\ connected' = connected /\ seen' = seen /\ copy' = copy
      /\ reply' = reply
  BY <1>1 DEF Second, clientVars, PollingTypes
<1>3. /\ items' \in Seq(Things) /\ OneEach(items') /\ Devices \subseteq KeysOf(items')
      /\ kind \in Single => KeysOf(items') \subseteq {TheOnly}
      /\ ids' \in [Levels -> Nat] /\ ids'[2] = (now + 1) \div 2
      /\ log' \in [Device -> [Levels -> Series]]
  BY SecondGrows
<1>4. /\ now \in Nat /\ stored \in [Device -> Series] /\ log \in [Device -> [Levels -> Series]]
      /\ copy \in [Device -> [Levels -> Series]]
  BY <1>1 DEF PollingTypes
<1>5. \A d \in Device, l \in Levels :
         /\ Grows(MemOf(items, d)[l], log[d][l], MemOf(items', d)[l], log'[d][l], ids'[l])
         /\ d \notin KeysOf(items') => Len(log'[d][l]) = Len(MemOf(items', d)[l])
  BY SecondGrows DEF GrowsAll
<1>6. \A d \in Device : MemOf(items, d)' = MemOf(items', d)
  BY <1>2 DEF MemOf, Item
<1>7. \A d \in Device, l \in Levels : GoesOn(log[d][l], log'[d][l])
  <2> TAKE d \in Device, l \in Levels
  <2>1. log[d][l] \in Series /\ MemOf(items, d)[l] \in Series
    BY <1>1, <1>4, MemOfIs DEF PollingTypes, OneItemEach
  <2> QED
    BY <1>5, <2>1, GrowsSo
<1>8. PollingTypes'
  <2>1. session <= now + 1
    BY <1>1 DEF PollingTypes
  <2> QED
    BY <1>1, <1>2, <1>3, <2>1 DEF PollingTypes
<1>9. InSession'
  BY <1>1, <1>2, <1>3 DEF InSession
<1>10. StoredRises'
  <2> SUFFICES ASSUME NEW d \in Device
               PROVE  Rising(Reverse(stored[d])) /\ Reach(Reverse(stored[d]), (now + 1) \div 2)
    BY <1>2 DEF StoredRises
  <2>1. Reverse(stored[d]) \in Series
    BY <1>4, ReverseIs
  <2>2. now \div 2 \in Nat /\ (now + 1) \div 2 \in Nat /\ now \div 2 <= (now + 1) \div 2
    BY <1>4
  <2> QED
    BY <1>1, <2>1, <2>2, ReachOn DEF StoredRises
<1>11. OneItemEach'
  <2>1. Devices' = KeysOf(items')
    BY DEF Devices, KeysOf
  <2>2. kind' \in Single => Devices' \subseteq {TheOnly}
    BY <1>2, <1>3, <2>1
  <2> QED
    BY <1>2, <1>3, <2>2 DEF OneItemEach
<1>12. MemoryIsEnd'
  <2> SUFFICES ASSUME NEW d \in Device, NEW l \in Levels
               PROVE  /\ Rising(log'[d][l])
                      /\ Reach(log'[d][l], ids'[l])
                      /\ IsEnd(MemOf(items', d)[l], log'[d][l])
                      /\ d \notin Devices' => Len(log'[d][l]) = Len(MemOf(items', d)[l])
    BY <1>6 DEF MemoryIsEnd
  <2>1. Devices' = KeysOf(items')
    BY DEF Devices, KeysOf
  <2> QED
    BY <1>5, <2>1 DEF Grows
<1>13. CopyEnds'
  <2> SUFFICES ASSUME seen = session, NEW d \in Device, NEW l \in Levels
               PROVE  \E p \in Nat : EndsAt(p, copy[d][l], log'[d][l])
    BY <1>2 DEF CopyEnds
  <2>1. PICK p \in Nat : EndsAt(p, copy[d][l], log[d][l])
    BY <1>1 DEF CopyEnds
  <2>2. log[d][l] \in Series /\ log'[d][l] \in Series
    BY <1>3, <1>4
  <2> QED
    BY <1>7, <2>1, <2>2, EndsOn
<1>14. ReplyFollows'
  <2> SUFFICES ASSUME NEW d \in Device, NEW l \in Levels
               PROVE  /\ Given(d, l) \in Series
                      /\ seen = session =>
                            Follows(Given(d, l), copy[d][l], log'[d][l], Held(d, l)')
    BY <1>2 DEF ReplyFollows, Given
  <2>1. log[d][l] \in Series /\ log'[d][l] \in Series
    BY <1>3, <1>4
  <2>2. Held(d, l) \in Int /\ Held(d, l)' \in Int /\ Held(d, l) <= Held(d, l)'
    BY HeldLater
  <2> QED
    BY <1>1, <1>7, <2>1, <2>2, FollowsOn DEF ReplyFollows
<1> QED
  BY <1>8, <1>9, <1>10, <1>11, <1>12, <1>13, <1>14 DEF PollingInv

\* The end of the server keeps the invariant.
LEMMA StopKeeps ==
  ASSUME PollingInv, NEW saves \in BOOLEAN, Stop(saves)
  PROVE  PollingInv'
<1>1. /\ PollingTypes /\ InSession /\ StoredRises /\ OneItemEach /\ MemoryIsEnd /\ CopyEnds
      /\ ReplyFollows
  BY DEF PollingInv
<1>2. /\ up /\ up' = FALSE /\ items' = <<>> /\ connected' = FALSE
      /\ now' = now /\ kind' = kind /\ session' = session /\ ids' = ids /\ log' = log
      /\ seen' = seen /\ copy' = copy /\ reply' = reply
      /\ stored' = [d \in Device |-> IF saves /\ d \in Devices
                                     THEN ItemOf(items, d).mem[2] ELSE stored[d]]
  BY DEF Stop
<1>3. /\ now \in Nat /\ items \in Seq(Things) /\ OneEach(items) /\ ids \in [Levels -> Nat]
      /\ stored \in [Device -> Series] /\ log \in [Device -> [Levels -> Series]]
      /\ ids[2] = now \div 2 /\ 2 \in Levels
  BY <1>1, <1>2 DEF PollingTypes, InSession, OneItemEach, Levels
<1>4. ASSUME NEW d \in Device
      PROVE  /\ stored'[d] \in Series
             /\ Rising(Reverse(stored'[d])) /\ Reach(Reverse(stored'[d]), now \div 2)
  <2>1. CASE saves /\ d \in Devices
    <3>1. stored'[d] = MemOf(items, d)[2]
      BY <1>2, <2>1 DEF MemOf, KeysOf, Devices
    <3>2. MemOf(items, d)[2] \in Series /\ log[d][2] \in Series
      BY <1>3, MemOfIs
    <3>3. /\ Rising(log[d][2]) /\ Reach(log[d][2], now \div 2)
          /\ IsEnd(MemOf(items, d)[2], log[d][2])
      BY <1>1, <1>2, <1>3 DEF MemoryIsEnd
    <3>4. now \div 2 \in Nat
      BY <1>3
    <3> QED
      BY <3>1, <3>2, <3>3, <3>4, EndReversed
  <2>2. CASE ~(saves /\ d \in Devices)
    BY <1>1, <1>2, <1>3, <2>2 DEF StoredRises
  <2> QED
    BY <2>1, <2>2
<1>5. stored' \in [Device -> Series]
  BY <1>2, <1>4
<1>6. PollingTypes'
  <2>1. items' \in Seq(Things)
    BY <1>2
  <2> QED
    BY <1>1, <1>2, <1>5, <2>1 DEF PollingTypes
<1>7. InSession' /\ CopyEnds' /\ MemoryIsEnd'
  BY <1>1, <1>2 DEF InSession, CopyEnds, MemoryIsEnd
<1>8. StoredRises'
  BY <1>2, <1>4 DEF StoredRises
<1>9. OneItemEach'
  BY <1>2, EmptySeq DEF OneItemEach, OneEach, Devices
<1>10. ReplyFollows'
  <2> SUFFICES ASSUME NEW d \in Device, NEW l \in Levels
               PROVE  /\ Given(d, l) \in Series
                      /\ seen = session =>
                            Follows(Given(d, l), copy[d][l], log[d][l], Held(d, l)')
    BY <1>2 DEF ReplyFollows, Given
  <2>1. log[d][l] \in Series /\ Len(log[d][l]) \in Nat /\ MemOf(items, d)[l] \in Series
    BY <1>3, MemOfIs DEF Series
  <2>2. Len(MemOf(items, d)[l]) \in Nat
    BY <2>1 DEF Series
  <2>3. Held(d, l) = Len(log[d][l]) + 1 - Len(MemOf(items, d)[l])
    BY <1>2, HeldIs
  <2>4. Held(d, l)' = Len(log[d][l]) + 1
    BY <1>2, EmptySeq DEF Held, Devices
  <2>5. /\ Len(log[d][l]) + 1 - Len(MemOf(items, d)[l]) <= Len(log[d][l]) + 1
        /\ Len(log[d][l]) + 1 - Len(MemOf(items, d)[l]) \in Int /\ Len(log[d][l]) + 1 \in Int
    <3> DEFINE N == Len(log[d][l])
               M == Len(MemOf(items, d)[l])
    <3>1. N \in Nat /\ M \in Nat
      BY <2>1, <2>2
    <3> HIDE DEF N, M
    <3>2. N + 1 - M <= N + 1 /\ N + 1 - M \in Int /\ N + 1 \in Int
      BY <3>1
    <3> QED
      BY <3>2 DEF N, M
  <2>6. Held(d, l) \in Int /\ Held(d, l)' \in Int /\ Held(d, l) <= Held(d, l)'
    BY <2>3, <2>4, <2>5, Zenon
  <2>7. GoesOn(log[d][l], log[d][l])
    BY <2>1 DEF GoesOn
  <2> QED
    BY <1>1, <2>1, <2>6, <2>7, FollowsOn DEF ReplyFollows
<1> QED
  BY <1>6, <1>7, <1>8, <1>9, <1>10 DEF PollingInv

\* So does its start: no client has been told of the new session yet.
LEMMA StartKeeps ==
  ASSUME PollingInv, Start
  PROVE  PollingInv' /\ session' # session /\ seen # session'
<1>1. PollingTypes /\ InSession /\ StoredRises /\ OneItemEach /\ ReplyFollows
  BY DEF PollingInv
<1>2. /\ ~up /\ up' = TRUE /\ session' = now /\ ids' = <<1, now \div 2>> /\ session < now
      /\ log' = [d \in Device |-> <<<<>>, Reverse(stored[d])>>]
      /\ now' = now /\ kind' = kind /\ items' = items /\ stored' = stored
      /\ connected' = connected /\ seen' = seen /\ copy' = copy /\ reply' = reply
  BY <1>1 DEF Start, clientVars, PollingTypes
<1>3. /\ now \in Nat /\ items = <<>> /\ stored \in [Device -> Series] /\ session \in Nat
      /\ seen \in Int /\ seen <= session /\ ~connected /\ Levels = {1, 2}
  BY <1>1, <1>2 DEF PollingTypes, OneItemEach, InSession, Levels
<1>4. session' # session /\ seen # session' /\ session' <= now
  BY <1>2, <1>3
<1>5. ids' \in [Levels -> Nat] /\ ids'[1] = 1 /\ ids'[2] = now \div 2
  <2>1. now \div 2 \in Nat
    BY <1>3
  <2>2. <<1, now \div 2>> \in [1 .. 2 -> Nat]
    BY <2>1
  <2> QED
    BY <1>2, <2>2 DEF Levels
<1>6. ASSUME NEW d \in Device
      PROVE  /\ log'[d] \in [Levels -> Series]
             /\ log'[d][1] = <<>> /\ log'[d][2] = Reverse(stored[d])
  <2>1. Reverse(stored[d]) \in Series /\ <<>> \in Series
    BY <1>3, ReverseIs DEF Series
  <2>2. <<<<>>, Reverse(stored[d])>> \in [1 .. 2 -> Series]
    BY <2>1
  <2>3. log'[d] = <<<<>>, Reverse(stored[d])>>
    BY <1>2
  <2> QED
    BY <2>2, <2>3 DEF Levels
<1>7. PollingTypes'
  <2>1. log' \in [Device -> [Levels -> Series]]
    BY <1>2, <1>6
  <2>2. seen <= now
    BY <1>2, <1>3
  <2> QED
    BY <1>1, <1>2, <1>4, <1>5, <2>1, <2>2 DEF PollingTypes
<1>8. InSession' /\ CopyEnds'
  BY <1>1, <1>2, <1>3, <1>4, <1>5 DEF InSession, CopyEnds
<1>9. StoredRises'
  BY <1>1, <1>2 DEF StoredRises
<1>10. OneItemEach'
  BY <1>1, <1>2 DEF OneItemEach, Devices
<1>11. MemoryIsEnd'
  <2> SUFFICES ASSUME NEW d \in Device, NEW l \in Levels
               PROVE  /\ Rising(log'[d][l]) /\ Reach(log'[d][l], ids'[l])
                      /\ IsEnd(Item(d).mem[l], log'[d][l])
                      /\ Len(log'[d][l]) = Len(Item(d).mem[l])
    <3>1. \A d \in Device : MemOf(items, d)' = Item(d).mem
      BY <1>2, <1>3, EmptySeq DEF MemOf, KeysOf, Item
    <3> QED
      BY <3>1 DEF MemoryIsEnd
  <2>1. Item(d).mem[1] = <<>> /\ Item(d).mem[2] = stored[d]
    BY <1>3, ItemIs
  <2>2. CASE l = 1
    <3>1. log'[d][l] = <<>> /\ Item(d).mem[l] = <<>> /\ Len(<<>>) = 0
      BY <1>6, <2>1, <2>2, EmptySeq
    <3> QED
      BY <3>1 DEF Rising, Reach, IsEnd
  <2>3. CASE l = 2
    <3>1. log'[d][l] = Reverse(stored[d]) /\ Item(d).mem[l] = stored[d] /\ stored[d] \in Series
      BY <1>3, <1>6, <2>1, <2>3
    <3> QED
      BY <1>1, <1>5, <2>3, <3>1, WholeReversed DEF StoredRises
  <2> QED
    BY <1>3, <2>2, <2>3
<1>12. ReplyFollows'
  <2> SUFFICES ASSUME NEW d \in Device, NEW l \in Levels PROVE Given(d, l) \in Series
    BY <1>2, <1>4 DEF ReplyFollows, Given
  <2> QED
    BY <1>1 DEF ReplyFollows
<1> QED
  BY <1>4, <1>7, <1>8, <1>9, <1>10, <1>11, <1>12 DEF PollingInv

\* And the time that passes without it.
LEMMA WaitKeeps ==
  ASSUME PollingInv, Wait
  PROVE  PollingInv'
<1>1. /\ PollingTypes /\ InSession /\ StoredRises /\ OneItemEach /\ MemoryIsEnd /\ CopyEnds
      /\ ReplyFollows
  BY DEF PollingInv
<1>2. /\ ~up /\ up' = up /\ now' = now + 1 /\ kind' = kind /\ session' = session /\ ids' = ids
      /\ items' = items /\ stored' = stored /\ log' = log
      /\ connected' = connected /\ seen' = seen /\ copy' = copy /\ reply' = reply
  BY DEF Wait, serverVars, clientVars
<1>3. now \in Nat /\ stored \in [Device -> Series]
  BY <1>1 DEF PollingTypes
<1>4. PollingTypes'
  BY <1>1, <1>2 DEF PollingTypes
<1>5. InSession' /\ OneItemEach' /\ CopyEnds' /\ MemoryIsEnd'
  BY <1>1, <1>2 DEF InSession, OneItemEach, CopyEnds, MemoryIsEnd, Devices
<1>6. StoredRises'
  <2> SUFFICES ASSUME NEW d \in Device
               PROVE  Rising(Reverse(stored[d])) /\ Reach(Reverse(stored[d]), (now + 1) \div 2)
    BY <1>2 DEF StoredRises
  <2>1. Reverse(stored[d]) \in Series
    BY <1>3, ReverseIs
  <2>2. now \div 2 \in Nat /\ (now + 1) \div 2 \in Nat /\ now \div 2 <= (now + 1) \div 2
    BY <1>3
  <2> QED
    BY <1>1, <2>1, <2>2, ReachOn DEF StoredRises
<1>7. ReplyFollows'
  BY <1>1, <1>2 DEF ReplyFollows, Given, Held, Devices
<1> QED
  BY <1>4, <1>5, <1>6, <1>7 DEF PollingInv

-----------------------------------------------------------------------------
\* What the client does leaves the server's part of the invariant alone.
LEMMA ServerKept ==
  ASSUME PollingInv, UNCHANGED <<now, kind, serverVars>>,
         connected' \in BOOLEAN, seen' \in Int, seen' <= session,
         copy' \in [Device -> [Levels -> Series]], connected' => up /\ seen' = session
  PROVE  /\ PollingTypes' /\ InSession' /\ StoredRises' /\ OneItemEach' /\ MemoryIsEnd'
         /\ \A d \in Device, l \in Levels : Held(d, l)' = Held(d, l)
<1>1. PollingTypes /\ InSession /\ StoredRises /\ OneItemEach /\ MemoryIsEnd
  BY DEF PollingInv
<1>2. /\ up' = up /\ now' = now /\ kind' = kind /\ session' = session /\ ids' = ids
      /\ items' = items /\ stored' = stored /\ log' = log
  BY DEF serverVars
<1>3. PollingTypes' /\ InSession'
  BY <1>1, <1>2 DEF PollingTypes, InSession
<1>4. StoredRises' /\ OneItemEach' /\ MemoryIsEnd'
  BY <1>1, <1>2 DEF StoredRises, OneItemEach, MemoryIsEnd, Devices, MemOf, Item
<1>5. \A d \in Device, l \in Levels : Held(d, l)' = Held(d, l)
  BY <1>2 DEF Held, Devices
<1> QED
  BY <1>3, <1>4, <1>5

\* Nothing is given without a reply.
LEMMA NothingGiven ==
  ASSUME NEW d, NEW l
  PROVE  Answered(NoReply.items, d, l) = <<>>
<1> DEFINE none == <<>>
           S == {i \in ToSet(none) : i.key = d /\ i.level = l}
           its == Only(none, S)
<1>1. NoReply.items = none
  BY DEF NoReply
<1>2. its = <<>>
  BY OnlyEmpty
<1>3. DOMAIN its = {}
  BY <1>2
<1>4. Answered(none, d, l) = FlattenSeq([n \in DOMAIN its |-> its[n].samples])
  BY DEF Answered, Those
<1> HIDE DEF its, none
<1>5. [n \in DOMAIN its |-> its[n].samples] = <<>>
  BY <1>3
<1> QED
  BY <1>1, <1>4, <1>5, FlattenNone

\* A reply that is given up leaves nothing to follow.
LEMMA NoReplyFollows ==
  ASSUME reply' = NoReply
  PROVE  ReplyFollows'
<1> SUFFICES ASSUME NEW d \in Device, NEW l \in Levels
             PROVE  /\ Answered(reply'.items, d, l) \in Series
                    /\ Follows(Answered(reply'.items, d, l), copy'[d][l], log'[d][l], Held(d, l)')
  BY DEF ReplyFollows, Given
<1>1. Answered(reply'.items, d, l) = <<>>
  BY NothingGiven
<1> QED
  BY <1>1 DEF Follows, Series

\* A greeting keeps the copy of its session.
LEMMA GreetKeeps ==
  ASSUME PollingInv, Greet
  PROVE  PollingInv' /\ UNCHANGED serverVars
<1>1. PollingTypes /\ CopyEnds
  BY DEF PollingInv
<1>2. /\ up /\ connected' = TRUE /\ seen' = session /\ reply' = NoReply
      /\ copy' = IF seen = session THEN copy ELSE Nothing
      /\ UNCHANGED <<now, kind, serverVars>> /\ session' = session /\ log' = log
  BY DEF Greet, serverVars
<1>3. Nothing \in [Device -> [Levels -> Series]]
  BY DEF Nothing, Series
<1>4. /\ copy' \in [Device -> [Levels -> Series]] /\ seen' \in Int /\ seen' <= session
      /\ log \in [Device -> [Levels -> Series]]
  BY <1>1, <1>2, <1>3 DEF PollingTypes
<1>5. PollingTypes' /\ InSession' /\ StoredRises' /\ OneItemEach' /\ MemoryIsEnd'
  BY <1>2, <1>4, ServerKept
<1>6. CopyEnds'
  <2> SUFFICES ASSUME NEW d \in Device, NEW l \in Levels
               PROVE  \E p \in Nat : EndsAt(p, copy'[d][l], log[d][l])
    BY <1>2 DEF CopyEnds
  <2>1. CASE seen = session
    BY <1>1, <1>2, <2>1 DEF CopyEnds
  <2>2. CASE seen # session
    <3>1. copy'[d][l] = <<>> /\ Len(log[d][l]) \in Nat
      BY <1>2, <1>4, <2>2 DEF Nothing, Series
    <3> QED
      BY <3>1 DEF EndsAt
  <2> QED
    BY <2>1, <2>2
<1>7. ReplyFollows'
  BY <1>2, NoReplyFollows
<1> QED
  BY <1>2, <1>5, <1>6, <1>7 DEF PollingInv

\* An answer that arrives becomes part of the copy.
LEMMA DeliverKeeps ==
  ASSUME PollingInv, Deliver
  PROVE  PollingInv'
<1>1. PollingTypes /\ InSession /\ CopyEnds /\ ReplyFollows
  BY DEF PollingInv
<1>2. /\ connected' = connected /\ seen' = seen /\ reply' = NoReply
      /\ copy' = [d \in Device |-> [l \in Levels |-> copy[d][l] \o Given(d, l)]]
      /\ UNCHANGED <<now, kind, serverVars>> /\ session' = session /\ log' = log
  BY DEF Deliver, serverVars, Given
<1>3. /\ \A d \in Device, l \in Levels : copy[d][l] \in Series /\ log[d][l] \in Series
      /\ seen \in Int /\ seen <= session /\ connected \in BOOLEAN
  BY <1>1 DEF PollingTypes
<1>4. copy' \in [Device -> [Levels -> Series]]
  <2>1. ASSUME NEW d \in Device, NEW l \in Levels PROVE copy[d][l] \o Given(d, l) \in Series
    <3>1. copy[d][l] \in Seq(Sampling) /\ Given(d, l) \in Seq(Sampling)
      BY <1>1, <1>3 DEF ReplyFollows, Series
    <3> QED
      BY <3>1, JoinIs DEF Series
  <2> QED
    BY <1>2, <2>1
<1>5. PollingTypes' /\ InSession' /\ StoredRises' /\ OneItemEach' /\ MemoryIsEnd'
  BY <1>1, <1>2, <1>3, <1>4, ServerKept DEF InSession
<1>6. CopyEnds'
  <2> SUFFICES ASSUME seen = session, NEW d \in Device, NEW l \in Levels
               PROVE  \E p \in Nat : EndsAt(p, copy[d][l] \o Given(d, l), log[d][l])
    BY <1>2 DEF CopyEnds
  <2>1. PICK q \in Nat : EndsAt(q, copy[d][l], log[d][l])
    BY <1>1 DEF CopyEnds
  <2>2. Given(d, l) \in Series /\ Follows(Given(d, l), copy[d][l], log[d][l], Held(d, l))
    BY <1>1 DEF ReplyFollows
  <2> QED
    BY <1>3, <2>1, <2>2, EndsLater
<1>7. ReplyFollows'
  BY <1>2, NoReplyFollows
<1> QED
  BY <1>5, <1>6, <1>7 DEF PollingInv

\* A connection that ends takes the reply with it.
LEMMA DisconnectKeeps ==
  ASSUME PollingInv, Disconnect
  PROVE  PollingInv'
<1>1. PollingTypes /\ CopyEnds
  BY DEF PollingInv
<1>2. /\ connected' = FALSE /\ seen' = seen /\ reply' = NoReply /\ copy' = copy
      /\ UNCHANGED <<now, kind, serverVars>> /\ session' = session /\ log' = log
  BY DEF Disconnect, serverVars
<1>3. /\ copy' \in [Device -> [Levels -> Series]] /\ seen' \in Int /\ seen' <= session
  BY <1>1, <1>2 DEF PollingTypes
<1>4. PollingTypes' /\ InSession' /\ StoredRises' /\ OneItemEach' /\ MemoryIsEnd'
  BY <1>2, <1>3, ServerKept
<1>5. CopyEnds'
  BY <1>1, <1>2 DEF CopyEnds
<1>6. ReplyFollows'
  BY <1>2, NoReplyFollows
<1> QED
  BY <1>4, <1>5, <1>6 DEF PollingInv

-----------------------------------------------------------------------------
\* An element of a reply, a reply as far as it is put together, and a child of
\* a request.
Answers == [level : Levels, key : Device, samples : Series]

Replied == [items : Seq(Answers), added : SUBSET (Levels \X Device)]

Asked == [keys : SUBSET Device, after : [Levels -> Nat]]

\* What is newer is a series.
LEMMA NewerTyped ==
  ASSUME NEW mem \in Series, NEW after
  PROVE  NewerThan(mem, after) \in Series
<1> DEFINE M == Len(mem)
           I == {i \in 1 .. M : mem[i].id <= after}
           stop == SelectInSeq(mem, LAMBDA s : s.id <= after)
           last == IF stop = 0 THEN M ELSE stop - 1
<1>1. M \in Nat /\ mem \in Seq(Sampling)
  BY DEF Series
<1>2. stop = IF I # {} THEN Min(I) ELSE 0
  BY DEF SelectInSeq
<1>3. I \in SUBSET (1 .. M)
  OBVIOUS
<1>4. NewerThan(mem, after) = Reverse(SubSeq(mem, 1, last))
  BY DEF NewerThan
<1> HIDE DEF I, stop, M
<1>5. stop \in 0 .. M
  <2>1. CASE I = {}
    BY <1>1, <1>2, <2>1
  <2>2. CASE I # {}
    <3>1. PICK n \in I : Min(I) = n
      BY <1>1, <1>3, <2>2, LeastOfPlaces
    <3> QED
      BY <1>2, <1>3, <2>2, <3>1
  <2> QED
    BY <2>1, <2>2
<1>6. last \in 0 .. M
  BY <1>1, <1>5
<1> HIDE DEF last
<1>7. SubSeq(mem, 1, last) \in Series
  BY <1>1, <1>6 DEF Series, M
<1> QED
  BY <1>4, <1>7, ReverseIs

\* An item at one level.
LEMMA AnswerIs ==
  ASSUME NEW item \in Things, NEW level \in Levels, NEW after
  PROVE  LET a == Answer(item, level, after)
         IN  /\ a \in Answers /\ a.level = level /\ a.key = item.key
             /\ a.samples = NewerThan(item.mem[level], after)
<1>1. item.key \in Device /\ item.mem[level] \in Series
  BY DEF Things
<1>2. NewerThan(item.mem[level], after) \in Series
  BY <1>1, NewerTyped
<1> QED
  BY <1>1, <1>2 DEF Answer, Answers

\* A reply takes an item.
LEMMA AddItemIs ==
  ASSUME NEW to \in Replied, NEW level \in Levels, NEW item \in Things, NEW child
  PROVE  AddItem(to, level, item, child) \in Replied
<1>1. Answer(item, level, child.after[level]) \in Answers
  BY AnswerIs
<1>2. to.items \in Seq(Answers) /\ to.added \in SUBSET (Levels \X Device)
  BY DEF Replied
<1>3. Append(to.items, Answer(item, level, child.after[level])) \in Seq(Answers)
  BY <1>1, <1>2, AppendProperties
<1>4. to.added \cup {KeyForIndex(item.key, level)} \in SUBSET (Levels \X Device)
  BY <1>2 DEF KeyForIndex, Things
<1> QED
  BY <1>3, <1>4 DEF AddItem, Replied

\* What a reply is after each of the items.
AddsInTurn(f, to, level, its, child) ==
    /\ f \in [0 .. Len(its) -> Replied] /\ f[0] = to
    /\ \A n \in 1 .. Len(its) : f[n] = AddItem(f[n - 1], level, its[n], child)
    /\ AddItems(to, level, its, child) = f[Len(its)]

\* The items are added one after the other.
LEMMA AddItemsInTurn ==
  ASSUME NEW to \in Replied, NEW level \in Levels, NEW its \in Seq(Things), NEW child
  PROVE  \E f : AddsInTurn(f, to, level, its, child)
<1> DEFINE N == Len(its)
           F == [x \in Nat \X Replied |-> IF x[1] \in 1 .. N THEN AddItem(x[2], level, its[x[1]], child) ELSE x[2]]
           All(f) == f = [n \in 0 .. N |-> IF n = 0 THEN to ELSE AddItem(f[n - 1], level, its[n], child)]
           after == CHOOSE f : All(f)
<1>1. N \in Nat
  OBVIOUS
<1>2. ASSUME NEW q \in Replied, NEW n \in 1 .. N PROVE AddItem(q, level, its[n], child) \in Replied
  BY AddItemIs
<1>3. F \in [Nat \X Replied -> Replied]
  <2>1. ASSUME NEW x \in Nat \X Replied
        PROVE  (IF x[1] \in 1 .. N THEN AddItem(x[2], level, its[x[1]], child) ELSE x[2]) \in Replied
    BY <1>2
  <2> QED
    BY <2>1
<1>4. \A n \in Nat, q \in Replied : n \in 1 .. N => F[<<n, q>>] = AddItem(q, level, its[n], child)
  OBVIOUS
<1> HIDE DEF F
<1>5. PICK g : Goes(g, Replied, to, F, N)
  BY <1>1, <1>3, Recursion
<1>6. /\ g \in [0 .. N -> Replied] /\ g[0] = to
      /\ \A n \in 1 .. N : g[n] = AddItem(g[n - 1], level, its[n], child)
  <2>1. \A n \in 1 .. N : n \in Nat /\ n - 1 \in 0 .. N
    BY <1>1
  <2> QED
    BY <1>4, <1>5, <2>1 DEF Goes
<1>7. All(g)
  <2>1. \A n \in 0 .. N : g[n] = IF n = 0 THEN to ELSE AddItem(g[n - 1], level, its[n], child)
    <3> TAKE n \in 0 .. N
    <3>1. n # 0 => n \in 1 .. N
      BY <1>1
    <3> QED
      BY <1>6, <3>1
  <2> QED
    BY <1>6, <2>1
<1>8. All(after)
  <2>1. \E f : All(f)
    BY <1>7
  <2> HIDE DEF All
  <2> QED
    BY <2>1, Zenon
<1>9. AddItems(to, level, its, child) = after[N]
  BY DEF AddItems
<1> HIDE DEF after
<1>10. /\ after[0] = to
       /\ \A n \in 1 .. N : after[n] = AddItem(after[n - 1], level, its[n], child)
  <2>1. \A n \in 0 .. N : after[n] = IF n = 0 THEN to ELSE AddItem(after[n - 1], level, its[n], child)
    BY <1>8
  <2> HIDE DEF All
  <2>2. 0 \in 0 .. N /\ \A n \in 1 .. N : n \in 0 .. N /\ n # 0
    BY <1>1
  <2>3. after[0] = IF 0 = 0 THEN to ELSE AddItem(after[0 - 1], level, its[0], child)
    BY <2>1, <2>2, Zenon
  <2> QED
    BY <2>1, <2>2, <2>3
<1> HIDE DEF All
<1>11. \A n \in 1 .. N : after[n - 1] \in Replied => after[n] = F[<<n, after[n - 1]>>]
  <2>1. \A n \in 1 .. N : n \in Nat
    BY <1>1
  <2> QED
    BY <1>4, <1>10, <2>1
<1> HIDE DEF N
<1>12. Agrees(after, g, N)
  BY <1>1, <1>5, <1>10, <1>11, RecursionOnce
<1>13. after[N] = g[N]
  BY <1>1, <1>12 DEF Agrees
<1> QED
  BY <1>6, <1>9, <1>13 DEF N, AddsInTurn

\* The items a reply of this kind shows.
ShownOf(its) == Only(its, {i \in ToSet(its) : Shown(kind, i)})

\* They are items.
LEMMA ShownOfIs ==
  ASSUME NEW its \in Seq(Things)
  PROVE  /\ ShownOf(its) \in Seq(Things)
         /\ \A i \in 1 .. Len(ShownOf(its)) :
               \E j \in 1 .. Len(its) : ShownOf(its)[i] = its[j] /\ Shown(kind, its[j])
         /\ \A j \in 1 .. Len(its) : Shown(kind, its[j]) =>
               \E i \in 1 .. Len(ShownOf(its)) : ShownOf(its)[i] = its[j]
<1> DEFINE S == {i \in ToSet(its) : Shown(kind, i)}
           q == ShownOf(its)
<1>1. q = Only(its, S)
  BY DEF ShownOf
<1> HIDE DEF S
<1>2. q \in Seq(Things) /\ Range(q) = Range(its) \cap S
  <2>1. Only(its, S) \in Seq(Things)
    BY OnlyType
  <2>2. Range(Only(its, S)) = Range(its) \cap S
    BY OnlyElements
  <2> QED
    BY <1>1, <2>1, <2>2
<1>3. ToSet(its) = Range(its) /\ Range(its) = {its[j] : j \in 1 .. Len(its)}
  BY DEF ToSet, Range
<1> HIDE DEF q
<1>4. Range(q) = {q[i] : i \in 1 .. Len(q)}
  BY <1>2 DEF Range
<1> QED
  BY <1>2, <1>3, <1>4 DEF q, S

\* One level of one child.
LEMMA LevelIs ==
  ASSUME kind \in Keyed, NEW to, NEW level, NEW its, NEW child
  PROVE  LevelData(kind, to, [items |-> its], level, child)
            = AddItems(to, level, ShownOf(its), child)
<1>1. [items |-> its].items = its
  OBVIOUS
<1>2. CASE kind \in {"network", "diskactivity", "disks"}
  <2>1. \A i : Shown(kind, i) = IsActive(i)
    BY <1>2 DEF Shown
  <2>2. Those(its, IsActive) = ShownOf(its)
    BY <2>1 DEF Those, ShownOf
  <2> QED
    BY <1>2, <2>2 DEF LevelData, NetworkData, ActivityData, DiskData
<1>3. CASE kind = "sensors"
  <2>1. \A i : Shown(kind, i) = IsNoGpuUnit(i)
    BY <1>3 DEF Shown
  <2>2. Those(its, IsNoGpuUnit) = ShownOf(its)
    BY <2>1 DEF Those, ShownOf
  <2> QED
    BY <1>3, <2>2 DEF LevelData, SensorData
<1>4. CASE kind = "gpu"
  <2>1. \A i : Shown(kind, i) = IsGpu(i)
    BY <1>4 DEF Shown
  <2>2. Those(its, IsGpu) = ShownOf(its)
    BY <2>1 DEF Those, ShownOf
  <2> QED
    BY <1>4, <2>2 DEF LevelData, GpuData
<1> QED
  BY <1>2, <1>3, <1>4 DEF Keyed

\* It leaves a reply.
LEMMA LevelTyped ==
  ASSUME kind \in Keyed, NEW to \in Replied, NEW level \in Levels, NEW its \in Seq(Things), NEW child
  PROVE  LevelData(kind, to, [items |-> its], level, child) \in Replied
<1> DEFINE sh == ShownOf(its)
<1>1. sh \in Seq(Things)
  BY ShownOfIs
<1> HIDE DEF sh
<1>2. PICK f : AddsInTurn(f, to, level, sh, child)
  BY <1>1, AddItemsInTurn
<1>3. Len(sh) \in 0 .. Len(sh)
  BY <1>1
<1> QED
  BY <1>2, <1>3, LevelIs DEF AddsInTurn, sh

\* The levels of a child are answered one after the other.
LEMMA LevelsInTurn ==
  ASSUME kind \in Keyed, NEW to \in Replied, NEW its \in Seq(Things), NEW child \in Asked
  PROVE  \E f : /\ f \in [0 .. 2 -> Replied] /\ f[0] = to
                /\ \A n \in 1 .. 2 : f[n] = LevelData(kind, f[n - 1], [items |-> its], n, child)
                /\ ChildData(kind, to, [items |-> its], child) = f[2]
<1> DEFINE N == 2
           F == [x \in Nat \X Replied |-> IF x[1] \in 1 .. N THEN LevelData(kind, x[2], [items |-> its], x[1], child) ELSE x[2]]
           All(f) == f = [n \in 0 .. N |-> IF n = 0 THEN to ELSE LevelData(kind, f[n - 1], [items |-> its], n, child)]
           after == CHOOSE f : All(f)
<1>1. N \in Nat
  OBVIOUS
<1>2. ASSUME NEW q \in Replied, NEW n \in 1 .. N PROVE LevelData(kind, q, [items |-> its], n, child) \in Replied
  BY LevelTyped DEF Levels
<1>3. F \in [Nat \X Replied -> Replied]
  <2>1. ASSUME NEW x \in Nat \X Replied
        PROVE  (IF x[1] \in 1 .. N THEN LevelData(kind, x[2], [items |-> its], x[1], child) ELSE x[2]) \in Replied
    BY <1>2
  <2> QED
    BY <2>1
<1>4. \A n \in Nat, q \in Replied : n \in 1 .. N => F[<<n, q>>] = LevelData(kind, q, [items |-> its], n, child)
  OBVIOUS
<1> HIDE DEF F
<1>5. PICK g : Goes(g, Replied, to, F, N)
  BY <1>1, <1>3, Recursion
<1>6. /\ g \in [0 .. N -> Replied] /\ g[0] = to
      /\ \A n \in 1 .. N : g[n] = LevelData(kind, g[n - 1], [items |-> its], n, child)
  <2>1. \A n \in 1 .. N : n \in Nat /\ n - 1 \in 0 .. N
    BY <1>1
  <2> QED
    BY <1>4, <1>5, <2>1 DEF Goes
<1>7. All(g)
  <2>1. \A n \in 0 .. N : g[n] = IF n = 0 THEN to ELSE LevelData(kind, g[n - 1], [items |-> its], n, child)
    <3> TAKE n \in 0 .. N
    <3>1. n # 0 => n \in 1 .. N
      BY <1>1
    <3> QED
      BY <1>6, <3>1
  <2> QED
    BY <1>6, <2>1
<1>8. All(after)
  <2>1. \E f : All(f)
    BY <1>7
  <2> HIDE DEF All
  <2> QED
    BY <2>1, Zenon
<1>9. ChildData(kind, to, [items |-> its], child) = after[N]
  <2>1. Len(child.after) = 2
    BY DEF Asked, Levels
  <2> QED
    BY <2>1 DEF ChildData
<1> HIDE DEF after
<1>10. /\ after[0] = to
       /\ \A n \in 1 .. N : after[n] = LevelData(kind, after[n - 1], [items |-> its], n, child)
  <2>1. \A n \in 0 .. N : after[n] = IF n = 0 THEN to ELSE LevelData(kind, after[n - 1], [items |-> its], n, child)
    BY <1>8
  <2> HIDE DEF All
  <2>2. 0 \in 0 .. N /\ \A n \in 1 .. N : n \in 0 .. N /\ n # 0
    BY <1>1
  <2>3. after[0] = IF 0 = 0 THEN to ELSE LevelData(kind, after[0 - 1], [items |-> its], 0, child)
    BY <2>1, <2>2, Zenon
  <2> QED
    BY <2>1, <2>2, <2>3
<1> HIDE DEF All
<1>11. \A n \in 1 .. N : after[n - 1] \in Replied => after[n] = F[<<n, after[n - 1]>>]
  <2>1. \A n \in 1 .. N : n \in Nat
    BY <1>1
  <2> QED
    BY <1>4, <1>10, <2>1
<1> HIDE DEF N
<1>12. Agrees(after, g, N)
  BY <1>1, <1>5, <1>10, <1>11, RecursionOnce
<1>13. after[N] = g[N]
  BY <1>1, <1>12 DEF Agrees
<1> QED
  BY <1>6, <1>9, <1>13 DEF N

\* A child leaves a reply, too.
LEMMA ChildTyped ==
  ASSUME kind \in Keyed, NEW to \in Replied, NEW its \in Seq(Things), NEW child \in Asked
  PROVE  ChildData(kind, to, [items |-> its], child) \in Replied
<1>1. PICK f : f \in [0 .. 2 -> Replied] /\ ChildData(kind, to, [items |-> its], child) = f[2]
  BY LevelsInTurn
<1> QED
  BY <1>1

\* A reply that has nothing yet.
EmptyReply == [items |-> <<>>, added |-> {}]

\* The children of a request are answered one after the other.
LEMMA ChildrenInTurn ==
  ASSUME kind \in Keyed, NEW its \in Seq(Things), NEW children \in Seq(Asked)
  PROVE  \E f : /\ f \in [0 .. Len(children) -> Replied] /\ f[0] = EmptyReply
                /\ \A n \in 1 .. Len(children) : f[n] = ChildData(kind, f[n - 1], [items |-> its], children[n])
                /\ MultipleData(kind, [items |-> its], children) = f[Len(children)].items
<1> DEFINE N == Len(children)
           F == [x \in Nat \X Replied |-> IF x[1] \in 1 .. N THEN ChildData(kind, x[2], [items |-> its], children[x[1]]) ELSE x[2]]
           All(f) == f = [n \in 0 .. N |-> IF n = 0 THEN EmptyReply ELSE ChildData(kind, f[n - 1], [items |-> its], children[n])]
           after == CHOOSE f : All(f)
<1>1. N \in Nat
  OBVIOUS
<1>2. ASSUME NEW q \in Replied, NEW n \in 1 .. N PROVE ChildData(kind, q, [items |-> its], children[n]) \in Replied
  BY ChildTyped
<1>3. F \in [Nat \X Replied -> Replied]
  <2>1. ASSUME NEW x \in Nat \X Replied
        PROVE  (IF x[1] \in 1 .. N THEN ChildData(kind, x[2], [items |-> its], children[x[1]]) ELSE x[2]) \in Replied
    BY <1>2
  <2> QED
    BY <2>1
<1>4. \A n \in Nat, q \in Replied : n \in 1 .. N => F[<<n, q>>] = ChildData(kind, q, [items |-> its], children[n])
  OBVIOUS
<1> HIDE DEF F
<1>0. EmptyReply \in Replied
  BY DEF EmptyReply, Replied
<1>5. PICK g : Goes(g, Replied, EmptyReply, F, N)
  BY <1>0, <1>1, <1>3, Recursion
<1>6. /\ g \in [0 .. N -> Replied] /\ g[0] = EmptyReply
      /\ \A n \in 1 .. N : g[n] = ChildData(kind, g[n - 1], [items |-> its], children[n])
  <2>1. \A n \in 1 .. N : n \in Nat /\ n - 1 \in 0 .. N
    BY <1>1
  <2> QED
    BY <1>4, <1>5, <2>1 DEF Goes
<1>7. All(g)
  <2>1. \A n \in 0 .. N : g[n] = IF n = 0 THEN EmptyReply ELSE ChildData(kind, g[n - 1], [items |-> its], children[n])
    <3> TAKE n \in 0 .. N
    <3>1. n # 0 => n \in 1 .. N
      BY <1>1
    <3> QED
      BY <1>6, <3>1
  <2> QED
    BY <1>6, <2>1
<1>8. All(after)
  <2>1. \E f : All(f)
    BY <1>7
  <2> HIDE DEF All
  <2> QED
    BY <2>1, Zenon
<1>9. MultipleData(kind, [items |-> its], children) = after[N].items
  BY DEF MultipleData, EmptyReply
<1> HIDE DEF after
<1>10. /\ after[0] = EmptyReply
       /\ \A n \in 1 .. N : after[n] = ChildData(kind, after[n - 1], [items |-> its], children[n])
  <2>1. \A n \in 0 .. N : after[n] = IF n = 0 THEN EmptyReply ELSE ChildData(kind, after[n - 1], [items |-> its], children[n])
    BY <1>8
  <2> HIDE DEF All
  <2>2. 0 \in 0 .. N /\ \A n \in 1 .. N : n \in 0 .. N /\ n # 0
    BY <1>1
  <2>3. after[0] = IF 0 = 0 THEN EmptyReply ELSE ChildData(kind, after[0 - 1], [items |-> its], children[0])
    BY <2>1, <2>2, Zenon
  <2> QED
    BY <2>1, <2>2, <2>3
<1> HIDE DEF All
<1>11. \A n \in 1 .. N : after[n - 1] \in Replied => after[n] = F[<<n, after[n - 1]>>]
  <2>1. \A n \in 1 .. N : n \in Nat
    BY <1>1
  <2> QED
    BY <1>4, <1>10, <2>1
<1> HIDE DEF N
<1>12. Agrees(after, g, N)
  BY <1>1, <1>5, <1>10, <1>11, RecursionOnce
<1>13. after[N] = g[N]
  BY <1>1, <1>12 DEF Agrees
<1> QED
  BY <1>6, <1>9, <1>13 DEF N

-----------------------------------------------------------------------------
\* No series is answered twice.
Distinct(answers) ==
    \A m, n \in 1 .. Len(answers) :
        answers[m].key = answers[n].key /\ answers[m].level = answers[n].level => m = n

IsOf(a, d, l) == a.key = d /\ a.level = l

\* So what is answered of a series is the one answer there is, or nothing.
LEMMA AnsweredIs ==
  ASSUME NEW answers \in Seq(Answers), Distinct(answers), NEW d, NEW l
  PROVE  \/ \E n \in 1 .. Len(answers) :
               IsOf(answers[n], d, l) /\ Answered(answers, d, l) = answers[n].samples
         \/ /\ \A n \in 1 .. Len(answers) : ~IsOf(answers[n], d, l)
            /\ Answered(answers, d, l) = <<>>
<1> DEFINE S == {i \in ToSet(answers) : i.key = d /\ i.level = l}
           its == Only(answers, S)
           parts == [n \in DOMAIN its |-> its[n].samples]
<1>1. /\ ToSet(answers) = {answers[n] : n \in 1 .. Len(answers)}
      /\ Range(answers) = {answers[n] : n \in 1 .. Len(answers)}
      /\ Len(answers) \in Nat
  BY DEF ToSet, Range
<1>2. Answered(answers, d, l) = FlattenSeq(parts)
  BY DEF Answered, Those
<1>3. Once(answers)
  BY DEF Once, Distinct
<1>4. S = {a \in Range(answers) : IsOf(a, d, l)}
  BY <1>1 DEF IsOf
<1> HIDE DEF S
<1>5. its \in Seq(Answers) /\ Range(its) = Range(answers) \cap S /\ Once(its)
  <2>1. Only(answers, S) \in Seq(Answers)
    BY OnlyType
  <2>2. Range(Only(answers, S)) = Range(answers) \cap S
    BY OnlyElements
  <2>3. Once(Only(answers, S))
    BY <1>3, OnlyOnce
  <2> QED
    BY <2>1, <2>2, <2>3
<1> HIDE DEF its
<1>6. Len(its) \in Nat /\ DOMAIN its = 1 .. Len(its) /\ Range(its) = {its[n] : n \in 1 .. Len(its)}
  BY <1>5 DEF Range
<1>7. CASE \A n \in 1 .. Len(answers) : ~IsOf(answers[n], d, l)
  <2>1. Range(its) = {}
    BY <1>1, <1>4, <1>5, <1>7
  <2>2. Len(its) = 0
    <3>1. 1 \notin 1 .. Len(its)
      BY <1>6, <2>1
    <3> QED
      BY <1>6, <3>1
  <2>3. DOMAIN its = {}
    BY <1>6, <2>2
  <2>4. parts = <<>>
    BY <2>3
  <2> HIDE DEF parts
  <2> QED
    BY <1>2, <1>7, <2>4, FlattenNone
<1>8. CASE \E n \in 1 .. Len(answers) : IsOf(answers[n], d, l)
  <2>1. PICK n \in 1 .. Len(answers) : IsOf(answers[n], d, l)
    BY <1>8
  <2> DEFINE a == answers[n]
  <2>2. Range(its) = {a}
    <3>1. \A m \in 1 .. Len(answers) : IsOf(answers[m], d, l) => m = n
      BY <2>1 DEF Distinct, IsOf
    <3>2. a \in Range(answers) /\ IsOf(a, d, l)
      BY <1>1, <2>1
    <3>3. \A b \in Range(answers) : IsOf(b, d, l) => b = a
      BY <1>1, <3>1
    <3> HIDE DEF a
    <3> QED
      BY <1>4, <1>5, <3>2, <3>3
  <2>3. Len(its) = 1 /\ its[1] = a
    <3>1. \A m \in 1 .. Len(its) : its[m] = a
      BY <1>6, <2>2
    <3>2. Len(its) # 0
      <4>1. a \in {its[m] : m \in 1 .. Len(its)}
        BY <1>6, <2>2
      <4>2. PICK m \in 1 .. Len(its) : a = its[m]
        BY <4>1
      <4>3. m \in 1 .. Len(its)
        OBVIOUS
      <4> QED
        BY <1>6, <4>3
    <3>3. Len(its) < 2
      <4> SUFFICES ASSUME Len(its) >= 2 PROVE FALSE
        BY <1>6
      <4>1. 1 \in 1 .. Len(its) /\ 2 \in 1 .. Len(its)
        BY <1>6
      <4>2. its[1] = its[2]
        BY <3>1, <4>1
      <4> QED
        BY <1>5, <4>1, <4>2 DEF Once
    <3> QED
      BY <1>6, <3>1, <3>2, <3>3
  <2>4. parts = <<a.samples>>
    <3>1. DOMAIN its = 1 .. 1
      BY <1>6, <2>3
    <3>2. parts = [m \in 1 .. 1 |-> its[m].samples]
      BY <3>1
    <3>3. \A m \in 1 .. 1 : m = 1
      OBVIOUS
    <3> QED
      BY <2>3, <3>2, <3>3
  <2>5. a.samples \in Seq(Sampling)
    <3>1. a \in Answers
      OBVIOUS
    <3> QED
      BY <3>1 DEF Answers, Series
  <2> HIDE DEF parts
  <2>6. FlattenSeq(<<a.samples>>) = a.samples
    BY <2>5, FlattenOne
  <2> QED
    BY <1>2, <2>1, <2>4, <2>6
<1> QED
  BY <1>7, <1>8

-----------------------------------------------------------------------------
(***************************************************************************)
(* A reply as it should be: each of its elements is what is newer than the *)
(* copy, of an item there is, and no series is answered twice.             *)
(***************************************************************************)
RightAnswer(a) ==
    \E i \in 1 .. Len(items) :
        /\ items[i].key = a.key
        /\ a.samples = NewerThan(items[i].mem[a.level], LastId(a.key, a.level))

RightReply(to) ==
    /\ to.added = {KeyForIndex(to.items[n].key, to.items[n].level) : n \in 1 .. Len(to.items)}
    /\ Distinct(to.items)
    /\ \A n \in 1 .. Len(to.items) : RightAnswer(to.items[n])

AsksFor(child, key) == child.keys = {} \/ key \in child.keys

\* A child asks for what is newer than the copy, of what is not answered yet.
RightlyAsked(to, level, child) ==
    \A i \in 1 .. Len(items) :
        Shown(kind, items[i]) /\ AsksFor(child, items[i].key) =>
            \/ KeyForIndex(items[i].key, level) \in to.added
            \/ child.after[level] = LastId(items[i].key, level)

\* What a child asks for at a level is answered.
Covers(to, level, child) ==
    \A i \in 1 .. Len(items) :
        Shown(kind, items[i]) /\ AsksFor(child, items[i].key) =>
            KeyForIndex(items[i].key, level) \in to.added

\* One item of it.
AsksRightly(to, level, child, i) ==
    AsksFor(child, items[i].key) =>
        \/ KeyForIndex(items[i].key, level) \in to.added
        \/ child.after[level] = LastId(items[i].key, level)

\* A reply that goes on from another, and has the item where it is asked for.
GoesOnRightly(to, r, level, child, i) ==
    /\ RightReply(r) /\ to.added \subseteq r.added
    /\ AsksFor(child, items[i].key) => KeyForIndex(items[i].key, level) \in r.added

\* An item more, and the reply is as it should be.
LEMMA AddItemRight ==
  ASSUME items \in Seq(Things), NEW to \in Replied, RightReply(to), NEW level \in Levels,
         NEW i \in 1 .. Len(items), NEW child, AsksRightly(to, level, child, i),
         NEW r, r = AddItem(to, level, items[i], child)
  PROVE  GoesOnRightly(to, r, level, child, i)
<1> DEFINE key == items[i].key
<1>1. CASE ~ShouldAddKey(to.added, level, key, child.keys)
  <2>1. r = to
    BY <1>1 DEF AddItem
  <2> QED
    BY <1>1, <2>1 DEF ShouldAddKey, AsksFor, GoesOnRightly
<1>2. CASE ShouldAddKey(to.added, level, key, child.keys)
  <2> DEFINE a == Answer(items[i], level, child.after[level])
             q == to.items
             N == Len(q)
             Keys(s) == {KeyForIndex(s[n].key, s[n].level) : n \in 1 .. Len(s)}
  <2>1. r.items = Append(q, a) /\ r.added = to.added \cup {KeyForIndex(key, level)}
    BY <1>2 DEF AddItem
  <2>2. items[i] \in Things
    OBVIOUS
  <2>3. /\ a \in Answers /\ a.level = level /\ a.key = key
        /\ a.samples = NewerThan(items[i].mem[level], child.after[level])
    BY <2>2, AnswerIs
  <2>4. q \in Seq(Answers) /\ N \in Nat
    BY DEF Replied
  <2> HIDE DEF a, q, N
  <2>5. /\ r.items \in Seq(Answers) /\ Len(r.items) = N + 1 /\ r.items[N + 1] = a
        /\ \A n \in 1 .. N : r.items[n] = q[n]
    BY <2>1, <2>3, <2>4, AppendProperties DEF N
  <2>6. \A n \in 1 .. N + 1 : n \in 1 .. N \/ n = N + 1
    BY <2>4
  <2>7. /\ KeyForIndex(key, level) \notin to.added
        /\ child.after[level] = LastId(key, level)
    BY <1>2 DEF ShouldAddKey, AsksFor, AsksRightly
  <2>8. /\ to.added = {KeyForIndex(q[n].key, q[n].level) : n \in 1 .. N}
        /\ Distinct(q) /\ \A n \in 1 .. N : RightAnswer(q[n])
    BY DEF RightReply, q, N
  <2>9. r.added = {KeyForIndex(r.items[n].key, r.items[n].level) : n \in 1 .. N + 1}
    <3>1. N + 1 \in 1 .. N + 1 /\ \A n \in 1 .. N : n \in 1 .. N + 1
      BY <2>4
    <3> HIDE DEF key
    <3> QED
      BY <2>1, <2>3, <2>5, <2>6, <2>8, <3>1
  <2>10. \A n \in 1 .. N : ~(q[n].key = key /\ q[n].level = level)
    BY <2>7, <2>8
  <2>11. Distinct(r.items)
    <3> SUFFICES ASSUME NEW m \in 1 .. N + 1, NEW n \in 1 .. N + 1,
                        r.items[m].key = r.items[n].key, r.items[m].level = r.items[n].level
                 PROVE  m = n
      BY <2>5 DEF Distinct
    <3>1. CASE m \in 1 .. N /\ n \in 1 .. N
      BY <2>5, <2>8, <3>1 DEF Distinct, N
    <3>2. CASE m = N + 1 /\ n \in 1 .. N
      BY <2>3, <2>5, <2>10, <3>2
    <3>3. CASE m \in 1 .. N /\ n = N + 1
      BY <2>3, <2>5, <2>10, <3>3
    <3> QED
      BY <2>6, <3>1, <3>2, <3>3
  <2>12. RightAnswer(a)
    BY <2>3, <2>7 DEF RightAnswer
  <2>13. \A n \in 1 .. N + 1 : RightAnswer(r.items[n])
    BY <2>5, <2>6, <2>8, <2>12
  <2>14. RightReply(r)
    BY <2>5, <2>9, <2>11, <2>13 DEF RightReply
  <2> QED
    BY <2>1, <2>14 DEF GoesOnRightly
<1> QED
  BY <1>1, <1>2

\* All items shown, and it is still, and has what is asked.
LEMMA AddItemsRight ==
  ASSUME items \in Seq(Things), NEW to \in Replied, RightReply(to), NEW level \in Levels,
         NEW child, RightlyAsked(to, level, child),
         NEW r, r = AddItems(to, level, ShownOf(items), child)
  PROVE  /\ r \in Replied /\ RightReply(r) /\ to.added \subseteq r.added
         /\ Covers(r, level, child)
<1> DEFINE sh == ShownOf(items)
           N == Len(sh)
<1>1. /\ sh \in Seq(Things) /\ N \in Nat
      /\ \A n \in 1 .. N : \E i \in 1 .. Len(items) : sh[n] = items[i] /\ Shown(kind, items[i])
      /\ \A i \in 1 .. Len(items) : Shown(kind, items[i]) => \E n \in 1 .. N : sh[n] = items[i]
  BY ShownOfIs
<1> HIDE DEF sh
<1>2. PICK f : /\ f \in [0 .. N -> Replied] /\ f[0] = to
               /\ \A n \in 1 .. N : f[n] = AddItem(f[n - 1], level, sh[n], child)
               /\ r = f[N]
  <2>1. r = AddItems(to, level, sh, child)
    BY DEF sh
  <2>2. PICK f : AddsInTurn(f, to, level, sh, child)
    BY <1>1, AddItemsInTurn
  <2> QED
    BY <2>1, <2>2 DEF AddsInTurn
<1> DEFINE Has(n) == /\ RightReply(f[n]) /\ to.added \subseteq f[n].added
                     /\ \A m \in 1 .. n : AsksFor(child, sh[m].key) =>
                                             KeyForIndex(sh[m].key, level) \in f[n].added
           Good == {n \in Nat : n <= N => Has(n)}
<1>3. 0 \in Good
  <2>1. \A m \in 1 .. 0 : FALSE
    OBVIOUS
  <2> QED
    BY <1>2, <2>1
<1>4. ASSUME NEW n \in Nat, n \in Good PROVE n + 1 \in Good
  <2> SUFFICES ASSUME n + 1 <= N PROVE Has(n + 1)
    OBVIOUS
  <2>1. n + 1 \in 1 .. N /\ n \in 0 .. N /\ (n + 1) - 1 = n /\ n <= N
    BY <1>1
  <2>2. Has(n)
    BY <1>4, <2>1
  <2>3. PICK i \in 1 .. Len(items) : sh[n + 1] = items[i] /\ Shown(kind, items[i])
    BY <1>1, <2>1
  <2>4. f[n + 1] = AddItem(f[n], level, items[i], child) /\ f[n] \in Replied
    BY <1>2, <2>1, <2>3
  <2>5. AsksRightly(f[n], level, child, i)
    BY <2>2, <2>3 DEF RightlyAsked, AsksRightly
  <2>6. RightReply(f[n])
    BY <2>2
  <2> HIDE DEF Has, Good
  <2>7. GoesOnRightly(f[n], f[n + 1], level, child, i)
    BY <2>4, <2>5, <2>6, AddItemRight
  <2>8. /\ RightReply(f[n + 1]) /\ f[n].added \subseteq f[n + 1].added
        /\ AsksFor(child, sh[n + 1].key) => KeyForIndex(sh[n + 1].key, level) \in f[n + 1].added
    BY <2>3, <2>7 DEF GoesOnRightly
  <2>9. \A m \in 1 .. n + 1 : m \in 1 .. n \/ m = n + 1
    OBVIOUS
  <2> QED
    BY <2>2, <2>8, <2>9 DEF Has
<1>5. N \in Good
  <2> HIDE DEF Good
  <2>1. \A n \in Nat : n \in Good
    BY <1>3, <1>4, NatSetInduction
  <2> QED
    BY <1>1, <2>1
<1> HIDE DEF N, Has
<1>6. Has(N)
  BY <1>1, <1>5
<1> USE DEF Has
<1>7. Covers(r, level, child)
  BY <1>1, <1>2, <1>6 DEF Covers
<1>8. r \in Replied
  BY <1>1, <1>2
<1> QED
  BY <1>2, <1>6, <1>7, <1>8

\* What is covered stays so.
LEMMA CoversOn ==
  ASSUME NEW to, NEW r, to.added \subseteq r.added, NEW level, NEW child
  PROVE  /\ Covers(to, level, child) => Covers(r, level, child)
         /\ RightlyAsked(to, level, child) => RightlyAsked(r, level, child)
BY DEF Covers, RightlyAsked

\* A child that asks rightly has its answer at both levels.
LEMMA ChildRight ==
  ASSUME kind \in Keyed, items \in Seq(Things), NEW to \in Replied, RightReply(to),
         NEW child \in Asked, \A l \in Levels : RightlyAsked(to, l, child),
         NEW r, r = ChildData(kind, to, [items |-> items], child)
  PROVE  /\ r \in Replied /\ RightReply(r) /\ to.added \subseteq r.added
         /\ \A l \in Levels : Covers(r, l, child)
<1>1. PICK f : /\ f \in [0 .. 2 -> Replied] /\ f[0] = to
               /\ \A n \in 1 .. 2 : f[n] = LevelData(kind, f[n - 1], [items |-> items], n, child)
               /\ r = f[2]
  BY LevelsInTurn
<1>2. \A n \in 1 .. 2 : f[n] = AddItems(f[n - 1], n, ShownOf(items), child)
  BY <1>1, LevelIs
<1>3. Levels = {1, 2} /\ 1 \in Levels /\ 2 \in Levels /\ f[1] \in Replied
  BY <1>1 DEF Levels
<1>4. f[1] = AddItems(to, 1, ShownOf(items), child) /\ r = AddItems(f[1], 2, ShownOf(items), child)
  BY <1>1, <1>2
<1>5. RightReply(f[1]) /\ to.added \subseteq f[1].added /\ Covers(f[1], 1, child)
  BY <1>3, <1>4, AddItemsRight
<1>6. RightlyAsked(f[1], 2, child)
  BY <1>3, <1>5, CoversOn
<1>7. r \in Replied /\ RightReply(r) /\ f[1].added \subseteq r.added /\ Covers(r, 2, child)
  BY <1>3, <1>4, <1>5, <1>6, AddItemsRight
<1>8. Covers(r, 1, child)
  BY <1>5, <1>7, CoversOn
<1> QED
  BY <1>3, <1>5, <1>7, <1>8

-----------------------------------------------------------------------------
\* What the client has samples of.
Known == {d \in Device : copy[d] # [l \in Levels |-> <<>>]}

\* The id it names is one.
LEMMA LastIdIs ==
  ASSUME copy \in [Device -> [Levels -> Series]], NEW d \in Device
  PROVE  /\ \A l \in Levels : LastId(d, l) \in Nat
         /\ LastIds(d) \in [Levels -> Nat] /\ \A l \in Levels : LastIds(d)[l] = LastId(d, l)
         /\ d \notin Known => \A l \in Levels : LastId(d, l) = 0
<1>1. ASSUME NEW l \in Levels PROVE LastId(d, l) \in Nat
  <2>1. copy[d][l] \in Seq(Sampling)
    BY DEF Series
  <2>2. CASE copy[d][l] = <<>>
    BY <2>2 DEF LastId
  <2>3. CASE copy[d][l] # <<>>
    <3>1. Last(copy[d][l]) \in Sampling
      <4>1. Len(copy[d][l]) \in 1 .. Len(copy[d][l])
        BY <2>1, <2>3, EmptySeq
      <4> QED
        BY <2>1, <4>1 DEF Last
    <3> QED
      BY <2>3, <3>1 DEF LastId, Sampling
  <2> QED
    BY <2>2, <2>3
<1>2. d \notin Known => \A l \in Levels : LastId(d, l) = 0
  BY DEF Known, LastId
<1> QED
  BY <1>1, <1>2 DEF LastIds

\* The children of a request: one for each device known, and one for the rest.
LEMMA ChildrenAre ==
  ASSUME kind \in Keyed, copy \in [Device -> [Levels -> Series]]
  PROVE  \E K \in Nat :
            /\ Children \in Seq(Asked) /\ Len(Children) = K + 1
            /\ \A n \in 1 .. K : \E d \in Device :
                  Children[n].keys = {d} /\ Children[n].after = LastIds(d)
            /\ \A d \in Known : \E n \in 1 .. K : Children[n].keys = {d}
            /\ Children[K + 1].keys = {} /\ \A l \in Levels : Children[K + 1].after[l] = 0
<1> DEFINE K == Cardinality(Known)
           s == SetToSeq(Known)
           C == [i \in 1 .. K |-> [keys |-> {s[i]}, after |-> LastIds(s[i])]]
           rest == [keys |-> {}, after |-> [l \in Levels |-> 0]]
<1>1. Known \subseteq Device /\ IsFiniteSet(Known)
  <2>1. Known \subseteq Device
    BY DEF Known
  <2> QED
    BY <2>1, PollingAssumption, FS_Subset
<1>2. /\ s \in Seq(Known) /\ Range(s) = Known /\ Len(s) = K /\ K \in Nat
  BY <1>1, SequenceOfSet
<1>3. kind \notin Single
  BY DEF Keyed, Single
<1>4. Children = C \o <<rest>>
  BY <1>3 DEF Children, Known
<1> HIDE DEF s, K
<1>5. \A i \in 1 .. K : s[i] \in Device
  BY <1>1, <1>2
<1>6. \A i \in 1 .. K : LastIds(s[i]) \in [Levels -> Nat]
  BY <1>5, LastIdIs
<1>7. C \in Seq(Asked) /\ Len(C) = K
  BY <1>2, <1>5, <1>6 DEF Asked
<1>8. rest \in Asked /\ <<rest>> \in Seq(Asked) /\ Len(<<rest>>) = 1 /\ <<rest>>[1] = rest
  BY DEF Asked
<1>9. \A i \in 1 .. K : C[i].keys = {s[i]} /\ C[i].after = LastIds(s[i])
  OBVIOUS
<1>10. rest.keys = {} /\ \A l \in Levels : rest.after[l] = 0
  OBVIOUS
<1> HIDE DEF C, rest
<1>11. /\ Children \in Seq(Asked) /\ Len(Children) = K + 1
       /\ \A i \in 1 .. K : Children[i] = C[i]
       /\ Children[K + 1] = rest
  BY <1>4, <1>7, <1>8, JoinIs
<1>12. Range(s) = {s[i] : i \in 1 .. K}
  BY <1>2 DEF Range
<1>13. \A n \in 1 .. K : \E d \in Device : Children[n].keys = {d} /\ Children[n].after = LastIds(d)
  BY <1>5, <1>9, <1>11
<1>14. \A d \in Known : \E n \in 1 .. K : Children[n].keys = {d}
  BY <1>2, <1>9, <1>11, <1>12
<1> QED
  BY <1>2, <1>10, <1>11, <1>13, <1>14

\* The reply to such a request is as it should be, and has every item shown.
LEMMA MultipleRight ==
  ASSUME kind \in Keyed, items \in Seq(Things), copy \in [Device -> [Levels -> Series]]
  PROVE  \E to \in Replied :
            /\ Reply(kind, [items |-> items], Children) = to.items
            /\ RightReply(to)
            /\ \A i \in 1 .. Len(items), l \in Levels :
                  Shown(kind, items[i]) => KeyForIndex(items[i].key, l) \in to.added
<1>1. PICK K \in Nat :
            /\ Children \in Seq(Asked) /\ Len(Children) = K + 1
            /\ \A n \in 1 .. K : \E d \in Device :
                  Children[n].keys = {d} /\ Children[n].after = LastIds(d)
            /\ \A d \in Known : \E n \in 1 .. K : Children[n].keys = {d}
            /\ Children[K + 1].keys = {} /\ \A l \in Levels : Children[K + 1].after[l] = 0
  BY ChildrenAre
<1>2. PICK f : /\ f \in [0 .. Len(Children) -> Replied] /\ f[0] = EmptyReply
               /\ \A n \in 1 .. Len(Children) :
                     f[n] = ChildData(kind, f[n - 1], [items |-> items], Children[n])
               /\ MultipleData(kind, [items |-> items], Children) = f[Len(Children)].items
  BY <1>1, ChildrenInTurn
<1>3. Reply(kind, [items |-> items], Children) = f[K + 1].items
  BY <1>1, <1>2 DEF Reply, Keyed
<1> DEFINE Has(n) == /\ RightReply(f[n])
                     /\ \A m \in 1 .. n, l \in Levels : Covers(f[n], l, Children[m])
           Good == {n \in Nat : n <= K + 1 => Has(n)}
<1>4. 0 \in Good
  <2>1. \A m \in 1 .. 0 : FALSE
    OBVIOUS
  <2>2. EmptyReply.items = <<>> /\ EmptyReply.added = {} /\ Len(<<>>) = 0
    BY EmptySeq DEF EmptyReply
  <2>3. RightReply(EmptyReply)
    BY <2>1, <2>2 DEF RightReply, Distinct
  <2> QED
    BY <1>2, <2>1, <2>3
<1>5. ASSUME NEW n \in Nat, n \in Good PROVE n + 1 \in Good
  <2> SUFFICES ASSUME n + 1 <= K + 1 PROVE Has(n + 1)
    OBVIOUS
  <2>1. /\ n + 1 \in 1 .. K + 1 /\ n \in 0 .. K + 1 /\ (n + 1) - 1 = n /\ n <= K + 1
        /\ (n + 1 \in 1 .. K \/ n + 1 = K + 1)
    OBVIOUS
  <2>2. Has(n)
    BY <1>5, <2>1
  <2>3. /\ f[n + 1] = ChildData(kind, f[n], [items |-> items], Children[n + 1])
        /\ f[n] \in Replied /\ Children[n + 1] \in Asked
    BY <1>1, <1>2, <2>1
  <2>4. ASSUME NEW l \in Levels PROVE RightlyAsked(f[n], l, Children[n + 1])
    <3> SUFFICES ASSUME NEW i \in 1 .. Len(items), Shown(kind, items[i]),
                        AsksFor(Children[n + 1], items[i].key)
                 PROVE  \/ KeyForIndex(items[i].key, l) \in f[n].added
                        \/ Children[n + 1].after[l] = LastId(items[i].key, l)
      BY DEF RightlyAsked
    <3>1. items[i].key \in Device
      BY ThingsAre
    <3>2. CASE n + 1 \in 1 .. K
      <4>1. PICK d \in Device : Children[n + 1].keys = {d} /\ Children[n + 1].after = LastIds(d)
        BY <1>1, <3>2
      <4>2. items[i].key = d
        BY <4>1 DEF AsksFor
      <4> QED
        BY <4>1, <4>2, LastIdIs
    <3>3. CASE n + 1 = K + 1
      <4>1. CASE items[i].key \in Known
        <5>1. PICK m \in 1 .. K : Children[m].keys = {items[i].key}
          BY <1>1, <4>1
        <5>2. m \in 1 .. n
          BY <3>3
        <5>3. Covers(f[n], l, Children[m])
          BY <2>2, <5>2
        <5> QED
          BY <5>1, <5>3 DEF Covers, AsksFor
      <4>2. CASE items[i].key \notin Known
        <5>1. LastId(items[i].key, l) = 0
          BY <3>1, <4>2, LastIdIs
        <5> QED
          BY <1>1, <3>3, <5>1
      <4> QED
        BY <4>1, <4>2
    <3> QED
      BY <2>1, <3>2, <3>3
  <2>5. /\ RightReply(f[n + 1]) /\ f[n].added \subseteq f[n + 1].added
        /\ \A l \in Levels : Covers(f[n + 1], l, Children[n + 1])
    BY <2>2, <2>3, <2>4, ChildRight
  <2>6. \A m \in 1 .. n, l \in Levels : Covers(f[n + 1], l, Children[m])
    BY <2>2, <2>5, CoversOn
  <2>7. \A m \in 1 .. n + 1 : m \in 1 .. n \/ m = n + 1
    OBVIOUS
  <2> QED
    BY <2>5, <2>6, <2>7
<1>6. K + 1 \in Good
  <2> HIDE DEF Good
  <2>1. \A n \in Nat : n \in Good
    BY <1>4, <1>5, NatSetInduction
  <2> QED
    BY <2>1
<1>7. Has(K + 1)
  BY <1>6
<1>8. f[K + 1] \in Replied /\ K + 1 \in 1 .. K + 1
  BY <1>1, <1>2
<1>9. \A i \in 1 .. Len(items), l \in Levels :
         Shown(kind, items[i]) => KeyForIndex(items[i].key, l) \in f[K + 1].added
  BY <1>1, <1>7, <1>8 DEF Covers, AsksFor
<1> QED
  BY <1>3, <1>7, <1>8, <1>9

-----------------------------------------------------------------------------
\* What a request is answered of a series: nothing, when no item of the device
\* is shown, or what is newer than the copy.
RightlyGiven(g, d, l) ==
    \/ g = <<>> /\ \A i \in 1 .. Len(items) : items[i].key = d => ~Shown(kind, items[i])
    \/ \E i \in 1 .. Len(items) :
          items[i].key = d /\ g = NewerThan(items[i].mem[l], LastId(d, l))

\* A collector of many series.
LEMMA KeyedGives ==
  ASSUME kind \in Keyed, items \in Seq(Things), copy \in [Device -> [Levels -> Series]],
         NEW d \in Device, NEW l \in Levels
  PROVE  RightlyGiven(Answered(Reply(kind, [items |-> items], Children), d, l), d, l)
<1>1. PICK to \in Replied :
         /\ Reply(kind, [items |-> items], Children) = to.items
         /\ RightReply(to)
         /\ \A i \in 1 .. Len(items), m \in Levels :
               Shown(kind, items[i]) => KeyForIndex(items[i].key, m) \in to.added
  BY MultipleRight
<1> DEFINE q == to.items
           g == Answered(q, d, l)
<1>2. q \in Seq(Answers)
  BY DEF Replied
<1>3. /\ Distinct(q) /\ \A n \in 1 .. Len(q) : RightAnswer(q[n])
      /\ to.added = {KeyForIndex(q[n].key, q[n].level) : n \in 1 .. Len(q)}
  BY <1>1 DEF RightReply
<1>4. RightlyGiven(g, d, l)
  <2> HIDE DEF q
  <2>1. CASE \E n \in 1 .. Len(q) : IsOf(q[n], d, l) /\ g = q[n].samples
    <3>1. PICK n \in 1 .. Len(q) : IsOf(q[n], d, l) /\ g = q[n].samples
      BY <2>1
    <3>2. PICK i \in 1 .. Len(items) :
             items[i].key = q[n].key
             /\ q[n].samples = NewerThan(items[i].mem[q[n].level], LastId(q[n].key, q[n].level))
      BY <1>3 DEF RightAnswer
    <3>3. items[i].key = d /\ g = NewerThan(items[i].mem[l], LastId(d, l))
      BY <3>1, <3>2 DEF IsOf
    <3> HIDE DEF g
    <3> QED
      BY <3>3 DEF RightlyGiven
  <2>2. CASE (\A n \in 1 .. Len(q) : ~IsOf(q[n], d, l)) /\ g = <<>>
    <3>1. ASSUME NEW i \in 1 .. Len(items), items[i].key = d, Shown(kind, items[i]) PROVE FALSE
      <4>1. KeyForIndex(d, l) \in {KeyForIndex(q[n].key, q[n].level) : n \in 1 .. Len(q)}
        BY <1>1, <1>3, <3>1
      <4>2. PICK n \in 1 .. Len(q) : KeyForIndex(d, l) = KeyForIndex(q[n].key, q[n].level)
        BY <4>1
      <4>3. IsOf(q[n], d, l)
        BY <4>2 DEF KeyForIndex, IsOf
      <4> QED
        BY <2>2, <4>3
    <3> HIDE DEF g
    <3> QED
      BY <2>2, <3>1 DEF RightlyGiven
  <2>3. \/ \E n \in 1 .. Len(q) : IsOf(q[n], d, l) /\ g = q[n].samples
        \/ (\A n \in 1 .. Len(q) : ~IsOf(q[n], d, l)) /\ g = <<>>
    BY <1>2, <1>3, AnsweredIs
  <2> QED
    BY <2>1, <2>2, <2>3
<1> QED
  BY <1>1, <1>4

\* A collector of one series.
LEMMA SingleGives ==
  ASSUME kind \in Single, items \in Seq(Things), copy \in [Device -> [Levels -> Series]],
         items # <<>>, Devices \subseteq {TheOnly}, NEW d \in Device, NEW l \in Levels
  PROVE  RightlyGiven(Answered(Reply(kind, [items |-> items], Children), d, l), d, l)
<1> DEFINE item == items[1]
           q == [n \in 1 .. 2 |-> Answer(item, n, LastId(TheOnly, n))]
           g == Answered(q, d, l)
<1>1. 1 \in 1 .. Len(items) /\ item \in Things
  BY ThingsAre, EmptySeq
<1>2. item.key = TheOnly
  BY <1>1 DEF Devices
<1>3. TheOnly \in Device /\ Levels = 1 .. 2
  BY <1>1, <1>2 DEF Things, Levels
<1>4. Reply(kind, [items |-> items], Children) = q
  <2>1. Children[1].after = LastIds(TheOnly)
    BY DEF Children
  <2>2. LastIds(TheOnly) = [n \in 1 .. 2 |-> LastId(TheOnly, n)]
    BY <1>3 DEF LastIds
  <2>3. Len(LastIds(TheOnly)) = 2
    BY <1>3, LastIdIs
  <2>4. [items |-> items].items[1] = item
    OBVIOUS
  <2> DEFINE after == LastIds(TheOnly)
  <2>5. q = [n \in 1 .. Len(after) |-> Answer(item, n, after[n])]
    BY <2>2, <2>3
  <2> HIDE DEF q, item, after
  <2> QED
    BY <2>1, <2>4, <2>5 DEF Reply, CpuData, MemoryData, LoadData, Single, after
<1> HIDE DEF item
<1>5. ASSUME NEW n \in 1 .. 2
      PROVE  /\ q[n] \in Answers /\ q[n].level = n /\ q[n].key = TheOnly
             /\ q[n].samples = NewerThan(item.mem[n], LastId(TheOnly, n))
  <2>1. q[n] = Answer(item, n, LastId(TheOnly, n)) /\ n \in Levels
    BY <1>3
  <2> HIDE DEF q
  <2> QED
    BY <1>1, <1>2, <2>1, AnswerIs
<1>6. q \in Seq(Answers) /\ Len(q) = 2
  BY <1>5
<1> HIDE DEF q
<1>7. Distinct(q)
  BY <1>5, <1>6 DEF Distinct
<1>8. CASE \E n \in 1 .. Len(q) : IsOf(q[n], d, l) /\ g = q[n].samples
  <2>1. PICK n \in 1 .. 2 : IsOf(q[n], d, l) /\ g = q[n].samples
    BY <1>6, <1>8
  <2>2. n = l /\ TheOnly = d /\ g = NewerThan(item.mem[l], LastId(d, l))
    BY <1>5, <2>1 DEF IsOf
  <2> HIDE DEF g
  <2> QED
    BY <1>1, <1>2, <1>4, <2>2 DEF RightlyGiven, item, g
<1>9. CASE (\A n \in 1 .. Len(q) : ~IsOf(q[n], d, l)) /\ g = <<>>
  <2>1. ~IsOf(q[l], d, l)
    BY <1>3, <1>6, <1>9
  <2>2. d # TheOnly
    BY <1>3, <1>5, <2>1 DEF IsOf
  <2>3. \A i \in 1 .. Len(items) : items[i].key # d
    BY <2>2 DEF Devices
  <2> HIDE DEF g
  <2> QED
    BY <1>4, <1>9, <2>3 DEF RightlyGiven, g
<1>10. \/ \E n \in 1 .. Len(q) : IsOf(q[n], d, l) /\ g = q[n].samples
       \/ (\A n \in 1 .. Len(q) : ~IsOf(q[n], d, l)) /\ g = <<>>
  BY <1>6, <1>7, AnsweredIs
<1> QED
  BY <1>8, <1>9, <1>10

\* The samples up to the one a client names are those its copy ends with.
LEMMA AfterIs ==
  ASSUME NEW all \in Series, Rising(all), NEW have \in Series, NEW p, EndsAt(p, have, all),
         NEW last, last = IF have = <<>> THEN 0 ELSE Last(have).id
  PROVE  /\ last \in Nat /\ p \in 0 .. Len(all)
         /\ \A i \in 1 .. Len(all) : all[i].id <= last <=> i <= p
<1>1. Len(all) \in Nat /\ p \in 0 .. Len(all)
  BY DEF EndsAt, Series
<1>2. \A i \in 1 .. Len(all) : all[i].id \in Nat /\ 1 <= all[i].id
  <2>1. \A i \in 1 .. Len(all) : all[i] \in Sampling
    BY DEF Series
  <2> QED
    BY <2>1 DEF Sampling, Rising
<1>3. CASE have = <<>>
  <2>1. p = 0 /\ last = 0
    BY <1>3 DEF EndsAt
  <2> QED
    BY <1>1, <1>2, <2>1
<1>4. CASE have # <<>>
  <2>1. p \in 1 .. Len(all) /\ last = all[p].id
    BY <1>1, <1>4 DEF EndsAt
  <2>2. ASSUME NEW i \in 1 .. Len(all) PROVE all[i].id <= last <=> i <= p
    <3>1. CASE i = p
      BY <1>2, <2>1, <3>1
    <3>2. CASE i < p
      <4>1. all[i].id < all[p].id
        BY <2>1, <3>2 DEF Rising
      <4> QED
        BY <1>2, <2>1, <3>2, <4>1
    <3>3. CASE p < i
      <4>1. all[p].id < all[i].id
        BY <2>1, <3>3 DEF Rising
      <4> QED
        BY <1>1, <1>2, <2>1, <3>3, <4>1
    <3> QED
      BY <1>1, <3>1, <3>2, <3>3
  <2> QED
    BY <1>1, <1>2, <2>1, <2>2
<1> QED
  BY <1>3, <1>4

\* A copy that takes samples up to a place ends there.
LEMMA LastIs ==
  ASSUME NEW all \in Series, NEW have \in Series,
         NEW from \in 1 .. Len(all), NEW to \in 1 .. Len(all), from <= to
  PROVE  LET both == have \o SubSeq(all, from, to)
         IN  SubSeq(all, from, to) \in Series /\ both # <<>> /\ Last(both) = all[to]
<1> DEFINE given == SubSeq(all, from, to)
           K == Len(given)
           H == Len(have)
           both == have \o given
<1>1. Len(all) \in Nat /\ H \in Nat /\ from \in Nat /\ to \in Nat
  BY DEF Series
<1>2. given \in Series /\ K = to - from + 1 /\ K \in Nat /\ K # 0 /\ given[K] = all[to]
  BY <1>1 DEF Series
<1> HIDE DEF given, K
<1>3. both \in Seq(Sampling) /\ Len(both) = H + K /\ both[H + K] = given[K]
  <2>1. have \in Seq(Sampling) /\ given \in Seq(Sampling) /\ K \in 1 .. Len(given)
    BY <1>2 DEF Series, K
  <2> QED
    BY <2>1, JoinIs DEF K
<1>4. both # <<>> /\ Last(both) = all[to]
  <2>1. Len(both) # 0
    BY <1>1, <1>2, <1>3
  <2> QED
    BY <1>2, <1>3, <2>1, EmptySeq DEF Last
<1> QED
  BY <1>2, <1>4 DEF given

\* The newest of what the server has of a series is the last of a copy, if the
\* server has any.
IsNewest(both, mem) == mem # <<>> => both # <<>> /\ Last(both) = mem[1]

\* What is newer than a copy follows it, and completes it.
LEMMA NewerFollows ==
  ASSUME NEW all \in Series, Rising(all), NEW mem \in Series, IsEnd(mem, all),
         NEW have \in Series, NEW p, EndsAt(p, have, all),
         NEW after, after = IF have = <<>> THEN 0 ELSE Last(have).id
  PROVE  /\ NewerThan(mem, after) \in Series
         /\ Follows(NewerThan(mem, after), have, all, Len(all) + 1 - Len(mem))
         /\ IsNewest(have \o NewerThan(mem, after), mem)
<1> DEFINE given == NewerThan(mem, after)
           held == Len(all) + 1 - Len(mem)
<1>1. /\ after \in Nat /\ p \in 0 .. Len(all)
      /\ \A i \in 1 .. Len(all) : all[i].id <= after <=> i <= p
  BY AfterIs
<1>2. \/ given = <<>> /\ (mem = <<>> \/ p = Len(all))
      \/ \E from \in 1 .. Len(all) :
            /\ p < from
            /\ \A n \in p + 1 .. from - 1 : n < held
            /\ given = SubSeq(all, from, Len(all))
  BY <1>1, NewerIs
<1>3. given \in Series
  BY NewerTyped
<1>4. Len(all) \in Nat /\ Len(mem) \in Nat
  BY DEF Series
<1>5. mem # <<>> => Len(all) \in 1 .. Len(all) /\ mem[1] = all[Len(all)]
  <2> SUFFICES ASSUME mem # <<>> PROVE Len(all) \in 1 .. Len(all) /\ mem[1] = all[Len(all)]
    OBVIOUS
  <2>1. 1 \in 1 .. Len(mem)
    BY <1>4, EmptySeq DEF Series
  <2>2. Len(mem) <= Len(all) /\ mem[1] = all[Len(all) + 1 - 1]
    BY <2>1 DEF IsEnd
  <2> QED
    BY <1>4, <2>1, <2>2
<1> HIDE DEF given, held
<1>6. CASE given = <<>> /\ (mem = <<>> \/ p = Len(all))
  <2>1. Follows(given, have, all, held)
    BY <1>6 DEF Follows
  <2>2. have \o given = have
    BY <1>6 DEF Series
  <2>3. ASSUME mem # <<>> PROVE have # <<>> /\ Last(have) = mem[1]
    <3>1. p = Len(all) /\ p # 0
      BY <1>4, <1>5, <1>6, <2>3
    <3> QED
      BY <1>5, <2>3, <3>1 DEF EndsAt
  <2> QED
    BY <1>3, <2>1, <2>2, <2>3 DEF given, held, IsNewest
<1>7. CASE \E from \in 1 .. Len(all) :
              /\ p < from
              /\ \A n \in p + 1 .. from - 1 : n < held
              /\ given = SubSeq(all, from, Len(all))
  <2>1. PICK from \in 1 .. Len(all) :
              /\ p < from
              /\ \A n \in p + 1 .. from - 1 : n < held
              /\ given = SubSeq(all, from, Len(all))
    BY <1>7
  <2>2. Len(all) \in 1 .. Len(all) /\ from <= Len(all)
    BY <1>4
  <2>3. Follows(given, have, all, held)
    BY <1>1, <2>1, <2>2 DEF Follows
  <2>4. have \o given # <<>> /\ Last(have \o given) = all[Len(all)]
    BY <2>1, <2>2, LastIs
  <2> QED
    BY <1>3, <1>5, <2>3, <2>4 DEF given, held, IsNewest
<1> QED
  BY <1>2, <1>6, <1>7

\* What a request is answered follows the copy, and completes it.
LEMMA AskGives ==
  ASSUME PollingInv, Ask, NEW d \in Device, NEW l \in Levels
  PROVE  LET g == Answered(reply'.items, d, l)
         IN  /\ g \in Series
             /\ Follows(g, copy[d][l], log[d][l], Held(d, l))
             /\ \A i \in 1 .. Len(items) :
                   items[i].key = d /\ Shown(kind, items[i]) =>
                      IsNewest(copy[d][l] \o g, items[i].mem[l])
<1> DEFINE g == Answered(reply'.items, d, l)
<1>1. /\ up /\ seen = session /\ kind \in Kinds
      /\ items \in Seq(Things) /\ OneEach(items) /\ (kind \in Single => Devices \subseteq {TheOnly})
      /\ stored \in [Device -> Series]
      /\ log \in [Device -> [Levels -> Series]] /\ copy \in [Device -> [Levels -> Series]]
  BY DEF PollingInv, PollingTypes, InSession, OneItemEach, Ask
<1>2. RightlyGiven(g, d, l)
  <2>1. reply'.items = Reply(kind, [items |-> items], Children)
    BY DEF Ask
  <2>2. kind \in Single \/ kind \in Keyed
    BY <1>1, PollingAssumption
  <2>3. CASE kind \in Keyed
    BY <1>1, <2>1, <2>3, KeyedGives
  <2>4. CASE kind \in Single
    <3>1. items # <<>> /\ Devices \subseteq {TheOnly}
      BY <1>1, <2>4 DEF Ask
    <3> QED
      BY <1>1, <2>1, <2>4, <3>1, SingleGives
  <2> QED
    BY <2>2, <2>3, <2>4
<1> HIDE DEF g
<1>3. CASE g = <<>> /\ \A i \in 1 .. Len(items) : items[i].key = d => ~Shown(kind, items[i])
  BY <1>3 DEF Follows, Series, g
<1>4. CASE \E i \in 1 .. Len(items) :
              items[i].key = d /\ g = NewerThan(items[i].mem[l], LastId(d, l))
  <2>1. PICK i \in 1 .. Len(items) :
              items[i].key = d /\ g = NewerThan(items[i].mem[l], LastId(d, l))
    BY <1>4
  <2> DEFINE all == log[d][l]
             mem == items[i].mem[l]
             have == copy[d][l]
  <2>2. MemOf(items, d)[l] = mem
    <3>1. MemOf(items, items[i].key) = items[i].mem
      BY <1>1, ItemOfIs
    <3> QED
      BY <2>1, <3>1
  <2>3. all \in Series /\ have \in Series /\ mem \in Series
    <3>1. items[i] \in Things
      BY <1>1
    <3> QED
      BY <1>1, <3>1 DEF Things
  <2>4. Rising(all) /\ IsEnd(mem, all) /\ \E p \in Nat : EndsAt(p, have, all)
    BY <1>1, <2>2 DEF PollingInv, MemoryIsEnd, CopyEnds
  <2>5. Held(d, l) = Len(all) + 1 - Len(mem)
    BY <1>1, <2>2, HeldIs
  <2>6. LastId(d, l) = IF have = <<>> THEN 0 ELSE Last(have).id
    BY DEF LastId
  <2>7. \A j \in 1 .. Len(items) : items[j].key = d => j = i
    BY <1>1, <2>1 DEF OneEach
  <2> HIDE DEF all, mem, have
  <2>8. PICK p \in Nat : EndsAt(p, have, all)
    BY <2>4
  <2>9. g \in Series /\ Follows(g, have, all, Len(all) + 1 - Len(mem)) /\ IsNewest(have \o g, mem)
    BY <2>1, <2>3, <2>4, <2>6, <2>8, NewerFollows DEF mem
  <2> QED
    BY <2>5, <2>7, <2>9 DEF all, mem, have, g
<1> QED
  BY <1>2, <1>3, <1>4 DEF RightlyGiven

\* A request keeps the invariant.
LEMMA AskKeeps ==
  ASSUME PollingInv, Ask
  PROVE  PollingInv'
<1>1. PollingTypes /\ InSession /\ CopyEnds
  BY DEF PollingInv
<1>2. /\ up /\ connected' = connected /\ seen' = seen /\ copy' = copy
      /\ UNCHANGED <<now, kind, serverVars>> /\ session' = session /\ log' = log
      /\ items' = items /\ up' = up
  BY DEF Ask, serverVars
<1>3. copy' \in [Device -> [Levels -> Series]] /\ seen' \in Int /\ seen' <= session
      /\ connected \in BOOLEAN
  BY <1>1, <1>2 DEF PollingTypes
<1>4. /\ PollingTypes' /\ InSession' /\ StoredRises' /\ OneItemEach' /\ MemoryIsEnd'
      /\ \A d \in Device, l \in Levels : Held(d, l)' = Held(d, l)
  BY <1>1, <1>2, <1>3, ServerKept DEF InSession
<1>5. CopyEnds'
  BY <1>1, <1>2 DEF CopyEnds
<1>6. ReplyFollows'
  <2> SUFFICES ASSUME NEW d \in Device, NEW l \in Levels
               PROVE  /\ Answered(reply'.items, d, l) \in Series
                      /\ Follows(Answered(reply'.items, d, l), copy[d][l], log[d][l], Held(d, l))
    BY <1>2, <1>4 DEF ReplyFollows, Given
  <2> QED
    BY AskGives
<1> QED
  BY <1>4, <1>5, <1>6 DEF PollingInv

\* The invariant holds at first.
LEMMA FirstHolds ==
  ASSUME PollingInit
  PROVE  PollingInv
<1>1. /\ now = 0 /\ kind \in Kinds /\ up = TRUE /\ session = 0 /\ ids = <<1, 0>>
      /\ items = <<>> /\ stored = [d \in Device |-> <<>>] /\ log = Nothing
      /\ connected = FALSE /\ seen = -1 /\ copy = Nothing /\ reply = NoReply
  BY DEF PollingInit
<1>2. <<>> \in Series /\ Len(<<>>) = 0
  BY EmptySeq DEF Series
<1>3. Nothing \in [Device -> [Levels -> Series]]
  BY <1>2 DEF Nothing
<1>4. ids \in [Levels -> Nat] /\ ids[2] = 0 /\ 0 \div 2 = 0
  BY <1>1 DEF Levels
<1>5. items \in Seq(Things) /\ stored \in [Device -> Series]
  BY <1>1, <1>2
<1>6. PollingTypes
  <2>1. now \in Nat /\ session \in Nat /\ session <= now /\ seen \in Int /\ seen <= session
    BY <1>1
  <2>2. kind \in Kinds /\ up \in BOOLEAN /\ connected \in BOOLEAN
    BY <1>1
  <2>3. log \in [Device -> [Levels -> Series]] /\ copy \in [Device -> [Levels -> Series]]
    BY <1>1, <1>3
  <2> QED
    BY <1>4, <1>5, <2>1, <2>2, <2>3, Zenon DEF PollingTypes
<1>7. InSession
  BY <1>1, <1>4 DEF InSession
<1>8. StoredRises
  <2> SUFFICES ASSUME NEW d \in Device
               PROVE  Rising(Reverse(stored[d])) /\ Reach(Reverse(stored[d]), now \div 2)
    BY DEF StoredRises
  <2>1. Len(Reverse(<<>>)) = 0
    BY <1>2, WholeReversed
  <2> QED
    BY <1>1, <2>1 DEF Rising, Reach
<1>9. OneItemEach
  BY <1>1, <1>2 DEF OneItemEach, OneEach, Devices
<1>10. MemoryIsEnd
  <2> SUFFICES ASSUME NEW d \in Device, NEW l \in Levels
               PROVE  /\ Rising(log[d][l]) /\ Reach(log[d][l], ids[l])
                      /\ IsEnd(MemOf(items, d)[l], log[d][l])
                      /\ Len(log[d][l]) = Len(MemOf(items, d)[l])
    BY DEF MemoryIsEnd
  <2>1. log[d][l] = <<>>
    BY <1>1 DEF Nothing
  <2>2. MemOf(items, d) = Item(d).mem
    BY <1>1, <1>2 DEF MemOf, KeysOf
  <2>3. Item(d).mem[l] = <<>>
    BY <1>1, <1>5, ItemIs DEF Levels
  <2> QED
    BY <1>2, <2>1, <2>2, <2>3 DEF Rising, Reach, IsEnd
<1>11. CopyEnds
  BY <1>1 DEF CopyEnds
<1>12. ReplyFollows
  BY <1>1, <1>2, NothingGiven DEF ReplyFollows, Given
<1> QED
  BY <1>6, <1>7, <1>8, <1>9, <1>10, <1>11, <1>12 DEF PollingInv

\* Every step keeps it.
LEMMA StepKeeps ==
  ASSUME PollingInv, [PollingNext]_pollingVars
  PROVE  PollingInv'
<1>1. CASE UNCHANGED pollingVars
  BY <1>1 DEF pollingVars, serverVars, clientVars, PollingInv, PollingTypes, InSession, StoredRises,
              OneItemEach, MemoryIsEnd, CopyEnds, ReplyFollows, Given, Held, Devices, MemOf, Item
<1>2. CASE \E listed \in Listings : Second(listed)
  BY <1>2, SecondKeeps
<1>3. CASE \E saves \in BOOLEAN : Stop(saves)
  BY <1>3, StopKeeps
<1>4. CASE Start
  BY <1>4, StartKeeps
<1>5. CASE Wait
  BY <1>5, WaitKeeps
<1>6. CASE Greet
  BY <1>6, GreetKeeps
<1>7. CASE Ask
  BY <1>7, AskKeeps
<1>8. CASE Deliver
  BY <1>8, DeliverKeeps
<1>9. CASE Disconnect
  BY <1>9, DisconnectKeeps
<1> QED
  BY <1>1, <1>2, <1>3, <1>4, <1>5, <1>6, <1>7, <1>8, <1>9 DEF PollingNext

(***************************************************************************)
(* The inductive invariant of polling: memories are ends of series with    *)
(* rising ids, over restarts and devices that go and come back, a client's *)
(* copy of the session ends in the series, and a reply on its way follows. *)
(***************************************************************************)
THEOREM PollingInvariant == PollingSpec => []PollingInv
<1>1. PollingInit => PollingInv
  BY FirstHolds
<1>2. PollingInv /\ [PollingNext]_pollingVars => PollingInv'
  BY StepKeeps
<1> QED
  BY <1>1, <1>2, PTL DEF PollingSpec

-----------------------------------------------------------------------------
\* What the client has of the session.
Mine == IF seen = session THEN copy ELSE Nothing

\* A series goes on by a sample at most, or what follows the copy arrives.
Measured(d, l) ==
    /\ Len(log'[d][l]) \in Len(log[d][l]) .. Len(log[d][l]) + 1
    /\ IsPrefix(log[d][l], log'[d][l])
    /\ Held(d, l)' >= Held(d, l)
    /\ Mine'[d][l] = Mine[d][l]

PlaceOf(d, l) == IF Mine[d][l] = <<>> THEN 0
                 ELSE SelectInSeq(log[d][l], LAMBDA x : x = Last(Mine[d][l]))

Received(d, l, from, to) ==
    /\ from > PlaceOf(d, l)
    /\ \A n \in PlaceOf(d, l) + 1 .. from - 1 : n < Held(d, l)
    /\ Mine'[d][l] = Mine[d][l] \o SubSeq(log[d][l], from, to)
    /\ log'[d][l] = log[d][l]
    /\ Held(d, l)' = Held(d, l)

GoesOnOrArrives(d, l) ==
    \/ Measured(d, l)
    \/ \E from, to \in 1 .. Len(log[d][l]) : Received(d, l, from, to)

\* What is held of a series is a number.
LEMMA HeldTyped ==
  ASSUME PollingInv, NEW d \in Device, NEW l \in Levels
  PROVE  /\ Held(d, l) \in Int /\ Len(log[d][l]) \in Nat
         /\ Held(d, l) <= Len(log[d][l]) + 1
<1>1. log[d][l] \in Series /\ items \in Seq(Things) /\ OneEach(items) /\ stored \in [Device -> Series]
      /\ (up \/ items = <<>>)
  BY DEF PollingInv, PollingTypes, OneItemEach
<1>2. Len(log[d][l]) \in Nat
  BY <1>1 DEF Series
<1>3. CASE up
  <2>1. MemOf(items, d)[l] \in Series
    BY <1>1, MemOfIs
  <2>2. Len(MemOf(items, d)[l]) \in Nat
    BY <2>1 DEF Series
  <2>3. Held(d, l) = Len(log[d][l]) + 1 - Len(MemOf(items, d)[l])
    BY <1>3, HeldIs
  <2> DEFINE N == Len(log[d][l])
             M == Len(MemOf(items, d)[l])
  <2>4. N \in Nat /\ M \in Nat /\ Held(d, l) = N + 1 - M
    BY <1>2, <2>2, <2>3
  <2> HIDE DEF N, M
  <2>5. Held(d, l) \in Int /\ Held(d, l) <= N + 1
    BY <2>4
  <2> QED
    BY <1>2, <2>5 DEF N
<1>4. CASE ~up
  <2>1. d \notin Devices
    BY <1>1, <1>4, EmptySeq DEF Devices
  <2>2. Held(d, l) = Len(log[d][l]) + 1
    BY <1>4, <2>1 DEF Held
  <2> QED
    BY <1>2, <2>2
<1> QED
  BY <1>3, <1>4

\* A series that goes on begins as it did.
LEMMA GoesOnIsPrefix ==
  ASSUME NEW all \in Series, NEW a \in Series, GoesOn(all, a)
  PROVE  IsPrefix(all, a)
<1>1. Len(all) \in Nat /\ Len(a) \in Nat /\ Len(all) <= Len(a)
  BY DEF Series, GoesOn
<1>2. SubSeq(all, 1, Len(all)) = [i \in 1 .. Len(all) |-> all[i]]
  BY <1>1 DEF Series
<1>3. SubSeq(a, 1, Len(all)) = [i \in 1 .. Len(all) |-> a[i]]
  BY <1>1 DEF Series
<1>4. \A i \in 1 .. Len(all) : a[i] = all[i]
  BY DEF GoesOn
<1> QED
  BY <1>1, <1>2, <1>3, <1>4 DEF IsPrefix

\* A series nothing happens to goes on.
LEMMA QuietIs ==
  ASSUME PollingInv, NEW d \in Device, NEW l \in Levels,
         log'[d][l] = log[d][l], Held(d, l)' = Held(d, l), Mine'[d][l] = Mine[d][l]
  PROVE  Measured(d, l)
<1>1. log[d][l] \in Series
  BY DEF PollingInv, PollingTypes
<1>2. Held(d, l) \in Int /\ Len(log[d][l]) \in Nat
  BY HeldTyped
<1>3. GoesOn(log[d][l], log[d][l])
  BY <1>2 DEF GoesOn
<1>4. IsPrefix(log[d][l], log[d][l])
  BY <1>1, <1>3, GoesOnIsPrefix
<1>5. Held(d, l)' >= Held(d, l)
  BY <1>2
<1>6. Len(log'[d][l]) \in Len(log[d][l]) .. Len(log[d][l]) + 1
  <2> DEFINE N == Len(log[d][l])
  <2>1. N \in Nat /\ Len(log'[d][l]) = N
    BY <1>2
  <2> HIDE DEF N
  <2>2. Len(log'[d][l]) \in N .. N + 1
    BY <2>1
  <2> QED
    BY <2>2 DEF N
<1> QED
  BY <1>4, <1>5, <1>6 DEF Measured

\* A second.
LEMMA SecondMeasures ==
  ASSUME PollingInv, NEW listed \in Listings, Second(listed), NEW d \in Device, NEW l \in Levels
  PROVE  Measured(d, l)
<1>1. seen' = seen /\ session' = session /\ copy' = copy
  BY DEF Second, clientVars
<1>2. /\ items \in Seq(Things) /\ OneEach(items) /\ stored \in [Device -> Series]
      /\ log \in [Device -> [Levels -> Series]]
  BY DEF PollingInv, PollingTypes, OneItemEach
<1>3. log[d][l] \in Series /\ MemOf(items, d)[l] \in Series
  BY <1>2, MemOfIs
<1>4. Grows(MemOf(items, d)[l], log[d][l], MemOf(items', d)[l], log'[d][l], ids'[l])
  BY SecondGrows DEF GrowsAll
<1>5. log'[d][l] \in Series
  BY <1>4 DEF Grows
<1>6. Len(log'[d][l]) \in Len(log[d][l]) .. Len(log[d][l]) + 1 /\ GoesOn(log[d][l], log'[d][l])
  BY <1>3, <1>4, GrowsSo
<1>7. IsPrefix(log[d][l], log'[d][l])
  BY <1>3, <1>5, <1>6, GoesOnIsPrefix
<1>8. Held(d, l)' >= Held(d, l)
  BY HeldLater
<1>9. Mine' = Mine
  BY <1>1 DEF Mine, Nothing
<1> QED
  BY <1>6, <1>7, <1>8, <1>9 DEF Measured

\* The end of the server.
LEMMA StopMeasures ==
  ASSUME PollingInv, NEW saves \in BOOLEAN, Stop(saves), NEW d \in Device, NEW l \in Levels
  PROVE  Measured(d, l)
<1>1. /\ seen' = seen /\ session' = session /\ copy' = copy /\ log' = log
      /\ up' = FALSE /\ items' = <<>>
  BY DEF Stop
<1>2. Held(d, l) \in Int /\ Held(d, l) <= Len(log[d][l]) + 1 /\ Len(log[d][l]) \in Nat
  BY HeldTyped
<1>3. Held(d, l)' = Len(log[d][l]) + 1
  BY <1>1, EmptySeq DEF Held, Devices
<1>4. Held(d, l)' >= Held(d, l)
  BY <1>2, <1>3
<1>5. GoesOn(log[d][l], log[d][l]) /\ log[d][l] \in Series
  BY <1>2 DEF GoesOn, PollingInv, PollingTypes
<1>6. IsPrefix(log[d][l], log'[d][l])
  BY <1>1, <1>5, GoesOnIsPrefix
<1>7. Len(log'[d][l]) \in Len(log[d][l]) .. Len(log[d][l]) + 1
  <2> DEFINE N == Len(log[d][l])
  <2>1. N \in Nat /\ Len(log'[d][l]) = N
    BY <1>1, <1>2
  <2> HIDE DEF N
  <2>2. Len(log'[d][l]) \in N .. N + 1
    BY <2>1
  <2> QED
    BY <2>2 DEF N
<1>8. Mine' = Mine
  BY <1>1 DEF Mine, Nothing
<1> QED
  BY <1>4, <1>6, <1>7, <1>8 DEF Measured

\* An answer that arrives.
LEMMA DeliverArrives ==
  ASSUME PollingInv, Deliver, NEW d \in Device, NEW l \in Levels
  PROVE  GoesOnOrArrives(d, l)
<1>1. /\ PollingTypes /\ InSession /\ CopyEnds /\ ReplyFollows /\ MemoryIsEnd
  BY DEF PollingInv
<1>2. /\ seen' = seen /\ session' = session /\ log' = log /\ items' = items /\ up' = up
      /\ copy' = [e \in Device |-> [m \in Levels |-> copy[e][m] \o Given(e, m)]]
  BY DEF Deliver, serverVars, Given
<1>3. copy[d][l] \in Series /\ log[d][l] \in Series /\ Given(d, l) \in Series
  BY <1>1 DEF PollingTypes, ReplyFollows
<1>4. Held(d, l)' = Held(d, l)
  BY <1>2 DEF Held, Devices
<1>5. CASE seen # session
  <2>1. Mine' = Mine
    BY <1>2, <1>5 DEF Mine, Nothing
  <2>2. Measured(d, l)
    BY <1>2, <1>4, <2>1, QuietIs
  <2> QED
    BY <2>2 DEF GoesOnOrArrives
<1>6. CASE seen = session
  <2>1. Mine[d][l] = copy[d][l] /\ Mine'[d][l] = copy[d][l] \o Given(d, l)
    BY <1>2, <1>6 DEF Mine
  <2>2. Follows(Given(d, l), copy[d][l], log[d][l], Held(d, l))
    BY <1>1, <1>6 DEF ReplyFollows
  <2>3. CASE Given(d, l) = <<>>
    <3>1. copy[d][l] \o <<>> = copy[d][l]
      BY <1>3 DEF Series
    <3>2. Mine'[d][l] = Mine[d][l]
      BY <2>1, <2>3, <3>1
    <3>3. Measured(d, l)
      BY <1>2, <1>4, <3>2, QuietIs
    <3> QED
      BY <3>3 DEF GoesOnOrArrives
  <2>4. CASE Given(d, l) # <<>>
    <3>1. PICK p \in 0 .. Len(log[d][l]), from \in 1 .. Len(log[d][l]), to \in 1 .. Len(log[d][l]) :
             /\ EndsAt(p, copy[d][l], log[d][l])
             /\ p < from /\ from <= to
             /\ \A n \in p + 1 .. from - 1 : n < Held(d, l)
             /\ Given(d, l) = SubSeq(log[d][l], from, to)
      BY <2>2, <2>4 DEF Follows
    <3>2. Rising(log[d][l])
      BY <1>1 DEF MemoryIsEnd
    <3>3. PlaceOf(d, l) = p
      <4>1. p = IF copy[d][l] = <<>> THEN 0
                ELSE SelectInSeq(log[d][l], LAMBDA x : x = Last(copy[d][l]))
        BY <1>3, <3>1, <3>2, PlaceIs
      <4> QED
        BY <2>1, <4>1 DEF PlaceOf
    <3>4. from > p
      BY <3>1
    <3>5. Received(d, l, from, to)
      BY <1>2, <1>4, <2>1, <3>1, <3>3, <3>4 DEF Received
    <3> QED
      BY <3>5 DEF GoesOnOrArrives
  <2> QED
    BY <2>3, <2>4
<1> QED
  BY <1>5, <1>6

\* Every step but the start of the server is one of each series.
LEMMA SeriesStep ==
  ASSUME PollingInv, PollingNext, ~Start
  PROVE  session' = session /\ \A d \in Device, l \in Levels : GoesOnOrArrives(d, l)
<1>1. CASE \E listed \in Listings : Second(listed)
  <2>1. session' = session
    BY <1>1 DEF Second
  <2> QED
    BY <1>1, <2>1, SecondMeasures DEF GoesOnOrArrives
<1>2. CASE \E saves \in BOOLEAN : Stop(saves)
  <2>1. session' = session
    BY <1>2 DEF Stop
  <2> QED
    BY <1>2, <2>1, StopMeasures DEF GoesOnOrArrives
<1>3. CASE Wait \/ Ask \/ Greet \/ Disconnect
  <2>1. /\ session' = session /\ log' = log /\ items' = items /\ up' = up
    BY <1>3 DEF Wait, Ask, Greet, Disconnect, serverVars
  <2>2. Mine' = Mine
    BY <1>3, <2>1 DEF Mine, Nothing, Wait, Ask, Greet, Disconnect, serverVars, clientVars
  <2>3. \A d \in Device, l \in Levels : Held(d, l)' = Held(d, l)
    BY <2>1 DEF Held, Devices
  <2>4. \A d \in Device, l \in Levels : Measured(d, l)
    BY <2>1, <2>2, <2>3, QuietIs
  <2> QED
    BY <2>1, <2>4 DEF GoesOnOrArrives
<1>4. CASE Deliver
  <2>1. session' = session
    BY <1>4 DEF Deliver, serverVars
  <2> QED
    BY <1>4, <2>1, DeliverArrives
<1> QED
  BY <1>1, <1>2, <1>3, <1>4 DEF PollingNext

(***************************************************************************)
(* Polling implements the copy it promises of each series: over lost       *)
(* replies, devices that come and go, and restarts, a copy only grows      *)
(* within a session, by samples that follow it, each once, and leaves out  *)
(* only what the server no longer holds.                                   *)
(***************************************************************************)
THEOREM CopyIsImplemented == PollingSpec => ImplementsSampleCopy
<1>1. PollingInit => Copied!Init
  <2> SUFFICES ASSUME PollingInit
               PROVE  SeriesOf(log) = [s \in Device \X Levels |-> <<>>] /\ SeriesOf(Mine) = [s \in Device \X Levels |-> <<>>]
    BY DEF Copied!Init, Copied!None, Mine
  <2>1. log = Nothing /\ Mine = Nothing
    BY DEF PollingInit, Mine
  <2> QED
    BY <2>1 DEF SeriesOf, Nothing
<1>2. PollingInv /\ [PollingNext]_pollingVars => [Copied!Next]_(Copied!vars)
  <2> SUFFICES ASSUME PollingInv, [PollingNext]_pollingVars
               PROVE  Copied!Next \/ UNCHANGED Copied!vars
    OBVIOUS
  <2>1. CASE UNCHANGED pollingVars
    <3>1. UNCHANGED Copied!vars
      BY <2>1 DEF pollingVars, serverVars, clientVars, Copied!vars, SeriesOf, Held, Devices, Nothing
    <3> QED
      BY <3>1
  <2>2. CASE Start
    <3>1. session' # session /\ seen # session' /\ seen' = seen
      BY <2>2, StartKeeps DEF Start, clientVars
    <3>2. Mine' = Nothing
      BY <3>1 DEF Mine, Nothing
    <3>3. SeriesOf(Mine)' = [s \in Device \X Levels |-> <<>>]
      BY <3>2 DEF SeriesOf, Nothing
    <3>4. Copied!Restart
      BY <3>1, <3>3 DEF Copied!Restart, Copied!None, Mine
    <3> QED
      BY <3>4 DEF Copied!Next
  <2>3. CASE PollingNext /\ ~Start
    <3>1. session' = session /\ \A d \in Device, l \in Levels : GoesOnOrArrives(d, l)
      BY <2>3, SeriesStep
    <3>2. ASSUME NEW s \in Device \X Levels
          PROVE  \/ Copied!Measure(s)
                 \/ \E from, to \in 1 .. Len(SeriesOf(log)[s]) : Copied!Receive(s, from, to)
      <4> DEFINE d == s[1]
                 l == s[2]
      <4>1. d \in Device /\ l \in Levels
        OBVIOUS
      <4>2. /\ SeriesOf(log)[s] = log[d][l] /\ SeriesOf(log)'[s] = log'[d][l]
            /\ SeriesOf(Mine)[s] = Mine[d][l] /\ SeriesOf(Mine)'[s] = Mine'[d][l]
        BY DEF SeriesOf
      <4> DEFINE held == [r \in Device \X Levels |-> Held(r[1], r[2])]
      <4>5. held[s] = Held(d, l) /\ held'[s] = Held(d, l)'
        OBVIOUS
      <4>6. \A a, b : Copied!IsPrefix(a, b) <=> IsPrefix(a, b)
        BY DEF Copied!IsPrefix, IsPrefix
      <4>7. Copied!Position(s) = PlaceOf(d, l)
        <5>1. \A q : Copied!Last(q) = Last(q)
          BY DEF Copied!Last, Last
        <5>2. \A S : Copied!Min(S) = Min(S)
          BY DEF Copied!Min, Min
        <5>3. SeriesOf(Mine)[s] = SeriesOf(IF seen = session THEN copy ELSE Nothing)[s]
          BY DEF Mine
        <5> HIDE DEF d, l
        <5> DEFINE all == log[d][l]
                   have == Mine[d][l]
                   I == {i \in 1 .. Len(all) : all[i] = Last(have)}
        <5>4. Copied!Position(s) = IF have = <<>> THEN 0 ELSE IF I # {} THEN Min(I) ELSE 0
          BY <4>2, <5>1, <5>2, <5>3 DEF Copied!Position, Copied!SelectInSeq
        <5>5. PlaceOf(d, l) = IF have = <<>> THEN 0 ELSE IF I # {} THEN Min(I) ELSE 0
          BY DEF PlaceOf, SelectInSeq
        <5> QED
          BY <5>4, <5>5
      <4> HIDE DEF d, l, held
      <4>3. CASE Measured(d, l)
        <5>1. Copied!Measure(s)
          BY <4>2, <4>3, <4>5, <4>6 DEF Measured, Copied!Measure, Mine, held
        <5> QED
          BY <5>1
      <4>4. CASE \E from, to \in 1 .. Len(log[d][l]) : Received(d, l, from, to)
        <5>1. PICK from \in 1 .. Len(log[d][l]), to \in 1 .. Len(log[d][l]) : Received(d, l, from, to)
          BY <4>4
        <5>2. Copied!Receive(s, from, to)
          BY <4>2, <4>5, <4>7, <5>1 DEF Received, Copied!Receive, Mine, held
        <5> QED
          BY <4>2, <5>1, <5>2
      <4> QED
        BY <3>1, <4>1, <4>3, <4>4 DEF GoesOnOrArrives
    <3> QED
      BY <3>1, <3>2 DEF Copied!Next
  <2> QED
    BY <2>1, <2>2, <2>3
<1> QED
  BY <1>1, <1>2, PollingInvariant, PTL DEF PollingSpec, ImplementsSampleCopy, Copied!Spec

(***************************************************************************)
(* With the answer to a request the client has, of every device the        *)
(* collector shows, the newest sample the server has.                      *)
(***************************************************************************)
THEOREM AnswersComplete == PollingSpec => AnswersAreComplete
<1> DEFINE Complete ==
              \A i \in 1 .. Len(items), l \in Levels :
                 LET item == items[i]
                     all  == copy[item.key][l] \o Answered(reply'.items, item.key, l)
                 IN  Shown(kind, item) /\ item.mem[l] # <<>> =>
                         all # <<>> /\ Last(all) = item.mem[l][1]
<1>1. PollingInv /\ [PollingNext]_pollingVars => [Ask => Complete]_pollingVars
  <2> SUFFICES ASSUME PollingInv, Ask, NEW i \in 1 .. Len(items), NEW l \in Levels, Shown(kind, items[i])
               PROVE  IsNewest(copy[items[i].key][l] \o Answered(reply'.items, items[i].key, l),
                               items[i].mem[l])
    BY DEF IsNewest
  <2>1. items[i].key \in Device
    BY ThingsAre DEF PollingInv, PollingTypes
  <2> QED
    BY <2>1, AskGives
<1> QED
  BY <1>1, PollingInvariant, PTL DEF PollingSpec, AnswersAreComplete
==============================================================================
