-------------------------- MODULE Connection_proofs --------------------------
(***************************************************************************)
(* Proofs about a connection.  First its replies, for data of any length,  *)
(* any room in the kernel and any number of replies; then its requests,    *)
(* for any number of messages of any of the kinds, cut anywhere.           *)
(***************************************************************************)
EXTENDS Connection, SequenceFacts, TLAPS

(***************************************************************************)
(* The types of the sender's variables.  At most two calls are to be made, *)
(* none of them empty, and at most one record waits in the TLS library.    *)
(***************************************************************************)
SenderTypes ==
    /\ tls \in BOOLEAN /\ gone \in BOOLEAN
    /\ replies \in 0 .. MaxReplies
    /\ promised \in Seq(AllPieces)
    /\ calls \in Seq(Seq(AllPieces) \ {<<>>}) /\ Len(calls) <= 2
    /\ held \in Seq(AllPieces) /\ Len(held) <= 1
    /\ wire \in Seq(AllPieces) /\ Len(wire) <= Room
    /\ got \in Seq(AllPieces)
    /\ lost \subseteq AllPieces

(***************************************************************************)
(* The inductive invariant.  No piece is promised twice, and none of a     *)
(* later reply has been.  A record that waits is the piece the sender is   *)
(* at, or one given up, with the client's pieces in front of it and those  *)
(* still to be written behind it: when it is written late after all, it    *)
(* falls into its place.                                                   *)
(***************************************************************************)
PromisedOnce ==
    /\ Once(promised)
    /\ \A p \in Range(promised) : p.reply <= replies
    /\ lost \subseteq Range(promised)

\* In the order they go out.
Delivered == got \o wire
Unwritten == FlattenSeq(calls)

Accounted == Only(promised, AllPieces \ lost) = Delivered \o Unwritten

LaterPlaces == \A i \in 1 .. Len(calls) : \A j \in 2 .. Len(calls[i]) : calls[i][j].place > 0

HeldInPlace ==
    held # <<>> =>
        /\ tls
        /\ Head(held) \notin lost => calls # <<>> /\ Head(held) = Next8192
        /\ Head(held) \in lost =>
             Stands(Head(held), Delivered, Unwritten,
                    promised, AllPieces \ lost, AllPieces)

DataIsLost ==
    tls /\ ~gone /\ lost # {} => \E p \in lost \ Range(held) : p.place > 0

SenderInv ==
    /\ SenderTypes
    /\ PromisedOnce
    /\ Accounted
    /\ LaterPlaces
    /\ HeldInPlace
    /\ DataIsLost

-----------------------------------------------------------------------------
(***************************************************************************)
(* The pieces of the calls still to be made, one behind the other.         *)
(***************************************************************************)
CallLists == Seq(Seq(AllPieces) \ {<<>>})

\* The first call's pieces come first, whatever other calls there are.
LEMMA FlattenFirst ==
  ASSUME NEW cs \in CallLists, cs # <<>>, Len(cs) <= 2
  PROVE  /\ Head(cs) \in Seq(AllPieces) /\ Head(cs) # <<>>
         /\ Tail(cs) \in CallLists /\ Len(Tail(cs)) <= 1
         /\ FlattenSeq(Tail(cs)) \in Seq(AllPieces)
         /\ FlattenSeq(cs) = Head(cs) \o FlattenSeq(Tail(cs))
<1>1. /\ Head(cs) \in Seq(AllPieces) /\ Head(cs) # <<>>
      /\ Tail(cs) \in CallLists /\ Len(Tail(cs)) = Len(cs) - 1
      /\ Len(cs) \in Nat \ {0}
  BY HeadTailProperties, EmptySeq DEF CallLists
<1>2. cs \in Seq(Seq(AllPieces))
  <2>1. Seq(AllPieces) \ {<<>>} \subseteq Seq(AllPieces)
    OBVIOUS
  <2> QED
    BY <2>1, SeqMonotonic DEF CallLists
<1>3. /\ FlattenSeq(Tail(cs)) \in Seq(AllPieces)
      /\ FlattenSeq(cs) = Head(cs) \o FlattenSeq(Tail(cs))
  BY <1>2, FlattenHead
<1> QED
  BY <1>1, <1>3

\* The pieces of calls are pieces.
LEMMA FlattenType ==
  ASSUME NEW cs \in CallLists, Len(cs) <= 2
  PROVE  FlattenSeq(cs) \in Seq(AllPieces)
<1>1. CASE cs = <<>>
  BY <1>1, FlattenNone, EmptySeq
<1>2. CASE cs # <<>>
  BY <1>2, FlattenFirst, ConcatProperties
<1> QED
  BY <1>1, <1>2

-----------------------------------------------------------------------------
(***************************************************************************)
(* A reply begun: pieces nobody has promised before.                       *)
(***************************************************************************)
LEMMA NewReply ==
  ASSUME NEW n \in 1 .. MaxReplies, NEW reply, reply = Short(n) \/ reply = Large(n)
  PROVE  /\ reply \in CallLists /\ Len(reply) <= 2
         /\ Once(FlattenSeq(reply))
         /\ \A p \in Range(FlattenSeq(reply)) : p.reply = n
         /\ \A i \in 1 .. Len(reply) : \A j \in 2 .. Len(reply[i]) : reply[i][j].place > 0
<1> USE SenderAssumption
<1> DEFINE h == <<Piece(n, 0)>>
           data == [i \in 1 .. Pieces |-> Piece(n, i)]
<1>1. \A i \in 0 .. Pieces : /\ Piece(n, i) \in AllPieces
                             /\ Piece(n, i).reply = n /\ Piece(n, i).place = i
  BY DEF Piece, AllPieces
<1>2. 0 \in 0 .. Pieces /\ Pieces \in Nat \ {0}
  OBVIOUS
<1>3. h \in Seq(AllPieces) /\ Len(h) = 1 /\ h[1] = Piece(n, 0)
  BY <1>1, <1>2
<1>4. data \in Seq(AllPieces) /\ Len(data) = Pieces /\ \A i \in 1 .. Pieces : data[i] = Piece(n, i)
  <2>1. \A i \in 1 .. Pieces : Piece(n, i) \in AllPieces
    BY <1>1
  <2> QED
    BY <1>2, <2>1
<1> HIDE DEF h, data
<1>5. h # <<>> /\ data # <<>> /\ h \in Seq(AllPieces) \ {<<>>} /\ data \in Seq(AllPieces) \ {<<>>}
  BY <1>2, <1>3, <1>4, EmptySeq, SMTT(30)
<1>6. Once(h) /\ Range(h) = {Piece(n, 0)}
  <2>1. Range(h) = {h[i] : i \in 1 .. Len(h)}
    BY <1>3, RangeEquality
  <2> QED
    BY <1>3, <2>1 DEF Once
<1>7. Once(data) /\ Range(data) = {Piece(n, i) : i \in 1 .. Pieces}
  <2>1. Range(data) = {data[i] : i \in 1 .. Len(data)}
    BY <1>4, RangeEquality
  <2>2. \A i, j \in 1 .. Pieces : Piece(n, i) = Piece(n, j) => i = j
    BY <1>1
  <2> QED
    BY <1>4, <2>1, <2>2 DEF Once
<1>8. Once(h \o data) /\ Range(h \o data) = Range(h) \cup Range(data)
  <2>1. Range(h) \cap Range(data) = {}
    BY <1>1, <1>2, <1>6, <1>7
  <2> QED
    BY <1>3, <1>4, <1>6, <1>7, <2>1, OnceConcat, RangeConcatenation
<1>9. CASE reply = Short(n)
  <2>1. reply = <<h>>
    BY <1>9 DEF Short, h
  <2>2. reply \in CallLists /\ Len(reply) = 1 /\ reply[1] = h
    BY <1>5, <2>1 DEF CallLists
  <2>3. FlattenSeq(reply) = h
    BY <1>3, <2>1, FlattenOne
  <2>4. \A p \in Range(h) : p.reply = n
    BY <1>1, <1>2, <1>6
  <2>5. \A i \in 1 .. Len(reply) : Len(reply[i]) = 1
    BY <1>3, <2>2
  <2> QED
    BY <1>6, <2>2, <2>3, <2>4, <2>5
<1>10. CASE reply = Large(n)
  <2>1. reply = <<h, data>>
    BY <1>10 DEF Large, h, data
  <2>2. reply \in CallLists /\ Len(reply) = 2 /\ reply[1] = h /\ reply[2] = data
    BY <1>5, <2>1 DEF CallLists
  <2>3. FlattenSeq(reply) = h \o data
    BY <1>3, <1>4, <2>1, FlattenTwo
  <2>4. \A p \in Range(h \o data) : p.reply = n
    BY <1>1, <1>2, <1>6, <1>7, <1>8
  <2>5. ASSUME NEW i \in 1 .. Len(reply), NEW j \in 2 .. Len(reply[i]) PROVE reply[i][j].place > 0
    <3>1. i = 2
      <4>1. i = 1 \/ i = 2
        BY <2>2
      <4>2. i = 1 => j \in 2 .. 1
        BY <1>3, <2>2
      <4> QED
        BY <4>1, <4>2
    <3>2. j \in 1 .. Pieces /\ j > 0
      BY <1>4, <2>2, <3>1
    <3> QED
      BY <1>1, <1>4, <2>2, <3>1, <3>2
  <2> QED
    BY <1>8, <2>2, <2>3, <2>4, <2>5
<1> QED
  BY <1>9, <1>10

\* Nothing else is due when a reply is begun: its pieces come last.
LEMMA BeginReplyStep ==
  ASSUME SenderInv, NEW reply, BeginReply(reply),
         reply = Short(replies + 1) \/ reply = Large(replies + 1)
  PROVE  SenderInv'
<1> DEFINE T == AllPieces
           r == FlattenSeq(reply)
           n == replies + 1
<1>1. SenderTypes /\ PromisedOnce /\ Accounted /\ HeldInPlace /\ DataIsLost
  BY DEF SenderInv
<1>2. /\ calls = <<>> /\ replies' = n /\ calls' = reply /\ promised' = promised \o r
      /\ replies < MaxReplies /\ UNCHANGED <<tls, held, wire, got, gone, lost>>
  BY DEF BeginReply
<1>3. n \in 1 .. MaxReplies /\ replies \in Nat /\ MaxReplies \in Nat
  BY <1>1, <1>2, SenderAssumption DEF SenderTypes
<1>4. /\ reply \in CallLists /\ Len(reply) <= 2 /\ Once(r)
      /\ \A p \in Range(r) : p.reply = n
      /\ \A i \in 1 .. Len(reply) : \A j \in 2 .. Len(reply[i]) : reply[i][j].place > 0
  <2> HIDE DEF n
  <2> QED
    BY <1>3, NewReply DEF n
<1>5. r \in Seq(T)
  BY <1>4, FlattenType
<1> HIDE DEF r
<1>6. promised \in Seq(T) /\ promised' \in Seq(T)
  BY <1>1, <1>2, <1>5 DEF SenderTypes
<1>7. SenderTypes'
  BY <1>1, <1>2, <1>3, <1>4, <1>6 DEF SenderTypes, CallLists
<1>8. \A p \in Range(promised) : p.reply <= replies
  BY <1>1 DEF PromisedOnce
<1>9. Range(r) \cap Range(promised) = {} /\ lost \subseteq Range(promised)
  <2>1. ~ (n <= replies)
    BY <1>3
  <2> HIDE DEF n
  <2> QED
    BY <1>1, <1>4, <1>8, <2>1 DEF PromisedOnce
<1>10. PromisedOnce'
  <2>1. Once(promised') /\ Range(promised') = Range(promised) \cup Range(r)
    BY <1>1, <1>2, <1>4, <1>5, <1>6, <1>9, OnceConcat, RangeConcatenation DEF PromisedOnce
  <2>2. \A p \in Range(promised) : p.reply \in Nat
    <3>1. Range(promised) \subseteq T
      BY <1>6, RangeOfSeq
    <3> QED
      BY <3>1, <1>3 DEF AllPieces
  <2>3. \A p \in Range(promised') : p.reply <= n
    BY <1>3, <1>4, <1>8, <2>1, <2>2
  <2> QED
    BY <1>1, <1>2, <1>9, <2>1, <2>3 DEF PromisedOnce
<1>11. Only(r, T \ lost) = r
  BY <1>5, <1>9, OnlyApart
<1>12. Unwritten = <<>> /\ Unwritten' = r /\ Delivered' = Delivered /\ Delivered \in Seq(T)
       /\ Delivered \o <<>> = Delivered
  <2>1. got \in Seq(T) /\ wire \in Seq(T)
    BY <1>1 DEF SenderTypes
  <2>2. Delivered \in Seq(T)
    BY <2>1, ConcatProperties DEF Delivered
  <2> QED
    BY <1>2, <2>2, FlattenNone, ConcatEmptySeq DEF Unwritten, Delivered, r
<1>13. Accounted'
  <2>1. Only(promised \o r, T \ lost) = Only(promised, T \ lost) \o Only(r, T \ lost)
    BY <1>5, <1>6, OnlyConcat
  <2>2. Only(promised, T \ lost) = Delivered
    BY <1>1, <1>12 DEF Accounted
  <2> QED
    BY <1>2, <1>11, <1>12, <2>1, <2>2 DEF Accounted
<1>14. LaterPlaces'
  BY <1>2, <1>4 DEF LaterPlaces
<1>15. HeldInPlace'
  <2> SUFFICES ASSUME held # <<>> PROVE HeldInPlace'
    BY <1>2 DEF HeldInPlace
  <2>1. tls /\ Head(held) \in lost
    BY <1>1, <1>2 DEF HeldInPlace
  <2>2. PICK before \in Seq(T), behind \in Seq(T) :
               /\ promised = before \o (<<Head(held)>> \o behind)
               /\ Only(before, T \ lost) = Delivered
               /\ Only(behind, T \ lost) = Unwritten
    BY <1>1, <2>1 DEF HeldInPlace, Stands
  <2>3. behind \o r \in Seq(T) /\ <<Head(held)>> \in Seq(T) /\ <<Head(held)>> \o behind \in Seq(T)
    BY <1>1, <1>5, <2>1, <2>2 DEF SenderTypes
  <2>4. promised' = before \o (<<Head(held)>> \o (behind \o r))
    <3>1. \A u, v, w \in Seq(T) : (u \o v) \o w = u \o (v \o w)
      BY ConcatAssociative, SMTT(30)
    <3>2. (<<Head(held)>> \o behind) \o r = <<Head(held)>> \o (behind \o r)
      BY <1>5, <2>2, <2>3, <3>1, SMTT(30)
    <3>3. (before \o (<<Head(held)>> \o behind)) \o r = before \o ((<<Head(held)>> \o behind) \o r)
      BY <1>5, <2>2, <2>3, <3>1, SMTT(30)
    <3> QED
      BY <1>2, <2>2, <3>2, <3>3, Zenon
  <2>5. Only(behind \o r, T \ lost) = Unwritten'
    <3>1. Only(behind \o r, T \ lost) = Only(behind, T \ lost) \o Only(r, T \ lost)
      BY <1>5, <2>2, OnlyConcat
    <3>2. <<>> \o r = r
      BY <1>5, ConcatEmptySeq
    <3> QED
      BY <1>11, <1>12, <2>2, <3>1, <3>2
  <2>6. Stands(Head(held), Delivered, Unwritten', promised', T \ lost, T)
    BY <2>2, <2>3, <2>4, <2>5, Zenon DEF Stands
  <2> QED
    BY <1>2, <1>12, <2>1, <2>6 DEF HeldInPlace
<1>16. DataIsLost'
  BY <1>1, <1>2 DEF DataIsLost
<1> QED
  BY <1>7, <1>10, <1>13, <1>14, <1>15, <1>16 DEF SenderInv

-----------------------------------------------------------------------------
(***************************************************************************)
(* A call under way: what it has still to write, and what comes behind it. *)
(***************************************************************************)
Later == FlattenSeq(Tail(calls))

\* While a call is under way, its pieces are what is to be written next.
LEMMA CallUnderWay ==
  ASSUME SenderInv, calls # <<>>
  PROVE  /\ Head(calls) \in Seq(AllPieces) /\ Head(calls) # <<>>
         /\ Tail(calls) \in CallLists /\ Len(Tail(calls)) <= 1
         /\ Later \in Seq(AllPieces) /\ Delivered \in Seq(AllPieces)
         /\ promised \in Seq(AllPieces)
         /\ Unwritten = Head(calls) \o Later
         /\ Only(promised, AllPieces \ lost) = Delivered \o (Head(calls) \o Later)
         /\ Once(Delivered \o (Head(calls) \o Later))
         /\ Range(Head(calls)) \subseteq Range(promised) \ lost
<1> DEFINE T == AllPieces
           h == Head(calls)
           S == T \ lost
<1>1. SenderTypes /\ PromisedOnce /\ Accounted
  BY DEF SenderInv
<1>2. /\ h \in Seq(T) /\ h # <<>> /\ Tail(calls) \in CallLists /\ Len(Tail(calls)) <= 1
      /\ Later \in Seq(T) /\ Unwritten = h \o Later
  BY <1>1, FlattenFirst DEF SenderTypes, CallLists, Later, Unwritten
<1>3. promised \in Seq(T) /\ got \in Seq(T) /\ wire \in Seq(T) /\ Once(promised)
  BY <1>1 DEF SenderTypes, PromisedOnce
<1>4. Delivered \in Seq(T)
  BY <1>3, ConcatProperties DEF Delivered
<1> HIDE DEF h
<1>5. Only(promised, S) = Delivered \o (h \o Later)
  BY <1>1, <1>2 DEF Accounted
<1>6. Once(Delivered \o (h \o Later))
  BY <1>3, <1>5, OnlyOnce
<1>7. Range(Delivered \o (h \o Later)) = Range(promised) \cap S
  BY <1>3, <1>5, OnlyElements
<1>8. Range(h) \subseteq Range(Delivered \o (h \o Later))
  <2>1. h \o Later \in Seq(T)
    BY <1>2, ConcatProperties
  <2>2. Range(h \o Later) = Range(h) \cup Range(Later)
    BY <1>2, RangeConcatenation
  <2>3. \A r \in Seq(T) : Range(Delivered \o r) = Range(Delivered) \cup Range(r)
    BY <1>4, RangeConcatenation
  <2>4. Range(Delivered \o (h \o Later)) = Range(Delivered) \cup Range(h \o Later)
    BY <2>1, <2>3, Zenon
  <2> QED
    BY <2>2, <2>4
<1> QED
  BY <1>2, <1>3, <1>4, <1>5, <1>6, <1>7, <1>8 DEF h

\* The piece a call is at, and the call without it.
LEMMA CallShortened ==
  ASSUME SenderInv, calls # <<>>
  PROVE  /\ Next8192 \in AllPieces /\ Next8192 \in Range(promised) \ lost
         /\ Tail(Head(calls)) \in Seq(AllPieces)
         /\ Head(calls) = <<Next8192>> \o Tail(Head(calls))
         /\ Shortened \in CallLists /\ Len(Shortened) <= 2
         /\ FlattenSeq(Shortened) = Tail(Head(calls)) \o Later
         /\ LaterPlaces =>
               \A i \in 1 .. Len(Shortened) : \A j \in 2 .. Len(Shortened[i]) :
                  Shortened[i][j].place > 0
<1> DEFINE T == AllPieces
           h == Head(calls)
           t == Tail(h)
           cs == Tail(calls)
           x == Next8192
<1>1. /\ h \in Seq(T) /\ h # <<>> /\ cs \in CallLists /\ Len(cs) <= 1
      /\ Later \in Seq(T) /\ Range(h) \subseteq Range(promised) \ lost
  BY CallUnderWay
<1>2. calls \in Seq(Seq(T) \ {<<>>}) /\ Len(calls) <= 2
  BY DEF SenderInv, SenderTypes
<1>3. x = h[1] /\ x \in T /\ t \in Seq(T) /\ Len(t) = Len(h) - 1 /\ Len(h) \in Nat \ {0}
      /\ \A i \in 1 .. Len(t) : t[i] = h[i + 1]
  BY <1>1, HeadTailProperties, EmptySeq DEF Next8192
<1>4. x \in Range(h)
  BY <1>1, <1>3, RangeEquality
<1>5. h = <<x>> \o t
  <2>1. SubSeq(h, 1, Len(h)) = <<h[1]>> \o SubSeq(h, 1 + 1, Len(h))
    BY <1>1, <1>3, SubSeqRecursiveFirst
  <2>2. SubSeq(h, 1, Len(h)) = h /\ Tail(h) = SubSeq(h, 2, Len(h))
    BY <1>1, SubSeqFull, TailIsSubSeq
  <2> QED
    BY <1>3, <2>1, <2>2
<1>6. cs \in Seq(Seq(T) \ {<<>>}) /\ Len(cs) = Len(calls) - 1 /\ Len(calls) \in Nat \ {0}
      /\ \A i \in 1 .. Len(cs) : cs[i] = calls[i + 1]
      /\ h = calls[1]
  BY <1>2, HeadTailProperties, EmptySeq
<1>7. CASE Len(h) = 1
  <2>1. Shortened = cs /\ t = <<>>
    BY <1>1, <1>7, SeqOfOne DEF Shortened
  <2>2. FlattenSeq(Shortened) = t \o Later
    BY <1>1, <2>1, ConcatEmptySeq DEF Later
  <2>3. ASSUME LaterPlaces, NEW i \in 1 .. Len(cs), NEW j \in 2 .. Len(cs[i])
        PROVE  cs[i][j].place > 0
    <3>1. i + 1 \in 1 .. Len(calls) /\ cs[i] = calls[i + 1]
      BY <1>6
    <3> QED
      BY <2>3, <3>1 DEF LaterPlaces
  <2>4. LaterPlaces => \A i \in 1 .. Len(Shortened) : \A j \in 2 .. Len(Shortened[i]) :
                          Shortened[i][j].place > 0
    BY <2>1, <2>3
  <2>5. Shortened \in CallLists /\ Len(Shortened) <= 2
    BY <1>1, <1>2, <1>6, <2>1
  <2> HIDE DEF h, t, x
  <2> QED
    BY <1>1, <1>3, <1>4, <1>5, <2>2, <2>4, <2>5 DEF h, t, x
<1>8. CASE Len(h) # 1
  <2>1. Shortened = <<t>> \o cs /\ t # <<>>
    <3>1. Shortened = <<t>> \o cs
      BY <1>8, Zenon DEF Shortened
    <3>2. Len(t) # 0
      BY <1>3, <1>8
    <3> HIDE DEF t
    <3>3. t # <<>>
      BY <3>2, EmptySeq
    <3> QED
      BY <3>1, <3>3
  <2> DEFINE A == Seq(T) \ {<<>>}
             sh == <<t>> \o cs
  <2>2. t \in A /\ cs \in Seq(A)
    BY <1>3, <1>6, <2>1
  <2>3. /\ sh \in Seq(A) /\ Len(sh) = 1 + Len(cs) /\ sh # <<>> /\ Len(cs) \in Nat
        /\ sh[1] = t /\ \A i \in 1 .. Len(cs) : sh[i + 1] = cs[i]
        /\ Head(sh) = t /\ Tail(sh) = cs
    <3> HIDE DEF A, t, cs
    <3> QED
      BY <2>2
  <2>4. Len(sh) <= 2 /\ sh \in CallLists
    BY <1>1, <2>3 DEF CallLists
  <2>5. FlattenSeq(sh) = t \o FlattenSeq(cs)
    <3> HIDE DEF sh
    <3> QED
      BY <2>3, <2>4, FlattenFirst
  <2>6. ASSUME LaterPlaces, NEW i \in 1 .. Len(sh), NEW j \in 2 .. Len(sh[i])
        PROVE  sh[i][j].place > 0
    <3>1. CASE i = 1
      <4>1. j + 1 \in 2 .. Len(calls[1]) /\ sh[i][j] = calls[1][j + 1]
        BY <1>3, <1>6, <2>3, <2>6, <3>1
      <4> QED
        BY <1>6, <2>6, <4>1 DEF LaterPlaces
    <3>2. CASE i # 1
      <4> DEFINE k == i - 1
      <4>1. k \in 1 .. Len(cs) /\ i = k + 1
        BY <2>3, <3>2
      <4>2. sh[i] = cs[k] /\ i \in 1 .. Len(calls) /\ cs[k] = calls[i]
        BY <1>6, <2>3, <4>1
      <4> QED
        BY <2>6, <4>2 DEF LaterPlaces
    <3> QED
      BY <3>1, <3>2
  <2>7. LaterPlaces => \A i \in 1 .. Len(Shortened) : \A j \in 2 .. Len(Shortened[i]) :
                          Shortened[i][j].place > 0
    BY <2>1, <2>6
  <2>8. Shortened \in CallLists /\ Len(Shortened) <= 2 /\ FlattenSeq(Shortened) = t \o Later
    BY <2>1, <2>4, <2>5 DEF Later
  <2> HIDE DEF h, t, x
  <2> QED
    BY <1>1, <1>3, <1>4, <1>5, <2>7, <2>8 DEF h, t, x
<1> QED
  BY <1>7, <1>8

(***************************************************************************)
(* Where a record that waits stands among what was promised: behind what   *)
(* was delivered, in front of what is still to be written.                 *)
(***************************************************************************)
LEMMA HeldStands ==
  ASSUME SenderInv, calls # <<>>, held # <<>>
  PROVE  /\ Head(held) \in AllPieces
         /\ Stands(Head(held), Delivered,
                   IF Head(held) \in lost THEN Head(calls) \o Later
                   ELSE Tail(Head(calls)) \o Later,
                   promised, AllPieces \ lost, AllPieces)
<1> DEFINE T == AllPieces
           S == T \ lost
           y == Head(held)
           h == Head(calls)
           t == Tail(h)
<1>1. HeldInPlace /\ SenderTypes
  BY DEF SenderInv
<1>2. y \in T
  BY <1>1, HeadTailProperties DEF SenderTypes
<1>3. CASE y \in lost
  <2>1. Unwritten = h \o Later
    BY CallUnderWay
  <2> QED
    BY <1>1, <1>2, <1>3, <2>1 DEF HeldInPlace
<1>4. CASE y \notin lost
  <2>1. y = Next8192
    BY <1>1, <1>4 DEF HeldInPlace
  <2>2. t \in Seq(T) /\ h = <<y>> \o t
    BY <2>1, CallShortened
  <2>3. Only(promised, S) = Delivered \o (h \o Later)
    BY CallUnderWay
  <2>4. promised \in Seq(T) /\ Delivered \in Seq(T) /\ Later \in Seq(T)
    BY CallUnderWay
  <2>5. Once(promised) /\ y \in T \cap S
    BY <1>2, <1>4 DEF SenderInv, PromisedOnce
  <2>6. <<y>> \in Seq(T) /\ t \o Later \in Seq(T)
    BY <1>2, <2>2, <2>4, ConcatProperties
  <2> HIDE DEF T, y, t, h, S
  <2>7. h \o Later = <<y>> \o (t \o Later)
    <3>1. \A u, v, w \in Seq(T) : (u \o v) \o w = u \o (v \o w)
      BY ConcatAssociative
    <3> DEFINE one == <<y>>
    <3>2. one \in Seq(T) /\ t \in Seq(T) /\ Later \in Seq(T)
      BY <2>2, <2>4, <2>6
    <3> HIDE DEF one
    <3>3. (one \o t) \o Later = one \o (t \o Later)
      BY <3>1, <3>2, Zenon
    <3> QED
      BY <2>2, <3>3, Zenon DEF one
  <2>8. Only(promised, S) = Delivered \o (<<y>> \o (t \o Later))
    BY <2>3, <2>7, Zenon
  <2>9. Stands(y, Delivered, t \o Later, promised, S, T)
    BY <2>4, <2>5, <2>6, <2>8, OnlyAround, Zenon
  <2> QED
    BY <1>2, <1>4, <2>9 DEF T, y, t, h, S
<1> QED
  BY <1>3, <1>4

\* What holds of the pieces of all calls holds without the first.
LEMMA LaterKept ==
  ASSUME SenderTypes, LaterPlaces, calls # <<>>, calls' = Tail(calls)
  PROVE  LaterPlaces'
<1> DEFINE cs == Tail(calls)
<1>1. calls \in Seq(Seq(AllPieces) \ {<<>>})
  BY DEF SenderTypes
<1>2. /\ \A i \in 1 .. Len(cs) : cs[i] = calls[i + 1]
      /\ Len(cs) = Len(calls) - 1 /\ Len(calls) \in Nat
  BY <1>1, HeadTailProperties
<1> HIDE DEF cs
<1>3. ASSUME NEW i \in 1 .. Len(cs), NEW j \in 2 .. Len(cs[i]) PROVE cs[i][j].place > 0
  <2>1. i + 1 \in 1 .. Len(calls) /\ cs[i] = calls[i + 1]
    BY <1>2
  <2> QED
    BY <2>1 DEF LaterPlaces
<1> QED
  BY <1>3 DEF LaterPlaces, cs

\* Calls given up: their pieces are lost, the others stay in their order.
LEMMA GiveUpStep ==
  ASSUME SenderInv, calls # <<>>, GiveUp, UNCHANGED <<tls, replies, promised, got, gone>>,
         gone \/ (held # <<>> /\ (Len(Head(calls)) > 1 \/ Head(held) # Next8192))
  PROVE  SenderInv'
<1> DEFINE T == AllPieces
           S == T \ lost
           y == Head(held)
           h == Head(calls)
           t == Tail(h)
           R == T \ Range(h)
           D == Delivered
<1>1. SenderTypes /\ PromisedOnce /\ LaterPlaces /\ HeldInPlace /\ DataIsLost
  BY DEF SenderInv
<1>2. /\ calls' = Tail(calls) /\ lost' = lost \cup Range(h)
      /\ UNCHANGED <<tls, replies, promised, got, gone, held, wire>>
  BY DEF GiveUp, ToSet, Range
<1>3. /\ h \in Seq(T) /\ h # <<>> /\ Tail(calls) \in CallLists /\ Len(Tail(calls)) <= 1
      /\ Later \in Seq(T) /\ D \in Seq(T) /\ promised \in Seq(T)
      /\ Only(promised, S) = D \o (h \o Later) /\ Once(D \o (h \o Later))
      /\ Range(h) \subseteq Range(promised) \ lost
  BY CallUnderWay
<1>4. Range(h) \subseteq T
  BY <1>3, RangeOfSeq
<1>5. SenderTypes'
  BY <1>1, <1>2, <1>3, <1>4 DEF SenderTypes, CallLists
<1>6. PromisedOnce'
  BY <1>1, <1>2, <1>3 DEF PromisedOnce
<1>7. T \ lost' = S \ Range(h) /\ Delivered' = D /\ Unwritten' = Later
  BY <1>2 DEF Delivered, Unwritten, Later
<1>8. /\ Only(D \o (h \o Later), R) = D \o Later
      /\ Only(D, R) = D /\ Only(h \o Later, R) = Later
  <2>1. h \in Seq(T) /\ Later \in Seq(T) /\ D \in Seq(T) /\ Once(D \o (h \o Later))
    BY <1>3
  <2>2. TakesOut(D, h, Later, T)
    <3> HIDE DEF h, D, T
    <3> QED
      BY <2>1, OnlyDrop
  <2> QED
    BY <2>2 DEF TakesOut
<1>9. \A s \in Seq(T) : Only(s, S \ Range(h)) = Only(Only(s, S), R)
  <2> HIDE DEF S, h
  <2> QED
    BY OnlyLess, ZenonT(30)
<1>10. Accounted'
  <2>1. Only(promised, S \ Range(h)) = D \o Later
    BY <1>3, <1>8, <1>9
  <2> QED
    BY <1>2, <1>7, <2>1 DEF Accounted
<1>11. LaterPlaces'
  BY <1>1, <1>2, LaterKept
<1>12. HeldInPlace'
  <2> SUFFICES ASSUME held # <<>> PROVE HeldInPlace'
    BY <1>2 DEF HeldInPlace
  <2>1. PICK before \in Seq(T), behind \in Seq(T) :
              /\ promised = before \o (<<y>> \o behind)
              /\ Only(before, S) = D
              /\ Only(behind, S) = IF y \in lost THEN h \o Later ELSE t \o Later
    BY HeldStands DEF Stands
  <2>2. y \in lost'
    <3>1. CASE y \in lost
      BY <1>2, <3>1
    <3>2. CASE y \notin lost
      <4>1. y = Next8192
        BY <1>1, <3>2 DEF HeldInPlace
      <4>2. Next8192 = h[1] /\ 1 \in 1 .. Len(h)
        BY <1>3, EmptySeq DEF Next8192
      <4>3. y \in Range(h)
        BY <1>3, <4>1, <4>2, RangeEquality
      <4> QED
        BY <1>2, <4>3
    <3> QED
      BY <3>1, <3>2
  <2>3. Only(before, S \ Range(h)) = D
    BY <1>8, <1>9, <2>1
  <2>4. Only(behind, S \ Range(h)) = Later
    <3>1. CASE y \in lost
      BY <1>8, <1>9, <2>1, <3>1
    <3>2. CASE y \notin lost
      <4>0. t \in Seq(T) /\ h = <<Next8192>> \o t /\ Next8192 \in T
        BY CallShortened
      <4>1. t \in Seq(T) /\ h \in Seq(T) /\ Later \in Seq(T)
        BY <1>3, <4>0
      <4> HIDE DEF t, h
      <4>2. <<Next8192>> \in Seq(T) /\ Range(h) = Range(<<Next8192>>) \cup Range(t)
        <5>1. <<Next8192>> \in Seq(T)
          BY <4>0
        <5>2. \A u, v \in Seq(T) : Range(u \o v) = Range(u) \cup Range(v)
          BY RangeConcatenation
        <5>3. Range(<<Next8192>> \o t) = Range(<<Next8192>>) \cup Range(t)
          BY <4>1, <5>1, <5>2, Zenon
        <5> QED
          BY <4>0, <5>1, <5>3, Zenon
      <4>3. Only(t, R) = <<>>
        BY <4>1, <4>2, OnlyGone
      <4>4. Only(Later, R) = Later
        <5>1. h \o Later \in Seq(T)
          BY <4>1, ConcatProperties
        <5>2. D \in Seq(T) /\ Once(D \o (h \o Later))
          BY <1>3
        <5>3. Once(h \o Later)
          <6> HIDE DEF D, T
          <6> QED
            BY <5>1, <5>2, OnceConcat
        <5>4. Range(h) \cap Range(Later) = {}
          BY <4>1, <5>3, OnceConcat
        <5> QED
          BY <4>1, <5>4, OnlyApart
      <4>5. Only(t \o Later, R) = <<>> \o Later
        <5> HIDE DEF R, T
        <5>1. Only(t \o Later, R) = Only(t, R) \o Only(Later, R)
          BY <4>1, OnlyConcat
        <5> QED
          BY <4>3, <4>4, <5>1
      <4>6. <<>> \o Later = Later
        BY <1>3, ConcatEmptySeq
      <4> QED
        BY <1>9, <2>1, <3>2, <4>5, <4>6
    <3> QED
      BY <3>1, <3>2
  <2>5. tls
    BY <1>1 DEF HeldInPlace
  <2>6. Stands(y, D, Later, promised, T \ lost', T)
    <3>1. T \ lost' = S \ Range(h)
      BY <1>7
    <3> HIDE DEF T, S, D, h, y
    <3> QED
      BY <2>1, <2>3, <2>4, <3>1 DEF Stands
  <2> HIDE DEF D
  <2> QED
    BY <1>2, <1>7, <2>2, <2>5, <2>6 DEF HeldInPlace
<1>13. DataIsLost'
  <2> SUFFICES ASSUME tls, ~gone PROVE \E p \in lost' \ Range(held) : p.place > 0
    BY <1>2 DEF DataIsLost
  <2>1. CASE lost # {}
    BY <1>1, <1>2, <2>1 DEF DataIsLost
  <2>2. CASE lost = {}
    <3>1. held # <<>> /\ y = Next8192 /\ Len(h) > 1
      BY <1>1, <2>2 DEF HeldInPlace
    <3>2. h[2] \in Range(h) /\ h[2] # h[1]
      <4>1. h \o Later \in Seq(T)
        BY <1>3, ConcatProperties
      <4>2. Once(h \o Later)
        BY <1>3, <4>1, OnceConcat
      <4>3. Once(h)
        BY <1>3, <4>2, OnceConcat
      <4>4. 1 \in 1 .. Len(h) /\ 2 \in 1 .. Len(h)
        BY <1>3, <3>1
      <4> QED
        BY <1>3, <4>3, <4>4, RangeEquality DEF Once
    <3>3. Range(held) = {y} /\ y = h[1]
      <4>1. held \in Seq(T) /\ Len(held) = 1
        <5>1. held \in Seq(T) /\ Len(held) <= 1
          BY <1>1 DEF SenderTypes
        <5>2. Len(held) \in Nat \ {0}
          BY <3>1, <5>1, EmptySeq
        <5>3. Len(held) = 1
          <6> DEFINE n == Len(held)
          <6>1. n \in Nat \ {0} /\ n <= 1
            BY <5>1, <5>2
          <6> HIDE DEF n
          <6>2. n = 1
            BY <6>1
          <6> QED
            BY <6>2 DEF n
        <5> QED
          BY <5>1, <5>3
      <4>2. Range(held) = {held[1]} /\ y = held[1]
        <5>1. Range(held) = {held[i] : i \in 1 .. Len(held)}
          BY <4>1, RangeEquality
        <5> QED
          BY <4>1, <5>1
      <4> QED
        BY <3>1, <4>2 DEF Next8192
    <3>4. h[2].place > 0
      <4>1. h = calls[1] /\ 1 \in 1 .. Len(calls)
        BY <1>1, EmptySeq DEF SenderTypes
      <4>2. 2 \in 2 .. Len(h)
        BY <1>3, <3>1
      <4> QED
        BY <1>1, <4>1, <4>2 DEF LaterPlaces
    <3> QED
      BY <1>2, <3>2, <3>3, <3>4
  <2> QED
    BY <2>1, <2>2
<1> QED
  BY <1>5, <1>6, <1>10, <1>11, <1>12, <1>13 DEF SenderInv

\* A record is written: the piece the call is at, or one given up before, which
\* the library finishes in its stead.
LEMMA SslWritesStep ==
  ASSUME SenderInv, SslWrites
  PROVE  SenderInv'
<1> DEFINE T == AllPieces
           S == T \ lost
           h == Head(calls)
           t == Tail(h)
           x == Next8192
           y == Head(held)
           D == Delivered
           record == IF held = <<>> THEN x ELSE y
<1>1. SenderTypes /\ PromisedOnce /\ LaterPlaces /\ HeldInPlace /\ DataIsLost
  BY DEF SenderInv
<1>2. /\ calls # <<>> /\ tls /\ ~gone /\ Len(wire) < Room
      /\ wire' = Append(wire, record) /\ lost' = (lost \cup {x}) \ {record}
      /\ held' = <<>> /\ calls' = Shortened
      /\ UNCHANGED <<tls, replies, promised, got, gone>>
  BY DEF SslWrites, Sending
<1>3. /\ h \in Seq(T) /\ Later \in Seq(T) /\ D \in Seq(T) /\ promised \in Seq(T)
      /\ Only(promised, S) = D \o (h \o Later) /\ Once(D \o (h \o Later))
  BY <1>2, CallUnderWay
<1>4. /\ x \in T /\ x \in Range(promised) /\ x \notin lost
      /\ t \in Seq(T) /\ h = <<x>> \o t
      /\ Shortened \in CallLists /\ Len(Shortened) <= 2
      /\ FlattenSeq(Shortened) = t \o Later
      /\ \A i \in 1 .. Len(Shortened) : \A j \in 2 .. Len(Shortened[i]) :
            Shortened[i][j].place > 0
  BY <1>1, <1>2, CallShortened
<1>5. record \in T
  <2>1. held # <<>> => y \in T
    BY <1>1, HeadTailProperties DEF SenderTypes
  <2> QED
    BY <1>4, <2>1
<1>6. SenderTypes'
  <2>1. wire' \in Seq(T) /\ Len(wire') <= Room
    <3> DEFINE n == Len(wire)
    <3>1. wire \in Seq(T) /\ n \in Nat
      BY <1>1 DEF SenderTypes
    <3>2. wire' \in Seq(T) /\ Len(wire') = n + 1
      <4> HIDE DEF record, T, n
      <4> QED
        BY <1>2, <1>5, <3>1, AppendProperties DEF n
    <3>3. Room \in Nat /\ n < Room
      BY <1>2, SenderAssumption
    <3> HIDE DEF n
    <3>4. n + 1 <= Room
      BY <3>1, <3>3
    <3> QED
      BY <3>2, <3>4
  <2>2. lost' \subseteq T
    BY <1>1, <1>2, <1>4 DEF SenderTypes
  <2>3. calls' \in Seq(Seq(T) \ {<<>>}) /\ Len(calls') <= 2
    BY <1>2, <1>4 DEF CallLists
  <2>4. held' \in Seq(T) /\ Len(held') <= 1
    BY <1>2, EmptySeq
  <2> HIDE DEF record, x
  <2> QED
    BY <1>1, <1>2, <2>1, <2>2, <2>3, <2>4 DEF SenderTypes
<1>7. PromisedOnce'
  <2>1. lost' \subseteq Range(promised)
    BY <1>1, <1>2, <1>4 DEF PromisedOnce
  <2> QED
    BY <1>1, <1>2, <2>1 DEF PromisedOnce
<1>8. Delivered' = D \o <<record>>
  <2>1. got \in Seq(T) /\ wire \in Seq(T) /\ <<record>> \in Seq(T)
    BY <1>1, <1>5 DEF SenderTypes
  <2> DEFINE one == <<record>>
  <2>2. wire' = wire \o one
    <3> HIDE DEF record
    <3> QED
      BY <1>2, <1>5, <2>1, AppendIsConcat
  <2>3. one \in Seq(T)
    BY <2>1
  <2> HIDE DEF one
  <2>4. got \o (wire \o one) = (got \o wire) \o one
    BY <2>1, <2>3, ConcatAssociative
  <2> QED
    BY <1>2, <2>2, <2>4, Zenon DEF one, Delivered
<1>9. Unwritten' = t \o Later
  BY <1>2, <1>4 DEF Unwritten
<1>10. Only(promised, T \ lost') = D \o ((<<record>> \o t) \o Later)
  <2>1. CASE record = x
    <3>1. lost' = lost
      BY <1>2, <1>4, <2>1
    <3>2. h = <<record>> \o t
      BY <1>4, <2>1
    <3> HIDE DEF record, h, t, x
    <3> QED
      BY <1>3, <3>1, <3>2
  <2>2. CASE record # x
    <3>1. held # <<>> /\ record = y
      BY <2>2
    <3>2. y \in lost
      BY <1>1, <2>2, <3>1 DEF HeldInPlace
    <3>3. Stands(y, D, h \o Later, promised, S, T)
      BY <1>2, <3>1, <3>2, HeldStands
    <3>4. h \o Later = <<x>> \o (t \o Later) /\ <<y>> \o (t \o Later) = (<<y>> \o t) \o Later
      <4>1. \A u, v, w \in Seq(T) : (u \o v) \o w = u \o (v \o w)
        BY ConcatAssociative
      <4> DEFINE ox == <<x>>
                 oy == <<y>>
      <4>2. ox \in Seq(T) /\ oy \in Seq(T) /\ t \in Seq(T) /\ Later \in Seq(T) /\ h = ox \o t
        BY <1>3, <1>4, <1>5, <3>1
      <4> HIDE DEF ox, oy, t, h
      <4>3. (ox \o t) \o Later = ox \o (t \o Later)
        BY <4>1, <4>2, Zenon
      <4>4. (oy \o t) \o Later = oy \o (t \o Later)
        BY <4>1, <4>2, Zenon
      <4> QED
        BY <4>2, <4>3, <4>4, Zenon DEF ox, oy
    <3> DEFINE r == t \o Later
    <3>5. r \in Seq(T)
      BY <1>3, <1>4, ConcatProperties
    <3>6. /\ Stands(y, D, <<x>> \o r, promised, T \ lost, T)
          /\ Once(D \o (<<x>> \o r))
      BY <1>3, <3>3, <3>4, Zenon
    <3>7. x \in T \ lost /\ y \in T \cap lost /\ Once(promised)
      BY <1>1, <1>4, <1>5, <3>1, <3>2 DEF PromisedOnce
    <3>8. Only(promised, T \ ((lost \cup {x}) \ {y})) = D \o (<<y>> \o r)
      <4>1. promised \in Seq(T) /\ D \in Seq(T)
        BY <1>3
      <4> HIDE DEF r, x, y, D, T
      <4>2. Replaces(y, x, D, r, promised, lost, T)
        BY <3>5, <3>6, <3>7, <4>1, PutBack, Zenon
      <4> QED
        BY <4>2, Zenon DEF Replaces
    <3> QED
      BY <1>2, <3>1, <3>4, <3>8, Zenon
  <2> QED
    BY <2>1, <2>2
<1>11. Accounted'
  <2>1. D \o ((<<record>> \o t) \o Later) = (D \o <<record>>) \o (t \o Later)
    <3>1. D \in Seq(T) /\ t \in Seq(T) /\ Later \in Seq(T)
      BY <1>3, <1>4
    <3> HIDE DEF record, t, D, T
    <3>2. PassesOver(record, D, t, Later)
      BY <1>5, <3>1, MovedOver, Zenon
    <3> QED
      BY <3>2, Zenon DEF PassesOver
  <2> QED
    BY <1>2, <1>8, <1>9, <1>10, <2>1, Zenon DEF Accounted
<1>12. LaterPlaces'
  BY <1>2, <1>4 DEF LaterPlaces
<1>13. HeldInPlace'
  BY <1>2 DEF HeldInPlace
<1>14. DataIsLost'
  <2> SUFFICES ASSUME lost' # {} PROVE \E p \in lost' \ Range(held') : p.place > 0
    BY DEF DataIsLost
  <2>1. lost # {}
    BY <1>1, <1>2, <1>4 DEF HeldInPlace
  <2>2. PICK p \in lost \ Range(held) : p.place > 0
    BY <1>1, <1>2, <2>1 DEF DataIsLost
  <2>3. p # record
    <3>1. held # <<>> => y \in Range(held)
      <4>1. held \in Seq(T)
        BY <1>1 DEF SenderTypes
      <4>2. held # <<>> => y = held[1] /\ 1 \in 1 .. Len(held)
        BY <4>1, EmptySeq
      <4> QED
        BY <4>1, <4>2, RangeEquality
    <3> QED
      BY <1>4, <2>2, <3>1
  <2>4. Range(held') = {}
    BY <1>2 DEF Range
  <2> QED
    BY <1>2, <2>2, <2>3, <2>4
<1> QED
  BY <1>6, <1>7, <1>11, <1>12, <1>13, <1>14 DEF SenderInv

\* There is no room: the piece the call is at waits as a record of the library.
LEMMA SslWantsStep ==
  ASSUME SenderInv, SslWants
  PROVE  SenderInv'
<1> DEFINE T == AllPieces
           x == Next8192
<1>1. SenderTypes /\ PromisedOnce /\ Accounted /\ LaterPlaces /\ HeldInPlace /\ DataIsLost
  BY DEF SenderInv
<1>2. /\ calls # <<>> /\ tls /\ ~gone /\ held = <<>> /\ held' = <<x>>
      /\ UNCHANGED <<tls, replies, promised, calls, wire, got, gone, lost>>
  BY DEF SslWants, Sending
<1>3. x \in T /\ x \in Range(promised) /\ x \notin lost
  BY <1>2, CallShortened
<1>4. held' \in Seq(T) /\ Len(held') <= 1 /\ Head(held') = x /\ Range(held') = {x}
  <2> HIDE DEF x
  <2> QED
    BY <1>2, <1>3 DEF Range
<1>5. SenderTypes'
  BY <1>1, <1>2, <1>4 DEF SenderTypes
<1>6. PromisedOnce' /\ Accounted' /\ LaterPlaces'
  BY <1>1, <1>2 DEF PromisedOnce, Accounted, LaterPlaces, Delivered, Unwritten
<1>7. HeldInPlace'
  <2>1. Next8192' = x
    BY <1>2 DEF Next8192
  <2> HIDE DEF x
  <2> QED
    BY <1>2, <1>3, <1>4, <2>1 DEF HeldInPlace
<1>8. DataIsLost'
  <2> HIDE DEF x
  <2> QED
    BY <1>1, <1>2, <1>3, <1>4 DEF DataIsLost
<1> QED
  BY <1>5, <1>6, <1>7, <1>8 DEF SenderInv

\* In the clear the kernel takes the front of a call, and the rest is lost.
LEMMA ClearSendsStep ==
  ASSUME SenderInv, ClearSends
  PROVE  SenderInv'
<1> DEFINE T == AllPieces
           S == T \ lost
           h == Head(calls)
           fits == ShorterOf(Len(h), Room - Len(wire))
           front == SubSeq(h, 1, fits)
           rest == SubSeq(h, fits + 1, Len(h))
           D == Delivered
<1>1. SenderTypes /\ PromisedOnce /\ LaterPlaces /\ HeldInPlace /\ DataIsLost
  BY DEF SenderInv
<1>2. /\ calls # <<>> /\ tls = FALSE /\ ~gone
      /\ wire' = wire \o front /\ lost' = lost \cup Range(rest)
      /\ calls' = Tail(calls)
      /\ UNCHANGED <<tls, replies, promised, got, gone, held>>
  <2>1. tls \in BOOLEAN
    BY <1>1 DEF SenderTypes
  <2> QED
    BY <2>1 DEF ClearSends, Sending, ToSet, Range
<1>3. /\ h \in Seq(T) /\ h # <<>> /\ Tail(calls) \in CallLists /\ Len(Tail(calls)) <= 1
      /\ Later \in Seq(T) /\ D \in Seq(T) /\ promised \in Seq(T)
      /\ Only(promised, S) = D \o (h \o Later) /\ Once(D \o (h \o Later))
      /\ Range(h) \subseteq Range(promised) \ lost
  BY <1>2, CallUnderWay
<1>4. fits \in 0 .. Len(h) /\ Len(wire) + fits <= Room
  <2> DEFINE m == Len(h)
             n == Len(wire)
  <2>1. m \in Nat /\ n \in Nat /\ n <= Room /\ Room \in Nat
    BY <1>1, <1>3, SenderAssumption DEF SenderTypes
  <2> HIDE DEF m, n
  <2>2. ShorterOf(m, Room - n) \in 0 .. m /\ n + ShorterOf(m, Room - n) <= Room
    BY <2>1 DEF ShorterOf
  <2> QED
    BY <2>2 DEF m, n
<1> HIDE DEF fits
<1>5. /\ front \in Seq(T) /\ Len(front) = fits
      /\ rest \in Seq(T)
      /\ h = front \o rest
  <2>1. Len(h) \in Nat /\ fits \in Nat /\ fits <= Len(h)
    BY <1>3, <1>4
  <2>2. SubSeq(h, 1, fits) \o SubSeq(h, fits + 1, Len(h)) = SubSeq(h, 1, Len(h))
    <3>1. 1 \in 1 .. Len(h) + 1 /\ fits \in 1 - 1 .. Len(h) /\ Len(h) \in fits .. Len(h)
      BY <2>1
    <3> HIDE DEF h
    <3> QED
      BY <1>3, <3>1, ConcatAdjacentSubSeq
  <2>3. SubSeq(h, 1, Len(h)) = h
    BY <1>3, SubSeqFull
  <2>4. front \in Seq(T) /\ Len(front) = fits /\ rest \in Seq(T)
    <3> HIDE DEF h
    <3> QED
      BY <1>3, <2>1
  <2> QED
    BY <2>2, <2>3, <2>4
<1> HIDE DEF h, front, rest, D
<1>6. Range(h) = Range(front) \cup Range(rest) /\ Range(rest) \subseteq T
  BY <1>5, RangeConcatenation, RangeOfSeq
<1>7. SenderTypes'
  <2>1. wire' \in Seq(T) /\ Len(wire') <= Room
    <3>1. wire \in Seq(T)
      BY <1>1 DEF SenderTypes
    <3>2. wire' \in Seq(T) /\ Len(wire') = Len(wire) + Len(front)
      BY <1>2, <1>5, <3>1, ConcatProperties
    <3> QED
      BY <1>4, <1>5, <3>2
  <2>2. calls' \in Seq(Seq(T) \ {<<>>}) /\ Len(calls') <= 2
    <3>1. calls' \in Seq(Seq(T) \ {<<>>}) /\ Len(calls') <= 1
      BY <1>2, <1>3 DEF CallLists
    <3> QED
      BY <3>1
  <2>3. lost' \subseteq T
    BY <1>1, <1>2, <1>6 DEF SenderTypes
  <2> QED
    BY <1>1, <1>2, <2>1, <2>2, <2>3 DEF SenderTypes
<1>8. PromisedOnce'
  <2>1. lost' \subseteq Range(promised)
    BY <1>1, <1>2, <1>3, <1>6 DEF PromisedOnce
  <2> QED
    BY <1>1, <1>2, <2>1 DEF PromisedOnce
<1> DEFINE E == D \o front
<1>9. E \in Seq(T) /\ Delivered' = E
  <2>1. got \in Seq(T) /\ wire \in Seq(T)
    BY <1>1 DEF SenderTypes
  <2>2. got \o (wire \o front) = (got \o wire) \o front
    <3>1. \A u, v, w \in Seq(T) : (u \o v) \o w = u \o (v \o w)
      BY ConcatAssociative
    <3> QED
      BY <1>5, <2>1, <3>1, Zenon
  <2>3. E \in Seq(T)
    BY <1>3, <1>5, ConcatProperties
  <2>4. Delivered' = got \o (wire \o front)
    BY <1>2 DEF Delivered
  <2> QED
    BY <2>2, <2>3, <2>4, Zenon DEF D, Delivered
<1>10. D \o (h \o Later) = E \o (rest \o Later)
  <2>1. D \in Seq(T) /\ front \in Seq(T) /\ rest \in Seq(T) /\ Later \in Seq(T)
    BY <1>3, <1>5
  <2> HIDE DEF D, T
  <2>2. rest \o Later \in Seq(T)
    BY <2>1, ConcatProperties
  <2>3. (front \o rest) \o Later = front \o (rest \o Later)
    BY <2>1, ConcatAssociative
  <2>4. (D \o front) \o (rest \o Later) = D \o (front \o (rest \o Later))
    <3> DEFINE w == rest \o Later
    <3> HIDE DEF w
    <3>1. D \in Seq(T) /\ front \in Seq(T) /\ w \in Seq(T)
      BY <2>1, <2>2 DEF w
    <3>2. (D \o front) \o w = D \o (front \o w)
      BY <3>1, ConcatAssociative
    <3> QED
      BY <3>2 DEF w
  <2> QED
    BY <1>5, <2>3, <2>4, Zenon
<1> HIDE DEF E
<1>11. Only(E \o (rest \o Later), T \ Range(rest)) = E \o Later
  <2>1. Once(E \o (rest \o Later))
    BY <1>3, <1>10, Zenon
  <2>2. TakesOut(E, rest, Later, T)
    BY <1>3, <1>5, <1>9, <2>1, OnlyDrop, Zenon
  <2> QED
    BY <2>2, Zenon DEF TakesOut
<1>12. Accounted'
  <2>1. T \ lost' = S \ Range(rest)
    BY <1>2
  <2> DEFINE R == T \ Range(rest)
  <2>2. Only(promised, S \ Range(rest)) = Only(Only(promised, S), R)
    <3>1. \A s \in Seq(T) : Only(s, S \ Range(rest)) = Only(Only(s, S), T \ Range(rest))
      <4> HIDE DEF S
      <4> QED
        BY OnlyLess, ZenonT(30)
    <3> QED
      BY <1>3, <3>1
  <2>3. Unwritten' = Later
    BY <1>2 DEF Unwritten, Later
  <2> HIDE DEF S
  <2> QED
    BY <1>2, <1>3, <1>9, <1>10, <1>11, <2>1, <2>2, <2>3, Zenon DEF Accounted
<1>13. LaterPlaces'
  BY <1>1, <1>2, LaterKept
<1>14. HeldInPlace' /\ DataIsLost'
  BY <1>1, <1>2 DEF HeldInPlace, DataIsLost
<1> QED
  BY <1>7, <1>8, <1>12, <1>13, <1>14 DEF SenderInv

\* The client reads what has come: it was delivered before.
LEMMA ClientReadsStep ==
  ASSUME SenderInv, ClientReads
  PROVE  SenderInv'
<1> DEFINE T == AllPieces
           w == Head(wire)
           r == Tail(wire)
<1>1. SenderTypes /\ PromisedOnce /\ Accounted /\ LaterPlaces /\ HeldInPlace /\ DataIsLost
  BY DEF SenderInv
<1>2. /\ wire # <<>> /\ got' = Append(got, w) /\ wire' = r
      /\ UNCHANGED <<tls, replies, promised, calls, held, gone, lost>>
  BY DEF ClientReads
<1>3. got \in Seq(T) /\ wire \in Seq(T) /\ Len(wire) <= Room /\ Len(wire) \in Nat
  BY <1>1 DEF SenderTypes
<1>4. w \in T /\ r \in Seq(T) /\ Len(r) = Len(wire) - 1 /\ wire = <<w>> \o r
  <2>1. w = wire[1] /\ Len(wire) \in Nat \ {0}
    BY <1>2, <1>3, EmptySeq
  <2>2. SubSeq(wire, 1, Len(wire)) = <<wire[1]>> \o SubSeq(wire, 1 + 1, Len(wire))
    BY <1>3, <2>1, SubSeqRecursiveFirst
  <2>3. SubSeq(wire, 1, Len(wire)) = wire /\ Tail(wire) = SubSeq(wire, 2, Len(wire))
    BY <1>2, <1>3, SubSeqFull, TailIsSubSeq
  <2>4. w \in T /\ r \in Seq(T) /\ Len(r) = Len(wire) - 1
    BY <1>2, <1>3, HeadTailProperties
  <2> QED
    BY <2>1, <2>2, <2>3, <2>4
<1> DEFINE one == <<w>>
<1>5. one \in Seq(T) /\ got' = got \o one /\ wire = one \o r
  <2>1. Append(got, w) = got \o one
    <3> HIDE DEF w
    <3> QED
      BY <1>3, <1>4, AppendIsConcat
  <2> QED
    BY <1>2, <1>4, <2>1
<1> HIDE DEF w, r, one
<1>6. SenderTypes'
  <2>1. got' \in Seq(T)
    BY <1>3, <1>5, ConcatProperties
  <2>2. Len(wire') <= Room
    <3> DEFINE n == Len(wire)
    <3>1. n \in Nat /\ Len(wire') = n - 1 /\ n <= Room /\ Room \in Nat
      BY <1>2, <1>3, <1>4, SenderAssumption
    <3> HIDE DEF n
    <3> QED
      BY <3>1
  <2> QED
    BY <1>1, <1>2, <1>4, <2>1, <2>2 DEF SenderTypes
<1>7. Delivered' = Delivered
  <2>1. (got \o one) \o r = got \o (one \o r)
    BY <1>3, <1>4, <1>5, ConcatAssociative
  <2> QED
    BY <1>2, <1>5, <2>1, Zenon DEF Delivered
<1>8. Unwritten' = Unwritten /\ Next8192' = Next8192
  BY <1>2 DEF Unwritten, Next8192
<1>9. PromisedOnce' /\ LaterPlaces' /\ DataIsLost'
  BY <1>1, <1>2 DEF PromisedOnce, LaterPlaces, DataIsLost
<1>10. Accounted' /\ HeldInPlace'
  BY <1>1, <1>2, <1>7, <1>8 DEF Accounted, HeldInPlace
<1> QED
  BY <1>6, <1>9, <1>10 DEF SenderInv

-----------------------------------------------------------------------------
\* Nothing is promised yet.
LEMMA SenderInvInit == InitSender => SenderInv
<1> SUFFICES ASSUME InitSender PROVE SenderInv
  OBVIOUS
<1>1. /\ tls \in BOOLEAN /\ gone = FALSE /\ replies = 0 /\ lost = {}
      /\ promised = <<>> /\ calls = <<>> /\ held = <<>> /\ wire = <<>> /\ got = <<>>
  BY DEF InitSender
<1>2. Len(<<>>) = 0 /\ \A U : <<>> \in Seq(U)
  BY EmptySeq
<1>3. Room \in Nat /\ MaxReplies \in Nat
  BY SenderAssumption
<1>4. SenderTypes
  <2>1. calls \in Seq(Seq(AllPieces) \ {<<>>}) /\ Len(calls) <= 2
    BY <1>1, <1>2
  <2>2. \A s \in {promised, held, wire, got} : s \in Seq(AllPieces) /\ Len(s) = 0
    BY <1>1, <1>2
  <2>3. replies \in 0 .. MaxReplies
    BY <1>1, <1>3
  <2>4. Len(held) <= 1 /\ Len(wire) <= Room
    BY <1>3, <2>2
  <2> QED
    BY <1>1, <2>1, <2>2, <2>3, <2>4 DEF SenderTypes
<1>5. PromisedOnce
  BY <1>1, <1>2 DEF PromisedOnce, Once, Range
<1>6. Accounted
  <2>1. Unwritten = <<>>
    BY <1>1, FlattenNone DEF Unwritten
  <2>2. <<>> \o <<>> = <<>>
    BY <1>2, ConcatEmptySeq
  <2>3. Only(<<>>, AllPieces \ lost) = <<>>
    BY OnlyEmpty
  <2> QED
    BY <1>1, <2>1, <2>2, <2>3, Zenon DEF Accounted, Delivered
<1>7. LaterPlaces /\ HeldInPlace /\ DataIsLost
  BY <1>1, <1>2 DEF LaterPlaces, HeldInPlace, DataIsLost
<1> QED
  BY <1>4, <1>5, <1>6, <1>7 DEF SenderInv

\* Every step of either direction keeps the invariant.
LEMMA SenderInvNext ==
  ASSUME SenderInv, [Requests \/ Replies]_connectionVars
  PROVE  SenderInv'
<1>1. CASE NextSender
  <2>1. CASE BeginReply(Short(replies + 1)) \/ BeginReply(Large(replies + 1))
    BY <2>1, BeginReplyStep
  <2>2. CASE SslWrites
    BY <2>2, SslWritesStep
  <2>3. CASE SslWants
    BY <2>3, SslWantsStep
  <2>4. CASE SslRefuses
    BY <2>4, GiveUpStep DEF SslRefuses, Sending
  <2>5. CASE SendFails
    BY <2>5, GiveUpStep DEF SendFails, Sending
  <2>6. CASE ClearSends
    BY <2>6, ClearSendsStep
  <2>7. CASE ClientReads
    BY <2>7, ClientReadsStep
  <2>8. CASE ClientCloses
    <3>1. gone' = TRUE /\ UNCHANGED <<tls, replies, promised, calls, held, wire, got, lost>>
      BY <2>8 DEF ClientCloses
    <3> QED
      BY <3>1 DEF SenderInv, SenderTypes, PromisedOnce, Accounted, LaterPlaces, HeldInPlace,
                  DataIsLost, Delivered, Unwritten, Next8192
  <2> QED
    BY <1>1, <2>1, <2>2, <2>3, <2>4, <2>5, <2>6, <2>7, <2>8 DEF NextSender
<1>2. CASE UNCHANGED senderVars
  BY <1>2 DEF senderVars, SenderInv, SenderTypes, PromisedOnce, Accounted, LaterPlaces,
              HeldInPlace, DataIsLost, Delivered, Unwritten, Next8192
<1> QED
  BY <1>1, <1>2 DEF Requests, Replies, connectionVars

(***************************************************************************)
(* Every piece of every reply is with the client, on its way, still to be  *)
(* written or given up, once and in the order of the replies, whatever     *)
(* room the kernel has and however long the data are; and over TLS nothing *)
(* but data of large replies is given up while the client is there.        *)
(***************************************************************************)
THEOREM RepliesInOrder == ConnectionSpec => []RepliesAreAccounted
<1>1. ConnectionInit => SenderInv
  BY SenderInvInit DEF ConnectionInit
<1>2. SenderInv /\ [Requests \/ Replies]_connectionVars => SenderInv'
  BY SenderInvNext
<1>3. SenderInv => RepliesAreAccounted
  <2> SUFFICES ASSUME SenderInv PROVE RepliesAreAccounted
    OBVIOUS
  <2>1. Accounted /\ DataIsLost
    BY DEF SenderInv
  <2>2. Only(promised, AllPieces \ lost) = got \o wire \o FlattenSeq(calls)
    BY <2>1 DEF Accounted, Delivered, Unwritten
  <2>3. tls /\ ~gone /\ lost # {} => \E p \in lost : p.place > 0
    BY <2>1 DEF DataIsLost
  <2> QED
    BY <2>2, <2>3 DEF RepliesAreAccounted
<1> QED
  BY <1>1, <1>2, <1>3, PTL DEF ConnectionSpec

-----------------------------------------------------------------------------
(***************************************************************************)
(* The requests: positions, in order.                                      *)
(***************************************************************************)
\* The positions among the first n of s that carry a request.
Carried(s, n) == Only([i \in 1 .. n |-> i], {i \in 1 .. n : s[i] \in Understood})

\* It is what the promised stream of requests calls by that name.
LEMMA CarriedIsPromised == \A n : Stream!Requests(n) = Carried(sent, n)
  BY DEF Stream!Requests, Stream!Only, Carried, Only

\* The n-th message adds its position, if it carries a request.
LEMMA CarriedMore ==
  ASSUME NEW s, NEW n \in Nat \ {0}
  PROVE  /\ Carried(s, n - 1) \in Seq(Nat)
         /\ Carried(s, n) \in Seq(Nat)
         /\ Carried(s, n) = Carried(s, n - 1) \o (IF s[n] \in Understood THEN <<n>> ELSE <<>>)
<1> DEFINE m == n - 1
           all == [i \in 1 .. n |-> i]
           before == [i \in 1 .. m |-> i]
           A == {i \in 1 .. n : s[i] \in Understood}
           B == {i \in 1 .. m : s[i] \in Understood}
<1>1. m \in Nat /\ m + 1 = n /\ n \in 1 .. n /\ n \in Nat
  OBVIOUS
<1>2. before \in Seq(1 .. m) /\ before \in Seq(Nat) /\ all \in Seq(Nat)
  BY <1>1
<1>3. all = Append(before, n)
  <2>1. /\ Append(before, n) \in Seq(Nat) /\ Len(Append(before, n)) = m + 1
        /\ Append(before, n)[m + 1] = n
        /\ \A i \in 1 .. m : Append(before, n)[i] = before[i]
    BY <1>1, <1>2, AppendProperties
  <2>2. Len(all) = n /\ \A i \in 1 .. n : all[i] = i
    BY <1>1
  <2>3. \A i \in 1 .. n : i \in 1 .. m \/ i = n
    BY <1>1
  <2>4. \A i \in 1 .. n : Append(before, n)[i] = i
    BY <1>1, <2>1, <2>3
  <2> HIDE DEF all, before
  <2> QED
    BY <1>1, <1>2, <2>1, <2>2, <2>4, SeqEqual
<1>4. A \cap (1 .. m) = B \cap (1 .. m)
  BY <1>1
<1>5. n \in A <=> s[n] \in Understood
  BY <1>1
<1> HIDE DEF all, before, A, B, m
<1>6. Only(before, A) = Only(before, B) /\ Only(before, B) \in Seq(Nat)
      /\ Only(all, A) \in Seq(Nat)
  <2>1. Only(before, A) = Only(before, B)
    <3> DEFINE V == 1 .. m
    <3>1. before \in Seq(V) /\ A \cap V = B \cap V
      BY <1>2, <1>4
    <3> HIDE DEF V
    <3> QED
      BY <3>1, OnlySame
  <2>2. Only(before, B) \in Seq(Nat)
    BY <1>2, OnlyType
  <2>3. Only(all, A) \in Seq(Nat)
    BY <1>2, OnlyType
  <2> QED
    BY <2>1, <2>2, <2>3
<1>7. Only(all, A) = IF n \in A THEN Append(Only(before, A), n) ELSE Only(before, A)
  BY <1>1, <1>2, <1>3, OnlyAppend
<1>8. Carried(s, n) = Only(all, A) /\ Carried(s, n - 1) = Only(before, B)
  BY DEF Carried, all, before, A, B, m
<1>9. /\ Append(Only(before, B), n) = Only(before, B) \o <<n>>
      /\ Only(before, B) \o <<>> = Only(before, B)
  BY <1>1, <1>6, AppendIsConcat, ConcatEmptySeq
<1> QED
  BY <1>5, <1>6, <1>7, <1>8, <1>9

\* Of no messages, no requests.
LEMMA CarriedNone == ASSUME NEW s PROVE Carried(s, 0) = <<>>
<1>1. [i \in 1 .. 0 |-> i] = <<>>
  OBVIOUS
<1> QED
  BY <1>1, OnlyEmpty DEF Carried

\* A message sent later changes nothing of those before.
LEMMA CarriedBefore ==
  ASSUME NEW s \in Seq(Kinds), NEW kind \in Kinds, NEW n \in 0 .. Len(s)
  PROVE  Carried(Append(s, kind), n) = Carried(s, n)
<1>1. \A i \in 1 .. n : Append(s, kind)[i] = s[i]
  <2>1. \A i \in 1 .. n : i \in 1 .. Len(s)
    OBVIOUS
  <2> QED
    BY <2>1, AppendProperties
<1>2. {i \in 1 .. n : Append(s, kind)[i] \in Understood} = {i \in 1 .. n : s[i] \in Understood}
  BY <1>1
<1> QED
  BY <1>2 DEF Carried

-----------------------------------------------------------------------------
(***************************************************************************)
(* What a message is, in bytes: one that is no half of an end tag, the end *)
(* tag, and a payload.                                                     *)
(***************************************************************************)
\* The bytes of the payload.
Payload(kind, n) ==
    CASE kind = "framed"  -> RequestText(n)
      [] kind = "zipped"  -> <<Sym("zip", n)>>
      [] kind = "corrupt" -> <<Sym("junk", n)>>
      [] OTHER            -> <<>>

\* The first symbol.
First(kind, n) ==
    IF kind = "plain" THEN Sym("text", n)
    ELSE [sym |-> "frame", length |-> Len(Payload(kind, n)), zip |-> kind \in {"zipped", "corrupt"}]

IsMessage(e, kind, n) ==
    /\ e \in Seq(Symbols)
    /\ Len(e) = 3 + Len(Payload(kind, n))
    /\ e[1] = First(kind, n)
    /\ e[2] = Sym("</", 0) /\ e[3] = Sym("isr>", 0)
    /\ \A i \in 1 .. Len(Payload(kind, n)) : e[3 + i] = Payload(kind, n)[i]

\* The text of a request is three symbols.
LEMMA RequestTextIs ==
  ASSUME NEW n \in 1 .. MaxMessages
  PROVE  /\ RequestText(n) \in Seq(Symbols) /\ Len(RequestText(n)) = 3
         /\ RequestText(n)[1] = Sym("text", n)
         /\ RequestText(n)[2] = Sym("</", 0) /\ RequestText(n)[3] = Sym("isr>", 0)
<1>1. /\ Sym("text", n) \in Symbols /\ Sym("</", 0) \in Symbols /\ Sym("isr>", 0) \in Symbols
  BY FramingAssumption DEF Symbols, Sym
<1> DEFINE a == Sym("text", n)
           b == Sym("</", 0)
           c == Sym("isr>", 0)
<1>2. a \in Symbols /\ b \in Symbols /\ c \in Symbols
  BY <1>1
<1> HIDE DEF a, b, c
<1>3. /\ <<a>> \in Seq(Symbols) /\ <<b, c>> \in Seq(Symbols)
      /\ Len(<<a>>) = 1 /\ Len(<<b, c>>) = 2
      /\ <<a>>[1] = a /\ <<b, c>>[1] = b /\ <<b, c>>[2] = c
  BY <1>2
<1>4. /\ <<a>> \o <<b, c>> \in Seq(Symbols) /\ Len(<<a>> \o <<b, c>>) = 3
      /\ (<<a>> \o <<b, c>>)[1] = a
      /\ (<<a>> \o <<b, c>>)[2] = b /\ (<<a>> \o <<b, c>>)[3] = c
  BY <1>3, ConcatProperties
<1>5. RequestText(n) = <<a>> \o <<b, c>>
  BY DEF RequestText, EndTag, a, b, c
<1> QED
  BY <1>4, <1>5 DEF a, b, c

\* A payload has at most three symbols.
LEMMA PayloadIs ==
  ASSUME NEW kind \in AllKinds, NEW n \in 1 .. MaxMessages
  PROVE  /\ Payload(kind, n) \in Seq(Symbols) /\ Len(Payload(kind, n)) \in 0 .. 3
         /\ kind = "framed" => Payload(kind, n) = RequestText(n)
         /\ kind = "zipped" => Payload(kind, n) = <<Sym("zip", n)>>
         /\ kind = "corrupt" => Payload(kind, n) = <<Sym("junk", n)>>
         /\ kind \in {"plain", "empty"} => Payload(kind, n) = <<>>
<1>1. Sym("zip", n) \in Symbols /\ Sym("junk", n) \in Symbols
  BY FramingAssumption DEF Symbols, Sym
<1>2. /\ <<Sym("zip", n)>> \in Seq(Symbols) /\ <<Sym("junk", n)>> \in Seq(Symbols)
      /\ Len(<<Sym("zip", n)>>) = 1 /\ Len(<<Sym("junk", n)>>) = 1
      /\ <<>> \in Seq(Symbols) /\ Len(<<>>) = 0
  BY <1>1
<1>3. CASE kind = "framed"
  BY <1>3, RequestTextIs DEF Payload
<1>4. CASE kind = "zipped"
  BY <1>4, <1>2 DEF Payload
<1>5. CASE kind = "corrupt"
  BY <1>5, <1>2 DEF Payload
<1>6. CASE kind \in {"plain", "empty"}
  BY <1>6, <1>2 DEF Payload
<1> QED
  BY <1>3, <1>4, <1>5, <1>6 DEF AllKinds

\* What a client writes is a message.
LEMMA EncodeIs ==
  ASSUME NEW kind \in AllKinds, NEW n \in 1 .. MaxMessages
  PROVE  IsMessage(Encode(kind, n), kind, n)
<1> DEFINE p == Payload(kind, n)
           first == First(kind, n)
           b == Sym("</", 0)
           c == Sym("isr>", 0)
           h == <<first>> \o <<b, c>>
<1>1. p \in Seq(Symbols) /\ Len(p) \in 0 .. 3
  BY PayloadIs
<1>2. first \in Symbols /\ b \in Symbols /\ c \in Symbols
  <2>1. b \in Symbols /\ c \in Symbols
    BY FramingAssumption DEF Symbols, Sym
  <2>2. CASE kind = "plain"
    BY <2>1, <2>2, FramingAssumption DEF Symbols, Sym, First
  <2>3. CASE kind # "plain"
    <3>1. (kind \in {"zipped", "corrupt"}) \in BOOLEAN
      OBVIOUS
    <3>2. first = [sym |-> "frame", length |-> Len(p), zip |-> kind \in {"zipped", "corrupt"}]
      BY <2>3 DEF First
    <3> QED
      BY <1>1, <2>1, <3>1, <3>2 DEF Symbols
  <2> QED
    BY <2>1, <2>2, <2>3
<1>3. Encode(kind, n) = h \o p
  <2>1. CASE kind = "plain"
    <3>1. p = <<>> /\ RequestText(n) = h
      BY <2>1, PayloadIs DEF RequestText, EndTag, First
    <3>2. RequestText(n) \in Seq(Symbols)
      BY RequestTextIs
    <3>3. RequestText(n) \o <<>> = RequestText(n)
      BY <3>2, ConcatEmptySeq
    <3>4. Encode(kind, n) = RequestText(n)
      BY <2>1 DEF Encode
    <3> QED
      BY <3>1, <3>3, <3>4
  <2>2. CASE kind # "plain"
    <3> DEFINE zip == kind \in {"zipped", "corrupt"}
    <3>1. Encode(kind, n) = Frame(p, zip)
      <4>1. kind = "framed" => Encode(kind, n) = Frame(RequestText(n), FALSE)
        BY DEF Encode
      <4>2. kind = "zipped" => Encode(kind, n) = Frame(<<Sym("zip", n)>>, TRUE)
        BY DEF Encode
      <4>3. kind = "corrupt" => Encode(kind, n) = Frame(<<Sym("junk", n)>>, TRUE)
        BY DEF Encode
      <4>4. kind = "empty" => Encode(kind, n) = Frame(<<>>, FALSE)
        BY DEF Encode
      <4>5. kind \in {"framed", "empty"} => zip = FALSE
        OBVIOUS
      <4>6. kind \in {"zipped", "corrupt"} => zip = TRUE
        OBVIOUS
      <4>7. kind \in {"framed", "zipped", "corrupt", "empty"}
        BY <2>2 DEF AllKinds
      <4> HIDE DEF zip
      <4> QED
        BY <4>1, <4>2, <4>3, <4>4, <4>5, <4>6, <4>7, PayloadIs
    <3>2. first = [sym |-> "frame", length |-> Len(p), zip |-> zip]
      BY <2>2 DEF First
    <3> HIDE DEF p, zip, first
    <3> QED
      BY <3>1, <3>2 DEF Frame, EndTag
  <2> QED
    BY <2>1, <2>2
<1> HIDE DEF p, first, b, c
<1>4. /\ <<first>> \in Seq(Symbols) /\ <<b, c>> \in Seq(Symbols)
      /\ Len(<<first>>) = 1 /\ Len(<<b, c>>) = 2
      /\ <<first>>[1] = first /\ <<b, c>>[1] = b /\ <<b, c>>[2] = c
  BY <1>2
<1>5. h \in Seq(Symbols) /\ Len(h) = 3 /\ h[1] = first /\ h[2] = b /\ h[3] = c
  BY <1>4, ConcatProperties
<1> HIDE DEF h
<1>6. /\ h \o p \in Seq(Symbols) /\ Len(h \o p) = 3 + Len(p)
      /\ (h \o p)[1] = first /\ (h \o p)[2] = b /\ (h \o p)[3] = c
      /\ \A i \in 1 .. Len(p) : (h \o p)[3 + i] = p[i]
  <2>1. /\ h \o p \in Seq(Symbols) /\ Len(h \o p) = 3 + Len(p)
        /\ \A i \in 1 .. 3 + Len(p) : (h \o p)[i] = IF i <= 3 THEN h[i] ELSE p[i - 3]
    <3>1. h \in Seq(Symbols) /\ p \in Seq(Symbols) /\ Len(h) = 3
      BY <1>1, <1>5
    <3>2. /\ h \o p \in Seq(Symbols) /\ Len(h \o p) = Len(h) + Len(p)
          /\ \A i \in 1 .. Len(h) + Len(p) : (h \o p)[i] = IF i <= Len(h) THEN h[i] ELSE p[i - Len(h)]
      BY <3>1, ConcatProperties
    <3> QED
      BY <3>1, <3>2
  <2>2. 1 \in 1 .. 3 + Len(p) /\ 2 \in 1 .. 3 + Len(p) /\ 3 \in 1 .. 3 + Len(p)
        /\ \A i \in 1 .. Len(p) : 3 + i \in 1 .. 3 + Len(p) /\ ~ (3 + i <= 3) /\ (3 + i) - 3 = i
    BY <1>1
  <2> QED
    BY <1>5, <2>1, <2>2
<1> QED
  BY <1>3, <1>6 DEF IsMessage, p, first, b, c

-----------------------------------------------------------------------------
(***************************************************************************)
(* One turn of the framing loop at the beginning of a message.             *)
(***************************************************************************)
\* As far as both go, b and e are the same.
Begins(b, e) == \A i \in 1 .. Len(b) : i <= Len(e) => b[i] = e[i]

\* The first end tag is the one behind the first symbol.
LEMMA FirstEndTag ==
  ASSUME NEW kind \in AllKinds, NEW n \in 1 .. MaxMessages,
         NEW e, IsMessage(e, kind, n), NEW b \in Seq(Symbols), Begins(b, e)
  PROVE  /\ Len(b) < 3 => EndTagsAt(b) = {}
         /\ Len(b) >= 3 => 2 \in EndTagsAt(b) /\ \A p \in EndTagsAt(b) : 2 <= p
<1> DEFINE l == Sym("</", 0)
           r == Sym("isr>", 0)
<1>1. Len(b) \in Nat /\ Len(e) \in Nat /\ Len(e) >= 3
  <2>1. Len(Payload(kind, n)) \in 0 .. 3
    BY PayloadIs
  <2> QED
    BY <2>1 DEF IsMessage
<1>2. First(kind, n).sym # "</"
  BY DEF First, Sym
<1>3. l.sym = "</" /\ r.sym = "isr>"
  BY DEF Sym
<1>4. e[1] = First(kind, n) /\ e[2] = l /\ e[3] = r
  BY DEF IsMessage
<1>5. EndTag = <<l, r>>
  BY DEF EndTag
<1> HIDE DEF l, r
<1>6. Len(EndTag) = 2 /\ EndTag[1] = l /\ EndTag[2] = r
  BY <1>5
<1>7. \A p \in 1 .. Len(b) - 1 :
         /\ SubSeq(b, p, p + 1) \in Seq(Symbols) /\ Len(SubSeq(b, p, p + 1)) = 2
         /\ SubSeq(b, p, p + 1)[1] = b[p] /\ SubSeq(b, p, p + 1)[2] = b[p + 1]
  <2> SUFFICES ASSUME NEW p \in 1 .. Len(b) - 1
               PROVE  /\ SubSeq(b, p, p + 1) \in Seq(Symbols) /\ Len(SubSeq(b, p, p + 1)) = 2
                      /\ SubSeq(b, p, p + 1)[1] = b[p] /\ SubSeq(b, p, p + 1)[2] = b[p + 1]
    OBVIOUS
  <2> DEFINE q == p + 1
  <2>1. p \in 1 .. Len(b) + 1 /\ q \in p - 1 .. Len(b) /\ (q - p) + 1 = 2
    BY <1>1
  <2>2. /\ SubSeq(b, p, q) \in Seq(Symbols)
        /\ Len(SubSeq(b, p, q)) = IF p <= q THEN (q - p) + 1 ELSE 0
        /\ \A i \in 1 .. (q - p) + 1 : SubSeq(b, p, q)[i] = b[p + i - 1]
    BY <2>1, SubSeqProperties
  <2>3. p + 1 - 1 = p /\ p + 2 - 1 = p + 1 /\ p <= q /\ 1 \in 1 .. 2 /\ 2 \in 1 .. 2
    BY <2>1
  <2> QED
    BY <2>1, <2>2, <2>3
<1>8. 1 \notin EndTagsAt(b)
  <2> SUFFICES ASSUME 1 \in EndTagsAt(b) PROVE FALSE
    OBVIOUS
  <2>1. 1 \in 1 .. Len(b) - 1 /\ SubSeq(b, 1, 1 + 1) = EndTag
    BY DEF EndTagsAt
  <2>2. b[1] = l
    BY <1>6, <1>7, <2>1
  <2>3. b[1] = e[1]
    BY <1>1, <2>1 DEF Begins
  <2> QED
    BY <1>2, <1>3, <1>4, <2>2, <2>3
<1>9. \A p \in EndTagsAt(b) : p \in 1 .. Len(b) - 1
  BY DEF EndTagsAt
<1>10. ASSUME Len(b) < 3 PROVE EndTagsAt(b) = {}
  <2>1. \A p \in 1 .. Len(b) - 1 : p = 1
    BY <1>1, <1>10
  <2> QED
    BY <1>8, <1>9, <2>1
<1>11. ASSUME Len(b) >= 3 PROVE 2 \in EndTagsAt(b) /\ \A p \in EndTagsAt(b) : 2 <= p
  <2>1. 2 \in 1 .. Len(b) - 1 /\ b[2] = l /\ b[2 + 1] = r
    BY <1>1, <1>4, <1>11 DEF Begins
  <2>2. SubSeq(b, 2, 2 + 1) = EndTag
    <3> DEFINE t == SubSeq(b, 2, 2 + 1)
    <3>1. t \in Seq(Symbols) /\ Len(t) = 2 /\ t[1] = l /\ t[2] = r
      BY <1>7, <2>1
    <3> HIDE DEF t
    <3>2. t = <<t[1], t[2]>>
      BY <3>1, SeqOfTwo
    <3>3. t = <<l, r>>
      BY <3>1, <3>2
    <3> QED
      BY <1>5, <3>3 DEF t
  <2>3. 2 \in EndTagsAt(b)
    BY <2>1, <2>2 DEF EndTagsAt
  <2>4. \A p \in EndTagsAt(b) : 2 <= p
    BY <1>1, <1>8, <1>9
  <2> QED
    BY <2>3, <2>4
<1> QED
  BY <1>10, <1>11

\* What a turn makes of what it has found: the whole length, and the text.
Found(buf, total, doc) ==
    IF Len(buf) < total THEN Nothing(buf)
    ELSE [rest |-> SubSeq(buf, total + 1, Len(buf)), ids |-> ParsedText(doc), count |-> 1]

\* The turn at a whole header.
LEMMA TurnFinds ==
  ASSUME NEW kind \in AllKinds, NEW n \in 1 .. MaxMessages,
         NEW e, IsMessage(e, kind, n), NEW b \in Seq(Symbols), Begins(b, e), Len(b) >= 3
  PROVE  LET xml == SubSeq(b, 1, 3)
             payload == SubSeq(b, 4, Len(e))
         IN  /\ Len(xml) = 3 /\ xml[1] = First(kind, n)
             /\ Step(b) = Found(b, Len(e), IF kind = "plain" THEN xml
                                           ELSE IF kind \in {"zipped", "corrupt"}
                                                THEN Inflate(payload) ELSE payload)
<1> DEFINE position == CHOOSE p \in EndTagsAt(b) : \A q \in EndTagsAt(b) : p <= q
           header == position + 1
           xml == SubSeq(b, 1, header)
           total == IF IsFrame(xml) THEN header + xml[1].length ELSE header
           payload == SubSeq(b, header + 1, total)
           doc == IF ~IsFrame(xml) THEN xml
                  ELSE IF xml[1].zip THEN Inflate(payload) ELSE payload
<1>1. Step(b) = IF EndTagsAt(b) = {} THEN Nothing(b) ELSE Found(b, total, doc)
  BY DEF Step, Found
<1>2. position = 2
  <2>1. 2 \in EndTagsAt(b) /\ \A p \in EndTagsAt(b) : 2 <= p
    BY FirstEndTag
  <2>2. \A p \in EndTagsAt(b) : p \in 1 .. Len(b) - 1
    BY DEF EndTagsAt
  <2>3. position \in EndTagsAt(b) /\ \A q \in EndTagsAt(b) : position <= q
    BY <2>1
  <2> HIDE DEF position
  <2>4. position \in Int /\ position <= 2 /\ 2 <= position
    BY <2>1, <2>2, <2>3
  <2> QED
    BY <2>4
<1>3. EndTagsAt(b) # {}
  BY FirstEndTag
<1> HIDE DEF position
<1>4. header = 3
  BY <1>2
<1> HIDE DEF header
<1>5. Len(xml) = 3 /\ xml[1] = First(kind, n)
  <2>1. Len(b) \in Nat /\ 1 \in 1 .. Len(b) + 1 /\ 3 \in 1 - 1 .. Len(b)
    OBVIOUS
  <2>2. /\ Len(SubSeq(b, 1, 3)) = IF 1 <= 3 THEN (3 - 1) + 1 ELSE 0
        /\ \A i \in 1 .. (3 - 1) + 1 : SubSeq(b, 1, 3)[i] = b[1 + i - 1]
    BY <2>1, SubSeqProperties
  <2>3. Len(SubSeq(b, 1, 3)) = 3 /\ SubSeq(b, 1, 3)[1] = b[1]
    BY <2>2
  <2>4. b[1] = e[1]
    <3>1. 1 \in 1 .. Len(b) /\ 1 <= Len(e)
      BY PayloadIs DEF IsMessage
    <3> QED
      BY <3>1 DEF Begins
  <2> QED
    BY <1>4, <2>3, <2>4 DEF IsMessage
<1>6. xml = SubSeq(b, 1, 3)
  BY <1>4
<1> HIDE DEF xml
<1>7. CASE kind = "plain"
  <2>1. ~IsFrame(xml)
    BY <1>5, <1>7 DEF IsFrame, First, Sym
  <2>2. Len(e) = 3
    BY <1>7, PayloadIs DEF IsMessage
  <2>3. total = Len(e) /\ doc = xml
    BY <1>4, <2>1, <2>2
  <2> HIDE DEF total, doc
  <2> QED
    BY <1>1, <1>3, <1>5, <1>6, <1>7, <2>3
<1>8. CASE kind # "plain"
  <2> DEFINE zip == kind \in {"zipped", "corrupt"}
  <2>1. xml[1] = [sym |-> "frame", length |-> Len(Payload(kind, n)), zip |-> zip]
    BY <1>5, <1>8 DEF First
  <2> HIDE DEF zip
  <2>2. xml[1].sym = "frame" /\ xml[1].length = Len(Payload(kind, n)) /\ xml[1].zip = zip
    BY <2>1
  <2>3. IsFrame(xml)
    BY <1>5, <2>2 DEF IsFrame
  <2>4. total = Len(e)
    BY <1>4, <2>2, <2>3 DEF IsMessage
  <2> HIDE DEF total
  <2>5. payload = SubSeq(b, 4, Len(e))
    BY <1>4, <2>4
  <2> HIDE DEF payload
  <2>6. doc = IF zip THEN Inflate(payload) ELSE payload
    BY <2>2, <2>3
  <2> HIDE DEF doc
  <2> QED
    BY <1>1, <1>3, <1>5, <1>6, <1>8, <2>4, <2>5, <2>6 DEF zip
<1> QED
  BY <1>7, <1>8

\* A beginning of a message stays where it is.
LEMMA PartIsLeft ==
  ASSUME NEW kind \in AllKinds, NEW n \in 1 .. MaxMessages,
         NEW e, IsMessage(e, kind, n), NEW b \in Seq(Symbols), Begins(b, e), Len(b) < Len(e)
  PROVE  Step(b) = Nothing(b)
<1>1. CASE Len(b) < 3
  BY <1>1, FirstEndTag DEF Step
<1>2. CASE Len(b) >= 3
  <2>1. PICK doc : Step(b) = Found(b, Len(e), doc)
    BY <1>2, TurnFinds
  <2> QED
    BY <2>1 DEF Found
<1> QED
  BY <1>1, <1>2

\* A whole message is taken, with the request it carries.
LEMMA WholeIsTaken ==
  ASSUME NEW kind \in AllKinds, NEW n \in 1 .. MaxMessages,
         NEW e, IsMessage(e, kind, n), NEW b \in Seq(Symbols), Begins(b, e), Len(b) >= Len(e)
  PROVE  Step(b) = [rest |-> SubSeq(b, Len(e) + 1, Len(b)),
                    ids |-> IF kind \in Understood THEN <<n>> ELSE <<>>,
                    count |-> 1]
<1> DEFINE xml == SubSeq(b, 1, 3)
           payload == SubSeq(b, 4, Len(e))
           p == Payload(kind, n)
           doc == IF kind = "plain" THEN xml
                  ELSE IF kind \in {"zipped", "corrupt"} THEN Inflate(payload) ELSE payload
<1>1. Len(b) \in Nat /\ Len(e) = 3 + Len(p) /\ Len(p) \in 0 .. 3 /\ Len(b) >= 3
      /\ e \in Seq(Symbols) /\ p \in Seq(Symbols)
  BY PayloadIs DEF IsMessage
<1>2. /\ Len(xml) = 3 /\ xml[1] = First(kind, n)
      /\ Step(b) = Found(b, Len(e), doc)
  BY <1>1, TurnFinds
<1>3. payload = p
  <2>1. /\ 4 \in 1 .. Len(b) + 1 /\ Len(e) \in 4 - 1 .. Len(b)
        /\ Len(e) - 4 + 1 = Len(p)
    BY <1>1
  <2> DEFINE m == Len(e)
  <2>2. /\ payload \in Seq(Symbols)
        /\ Len(payload) = IF 4 <= m THEN (m - 4) + 1 ELSE 0
        /\ \A i \in 1 .. (m - 4) + 1 : payload[i] = b[4 + i - 1]
    BY <2>1, SubSeqProperties
  <2> HIDE DEF payload, p
  <2>3. Len(payload) = Len(p)
    BY <1>1, <2>2
  <2>4. \A i \in 1 .. Len(p) : payload[i] = p[i]
    <3> SUFFICES ASSUME NEW i \in 1 .. Len(p) PROVE payload[i] = p[i]
      OBVIOUS
    <3>1. i \in 1 .. (m - 4) + 1 /\ 4 + i - 1 = 3 + i /\ 3 + i \in 1 .. Len(b) /\ 3 + i <= Len(e)
      BY <1>1
    <3>2. payload[i] = b[3 + i] /\ b[3 + i] = e[3 + i]
      BY <2>2, <3>1 DEF Begins
    <3>3. e[3 + i] = p[i]
      BY DEF IsMessage, p
    <3> QED
      BY <3>2, <3>3
  <2> QED
    BY <1>1, <2>2, <2>3, <2>4, SeqEqual
<1>4. ParsedText(doc) = IF kind \in Understood THEN <<n>> ELSE <<>>
  <2> HIDE DEF xml, payload
  <2>1. Sym("text", n).sym = "text" /\ Sym("text", n).id = n
        /\ Sym("zip", n).sym = "zip" /\ Sym("zip", n).id = n /\ Sym("junk", n).sym = "junk"
    BY DEF Sym
  <2>2. Len(RequestText(n)) = 3 /\ RequestText(n)[1] = Sym("text", n)
    BY RequestTextIs
  <2>3. ParsedText(RequestText(n)) = <<n>>
    BY <2>1, <2>2 DEF ParsedText
  <2>4. ParsedText(<<>>) = <<>>
    <3>1. Len(<<>>) = 0
      BY EmptySeq
    <3> QED
      BY <3>1 DEF ParsedText
  <2>5. CASE kind = "plain"
    <3>1. xml[1] = Sym("text", n)
      BY <1>2, <2>5 DEF First
    <3>2. ParsedText(xml) = <<n>>
      BY <1>2, <2>1, <3>1 DEF ParsedText
    <3> QED
      BY <2>5, <3>2 DEF Understood
  <2>6. CASE kind = "framed"
    <3>1. doc = RequestText(n)
      BY <1>3, <2>6, PayloadIs
    <3> QED
      BY <2>3, <2>6, <3>1 DEF Understood
  <2>7. CASE kind = "zipped"
    <3>1. payload = <<Sym("zip", n)>>
      BY <1>3, <2>7, PayloadIs
    <3>2. Len(payload) = 1 /\ payload[1] = Sym("zip", n)
      BY <3>1
    <3>3. Inflate(payload) = RequestText(n)
      BY <2>1, <3>2 DEF Inflate
    <3>4. doc = Inflate(payload)
      BY <2>7
    <3> QED
      BY <2>3, <2>7, <3>3, <3>4 DEF Understood
  <2>8. CASE kind = "corrupt"
    <3>1. payload = <<Sym("junk", n)>>
      BY <1>3, <2>8, PayloadIs
    <3>2. Len(payload) = 1 /\ payload[1] = Sym("junk", n)
      BY <3>1
    <3>3. Inflate(payload) = <<>>
      BY <2>1, <3>2 DEF Inflate
    <3>4. doc = Inflate(payload)
      BY <2>8
    <3> QED
      BY <2>4, <2>8, <3>3, <3>4 DEF Understood
  <2>9. CASE kind = "empty"
    <3>1. doc = <<>>
      BY <1>3, <2>9, PayloadIs
    <3> QED
      BY <2>4, <2>9, <3>1 DEF Understood
  <2> QED
    BY <2>5, <2>6, <2>7, <2>8, <2>9 DEF AllKinds
<1> HIDE DEF doc
<1>5. ~ (Len(b) < Len(e))
  BY <1>1
<1> QED
  BY <1>2, <1>4, <1>5 DEF Found

-----------------------------------------------------------------------------
(***************************************************************************)
(* All that a client writes, from each message on.                         *)
(***************************************************************************)
\* f[n] is what is written behind the n-th of the messages s.
Writes(f, s) ==
    /\ f \in [0 .. Len(s) -> Seq(Symbols)]
    /\ f[Len(s)] = <<>>
    /\ \A n \in 1 .. Len(s) : f[n - 1] = Encode(s[n], n) \o f[n]

\* Messages of this connection.
Messages == {s \in Seq(Kinds) : Len(s) <= MaxMessages}

\* A message more is written behind all the others.
LEMMA WritesMore ==
  ASSUME NEW s \in Seq(Kinds), Len(s) < MaxMessages, NEW kind \in Kinds, NEW f, Writes(f, s)
  PROVE  LET e == Encode(kind, Len(s) + 1)
         IN  /\ e \in Seq(Symbols)
             /\ \E g : /\ Writes(g, Append(s, kind))
                       /\ \A n \in 0 .. Len(s) : g[n] = f[n] \o e
<1> DEFINE N == Len(s)
           e == Encode(kind, N + 1)
           more == Append(s, kind)
           g == [n \in 0 .. N + 1 |-> IF n = N + 1 THEN <<>> ELSE f[n] \o e]
<1>1. /\ more \in Seq(Kinds) /\ Len(more) = N + 1 /\ N \in Nat /\ more[N + 1] = kind
      /\ \A i \in 1 .. N : more[i] = s[i]
  BY AppendProperties
<1>2. e \in Seq(Symbols)
  <2>1. N + 1 \in 1 .. MaxMessages /\ kind \in AllKinds
    BY <1>1, FramingAssumption
  <2> QED
    BY <2>1, EncodeIs DEF IsMessage
<1>3. /\ f \in [0 .. N -> Seq(Symbols)] /\ f[N] = <<>>
      /\ \A n \in 1 .. N : f[n - 1] = Encode(s[n], n) \o f[n]
  BY DEF Writes
<1> HIDE DEF more
<1>4. \A n \in 0 .. N : f[n] \in Seq(Symbols) /\ f[n] \o e \in Seq(Symbols)
                        /\ n # N + 1 /\ n \in 0 .. N + 1
  <2> SUFFICES ASSUME NEW n \in 0 .. N
               PROVE  f[n] \in Seq(Symbols) /\ f[n] \o e \in Seq(Symbols)
                      /\ n # N + 1 /\ n \in 0 .. N + 1
    OBVIOUS
  <2>1. f[n] \in Seq(Symbols) /\ n # N + 1 /\ n \in 0 .. N + 1
    BY <1>1, <1>3, SMTT(30)
  <2> DEFINE u == f[n]
  <2>2. u \in Seq(Symbols) /\ e \in Seq(Symbols)
    BY <1>2, <2>1
  <2>3. u \o e \in Seq(Symbols)
    <3> HIDE DEF u, e
    <3> QED
      BY <2>2, ConcatProperties
  <2> QED
    BY <2>1, <2>3
<1> DEFINE E(n) == Encode(more[n], n)
<1>5. \A n \in 0 .. N : g[n] = f[n] \o e
  BY <1>4
<1>6. g \in [0 .. N + 1 -> Seq(Symbols)] /\ g[N + 1] = <<>>
  <2>1. \A n \in 0 .. N + 1 : n = N + 1 \/ n \in 0 .. N
    BY <1>1
  <2>2. <<>> \in Seq(Symbols) /\ N + 1 \in 0 .. N + 1
    BY <1>1, EmptySeq
  <2> QED
    BY <1>4, <2>1, <2>2
<1> HIDE DEF g
<1>7. \A n \in 1 .. N + 1 : g[n - 1] = E(n) \o g[n]
  <2> SUFFICES ASSUME NEW n \in 1 .. N + 1 PROVE g[n - 1] = E(n) \o g[n]
    OBVIOUS
  <2>1. CASE n = N + 1
    <3>1. E(n) = e /\ n - 1 = N /\ N \in 0 .. N
      BY <1>1, <2>1
    <3>2. g[N] = <<>> \o e /\ g[n] = <<>>
      BY <1>3, <1>5, <1>6, <2>1, <3>1
    <3>3. <<>> \o e = e /\ e \o <<>> = e
      BY <1>2, ConcatEmptySeq
    <3> HIDE DEF e, E
    <3> QED
      BY <3>1, <3>2, <3>3
  <2>2. CASE n # N + 1
    <3>1. n \in 1 .. N /\ n - 1 \in 0 .. N /\ n \in 0 .. N /\ n \in Nat
      BY <1>1, <2>2
    <3>2. E(n) = Encode(s[n], n)
      BY <1>1, <3>1
    <3>3. Encode(s[n], n) \in Seq(Symbols)
      <4>1. n \in 1 .. MaxMessages /\ s[n] \in AllKinds
        BY <1>1, <3>1, FramingAssumption
      <4> QED
        BY <4>1, EncodeIs DEF IsMessage
    <3> DEFINE m == Encode(s[n], n)
               u == f[n]
    <3>4. g[n - 1] = (m \o u) \o e /\ g[n] = u \o e
      BY <1>3, <1>5, <3>1
    <3>5. (m \o u) \o e = m \o (u \o e)
      <4>1. m \in Seq(Symbols) /\ u \in Seq(Symbols) /\ e \in Seq(Symbols)
        BY <1>2, <1>4, <3>1, <3>3
      <4> HIDE DEF m, u, e
      <4> QED
        BY <4>1, ConcatAssociative
    <3> HIDE DEF m, u, e, E
    <3> QED
      BY <3>2, <3>4, <3>5 DEF m
  <2> QED
    BY <2>1, <2>2
<1>8. Writes(g, more)
  <2>1. \A n \in 1 .. Len(more) : g[n - 1] = Encode(more[n], n) \o g[n]
    BY <1>1, <1>7
  <2> QED
    BY <1>1, <1>6, <2>1 DEF Writes
<1> QED
  BY <1>2, <1>5, <1>8 DEF more

\* b begins with e, or is its beginning, and behind e comes q.
Cuts(b, r, e, q, T) ==
    /\ Begins(b, e)
    /\ Len(b) >= Len(e) =>
         LET c == SubSeq(b, Len(e) + 1, Len(b))
         IN  c \in Seq(T) /\ Len(c) = Len(b) - Len(e) /\ c \o r = q

\* What two ways to cut the same bytes say of each other.
LEMMA TwoCuts ==
  ASSUME NEW T, NEW b \in Seq(T), NEW r \in Seq(T), NEW e \in Seq(T), NEW q \in Seq(T),
         b \o r = e \o q
  PROVE  Cuts(b, r, e, q, T)
<1>1. /\ Len(b) \in Nat /\ Len(r) \in Nat /\ Len(e) \in Nat /\ Len(q) \in Nat
      /\ Len(b) + Len(r) = Len(e) + Len(q)
      /\ \A i \in 1 .. Len(b) + Len(r) : (b \o r)[i] = IF i <= Len(b) THEN b[i] ELSE r[i - Len(b)]
      /\ \A i \in 1 .. Len(e) + Len(q) : (e \o q)[i] = IF i <= Len(e) THEN e[i] ELSE q[i - Len(e)]
  <2>1. /\ Len(b \o r) = Len(b) + Len(r)
        /\ \A i \in 1 .. Len(b) + Len(r) : (b \o r)[i] = IF i <= Len(b) THEN b[i] ELSE r[i - Len(b)]
    BY ConcatProperties
  <2>2. /\ Len(e \o q) = Len(e) + Len(q)
        /\ \A i \in 1 .. Len(e) + Len(q) : (e \o q)[i] = IF i <= Len(e) THEN e[i] ELSE q[i - Len(e)]
    BY ConcatProperties
  <2> QED
    BY <2>1, <2>2
<1>2. ASSUME NEW i \in 1 .. Len(b), i <= Len(e) PROVE b[i] = e[i]
  <2>1. i \in 1 .. Len(b) + Len(r) /\ i \in 1 .. Len(e) + Len(q) /\ i <= Len(b)
    BY <1>1
  <2>2. (b \o r)[i] = b[i] /\ (e \o q)[i] = e[i]
    BY <1>1, <1>2, <2>1
  <2> QED
    BY <2>2
<1>3. ASSUME Len(b) >= Len(e)
      PROVE  /\ SubSeq(b, Len(e) + 1, Len(b)) \in Seq(T)
             /\ Len(SubSeq(b, Len(e) + 1, Len(b))) = Len(b) - Len(e)
             /\ SubSeq(b, Len(e) + 1, Len(b)) \o r = q
  <2> DEFINE m == Len(e) + 1
             M == Len(b)
             c == SubSeq(b, m, M)
             L == M - Len(e)
  <2>1. m \in Int /\ M \in Int /\ L \in Nat /\ M - m + 1 = L /\ \A i \in m .. M : b[i] \in T
    <3>1. \A i \in m .. M : i \in 1 .. Len(b)
      BY <1>1
    <3> QED
      BY <1>1, <1>3, <3>1
  <2>2. /\ c \in Seq(T) /\ Len(c) = IF m <= M THEN M - m + 1 ELSE 0
        /\ \A i \in 1 .. M - m + 1 : c[i] = b[m + i - 1]
    BY <2>1, SubSeqProperties
  <2> HIDE DEF c
  <2>3. Len(c) = L
    <3>1. m <= M \/ (L = 0 /\ ~ (m <= M))
      BY <1>1, <1>3
    <3> HIDE DEF m, M, L
    <3> QED
      BY <2>1, <2>2, <3>1
  <2>4. \A i \in 1 .. L : c[i] = b[Len(e) + i]
    <3>1. \A i \in 1 .. L : i \in 1 .. M - m + 1 /\ m + i - 1 = Len(e) + i
      BY <1>1, <2>1
    <3> QED
      BY <2>2, <3>1
  <2>5. /\ c \o r \in Seq(T) /\ Len(c \o r) = L + Len(r)
        /\ \A i \in 1 .. L + Len(r) : (c \o r)[i] = IF i <= L THEN c[i] ELSE r[i - L]
    <3>1. /\ c \o r \in Seq(T) /\ Len(c \o r) = Len(c) + Len(r)
          /\ \A i \in 1 .. Len(c) + Len(r) : (c \o r)[i] = IF i <= Len(c) THEN c[i] ELSE r[i - Len(c)]
      BY <2>2, ConcatProperties
    <3> QED
      BY <2>3, <3>1
  <2>6. L + Len(r) = Len(q)
    BY <1>1, <1>3
  <2>7. ASSUME NEW i \in 1 .. Len(q) PROVE (c \o r)[i] = q[i]
    <3> DEFINE j == Len(e) + i
    <3>1. j \in 1 .. Len(b) + Len(r) /\ j \in 1 .. Len(e) + Len(q) /\ ~ (j <= Len(e))
          /\ j - Len(e) = i /\ i \in 1 .. L + Len(r) /\ j - Len(b) = i - L
          /\ (j <= Len(b) <=> i <= L)
      BY <1>1, <1>3, <2>6
    <3> HIDE DEF j
    <3>2. (e \o q)[j] = q[i]
      BY <1>1, <3>1
    <3>3. CASE i <= L
      <4>1. (b \o r)[j] = b[j]
        BY <1>1, <3>1, <3>3
      <4>2. i \in 1 .. L
        BY <2>1, <3>3
      <4>3. (c \o r)[i] = b[j]
        BY <2>4, <2>5, <3>1, <3>3, <4>2 DEF j
      <4> QED
        BY <3>2, <4>1, <4>3
    <3>4. CASE ~ (i <= L)
      <4>1. (b \o r)[j] = r[i - L]
        BY <1>1, <3>1, <3>4
      <4>2. (c \o r)[i] = r[i - L]
        BY <2>5, <3>1, <3>4
      <4> QED
        BY <3>2, <4>1, <4>2
    <3> QED
      BY <3>3, <3>4
  <2>8. c \o r = q
    <3>1. Len(c \o r) = Len(q) /\ \A i \in 1 .. Len(q) : (c \o r)[i] = q[i]
      BY <2>5, <2>6, <2>7
    <3> DEFINE d == c \o r
    <3>2. d \in Seq(T) /\ Len(d) = Len(q) /\ \A i \in 1 .. Len(d) : d[i] = q[i]
      BY <2>5, <3>1
    <3> HIDE DEF d
    <3>3. d = q
      BY <3>2, SeqEqual
    <3> QED
      BY <3>3 DEF d
  <2> QED
    BY <2>2, <2>3, <2>8 DEF c
<1> QED
  BY <1>2, <1>3 DEF Cuts, Begins

-----------------------------------------------------------------------------
(***************************************************************************)
(* The framing loop.                                                       *)
(***************************************************************************)
\* One turn more.
Turn(v) ==
    LET turn == Step(v.rest)
    IN  [rest |-> turn.rest, ids |-> v.ids \o turn.ids, count |-> v.count + turn.count]

\* What the loop may have come to behind the t-th message, when r is still to come:
\* it stands at the k-th, and has found the requests up to it.
Reached(s, f, t, r) ==
    {v \in [rest : Seq(Symbols), ids : Seq(Nat), count : Nat] :
        \E k \in t .. Len(s) : /\ v.count = k - t
                               /\ v.rest \o r = f[k]
                               /\ Carried(s, t) \o v.ids = Carried(s, k)}

\* In an empty buffer nothing is found.
LEMMA EmptyBuffer == Step(<<>>) = Nothing(<<>>)
<1>1. Len(<<>>) = 0
  BY EmptySeq
<1>2. 1 .. (0 - 1) = {}
  OBVIOUS
<1>3. EndTagsAt(<<>>) = {}
  BY <1>1, <1>2 DEF EndTagsAt
<1> QED
  BY <1>3 DEF Step

\* A turn either breaks and changes nothing, or takes a message.
TurnIs(v, A) ==
    /\ Turn(v) \in A
    /\ Step(v.rest).count = 0 => Turn(v) = v
    /\ Step(v.rest).count # 0 => Len(Turn(v).rest) < Len(v.rest)

\* A turn that finds nothing.
LEMMA TurnBreaks ==
  ASSUME NEW v \in [rest : Seq(Symbols), ids : Seq(Nat), count : Nat],
         Step(v.rest) = Nothing(v.rest)
  PROVE  Step(v.rest).count = 0 /\ Turn(v) = v
<1>1. Step(v.rest).rest = v.rest /\ Step(v.rest).ids = <<>> /\ Step(v.rest).count = 0
  BY DEF Nothing
<1>2. v.ids \o <<>> = v.ids /\ v.count + 0 = v.count
  <2>1. v.ids \in Seq(Nat) /\ v.count \in Nat
    OBVIOUS
  <2> QED
    BY <2>1, ConcatEmptySeq
<1>3. Turn(v) = [rest |-> v.rest, ids |-> v.ids, count |-> v.count]
  BY <1>1, <1>2 DEF Turn
<1> QED
  BY <1>1, <1>3

\* Every turn.
LEMMA TurnKeeps ==
  ASSUME NEW s \in Messages, NEW f, Writes(f, s), NEW t \in 0 .. Len(s),
         NEW r \in Seq(Symbols), NEW v \in Reached(s, f, t, r)
  PROVE  TurnIs(v, Reached(s, f, t, r))
<1>1. /\ v \in [rest : Seq(Symbols), ids : Seq(Nat), count : Nat]
      /\ s \in Seq(Kinds) /\ Len(s) \in Nat /\ Len(s) <= MaxMessages
  BY DEF Reached, Messages
<1>2. PICK k \in t .. Len(s) : /\ v.count = k - t
                               /\ v.rest \o r = f[k]
                               /\ Carried(s, t) \o v.ids = Carried(s, k)
  BY DEF Reached
<1>3. /\ f \in [0 .. Len(s) -> Seq(Symbols)] /\ f[Len(s)] = <<>>
      /\ \A n \in 1 .. Len(s) : f[n - 1] = Encode(s[n], n) \o f[n]
  BY DEF Writes
<1> DEFINE b == v.rest
<1>4. b \in Seq(Symbols) /\ v.ids \in Seq(Nat) /\ v.count \in Nat
  BY <1>1
<1>5. ASSUME Step(b) = Nothing(b) PROVE TurnIs(v, Reached(s, f, t, r))
  <2>1. Step(v.rest).count = 0 /\ Turn(v) = v
    BY <1>1, <1>5, TurnBreaks
  <2> QED
    BY <2>1 DEF TurnIs
<1>6. CASE k = Len(s)
  <2>1. b \o r = <<>>
    BY <1>2, <1>3, <1>6
  <2>2. b = <<>>
    <3> HIDE DEF b
    <3>1. Len(b \o r) = Len(b) + Len(r) /\ Len(b) \in Nat /\ Len(r) \in Nat
      BY <1>4, ConcatProperties
    <3>2. Len(b \o r) = 0
      BY <2>1, EmptySeq
    <3>3. Len(b) = 0
      BY <3>1, <3>2
    <3> QED
      BY <1>4, <3>3, EmptySeq
  <2> QED
    BY <1>5, <2>2, EmptyBuffer
<1>7. CASE k # Len(s)
  <2> DEFINE n == k + 1
             kind == s[n]
             e == Encode(kind, n)
             q == f[n]
             x == IF kind \in Understood THEN <<n>> ELSE <<>>
             c == SubSeq(b, Len(e) + 1, Len(b))
  <2>1. n \in 1 .. Len(s) /\ n - 1 = k /\ n \in 0 .. Len(s) /\ n \in 1 .. MaxMessages
        /\ k \in Nat /\ n \in t .. Len(s) /\ t \in Nat /\ n \in Nat \ {0}
    <3> DEFINE L == Len(s)
    <3>1. L \in Nat /\ L <= MaxMessages /\ k \in t .. L /\ t \in 0 .. L /\ k # L
          /\ MaxMessages \in Nat
      BY <1>1, <1>7, FramingAssumption
    <3> HIDE DEF L
    <3>2. k \in Nat /\ t \in Nat /\ k < L /\ t <= k
      BY <3>1
    <3>3. n \in 1 .. L /\ n - 1 = k /\ n \in 0 .. L /\ n \in t .. L /\ n \in Nat \ {0}
      BY <3>1, <3>2
    <3>4. n \in 1 .. MaxMessages
      BY <3>1, <3>3
    <3> QED
      BY <3>2, <3>3, <3>4 DEF L
  <2>2. kind \in AllKinds
    BY <1>1, <2>1, FramingAssumption
  <2>3. q \in Seq(Symbols) /\ f[k] = e \o q
    BY <1>3, <2>1
  <2> HIDE DEF n
  <2>4. IsMessage(e, kind, n) /\ e \in Seq(Symbols)
    <3>1. IsMessage(e, kind, n)
      BY <2>1, <2>2, EncodeIs
    <3> QED
      BY <3>1 DEF IsMessage
  <2> HIDE DEF b, kind, e, q
  <2>5. b \o r = e \o q
    BY <1>2, <2>3 DEF b
  <2>6. /\ Begins(b, e)
        /\ Len(b) >= Len(e) => /\ c \in Seq(Symbols) /\ Len(c) = Len(b) - Len(e)
                               /\ c \o r = q
    <3>1. b \in Seq(Symbols) /\ e \in Seq(Symbols) /\ q \in Seq(Symbols) /\ b \o r = e \o q
      BY <1>4, <2>3, <2>4, <2>5 DEF b
    <3>2. Cuts(b, r, e, q, Symbols)
      BY <3>1, TwoCuts
    <3> QED
      BY <3>2 DEF Cuts
  <2> HIDE DEF c
  <2>7. Len(b) \in Nat /\ Len(e) \in Nat /\ Len(e) >= 3
    <3>1. Len(Payload(kind, n)) \in 0 .. 3
      BY <2>1, <2>2, PayloadIs
    <3> QED
      BY <1>4, <2>4, <3>1 DEF IsMessage
  <2>8. CASE Len(b) < Len(e)
    <3>1. Step(b) = Nothing(b)
      BY <1>4, <2>1, <2>2, <2>4, <2>6, <2>8, PartIsLeft
    <3> QED
      BY <1>5, <3>1
  <2>9. CASE ~ (Len(b) < Len(e))
    <3>1. /\ Len(b) >= Len(e) /\ c \in Seq(Symbols) /\ Len(c) = Len(b) - Len(e)
          /\ c \o r = q
      BY <2>6, <2>7, <2>9
    <3>2. Step(b) = [rest |-> c, ids |-> x, count |-> 1]
      BY <1>4, <2>1, <2>2, <2>4, <2>6, <3>1, WholeIsTaken DEF c
    <3>3. x \in Seq(Nat)
      BY <2>1
    <3> HIDE DEF x
    <3>4. Step(b).rest = c /\ Step(b).ids = x /\ Step(b).count = 1
      BY <3>2
    <3>5. Turn(v) = [rest |-> c, ids |-> v.ids \o x, count |-> v.count + 1]
      BY <3>4 DEF Turn, b
    <3>6. /\ v.ids \o x \in Seq(Nat)
          /\ Carried(s, t) \o (v.ids \o x) = Carried(s, n)
      <4> DEFINE i == v.ids
                 j == Carried(s, t)
      <4>1. j \in Seq(Nat)
        <5>1. t + 1 \in Nat \ {0} /\ (t + 1) - 1 = t
          BY <2>1
        <5>2. Carried(s, (t + 1) - 1) \in Seq(Nat)
          BY <5>1, CarriedMore
        <5> QED
          BY <5>1, <5>2
      <4>2. Carried(s, n) = Carried(s, k) \o x
        <5>1. Carried(s, n) = Carried(s, n - 1) \o (IF s[n] \in Understood THEN <<n>> ELSE <<>>)
          BY <2>1, CarriedMore
        <5> QED
          BY <2>1, <5>1 DEF x, kind
      <4>3. i \in Seq(Nat) /\ j \o i = Carried(s, k)
        BY <1>2, <1>4
      <4> HIDE DEF i, j
      <4>4. i \o x \in Seq(Nat) /\ (j \o i) \o x = j \o (i \o x)
        <5>1. x \in Seq(Nat) /\ i \in Seq(Nat) /\ j \in Seq(Nat)
          BY <3>3, <4>1, <4>3
        <5>2. i \o x \in Seq(Nat)
          BY <5>1, ConcatProperties
        <5>3. (j \o i) \o x = j \o (i \o x)
          <6> DEFINE T == Nat
          <6>1. x \in Seq(T) /\ i \in Seq(T) /\ j \in Seq(T)
            BY <5>1
          <6> HIDE DEF T
          <6> QED
            BY <6>1, ConcatAssociative
        <5> QED
          BY <5>2, <5>3
      <4>5. j \o (i \o x) = Carried(s, n)
        BY <4>2, <4>3, <4>4
      <4> QED
        BY <4>4, <4>5 DEF i, j
    <3> DEFINE w == [rest |-> c, ids |-> v.ids \o x, count |-> v.count + 1]
    <3>7. w.rest = c /\ w.ids = v.ids \o x /\ w.count = v.count + 1
      OBVIOUS
    <3>8. w \in [rest : Seq(Symbols), ids : Seq(Nat), count : Nat]
      BY <1>4, <3>1, <3>6
    <3> HIDE DEF w
    <3>9. w \in Reached(s, f, t, r)
      <4>1. v.count + 1 = n - t
        BY <1>2, <2>1
      <4>2. w.count = n - t /\ w.rest \o r = f[n] /\ Carried(s, t) \o w.ids = Carried(s, n)
        BY <3>1, <3>6, <3>7, <4>1 DEF q
      <4> QED
        BY <2>1, <3>8, <4>2 DEF Reached
    <3>10. Len(c) < Len(b)
      BY <2>7, <3>1
    <3>11. Turn(v) = w
      BY <3>5 DEF w
    <3> QED
      BY <3>4, <3>7, <3>9, <3>10, <3>11 DEF TurnIs, b
  <2> QED
    BY <2>8, <2>9
<1> QED
  BY <1>6, <1>7

\* What the loop comes to: it has taken all the whole messages there are.
Consumed(v, s, f, t, r) == v \in Reached(s, f, t, r) /\ Step(v.rest).count = 0

\* The loop does come to it.
LEMMA ConsumeIs ==
  ASSUME NEW s \in Messages, NEW f, Writes(f, s), NEW t \in 0 .. Len(s),
         NEW r \in Seq(Symbols), NEW b \in Seq(Symbols), b \o r = f[t]
  PROVE  Consumed(Consume(b), s, f, t, r)
<1> DEFINE V == Reached(s, f, t, r)
           base == Nothing(b)
           N == Len(b)
           F == [p \in Nat \X V |-> Turn(p[2])]
           All(h) == h = [n \in 0 .. N |-> IF n = 0 THEN base ELSE Turn(h[n - 1])]
           after == CHOOSE h : All(h)
<1>1. N \in Nat /\ t \in Nat /\ t \in t .. Len(s)
  BY DEF Messages
<1>2. base.rest = b /\ base.ids = <<>> /\ base.count = 0
  BY DEF Nothing
<1>3. base \in V
  <2>1. base \in [rest : Seq(Symbols), ids : Seq(Nat), count : Nat]
    BY DEF Nothing
  <2> HIDE DEF base
  <2>2. Carried(s, t) \in Seq(Nat)
    <3>1. t + 1 \in Nat \ {0} /\ (t + 1) - 1 = t
      BY <1>1
    <3>2. Carried(s, (t + 1) - 1) \in Seq(Nat)
      BY <3>1, CarriedMore
    <3> QED
      BY <3>1, <3>2
  <2>3. Carried(s, t) \o <<>> = Carried(s, t)
    BY <2>2, ConcatEmptySeq
  <2>4. base.count = t - t /\ base.rest \o r = f[t] /\ Carried(s, t) \o base.ids = Carried(s, t)
    BY <1>1, <1>2, <2>3
  <2> QED
    BY <1>1, <2>1, <2>4 DEF Reached
<1>4. \A v \in V : TurnIs(v, V) /\ Turn(v) \in V
  <2>1. \A v \in V : TurnIs(v, V)
    BY TurnKeeps
  <2> QED
    BY <2>1 DEF TurnIs
<1> HIDE DEF V, base
<1>5. F \in [Nat \X V -> V] /\ \A n \in Nat, v \in V : F[<<n, v>>] = Turn(v)
  BY <1>4
<1> HIDE DEF F
<1>6. PICK g : Goes(g, V, base, F, N)
  BY <1>1, <1>3, <1>5, Recursion
<1>7. /\ g \in [0 .. N -> V] /\ g[0] = base
      /\ \A n \in 1 .. N : g[n] = Turn(g[n - 1])
  <2>1. /\ g \in [0 .. N -> V] /\ g[0] = base
        /\ \A n \in 1 .. N : g[n] = F[<<n, g[n - 1]>>]
    BY <1>6 DEF Goes
  <2>2. \A n \in 1 .. N : n \in Nat /\ n - 1 \in 0 .. N
    BY <1>1
  <2> QED
    BY <1>5, <2>1, <2>2
<1>8. All(g)
  <2>1. \A n \in 0 .. N : g[n] = IF n = 0 THEN base ELSE Turn(g[n - 1])
    <3>1. \A n \in 0 .. N : n = 0 \/ n \in 1 .. N
      BY <1>1
    <3> QED
      BY <1>7, <3>1
  <2> QED
    BY <1>7, <2>1
<1>9. All(after)
  BY <1>8
<1>10. Consume(b) = after[N]
  BY Zenon DEF Consume, Turn, base
<1> HIDE DEF after
<1>11. after[0] = base /\ \A n \in 1 .. N : after[n] = Turn(after[n - 1])
  <2>1. \A n \in 0 .. N : after[n] = IF n = 0 THEN base ELSE Turn(after[n - 1])
    BY <1>9
  <2>2. 0 \in 0 .. N /\ \A n \in 1 .. N : n \in 0 .. N /\ n # 0
    BY <1>1
  <2> QED
    BY <2>1, <2>2
<1>12. Agrees(after, g, N)
  <2>1. /\ Goes(g, V, base, F, N) /\ N \in Nat /\ after[0] = base
        /\ \A n \in 1 .. N : after[n - 1] \in V => after[n] = F[<<n, after[n - 1]>>]
    <3>1. \A n \in 1 .. N : n \in Nat
      BY <1>1
    <3> QED
      BY <1>1, <1>5, <1>6, <1>11, <3>1
  <2> HIDE DEF N
  <2> QED
    BY <2>1, RecursionOnce
<1>13. Consume(b) = g[N]
  BY <1>1, <1>10, <1>12 DEF Agrees
<1> DEFINE Broken(v) == Step(v.rest).count = 0
           Upto(n) == Broken(g[n]) \/ Len(g[n].rest) + n <= N
           Good == {n \in Nat : n <= N => Upto(n)}
<1> HIDE DEF Broken
<1>14. 0 \in Good
  BY <1>1, <1>2, <1>7
<1>15. ASSUME NEW n \in Nat, n \in Good PROVE n + 1 \in Good
  <2> HIDE DEF Upto
  <2> SUFFICES ASSUME n + 1 <= N PROVE Upto(n + 1)
    OBVIOUS
  <2> DEFINE v == g[n]
  <2>1. n + 1 \in 1 .. N /\ n \in 0 .. N /\ n + 1 \in 0 .. N /\ (n + 1) - 1 = n /\ n <= N
    BY <1>1
  <2>2. v \in V /\ g[n + 1] = Turn(v) /\ Turn(v) \in V
    BY <1>4, <1>7, <2>1
  <2>3. Broken(v) \/ Len(v.rest) + n <= N
    BY <1>15, <2>1 DEF Upto
  <2>4. TurnIs(v, V)
    BY <1>4, <2>2
  <2>5. Len(v.rest) \in Nat /\ Len(Turn(v).rest) \in Nat
    <3>1. v.rest \in Seq(Symbols) /\ Turn(v).rest \in Seq(Symbols)
      BY <2>2 DEF V, Reached
    <3> QED
      BY <3>1
  <2> HIDE DEF v
  <2>6. CASE Broken(v)
    <3>1. Turn(v) = v
      BY <2>4, <2>6 DEF TurnIs, Broken
    <3> QED
      BY <2>2, <2>6, <3>1 DEF Upto
  <2>7. CASE ~Broken(v)
    <3>1. Len(Turn(v).rest) < Len(v.rest) /\ Len(v.rest) + n <= N
      BY <2>3, <2>4, <2>7 DEF TurnIs, Broken
    <3> DEFINE l == Len(v.rest)
               m == Len(Turn(v).rest)
    <3>2. m < l /\ l + n <= N /\ m \in Nat /\ l \in Nat
      BY <2>5, <3>1
    <3> HIDE DEF l, m
    <3>3. m + (n + 1) <= N
      BY <1>1, <3>2
    <3> QED
      BY <2>2, <3>3 DEF m, Upto
  <2> QED
    BY <2>6, <2>7
<1> HIDE DEF Good
<1>16. N \in Good
  BY <1>1, <1>14, <1>15, NatSetInduction
<1>17. g[N] \in V /\ (Broken(g[N]) \/ Len(g[N].rest) + N <= N)
  BY <1>1, <1>7, <1>16, SMTT(30) DEF Good
<1>18. Broken(g[N])
  <2> SUFFICES ASSUME Len(g[N].rest) + N <= N PROVE Broken(g[N])
    BY <1>17
  <2>1. g[N].rest \in Seq(Symbols)
    BY <1>17 DEF V, Reached
  <2> DEFINE l == Len(g[N].rest)
  <2>2. l \in Nat /\ l + N <= N
    BY <2>1
  <2> HIDE DEF l
  <2>3. l = 0
    BY <1>1, <2>2
  <2>4. g[N].rest = <<>>
    BY <2>1, <2>3, EmptySeq DEF l
  <2>5. Step(<<>>).count = 0
    BY EmptyBuffer DEF Nothing
  <2> QED
    BY <2>4, <2>5 DEF Broken
<1> QED
  BY <1>13, <1>17, <1>18 DEF Consumed, V, Broken

-----------------------------------------------------------------------------
(***************************************************************************)
(* The inductive invariant of the requests.  What the server has not yet   *)
(* taken, in its buffer, in the kernel and under way, is what the client   *)
(* wrote behind the messages taken; the requests among those are handled;  *)
(* and the framing loop has stopped only where it finds nothing.           *)
(***************************************************************************)
FramingTypes ==
    /\ sent \in Messages
    /\ outgoing \in Seq(Symbols)
    /\ arrived \in Seq(Seq(Symbols))
    /\ dataless \in BOOLEAN /\ closed \in BOOLEAN /\ secure \in BOOLEAN /\ up \in BOOLEAN
    /\ readbuf \in Seq(Symbols)
    /\ taken \in 0 .. Len(sent)

RequestsInOrder == handled = Carried(sent, taken)

Coming == FlattenSeq(arrived) \o outgoing

InStep == \E f : Writes(f, sent) /\ readbuf \o Coming = f[taken]

NothingFound == Step(readbuf).count = 0

ClosedBehind == closed => outgoing = <<>>

OneRun == secure \/ Len(arrived) <= 1

FramingInv ==
    /\ FramingTypes
    /\ RequestsInOrder
    /\ InStep
    /\ NothingFound
    /\ ClosedBehind
    /\ OneRun

\* What is coming is bytes.
LEMMA ComingIs ==
  ASSUME NEW a \in Seq(Seq(Symbols)), NEW o \in Seq(Symbols)
  PROVE  FlattenSeq(a) \in Seq(Symbols) /\ FlattenSeq(a) \o o \in Seq(Symbols)
<1>1. FlattenSeq(a) \in Seq(Symbols)
  <2>1. PICK f : Joins(f, a, Symbols) /\ FlattenSeq(a) = f[Len(a)]
    BY FlattenJoins
  <2>2. Len(a) \in Nat
    OBVIOUS
  <2> QED
    BY <2>1, <2>2 DEF Joins
<1> QED
  BY <1>1, ConcatProperties

\* A new connection.
LEMMA FramingInit == Init => FramingInv
<1> SUFFICES ASSUME Init PROVE FramingInv
  OBVIOUS
<1> DEFINE none == <<>>
<1>1. /\ sent = none /\ outgoing = none /\ arrived = none /\ readbuf = none /\ handled = none
      /\ dataless = FALSE /\ closed = FALSE /\ secure \in BOOLEAN /\ taken = 0 /\ up = TRUE
  BY DEF Init
<1>2. /\ none \in Seq(Kinds) /\ none \in Seq(Symbols) /\ none \in Seq(Seq(Symbols))
      /\ Len(none) = 0
  BY EmptySeq
<1>3. FlattenSeq(none) = none /\ none \o none = none
  BY <1>2, FlattenNone, ConcatEmptySeq
<1>4. Step(none).count = 0 /\ Carried(none, 0) = none
  BY EmptyBuffer, CarriedNone DEF Nothing
<1> HIDE DEF none
<1>5. FramingTypes
  <2>1. sent \in Messages
    BY <1>1, <1>2, FramingAssumption DEF Messages
  <2>2. taken \in 0 .. Len(sent)
    BY <1>1, <1>2
  <2>3. outgoing \in Seq(Symbols) /\ readbuf \in Seq(Symbols) /\ arrived \in Seq(Seq(Symbols))
    BY <1>1, <1>2
  <2> QED
    BY <1>1, <2>1, <2>2, <2>3 DEF FramingTypes
<1>6. InStep
  <2> DEFINE f == [n \in 0 .. 0 |-> none]
  <2>1. f \in [0 .. Len(sent) -> Seq(Symbols)] /\ f[Len(sent)] = none
    BY <1>1, <1>2
  <2>2. f[taken] = none
    BY <1>1
  <2>3. \A n \in 1 .. Len(sent) : FALSE
    BY <1>1, <1>2
  <2> HIDE DEF f
  <2>4. Writes(f, sent)
    BY <2>1, <2>3 DEF Writes, none
  <2>5. readbuf \o Coming = none
    BY <1>1, <1>3 DEF Coming
  <2> QED
    BY <2>2, <2>4, <2>5 DEF InStep
<1>7. RequestsInOrder /\ NothingFound /\ ClosedBehind /\ OneRun
  BY <1>1, <1>2, <1>4 DEF RequestsInOrder, NothingFound, ClosedBehind, OneRun
<1> QED
  BY <1>5, <1>6, <1>7 DEF FramingInv

\* A message more.
LEMMA SendStep ==
  ASSUME FramingInv, NEW kind \in Kinds, Send(kind)
  PROVE  FramingInv'
<1> DEFINE e == Encode(kind, Len(sent) + 1)
<1>1. /\ FramingTypes /\ RequestsInOrder /\ InStep /\ NothingFound /\ ClosedBehind /\ OneRun
  BY DEF FramingInv
<1>2. /\ ~closed /\ Len(sent) < MaxMessages
      /\ sent' = Append(sent, kind) /\ outgoing' = outgoing \o e
      /\ UNCHANGED <<arrived, dataless, closed, secure, readbuf, handled, taken, up>>
  BY DEF Send, netVars, serverVars
<1>3. sent \in Seq(Kinds) /\ Len(sent) \in Nat /\ taken \in 0 .. Len(sent)
  BY <1>1 DEF FramingTypes, Messages
<1>4. PICK f : Writes(f, sent) /\ readbuf \o Coming = f[taken]
  BY <1>1 DEF InStep
<1>5. e \in Seq(Symbols)
  BY <1>2, <1>3, <1>4, WritesMore
<1>6. PICK g : /\ Writes(g, Append(sent, kind))
               /\ \A n \in 0 .. Len(sent) : g[n] = f[n] \o e
  BY <1>2, <1>3, <1>4, WritesMore
<1> HIDE DEF e
<1>7. sent' \in Seq(Kinds) /\ Len(sent') = Len(sent) + 1
  BY <1>2, <1>3, AppendProperties
<1>8. FramingTypes'
  <2>1. outgoing' \in Seq(Symbols)
    BY <1>1, <1>2, <1>5, ConcatProperties DEF FramingTypes
  <2>2. sent' \in Messages /\ taken' \in 0 .. Len(sent')
    BY <1>2, <1>3, <1>7, FramingAssumption DEF Messages
  <2> QED
    BY <1>1, <1>2, <2>1, <2>2 DEF FramingTypes
<1>9. RequestsInOrder'
  <2>1. Carried(Append(sent, kind), taken) = Carried(sent, taken)
    BY <1>3, CarriedBefore
  <2> QED
    BY <1>1, <1>2, <2>1 DEF RequestsInOrder
<1>10. InStep'
  <2> DEFINE a == FlattenSeq(arrived)
  <2>1. a \in Seq(Symbols) /\ outgoing \in Seq(Symbols) /\ readbuf \in Seq(Symbols)
    BY <1>1, ComingIs DEF FramingTypes
  <2>2. readbuf \o (a \o outgoing) = f[taken]
    BY <1>4 DEF Coming
  <2> HIDE DEF a
  <2>3. readbuf \o (a \o (outgoing \o e)) = (readbuf \o (a \o outgoing)) \o e
    <3>1. a \o (outgoing \o e) = (a \o outgoing) \o e /\ a \o outgoing \in Seq(Symbols)
      <4>1. (a \o outgoing) \o e = a \o (outgoing \o e)
        BY <1>5, <2>1, ConcatAssociative
      <4>2. a \o outgoing \in Seq(Symbols)
        BY <2>1, ConcatProperties
      <4> QED
        BY <4>1, <4>2
    <3> DEFINE c == a \o outgoing
    <3>2. c \in Seq(Symbols)
      BY <3>1
    <3> HIDE DEF c
    <3>3. (readbuf \o c) \o e = readbuf \o (c \o e)
      <4>1. readbuf \in Seq(Symbols) /\ c \in Seq(Symbols) /\ e \in Seq(Symbols)
        BY <1>5, <2>1, <3>2
      <4> QED
        BY <4>1, ConcatAssociative
    <3> QED
      BY <3>1, <3>3 DEF c
  <2>4. g[taken] = f[taken] \o e
    BY <1>3, <1>6
  <2>5. FlattenSeq(arrived') = a /\ readbuf' = readbuf /\ taken' = taken
        /\ outgoing' = outgoing \o e
    BY <1>2 DEF a
  <2>6. readbuf' \o (FlattenSeq(arrived') \o outgoing') = g[taken']
    BY <2>2, <2>3, <2>4, <2>5
  <2>7. Writes(g, sent')
    BY <1>2, <1>6
  <2> QED
    BY <2>6, <2>7 DEF InStep, Coming
<1>11. NothingFound' /\ ClosedBehind' /\ OneRun'
  BY <1>1, <1>2 DEF NothingFound, ClosedBehind, OneRun
<1> QED
  BY <1>8, <1>9, <1>10, <1>11 DEF FramingInv

\* Bytes go from the network into the kernel.
LEMMA ArriveStep ==
  ASSUME FramingInv, NEW n \in 1 .. Len(outgoing), Arrive(n)
  PROVE  FramingInv'
<1> DEFINE bytes == SubSeq(outgoing, 1, n)
           later == SubSeq(outgoing, n + 1, Len(outgoing))
           a == FlattenSeq(arrived)
<1>1. /\ FramingTypes /\ RequestsInOrder /\ InStep /\ NothingFound /\ ClosedBehind /\ OneRun
  BY DEF FramingInv
<1>2. /\ arrived' = IF secure \/ arrived = <<>> THEN Append(arrived, bytes)
                    ELSE <<arrived[1] \o bytes>>
      /\ outgoing' = later
      /\ dataless' = FALSE
      /\ UNCHANGED <<sent, closed, secure, readbuf, handled, taken, up>>
  BY DEF Arrive, serverVars
<1>3. /\ outgoing \in Seq(Symbols) /\ arrived \in Seq(Seq(Symbols)) /\ readbuf \in Seq(Symbols)
      /\ a \in Seq(Symbols)
  BY <1>1, ComingIs DEF FramingTypes
<1>4. bytes \in Seq(Symbols) /\ later \in Seq(Symbols) /\ bytes \o later = outgoing
      /\ outgoing # <<>>
  <2>1. /\ Len(outgoing) \in Nat /\ n \in Nat /\ n <= Len(outgoing)
        /\ \A i \in 1 .. n : outgoing[i] \in Symbols
        /\ \A i \in n + 1 .. Len(outgoing) : outgoing[i] \in Symbols
    <3>1. Len(outgoing) \in Nat /\ n \in Nat /\ n <= Len(outgoing)
      BY <1>3
    <3>2. \A i \in 1 .. Len(outgoing) : outgoing[i] \in Symbols
      BY <1>3
    <3>3. /\ \A i \in 1 .. n : i \in 1 .. Len(outgoing)
          /\ \A i \in n + 1 .. Len(outgoing) : i \in 1 .. Len(outgoing)
      BY <3>1
    <3> QED
      BY <3>1, <3>2, <3>3
  <2> DEFINE m == n + 1
             L == Len(outgoing)
  <2>2. m \in Int /\ L \in Int /\ 1 \in Int /\ n \in Int
    BY <2>1
  <2>3. /\ bytes \in Seq(Symbols) /\ Len(bytes) = IF 1 <= n THEN n - 1 + 1 ELSE 0
        /\ \A i \in 1 .. n - 1 + 1 : bytes[i] = outgoing[1 + i - 1]
    BY <2>1, <2>2, SubSeqProperties
  <2>4. /\ later \in Seq(Symbols) /\ Len(later) = IF m <= L THEN L - m + 1 ELSE 0
        /\ \A i \in 1 .. L - m + 1 : later[i] = outgoing[m + i - 1]
    BY <2>1, <2>2, SubSeqProperties
  <2>5. Len(bytes) = n /\ \A i \in 1 .. n : bytes[i] = outgoing[i]
    <3>1. n - 1 + 1 = n /\ 1 <= n /\ \A i \in 1 .. n : 1 + i - 1 = i
      BY <2>1
    <3> QED
      BY <2>3, <3>1
  <2>6. Len(later) = L - n /\ \A i \in 1 .. L - n : later[i] = outgoing[n + i]
    <3>1. L - m + 1 = L - n /\ (m <= L \/ L - n = 0) /\ \A i \in 1 .. L - n : m + i - 1 = n + i
      BY <2>1
    <3> HIDE DEF L, m
    <3> QED
      BY <2>4, <3>1
  <2>7. bytes \o later = outgoing
    <3> HIDE DEF bytes, later
    <3>1. /\ bytes \o later \in Seq(Symbols) /\ Len(bytes \o later) = Len(bytes) + Len(later)
          /\ \A i \in 1 .. Len(bytes) + Len(later) :
               (bytes \o later)[i] = IF i <= Len(bytes) THEN bytes[i] ELSE later[i - Len(bytes)]
      BY <2>3, <2>4, ConcatProperties
    <3>2. Len(bytes) + Len(later) = L
      BY <2>1, <2>5, <2>6
    <3>3. ASSUME NEW i \in 1 .. L PROVE (bytes \o later)[i] = outgoing[i]
      <4>1. CASE i <= n
        <5>1. i \in 1 .. n
          BY <2>1, <4>1
        <5> QED
          BY <2>5, <3>1, <3>2, <4>1, <5>1
      <4>2. CASE ~ (i <= n)
        <5>1. i - n \in 1 .. L - n /\ n + (i - n) = i
          BY <2>1, <4>2
        <5> QED
          BY <2>5, <2>6, <3>1, <3>2, <4>2, <5>1
      <4> QED
        BY <4>1, <4>2
    <3> DEFINE d == bytes \o later
    <3>4. d \in Seq(Symbols) /\ Len(d) = Len(outgoing) /\ \A i \in 1 .. Len(d) : d[i] = outgoing[i]
      BY <3>1, <3>2, <3>3
    <3> HIDE DEF d
    <3>5. d = outgoing
      BY <1>3, <3>4, SeqEqual
    <3> QED
      BY <3>5 DEF d
  <2>8. outgoing # <<>>
    <3>1. Len(outgoing) # 0
      BY <2>1
    <3> QED
      BY <3>1, EmptySeq
  <2> QED
    BY <2>3, <2>4, <2>7, <2>8
<1> HIDE DEF bytes, later
<1>5. /\ arrived' \in Seq(Seq(Symbols)) /\ FlattenSeq(arrived') = a \o bytes
      /\ secure \/ Len(arrived') <= 1
  <2>1. CASE secure \/ arrived = <<>>
    <3>1. arrived' = Append(arrived, bytes)
      BY <1>2, <2>1
    <3>2. arrived' \in Seq(Seq(Symbols)) /\ Len(arrived') = Len(arrived) + 1
      BY <1>3, <1>4, <3>1, AppendProperties
    <3>3. FlattenSeq(Append(arrived, bytes)) = a \o bytes
      BY <1>3, <1>4, FlattenAppend
    <3>4. secure \/ Len(arrived') <= 1
      <4>1. arrived = <<>> => Len(arrived) = 0
        BY EmptySeq
      <4> QED
        BY <2>1, <3>2, <4>1
    <3> QED
      BY <3>1, <3>2, <3>3, <3>4
  <2>2. CASE ~ (secure \/ arrived = <<>>)
    <3> DEFINE h == arrived[1]
    <3>1. Len(arrived) = 1
      <4>1. Len(arrived) # 0 /\ Len(arrived) \in Nat
        BY <1>3, <2>2, EmptySeq
      <4>2. Len(arrived) <= 1
        BY <1>1, <2>2 DEF OneRun
      <4> QED
        BY <4>1, <4>2
    <3>2. arrived = <<h>> /\ h \in Seq(Symbols)
      <4> DEFINE T == Seq(Symbols)
      <4>1. arrived \in Seq(T)
        BY <1>3
      <4> HIDE DEF T
      <4>2. arrived = <<h>> /\ h \in T
        BY <3>1, <4>1, SeqOfOne
      <4> QED
        BY <4>2 DEF T
    <3>3. arrived' = <<h \o bytes>>
      BY <1>2, <2>2
    <3> HIDE DEF h
    <3>4. h \o bytes \in Seq(Symbols)
      BY <1>4, <3>2, ConcatProperties
    <3>5. a = h /\ FlattenSeq(<<h \o bytes>>) = h \o bytes
      <4>1. \A u \in Seq(Symbols) : FlattenSeq(<<u>>) = u
        BY FlattenOne
      <4> QED
        BY <3>2, <3>4, <4>1
    <3>6. <<h \o bytes>> \in Seq(Seq(Symbols)) /\ Len(<<h \o bytes>>) = 1
      BY <3>4
    <3> QED
      <4>1. FlattenSeq(arrived') = a \o bytes
        BY <3>3, <3>5
      <4>2. arrived' \in Seq(Seq(Symbols)) /\ Len(arrived') <= 1
        BY <3>3, <3>6
      <4> QED
        BY <4>1, <4>2
  <2> QED
    BY <2>1, <2>2
<1> HIDE DEF a
<1>6. FramingTypes'
  BY <1>1, <1>2, <1>4, <1>5 DEF FramingTypes
<1>7. InStep'
  <2>1. PICK f : Writes(f, sent) /\ readbuf \o (a \o outgoing) = f[taken]
    BY <1>1 DEF InStep, Coming, a
  <2>2. (a \o bytes) \o later = a \o outgoing
    <3>1. (a \o bytes) \o later = a \o (bytes \o later)
      <4>1. a \in Seq(Symbols) /\ bytes \in Seq(Symbols) /\ later \in Seq(Symbols)
        BY <1>3, <1>4
      <4> QED
        BY <4>1, ConcatAssociative
    <3> QED
      BY <1>4, <3>1
  <2>3. FlattenSeq(arrived') \o outgoing' = a \o outgoing
    BY <1>2, <1>5, <2>2
  <2>4. Coming' = a \o outgoing
    BY <2>3 DEF Coming
  <2> QED
    BY <1>2, <2>1, <2>4 DEF InStep
<1>8. RequestsInOrder' /\ NothingFound'
  BY <1>1, <1>2 DEF RequestsInOrder, NothingFound
<1>9. ClosedBehind'
  BY <1>1, <1>2, <1>4 DEF ClosedBehind
<1>10. OneRun'
  BY <1>2, <1>5 DEF OneRun
<1> QED
  BY <1>6, <1>7, <1>8, <1>9, <1>10 DEF FramingInv

\* What a step of the framing loop does to the invariant, and to the promise.
Handles ==
    /\ FramingInv'
    /\ taken' \in taken .. Len(sent)
    /\ handled' = Carried(sent, taken')

\* The framing loop runs over what has come.
LEMMA ProcessStep ==
  ASSUME FramingInv, arrived # <<>>, Process(Head(arrived)), arrived' = Tail(arrived),
         UNCHANGED <<sent, outgoing, dataless, closed, secure, up>>
  PROVE  Handles
<1> DEFINE bytes == Head(arrived)
           b == readbuf \o bytes
           w == FlattenSeq(Tail(arrived))
           r == w \o outgoing
           v == Consume(b)
<1>1. /\ FramingTypes /\ RequestsInOrder /\ InStep /\ NothingFound /\ ClosedBehind /\ OneRun
  BY DEF FramingInv
<1>2. /\ readbuf' = v.rest /\ handled' = handled \o v.ids /\ taken' = taken + v.count
      /\ arrived' = Tail(arrived)
      /\ UNCHANGED <<sent, outgoing, dataless, closed, secure, up>>
  BY DEF Process
<1>3. /\ outgoing \in Seq(Symbols) /\ arrived \in Seq(Seq(Symbols)) /\ readbuf \in Seq(Symbols)
      /\ sent \in Messages /\ taken \in 0 .. Len(sent) /\ Len(sent) \in Nat
  BY <1>1 DEF FramingTypes, Messages
<1>4. /\ bytes \in Seq(Symbols) /\ Tail(arrived) \in Seq(Seq(Symbols))
      /\ w \in Seq(Symbols) /\ FlattenSeq(arrived) = bytes \o w
  BY <1>3, FlattenHead
<1>5. Len(Tail(arrived)) \in Nat /\ Len(Tail(arrived)) <= Len(arrived)
  <2> DEFINE T == Seq(Symbols)
  <2>1. arrived \in Seq(T)
    BY <1>3
  <2> HIDE DEF T
  <2>2. Len(Tail(arrived)) = Len(arrived) - 1 /\ Len(arrived) \in Nat /\ Len(arrived) # 0
    BY <2>1, HeadTailProperties, EmptySeq
  <2> QED
    BY <2>2
<1> HIDE DEF bytes, w
<1>6. b \in Seq(Symbols) /\ r \in Seq(Symbols)
  BY <1>3, <1>4, ConcatProperties
<1>7. PICK f : Writes(f, sent) /\ readbuf \o Coming = f[taken]
  BY <1>1 DEF InStep
<1>8. b \o r = f[taken]
  <2>1. (bytes \o w) \o outgoing = bytes \o r
    <3>1. bytes \in Seq(Symbols) /\ w \in Seq(Symbols) /\ outgoing \in Seq(Symbols)
      BY <1>3, <1>4
    <3>2. (bytes \o w) \o outgoing = bytes \o (w \o outgoing)
      BY <3>1, ConcatAssociative
    <3> QED
      BY <3>2
  <2>2. readbuf \o (bytes \o r) = (readbuf \o bytes) \o r
    <3> HIDE DEF r
    <3>1. readbuf \in Seq(Symbols) /\ bytes \in Seq(Symbols) /\ r \in Seq(Symbols)
      BY <1>3, <1>4, <1>6
    <3>2. (readbuf \o bytes) \o r = readbuf \o (bytes \o r)
      BY <3>1, ConcatAssociative, SMTT(30)
    <3> QED
      BY <3>2
  <2>3. Coming = bytes \o r
    BY <1>4, <2>1 DEF Coming
  <2> QED
    BY <1>7, <2>2, <2>3
<1> HIDE DEF b, r
<1>9. Consumed(v, sent, f, taken, r)
  <2>1. sent \in Messages /\ taken \in 0 .. Len(sent)
    BY <1>3
  <2> QED
    BY <1>6, <1>7, <1>8, <2>1, ConsumeIs
<1> HIDE DEF v
<1>10. v \in Reached(sent, f, taken, r) /\ Step(v.rest).count = 0
  BY <1>9 DEF Consumed
<1>11. v \in [rest : Seq(Symbols), ids : Seq(Nat), count : Nat]
  BY <1>10 DEF Reached
<1>12. PICK k \in taken .. Len(sent) : /\ v.count = k - taken
                                       /\ v.rest \o r = f[k]
                                       /\ Carried(sent, taken) \o v.ids = Carried(sent, k)
  BY <1>10 DEF Reached
<1>13. taken' = k /\ k \in 0 .. Len(sent)
  BY <1>2, <1>3, <1>12
<1>14. readbuf' \in Seq(Symbols)
  BY <1>2, <1>11
<1>15. handled' = Carried(sent, taken')
  BY <1>1, <1>2, <1>12, <1>13 DEF RequestsInOrder
<1>16. FramingTypes'
  BY <1>1, <1>2, <1>4, <1>13, <1>14 DEF FramingTypes
<1>17. RequestsInOrder'
  BY <1>2, <1>15 DEF RequestsInOrder
<1>18. InStep'
  <2>1. Coming' = r
    BY <1>2 DEF Coming, r, w
  <2>2. readbuf' \o Coming' = f[taken']
    BY <1>2, <1>12, <1>13, <2>1
  <2>3. Writes(f, sent')
    BY <1>2, <1>7
  <2> QED
    BY <2>2, <2>3 DEF InStep
<1>19. NothingFound'
  BY <1>2, <1>10 DEF NothingFound
<1>20. ClosedBehind'
  BY <1>1, <1>2 DEF ClosedBehind
<1>21. OneRun'
  <2> SUFFICES ASSUME ~secure PROVE Len(arrived') <= 1
    BY <1>2 DEF OneRun
  <2>1. Len(arrived) <= 1
    BY <1>1 DEF OneRun
  <2>2. Len(arrived) \in Nat
    BY <1>3
  <2> QED
    BY <1>2, <1>5, <2>1, <2>2
<1> QED
  BY <1>12, <1>13, <1>15, <1>16, <1>17, <1>18, <1>19, <1>20, <1>21 DEF Handles, FramingInv

\* A step that touches neither the bytes nor what was made of them.
LEMMA QuietStep ==
  ASSUME FramingInv, UNCHANGED <<sent, outgoing, arrived, secure, readbuf, handled, taken>>,
         dataless' \in BOOLEAN, up' \in BOOLEAN, closed' \in BOOLEAN,
         closed' => closed \/ outgoing = <<>>
  PROVE  FramingInv'
<1>1. /\ FramingTypes /\ RequestsInOrder /\ InStep /\ NothingFound /\ ClosedBehind /\ OneRun
  BY DEF FramingInv
<1>2. FramingTypes'
  BY <1>1 DEF FramingTypes
<1>3. InStep'
  <2>1. PICK f : Writes(f, sent) /\ readbuf \o Coming = f[taken]
    BY <1>1 DEF InStep
  <2>2. Coming' = Coming
    BY DEF Coming
  <2> QED
    BY <2>1, <2>2 DEF InStep
<1>4. RequestsInOrder' /\ NothingFound' /\ ClosedBehind' /\ OneRun'
  BY <1>1 DEF RequestsInOrder, NothingFound, ClosedBehind, OneRun
<1> QED
  BY <1>2, <1>3, <1>4 DEF FramingInv

\* What a step of the requests does for the promise.
Promised == \/ \E kind \in Kinds : Stream!Send(kind)
            \/ Handles /\ up /\ UNCHANGED <<sent, up>>
            \/ Stream!Drop
            \/ UNCHANGED <<sent, handled, taken, up>>

\* Every step of the requests.
LEMMA FramingNext ==
  ASSUME FramingInv, Next
  PROVE  FramingInv' /\ Promised
<1>1. FramingTypes
  BY DEF FramingInv
<1>2. up
  BY DEF Next
<1>3. ASSUME NEW kind \in Kinds, Send(kind) PROVE FramingInv' /\ Promised
  <2>1. Stream!Send(kind)
    BY <1>3 DEF Send, serverVars, Stream!Send
  <2> QED
    BY <1>3, <2>1, SendStep DEF Promised
<1>4. ASSUME NEW n \in 1 .. Len(outgoing), Arrive(n) PROVE FramingInv' /\ Promised
  <2>1. UNCHANGED <<sent, handled, taken, up>>
    BY <1>4 DEF Arrive, serverVars
  <2> QED
    BY <1>4, <2>1, ArriveStep DEF Promised
<1>5. ASSUME ArriveDataless PROVE FramingInv' /\ Promised
  <2>1. /\ UNCHANGED <<sent, outgoing, arrived, secure, readbuf, handled, taken, up, closed>>
        /\ dataless' = TRUE
    BY <1>5 DEF ArriveDataless, clientVars, serverVars
  <2>2. dataless' \in BOOLEAN /\ up' \in BOOLEAN /\ closed' \in BOOLEAN
    BY <1>1, <2>1 DEF FramingTypes
  <2>3. FramingInv'
    BY <2>1, <2>2, QuietStep
  <2> QED
    BY <2>1, <2>3 DEF Promised
<1>6. ASSUME Break \/ Overdue PROVE FramingInv' /\ Promised
  <2>1. UNCHANGED <<sent, outgoing, arrived, secure, readbuf, handled, taken, up, dataless, closed>>
    BY <1>6 DEF Break, Overdue, clientVars, netVars, serverVars
  <2>2. dataless' \in BOOLEAN /\ up' \in BOOLEAN /\ closed' \in BOOLEAN
    BY <1>1, <2>1 DEF FramingTypes
  <2>3. FramingInv'
    BY <2>1, <2>2, QuietStep
  <2> QED
    BY <2>1, <2>3 DEF Promised
<1>7. ASSUME PeerCloses PROVE FramingInv' /\ Promised
  <2>1. /\ UNCHANGED <<sent, outgoing, arrived, secure, readbuf, handled, taken, up, dataless>>
        /\ closed' = TRUE /\ outgoing = <<>>
    BY <1>7 DEF PeerCloses, clientVars, serverVars
  <2>2. dataless' \in BOOLEAN /\ up' \in BOOLEAN /\ closed' \in BOOLEAN
    BY <1>1, <2>1 DEF FramingTypes
  <2>3. FramingInv'
    BY <2>1, <2>2, QuietStep
  <2> QED
    BY <2>1, <2>3 DEF Promised
<1>8. ASSUME ReceiveRecord \/ ReceiveStream PROVE FramingInv' /\ Promised
  <2>1. /\ arrived # <<>> /\ Process(Head(arrived)) /\ arrived' = Tail(arrived)
        /\ UNCHANGED <<sent, outgoing, dataless, closed, secure, up>>
    BY <1>8 DEF ReceiveRecord, ReceiveStream, clientVars
  <2>2. Handles
    BY <2>1, ProcessStep
  <2>3. FramingInv'
    BY <2>2 DEF Handles
  <2> QED
    BY <1>2, <2>1, <2>2, <2>3 DEF Promised
<1>9. ASSUME ReceiveNoRecord \/ ReceiveClose \/ ReceiveError \/ Sweep
      PROVE  FramingInv' /\ Promised
  <2>1. /\ up' = FALSE /\ UNCHANGED <<sent, outgoing, arrived, dataless, closed, secure>>
        /\ UNCHANGED <<readbuf, handled, taken>>
    BY <1>9 DEF ReceiveNoRecord, ReceiveClose, ReceiveError, Sweep, Drop, clientVars, netVars
  <2>2. dataless' \in BOOLEAN /\ up' \in BOOLEAN /\ closed' \in BOOLEAN
    BY <1>1, <2>1 DEF FramingTypes
  <2>3. FramingInv'
    BY <2>1, <2>2, QuietStep
  <2>4. Stream!Drop
    BY <1>2, <2>1 DEF Stream!Drop
  <2> QED
    BY <2>3, <2>4 DEF Promised
<1> QED
  BY <1>3, <1>4, <1>5, <1>6, <1>7, <1>8, <1>9 DEF Next, Network, Receive

\* A step of the connection is one of the requests, or nothing to them.
LEMMA ConnectionNext ==
  ASSUME FramingInv, [Requests \/ Replies]_connectionVars
  PROVE  FramingInv' /\ (Next \/ UNCHANGED vars)
<1>1. CASE Next
  BY <1>1, FramingNext
<1>2. CASE UNCHANGED vars
  <2>1. UNCHANGED <<sent, outgoing, arrived, dataless, closed, secure, readbuf, handled, taken, up>>
    BY <1>2 DEF vars, clientVars, netVars, serverVars
  <2>2. FramingTypes
    BY DEF FramingInv
  <2>3. dataless' \in BOOLEAN /\ up' \in BOOLEAN /\ closed' \in BOOLEAN
    BY <2>1, <2>2 DEF FramingTypes
  <2>4. FramingInv'
    BY <2>1, <2>3, QuietStep
  <2> QED
    BY <1>2, <2>4
<1> QED
  BY <1>1, <1>2 DEF Requests, Replies, connectionVars

\* When all bytes have been read, all messages have been dealt with.
LEMMA AllIsFound ==
  ASSUME FramingInv, outgoing = <<>>, arrived = <<>>
  PROVE  taken = Len(sent) /\ readbuf = <<>>
<1>1. /\ FramingTypes /\ InStep /\ NothingFound
  BY DEF FramingInv
<1>2. PICK f : Writes(f, sent) /\ readbuf \o Coming = f[taken]
  BY <1>1 DEF InStep
<1>3. readbuf \in Seq(Symbols) /\ sent \in Seq(Kinds) /\ Len(sent) \in Nat
      /\ taken \in 0 .. Len(sent) /\ Len(sent) <= MaxMessages
  BY <1>1 DEF FramingTypes, Messages
<1>4. readbuf = f[taken]
  <2> DEFINE none == <<>>
  <2>1. FlattenSeq(none) = none /\ none \o none = none /\ readbuf \o none = readbuf
    BY <1>3, FlattenNone, ConcatEmptySeq
  <2> HIDE DEF none
  <2>2. outgoing = none /\ arrived = none
    BY DEF none
  <2>3. Coming = none
    BY <2>1, <2>2 DEF Coming
  <2> QED
    BY <1>2, <2>1, <2>3
<1>5. /\ f \in [0 .. Len(sent) -> Seq(Symbols)] /\ f[Len(sent)] = <<>>
      /\ \A n \in 1 .. Len(sent) : f[n - 1] = Encode(sent[n], n) \o f[n]
  BY <1>2 DEF Writes
<1>6. taken = Len(sent)
  <2> SUFFICES ASSUME taken # Len(sent) PROVE FALSE
    OBVIOUS
  <2> DEFINE n == taken + 1
             kind == sent[n]
             e == Encode(kind, n)
             q == f[n]
  <2>1. n \in 1 .. Len(sent) /\ n - 1 = taken /\ n \in 0 .. Len(sent) /\ n \in 1 .. MaxMessages
    BY <1>3, FramingAssumption
  <2>2. kind \in AllKinds /\ q \in Seq(Symbols) /\ readbuf = e \o q
    <3>1. kind \in AllKinds
      BY <1>3, <2>1, FramingAssumption
    <3>2. q \in Seq(Symbols) /\ readbuf = e \o q
      BY <1>4, <1>5, <2>1
    <3> QED
      BY <3>1, <3>2
  <2> HIDE DEF n
  <2>3. IsMessage(e, kind, n) /\ e \in Seq(Symbols)
    <3>1. IsMessage(e, kind, n)
      BY <2>1, <2>2, EncodeIs
    <3> QED
      BY <3>1 DEF IsMessage
  <2> HIDE DEF kind, e, q
  <2>4. Begins(readbuf, e) /\ Len(readbuf) >= Len(e)
    <3>1. /\ Len(e \o q) = Len(e) + Len(q) /\ Len(e) \in Nat /\ Len(q) \in Nat
          /\ \A i \in 1 .. Len(e) + Len(q) : (e \o q)[i] = IF i <= Len(e) THEN e[i] ELSE q[i - Len(e)]
      BY <2>2, <2>3, ConcatProperties
    <3>2. Len(readbuf) = Len(e) + Len(q)
      BY <2>2, <3>1
    <3>3. \A i \in 1 .. Len(readbuf) : i <= Len(e) => readbuf[i] = e[i]
      BY <2>2, <3>1, <3>2
    <3>4. Len(readbuf) >= Len(e)
      BY <3>1, <3>2
    <3> QED
      BY <3>3, <3>4 DEF Begins
  <2>5. Step(readbuf) = [rest |-> SubSeq(readbuf, Len(e) + 1, Len(readbuf)),
                         ids |-> IF kind \in Understood THEN <<n>> ELSE <<>>,
                         count |-> 1]
    BY <1>3, <2>1, <2>2, <2>3, <2>4, WholeIsTaken
  <2>6. Step(readbuf).count = 1
    BY <2>5
  <2> QED
    BY <1>1, <2>6 DEF NothingFound
<1> QED
  BY <1>4, <1>5, <1>6

-----------------------------------------------------------------------------
(***************************************************************************)
(* The requests, for any number of messages of any kinds and any cut of    *)
(* the bytes: the framing loop (Socket.cpp, receive) never gets out of     *)
(* step with what the client writes.                                       *)
(***************************************************************************)
THEOREM FramingInvariant == ConnectionSpec => []FramingInv
<1>1. ConnectionInit => FramingInv
  BY FramingInit DEF ConnectionInit
<1>2. FramingInv /\ [Requests \/ Replies]_connectionVars => FramingInv'
  BY ConnectionNext
<1> QED
  BY <1>1, <1>2, PTL DEF ConnectionSpec

(***************************************************************************)
(* Once every byte of a connection that is up has been read, every message *)
(* was dealt with and the buffer is empty.                                 *)
(***************************************************************************)
THEOREM NothingIsLeft == ConnectionSpec => []NothingLeftBehind
<1>1. FramingInv => NothingLeftBehind
  BY AllIsFound DEF NothingLeftBehind
<1> QED
  BY <1>1, FramingInvariant, PTL

(***************************************************************************)
(* The main loop drops a connection with messages not dealt with only when *)
(* it was in the clear and closed, when a TLS record had no data to read,  *)
(* when the connection was broken or when it was idle for 120 seconds.     *)
(***************************************************************************)
THEOREM LossesExplained == ConnectionSpec => LossIsExplained
<1>1. FramingInv /\ [Requests \/ Replies]_connectionVars =>
        [up /\ ~up' => \/ taken = Len(sent)
                       \/ ~secure /\ closed
                       \/ secure /\ dataless
                       \/ broken \/ idle]_vars
  <2> SUFFICES ASSUME FramingInv, [Requests \/ Replies]_connectionVars, up, ~up'
               PROVE  \/ taken = Len(sent)
                      \/ ~secure /\ closed
                      \/ secure /\ dataless
                      \/ broken \/ idle
    OBVIOUS
  <2>1. Next
    <3>1. ~ UNCHANGED vars
      BY DEF vars, serverVars
    <3> QED
      BY <3>1, ConnectionNext
  <2>2. ReceiveNoRecord \/ ReceiveClose \/ ReceiveError \/ Sweep
    BY <2>1 DEF Next, Network, Receive, Send, Arrive, ArriveDataless, PeerCloses, Break, Overdue,
                ReceiveRecord, ReceiveStream, serverVars
  <2>3. CASE ReceiveClose \/ ReceiveError \/ Sweep
    BY <2>3 DEF ReceiveClose, ReceiveError, Sweep
  <2>4. CASE ReceiveNoRecord
    <3>1. secure /\ arrived = <<>> /\ (dataless \/ closed)
      BY <2>4 DEF ReceiveNoRecord
    <3>2. CASE ~dataless
      <4>1. outgoing = <<>>
        BY <3>1, <3>2 DEF FramingInv, ClosedBehind
      <4> QED
        BY <3>1, <4>1, AllIsFound
    <3> QED
      BY <3>1, <3>2
  <2> QED
    BY <2>2, <2>3, <2>4
<1> QED
  BY <1>1, FramingInvariant, PTL DEF ConnectionSpec, LossIsExplained

(***************************************************************************)
(* A connection implements the promised stream of requests: each that the  *)
(* server understands is handled once and in order, however the network    *)
(* cuts them.                                                              *)
(***************************************************************************)
THEOREM StreamIsImplemented == ConnectionSpec => ImplementsRequestStream
<1>1. ConnectionInit => Stream!Init
  BY DEF ConnectionInit, Init, Stream!Init
<1>2. FramingInv /\ [Requests \/ Replies]_connectionVars => [Stream!Next]_(Stream!vars)
  <2> SUFFICES ASSUME FramingInv, [Requests \/ Replies]_connectionVars
               PROVE  Stream!Next \/ UNCHANGED <<sent, handled, taken, up>>
    BY DEF Stream!vars
  <2>1. CASE UNCHANGED vars
    BY <2>1 DEF vars, clientVars, serverVars
  <2>2. CASE Next
    <3>1. Promised
      BY <2>2, FramingNext
    <3>2. CASE Handles /\ up /\ UNCHANGED <<sent, up>>
      <4>1. taken' \in taken .. Len(sent) /\ handled' = Stream!Requests(taken')
        BY <3>2, CarriedIsPromised DEF Handles
      <4>2. Stream!Take
        BY <3>2, <4>1 DEF Stream!Take
      <4> QED
        BY <4>2 DEF Stream!Next
    <3> QED
      BY <3>1, <3>2 DEF Promised, Stream!Next
  <2> QED
    BY <2>1, <2>2, ConnectionNext
<1> QED
  BY <1>1, <1>2, FramingInvariant, PTL DEF ConnectionSpec, ImplementsRequestStream, Stream!Spec
==============================================================================
