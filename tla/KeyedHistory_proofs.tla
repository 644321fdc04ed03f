------------------------- MODULE KeyedHistory_proofs -------------------------
(***************************************************************************)
(* What is proved of KeyedHistory.                                         *)
(***************************************************************************)
EXTENDS KeyedHistory, SequenceFacts, FiniteSetTheorems

\* A turn that has come: a process stores its first at once.
Come(n) == n <= 1 \/ epoch + n <= now

\* What the tables hold.
TablesInv ==
    /\ IsFiniteSet(ids)
    /\ IsFiniteSet(rows)
    /\ \A i \in ids : i # 0 /\ Come(i)

\* No id that is queued or stored is ahead of the counter, and what is queued
\* is new to the tables.
CounterInv ==
    up => /\ Come(id)
          /\ \A i \in ids : i <= id
          /\ \A i \in 1 .. Len(queue) :
                /\ queue[i].id # 0 /\ queue[i].id <= id
                /\ \A j \in ids : j < queue[i].id

\* In the queue every sample waits for its turn, and is of a slot written.
QueueInv ==
    \A i \in 1 .. Len(queue) :
        queue[i].kind = "sample" =>
            /\ queue[i].slot <= Len(items)
            /\ \E j \in i + 1 .. Len(queue) :
                  queue[j].kind = "turn" /\ queue[j].id = queue[i].id

\* No sample is queued twice.
OnceQueued ==
    \A i, j \in 1 .. Len(queue) :
        /\ queue[i].kind = "sample" /\ queue[j].kind = "sample"
        /\ queue[i].id = queue[j].id /\ queue[i].of = queue[j].of
        => i = j

\* Every item has a device of its own.
ItemsInv ==
    \A i, j \in 1 .. Len(items) : items[i].device = items[j].device => i = j

\* Nothing of the memory outlives the process.
DownInv == ~up => queue = <<>> /\ items = <<>>

\* The invariant that every step preserves.
Inv ==
    /\ TypeOK
    /\ TablesInv
    /\ CounterInv
    /\ QueueInv
    /\ OnceQueued
    /\ ItemsInv
    /\ DownInv
    /\ NewestIdKnown
    /\ NewestFirst

-----------------------------------------------------------------------------
\* The constants are numbers, and the devices can be counted.
LEMMA Constants ==
  /\ HistorySize \in Nat /\ LoadWindow \in Nat /\ LoadWindow # 0
  /\ Keep \in Nat /\ MaxTime \in Nat
  /\ IsFiniteSet(Device) /\ Cardinality(Device) \in Nat
BY KeyedHistoryAssumption, FS_CardinalityType

\* A set of numbers has a least.
LEMMA Least ==
  ASSUME NEW S \in SUBSET Nat, S # {}
  PROVE  \E x \in S : \A y \in S : x <= y
<1>1. PICK x \in S : \A y \in S : ~ (<<y, x>> \in OpToRel(<, Nat))
  BY WFMin, NatLessThanWellFounded
<1>2. \A y \in S : ~ (y < x)
  BY <1>1 DEF OpToRel
<1> QED
  BY <1>2

\* A finite set has a bound, whatever number each member has.
LEMMA Bounded ==
  ASSUME NEW S, IsFiniteSet(S), NEW h \in [S -> Nat]
  PROVE  \E b \in Nat : \A x \in S : h[x] <= b
<1> DEFINE N == Cardinality(S)
<1>1. N \in Nat /\ ExistsBijection(1 .. N, S)
  BY FS_CardinalityType
<1> HIDE DEF N
<1>2. PICK f : f \in [1 .. N -> S] /\ \A x \in S : \E i \in 1 .. N : f[i] = x
  BY <1>1 DEF ExistsBijection, Bijection, Surjection
<1> DEFINE Good == {k \in Nat : k <= N => \E b \in Nat : \A i \in 1 .. k : h[f[i]] <= b}
<1>3. 0 \in Good
  OBVIOUS
<1>4. ASSUME NEW k \in Nat, k \in Good PROVE k + 1 \in Good
  <2> SUFFICES ASSUME k + 1 <= N
               PROVE  \E b \in Nat : \A i \in 1 .. k + 1 : h[f[i]] <= b
    OBVIOUS
  <2>1. PICK b \in Nat : \A i \in 1 .. k : h[f[i]] <= b
    BY <1>1, <1>4
  <2>2. \A i \in 1 .. k + 1 : h[f[i]] \in Nat
    BY <1>1, <1>2
  <2> DEFINE c == h[f[k + 1]]
  <2>3. c \in Nat
    BY <2>2
  <2>4. CASE c <= b
    <3>1. \A i \in 1 .. k + 1 : h[f[i]] <= b
      BY <2>1, <2>4
    <3> QED
      BY <3>1
  <2>5. CASE b <= c
    <3>1. \A i \in 1 .. k + 1 : h[f[i]] <= c
      <4> SUFFICES ASSUME NEW i \in 1 .. k + 1 PROVE h[f[i]] <= c
        OBVIOUS
      <4>1. CASE i = k + 1
        BY <2>3, <4>1
      <4>2. CASE i \in 1 .. k
        BY <2>1, <2>2, <2>3, <2>5, <4>2
      <4> QED
        BY <4>1, <4>2
    <3> QED
      BY <2>3, <3>1
  <2> QED
    BY <2>3, <2>4, <2>5
<1> HIDE DEF Good
<1>5. N \in Good
  BY <1>1, <1>3, <1>4, NatSetInduction
<1>6. PICK b \in Nat : \A i \in 1 .. N : h[f[i]] <= b
  BY <1>1, <1>5 DEF Good
<1> QED
  BY <1>2, <1>6

\* A finite set of numbers has a greatest.
LEMMA Greatest ==
  ASSUME NEW S \in SUBSET Nat, IsFiniteSet(S), S # {}
  PROVE  \E x \in S : \A y \in S : y <= x
<1> DEFINE h == [x \in S |-> x]
           T == {b \in Nat : \A y \in S : y <= b}
<1>1. h \in [S -> Nat] /\ \A x \in S : h[x] = x
  OBVIOUS
<1>2. \E b \in Nat : \A x \in S : h[x] <= b
  <2> HIDE DEF h
  <2> QED
    BY <1>1, Bounded
<1>3. T # {} /\ T \in SUBSET Nat
  BY <1>1, <1>2
<1> HIDE DEF T
<1>4. PICK b \in T : \A c \in T : b <= c
  BY <1>3, Least
<1>5. b \in Nat /\ \A y \in S : y <= b
  BY <1>4 DEF T
<1>6. b \in S
  <2> SUFFICES ASSUME b \notin S PROVE FALSE
    OBVIOUS
  <2>1. \A y \in S : y <= b - 1 /\ b - 1 \in Nat
    BY <1>5
  <2>2. b - 1 \in T
    BY <2>1 DEF T
  <2> QED
    BY <1>4, <1>5, <2>2
<1> QED
  BY <1>5, <1>6

-----------------------------------------------------------------------------
\* The rows older than an id, and with those of that id.
Older(window, n) == {s \in window : s.id < n}
NotYounger(window, n) == {s \in window : s.id <= n}

\* What IdAt picks.
IsAt(n, window, r) ==
    /\ r \in window
    /\ Cardinality(Older(window, r.id)) < n
    /\ n <= Cardinality(NotYounger(window, r.id))

\* The parts of a window are counted.
LEMMA PartsCounted ==
  ASSUME NEW W \in SUBSET Rows, IsFiniteSet(W), NEW a \in Nat
  PROVE  /\ Older(W, a) \in SUBSET W /\ NotYounger(W, a) \in SUBSET W
         /\ IsFiniteSet(Older(W, a)) /\ IsFiniteSet(NotYounger(W, a))
         /\ Cardinality(Older(W, a)) \in Nat /\ Cardinality(NotYounger(W, a)) \in Nat
         /\ Cardinality(NotYounger(W, a)) <= Cardinality(W)
<1>1. Older(W, a) \in SUBSET W /\ NotYounger(W, a) \in SUBSET W
  BY DEF Older, NotYounger
<1> QED
  BY <1>1, FS_Subset, FS_CardinalityType

\* There is a row at every place of a window.
LEMMA IdAtReads ==
  ASSUME NEW W \in SUBSET Rows, IsFiniteSet(W), NEW n \in 1 .. Cardinality(W)
  PROVE  \E r \in W : IsAt(n, W, r) /\ IdAt(n, W) = r.id
<1> DEFINE K == {k \in Nat : n <= Cardinality(NotYounger(W, k))}
           h == [r \in W |-> r.id]
<1>1. \A r \in W : r.id \in Nat
  BY DEF Rows
<1>2. K # {}
  <2>1. h \in [W -> Nat] /\ \A r \in W : h[r] = r.id
    BY <1>1
  <2> HIDE DEF h
  <2>2. PICK b \in Nat : \A r \in W : h[r] <= b
    BY <2>1, Bounded
  <2>3. NotYounger(W, b) = W
    BY <2>1, <2>2 DEF NotYounger
  <2>4. n <= Cardinality(W)
    BY FS_CardinalityType
  <2> QED
    BY <2>3, <2>4
<1>3. PICK k \in K : \A j \in K : k <= j
  <2>1. K \in SUBSET Nat
    OBVIOUS
  <2> HIDE DEF K
  <2> QED
    BY <1>2, <2>1, Least
<1>4. k \in Nat /\ n <= Cardinality(NotYounger(W, k)) /\ n \in Nat
  BY <1>3, FS_CardinalityType
<1>5. Cardinality(Older(W, k)) < n
  <2>1. CASE k = 0
    <3>1. Older(W, k) = {}
      BY <1>1, <2>1 DEF Older
    <3>2. Cardinality(Older(W, k)) = 0
      BY <3>1, FS_EmptySet
    <3> QED
      BY <3>2, FS_CardinalityType
  <2>2. CASE k # 0
    <3>1. Older(W, k) = NotYounger(W, k - 1)
      BY <1>1, <1>4 DEF Older, NotYounger
    <3>2. k - 1 \in Nat /\ k - 1 \notin K
      BY <1>3, <1>4, <2>2
    <3>3. Cardinality(NotYounger(W, k - 1)) \in Nat
      BY <3>2, PartsCounted
    <3>4. ~ (n <= Cardinality(NotYounger(W, k - 1)))
      BY <3>2
    <3> QED
      BY <1>4, <3>1, <3>3, <3>4
  <2> QED
    BY <2>1, <2>2
<1>6. PICK r \in W : r.id = k
  <2> SUFFICES ASSUME \A r \in W : r.id # k PROVE FALSE
    OBVIOUS
  <2>1. NotYounger(W, k) = Older(W, k)
    BY <1>1, <1>4 DEF Older, NotYounger
  <2> QED
    BY <1>4, <1>5, <2>1, PartsCounted
<1>7. IsAt(n, W, r)
  BY <1>4, <1>5, <1>6 DEF IsAt
<1> DEFINE q == CHOOSE p \in W : /\ Cardinality({s \in W : s.id < p.id}) < n
                                 /\ n <= Cardinality({s \in W : s.id <= p.id})
<1>8. /\ q \in W
      /\ Cardinality({s \in W : s.id < q.id}) < n
      /\ n <= Cardinality({s \in W : s.id <= q.id})
  BY <1>7 DEF IsAt, Older, NotYounger
<1>9. IdAt(n, W) = q.id
  BY DEF IdAt
<1> QED
  BY <1>8, <1>9 DEF IsAt, Older, NotYounger

\* What is at a later place is not older.
LEMMA PlacesAscend ==
  ASSUME NEW W \in SUBSET Rows, IsFiniteSet(W), NEW m \in Nat, NEW n \in Nat, m < n,
         NEW r, IsAt(m, W, r), NEW q, IsAt(n, W, q)
  PROVE  r.id <= q.id
<1>1. r \in W /\ q \in W /\ r.id \in Nat /\ q.id \in Nat
  BY DEF IsAt, Rows
<1> SUFFICES ASSUME q.id < r.id PROVE FALSE
  BY <1>1
<1>2. NotYounger(W, q.id) \in SUBSET Older(W, r.id)
  BY <1>1 DEF NotYounger, Older, Rows
<1>3. Cardinality(NotYounger(W, q.id)) <= Cardinality(Older(W, r.id))
  BY <1>1, <1>2, PartsCounted, FS_Subset
<1>4. Cardinality(NotYounger(W, q.id)) \in Nat /\ Cardinality(Older(W, r.id)) \in Nat
  BY <1>1, PartsCounted
<1> QED
  BY <1>3, <1>4 DEF IsAt

\* A row that shares its id with no other is found at its rank.
LEMMA RowAtItsRank ==
  ASSUME NEW W \in SUBSET Rows, IsFiniteSet(W), NEW r \in W,
         \A s \in W : s.id = r.id => s = r,
         NEW n, n = Cardinality(NotYounger(W, r.id)), NEW q, IsAt(n, W, q)
  PROVE  q.id = r.id
<1>1. q \in W /\ r.id \in Nat /\ q.id \in Nat
  BY DEF IsAt, Rows
<1> DEFINE a == Cardinality(NotYounger(W, q.id))
           b == Cardinality(Older(W, q.id))
<1>2. n \in Nat /\ a \in Nat /\ b \in Nat /\ b < n /\ n <= a
  BY <1>1, PartsCounted DEF IsAt
<1>3. ~ (q.id < r.id)
  <2> SUFFICES ASSUME q.id < r.id PROVE FALSE
    OBVIOUS
  <2>1. /\ NotYounger(W, q.id) \in SUBSET NotYounger(W, r.id)
        /\ r \in NotYounger(W, r.id) /\ r \notin NotYounger(W, q.id)
    BY <1>1 DEF NotYounger, Rows
  <2>2. a <= n /\ (n = a => NotYounger(W, r.id) = NotYounger(W, q.id))
    BY <1>1, <2>1, PartsCounted, FS_Subset
  <2> QED
    BY <1>2, <2>1, <2>2
<1>4. ~ (r.id < q.id)
  <2> SUFFICES ASSUME r.id < q.id PROVE FALSE
    OBVIOUS
  <2>1. NotYounger(W, r.id) \in SUBSET Older(W, q.id)
    BY <1>1 DEF NotYounger, Older, Rows
  <2>2. n <= b
    BY <1>1, <2>1, PartsCounted, FS_Subset
  <2> QED
    BY <1>2, <2>2
<1> QED
  BY <1>1, <1>3, <1>4

-----------------------------------------------------------------------------
\* The samples of an item are in order, and none is younger than turn n.
Descends(mem, n) ==
    /\ \A i \in 1 .. Len(mem) - 1 : mem[i].id >= mem[i + 1].id
    /\ mem # <<>> => mem[1].id <= n

\* A sequence of items as the invariant has them.
Good(its, n) ==
    /\ its \in Seq(Items)
    /\ \A i \in 1 .. Len(its) : /\ Len(its[i].mem) <= Max2(HistorySize, LoadWindow)
                                /\ Descends(its[i].mem, n)
    /\ \A i, j \in 1 .. Len(its) : its[i].device = its[j].device => i = j

\* The window of a query is part of the table.
LEMMA WindowOfRows ==
  ASSUME rows \in SUBSET Rows, IsFiniteSet(rows), NEW d, NEW m \in Nat
  PROVE  /\ Window(d, m, LoadWindow) \in SUBSET Rows
         /\ Window(d, m, LoadWindow) \in SUBSET rows
         /\ IsFiniteSet(Window(d, m, LoadWindow))
         /\ Cardinality(Window(d, m, LoadWindow)) \in Nat
<1>1. Window(d, m, LoadWindow) \in SUBSET rows
  BY DEF Window
<1> HIDE DEF Window
<1>2. IsFiniteSet(Window(d, m, LoadWindow))
  BY <1>1, FS_Subset
<1> QED
  BY <1>1, <1>2, FS_CardinalityType

\* What a query returns: of each place down from the last one a row's id.
LEMMA ReadBackReads ==
  ASSUME rows \in SUBSET Rows, IsFiniteSet(rows), NEW d, NEW m \in Nat,
         NEW W, W = Window(d, m, LoadWindow),
         NEW count, count = Min2(LoadWindow, Cardinality(W))
  PROVE  /\ count \in Nat /\ count <= LoadWindow /\ count <= Cardinality(W)
         /\ ReadBack(d, m) \in Seq(Samples) /\ Len(ReadBack(d, m)) = count
         /\ \A i \in 1 .. count :
               \E r \in W : IsAt(count + 1 - i, W, r) /\ ReadBack(d, m)[i].id = r.id
<1>1. W \in SUBSET Rows /\ IsFiniteSet(W) /\ Cardinality(W) \in Nat
  BY WindowOfRows
<1>2. count \in Nat /\ count <= LoadWindow /\ count <= Cardinality(W)
  BY <1>1, Constants DEF Min2
<1>3. ReadBack(d, m) = [i \in 1 .. count |-> [id |-> IdAt(count + 1 - i, W), empty |-> FALSE]]
  BY DEF ReadBack
<1>4. \A i \in 1 .. count :
         \E r \in W : IsAt(count + 1 - i, W, r) /\ IdAt(count + 1 - i, W) = r.id
  <2> SUFFICES ASSUME NEW i \in 1 .. count
               PROVE  \E r \in W : IsAt(count + 1 - i, W, r) /\ IdAt(count + 1 - i, W) = r.id
    OBVIOUS
  <2> DEFINE n == count + 1 - i
  <2>1. n \in 1 .. Cardinality(W)
    BY <1>1, <1>2
  <2> HIDE DEF n
  <2>2. \E r \in W : IsAt(n, W, r) /\ IdAt(n, W) = r.id
    BY <1>1, <2>1, IdAtReads
  <2> QED
    BY <2>2 DEF n
<1>5. \A i \in 1 .. count : IdAt(count + 1 - i, W) \in Nat
  BY <1>1, <1>4 DEF Rows
<1>6. \A i \in 1 .. count : [id |-> IdAt(count + 1 - i, W), empty |-> FALSE] \in Samples
  BY <1>5 DEF Samples
<1>7. ReadBack(d, m) \in Seq(Samples) /\ Len(ReadBack(d, m)) = count
  BY <1>2, <1>3, <1>6
<1>8. \A i \in 1 .. count : ReadBack(d, m)[i].id = IdAt(count + 1 - i, W)
  BY <1>3
<1> QED
  BY <1>2, <1>4, <1>7, <1>8

\* It is in order, and reads nothing that is not stored.
LEMMA ReadBackDescends ==
  ASSUME rows \in SUBSET Rows, IsFiniteSet(rows), NEW d, NEW m \in Nat,
         NEW n \in Nat, \A r \in rows : r.id <= n
  PROVE  Descends(ReadBack(d, m), n)
<1> DEFINE W == Window(d, m, LoadWindow)
           count == Min2(LoadWindow, Cardinality(W))
           mem == ReadBack(d, m)
<1>1. W \in SUBSET Rows /\ W \in SUBSET rows /\ IsFiniteSet(W)
  BY WindowOfRows
<1> HIDE DEF W
<1>2. /\ count \in Nat /\ Len(mem) = count /\ mem \in Seq(Samples)
      /\ \A i \in 1 .. count : \E r \in W : IsAt(count + 1 - i, W, r) /\ mem[i].id = r.id
  BY ReadBackReads DEF W
<1> HIDE DEF count, mem
<1>3. \A i \in 1 .. count - 1 : mem[i].id >= mem[i + 1].id
  <2> SUFFICES ASSUME NEW i \in 1 .. count - 1 PROVE mem[i].id >= mem[i + 1].id
    OBVIOUS
  <2>0. i \in 1 .. count /\ i + 1 \in 1 .. count
    BY <1>2
  <2>1. PICK r \in W : IsAt(count + 1 - i, W, r) /\ mem[i].id = r.id
    BY <1>2, <2>0
  <2>2. PICK q \in W : IsAt(count + 1 - (i + 1), W, q) /\ mem[i + 1].id = q.id
    BY <1>2, <2>0
  <2> DEFINE a == count + 1 - i
             b == count + 1 - (i + 1)
  <2>3. a \in Nat /\ b \in Nat /\ b < a
    BY <1>2
  <2>4. IsAt(a, W, r) /\ IsAt(b, W, q)
    BY <2>1, <2>2
  <2> HIDE DEF a, b
  <2>5. q.id <= r.id
    BY <1>1, <2>3, <2>4, PlacesAscend
  <2>6. q.id \in Nat /\ r.id \in Nat
    BY <1>1 DEF Rows
  <2> QED
    BY <2>1, <2>2, <2>5, <2>6
<1>4. mem # <<>> => mem[1].id <= n
  <2> SUFFICES ASSUME mem # <<>> PROVE mem[1].id <= n
    OBVIOUS
  <2>1. 1 \in 1 .. count
    BY <1>2, EmptySeq
  <2> QED
    BY <1>1, <1>2, <2>1
<1> QED
  BY <1>2, <1>3, <1>4 DEF Descends, mem

\* The items made: one for each new device, with what is stored of it.
LEMMA MadeOf ==
  ASSUME rows \in SUBSET Rows, IsFiniteSet(rows), items \in Seq(Items),
         NEW m \in Nat, NEW listed \in Seq(Device), Once(listed),
         NEW n \in Nat, \A r \in rows : r.id <= n
  PROVE  /\ Good(Made(listed, m), n)
         /\ \A i \in 1 .. Len(Made(listed, m)) :
               /\ Made(listed, m)[i] = Item(Made(listed, m)[i].device, m)
               /\ Made(listed, m)[i].device \in Device \ Devices(items)
<1> DEFINE new == Only(listed, Device \ Devices(items))
           M == Made(listed, m)
           N == Len(new)
<1>1. new \in Seq(Device \cap (Device \ Devices(items))) /\ Once(new)
  BY OnlyType, OnlyOnce
<1> HIDE DEF new
<1>2. N \in Nat /\ \A i \in 1 .. N : new[N + 1 - i] \in Device \ Devices(items)
  <2>1. N \in Nat /\ \A i \in 1 .. N : new[i] \in Device \ Devices(items)
    BY <1>1
  <2>2. \A i \in 1 .. N : N + 1 - i \in 1 .. N
    BY <2>1
  <2> QED
    BY <2>1, <2>2
<1>3. M = [i \in 1 .. N |-> Item(new[N + 1 - i], m)]
  BY DEF Made, new
<1>4. \A d \in Device : /\ Item(d, m) \in Items /\ Item(d, m).device = d
                        /\ Len(Item(d, m).mem) <= Max2(HistorySize, LoadWindow)
                        /\ Descends(Item(d, m).mem, n)
  <2> SUFFICES ASSUME NEW d \in Device
               PROVE  /\ Item(d, m) \in Items /\ Item(d, m).device = d
                      /\ Len(Item(d, m).mem) <= Max2(HistorySize, LoadWindow)
                      /\ Descends(Item(d, m).mem, n)
    OBVIOUS
  <2>1. ReadBack(d, m) \in Seq(Samples) /\ Len(ReadBack(d, m)) <= LoadWindow
    BY ReadBackReads
  <2>2. Descends(ReadBack(d, m), n)
    BY ReadBackDescends
  <2>3. LoadWindow <= Max2(HistorySize, LoadWindow)
    BY Constants DEF Max2
  <2>4. Len(ReadBack(d, m)) <= Max2(HistorySize, LoadWindow)
    <3>1. Len(ReadBack(d, m)) \in Nat /\ Max2(HistorySize, LoadWindow) \in Nat
      BY <2>1, Constants DEF Max2
    <3> QED
      BY <2>1, <2>3, <3>1, Constants
  <2>5. -1 \in -1 .. MaxTime
    BY Constants
  <2> QED
    BY <2>1, <2>2, <2>4, <2>5 DEF Item, Items
<1>5. M \in Seq(Items) /\ Len(M) = N
  <2>1. \A i \in 1 .. N : Item(new[N + 1 - i], m) \in Items
    BY <1>2, <1>4
  <2> QED
    BY <1>2, <1>3, <2>1
<1>6. \A i \in 1 .. N : M[i] = Item(new[N + 1 - i], m) /\ M[i].device = new[N + 1 - i]
  BY <1>2, <1>3, <1>4
<1>7. \A i \in 1 .. N : /\ Len(M[i].mem) <= Max2(HistorySize, LoadWindow)
                        /\ Descends(M[i].mem, n)
                        /\ M[i] = Item(M[i].device, m)
                        /\ M[i].device \in Device \ Devices(items)
  BY <1>2, <1>4, <1>6
<1>8. \A i, j \in 1 .. N : M[i].device = M[j].device => i = j
  <2> SUFFICES ASSUME NEW i \in 1 .. N, NEW j \in 1 .. N, M[i].device = M[j].device
               PROVE  i = j
    OBVIOUS
  <2>1. N + 1 - i \in 1 .. N /\ N + 1 - j \in 1 .. N
    BY <1>2
  <2>2. N + 1 - i = N + 1 - j
    BY <1>1, <1>6, <2>1 DEF Once
  <2> QED
    BY <1>2, <2>2
<1> HIDE DEF M
<1> QED
  BY <1>5, <1>7, <1>8 DEF Good, M

-----------------------------------------------------------------------------
\* What each of the items is.
LEMMA ItemsTyped ==
  ASSUME NEW its \in Seq(Items)
  PROVE  /\ Len(its) \in Nat
         /\ \A i \in 1 .. Len(its) : /\ its[i] \in Items /\ its[i].device \in Device
                                     /\ its[i].mem \in Seq(Samples)
<1>1. Len(its) \in Nat /\ \A i \in 1 .. Len(its) : its[i] \in Items
  OBVIOUS
<1>2. \A t \in Items : t.device \in Device /\ t.mem \in Seq(Samples)
  BY DEF Items
<1> QED
  BY <1>1, <1>2

\* A sequence of items as the invariant has them has at most one per device.
LEMMA ItemsFit ==
  ASSUME NEW its, NEW n, Good(its, n)
  PROVE  Len(its) <= Cardinality(Device)
<1> DEFINE N == Len(its)
           f == [i \in 1 .. N |-> its[i].device]
<1>1. N \in Nat /\ \A i \in 1 .. N : its[i].device \in Device
  BY ItemsTyped DEF Good
<1>2. \A i, j \in 1 .. N : its[i].device = its[j].device => i = j
  BY DEF Good
<1>3. f \in Injection(1 .. N, Device)
  BY <1>1, <1>2 DEF Injection, IsInjective
<1> HIDE DEF f, N
<1>4. Cardinality(1 .. N) = N
  <2>1. 1 \in Int /\ N \in Int
    BY <1>1
  <2>2. Cardinality(1 .. N) = IF 1 > N THEN 0 ELSE N - 1 + 1
    BY <2>1, FS_Interval
  <2> QED
    BY <1>1, <2>2
<1>5. Cardinality(1 .. N) <= Cardinality(Device)
  BY <1>3, Constants, FS_Injection
<1> QED
  BY <1>4, <1>5 DEF N

\* New items are put in front of the others.
LEMMA InFront ==
  ASSUME NEW n, NEW a, Good(a, n), NEW b, Good(b, n),
         \A i \in 1 .. Len(a) : a[i].device \notin Devices(b)
  PROVE  Good(a \o b, n) /\ Len(a \o b) = Len(a) + Len(b)
<1> DEFINE A == Len(a)
           B == Len(b)
           c == a \o b
<1>1. a \in Seq(Items) /\ b \in Seq(Items) /\ A \in Nat /\ B \in Nat
  BY DEF Good
<1>2. /\ c \in Seq(Items) /\ Len(c) = A + B
      /\ \A i \in 1 .. A : c[i] = a[i]
      /\ \A i \in 1 .. B : c[A + i] = b[i]
  BY <1>1
<1> HIDE DEF c
<1>3. \A i \in 1 .. A + B : (i \in 1 .. A /\ c[i] = a[i])
                            \/ (i - A \in 1 .. B /\ c[i] = b[i - A])
  <2> SUFFICES ASSUME NEW i \in 1 .. A + B, i \notin 1 .. A
               PROVE  i - A \in 1 .. B /\ c[i] = b[i - A]
    BY <1>2
  <2>1. i - A \in 1 .. B /\ A + (i - A) = i
    BY <1>1
  <2> QED
    BY <1>2, <2>1
<1>4. \A i \in 1 .. A + B : /\ Len(c[i].mem) <= Max2(HistorySize, LoadWindow)
                            /\ Descends(c[i].mem, n)
  BY <1>3 DEF Good
<1>5. \A i \in 1 .. A, j \in 1 .. B : a[i].device # b[j].device
  BY DEF Devices
<1>6. /\ \A i, j \in 1 .. A : a[i].device = a[j].device => i = j
      /\ \A i, j \in 1 .. B : b[i].device = b[j].device => i = j
  BY DEF Good
<1>7. \A i, j \in 1 .. A + B : c[i].device = c[j].device => i = j
  <2> SUFFICES ASSUME NEW i \in 1 .. A + B, NEW j \in 1 .. A + B, c[i].device = c[j].device
               PROVE  i = j
    OBVIOUS
  <2>1. CASE i \in 1 .. A /\ c[i] = a[i] /\ j \in 1 .. A /\ c[j] = a[j]
    BY <1>6, <2>1
  <2>2. CASE i - A \in 1 .. B /\ c[i] = b[i - A] /\ j - A \in 1 .. B /\ c[j] = b[j - A]
    <3>1. i - A = j - A
      BY <1>6, <2>2
    <3> QED
      BY <1>1, <3>1
  <2> QED
    BY <1>3, <1>5, <2>1, <2>2
<1> QED
  BY <1>1, <1>2, <1>4, <1>7 DEF Good, c

\* Taking the samples of a second leaves the items' devices and histories.
LEMMA SampledKeeps ==
  ASSUME NEW its, NEW n, Good(its, n), NEW listed, NEW time \in -1 .. MaxTime
  PROVE  /\ Good(Sampled(its, listed, time), n)
         /\ Len(Sampled(its, listed, time)) = Len(its)
         /\ \A i \in 1 .. Len(its) :
               /\ Sampled(its, listed, time)[i].device = its[i].device
               /\ Sampled(its, listed, time)[i].mem = its[i].mem
<1> DEFINE N == Len(its)
           q == Sampled(its, listed, time)
           new(i) == IF \E j \in 1 .. Len(listed) : listed[j] = its[i].device
                     THEN [its[i] EXCEPT !.active = TRUE, !.seen = time]
                     ELSE [its[i] EXCEPT !.active = FALSE]
<1>1. N \in Nat /\ \A i \in 1 .. N : its[i] \in Items
  BY DEF Good
<1>2. q = [i \in 1 .. N |-> new(i)]
  BY DEF Sampled
<1>3. \A i \in 1 .. N : new(i) \in Items /\ new(i).device = its[i].device
                        /\ new(i).mem = its[i].mem
  BY <1>1 DEF Items
<1> HIDE DEF new
<1>4. q \in Seq(Items) /\ Len(q) = N /\ \A i \in 1 .. N : q[i] = new(i)
  BY <1>1, <1>2, <1>3
<1> HIDE DEF q
<1> QED
  BY <1>3, <1>4 DEF Good, q

\* A turn puts the sample n in front of each item's.
LEMMA PushedSample ==
  ASSUME NEW mem \in Seq(Samples), NEW s \in Samples,
         Len(mem) <= Max2(HistorySize, LoadWindow)
  PROVE  /\ Pushed(mem, s) \in Seq(Samples)
         /\ Len(Pushed(mem, s)) = Min2(Len(mem) + 1, Max2(Len(mem), HistorySize))
         /\ Len(Pushed(mem, s)) <= Len(mem) + 1
         /\ Len(Pushed(mem, s)) <= Max2(HistorySize, LoadWindow)
         /\ \A i \in 1 .. Len(Pushed(mem, s)) :
               Pushed(mem, s)[i] = IF i = 1 THEN s ELSE mem[i - 1]
<1> DEFINE q == <<s>> \o mem
           L == Min2(Len(mem) + 1, Max2(Len(mem), HistorySize))
<1>1. /\ q \in Seq(Samples) /\ Len(q) = Len(mem) + 1 /\ Len(mem) \in Nat
      /\ \A i \in 1 .. Len(mem) + 1 : q[i] = IF i = 1 THEN s ELSE mem[i - 1]
  <2>1. <<s>> \in Seq(Samples) /\ Len(<<s>>) = 1 /\ <<s>>[1] = s
    OBVIOUS
  <2> QED
    BY <2>1
<1>2. /\ L \in Nat /\ L <= Len(mem) + 1
      /\ L <= Max2(HistorySize, LoadWindow)
  BY <1>1, Constants DEF Min2, Max2
<1>3. Pushed(mem, s) = SubSeq(q, 1, L)
  BY DEF Pushed
<1> HIDE DEF q, L
<1>4. /\ SubSeq(q, 1, L) \in Seq(Samples) /\ Len(SubSeq(q, 1, L)) = L
      /\ \A i \in 1 .. L : SubSeq(q, 1, L)[i] = q[i]
  BY <1>1, <1>2
<1> QED
  BY <1>1, <1>2, <1>3, <1>4 DEF L

\* A turn leaves the items' devices, and their histories in order.
LEMMA TurnedKeeps ==
  ASSUME NEW its, NEW n \in Nat, Good(its, n), NEW time
  PROVE  /\ Good(Turned(its, n + 1, time), n + 1)
         /\ Len(Turned(its, n + 1, time)) = Len(its)
         /\ \A i \in 1 .. Len(its) :
               /\ Turned(its, n + 1, time)[i].device = its[i].device
               /\ Turned(its, n + 1, time)[i].mem =
                     Pushed(its[i].mem, [id |-> n + 1, empty |-> IsEmpty(its[i], time)])
<1> DEFINE N == Len(its)
           q == Turned(its, n + 1, time)
           s(i) == [id |-> n + 1, empty |-> IsEmpty(its[i], time)]
           new(i) == [its[i] EXCEPT !.mem = Pushed(@, s(i))]
<1>1. /\ N \in Nat
      /\ \A i \in 1 .. N : /\ its[i] \in Items /\ its[i].mem \in Seq(Samples)
                           /\ Len(its[i].mem) <= Max2(HistorySize, LoadWindow)
                           /\ Descends(its[i].mem, n)
  BY ItemsTyped DEF Good
<1>2. q = [i \in 1 .. N |-> new(i)]
  BY DEF Turned
<1>3. \A i \in 1 .. N : s(i) \in Samples /\ s(i).id = n + 1
  BY DEF Samples, IsEmpty
<1>4. \A i \in 1 .. N :
         /\ new(i).device = its[i].device
         /\ new(i).mem = Pushed(its[i].mem, s(i))
         /\ Pushed(its[i].mem, s(i)) \in Seq(Samples) => new(i) \in Items
  <2> HIDE DEF s
  <2> QED
    BY <1>1 DEF Items
<1> HIDE DEF s
<1>5. \A i \in 1 .. N :
         /\ Pushed(its[i].mem, s(i)) \in Seq(Samples)
         /\ Len(Pushed(its[i].mem, s(i))) <= Max2(HistorySize, LoadWindow)
         /\ Descends(Pushed(its[i].mem, s(i)), n + 1)
  <2> SUFFICES ASSUME NEW i \in 1 .. N
               PROVE  /\ Pushed(its[i].mem, s(i)) \in Seq(Samples)
                      /\ Len(Pushed(its[i].mem, s(i))) <= Max2(HistorySize, LoadWindow)
                      /\ Descends(Pushed(its[i].mem, s(i)), n + 1)
    OBVIOUS
  <2> DEFINE mem == its[i].mem
             p == Pushed(mem, s(i))
  <2>1. /\ p \in Seq(Samples) /\ Len(p) <= Max2(HistorySize, LoadWindow)
        /\ Len(p) <= Len(mem) + 1
        /\ \A k \in 1 .. Len(p) : p[k] = IF k = 1 THEN s(i) ELSE mem[k - 1]
    BY <1>1, <1>3, PushedSample
  <2>2. mem \in Seq(Samples) /\ Descends(mem, n) /\ s(i).id = n + 1
    BY <1>1, <1>3
  <2> HIDE DEF p, mem
  <2>3. \A k \in 1 .. Len(p) - 1 : p[k].id >= p[k + 1].id
    <3> SUFFICES ASSUME NEW k \in 1 .. Len(p) - 1 PROVE p[k].id >= p[k + 1].id
      OBVIOUS
    <3>0. /\ Len(mem) \in Nat /\ Len(p) \in Nat /\ k \in 1 .. Len(p) /\ k + 1 \in 1 .. Len(p)
          /\ k + 1 # 1 /\ (k + 1) - 1 = k /\ k \in 1 .. Len(mem)
      BY <2>1, <2>2
    <3>1. p[k + 1] = mem[k] /\ mem[k].id \in Nat
      <4>1. p[k + 1] = mem[k]
        BY <2>1, <3>0
      <4>2. mem[k] \in Samples
        BY <2>2, <3>0
      <4> QED
        BY <4>1, <4>2 DEF Samples
    <3>2. CASE k = 1
      <4>1. mem # <<>> /\ mem[1].id <= n
        BY <2>2, <3>0 DEF Descends
      <4> QED
        BY <2>1, <2>2, <3>0, <3>1, <3>2, <4>1
    <3>3. CASE k # 1
      <4>1. k - 1 \in 1 .. Len(mem) - 1 /\ (k - 1) + 1 = k
        BY <3>0, <3>3
      <4>2. mem[k - 1].id >= mem[(k - 1) + 1].id
        BY <2>2, <4>1 DEF Descends
      <4> QED
        BY <2>1, <3>0, <3>1, <3>3, <4>1, <4>2
    <3> QED
      BY <3>2, <3>3
  <2>4. p # <<>> => p[1].id <= n + 1
    <3> SUFFICES ASSUME p # <<>> PROVE p[1].id <= n + 1
      OBVIOUS
    <3>1. 1 \in 1 .. Len(p)
      BY <2>1, EmptySeq
    <3> QED
      BY <2>1, <2>2, <3>1
  <2> QED
    BY <2>1, <2>3, <2>4 DEF Descends, p, mem
<1>6. \A i \in 1 .. N : new(i) \in Items
  BY <1>4, <1>5
<1> HIDE DEF new
<1>7. q \in Seq(Items) /\ Len(q) = N /\ \A i \in 1 .. N : q[i] = new(i)
  BY <1>1, <1>2, <1>6
<1>8. \A i \in 1 .. N : /\ q[i].device = its[i].device
                        /\ q[i].mem = Pushed(its[i].mem, s(i))
  BY <1>4, <1>7
<1>9. \A i, j \in 1 .. N : its[i].device = its[j].device => i = j
  BY DEF Good
<1> HIDE DEF q
<1>10. Good(q, n + 1)
  BY <1>5, <1>7, <1>8, <1>9 DEF Good
<1> QED
  BY <1>7, <1>8, <1>10 DEF q, s

\* A listing names every device in it once.
LEMMA Listed ==
  ASSUME NEW listed \in Listings
  PROVE  listed \in Seq(Device) /\ Once(listed)
<1>1. PICK S \in SUBSET Device : listed = SetToSeq(S)
  BY DEF Listings
<1>2. IsFiniteSet(S)
  BY <1>1, Constants, FS_Subset
<1> DEFINE N == Cardinality(S)
<1>3. N \in Nat /\ ExistsBijection(1 .. N, S)
  BY <1>2, FS_CardinalityType
<1>4. \E f : f \in [1 .. N -> S] /\ \A a, b \in DOMAIN f : f[a] = f[b] => a = b
  BY <1>3 DEF ExistsBijection, Bijection, Injection, IsInjective
<1>5. listed \in [1 .. N -> S] /\ \A a, b \in DOMAIN listed : listed[a] = listed[b] => a = b
  BY <1>1, <1>4, ZenonT(30) DEF SetToSeq, IsInjective
<1> QED
  BY <1>1, <1>3, <1>5 DEF Once

-----------------------------------------------------------------------------
\* What a turn of these items stores: a sample of each device at most, every
\* one of a slot of theirs, and the turn behind them.
TurnStores(q, its, n) ==
    /\ q \in Seq(Inserts)
    /\ Len(q) # 0
    /\ q[Len(q)].kind = "turn"
    /\ \A i \in 1 .. Len(q) :
          /\ q[i].id = n
          /\ i # Len(q) => q[i].kind = "sample"
          /\ q[i].kind = "sample" => q[i].slot <= Len(its)
    /\ \A i, j \in 1 .. Len(q) :
          q[i].kind = "sample" /\ q[j].kind = "sample" /\ q[i].of = q[j].of => i = j

\* TurnInserts makes such a queue.
LEMMA TurnStored ==
  ASSUME NEW its, NEW m, Good(its, m), NEW n \in Nat, NEW time, NEW buf \in Nat
  PROVE  TurnStores(TurnInserts(its, n, time, buf), its, n)
<1> DEFINE N == Len(its)
           all == [i \in 1 .. N |-> i]
           S == {i \in 1 .. N : ~IsEmpty(its[i], time)}
           stored == Only(all, S)
           K == Len(stored)
           op(k) == InsertSample(n, stored[k], buf, its[stored[k]].device)
           a == SampleInserts(its, n, time, buf)
           q == TurnInserts(its, n, time, buf)
<1>1. /\ N \in Nat /\ N <= Cardinality(Device) /\ Cardinality(Device) \in Nat
      /\ \A i \in 1 .. N : its[i].device \in Device
      /\ \A i, j \in 1 .. N : its[i].device = its[j].device => i = j
  BY ItemsTyped, ItemsFit, Constants DEF Good
<1>2. K \in Nat /\ \A k \in 1 .. K : stored[k] \in 1 .. N
  <2>1. all \in Seq(1 .. N)
    BY <1>1
  <2> HIDE DEF all, S
  <2>2. stored \in Seq(1 .. N)
    BY <2>1, OnlyType
  <2> HIDE DEF stored
  <2> QED
    BY <2>2
<1>3. \A j, k \in 1 .. K : stored[j] = stored[k] => j = k
  <2>1. all \in Seq(1 .. N) /\ Once(all)
    BY <1>1 DEF Once
  <2> HIDE DEF all, S
  <2>2. Once(stored)
    BY <2>1, OnlyOnce
  <2> QED
    BY <2>2 DEF Once
<1>4. a = [k \in 1 .. K |-> op(k)]
  BY DEF SampleInserts
<1> HIDE DEF all, S, stored
<1>5. \A k \in 1 .. K : /\ op(k) \in Inserts /\ op(k).kind = "sample" /\ op(k).id = n
                        /\ op(k).slot = stored[k] /\ op(k).slot <= N
                        /\ op(k).of = its[stored[k]].device
  BY <1>1, <1>2 DEF InsertSample, Inserts
<1>6. InsertTurn(n) \in Inserts /\ InsertTurn(n).kind = "turn" /\ InsertTurn(n).id = n
  BY DEF InsertTurn, Inserts
<1>7. \A j, k \in 1 .. K : op(j).of = op(k).of => j = k
  <2> SUFFICES ASSUME NEW j \in 1 .. K, NEW k \in 1 .. K, op(j).of = op(k).of
               PROVE  j = k
    OBVIOUS
  <2>1. its[stored[j]].device = its[stored[k]].device
    BY <1>5
  <2>2. stored[j] = stored[k]
    BY <1>1, <1>2, <2>1
  <2> QED
    BY <1>3, <2>2
<1> HIDE DEF op
<1>8. a \in Seq(Inserts) /\ Len(a) = K /\ \A k \in 1 .. K : a[k] = op(k)
  BY <1>2, <1>4, <1>5
<1>9. q = a \o <<InsertTurn(n)>>
  BY DEF TurnInserts
<1> HIDE DEF a
<1> DEFINE t == InsertTurn(n)
<1>10. /\ q \in Seq(Inserts) /\ Len(q) = K + 1 /\ q[K + 1] = t
       /\ \A k \in 1 .. K : q[k] = a[k]
  <2> HIDE DEF t
  <2> QED
    BY <1>2, <1>6, <1>8, <1>9 DEF t
<1> HIDE DEF q, t
<1>11. \A k \in 1 .. K + 1 : (k \in 1 .. K /\ q[k] = op(k)) \/ (k = K + 1 /\ q[k] = t)
  BY <1>2, <1>8, <1>10
<1>12. \A i \in 1 .. K + 1 : /\ q[i].id = n
                             /\ i # K + 1 => q[i].kind = "sample"
                             /\ q[i].kind = "sample" => q[i].slot <= N
  BY <1>5, <1>6, <1>11 DEF t
<1>13. \A i, j \in 1 .. K + 1 :
          q[i].kind = "sample" /\ q[j].kind = "sample" /\ q[i].of = q[j].of => i = j
  <2>1. \A i \in 1 .. K + 1 : q[i].kind = "sample" => i \in 1 .. K /\ q[i] = op(i)
    BY <1>6, <1>11 DEF t
  <2> QED
    BY <1>7, <2>1
<1> QED
  BY <1>2, <1>6, <1>10, <1>12, <1>13 DEF TurnStores, q, t

-----------------------------------------------------------------------------
\* The statements there are.
Deletes == [kind : {"turns", "samples"}, below : Int]
Ops == Inserts \cup Deletes

\* A statement with its device as the text found at the address.
TextsFit(ops, anything) ==
    \A i \in 1 .. Len(ops) : ops[i].kind = "sample" => Text(ops[i], anything) \in Texts

Tables == [ids : SUBSET Nat, rows : SUBSET Rows]

\* What one statement does.
LEMMA OneStatement ==
  ASSUME NEW t \in Tables, NEW op \in Ops, NEW anything,
         op.kind = "sample" => Text(op, anything) \in Texts
  PROVE  /\ Execute(t, op, anything) \in Tables
         /\ op.kind \in {"sample", "turn", "turns", "samples"}
         /\ op.kind = "turn" =>
               Execute(t, op, anything) = [ids |-> t.ids \cup {op.id}, rows |-> t.rows]
         /\ op.kind = "turns" =>
               Execute(t, op, anything) =
                  [ids |-> {i \in t.ids : i >= op.below}, rows |-> t.rows]
         /\ op.kind = "samples" =>
               Execute(t, op, anything) =
                  [ids |-> t.ids, rows |-> {r \in t.rows : r.id >= op.below}]
         /\ op.kind = "sample" =>
               Execute(t, op, anything) =
                  [ids |-> t.ids,
                   rows |-> t.rows \cup
                      {[id |-> op.id, uuid |-> Text(op, anything), of |-> op.of]}]
<1>1. t = [ids |-> t.ids, rows |-> t.rows] /\ t.ids \in SUBSET Nat /\ t.rows \in SUBSET Rows
  BY DEF Tables
<1> DEFINE text == Text(op, anything)
<1> HIDE DEF text
<1>2. CASE op.kind = "turn"
  <2>1. op.id \in Nat
    BY <1>2 DEF Ops, Inserts, Deletes
  <2>2. Execute(t, op, anything) = [ids |-> t.ids \cup {op.id}, rows |-> t.rows]
    BY <1>1, <1>2 DEF Execute
  <2> QED
    BY <1>1, <1>2, <2>1, <2>2 DEF Tables
<1>3. CASE op.kind = "turns"
  <2>2. Execute(t, op, anything) = [ids |-> {i \in t.ids : i >= op.below}, rows |-> t.rows]
    BY <1>1, <1>3 DEF Execute
  <2> QED
    BY <1>1, <1>3, <2>2 DEF Tables
<1>4. CASE op.kind = "samples"
  <2>2. Execute(t, op, anything) = [ids |-> t.ids, rows |-> {r \in t.rows : r.id >= op.below}]
    BY <1>1, <1>4 DEF Execute
  <2> QED
    BY <1>1, <1>4, <2>2 DEF Tables
<1>5. CASE op.kind = "sample"
  <2>1. op.id \in Nat /\ op.of \in Device
    BY <1>5 DEF Ops, Inserts, Deletes
  <2>2. Execute(t, op, anything) =
           [ids |-> t.ids,
            rows |-> t.rows \cup {[id |-> op.id, uuid |-> text, of |-> op.of]}]
    BY <1>1, <1>5 DEF Execute, text
  <2>3. [id |-> op.id, uuid |-> text, of |-> op.of] \in Rows
    BY <1>5, <2>1 DEF Rows, text
  <2> QED
    BY <1>1, <1>5, <2>2, <2>3 DEF Tables, text
<1>6. op.kind \in {"sample", "turn", "turns", "samples"}
  BY DEF Ops, Inserts, Deletes
<1> QED
  BY <1>2, <1>3, <1>4, <1>5, <1>6

\* Execute, of one statement after the other, gives what Executed gives.
LEMMA OneByOne ==
  ASSUME ids \in SUBSET Nat, rows \in SUBSET Rows,
         NEW ops \in Seq(Ops), NEW anything, TextsFit(ops, anything)
  PROVE  \E f \in [0 .. Len(ops) -> Tables] :
            /\ f[0] = [ids |-> ids, rows |-> rows]
            /\ Executed(ops, anything) = f[Len(ops)]
            /\ \A n \in 1 .. Len(ops) : f[n] = Execute(f[n - 1], ops[n], anything)
<1> DEFINE N == Len(ops)
           base == [ids |-> ids, rows |-> rows]
           F == [p \in Nat \X Tables |->
                   IF p[1] \in 1 .. N THEN Execute(p[2], ops[p[1]], anything) ELSE p[2]]
           All(f) == f = [n \in 0 .. N |->
                            IF n = 0 THEN base ELSE Execute(f[n - 1], ops[n], anything)]
           after == CHOOSE f : All(f)
<1>1. N \in Nat /\ base \in Tables
  BY DEF Tables
<1>2. ASSUME NEW t \in Tables, NEW n \in 1 .. N PROVE Execute(t, ops[n], anything) \in Tables
  BY OneStatement DEF TextsFit
<1>3. F \in [Nat \X Tables -> Tables]
  <2>1. ASSUME NEW p \in Nat \X Tables
        PROVE  (IF p[1] \in 1 .. N THEN Execute(p[2], ops[p[1]], anything) ELSE p[2]) \in Tables
    BY <1>2
  <2> QED
    BY <2>1
<1> HIDE DEF F, base
<1>4. PICK g : Goes(g, Tables, base, F, N)
  BY <1>1, <1>3, Recursion
<1>5. \A n \in Nat, t \in Tables : n \in 1 .. N => F[<<n, t>>] = Execute(t, ops[n], anything)
  BY <1>1 DEF F
<1>6. /\ g \in [0 .. N -> Tables] /\ g[0] = base
      /\ \A n \in 1 .. N : g[n] = Execute(g[n - 1], ops[n], anything)
  <2>1. \A n \in 1 .. N : n \in Nat /\ n - 1 \in 0 .. N
    BY <1>1
  <2> QED
    BY <1>4, <1>5, <2>1 DEF Goes
<1>7. All(g)
  <2>1. \A n \in 0 .. N :
           g[n] = IF n = 0 THEN base ELSE Execute(g[n - 1], ops[n], anything)
    BY <1>1, <1>6
  <2> QED
    BY <1>6, <2>1
<1>8. All(after)
  BY <1>7
<1>9. Executed(ops, anything) = after[N]
  BY Zenon DEF Executed, base
<1> HIDE DEF after
<1>10. after[0] = base /\ \A n \in 1 .. N : after[n] = Execute(after[n - 1], ops[n], anything)
  <2>1. /\ 0 \in 0 .. N
        /\ \A n \in 1 .. N : n \in 0 .. N /\ n # 0
    BY <1>1
  <2> QED
    BY <1>8, <2>1
<1>11. after[N] = g[N]
  <2>1. \A n \in 1 .. N : n \in Nat
    BY <1>1
  <2>2. \A n \in 1 .. N : after[n - 1] \in Tables => after[n] = F[<<n, after[n - 1]>>]
    BY <1>5, <1>10, <2>1
  <2> HIDE DEF N
  <2>3. Agrees(after, g, N)
    BY <1>1, <1>4, <1>10, <2>2, RecursionOnce
  <2> QED
    BY <1>1, <2>3 DEF Agrees
<1> QED
  BY <1>6, <1>9, <1>11 DEF base

\* A turn, or a sample as in the row, among the first n statements.
StoresTurn(ops, n, i) == \E k \in 1 .. n : ops[k].kind = "turn" /\ ops[k].id = i
StoresSample(ops, n, r) ==
    \E k \in 1 .. n : ops[k].kind = "sample" /\ ops[k].id = r.id /\ ops[k].of = r.of

\* What the tables hold once the first n statements are executed.
After(t, ops, n, low) ==
    /\ t \in Tables
    /\ IsFiniteSet(t.ids) /\ IsFiniteSet(t.rows)
    /\ \A i \in t.ids : i \in ids \/ StoresTurn(ops, n, i)
    /\ \A r \in t.rows : r \in rows \/ StoresSample(ops, n, r)
    /\ \A i \in Nat : (i \in ids \/ StoresTurn(ops, n, i)) =>
          \/ i \in t.ids
          \/ i < low /\ \E k \in 1 .. n : ops[k].kind = "turns"
    /\ \A r \in t.rows : \A k \in 1 .. n :
          ops[k].kind = "samples" =>
             r.id >= low \/ \E j \in k + 1 .. n : ops[j].kind = "sample"

\* One more statement.
LEMMA AfterOneMore ==
  ASSUME NEW ops \in Seq(Ops), NEW anything, TextsFit(ops, anything), NEW low \in Int,
         \A k \in 1 .. Len(ops) :
            ops[k].kind \in {"turns", "samples"} => ops[k].below = low,
         NEW n \in Nat, n + 1 <= Len(ops), NEW t, After(t, ops, n, low)
  PROVE  After(Execute(t, ops[n + 1], anything), ops, n + 1, low)
<1> DEFINE op == ops[n + 1]
           u == Execute(t, op, anything)
           row == [id |-> op.id, uuid |-> Text(op, anything), of |-> op.of]
<1>1. /\ Len(ops) \in Nat /\ n + 1 \in 1 .. Len(ops) /\ op \in Ops
      /\ op.kind = "sample" => Text(op, anything) \in Texts
      /\ op.kind \in {"turns", "samples"} => op.below = low
  BY DEF TextsFit
<1>2. /\ t \in Tables /\ IsFiniteSet(t.ids) /\ IsFiniteSet(t.rows)
      /\ t.ids \in SUBSET Nat /\ t.rows \in SUBSET Rows
  BY DEF After, Tables
<1>3. /\ u \in Tables
      /\ op.kind \in {"sample", "turn", "turns", "samples"}
      /\ op.kind = "turn" => u = [ids |-> t.ids \cup {op.id}, rows |-> t.rows]
      /\ op.kind = "turns" => u = [ids |-> {i \in t.ids : i >= op.below}, rows |-> t.rows]
      /\ op.kind = "samples" =>
            u = [ids |-> t.ids, rows |-> {r \in t.rows : r.id >= op.below}]
      /\ op.kind = "sample" => u = [ids |-> t.ids, rows |-> t.rows \cup {row}]
  <2> HIDE DEF op
  <2> QED
    BY <1>1, <1>2, OneStatement
<1>4. \A k : k \in 1 .. n + 1 <=> k \in 1 .. n \/ k = n + 1
  OBVIOUS
<1>5. \A i : StoresTurn(ops, n + 1, i)
                <=> StoresTurn(ops, n, i) \/ (op.kind = "turn" /\ op.id = i)
  BY <1>4 DEF StoresTurn
<1>6. \A r : StoresSample(ops, n + 1, r)
                <=> StoresSample(ops, n, r) \/ (op.kind = "sample" /\ op.id = r.id /\ op.of = r.of)
  BY <1>4 DEF StoresSample
<1>7. row.id = op.id /\ row.of = op.of
  OBVIOUS
<1>8. (\E k \in 1 .. n + 1 : ops[k].kind = "turns")
         <=> (\E k \in 1 .. n : ops[k].kind = "turns") \/ op.kind = "turns"
  BY <1>4
<1>9. /\ \A i \in t.ids : i \in ids \/ StoresTurn(ops, n, i)
      /\ \A r \in t.rows : r \in rows \/ StoresSample(ops, n, r)
      /\ \A i \in Nat : (i \in ids \/ StoresTurn(ops, n, i)) =>
            i \in t.ids \/ (i < low /\ \E k \in 1 .. n : ops[k].kind = "turns")
      /\ \A r \in t.rows : \A k \in 1 .. n :
            ops[k].kind = "samples" =>
               r.id >= low \/ \E j \in k + 1 .. n : ops[j].kind = "sample"
  BY DEF After
<1> HIDE DEF u, row
<1>10. IsFiniteSet(u.ids) /\ IsFiniteSet(u.rows)
  <2>1. CASE op.kind = "turn"
    <3>1. u.ids = t.ids \cup {op.id} /\ u.rows = t.rows
      BY <1>3, <2>1
    <3>2. IsFiniteSet(t.ids \cup {op.id})
      BY <1>2, FS_AddElement
    <3> QED
      BY <1>2, <3>1, <3>2
  <2>2. CASE op.kind = "turns"
    <3>1. u.ids \in SUBSET t.ids /\ u.rows = t.rows
      BY <1>3, <2>2
    <3> QED
      BY <1>2, <3>1, FS_Subset
  <2>3. CASE op.kind = "samples"
    <3>1. u.ids = t.ids /\ u.rows \in SUBSET t.rows
      BY <1>3, <2>3
    <3> QED
      BY <1>2, <3>1, FS_Subset
  <2>4. CASE op.kind = "sample"
    <3>1. u.ids = t.ids /\ u.rows = t.rows \cup {row}
      BY <1>3, <2>4
    <3>2. IsFiniteSet(t.rows \cup {row})
      BY <1>2, FS_AddElement
    <3> QED
      BY <1>2, <3>1, <3>2
  <2> QED
    BY <1>3, <2>1, <2>2, <2>3, <2>4
<1>11. \A i \in u.ids : i \in ids \/ StoresTurn(ops, n + 1, i)
  <2>1. \A i \in u.ids : i \in t.ids \/ (op.kind = "turn" /\ op.id = i)
    BY <1>3
  <2> QED
    BY <1>5, <1>9, <2>1
<1>12. \A r \in u.rows : r \in t.rows \/ (op.kind = "sample" /\ r = row)
  BY <1>3
<1>13. \A r \in u.rows : r \in rows \/ StoresSample(ops, n + 1, r)
  BY <1>6, <1>7, <1>9, <1>12
<1>14. \A i \in Nat : (i \in ids \/ StoresTurn(ops, n + 1, i)) =>
            i \in u.ids \/ (i < low /\ \E k \in 1 .. n + 1 : ops[k].kind = "turns")
  <2> SUFFICES ASSUME NEW i \in Nat, i \in ids \/ StoresTurn(ops, n + 1, i)
               PROVE  i \in u.ids \/ (i < low /\ \E k \in 1 .. n + 1 : ops[k].kind = "turns")
    OBVIOUS
  <2>1. CASE op.kind = "turn" /\ op.id = i
    BY <1>3, <2>1
  <2>2. CASE i \in ids \/ StoresTurn(ops, n, i)
    <3>1. i \in t.ids \/ (i < low /\ \E k \in 1 .. n : ops[k].kind = "turns")
      BY <1>9, <2>2
    <3>2. CASE i \in t.ids
      <4>1. CASE op.kind = "turns"
        <5>1. i \in u.ids \/ i < low
          BY <1>1, <1>3, <3>2, <4>1
        <5> QED
          BY <1>8, <4>1, <5>1
      <4>2. CASE op.kind # "turns"
        BY <1>3, <3>2, <4>2
      <4> QED
        BY <4>1, <4>2
    <3> QED
      BY <1>8, <3>1, <3>2
  <2> QED
    BY <1>5, <2>1, <2>2
<1>15. \A r \in u.rows : \A k \in 1 .. n + 1 :
            ops[k].kind = "samples" =>
               r.id >= low \/ \E j \in k + 1 .. n + 1 : ops[j].kind = "sample"
  <2> SUFFICES ASSUME NEW r \in u.rows, NEW k \in 1 .. n + 1, ops[k].kind = "samples"
               PROVE  r.id >= low \/ \E j \in k + 1 .. n + 1 : ops[j].kind = "sample"
    OBVIOUS
  <2>1. CASE k = n + 1
    <3>1. op.kind = "samples"
      BY <2>1
    <3>2. u.rows = {q \in t.rows : q.id >= op.below}
      BY <1>3, <3>1
    <3> QED
      BY <1>1, <3>1, <3>2
  <2>2. CASE k \in 1 .. n
    <3>1. CASE r \in t.rows
      <4>1. r.id >= low \/ \E j \in k + 1 .. n : ops[j].kind = "sample"
        BY <1>9, <2>2, <3>1
      <4>2. \A j \in k + 1 .. n : j \in k + 1 .. n + 1
        OBVIOUS
      <4> QED
        BY <4>1, <4>2
    <3>2. CASE op.kind = "sample"
      <4>1. n + 1 \in k + 1 .. n + 1
        BY <2>2
      <4> QED
        BY <3>2, <4>1
    <3> QED
      BY <1>12, <3>1, <3>2
  <2> QED
    BY <1>4, <2>1, <2>2
<1> QED
  BY <1>3, <1>10, <1>11, <1>13, <1>14, <1>15 DEF After, u

\* What the tables hold once all statements are executed.
LEMMA AfterAll ==
  ASSUME ids \in SUBSET Nat, rows \in SUBSET Rows, IsFiniteSet(ids), IsFiniteSet(rows),
         NEW ops \in Seq(Ops), NEW anything, TextsFit(ops, anything), NEW low \in Int,
         \A k \in 1 .. Len(ops) :
            ops[k].kind \in {"turns", "samples"} => ops[k].below = low
  PROVE  After(Executed(ops, anything), ops, Len(ops), low)
<1> DEFINE N == Len(ops)
<1>1. PICK f \in [0 .. N -> Tables] :
            /\ f[0] = [ids |-> ids, rows |-> rows]
            /\ Executed(ops, anything) = f[N]
            /\ \A n \in 1 .. N : f[n] = Execute(f[n - 1], ops[n], anything)
  BY OneByOne
<1>2. N \in Nat
  OBVIOUS
<1> DEFINE Reached == {n \in Nat : n <= N => After(f[n], ops, n, low)}
<1>3. 0 \in Reached
  <2>1. f[0] \in Tables /\ f[0].ids = ids /\ f[0].rows = rows
    BY <1>1, <1>2
  <2>2. \A i : ~ StoresTurn(ops, 0, i)
    BY DEF StoresTurn
  <2>3. \A k : k \notin 1 .. 0
    OBVIOUS
  <2>4. After(f[0], ops, 0, low)
    BY <2>1, <2>2, <2>3 DEF After
  <2> QED
    BY <2>4
<1>4. ASSUME NEW n \in Nat, n \in Reached PROVE n + 1 \in Reached
  <2> SUFFICES ASSUME n + 1 <= N PROVE After(f[n + 1], ops, n + 1, low)
    OBVIOUS
  <2>1. n + 1 \in 1 .. N /\ (n + 1) - 1 = n /\ n <= N
    BY <1>2
  <2>2. f[n + 1] = Execute(f[n], ops[n + 1], anything)
    BY <1>1, <2>1
  <2>3. After(f[n], ops, n, low)
    BY <1>4, <2>1
  <2>4. After(Execute(f[n], ops[n + 1], anything), ops, n + 1, low)
    BY <2>3, AfterOneMore
  <2> QED
    BY <2>2, <2>4
<1> HIDE DEF Reached
<1>5. N \in Reached
  BY <1>2, <1>3, <1>4, NatSetInduction
<1> QED
  BY <1>1, <1>2, <1>5 DEF Reached

-----------------------------------------------------------------------------
\* The k-th statement waits for the turn of its id.
TurnFollows(ops, k) ==
    \E j \in k + 1 .. Len(ops) : ops[j].kind = "turn" /\ ops[j].id = ops[k].id

\* Behind the k-th statement old samples are removed, after the last new one.
RemovalFollows(ops, k) ==
    \E j \in k + 1 .. Len(ops) : /\ ops[j].kind = "samples"
                                 /\ \A m \in j + 1 .. Len(ops) : ops[m].kind # "sample"

\* In such a sequence of statements every sample waits for its turn, and where
\* old turns are removed the old samples are, too.
InOrder(ops, low) ==
    /\ ops \in Seq(Ops)
    /\ \A k \in 1 .. Len(ops) :
          /\ ops[k].kind = "sample" => TurnFollows(ops, k)
          /\ ops[k].kind = "turns" => RemovalFollows(ops, k)
          /\ ops[k].kind \in {"turns", "samples"} => ops[k].below = low

\* Every statement of the one sequence is in the other.
PartOf(t, ops) == \A k \in 1 .. Len(t) : \E i \in 1 .. Len(ops) : t[k] = ops[i]

\* A sequence in order stays so without its first statements.
LEMMA TailInOrder ==
  ASSUME NEW ops, NEW low, InOrder(ops, low), NEW n \in 0 .. Len(ops),
         NEW t, t = SubSeq(ops, n + 1, Len(ops))
  PROVE  InOrder(t, low) /\ PartOf(t, ops)
<1> DEFINE L == Len(ops)
           M == L - n
<1>1. L \in Nat /\ n \in Nat /\ M \in Nat /\ ops \in Seq(Ops)
  BY DEF InOrder
<1>2. t \in Seq(Ops) /\ Len(t) = M /\ \A k \in 1 .. M : t[k] = ops[n + k]
  BY <1>1
<1>3. \A k \in 1 .. M : n + k \in 1 .. L
  BY <1>1
<1>4. \A k \in 1 .. M : \A i \in n + k + 1 .. L : i - n \in k + 1 .. M /\ t[i - n] = ops[i]
  <2> SUFFICES ASSUME NEW k \in 1 .. M, NEW i \in n + k + 1 .. L
               PROVE  i - n \in k + 1 .. M /\ t[i - n] = ops[i]
    OBVIOUS
  <2>1. i - n \in k + 1 .. M /\ i - n \in 1 .. M /\ n + (i - n) = i
    BY <1>1
  <2> QED
    BY <1>2, <2>1
<1>5. ASSUME NEW k \in 1 .. M
      PROVE  /\ t[k].kind = "sample" => TurnFollows(t, k)
             /\ t[k].kind = "turns" => RemovalFollows(t, k)
             /\ t[k].kind \in {"turns", "samples"} => t[k].below = low
  <2>1. t[k] = ops[n + k] /\ n + k \in 1 .. L
    BY <1>2, <1>3, <1>5
  <2>2. ASSUME t[k].kind = "sample" PROVE TurnFollows(t, k)
    <3>1. PICK i \in n + k + 1 .. L : ops[i].kind = "turn" /\ ops[i].id = ops[n + k].id
      BY <2>1, <2>2 DEF InOrder, TurnFollows
    <3>2. i - n \in k + 1 .. M /\ t[i - n] = ops[i]
      BY <1>4
    <3> QED
      BY <1>2, <2>1, <3>1, <3>2 DEF TurnFollows
  <2>3. ASSUME t[k].kind = "turns" PROVE RemovalFollows(t, k)
    <3>1. PICK i \in n + k + 1 .. L : /\ ops[i].kind = "samples"
                                      /\ \A m \in i + 1 .. L : ops[m].kind # "sample"
      BY <2>1, <2>3 DEF InOrder, RemovalFollows
    <3>2. i - n \in k + 1 .. M /\ t[i - n].kind = "samples"
      BY <1>4, <3>1
    <3>3. \A m \in (i - n) + 1 .. M : t[m].kind # "sample"
      <4> SUFFICES ASSUME NEW m \in (i - n) + 1 .. M PROVE t[m].kind # "sample"
        OBVIOUS
      <4>1. m \in 1 .. M /\ n + m \in i + 1 .. L
        BY <1>1
      <4> QED
        BY <1>2, <3>1, <4>1
    <3> QED
      BY <1>2, <3>2, <3>3 DEF RemovalFollows
  <2>4. t[k].kind \in {"turns", "samples"} => t[k].below = low
    BY <2>1 DEF InOrder
  <2> QED
    BY <2>2, <2>3, <2>4
<1> HIDE DEF M
<1>6. PartOf(t, ops)
  BY <1>2, <1>3 DEF PartOf
<1> QED
  BY <1>2, <1>3, <1>5, <1>6 DEF InOrder

\* Executing statements in order, no sample gets ahead of the newest turn.
LEMMA StillKnown ==
  ASSUME ids \in SUBSET Nat, rows \in SUBSET Rows, IsFiniteSet(ids), IsFiniteSet(rows),
         NewestIdKnown,
         NEW ops, NEW low \in Int, InOrder(ops, low), NEW anything, TextsFit(ops, anything),
         NEW t, t = Executed(ops, anything)
  PROVE  /\ t.ids \in SUBSET Nat /\ t.rows \in SUBSET Rows
         /\ IsFiniteSet(t.ids) /\ IsFiniteSet(t.rows)
         /\ \A i \in t.ids : i \in ids \/ StoresTurn(ops, Len(ops), i)
         /\ \A r \in t.rows : \E i \in t.ids : r.id <= i
<1> DEFINE N == Len(ops)
<1>1. ops \in Seq(Ops) /\ N \in Nat
  BY DEF InOrder
<1>2. After(t, ops, N, low)
  <2>1. \A k \in 1 .. N : ops[k].kind \in {"turns", "samples"} => ops[k].below = low
    BY DEF InOrder
  <2> QED
    BY <1>1, <2>1, AfterAll
<1>3. ASSUME NEW r \in t.rows PROVE \E i \in t.ids : r.id <= i
  <2>1. r \in Rows /\ r.id \in Nat
    BY <1>2, <1>3 DEF After, Tables, Rows
  <2>2. PICK i \in Nat : (i \in ids \/ StoresTurn(ops, N, i)) /\ r.id <= i
    <3>1. CASE r \in rows
      BY <3>1 DEF NewestIdKnown
    <3>2. CASE StoresSample(ops, N, r)
      <4>1. PICK k \in 1 .. N : ops[k].kind = "sample" /\ ops[k].id = r.id
        BY <3>2 DEF StoresSample
      <4>2. PICK j \in k + 1 .. N : ops[j].kind = "turn" /\ ops[j].id = ops[k].id
        BY <4>1 DEF InOrder, TurnFollows
      <4>3. j \in 1 .. N
        BY <1>1
      <4>4. StoresTurn(ops, N, r.id)
        BY <4>1, <4>2, <4>3 DEF StoresTurn
      <4> QED
        BY <2>1, <4>4
    <3> QED
      BY <1>2, <1>3, <3>1, <3>2 DEF After
  <2>3. i \in t.ids \/ (i < low /\ \E k \in 1 .. N : ops[k].kind = "turns")
    BY <1>2, <2>2 DEF After
  <2>4. ASSUME i < low, NEW k \in 1 .. N, ops[k].kind = "turns" PROVE FALSE
    <3>1. PICK j \in k + 1 .. N : /\ ops[j].kind = "samples"
                                  /\ \A m \in j + 1 .. N : ops[m].kind # "sample"
      BY <2>4 DEF InOrder, RemovalFollows
    <3>2. j \in 1 .. N
      BY <1>1
    <3>3. r.id >= low
      BY <1>2, <1>3, <3>1, <3>2 DEF After
    <3> QED
      BY <2>1, <2>2, <2>4, <3>3
  <2> QED
    BY <2>2, <2>3, <2>4
<1> QED
  BY <1>2, <1>3 DEF After, Tables

-----------------------------------------------------------------------------
\* The items are as the invariant has them.
LEMMA ItemsGood ==
  ASSUME Inv
  PROVE  Good(items, id)
<1>1. /\ items \in Seq(Items)
      /\ \A i \in 1 .. Len(items) : Len(items[i].mem) <= Max2(HistorySize, LoadWindow)
  BY DEF Inv, TypeOK
<1>2. \A i \in 1 .. Len(items) : Descends(items[i].mem, id)
  BY DEF Inv, NewestFirst, Descends
<1>3. \A i, j \in 1 .. Len(items) : items[i].device = items[j].device => i = j
  BY DEF Inv, ItemsInv
<1> QED
  BY <1>1, <1>2, <1>3 DEF Good

\* And the other way round.
LEMMA GoodItems ==
  ASSUME Good(items', id')
  PROVE  /\ items' \in Seq(Items)
         /\ \A i \in 1 .. Len(items') : Len(items'[i].mem) <= Max2(HistorySize, LoadWindow)
         /\ ItemsInv' /\ NewestFirst'
<1>1. ItemsInv'
  BY DEF Good, ItemsInv
<1>2. NewestFirst'
  BY DEF Good, Descends, NewestFirst
<1> QED
  BY <1>1, <1>2 DEF Good

\* No items are such items.
LEMMA NoItems ==
  ASSUME NEW n
  PROVE  Good(<<>>, n)
BY DEF Good

\* The invariant's parts about the tables, for a step that leaves them and what
\* has come of the time.
LEMMA TablesStand ==
  ASSUME Inv, UNCHANGED diskVars, now' \in Nat, now <= now'
  PROVE  TablesInv' /\ NewestIdKnown' /\ ids' \in SUBSET Nat /\ rows' \in SUBSET Rows
<1>1. ids' = ids /\ rows' = rows /\ epoch' = epoch
  BY DEF diskVars
<1>2. now \in Nat /\ epoch \in Nat /\ ids \in SUBSET Nat /\ rows \in SUBSET Rows
  BY DEF Inv, TypeOK
<1>3. \A i \in ids : i # 0 /\ Come(i)
  BY DEF Inv, TablesInv
<1>4. \A i \in ids : Come(i)'
  <2> SUFFICES ASSUME NEW i \in ids PROVE i <= 1 \/ epoch' + i <= now'
    BY DEF Come
  <2>1. i \in Nat /\ (i <= 1 \/ epoch + i <= now)
    BY <1>2, <1>3 DEF Come
  <2> QED
    BY <1>1, <1>2, <2>1
<1>5. TablesInv'
  BY <1>1, <1>3, <1>4 DEF Inv, TablesInv
<1>6. NewestIdKnown'
  BY <1>1 DEF Inv, NewestIdKnown
<1> QED
  BY <1>1, <1>2, <1>5, <1>6

-----------------------------------------------------------------------------
\* The statements about samples and turns are from the queue.
FromQueue(ops) ==
    \A k \in 1 .. Len(ops) :
        ops[k].kind \in {"sample", "turn"} => \E i \in 1 .. Len(queue) : ops[k] = queue[i]

\* At every address there is a text.
LEMMA TextsAreThere ==
  ASSUME Inv, NEW ops \in Seq(Ops), FromQueue(ops), NEW anything \in Anything
  PROVE  TextsFit(ops, anything)
<1> SUFFICES ASSUME NEW k \in 1 .. Len(ops), ops[k].kind = "sample"
             PROVE  Text(ops[k], anything) \in Texts
  BY DEF TextsFit
<1>1. PICK i \in 1 .. Len(queue) : ops[k] = queue[i]
  BY DEF FromQueue
<1>2. queue[i] \in Inserts /\ items \in Seq(Items)
  BY DEF Inv, TypeOK
<1>3. queue[i].kind = "sample"
  BY <1>1
<1>4. queue[i].slot \in 1 .. Cardinality(Device) /\ queue[i].slot <= Len(items)
  <2>1. queue[i].slot \in 1 .. Cardinality(Device)
    BY <1>2, <1>3 DEF Inserts
  <2>2. queue[i].slot <= Len(items)
    BY <1>3 DEF Inv, QueueInv
  <2> QED
    BY <2>1, <2>2
<1>5. queue[i].slot \in 1 .. Len(items)
  BY <1>2, <1>4, Constants
<1>6. items[queue[i].slot].device \in Device
  BY <1>2, <1>5, ItemsTyped
<1>7. anything[queue[i].slot] \in Texts
  BY <1>4 DEF Anything
<1> QED
  BY <1>1, <1>6, <1>7 DEF Text, Texts

\* What the tables hold when statements of the queue were executed.
LEMMA RunKeeps ==
  ASSUME Inv, up, NEW ops, NEW low \in Int, InOrder(ops, low), FromQueue(ops),
         NEW anything \in Anything, NEW t, t = Executed(ops, anything)
  PROVE  /\ t.ids \in SUBSET Nat /\ t.rows \in SUBSET Rows
         /\ IsFiniteSet(t.ids) /\ IsFiniteSet(t.rows)
         /\ \A i \in t.ids : i # 0 /\ Come(i) /\ i <= id
         /\ \A r \in t.rows : \E i \in t.ids : r.id <= i
<1>1. /\ ids \in SUBSET Nat /\ rows \in SUBSET Rows
      /\ IsFiniteSet(ids) /\ IsFiniteSet(rows) /\ NewestIdKnown
      /\ id \in Nat /\ epoch \in Nat /\ now \in Nat
  BY DEF Inv, TypeOK, TablesInv
<1>2. ops \in Seq(Ops)
  BY DEF InOrder
<1>3. TextsFit(ops, anything)
  BY <1>2, TextsAreThere
<1>4. /\ t.ids \in SUBSET Nat /\ t.rows \in SUBSET Rows
      /\ IsFiniteSet(t.ids) /\ IsFiniteSet(t.rows)
      /\ \A i \in t.ids : i \in ids \/ StoresTurn(ops, Len(ops), i)
      /\ \A r \in t.rows : \E i \in t.ids : r.id <= i
  BY <1>1, <1>3, StillKnown
<1>5. ASSUME NEW i \in t.ids PROVE i # 0 /\ Come(i) /\ i <= id
  <2>1. i \in Nat
    BY <1>4
  <2>2. CASE i \in ids
    BY <2>2 DEF Inv, TablesInv, CounterInv
  <2>3. CASE StoresTurn(ops, Len(ops), i)
    <3>1. PICK k \in 1 .. Len(ops) : ops[k].kind = "turn" /\ ops[k].id = i
      BY <2>3 DEF StoresTurn
    <3>2. PICK j \in 1 .. Len(queue) : ops[k] = queue[j]
      BY <3>1 DEF FromQueue
    <3>3. i # 0 /\ i <= id /\ Come(id)
      BY <3>1, <3>2 DEF Inv, CounterInv
    <3>4. Come(i)
      BY <1>1, <2>1, <3>3 DEF Come
    <3> QED
      BY <3>3, <3>4
  <2> QED
    BY <1>4, <1>5, <2>2, <2>3
<1> QED
  BY <1>4, <1>5

\* What is queued is in order.
LEMMA QueueInOrder ==
  ASSUME Inv
  PROVE  InOrder(queue, 0) /\ FromQueue(queue)
<1>1. queue \in Seq(Ops)
  <2>1. queue \in Seq(Inserts) /\ Inserts \subseteq Ops
    BY DEF Inv, TypeOK, Ops
  <2> HIDE DEF Ops
  <2> QED
    BY <2>1
<1>2. \A k \in 1 .. Len(queue) : queue[k].kind \in {"sample", "turn"}
  BY DEF Inv, TypeOK, Inserts
<1>3. \A k \in 1 .. Len(queue) : queue[k].kind = "sample" => TurnFollows(queue, k)
  BY DEF Inv, QueueInv, TurnFollows
<1>4. InOrder(queue, 0)
  BY <1>1, <1>2, <1>3 DEF InOrder
<1> QED
  BY <1>4 DEF FromQueue

\* So it is with the removals behind it.
LEMMA FlushInOrder ==
  ASSUME Inv
  PROVE  /\ InOrder(queue \o RemoveOldSamples, id - Keep)
         /\ FromQueue(queue \o RemoveOldSamples)
         /\ Len(queue \o RemoveOldSamples) = Len(queue) + 2
<1> DEFINE L == Len(queue)
           low == id - Keep
           a == Delete("turns", low)
           b == Delete("samples", low)
           all == queue \o RemoveOldSamples
<1>0. id \in Nat /\ Keep \in Nat /\ low \in Int
  BY Constants DEF Inv, TypeOK
<1>1. InOrder(queue, 0) /\ queue \in Seq(Ops) /\ L \in Nat
  BY QueueInOrder DEF InOrder
<1>2. /\ a \in Ops /\ a.kind = "turns" /\ a.below = low
      /\ b \in Ops /\ b.kind = "samples" /\ b.below = low
  BY <1>0 DEF Delete, Ops, Deletes
<1>3. RemoveOldSamples = <<a, b>>
  BY DEF RemoveOldSamples
<1> HIDE DEF a, b, low
<1>4. <<a, b>> \in Seq(Ops) /\ Len(<<a, b>>) = 2 /\ <<a, b>>[1] = a /\ <<a, b>>[2] = b
  BY <1>2
<1> DEFINE two == <<a, b>>
<1> HIDE DEF two
<1>5. /\ all \in Seq(Ops) /\ Len(all) = L + 2
      /\ \A k \in 1 .. L : all[k] = queue[k]
      /\ all[L + 1] = a /\ all[L + 2] = b
  <2>1. all = queue \o two /\ two \in Seq(Ops) /\ Len(two) = 2 /\ two[1] = a /\ two[2] = b
    BY <1>3, <1>4 DEF two
  <2> HIDE DEF all
  <2>2. /\ Len(queue \o two) = L + 2 /\ queue \o two \in Seq(Ops)
        /\ \A k \in 1 .. L : (queue \o two)[k] = queue[k]
        /\ \A k \in 1 .. 2 : (queue \o two)[L + k] = two[k]
    <3>1. queue \in Seq(Ops) /\ two \in Seq(Ops) /\ Len(two) = 2
      BY <1>1, <2>1
    <3> HIDE DEF two
    <3> QED
      BY <3>1, ConcatProperties, SMTT(60)
  <2> QED
    BY <2>1, <2>2
<1> HIDE DEF all
<1>6. \A k \in 1 .. L + 2 : k \in 1 .. L \/ k = L + 1 \/ k = L + 2
  BY <1>1
<1>7. \A k \in 1 .. L : queue[k].kind \in {"sample", "turn"}
  BY DEF Inv, TypeOK, Inserts
<1>8. ASSUME NEW k \in 1 .. L + 2, all[k].kind = "sample" PROVE TurnFollows(all, k)
  <2>1. k \in 1 .. L /\ queue[k].kind = "sample"
    BY <1>2, <1>5, <1>6, <1>8
  <2>2. PICK j \in k + 1 .. L : queue[j].kind = "turn" /\ queue[j].id = queue[k].id
    BY <1>1, <2>1 DEF InOrder, TurnFollows
  <2>3. j \in 1 .. L /\ j \in k + 1 .. L + 2
    BY <1>1, <2>1
  <2> QED
    BY <1>5, <2>1, <2>2, <2>3 DEF TurnFollows
<1>9. ASSUME NEW k \in 1 .. L + 2, all[k].kind = "turns" PROVE RemovalFollows(all, k)
  <2>1. k = L + 1
    BY <1>2, <1>5, <1>6, <1>7, <1>9
  <2>2. L + 2 \in k + 1 .. L + 2 /\ \A m \in (L + 2) + 1 .. L + 2 : FALSE
    BY <1>1, <2>1
  <2> QED
    BY <1>2, <1>5, <2>2 DEF RemovalFollows
<1>10. \A k \in 1 .. L + 2 : all[k].kind \in {"turns", "samples"} => all[k].below = low
  BY <1>2, <1>5, <1>6, <1>7
<1>11. InOrder(all, low)
  BY <1>5, <1>8, <1>9, <1>10 DEF InOrder
<1>12. FromQueue(all)
  BY <1>2, <1>5, <1>6 DEF FromQueue
<1> QED
  BY <1>5, <1>11, <1>12 DEF all, low

\* The tables, when statements of the queue were executed.
LEMMA RanTables ==
  ASSUME Inv, up, NEW ops, NEW low \in Int, InOrder(ops, low), FromQueue(ops),
         NEW anything \in Anything, ExecuteAll(ops, anything), UNCHANGED <<now, epoch>>
  PROVE  /\ TablesInv' /\ NewestIdKnown' /\ ids' \in SUBSET Nat /\ rows' \in SUBSET Rows
         /\ \A i \in ids' : i <= id
<1> DEFINE t == Executed(ops, anything)
<1>1. ids' = t.ids /\ rows' = t.rows
  BY DEF ExecuteAll
<1>2. /\ t.ids \in SUBSET Nat /\ t.rows \in SUBSET Rows
      /\ IsFiniteSet(t.ids) /\ IsFiniteSet(t.rows)
      /\ \A i \in t.ids : i # 0 /\ Come(i) /\ i <= id
      /\ \A r \in t.rows : \E i \in t.ids : r.id <= i
  BY RunKeeps
<1> HIDE DEF t
<1>3. \A i \in t.ids : Come(i)'
  BY <1>2 DEF Come
<1>4. TablesInv'
  BY <1>1, <1>2, <1>3 DEF TablesInv
<1>5. NewestIdKnown'
  BY <1>1, <1>2 DEF NewestIdKnown
<1> QED
  BY <1>1, <1>2, <1>4, <1>5

\* The end of the process leaves nothing in memory that could be wrong.
LEMMA DownKeeps ==
  ASSUME Inv, Down, UNCHANGED <<now, epoch>>,
         TablesInv', NewestIdKnown', ids' \in SUBSET Nat, rows' \in SUBSET Rows
  PROVE  Inv'
<1>1. /\ up' = FALSE /\ items' = <<>> /\ buffer' = 0 /\ session' = 0
      /\ known' = 0 /\ id' = 1 /\ queue' = <<>>
  BY DEF Down
<1>2. Good(items', id')
  BY <1>1, NoItems
<1>3. ItemsInv' /\ NewestFirst'
  BY <1>2, GoodItems
<1>4. now' \in 0 .. MaxTime /\ epoch' \in Nat
  BY DEF Inv, TypeOK
<1>5. /\ items' \in Seq(Items)
      /\ \A i \in 1 .. Len(items') : Len(items'[i].mem) <= Max2(HistorySize, LoadWindow)
  BY <1>2, GoodItems
<1>6. queue' \in Seq(Inserts) /\ \A i \in 1 .. Len(queue') : FALSE
  BY <1>1
<1>7. TypeOK'
  <2>1. up' \in BOOLEAN
    BY <1>1
  <2>2. buffer' = 0 /\ session' = 0 /\ known' = 0 /\ id' = 1 /\ epoch' \in Nat
    BY <1>1, <1>4
  <2>3. {buffer', session', known', id', epoch'} \subseteq Nat
    BY <2>2
  <2> QED
    BY <1>4, <1>5, <1>6, <2>1, <2>3 DEF TypeOK
<1>8. CounterInv' /\ DownInv'
  BY <1>1 DEF CounterInv, DownInv
<1>9. QueueInv' /\ OnceQueued'
  BY <1>6 DEF QueueInv, OnceQueued
<1> QED
  BY <1>3, <1>7, <1>8, <1>9 DEF Inv

\* SIGTERM
LEMMA TerminateKeeps ==
  ASSUME Inv, NEW anything \in Anything, Terminate(anything)
  PROVE  Inv'
<1>1. up /\ ExecuteAll(queue, anything) /\ Down /\ UNCHANGED <<now, epoch>>
  BY DEF Terminate
<1>2. InOrder(queue, 0) /\ FromQueue(queue)
  BY QueueInOrder
<1>3. TablesInv' /\ NewestIdKnown' /\ ids' \in SUBSET Nat /\ rows' \in SUBSET Rows
  BY <1>1, <1>2, RanTables
<1> QED
  BY <1>1, <1>3, DownKeeps

\* A crash
LEMMA CrashKeeps ==
  ASSUME Inv, Crash
  PROVE  Inv'
<1>1. Down /\ UNCHANGED <<now, epoch>> /\ UNCHANGED diskVars
  BY DEF Crash, diskVars
<1>2. now' \in Nat /\ now <= now'
  BY <1>1 DEF Inv, TypeOK
<1>3. TablesInv' /\ NewestIdKnown' /\ ids' \in SUBSET Nat /\ rows' \in SUBSET Rows
  BY <1>1, <1>2, TablesStand
<1> QED
  BY <1>1, <1>3, DownKeeps

\* What a step leaves that leaves the memory.
LEMMA MemoryStands ==
  ASSUME Inv, UNCHANGED memoryVars
  PROVE  /\ ItemsInv' /\ NewestFirst' /\ QueueInv' /\ OnceQueued' /\ DownInv'
         /\ items' \in Seq(Items)
         /\ \A i \in 1 .. Len(items') : Len(items'[i].mem) <= Max2(HistorySize, LoadWindow)
<1>1. /\ up' = up /\ items' = items /\ queue' = queue /\ id' = id
  BY DEF memoryVars
<1>2. ItemsInv' /\ NewestFirst' /\ DownInv'
  BY <1>1 DEF Inv, ItemsInv, NewestFirst, DownInv
<1>3. QueueInv' /\ OnceQueued'
  BY <1>1 DEF Inv, QueueInv, OnceQueued
<1> QED
  BY <1>1, <1>2, <1>3 DEF Inv, TypeOK

\* The machine without the server
LEMMA WaitKeeps ==
  ASSUME Inv, Wait
  PROVE  Inv'
<1>1. ~up /\ now < MaxTime /\ now' = now + 1 /\ UNCHANGED memoryVars /\ UNCHANGED diskVars
  BY DEF Wait, diskVars, memoryVars
<1>2. now \in 0 .. MaxTime /\ now' \in 0 .. MaxTime /\ now' \in Nat /\ now <= now'
  BY <1>1, Constants DEF Inv, TypeOK
<1>3. TablesInv' /\ NewestIdKnown' /\ ids' \in SUBSET Nat /\ rows' \in SUBSET Rows
  BY <1>1, <1>2, TablesStand
<1>4. /\ ItemsInv' /\ NewestFirst' /\ QueueInv' /\ OnceQueued' /\ DownInv'
      /\ items' \in Seq(Items)
      /\ \A i \in 1 .. Len(items') : Len(items'[i].mem) <= Max2(HistorySize, LoadWindow)
  BY <1>1, MemoryStands
<1>5. TypeOK'
  BY <1>1, <1>2, <1>3, <1>4 DEF Inv, TypeOK, memoryVars, diskVars
<1>6. CounterInv'
  BY <1>1 DEF CounterInv, memoryVars
<1> QED
  BY <1>3, <1>4, <1>5, <1>6 DEF Inv

\* A step of nobody
LEMMA StutterKeeps ==
  ASSUME Inv, UNCHANGED vars
  PROVE  Inv'
<1>1. UNCHANGED memoryVars /\ UNCHANGED diskVars /\ now' = now
  BY DEF vars
<1>2. now \in 0 .. MaxTime /\ now' \in Nat /\ now <= now'
  BY <1>1 DEF Inv, TypeOK
<1>3. TablesInv' /\ NewestIdKnown' /\ ids' \in SUBSET Nat /\ rows' \in SUBSET Rows
  BY <1>1, <1>2, TablesStand
<1>4. /\ ItemsInv' /\ NewestFirst' /\ QueueInv' /\ OnceQueued' /\ DownInv'
      /\ items' \in Seq(Items)
      /\ \A i \in 1 .. Len(items') : Len(items'[i].mem) <= Max2(HistorySize, LoadWindow)
  BY <1>1, MemoryStands
<1>5. TypeOK'
  BY <1>1, <1>2, <1>3, <1>4 DEF Inv, TypeOK, memoryVars, diskVars
<1>6. CounterInv'
  BY <1>1 DEF Inv, CounterInv, memoryVars, diskVars, Come
<1> QED
  BY <1>3, <1>4, <1>5, <1>6 DEF Inv

\* A flush of the queue, of which the first n statements are refused
LEMMA FlushKeeps ==
  ASSUME Inv, NEW n \in 0 .. Len(queue) + 2, NEW anything \in Anything, Flush(n, anything)
  PROVE  Inv'
<1> DEFINE all == queue \o RemoveOldSamples
           ops == SubSeq(all, n + 1, Len(all))
           low == id - Keep
<1>1. /\ up /\ queue' = <<>> /\ ExecuteAll(ops, anything)
      /\ UNCHANGED <<now, up, items, buffer, session, known, id, epoch>>
  BY DEF Flush
<1>2. low \in Int
  BY Constants DEF Inv, TypeOK
<1>3. InOrder(all, low) /\ FromQueue(all) /\ Len(all) = Len(queue) + 2
  BY FlushInOrder
<1> HIDE DEF all, low
<1>4. n \in 0 .. Len(all)
  BY <1>3
<1>5. InOrder(ops, low) /\ PartOf(ops, all)
  <2>1. ops = SubSeq(all, n + 1, Len(all)) /\ InOrder(all, low) /\ n \in 0 .. Len(all)
    BY <1>3, <1>4
  <2> HIDE DEF ops
  <2> QED
    BY <2>1, TailInOrder
<1>6. FromQueue(ops)
  <2>1. \A k \in 1 .. Len(ops) : \E i \in 1 .. Len(all) : ops[k] = all[i]
    BY <1>5 DEF PartOf
  <2> HIDE DEF ops
  <2> QED
    BY <1>3, <2>1 DEF FromQueue
<1> HIDE DEF ops
<1>7. /\ TablesInv' /\ NewestIdKnown' /\ ids' \in SUBSET Nat /\ rows' \in SUBSET Rows
      /\ \A i \in ids' : i <= id
  BY <1>1, <1>2, <1>5, <1>6, RanTables
<1>8. queue' \in Seq(Inserts) /\ \A i \in 1 .. Len(queue') : FALSE
  BY <1>1
<1>9. TypeOK'
  BY <1>1, <1>7, <1>8 DEF Inv, TypeOK
<1>10. Come(id)'
  BY <1>1 DEF Inv, CounterInv, Come
<1>11. CounterInv'
  BY <1>1, <1>7, <1>8, <1>10 DEF CounterInv
<1>12. QueueInv' /\ OnceQueued'
  BY <1>8 DEF QueueInv, OnceQueued
<1>13. ItemsInv' /\ NewestFirst'
  BY <1>1 DEF Inv, ItemsInv, NewestFirst
<1>14. DownInv'
  BY <1>1 DEF DownInv
<1> QED
  BY <1>7, <1>9, <1>11, <1>12, <1>13, <1>14 DEF Inv

-----------------------------------------------------------------------------
\* What a second makes of the items and of the queue.
LEMMA SecondDoes ==
  ASSUME Inv, NEW listed \in Listings, NEW moved \in BOOLEAN, Second(listed, moved),
         NEW made, made = Made(listed, known),
         NEW its, its = Sampled(made \o items, listed, now + 1)
  PROVE  /\ up /\ up' /\ now \in Nat /\ now + 1 \in 0 .. MaxTime /\ now' = now + 1
         /\ Good(made, id) /\ Good(made \o items, id) /\ Good(its, id)
         /\ Len(made \o items) = Len(made) + Len(items) /\ Len(its) = Len(made) + Len(items)
         /\ {buffer', session', known', epoch'} \subseteq Nat
         /\ UNCHANGED <<up, known>> /\ UNCHANGED diskVars
         /\ \/ /\ epoch + id <= now /\ id' = id + 1
               /\ items' = Turned(its, id + 1, now + 1)
               /\ queue' = queue \o TurnInserts(its, id + 1, now + 1, buffer')
            \/ id' = id /\ items' = its /\ queue' = queue
<1>1. /\ up /\ now < MaxTime /\ now' = now + 1 /\ Insert(made, moved)
      /\ UNCHANGED <<up, known>> /\ UNCHANGED diskVars
      /\ \/ /\ epoch + id <= now /\ id' = id + 1
            /\ items' = Turned(its, id + 1, now + 1)
            /\ queue' = queue \o TurnInserts(its, id + 1, now + 1, buffer')
         \/ id' = id /\ items' = its /\ queue' = queue
  BY DEF Second, diskVars
<1>2. /\ now \in 0 .. MaxTime /\ rows \in SUBSET Rows /\ IsFiniteSet(rows)
      /\ items \in Seq(Items) /\ id \in Nat /\ known \in Nat /\ epoch \in Nat
      /\ buffer \in Nat /\ session \in Nat /\ ids \in SUBSET Nat
  BY DEF Inv, TypeOK, TablesInv
<1>3. \A r \in rows : r.id <= id
  <2> SUFFICES ASSUME NEW r \in rows PROVE r.id <= id
    OBVIOUS
  <2>1. PICK i \in ids : r.id <= i
    BY DEF Inv, NewestIdKnown
  <2>2. i <= id
    BY <1>1 DEF Inv, CounterInv
  <2>3. r.id \in Nat /\ i \in Nat
    BY <1>2 DEF Rows
  <2> QED
    BY <1>2, <2>1, <2>2, <2>3
<1>4. listed \in Seq(Device) /\ Once(listed)
  BY Listed
<1>5. /\ Good(made, id)
      /\ \A i \in 1 .. Len(made) : made[i].device \in Device \ Devices(items)
  BY <1>2, <1>3, <1>4, MadeOf
<1>6. Good(items, id)
  BY ItemsGood
<1>7. Good(made \o items, id) /\ Len(made \o items) = Len(made) + Len(items)
  BY <1>5, <1>6, InFront
<1>8. now + 1 \in 0 .. MaxTime /\ now + 1 \in -1 .. MaxTime
  BY <1>1, <1>2, Constants
<1>9. Good(its, id) /\ Len(its) = Len(made \o items)
  BY <1>7, <1>8, SampledKeeps
<1>10. Len(made) \in Nat
  BY <1>5 DEF Good
<1>11. session' \in Nat /\ buffer' \in Nat /\ known' \in Nat /\ epoch' \in Nat
  BY <1>1, <1>2, <1>10 DEF Insert, diskVars
<1> QED
  BY <1>1, <1>2, <1>5, <1>7, <1>8, <1>9, <1>11

\* What is queued by a turn keeps the queue as it should be.
LEMMA TurnQueued ==
  ASSUME Inv, up, NEW its, Len(its) \in Nat, Len(items) <= Len(its),
         NEW t, TurnStores(t, its, id + 1), NEW q, q = queue \o t
  PROVE  /\ q \in Seq(Inserts)
         /\ \A i \in 1 .. Len(q) :
               /\ q[i].id # 0 /\ q[i].id <= id + 1
               /\ \A j \in ids : j < q[i].id
               /\ q[i].kind = "sample" => q[i].slot <= Len(its) /\ TurnFollows(q, i)
         /\ \A i, j \in 1 .. Len(q) :
               /\ q[i].kind = "sample" /\ q[j].kind = "sample"
               /\ q[i].id = q[j].id /\ q[i].of = q[j].of
               => i = j
<1> DEFINE L == Len(queue)
           M == Len(t)
<1>1. /\ queue \in Seq(Inserts) /\ t \in Seq(Inserts) /\ L \in Nat /\ M \in Nat /\ M # 0
      /\ id \in Nat /\ ids \in SUBSET Nat /\ items \in Seq(Items) /\ Len(items) \in Nat
  BY DEF Inv, TypeOK, TurnStores
<1>2. /\ q \in Seq(Inserts) /\ Len(q) = L + M
      /\ \A i \in 1 .. L : q[i] = queue[i]
      /\ \A i \in 1 .. M : q[L + i] = t[i]
  <2>1. queue \in Seq(Inserts) /\ t \in Seq(Inserts)
    BY <1>1
  <2> QED
    BY <2>1, ConcatProperties, SMTT(30)
<1>3. \A i \in 1 .. L + M : (i \in 1 .. L /\ q[i] = queue[i])
                            \/ (i - L \in 1 .. M /\ q[i] = t[i - L])
  <2> SUFFICES ASSUME NEW i \in 1 .. L + M, i \notin 1 .. L
               PROVE  i - L \in 1 .. M /\ q[i] = t[i - L]
    BY <1>2
  <2>1. i - L \in 1 .. M /\ L + (i - L) = i
    BY <1>1
  <2> QED
    BY <1>2, <2>1
<1>4. \A i \in 1 .. L : /\ queue[i].id # 0 /\ queue[i].id <= id
                        /\ \A j \in ids : j < queue[i].id
                        /\ queue[i].id \in Nat
  BY DEF Inv, CounterInv, TypeOK, Inserts
<1>5. \A i \in 1 .. M : t[i].id = id + 1
  BY DEF TurnStores
<1>6. \A j \in ids : j <= id
  BY DEF Inv, CounterInv
<1>7. ASSUME NEW i \in 1 .. L + M
      PROVE  /\ q[i].id # 0 /\ q[i].id <= id + 1
             /\ \A j \in ids : j < q[i].id
  <2>1. CASE i \in 1 .. L /\ q[i] = queue[i]
    BY <1>1, <1>4, <2>1
  <2>2. CASE i - L \in 1 .. M /\ q[i] = t[i - L]
    <3>1. q[i].id = id + 1
      BY <1>5, <2>2
    <3> QED
      BY <1>1, <1>6, <3>1
  <2> QED
    BY <1>3, <2>1, <2>2
<1>8. ASSUME NEW i \in 1 .. L + M, q[i].kind = "sample"
      PROVE  q[i].slot <= Len(its) /\ TurnFollows(q, i)
  <2>1. CASE i \in 1 .. L /\ q[i] = queue[i]
    <3>1. /\ queue[i].slot <= Len(items)
          /\ \E j \in i + 1 .. L : queue[j].kind = "turn" /\ queue[j].id = queue[i].id
      BY <1>8, <2>1 DEF Inv, QueueInv
    <3>2. PICK j \in i + 1 .. L : queue[j].kind = "turn" /\ queue[j].id = queue[i].id
      BY <3>1
    <3>3. j \in 1 .. L /\ j \in i + 1 .. L + M
      BY <1>1, <2>1
    <3>4. TurnFollows(q, i)
      BY <1>2, <2>1, <3>2, <3>3 DEF TurnFollows
    <3>5. queue[i].slot \in Nat
      <4>1. queue[i] \in Inserts /\ queue[i].kind = "sample"
        BY <1>1, <1>8, <2>1
      <4>2. queue[i].slot \in 1 .. Cardinality(Device)
        BY <4>1 DEF Inserts
      <4> QED
        BY <4>2, Constants
    <3> QED
      BY <1>1, <2>1, <3>1, <3>4, <3>5
  <2>2. CASE i - L \in 1 .. M /\ q[i] = t[i - L]
    <3>1. t[i - L].slot <= Len(its) /\ t[M].kind = "turn" /\ t[i - L].id = t[M].id
      BY <1>1, <1>8, <2>2 DEF TurnStores
    <3>2. i - L # M
      BY <1>8, <2>2, <3>1
    <3>3. M \in 1 .. M /\ L + M \in i + 1 .. L + M
      BY <1>1, <2>2, <3>2
    <3>4. q[L + M] = t[M]
      BY <1>2, <3>3
    <3>5. TurnFollows(q, i)
      BY <1>2, <2>2, <3>1, <3>3, <3>4 DEF TurnFollows
    <3> QED
      BY <2>2, <3>1, <3>5
  <2> QED
    BY <1>3, <2>1, <2>2
<1>9. ASSUME NEW i \in 1 .. L + M, NEW j \in 1 .. L + M,
             q[i].kind = "sample", q[j].kind = "sample",
             q[i].id = q[j].id, q[i].of = q[j].of
      PROVE  i = j
  <2>1. CASE /\ i \in 1 .. L /\ q[i] = queue[i]
             /\ j \in 1 .. L /\ q[j] = queue[j]
    BY <1>9, <2>1 DEF Inv, OnceQueued
  <2>2. CASE /\ i - L \in 1 .. M /\ q[i] = t[i - L]
             /\ j - L \in 1 .. M /\ q[j] = t[j - L]
    <3>1. i - L = j - L
      BY <1>9, <2>2 DEF TurnStores
    <3> QED
      BY <1>1, <3>1
  <2>3. ASSUME NEW k \in 1 .. L, NEW m \in 1 .. M, queue[k].id = t[m].id
        PROVE  FALSE
    <3>1. queue[k].id <= id /\ queue[k].id = id + 1
      BY <1>4, <1>5, <2>3
    <3> QED
      BY <1>1, <3>1
  <2> QED
    BY <1>3, <1>9, <2>1, <2>2, <2>3
<1> HIDE DEF L, M
<1> QED
  BY <1>2, <1>7, <1>8, <1>9

\* A second of the statistics thread
LEMMA SecondKeeps ==
  ASSUME Inv, NEW listed \in Listings, NEW moved \in BOOLEAN, Second(listed, moved)
  PROVE  Inv'
<1> DEFINE made == Made(listed, known)
           its == Sampled(made \o items, listed, now + 1)
           t == TurnInserts(its, id + 1, now + 1, buffer')
<1>1. /\ up /\ up' /\ now \in Nat /\ now + 1 \in 0 .. MaxTime /\ now' = now + 1
      /\ Good(made, id) /\ Good(its, id) /\ Len(its) = Len(made) + Len(items)
      /\ {buffer', session', known', epoch'} \subseteq Nat
      /\ UNCHANGED <<up, known>> /\ UNCHANGED diskVars
      /\ \/ /\ epoch + id <= now /\ id' = id + 1
            /\ items' = Turned(its, id + 1, now + 1)
            /\ queue' = queue \o t
         \/ id' = id /\ items' = its /\ queue' = queue
  BY SecondDoes
<1>2. Len(made) \in Nat /\ Len(items) \in Nat /\ id \in Nat /\ epoch \in Nat /\ ids \in SUBSET Nat
      /\ queue \in Seq(Inserts)
  BY <1>1 DEF Good, Inv, TypeOK
<1> HIDE DEF made, its
<1>3. Len(its) \in Nat /\ Len(items) <= Len(its)
  BY <1>1, <1>2
<1>4. TablesInv' /\ NewestIdKnown' /\ ids' \in SUBSET Nat /\ rows' \in SUBSET Rows
  <2>1. now' \in Nat /\ now <= now'
    BY <1>1
  <2> QED
    BY <1>1, <2>1, TablesStand
<1>5. ids' = ids /\ epoch' = epoch /\ known' = known
  BY <1>1 DEF diskVars
<1>6. DownInv'
  BY <1>1 DEF DownInv
<1>7. CASE /\ epoch + id <= now /\ id' = id + 1
           /\ items' = Turned(its, id + 1, now + 1)
           /\ queue' = queue \o t
  <2>1. Good(items', id') /\ Len(items') = Len(its)
    BY <1>1, <1>2, <1>7, TurnedKeeps
  <2>2. TurnStores(t, its, id + 1)
    <3>1. buffer' \in Nat /\ id + 1 \in Nat
      BY <1>1, <1>2
    <3> QED
      BY <1>1, <3>1, TurnStored
  <2> HIDE DEF t
  <2>3. /\ queue' \in Seq(Inserts)
        /\ \A i \in 1 .. Len(queue') :
              /\ queue'[i].id # 0 /\ queue'[i].id <= id + 1
              /\ \A j \in ids : j < queue'[i].id
              /\ queue'[i].kind = "sample" => queue'[i].slot <= Len(its) /\ TurnFollows(queue', i)
        /\ \A i, j \in 1 .. Len(queue') :
              /\ queue'[i].kind = "sample" /\ queue'[j].kind = "sample"
              /\ queue'[i].id = queue'[j].id /\ queue'[i].of = queue'[j].of
              => i = j
    BY <1>1, <1>3, <1>7, <2>2, TurnQueued, ZenonT(30)
  <2>4. ItemsInv' /\ NewestFirst' /\ items' \in Seq(Items)
        /\ \A i \in 1 .. Len(items') : Len(items'[i].mem) <= Max2(HistorySize, LoadWindow)
    BY <2>1, GoodItems
  <2>5. TypeOK'
    <3>1. id' \in Nat /\ up' \in BOOLEAN /\ now' \in 0 .. MaxTime
      BY <1>1, <1>2, <1>7 DEF Inv, TypeOK
    <3>2. {buffer', session', known', id', epoch'} \subseteq Nat
      BY <1>1, <3>1
    <3> QED
      BY <1>4, <2>3, <2>4, <3>1, <3>2 DEF TypeOK
  <2>6. QueueInv'
    BY <2>1, <2>3 DEF QueueInv, TurnFollows
  <2>7. OnceQueued'
    BY <2>3 DEF OnceQueued
  <2>8. Come(id)'
    BY <1>1, <1>2, <1>5, <1>7 DEF Come
  <2>9. CounterInv'
    <3>1. \A i \in ids : i <= id
      BY <1>1 DEF Inv, CounterInv
    <3>2. \A i \in ids' : i <= id'
      BY <1>2, <1>5, <1>7, <3>1
    <3> QED
      BY <1>5, <1>7, <2>3, <2>8, <3>2 DEF CounterInv
  <2> QED
    BY <1>4, <1>6, <2>4, <2>5, <2>6, <2>7, <2>9 DEF Inv
<1>8. CASE id' = id /\ items' = its /\ queue' = queue
  <2>1. Good(items', id')
    BY <1>1, <1>8
  <2>2. ItemsInv' /\ NewestFirst' /\ items' \in Seq(Items)
        /\ \A i \in 1 .. Len(items') : Len(items'[i].mem) <= Max2(HistorySize, LoadWindow)
    BY <2>1, GoodItems
  <2>3. TypeOK'
    <3>1. id' \in Nat /\ up' \in BOOLEAN /\ now' \in 0 .. MaxTime /\ queue' \in Seq(Inserts)
      BY <1>1, <1>2, <1>8 DEF Inv, TypeOK
    <3>2. {buffer', session', known', id', epoch'} \subseteq Nat
      BY <1>1, <3>1
    <3> QED
      BY <1>4, <2>2, <3>1, <3>2 DEF TypeOK
  <2>4. QueueInv'
    <3> SUFFICES ASSUME NEW i \in 1 .. Len(queue), queue[i].kind = "sample"
                 PROVE  /\ queue[i].slot <= Len(its)
                        /\ \E j \in i + 1 .. Len(queue) :
                              queue[j].kind = "turn" /\ queue[j].id = queue[i].id
      BY <1>8 DEF QueueInv
    <3>1. /\ queue[i].slot <= Len(items)
          /\ \E j \in i + 1 .. Len(queue) :
                queue[j].kind = "turn" /\ queue[j].id = queue[i].id
      BY DEF Inv, QueueInv
    <3>2. queue[i].slot \in Nat
      <4>1. queue[i] \in Inserts
        BY <1>2
      <4>2. queue[i].slot \in 1 .. Cardinality(Device)
        BY <4>1 DEF Inserts
      <4> QED
        BY <4>2, Constants
    <3> QED
      BY <1>2, <1>3, <3>1, <3>2
  <2>5. OnceQueued'
    BY <1>8 DEF Inv, OnceQueued
  <2>6. Come(id)'
    <3>1. Come(id)
      BY <1>1 DEF Inv, CounterInv
    <3> QED
      BY <1>1, <1>2, <1>5, <1>8, <3>1 DEF Come
  <2>7. CounterInv'
    BY <1>1, <1>5, <1>8, <2>6 DEF Inv, CounterInv
  <2> QED
    BY <1>4, <1>6, <2>2, <2>3, <2>4, <2>5, <2>7 DEF Inv
<1> QED
  BY <1>1, <1>7, <1>8

-----------------------------------------------------------------------------
\* What the start takes for the newest turn is one that is stored.
LEMMA NewestIsStored ==
  ASSUME ids \in SUBSET Nat, IsFiniteSet(ids), ids # {}
  PROVE  NewestRead \in ids
<1> DEFINE newest == CHOOSE i \in ids : \A j \in ids : j <= i
           window == {i \in ids : i >= newest - LoadWindow}
           others == window \ {newest}
<1>1. \E i \in ids : \A j \in ids : j <= i
  BY Greatest
<1>2. newest \in ids
  BY <1>1
<1> HIDE DEF newest
<1>3. window \in SUBSET ids
  OBVIOUS
<1> HIDE DEF window
<1>4. others \in SUBSET ids /\ others \in SUBSET Nat /\ IsFiniteSet(others)
  <2>1. others \in SUBSET ids
    BY <1>3
  <2> HIDE DEF others
  <2> QED
    BY <2>1, FS_Subset
<1>5. CASE Cardinality(window) > LoadWindow
  <2>1. others # {}
    <3> SUFFICES ASSUME others = {} PROVE FALSE
      OBVIOUS
    <3>1. window \in SUBSET {newest}
      OBVIOUS
    <3>2. IsFiniteSet({newest}) /\ Cardinality({newest}) = 1
      BY FS_Singleton
    <3>3. IsFiniteSet(window) /\ Cardinality(window) <= 1
      BY <3>1, <3>2, FS_Subset
    <3>4. Cardinality(window) \in Nat
      BY <3>3, FS_CardinalityType
    <3> QED
      BY <1>5, <3>3, <3>4, Constants
  <2> HIDE DEF others
  <2>2. \E i \in others : \A j \in others : j <= i
    BY <1>4, <2>1, Greatest
  <2>3. (CHOOSE i \in others : \A j \in others : j <= i) \in others
    BY <2>2
  <2>4. NewestRead = CHOOSE i \in others : \A j \in others : j <= i
    BY <1>5 DEF NewestRead, newest, window, others
  <2> QED
    BY <1>4, <2>3, <2>4
<1>6. CASE ~ (Cardinality(window) > LoadWindow)
  <2>1. NewestRead = newest
    BY <1>6 DEF NewestRead, newest, window
  <2> QED
    BY <1>2, <2>1
<1> QED
  BY <1>5, <1>6

\* The counter starts no lower than any id stored, and at a turn that has come.
LEMMA GapsAreFilled ==
  ASSUME Inv, ids # {}
  PROVE  /\ NewestRead \in ids /\ NewestRead \in Nat
         /\ GapsFilled \in Nat /\ Come(GapsFilled)
         /\ \A i \in ids : i <= GapsFilled
<1>1. /\ ids \in SUBSET Nat /\ IsFiniteSet(ids) /\ now \in Nat /\ epoch \in Nat
      /\ \A i \in ids : i # 0 /\ Come(i)
  BY DEF Inv, TypeOK, TablesInv
<1>2. NewestRead \in ids /\ NewestRead \in Nat /\ Come(NewestRead) /\ NewestRead # 0
  BY <1>1, NewestIsStored
<1> DEFINE g == GapsFilled
           n == NewestRead
<1>3. g = IF n >= now - epoch THEN n ELSE now - epoch
  BY DEF GapsFilled, Max2
<1>4. n \in Nat /\ n # 0 /\ Come(n)
  BY <1>2
<1> HIDE DEF g, n
<1>5. g \in Nat /\ g >= n /\ g >= now - epoch
  BY <1>1, <1>3, <1>4
<1>6. Come(g)
  BY <1>1, <1>3, <1>4 DEF Come
<1>7. ASSUME NEW i \in ids PROVE i <= g
  <2>1. i \in Nat /\ (i <= 1 \/ epoch + i <= now)
    BY <1>1 DEF Come
  <2> QED
    BY <1>1, <1>4, <1>5, <2>1
<1> QED
  BY <1>2, <1>5, <1>6, <1>7 DEF g

\* The start
LEMMA StartKeeps ==
  ASSUME Inv, NEW listed \in Listings, NEW moved \in BOOLEAN, Start(listed, moved)
  PROVE  Inv'
<1> DEFINE newest == IF ids = {} THEN 0 ELSE NewestRead
           made == Made(listed, newest)
<1>1. /\ ~up /\ up' = TRUE /\ known' = newest
      /\ \/ ids = {} /\ id' = 1 /\ ids' = {1} /\ epoch' = now
         \/ ids # {} /\ id' = GapsFilled /\ UNCHANGED <<ids, epoch>>
      /\ items' = made /\ Insert(made, moved) /\ UNCHANGED <<now, queue, rows>>
  BY DEF Start
<1>2. /\ now \in 0 .. MaxTime /\ now \in Nat /\ rows \in SUBSET Rows /\ IsFiniteSet(rows)
      /\ ids \in SUBSET Nat /\ IsFiniteSet(ids) /\ epoch \in Nat
      /\ buffer \in Nat /\ session \in Nat
  BY Constants DEF Inv, TypeOK, TablesInv
<1>3. queue = <<>> /\ items = <<>>
  BY <1>1 DEF Inv, DownInv
<1>4. newest \in Nat
  BY <1>2, GapsAreFilled
<1>5. /\ id' \in Nat /\ ids' \in SUBSET Nat /\ IsFiniteSet(ids') /\ epoch' \in Nat
      /\ Come(id)' /\ (\A i \in ids' : i # 0 /\ Come(i)' /\ i <= id')
      /\ \A r \in rows : \E i \in ids' : r.id <= i
  <2>1. CASE ids = {} /\ id' = 1 /\ ids' = {1} /\ epoch' = now
    <3>1. IsFiniteSet({1})
      BY FS_Singleton
    <3>2. rows = {}
      BY <2>1 DEF Inv, NewestIdKnown
    <3>3. Come(id)' /\ \A i \in {1} : Come(i)'
      BY <2>1 DEF Come
    <3> QED
      BY <1>2, <2>1, <3>1, <3>2, <3>3
  <2>2. CASE ids # {} /\ id' = GapsFilled /\ UNCHANGED <<ids, epoch>>
    <3>1. /\ GapsFilled \in Nat /\ Come(GapsFilled)
          /\ \A i \in ids : i <= GapsFilled
      BY <2>2, GapsAreFilled
    <3>2. \A i \in ids : i # 0 /\ Come(i)
      BY DEF Inv, TablesInv
    <3>3. Come(id)' /\ \A i \in ids : Come(i)'
      BY <1>1, <2>2, <3>1, <3>2 DEF Come
    <3>4. \A r \in rows : \E i \in ids : r.id <= i
      BY DEF Inv, NewestIdKnown
    <3> QED
      BY <1>2, <2>2, <3>1, <3>2, <3>3, <3>4
  <2> QED
    BY <1>1, <2>1, <2>2
<1>6. \A r \in rows : r.id <= id'
  <2> SUFFICES ASSUME NEW r \in rows PROVE r.id <= id'
    OBVIOUS
  <2>1. PICK i \in ids' : r.id <= i
    BY <1>5
  <2>2. r.id \in Nat /\ i \in Nat /\ i <= id'
    BY <1>2, <1>5 DEF Rows
  <2> QED
    BY <1>5, <2>1, <2>2
<1> HIDE DEF newest
<1>7. Good(made, id')
  <2>1. listed \in Seq(Device) /\ Once(listed)
    BY Listed
  <2>2. items \in Seq(Items)
    BY DEF Inv, TypeOK
  <2> QED
    BY <1>2, <1>4, <1>5, <1>6, <2>1, <2>2, MadeOf
<1> HIDE DEF made
<1>8. /\ items' \in Seq(Items) /\ ItemsInv' /\ NewestFirst'
      /\ \A i \in 1 .. Len(items') : Len(items'[i].mem) <= Max2(HistorySize, LoadWindow)
  <2>1. Good(items', id')
    BY <1>1, <1>7
  <2> QED
    BY <2>1, GoodItems
<1>9. queue' = <<>>
  BY <1>1, <1>3
<1>10. queue' \in Seq(Inserts) /\ \A i \in 1 .. Len(queue') : FALSE
  BY <1>9
<1>11. TypeOK'
  <2>1. Len(made) \in Nat
    BY <1>7 DEF Good
  <2>2. session' \in Nat /\ buffer' \in Nat /\ known' \in Nat
    BY <1>1, <1>2, <1>4, <2>1 DEF Insert
  <2>3. {buffer', session', known', id', epoch'} \subseteq Nat
    BY <1>5, <2>2
  <2>4. now' \in 0 .. MaxTime /\ up' \in BOOLEAN /\ rows' \in SUBSET Rows
    BY <1>1, <1>2
  <2> QED
    BY <1>5, <1>8, <1>10, <2>3, <2>4 DEF TypeOK
<1>12. TablesInv' /\ NewestIdKnown'
  BY <1>1, <1>2, <1>5 DEF TablesInv, NewestIdKnown
<1>13. CounterInv'
  BY <1>5, <1>10 DEF CounterInv
<1>14. QueueInv' /\ OnceQueued'
  BY <1>10 DEF QueueInv, OnceQueued
<1>15. DownInv'
  BY <1>1 DEF DownInv
<1> QED
  BY <1>8, <1>11, <1>12, <1>13, <1>14, <1>15 DEF Inv

\* Before the first start
LEMMA InitKeeps ==
  ASSUME Init
  PROVE  Inv
<1>1. /\ now = 0 /\ up = FALSE /\ items = <<>> /\ buffer = 0 /\ session = 0
      /\ known = 0 /\ id = 1 /\ queue = <<>> /\ ids = {} /\ rows = {} /\ epoch = 0
  BY DEF Init
<1>2. /\ items \in Seq(Items) /\ queue \in Seq(Inserts)
      /\ (\A i \in 1 .. Len(items) : FALSE) /\ (\A i \in 1 .. Len(queue) : FALSE)
  BY <1>1
<1>3. TypeOK
  <2>1. up \in BOOLEAN
    BY <1>1
  <2>2. now = 0 /\ buffer = 0 /\ session = 0 /\ known = 0 /\ id = 1 /\ epoch = 0
    BY <1>1
  <2>3. now \in 0 .. MaxTime /\ {buffer, session, known, id, epoch} \subseteq Nat
    BY <2>2, Constants
  <2>4. ids \subseteq Nat /\ rows \subseteq Rows
    BY <1>1
  <2> QED
    BY <1>2, <2>1, <2>3, <2>4 DEF TypeOK
<1>4. TablesInv /\ NewestIdKnown
  BY <1>1, FS_EmptySet DEF TablesInv, NewestIdKnown
<1>5. CounterInv /\ DownInv
  BY <1>1 DEF CounterInv, DownInv
<1>6. QueueInv /\ OnceQueued
  BY <1>2 DEF QueueInv, OnceQueued
<1>7. ItemsInv /\ NewestFirst
  BY <1>2 DEF ItemsInv, NewestFirst
<1> QED
  BY <1>3, <1>4, <1>5, <1>6, <1>7 DEF Inv

\* Every step
LEMMA NextKeeps ==
  ASSUME Inv, [Next]_vars
  PROVE  Inv'
<1>1. ASSUME NEW listed \in Listings, NEW moved \in BOOLEAN, Second(listed, moved)
      PROVE  Inv'
  BY <1>1, SecondKeeps
<1>2. ASSUME NEW listed \in Listings, NEW moved \in BOOLEAN, Start(listed, moved)
      PROVE  Inv'
  BY <1>2, StartKeeps
<1>3. ASSUME NEW n \in 0 .. Len(queue) + 2, NEW anything \in Anything, Flush(n, anything)
      PROVE  Inv'
  BY <1>3, FlushKeeps
<1>4. ASSUME NEW anything \in Anything, Terminate(anything)
      PROVE  Inv'
  BY <1>4, TerminateKeeps
<1>5. CASE Crash
  BY <1>5, CrashKeeps
<1>6. CASE Wait
  BY <1>6, WaitKeeps
<1>7. CASE UNCHANGED vars
  BY <1>7, StutterKeeps
<1> QED
  BY <1>1, <1>2, <1>3, <1>4, <1>5, <1>6, <1>7 DEF Next

-----------------------------------------------------------------------------
(***************************************************************************)
(* The invariant above, of every state: in particular that the memory the  *)
(* items take is bounded however often devices come and go and whatever is *)
(* read back (_items of src/src/stats/StatsNetwork.cpp), and that no turn  *)
(* is counted that has not come.                                           *)
(***************************************************************************)
THEOREM KeyedHistoryInvariant == Spec => []Inv
<1>1. Init => Inv
  BY InitKeeps
<1>2. Inv /\ [Next]_vars => Inv'
  BY NextKeeps
<1> QED
  BY <1>1, <1>2, PTL DEF Spec

(***************************************************************************)
(* A restart, which asks the table of turns alone for the newest id, never *)
(* overlooks a sample: refused inserts, removals and crashes leave no      *)
(* sample beyond the newest turn stored.                                   *)
(***************************************************************************)
THEOREM NewestTurnIsEnough == Spec => []NewestIdKnown
<1>1. Inv => NewestIdKnown
  BY DEF Inv
<1> QED
  BY <1>1, KeyedHistoryInvariant, PTL

\* A device's sample of a turn that is queued is neither queued twice nor
\* stored already, for the table of samples would take it again.
LEMMA QueuedAreNew ==
  ASSUME Inv
  PROVE  NoneTwice
<1>1. ASSUME NEW i \in 1 .. Len(queue), NEW j \in 1 .. Len(queue),
             queue[i].kind = "sample", queue[j].kind = "sample",
             queue[i].id = queue[j].id, queue[i].of = queue[j].of
      PROVE  i = j
  BY <1>1 DEF Inv, OnceQueued
<1>2. ASSUME NEW i \in 1 .. Len(queue), NEW r \in rows, queue[i].id = r.id
      PROVE  FALSE
  <2>1. up
    <3> SUFFICES ASSUME ~up PROVE FALSE
      OBVIOUS
    <3>1. queue = <<>>
      BY DEF Inv, DownInv
    <3> QED
      BY <3>1
  <2>2. PICK k \in ids : r.id <= k
    BY DEF Inv, NewestIdKnown
  <2>3. k < queue[i].id
    BY <2>1 DEF Inv, CounterInv
  <2>4. k \in Nat /\ r.id \in Nat
    BY DEF Inv, TypeOK, Rows
  <2> QED
    BY <1>2, <2>2, <2>3, <2>4
<1> QED
  BY <1>1, <1>2 DEF NoneTwice

(***************************************************************************)
(* No sample of a device is stored twice (createInterface's query would    *)
(* read both): over crashes, restarts and gaps the id of a turn is not     *)
(* given out again, and one turn samples each device once.                 *)
(***************************************************************************)
THEOREM NothingTwice == Spec => []NoneTwice
<1>1. Inv => NoneTwice
  BY QueuedAreNew
<1> QED
  BY <1>1, KeyedHistoryInvariant, PTL

(***************************************************************************)
(* The samples of a device are in order, newest first, also where those    *)
(* read back meet those taken since, so that a reply may stop at the first *)
(* sample its client has.                                                  *)
(***************************************************************************)
THEOREM SamplesInOrder == Spec => []NewestFirst
<1>1. Inv => NewestFirst
  BY DEF Inv
<1> QED
  BY <1>1, KeyedHistoryInvariant, PTL

-----------------------------------------------------------------------------
\* As long as rows name their device, a row of the window is read back, and
\* what is read in front of it is not older.
LEMMA ReadBackHas ==
  ASSUME rows \in SUBSET Rows, IsFiniteSet(rows), RowsNameTheirDevice,
         NEW d, NEW m \in Nat, NEW r \in rows, r.uuid = d,
         r.id \in (m - LoadWindow) .. (m - 1)
  PROVE  \E j \in 1 .. Len(ReadBack(d, m)) :
            /\ ReadBack(d, m)[j].id = r.id
            /\ \A k \in 1 .. j : ReadBack(d, m)[k].id >= r.id
<1> DEFINE W == Window(d, m, LoadWindow)
           count == Min2(LoadWindow, Cardinality(W))
           N == NotYounger(W, r.id)
           n == Cardinality(N)
           low == m - LoadWindow
           I == low .. (m - 1)
           f == [s \in N |-> s.id]
           mem == ReadBack(d, m)
<1>1. /\ W \in SUBSET Rows /\ W \in SUBSET rows /\ IsFiniteSet(W) /\ Cardinality(W) \in Nat
      /\ \A s \in W : s.uuid = d /\ s.id >= low
  <2>1. \A s \in W : s.uuid = d /\ s.id >= low
    BY DEF Window
  <2> HIDE DEF W
  <2> QED
    BY <2>1, WindowOfRows DEF W
<1>2. low \in Int /\ m - 1 \in Int /\ m \in Nat /\ LoadWindow \in Nat /\ LoadWindow # 0
  BY Constants
<1>3. r.id \in Nat /\ r.id >= low /\ r.id <= m - 1
  BY <1>2 DEF Rows
<1>4. r \in W
  BY <1>3 DEF Window
<1>5. /\ count \in Nat /\ Len(mem) = count
      /\ \A i \in 1 .. count : \E q \in W : IsAt(count + 1 - i, W, q) /\ mem[i].id = q.id
  BY ReadBackReads
<1>6. count = IF LoadWindow <= Cardinality(W) THEN LoadWindow ELSE Cardinality(W)
  BY DEF Min2
<1> HIDE DEF W, count, mem
<1>7. \A s \in W : s = [id |-> s.id, uuid |-> d, of |-> d] /\ s.id \in Nat
  <2> SUFFICES ASSUME NEW s \in W
               PROVE  s = [id |-> s.id, uuid |-> d, of |-> d] /\ s.id \in Nat
    OBVIOUS
  <2>1. s \in Rows /\ s.uuid = d /\ s.uuid = s.of
    BY <1>1 DEF RowsNameTheirDevice
  <2> QED
    BY <2>1 DEF Rows
<1>8. /\ N \in SUBSET W /\ IsFiniteSet(N) /\ n \in Nat /\ n <= Cardinality(W)
  BY <1>1, <1>3, PartsCounted
<1>9. r \in N /\ \A s \in N : s \in W /\ s.id <= r.id
  BY <1>3, <1>4 DEF NotYounger
<1> HIDE DEF N
<1>10. n # 0
  BY <1>8, <1>9, FS_EmptySet
<1>11. n <= LoadWindow
  <2>1. IsFiniteSet(I) /\ Cardinality(I) = LoadWindow
    <3>1. IsFiniteSet(I) /\ Cardinality(I) = IF low > m - 1 THEN 0 ELSE (m - 1) - low + 1
      BY <1>2, FS_Interval
    <3> QED
      BY <1>2, <3>1
  <2>2. \A s \in N : s.id \in I
    <3> SUFFICES ASSUME NEW s \in N PROVE s.id \in I
      OBVIOUS
    <3>1. s.id \in Nat /\ s.id >= low /\ s.id <= r.id
      BY <1>1, <1>7, <1>9
    <3> QED
      BY <1>2, <1>3, <3>1
  <2>3. \A s, q \in N : s.id = q.id => s = q
    <3> SUFFICES ASSUME NEW s \in N, NEW q \in N, s.id = q.id PROVE s = q
      OBVIOUS
    <3>1. s = [id |-> s.id, uuid |-> d, of |-> d] /\ q = [id |-> q.id, uuid |-> d, of |-> d]
      BY <1>7, <1>9
    <3> QED
      BY <3>1
  <2> HIDE DEF I, low
  <2>4. f \in Injection(N, I)
    <3>1. f \in [N -> I] /\ \A s, q \in N : f[s] = f[q] => s = q
      BY <2>2, <2>3
    <3> HIDE DEF f
    <3> QED
      BY <3>1 DEF Injection, IsInjective
  <2> HIDE DEF f
  <2>5. n <= Cardinality(I)
    BY <2>1, <2>4, FS_Injection
  <2> QED
    BY <2>1, <2>5
<1> DEFINE j == count + 1 - n
<1>12. j \in 1 .. count /\ count + 1 - j = n /\ n <= count
  BY <1>1, <1>2, <1>5, <1>6, <1>8, <1>10, <1>11
<1> HIDE DEF j
<1>13. PICK q \in W : IsAt(n, W, q) /\ mem[j].id = q.id
  BY <1>5, <1>12
<1>14. q.id = r.id
  <2>1. \A s \in W : s.id = r.id => s = r
    BY <1>4, <1>7
  <2>2. n = Cardinality(NotYounger(W, r.id))
    BY DEF N
  <2> QED
    BY <1>1, <1>4, <1>13, <2>1, <2>2, RowAtItsRank
<1>15. ASSUME NEW k \in 1 .. j PROVE mem[k].id >= r.id
  <2>1. CASE k = j
    BY <1>3, <1>13, <1>14, <2>1
  <2>2. CASE k # j
    <3> DEFINE p == count + 1 - k
    <3>1. k \in 1 .. count /\ p \in Nat /\ n < p
      BY <1>5, <1>8, <1>12, <2>2
    <3>2. PICK s \in W : IsAt(p, W, s) /\ mem[k].id = s.id
      BY <1>5, <3>1
    <3> HIDE DEF p
    <3>3. q.id <= s.id
      BY <1>1, <1>8, <1>13, <3>1, <3>2, PlacesAscend
    <3>4. q.id \in Nat /\ s.id \in Nat
      BY <1>7
    <3> QED
      BY <1>14, <3>2, <3>3, <3>4
  <2> QED
    BY <2>1, <2>2
<1> QED
  BY <1>5, <1>12, <1>13, <1>14, <1>15 DEF mem

\* A turn leaves it there, unless it pushes it out.
LEMMA StillThere ==
  ASSUME NEW mem \in Seq(Samples), NEW s \in Samples, NEW n \in Nat, NEW j \in 1 .. Len(mem),
         Len(mem) <= Max2(HistorySize, LoadWindow),
         mem[j].id = n, \A k \in 1 .. j : mem[k].id >= n, n < s.id,
         NEW p, p = Pushed(mem, s)
  PROVE  \/ \E i \in 1 .. Len(p) : p[i].id = n
         \/ Len(p) >= HistorySize /\ \A i \in 1 .. Len(p) : n < p[i].id
<1> DEFINE L == Len(mem)
<1>1. L \in Nat /\ HistorySize \in Nat /\ j \in Nat
  BY Constants
<1>2. /\ p \in Seq(Samples) /\ Len(p) = Min2(L + 1, Max2(L, HistorySize))
      /\ \A i \in 1 .. Len(p) : p[i] = IF i = 1 THEN s ELSE mem[i - 1]
  BY PushedSample
<1>3. \A i \in 1 .. L : mem[i].id \in Nat
  <2>1. \A i \in 1 .. L : mem[i] \in Samples
    OBVIOUS
  <2>2. \A q \in Samples : q.id \in Nat
    BY DEF Samples
  <2> QED
    BY <2>1, <2>2
<1>4. s.id \in Nat
  BY DEF Samples
<1>5. CASE j + 1 <= Len(p)
  <2>1. Len(p) \in Nat /\ j + 1 \in 1 .. Len(p) /\ j + 1 # 1 /\ (j + 1) - 1 = j
    BY <1>1, <1>2, <1>5
  <2>2. p[j + 1].id = n
    BY <1>2, <2>1
  <2> QED
    BY <2>1, <2>2
<1>6. CASE ~ (j + 1 <= Len(p))
  <2>1. Len(p) = j /\ Len(p) >= HistorySize
    BY <1>1, <1>2, <1>6 DEF Min2, Max2
  <2>2. ASSUME NEW i \in 1 .. Len(p), p[i].id # n PROVE n < p[i].id
    <3>1. CASE i = 1
      BY <1>2, <3>1
    <3>2. CASE i # 1
      <4>1. i - 1 \in 1 .. j /\ i - 1 \in 1 .. L
        BY <1>1, <2>1, <3>2
      <4>2. p[i] = mem[i - 1] /\ mem[i - 1].id >= n /\ mem[i - 1].id \in Nat
        BY <1>2, <1>3, <3>2, <4>1
      <4> QED
        BY <2>2, <4>2
    <3> QED
      BY <3>1, <3>2
  <2> QED
    BY <2>1, <2>2
<1> QED
  BY <1>5, <1>6

\* What ComesBack says of one item and one row.
IsBack(item, r) ==
    \/ \E j \in 1 .. Len(item.mem) : item.mem[j].id = r.id
    \/ PushedOut(item, r.id)

\* The start reads back what there is of each device.
LEMMA StartBringsBack ==
  ASSUME Inv, NEW listed \in Listings, NEW moved \in BOOLEAN, Start(listed, moved),
         RowsNameTheirDevice, NEW i \in 1 .. Len(items'),
         NEW r \in rows, r.uuid = items'[i].device,
         r.id \in (known' - LoadWindow) .. (known' - 1)
  PROVE  IsBack(items'[i], r)
<1> DEFINE newest == IF ids = {} THEN 0 ELSE NewestRead
           made == Made(listed, newest)
<1>1. known' = newest /\ items' = made
  BY DEF Start
<1>2. rows \in SUBSET Rows /\ IsFiniteSet(rows) /\ items \in Seq(Items)
  BY DEF Inv, TypeOK, TablesInv
<1>3. newest \in Nat
  BY GapsAreFilled
<1> HIDE DEF newest
<1>4. listed \in Seq(Device) /\ Once(listed)
  BY Listed
<1>5. \E n \in Nat : \A q \in rows : q.id <= n
  <2> DEFINE h == [q \in rows |-> q.id]
  <2>1. h \in [rows -> Nat] /\ \A q \in rows : h[q] = q.id
    BY <1>2 DEF Rows
  <2> HIDE DEF h
  <2>2. \E n \in Nat : \A q \in rows : h[q] <= n
    BY <1>2, <2>1, Bounded
  <2> QED
    BY <2>1, <2>2
<1>6. PICK n \in Nat : \A q \in rows : q.id <= n
  BY <1>5
<1>7. made[i] = Item(made[i].device, newest)
  <2>1. i \in 1 .. Len(made)
    BY <1>1
  <2> HIDE DEF made
  <2> QED
    BY <1>2, <1>3, <1>4, <1>6, <2>1, MadeOf DEF made
<1> HIDE DEF made
<1> DEFINE d == made[i].device
<1>8. items'[i].mem = ReadBack(d, newest) /\ items'[i].device = d
  BY <1>1, <1>7 DEF Item
<1> HIDE DEF d
<1>9. \E j \in 1 .. Len(ReadBack(d, newest)) : ReadBack(d, newest)[j].id = r.id
  BY <1>1, <1>2, <1>3, <1>8, ReadBackHas
<1> QED
  BY <1>8, <1>9 DEF IsBack

\* So does a second of a device that was not there before.
LEMMA SecondBringsBack ==
  ASSUME Inv, NEW listed \in Listings, NEW moved \in BOOLEAN, Second(listed, moved),
         RowsNameTheirDevice, NEW i \in 1 .. Len(items'), items'[i].device \notin Devices(items),
         NEW r \in rows, r.uuid = items'[i].device,
         r.id \in (known' - LoadWindow) .. (known' - 1)
  PROVE  IsBack(items'[i], r)
<1> DEFINE made == Made(listed, known)
           all == made \o items
           its == Sampled(all, listed, now + 1)
           A == Len(made)
           B == Len(items)
<1>1. /\ up /\ up' /\ now \in Nat /\ now + 1 \in 0 .. MaxTime /\ now' = now + 1
      /\ Good(made, id) /\ Good(all, id) /\ Good(its, id)
      /\ Len(all) = A + B /\ Len(its) = A + B
      /\ UNCHANGED <<up, known>> /\ UNCHANGED diskVars
      /\ \/ /\ epoch + id <= now /\ id' = id + 1
            /\ items' = Turned(its, id + 1, now + 1)
         \/ id' = id /\ items' = its
  BY SecondDoes
<1>2. /\ rows \in SUBSET Rows /\ IsFiniteSet(rows) /\ items \in Seq(Items)
      /\ known \in Nat /\ id \in Nat /\ ids \in SUBSET Nat
  BY DEF Inv, TypeOK, TablesInv
<1>3. \A q \in rows : q.id <= id
  <2> SUFFICES ASSUME NEW q \in rows PROVE q.id <= id
    OBVIOUS
  <2>1. PICK k \in ids : q.id <= k
    BY DEF Inv, NewestIdKnown
  <2>2. k <= id
    BY <1>1 DEF Inv, CounterInv
  <2>3. q.id \in Nat /\ k \in Nat
    BY <1>2 DEF Rows
  <2> QED
    BY <1>2, <2>1, <2>2, <2>3
<1>4. made \in Seq(Items) /\ A \in Nat /\ B \in Nat
  BY <1>1, <1>2 DEF Good
<1>5. \A k \in 1 .. A : made[k] = Item(made[k].device, known)
  <2>1. listed \in Seq(Device) /\ Once(listed)
    BY Listed
  <2> QED
    BY <1>2, <1>3, <2>1, MadeOf
<1> HIDE DEF made
<1>6. \A k \in 1 .. A + B : /\ its[k].device = all[k].device /\ its[k].mem = all[k].mem
  <2>1. now + 1 \in -1 .. MaxTime
    BY <1>1, Constants
  <2> HIDE DEF all
  <2> QED
    BY <1>1, <2>1, SampledKeeps
<1>7. /\ \A k \in 1 .. A : all[k] = made[k]
      /\ \A k \in 1 .. B : all[A + k] = items[k]
  BY <1>2, <1>4
<1> HIDE DEF all, its
<1>8. /\ Len(items') = A + B
      /\ items'[i].device = its[i].device
      /\ \/ items'[i].mem = its[i].mem
         \/ /\ id' = id + 1
            /\ items'[i].mem = Pushed(its[i].mem,
                                      [id |-> id + 1, empty |-> IsEmpty(its[i], now + 1)])
  <2>1. CASE id' = id /\ items' = its
    BY <1>1, <2>1
  <2>2. CASE id' = id + 1 /\ items' = Turned(its, id + 1, now + 1)
    <3>1. /\ Len(items') = Len(its)
          /\ \A k \in 1 .. Len(its) :
                /\ items'[k].device = its[k].device
                /\ items'[k].mem = Pushed(its[k].mem,
                                          [id |-> id + 1, empty |-> IsEmpty(its[k], now + 1)])
      BY <1>1, <1>2, <2>2, TurnedKeeps, SMTT(30)
    <3>2. i \in 1 .. Len(its)
      BY <3>1
    <3> QED
      BY <1>1, <2>2, <3>1, <3>2
  <2> QED
    BY <1>1, <2>1, <2>2
<1>9. i \in 1 .. A
  <2> SUFFICES ASSUME i \notin 1 .. A PROVE FALSE
    OBVIOUS
  <2>1. i \in 1 .. A + B /\ i - A \in 1 .. B /\ A + (i - A) = i
    BY <1>4, <1>8
  <2>2. all[i] = items[i - A]
    BY <1>7, <2>1
  <2>3. items'[i].device = items[i - A].device
    BY <1>6, <1>8, <2>1, <2>2
  <2> QED
    BY <2>1, <2>3 DEF Devices
<1> DEFINE d == made[i].device
           mem == ReadBack(d, known)
<1>10. its[i].mem = mem /\ items'[i].device = d
  <2>1. i \in 1 .. A + B
    BY <1>8
  <2>2. all[i] = Item(d, known) /\ all[i].device = d
    BY <1>5, <1>7, <1>9
  <2> QED
    BY <1>6, <1>8, <2>1, <2>2 DEF Item
<1> HIDE DEF d
<1>11. known' = known /\ r.uuid = d /\ r.id \in (known - LoadWindow) .. (known - 1)
  BY <1>1, <1>10
<1>12. PICK j \in 1 .. Len(mem) : mem[j].id = r.id /\ \A k \in 1 .. j : mem[k].id >= r.id
  BY <1>2, <1>11, ReadBackHas
<1>13. CASE items'[i].mem = its[i].mem
  BY <1>10, <1>12, <1>13 DEF IsBack
<1>14. CASE /\ id' = id + 1
            /\ items'[i].mem = Pushed(its[i].mem,
                                      [id |-> id + 1, empty |-> IsEmpty(its[i], now + 1)])
  <2> DEFINE s == [id |-> id + 1, empty |-> IsEmpty(its[i], now + 1)]
             p == items'[i].mem
  <2>1. s \in Samples /\ s.id = id + 1
    BY <1>2 DEF Samples, IsEmpty
  <2>2. r.id \in Nat /\ r.id < s.id
    <3>1. r.id \in Nat /\ r.id <= id
      BY <1>2, <1>3 DEF Rows
    <3> QED
      BY <1>2, <2>1, <3>1
  <2>3. mem \in Seq(Samples) /\ Len(mem) <= Max2(HistorySize, LoadWindow)
    <3>1. i \in 1 .. Len(its)
      BY <1>1, <1>8
    <3>2. its[i].mem \in Seq(Samples) /\ Len(its[i].mem) <= Max2(HistorySize, LoadWindow)
      BY <1>1, <3>1, ItemsTyped DEF Good
    <3> QED
      BY <1>10, <3>2
  <2>4. p = Pushed(mem, s)
    BY <1>10, <1>14
  <2> HIDE DEF s, p, mem
  <2>5. \/ \E k \in 1 .. Len(p) : p[k].id = r.id
        \/ Len(p) >= HistorySize /\ \A k \in 1 .. Len(p) : r.id < p[k].id
    BY <1>12, <2>1, <2>2, <2>3, <2>4, StillThere
  <2>6. id' # id
    BY <1>2, <1>14
  <2> QED
    BY <1>1, <2>5, <2>6 DEF IsBack, PushedOut, p
<1> QED
  BY <1>8, <1>13, <1>14

\* What is brought back by any step
LEMMA StepBringsBack ==
  ASSUME Inv, Next, RowsNameTheirDevice,
         NEW i \in 1 .. Len(items'), items'[i].device \notin Devices(items),
         NEW r \in rows, r.uuid = items'[i].device,
         r.id \in (known' - LoadWindow) .. (known' - 1)
  PROVE  IsBack(items'[i], r)
<1>1. ASSUME NEW listed \in Listings, NEW moved \in BOOLEAN, Second(listed, moved)
      PROVE  IsBack(items'[i], r)
  BY <1>1, SecondBringsBack
<1>2. ASSUME NEW listed \in Listings, NEW moved \in BOOLEAN, Start(listed, moved)
      PROVE  IsBack(items'[i], r)
  BY <1>2, StartBringsBack
<1>3. items' # items
  <2> SUFFICES ASSUME items' = items PROVE FALSE
    OBVIOUS
  <2>1. items'[i].device \in Devices(items)
    BY DEF Devices
  <2> QED
    BY <2>1
<1>4. items' # <<>>
  <2> SUFFICES ASSUME items' = <<>> PROVE FALSE
    OBVIOUS
  <2>1. Len(items') = 0
    OBVIOUS
  <2> QED
    BY <2>1
<1>5. ASSUME NEW n \in 0 .. Len(queue) + 2, NEW anything \in Anything, Flush(n, anything)
      PROVE  FALSE
  BY <1>3, <1>5 DEF Flush
<1>6. ASSUME NEW anything \in Anything, Terminate(anything)
      PROVE  FALSE
  BY <1>4, <1>6 DEF Terminate, Down
<1>7. ~ Crash
  BY <1>4 DEF Crash, Down
<1>8. ~ Wait
  BY <1>3 DEF Wait, memoryVars
<1> QED
  BY <1>1, <1>2, <1>5, <1>6, <1>7, <1>8 DEF Next

(***************************************************************************)
(* While the names are right, a device that appears gets back every row    *)
(* of the window that is stored of it, whatever was lost or removed before *)
(* and however the query's limit falls (createInterface): only a turn in   *)
(* the same second may push the oldest out of a full memory.               *)
(***************************************************************************)
THEOREM DevicesComeBack == Spec => ComesBack
<1> DEFINE Back == RowsNameTheirDevice =>
                     \A i \in 1 .. Len(items') :
                        items'[i].device \notin Devices(items) =>
                          \A r \in rows :
                             /\ r.uuid = items'[i].device
                             /\ r.id \in (known' - LoadWindow) .. (known' - 1)
                             => \/ \E j \in 1 .. Len(items'[i].mem) :
                                      items'[i].mem[j].id = r.id
                                \/ PushedOut(items'[i], r.id)
<1>1. Inv /\ [Next]_vars => [Back]_vars
  <2> SUFFICES ASSUME Inv, Next PROVE Back
    OBVIOUS
  <2> SUFFICES ASSUME RowsNameTheirDevice,
                      NEW i \in 1 .. Len(items'), items'[i].device \notin Devices(items),
                      NEW r \in rows, r.uuid = items'[i].device,
                      r.id \in (known' - LoadWindow) .. (known' - 1)
               PROVE  IsBack(items'[i], r)
    BY DEF IsBack
  <2> QED
    BY StepBringsBack
<1>2. ComesBack <=> [][Back]_vars
  BY DEF ComesBack
<1> HIDE DEF Back
<1> QED
  BY <1>1, <1>2, KeyedHistoryInvariant, PTL DEF Spec
=============================================================================
