---------------------------- MODULE History_proofs ----------------------------
(***************************************************************************)
(* Proofs about the history of a collector: for any number of levels, any  *)
(* intervals and windows, and a clock without a bound.                     *)
(***************************************************************************)
EXTENDS History, SequenceFacts, FiniteSetTheorems

(***************************************************************************)
(* The types of the variables.                                             *)
(***************************************************************************)
InsertOps == [kind : {"insert"}, level : Levels, row : Rows]
DeleteOps == [kind : {"delete"}, level : Levels, below : Int]
Ops       == InsertOps \cup DeleteOps

Types ==
    /\ clock \in Nat /\ StartTime <= clock
    /\ up \in BOOLEAN
    /\ due \in Nat
    /\ mem \in [Levels -> Seq(Samples)]
    /\ id \in [Levels -> Nat]
    /\ next \in [Levels -> Nat]
    /\ queue \in Seq(InsertOps)
    /\ table \in [Levels -> SUBSET Rows]
    /\ \A x \in Levels : IsFiniteSet(table[x])
    /\ epoch \in [Levels -> Nat]
    /\ failed \in [Levels -> SUBSET Rows]

(***************************************************************************)
(* A row lies its id's number of intervals behind the beginning of its     *)
(* level, and not in the future, but for the one a new level begins with.  *)
(***************************************************************************)
InTime(x, r) ==
    /\ r.id >= 1
    /\ r.time = epoch[x] + r.id * Interval[x]
    /\ r.time <= clock + 1
    /\ r.id > 1 => r.time <= clock

StoredInTime == \A x \in Levels : \A r \in table[x] : InTime(x, r)

QueuedInTime == \A i \in 1 .. Len(queue) : InTime(queue[i].level, queue[i].row)

MemoryOnTime ==
    \A x \in Levels : \A i \in 1 .. Len(mem[x]) :
        mem[x][i].time = epoch[x] + mem[x][i].id * Interval[x]

(***************************************************************************)
(* No id is given out that is in use: what is stored or queued is behind   *)
(* the level's own id.                                                     *)
(***************************************************************************)
IdsAreBehind ==
    up => \A x \in Levels :
             /\ next[x] = epoch[x] + (id[x] + 1) * Interval[x]
             /\ \A r \in table[x] : r.id <= id[x]
             /\ \A i \in 1 .. Len(queue) : queue[i].level = x => queue[i].row.id <= id[x]

DownIsEmpty == ~up => queue = <<>> /\ mem = [x \in Levels |-> <<>>]

HistoryInv ==
    /\ Types
    /\ StoredInTime
    /\ QueuedInTime
    /\ MemoryOnTime
    /\ IdsAreBehind
    /\ DownIsEmpty
    /\ NoKeyCollision
    /\ ShownIsStored

-----------------------------------------------------------------------------
(***************************************************************************)
(* The database.                                                           *)
(***************************************************************************)
Tables == [Levels -> SUBSET Rows]

\* Execute, of one statement after the other, gives what ExecuteAll gives.
LEMMA OneByOne ==
  ASSUME NEW tables \in Tables, NEW ops \in Seq(Ops)
  PROVE  \E f \in [0 .. Len(ops) -> Tables] :
            /\ f[0] = tables /\ ExecuteAll(tables, ops) = f[Len(ops)]
            /\ \A n \in 1 .. Len(ops) : f[n] = Execute(f[n - 1], ops[n])
<1> DEFINE N == Len(ops)
           F == [p \in Nat \X Tables |->
                   IF p[1] \in 1 .. N THEN Execute(p[2], ops[p[1]]) ELSE p[2]]
           All(f) == f = [n \in 0 .. N |-> IF n = 0 THEN tables ELSE Execute(f[n - 1], ops[n])]
           after == CHOOSE f : All(f)
<1>1. N \in Nat
  OBVIOUS
<1>2. ASSUME NEW t \in Tables, NEW op \in Ops PROVE Execute(t, op) \in Tables
  <2>1. op.level \in Levels
    BY DEF Ops, InsertOps, DeleteOps
  <2>2. op.kind # "delete" => op.row \in Rows
    BY DEF Ops, InsertOps, DeleteOps
  <2> QED
    BY <2>1, <2>2 DEF Execute, Tables
<1>3. F \in [Nat \X Tables -> Tables]
  <2>1. ASSUME NEW p \in Nat \X Tables
        PROVE  (IF p[1] \in 1 .. N THEN Execute(p[2], ops[p[1]]) ELSE p[2]) \in Tables
    BY <1>2
  <2> QED
    BY <2>1
<1> HIDE DEF F
<1>4. PICK g : Goes(g, Tables, tables, F, N)
  BY <1>1, <1>3, Recursion
<1>5. \A n \in Nat, t \in Tables : n \in 1 .. N => F[<<n, t>>] = Execute(t, ops[n])
  BY <1>1 DEF F
<1>6. /\ g \in [0 .. N -> Tables] /\ g[0] = tables
      /\ \A n \in 1 .. N : g[n] = Execute(g[n - 1], ops[n])
  <2>1. \A n \in 1 .. N : n \in Nat /\ n - 1 \in 0 .. N
    BY <1>1
  <2> QED
    BY <1>4, <1>5, <2>1 DEF Goes
<1>7. All(g)
  <2>1. \A n \in 0 .. N : g[n] = IF n = 0 THEN tables ELSE Execute(g[n - 1], ops[n])
    BY <1>1, <1>6
  <2> QED
    BY <1>6, <2>1
<1>8. All(after)
  BY <1>7
<1>9. ExecuteAll(tables, ops) = after[N]
  BY Zenon DEF ExecuteAll
<1> HIDE DEF after
<1>10. after[0] = tables /\ \A n \in 1 .. N : after[n] = Execute(after[n - 1], ops[n])
  <2>1. /\ 0 \in 0 .. N
        /\ \A n \in 1 .. N : n \in 0 .. N /\ n # 0
    BY <1>1
  <2> QED
    BY <1>8, <2>1
<1>11. after[N] = g[N]
  <2>1. \A n \in 1 .. N : n \in Nat
    BY <1>1
  <2>2. \A n \in 1 .. N : after[n - 1] \in Tables => after[n] = F[<<n, after[n - 1]>>]
    BY <1>5, <1>10, <2>1
  <2> HIDE DEF N
  <2>3. Agrees(after, g, N)
    BY <1>1, <1>4, <1>10, <2>2, RecursionOnce
  <2> QED
    BY <1>1, <2>3 DEF Agrees
<1> QED
  BY <1>6, <1>9, <1>11

\* Statements that insert a row, and those that remove it.
Puts(ops, x, r) ==
    \E i \in 1 .. Len(ops) : ops[i].kind = "insert" /\ ops[i].level = x /\ ops[i].row = r

Drops(ops, x, r) ==
    \E i \in 1 .. Len(ops) : ops[i].kind = "delete" /\ ops[i].level = x /\ r.id < ops[i].below

\* What is stored then was stored before or has been inserted.
LEMMA StoredOrPut ==
  ASSUME NEW tables \in Tables, NEW ops \in Seq(Ops),
         \A x \in Levels : IsFiniteSet(tables[x])
  PROVE  /\ ExecuteAll(tables, ops) \in Tables
         /\ \A x \in Levels : IsFiniteSet(ExecuteAll(tables, ops)[x])
         /\ \A x \in Levels : \A r \in ExecuteAll(tables, ops)[x] :
               r \in tables[x] \/ Puts(ops, x, r)
<1> DEFINE N == Len(ops)
<1>1. PICK f \in [0 .. N -> Tables] :
            /\ f[0] = tables /\ ExecuteAll(tables, ops) = f[N]
            /\ \A n \in 1 .. N : f[n] = Execute(f[n - 1], ops[n])
  BY OneByOne
<1>2. N \in Nat
  OBVIOUS
<1> DEFINE Fine(n) == \A x \in Levels :
                         /\ IsFiniteSet(f[n][x])
                         /\ \A r \in f[n][x] : r \in tables[x] \/ Puts(ops, x, r)
           Good == {n \in Nat : n <= N => Fine(n)}
<1>3. 0 \in Good
  BY <1>1
<1>4. ASSUME NEW n \in Nat, n \in Good PROVE n + 1 \in Good
  <2> SUFFICES ASSUME n + 1 <= N PROVE Fine(n + 1)
    OBVIOUS
  <2> DEFINE op == ops[n + 1]
             t  == f[n]
  <2>1. /\ n + 1 \in 1 .. N /\ n \in 0 .. N /\ (n + 1) - 1 = n
        /\ op \in Ops /\ t \in Tables /\ Fine(n)
    BY <1>1, <1>2, <1>4
  <2>2. f[n + 1] = Execute(t, op)
    BY <1>1, <2>1
  <2>3. op.level \in Levels
    BY <2>1 DEF Ops, InsertOps, DeleteOps
  <2> SUFFICES ASSUME NEW x \in Levels
               PROVE  /\ IsFiniteSet(f[n + 1][x])
                      /\ \A r \in f[n + 1][x] : r \in tables[x] \/ Puts(ops, x, r)
    OBVIOUS
  <2>4. CASE x # op.level
    <3>1. f[n + 1][x] = t[x]
      BY <2>1, <2>2, <2>3, <2>4 DEF Execute, Tables
    <3> QED
      BY <2>1, <3>1
  <2>5. CASE x = op.level /\ op.kind = "delete"
    <3>1. f[n + 1][x] = {r \in t[x] : r.id >= op.below}
      BY <2>1, <2>2, <2>3, <2>5 DEF Execute, Tables
    <3>2. f[n + 1][x] \in SUBSET t[x]
      BY <3>1
    <3> QED
      BY <2>1, <3>2, FS_Subset
  <2>6. CASE x = op.level /\ op.kind # "delete"
    <3>1. f[n + 1][x] = t[x] \/ f[n + 1][x] = t[x] \cup {op.row}
      BY <2>1, <2>2, <2>3, <2>6 DEF Execute, Tables
    <3>2. Puts(ops, x, op.row)
      <4>1. op.kind = "insert"
        BY <2>1, <2>6 DEF Ops, InsertOps, DeleteOps
      <4> QED
        BY <2>1, <2>6, <4>1 DEF Puts
    <3>3. IsFiniteSet(t[x] \cup {op.row})
      BY <2>1, FS_AddElement
    <3> QED
      BY <2>1, <3>1, <3>2, <3>3
  <2> QED
    BY <2>4, <2>5, <2>6
<1> HIDE DEF Good
<1>5. N \in Good
  BY <1>2, <1>3, <1>4, NatSetInduction
<1>6. Fine(N)
  BY <1>2, <1>5 DEF Good
<1> QED
  BY <1>1, <1>2, <1>6

\* Rows that do not contend for an id are stored, unless they are removed.
LEMMA StoredUnlessDropped ==
  ASSUME NEW tables \in Tables, NEW ops \in Seq(Ops),
         \A x \in Levels : IsFiniteSet(tables[x]),
         NEW x \in Levels,
         \A r, s \in Rows : /\ r \in tables[x] \/ Puts(ops, x, r)
                            /\ s \in tables[x] \/ Puts(ops, x, s)
                            /\ r.id = s.id
                            => r = s,
         NEW r \in Rows, r \in tables[x] \/ Puts(ops, x, r)
  PROVE  r \in ExecuteAll(tables, ops)[x] \/ Drops(ops, x, r)
<1> DEFINE N == Len(ops)
<1>1. PICK f \in [0 .. N -> Tables] :
            /\ f[0] = tables /\ ExecuteAll(tables, ops) = f[N]
            /\ \A n \in 1 .. N : f[n] = Execute(f[n - 1], ops[n])
  BY OneByOne
<1>2. N \in Nat
  OBVIOUS
<1> DEFINE Put(n) == \E i \in 1 .. n : /\ ops[i].kind = "insert" /\ ops[i].level = x
                                       /\ ops[i].row = r
           Fine(n) == /\ \A s \in f[n][x] : s \in Rows /\ (s \in tables[x] \/ Puts(ops, x, s))
                      /\ r \in tables[x] \/ Put(n) => r \in f[n][x] \/ Drops(ops, x, r)
           Good == {n \in Nat : n <= N => Fine(n)}
<1>3. 0 \in Good
  BY <1>1 DEF Tables
<1>4. ASSUME NEW n \in Nat, n \in Good PROVE n + 1 \in Good
  <2> SUFFICES ASSUME n + 1 <= N PROVE Fine(n + 1)
    OBVIOUS
  <2> DEFINE op == ops[n + 1]
             t  == f[n]
  <2>1. /\ n + 1 \in 1 .. N /\ n \in 0 .. N /\ (n + 1) - 1 = n
        /\ op \in Ops /\ t \in Tables /\ Fine(n)
    BY <1>1, <1>2, <1>4
  <2>2. f[n + 1] = Execute(t, op)
    BY <1>1, <2>1
  <2>3. op.level \in Levels
    BY <2>1 DEF Ops, InsertOps, DeleteOps
  <2>4. \A i \in 1 .. n + 1 : i = n + 1 \/ i \in 1 .. n
    OBVIOUS
  <2>5. CASE x # op.level
    <3>1. f[n + 1][x] = t[x]
      BY <2>1, <2>2, <2>3, <2>5 DEF Execute, Tables
    <3>2. Put(n + 1) => Put(n)
      BY <2>4, <2>5
    <3> QED
      BY <2>1, <3>1, <3>2
  <2>6. CASE x = op.level /\ op.kind = "delete"
    <3>1. f[n + 1][x] = {s \in t[x] : s.id >= op.below}
      BY <2>1, <2>2, <2>3, <2>6 DEF Execute, Tables
    <3>2. Put(n + 1) => Put(n)
      BY <2>4, <2>6
    <3>3. r \in t[x] => r \in f[n + 1][x] \/ Drops(ops, x, r)
      <4>1. op.below \in Int /\ r.id \in Int
        BY <2>1, <2>6 DEF Ops, InsertOps, DeleteOps, Rows
      <4>2. ~(r.id >= op.below) => r.id < op.below
        BY <4>1
      <4> QED
        BY <2>1, <2>6, <3>1, <4>2 DEF Drops
    <3> HIDE DEF Put
    <3> QED
      BY <2>1, <3>1, <3>2, <3>3
  <2>7. CASE x = op.level /\ op.kind # "delete"
    <3>1. /\ op.kind = "insert" /\ op.row \in Rows
      BY <2>1, <2>7 DEF Ops, InsertOps, DeleteOps
    <3>2. f[n + 1][x] = IF op.row.id \in Ids(t[x]) THEN t[x] ELSE t[x] \cup {op.row}
      BY <2>1, <2>2, <2>3, <2>7 DEF Execute, Tables
    <3>3. Puts(ops, x, op.row)
      BY <2>1, <2>7, <3>1 DEF Puts
    <3>4. op.row \in f[n + 1][x]
      <4>1. CASE op.row.id \in Ids(t[x])
        <5>1. PICK s \in t[x] : s.id = op.row.id
          BY <4>1 DEF Ids
        <5>2. s \in Rows /\ (s \in tables[x] \/ Puts(ops, x, s))
          BY <2>1, <5>1
        <5>3. s = op.row
          BY <3>1, <3>3, <5>1, <5>2
        <5> QED
          BY <3>2, <4>1, <5>1, <5>3
      <4> QED
        BY <3>2, <4>1
    <3>5. Put(n + 1) => Put(n) \/ r = op.row
      BY <2>4
    <3>6. \A s \in f[n + 1][x] : s \in Rows /\ (s \in tables[x] \/ Puts(ops, x, s))
      BY <2>1, <3>1, <3>2, <3>3
    <3>7. t[x] \subseteq f[n + 1][x]
      BY <3>2
    <3> HIDE DEF Put, op
    <3> QED
      BY <2>1, <3>4, <3>5, <3>6, <3>7
  <2> QED
    BY <2>5, <2>6, <2>7
<1> HIDE DEF Good
<1>5. N \in Good
  BY <1>2, <1>3, <1>4, NatSetInduction
<1>6. Fine(N)
  BY <1>2, <1>5 DEF Good
<1> QED
  BY <1>1, <1>6 DEF Puts

-----------------------------------------------------------------------------
(***************************************************************************)
(* The turns of a level.                                                   *)
(***************************************************************************)
\* The constants, as the proofs use them.
LEMMA Constants ==
  /\ Len(Interval) \in Nat /\ Levels = 1 .. Len(Interval)
  /\ \A x \in Levels : /\ Interval[x] \in Nat /\ Interval[x] > 0
                       /\ Interval[x] < StartTime
                       /\ From[x] \in Nat /\ From[x] < x
  /\ StartTime \in Nat /\ Keep \in Nat /\ FirstFlush \in Nat /\ FlushPeriod \in Nat
  /\ HistorySize \in Nat /\ HistorySize > 0 /\ LoadWindow \in Nat /\ LoadWindow > 0
<1>1. Interval \in Seq(Nat \ {0}) /\ Len(Interval) \in Nat
  BY HistoryAssumption
<1>2. \A x \in Levels : Interval[x] \in Nat \ {0}
  BY <1>1 DEF Levels
<1> QED
  BY <1>1, <1>2, HistoryAssumption DEF Levels

\* As many whole intervals as fit.
LEMMA Whole ==
  ASSUME NEW a \in Nat, NEW i \in Nat, i > 0
  PROVE  a \div i \in Nat /\ (a \div i) * i <= a
OBVIOUS

\* n more intervals behind the beginning.
LEMMA Further ==
  ASSUME NEW e \in Nat, NEW d \in Nat, NEW i \in Nat, NEW n \in Nat
  PROVE  /\ e + (d + 1) * i + n * i = e + ((d + n) + 1) * i
         /\ e + (d + 1) * i + (n - 1) * i = e + (d + n) * i
<1>1. ((d + n) + 1) * i = (d + 1) * i + n * i
  OBVIOUS
<1>2. (d + n) * i = (d + 1) * i + (n - 1) * i
  OBVIOUS
<1>3. (d + 1) * i \in Nat /\ n * i \in Nat /\ (n - 1) * i \in Int
  OBVIOUS
<1> QED
  BY <1>1, <1>2, <1>3

\* Turns are taken at times that have come.
LEMMA TurnsTyped ==
  ASSUME Types, NEW x \in Levels
  PROVE  /\ Turns(x) \in Nat
         /\ \A n \in 1 .. Turns(x) : /\ next[x] + (n - 1) * Interval[x] \in Nat
                                     /\ next[x] + (n - 1) * Interval[x] <= clock
<1> DEFINE i == Interval[x]
           a == clock - next[x]
           t == next[x]
<1>1. i \in Nat /\ i > 0
  BY Constants
<1>2. clock \in Nat /\ due \in Nat /\ t \in Nat
  BY DEF Types
<1>3. CASE t > Min2(due, clock)
  BY <1>3 DEF Turns
<1>4. CASE ~ (t > Min2(due, clock))
  <2>1. t <= clock /\ a \in Nat
    BY <1>2, <1>4 DEF Min2
  <2>2. Turns(x) = a \div i + 1
    BY <1>4 DEF Turns
  <2> DEFINE q == a \div i
  <2> HIDE DEF i, t
  <2>3. q \in Nat /\ q * i <= a
    BY <1>1, <2>1, Whole
  <2>4. ASSUME NEW n \in 1 .. q + 1 PROVE t + (n - 1) * i \in Nat /\ t + (n - 1) * i <= clock
    <3>1. n - 1 \in Nat /\ n - 1 <= q
      BY <2>3, <2>4
    <3>2. (n - 1) * i \in Nat /\ (n - 1) * i <= q * i
      BY <1>1, <2>3, <3>1
    <3>3. q * i \in Nat
      BY <1>1, <2>3
    <3> HIDE DEF q
    <3>4. a = clock - t
      BY DEF t
    <3> QED
      BY <1>2, <2>1, <2>3, <3>2, <3>3, <3>4
  <2> QED
    BY <2>2, <2>3, <2>4 DEF i, t
<1> QED
  BY <1>3, <1>4

\* A sample that a turn of level x leaves.
TurnOf(x, s) ==
    /\ id[x] < s.id /\ s.id <= id[x] + Turns(x)
    /\ s.time = next[x] + (s.id - id[x] - 1) * Interval[x]
    /\ s.time <= clock

\* items are samples of turns of level x, each of its own turn.
TurnsOf(x, items) ==
    /\ items \in Seq(Samples)
    /\ \A i \in 1 .. Len(items) : TurnOf(x, items[i])
    /\ \A i, j \in 1 .. Len(items) : items[i].id = items[j].id => i = j

\* What updateHistory leaves of a level's turns, whatever it averages.
LEMMA TurnedTurns ==
  ASSUME Types, NEW x \in Levels, NEW times
  PROVE  TurnsOf(x, Turned(x, times))
<1> DEFINE N == Turns(x)
           item(n) == HistoryItem(x, n, times)
           all == [n \in 1 .. N |-> item(n)]
           S == {s \in Samples : s.time > clock - HistorySize * Interval[x]}
           items == Only(all, S)
<1>1. N \in Nat /\ id[x] \in Nat
  BY TurnsTyped DEF Types
<1>2. ASSUME NEW n \in 1 .. N
      PROVE  /\ item(n) \in Samples /\ TurnOf(x, item(n)) /\ item(n).id = id[x] + n
  <2> DEFINE t == next[x] + (n - 1) * Interval[x]
             b == ~ \E u \in times : u \in (t - Interval[x]) .. t
  <2>1. t \in Nat /\ t <= clock
    BY TurnsTyped
  <2>2. item(n) = [id |-> id[x] + n, time |-> t, empty |-> b]
    BY DEF HistoryItem
  <2>3. b \in BOOLEAN
    OBVIOUS
  <2>5. t = next[x] + (n - 1) * Interval[x]
    OBVIOUS
  <2> HIDE DEF item, b, t
  <2>4. id[x] + n \in Nat /\ id[x] < id[x] + n /\ id[x] + n <= id[x] + N
        /\ (id[x] + n) - id[x] - 1 = n - 1
    BY <1>1
  <2>6. item(n) \in Samples
    BY <2>1, <2>2, <2>3, <2>4 DEF Samples
  <2>7. item(n).id = id[x] + n /\ item(n).time = t
    BY <2>2
  <2> QED
    BY <2>1, <2>4, <2>5, <2>6, <2>7 DEF TurnOf
<1>3. all \in Seq(Samples) /\ Len(all) = N
  BY <1>1, <1>2
<1>4. \A i \in 1 .. N : all[i] = item(i)
  OBVIOUS
<1> HIDE DEF item, all, N
<1>5. Once(all)
  <2>1. ASSUME NEW i \in 1 .. N, NEW j \in 1 .. N, all[i] = all[j] PROVE i = j
    <3>1. id[x] + i = id[x] + j
      BY <1>2, <1>4, <2>1
    <3> QED
      BY <1>1, <3>1
  <2> QED
    BY <1>3, <2>1 DEF Once
<1>6. \A s \in Range(all) : \E n \in 1 .. N : s = item(n)
  BY <1>3, <1>4 DEF Range
<1>7. /\ items \in Seq(Samples) /\ Once(items) /\ Range(items) \subseteq Range(all)
  BY <1>3, <1>5, OnlyType, OnlyOnce, OnlyElements
<1>8. Turned(x, times) = items
  BY DEF Turned, N, all, item
<1> HIDE DEF items
<1>9. ASSUME NEW i \in 1 .. Len(items) PROVE \E n \in 1 .. N : items[i] = item(n)
  <2>1. items[i] \in Range(items)
    BY <1>7 DEF Range
  <2> QED
    BY <1>6, <1>7, <2>1
<1>10. ASSUME NEW i \in 1 .. Len(items), NEW j \in 1 .. Len(items), items[i].id = items[j].id
       PROVE  i = j
  <2>1. PICK m \in 1 .. N : items[i] = item(m)
    BY <1>9
  <2>2. PICK n \in 1 .. N : items[j] = item(n)
    BY <1>9
  <2>3. m = n
    <3>1. id[x] + m = id[x] + n
      BY <1>2, <1>10, <2>1, <2>2
    <3> QED
      BY <1>1, <3>1
  <2> QED
    BY <1>7, <2>1, <2>2, <2>3 DEF Once
<1> QED
  BY <1>2, <1>7, <1>8, <1>9, <1>10 DEF TurnsOf

\* What is pushed on samples is new or was there.
LEMMA PushedOnes ==
  ASSUME NEW samples \in Seq(Samples), NEW items \in Seq(Samples)
  PROVE  /\ Pushed(samples, items) \in Seq(Samples)
         /\ \A k \in 1 .. Len(Pushed(samples, items)) :
               \/ \E i \in 1 .. Len(items) : Pushed(samples, items)[k] = items[i]
               \/ \E i \in 1 .. Len(samples) : Pushed(samples, items)[k] = samples[i]
<1> DEFINE m == Len(items)
           n == Len(samples)
           r == Reverse(items)
           q == r \o samples
           c == Min2(n + m, Max2(n, HistorySize))
<1>1. m \in Nat /\ n \in Nat /\ HistorySize \in Nat
  BY Constants
<1>2. r \in Seq(Samples) /\ Len(r) = m /\ \A i \in 1 .. m : \E j \in 1 .. m : r[i] = items[j]
  <2>1. r = [i \in 1 .. m |-> items[(m - i) + 1]]
    BY DEF Reverse
  <2>2. \A i \in 1 .. m : (m - i) + 1 \in 1 .. m
    BY <1>1
  <2>3. \A i \in 1 .. m : items[(m - i) + 1] \in Samples
    BY <2>2
  <2> HIDE DEF r
  <2> QED
    BY <1>1, <2>1, <2>2, <2>3
<1> HIDE DEF r
<1>3. /\ q \in Seq(Samples) /\ Len(q) = m + n
      /\ \A i \in 1 .. m + n : q[i] = IF i <= m THEN r[i] ELSE samples[i - m]
  <2>1. /\ r \o samples \in Seq(Samples) /\ Len(r \o samples) = Len(r) + Len(samples)
        /\ \A i \in 1 .. Len(r) + Len(samples) :
              (r \o samples)[i] = IF i <= Len(r) THEN r[i] ELSE samples[i - Len(r)]
    BY <1>2, ConcatProperties
  <2> QED
    BY <1>2, <2>1
<1>4. c \in Nat /\ c <= m + n
  BY <1>1 DEF Min2, Max2
<1>5. Pushed(samples, items) = SubSeq(q, 1, c)
  BY DEF Pushed, r
<1> HIDE DEF c, q
<1>6. /\ SubSeq(q, 1, c) \in Seq(Samples)
      /\ Len(SubSeq(q, 1, c)) = c
      /\ \A i \in 1 .. c : SubSeq(q, 1, c)[i] = q[i]
  BY <1>1, <1>3, <1>4
<1>7. ASSUME NEW k \in 1 .. c
      PROVE \/ \E i \in 1 .. m : q[k] = items[i]
            \/ \E i \in 1 .. n : q[k] = samples[i]
  <2>1. k \in 1 .. m + n
    BY <1>1, <1>4
  <2>2. CASE k <= m
    <3>1. k \in 1 .. m /\ q[k] = r[k]
      BY <1>1, <1>3, <2>1, <2>2
    <3> QED
      BY <1>2, <3>1
  <2>3. CASE ~ (k <= m)
    <3>1. k - m \in 1 .. n /\ q[k] = samples[k - m]
      BY <1>1, <1>3, <2>1, <2>3
    <3> QED
      BY <3>1
  <2> QED
    BY <2>2, <2>3
<1> QED
  BY <1>5, <1>6, <1>7

\* ops insert what is not empty among the samples items, each under its own id.
InsertsOf(x, items, ops) ==
    /\ ops \in Seq(InsertOps)
    /\ \A k \in 1 .. Len(ops) :
          /\ ops[k].level = x
          /\ \E i \in 1 .. Len(items) : ops[k].row = Row(items[i])
    /\ \A i \in 1 .. Len(items) : items[i].empty \/ Puts(ops, x, Row(items[i]))
    /\ Once(ops)

\* The rows of a level's new samples are queued, each once.
LEMMA InsertsStand ==
  ASSUME Types, NEW x \in Levels, NEW items, TurnsOf(x, items)
  PROVE  InsertsOf(x, items, Inserts(x, items))
<1> DEFINE S == {s \in Samples : ~s.empty}
           stored == Only(items, S)
           N == Len(stored)
           ops == [k \in 1 .. N |-> Insert(x, Row(stored[k]))]
<1>1. Inserts(x, items) = ops
  BY DEF Inserts
<1>2. items \in Seq(Samples) /\ Once(items)
  BY DEF TurnsOf, Once
<1>3. stored \in Seq(Samples) /\ Once(stored) /\ Range(stored) = Range(items) \cap S
  BY <1>2, OnlyType, OnlyOnce, OnlyElements
<1>4. N \in Nat /\ \A k \in 1 .. N : stored[k] \in Samples
  <2>1. stored \in Seq(Samples)
    BY <1>3
  <2> HIDE DEF stored
  <2> QED
    BY <2>1
<1>5. \A k \in 1 .. N : /\ stored[k] \in S
                        /\ \E i \in 1 .. Len(items) : stored[k] = items[i]
  <2> SUFFICES ASSUME NEW k \in 1 .. N PROVE /\ stored[k] \in S
                                             /\ \E i \in 1 .. Len(items) : stored[k] = items[i]
    OBVIOUS
  <2> HIDE DEF stored
  <2>1. stored[k] \in Range(stored)
    BY <1>3 DEF Range
  <2>2. stored[k] \in S /\ stored[k] \in Range(items)
    BY <1>3, <2>1
  <2> QED
    BY <1>2, <2>2 DEF Range
<1>6. \A i \in 1 .. Len(items) : items[i].empty \/ \E k \in 1 .. N : stored[k] = items[i]
  <2> SUFFICES ASSUME NEW i \in 1 .. Len(items), ~items[i].empty
               PROVE  \E k \in 1 .. N : stored[k] = items[i]
    OBVIOUS
  <2> HIDE DEF stored
  <2>1. items[i] \in Range(items) /\ items[i] \in S
    BY <1>2 DEF Range
  <2>2. items[i] \in Range(stored)
    BY <1>3, <2>1
  <2> QED
    BY <1>3, <2>2 DEF Range
<1> HIDE DEF stored
<1>7. \A k \in 1 .. N : ops[k] = [kind |-> "insert", level |-> x, row |-> Row(stored[k])]
  BY DEF Insert
<1>8. \A s \in Samples : Row(s) \in Rows
  BY DEF Samples, Rows, Row
<1>9. \A k \in 1 .. N : ops[k] \in InsertOps
  <2> SUFFICES ASSUME NEW k \in 1 .. N PROVE ops[k] \in InsertOps
    OBVIOUS
  <2>1. Row(stored[k]) \in Rows
    BY <1>4, <1>8
  <2>2. ops[k] = [kind |-> "insert", level |-> x, row |-> Row(stored[k])]
    BY <1>7
  <2> HIDE DEF ops
  <2> QED
    BY <2>1, <2>2 DEF InsertOps
<1>10. ops \in Seq(InsertOps) /\ Len(ops) = N
  BY <1>4, <1>9
<1> HIDE DEF ops, N
<1>11. ASSUME NEW j \in 1 .. N, NEW k \in 1 .. N, ops[j] = ops[k] PROVE j = k
  <2>1. stored[j].id = stored[k].id
    <3>1. \A i \in 1 .. N : ops[i].row = Row(stored[i])
      <4>1. \A y, r : [kind |-> "insert", level |-> y, row |-> r].row = r
        OBVIOUS
      <4> QED
        BY <1>7, <4>1, Zenon
    <3>2. Row(stored[j]) = Row(stored[k])
      BY <1>11, <3>1, Zenon
    <3> QED
      BY <3>2 DEF Row
  <2>2. PICK a \in 1 .. Len(items) : stored[j] = items[a]
    BY <1>5
  <2>3. PICK b \in 1 .. Len(items) : stored[k] = items[b]
    BY <1>5
  <2>4. a = b
    BY <2>1, <2>2, <2>3 DEF TurnsOf
  <2> QED
    BY <1>3, <2>2, <2>3, <2>4 DEF Once, N
<1>12. Once(ops)
  BY <1>10, <1>11 DEF Once
<1>13. \A k \in 1 .. Len(ops) :
          /\ ops[k].level = x
          /\ \E i \in 1 .. Len(items) : ops[k].row = Row(items[i])
  BY <1>5, <1>7, <1>10
<1>14. \A i \in 1 .. Len(items) : items[i].empty \/ Puts(ops, x, Row(items[i]))
  <2> SUFFICES ASSUME NEW i \in 1 .. Len(items), ~items[i].empty
               PROVE  Puts(ops, x, Row(items[i]))
    OBVIOUS
  <2>1. PICK k \in 1 .. N : stored[k] = items[i]
    BY <1>6
  <2>2. k \in 1 .. Len(ops) /\ ops[k].kind = "insert" /\ ops[k].level = x
        /\ ops[k].row = Row(items[i])
    BY <1>7, <1>10, <2>1
  <2> QED
    BY <2>2 DEF Puts
<1> QED
  BY <1>1, <1>10, <1>12, <1>13, <1>14 DEF InsertsOf

\* all is made of the sequences, and nothing is in it twice.
MadeOf(all, seqs, T) ==
    /\ all \in Seq(T)
    /\ \A e \in Range(all) : \E n \in 1 .. Len(seqs) : e \in Range(seqs[n])
    /\ \A n \in 1 .. Len(seqs) : Range(seqs[n]) \subseteq Range(all)
    /\ Once(all)

\* No two of the sequences share an element, and none has one twice.
Apart(seqs) ==
    /\ \A n \in 1 .. Len(seqs) : Once(seqs[n])
    /\ \A m, n \in 1 .. Len(seqs) : m # n => Range(seqs[m]) \cap Range(seqs[n]) = {}

\* What is joined of sequences that are apart has each of their elements once.
LEMMA FlattenMadeOf ==
  ASSUME NEW T, NEW seqs \in Seq(Seq(T)), Apart(seqs)
  PROVE  MadeOf(FlattenSeq(seqs), seqs, T)
<1> DEFINE N == Len(seqs)
<1>1. PICK f : Joins(f, seqs, T) /\ FlattenSeq(seqs) = f[N]
  BY FlattenJoins
<1>2. N \in Nat /\ \A n \in 1 .. N : seqs[n] \in Seq(T)
  OBVIOUS
<1> DEFINE Upto(n) == /\ f[n] \in Seq(T)
                      /\ \A e \in Range(f[n]) : \E i \in 1 .. n : e \in Range(seqs[i])
                      /\ \A i \in 1 .. n : Range(seqs[i]) \subseteq Range(f[n])
                      /\ Once(f[n])
           Good == {n \in Nat : n <= N => Upto(n)}
<1>3. 0 \in Good
  <2>1. f[0] = <<>>
    BY <1>1 DEF Joins
  <2>2. <<>> \in Seq(T) /\ Range(<<>>) = {} /\ Once(<<>>)
    BY DEF Range, Once
  <2>3. \A i \in 1 .. 0 : FALSE
    OBVIOUS
  <2>4. Upto(0)
    <3> HIDE DEF N
    <3> QED
      BY <2>1, <2>2, <2>3
  <2> HIDE DEF Upto
  <2> QED
    BY <2>4
<1>4. ASSUME NEW n \in Nat, n \in Good PROVE n + 1 \in Good
  <2> SUFFICES ASSUME n + 1 <= N PROVE Upto(n + 1)
    OBVIOUS
  <2> DEFINE s == f[n]
             t == seqs[n + 1]
  <2>1. n + 1 \in 1 .. N /\ (n + 1) - 1 = n /\ Upto(n)
        /\ \A i \in 1 .. n : i \in 1 .. N /\ i # n + 1
    BY <1>2, <1>4
  <2>2. f[n + 1] = s \o t /\ s \in Seq(T) /\ t \in Seq(T)
    BY <1>1, <1>2, <2>1 DEF Joins
  <2>3. Range(f[n + 1]) = Range(s) \cup Range(t) /\ f[n + 1] \in Seq(T)
    BY <2>2, RangeConcatenation, ConcatProperties
  <2>4. Range(s) \cap Range(t) = {}
    <3> SUFFICES ASSUME NEW e \in Range(s), e \in Range(t) PROVE FALSE
      OBVIOUS
    <3>1. PICK i \in 1 .. n : e \in Range(seqs[i])
      BY <2>1
    <3>2. Range(seqs[i]) \cap Range(seqs[n + 1]) = {}
      BY <2>1 DEF Apart
    <3> QED
      BY <3>1, <3>2
  <2>5. Once(f[n + 1])
    <3>1. Once(s) /\ Once(t)
      BY <2>1 DEF Apart
    <3> HIDE DEF s, t
    <3> QED
      BY <2>2, <2>4, <3>1, OnceConcat
  <2>6. \A i \in 1 .. n + 1 : i \in 1 .. n \/ i = n + 1
    OBVIOUS
  <2>7. \A i \in 1 .. n : i \in 1 .. n + 1
    OBVIOUS
  <2>8. n + 1 \in 1 .. n + 1
    OBVIOUS
  <2> QED
    BY <2>1, <2>3, <2>5, <2>6, <2>7, <2>8
<1> HIDE DEF Good
<1>5. N \in Good
  BY <1>2, <1>3, <1>4, NatSetInduction
<1>6. Upto(N)
  BY <1>2, <1>5 DEF Good
<1> QED
  BY <1>1, <1>6 DEF MadeOf

-----------------------------------------------------------------------------
(***************************************************************************)
(* What a second of the thread does: every level gets the samples of its   *)
(* turns, and the queue gets the rows of those that are not empty.         *)
(***************************************************************************)
Gets(items) ==
    /\ items \in [Levels -> Seq(Samples)]
    /\ \A x \in Levels : TurnsOf(x, items[x])
    /\ mem' = [x \in Levels |-> Pushed(mem[x], items[x])]
    /\ queue' = queue \o FlattenSeq([x \in Levels |-> Inserts(x, items[x])])

\* What a level gets when those below it are at g.
LevelFrom(x, level0, g) ==
    LET times == IF From[x] = 0 THEN {level0[i] : i \in 1 .. Len(level0)}
                 ELSE Times(g[From[x]].mem)
        items == Turned(x, times)
    IN  [items |-> items, mem |-> Pushed(mem[x], items)]

\* The levels can be worked out one after the other.
LEMMA LevelsExist ==
  ASSUME NEW level0
  PROVE  \E g : g = [x \in Levels |-> LevelFrom(x, level0, g)]
<1> DEFINE N == Len(Interval)
           Upto(g, n) == g = [x \in 1 .. n |-> LevelFrom(x, level0, g)]
           Good == {n \in Nat : n <= N => \E g : Upto(g, n)}
<1>1. N \in Nat /\ Levels = 1 .. N /\ \A x \in Levels : From[x] \in Nat /\ From[x] < x
  BY Constants
<1>2. 0 \in Good
  <2>1. Upto([x \in 1 .. 0 |-> 0], 0)
    OBVIOUS
  <2> QED
    BY <2>1
<1>3. ASSUME NEW n \in Nat, n \in Good PROVE n + 1 \in Good
  <2> SUFFICES ASSUME n + 1 <= N PROVE \E g : Upto(g, n + 1)
    OBVIOUS
  <2>1. PICK g : Upto(g, n)
    BY <1>1, <1>3
  <2> DEFINE last == LevelFrom(n + 1, level0, g)
             h == [x \in 1 .. n + 1 |-> IF x = n + 1 THEN last ELSE g[x]]
  <2>2. ASSUME NEW x \in 1 .. n + 1 PROVE LevelFrom(x, level0, h) = LevelFrom(x, level0, g)
    <3>1. x \in Levels
      BY <1>1
    <3>2. From[x] = 0 \/ h[From[x]] = g[From[x]]
      <4>1. From[x] = 0 \/ (From[x] \in 1 .. n + 1 /\ From[x] # n + 1)
        BY <1>1, <3>1
      <4> HIDE DEF last
      <4> QED
        BY <4>1
    <3> HIDE DEF h
    <3> QED
      BY <3>2, Zenon DEF LevelFrom
  <2>3. ASSUME NEW x \in 1 .. n + 1 PROVE h[x] = LevelFrom(x, level0, h)
    <3>1. CASE x = n + 1
      <4>1. h[x] = last
        BY <3>1
      <4> QED
        BY <2>2, <3>1, <4>1
    <3>2. CASE x # n + 1
      <4>1. x \in 1 .. n
        BY <3>2
      <4>2. h[x] = g[x] /\ g[x] = LevelFrom(x, level0, g)
        BY <2>1, <4>1
      <4> QED
        BY <2>2, <4>2
    <3> QED
      BY <3>1, <3>2
  <2>4. Upto(h, n + 1)
    <3> DEFINE k == [x \in 1 .. n + 1 |-> LevelFrom(x, level0, h)]
    <3>1. \A x \in 1 .. n + 1 : h[x] = k[x]
      BY <2>3
    <3> QED
      BY <3>1
  <2> HIDE DEF Upto
  <2> QED
    BY <2>4
<1> HIDE DEF Good
<1>4. N \in Good
  BY <1>1, <1>2, <1>3, NatSetInduction
<1> QED
  BY <1>1, <1>4 DEF Good

\* A second of the thread gives every level the samples of its turns.
LEMMA SampleGets ==
  ASSUME Types, NEW taken \in BOOLEAN, Sample(taken)
  PROVE  \E items : Gets(items)
<1> DEFINE level0 == IF taken THEN Pushed(recent, <<due>>) ELSE recent
           All(g) == g = [x \in Levels |->
                            LET times == IF From[x] = 0 THEN {level0[i] : i \in 1 .. Len(level0)}
                                         ELSE Times(g[From[x]].mem)
                                items == Turned(x, times)
                            IN  [items |-> items, mem |-> Pushed(mem[x], items)]]
           level == CHOOSE g : All(g)
<1>1. \E g : All(g)
  <2>1. \E g : g = [x \in Levels |-> LevelFrom(x, level0, g)]
    BY LevelsExist
  <2> QED
    BY <2>1, Zenon DEF LevelFrom
<1>2. All(level)
  BY <1>1
<1>3. /\ mem' = [x \in Levels |-> level[x].mem]
      /\ queue' = queue \o FlattenSeq([x \in Levels |-> Inserts(x, level[x].items)])
  BY Zenon DEF Sample
<1> HIDE DEF level
<1> DEFINE from(x) == IF From[x] = 0 THEN {level0[i] : i \in 1 .. Len(level0)}
                      ELSE Times(level[From[x]].mem)
           items == [x \in Levels |-> Turned(x, from(x))]
<1>4. \A x \in Levels : level[x] = [items |-> Turned(x, from(x)),
                                    mem |-> Pushed(mem[x], Turned(x, from(x)))]
  BY <1>2
<1> HIDE DEF from
<1>5. \A x \in Levels : level[x].items = items[x] /\ level[x].mem = Pushed(mem[x], items[x])
  <2>1. \A i, m : [items |-> i, mem |-> m].items = i /\ [items |-> i, mem |-> m].mem = m
    OBVIOUS
  <2>2. \A x \in Levels : items[x] = Turned(x, from(x))
    OBVIOUS
  <2> HIDE DEF items
  <2> SUFFICES ASSUME NEW x \in Levels
               PROVE  level[x].items = items[x] /\ level[x].mem = Pushed(mem[x], items[x])
    OBVIOUS
  <2>3. level[x] = [items |-> Turned(x, from(x)), mem |-> Pushed(mem[x], Turned(x, from(x)))]
    BY <1>4
  <2> DEFINE its == Turned(x, from(x))
             ms  == Pushed(mem[x], its)
  <2>4. level[x] = [items |-> its, mem |-> ms] /\ its = items[x]
    BY <2>2, <2>3
  <2>5. ms = Pushed(mem[x], items[x])
    BY <2>2
  <2> HIDE DEF its, ms
  <2> QED
    BY <2>4, <2>5
<1>6. \A x \in Levels : TurnsOf(x, items[x])
  BY TurnedTurns
<1>7. items \in [Levels -> Seq(Samples)]
  BY <1>6 DEF TurnsOf
<1> HIDE DEF items
<1>8. [x \in Levels |-> level[x].mem] = [x \in Levels |-> Pushed(mem[x], items[x])]
  BY <1>5
<1>9. [x \in Levels |-> Inserts(x, level[x].items)] = [x \in Levels |-> Inserts(x, items[x])]
  BY <1>5
<1> QED
  BY <1>3, <1>6, <1>7, <1>8, <1>9 DEF Gets

\* What is new in the queue after a second.
Fills(items) ==
    /\ queue' \in Seq(InsertOps) /\ Len(queue) <= Len(queue')
    /\ \A i \in 1 .. Len(queue) : queue'[i] = queue[i]
    /\ \A i \in Len(queue) + 1 .. Len(queue') :
          \E k \in 1 .. Len(items[queue'[i].level]) :
             queue'[i].row = Row(items[queue'[i].level][k])
    /\ \A i, j \in Len(queue) + 1 .. Len(queue') : queue'[i] = queue'[j] => i = j
    /\ \A x \in Levels : \A i \in 1 .. Len(items[x]) :
          items[x][i].empty \/ Puts(queue', x, Row(items[x][i]))

\* And queues their rows, each once, behind what is queued.
LEMMA GetsFills ==
  ASSUME Types, NEW items, Gets(items)
  PROVE  Fills(items)
<1> DEFINE N == Len(Interval)
           seqs == [x \in Levels |-> Inserts(x, items[x])]
           all == FlattenSeq(seqs)
<1>1. N \in Nat /\ Levels = 1 .. N
  BY Constants
<1>2. \A x \in Levels : InsertsOf(x, items[x], seqs[x])
  BY InsertsStand DEF Gets
<1>3. seqs \in Seq(Seq(InsertOps)) /\ Len(seqs) = N
  <2>1. \A x \in Levels : seqs[x] \in Seq(InsertOps)
    BY <1>2, Zenon DEF InsertsOf
  <2>2. seqs = [x \in Levels |-> seqs[x]]
    OBVIOUS
  <2> HIDE DEF seqs
  <2>3. seqs \in [1 .. N -> Seq(InsertOps)]
    BY <1>1, <2>1, <2>2
  <2> HIDE DEF N
  <2> QED
    BY <1>1, <2>3
<1> HIDE DEF seqs
<1>4. \A x \in Levels : \A e \in Range(seqs[x]) :
         /\ e.level = x
         /\ \E i \in 1 .. Len(items[x]) : e.row = Row(items[x][i])
  <2> SUFFICES ASSUME NEW x \in Levels, NEW e \in Range(seqs[x])
               PROVE  /\ e.level = x
                      /\ \E i \in 1 .. Len(items[x]) : e.row = Row(items[x][i])
    OBVIOUS
  <2>1. PICK k \in 1 .. Len(seqs[x]) : e = seqs[x][k]
    <3>1. seqs[x] \in Seq(InsertOps)
      BY <1>2 DEF InsertsOf
    <3> QED
      BY <3>1 DEF Range
  <2> QED
    BY <1>2, <2>1 DEF InsertsOf
<1>5. Apart(seqs)
  <2>1. \A n \in 1 .. Len(seqs) : Once(seqs[n])
    BY <1>1, <1>2, <1>3 DEF InsertsOf
  <2>2. \A m, n \in 1 .. Len(seqs) : m # n => Range(seqs[m]) \cap Range(seqs[n]) = {}
    <3> SUFFICES ASSUME NEW j \in Levels, NEW k \in Levels, j # k,
                        NEW e \in Range(seqs[j]), e \in Range(seqs[k])
                 PROVE  FALSE
      <4>1. 1 .. Len(seqs) = Levels
        BY <1>1, <1>3
      <4> QED
        BY <4>1, Zenon
    <3> QED
      BY <1>4
  <2> QED
    BY <2>1, <2>2 DEF Apart
<1>6. MadeOf(all, seqs, InsertOps)
  BY <1>3, <1>5, FlattenMadeOf
<1>7. queue' = queue \o all
  BY DEF Gets, seqs
<1> HIDE DEF all
<1> DEFINE m == Len(queue)
           n == Len(all)
<1>8. queue \in Seq(InsertOps) /\ all \in Seq(InsertOps) /\ m \in Nat /\ n \in Nat
  <2>1. queue \in Seq(InsertOps) /\ all \in Seq(InsertOps)
    BY <1>6 DEF Types, MadeOf
  <2> QED
    BY <2>1
<1>9. /\ queue' \in Seq(InsertOps) /\ Len(queue') = m + n
      /\ \A i \in 1 .. m + n : queue'[i] = IF i <= m THEN queue[i] ELSE all[i - m]
  <2>1. /\ queue \o all \in Seq(InsertOps) /\ Len(queue \o all) = m + n
        /\ \A i \in 1 .. m + n : (queue \o all)[i] = IF i <= m THEN queue[i] ELSE all[i - m]
    BY <1>8, ConcatProperties
  <2> QED
    BY <1>7, <2>1
<1>10. \A i \in m + 1 .. m + n : i - m \in 1 .. n /\ queue'[i] = all[i - m]
  BY <1>8, <1>9, SMTT(30)
<1>11. \A i \in 1 .. n : m + i \in 1 .. m + n /\ queue'[m + i] = all[i]
  BY <1>8, <1>9
<1>12. \A i \in 1 .. m : queue'[i] = queue[i]
  BY <1>8, <1>9
<1>13. ASSUME NEW i \in m + 1 .. m + n
       PROVE  \E k \in 1 .. Len(items[queue'[i].level]) :
                 queue'[i].row = Row(items[queue'[i].level][k])
  <2>1. queue'[i] \in Range(all)
    <3>1. i - m \in DOMAIN all /\ queue'[i] = all[i - m]
      BY <1>8, <1>10
    <3> QED
      BY <3>1, Zenon DEF Range
  <2>2. PICK x \in 1 .. Len(seqs) : queue'[i] \in Range(seqs[x])
    BY <1>6, <2>1 DEF MadeOf
  <2>3. x \in Levels
    BY <1>1, <1>3
  <2>4. queue'[i].level = x /\ \E k \in 1 .. Len(items[x]) : queue'[i].row = Row(items[x][k])
    BY <1>4, <2>2, <2>3, Zenon
  <2> QED
    BY <2>4, Zenon
<1>14. ASSUME NEW i \in m + 1 .. m + n, NEW j \in m + 1 .. m + n, queue'[i] = queue'[j]
       PROVE  i = j
  <2>1. all[i - m] = all[j - m] /\ i - m \in 1 .. n /\ j - m \in 1 .. n
    BY <1>10, <1>14
  <2>2. i - m = j - m
    BY <1>6, <2>1 DEF MadeOf, Once
  <2> QED
    BY <1>8, <2>2
<1>15. ASSUME NEW x \in Levels, NEW i \in 1 .. Len(items[x]), ~items[x][i].empty
       PROVE  Puts(queue', x, Row(items[x][i]))
  <2>1. Puts(seqs[x], x, Row(items[x][i]))
    BY <1>2, <1>15 DEF InsertsOf
  <2>2. PICK k \in 1 .. Len(seqs[x]) : /\ seqs[x][k].kind = "insert" /\ seqs[x][k].level = x
                                       /\ seqs[x][k].row = Row(items[x][i])
    BY <2>1 DEF Puts
  <2>3. seqs[x][k] \in Range(all)
    <3>1. seqs[x] \in Seq(InsertOps) /\ x \in 1 .. Len(seqs)
      BY <1>1, <1>2, <1>3 DEF InsertsOf
    <3>2. seqs[x][k] \in Range(seqs[x])
      BY <3>1 DEF Range
    <3> QED
      BY <1>6, <3>1, <3>2 DEF MadeOf
  <2>4. PICK j \in 1 .. n : all[j] = seqs[x][k]
    BY <1>8, <2>3 DEF Range
  <2>5. m + j \in 1 .. Len(queue') /\ queue'[m + j] = seqs[x][k]
    BY <1>9, <1>11, <2>4
  <2> QED
    BY <2>2, <2>5 DEF Puts
<1> QED
  BY <1>8, <1>9, <1>12, <1>13, <1>14, <1>15 DEF Fills

\* The rows of the items are in time, and new.
LEMMA TurnInTime ==
  ASSUME Types, IdsAreBehind, up, NEW x \in Levels, NEW s \in Samples, TurnOf(x, s)
  PROVE  /\ InTime(x, Row(s)) /\ Row(s).id = s.id
         /\ s.time = epoch[x] + s.id * Interval[x]
         /\ \A r \in table[x] : r.id < s.id
         /\ \A i \in 1 .. Len(queue) : queue[i].level = x => queue[i].row.id < s.id
<1> DEFINE e == epoch[x]
           d == id[x]
           i == Interval[x]
           k == s.id
<1>1. e \in Nat /\ d \in Nat /\ i \in Nat /\ k \in Nat /\ s.time \in Nat /\ clock \in Nat
  BY Constants DEF Types, Samples
<1>2. d < k /\ s.time = next[x] + (k - d - 1) * i /\ s.time <= clock
  BY DEF TurnOf
<1>3. next[x] = e + (d + 1) * i
  BY DEF IdsAreBehind
<1>4. \A r \in table[x] : r.id <= d /\ r.id \in Nat
  BY DEF IdsAreBehind, Types, Rows
<1>5. \A j \in 1 .. Len(queue) : queue[j].level = x => queue[j].row.id <= d /\ queue[j].row.id \in Nat
  <2>1. \A j \in 1 .. Len(queue) : queue[j] \in InsertOps
    BY DEF Types
  <2> QED
    BY <2>1 DEF IdsAreBehind, InsertOps, Rows
<1>6. Row(s).id = k /\ Row(s).time = s.time
  BY DEF Row
<1> HIDE DEF e, d, i, k
<1>7. s.time = e + k * i
  <2> DEFINE n == k - d
  <2>1. n \in Nat /\ d + n = k /\ k - d - 1 = n - 1
    BY <1>1, <1>2
  <2> HIDE DEF n
  <2>2. e + (d + 1) * i + (n - 1) * i = e + (d + n) * i
    BY <1>1, <2>1, Further
  <2> QED
    BY <1>2, <1>3, <2>1, <2>2
<1>8. k >= 1 /\ s.time <= clock + 1
  BY <1>1, <1>2
<1>9. InTime(x, Row(s))
  BY <1>2, <1>6, <1>7, <1>8 DEF InTime, e, i, k
<1>10. \A r \in table[x] : r.id < k
  BY <1>1, <1>2, <1>4
<1>11. \A j \in 1 .. Len(queue) : queue[j].level = x => queue[j].row.id < k
  BY <1>1, <1>2, <1>5
<1> QED
  BY <1>6, <1>7, <1>9, <1>10, <1>11 DEF e, d, i, k

\* What is queued, as a statement that inserts it.
LEMMA QueuedIsPut ==
  \A x, r : r \in Queued(x) <=> Puts(queue, x, r)
BY Zenon DEF Queued, Puts

\* The queued rows have an id each.
OwnIds(ops) ==
    \A i, j \in 1 .. Len(ops) : ops[i].level = ops[j].level /\ ops[i].row.id = ops[j].row.id => i = j

\* A second of the thread keeps the invariant.
LEMMA SampleKeeps ==
  ASSUME HistoryInv, NEW taken \in BOOLEAN, Sample(taken)
  PROVE  HistoryInv'
<1>1. PICK items : Gets(items)
  BY SampleGets DEF HistoryInv
<1>2. Fills(items)
  BY <1>1, GetsFills DEF HistoryInv
<1>3. /\ up /\ up' = up /\ clock' = clock /\ table' = table /\ epoch' = epoch /\ failed' = failed
      /\ id' = [x \in Levels |-> id[x] + Turns(x)]
      /\ next' = [x \in Levels |-> next[x] + Turns(x) * Interval[x]]
      /\ due' = IF due + 1 > clock THEN due + 1 ELSE clock + 1
  BY Zenon DEF Sample, threadVars, memoryVars, diskVars
<1>4. Types /\ IdsAreBehind /\ StoredInTime /\ QueuedInTime /\ MemoryOnTime
      /\ NoKeyCollision /\ ShownIsStored
  BY DEF HistoryInv
<1>5. \A x \in Levels : TurnsOf(x, items[x]) /\ items[x] \in Seq(Samples)
  BY <1>1 DEF Gets
<1>6. \A x \in Levels : \A i \in 1 .. Len(items[x]) :
         items[x][i] \in Samples /\ TurnOf(x, items[x][i])
  BY <1>5 DEF TurnsOf
<1>7. ASSUME NEW x \in Levels, NEW i \in 1 .. Len(items[x])
      PROVE  /\ InTime(x, Row(items[x][i])) /\ Row(items[x][i]).id = items[x][i].id
             /\ items[x][i].time = epoch[x] + items[x][i].id * Interval[x]
             /\ \A r \in table[x] : r.id < items[x][i].id
             /\ \A j \in 1 .. Len(queue) : queue[j].level = x => queue[j].row.id < items[x][i].id
  BY <1>3, <1>4, <1>6, TurnInTime
<1>8. \A x \in Levels : Turns(x) \in Nat /\ id'[x] = id[x] + Turns(x)
                        /\ next'[x] = next[x] + Turns(x) * Interval[x]
  BY <1>3, <1>4, TurnsTyped
<1>9. mem' = [x \in Levels |-> Pushed(mem[x], items[x])]
  BY <1>1 DEF Gets
<1>10. \A x \in Levels : mem[x] \in Seq(Samples)
  BY <1>4 DEF Types
<1>11. \A x \in Levels :
         /\ mem'[x] \in Seq(Samples)
         /\ \A k \in 1 .. Len(mem'[x]) :
               \/ \E i \in 1 .. Len(items[x]) : mem'[x][k] = items[x][i]
               \/ \E i \in 1 .. Len(mem[x]) : mem'[x][k] = mem[x][i]
  <2> SUFFICES ASSUME NEW x \in Levels
               PROVE  /\ mem'[x] \in Seq(Samples)
                      /\ \A k \in 1 .. Len(mem'[x]) :
                           \/ \E i \in 1 .. Len(items[x]) : mem'[x][k] = items[x][i]
                           \/ \E i \in 1 .. Len(mem[x]) : mem'[x][k] = mem[x][i]
    OBVIOUS
  <2>1. mem'[x] = Pushed(mem[x], items[x])
    BY <1>9
  <2> QED
    <3> DEFINE ms == mem[x]
               its == items[x]
               p == Pushed(ms, its)
    <3>1. ms \in Seq(Samples) /\ its \in Seq(Samples)
      BY <1>5, <1>10
    <3> HIDE DEF ms, its
    <3>2. /\ p \in Seq(Samples)
          /\ \A k \in 1 .. Len(p) : \/ \E i \in 1 .. Len(its) : p[k] = its[i]
                                    \/ \E i \in 1 .. Len(ms) : p[k] = ms[i]
      BY <3>1, PushedOnes
    <3>3. mem'[x] = p
      BY <2>1 DEF ms, its
    <3> HIDE DEF p
    <3> QED
      BY <3>2, <3>3 DEF ms, its
<1>12. /\ queue' \in Seq(InsertOps) /\ Len(queue) <= Len(queue')
       /\ Len(queue) \in Nat /\ Len(queue') \in Nat
  <2>1. queue \in Seq(InsertOps) /\ queue' \in Seq(InsertOps)
    BY <1>2, <1>4 DEF Types, Fills
  <2> QED
    BY <1>2, <2>1 DEF Fills
<1>13. \A i \in 1 .. Len(queue') : i \in 1 .. Len(queue) \/ i \in Len(queue) + 1 .. Len(queue')
  BY <1>12
<1>14. \A i \in 1 .. Len(queue) : queue'[i] = queue[i] /\ i \in 1 .. Len(queue')
  BY <1>2, <1>12 DEF Fills
<1>15. \A i \in 1 .. Len(queue') : queue'[i] \in InsertOps /\ queue'[i].level \in Levels
  <2> SUFFICES ASSUME NEW i \in 1 .. Len(queue')
               PROVE  queue'[i] \in InsertOps /\ queue'[i].level \in Levels
    OBVIOUS
  <2>1. queue'[i] \in InsertOps
    BY <1>12
  <2> QED
    BY <2>1 DEF InsertOps
<1>16. \A i \in Len(queue) + 1 .. Len(queue') :
         /\ i \in 1 .. Len(queue')
         /\ \E k \in 1 .. Len(items[queue'[i].level]) :
               queue'[i].row = Row(items[queue'[i].level][k])
  BY <1>2, <1>12, SMTT(30) DEF Fills
<1>17. Types'
  <2>1. mem' \in [Levels -> Seq(Samples)]
    BY <1>9, <1>11
  <2>2. id' \in [Levels -> Nat] /\ next' \in [Levels -> Nat]
    <3>1. \A x \in Levels : id[x] + Turns(x) \in Nat /\ next[x] + Turns(x) * Interval[x] \in Nat
      <4>1. \A x \in Levels : id[x] \in Nat /\ next[x] \in Nat /\ Interval[x] \in Nat
        BY <1>4, Constants DEF Types
      <4>2. \A a, b, c \in Nat : a + b \in Nat /\ a + b * c \in Nat
        OBVIOUS
      <4> QED
        BY <1>8, <4>1, <4>2, Zenon
    <3> QED
      BY <1>3, <3>1
  <2>3. due' \in Nat
    BY <1>3, <1>4 DEF Types
  <2> QED
    BY <1>3, <1>4, <1>12, <2>1, <2>2, <2>3 DEF Types
<1>18. \A x, r : InTime(x, r)' <=> InTime(x, r)
  BY <1>3 DEF InTime
<1>19. StoredInTime'
  BY <1>3, <1>4, <1>18 DEF StoredInTime
<1>20. \A i \in 1 .. Len(queue') : InTime(queue'[i].level, queue'[i].row)
  <2> SUFFICES ASSUME NEW i \in 1 .. Len(queue') PROVE InTime(queue'[i].level, queue'[i].row)
    OBVIOUS
  <2>1. CASE i \in 1 .. Len(queue)
    BY <1>4, <1>14, <2>1 DEF QueuedInTime
  <2>2. CASE i \in Len(queue) + 1 .. Len(queue')
    BY <1>7, <1>15, <1>16, <2>2
  <2> QED
    BY <1>13, <2>1, <2>2
<1>21. QueuedInTime'
  BY <1>18, <1>20 DEF QueuedInTime
<1>22. MemoryOnTime'
  <2> SUFFICES ASSUME NEW x \in Levels, NEW k \in 1 .. Len(mem'[x])
               PROVE  mem'[x][k].time = epoch[x] + mem'[x][k].id * Interval[x]
    BY <1>3 DEF MemoryOnTime
  <2>1. CASE \E i \in 1 .. Len(items[x]) : mem'[x][k] = items[x][i]
    BY <1>7, <2>1
  <2>2. CASE \E i \in 1 .. Len(mem[x]) : mem'[x][k] = mem[x][i]
    BY <1>4, <2>2 DEF MemoryOnTime
  <2> QED
    BY <1>11, <2>1, <2>2
<1>23. IdsAreBehind'
  <2> SUFFICES ASSUME NEW x \in Levels
               PROVE  /\ next'[x] = epoch[x] + (id'[x] + 1) * Interval[x]
                      /\ \A r \in table[x] : r.id <= id'[x]
                      /\ \A i \in 1 .. Len(queue') : queue'[i].level = x =>
                            queue'[i].row.id <= id'[x]
    BY <1>3 DEF IdsAreBehind
  <2>1. id[x] \in Nat /\ Turns(x) \in Nat /\ epoch[x] \in Nat /\ Interval[x] \in Nat
    BY <1>4, <1>8, Constants DEF Types
  <2>2. next'[x] = epoch[x] + (id'[x] + 1) * Interval[x]
    <3>1. next[x] = epoch[x] + (id[x] + 1) * Interval[x]
      BY <1>3, <1>4 DEF IdsAreBehind
    <3> DEFINE e == epoch[x]
               d == id[x]
               i == Interval[x]
               n == Turns(x)
    <3>2. e \in Nat /\ d \in Nat /\ i \in Nat /\ n \in Nat
      BY <2>1
    <3>3. next'[x] = e + (d + 1) * i + n * i /\ id'[x] = d + n
      BY <1>8, <3>1
    <3> HIDE DEF e, d, i, n
    <3>4. next'[x] = e + (id'[x] + 1) * i
      BY <3>2, <3>3, Further
    <3> QED
      BY <3>4 DEF e, i
  <2>3. \A n \in Nat : n <= id[x] => n <= id'[x]
    BY <1>8, <2>1
  <2>4. \A r \in table[x] : r.id <= id[x] /\ r.id \in Nat
    BY <1>3, <1>4 DEF IdsAreBehind, Types, Rows
  <2>5. ASSUME NEW i \in 1 .. Len(queue'), queue'[i].level = x PROVE queue'[i].row.id <= id'[x]
    <3>1. CASE i \in 1 .. Len(queue)
      <4>1. queue[i].row.id <= id[x] /\ queue[i].row.id \in Nat
        BY <1>3, <1>4, <1>14, <1>15, <2>5, <3>1 DEF IdsAreBehind, InsertOps, Rows
      <4> QED
        BY <1>14, <2>3, <3>1, <4>1
    <3>2. CASE i \in Len(queue) + 1 .. Len(queue')
      <4>1. PICK k \in 1 .. Len(items[x]) : queue'[i].row = Row(items[x][k])
        BY <1>16, <2>5, <3>2
      <4>2. items[x][k].id <= id'[x]
        BY <1>6, <1>8 DEF TurnOf
      <4> QED
        BY <1>7, <4>1, <4>2
    <3> QED
      BY <1>13, <3>1, <3>2
  <2> QED
    BY <2>2, <2>3, <2>4, <2>5
<1>24. DownIsEmpty'
  BY <1>3 DEF DownIsEmpty
<1>25. OwnIds(queue')
  <2> SUFFICES ASSUME NEW i \in 1 .. Len(queue'), NEW j \in 1 .. Len(queue'),
                      queue'[i].level = queue'[j].level, queue'[i].row.id = queue'[j].row.id
               PROVE  i = j
    BY DEF OwnIds
  <2> DEFINE x == queue'[i].level
  <2>1. x \in Levels
    BY <1>15
  <2>2. \A k \in Len(queue) + 1 .. Len(queue') : queue'[k].level = x =>
           \A l \in 1 .. Len(queue) : queue[l].level = x => queue[l].row.id < queue'[k].row.id
    BY <1>7, <1>16, <2>1, SMTT(30)
  <2>3. \A l \in 1 .. Len(queue') : queue'[l].row.id \in Nat
    BY <1>15 DEF InsertOps, Rows
  <2>4. CASE i \in 1 .. Len(queue) /\ j \in 1 .. Len(queue)
    BY <1>4, <1>14, <2>4 DEF NoKeyCollision
  <2>5. CASE i \in 1 .. Len(queue) /\ j \in Len(queue) + 1 .. Len(queue')
    <3>1. queue'[i].row.id < queue'[j].row.id
      BY <1>14, <2>2, <2>5
    <3> QED
      BY <2>3, <3>1
  <2>6. CASE j \in 1 .. Len(queue) /\ i \in Len(queue) + 1 .. Len(queue')
    <3>1. queue'[j].row.id < queue'[i].row.id
      BY <1>14, <2>2, <2>6
    <3> QED
      BY <2>3, <3>1
  <2>7. CASE i \in Len(queue) + 1 .. Len(queue') /\ j \in Len(queue) + 1 .. Len(queue')
    <3>1. PICK k \in 1 .. Len(items[x]) : queue'[i].row = Row(items[x][k])
      BY <1>16, <2>7
    <3>2. PICK l \in 1 .. Len(items[x]) : queue'[j].row = Row(items[x][l])
      BY <1>16, <2>7
    <3>3. k = l
      <4>1. items[x][k].id = items[x][l].id
        BY <1>7, <2>1, <3>1, <3>2
      <4> QED
        BY <1>5, <2>1, <4>1 DEF TurnsOf
    <3>4. queue'[i] = queue'[j]
      <4>1. \A a, b \in InsertOps : a.level = b.level /\ a.row = b.row => a = b
        BY DEF InsertOps
      <4> QED
        BY <1>15, <3>1, <3>2, <3>3, <4>1
    <3> QED
      BY <1>2, <2>7, <3>4 DEF Fills
  <2> QED
    BY <1>13, <2>4, <2>5, <2>6, <2>7
<1>26. \A x \in Levels : \A r : Puts(queue', x, r) =>
          \/ Puts(queue, x, r)
          \/ \E k \in 1 .. Len(items[x]) : r = Row(items[x][k])
  <2> SUFFICES ASSUME NEW x \in Levels, NEW i \in 1 .. Len(queue'), queue'[i].level = x,
                      queue'[i].kind = "insert"
               PROVE  \/ Puts(queue, x, queue'[i].row)
                      \/ \E k \in 1 .. Len(items[x]) : queue'[i].row = Row(items[x][k])
    BY Zenon DEF Puts
  <2>1. CASE i \in 1 .. Len(queue)
    BY <1>14, <2>1 DEF Puts
  <2>2. CASE i \in Len(queue) + 1 .. Len(queue')
    BY <1>16, <2>2
  <2> QED
    BY <1>13, <2>1, <2>2
<1>27. \A x, r : Puts(queue, x, r) => Puts(queue', x, r)
  BY <1>14 DEF Puts
<1>28. \A x, r : r \in Queued(x)' <=> Puts(queue', x, r)
  BY Zenon DEF Queued, Puts
<1>29. NoKeyCollision'
  <2>1. ASSUME NEW x \in Levels PROVE (Ids(Queued(x)) \cap Ids(table[x]))' = {}
    <3> SUFFICES ASSUME NEW q \in Queued(x)', NEW r \in table[x], q.id = r.id PROVE FALSE
      BY <1>3 DEF Ids
    <3>1. Puts(queue', x, q)
      BY <1>28
    <3>2. CASE Puts(queue, x, q)
      <4>1. q \in Queued(x)
        BY <3>2, QueuedIsPut
      <4> QED
        BY <1>4, <4>1 DEF NoKeyCollision, Ids
    <3>3. CASE \E k \in 1 .. Len(items[x]) : q = Row(items[x][k])
      <4>1. r.id < q.id
        BY <1>7, <3>3
      <4>2. r.id \in Nat
        BY <1>4 DEF Types, Rows
      <4> QED
        BY <4>1, <4>2
    <3> QED
      BY <1>26, <3>1, <3>2, <3>3
  <2> QED
    BY <1>25, <2>1 DEF NoKeyCollision, OwnIds
<1>30. ShownIsStored'
  <2> SUFFICES ASSUME NEW x \in Levels, NEW k \in 1 .. Len(mem'[x])
               PROVE  \/ mem'[x][k].empty
                      \/ mem'[x][k].id < id'[x] - Keep
                      \/ Row(mem'[x][k]) \in table[x] \/ Row(mem'[x][k]) \in Queued(x)'
                      \/ Row(mem'[x][k]) \in failed[x]
    <3> DEFINE Kept(y, s) == \/ s.empty \/ s.id < id'[y] - Keep
                             \/ Row(s) \in table[y] \/ Row(s) \in Queued(y)'
                             \/ Row(s) \in failed[y]
    <3>1. \A y \in Levels : \A k \in 1 .. Len(mem'[y]) : Kept(y, mem'[y][k])
      OBVIOUS
    <3>2. \A y \in Levels : table'[y] = table[y] /\ failed'[y] = failed[y]
      BY <1>3
    <3> QED
      BY <3>1, <3>2, Zenon DEF ShownIsStored
  <2>1. CASE \E i \in 1 .. Len(items[x]) : mem'[x][k] = items[x][i]
    <3>1. PICK i \in 1 .. Len(items[x]) : mem'[x][k] = items[x][i]
      BY <2>1
    <3>2. items[x][i].empty \/ Puts(queue', x, Row(items[x][i]))
      BY <1>2 DEF Fills
    <3> QED
      BY <1>28, <3>1, <3>2
  <2>2. CASE \E i \in 1 .. Len(mem[x]) : mem'[x][k] = mem[x][i]
    <3>1. PICK i \in 1 .. Len(mem[x]) : mem'[x][k] = mem[x][i]
      BY <2>2
    <3> DEFINE s == mem[x][i]
    <3>2. \/ s.empty \/ s.id < id[x] - Keep
          \/ Row(s) \in table[x] \/ Row(s) \in Queued(x) \/ Row(s) \in failed[x]
      BY <1>3, <1>4 DEF ShownIsStored
    <3>3. s.id < id[x] - Keep => s.id < id'[x] - Keep
      <4>1. s \in Samples
        BY <1>10
      <4>2. s.id \in Nat
        BY <4>1 DEF Samples
      <4>3. id[x] \in Nat /\ id'[x] = id[x] + Turns(x) /\ Turns(x) \in Nat /\ Keep \in Nat
        BY <1>4, <1>8, Constants DEF Types
      <4> QED
        BY <4>2, <4>3
    <3>4. Row(s) \in Queued(x) => Puts(queue', x, Row(s))
      BY <1>27, QueuedIsPut
    <3> QED
      BY <1>28, <3>1, <3>2, <3>3, <3>4
  <2> QED
    BY <1>11, <2>1, <2>2
<1> QED
  BY <1>17, <1>19, <1>21, <1>22, <1>23, <1>24, <1>29, <1>30 DEF HistoryInv

-----------------------------------------------------------------------------
(***************************************************************************)
(* The queue is executed.                                                  *)
(***************************************************************************)
\* A level's rows, stored or queued, have an id each.
LEMMA OneRowPerId ==
  ASSUME Types, StoredInTime, QueuedInTime, NEW x \in Levels,
         NEW r \in Rows, NEW s \in Rows, r.id = s.id,
         r \in table[x] \/ Puts(queue, x, r), s \in table[x] \/ Puts(queue, x, s)
  PROVE  r = s
<1>1. \A q : Puts(queue, x, q) => InTime(x, q)
  BY DEF Puts, QueuedInTime
<1>2. InTime(x, r) /\ InTime(x, s)
  BY <1>1 DEF StoredInTime
<1>3. r.time = s.time
  BY <1>2 DEF InTime
<1> QED
  BY <1>3 DEF Rows

\* Some of what waits has been executed, by ops, and nothing else.
LEMMA RowsAfter ==
  ASSUME Types, StoredInTime, QueuedInTime, NEW ops \in Seq(Ops),
         \A x, r : Puts(ops, x, r) => Puts(queue, x, r)
  PROVE  /\ ExecuteAll(table, ops) \in Tables
         /\ \A x \in Levels : IsFiniteSet(ExecuteAll(table, ops)[x])
         /\ \A x \in Levels : \A r \in ExecuteAll(table, ops)[x] :
               /\ r \in table[x] \/ Puts(queue, x, r)
               /\ InTime(x, r)
<1>1. table \in Tables /\ \A x \in Levels : IsFiniteSet(table[x])
  BY DEF Types, Tables
<1>2. \A x, q : Puts(queue, x, q) => InTime(x, q)
  BY DEF Puts, QueuedInTime
<1> DEFINE t == ExecuteAll(table, ops)
<1>3. /\ t \in Tables
      /\ \A x \in Levels : IsFiniteSet(t[x])
      /\ \A x \in Levels : \A r \in t[x] : r \in table[x] \/ Puts(ops, x, r)
  BY <1>1, StoredOrPut
<1> HIDE DEF t
<1> QED
  BY <1>2, <1>3 DEF StoredInTime, t

\* What ends with the process has its type.
LEMMA DownTyped ==
  ASSUME Down
  PROVE  /\ up' = FALSE /\ due' \in Nat /\ queue' \in Seq(InsertOps)
         /\ mem' \in [Levels -> Seq(Samples)] /\ id' \in [Levels -> Nat]
         /\ next' \in [Levels -> Nat] /\ failed' \in [Levels -> SUBSET Rows]
<1>1. \A T : <<>> \in Seq(T)
  OBVIOUS
<1>2. queue' \in Seq(InsertOps) /\ mem' \in [Levels -> Seq(Samples)]
  BY <1>1 DEF Down
<1>3. id' \in [Levels -> Nat] /\ next' \in [Levels -> Nat]
  BY DEF Down
<1> QED
  BY <1>2, <1>3 DEF Down

\* So does a SIGTERM.
LEMMA TerminateKeeps ==
  ASSUME HistoryInv, Terminate
  PROVE  HistoryInv'
<1>1. Types /\ StoredInTime /\ QueuedInTime
  BY DEF HistoryInv
<1>2. /\ table' = ExecuteAll(table, queue) /\ up' = FALSE /\ due' = 0
      /\ mem' = [x \in Levels |-> <<>>] /\ id' = [x \in Levels |-> 1]
      /\ next' = [x \in Levels |-> 0] /\ queue' = <<>> /\ failed' = [x \in Levels |-> {}]
      /\ clock' = clock /\ epoch' = epoch
  BY DEF Terminate, Finalize, Down
<1>3. queue \in Seq(Ops)
  BY <1>1 DEF Types, Ops
<1>4. /\ table' \in Tables
      /\ \A x \in Levels : IsFiniteSet(table'[x])
      /\ \A x \in Levels : \A r \in table'[x] : InTime(x, r)
  BY <1>1, <1>2, <1>3, RowsAfter
<1>5. Types'
  BY <1>1, <1>2, <1>4, DownTyped DEF Types, Tables, Terminate
<1>6. StoredInTime'
  BY <1>2, <1>4 DEF StoredInTime, InTime
<1>7. QueuedInTime' /\ MemoryOnTime' /\ IdsAreBehind' /\ DownIsEmpty' /\ ShownIsStored'
  BY <1>2 DEF QueuedInTime, MemoryOnTime, IdsAreBehind, DownIsEmpty, ShownIsStored
<1>8. NoKeyCollision'
  BY <1>2 DEF NoKeyCollision, Queued, Ids
<1> QED
  BY <1>5, <1>6, <1>7, <1>8 DEF HistoryInv

\* So does a crash: what is lost with the queue was in nobody's way.
LEMMA CrashKeeps ==
  ASSUME HistoryInv, Crash
  PROVE  HistoryInv'
<1>1. Types /\ StoredInTime
  BY DEF HistoryInv
<1>2. /\ table' = table /\ up' = FALSE /\ due' = 0
      /\ mem' = [x \in Levels |-> <<>>] /\ id' = [x \in Levels |-> 1]
      /\ next' = [x \in Levels |-> 0] /\ queue' = <<>> /\ failed' = [x \in Levels |-> {}]
      /\ clock' = clock /\ epoch' = epoch
  BY DEF Crash, Down
<1>3. Types'
  BY <1>1, <1>2, DownTyped DEF Types, Crash
<1>4. StoredInTime'
  BY <1>1, <1>2 DEF StoredInTime, InTime
<1>5. QueuedInTime' /\ MemoryOnTime' /\ IdsAreBehind' /\ DownIsEmpty' /\ ShownIsStored'
  BY <1>2 DEF QueuedInTime, MemoryOnTime, IdsAreBehind, DownIsEmpty, ShownIsStored
<1>6. NoKeyCollision'
  BY <1>2 DEF NoKeyCollision, Queued, Ids
<1> QED
  BY <1>3, <1>4, <1>5, <1>6 DEF HistoryInv

\* So does time.
LEMMA TickKeeps ==
  ASSUME HistoryInv, Tick
  PROVE  HistoryInv'
<1>1. Types /\ StoredInTime /\ QueuedInTime
  BY DEF HistoryInv
<1>2. clock' = clock + 1 /\ UNCHANGED <<up, due, mem, id, next, queue, table, epoch, failed>>
  BY DEF Tick, threadVars, memoryVars, diskVars
<1>3. Types'
  BY <1>1, <1>2, Constants DEF Types
<1>4. \A x \in Levels, r \in Rows : InTime(x, r) => InTime(x, r)'
  <2> SUFFICES ASSUME NEW x \in Levels, NEW r \in Rows, InTime(x, r) PROVE InTime(x, r)'
    OBVIOUS
  <2>1. clock \in Nat /\ r.time \in Nat
    BY <1>1 DEF Types, Rows
  <2> QED
    BY <1>2, <2>1 DEF InTime
<1>5. StoredInTime'
  BY <1>1, <1>2, <1>4 DEF StoredInTime, Types
<1>6. QueuedInTime'
  <2>1. \A i \in 1 .. Len(queue) : queue[i] \in InsertOps
    BY <1>1 DEF Types
  <2>2. \A i \in 1 .. Len(queue) : queue[i].level \in Levels /\ queue[i].row \in Rows
    BY <2>1 DEF InsertOps
  <2> QED
    BY <1>1, <1>2, <1>4, <2>2 DEF QueuedInTime
<1>7. MemoryOnTime' /\ IdsAreBehind' /\ DownIsEmpty' /\ ShownIsStored' /\ NoKeyCollision'
  BY <1>2 DEF HistoryInv, MemoryOnTime, IdsAreBehind, DownIsEmpty, ShownIsStored,
              NoKeyCollision, Queued
<1> QED
  BY <1>3, <1>5, <1>6, <1>7 DEF HistoryInv

\* What a flush executes, and what it does not.
FlushRest(n) == SubSeq(queue \o RemoveOldSamples, n + 1, Len(queue \o RemoveOldSamples))

\* Of what is queued a flush executes all but the first n, and it removes only
\* old rows.
LEMMA FlushDoes ==
  ASSUME Types, NEW n \in Nat, n <= Len(queue \o RemoveOldSamples)
  PROVE  /\ FlushRest(n) \in Seq(Ops)
         /\ \A x, r : Puts(FlushRest(n), x, r) => Puts(queue, x, r)
         /\ \A x \in Levels, r \in Rows : Drops(FlushRest(n), x, r) => r.id < id[x] - Keep
         /\ \A i \in 1 .. Len(queue) :
               \/ i \in 1 .. n
               \/ Puts(FlushRest(n), queue[i].level, queue[i].row)
<1> DEFINE old == RemoveOldSamples
           all == queue \o old
           t == SubSeq(all, n + 1, Len(all))
           m == Len(queue)
           N == Len(all)
<1>1. \A x \in Levels : /\ old[x] \in DeleteOps /\ old[x].kind = "delete"
                        /\ old[x].level = x /\ old[x].below = id[x] - Keep
  <2> SUFFICES ASSUME NEW x \in Levels
               PROVE  /\ old[x] \in DeleteOps /\ old[x].kind = "delete"
                      /\ old[x].level = x /\ old[x].below = id[x] - Keep
    OBVIOUS
  <2>1. old[x] = [kind |-> "delete", level |-> x, below |-> id[x] - Keep]
    BY DEF RemoveOldSamples, Delete
  <2>2. id[x] - Keep \in Int
    <3>1. id[x] \in Nat /\ Keep \in Nat
      BY Constants DEF Types
    <3> QED
      BY <3>1
  <2>3. old[x].kind = "delete" /\ old[x].level = x /\ old[x].below = id[x] - Keep
    BY <2>1
  <2> QED
    BY <2>1, <2>2, <2>3 DEF DeleteOps
<1>2. old \in Seq(DeleteOps) /\ Len(old) = Len(Interval) /\ Len(Interval) \in Nat
      /\ Levels = 1 .. Len(Interval)
  <2>1. old = [x \in Levels |-> old[x]]
    BY DEF RemoveOldSamples
  <2>2. Len(Interval) \in Nat /\ Levels = 1 .. Len(Interval)
    BY Constants
  <2> HIDE DEF old
  <2>3. old \in [1 .. Len(Interval) -> DeleteOps]
    BY <1>1, <2>1, <2>2
  <2> QED
    BY <2>2, <2>3
<1> HIDE DEF old
<1>3. queue \in Seq(Ops) /\ old \in Seq(Ops) /\ m \in Nat
  BY <1>2 DEF Types, Ops
<1>4. /\ all \in Seq(Ops) /\ N = m + Len(old) /\ Len(old) \in Nat
      /\ \A i \in 1 .. m + Len(old) : all[i] = IF i <= m THEN queue[i] ELSE old[i - m]
  <2>1. /\ queue \o old \in Seq(Ops) /\ Len(queue \o old) = m + Len(old)
        /\ \A i \in 1 .. m + Len(old) : (queue \o old)[i] = IF i <= m THEN queue[i] ELSE old[i - m]
    BY <1>3, ConcatProperties
  <2> QED
    BY <1>2, <2>1
<1>5. n \in Nat /\ n <= N
  BY DEF old
<1> HIDE DEF all, m, N
<1>6. /\ t \in Seq(Ops) /\ Len(t) = N - n
      /\ \A i \in 1 .. N - n : t[i] = all[i + n] /\ i + n \in 1 .. N
  <2>1. Len(all) = N /\ N \in Nat
    BY <1>3, <1>4 DEF N
  <2>2. /\ SubSeq(all, n + 1, N) \in Seq(Ops) /\ Len(SubSeq(all, n + 1, N)) = N - n
    BY <1>4, <1>5, <2>1
  <2>3. \A i \in 1 .. N - n : SubSeq(all, n + 1, N)[i] = all[i + n] /\ i + n \in 1 .. N
    BY <1>4, <1>5, <2>1
  <2> QED
    BY <2>1, <2>2, <2>3
<1>7. FlushRest(n) = t
  BY DEF FlushRest, all, old
<1> HIDE DEF t
<1>8. \A i \in 1 .. N - n : \/ i + n \in 1 .. m /\ t[i] = queue[i + n]
                            \/ (i + n) - m \in Levels /\ t[i] = old[(i + n) - m]
  <2> SUFFICES ASSUME NEW i \in 1 .. N - n
               PROVE  \/ i + n \in 1 .. m /\ t[i] = queue[i + n]
                      \/ (i + n) - m \in Levels /\ t[i] = old[(i + n) - m]
    OBVIOUS
  <2> DEFINE k == i + n
  <2>1. t[i] = all[k] /\ k \in 1 .. N
    BY <1>6
  <2> HIDE DEF k
  <2>2. CASE k <= m
    <3>1. k \in 1 .. m /\ all[k] = queue[k]
      BY <1>3, <1>4, <2>1, <2>2
    <3>2. t[i] = queue[k]
      BY <2>1, <3>1
    <3> QED
      BY <3>1, <3>2, Zenon DEF k
  <2>3. CASE ~ (k <= m)
    <3>1. k - m \in Levels /\ all[k] = old[k - m]
      BY <1>2, <1>3, <1>4, <2>1, <2>3
    <3>2. t[i] = old[k - m]
      BY <2>1, <3>1
    <3>3. (i + n) - m = k - m
      BY DEF k
    <3>4. (i + n) - m \in Levels /\ t[i] = old[(i + n) - m]
      BY <3>1, <3>2, <3>3, Zenon
    <3> QED
      BY <3>4
  <2> QED
    BY <2>2, <2>3
<1>9. \A i \in 1 .. m : queue[i].kind = "insert"
  <2>1. \A i \in 1 .. m : queue[i] \in InsertOps
    BY DEF Types, m
  <2> QED
    BY <2>1 DEF InsertOps
<1>10. ASSUME NEW x, NEW r, Puts(t, x, r) PROVE Puts(queue, x, r)
  <2>1. PICK i \in 1 .. N - n : t[i].kind = "insert" /\ t[i].level = x /\ t[i].row = r
    BY <1>6, <1>10 DEF Puts
  <2>2. i + n \in 1 .. m /\ t[i] = queue[i + n]
    <3>1. ~ ((i + n) - m \in Levels /\ t[i] = old[(i + n) - m])
      BY <1>1, <2>1
    <3> QED
      BY <1>8, <3>1
  <2> QED
    BY <2>1, <2>2 DEF Puts, m
<1>11. ASSUME NEW x \in Levels, NEW r \in Rows, Drops(t, x, r) PROVE r.id < id[x] - Keep
  <2>1. PICK i \in 1 .. N - n : t[i].kind = "delete" /\ t[i].level = x /\ r.id < t[i].below
    BY <1>6, <1>11 DEF Drops
  <2>2. (i + n) - m \in Levels /\ t[i] = old[(i + n) - m]
    BY <1>8, <1>9, <2>1
  <2>3. x = (i + n) - m /\ t[i].below = id[x] - Keep
    BY <1>1, <2>1, <2>2
  <2> QED
    BY <2>1, <2>3
<1>12. ASSUME NEW i \in 1 .. m, i \notin 1 .. n PROVE Puts(t, queue[i].level, queue[i].row)
  <2>1. i - n \in 1 .. N - n /\ (i - n) + n = i
    BY <1>3, <1>4, <1>5, <1>12
  <2>2. t[i - n] = all[i]
    BY <1>6, <2>1
  <2>3. all[i] = queue[i]
    BY <1>3, <1>4
  <2> QED
    BY <1>6, <1>9, <2>1, <2>2, <2>3 DEF Puts
<1> QED
  BY <1>6, <1>7, <1>10, <1>11, <1>12 DEF m

\* A flush keeps the invariant, whatever the database refuses.
LEMMA FlushKeeps ==
  ASSUME HistoryInv, NEW n \in 0 .. Len(queue) + Len(Interval), Flush(n)
  PROVE  HistoryInv'
<1> DEFINE ops == queue \o RemoveOldSamples
           t == FlushRest(n)
<1>1. Types /\ StoredInTime /\ QueuedInTime /\ MemoryOnTime /\ IdsAreBehind /\ ShownIsStored
  BY DEF HistoryInv
<1>2. /\ up /\ n <= Len(ops)
      /\ table' = ExecuteAll(table, t)
      /\ failed' = [x \in Levels |-> failed[x] \cup
                      {ops[i].row : i \in {j \in 1 .. n : /\ ops[j].kind = "insert"
                                                          /\ ops[j].level = x}}]
      /\ queue' = <<>>
      /\ clock' = clock /\ up' = up /\ due' = due /\ mem' = mem /\ id' = id /\ next' = next
      /\ epoch' = epoch
  BY Zenon DEF Flush, FlushRest
<1>3. n \in Nat
  BY <1>1, Constants DEF Types
<1>4. /\ t \in Seq(Ops)
      /\ \A x, r : Puts(t, x, r) => Puts(queue, x, r)
      /\ \A x \in Levels, r \in Rows : Drops(t, x, r) => r.id < id[x] - Keep
      /\ \A i \in 1 .. Len(queue) : i \in 1 .. n \/ Puts(t, queue[i].level, queue[i].row)
  BY <1>1, <1>2, <1>3, FlushDoes
<1> HIDE DEF t
<1>5. /\ table' \in Tables
      /\ \A x \in Levels : IsFiniteSet(table'[x])
      /\ \A x \in Levels : \A r \in table'[x] : /\ r \in table[x] \/ Puts(queue, x, r)
                                                /\ InTime(x, r)
  BY <1>1, <1>2, <1>4, RowsAfter
<1>6. ops \in Seq(Ops) /\ \A i \in 1 .. n : i \in 1 .. Len(ops)
  <2>1. RemoveOldSamples \in Seq(Ops)
    <3>1. \A x \in Levels : RemoveOldSamples[x] \in Ops
      BY <1>1, Constants, SMTT(30) DEF Types, Ops, DeleteOps, RemoveOldSamples, Delete
    <3>2. RemoveOldSamples = [x \in 1 .. Len(Interval) |-> RemoveOldSamples[x]]
      BY Constants DEF RemoveOldSamples
    <3> QED
      BY <3>1, <3>2, Constants
  <2>2. queue \in Seq(Ops)
    BY <1>1 DEF Types, Ops
  <2>3. ops \in Seq(Ops)
    BY <2>1, <2>2, ConcatProperties
  <2> HIDE DEF ops
  <2> QED
    BY <1>2, <1>3, <2>3
<1>7. \A i \in 1 .. Len(queue) : i \in 1 .. Len(ops) /\ ops[i] = queue[i]
  BY ConcatProperties, <1>1, Constants DEF Types, RemoveOldSamples, Delete
<1>8. failed' \in [Levels -> SUBSET Rows]
  <2>1. \A x \in Levels : {ops[i].row : i \in {j \in 1 .. n : /\ ops[j].kind = "insert"
                                                             /\ ops[j].level = x}} \subseteq Rows
    <3> SUFFICES ASSUME NEW i \in 1 .. n, ops[i].kind = "insert" PROVE ops[i].row \in Rows
      OBVIOUS
    <3>1. ops[i] \in Ops
      <4> HIDE DEF ops
      <4> QED
        BY <1>6
    <3> HIDE DEF ops
    <3> QED
      BY <3>1 DEF Ops, InsertOps, DeleteOps
  <2>2. \A x \in Levels : failed[x] \subseteq Rows
    BY <1>1 DEF Types
  <2> HIDE DEF ops
  <2> QED
    BY <1>2, <2>1, <2>2
<1> HIDE DEF ops
<1>9. Types'
  <2>1. queue' \in Seq(InsertOps)
    BY <1>2
  <2> QED
    BY <1>1, <1>2, <1>5, <1>8, <2>1 DEF Types, Tables
<1>10. StoredInTime'
  BY <1>2, <1>5 DEF StoredInTime, InTime
<1>11. QueuedInTime' /\ MemoryOnTime' /\ DownIsEmpty'
  BY <1>1, <1>2 DEF QueuedInTime, MemoryOnTime, DownIsEmpty
<1>12. IdsAreBehind'
  <2>1. ASSUME NEW x \in Levels, NEW r \in table'[x] PROVE r.id <= id[x]
    <3>1. CASE r \in table[x]
      BY <1>1, <1>2, <3>1 DEF IdsAreBehind
    <3>2. CASE Puts(queue, x, r)
      BY <1>1, <1>2, <3>2 DEF IdsAreBehind, Puts
    <3> QED
      BY <1>5, <2>1, <3>1, <3>2
  <2> QED
    BY <1>1, <1>2, <2>1 DEF IdsAreBehind
<1>13. NoKeyCollision'
  BY <1>2 DEF NoKeyCollision, Queued, Ids
<1>14. ShownIsStored'
  <2> SUFFICES ASSUME NEW x \in Levels, NEW k \in 1 .. Len(mem[x]),
                      ~mem[x][k].empty, ~ (mem[x][k].id < id[x] - Keep)
               PROVE  Row(mem[x][k]) \in table'[x] \/ Row(mem[x][k]) \in failed'[x]
    BY <1>2 DEF ShownIsStored
  <2> DEFINE r == Row(mem[x][k])
  <2>1. r \in Rows /\ r.id = mem[x][k].id
    <3>1. mem[x] \in Seq(Samples)
      BY <1>1 DEF Types
    <3>2. mem[x][k] \in Samples
      BY <3>1
    <3> QED
      BY <3>2 DEF Samples, Rows, Row
  <2>2. r \in table[x] \/ r \in Queued(x) \/ r \in failed[x]
    BY <1>1, <1>2 DEF ShownIsStored
  <2> HIDE DEF r
  <2>3. r \in table[x] \/ Puts(t, x, r) => r \in table'[x]
    <3> SUFFICES ASSUME r \in table[x] \/ Puts(t, x, r) PROVE r \in table'[x]
      OBVIOUS
    <3>1. table \in Tables /\ \A y \in Levels : IsFiniteSet(table[y])
      BY <1>1 DEF Types, Tables
    <3>2. \A p, q \in Rows : /\ p \in table[x] \/ Puts(t, x, p)
                             /\ q \in table[x] \/ Puts(t, x, q)
                             /\ p.id = q.id
                             => p = q
      BY <1>1, <1>4, OneRowPerId
    <3>3. r \in ExecuteAll(table, t)[x] \/ Drops(t, x, r)
      BY <1>4, <2>1, <3>1, <3>2, StoredUnlessDropped
    <3>4. ~Drops(t, x, r)
      BY <1>4, <2>1
    <3> QED
      BY <1>2, <3>3, <3>4
  <2>4. CASE r \in table[x]
    BY <2>3, <2>4 DEF r
  <2>5. CASE r \in Queued(x)
    <3>1. PICK i \in 1 .. Len(queue) : /\ queue[i].kind = "insert" /\ queue[i].level = x
                                       /\ queue[i].row = r
      BY <2>5, QueuedIsPut DEF Puts
    <3>2. CASE i \in 1 .. n
      <4>1. ops[i].kind = "insert" /\ ops[i].level = x /\ ops[i].row = r
        BY <1>7, <3>1
      <4>2. r \in failed'[x]
        BY <1>2, <3>2, <4>1
      <4> QED
        BY <4>2 DEF r
    <3>3. CASE Puts(t, queue[i].level, queue[i].row)
      BY <2>3, <3>1, <3>3 DEF r
    <3> QED
      BY <1>4, <3>2, <3>3
  <2>6. CASE r \in failed[x]
    BY <1>2, <2>6 DEF r
  <2> QED
    BY <2>2, <2>4, <2>5, <2>6
<1> QED
  BY <1>9, <1>10, <1>11, <1>12, <1>13, <1>14 DEF HistoryInv

-----------------------------------------------------------------------------
(***************************************************************************)
(* What a start reads back.                                                *)
(***************************************************************************)
\* How many of the rows are no younger than r.
Rank(rows, r) == Cardinality({s \in rows : s.id <= r.id})

\* The rows can be numbered by age.
Ranked(rows) ==
    /\ Cardinality(rows) \in Nat
    /\ \A r \in rows : Rank(rows, r) \in 1 .. Cardinality(rows)
    /\ \A r, s \in rows : Rank(rows, r) = Rank(rows, s) => r = s
    /\ \A n \in 1 .. Cardinality(rows) : \E r \in rows : Rank(rows, r) = n

\* Rows that have an id each can be.
LEMMA RowsRanked ==
  ASSUME NEW rows \in SUBSET Rows, IsFiniteSet(rows),
         \A r, s \in rows : r.id = s.id => r = s
  PROVE  Ranked(rows)
<1> DEFINE upto(r) == {s \in rows : s.id <= r.id}
           N == Cardinality(rows)
           rank == [r \in rows |-> Rank(rows, r)]
<1>1. N \in Nat
  BY FS_CardinalityType
<1>2. \A r \in rows : r.id \in Nat
  BY DEF Rows
<1>3. \A r \in rows : /\ IsFiniteSet(upto(r)) /\ Cardinality(upto(r)) \in Nat
                      /\ Cardinality(upto(r)) <= N /\ Cardinality(upto(r)) # 0
  <2> SUFFICES ASSUME NEW r \in rows
               PROVE  /\ IsFiniteSet(upto(r)) /\ Cardinality(upto(r)) \in Nat
                      /\ Cardinality(upto(r)) <= N /\ Cardinality(upto(r)) # 0
    OBVIOUS
  <2>1. upto(r) \in SUBSET rows /\ r \in upto(r)
    BY <1>2
  <2> HIDE DEF upto
  <2>2. IsFiniteSet(upto(r)) /\ Cardinality(upto(r)) <= N
    BY <2>1, FS_Subset
  <2>3. Cardinality(upto(r)) # 0
    BY <2>1, <2>2, FS_EmptySet
  <2> QED
    BY <2>2, <2>3, FS_CardinalityType
<1>4. \A r \in rows : Rank(rows, r) = Cardinality(upto(r)) /\ rank[r] = Rank(rows, r)
  BY DEF Rank
<1>5. \A r, s \in rows : r.id < s.id => Rank(rows, r) # Rank(rows, s)
  <2> SUFFICES ASSUME NEW r \in rows, NEW s \in rows, r.id < s.id,
                      Cardinality(upto(r)) = Cardinality(upto(s))
               PROVE  FALSE
    BY <1>4, ZenonT(30)
  <2>1. upto(r) \in SUBSET upto(s)
    BY <1>2
  <2>2. s \in upto(s) /\ s \notin upto(r)
    BY <1>2
  <2> HIDE DEF upto
  <2>3. upto(s) = upto(r)
    BY <1>3, <2>1, FS_Subset
  <2> QED
    BY <2>2, <2>3
<1>6. \A r, s \in rows : Rank(rows, r) = Rank(rows, s) => r = s
  <2> SUFFICES ASSUME NEW r \in rows, NEW s \in rows, Rank(rows, r) = Rank(rows, s)
               PROVE  r = s
    OBVIOUS
  <2>1. r.id = s.id \/ r.id < s.id \/ s.id < r.id
    BY <1>2
  <2> QED
    BY <1>5, <2>1
<1>7. \A r \in rows : Rank(rows, r) \in 1 .. N
  <2> SUFFICES ASSUME NEW r \in rows PROVE Rank(rows, r) \in 1 .. N
    OBVIOUS
  <2> DEFINE c == Cardinality(upto(r))
  <2>1. c \in Nat /\ c <= N /\ c # 0 /\ Rank(rows, r) = c
    BY <1>3, <1>4
  <2> HIDE DEF c, N
  <2> QED
    BY <1>1, <2>1
<1>8. rank \in Injection(rows, 1 .. N)
  <2>1. rank \in [rows -> 1 .. N]
    BY <1>7
  <2>2. \A r, s \in rows : rank[r] = rank[s] => r = s
    BY <1>4, <1>6
  <2> HIDE DEF rank, N
  <2> QED
    BY <2>1, <2>2 DEF Injection, IsInjective
<1>9. IsFiniteSet(1 .. N) /\ Cardinality(1 .. N) = N
  <2>1. 1 \in Int /\ N \in Int
    BY <1>1
  <2>2. IsFiniteSet(1 .. N) /\ Cardinality(1 .. N) = IF 1 > N THEN 0 ELSE N - 1 + 1
    BY <2>1, FS_Interval
  <2> HIDE DEF N
  <2> QED
    BY <1>1, <2>2
<1>10. rank \in Surjection(rows, 1 .. N)
  <2>1. Cardinality(rows) = Cardinality(1 .. N)
    BY <1>9
  <2> HIDE DEF rank, N
  <2> QED
    BY <1>8, <1>9, <2>1, FS_Injection
<1>11. \A n \in 1 .. N : \E r \in rows : rank[r] = n
  <2> HIDE DEF rank, N
  <2> QED
    BY <1>10 DEF Surjection
<1>12. \A n \in 1 .. N : \E r \in rows : Rank(rows, r) = n
  BY <1>4, <1>11
<1> QED
  BY <1>1, <1>6, <1>7, <1>12 DEF Ranked

\* What is read back: the oldest rows of the window, the youngest of them first.
Reads(rows, samples) ==
    LET window == Window(rows)
        count == Min2(LoadWindow, Cardinality(window))
    IN  /\ count \in Nat
        /\ samples \in Seq(Samples) /\ Len(samples) = count
        /\ \A n \in 1 .. count : /\ ~samples[n].empty
                                 /\ Row(samples[n]) \in window
                                 /\ Rank(window, Row(samples[n])) = count + 1 - n

\* loadPreviousSamples reads that.
LEMMA LoadedReads ==
  ASSUME NEW rows \in SUBSET Rows, IsFiniteSet(rows),
         \A r, s \in rows : r.id = s.id => r = s
  PROVE  Ranked(Window(rows)) /\ Reads(rows, Loaded(rows))
<1> DEFINE W == Window(rows)
           count == Min2(LoadWindow, Cardinality(W))
           rowAt(n) == CHOOSE r \in W : Rank(W, r) = n
           sample(r) == [id |-> r.id, time |-> r.time, empty |-> FALSE]
           L == [n \in 1 .. count |-> sample(rowAt(count + 1 - n))]
<1>1. W \in SUBSET rows /\ W \in SUBSET Rows
  BY DEF Window
<1>2. Ranked(W)
  <2>1. IsFiniteSet(W)
    BY <1>1, FS_Subset
  <2>2. \A r, s \in W : r.id = s.id => r = s
    BY <1>1
  <2> HIDE DEF W
  <2> QED
    BY <1>1, <2>1, <2>2, RowsRanked
<1>3. Loaded(rows) = L
  BY Zenon DEF Loaded, Rank
<1>4. count \in Nat /\ count <= Cardinality(W) /\ Cardinality(W) \in Nat
  <2>1. LoadWindow \in Nat
    BY Constants
  <2>2. Cardinality(W) \in Nat
    BY <1>2 DEF Ranked
  <2> HIDE DEF W
  <2> QED
    BY <2>1, <2>2 DEF Min2
<1> HIDE DEF W, count
<1>5. \A n \in 1 .. count : rowAt(n) \in W /\ Rank(W, rowAt(n)) = n
  <2>1. \A n \in 1 .. count : \E r \in W : Rank(W, r) = n
    BY <1>2, <1>4 DEF Ranked
  <2> QED
    BY <2>1
<1> HIDE DEF rowAt
<1>6. \A n \in 1 .. count : /\ rowAt(count + 1 - n) \in W /\ rowAt(count + 1 - n) \in Rows
                            /\ Rank(W, rowAt(count + 1 - n)) = count + 1 - n
  <2>1. \A n \in 1 .. count : count + 1 - n \in 1 .. count
    BY <1>4
  <2> QED
    BY <1>1, <1>5, <2>1
<1>7. \A r \in Rows : sample(r) \in Samples /\ Row(sample(r)) = r /\ ~sample(r).empty
  BY DEF Samples, Rows, Row
<1> HIDE DEF sample
<1>8. L \in Seq(Samples) /\ Len(L) = count
  BY <1>4, <1>6, <1>7
<1>9. \A n \in 1 .. count : L[n] = sample(rowAt(count + 1 - n))
  OBVIOUS
<1> HIDE DEF L
<1>10. \A n \in 1 .. count : /\ ~L[n].empty
                             /\ Row(L[n]) \in W
                             /\ Rank(W, Row(L[n])) = count + 1 - n
  BY <1>6, <1>7, <1>9
<1>11. Reads(rows, L)
  BY <1>4, <1>8, <1>10 DEF Reads, W, count
<1> QED
  BY <1>2, <1>3, <1>11 DEF W

\* There is a youngest row.
LEMMA Youngest ==
  ASSUME NEW rows \in SUBSET Rows, IsFiniteSet(rows), rows # {}, Ranked(rows)
  PROVE  \E r \in rows : \A s \in rows : s.id <= r.id
<1> DEFINE N == Cardinality(rows)
<1>1. N \in Nat /\ N # 0
  BY FS_EmptySet, FS_CardinalityType
<1>2. PICK r \in rows : Rank(rows, r) = N
  <2>1. N \in 1 .. N
    BY <1>1
  <2> QED
    BY <2>1 DEF Ranked
<1> DEFINE S == {s \in rows : s.id <= r.id}
<1>3. S \in SUBSET rows /\ Cardinality(S) = N
  BY <1>2 DEF Rank
<1> HIDE DEF S
<1>4. S = rows
  BY <1>3, FS_Subset
<1> QED
  BY <1>4 DEF S

\* A level that has rows reads some of them.
LEMMA ReadsSome ==
  ASSUME NEW rows \in SUBSET Rows, IsFiniteSet(rows), rows # {},
         \A r, s \in rows : r.id = s.id => r = s
  PROVE  /\ 1 \in 1 .. Len(Loaded(rows)) /\ Loaded(rows)[1] \in Samples
         /\ Row(Loaded(rows)[1]) \in rows
<1> DEFINE W == Window(rows)
           count == Min2(LoadWindow, Cardinality(W))
           L == Loaded(rows)
<1>1. PICK r \in rows : \A s \in rows : s.id <= r.id
  BY RowsRanked, Youngest
<1>2. r \in W
  <2>1. \A s \in rows : s.id \in Nat /\ r.id \in Nat
    BY DEF Rows
  <2>2. LoadWindow \in Nat
    BY Constants
  <2> QED
    BY <1>1, <2>1, <2>2 DEF Window
<1>3. W \in SUBSET rows /\ IsFiniteSet(W)
  <2>1. W \in SUBSET rows
    BY DEF Window
  <2> HIDE DEF W
  <2> QED
    BY <2>1, FS_Subset
<1>4. Cardinality(W) \in Nat /\ Cardinality(W) # 0
  <2> HIDE DEF W
  <2> QED
    BY <1>2, <1>3, FS_EmptySet, FS_CardinalityType
<1>5. Reads(rows, L)
  BY LoadedReads
<1>6. L \in Seq(Samples) /\ Len(L) = count
      /\ \A n \in 1 .. count : Row(L[n]) \in W
  <2> HIDE DEF L
  <2> QED
    BY <1>5 DEF Reads
<1>7. 1 \in 1 .. count
  <2>1. LoadWindow \in Nat /\ LoadWindow > 0
    BY Constants
  <2> HIDE DEF W
  <2> QED
    BY <1>4, <2>1 DEF Min2
<1> HIDE DEF L, count, W
<1> QED
  BY <1>3, <1>6, <1>7 DEF L

\* Where a level is after a start.
Resumes(x) ==
    /\ epoch'[x] \in Nat /\ id'[x] \in Nat /\ next'[x] \in Nat
    /\ next'[x] = epoch'[x] + (id'[x] + 1) * Interval[x]
    /\ \A r \in table'[x] : r \in Rows /\ InTime(x, r)' /\ r.id <= id'[x]
    /\ IsFiniteSet(table'[x])
    /\ mem'[x] \in Seq(Samples)
    /\ \A i \in 1 .. Len(mem'[x]) : Row(mem'[x][i]) \in table'[x]

\* A level without rows begins.
LEMMA NewResumes ==
  ASSUME HistoryInv, Start, NEW x \in Levels, table[x] = {}
  PROVE  Resumes(x)
<1> DEFINE i == Interval[x]
<1>1. /\ mem'[x] = Loaded({}) /\ id'[x] = 1 /\ next'[x] = clock + 1 + i
      /\ table'[x] = {[id |-> 1, time |-> clock + 1]}
      /\ epoch'[x] = clock + 1 - i /\ clock' = clock
  BY DEF Start
<1>2. clock \in Nat /\ i \in Nat /\ i < clock
  <2>1. clock \in Nat /\ StartTime \in Nat /\ StartTime <= clock /\ i \in Nat /\ i < StartTime
    BY Constants DEF HistoryInv, Types
  <2> HIDE DEF i
  <2> QED
    BY <2>1
<1> HIDE DEF i
<1>3. epoch'[x] \in Nat /\ next'[x] \in Nat /\ next'[x] = epoch'[x] + (1 + 1) * i
      /\ clock + 1 = epoch'[x] + 1 * i
  BY <1>1, <1>2
<1>4. PICK r \in Rows : r = [id |-> 1, time |-> clock + 1]
  <2>1. clock + 1 \in Nat
    BY <1>2
  <2>2. \A t \in Nat : [id |-> 1, time |-> t] \in Rows
    BY DEF Rows
  <2> QED
    BY <2>1, <2>2
<1>5. r.id = 1 /\ r.time = clock + 1
  BY <1>4
<1>6. InTime(x, r)'
  BY <1>1, <1>2, <1>3, <1>5 DEF InTime, i
<1>7. table'[x] = {r} /\ IsFiniteSet(table'[x])
  BY <1>1, <1>4, FS_Singleton
<1>8. mem'[x] = <<>>
  <2>1. {} \in SUBSET Rows /\ IsFiniteSet({})
    BY FS_EmptySet
  <2>2. Reads({}, Loaded({}))
    BY <2>1, LoadedReads
  <2>3. Window({}) = {} /\ Cardinality({}) = 0
    BY FS_EmptySet DEF Window
  <2>4. Min2(LoadWindow, 0) = 0
    BY Constants DEF Min2
  <2>5. Loaded({}) \in Seq(Samples) /\ Len(Loaded({})) = 0
    BY <2>2, <2>3, <2>4 DEF Reads
  <2> QED
    BY <1>1, <2>5, EmptySeq
<1>9. mem'[x] \in Seq(Samples) /\ \A n \in 1 .. Len(mem'[x]) : FALSE
  <2>1. <<>> \in Seq(Samples) /\ \A n \in 1 .. Len(<<>>) : FALSE
    OBVIOUS
  <2> QED
    BY <1>8, <2>1
<1>10. \A q \in table'[x] : q \in Rows /\ InTime(x, q)' /\ q.id <= id'[x]
  <2>1. \A q \in table'[x] : q = r
    BY <1>7
  <2>2. r.id <= id'[x]
    BY <1>1, <1>5
  <2> QED
    BY <1>6, <2>1, <2>2
<1>11. next'[x] = epoch'[x] + (id'[x] + 1) * Interval[x] /\ id'[x] \in Nat
  BY <1>1, <1>3 DEF i
<1> QED
  BY <1>3, <1>7, <1>9, <1>10, <1>11 DEF Resumes

\* The turns missed since a sample reach behind all that lie in the past.
LEMMA GapsReach ==
  ASSUME NEW e \in Nat, NEW i \in Nat, i > 0, NEW d \in Nat, NEW k \in Nat, NEW c \in Nat,
         e + k * i <= c, d < k
  PROVE  /\ e + (d + 1) * i <= c
         /\ k <= d + ((c - (e + (d + 1) * i)) \div i + 1)
<1> DEFINE n == k - d - 1
           t == e + (d + 1) * i
           q == (c - t) \div i
<1>1. n \in Nat /\ k = (d + 1) + n
  OBVIOUS
<1> HIDE DEF n
<1>2. k * i = (d + 1) * i + n * i /\ n * i \in Nat /\ (d + 1) * i \in Nat
  <2>1. ((d + 1) + n) * i = (d + 1) * i + n * i
    BY <1>1
  <2> QED
    BY <1>1, <2>1
<1>3. t \in Nat /\ t + n * i <= c
  BY <1>2
<1> HIDE DEF t
<1>4. c - t \in Nat /\ n * i <= c - t
  BY <1>2, <1>3
<1>5. n <= q
  <2> DEFINE a == c - t
  <2> SUFFICES ASSUME ~ (n <= a \div i) PROVE FALSE
    OBVIOUS
  <2>1. a \in Nat /\ n * i <= a
    BY <1>4
  <2> HIDE DEF a
  <2>2. a \div i \in Nat /\ a < (a \div i) * i + i
    BY <2>1
  <2>3. (a \div i) + 1 <= n
    BY <1>1, <2>2
  <2>4. ((a \div i) + 1) * i <= n * i
    BY <1>1, <2>2, <2>3
  <2>5. ((a \div i) + 1) * i = (a \div i) * i + i
    BY <2>2
  <2> QED
    BY <1>2, <2>1, <2>2, <2>4, <2>5
<1>6. q \in Nat
  BY <1>4
<1> HIDE DEF q
<1>7. k <= d + (q + 1) /\ t <= c
  BY <1>1, <1>2, <1>3, <1>5, <1>6
<1> QED
  BY <1>7 DEF q, t

\* A level that has rows goes on where no row of it reaches, even when the
\* youngest was cut off.
LEMMA OldResumes ==
  ASSUME HistoryInv, Start, NEW x \in Levels, table[x] # {}
  PROVE  Resumes(x)
<1> DEFINE i == Interval[x]
           e == epoch[x]
           rows == table[x]
           L == Loaded(rows)
           a == L[1]
           d == a.id
           t == a.time + i
           g == Gaps(x, t)
<1>1. /\ mem'[x] = L /\ id'[x] = d + g /\ next'[x] = t + g * i
      /\ table'[x] = table[x] /\ epoch'[x] = e /\ clock' = clock
  BY DEF Start
<1>2. Types /\ StoredInTime /\ QueuedInTime
  BY DEF HistoryInv
<1>3. clock \in Nat /\ i \in Nat /\ i > 0 /\ e \in Nat
  BY <1>2, Constants DEF Types
<1>4. rows \in SUBSET Rows /\ IsFiniteSet(rows)
  BY <1>2 DEF Types
<1>5. \A r, s \in rows : r.id = s.id => r = s
  BY <1>2, <1>4, OneRowPerId
<1>6. a \in Samples /\ Row(a) \in rows
  <2> HIDE DEF L, rows
  <2>1. rows # {}
    BY DEF rows
  <2> QED
    BY <1>4, <1>5, <2>1, ReadsSome DEF L
<1>7. L \in Seq(Samples) /\ \A n \in 1 .. Len(L) : Row(L[n]) \in rows
  <2> DEFINE W == Window(rows)
             count == Min2(LoadWindow, Cardinality(W))
  <2>1. Reads(rows, L)
    <3> HIDE DEF rows
    <3> QED
      BY <1>4, <1>5, LoadedReads
  <2>2. W \subseteq rows
    BY DEF Window
  <2> HIDE DEF L
  <2>3. L \in Seq(Samples) /\ Len(L) = count /\ \A n \in 1 .. count : Row(L[n]) \in W
    BY <2>1 DEF Reads
  <2> HIDE DEF W, count
  <2> QED
    BY <2>2, <2>3
<1>8. d \in Nat /\ a.time \in Nat
  BY <1>6 DEF Samples
<1>9. a.time = e + d * i /\ d >= 1
  <2>1. Row(a).id = d /\ Row(a).time = a.time
    BY DEF Row
  <2> DEFINE r == Row(a)
  <2>2. r \in table[x] /\ r.id = d /\ r.time = a.time
    BY <1>6, <2>1
  <2> HIDE DEF r, a
  <2>3. InTime(x, r)
    BY <1>2, <2>2 DEF StoredInTime
  <2> QED
    BY <2>2, <2>3 DEF InTime
<1> HIDE DEF a, d, L
<1>10. t \in Nat /\ t = e + (d + 1) * i
  <2> DEFINE b == a.time
  <2>1. b \in Nat /\ b = e + d * i /\ t = b + i
    BY <1>8, <1>9
  <2> HIDE DEF b, e, i, t
  <2>2. (d + 1) * i = d * i + i /\ d * i \in Nat
    BY <1>3, <1>8
  <2> QED
    BY <1>3, <2>1, <2>2
<1>11. g = IF t > clock THEN 0 ELSE (clock - t) \div i + 1
  BY DEF Gaps
<1> HIDE DEF t, g
<1>12. g \in Nat
  <2>1. CASE t > clock
    BY <1>11, <2>1
  <2>2. CASE ~ (t > clock)
    <3>1. clock - t \in Nat
      BY <1>3, <1>10, <2>2
    <3>2. (clock - t) \div i \in Nat
      BY <1>3, <3>1, Whole
    <3> QED
      BY <1>11, <2>2, <3>2
  <2> QED
    BY <2>1, <2>2
<1>13. next'[x] = e + (id'[x] + 1) * i /\ id'[x] \in Nat /\ next'[x] \in Nat
  <2>1. t + g * i = e + ((d + g) + 1) * i
    BY <1>3, <1>8, <1>10, <1>12, Further
  <2>2. d + g \in Nat /\ t + g * i \in Nat
    BY <1>3, <1>8, <1>10, <1>12
  <2> QED
    BY <1>1, <2>1, <2>2
<1>14. ASSUME NEW r \in rows PROVE r \in Rows /\ InTime(x, r)' /\ r.id <= id'[x]
  <2>1. r \in Rows /\ r.id \in Nat /\ r.time \in Nat /\ InTime(x, r)
    BY <1>2, <1>4 DEF StoredInTime, Rows
  <2>2. InTime(x, r)'
    BY <1>1, <2>1 DEF InTime, e
  <2>3. CASE r.id <= d
    <3>1. r.id <= d + g
      BY <1>8, <1>12, <2>1, <2>3
    <3> QED
      BY <1>1, <2>1, <2>2, <3>1
  <2>4. CASE ~ (r.id <= d)
    <3>1. d < r.id /\ r.id > 1
      BY <1>8, <1>9, <2>1, <2>4
    <3>2. e + r.id * i <= clock
      BY <2>1, <3>1 DEF InTime, e, i
    <3> DEFINE k == r.id
               c == clock
    <3>3. k \in Nat /\ c \in Nat /\ d < k /\ e + k * i <= c
      BY <1>3, <2>1, <3>1, <3>2
    <3> HIDE DEF k, c, e, i
    <3>4. e + (d + 1) * i <= c /\ k <= d + ((c - (e + (d + 1) * i)) \div i + 1)
      BY <1>3, <1>8, <3>3, GapsReach
    <3>5. t <= c /\ k <= d + ((c - t) \div i + 1)
      BY <1>10, <3>4
    <3>6. ~ (t > c)
      BY <1>10, <3>3, <3>5
    <3>7. g = (c - t) \div i + 1
      BY <1>11, <3>6 DEF c
    <3> QED
      BY <1>1, <2>1, <2>2, <3>5, <3>7 DEF k
  <2> QED
    BY <2>1, <2>2, <2>3, <2>4
<1>15. mem'[x] \in Seq(Samples) /\ \A n \in 1 .. Len(mem'[x]) : Row(mem'[x][n]) \in table'[x]
  BY <1>1, <1>7
<1>16. IsFiniteSet(table'[x]) /\ epoch'[x] \in Nat
  BY <1>1, <1>3, <1>4
<1> HIDE DEF e, rows
<1>17. next'[x] = epoch'[x] + (id'[x] + 1) * Interval[x]
  BY <1>1, <1>13 DEF i
<1>18. \A r \in table'[x] : r \in Rows /\ InTime(x, r)' /\ r.id <= id'[x]
  BY <1>1, <1>14 DEF rows
<1> QED
  BY <1>13, <1>15, <1>16, <1>17, <1>18 DEF Resumes

\* A start keeps the invariant.
LEMMA StartKeeps ==
  ASSUME HistoryInv, Start
  PROVE  HistoryInv'
<1>1. \A x \in Levels : Resumes(x)
  BY NewResumes, OldResumes
<1>2. /\ up' = TRUE /\ queue' = queue /\ failed' = failed /\ clock' = clock /\ due' = clock + 1
      /\ mem' = [x \in Levels |-> mem'[x]] /\ id' = [x \in Levels |-> id'[x]]
      /\ next' = [x \in Levels |-> next'[x]] /\ table' = [x \in Levels |-> table'[x]]
      /\ epoch' = [x \in Levels |-> epoch'[x]]
  BY DEF Start
<1>3. Types /\ ~up /\ queue = <<>>
  BY DEF HistoryInv, Start, DownIsEmpty
<1>4. \A x \in Levels : /\ epoch'[x] \in Nat /\ id'[x] \in Nat /\ next'[x] \in Nat
                        /\ table'[x] \subseteq Rows /\ IsFiniteSet(table'[x])
                        /\ mem'[x] \in Seq(Samples)
  BY <1>1 DEF Resumes
<1>5. Types'
  <2>1. epoch' \in [Levels -> Nat] /\ id' \in [Levels -> Nat] /\ next' \in [Levels -> Nat]
    BY <1>2, <1>4
  <2>2. table' \in [Levels -> SUBSET Rows] /\ mem' \in [Levels -> Seq(Samples)]
    BY <1>2, <1>4
  <2>3. due' \in Nat /\ up' \in BOOLEAN
    BY <1>2, <1>3 DEF Types
  <2> QED
    BY <1>2, <1>3, <1>4, <2>1, <2>2, <2>3 DEF Types
<1>6. StoredInTime'
  <2>1. \A x \in Levels : \A r \in table'[x] : InTime(x, r)'
    BY <1>1 DEF Resumes
  <2> QED
    BY <2>1, Zenon DEF StoredInTime
<1>7. \A i \in 1 .. Len(queue') : FALSE
  BY <1>2, <1>3
<1>8. QueuedInTime' /\ DownIsEmpty'
  BY <1>2, <1>7 DEF QueuedInTime, DownIsEmpty
<1>9. \A x \in Levels : \A k \in 1 .. Len(mem'[x]) : Row(mem'[x][k]) \in table'[x]
  BY <1>1 DEF Resumes
<1>10. MemoryOnTime'
  <2> SUFFICES ASSUME NEW x \in Levels, NEW k \in 1 .. Len(mem'[x])
               PROVE  mem'[x][k].time = epoch'[x] + mem'[x][k].id * Interval[x]
    BY DEF MemoryOnTime
  <2>1. PICK r \in table'[x] : r = Row(mem'[x][k])
    BY <1>9
  <2>2. InTime(x, r)'
    BY <1>6, <2>1 DEF StoredInTime
  <2>3. r.time = epoch'[x] + r.id * Interval[x]
    BY <2>2 DEF InTime
  <2>4. r.id = mem'[x][k].id /\ r.time = mem'[x][k].time
    BY <2>1 DEF Row
  <2> QED
    BY <2>3, <2>4
<1>11. IdsAreBehind'
  <2>1. \A x \in Levels : /\ next'[x] = epoch'[x] + (id'[x] + 1) * Interval[x]
                          /\ \A r \in table'[x] : r.id <= id'[x]
    BY <1>1 DEF Resumes
  <2> QED
    BY <1>7, <2>1 DEF IdsAreBehind
<1>12. NoKeyCollision'
  <2>1. \A x \in Levels : Queued(x)' = {}
    BY <1>7 DEF Queued
  <2> QED
    BY <1>7, <2>1 DEF NoKeyCollision, Ids
<1>13. ShownIsStored'
  BY <1>9, Zenon DEF ShownIsStored
<1> QED
  BY <1>5, <1>6, <1>8, <1>10, <1>11, <1>12, <1>13 DEF HistoryInv

\* The invariant holds when the system is installed.
LEMMA InitKeeps ==
  ASSUME Init
  PROVE  HistoryInv
<1>1. /\ clock = StartTime /\ up = FALSE /\ due = 0 /\ mem = [x \in Levels |-> <<>>]
      /\ id = [x \in Levels |-> 1] /\ next = [x \in Levels |-> 0] /\ queue = <<>>
      /\ table = [x \in Levels |-> {}] /\ epoch = [x \in Levels |-> 0]
      /\ failed = [x \in Levels |-> {}]
  BY DEF Init
<1>2. \A T : <<>> \in Seq(T)
  OBVIOUS
<1>3. Types
  <2>1. queue \in Seq(InsertOps) /\ mem \in [Levels -> Seq(Samples)]
    BY <1>1, <1>2
  <2>2. table \in [Levels -> SUBSET Rows] /\ \A x \in Levels : IsFiniteSet(table[x])
    BY <1>1, FS_EmptySet
  <2>3. id \in [Levels -> Nat] /\ next \in [Levels -> Nat] /\ epoch \in [Levels -> Nat]
        /\ failed \in [Levels -> SUBSET Rows]
    BY <1>1
  <2>4. clock \in Nat /\ StartTime <= clock /\ due \in Nat /\ up \in BOOLEAN
    <3>1. StartTime \in Nat /\ clock = StartTime /\ due = 0 /\ up = FALSE
      BY Constants DEF Init
    <3>2. clock \in Nat /\ StartTime <= clock
      BY <3>1
    <3>3. due \in Nat
      BY <3>1
    <3>4. up \in BOOLEAN
      BY <3>1
    <3> QED
      BY <3>2, <3>3, <3>4
  <2> QED
    BY <2>1, <2>2, <2>3, <2>4 DEF Types
<1>4. StoredInTime /\ QueuedInTime /\ MemoryOnTime /\ IdsAreBehind /\ DownIsEmpty
      /\ ShownIsStored
  BY <1>1 DEF StoredInTime, QueuedInTime, MemoryOnTime, IdsAreBehind, DownIsEmpty,
              ShownIsStored
<1>5. NoKeyCollision
  BY <1>1 DEF NoKeyCollision, Queued, Ids
<1> QED
  BY <1>3, <1>4, <1>5 DEF HistoryInv

\* Every step keeps it.
LEMMA NextKeeps ==
  ASSUME HistoryInv, [Next]_vars
  PROVE  HistoryInv'
<1>1. ASSUME NEW taken \in BOOLEAN, Sample(taken) PROVE HistoryInv'
  BY <1>1, SampleKeeps
<1>2. ASSUME NEW n \in 0 .. Len(queue) + Len(Interval), Flush(n) PROVE HistoryInv'
  BY <1>2, FlushKeeps
<1>3. CASE Terminate
  BY <1>3, TerminateKeeps
<1>4. CASE Crash
  BY <1>4, CrashKeeps
<1>5. CASE Start
  BY <1>5, StartKeeps
<1>6. CASE Tick
  BY <1>6, TickKeeps
<1>7. CASE UNCHANGED vars
  <2>1. UNCHANGED <<clock, up, due, mem, id, next, queue, table, epoch, failed>>
    BY <1>7 DEF vars, threadVars, memoryVars, diskVars
  <2>2. Types' /\ StoredInTime' /\ QueuedInTime' /\ MemoryOnTime'
    BY <2>1 DEF HistoryInv, Types, StoredInTime, QueuedInTime, MemoryOnTime, InTime
  <2>3. IdsAreBehind' /\ DownIsEmpty' /\ NoKeyCollision' /\ ShownIsStored'
    BY <2>1 DEF HistoryInv, IdsAreBehind, DownIsEmpty, NoKeyCollision, ShownIsStored, Queued
  <2> QED
    BY <2>2, <2>3 DEF HistoryInv
<1> QED
  BY <1>1, <1>2, <1>3, <1>4, <1>5, <1>6, <1>7 DEF Next

(***************************************************************************)
(* The invariant holds in every state that can be reached.                 *)
(***************************************************************************)
THEOREM HistoryInvariant == Spec => []HistoryInv
<1>1. Init => HistoryInv
  BY InitKeeps
<1>2. HistoryInv /\ [Next]_vars => HistoryInv'
  BY NextKeeps
<1> QED
  BY <1>1, <1>2, PTL DEF Spec

(***************************************************************************)
(* Over late samples, missed intervals, refused inserts and restarts an id *)
(* always says how many intervals behind the level's beginning its sample  *)
(* lies (updateHistory, fillGaps, loadPreviousSamples).                    *)
(***************************************************************************)
THEOREM IdsAndTimes == Spec => []IdsFollowTime
<1>1. HistoryInv => IdsFollowTime
  <2> SUFFICES ASSUME HistoryInv PROVE IdsFollowTime
    OBVIOUS
  <2> SUFFICES ASSUME NEW x \in Levels
               PROVE  /\ OnTime(x, table[x])
                      /\ up => /\ OnTime(x, {Row(mem[x][i]) : i \in 1 .. Len(mem[x])})
                               /\ OnTime(x, Queued(x))
                               /\ next[x] = epoch[x] + (id[x] + 1) * Interval[x]
    BY DEF IdsFollowTime
  <2>1. OnTime(x, table[x])
    BY DEF HistoryInv, StoredInTime, InTime, OnTime
  <2>2. OnTime(x, {Row(mem[x][i]) : i \in 1 .. Len(mem[x])})
    <3> SUFFICES ASSUME NEW i \in 1 .. Len(mem[x])
                 PROVE  Row(mem[x][i]).time = epoch[x] + Row(mem[x][i]).id * Interval[x]
      BY DEF OnTime
    <3>1. mem[x][i].time = epoch[x] + mem[x][i].id * Interval[x]
      BY DEF HistoryInv, MemoryOnTime
    <3>2. Row(mem[x][i]).time = mem[x][i].time /\ Row(mem[x][i]).id = mem[x][i].id
      BY DEF Row
    <3> QED
      BY <3>1, <3>2
  <2>3. OnTime(x, Queued(x))
    BY DEF HistoryInv, QueuedInTime, InTime, OnTime, Queued
  <2>4. up => next[x] = epoch[x] + (id[x] + 1) * Interval[x]
    BY DEF HistoryInv, IdsAreBehind
  <2> QED
    BY <2>1, <2>2, <2>3, <2>4
<1> QED
  BY <1>1, HistoryInvariant, PTL

(***************************************************************************)
(* The primary key of a table refuses nothing that updateHistory queues:   *)
(* no id is given out twice, even when a restart has not read the newest   *)
(* row.                                                                    *)
(***************************************************************************)
THEOREM NothingIsRefused == Spec => []NoKeyCollision
<1>1. HistoryInv => NoKeyCollision
  BY DEF HistoryInv
<1> QED
  BY <1>1, HistoryInvariant, PTL

(***************************************************************************)
(* What a client is shown from memory is stored, waits to be, was refused  *)
(* while another process held the database, or is old enough for           *)
(* removeOldSamples.                                                       *)
(***************************************************************************)
THEOREM ShownAndStored == Spec => []ShownIsStored
<1>1. HistoryInv => ShownIsStored
  BY DEF HistoryInv
<1> QED
  BY <1>1, HistoryInvariant, PTL

\* A window of w ids has at most w + 1 rows.
LEMMA WindowIsSmall ==
  ASSUME NEW rows \in SUBSET Rows, IsFiniteSet(rows),
         \A r, s \in rows : r.id = s.id => r = s
  PROVE  Cardinality(Window(rows)) <= LoadWindow + 1
<1> DEFINE W == Window(rows)
           N == Cardinality(W)
<1>1. W \in SUBSET rows /\ Ranked(W) /\ LoadWindow \in Nat
      /\ \A r, s \in W : r.id >= s.id - LoadWindow /\ r.id \in Nat
  BY LoadedReads, Constants DEF Window, Rows
<1> HIDE DEF W
<1>2. N \in Nat /\ IsFiniteSet(W)
  BY <1>1, FS_Subset DEF Ranked
<1>3. CASE N = 0
  BY <1>1, <1>3 DEF W
<1>4. CASE N # 0
  <2>1. PICK r \in W : Rank(W, r) = 1
    <3>1. 1 \in 1 .. N
      BY <1>2, <1>4
    <3> QED
      BY <1>1, <3>1 DEF Ranked
  <2> DEFINE a == r.id
             b == r.id + LoadWindow
  <2>2. \A s \in W : s.id >= a
    <3> SUFFICES ASSUME NEW s \in W, ~ (s.id >= a) PROVE FALSE
      OBVIOUS
    <3> DEFINE S == {q \in W : q.id <= r.id}
    <3>1. s \in S /\ r \in S /\ s # r /\ S \in SUBSET W
      BY <1>1
    <3>2. Cardinality(S) = 1
      BY <2>1 DEF Rank
    <3> HIDE DEF S
    <3>3. IsFiniteSet(S)
      BY <1>2, <3>1, FS_Subset
    <3>4. PICK q : S = {q}
      BY <3>2, <3>3, FS_Singleton
    <3> QED
      BY <3>1, <3>4
  <2> DEFINE f == [s \in W |-> s.id]
  <2>3. a \in Int /\ b \in Int /\ a <= b /\ b - a + 1 = LoadWindow + 1
    BY <1>1
  <2>4. f \in [W -> a .. b]
    BY <1>1, <2>2
  <2>5. \A s, q \in W : f[s] = f[q] => s = q
    BY <1>1
  <2>6. IsFiniteSet(a .. b) /\ Cardinality(a .. b) = IF a > b THEN 0 ELSE b - a + 1
    <3> HIDE DEF a, b
    <3> QED
      BY <2>3, FS_Interval
  <2> HIDE DEF a, b, f
  <2>7. f \in Injection(W, a .. b)
    BY <2>4, <2>5 DEF Injection, IsInjective
  <2>8. N <= Cardinality(a .. b)
    BY <2>6, <2>7, FS_Injection
  <2> QED
    BY <2>3, <2>6, <2>8 DEF W
<1> QED
  BY <1>3, <1>4

(***************************************************************************)
(* A restart reads back every row of the last LoadWindow ids but for the   *)
(* newest when there is one more than the query's limit. The window has at *)
(* most one more, since it spans that many ids.                            *)
(***************************************************************************)
THEOREM RestartReads == Spec => RestartBringsBack
<1> DEFINE Back(x, r) ==
             LET younger == {s \in table[x] : s.id > r.id}
             IN  (\A s \in younger : r.id >= s.id - LoadWindow) =>
                   \/ \E i \in 1 .. Len(mem'[x]) : Row(mem'[x][i]) = r
                   \/ younger = {} /\ Cardinality(Window(table[x])) > LoadWindow
           A == ~up /\ up' => \A x \in Levels : \A r \in table[x] : Back(x, r)
<1>1. HistoryInv /\ [Next]_vars => [A]_vars
  <2> SUFFICES ASSUME HistoryInv, Next, ~up, up', NEW x \in Levels, NEW r \in table[x],
                      \A s \in {q \in table[x] : q.id > r.id} : r.id >= s.id - LoadWindow
               PROVE  \/ \E i \in 1 .. Len(mem'[x]) : Row(mem'[x][i]) = r
                      \/ /\ {q \in table[x] : q.id > r.id} = {}
                         /\ Cardinality(Window(table[x])) > LoadWindow
    OBVIOUS
  <2> DEFINE rows == table[x]
             W == Window(rows)
             N == Cardinality(W)
             count == Min2(LoadWindow, N)
             L == Loaded(rows)
  <2>1. Start
    BY DEF Next, Sample, Flush, Terminate, Crash, Tick, threadVars
  <2>2. mem'[x] = L
    BY <2>1 DEF Start
  <2>3. Types /\ StoredInTime /\ QueuedInTime /\ rows \in SUBSET Rows /\ IsFiniteSet(rows)
    BY DEF HistoryInv, Types
  <2>4. \A q, s \in rows : q.id = s.id => q = s
    BY <2>3, OneRowPerId
  <2>5. Ranked(W) /\ Reads(rows, L) /\ N <= LoadWindow + 1 /\ LoadWindow \in Nat
    <3> HIDE DEF rows
    <3> QED
      BY <2>3, <2>4, LoadedReads, WindowIsSmall, Constants
  <2>6. \A s \in rows : s.id \in Nat
    BY <2>3 DEF Rows
  <2>7. W \in SUBSET rows /\ r \in W
    BY <2>5, <2>6 DEF Window
  <2>8. \A s \in rows : s.id > r.id => s \in W
    <3> SUFFICES ASSUME NEW s \in rows, s.id > r.id, NEW q \in rows PROVE s.id >= q.id - LoadWindow
      BY DEF Window
    <3>1. r.id >= q.id - LoadWindow
      BY <2>7 DEF Window
    <3> QED
      BY <2>5, <2>6, <3>1
  <2>9. /\ count \in Nat /\ Len(L) = count
        /\ \A n \in 1 .. count : Row(L[n]) \in W /\ Rank(W, Row(L[n])) = count + 1 - n
    <3> HIDE DEF rows, L
    <3> QED
      BY <2>5 DEF Reads
  <2> HIDE DEF W, L
  <2> DEFINE k == Rank(W, r)
  <2>10. k \in 1 .. N /\ N \in Nat
    BY <2>5, <2>7 DEF Ranked
  <2>11. CASE k <= count
    <3> DEFINE n == count + 1 - k
    <3>1. n \in 1 .. count /\ count + 1 - n = k
      <4> HIDE DEF k, count, N
      <4> QED
        BY <2>9, <2>10, <2>11
    <3> HIDE DEF n
    <3>2. Row(L[n]) \in W /\ Rank(W, Row(L[n])) = Rank(W, r)
      BY <2>9, <3>1
    <3>3. Row(L[n]) = r
      BY <2>5, <2>7, <3>2 DEF Ranked
    <3> QED
      BY <2>2, <2>9, <3>1, <3>3
  <2>12. CASE ~ (k <= count)
    <3>1. k = N /\ N > LoadWindow
      <4> HIDE DEF k, N
      <4> QED
        BY <2>5, <2>9, <2>10, <2>12 DEF Min2
    <3> DEFINE S == {s \in W : s.id <= r.id}
    <3>2. S \in SUBSET W /\ Cardinality(S) = Cardinality(W)
      BY <3>1 DEF Rank
    <3> HIDE DEF S
    <3>3. S = W
      <4>1. IsFiniteSet(W)
        BY <2>3, <2>7, FS_Subset
      <4> QED
        BY <3>2, <4>1, FS_Subset
    <3>4. \A s \in rows : ~ (s.id > r.id)
      BY <2>6, <2>8, <3>3 DEF S
    <3> QED
      BY <3>1, <3>4 DEF W
  <2> QED
    BY <2>11, <2>12
<1>2. RestartBringsBack <=> [][A]_vars
  BY DEF RestartBringsBack
<1> HIDE DEF A
<1> QED
  BY <1>1, <1>2, HistoryInvariant, PTL DEF Spec
==============================================================================
