-------------------------- MODULE Statistics_proofs --------------------------
(***************************************************************************)
(* Proofs about the statistics thread beside the main thread, for any      *)
(* number of seconds and any interval of the history, and about the        *)
(* collectors of sensors, batteries, disks and processes that it updates,  *)
(* for any machines, batteries, tables of mounts and processes.            *)
(***************************************************************************)
EXTENDS StatsThread, Collectors, SequenceFacts, FiniteSetTheorems, TLAPS

(***************************************************************************)
(* The types of the variables, with the places of the threads inside the   *)
(* lists they work through.                                                *)
(***************************************************************************)
StoredSet  == ToSet(Stored)
Kinds      == {"insert", "delete", "limits"}
Statements == [of : StoredSet, kind : Kinds, second : 0 .. MaxSecond]
Samples    == [id : Nat, at : Int]

Starting    == {"open", "init", "entitlement", "first"}
StatsPlaces == Starting \cup {"ready", "addresses", "times", "sleep", "holds", "between",
                              "remove", "begin", "insert", "commit"}
MainPlaces  == {"idle", "wants", "reads", "sends", "finalize", "commit", "exited"}

DataTypes ==
    /\ sampleID \in 0 .. MaxSecond
    /\ shown \in [Collector -> Samples]
    /\ queue \in [StoredSet -> Seq(Statements)]
    /\ reading \in Seq(Samples)
    /\ executed \subseteq Statements
    /\ durable \subseteq Statements

\* The number of calls of a second's turn.
Slow(n)  == IF n % 3 = 0 THEN 18 ELSE 12
LastCall == Slow(sampleID) + (IF historyEnabled THEN 7 ELSE 0)

StatsTyped ==
    /\ stats \in [at : StatsPlaces, i : Nat \ {0}, k : Nat \ {0}]
    /\ stats.at = "init" => stats.i <= Len(Indexed)
    /\ stats.at = "first" => stats.i <= Len(First)
    /\ stats.at = "holds" => stats.i <= LastCall
    /\ stats.at \in {"remove", "insert"} => stats.i <= Len(Stored)

MainTyped ==
    /\ main \in [at : MainPlaces, i : Nat \ {0}, k : Nat \ {0}]
    /\ main.at = "reads" => main.i <= Len(Asked)
    /\ main.at = "finalize" => main.i <= Len(Stored)

Types == historyEnabled \in BOOLEAN /\ DataTypes /\ StatsTyped /\ MainTyped

(***************************************************************************)
(* The lock: the samples are changed, and a reply is made, only by the     *)
(* thread that holds it.                                                   *)
(***************************************************************************)
LockKept ==
    /\ stats.at = "holds" => lock = "stats"
    /\ main.at = "reads" => lock = "main"

(***************************************************************************)
(* What the collectors show.  Within a second, the first calls have made   *)
(* their part of the way from the last second's samples to this one's.     *)
(***************************************************************************)
IsAmong(c, collectors, n) == \E p \in 1 .. Len(collectors) : collectors[p] = c /\ p < n

Counted(c, n, i) ==
    SampleOf(c, n - 1).id
      + (IF IsAmong(c, Prepared, i) THEN 1 ELSE 0)
      + (IF n % 3 = 0 /\ IsAmong(c, Thirds, i - 12) THEN 1 ELSE 0)

Dated(c, n, i) ==
    IF IsAmong(c, Updated, i - 6) \/ (n % 3 = 0 /\ IsAmong(c, Thirds, i - 15))
    THEN n ELSE SampleOf(c, n - 1).at

OnTheWay(c, n, i) == [id |-> Counted(c, n, i), at |-> Dated(c, n, i)]

\* At the start each collector is initialised, and then each is updated.
AtStart(c) ==
    [id |-> IF stats.at = "open" \/ c = "processes"
               \/ (stats.at = "init" /\ ~IsAmong(c, Indexed, stats.i))
            THEN 0 ELSE 1,
     at |-> IF stats.at = "first" /\ IsAmong(c, First, stats.i) THEN 0 ELSE -1]

ShownInTime ==
    /\ stats.at \in Starting =>
         /\ sampleID = 0
         /\ \A c \in Collector : shown[c] = AtStart(c)
    /\ stats.at = "holds" =>
         /\ sampleID > 0
         /\ \A c \in Collector : shown[c] = OnTheWay(c, sampleID, stats.i)
    /\ stats.at \notin Starting \cup {"holds"} =>
         \A c \in Collector : shown[c] = SampleOf(c, sampleID)

(***************************************************************************)
(* What a reply being made has is of this second, or of the start.         *)
(***************************************************************************)
ReadInTime ==
    main.at = "reads" =>
        /\ Len(reading) = main.i - 1
        /\ \/ \A i \in 1 .. Len(reading) : reading[i] = SampleOf(Asked[i], sampleID)
           \/ /\ sampleID = 0
              /\ \A i \in 1 .. Len(reading) : reading[i] \in Started(Asked[i])

(***************************************************************************)
(* What was owed at SIGTERM is executed, or in a queue the handler has     *)
(* still before it: of the queue the statistics thread is at, it has       *)
(* executed what it has passed, and so may clear it.                       *)
(***************************************************************************)
Kept == executed \cup durable

FlushedInOrder ==
    stats.at = "insert" /\ main.at # "exited" =>
        \A k \in 1 .. Len(queue[Stored[stats.i]]) :
            k < stats.k => queue[Stored[stats.i]][k] \in Kept

StillToDo(s) ==
    \E j \in main.i .. Len(Stored) : \E k \in 1 .. Len(queue[Stored[j]]) :
        s = queue[Stored[j]][k] /\ (j = main.i => main.k <= k)

OwedIsSafe ==
    /\ main.at \in Interrupted => owed = {}
    /\ main.at = "finalize" => \A s \in owed : s \in Kept \/ StillToDo(s)
    /\ main.at = "commit" => owed \subseteq Kept
    /\ main.at = "exited" /\ ~undefined => owed \subseteq durable

ThreadsInv ==
    /\ Types
    /\ LockKept
    /\ ShownInTime
    /\ ReadInTime
    /\ RepliesAreWhole
    /\ FlushedInOrder
    /\ OwedIsSafe

-----------------------------------------------------------------------------
(***************************************************************************)
(* The lists the threads work through.                                     *)
(***************************************************************************)
\* First names every collector, each once.
LEMMA CollectorSet ==
  /\ Len(First) = 9
  /\ Collector = {"cpu", "memory", "load", "sensors", "network", "disks", "activity",
                  "battery", "processes"}
  /\ Collector = {First[i] : i \in 1 .. 9}
  /\ \A i, j \in 1 .. 9 : First[i] = First[j] => i = j
<1>1. Len(First) = 9 /\ DOMAIN First = 1 .. 9
  BY DEF First
<1>2. Collector = {First[i] : i \in 1 .. 9}
  BY <1>1 DEF Collector, ToSet
<1>3. /\ First[1] = "cpu" /\ First[2] = "memory" /\ First[3] = "load"
      /\ First[4] = "sensors" /\ First[5] = "network" /\ First[6] = "disks"
      /\ First[7] = "activity" /\ First[8] = "battery" /\ First[9] = "processes"
  BY DEF First
<1>4. \A i \in 1 .. 9 : i = 1 \/ i = 2 \/ i = 3 \/ i = 4 \/ i = 5 \/ i = 6 \/ i = 7
                        \/ i = 8 \/ i = 9
  OBVIOUS
<1>5. \A i, j \in 1 .. 9 : First[i] = First[j] => i = j
  BY <1>3, <1>4
<1>6. 1 \in 1 .. 9 /\ 2 \in 1 .. 9 /\ 3 \in 1 .. 9 /\ 4 \in 1 .. 9 /\ 5 \in 1 .. 9
      /\ 6 \in 1 .. 9 /\ 7 \in 1 .. 9 /\ 8 \in 1 .. 9 /\ 9 \in 1 .. 9
  OBVIOUS
<1>7. Collector = {"cpu", "memory", "load", "sensors", "network", "disks", "activity",
                   "battery", "processes"}
  BY <1>2, <1>3, <1>4, <1>6
<1> QED
  BY <1>1, <1>2, <1>5, <1>7

\* The statistics thread flushes seven collectors, each once.
LEMMA StoredList ==
  /\ Len(Stored) = 7 /\ StoredSet = {Stored[i] : i \in 1 .. 7}
  /\ \A i, j \in 1 .. 7 : Stored[i] = Stored[j] => i = j
  /\ StoredSet \subseteq Collector
<1>1. Len(Stored) = 7 /\ DOMAIN Stored = 1 .. 7
  BY DEF Stored
<1>2. StoredSet = {Stored[i] : i \in 1 .. 7}
  BY <1>1 DEF StoredSet, ToSet
<1>3. /\ Stored[1] = "cpu" /\ Stored[2] = "load" /\ Stored[3] = "memory"
      /\ Stored[4] = "activity" /\ Stored[5] = "sensors" /\ Stored[6] = "network"
      /\ Stored[7] = "disks"
  BY DEF Stored
<1>4. \A i \in 1 .. 7 : i = 1 \/ i = 2 \/ i = 3 \/ i = 4 \/ i = 5 \/ i = 6 \/ i = 7
  OBVIOUS
<1>5. \A i, j \in 1 .. 7 : Stored[i] = Stored[j] => i = j
  BY <1>3, <1>4
<1>6. \A i \in 1 .. 7 : Stored[i] \in Collector
  BY <1>3, <1>4, CollectorSet
<1> QED
  BY <1>1, <1>2, <1>5, <1>6

\* Eight collectors have an index: all but the processes.
LEMMA IndexedList ==
  /\ Len(Indexed) = 8
  /\ \A i \in 1 .. 8 : Indexed[i] \in Collector /\ Indexed[i] # "processes"
  /\ \A c \in Collector : c # "processes" => \E i \in 1 .. 8 : Indexed[i] = c
<1>2. Len(Indexed) = 8
  BY DEF Indexed
<1>3. /\ Indexed[1] = "cpu" /\ Indexed[2] = "load" /\ Indexed[3] = "memory"
      /\ Indexed[4] = "activity" /\ Indexed[5] = "sensors" /\ Indexed[6] = "network"
      /\ Indexed[7] = "disks" /\ Indexed[8] = "battery"
  BY DEF Indexed
<1>4. \A i \in 1 .. 8 : i = 1 \/ i = 2 \/ i = 3 \/ i = 4 \/ i = 5 \/ i = 6 \/ i = 7 \/ i = 8
  OBVIOUS
<1>5. 1 \in 1 .. 8 /\ 2 \in 1 .. 8 /\ 3 \in 1 .. 8 /\ 4 \in 1 .. 8 /\ 5 \in 1 .. 8
      /\ 6 \in 1 .. 8 /\ 7 \in 1 .. 8 /\ 8 \in 1 .. 8
  OBVIOUS
<1>6. \A i \in 1 .. 8 : Indexed[i] \in Collector /\ Indexed[i] # "processes"
  BY <1>3, <1>4, CollectorSet
<1>7. \A c \in Collector : c # "processes" => \E i \in 1 .. 8 : Indexed[i] = c
  BY <1>3, <1>5, CollectorSet
<1> QED
  BY <1>2, <1>6, <1>7

\* A client asks for nine collectors.
LEMMA AskedList == Len(Asked) = 9 /\ \A i \in 1 .. 9 : Asked[i] \in Collector
<1>1. Len(Asked) = 9
  BY DEF Asked
<1>2. /\ Asked[1] = "cpu" /\ Asked[2] = "memory" /\ Asked[3] = "load"
      /\ Asked[4] = "network" /\ Asked[5] = "activity" /\ Asked[6] = "processes"
      /\ Asked[7] = "disks" /\ Asked[8] = "sensors" /\ Asked[9] = "battery"
  BY DEF Asked
<1>3. \A i \in 1 .. 9 : i = 1 \/ i = 2 \/ i = 3 \/ i = 4 \/ i = 5 \/ i = 6 \/ i = 7
                        \/ i = 8 \/ i = 9
  OBVIOUS
<1> QED
  BY <1>1, <1>2, <1>3, CollectorSet

\* The calls of a second: the lists of collectors, each once in its list.
LEMMA CallLists ==
  /\ Len(Prepared) = 6 /\ Len(Updated) = 6 /\ Len(Thirds) = 3
  /\ \A i \in 1 .. 6 : Prepared[i] \in Collector /\ Updated[i] \in Collector
  /\ \A i \in 1 .. 3 : Thirds[i] \in Collector
  /\ \A i, j \in 1 .. 6 : Prepared[i] = Prepared[j] => i = j
  /\ \A i, j \in 1 .. 6 : Updated[i] = Updated[j] => i = j
  /\ \A i, j \in 1 .. 3 : Thirds[i] = Thirds[j] => i = j
<1>1. Len(Prepared) = 6 /\ Len(Updated) = 6 /\ Len(Thirds) = 3
  BY DEF Prepared, Updated, Thirds
<1>2. /\ Prepared[1] = "cpu" /\ Prepared[2] = "load" /\ Prepared[3] = "memory"
      /\ Prepared[4] = "activity" /\ Prepared[5] = "sensors" /\ Prepared[6] = "network"
  BY DEF Prepared
<1>3. /\ Updated[1] = "cpu" /\ Updated[2] = "load" /\ Updated[3] = "memory"
      /\ Updated[4] = "network" /\ Updated[5] = "activity" /\ Updated[6] = "processes"
  BY DEF Updated
<1>4. Thirds[1] = "battery" /\ Thirds[2] = "disks" /\ Thirds[3] = "sensors"
  BY DEF Thirds
<1>5. \A i \in 1 .. 6 : i = 1 \/ i = 2 \/ i = 3 \/ i = 4 \/ i = 5 \/ i = 6
  OBVIOUS
<1>6. \A i \in 1 .. 3 : i = 1 \/ i = 2 \/ i = 3
  OBVIOUS
<1>7. \A i \in 1 .. 6 : Prepared[i] \in Collector /\ Updated[i] \in Collector
  BY <1>2, <1>3, <1>5, CollectorSet
<1>8. \A i \in 1 .. 3 : Thirds[i] \in Collector
  BY <1>4, <1>6, CollectorSet
<1>9. \A i, j \in 1 .. 6 : Prepared[i] = Prepared[j] => i = j
  BY <1>2, <1>5
<1>10. \A i, j \in 1 .. 6 : Updated[i] = Updated[j] => i = j
  BY <1>3, <1>5
<1>11. \A i, j \in 1 .. 3 : Thirds[i] = Thirds[j] => i = j
  BY <1>4, <1>6
<1> QED
  BY <1>1, <1>7, <1>8, <1>9, <1>10, <1>11

\* The call a second's turn makes at place i of Calls.
CallAt(n, i) ==
    IF i <= 6 THEN [call |-> "prepareUpdate", of |-> Prepared[i]]
    ELSE IF i <= 12 THEN [call |-> "update", of |-> Updated[i - 6]]
    ELSE IF n % 3 = 0 /\ i <= 15 THEN [call |-> "prepareUpdate", of |-> Thirds[i - 12]]
    ELSE IF n % 3 = 0 /\ i <= 18 THEN [call |-> "update", of |-> Thirds[i - 15]]
    ELSE [call |-> "updateHistory", of |-> Stored[i - Slow(n)]]

AllCalls == [call : {"prepareUpdate", "update", "updateHistory"}, of : Collector]

\* A list of calls has one for each collector.
LEMMA EachCall ==
  ASSUME NEW call \in {"prepareUpdate", "update", "updateHistory"},
         NEW m \in Nat, NEW list \in Seq(Collector), Len(list) = m
  PROVE  /\ Each(call, list) \in Seq(AllCalls)
         /\ Len(Each(call, list)) = m
         /\ \A i \in 1 .. m : Each(call, list)[i] = [call |-> call, of |-> list[i]]
<1>1. \A i \in 1 .. m : list[i] \in Collector
  BY ElementOfSeq
<1> DEFINE e == Each(call, list)
           U == AllCalls
<1>2. e = [i \in 1 .. m |-> [call |-> call, of |-> list[i]]]
  BY DEF Each
<1>3. \A i \in 1 .. m : [call |-> call, of |-> list[i]] \in U
  BY <1>1 DEF AllCalls
<1> QED
  BY <1>2, <1>3

\* q is a, of m calls, and b, of n, behind it.
Joined(q, a, b, m, n) ==
    /\ q \in Seq(AllCalls) /\ Len(q) = m + n
    /\ \A i \in 1 .. m : q[i] = a[i]
    /\ \A i \in m + 1 .. m + n : q[i] = b[i - m]

\* Lists of calls put behind each other.
LEMMA Join ==
  ASSUME NEW a \in Seq(AllCalls), NEW b \in Seq(AllCalls),
         NEW m, m = Len(a), NEW n, n = Len(b)
  PROVE  Joined(a \o b, a, b, m, n)
<1> DEFINE q == a \o b
<1>1. /\ q \in Seq(AllCalls) /\ Len(q) = Len(a) + Len(b)
      /\ \A i \in 1 .. Len(a) + Len(b) : q[i] = IF i <= Len(a) THEN a[i] ELSE b[i - Len(a)]
  BY ConcatProperties
<1>2. m \in Nat /\ n \in Nat
  OBVIOUS
<1> HIDE DEF q
<1> QED
  BY <1>1, <1>2 DEF q, Joined

\* The calls of a second, place by place.
LEMMA CallsOfASecond ==
  ASSUME NEW n \in Nat, historyEnabled \in BOOLEAN
  PROVE  /\ Len(Calls(n)) = Slow(n) + (IF historyEnabled THEN 7 ELSE 0)
         /\ \A i \in 1 .. Len(Calls(n)) : Calls(n)[i] = CallAt(n, i)
<1> DEFINE A == Each("prepareUpdate", Prepared)
           B == Each("update", Updated)
           C == Each("prepareUpdate", Thirds)
           D == Each("update", Thirds)
           E == Each("updateHistory", Stored)
<1>1. /\ Prepared \in Seq(Collector) /\ Updated \in Seq(Collector)
      /\ Thirds \in Seq(Collector) /\ Stored \in Seq(Collector)
      /\ Len(Prepared) = 6 /\ Len(Updated) = 6 /\ Len(Thirds) = 3 /\ Len(Stored) = 7
  <2>1. Len(Prepared) = 6 /\ Len(Updated) = 6 /\ Len(Thirds) = 3 /\ Len(Stored) = 7
    BY CallLists, StoredList
  <2>2. /\ Prepared \in Seq(Collector) /\ Updated \in Seq(Collector)
        /\ Thirds \in Seq(Collector) /\ Stored \in Seq(Collector)
    BY CollectorSet DEF Prepared, Updated, Thirds, Stored
  <2> QED
    BY <2>1, <2>2
<1>2. /\ A \in Seq(AllCalls) /\ Len(A) = 6
      /\ \A i \in 1 .. 6 : A[i] = [call |-> "prepareUpdate", of |-> Prepared[i]]
  BY <1>1, EachCall
<1>3. /\ B \in Seq(AllCalls) /\ Len(B) = 6
      /\ \A i \in 1 .. 6 : B[i] = [call |-> "update", of |-> Updated[i]]
  BY <1>1, EachCall
<1>4. /\ C \in Seq(AllCalls) /\ Len(C) = 3
      /\ \A i \in 1 .. 3 : C[i] = [call |-> "prepareUpdate", of |-> Thirds[i]]
  BY <1>1, EachCall
<1>5. /\ D \in Seq(AllCalls) /\ Len(D) = 3
      /\ \A i \in 1 .. 3 : D[i] = [call |-> "update", of |-> Thirds[i]]
  BY <1>1, EachCall
<1>6. /\ E \in Seq(AllCalls) /\ Len(E) = 7
      /\ \A i \in 1 .. 7 : E[i] = [call |-> "updateHistory", of |-> Stored[i]]
  BY <1>1, EachCall
<1> HIDE DEF A, B, C, D, E
<1> DEFINE none == <<>>
           slow == C \o D
           third == IF n % 3 = 0 THEN slow ELSE none
           history == IF historyEnabled THEN E ELSE none
           early == A \o B
           all == early \o third
           t == IF n % 3 = 0 THEN 6 ELSE 0
           h == IF historyEnabled THEN 7 ELSE 0
<1>7. Joined(early, A, B, 6, 6) /\ Joined(slow, C, D, 3, 3)
  BY <1>2, <1>3, <1>4, <1>5, Join
<1> HIDE DEF early, slow
<1>8. none \in Seq(AllCalls) /\ Len(none) = 0
  BY EmptySeq
<1> HIDE DEF none
<1>9. third \in Seq(AllCalls) /\ Len(third) = t /\ history \in Seq(AllCalls) /\ Len(history) = h
  <2>1. slow \in Seq(AllCalls) /\ Len(slow) = 6 /\ E \in Seq(AllCalls) /\ Len(E) = 7
    BY <1>6, <1>7 DEF Joined
  <2>2. third \in Seq(AllCalls) /\ Len(third) = t
    BY <1>8, <2>1
  <2>3. history \in Seq(AllCalls) /\ Len(history) = h
    BY <1>8, <2>1
  <2> QED
    BY <2>2, <2>3
<1> HIDE DEF third, history
<1>10. Joined(all, early, third, 12, t)
  <2>1. early \in Seq(AllCalls) /\ Len(early) = 12
    BY <1>7 DEF Joined
  <2> QED
    BY <1>9, <2>1, Join
<1>11. Calls(n) = all \o history
  BY Zenon DEF Calls, A, B, C, D, E, early, third, slow, history, none
<1> HIDE DEF all
<1>12. Joined(Calls(n), all, history, Slow(n), h)
  <2>1. all \in Seq(AllCalls) /\ Len(all) = Slow(n)
    BY <1>10 DEF Joined, Slow
  <2>2. Joined(all \o history, all, history, Slow(n), h)
    BY <1>9, <2>1, Join
  <2> QED
    BY <1>11, <2>2, Zenon
<1>13. ASSUME NEW i \in 1 .. Len(Calls(n)) PROVE Calls(n)[i] = CallAt(n, i)
  <2>1. i \in Nat \ {0} /\ i <= Slow(n) + h /\ Slow(n) = 12 + t /\ t \in {0, 6} /\ h \in {0, 7}
    BY <1>12 DEF Joined, Slow
  <2> HIDE DEF t, h
  <2>2. CASE i <= 6
    <3>1. Calls(n)[i] = all[i] /\ all[i] = early[i] /\ early[i] = A[i]
      BY <1>7, <1>10, <1>12, <2>1, <2>2 DEF Joined
    <3> QED
      BY <1>2, <2>1, <2>2, <3>1 DEF CallAt
  <2>3. CASE ~(i <= 6) /\ i <= 12
    <3>1. Calls(n)[i] = all[i] /\ all[i] = early[i] /\ early[i] = B[i - 6]
      <4>1. i \in 1 .. Slow(n) /\ i \in 1 .. 12 /\ i \in 6 + 1 .. 6 + 6
        BY <2>1, <2>3
      <4> QED
        BY <1>7, <1>10, <1>12, <4>1 DEF Joined
    <3> QED
      BY <1>3, <2>1, <2>3, <3>1, SMTT(30) DEF CallAt
  <2>4. CASE ~(i <= 12) /\ i <= Slow(n)
    <3>1. n % 3 = 0 /\ Slow(n) = 18 /\ third = slow /\ t = 6
      BY <2>1, <2>4 DEF Slow, third, t
    <3>2. Calls(n)[i] = all[i] /\ all[i] = slow[i - 12]
      BY <1>10, <1>12, <2>1, <2>4, <3>1, SMTT(30) DEF Joined
    <3>3. CASE i <= 15
      <4>1. slow[i - 12] = C[i - 12]
        <5>1. i - 12 \in 1 .. 3
          BY <2>1, <2>4, <3>3
        <5> QED
          BY <1>7, <5>1 DEF Joined
      <4> QED
        BY <1>4, <2>1, <2>4, <3>1, <3>2, <3>3, <4>1 DEF CallAt
    <3>4. CASE ~(i <= 15)
      <4>1. slow[i - 12] = D[i - 12 - 3] /\ i - 12 - 3 = i - 15
        <5>1. i - 12 \in 3 + 1 .. 3 + 3 /\ i - 12 - 3 = i - 15
          BY <2>1, <2>4, <3>1, <3>4
        <5> QED
          BY <1>7, <5>1 DEF Joined
      <4> QED
        BY <1>5, <2>1, <2>4, <3>1, <3>2, <3>4, <4>1 DEF CallAt
    <3> QED
      BY <3>3, <3>4
  <2>5. CASE ~(i <= Slow(n))
    <3>1. h = 7 /\ history = E
      BY <2>1, <2>5 DEF h, history
    <3>2. Calls(n)[i] = E[i - Slow(n)] /\ i - Slow(n) \in 1 .. 7
      BY <1>12, <2>1, <2>5, <3>1 DEF Joined
    <3>3. Calls(n)[i] = [call |-> "updateHistory", of |-> Stored[i - Slow(n)]]
      BY <1>6, <3>2
    <3>4. ~(i <= 12) /\ ~(i <= 6) /\ (n % 3 = 0 => ~(i <= 15) /\ ~(i <= 18))
      BY <2>1, <2>5 DEF Slow
    <3> QED
      BY <3>3, <3>4 DEF CallAt
  <2> QED
    BY <2>1, <2>2, <2>3, <2>4, <2>5
<1> QED
  BY <1>12, <1>13 DEF Joined

\* The call the statistics thread is at.
LEMMA CallUnderWay ==
  ASSUME Types, stats.at = "holds"
  PROVE  /\ Len(Calls(sampleID)) = LastCall /\ stats.i \in 1 .. LastCall
         /\ Calls(sampleID)[stats.i] = CallAt(sampleID, stats.i)
         /\ CallAt(sampleID, stats.i) \in AllCalls
         /\ CallAt(sampleID, stats.i).call = "updateHistory" =>
               CallAt(sampleID, stats.i).of \in StoredSet
<1> DEFINE n == sampleID
           i == stats.i
<1>1. n \in Nat /\ historyEnabled \in BOOLEAN /\ i \in Nat \ {0} /\ i <= LastCall
  BY StatsThreadAssumption DEF Types, DataTypes, StatsTyped
<1>2. Len(Calls(n)) = LastCall
  BY <1>1, CallsOfASecond DEF LastCall
<1>3. LastCall \in Nat
  BY <1>1 DEF LastCall, Slow
<1>4. i \in 1 .. LastCall
  BY <1>1, <1>3
<1>5. Calls(n)[i] = CallAt(n, i)
  BY <1>1, <1>2, <1>4, CallsOfASecond
<1>6. /\ CallAt(n, i) \in AllCalls
      /\ CallAt(n, i).call = "updateHistory" => CallAt(n, i).of \in StoredSet
  <2> HIDE DEF n, i
  <2>1. CASE i <= 6
    <3>1. Prepared[i] \in Collector
      BY <1>1, <2>1, CallLists
    <3> QED
      BY <2>1, <3>1 DEF CallAt, AllCalls
  <2>2. CASE ~(i <= 6) /\ i <= 12
    <3>1. i - 6 \in 1 .. 6
      BY <1>1, <2>2
    <3>2. Updated[i - 6] \in Collector
      BY <3>1, CallLists
    <3> QED
      BY <2>2, <3>2 DEF CallAt, AllCalls
  <2>3. CASE ~(i <= 12) /\ n % 3 = 0 /\ i <= 15
    <3>1. i - 12 \in 1 .. 3 /\ ~(i <= 6)
      BY <1>1, <2>3
    <3>2. Thirds[i - 12] \in Collector
      BY <3>1, CallLists
    <3> QED
      BY <2>3, <3>1, <3>2 DEF CallAt, AllCalls
  <2>4. CASE ~(i <= 15) /\ n % 3 = 0 /\ i <= 18
    <3>1. i - 15 \in 1 .. 3 /\ ~(i <= 6) /\ ~(i <= 12)
      BY <1>1, <2>4
    <3>2. Thirds[i - 15] \in Collector
      BY <3>1, CallLists
    <3> QED
      BY <2>4, <3>1, <3>2 DEF CallAt, AllCalls
  <2>5. CASE ~(i <= Slow(n))
    <3>1. i - Slow(n) \in 1 .. 7
      BY <1>1, <2>5 DEF LastCall, Slow, n
    <3>2. Stored[i - Slow(n)] \in Collector /\ Stored[i - Slow(n)] \in StoredSet
      BY <3>1, StoredList
    <3>3. ~(i <= 6) /\ ~(i <= 12) /\ ~(n % 3 = 0 /\ i <= 15) /\ ~(n % 3 = 0 /\ i <= 18)
      BY <1>1, <2>5 DEF Slow
    <3> QED
      BY <3>2, <3>3 DEF CallAt, AllCalls
  <2> QED
    BY <1>1, <2>1, <2>2, <2>3, <2>4, <2>5 DEF Slow
<1> QED
  BY <1>2, <1>4, <1>5, <1>6

-----------------------------------------------------------------------------
(***************************************************************************)
(* Types.                                                                  *)
(***************************************************************************)
\* A place in either thread's list begins a list.
LEMMA AtBegins ==
  /\ \A place \in StatsPlaces : At(place) \in [at : StatsPlaces, i : Nat \ {0}, k : Nat \ {0}]
  /\ \A place \in MainPlaces : At(place) \in [at : MainPlaces, i : Nat \ {0}, k : Nat \ {0}]
  /\ \A place : At(place).at = place /\ At(place).i = 1 /\ At(place).k = 1
  BY DEF At

\* The next queue of the list, from its first statement on.
LEMMA NextQueue ==
  ASSUME NEW P, NEW pc \in [at : P, i : Nat \ {0}, k : Nat \ {0}]
  PROVE  /\ [pc EXCEPT !.i = @ + 1, !.k = 1] \in [at : P, i : Nat \ {0}, k : Nat \ {0}]
         /\ [pc EXCEPT !.i = @ + 1, !.k = 1].at = pc.at
         /\ [pc EXCEPT !.i = @ + 1, !.k = 1].i = pc.i + 1
         /\ [pc EXCEPT !.i = @ + 1, !.k = 1].k = 1
<1> DEFINE moved == [pc EXCEPT !.i = @ + 1]
           next  == [moved EXCEPT !.k = 1]
<1>1. [pc EXCEPT !.i = @ + 1, !.k = 1] = next
  OBVIOUS
<1>2. /\ moved \in [at : P, i : Nat \ {0}, k : Nat \ {0}]
      /\ moved.at = pc.at /\ moved.i = pc.i + 1
  OBVIOUS
<1> HIDE DEF moved
<1>3. /\ next \in [at : P, i : Nat \ {0}, k : Nat \ {0}]
      /\ next.at = moved.at /\ next.i = moved.i /\ next.k = 1
  BY <1>2
<1> HIDE DEF next
<1> QED
  BY <1>1, <1>2, <1>3

\* A statement queued is one more statement of its collector.
LEMMA QueueStep ==
  ASSUME DataTypes, NEW c \in StoredSet, NEW kind \in Kinds, Queue(c, kind)
  PROVE  /\ queue' \in [StoredSet -> Seq(Statements)]
         /\ \A d \in StoredSet : d # c => queue'[d] = queue[d]
         /\ Len(queue'[c]) = Len(queue[c]) + 1
         /\ \A k \in 1 .. Len(queue[c]) : queue'[c][k] = queue[c][k]
<1> DEFINE s == Statement(c, kind)
           q == queue[c]
<1>1. s \in Statements /\ q \in Seq(Statements)
  BY DEF DataTypes, Statement, Statements, Kinds
<1>2. queue' = [queue EXCEPT ![c] = Append(q, s)]
  BY DEF Queue
<1> HIDE DEF s
<1>3. queue'[c] = Append(q, s) /\ \A d \in StoredSet : d # c => queue'[d] = queue[d]
  BY <1>2 DEF DataTypes
<1> HIDE DEF q
<1>4. /\ Append(q, s) \in Seq(Statements) /\ Len(Append(q, s)) = Len(q) + 1
      /\ \A k \in 1 .. Len(q) : Append(q, s)[k] = q[k]
  BY <1>1, AppendProperties
<1>5. queue' \in [StoredSet -> Seq(Statements)]
  BY <1>2, <1>4 DEF DataTypes
<1> QED
  BY <1>3, <1>4, <1>5 DEF q

\* A statement of the queue a thread is at was executed, or the queue cleared.
Inserted(pc, next, c) ==
    /\ c \in StoredSet
    /\ executed' \subseteq Statements /\ durable' \subseteq Statements
    /\ queue' \in [StoredSet -> Seq(Statements)]
    /\ executed \cup durable \subseteq executed' \cup durable'
    /\ \/ /\ pc.k <= Len(queue[c])
          /\ queue[c][pc.k] \in executed' \cup durable'
          /\ next = [pc EXCEPT !.k = @ + 1]
          /\ queue' = queue
       \/ /\ ~(pc.k <= Len(queue[c]))
          /\ queue' = [queue EXCEPT ![c] = <<>>]
          /\ next = IF pc.i < Len(Stored) THEN [pc EXCEPT !.i = @ + 1, !.k = 1]
                    ELSE At("commit")

\* The thread that flushes is at a queue of the list, and goes on in it.
LEMMA InsertStep ==
  ASSUME DataTypes, NEW pc, pc.i \in 1 .. Len(Stored), pc.k \in Nat \ {0},
         NEW next, Insert(pc, next)
  PROVE  Inserted(pc, next, Stored[pc.i])
<1> DEFINE c == Stored[pc.i]
<1>1. c \in StoredSet
  BY StoredList
<1>2. /\ queue[c] \in Seq(Statements) /\ queue \in [StoredSet -> Seq(Statements)]
      /\ executed \subseteq Statements /\ durable \subseteq Statements
  BY <1>1 DEF DataTypes
<1>3. CASE pc.k <= Len(queue[c])
  <2>1. Execute(c, pc.k) /\ next = [pc EXCEPT !.k = @ + 1]
    BY <1>3 DEF Insert
  <2>2. queue[c][pc.k] \in Statements
    <3> DEFINE q == queue[c]
    <3>1. q \in Seq(Statements) /\ pc.k \in 1 .. Len(q)
      BY <1>2, <1>3
    <3> HIDE DEF q
    <3>2. q[pc.k] \in Statements
      BY <3>1, ElementOfSeq
    <3> QED
      BY <3>2 DEF q
  <2> DEFINE e == queue[c][pc.k]
  <2>3. /\ queue' = queue
        /\ \/ executed' = executed \cup {e} /\ durable' = durable
           \/ durable' = durable \cup {e} /\ executed' = executed
    BY <2>1 DEF Execute
  <2> HIDE DEF e
  <2>4. e \in Statements
    BY <2>2 DEF e
  <2>5. /\ executed' \subseteq Statements /\ durable' \subseteq Statements
        /\ executed \cup durable \subseteq executed' \cup durable'
        /\ e \in executed' \cup durable'
    BY <1>2, <2>3, <2>4
  <2> QED
    BY <1>1, <1>2, <1>3, <2>1, <2>3, <2>5 DEF e, Inserted
<1>4. CASE ~(pc.k <= Len(queue[c]))
  <2>1. Clear(c) /\ next = IF pc.i < Len(Stored) THEN [pc EXCEPT !.i = @ + 1, !.k = 1]
                           ELSE At("commit")
    BY <1>4 DEF Insert
  <2>2. queue' = [queue EXCEPT ![c] = <<>>] /\ UNCHANGED <<open, executed, durable>>
    BY <2>1 DEF Clear, databaseVars
  <2>3. <<>> \in Seq(Statements)
    BY EmptySeq
  <2>4. queue' \in [StoredSet -> Seq(Statements)]
    BY <1>1, <1>2, <2>2, <2>3
  <2> QED
    BY <1>1, <1>2, <1>4, <2>1, <2>2, <2>4 DEF Inserted
<1> QED
  BY <1>3, <1>4

\* At most one statement more is in the queues.
QueueGrows == queue' = queue \/ \E c \in StoredSet, kind \in Kinds : Queue(c, kind)

\* Whatever is queued is a statement.
LEMMA GrowthTyped ==
  ASSUME DataTypes, QueueGrows
  PROVE  queue' \in [StoredSet -> Seq(Statements)]
<1>1. CASE queue' = queue
  BY <1>1 DEF DataTypes
<1>2. ASSUME NEW c \in StoredSet, NEW kind \in Kinds, Queue(c, kind)
      PROVE  queue' \in [StoredSet -> Seq(Statements)]
  BY <1>2, QueueStep
<1> QED
  BY <1>1, <1>2 DEF QueueGrows

\* An update dates what its collector shows, and may queue limits.
LEMMA UpdateStep ==
  ASSUME DataTypes, NEW c \in Collector, Update(c)
  PROVE  /\ shown' = [shown EXCEPT ![c].at = sampleID]
         /\ shown' \in [Collector -> Samples]
         /\ QueueGrows
<1>1. /\ shown' = [shown EXCEPT ![c].at = sampleID]
      /\ queue' = queue \/ (c = "sensors" /\ Queue(c, "limits"))
  BY DEF Update
<1>2. "sensors" \in StoredSet
  <2>1. Stored[5] = "sensors" /\ 5 \in 1 .. 7
    BY DEF Stored
  <2> QED
    BY <2>1, StoredList
<1>3. QueueGrows
  BY <1>1, <1>2 DEF QueueGrows, Kinds
<1>4. shown \in [Collector -> Samples] /\ sampleID \in Int
  BY StatsThreadAssumption DEF DataTypes
<1>5. \A d \in Collector : shown[d] \in Samples /\ [shown[d] EXCEPT !.at = sampleID] \in Samples
  BY <1>4 DEF Samples
<1>6. shown' \in [Collector -> Samples]
  BY <1>1, <1>4, <1>5
<1> QED
  BY <1>1, <1>3, <1>6

\* What a call of a second's turn does to the data.
LEMMA DoStep ==
  ASSUME DataTypes, NEW call \in AllCalls, Do(call),
         call.call = "updateHistory" => call.of \in StoredSet
  PROVE  /\ sampleID' = sampleID
         /\ shown' \in [Collector -> Samples]
         /\ QueueGrows
         /\ \/ /\ call.call = "prepareUpdate"
               /\ shown' = [shown EXCEPT ![call.of].id = @ + 1]
            \/ /\ call.call = "update"
               /\ shown' = [shown EXCEPT ![call.of].at = sampleID]
            \/ /\ call.call = "updateHistory"
               /\ shown' = shown
<1>1. call.of \in Collector /\ shown \in [Collector -> Samples]
  BY DEF DataTypes, AllCalls
<1>2. CASE call.call = "prepareUpdate"
  <2>1. /\ shown' = [shown EXCEPT ![call.of].id = @ + 1]
        /\ sampleID' = sampleID /\ queue' = queue
    BY <1>2 DEF Do, PrepareUpdate
  <2>2. shown[call.of] \in Samples
    BY <1>1
  <2>3. shown[call.of].id + 1 \in Nat /\ shown[call.of].at \in Int
    BY <2>2 DEF Samples
  <2>4. shown' \in [Collector -> Samples]
    BY <1>1, <2>1, <2>3 DEF Samples
  <2> QED
    BY <1>2, <2>1, <2>4 DEF QueueGrows
<1>3. CASE call.call = "update"
  <2>1. Update(call.of) /\ sampleID' = sampleID
    BY <1>3 DEF Do
  <2> QED
    BY <1>1, <1>3, <2>1, UpdateStep
<1>4. CASE call.call = "updateHistory"
  <2>1. /\ shown' = shown /\ sampleID' = sampleID
        /\ Queue(call.of, "insert") \/ queue' = queue
    BY <1>4 DEF Do
  <2>2. QueueGrows
    BY <1>4, <2>1 DEF QueueGrows, Kinds
  <2> QED
    BY <1>1, <1>4, <2>1, <2>2
<1> QED
  BY <1>2, <1>3, <1>4 DEF AllCalls

\* The statistics thread keeps the types.
LEMMA StatsTypesStep ==
  ASSUME Types, StatsStep
  PROVE  Types'
<1>1. historyEnabled \in BOOLEAN /\ DataTypes /\ StatsTyped /\ MainTyped
  BY DEF Types
<1>2. UNCHANGED <<historyEnabled, main, reading, owed>>
  BY DEF StatsStep
<1>3. MainTyped' /\ historyEnabled' \in BOOLEAN
  BY <1>1, <1>2 DEF MainTyped
<1> SUFFICES DataTypes' /\ StatsTyped'
  BY <1>3 DEF Types
<1>4. /\ stats \in [at : StatsPlaces, i : Nat \ {0}, k : Nat \ {0}]
      /\ sampleID \in 0 .. MaxSecond /\ sampleID \in Nat /\ MaxSecond \in Nat
  BY <1>1, StatsThreadAssumption DEF StatsTyped, DataTypes
<1>5. Len(First) = 9 /\ Len(Stored) = 7 /\ Len(Indexed) = 8
  BY CollectorSet, StoredList, IndexedList
<1>6. CASE OpenDatabase \/ SetEntitlement \/ SetReady \/ UpdateAddresses \/ UpdateNextTimes
  <2>1. /\ stats' \in {At("init"), At("first"), At("addresses"), At("times"), At("sleep")}
        /\ UNCHANGED <<dataVars, databaseVars>>
    BY <1>6 DEF OpenDatabase, SetEntitlement, SetReady, UpdateAddresses, UpdateNextTimes
  <2>2. StatsTyped'
    BY <1>5, <2>1, AtBegins DEF StatsTyped, StatsPlaces, Starting
  <2> QED
    BY <1>1, <1>2, <2>1, <2>2 DEF DataTypes, dataVars, databaseVars
<1>15. CASE InitCollector
  <2>1. /\ stats.at = "init" /\ shown' = [shown EXCEPT ![Indexed[stats.i]].id = 1]
        /\ stats' = IF stats.i < Len(Indexed) THEN [stats EXCEPT !.i = @ + 1]
                    ELSE At("entitlement")
        /\ UNCHANGED <<sampleID, queue, databaseVars>>
    BY <1>15 DEF InitCollector, GoOn
  <2>2. StatsTyped'
    <3>1. CASE stats.i < Len(Indexed)
      BY <1>4, <1>5, <2>1, <3>1 DEF StatsTyped
    <3>2. CASE ~(stats.i < Len(Indexed))
      BY <2>1, <3>2, AtBegins DEF StatsTyped, StatsPlaces, Starting
    <3> QED
      BY <3>1, <3>2
  <2>3. shown' \in [Collector -> Samples]
    <3>1. \A c \in Collector : shown[c] \in Samples /\ [shown[c] EXCEPT !.id = 1] \in Samples
      BY <1>1 DEF DataTypes, Samples
    <3> QED
      BY <1>1, <2>1, <3>1 DEF DataTypes
  <2> QED
    BY <1>1, <1>2, <2>1, <2>2, <2>3 DEF DataTypes, databaseVars
<1>7. CASE FirstUpdate
  <2>1. /\ stats.at = "first" /\ Update(First[stats.i])
        /\ stats' = IF stats.i < Len(First) THEN [stats EXCEPT !.i = @ + 1] ELSE At("ready")
        /\ UNCHANGED <<sampleID, databaseVars>>
    BY <1>7 DEF FirstUpdate, GoOn
  <2>2. StatsTyped'
    <3>1. CASE stats.i < Len(First)
      BY <1>4, <1>5, <2>1, <3>1 DEF StatsTyped
    <3>2. CASE ~(stats.i < Len(First))
      BY <2>1, <3>2, AtBegins DEF StatsTyped, StatsPlaces
    <3> QED
      BY <3>1, <3>2
  <2>3. shown' \in [Collector -> Samples] /\ queue' \in [StoredSet -> Seq(Statements)]
    <3>1. First[stats.i] \in Collector
      BY <1>1, <1>4, <2>1, CollectorSet DEF StatsTyped
    <3> QED
      BY <1>1, <2>1, <3>1, UpdateStep, GrowthTyped
  <2> QED
    BY <1>1, <1>2, <2>1, <2>2, <2>3 DEF DataTypes, databaseVars
<1>8. CASE Wake
  <2>1. /\ sampleID < MaxSecond /\ sampleID' = sampleID + 1 /\ stats' = At("holds")
        /\ UNCHANGED <<shown, queue, databaseVars>>
    BY <1>8 DEF Wake
  <2>2. StatsTyped'
    BY <1>2, <2>1, AtBegins, SMTT(30) DEF StatsTyped, StatsPlaces, LastCall, Slow
  <2> QED
    BY <1>1, <1>2, <1>4, <2>1, <2>2 DEF DataTypes, databaseVars
<1>9. CASE Second
  <2> DEFINE call == CallAt(sampleID, stats.i)
  <2>1. stats.at = "holds"
    BY <1>9 DEF Second
  <2>2. /\ Len(Calls(sampleID)) = LastCall /\ stats.i \in 1 .. LastCall
        /\ Calls(sampleID)[stats.i] = call /\ call \in AllCalls
        /\ call.call = "updateHistory" => call.of \in StoredSet
    BY <2>1, CallUnderWay DEF Types
  <2>3. /\ Do(call)
        /\ stats' = IF stats.i < LastCall THEN [stats EXCEPT !.i = @ + 1] ELSE At("between")
        /\ UNCHANGED databaseVars
    BY <1>9, <2>2 DEF Second
  <2>4. /\ sampleID' = sampleID /\ shown' \in [Collector -> Samples]
        /\ queue' \in [StoredSet -> Seq(Statements)]
    BY <1>1, <2>2, <2>3, DoStep, GrowthTyped
  <2>5. LastCall' = LastCall /\ LastCall \in Nat
    BY <1>1, <1>2, <1>4, <2>4 DEF LastCall, Slow
  <2>6. StatsTyped'
    <3>1. CASE stats.i < LastCall
      BY <1>4, <2>1, <2>3, <2>5, <3>1 DEF StatsTyped
    <3>2. CASE ~(stats.i < LastCall)
      BY <2>3, <3>2, AtBegins DEF StatsTyped, StatsPlaces
    <3> QED
      BY <3>1, <3>2
  <2> QED
    BY <1>1, <1>2, <2>3, <2>4, <2>6 DEF DataTypes, databaseVars
<1>10. CASE Between
  <2>1. stats' \in {At("times"), At("remove")} /\ UNCHANGED <<dataVars, databaseVars>>
    BY <1>10 DEF Between
  <2>2. StatsTyped'
    BY <1>5, <2>1, AtBegins DEF StatsTyped, StatsPlaces
  <2> QED
    BY <1>1, <1>2, <2>1, <2>2 DEF DataTypes, dataVars, databaseVars
<1>11. CASE RemoveOldSamples
  <2>1. /\ stats.at = "remove" /\ Queue(Stored[stats.i], "delete")
        /\ stats' = IF stats.i < Len(Stored) THEN [stats EXCEPT !.i = @ + 1] ELSE At("begin")
        /\ UNCHANGED <<sampleID, shown, databaseVars>>
    BY <1>11 DEF RemoveOldSamples, GoOn
  <2>2. StatsTyped'
    <3>1. CASE stats.i < Len(Stored)
      BY <1>4, <1>5, <2>1, <3>1 DEF StatsTyped
    <3>2. CASE ~(stats.i < Len(Stored))
      BY <2>1, <3>2, AtBegins, SMTT(30) DEF StatsTyped, StatsPlaces
    <3> QED
      BY <3>1, <3>2
  <2>3. queue' \in [StoredSet -> Seq(Statements)]
    <3>1. Stored[stats.i] \in StoredSet
      BY <1>1, <1>4, <2>1, StoredList DEF StatsTyped
    <3> QED
      BY <1>1, <2>1, <3>1, QueueStep DEF Kinds
  <2> QED
    BY <1>1, <1>2, <2>1, <2>2, <2>3 DEF DataTypes, databaseVars
<1>12. CASE BeginFlush
  <2>1. stats' = At("insert") /\ UNCHANGED <<dataVars, executed, durable>>
    BY <1>12 DEF BeginFlush, Begin
  <2>2. StatsTyped'
    BY <1>5, <2>1, AtBegins DEF StatsTyped, StatsPlaces
  <2> QED
    BY <1>1, <1>2, <2>1, <2>2 DEF DataTypes, dataVars
<1>13. CASE InsertItems
  <2>1. stats.at = "insert" /\ Insert(stats, stats') /\ UNCHANGED <<sampleID, shown>>
    BY <1>13 DEF InsertItems
  <2>2. stats.i \in 1 .. Len(Stored) /\ stats.k \in Nat \ {0}
    BY <1>1, <1>4, <1>5, <2>1 DEF StatsTyped
  <2>3. /\ executed' \subseteq Statements /\ durable' \subseteq Statements
        /\ queue' \in [StoredSet -> Seq(Statements)]
        /\ \/ stats' = [stats EXCEPT !.k = @ + 1]
           \/ stats' = IF stats.i < Len(Stored) THEN [stats EXCEPT !.i = @ + 1, !.k = 1]
                       ELSE At("commit")
    <3>1. Inserted(stats, stats', Stored[stats.i])
      BY <1>1, <2>1, <2>2, InsertStep
    <3> QED
      BY <3>1 DEF Inserted
  <2>4. StatsTyped'
    <3>1. CASE stats' = [stats EXCEPT !.k = @ + 1]
      BY <1>1, <1>4, <2>1, <2>2, <3>1 DEF StatsTyped
    <3>2. CASE stats.i < Len(Stored) /\ stats' = [stats EXCEPT !.i = @ + 1, !.k = 1]
      <4>1. /\ stats'.at = "insert" /\ stats'.i = stats.i + 1
            /\ stats' \in [at : StatsPlaces, i : Nat \ {0}, k : Nat \ {0}]
        BY <1>4, <2>1, <3>2, NextQueue
      <4>3. stats'.i <= Len(Stored)
        BY <1>4, <1>5, <2>2, <3>2, <4>1
      <4> QED
        BY <4>1, <4>3 DEF StatsTyped
    <3>3. CASE stats' = At("commit")
      BY <3>3, AtBegins DEF StatsTyped, StatsPlaces
    <3> QED
      BY <2>3, <3>1, <3>2, <3>3
  <2> QED
    BY <1>1, <1>2, <2>1, <2>3, <2>4 DEF DataTypes
<1>14. CASE CommitFlush
  <2>1. /\ stats' = At("times") /\ UNCHANGED dataVars
        /\ executed' = {} /\ durable' = durable \cup executed
    BY <1>14 DEF CommitFlush, Commit
  <2>2. StatsTyped'
    BY <2>1, AtBegins DEF StatsTyped, StatsPlaces
  <2> QED
    BY <1>1, <1>2, <2>1, <2>2 DEF DataTypes, dataVars
<1> QED
  BY <1>6, <1>7, <1>8, <1>9, <1>10, <1>11, <1>12, <1>13, <1>14, <1>15 DEF StatsStep

\* The main thread keeps the types.
LEMMA MainTypesStep ==
  ASSUME Types, Request \/ Lock \/ Read \/ Send \/ Sigterm \/ Handle \/ Die
  PROVE  Types'
<1>1. historyEnabled \in BOOLEAN /\ DataTypes /\ StatsTyped /\ MainTyped
  BY DEF Types
<1>2. /\ main \in [at : MainPlaces, i : Nat \ {0}, k : Nat \ {0}]
      /\ main.at = "reads" => main.i <= 9
      /\ main.at = "finalize" => main.i <= 7
      /\ Len(Asked) = 9 /\ Len(Stored) = 7
  BY <1>1, AskedList, StoredList DEF MainTyped
<1>3. CASE Request
  <2>1. main' = At("wants") /\ UNCHANGED <<historyEnabled, stats, dataVars, reading, databaseVars>>
    BY <1>3 DEF Request, Elsewhere
  <2>2. MainTyped'
    BY <2>1, AtBegins DEF MainTyped, MainPlaces
  <2> QED
    BY <1>1, <2>1, <2>2 DEF Types, DataTypes, StatsTyped, LastCall, Slow, dataVars, databaseVars
<1>4. CASE Lock
  <2>1. /\ main' = At("reads") /\ reading' = <<>>
        /\ UNCHANGED <<historyEnabled, stats, dataVars, databaseVars>>
    BY <1>4 DEF Lock, Elsewhere
  <2>2. MainTyped'
    BY <1>2, <2>1, AtBegins, SMTT(30) DEF MainTyped, MainPlaces
  <2>3. reading' \in Seq(Samples)
    BY <2>1, EmptySeq
  <2> QED
    BY <1>1, <2>1, <2>2, <2>3
       DEF Types, DataTypes, StatsTyped, LastCall, Slow, dataVars, databaseVars
<1>5. CASE Read
  <2>1. /\ main.at = "reads" /\ reading' = Append(reading, shown[Asked[main.i]])
        /\ main' = IF main.i < 9 THEN [main EXCEPT !.i = @ + 1] ELSE At("sends")
        /\ UNCHANGED <<historyEnabled, stats, dataVars, databaseVars>>
    BY <1>2, <1>5 DEF Read, Elsewhere
  <2>2. MainTyped'
    <3>1. CASE main.i < 9
      BY <1>2, <2>1, <3>1 DEF MainTyped
    <3>2. CASE ~(main.i < 9)
      BY <2>1, <3>2, AtBegins DEF MainTyped, MainPlaces
    <3> QED
      BY <3>1, <3>2
  <2>3. reading' \in Seq(Samples)
    <3>1. Asked[main.i] \in Collector
      BY <1>2, <2>1, AskedList
    <3>2. shown[Asked[main.i]] \in Samples
      BY <1>1, <3>1 DEF DataTypes
    <3> DEFINE e == shown[Asked[main.i]]
    <3>3. e \in Samples
      BY <3>2
    <3> HIDE DEF e
    <3>4. Append(reading, e) \in Seq(Samples)
      BY <1>1, <3>3, AppendProperties DEF DataTypes
    <3> QED
      BY <2>1, <3>4 DEF e
  <2> QED
    BY <1>1, <2>1, <2>2, <2>3
       DEF Types, DataTypes, StatsTyped, LastCall, Slow, dataVars, databaseVars
<1>6. CASE Send
  <2>1. /\ main' = At("idle") /\ reading' = <<>>
        /\ UNCHANGED <<historyEnabled, stats, dataVars, databaseVars>>
    BY <1>6 DEF Send, Elsewhere
  <2>2. MainTyped'
    BY <1>2, <2>1, AtBegins DEF MainTyped, MainPlaces
  <2>3. reading' \in Seq(Samples)
    BY <2>1, EmptySeq
  <2> QED
    BY <1>1, <2>1, <2>2, <2>3
       DEF Types, DataTypes, StatsTyped, LastCall, Slow, dataVars, databaseVars
<1>7. CASE Sigterm
  <2>1. /\ main' \in {At("finalize"), At("exited")}
        /\ UNCHANGED <<historyEnabled, stats, dataVars, reading, executed, durable>>
    BY <1>7 DEF Sigterm, Begin, databaseVars
  <2>2. MainTyped'
    BY <1>2, <2>1, AtBegins DEF MainTyped, MainPlaces
  <2> QED
    BY <1>1, <2>1, <2>2 DEF Types, DataTypes, StatsTyped, LastCall, Slow, dataVars
<1>8. CASE Handle
  <2>1. UNCHANGED <<historyEnabled, stats, reading>>
    BY <1>8 DEF Handle
  <2>2. CASE Finalize(main)
    <3>1. main.at = "finalize" /\ Insert(main, main') /\ UNCHANGED <<sampleID, shown>>
      BY <2>2 DEF Finalize
    <3>2. main.i \in 1 .. Len(Stored) /\ main.k \in Nat \ {0}
      BY <1>2, <3>1
    <3>3. Inserted(main, main', Stored[main.i])
      BY <1>1, <3>1, <3>2, InsertStep
    <3>4. /\ executed' \subseteq Statements /\ durable' \subseteq Statements
          /\ queue' \in [StoredSet -> Seq(Statements)]
          /\ \/ main' = [main EXCEPT !.k = @ + 1]
             \/ main' = IF main.i < Len(Stored) THEN [main EXCEPT !.i = @ + 1, !.k = 1]
                        ELSE At("commit")
      BY <3>3 DEF Inserted
    <3>5. MainTyped'
      <4>1. CASE main' = [main EXCEPT !.k = @ + 1]
        BY <1>2, <3>1, <4>1 DEF MainTyped
      <4>2. CASE main.i < Len(Stored) /\ main' = [main EXCEPT !.i = @ + 1, !.k = 1]
        <5>1. /\ main'.at = "finalize" /\ main'.i = main.i + 1
              /\ main' \in [at : MainPlaces, i : Nat \ {0}, k : Nat \ {0}]
          BY <1>2, <3>1, <4>2, NextQueue
        <5>2. main'.i <= Len(Stored)
          BY <1>2, <3>2, <4>2, <5>1
        <5> QED
          BY <5>1, <5>2 DEF MainTyped
      <4>3. CASE main' = At("commit")
        BY <4>3, AtBegins DEF MainTyped, MainPlaces
      <4> QED
        BY <3>4, <4>1, <4>2, <4>3
    <3> QED
      BY <1>1, <2>1, <3>1, <3>4, <3>5 DEF Types, DataTypes, StatsTyped, LastCall, Slow
  <2>3. CASE main.at = "commit" /\ Commit /\ main' = At("exited") /\ UNCHANGED <<lock, dataVars>>
    <3>1. executed' = {} /\ durable' = durable \cup executed /\ UNCHANGED dataVars
      BY <2>3 DEF Commit
    <3>2. MainTyped'
      BY <2>3, AtBegins DEF MainTyped, MainPlaces
    <3> QED
      BY <1>1, <2>1, <3>1, <3>2 DEF Types, DataTypes, StatsTyped, LastCall, Slow, dataVars
  <2> QED
    BY <1>8, <2>2, <2>3 DEF Handle
<1>9. CASE Die
  <2>1. /\ main' = At("exited") /\ executed' = {}
        /\ UNCHANGED <<historyEnabled, stats, dataVars, reading, durable>>
    BY <1>9 DEF Die
  <2>2. MainTyped'
    BY <2>1, AtBegins DEF MainTyped, MainPlaces
  <2> QED
    BY <1>1, <2>1, <2>2 DEF Types, DataTypes, StatsTyped, LastCall, Slow, dataVars
<1> QED
  BY <1>3, <1>4, <1>5, <1>6, <1>7, <1>8, <1>9

-----------------------------------------------------------------------------
(***************************************************************************)
(* The lock.                                                               *)
(***************************************************************************)
\* Neither thread comes to the samples but by the lock.
LEMMA LockStep ==
  ASSUME Types, LockKept, Next
  PROVE  LockKept'
<1>1. /\ stats \in [at : StatsPlaces, i : Nat \ {0}, k : Nat \ {0}]
      /\ main \in [at : MainPlaces, i : Nat \ {0}, k : Nat \ {0}]
  BY DEF Types, StatsTyped, MainTyped
<1>2. CASE StatsStep
  <2>1. main' = main
    BY <1>2 DEF StatsStep
  <2>2. CASE InitCollector \/ FirstUpdate \/ RemoveOldSamples
    <3>1. lock' = lock /\ stats'.at # "holds"
      BY <1>1, <2>2, AtBegins DEF InitCollector, FirstUpdate, RemoveOldSamples, GoOn
    <3> QED
      BY <2>1, <3>1 DEF LockKept
  <2>6. CASE OpenDatabase \/ SetEntitlement \/ SetReady \/ UpdateAddresses
             \/ UpdateNextTimes \/ Between \/ BeginFlush \/ CommitFlush
    <3>1. /\ lock' = lock
          /\ stats' \in {At("init"), At("first"), At("addresses"), At("times"), At("sleep"),
                         At("remove"), At("insert")}
      BY <2>6 DEF OpenDatabase, SetEntitlement, SetReady, UpdateAddresses, UpdateNextTimes,
                  Between, BeginFlush, CommitFlush
    <3>2. stats'.at # "holds"
      BY <3>1, AtBegins
    <3> QED
      BY <2>1, <3>1, <3>2 DEF LockKept
  <2>3. CASE Wake
    BY <2>1, <2>3 DEF LockKept, Wake, Free
  <2>4. CASE Second
    <3>1. stats.at = "holds" /\ lock = "stats" /\ main.at # "reads"
      BY <2>4 DEF Second, LockKept
    <3>2. (lock' = lock /\ stats'.at = "holds") \/ stats'.at = "between"
      BY <1>1, <2>4, AtBegins DEF Second
    <3> QED
      BY <2>1, <3>1, <3>2 DEF LockKept
  <2>5. CASE InsertItems
    <3>1. lock' = lock /\ stats'.at # "holds"
      BY <1>1, <2>5, AtBegins, ZenonT(30) DEF InsertItems, Insert
    <3> QED
      BY <2>1, <3>1 DEF LockKept
  <2> QED
    BY <1>2, <2>2, <2>3, <2>4, <2>5, <2>6 DEF StatsStep
<1>3. CASE Request \/ Send
  <2>1. stats' = stats /\ lock' = lock /\ main'.at \in {"wants", "idle"}
    BY <1>3, AtBegins DEF Request, Send, Elsewhere
  <2> QED
    BY <2>1 DEF LockKept
<1>4. CASE Lock
  BY <1>4, AtBegins DEF Lock, Elsewhere, LockKept, Free
<1>5. CASE Read
  <2>1. stats' = stats /\ lock = "main"
    BY <1>5 DEF Read, Elsewhere, LockKept
  <2>2. (lock' = lock /\ main'.at = "reads") \/ main'.at = "sends"
    BY <1>1, <1>5, AtBegins DEF Read
  <2> QED
    BY <2>1, <2>2 DEF LockKept
<1>6. CASE Sigterm
  BY <1>6, AtBegins DEF Sigterm, LockKept
<1>7. CASE Handle
  <2>1. stats' = stats /\ lock' = lock /\ main'.at # "reads"
    BY <1>1, <1>7, AtBegins, ZenonT(30) DEF Handle, Finalize, Insert
  <2> QED
    BY <2>1 DEF LockKept
<1>8. CASE Die
  BY <1>8, AtBegins DEF Die, LockKept
<1> QED
  BY <1>2, <1>3, <1>4, <1>5, <1>6, <1>7, <1>8 DEF Next

\* At the start the types are right, and nobody has the lock.
LEMMA InitTypes ==
  ASSUME Init
  PROVE  Types /\ LockKept
<1>1. /\ historyEnabled \in BOOLEAN /\ stats = At("open") /\ main = At("idle")
      /\ sampleID = 0 /\ reading = <<>> /\ executed = {} /\ durable = {}
      /\ shown = [c \in Collector |-> [id |-> 0, at |-> -1]]
      /\ queue = [c \in StoredSet |-> <<>>]
  BY DEF Init, StoredSet
<1>2. StatsTyped /\ MainTyped /\ LockKept
  <2>1. stats.at = "open" /\ main.at = "idle"
    BY <1>1, AtBegins
  <2>2. /\ stats \in [at : StatsPlaces, i : Nat \ {0}, k : Nat \ {0}]
        /\ main \in [at : MainPlaces, i : Nat \ {0}, k : Nat \ {0}]
    BY <1>1, AtBegins DEF StatsPlaces, Starting, MainPlaces
  <2> QED
    BY <2>1, <2>2 DEF StatsTyped, MainTyped, LockKept
<1>3. <<>> \in Seq(Samples) /\ <<>> \in Seq(Statements)
  BY EmptySeq
<1>4. queue \in [StoredSet -> Seq(Statements)]
  BY <1>1, <1>3
<1>5. [id |-> 0, at |-> -1] \in Samples
  BY DEF Samples
<1>6. shown \in [Collector -> Samples]
  BY <1>1, <1>5
<1>7. sampleID \in 0 .. MaxSecond
  BY <1>1, StatsThreadAssumption
<1> QED
  BY <1>1, <1>2, <1>3, <1>4, <1>6, <1>7 DEF Types, DataTypes

\* Every step keeps the types and the lock.
LEMMA TypesStep ==
  ASSUME Types, LockKept, [Next]_vars
  PROVE  Types' /\ LockKept'
<1>1. CASE Next
  <2>1. Types'
    BY <1>1, StatsTypesStep, MainTypesStep DEF Next
  <2> QED
    BY <1>1, <2>1, LockStep
<1>2. CASE UNCHANGED vars
  BY <1>2 DEF vars, dataVars, databaseVars, Types, DataTypes, StatsTyped, MainTyped,
              LastCall, Slow, LockKept
<1> QED
  BY <1>1, <1>2

-----------------------------------------------------------------------------
(***************************************************************************)
(* Where the threads meet.                                                 *)
(***************************************************************************)
\* Threads at the same data, neither of them kept away by the lock, are at one
\* of the places UndefinedIsKnown names.
LEMMA Meet ==
  ASSUME NEW s \in [at : StatsPlaces, i : Nat \ {0}, k : Nat \ {0}],
         NEW m \in [at : MainPlaces, i : Nat \ {0}, k : Nat \ {0}],
         ~(s.at = "holds" /\ m.at = "reads"),
         NEW x \in StatsTouches(s) \cap MainTouches(m)
  PROVE  \/ m.at = "reads" /\ s.at \in {"init", "first", "addresses"}
         \/ m.at = "reads" /\ Asked[m.i] \in Copied
            /\ s.at \in {"open", "entitlement", "ready", "times", "remove", "insert"}
         \/ m.at = "finalize" /\ s.at = "open"
         \/ m.at = "finalize" /\ s.at \in {"first", "holds", "remove", "insert"}
<1>1. m.at = "reads" \/ m.at = "finalize"
  BY DEF MainTouches
<1>2. s.at \notin {"sleep", "between", "begin", "commit"}
  BY DEF StatsTouches
<1>3. /\ m.at = "finalize" => x[1] = "queue"
      /\ m.at = "reads" /\ Asked[m.i] \notin Copied => x[1] = "items"
  <2>1. CASE m.at = "finalize"
    <3>1. x = <<"queue", Stored[m.i]>>
      BY <2>1 DEF MainTouches
    <3> QED
      BY <2>1, <3>1
  <2>2. CASE m.at = "reads" /\ Asked[m.i] \notin Copied
    <3>1. x \in Shows(Asked[m.i])
      BY <2>2 DEF MainTouches
    <3>2. x \in {"items"} \X (IF Asked[m.i] = "cpu" THEN {"cpu", "processes"} ELSE {Asked[m.i]})
      BY <2>2, <3>1 DEF Shows
    <3> QED
      BY <2>2, <3>2
  <2> QED
    BY <1>1, <2>1, <2>2
<1>4. s.at \in {"open", "init", "entitlement", "ready", "addresses", "times"} => x[1] # "queue"
  <2>1. CASE s.at = "open"
    <3>1. x \in {"rest"} \X ToSet(Indexed)
      BY <2>1 DEF StatsTouches
    <3> QED
      BY <3>1
  <2>2. CASE s.at = "init"
    <3>1. x \in {"items", "rest"} \X {Indexed[s.i]}
      BY <2>2 DEF StatsTouches
    <3> QED
      BY <3>1
  <2>3. CASE s.at = "entitlement" \/ s.at = "addresses"
    <3>1. x = <<"rest", "processes">> \/ x = <<"items", "network">>
      BY <2>3 DEF StatsTouches
    <3> QED
      BY <3>1
  <2>4. CASE s.at = "ready"
    <3>1. x \in {"rest"} \X Readied
      BY <2>4 DEF StatsTouches
    <3> QED
      BY <3>1
  <2>5. CASE s.at = "times"
    <3>1. x \in {"rest"} \X ToSet(Indexed)
      BY <2>5 DEF StatsTouches
    <3> QED
      BY <3>1
  <2> QED
    BY <2>1, <2>2, <2>3, <2>4, <2>5
<1>5. s.at \in {"open", "entitlement", "ready", "times", "remove", "insert"} => x[1] # "items"
  <2>1. CASE s.at \in {"open", "times"}
    <3>1. x \in {"rest"} \X ToSet(Indexed)
      BY <2>1 DEF StatsTouches
    <3> QED
      BY <3>1
  <2>2. CASE s.at = "entitlement"
    <3>1. x = <<"rest", "processes">>
      BY <2>2 DEF StatsTouches
    <3> QED
      BY <3>1
  <2>3. CASE s.at = "ready"
    <3>1. x \in {"rest"} \X Readied
      BY <2>3 DEF StatsTouches
    <3> QED
      BY <3>1
  <2>4. CASE s.at \in {"remove", "insert"}
    <3>1. x = <<"queue", Stored[s.i]>>
      BY <2>4 DEF StatsTouches
    <3> QED
      BY <3>1
  <2> QED
    BY <2>1, <2>2, <2>3, <2>4
<1>6. s.at \in StatsPlaces
  OBVIOUS
<1> QED
  BY <1>1, <1>2, <1>3, <1>4, <1>5, <1>6 DEF StatsPlaces, Starting

\* A step after which the behaviour is undefined ends at one of those places.
LEMMA UndefinedStep ==
  ASSUME Types, LockKept, Next, ~undefined, undefined'
  PROVE  \/ main'.at = "reads" /\ stats'.at \in {"init", "first", "addresses"}
         \/ main'.at = "reads" /\ Asked[main'.i] \in Copied
            /\ stats'.at \in {"open", "entitlement", "ready", "times", "remove", "insert"}
         \/ main'.at = "finalize" /\ stats'.at = "open"
         \/ main'.at = "finalize" /\ stats'.at \in {"first", "holds", "remove", "insert"}
         \/ ~historyEnabled /\ stats'.at = "insert"
<1>1. Types' /\ LockKept'
  BY TypesStep
<1>2. /\ stats' \in [at : StatsPlaces, i : Nat \ {0}, k : Nat \ {0}]
      /\ main' \in [at : MainPlaces, i : Nat \ {0}, k : Nat \ {0}]
      /\ ~(stats'.at = "holds" /\ main'.at = "reads")
  BY <1>1 DEF Types, StatsTyped, MainTyped, LockKept
<1>3. Undefined
  BY DEF Next, StatsStep, Request, Lock, Read, Send, Sigterm, Handle, Die
<1>4. StatsTouches(stats') \cap MainTouches(main') # {} \/ NoDatabase(stats', main')
  BY <1>3 DEF Undefined
<1>5. CASE NoDatabase(stats', main')
  BY <1>5 DEF NoDatabase
<1>6. CASE StatsTouches(stats') \cap MainTouches(main') # {}
  <2>1. PICK x : x \in StatsTouches(stats') \cap MainTouches(main')
    BY <1>6
  <2> QED
    BY <1>2, <2>1, Meet
<1> QED
  BY <1>4, <1>5, <1>6

-----------------------------------------------------------------------------
(***************************************************************************)
(* What SIGTERM finds.                                                     *)
(***************************************************************************)
\* A statement is executed, or where it was in its queue.
Progress ==
    /\ Kept \subseteq Kept'
    /\ \A c \in StoredSet : \A k \in 1 .. Len(queue[c]) :
          \/ queue[c][k] \in Kept'
          \/ k \in 1 .. Len(queue'[c]) /\ queue'[c][k] = queue[c][k]

\* A statement queued behind the others loses none.
LEMMA QueueLosesNone ==
  ASSUME DataTypes, NEW c \in StoredSet, NEW kind \in Kinds, Queue(c, kind),
         UNCHANGED databaseVars
  PROVE  Progress
<1>1. /\ \A d \in StoredSet : d # c => queue'[d] = queue[d]
      /\ Len(queue'[c]) = Len(queue[c]) + 1
      /\ \A k \in 1 .. Len(queue[c]) : queue'[c][k] = queue[c][k]
  BY QueueStep
<1>2. Kept' = Kept
  BY DEF Kept, databaseVars
<1>3. Len(queue[c]) \in Nat
  <2>1. queue[c] \in Seq(Statements)
    BY DEF DataTypes
  <2> QED
    BY <2>1, LenProperties
<1>4. ASSUME NEW d \in StoredSet, NEW k \in 1 .. Len(queue[d])
      PROVE  k \in 1 .. Len(queue'[d]) /\ queue'[d][k] = queue[d][k]
  <2>1. CASE d = c
    BY <1>1, <1>3, <1>4, <2>1
  <2>2. CASE d # c
    BY <1>1, <1>4, <2>2
  <2> QED
    BY <2>1, <2>2
<1> QED
  BY <1>2, <1>4 DEF Progress

\* The queue that is cleared has nothing in it that was not executed.
LEMMA InsertLosesNone ==
  ASSUME DataTypes, NEW pc, pc.k \in Nat \ {0}, NEW next, NEW c, Inserted(pc, next, c),
         \A k \in 1 .. Len(queue[c]) : k < pc.k => queue[c][k] \in Kept
  PROVE  Progress
<1>1. Kept \subseteq Kept'
  BY DEF Inserted, Kept
<1>2. CASE queue' = queue
  BY <1>1, <1>2 DEF Progress
<1>3. CASE /\ ~(pc.k <= Len(queue[c]))
           /\ queue' = [queue EXCEPT ![c] = <<>>]
  <2>1. c \in StoredSet /\ queue[c] \in Seq(Statements)
    BY DEF Inserted, DataTypes
  <2> DEFINE n == Len(queue[c])
  <2>2. n \in Nat
    BY <2>1, LenProperties
  <2> HIDE DEF n
  <2>3. \A k \in 1 .. n : k < pc.k
    BY <1>3, <2>2 DEF n
  <2>4. \A k \in 1 .. n : queue[c][k] \in Kept'
    BY <1>1, <2>3 DEF n
  <2>5. \A d \in StoredSet : d # c => queue'[d] = queue[d]
    BY <1>3 DEF DataTypes
  <2> QED
    BY <1>1, <2>4, <2>5 DEF Progress, n
<1> QED
  BY <1>2, <1>3 DEF Inserted

\* Nothing the statistics thread does loses a statement.
LEMMA StatsLosesNone ==
  ASSUME Types, FlushedInOrder, StatsStep
  PROVE  Progress
<1>1. /\ DataTypes /\ stats \in [at : StatsPlaces, i : Nat \ {0}, k : Nat \ {0}]
      /\ stats.at \in {"remove", "insert"} => stats.i \in 1 .. Len(Stored)
      /\ main.at # "exited"
  BY StoredList DEF Types, StatsTyped, StatsStep
<1>2. ASSUME UNCHANGED <<queue, executed, durable>> PROVE Progress
  BY <1>2 DEF Progress, Kept
<1>3. CASE OpenDatabase \/ InitCollector \/ SetEntitlement \/ SetReady \/ UpdateAddresses
           \/ UpdateNextTimes \/ Wake \/ Between \/ BeginFlush
  BY <1>2, <1>3
     DEF OpenDatabase, InitCollector, SetEntitlement, SetReady, UpdateAddresses, UpdateNextTimes,
         Wake, Between, BeginFlush, Begin, dataVars, databaseVars
<1>8. ASSUME QueueGrows, UNCHANGED databaseVars PROVE Progress
  <2>1. CASE queue' = queue
    BY <1>2, <1>8, <2>1 DEF databaseVars
  <2>2. ASSUME NEW c \in StoredSet, NEW kind \in Kinds, Queue(c, kind) PROVE Progress
    BY <1>1, <1>8, <2>2, QueueLosesNone
  <2> QED
    BY <1>8, <2>1, <2>2 DEF QueueGrows
<1>9. CASE FirstUpdate
  <2>1. stats.at = "first" /\ Update(First[stats.i]) /\ UNCHANGED databaseVars
    BY <1>9 DEF FirstUpdate
  <2>2. First[stats.i] \in Collector
    BY <1>1, <2>1, CollectorSet DEF Types, StatsTyped
  <2> QED
    BY <1>1, <1>8, <2>1, <2>2, UpdateStep
<1>4. CASE Second
  <2> DEFINE call == CallAt(sampleID, stats.i)
  <2>1. /\ Calls(sampleID)[stats.i] = call /\ call \in AllCalls
        /\ call.call = "updateHistory" => call.of \in StoredSet
    BY <1>4, CallUnderWay DEF Second
  <2>2. Do(call) /\ UNCHANGED databaseVars
    BY <1>4, <2>1 DEF Second
  <2> HIDE DEF call
  <2>3. QueueGrows
    BY <1>1, <2>1, <2>2, DoStep
  <2> QED
    BY <1>8, <2>2, <2>3
<1>5. CASE RemoveOldSamples
  <2>1. /\ stats.at = "remove" /\ Queue(Stored[stats.i], "delete") /\ UNCHANGED databaseVars
    BY <1>5 DEF RemoveOldSamples
  <2>2. Stored[stats.i] \in StoredSet
    BY <1>1, <2>1, StoredList
  <2> QED
    BY <1>1, <2>1, <2>2, QueueLosesNone DEF Kinds
<1>6. CASE InsertItems
  <2>1. stats.at = "insert" /\ Insert(stats, stats')
    BY <1>6 DEF InsertItems
  <2>2. Inserted(stats, stats', Stored[stats.i])
    BY <1>1, <2>1, InsertStep
  <2>3. \A k \in 1 .. Len(queue[Stored[stats.i]]) :
           k < stats.k => queue[Stored[stats.i]][k] \in Kept
    BY <1>1, <2>1 DEF FlushedInOrder
  <2> QED
    BY <1>1, <2>2, <2>3, InsertLosesNone
<1>7. CASE CommitFlush
  BY <1>7 DEF CommitFlush, Commit, dataVars, Progress, Kept
<1> QED
  BY <1>3, <1>4, <1>5, <1>6, <1>7, <1>9 DEF StatsStep

\* What a step of the handler at a queue does with the statements.
LEMMA HandlerAtQueue ==
  ASSUME Types, Finalize(main)
  PROVE  /\ main.at = "finalize" /\ main.i \in 1 .. Len(Stored) /\ main.k \in Nat \ {0}
         /\ main \in [at : MainPlaces, i : Nat \ {0}, k : Nat \ {0}]
         /\ Inserted(main, main', Stored[main.i])
         /\ Kept \subseteq Kept'
<1>1. main.at = "finalize" /\ Insert(main, main')
  BY DEF Finalize
<1>2. /\ DataTypes /\ main.i \in 1 .. Len(Stored) /\ main.k \in Nat \ {0}
      /\ main \in [at : MainPlaces, i : Nat \ {0}, k : Nat \ {0}]
  BY <1>1, StoredList DEF Types, MainTyped
<1>3. Inserted(main, main', Stored[main.i])
  BY <1>1, <1>2, InsertStep
<1> QED
  BY <1>1, <1>2, <1>3 DEF Inserted, Kept

\* The statements before the one the statistics thread is at were executed.
LEMMA FlushedStep ==
  ASSUME Types, FlushedInOrder, Next
  PROVE  FlushedInOrder'
<1>1. /\ DataTypes /\ stats \in [at : StatsPlaces, i : Nat \ {0}, k : Nat \ {0}]
      /\ stats.at \in {"remove", "insert"} => stats.i \in 1 .. Len(Stored)
  BY StoredList DEF Types, StatsTyped
<1>2. ASSUME UNCHANGED <<stats, queue, executed, durable>>, main.at # "exited"
      PROVE  FlushedInOrder'
  BY <1>2 DEF FlushedInOrder, Kept
<1>3. CASE StatsStep
  <2>1. CASE InitCollector \/ FirstUpdate \/ Wake \/ Second \/ RemoveOldSamples
    <3>1. stats'.at # "insert"
      BY <1>1, <2>1, AtBegins DEF InitCollector, FirstUpdate, Wake, Second, RemoveOldSamples, GoOn
    <3> QED
      BY <3>1 DEF FlushedInOrder
  <2>4. CASE OpenDatabase \/ SetEntitlement \/ SetReady \/ UpdateAddresses
             \/ UpdateNextTimes \/ Between \/ CommitFlush
    <3>1. stats' \in {At("init"), At("first"), At("addresses"), At("times"), At("sleep"),
                      At("remove")}
      BY <2>4 DEF OpenDatabase, SetEntitlement, SetReady, UpdateAddresses, UpdateNextTimes,
                  Between, CommitFlush
    <3>2. stats'.at # "insert"
      BY <3>1, AtBegins
    <3> QED
      BY <3>2 DEF FlushedInOrder
  <2>2. CASE BeginFlush
    <3>1. stats'.k = 1
      BY <2>2, AtBegins DEF BeginFlush
    <3> QED
      BY <3>1 DEF FlushedInOrder
  <2>3. CASE InsertItems
    <3>1. stats.at = "insert" /\ Insert(stats, stats') /\ stats.k \in Nat \ {0}
      BY <1>1, <2>3 DEF InsertItems
    <3> DEFINE c == Stored[stats.i]
    <3>2. Inserted(stats, stats', c)
      BY <1>1, <3>1, InsertStep
    <3>3. \A k \in 1 .. Len(queue[c]) : k < stats.k => queue[c][k] \in Kept
      BY <1>3, <3>1 DEF FlushedInOrder, StatsStep
    <3>4. CASE /\ queue[c][stats.k] \in Kept' /\ queue' = queue
               /\ stats' = [stats EXCEPT !.k = @ + 1]
      <4>1. stats'.i = stats.i /\ stats'.k = stats.k + 1
        BY <1>1, <3>4
      <4>2. Kept \subseteq Kept'
        BY <3>2 DEF Inserted, Kept
      <4> HIDE DEF c
      <4>3. ASSUME NEW k \in 1 .. Len(queue[c]), k < stats.k + 1
            PROVE  queue[c][k] \in Kept'
        <5>1. k = stats.k \/ k < stats.k
          <6>1. stats.k \in Nat /\ k \in Int
            BY <3>1
          <6> QED
            BY <4>3, <6>1
        <5> QED
          BY <3>3, <3>4, <4>2, <5>1
      <4> QED
        BY <3>4, <4>1, <4>3 DEF FlushedInOrder, c
    <3>5. CASE stats' = At("commit")
      BY <3>5, AtBegins DEF FlushedInOrder
    <3>6. CASE stats' = [stats EXCEPT !.i = @ + 1, !.k = 1]
      <4>1. stats'.k = 1
        BY <1>1, <3>6, NextQueue
      <4> QED
        BY <4>1 DEF FlushedInOrder
    <3> QED
      BY <3>2, <3>4, <3>5, <3>6 DEF Inserted, Kept
  <2> QED
    BY <1>3, <2>1, <2>2, <2>3, <2>4 DEF StatsStep
<1>4. CASE Request \/ Lock \/ Read \/ Send
  BY <1>2, <1>4 DEF Request, Lock, Read, Send, Elsewhere, dataVars, databaseVars
<1>5. CASE Sigterm
  BY <1>2, <1>5 DEF Sigterm, Interrupted, Begin, dataVars, databaseVars
<1>6. CASE Finalize(main) /\ UNCHANGED stats
  <2>1. /\ main.at = "finalize" /\ main.i \in 1 .. Len(Stored)
        /\ Inserted(main, main', Stored[main.i]) /\ Kept \subseteq Kept'
    BY <1>6, HandlerAtQueue
  <2>2. CASE queue' = queue
    BY <1>6, <2>1, <2>2 DEF FlushedInOrder
  <2>3. CASE queue' = [queue EXCEPT ![Stored[main.i]] = <<>>]
    <3> SUFFICES ASSUME stats.at = "insert", NEW k \in 1 .. Len(queue'[Stored[stats.i]]),
                        k < stats.k
                 PROVE  queue'[Stored[stats.i]][k] \in Kept'
      BY <1>6 DEF FlushedInOrder
    <3>1. Stored[stats.i] \in StoredSet /\ queue \in [StoredSet -> Seq(Statements)]
      BY <1>1, StoredList DEF DataTypes
    <3>2. CASE Stored[stats.i] = Stored[main.i]
      <4>1. queue'[Stored[stats.i]] = <<>>
        BY <2>3, <3>1, <3>2
      <4>2. Len(queue'[Stored[stats.i]]) = 0
        BY <4>1, EmptySeq
      <4> QED
        BY <4>2
    <3>3. CASE Stored[stats.i] # Stored[main.i]
      <4>1. queue'[Stored[stats.i]] = queue[Stored[stats.i]]
        BY <2>3, <3>1, <3>3
      <4> QED
        BY <2>1, <4>1 DEF FlushedInOrder
    <3> QED
      BY <3>2, <3>3
  <2> QED
    BY <2>1, <2>2, <2>3 DEF Inserted
<1>7. ASSUME main' = At("exited") PROVE FlushedInOrder'
  BY <1>7, AtBegins DEF FlushedInOrder
<1>8. CASE Handle
  BY <1>6, <1>7, <1>8 DEF Handle
<1>9. CASE Die
  BY <1>7, <1>9 DEF Die
<1> QED
  BY <1>3, <1>4, <1>5, <1>8, <1>9 DEF Next

\* While the statistics thread goes on, what is owed stays within reach.
LEMMA OwedStaysStats ==
  ASSUME Types, FlushedInOrder, OwedIsSafe, StatsStep
  PROVE  OwedIsSafe'
<1>1. /\ UNCHANGED <<main, owed>> /\ main.at # "exited"
      /\ main \in [at : MainPlaces, i : Nat \ {0}, k : Nat \ {0}]
  BY DEF StatsStep, Types, MainTyped
<1>2. Progress
  BY StatsLosesNone
<1>3. ASSUME NEW s, main.at = "finalize", StillToDo(s)
      PROVE  s \in Kept' \/ StillToDo(s)'
  <2>1. PICK j \in main.i .. Len(Stored) : \E k \in 1 .. Len(queue[Stored[j]]) :
               s = queue[Stored[j]][k] /\ (j = main.i => main.k <= k)
    BY <1>3 DEF StillToDo
  <2> DEFINE c == Stored[j]
  <2>2. PICK k \in 1 .. Len(queue[c]) : s = queue[c][k] /\ (j = main.i => main.k <= k)
    BY <2>1
  <2>3. c \in StoredSet
    <3>1. j \in 1 .. 7
      BY <1>1, StoredList
    <3> QED
      BY <3>1, StoredList
  <2>4. queue[c][k] \in Kept' \/ (k \in 1 .. Len(queue'[c]) /\ queue'[c][k] = queue[c][k])
    BY <1>2, <2>2, <2>3 DEF Progress
  <2> QED
    BY <1>1, <2>2, <2>4 DEF StillToDo
<1>4. Kept \subseteq Kept'
  BY <1>2 DEF Progress
<1>5. main.at = "finalize" => \A s \in owed : s \in Kept' \/ StillToDo(s)'
  BY <1>3, <1>4 DEF OwedIsSafe
<1>6. main.at = "commit" => owed \subseteq Kept'
  BY <1>4 DEF OwedIsSafe
<1> QED
  BY <1>1, <1>5, <1>6 DEF OwedIsSafe

\* When SIGTERM comes, all that is owed is executed or before the handler.
LEMMA OwedBegins ==
  ASSUME Types, OwedIsSafe, Sigterm
  PROVE  OwedIsSafe'
<1>1. main.at \in Interrupted
  BY DEF Sigterm
<1>2. CASE historyEnabled
  <2>1. /\ main' = At("finalize") /\ owed' = (Queued \cup executed) \ durable
        /\ UNCHANGED <<executed, durable, queue>>
    BY <1>2 DEF Sigterm, Begin, dataVars
  <2>2. main'.at = "finalize" /\ main'.i = 1 /\ main'.k = 1
    BY <2>1, AtBegins
  <2>3. ASSUME NEW s \in owed', s \notin Kept PROVE StillToDo(s)'
    <3>1. s \in Queued
      BY <2>1, <2>3 DEF Kept
    <3>2. PICK c \in StoredSet : s \in ToSet(queue[c])
      BY <3>1 DEF Queued, StoredSet
    <3>3. PICK j \in 1 .. 7 : c = Stored[j]
      BY StoredList
    <3>4. queue[c] \in Seq(Statements)
      BY DEF Types, DataTypes
    <3>5. PICK k \in 1 .. Len(queue[c]) : s = queue[c][k]
      BY <3>2, <3>4 DEF ToSet
    <3>6. j \in main'.i .. Len(Stored) /\ k \in 1 .. Len(queue'[Stored[j]])
          /\ s = queue'[Stored[j]][k] /\ main'.k <= k
      BY <2>1, <2>2, <3>3, <3>5, StoredList
    <3> QED
      BY <3>6 DEF StillToDo
  <2>4. Kept' = Kept
    BY <2>1 DEF Kept
  <2> QED
    BY <2>2, <2>3, <2>4 DEF OwedIsSafe, Interrupted
<1>3. CASE ~historyEnabled
  <2>1. main' = At("exited") /\ owed' = owed /\ owed = {}
    BY <1>1, <1>3 DEF Sigterm, OwedIsSafe
  <2> QED
    BY <2>1, AtBegins DEF OwedIsSafe, Interrupted
<1> QED
  BY <1>2, <1>3

\* The handler leaves a statement behind only when it has executed it.
LEMMA OwedIsPaid ==
  ASSUME Types, OwedIsSafe, Finalize(main), UNCHANGED owed
  PROVE  OwedIsSafe'
<1> DEFINE c == Stored[main.i]
<1>1. /\ main.at = "finalize" /\ main.i \in 1 .. 7 /\ main.k \in Nat \ {0}
      /\ main \in [at : MainPlaces, i : Nat \ {0}, k : Nat \ {0}]
      /\ Inserted(main, main', c) /\ Kept \subseteq Kept'
  BY HandlerAtQueue, StoredList
<1>2. \A s \in owed : s \in Kept \/ StillToDo(s)
  BY <1>1 DEF OwedIsSafe
<1>3. ASSUME NEW s, StillToDo(s)
      PROVE  \E j \in main.i .. 7 : \E k \in 1 .. Len(queue[Stored[j]]) :
                /\ s = queue[Stored[j]][k] /\ (j = main.i => main.k <= k)
                /\ Stored[j] \in StoredSet /\ (Stored[j] = c => j = main.i)
  <2>1. PICK j \in main.i .. 7 : \E k \in 1 .. Len(queue[Stored[j]]) :
               s = queue[Stored[j]][k] /\ (j = main.i => main.k <= k)
    BY <1>3, StoredList DEF StillToDo
  <2>2. j \in 1 .. 7
    BY <1>1
  <2>3. Stored[j] \in StoredSet /\ (Stored[j] = c => j = main.i)
    BY <1>1, <2>2, StoredList
  <2> QED
    BY <2>1, <2>3
<1>4. CASE /\ queue[c][main.k] \in Kept' /\ queue' = queue
           /\ main' = [main EXCEPT !.k = @ + 1]
  <2>1. main'.at = "finalize" /\ main'.i = main.i /\ main'.k = main.k + 1
    BY <1>1, <1>4
  <2>2. ASSUME NEW s, StillToDo(s), s \notin Kept' PROVE StillToDo(s)'
    <3>1. PICK j \in main.i .. 7 : \E k \in 1 .. Len(queue[Stored[j]]) :
                 s = queue[Stored[j]][k] /\ (j = main.i => main.k <= k)
      BY <1>3, <2>2
    <3>2. PICK k \in 1 .. Len(queue[Stored[j]]) :
                 s = queue[Stored[j]][k] /\ (j = main.i => main.k <= k)
      BY <3>1
    <3>3. j = main.i => k # main.k
      BY <1>4, <2>2, <3>2
    <3>4. j = main.i => main'.k <= k
      BY <1>1, <2>1, <3>2, <3>3
    <3> QED
      BY <1>4, <2>1, <3>2, <3>4, StoredList DEF StillToDo
  <2> QED
    BY <1>1, <1>2, <2>1, <2>2 DEF OwedIsSafe, Interrupted
<1>5. CASE /\ ~(main.k <= Len(queue[c]))
           /\ queue' = [queue EXCEPT ![c] = <<>>]
           /\ main' = IF main.i < Len(Stored) THEN [main EXCEPT !.i = @ + 1, !.k = 1]
                      ELSE At("commit")
  <2>1. ASSUME NEW s, StillToDo(s)
        PROVE  \E j \in main.i + 1 .. 7 : \E k \in 1 .. Len(queue'[Stored[j]]) :
                  s = queue'[Stored[j]][k]
    <3>1. PICK j \in main.i .. 7 : \E k \in 1 .. Len(queue[Stored[j]]) :
                 /\ s = queue[Stored[j]][k] /\ (j = main.i => main.k <= k)
                 /\ Stored[j] \in StoredSet /\ (Stored[j] = c => j = main.i)
      BY <1>3, <2>1
    <3>2. PICK k \in 1 .. Len(queue[Stored[j]]) :
                 /\ s = queue[Stored[j]][k] /\ (j = main.i => main.k <= k)
                 /\ Stored[j] \in StoredSet /\ (Stored[j] = c => j = main.i)
      BY <3>1
    <3>3. j # main.i
      <4>1. SUFFICES ASSUME j = main.i PROVE FALSE
        OBVIOUS
      <4>2. queue[c] \in Seq(Statements)
        BY <1>1 DEF Inserted, Types, DataTypes
      <4> DEFINE n == Len(queue[c])
      <4>3. n \in Nat /\ k \in 1 .. n /\ main.k <= k /\ ~(main.k <= n)
        BY <1>5, <3>2, <4>1, <4>2, LenProperties
      <4> HIDE DEF n
      <4> QED
        BY <1>1, <4>3
    <3>4. j \in main.i + 1 .. 7 /\ Stored[j] # c
      BY <1>1, <3>2, <3>3
    <3>5. queue'[Stored[j]] = queue[Stored[j]]
      BY <1>5, <3>2, <3>4 DEF Types, DataTypes
    <3> QED
      BY <3>2, <3>4, <3>5
  <2>2. CASE main.i < Len(Stored)
    <3>1. main'.at = "finalize" /\ main'.i = main.i + 1 /\ main'.k = 1
      BY <1>1, <1>5, <2>2, NextQueue
    <3>2. ASSUME NEW s, StillToDo(s) PROVE StillToDo(s)'
      <4>1. PICK j \in main.i + 1 .. 7 : \E k \in 1 .. Len(queue'[Stored[j]]) :
                   s = queue'[Stored[j]][k]
        BY <2>1, <3>2
      <4>2. PICK k \in 1 .. Len(queue'[Stored[j]]) : s = queue'[Stored[j]][k]
        BY <4>1
      <4>3. j \in main'.i .. Len(Stored) /\ main'.k <= k
        BY <3>1, StoredList
      <4> QED
        BY <4>2, <4>3 DEF StillToDo
    <3> QED
      BY <1>1, <1>2, <3>1, <3>2 DEF OwedIsSafe, Interrupted
  <2>3. CASE ~(main.i < Len(Stored))
    <3>1. main' = At("commit")
      BY <1>5, <2>3
    <3>2. \A s : ~StillToDo(s)
      BY <1>1, <2>1, <2>3, StoredList
    <3> QED
      BY <1>1, <1>2, <3>1, <3>2, AtBegins DEF OwedIsSafe, Interrupted
  <2> QED
    BY <2>2, <2>3
<1> QED
  BY <1>1, <1>4, <1>5 DEF Inserted, Kept

\* Every step keeps what is owed within reach.
LEMMA OwedStep ==
  ASSUME Types, FlushedInOrder, OwedIsSafe, Next
  PROVE  OwedIsSafe'
<1>1. CASE StatsStep
  BY <1>1, OwedStaysStats
<1>2. CASE Request \/ Lock \/ Read \/ Send
  <2>1. main.at \in Interrupted /\ owed' = owed
    BY <1>2 DEF Request, Lock, Read, Send, Elsewhere, Interrupted
  <2>2. main'.at \in Interrupted
    BY <1>2, AtBegins DEF Request, Lock, Read, Send, Interrupted, Types, MainTyped
  <2> QED
    BY <2>1, <2>2 DEF OwedIsSafe, Interrupted
<1>3. CASE Sigterm
  BY <1>3, OwedBegins
<1>4. CASE Handle
  <2>1. CASE Finalize(main)
    BY <1>4, <2>1, OwedIsPaid DEF Handle
  <2>2. CASE main.at = "commit" /\ Commit /\ main' = At("exited")
    <3>1. durable' = Kept /\ owed' = owed /\ main'.at = "exited"
      BY <1>4, <2>2, AtBegins DEF Handle, Commit, Kept
    <3> QED
      BY <2>2, <3>1 DEF OwedIsSafe, Interrupted
  <2> QED
    BY <1>4, <2>1, <2>2 DEF Handle
<1>5. CASE Die
  <2>1. /\ main.at \in Interrupted \/ undefined
        /\ main'.at = "exited" /\ owed' = owed /\ undefined' = undefined
    BY <1>5, AtBegins DEF Die
  <2> QED
    BY <2>1 DEF OwedIsSafe, Interrupted
<1> QED
  BY <1>1, <1>2, <1>3, <1>4, <1>5 DEF Next

-----------------------------------------------------------------------------
(***************************************************************************)
(* From one second's samples to the next.                                  *)
(***************************************************************************)
\* Thirds of a second.
LEMMA Thirding ==
  ASSUME NEW n \in Nat \ {0}
  PROVE  /\ n \div 3 \in Nat /\ (n - 1) \div 3 \in Nat
         /\ n % 3 = 0 => n \div 3 = (n - 1) \div 3 + 1 /\ 3 * (n \div 3) = n
         /\ n % 3 # 0 => n \div 3 = (n - 1) \div 3
  OBVIOUS

\* Which collectors are in which list.
LEMMA InLists ==
  ASSUME NEW c
  PROVE  /\ \A m \in Int : m > 6 =>
               (IsAmong(c, Prepared, m)
                  <=> c \in {"cpu", "load", "memory", "activity", "sensors", "network"})
         /\ \A m \in Int : m > 6 =>
               (IsAmong(c, Updated, m)
                  <=> c \in {"cpu", "load", "memory", "network", "activity", "processes"})
         /\ \A m \in Int : m > 3 =>
               (IsAmong(c, Thirds, m) <=> c \in {"battery", "disks", "sensors"})
<1>1. Len(Prepared) = 6 /\ Len(Updated) = 6 /\ Len(Thirds) = 3
  BY CallLists
<1>2. /\ Prepared[1] = "cpu" /\ Prepared[2] = "load" /\ Prepared[3] = "memory"
      /\ Prepared[4] = "activity" /\ Prepared[5] = "sensors" /\ Prepared[6] = "network"
  BY DEF Prepared
<1>3. /\ Updated[1] = "cpu" /\ Updated[2] = "load" /\ Updated[3] = "memory"
      /\ Updated[4] = "network" /\ Updated[5] = "activity" /\ Updated[6] = "processes"
  BY DEF Updated
<1>4. Thirds[1] = "battery" /\ Thirds[2] = "disks" /\ Thirds[3] = "sensors"
  BY DEF Thirds
<1>5. \A m \in Int : m > 6 =>
         1 < m /\ 2 < m /\ 3 < m /\ 4 < m /\ 5 < m /\ 6 < m
  OBVIOUS
<1>6. \A i \in 1 .. 6 : i = 1 \/ i = 2 \/ i = 3 \/ i = 4 \/ i = 5 \/ i = 6
  OBVIOUS
<1>7. 1 \in 1 .. 6 /\ 2 \in 1 .. 6 /\ 3 \in 1 .. 6 /\ 4 \in 1 .. 6 /\ 5 \in 1 .. 6 /\ 6 \in 1 .. 6
  OBVIOUS
<1>8. ASSUME NEW m \in Int, m > 6
      PROVE  IsAmong(c, Prepared, m)
                <=> c \in {"cpu", "load", "memory", "activity", "sensors", "network"}
  BY <1>1, <1>2, <1>5, <1>6, <1>7, <1>8 DEF IsAmong
<1>9. ASSUME NEW m \in Int, m > 6
      PROVE  IsAmong(c, Updated, m)
                <=> c \in {"cpu", "load", "memory", "network", "activity", "processes"}
  BY <1>1, <1>3, <1>5, <1>6, <1>7, <1>9 DEF IsAmong
<1>10. ASSUME NEW m \in Int, m > 3
       PROVE  IsAmong(c, Thirds, m) <=> c \in {"battery", "disks", "sensors"}
  <2>1. \A i \in 1 .. 3 : (i = 1 \/ i = 2 \/ i = 3) /\ i < m
    BY <1>10
  <2>2. 1 \in 1 .. 3 /\ 2 \in 1 .. 3 /\ 3 \in 1 .. 3
    OBVIOUS
  <2> QED
    BY <1>1, <1>4, <2>1, <2>2 DEF IsAmong
<1> QED
  BY <1>8, <1>9, <1>10

\* Going through the lists of a second's calls one passes one more of them.
LEMMA GoOnLists ==
  ASSUME NEW c
  PROVE  \A m \in Int :
         /\ IsAmong(c, Prepared, m + 1)
              <=> IsAmong(c, Prepared, m) \/ (m \in 1 .. 6 /\ c = Prepared[m])
         /\ m \in 1 .. 6 /\ c = Prepared[m] => ~IsAmong(c, Prepared, m)
         /\ IsAmong(c, Updated, m + 1)
              <=> IsAmong(c, Updated, m) \/ (m \in 1 .. 6 /\ c = Updated[m])
         /\ IsAmong(c, Thirds, m + 1)
              <=> IsAmong(c, Thirds, m) \/ (m \in 1 .. 3 /\ c = Thirds[m])
         /\ m \in 1 .. 3 /\ c = Thirds[m] => ~IsAmong(c, Thirds, m)
<1> TAKE m \in Int
<1>1. \A p \in Int : p < m + 1 <=> p < m \/ p = m
  OBVIOUS
<1>2. /\ Len(Prepared) = 6 /\ Len(Updated) = 6 /\ Len(Thirds) = 3
      /\ \A i, j \in 1 .. 6 : Prepared[i] = Prepared[j] => i = j
      /\ \A i, j \in 1 .. 3 : Thirds[i] = Thirds[j] => i = j
  BY CallLists
<1>3. IsAmong(c, Prepared, m + 1)
        <=> IsAmong(c, Prepared, m) \/ (m \in 1 .. 6 /\ c = Prepared[m])
  BY <1>1, <1>2 DEF IsAmong
<1>4. m \in 1 .. 6 /\ c = Prepared[m] => ~IsAmong(c, Prepared, m)
  BY <1>2 DEF IsAmong
<1>5. IsAmong(c, Updated, m + 1)
        <=> IsAmong(c, Updated, m) \/ (m \in 1 .. 6 /\ c = Updated[m])
  BY <1>1, <1>2 DEF IsAmong
<1>6. IsAmong(c, Thirds, m + 1)
        <=> IsAmong(c, Thirds, m) \/ (m \in 1 .. 3 /\ c = Thirds[m])
  BY <1>1, <1>2 DEF IsAmong
<1>7. m \in 1 .. 3 /\ c = Thirds[m] => ~IsAmong(c, Thirds, m)
  BY <1>2 DEF IsAmong
<1> QED
  BY <1>3, <1>4, <1>5, <1>6, <1>7

\* A second begins with the samples of the last.
LEMMA WayBegins ==
  ASSUME NEW c \in Collector, NEW n \in Nat \ {0}
  PROVE  OnTheWay(c, n, 1) = SampleOf(c, n - 1)
<1>1. /\ ~IsAmong(c, Prepared, 1) /\ ~IsAmong(c, Thirds, 1 - 12)
      /\ ~IsAmong(c, Updated, 1 - 6) /\ ~IsAmong(c, Thirds, 1 - 15)
  BY DEF IsAmong
<1>2. SampleOf(c, n - 1).id \in Int
      /\ SampleOf(c, n - 1) = [id |-> SampleOf(c, n - 1).id, at |-> SampleOf(c, n - 1).at]
  BY Thirding DEF SampleOf
<1> DEFINE x == SampleOf(c, n - 1)
<1> HIDE DEF x
<1>3. Counted(c, n, 1) = x.id /\ Dated(c, n, 1) = x.at
  BY <1>1, <1>2 DEF Counted, Dated, x
<1> QED
  BY <1>2, <1>3 DEF OnTheWay, x

\* A second ends with the samples of its own.
LEMMA WayEnds ==
  ASSUME NEW c \in Collector, NEW n \in Nat \ {0}, NEW i \in Int, i > Slow(n)
  PROVE  OnTheWay(c, n, i) = SampleOf(c, n)
<1> DEFINE P == c \in {"cpu", "load", "memory", "activity", "sensors", "network"}
           U == c \in {"cpu", "load", "memory", "network", "activity", "processes"}
           T == c \in {"battery", "disks", "sensors"}
           t == n % 3 = 0
<1>1. i > 12 /\ (t => i > 18)
  BY DEF Slow
<1>2. (IsAmong(c, Prepared, i) <=> P) /\ (IsAmong(c, Updated, i - 6) <=> U)
  <2>1. i > 6 /\ i - 6 \in Int /\ i - 6 > 6
    BY <1>1
  <2>2. IsAmong(c, Prepared, i) <=> P
    BY <2>1, InLists
  <2>3. IsAmong(c, Updated, i - 6) <=> U
    BY <2>1, InLists
  <2> QED
    BY <2>2, <2>3
<1>3. t => (IsAmong(c, Thirds, i - 12) <=> T) /\ (IsAmong(c, Thirds, i - 15) <=> T)
  BY <1>1, InLists
<1>4. OnTheWay(c, n, i) =
        [id |-> SampleOf(c, n - 1).id + (IF P THEN 1 ELSE 0) + (IF t /\ T THEN 1 ELSE 0),
         at |-> IF U \/ (t /\ T) THEN n ELSE SampleOf(c, n - 1).at]
  BY <1>2, <1>3 DEF OnTheWay, Counted, Dated
<1>5. c \in {"cpu", "memory", "load", "sensors", "network", "disks", "activity",
             "battery", "processes"}
  BY CollectorSet
<1>6. /\ n \div 3 \in Nat /\ (n - 1) \div 3 \in Nat
      /\ t => n \div 3 = (n - 1) \div 3 + 1 /\ 3 * (n \div 3) = n
      /\ ~t => n \div 3 = (n - 1) \div 3
  BY Thirding
<1>7. CASE c = "processes"
  BY <1>4, <1>7 DEF SampleOf
<1>8. CASE c = "sensors"
  BY <1>4, <1>6, <1>8 DEF SampleOf
<1>9. CASE c \in {"disks", "battery"}
  BY <1>4, <1>6, <1>9 DEF SampleOf
<1>10. CASE c \in {"cpu", "load", "memory", "activity", "network"}
  BY <1>4, <1>10 DEF SampleOf
<1> QED
  BY <1>5, <1>7, <1>8, <1>9, <1>10

\* Each call of a second is one step of the way.
LEMMA WayStep ==
  ASSUME NEW c \in Collector, NEW n \in Nat \ {0}, NEW i \in Nat \ {0}
  PROVE  LET call == CallAt(n, i) IN
         /\ Counted(c, n, i) \in Int
         /\ Counted(c, n, i + 1) =
              Counted(c, n, i) + (IF call.call = "prepareUpdate" /\ c = call.of THEN 1 ELSE 0)
         /\ Dated(c, n, i + 1) =
              IF call.call = "update" /\ c = call.of THEN n ELSE Dated(c, n, i)
<1> DEFINE call == CallAt(n, i)
           t    == n % 3 = 0
           p    == IsAmong(c, Prepared, i)
           p1   == IsAmong(c, Prepared, i + 1)
           q    == IsAmong(c, Thirds, i - 12)
           q1   == IsAmong(c, Thirds, i + 1 - 12)
           u    == IsAmong(c, Updated, i - 6)
           u1   == IsAmong(c, Updated, i + 1 - 6)
           v    == IsAmong(c, Thirds, i - 15)
           v1   == IsAmong(c, Thirds, i + 1 - 15)
           last == SampleOf(c, n - 1)
<1>1. /\ i + 1 - 12 = i - 12 + 1 /\ i + 1 - 6 = i - 6 + 1 /\ i + 1 - 15 = i - 15 + 1
      /\ i - 12 \in Int /\ i - 6 \in Int /\ i - 15 \in Int
  OBVIOUS
<1>2. (p1 <=> p \/ (i \in 1 .. 6 /\ c = Prepared[i])) /\ (i \in 1 .. 6 /\ c = Prepared[i] => ~p)
  BY GoOnLists
<1>3. /\ q1 <=> q \/ (i - 12 \in 1 .. 3 /\ c = Thirds[i - 12])
      /\ i - 12 \in 1 .. 3 /\ c = Thirds[i - 12] => ~q
  BY <1>1, GoOnLists
<1>4. u1 <=> u \/ (i - 6 \in 1 .. 6 /\ c = Updated[i - 6])
  BY <1>1, GoOnLists
<1>5. v1 <=> v \/ (i - 15 \in 1 .. 3 /\ c = Thirds[i - 15])
  BY <1>1, GoOnLists
<1>6. last.id \in Int
  BY Thirding DEF SampleOf
<1>7. /\ Counted(c, n, i) = last.id + (IF p THEN 1 ELSE 0) + (IF t /\ q THEN 1 ELSE 0)
      /\ Counted(c, n, i + 1) = last.id + (IF p1 THEN 1 ELSE 0) + (IF t /\ q1 THEN 1 ELSE 0)
  BY DEF Counted
<1>8. /\ Dated(c, n, i) = IF u \/ (t /\ v) THEN n ELSE last.at
      /\ Dated(c, n, i + 1) = IF u1 \/ (t /\ v1) THEN n ELSE last.at
  BY DEF Dated
<1>9. call.call = "prepareUpdate" /\ c = call.of
        <=> (i \in 1 .. 6 /\ c = Prepared[i]) \/ (t /\ i - 12 \in 1 .. 3 /\ c = Thirds[i - 12])
  BY DEF CallAt
<1>10. call.call = "update" /\ c = call.of
        <=> (i - 6 \in 1 .. 6 /\ c = Updated[i - 6]) \/ (t /\ i - 15 \in 1 .. 3 /\ c = Thirds[i - 15])
  BY DEF CallAt
<1>11. ~(i \in 1 .. 6 /\ i - 12 \in 1 .. 3)
  OBVIOUS
<1> HIDE DEF call, t, p, p1, q, q1, u, u1, v, v1, last
<1>12. /\ Counted(c, n, i) \in Int
       /\ Counted(c, n, i + 1) =
            Counted(c, n, i) + (IF call.call = "prepareUpdate" /\ c = call.of THEN 1 ELSE 0)
  BY <1>2, <1>3, <1>6, <1>7, <1>9, <1>11
<1>13. Dated(c, n, i + 1) =
         IF call.call = "update" /\ c = call.of THEN n ELSE Dated(c, n, i)
  BY <1>4, <1>5, <1>8, <1>10
<1> QED
  BY <1>12, <1>13 DEF call

\* Before the first second the collectors show their first updates.
LEMMA SampleAtFirst ==
  ASSUME NEW c \in Collector
  PROVE  SampleOf(c, 0) = [id |-> IF c = "processes" THEN 0 ELSE 1, at |-> 0]
<1>1. 0 \div 3 = 0
  OBVIOUS
<1> QED
  BY <1>1 DEF SampleOf

\* A call of a second's turn brings every collector one step on its way.
LEMMA ShownSecond ==
  ASSUME Types, ShownInTime, Second
  PROVE  ShownInTime'
<1> DEFINE n == sampleID
           i == stats.i
           call == CallAt(n, i)
<1>1. stats.at = "holds" /\ n > 0 /\ \A c \in Collector : shown[c] = OnTheWay(c, n, i)
  BY DEF Second, ShownInTime
<1>2. /\ DataTypes /\ n \in Nat \ {0} /\ i \in Nat \ {0} /\ i <= LastCall
      /\ stats \in [at : StatsPlaces, i : Nat \ {0}, k : Nat \ {0}]
  BY <1>1, StatsThreadAssumption DEF Types, DataTypes, StatsTyped
<1>3. /\ Len(Calls(n)) = LastCall /\ Calls(n)[i] = call /\ call \in AllCalls
      /\ call.call = "updateHistory" => call.of \in StoredSet
  BY <1>1, CallUnderWay
<1>4. /\ Do(call)
      /\ IF i < LastCall THEN stats' = [stats EXCEPT !.i = @ + 1] ELSE stats' = At("between")
  BY <1>3 DEF Second
<1>5. /\ sampleID' = n
      /\ \/ /\ call.call = "prepareUpdate"
            /\ shown' = [shown EXCEPT ![call.of].id = @ + 1]
         \/ /\ call.call = "update"
            /\ shown' = [shown EXCEPT ![call.of].at = n]
         \/ /\ call.call = "updateHistory"
            /\ shown' = shown
  BY <1>2, <1>3, <1>4, DoStep
<1>6. \A c \in Collector :
         /\ Counted(c, n, i) \in Int
         /\ Counted(c, n, i + 1) =
              Counted(c, n, i) + (IF call.call = "prepareUpdate" /\ c = call.of THEN 1 ELSE 0)
         /\ Dated(c, n, i + 1) =
              IF call.call = "update" /\ c = call.of THEN n ELSE Dated(c, n, i)
  BY <1>2, WayStep
<1> HIDE DEF call, n, i
<1>7. ASSUME NEW c \in Collector PROVE shown'[c] = OnTheWay(c, n, i + 1)
  <2>1. /\ shown[c] = [id |-> Counted(c, n, i), at |-> Dated(c, n, i)]
        /\ OnTheWay(c, n, i + 1) = [id |-> Counted(c, n, i + 1), at |-> Dated(c, n, i + 1)]
        /\ shown \in [Collector -> Samples] /\ call.of \in Collector
    BY <1>1, <1>2, <1>3 DEF OnTheWay, DataTypes, AllCalls
  <2>2. CASE call.call = "prepareUpdate" /\ shown' = [shown EXCEPT ![call.of].id = @ + 1]
    BY <1>6, <2>1, <2>2
  <2>3. CASE call.call = "update" /\ shown' = [shown EXCEPT ![call.of].at = n]
    BY <1>6, <2>1, <2>3
  <2>4. CASE call.call = "updateHistory" /\ shown' = shown
    BY <1>6, <2>1, <2>4
  <2> QED
    BY <1>5, <2>2, <2>3, <2>4
<1>8. CASE i < LastCall
  <2>1. stats'.at = "holds" /\ stats'.i = i + 1
    BY <1>1, <1>2, <1>4, <1>8 DEF i
  <2> QED
    BY <1>1, <1>5, <1>7, <2>1 DEF ShownInTime, Starting
<1>9. CASE ~(i < LastCall)
  <2>1. stats'.at = "between"
    BY <1>4, <1>9, AtBegins
  <2>2. i + 1 \in Int /\ i + 1 > Slow(n)
    BY <1>2, <1>9 DEF LastCall, Slow, n, Types
  <2>3. \A c \in Collector : shown'[c] = SampleOf(c, n)
    BY <1>2, <1>7, <2>2, WayEnds
  <2> QED
    BY <1>5, <2>1, <2>3 DEF ShownInTime, Starting
<1> QED
  BY <1>8, <1>9

\* How the collectors are gone through at the start.
LEMMA GoOnStart ==
  ASSUME NEW c \in Collector
  PROVE  /\ \A m \in 1 .. 8 :
               IsAmong(c, Indexed, m + 1) <=> IsAmong(c, Indexed, m) \/ c = Indexed[m]
         /\ c # "processes" => IsAmong(c, Indexed, 9)
         /\ \A m \in 1 .. 9 :
               IsAmong(c, First, m + 1) <=> IsAmong(c, First, m) \/ c = First[m]
         /\ IsAmong(c, First, 10)
         /\ ~IsAmong(c, Indexed, 1) /\ ~IsAmong(c, First, 1)
<1>1. Len(Indexed) = 8 /\ Len(First) = 9
  BY IndexedList, CollectorSet
<1>2. \A m, p \in Int : p < m + 1 <=> p < m \/ p = m
  OBVIOUS
<1>3. ASSUME NEW m \in 1 .. 8
      PROVE  IsAmong(c, Indexed, m + 1) <=> IsAmong(c, Indexed, m) \/ c = Indexed[m]
  BY <1>1, <1>2 DEF IsAmong
<1>4. ASSUME NEW m \in 1 .. 9
      PROVE  IsAmong(c, First, m + 1) <=> IsAmong(c, First, m) \/ c = First[m]
  BY <1>1, <1>2 DEF IsAmong
<1>5. c # "processes" => IsAmong(c, Indexed, 9)
  <2>1. \A p \in 1 .. 8 : p < 9
    OBVIOUS
  <2> QED
    BY <1>1, <2>1, IndexedList DEF IsAmong
<1>6. IsAmong(c, First, 10)
  <2>1. \A p \in 1 .. 9 : p < 10
    OBVIOUS
  <2>2. \E p \in 1 .. 9 : First[p] = c
    BY CollectorSet
  <2> QED
    BY <1>1, <2>1, <2>2 DEF IsAmong
<1>7. ~IsAmong(c, Indexed, 1) /\ ~IsAmong(c, First, 1)
  BY DEF IsAmong
<1> QED
  BY <1>3, <1>4, <1>5, <1>6, <1>7

\* The collectors are initialised one after the other.
LEMMA ShownInit ==
  ASSUME Types, ShownInTime, InitCollector
  PROVE  ShownInTime'
<1> DEFINE i == stats.i
<1>1. /\ stats.at = "init" /\ i \in 1 .. 8 /\ sampleID = 0 /\ sampleID' = 0
      /\ shown' = [shown EXCEPT ![Indexed[i]].id = 1] /\ Indexed[i] \in Collector
      /\ stats' = IF i < 8 THEN [stats EXCEPT !.i = @ + 1] ELSE At("entitlement")
      /\ stats \in [at : StatsPlaces, i : Nat \ {0}, k : Nat \ {0}]
      /\ shown \in [Collector -> Samples]
  BY IndexedList
     DEF InitCollector, GoOn, ShownInTime, Starting, Types, StatsTyped, DataTypes
<1>2. \A c \in Collector :
         /\ shown[c].id = IF c = "processes" \/ ~IsAmong(c, Indexed, i) THEN 0 ELSE 1
         /\ shown[c].at = -1
         /\ shown[c] = [id |-> shown[c].id, at |-> shown[c].at]
  BY <1>1 DEF ShownInTime, Starting, AtStart
<1> HIDE DEF i
<1>3. ASSUME NEW c \in Collector
      PROVE  shown'[c] =
               [id |-> IF c = "processes" \/ ~IsAmong(c, Indexed, i + 1) THEN 0 ELSE 1, at |-> -1]
  <2>1. IsAmong(c, Indexed, i + 1) <=> IsAmong(c, Indexed, i) \/ c = Indexed[i]
    BY <1>1, GoOnStart
  <2>2. CASE c = Indexed[i]
    <3>1. c # "processes"
      BY <1>1, <2>2, IndexedList
    <3>2. shown'[c] = [id |-> 1, at |-> shown[c].at]
      BY <1>1, <2>2 DEF Samples
    <3>3. shown[c].at = -1
      BY <1>2
    <3>4. IsAmong(c, Indexed, i + 1)
      BY <2>1, <2>2
    <3> QED
      BY <3>1, <3>2, <3>3, <3>4
  <2>3. CASE c # Indexed[i]
    <3>1. shown'[c] = shown[c]
      BY <1>1, <2>3
    <3> QED
      BY <1>2, <2>1, <2>3, <3>1
  <2> QED
    BY <2>2, <2>3
<1>4. CASE i < 8
  <2>1. stats'.at = "init" /\ stats'.i = i + 1
    BY <1>1, <1>4 DEF i
  <2>2. \A c \in Collector : shown'[c] = AtStart(c)'
    BY <1>3, <2>1 DEF AtStart
  <2> QED
    BY <1>1, <2>1, <2>2 DEF ShownInTime, Starting
<1>5. CASE ~(i < 8)
  <2>1. stats'.at = "entitlement" /\ i + 1 = 9
    BY <1>1, <1>5, AtBegins
  <2>2. ASSUME NEW c \in Collector PROVE shown'[c] = AtStart(c)'
    <3>2. c = "processes" \/ IsAmong(c, Indexed, i + 1)
      BY <2>1, GoOnStart
    <3> QED
      BY <1>3, <2>1, <3>2 DEF AtStart
  <2> QED
    BY <1>1, <2>1, <2>2 DEF ShownInTime, Starting
<1> QED
  BY <1>4, <1>5

\* The collectors are updated one after the other.
LEMMA ShownFirst ==
  ASSUME Types, ShownInTime, FirstUpdate
  PROVE  ShownInTime'
<1> DEFINE i == stats.i
<1>1. /\ stats.at = "first" /\ i \in 1 .. 9 /\ sampleID = 0 /\ sampleID' = 0
      /\ shown' = [shown EXCEPT ![First[i]].at = 0] /\ First[i] \in Collector
      /\ stats' = IF i < 9 THEN [stats EXCEPT !.i = @ + 1] ELSE At("ready")
      /\ stats \in [at : StatsPlaces, i : Nat \ {0}, k : Nat \ {0}]
      /\ shown \in [Collector -> Samples]
  <2>1. /\ stats.at = "first" /\ Update(First[i]) /\ sampleID' = sampleID
        /\ stats' = IF i < Len(First) THEN [stats EXCEPT !.i = @ + 1] ELSE At("ready")
    BY DEF FirstUpdate, GoOn
  <2>2. Len(First) = 9
    BY CollectorSet
  <2>3. /\ i \in 1 .. 9 /\ stats \in [at : StatsPlaces, i : Nat \ {0}, k : Nat \ {0}]
        /\ shown \in [Collector -> Samples]
    <3>1. /\ stats \in [at : StatsPlaces, i : Nat \ {0}, k : Nat \ {0}]
          /\ stats.at = "first" => stats.i <= Len(First)
          /\ shown \in [Collector -> Samples]
      BY DEF Types, StatsTyped, DataTypes
    <3>2. i \in Nat \ {0}
      BY <3>1
    <3>3. i <= 9
      BY <2>1, <2>2, <3>1
    <3> QED
      BY <3>1, <3>2, <3>3
  <2>4. First[i] \in Collector
    BY <2>3, CollectorSet
  <2>5. sampleID = 0
    BY <2>1 DEF ShownInTime, Starting
  <2>6. shown' = [shown EXCEPT ![First[i]].at = 0]
    BY <2>1, <2>5 DEF Update
  <2> HIDE DEF i
  <2> QED
    BY <2>1, <2>2, <2>3, <2>4, <2>5, <2>6
<1>2. \A c \in Collector :
         /\ shown[c].id = IF c = "processes" THEN 0 ELSE 1
         /\ shown[c].at = IF IsAmong(c, First, i) THEN 0 ELSE -1
         /\ shown[c] = [id |-> shown[c].id, at |-> shown[c].at]
  BY <1>1 DEF ShownInTime, Starting, AtStart
<1> HIDE DEF i
<1>3. ASSUME NEW c \in Collector
      PROVE  shown'[c] = [id |-> IF c = "processes" THEN 0 ELSE 1,
                          at |-> IF IsAmong(c, First, i + 1) THEN 0 ELSE -1]
  <2>1. IsAmong(c, First, i + 1) <=> IsAmong(c, First, i) \/ c = First[i]
    BY <1>1, GoOnStart
  <2>2. CASE c = First[i]
    <3>1. shown'[c] = [id |-> shown[c].id, at |-> 0]
      BY <1>1, <2>2 DEF Samples
    <3>2. shown[c].id = IF c = "processes" THEN 0 ELSE 1
      BY <1>2
    <3>3. IsAmong(c, First, i + 1)
      BY <2>1, <2>2
    <3> QED
      BY <3>1, <3>2, <3>3
  <2>3. CASE c # First[i]
    <3>1. shown'[c] = shown[c]
      BY <1>1, <2>3
    <3> QED
      BY <1>2, <2>1, <2>3, <3>1
  <2> QED
    BY <2>2, <2>3
<1>4. CASE i < 9
  <2>1. stats'.at = "first" /\ stats'.i = i + 1
    BY <1>1, <1>4 DEF i
  <2>2. \A c \in Collector : shown'[c] = AtStart(c)'
    BY <1>3, <2>1 DEF AtStart
  <2> QED
    BY <1>1, <2>1, <2>2 DEF ShownInTime, Starting
<1>5. CASE ~(i < 9)
  <2>1. stats'.at = "ready" /\ i + 1 = 10
    BY <1>1, <1>5, AtBegins
  <2>2. ASSUME NEW c \in Collector PROVE shown'[c] = SampleOf(c, 0)
    <3>2. IsAmong(c, First, i + 1)
      BY <2>1, GoOnStart
    <3> QED
      BY <1>3, <3>2, SampleAtFirst
  <2> QED
    BY <1>1, <2>1, <2>2 DEF ShownInTime, Starting
<1> QED
  BY <1>4, <1>5

\* The collectors show what ShownInTime says they do.
LEMMA ShownStep ==
  ASSUME Types, ShownInTime, Next
  PROVE  ShownInTime'
<1>1. /\ DataTypes /\ stats \in [at : StatsPlaces, i : Nat \ {0}, k : Nat \ {0}]
      /\ sampleID \in Nat
  BY StatsThreadAssumption DEF Types, StatsTyped, DataTypes
<1>2. CASE OpenDatabase
  <2>1. /\ stats.at = "open" /\ stats'.at = "init" /\ stats'.i = 1
        /\ UNCHANGED <<sampleID, shown>>
    BY <1>2, AtBegins DEF OpenDatabase, dataVars
  <2>2. \A c \in Collector : AtStart(c)' = AtStart(c)
    BY <2>1, GoOnStart DEF AtStart
  <2> QED
    BY <2>1, <2>2 DEF ShownInTime, Starting
<1>3. CASE SetEntitlement
  <2>1. /\ stats.at = "entitlement" /\ stats'.at = "first" /\ stats'.i = 1
        /\ UNCHANGED <<sampleID, shown>>
    BY <1>3, AtBegins DEF SetEntitlement, dataVars
  <2>2. \A c \in Collector : AtStart(c)' = AtStart(c)
    BY <2>1, GoOnStart DEF AtStart
  <2> QED
    BY <2>1, <2>2 DEF ShownInTime, Starting
<1>4. CASE Wake
  <2>1. /\ stats.at = "sleep" /\ stats'.at = "holds" /\ stats'.i = 1
        /\ sampleID' = sampleID + 1 /\ shown' = shown
    BY <1>4, AtBegins DEF Wake
  <2>2. sampleID' \in Nat \ {0} /\ sampleID' - 1 = sampleID
    BY <1>1, <2>1
  <2>3. \A c \in Collector : shown'[c] = OnTheWay(c, sampleID', 1)
    BY <2>1, <2>2, WayBegins DEF ShownInTime, Starting
  <2> QED
    BY <2>1, <2>2, <2>3 DEF ShownInTime, Starting
<1>5. CASE Second
  BY <1>5, ShownSecond
<1>8. ASSUME stats.at \notin Starting \cup {"holds"}, stats'.at \notin Starting \cup {"holds"},
             UNCHANGED <<sampleID, shown>>
      PROVE  ShownInTime'
  BY <1>8 DEF ShownInTime
<1>6. CASE RemoveOldSamples \/ InsertItems
  <2>1. /\ stats.at \notin Starting \cup {"holds"} /\ stats'.at \notin Starting \cup {"holds"}
        /\ UNCHANGED <<sampleID, shown>>
    BY <1>1, <1>6, AtBegins, ZenonT(30)
       DEF RemoveOldSamples, GoOn, InsertItems, Insert, Starting
  <2> QED
    BY <1>8, <2>1
<1>9. CASE SetReady \/ UpdateAddresses \/ UpdateNextTimes \/ Between \/ BeginFlush \/ CommitFlush
  <2>1. /\ stats.at \in {"ready", "addresses", "times", "between", "begin", "commit"}
        /\ stats' \in {At("addresses"), At("times"), At("sleep"), At("remove"), At("insert")}
        /\ UNCHANGED <<sampleID, shown>>
    BY <1>9 DEF SetReady, UpdateAddresses, UpdateNextTimes, Between, BeginFlush, CommitFlush,
                dataVars
  <2>2. stats.at \notin Starting \cup {"holds"} /\ stats'.at \notin Starting \cup {"holds"}
    BY <2>1, AtBegins DEF Starting
  <2> QED
    BY <1>8, <2>1, <2>2
<1>7. CASE Request \/ Lock \/ Read \/ Send \/ Sigterm \/ Handle \/ Die
  <2>1. UNCHANGED <<stats, sampleID, shown>>
    BY <1>7 DEF Request, Lock, Read, Send, Elsewhere, Sigterm, Handle, Finalize, Die, dataVars
  <2> QED
    BY <2>1 DEF ShownInTime, AtStart
<1> QED
  BY <1>2, <1>3, <1>4, <1>5, <1>6, <1>7, <1>9, ShownInit, ShownFirst DEF Next, StatsStep

\* A reply has one more collector, as ShownInTime says it is.
LEMMA ReadOne ==
  ASSUME Types, LockKept, ShownInTime, ReadInTime, Read
  PROVE  /\ Len(reading') = main.i /\ main.i \in 1 .. 9 /\ sampleID' = sampleID
         /\ \/ \A i \in 1 .. Len(reading') : reading'[i] = SampleOf(Asked[i], sampleID)
            \/ /\ sampleID = 0
               /\ \A i \in 1 .. Len(reading') : reading'[i] \in Started(Asked[i])
<1> DEFINE m == main.i
           x == shown[Asked[m]]
<1>1. /\ main.at = "reads" /\ m \in 1 .. 9 /\ reading' = Append(reading, x)
      /\ sampleID' = sampleID
  BY AskedList DEF Read, Elsewhere, dataVars, Types, MainTyped
<1>2. reading \in Seq(Samples) /\ Len(reading) = m - 1
  BY <1>1 DEF Types, DataTypes, ReadInTime
<1>3. Asked[m] \in Collector /\ x \in Samples
  BY <1>1, AskedList DEF Types, DataTypes
<1>4. \/ x = SampleOf(Asked[m], sampleID)
      \/ sampleID = 0 /\ x \in Started(Asked[m])
  <2>1. CASE stats.at \in Starting
    <3> DEFINE c == Asked[m]
    <3>1. sampleID = 0 /\ x = AtStart(c) /\ c \in Collector
      BY <1>3, <2>1 DEF ShownInTime
    <3> HIDE DEF c, x
    <3>2. SampleOf(c, 0) = [id |-> IF c = "processes" THEN 0 ELSE 1, at |-> 0]
      BY <3>1, SampleAtFirst
    <3>3. AtStart(c) \in Started(c)
      BY <3>2 DEF AtStart, Started
    <3> QED
      BY <3>1, <3>3 DEF c
  <2>2. CASE stats.at = "holds"
    BY <1>1, <2>2 DEF LockKept
  <2>3. CASE stats.at \notin Starting \cup {"holds"}
    BY <1>3, <2>3 DEF ShownInTime
  <2> QED
    BY <2>1, <2>2, <2>3
<1> HIDE DEF x
<1>5. /\ Len(reading') = m /\ reading'[m] = x
      /\ \A i \in 1 .. m - 1 : reading'[i] = reading[i]
  BY <1>1, <1>2, <1>3, AppendProperties
<1> HIDE DEF m
<1>6. \/ \A i \in 1 .. m - 1 : reading[i] = SampleOf(Asked[i], sampleID)
      \/ /\ sampleID = 0
         /\ \A i \in 1 .. m - 1 : reading[i] \in Started(Asked[i])
  BY <1>1, <1>2 DEF ReadInTime
<1>7. \A i \in 1 .. m : i = m \/ i \in 1 .. m - 1
  BY <1>1
<1>8. \/ \A i \in 1 .. m : reading'[i] = SampleOf(Asked[i], sampleID)
      \/ /\ sampleID = 0
         /\ \A i \in 1 .. m : reading'[i] \in Started(Asked[i])
  <2>1. \A c : SampleOf(c, 0) \in Started(c)
    BY DEF Started
  <2>2. CASE sampleID = 0
    BY <1>1, <1>4, <1>5, <1>6, <1>7, <2>1, <2>2
  <2>3. CASE sampleID # 0
    BY <1>1, <1>4, <1>5, <1>6, <1>7, <2>3
  <2> QED
    BY <2>2, <2>3
<1> QED
  BY <1>1, <1>5, <1>8 DEF m

\* Replies keep to the second they are made in, and are whole when they are made.
LEMMA ReadStep ==
  ASSUME Types, LockKept, ShownInTime, ReadInTime, RepliesAreWhole, Next
  PROVE  ReadInTime' /\ RepliesAreWhole'
<1>1. /\ Len(Asked) = 9 /\ reading \in Seq(Samples)
      /\ main \in [at : MainPlaces, i : Nat \ {0}, k : Nat \ {0}]
  BY AskedList DEF Types, DataTypes, MainTyped
<1>2. ASSUME reading' = reading PROVE RepliesAreWhole'
  BY <1>2 DEF RepliesAreWhole
<1>3. ASSUME reading' = <<>> PROVE RepliesAreWhole'
  <2>1. Len(reading') = 0
    BY <1>3, EmptySeq
  <2> QED
    BY <1>1, <2>1 DEF RepliesAreWhole
<1>4. ASSUME main'.at # "reads" PROVE ReadInTime'
  BY <1>4 DEF ReadInTime
<1>5. CASE StatsStep
  <2>1. main' = main /\ reading' = reading
    BY <1>5 DEF StatsStep
  <2>2. main.at = "reads" => sampleID' = sampleID
    <3>1. CASE Wake
      BY <3>1 DEF Wake, LockKept, Free
    <3>2. CASE Second
      BY <3>2 DEF Second, LockKept
    <3> QED
      BY <1>5, <3>1, <3>2
         DEF StatsStep, OpenDatabase, InitCollector, SetEntitlement, FirstUpdate, SetReady,
             UpdateAddresses, UpdateNextTimes, Between, RemoveOldSamples, BeginFlush,
             InsertItems, CommitFlush, dataVars
  <2> QED
    BY <1>2, <2>1, <2>2 DEF ReadInTime
<1>6. CASE Request
  BY <1>2, <1>4, <1>6, AtBegins DEF Request
<1>7. CASE Lock
  <2>1. reading' = <<>> /\ main'.i = 1
    BY <1>7, AtBegins DEF Lock
  <2>2. Len(reading') = 0
    BY <2>1, EmptySeq
  <2> QED
    BY <1>3, <2>1, <2>2 DEF ReadInTime
<1>8. CASE Read
  <2>1. /\ Len(reading') = main.i /\ main.i \in 1 .. 9 /\ sampleID' = sampleID
        /\ \/ \A i \in 1 .. Len(reading') : reading'[i] = SampleOf(Asked[i], sampleID)
           \/ /\ sampleID = 0
              /\ \A i \in 1 .. Len(reading') : reading'[i] \in Started(Asked[i])
    BY <1>8, ReadOne
  <2>2. sampleID \in 0 .. MaxSecond
    BY DEF Types, DataTypes
  <2>3. RepliesAreWhole'
    BY <1>1, <2>1, <2>2 DEF RepliesAreWhole
  <2>4. CASE main.i < 9
    <3>1. main'.i = main.i + 1
      BY <1>1, <1>8, <2>4 DEF Read
    <3> QED
      BY <2>1, <2>3, <3>1 DEF ReadInTime
  <2>5. CASE ~(main.i < 9)
    <3>1. main' = At("sends")
      BY <1>1, <1>8, <2>5 DEF Read
    <3> QED
      BY <1>4, <2>3, <3>1, AtBegins
  <2> QED
    BY <2>4, <2>5
<1>9. CASE Send
  BY <1>3, <1>4, <1>9, AtBegins DEF Send
<1>10. CASE Sigterm \/ Handle \/ Die
  <2>1. reading' = reading
    BY <1>10 DEF Sigterm, Handle, Die
  <2>2. main'.at # "reads"
    <3>1. CASE Sigterm \/ Die
      BY <3>1, AtBegins DEF Sigterm, Die
    <3>2. CASE Handle
      BY <1>1, <3>2, AtBegins DEF Handle, Finalize, Insert
    <3> QED
      BY <1>10, <3>1, <3>2
  <2> QED
    BY <1>2, <1>4, <2>1, <2>2
<1> QED
  BY <1>5, <1>6, <1>7, <1>8, <1>9, <1>10 DEF Next

-----------------------------------------------------------------------------
(***************************************************************************)
(* The theorems.                                                           *)
(***************************************************************************)
\* The invariant holds at the start.
LEMMA ThreadsInitially == ASSUME Init PROVE ThreadsInv
<1>1. /\ stats.at = "open" /\ main.at = "idle" /\ sampleID = 0 /\ reading = <<>> /\ owed = {}
      /\ shown = [c \in Collector |-> [id |-> 0, at |-> -1]]
  BY AtBegins DEF Init
<1>2. Len(reading) = 0 /\ Len(Asked) = 9
  BY <1>1, EmptySeq, AskedList
<1>3. \A c \in Collector : shown[c] = AtStart(c)
  BY <1>1 DEF AtStart
<1>4. ShownInTime /\ ReadInTime /\ RepliesAreWhole
  BY <1>1, <1>2, <1>3 DEF ShownInTime, Starting, ReadInTime, RepliesAreWhole
<1>5. FlushedInOrder /\ OwedIsSafe
  BY <1>1 DEF FlushedInOrder, OwedIsSafe
<1> QED
  BY <1>4, <1>5, InitTypes DEF ThreadsInv

\* Every step of either thread keeps the invariant.
LEMMA ThreadsStep == ASSUME ThreadsInv, [Next]_vars PROVE ThreadsInv'
<1>1. Types' /\ LockKept'
  BY TypesStep DEF ThreadsInv
<1>2. CASE Next
  BY <1>1, <1>2, ShownStep, ReadStep, FlushedStep, OwedStep DEF ThreadsInv
<1>3. CASE UNCHANGED vars
  <2>1. (ShownInTime /\ ReadInTime /\ RepliesAreWhole)'
    BY <1>3 DEF ThreadsInv, vars, dataVars, ShownInTime, AtStart, ReadInTime,
                RepliesAreWhole
  <2>2. (FlushedInOrder /\ OwedIsSafe)'
    BY <1>3 DEF ThreadsInv, vars, dataVars, databaseVars, FlushedInOrder, OwedIsSafe, Kept,
                StillToDo
  <2> QED
    BY <1>1, <2>1, <2>2 DEF ThreadsInv
<1> QED
  BY <1>2, <1>3

\* The invariant, its types and its lock among it, holds of every behaviour.
THEOREM ThreadsInvariant == Spec => []ThreadsInv
<1>1. Init => ThreadsInv
  BY ThreadsInitially
<1>2. ThreadsInv /\ [Next]_vars => ThreadsInv'
  BY ThreadsStep
<1> QED
  BY <1>1, <1>2, PTL DEF Spec

(***************************************************************************)
(* A reply shows the collectors as one whole number of seconds left them,  *)
(* but for what the start does, which is without the lock.                 *)
(***************************************************************************)
THEOREM WholeReplies == Spec => []RepliesAreWhole
<1>1. ThreadsInv => RepliesAreWhole
  BY DEF ThreadsInv
<1> QED
  BY <1>1, ThreadsInvariant, PTL

(***************************************************************************)
(* SIGTERM loses nothing, whatever the statistics thread is doing, unless  *)
(* both come to the same queue.                                            *)
(***************************************************************************)
THEOREM NothingOwedIsLost == Spec => []SigtermSaves
<1>1. ThreadsInv => SigtermSaves
  BY DEF ThreadsInv, OwedIsSafe, SigtermSaves
<1> QED
  BY <1>1, ThreadsInvariant, PTL

(***************************************************************************)
(* What the two threads do at the same time is undefined at the places     *)
(* UndefinedIsKnown names and at no other.                                 *)
(***************************************************************************)
THEOREM UndefinedOnlySo == Spec => UndefinedIsKnown
<1>1. ThreadsInv /\ [Next]_vars =>
        [~undefined /\ undefined' =>
           \/ main'.at = "reads" /\ stats'.at \in {"init", "first", "addresses"}
           \/ main'.at = "reads" /\ Asked[main'.i] \in Copied
              /\ stats'.at \in {"open", "entitlement", "ready", "times", "remove", "insert"}
           \/ main'.at = "finalize" /\ stats'.at = "open"
           \/ main'.at = "finalize" /\ stats'.at \in {"first", "holds", "remove", "insert"}
           \/ ~historyEnabled /\ stats'.at = "insert"]_vars
  BY UndefinedStep DEF ThreadsInv
<1> QED
  BY <1>1, ThreadsInvariant, PTL DEF Spec, UndefinedIsKnown

-----------------------------------------------------------------------------
(***************************************************************************)
(* The batteries.                                                          *)
(***************************************************************************)
\* What is told of a battery whose file was read.
ToldWell(b, file) ==
    /\ b.told # <<>>
    /\ b.told[1].percentage \in 0..100
    /\ b.told[1].source = "battery" <=> b.told[1].state = StateDraining
    /\ b.told[1].time > 0 => b.told[1].state \in {StateCharging, StateDraining}
    /\ b.told[1].health = Health(file)
    /\ Line(file, "capacity", -1) \in 0..100 => b.told[1].percentage = Line(file, "capacity", -1)

BatteryInv ==
    /\ batteryUpdates \in Nat
    /\ files \in [BatteryNames -> Files \cup {Gone}]
    /\ batteryUpdates = 0 => files = [key \in BatteryNames |-> Gone]
    /\ DOMAIN batteries = 1 .. Len(batteries)
    /\ \A i \in DOMAIN batteries :
          /\ batteries[i].key \in BatteryNames
          /\ DOMAIN batteries[i] = {"key", "active", "present", "told"}
          /\ files[batteries[i].key] # Gone =>
                ToldWell(batteries[i], files[batteries[i].key])

-----------------------------------------------------------------------------
\* A line of a file is the last with its name, or there is none.
LEMMA LineIsThere ==
  ASSUME NEW file \in Files, NEW name, NEW default
  PROVE  \/ Line(file, name, default) = default
         \/ \E l \in ToSet(file) : l[1] = name /\ Line(file, name, default) = l[2]
<1> DEFINE T == ToSet(file)
           S == {l \in T : l[1] = name}
           lines == Only(file, S)
<1>1. file \in Seq(T)
  BY BatteryAssumption
<1>2. lines \in Seq(T \cap S)
  BY <1>1, OnlyType
<1>3. Line(file, name, default) = IF lines = <<>> THEN default ELSE Last(lines)[2]
  BY DEF Line
<1> HIDE DEF lines
<1>4. CASE lines = <<>>
  BY <1>3, <1>4
<1>5. CASE lines # <<>>
  <2> DEFINE U == T \cap S
  <2> HIDE DEF U
  <2>1. Len(lines) \in 1 .. Len(lines) /\ lines[Len(lines)] \in U
    BY <1>2, <1>5, EmptySeq DEF U
  <2>2. Last(lines) \in T \cap S
    BY <2>1 DEF Last, U
  <2> QED
    BY <1>3, <1>5, <2>2
<1> QED
  BY <1>4, <1>5

\* The numbers of a file.
LEMMA LineIsNumber ==
  ASSUME NEW file \in Files, NEW default \in Int
  PROVE  /\ \A name : name # "status" => Line(file, name, default) \in Int
         /\ Line(file, "capacity", -1) # -1 => Line(file, "capacity", -1) \in Nat
<1>1. \A l \in ToSet(file) : IsLine(l)
  BY BatteryAssumption
<1>2. ASSUME NEW name, name # "status" PROVE Line(file, name, default) \in Int
  BY <1>1, <1>2, LineIsThere DEF IsLine
<1>3. ASSUME Line(file, "capacity", -1) # -1 PROVE Line(file, "capacity", -1) \in Nat
  <2>1. PICK l \in ToSet(file) : l[1] = "capacity" /\ Line(file, "capacity", -1) = l[2]
    BY <1>3, LineIsThere
  <2>2. l[2] \in Nat
    BY <1>1, <2>1 DEF IsLine
  <2> QED
    BY <2>1, <2>2
<1> QED
  BY <1>2, <1>3

\* What a file says hangs together.
LEMMA FileIsToldWell ==
  ASSUME NEW file \in Files, NEW b, b.told = <<Told(file)>>
  PROVE  ToldWell(b, file)
<1> DEFINE full == Line(file, "full", 0)
           left == Line(file, "now", 0)
           said == Line(file, "capacity", -1)
<1>1. full \in Int /\ left \in Int /\ (said # -1 => said \in Nat)
  BY LineIsNumber
<1>2. b.told # <<>> /\ b.told[1] = Told(file)
  OBVIOUS
<1>3. /\ Told(file).percentage = Percentage(file)
      /\ Told(file).state = StateOf(file)
      /\ Told(file).source = SourceOf(file)
      /\ Told(file).time = TimeRemaining(file)
      /\ Told(file).health = Health(file)
  BY DEF Told
<1>4. /\ Percentage(file) \in 0 .. 100
      /\ said \in 0 .. 100 => Percentage(file) = said
  <2> DEFINE made == IF said # -1 THEN said
                     ELSE IF full > 0 /\ left > 0 THEN (left \div full) * 100 ELSE 0
  <2>1. Percentage(file) = IF made > 100 THEN 100 ELSE made
    BY DEF Percentage
  <2>2. full > 0 /\ left > 0 => (left \div full) * 100 \in Nat
    <3>1. full > 0 /\ left > 0 => left \div full \in Nat
      BY <1>1
    <3> QED
      BY <3>1
  <2> HIDE DEF full, left, said
  <2>3. made \in Nat /\ (said \in 0 .. 100 => made = said)
    BY <1>1, <2>2
  <2> HIDE DEF made
  <2> QED
    BY <2>1, <2>3
<1>5. SourceOf(file) = "battery" <=> StateOf(file) = StateDraining
  BY DEF SourceOf
<1>6. TimeRemaining(file) > 0 => StateOf(file) \in {StateCharging, StateDraining}
  BY DEF TimeRemaining
<1> QED
  BY <1>2, <1>3, <1>4, <1>5, <1>6 DEF ToldWell

-----------------------------------------------------------------------------
\* The batteries of which nothing was read yet.
UnreadBatteries == [key : BatteryNames, active : BOOLEAN, present : BOOLEAN, told : {<<>>}]

\* What was found is listed under its name.
LEMMA BatteriesAreMade ==
  ASSUME NEW found \in Seq(BatteryNames), NEW garbage \in BOOLEAN
  PROVE  CreateBatteries(found, garbage) \in Seq(UnreadBatteries)
<1> DEFINE V == Seq(UnreadBatteries)
           N == Len(found)
           F == [x \in Nat \X V |->
                    IF x[1] \in 1 .. N THEN CreateBattery(x[2], found[x[1]], garbage) ELSE x[2]]
           All(f) == f = [n \in 0 .. N |->
                            IF n = 0 THEN <<>>
                            ELSE CreateBattery(f[n - 1], found[n], garbage)]
           made == CHOOSE f : All(f)
<1>1. N \in Nat /\ <<>> \in V /\ \A n \in 1 .. N : found[n] \in BatteryNames
  BY EmptySeq
<1>2. ASSUME NEW q \in V, NEW key \in BatteryNames PROVE CreateBattery(q, key, garbage) \in V
  <2>1. NewBattery(key, garbage) \in UnreadBatteries
    BY DEF NewBattery, UnreadBatteries
  <2> DEFINE b == NewBattery(key, garbage)
  <2> HIDE DEF b
  <2>2. <<b>> \o q \in V
    BY <2>1, ConcatProperties DEF b
  <2> QED
    BY <2>2 DEF CreateBattery, b
<1> HIDE DEF V
<1>3. F \in [Nat \X V -> V]
  <2>1. ASSUME NEW x \in Nat \X V
        PROVE  (IF x[1] \in 1 .. N THEN CreateBattery(x[2], found[x[1]], garbage) ELSE x[2]) \in V
    BY <1>1, <1>2
  <2> QED
    BY <2>1
<1>4. \A n \in Nat, q \in V : n \in 1 .. N => F[<<n, q>>] = CreateBattery(q, found[n], garbage)
  BY <1>1
<1> HIDE DEF F
<1>5. PICK g : Goes(g, V, <<>>, F, N)
  BY <1>1, <1>3, Recursion
<1>6. /\ g \in [0 .. N -> V] /\ g[0] = <<>>
      /\ \A n \in 1 .. N : g[n] = CreateBattery(g[n - 1], found[n], garbage)
  <2>1. \A n \in 1 .. N : n \in Nat /\ n - 1 \in 0 .. N
    BY <1>1
  <2> QED
    BY <1>5, <1>4, <2>1 DEF Goes
<1>7. All(g)
  <2>1. \A n \in 0 .. N :
           g[n] = IF n = 0 THEN <<>> ELSE CreateBattery(g[n - 1], found[n], garbage)
    BY <1>1, <1>6
  <2> QED
    BY <1>6, <2>1
<1>8. All(made)
  BY <1>7
<1>9. CreateBatteries(found, garbage) = made[N]
  BY Zenon DEF CreateBatteries
<1> HIDE DEF made
<1>10. Agrees(made, g, N)
  <2>1. /\ made[0] = <<>>
        /\ \A n \in 1 .. N : made[n] = CreateBattery(made[n - 1], found[n], garbage)
    BY <1>1, <1>8
  <2>2. \A n \in 1 .. N : made[n - 1] \in V => made[n] = F[<<n, made[n - 1]>>]
    BY <1>4, <2>1
  <2> QED
    BY <1>1, <1>5, <2>1, <2>2, RecursionOnce
<1> QED
  <2>1. N \in 0 .. N
    BY <1>1
  <2>2. made[N] \in V
    BY <1>6, <1>10, <2>1 DEF Agrees
  <2> QED
    BY <1>9, <2>2 DEF V

-----------------------------------------------------------------------------
\* Nothing is found and nothing read when the server starts.
LEMMA BatteryInit == InitBattery => BatteryInv
  BY DEF InitBattery, BatteryInv

\* init finds the batteries, of which nothing was read yet.
LEMMA StartBatteryKeeps ==
  ASSUME BatteryInv, NEW now \in [BatteryNames -> Files \cup {Gone}],
         NEW order \in SetToSeqs(BatteryNames), NEW garbage \in BOOLEAN,
         StartBattery(order, now, garbage)
  PROVE  BatteryInv'
<1> DEFINE found == Only(order, {key \in BatteryNames : FileExists(now, key)})
<1>1. order \in Seq(BatteryNames)
  <2>1. Cardinality(BatteryNames) \in Nat
    BY BatteryAssumption, FS_CardinalityType
  <2>2. order \in [1 .. Cardinality(BatteryNames) -> BatteryNames]
    BY DEF SetToSeqs
  <2> QED
    BY <2>1, <2>2
<1>2. found \in Seq(BatteryNames)
  BY <1>1, OnlyType
<1>3. batteries' \in Seq(UnreadBatteries)
  <2> HIDE DEF found
  <2>1. batteries' = CreateBatteries(found, garbage)
    BY DEF StartBattery, found
  <2> QED
    BY <1>2, <2>1, BatteriesAreMade
<1>4. /\ DOMAIN batteries' = 1 .. Len(batteries')
      /\ \A i \in DOMAIN batteries' :
            batteries'[i].key \in BatteryNames
            /\ DOMAIN batteries'[i] = {"key", "active", "present", "told"}
  <2>1. \A i \in 1 .. Len(batteries') : batteries'[i] \in UnreadBatteries
    BY <1>3
  <2>2. DOMAIN batteries' = 1 .. Len(batteries')
    BY <1>3
  <2> QED
    BY <2>1, <2>2 DEF UnreadBatteries
<1>5. batteryUpdates = 0 /\ batteryUpdates' = batteryUpdates /\ files' = files
  BY DEF StartBattery
<1>6. \A key \in BatteryNames : files[key] = Gone
  BY <1>5 DEF BatteryInv
<1> QED
  BY <1>4, <1>5, <1>6 DEF BatteryInv

\* An update reads every file there is; what is told of the others stays.
LEMMA UpdateBatteryKeeps ==
  ASSUME BatteryInv, NEW now \in [BatteryNames -> Files \cup {Gone}], UpdateBattery(now)
  PROVE  BatteryInv'
<1> DEFINE prepared == [i \in DOMAIN batteries |->
                          IF batteryUpdates = 0 THEN batteries[i]
                          ELSE [batteries[i] EXCEPT !.active = FALSE]]
<1>1. /\ batteryUpdates' = batteryUpdates + 1
      /\ batteries' = [i \in DOMAIN batteries |-> ReadBattery(prepared[i], now[batteries[i].key])]
      /\ files' = [key \in BatteryNames |-> IF now[key] = Gone THEN files[key] ELSE now[key]]
  BY DEF UpdateBattery
<1>2. /\ batteryUpdates' \in Nat /\ batteryUpdates' # 0
      /\ files' \in [BatteryNames -> Files \cup {Gone}]
  BY <1>1 DEF BatteryInv
<1>3. DOMAIN batteries' = DOMAIN batteries /\ DOMAIN batteries = 1 .. Len(batteries)
  BY <1>1 DEF BatteryInv
<1>4. ASSUME NEW i \in DOMAIN batteries
      PROVE  /\ batteries'[i].key \in BatteryNames
             /\ DOMAIN batteries'[i] = {"key", "active", "present", "told"}
             /\ files'[batteries'[i].key] # Gone =>
                   ToldWell(batteries'[i], files'[batteries'[i].key])
  <2> DEFINE b == batteries[i]
             p == prepared[i]
             file == now[b.key]
  <2>1. /\ b.key \in BatteryNames
        /\ DOMAIN b = {"key", "active", "present", "told"}
        /\ files[b.key] # Gone => ToldWell(b, files[b.key])
    BY DEF BatteryInv
  <2>2. /\ p.key = b.key /\ p.told = b.told
        /\ DOMAIN p = {"key", "active", "present", "told"}
    <3>1. p = IF batteryUpdates = 0 THEN b ELSE [b EXCEPT !.active = FALSE]
      OBVIOUS
    <3> HIDE DEF p, b
    <3> QED
      BY <2>1, <3>1
  <2>3. batteries'[i] = ReadBattery(p, file)
    BY <1>1
  <2>4. files'[b.key] = IF file = Gone THEN files[b.key] ELSE file
    BY <1>1, <2>1
  <2> HIDE DEF b, p, file
  <2>5. CASE file = Gone
    <3>1. /\ batteries'[i].key = b.key /\ batteries'[i].told = b.told
          /\ DOMAIN batteries'[i] = {"key", "active", "present", "told"}
      BY <2>2, <2>3, <2>5 DEF ReadBattery
    <3>2. \A f : ToldWell(b, f) => ToldWell(batteries'[i], f)
      BY <3>1 DEF ToldWell
    <3> QED
      BY <2>1, <2>4, <2>5, <3>1, <3>2
  <2>6. CASE file # Gone
    <3>1. /\ batteries'[i].key = b.key /\ batteries'[i].told = <<Told(file)>>
          /\ DOMAIN batteries'[i] = {"key", "active", "present", "told"}
      <4> DEFINE there == Line(file, "present", 1) # 0
                 t == <<Told(file)>>
      <4>1. batteries'[i] = [p EXCEPT !.active = TRUE, !.present = there, !.told = t]
        BY <2>3, <2>6 DEF ReadBattery
      <4> HIDE DEF there, t
      <4>2. /\ batteries'[i].key = b.key /\ batteries'[i].told = t
            /\ DOMAIN batteries'[i] = {"key", "active", "present", "told"}
        BY <2>2, <4>1
      <4> QED
        BY <4>2 DEF t
    <3>2. file \in Files
      BY <2>1, <2>6 DEF file
    <3>3. ToldWell(batteries'[i], file)
      BY <3>1, <3>2, FileIsToldWell
    <3> QED
      BY <2>1, <2>4, <2>6, <3>1, <3>3
  <2> QED
    BY <2>5, <2>6
<1>5. Len(batteries') = Len(batteries)
  BY <1>1, <1>3
<1> QED
  BY <1>2, <1>3, <1>4, <1>5 DEF BatteryInv

\* The batteries' part of a step of the collectors.
LEMMA BatteryKeeps == BatteryInv /\ [NextBattery]_batteryVars => BatteryInv'
<1> SUFFICES ASSUME BatteryInv, [NextBattery]_batteryVars PROVE BatteryInv'
  OBVIOUS
<1>1. CASE NextBattery
  BY <1>1, StartBatteryKeeps, UpdateBatteryKeeps DEF NextBattery
<1>2. CASE UNCHANGED batteryVars
  BY <1>2 DEF batteryVars, BatteryInv
<1> QED
  BY <1>1, <1>2

\* What is told of the batteries is what was read.
LEMMA BatteryInvIsEnough == BatteryInv => BatteriesAreRead
  BY DEF BatteryInv, BatteriesAreRead, ToldWell

-----------------------------------------------------------------------------

\* What may be mounted, and what a disk is made of.
AllMounts == UNION {ToSet(mounts) : mounts \in Tables}

Disk == [key : {m.name : m \in AllMounts}, uuid : {UuidOf(m.name) : m \in AllMounts},
         name : {m.dir : m \in AllMounts}, label : {LabelOf(m) : m \in AllMounts},
         active : BOOLEAN, samples : Seq(Nat)]

\* No key comes twice, so that an item can be told by it.
KeysOnce(list) == \A i, j \in 1 .. Len(list) : list[i].key = list[j].key => i = j

\* The newest sample comes first, and none is newer than id.
Falling(samples, id) ==
    /\ \A j \in 1 .. Len(samples) : samples[j] <= id
    /\ \A j, k \in 1 .. Len(samples) : j < k => samples[j] >= samples[k]

\* The first c samples are of id, and no other.
InFront(samples, id, c) ==
    c <= Len(samples) /\ \A j \in 1 .. Len(samples) : samples[j] = id <=> j <= c

\* The mounts of a device that were measured, of the first n.
MeasuredOf(mounts, key, n) ==
    {j \in 1 .. n : mounts[j].name = key /\ ~ShouldIgnoreType(mounts[j]) /\ mounts[j].sizes}

\* As many as memory has room for.
Room(c) == IF c < DiskSize THEN c ELSE DiskSize

\* A disk known before the update, after n mounts were processed.
Sampling(d, mounts, id, n) ==
    /\ d.active = (MeasuredOf(mounts, d.key, n) # {})
    /\ InFront(d.samples, id, Room(Cardinality(MeasuredOf(mounts, d.key, n))))

\* The disks after n mounts were processed.
ListAfter(list, from, mounts, ready, id, n) ==
    /\ list \in Seq(Disk)
    /\ KeysOnce(list)
    /\ \A i \in 1 .. Len(from) : Known(list, from[i].key)
    /\ \A j \in 1 .. n : ~ShouldIgnoreType(mounts[j]) /\ ~ShouldIgnoreMount(mounts[j]) =>
                            Known(list, mounts[j].name)
    /\ \A i \in 1 .. Len(list) :
          /\ Falling(list[i].samples, id)
          /\ ready /\ Known(from, list[i].key) => Sampling(list[i], mounts, id, n)

DisksInv ==
    /\ diskUpdates \in Nat
    /\ diskReady \in BOOLEAN
    /\ ~diskReady => disks = <<>>
    /\ disks \in Seq(Disk)
    /\ KeysOnce(disks)
    /\ \A i \in 1 .. Len(disks) : Falling(disks[i].samples, diskUpdates)

-----------------------------------------------------------------------------
\* A mount is one of some table's.
LEMMA MountsAre ==
  ASSUME NEW mounts \in Tables
  PROVE  mounts \in Seq(AllMounts) /\ \A j \in 1 .. Len(mounts) : mounts[j].sizes \in BOOLEAN
<1> DEFINE T == ToSet(mounts)
<1>1. mounts \in Seq(T) /\ \A m \in T : m.sizes \in BOOLEAN
  BY DisksAssumption
<1>2. T \subseteq AllMounts
  BY DEF AllMounts
<1> HIDE DEF T
<1>3. Len(mounts) \in Nat /\ mounts \in [1 .. Len(mounts) -> T]
  BY <1>1
<1>4. \A j \in 1 .. Len(mounts) : mounts[j] \in T
  BY <1>3
<1>5. mounts \in [1 .. Len(mounts) -> AllMounts]
  BY <1>2, <1>3
<1>6. mounts \in Seq(AllMounts)
  <2> HIDE DEF AllMounts
  <2> QED
    BY <1>3, <1>5
<1> QED
  BY <1>1, <1>4, <1>6

\* What a mount makes of a disk d, if it was measured.
SampledWell(e, d, measured, id) ==
    /\ e \in Disk
    /\ e.key = d.key
    /\ Falling(d.samples, id) => Falling(e.samples, id)
    /\ measured => /\ e.active = TRUE
                   /\ \A c \in Nat : InFront(d.samples, id, Room(c)) =>
                         InFront(e.samples, id, Room(c + 1))
    /\ ~measured => e = d

\* A sample is put in front of a disk's.
LEMMA SampledInFront ==
  ASSUME NEW d \in Disk, NEW mount, mount.sizes \in BOOLEAN, NEW id \in Nat
  PROVE  SampledWell(Sampled(d, mount, id), d, mount.sizes, id)
<1>1. CASE ~mount.sizes
  BY <1>1 DEF Sampled, SampledWell
<1>2. CASE mount.sizes
  <2> DEFINE s == d.samples
             N == Len(s)
             M == IF N < DiskSize THEN N + 1 ELSE DiskSize
             t == SubSeq(<<id>> \o s, 1, M)
  <2>1. Sampled(d, mount, id) = [d EXCEPT !.active = TRUE, !.samples = t]
    BY <1>2 DEF Sampled
  <2>2. s \in Seq(Nat)
    BY DEF Disk
  <2> HIDE DEF s
  <2>3. N \in Nat /\ M \in Nat /\ 1 <= M /\ M <= N + 1 /\ DiskSize \in Nat \ {0}
    BY <2>2, DisksAssumption
  <2>4. /\ <<id>> \o s \in Seq(Nat) /\ Len(<<id>> \o s) = N + 1
        /\ (<<id>> \o s)[1] = id
        /\ \A j \in 2 .. N + 1 : (<<id>> \o s)[j] = s[j - 1]
    <3>1. <<id>> \in Seq(Nat) /\ Len(<<id>>) = 1 /\ <<id>>[1] = id
      OBVIOUS
    <3>2. /\ <<id>> \o s \in Seq(Nat) /\ Len(<<id>> \o s) = 1 + N
          /\ \A i \in 1 .. 1 + N : (<<id>> \o s)[i] = IF i <= 1 THEN <<id>>[i] ELSE s[i - 1]
      BY <2>2, <3>1, ConcatProperties, SMTT(30)
    <3> QED
      BY <2>3, <3>1, <3>2
  <2> DEFINE u == <<id>> \o s
  <2> HIDE DEF u
  <2>5. /\ t \in Seq(Nat) /\ Len(t) = M
        /\ \A j \in 1 .. M : t[j] = u[j]
    BY <2>3, <2>4, SubSeqProperties DEF u
  <2>6. t[1] = id /\ \A j \in 2 .. M : t[j] = s[j - 1] /\ j - 1 \in 1 .. N
    BY <2>3, <2>4, <2>5 DEF u
  <2> HIDE DEF t
  <2>7. /\ [d EXCEPT !.active = TRUE, !.samples = t] \in Disk
        /\ [d EXCEPT !.active = TRUE, !.samples = t].key = d.key
        /\ [d EXCEPT !.active = TRUE, !.samples = t].active = TRUE
        /\ [d EXCEPT !.active = TRUE, !.samples = t].samples = t
    BY <2>5 DEF Disk
  <2>8. ASSUME Falling(s, id) PROVE Falling(t, id)
    <3>1. \A j \in 1 .. N : s[j] <= id
      BY <2>8 DEF Falling
    <3>2. \A j, k \in 1 .. N : j < k => s[j] >= s[k]
      BY <2>8 DEF Falling
    <3>3. \A j \in 1 .. M : j = 1 \/ j \in 2 .. M
      BY <2>3
    <3>4. \A j \in 1 .. M : t[j] <= id
      BY <2>6, <3>1, <3>3
    <3>5. ASSUME NEW j \in 1 .. M, NEW k \in 1 .. M, j < k PROVE t[j] >= t[k]
      <4>1. k \in 2 .. M
        BY <3>5
      <4>2. CASE j = 1
        BY <2>6, <3>4, <4>2, <2>5
      <4>3. CASE j \in 2 .. M
        <5>1. j - 1 < k - 1
          BY <3>5
        <5> QED
          BY <2>6, <3>2, <4>1, <4>3, <5>1
      <4> QED
        BY <3>3, <4>2, <4>3
    <3> QED
      BY <2>5, <3>4, <3>5 DEF Falling
  <2>9. ASSUME NEW c \in Nat, InFront(s, id, Room(c)) PROVE InFront(t, id, Room(c + 1))
    <3> DEFINE a == Room(c)
               b == Room(c + 1)
    <3>1. /\ a \in Nat /\ b \in Nat /\ 1 <= b
          /\ b = IF a < DiskSize THEN a + 1 ELSE DiskSize
          /\ a <= DiskSize
      BY <2>3 DEF Room
    <3>2. a <= N /\ \A j \in 1 .. N : s[j] = id <=> j <= a
      BY <2>9 DEF InFront
    <3> HIDE DEF a, b
    <3>3. b <= M
      BY <2>3, <3>1, <3>2
    <3>4. ASSUME NEW j \in 1 .. M PROVE t[j] = id <=> j <= b
      <4>1. CASE j = 1
        BY <2>6, <3>1, <4>1
      <4>2. CASE j \in 2 .. M
        <5>1. t[j] = s[j - 1] /\ j - 1 \in 1 .. N
          BY <2>6, <4>2
        <5>2. t[j] = id <=> j - 1 <= a
          BY <3>2, <5>1
        <5>3. j - 1 <= a <=> j <= b
          BY <2>3, <3>1, <4>2
        <5> QED
          BY <5>2, <5>3
      <4> QED
        BY <2>3, <4>1, <4>2
    <3> QED
      BY <2>5, <3>3, <3>4 DEF InFront, b
  <2> QED
    BY <1>2, <2>1, <2>7, <2>8, <2>9 DEF s, SampledWell
<1> QED
  BY <1>1, <1>2

\* One mount more is measured, or not.
LEMMA OneMountMore ==
  ASSUME NEW mounts, NEW n \in Nat, NEW key
  PROVE  /\ IsFiniteSet(MeasuredOf(mounts, key, n))
         /\ Cardinality(MeasuredOf(mounts, key, n)) \in Nat
         /\ mounts[n + 1].name # key \/ ShouldIgnoreType(mounts[n + 1]) \/ ~mounts[n + 1].sizes =>
               MeasuredOf(mounts, key, n + 1) = MeasuredOf(mounts, key, n)
         /\ mounts[n + 1].name = key /\ ~ShouldIgnoreType(mounts[n + 1]) /\ mounts[n + 1].sizes =>
               /\ MeasuredOf(mounts, key, n + 1) # {}
               /\ Cardinality(MeasuredOf(mounts, key, n + 1))
                     = Cardinality(MeasuredOf(mounts, key, n)) + 1
<1> DEFINE P(j) == mounts[j].name = key /\ ~ShouldIgnoreType(mounts[j]) /\ mounts[j].sizes
           A == MeasuredOf(mounts, key, n)
           B == MeasuredOf(mounts, key, n + 1)
<1>1. A = {j \in 1 .. n : P(j)} /\ B = {j \in 1 .. n + 1 : P(j)}
  BY DEF MeasuredOf
<1>2. IsFiniteSet(A) /\ Cardinality(A) \in Nat
  <2>1. IsFiniteSet(1 .. n) /\ A \subseteq 1 .. n
    BY <1>1, FS_Interval
  <2> QED
    BY <2>1, FS_Subset, FS_CardinalityType
<1>3. n + 1 \notin A /\ 1 .. n + 1 = (1 .. n) \cup {n + 1}
  BY <1>1
<1>4. ~P(n + 1) => B = A
  <2> HIDE DEF P
  <2> QED
    BY <1>1, <1>3
<1>5. P(n + 1) => B = A \cup {n + 1}
  <2> HIDE DEF P
  <2> QED
    BY <1>1, <1>3
<1> HIDE DEF A, B
<1>6. P(n + 1) => B # {} /\ Cardinality(B) = Cardinality(A) + 1
  BY <1>2, <1>3, <1>5, FS_AddElement
<1> QED
  BY <1>2, <1>4, <1>6 DEF A, B

-----------------------------------------------------------------------------
\* The disks one mount later.
LEMMA OneMountLater ==
  ASSUME NEW mounts \in Tables, NEW from \in Seq(Disk), NEW ready \in BOOLEAN, NEW id \in Nat,
         NEW garbage \in BOOLEAN, NEW n \in Nat, n + 1 <= Len(mounts),
         NEW list, ListAfter(list, from, mounts, ready, id, n)
  PROVE  ListAfter(ProcessDisk(list, mounts[n + 1], ready, id, garbage), from, mounts, ready, id,
                   n + 1)
<1> DEFINE m == mounts[n + 1]
           known == Known(list, m.name)
           new == NewDisk(m, garbage)
           all == IF known THEN list ELSE <<new>> \o list
           done(d) == IF d.key # m.name THEN d
                      ELSE IF ready THEN Sampled(d, m, id) ELSE [d EXCEPT !.active = TRUE]
           after == [i \in DOMAIN all |-> done(all[i])]
           result == ProcessDisk(list, m, ready, id, garbage)
           ignored == ShouldIgnoreType(m) \/ (~known /\ ShouldIgnoreMount(m))
<1>1. result = IF ignored THEN list ELSE after
  BY DEF ProcessDisk
<1>2. /\ list \in Seq(Disk) /\ Len(list) \in Nat /\ DOMAIN list = 1 .. Len(list)
      /\ \A i \in 1 .. Len(list) : list[i] \in Disk
  BY DEF ListAfter
<1>3. /\ KeysOnce(list)
      /\ \A i \in 1 .. Len(from) : Known(list, from[i].key)
      /\ \A j \in 1 .. n : ~ShouldIgnoreType(mounts[j]) /\ ~ShouldIgnoreMount(mounts[j]) =>
                              Known(list, mounts[j].name)
      /\ \A i \in 1 .. Len(list) :
            /\ Falling(list[i].samples, id)
            /\ ready /\ Known(from, list[i].key) => Sampling(list[i], mounts, id, n)
  BY DEF ListAfter
<1>4. m \in AllMounts /\ m.sizes \in BOOLEAN
  BY MountsAre
<1>5. \A j \in 1 .. n + 1 : j \in 1 .. n \/ j = n + 1
  OBVIOUS
<1>6. \A d : d.key # m.name \/ ShouldIgnoreType(m) =>
         (Sampling(d, mounts, id, n) => Sampling(d, mounts, id, n + 1))
  BY OneMountMore DEF Sampling
<1>7. CASE ignored
  <2>1. ~ShouldIgnoreType(m) /\ ~ShouldIgnoreMount(m) => Known(list, m.name)
    BY <1>7
  <2>2. \A i \in 1 .. Len(list) : list[i].key # m.name \/ ShouldIgnoreType(m)
    BY <1>2, <1>7 DEF Known
  <2>3. \A i \in 1 .. Len(list) :
           ready /\ Known(from, list[i].key) => Sampling(list[i], mounts, id, n + 1)
    BY <1>3, <1>6, <2>2
  <2>4. \A j \in 1 .. n + 1 : ~ShouldIgnoreType(mounts[j]) /\ ~ShouldIgnoreMount(mounts[j]) =>
                                 Known(list, mounts[j].name)
    BY <1>3, <1>5, <2>1
  <2>5. ListAfter(list, from, mounts, ready, id, n + 1)
    BY <1>2, <1>3, <2>3, <2>4 DEF ListAfter
  <2> QED
    BY <1>1, <1>7, <2>5
<1>8. CASE ~ignored
  <2>1. /\ new \in Disk /\ new.key = m.name /\ new.samples = <<>>
    BY <1>4 DEF NewDisk, Disk
  <2> HIDE DEF new
  <2>2. /\ all \in Seq(Disk) /\ Len(all) \in Nat /\ DOMAIN all = 1 .. Len(all)
        /\ KeysOnce(all)
        /\ \A i \in 1 .. Len(list) : \E k \in 1 .. Len(all) : all[k] = list[i]
        /\ \E k \in 1 .. Len(all) : all[k].key = m.name
        /\ \A k \in 1 .. Len(all) : \/ \E i \in 1 .. Len(list) : all[k] = list[i]
                                    \/ ~known /\ all[k] = new
    <3>1. CASE known
      <4>1. PICK k \in 1 .. Len(list) : list[k].key = m.name
        BY <1>2, <3>1 DEF Known
      <4> QED
        BY <1>2, <1>3, <3>1, <4>1
    <3>2. CASE ~known
      <4> DEFINE N == Len(list)
                 t == <<new>> \o list
      <4>1. /\ t \in Seq(Disk) /\ Len(t) = N + 1 /\ t[1] = new
            /\ \A j \in 2 .. N + 1 : t[j] = list[j - 1]
        <5>1. <<new>> \in Seq(Disk) /\ Len(<<new>>) = 1 /\ <<new>>[1] = new
          BY <2>1
        <5>2. /\ t \in Seq(Disk) /\ Len(t) = 1 + N
              /\ \A i \in 1 .. 1 + N : t[i] = IF i <= 1 THEN <<new>>[i] ELSE list[i - 1]
          BY <1>2, <5>1, ConcatProperties, SMTT(30)
        <5> QED
          BY <1>2, <5>1, <5>2
      <4>2. N \in Nat /\ all = t /\ DOMAIN t = 1 .. N + 1
        BY <1>2, <3>2, <4>1
      <4> HIDE DEF t, all
      <4>3. \A i \in 1 .. N : list[i].key # m.name
        BY <1>2, <3>2 DEF Known
      <4>4. KeysOnce(t)
        <5> SUFFICES ASSUME NEW i \in 1 .. N + 1, NEW j \in 1 .. N + 1, t[i].key = t[j].key
                     PROVE  i = j
          BY <4>1 DEF KeysOnce
        <5>1. \A k \in 1 .. N + 1 : k = 1 \/ (k \in 2 .. N + 1 /\ k - 1 \in 1 .. N)
          BY <4>2
        <5>2. CASE i = 1 \/ j = 1
          BY <2>1, <4>1, <4>3, <5>1, <5>2
        <5>3. CASE i # 1 /\ j # 1
          <6>1. list[i - 1].key = list[j - 1].key /\ i - 1 \in 1 .. N /\ j - 1 \in 1 .. N
            BY <4>1, <5>1, <5>3
          <6>2. i - 1 = j - 1
            BY <1>3, <6>1 DEF KeysOnce
          <6> QED
            BY <6>2
        <5> QED
          BY <5>2, <5>3
      <4>5. \A i \in 1 .. N : t[i + 1] = list[i] /\ i + 1 \in 1 .. N + 1
        BY <4>1, <4>2
      <4>6. \A k \in 1 .. N + 1 : t[k] = new \/ \E i \in 1 .. N : t[k] = list[i]
        <5>1. \A k \in 1 .. N + 1 : k = 1 \/ (k \in 2 .. N + 1 /\ k - 1 \in 1 .. N)
          BY <4>2
        <5> QED
          BY <4>1, <5>1
      <4>7. 1 \in 1 .. N + 1 /\ N + 1 \in Nat
        BY <4>2
      <4> QED
        BY <2>1, <3>2, <4>1, <4>2, <4>4, <4>5, <4>6, <4>7
    <3> QED
      BY <3>1, <3>2
  <2> HIDE DEF all
  <2>3. ASSUME NEW d \in Disk
        PROVE  /\ done(d) \in Disk
               /\ done(d).key = d.key
               /\ Falling(d.samples, id) => Falling(done(d).samples, id)
               /\ ready /\ Sampling(d, mounts, id, n) => Sampling(done(d), mounts, id, n + 1)
    <3>1. CASE d.key # m.name
      BY <1>6, <3>1
    <3>2. CASE d.key = m.name /\ ~ready
      <4>1. done(d) = [d EXCEPT !.active = TRUE]
        BY <3>2
      <4>2. /\ [d EXCEPT !.active = TRUE] \in Disk
            /\ [d EXCEPT !.active = TRUE].key = d.key
            /\ [d EXCEPT !.active = TRUE].samples = d.samples
        BY DEF Disk
      <4> QED
        BY <3>2, <4>1, <4>2
    <3>3. CASE d.key = m.name /\ ready
      <4> DEFINE e == Sampled(d, m, id)
                 A == MeasuredOf(mounts, d.key, n)
                 B == MeasuredOf(mounts, d.key, n + 1)
      <4>1. done(d) = e
        BY <3>3
      <4>2. SampledWell(e, d, m.sizes, id)
        BY <1>4, SampledInFront
      <4>3. /\ e \in Disk /\ e.key = d.key
            /\ Falling(d.samples, id) => Falling(e.samples, id)
            /\ m.sizes => /\ e.active = TRUE
                          /\ \A c \in Nat : InFront(d.samples, id, Room(c)) =>
                                 InFront(e.samples, id, Room(c + 1))
            /\ ~m.sizes => e = d
        BY <4>2 DEF SampledWell
      <4>4. ASSUME Sampling(d, mounts, id, n) PROVE Sampling(e, mounts, id, n + 1)
        <5>1. d.active = (A # {}) /\ InFront(d.samples, id, Room(Cardinality(A)))
          BY <4>4 DEF Sampling
        <5>2. /\ Cardinality(A) \in Nat
              /\ ~m.sizes => B = A
              /\ m.sizes => B # {} /\ Cardinality(B) = Cardinality(A) + 1
          BY <1>8, <3>3, OneMountMore
        <5> HIDE DEF e, A, B, m
        <5>3. e.active = (B # {}) /\ InFront(e.samples, id, Room(Cardinality(B)))
          <6>1. CASE m.sizes
            <7>1. InFront(e.samples, id, Room(Cardinality(A) + 1))
              BY <4>3, <5>1, <5>2, <6>1
            <7>2. e.active = TRUE /\ B # {} /\ Cardinality(B) = Cardinality(A) + 1
              BY <4>3, <5>2, <6>1
            <7> QED
              BY <7>1, <7>2
          <6>2. CASE ~m.sizes
            <7>1. e = d /\ B = A
              BY <4>3, <5>2, <6>2
            <7> QED
              BY <5>1, <7>1
          <6> QED
            BY <6>1, <6>2
        <5> QED
          BY <4>3, <5>3 DEF Sampling, B
      <4> QED
        BY <4>1, <4>3, <4>4
    <3> QED
      BY <3>1, <3>2, <3>3
  <2> HIDE DEF done
  <2>4. /\ after \in Seq(Disk) /\ Len(after) = Len(all)
        /\ \A k \in 1 .. Len(all) : after[k] = done(all[k]) /\ after[k].key = all[k].key
                                    /\ all[k] \in Disk
    <3>1. \A k \in 1 .. Len(all) : all[k] \in Disk
      BY <2>2
    <3>2. after \in [1 .. Len(all) -> Disk]
      BY <2>2, <2>3, <3>1
    <3> QED
      BY <2>2, <2>3, <3>1, <3>2
  <2> HIDE DEF after
  <2>5. \A key : Known(list, key) \/ key = m.name => Known(after, key)
    <3>1. DOMAIN after = 1 .. Len(all)
      BY <2>4
    <3>2. ASSUME NEW key, NEW k \in 1 .. Len(all), all[k].key = key PROVE Known(after, key)
      BY <2>4, <3>1, <3>2 DEF Known
    <3>3. Known(after, m.name)
      BY <2>2, <3>2
    <3>4. ASSUME NEW key, Known(list, key) PROVE Known(after, key)
      <4>1. PICK i \in 1 .. Len(list) : list[i].key = key
        BY <1>2, <3>4 DEF Known
      <4>2. PICK k \in 1 .. Len(all) : all[k] = list[i]
        BY <2>2
      <4> QED
        BY <3>2, <4>1, <4>2
    <3> QED
      BY <3>3, <3>4
  <2>6. KeysOnce(after)
    BY <2>2, <2>4 DEF KeysOnce
  <2>7. ASSUME NEW k \in 1 .. Len(after)
        PROVE  /\ Falling(after[k].samples, id)
               /\ ready /\ Known(from, after[k].key) => Sampling(after[k], mounts, id, n + 1)
    <3>1. after[k] = done(all[k]) /\ after[k].key = all[k].key /\ all[k] \in Disk
      BY <2>4
    <3>2. CASE \E i \in 1 .. Len(list) : all[k] = list[i]
      BY <1>3, <2>3, <3>1, <3>2
    <3>3. CASE ~known /\ all[k] = new
      <4>1. Falling(<<>>, id)
        BY DEF Falling
      <4>2. ~Known(from, m.name)
        <5>1. DOMAIN from = 1 .. Len(from)
          OBVIOUS
        <5> QED
          BY <1>3, <3>3, <5>1 DEF Known
      <4>3. all[k].key = m.name /\ all[k].samples = <<>>
        BY <2>1, <3>3
      <4> QED
        BY <2>3, <3>1, <4>1, <4>2, <4>3
    <3> QED
      BY <2>2, <2>4, <3>2, <3>3
  <2>8. \A j \in 1 .. n + 1 : ~ShouldIgnoreType(mounts[j]) /\ ~ShouldIgnoreMount(mounts[j]) =>
                                 Known(after, mounts[j].name)
    BY <1>3, <1>5, <2>5
  <2>9. \A i \in 1 .. Len(from) : Known(after, from[i].key)
    BY <1>3, <2>5
  <2>10. ListAfter(after, from, mounts, ready, id, n + 1)
    BY <2>4, <2>6, <2>7, <2>8, <2>9 DEF ListAfter
  <2> QED
    BY <1>1, <1>8, <2>10
<1> QED
  BY <1>7, <1>8


-----------------------------------------------------------------------------
\* After no mount the disks are as prepareUpdate left them.
LEMMA NoMountYet ==
  ASSUME NEW mounts, NEW from \in Seq(Disk), NEW ready \in BOOLEAN, NEW id \in Nat, KeysOnce(from),
         \A i \in 1 .. Len(from) : Falling(from[i].samples, id),
         ready => \A i \in 1 .. Len(from) : /\ from[i].active = FALSE
                                            /\ \A j \in 1 .. Len(from[i].samples) :
                                                  from[i].samples[j] < id
  PROVE  ListAfter(from, from, mounts, ready, id, 0)
<1>1. \A key : MeasuredOf(mounts, key, 0) = {}
  BY DEF MeasuredOf
<1>2. Cardinality({}) = 0 /\ Room(0) = 0
  BY DisksAssumption, FS_EmptySet DEF Room
<1>3. \A i \in 1 .. Len(from) : Known(from, from[i].key)
  BY DEF Known
<1>4. ASSUME ready, NEW i \in 1 .. Len(from) PROVE Sampling(from[i], mounts, id, 0)
  <2>1. from[i] \in Disk
    OBVIOUS
  <2>2. from[i].samples \in Seq(Nat)
    BY <2>1 DEF Disk
  <2>3. InFront(from[i].samples, id, 0)
    <3> DEFINE s == from[i].samples
    <3>1. \A j \in 1 .. Len(s) : s[j] < id /\ s[j] \in Nat
      BY <1>4, <2>2
    <3> HIDE DEF s
    <3>2. \A j \in 1 .. Len(s) : s[j] # id /\ ~(j <= 0)
      BY <3>1
    <3>3. 0 <= Len(s)
      BY <2>2 DEF s
    <3>4. InFront(s, id, 0)
      BY <3>2, <3>3 DEF InFront
    <3> QED
      BY <3>4 DEF s
  <2>4. from[i].active = FALSE
    BY <1>4
  <2> QED
    BY <1>1, <1>2, <2>3, <2>4 DEF Sampling
<1> QED
  BY <1>3, <1>4 DEF ListAfter

\* All the mounts, one after the other.
LEMMA AllMountsLater ==
  ASSUME NEW mounts \in Tables, NEW from \in Seq(Disk), NEW ready \in BOOLEAN, NEW id \in Nat,
         NEW garbage \in BOOLEAN, ListAfter(from, from, mounts, ready, id, 0)
  PROVE  ListAfter(ProcessDisks(from, mounts, ready, id, garbage), from, mounts, ready, id,
                   Len(mounts))
<1> DEFINE V == Seq(Disk)
           N == Len(mounts)
           F == [x \in Nat \X V |->
                   IF /\ x[1] \in 1 .. N
                      /\ ProcessDisk(x[2], mounts[x[1]], ready, id, garbage) \in V
                   THEN ProcessDisk(x[2], mounts[x[1]], ready, id, garbage) ELSE from]
           All(f) == f = [n \in 0 .. N |->
                            IF n = 0 THEN from
                            ELSE ProcessDisk(f[n - 1], mounts[n], ready, id, garbage)]
           after == CHOOSE f : All(f)
<1>1. N \in Nat /\ from \in V
  BY MountsAre
<1> HIDE DEF V
<1>2. F \in [Nat \X V -> V]
  BY <1>1
<1>3. \A n \in Nat, q \in V :
         n \in 1 .. N /\ ProcessDisk(q, mounts[n], ready, id, garbage) \in V =>
            F[<<n, q>>] = ProcessDisk(q, mounts[n], ready, id, garbage)
  OBVIOUS
<1> HIDE DEF F
<1>4. PICK g : Goes(g, V, from, F, N)
  BY <1>1, <1>2, Recursion
<1>5. /\ g \in [0 .. N -> V] /\ g[0] = from
      /\ \A n \in 1 .. N : g[n] = F[<<n, g[n - 1]>>]
  BY <1>4 DEF Goes
<1> DEFINE Right == {n \in Nat : n <= N => /\ ListAfter(g[n], from, mounts, ready, id, n)
                                           /\ n # 0 => g[n] = ProcessDisk(g[n - 1], mounts[n],
                                                                         ready, id, garbage)}
<1>6. \A n \in Nat : n \in Right
  <2>1. 0 \in Right
    BY <1>5
  <2>2. ASSUME NEW n \in Nat, n \in Right PROVE n + 1 \in Right
    <3> SUFFICES ASSUME n + 1 <= N
                 PROVE  /\ ListAfter(g[n + 1], from, mounts, ready, id, n + 1)
                        /\ g[n + 1] = ProcessDisk(g[n], mounts[n + 1], ready, id, garbage)
      OBVIOUS
    <3> DEFINE next == ProcessDisk(g[n], mounts[n + 1], ready, id, garbage)
    <3>1. n + 1 \in 1 .. N /\ (n + 1) - 1 = n /\ n \in 0 .. N /\ n + 1 \in Nat
      BY <1>1
    <3>2. ListAfter(g[n], from, mounts, ready, id, n)
      BY <2>2, <3>1
    <3>3. ListAfter(next, from, mounts, ready, id, n + 1)
      BY <3>2, OneMountLater
    <3>4. next \in V /\ g[n] \in V
      BY <1>5, <3>1, <3>3 DEF ListAfter, V
    <3>5. g[n + 1] = F[<<n + 1, g[n]>>]
      BY <1>5, <3>1
    <3>6. F[<<n + 1, g[n]>>] = next
      BY <1>3, <3>1, <3>4
    <3> QED
      BY <3>3, <3>5, <3>6
  <2> HIDE DEF Right
  <2> QED
    BY <2>1, <2>2, NatSetInduction
<1>7. \A n \in 1 .. N : g[n] = ProcessDisk(g[n - 1], mounts[n], ready, id, garbage)
  BY <1>1, <1>6
<1>8. All(g)
  <2>1. \A n \in 0 .. N :
           g[n] = IF n = 0 THEN from ELSE ProcessDisk(g[n - 1], mounts[n], ready, id, garbage)
    BY <1>1, <1>5, <1>7
  <2> QED
    BY <1>5, <2>1
<1>9. All(after)
  BY <1>8
<1>10. ProcessDisks(from, mounts, ready, id, garbage) = after[N]
  BY Zenon DEF ProcessDisks
<1> HIDE DEF after
<1>11. Agrees(after, g, N)
  <2>1. /\ after[0] = from
        /\ \A n \in 1 .. N : after[n] = ProcessDisk(after[n - 1], mounts[n], ready, id, garbage)
    BY <1>1, <1>9
  <2> DEFINE Same == {n \in Nat : n <= N => after[n] = g[n]}
  <2>2. 0 \in Same
    BY <1>5, <2>1
  <2>3. ASSUME NEW n \in Nat, n \in Same PROVE n + 1 \in Same
    <3> SUFFICES ASSUME n + 1 <= N PROVE after[n + 1] = g[n + 1]
      OBVIOUS
    <3>1. n + 1 \in 1 .. N /\ (n + 1) - 1 = n /\ after[n] = g[n]
      BY <1>1, <2>3
    <3> QED
      BY <1>7, <2>1, <3>1
  <2> HIDE DEF Same
  <2>4. \A n \in Nat : n \in Same
    BY <2>2, <2>3, NatSetInduction
  <2> QED
    BY <1>1, <2>4 DEF Same, Agrees
<1>12. N \in 0 .. N /\ N \in Nat /\ N <= N
  BY <1>1
<1>13. ListAfter(g[N], from, mounts, ready, id, N)
  BY <1>6, <1>12
<1> QED
  BY <1>10, <1>11, <1>12, <1>13 DEF Agrees

-----------------------------------------------------------------------------
\* There are no disks when the server starts.
LEMMA DisksInit == InitDisks => DisksInv
<1> SUFFICES ASSUME InitDisks PROVE DisksInv
  OBVIOUS
<1>1. diskUpdates = 0 /\ diskReady = FALSE /\ disks = <<>>
  BY DEF InitDisks
<1>2. <<>> \in Seq(Disk) /\ Len(<<>>) = 0
  BY EmptySeq
<1>3. disks \in Seq(Disk) /\ Len(disks) = 0
  BY <1>1, <1>2
<1>4. \A i \in 1 .. Len(disks) : FALSE
  BY <1>3
<1>5. KeysOnce(disks) /\ \A i \in 1 .. Len(disks) : Falling(disks[i].samples, diskUpdates)
  BY <1>4 DEF KeysOnce
<1> QED
  BY <1>1, <1>3, <1>5 DEF DisksInv

\* The mounts an update goes through, none when the table does not open.
Opened(mounts, opens) == IF opens THEN mounts ELSE <<>>

\* What an update makes of the disks, from what prepareUpdate left.
LEMMA DisksLater ==
  ASSUME DisksInv, NEW mounts \in Tables, NEW opens \in BOOLEAN, NEW garbage \in BOOLEAN,
         UpdateDisks(mounts, opens, garbage)
  PROVE  /\ diskUpdates' = IF diskReady THEN diskUpdates + 1 ELSE diskUpdates
         /\ \E from \in Seq(Disk) :
               /\ Len(from) = Len(disks)
               /\ \A i \in 1 .. Len(from) : from[i].key = disks[i].key
               /\ ListAfter(disks', from, table', diskReady, diskUpdates', Len(table'))
<1> DEFINE passed == Opened(mounts, opens)
           id == IF diskReady THEN diskUpdates + 1 ELSE diskUpdates
           from == IF diskReady THEN PreparedDisks(disks) ELSE disks
<1>1. /\ diskUpdates' = id /\ table' = passed
      /\ disks' = ProcessDisks(from, passed, diskReady, id, garbage)
  BY DEF UpdateDisks, Opened
<1>2. /\ diskUpdates \in Nat /\ id \in Nat /\ diskReady \in BOOLEAN
      /\ disks \in Seq(Disk) /\ KeysOnce(disks)
      /\ \A i \in 1 .. Len(disks) : Falling(disks[i].samples, diskUpdates)
  BY DEF DisksInv
<1>3. diskReady => diskUpdates < id
  BY <1>2
<1> HIDE DEF id
<1>4. \A i \in 1 .. Len(disks) : disks[i] \in Disk
  BY <1>2
<1>5. /\ from \in Seq(Disk) /\ Len(from) = Len(disks)
      /\ \A i \in 1 .. Len(from) : /\ from[i].key = disks[i].key
                                   /\ from[i].samples = disks[i].samples
                                   /\ diskReady => from[i].active = FALSE
  <2>1. CASE ~diskReady
    BY <1>2, <2>1
  <2>2. CASE diskReady
    <3> DEFINE p == PreparedDisks(disks)
    <3>1. /\ DOMAIN disks = 1 .. Len(disks) /\ Len(disks) \in Nat
      BY <1>2
    <3>2. p = [i \in 1 .. Len(disks) |-> [disks[i] EXCEPT !.active = FALSE]]
      BY <3>1 DEF PreparedDisks
    <3> HIDE DEF p
    <3>3. ASSUME NEW d \in Disk
          PROVE  /\ [d EXCEPT !.active = FALSE] \in Disk
                 /\ [d EXCEPT !.active = FALSE].key = d.key
                 /\ [d EXCEPT !.active = FALSE].samples = d.samples
                 /\ [d EXCEPT !.active = FALSE].active = FALSE
      BY DEF Disk
    <3>4. \A i \in 1 .. Len(disks) : p[i] = [disks[i] EXCEPT !.active = FALSE] /\ p[i] \in Disk
      BY <1>4, <3>2, <3>3
    <3>5. p \in [1 .. Len(disks) -> Disk]
      BY <3>2, <3>4
    <3>6. p \in Seq(Disk) /\ Len(p) = Len(disks)
      BY <3>1, <3>5
    <3>7. from = p
      BY <2>2 DEF p
    <3>8. \A i \in 1 .. Len(p) : /\ p[i].key = disks[i].key
                                  /\ p[i].samples = disks[i].samples
                                  /\ p[i].active = FALSE
      <4> SUFFICES ASSUME NEW i \in 1 .. Len(p)
                   PROVE  /\ p[i].key = disks[i].key
                          /\ p[i].samples = disks[i].samples
                          /\ p[i].active = FALSE
        OBVIOUS
      <4>1. disks[i] \in Disk /\ p[i] = [disks[i] EXCEPT !.active = FALSE]
        BY <1>4, <3>4, <3>6
      <4> QED
        BY <3>3, <4>1
    <3> QED
      BY <3>6, <3>7, <3>8
  <2> QED
    BY <1>2, <2>1, <2>2
<1> HIDE DEF from
<1>6. KeysOnce(from)
  BY <1>2, <1>5 DEF KeysOnce
<1>7. \A i \in 1 .. Len(disks) : disks[i].samples \in Seq(Nat)
  BY <1>4 DEF Disk
<1>8. \A i \in 1 .. Len(from) : \A j \in 1 .. Len(from[i].samples) :
         from[i].samples[j] \in Nat /\ from[i].samples[j] <= diskUpdates
  BY <1>2, <1>5, <1>7 DEF Falling
<1>9. \A i \in 1 .. Len(from) : Falling(from[i].samples, id)
  <2>1. diskUpdates <= id
    BY <1>2 DEF id
  <2>2. \A i \in 1 .. Len(from) : \A j \in 1 .. Len(from[i].samples) : from[i].samples[j] <= id
    BY <1>2, <1>8, <2>1
  <2> QED
    BY <1>2, <1>5, <2>2 DEF Falling
<1>10. diskReady => \A i \in 1 .. Len(from) :
                       /\ from[i].active = FALSE
                       /\ \A j \in 1 .. Len(from[i].samples) : from[i].samples[j] < id
  BY <1>2, <1>3, <1>5, <1>8
<1>11. \A t : ListAfter(from, from, t, diskReady, id, 0)
  BY <1>2, <1>5, <1>6, <1>9, <1>10, NoMountYet
<1>12. ListAfter(disks', from, table', diskReady, id, Len(table'))
  <2>1. CASE opens
    <3>1. passed = mounts
      BY <2>1 DEF Opened
    <3>2. ListAfter(ProcessDisks(from, mounts, diskReady, id, garbage), from, mounts, diskReady, id,
                    Len(mounts))
      BY <1>2, <1>5, <1>11, AllMountsLater
    <3> QED
      BY <1>1, <3>1, <3>2
  <2>2. CASE ~opens
    <3>1. passed = <<>> /\ Len(<<>>) = 0
      BY <2>2 DEF Opened
    <3>2. ProcessDisks(from, <<>>, diskReady, id, garbage) = from
      <4> DEFINE after == CHOOSE f : f = [n \in 0 .. Len(<<>>) |->
                             IF n = 0 THEN from
                             ELSE ProcessDisk(f[n - 1], <<>>[n], diskReady, id, garbage)]
      <4>1. ProcessDisks(from, <<>>, diskReady, id, garbage) = after[Len(<<>>)]
        BY Zenon DEF ProcessDisks
      <4>2. \E f : f = [n \in 0 .. Len(<<>>) |->
                             IF n = 0 THEN from
                             ELSE ProcessDisk(f[n - 1], <<>>[n], diskReady, id, garbage)]
        <5> DEFINE g == [n \in 0 .. 0 |-> from]
        <5>1. \A n \in 0 .. 0 : n = 0
          OBVIOUS
        <5>2. g = [n \in 0 .. 0 |->
                     IF n = 0 THEN from
                     ELSE ProcessDisk(g[n - 1], <<>>[n], diskReady, id, garbage)]
          BY <5>1
        <5> QED
          BY <3>1, <5>2
      <4>3. after = [n \in 0 .. Len(<<>>) |->
                        IF n = 0 THEN from
                        ELSE ProcessDisk(after[n - 1], <<>>[n], diskReady, id, garbage)]
        BY <4>2
      <4> HIDE DEF after
      <4>4. after[0] = from
        BY <3>1, <4>3
      <4> QED
        BY <3>1, <4>1, <4>4
    <3> QED
      BY <1>1, <1>11, <3>1, <3>2
  <2> QED
    BY <2>1, <2>2
<1> QED
  BY <1>1, <1>5, <1>12 DEF id

\* An update keeps the invariant.
LEMMA UpdateDisksKeeps ==
  ASSUME DisksInv, NEW mounts \in Tables, NEW opens \in BOOLEAN, NEW garbage \in BOOLEAN,
         UpdateDisks(mounts, opens, garbage)
  PROVE  DisksInv'
<1>1. PICK from \in Seq(Disk) :
         ListAfter(disks', from, table', diskReady, diskUpdates', Len(table'))
  BY DisksLater
<1>2. /\ diskUpdates' = IF diskReady THEN diskUpdates + 1 ELSE diskUpdates
      /\ diskReady' = TRUE /\ options' = options
  BY DisksLater DEF UpdateDisks
<1>3. diskUpdates' \in Nat
  BY <1>2 DEF DisksInv
<1>4. Disk' = Disk
  <2>1. \A m : LabelOf(m)' = LabelOf(m)
    BY <1>2 DEF LabelOf
  <2> QED
    BY <2>1 DEF Disk
<1>5. /\ disks' \in Seq(Disk) /\ KeysOnce(disks')
      /\ \A i \in 1 .. Len(disks') : Falling(disks'[i].samples, diskUpdates')
  BY <1>1 DEF ListAfter
<1> QED
  BY <1>2, <1>3, <1>4, <1>5 DEF DisksInv
\* The disks' part of a step of the collectors.
LEMMA DisksKeep == DisksInv /\ [NextDisks]_diskVars => DisksInv'
<1> SUFFICES ASSUME DisksInv, [NextDisks]_diskVars PROVE DisksInv'
  OBVIOUS
<1>1. CASE NextDisks
  BY <1>1, UpdateDisksKeeps DEF NextDisks
<1>2. CASE UNCHANGED diskVars
  <2>1. /\ options' = options /\ diskUpdates' = diskUpdates /\ diskReady' = diskReady
        /\ disks' = disks
    BY <1>2 DEF diskVars
  <2>2. Disk' = Disk
    <3>1. \A m : LabelOf(m)' = LabelOf(m)
      BY <2>1 DEF LabelOf
    <3> QED
      BY <3>1 DEF Disk
  <2> QED
    BY <2>1, <2>2 DEF DisksInv
<1> QED
  BY <1>1, <1>2

-----------------------------------------------------------------------------
\* As many samples are of the update as are in front.
LEMMA FrontIsCounted ==
  ASSUME NEW samples \in Seq(Nat), NEW id, NEW c \in Nat, InFront(samples, id, c)
  PROVE  Cardinality({j \in DOMAIN samples : samples[j] = id}) = c
<1>1. DOMAIN samples = 1 .. Len(samples) /\ Len(samples) \in Nat
  OBVIOUS
<1>2. {j \in DOMAIN samples : samples[j] = id} = 1 .. c
  BY <1>1 DEF InFront
<1>3. Cardinality(1 .. c) = c
  BY FS_Interval
<1> QED
  BY <1>2, <1>3

\* Every update of a collector that is ready.
LEMMA UpdateMounts ==
  ASSUME DisksInv, NEW mounts \in Tables, NEW opens \in BOOLEAN, NEW garbage \in BOOLEAN,
         UpdateDisks(mounts, opens, garbage), diskUpdates' # diskUpdates
  PROVE  UpdateIsMounted
<1>1. PICK from \in Seq(Disk) :
         /\ Len(from) = Len(disks)
         /\ \A i \in 1 .. Len(from) : from[i].key = disks[i].key
         /\ ListAfter(disks', from, table', diskReady, diskUpdates', Len(table'))
  BY DisksLater
<1>2. diskReady /\ diskUpdates' \in Nat
  BY DisksLater DEF DisksInv
<1>3. /\ DOMAIN disks = 1 .. Len(disks) /\ DOMAIN from = 1 .. Len(from)
  BY DEF DisksInv
<1>4. \A key : Known(from, key) <=> Known(disks, key)
  BY <1>1, <1>3 DEF Known
<1> DEFINE N == Len(table')
<1>5. N \in Nat /\ DOMAIN table' = 1 .. N
  <2>1. table' = mounts \/ table' = <<>>
    BY DEF UpdateDisks
  <2>2. mounts \in Seq(AllMounts) /\ <<>> \in Seq(AllMounts)
    BY MountsAre, EmptySeq
  <2>3. table' \in Seq(AllMounts)
    BY <2>1, <2>2
  <2> QED
    BY <2>3
<1>6. /\ disks' \in Seq(Disk)
      /\ \A i \in 1 .. Len(from) : Known(disks', from[i].key)
      /\ \A j \in 1 .. N : ~ShouldIgnoreType(table'[j]) /\ ~ShouldIgnoreMount(table'[j]) =>
                              Known(disks', table'[j].name)
      /\ \A i \in 1 .. Len(disks') :
            /\ Falling(disks'[i].samples, diskUpdates')
            /\ Known(disks, disks'[i].key) => Sampling(disks'[i], table', diskUpdates', N)
  BY <1>1, <1>2, <1>4 DEF ListAfter
<1> DEFINE Listings(key) == {i \in DOMAIN table' : /\ table'[i].name = key
                                                  /\ ~ShouldIgnoreType(table'[i])}
           Measured(key) == {i \in Listings(key) : table'[i].sizes}
<1>7. \A key : Measured(key) = MeasuredOf(table', key, N)
  BY <1>5 DEF MeasuredOf
<1>8. ASSUME NEW i \in DOMAIN disks'
      PROVE  LET d     == disks'[i]
                 ofNow == {j \in DOMAIN d.samples : d.samples[j] = diskUpdates'}
                 old   == Known(disks, d.key)
             IN  /\ \A j, k \in DOMAIN d.samples : j < k => d.samples[j] >= d.samples[k]
                 /\ old => /\ d.active <=> Measured(d.key) # {}
                           /\ Cardinality(ofNow) = IF Cardinality(Measured(d.key)) < DiskSize
                                                   THEN Cardinality(Measured(d.key))
                                                   ELSE DiskSize
  <2> DEFINE d == disks'[i]
             A == MeasuredOf(table', d.key, N)
             s == d.samples
  <2>1. i \in 1 .. Len(disks') /\ d \in Disk
    BY <1>6
  <2>2. s \in Seq(Nat) /\ d.active \in BOOLEAN
    BY <2>1 DEF Disk
  <2>3. /\ Falling(s, diskUpdates')
        /\ Known(disks, d.key) => Sampling(d, table', diskUpdates', N)
    BY <1>6, <2>1
  <2>4. Measured(d.key) = A /\ Cardinality(A) \in Nat
    BY <1>5, <1>7, OneMountMore
  <2>5. Room(Cardinality(A)) \in Nat
    BY <2>4, DisksAssumption DEF Room
  <2> HIDE DEF d, A, Measured
  <2>6. \A j, k \in DOMAIN s : j < k => s[j] >= s[k]
    <3>1. \A j, k \in 1 .. Len(s) : j < k => s[j] >= s[k]
      BY <2>3 DEF Falling
    <3>2. DOMAIN s = 1 .. Len(s)
      BY <2>2
    <3> HIDE DEF s
    <3> QED
      BY <3>1, <3>2
  <2>7. ASSUME Known(disks, d.key)
        PROVE  /\ d.active <=> A # {}
               /\ Cardinality({j \in DOMAIN s : s[j] = diskUpdates'}) = Room(Cardinality(A))
    <3>1. d.active = (A # {}) /\ InFront(s, diskUpdates', Room(Cardinality(A)))
      BY <2>3, <2>7 DEF Sampling, A
    <3> HIDE DEF s
    <3> QED
      BY <2>2, <2>5, <3>1, FrontIsCounted
  <2> QED
    BY <2>4, <2>6, <2>7 DEF Room, d
<1> HIDE DEF Measured
<1>9. \A i \in DOMAIN disks : Known(disks', disks[i].key)
  BY <1>1, <1>3, <1>6
<1>10. \A j \in DOMAIN table' : ~ShouldIgnoreType(table'[j]) /\ ~ShouldIgnoreMount(table'[j]) =>
                                   Known(disks', table'[j].name)
  BY <1>5, <1>6
<1> QED
  BY <1>8, <1>9, <1>10, Zenon DEF UpdateIsMounted, Measured

-----------------------------------------------------------------------------

\* What is known of a process.
Item == [name : {NameOf(a) : a \in Programs} \cup {Nothing}, new : BOOLEAN, exists : BOOLEAN,
         cpuTime : Nat, last : Nat, used : Nat, over : Int, threads : Nat, size : Nat]

(***************************************************************************)
(* What is told of a process is no more than it used.  Of one that could   *)
(* be read in the last update, the time of the reading is known; one that  *)
(* could not was never read, and its pid is new when it is read.           *)
(***************************************************************************)
ItemInv(p) ==
    /\ items[p] \in Item
    /\ charged[p] \in Nat /\ spent[p] \in Nat
    /\ charged[p] <= spent[p]
    /\ items[p].exists = (p \in seen)
    /\ p \in seen => /\ items[p].cpuTime = world[p].ticks
                     /\ items[p].last < clock
                     /\ items[p].new = FALSE
    /\ p \notin seen => items[p].cpuTime = 0
    /\ p \in seen \ other => /\ items[p].name = NameOf(world[p].program)
                             /\ world[p].ticks > spent[p] => charged[p] = spent[p]

ProcessesInv ==
    /\ clock \in Nat
    /\ round \in 0 .. 2
    /\ world \in [Pids -> Processes]
    /\ \A p \in Pids : world[p] # Nothing <=> p \in seen
    /\ DOMAIN items \subseteq Pids
    /\ seen \subseteq DOMAIN items
    /\ round = 0 => DOMAIN items = {}
    /\ round = 2 => DOMAIN items = seen
    /\ counts.processes \in Nat
    /\ Cardinality(DOMAIN items) <= counts.processes
    /\ \A p \in DOMAIN items : ItemInv(p)

-----------------------------------------------------------------------------
\* A process of the system.
LEMMA ProcessIs ==
  ASSUME NEW a \in Processes, a # Nothing
  PROVE  /\ a.program \in Programs /\ a.ticks \in Nat /\ a.fresh \in BOOLEAN /\ a.ends \in BOOLEAN
         /\ a.program.threads \in Nat /\ a.program.size \in Nat
<1>1. a \in [program : Programs, ticks : 0 .. MaxTicks, fresh : BOOLEAN, ends : BOOLEAN]
  BY DEF Processes
<1>2. a.program \in Programs /\ a.ticks \in Nat /\ a.fresh \in BOOLEAN /\ a.ends \in BOOLEAN
  BY <1>1, ProcessesAssumption
<1>3. \A q \in Programs : q.threads \in Nat /\ q.size \in Nat
  BY ProcessesAssumption
<1> QED
  BY <1>2, <1>3

\* A new item.
LEMMA NewIsItem ==
  /\ NewProcess \in Item
  /\ NewProcess.cpuTime = 0 /\ NewProcess.new = TRUE /\ NewProcess.exists = TRUE
  /\ NewProcess.used = 0
  BY DEF NewProcess, Item

\* What a reading makes of an item.
IsRead(e, d, a, time) ==
    /\ e \in Item
    /\ e.exists = TRUE /\ e.new = FALSE
    /\ e.name = IF d.new THEN NameOf(a.program) ELSE d.name
    /\ e.cpuTime = a.ticks
    /\ e.last = time
    /\ d.cpuTime = 0 => e.used = 0
    /\ d.cpuTime # 0 => e.used = IF time > d.last /\ a.ticks > d.cpuTime
                                 THEN a.ticks - d.cpuTime ELSE 0

\* A process is read.
LEMMA RefreshedIsRead ==
  ASSUME NEW d \in Item, NEW a \in Processes, a # Nothing, clock \in Nat
  PROVE  IsRead(Refreshed(d, a, TRUE), d, a, clock)
<1> DEFINE named == IF d.new THEN [d EXCEPT !.name = NameOf(a.program), !.new = FALSE] ELSE d
           there == [named EXCEPT !.exists = TRUE]
           e == ReadStat(there, a)
<1>1. Refreshed(d, a, TRUE) = e
  BY DEF Refreshed
<1>2. /\ a.program \in Programs /\ a.ticks \in Nat
      /\ a.program.threads \in Nat /\ a.program.size \in Nat
  BY ProcessIs
<1>3. /\ named \in Item /\ named.new = FALSE
      /\ named.name = IF d.new THEN NameOf(a.program) ELSE d.name
      /\ named.cpuTime = d.cpuTime /\ named.last = d.last
  <2>1. NameOf(a.program) \in {NameOf(q) : q \in Programs} \cup {Nothing}
    BY <1>2
  <2> DEFINE name == NameOf(a.program)
  <2> HIDE DEF name
  <2>2. name \in {NameOf(q) : q \in Programs} \cup {Nothing}
    BY <2>1 DEF name
  <2>3. CASE d.new
    BY <2>2, <2>3 DEF Item, name
  <2>4. CASE ~d.new
    BY <2>4 DEF Item
  <2> QED
    BY <2>3, <2>4
<1> HIDE DEF named
<1>4. /\ there \in Item /\ there.exists = TRUE /\ there.new = FALSE
      /\ there.name = named.name
      /\ there.cpuTime = d.cpuTime /\ there.last = d.last
  BY <1>3 DEF Item
<1> HIDE DEF there
<1> DEFINE was == IF there.cpuTime = 0 THEN a.ticks ELSE there.cpuTime
           last == IF there.cpuTime = 0 THEN clock ELSE there.last
           used == IF clock > last /\ a.ticks > was THEN a.ticks - was ELSE 0
           over == clock - last
<1>5. e = [there EXCEPT !.used = used, !.over = over, !.threads = a.program.threads,
                        !.size = a.program.size, !.cpuTime = a.ticks, !.last = clock]
  BY DEF ReadStat
<1>6. there.cpuTime \in Nat /\ there.last \in Nat
  BY <1>4 DEF Item
<1>7. used \in Nat /\ over \in Int
  BY <1>2, <1>6
<1>8. /\ there.cpuTime = 0 => used = 0
      /\ there.cpuTime # 0 => used = IF clock > there.last /\ a.ticks > there.cpuTime
                                     THEN a.ticks - there.cpuTime ELSE 0
  BY <1>2, <1>6
<1> HIDE DEF used, over, e
<1>9. /\ e \in Item
      /\ e.exists = there.exists /\ e.new = there.new /\ e.name = there.name
      /\ e.cpuTime = a.ticks /\ e.last = clock /\ e.used = used
  BY <1>2, <1>4, <1>5, <1>7 DEF Item
<1> QED
  BY <1>1, <1>3, <1>4, <1>8, <1>9 DEF IsRead

\* One that cannot be read gets a name only.
LEMMA RefreshedUnread ==
  ASSUME NEW a \in Processes, a # Nothing
  PROVE  /\ Refreshed(NewProcess, a, FALSE) \in Item
         /\ Refreshed(NewProcess, a, FALSE).exists = FALSE
         /\ Refreshed(NewProcess, a, FALSE).cpuTime = 0
         /\ Refreshed(NewProcess, a, FALSE).used = 0
<1> DEFINE name == NameOf(a.program)
           d == [NewProcess EXCEPT !.name = name, !.new = FALSE]
<1>1. name \in {NameOf(q) : q \in Programs} \cup {Nothing}
  BY ProcessIs
<1> HIDE DEF name
<1>2. d \in Item /\ d.cpuTime = 0 /\ d.used = 0
  BY <1>1, NewIsItem DEF Item
<1>3. Refreshed(NewProcess, a, FALSE) = [d EXCEPT !.exists = FALSE]
  BY NewIsItem DEF Refreshed, name
<1> HIDE DEF d
<1>4. /\ [d EXCEPT !.exists = FALSE] \in Item
      /\ [d EXCEPT !.exists = FALSE].exists = FALSE
      /\ [d EXCEPT !.exists = FALSE].cpuTime = 0
      /\ [d EXCEPT !.exists = FALSE].used = 0
  BY <1>2 DEF Item
<1> QED
  BY <1>3, <1>4

-----------------------------------------------------------------------------
\* No process is listed when the server starts.
LEMMA ProcessesInit == InitProcesses => ProcessesInv
<1> SUFFICES ASSUME InitProcesses PROVE ProcessesInv
  OBVIOUS
<1>1. /\ clock = 1 /\ round = 0 /\ world = [p \in Pids |-> Nothing] /\ seen = {}
      /\ DOMAIN items = {} /\ counts.processes = 0
  BY DEF InitProcesses
<1>2. Cardinality({}) = 0
  BY FS_EmptySet
<1>3. Nothing \in Processes
  BY DEF Processes
<1> QED
  BY <1>1, <1>2, <1>3 DEF ProcessesInv

\* An update: who is listed, and what is known of them.
LEMMA UpdateProcessesKeeps ==
  ASSUME ProcessesInv, NEW late \in 1 .. 2, NEW after \in [Pids -> Processes],
         \A p \in Pids : MayBe(p, after[p]), UpdateProcesses(after, late)
  PROVE  ProcessesInv'
<1> DEFINE there    == {p \in Pids : after[p] # Nothing}
           readable == {p \in there : ~after[p].ends}
           listed == Listed(IF round = 0 THEN items ELSE PreparedItems(items), there)
           done   == [p \in DOMAIN listed |->
                        IF p \in there THEN Refreshed(listed[p], after[p], p \in readable)
                        ELSE listed[p]]
           kept   == DOMAIN (IF round = 0 THEN done ELSE Finished(done))
           before == kept \cap DOMAIN items
           stays  == {p \in before : items[p].exists}
<1>1. /\ clock' = clock + late
      /\ round' = IF round = 0 THEN 1 ELSE 2
      /\ world' = [p \in Pids |-> IF p \in readable THEN after[p] ELSE Nothing]
      /\ items' = [p \in kept |-> done[p]]
      /\ counts'.processes = Cardinality(there)
      /\ seen' = readable
      /\ charged' = [p \in kept |-> done[p].used + IF p \in stays THEN charged[p] ELSE 0]
      /\ spent' = [p \in kept |-> IF p \in stays /\ p \in readable
                                  THEN spent[p] + Used(p, after) ELSE 0]
      /\ other' = (other \cap before)
                  \cup {p \in before : p \in there =>
                           after[p].fresh \/ after[p].program # world[p].program}
  BY DEF UpdateProcesses
<1>2. /\ clock \in Nat /\ clock' \in Nat /\ clock < clock' /\ round \in 0 .. 2
      /\ world \in [Pids -> Processes]
      /\ \A p \in Pids : world[p] # Nothing <=> p \in seen
      /\ DOMAIN items \subseteq Pids /\ seen \subseteq DOMAIN items
      /\ round = 0 => DOMAIN items = {}
      /\ \A p \in DOMAIN items : ItemInv(p)
  BY <1>1, SMTT(30) DEF ProcessesInv
<1>3. there \subseteq Pids /\ readable \subseteq there
  OBVIOUS
<1> HIDE DEF there, readable
<1>4. \A p \in there : after[p] \in Processes /\ after[p] # Nothing /\ p \in Pids
  BY <1>3 DEF there
<1> DEFINE old == IF round = 0 THEN items ELSE PreparedItems(items)
<1>5. /\ DOMAIN listed = DOMAIN items \cup there
      /\ DOMAIN done = DOMAIN items \cup there
  BY DEF Listed, PreparedItems
<1>6. \A p \in DOMAIN items \ there :
         round # 0 /\ listed[p] = [items[p] EXCEPT !.exists = FALSE]
  BY <1>2, <1>5 DEF Listed, PreparedItems
<1>7. \A p \in DOMAIN items \cap there :
         round # 0 /\ listed[p] = [items[p] EXCEPT !.exists = FALSE]
  BY <1>2, <1>5 DEF Listed, PreparedItems
<1>8. \A p \in there \ DOMAIN items : listed[p] = NewProcess
  BY <1>2, <1>5 DEF Listed, PreparedItems
<1>9. /\ \A p \in there : done[p] = Refreshed(listed[p], after[p], p \in readable)
      /\ \A p \in DOMAIN items \ there : done[p] = listed[p]
  BY <1>5
<1> HIDE DEF listed, done
<1>10. ASSUME NEW p \in readable
       PROVE  /\ p \in kept
              /\ \E d \in Item : /\ IsRead(done[p], d, after[p], clock)
                                 /\ p \in DOMAIN items => /\ d.cpuTime = items[p].cpuTime
                                                          /\ d.last = items[p].last
                                                          /\ d.new = items[p].new
                                                          /\ d.name = items[p].name
                                 /\ p \notin DOMAIN items => d.cpuTime = 0 /\ d.new = TRUE
  <2>1. p \in there /\ p \in DOMAIN done
    BY <1>3, <1>5
  <2>2. /\ listed[p] \in Item
        /\ p \in DOMAIN items => /\ listed[p].cpuTime = items[p].cpuTime
                                 /\ listed[p].last = items[p].last
                                 /\ listed[p].new = items[p].new
                                 /\ listed[p].name = items[p].name
        /\ p \notin DOMAIN items => listed[p].cpuTime = 0 /\ listed[p].new = TRUE
    <3>1. CASE p \in DOMAIN items
      <4>1. items[p] \in Item
        BY <1>2, <3>1 DEF ItemInv
      <4>2. listed[p] = [items[p] EXCEPT !.exists = FALSE]
        BY <1>7, <2>1, <3>1
      <4> DEFINE i == items[p]
                 j == listed[p]
      <4> HIDE DEF i, j
      <4>3. i \in Item /\ j = [i EXCEPT !.exists = FALSE]
        BY <4>1, <4>2 DEF i, j
      <4>4. /\ j \in Item /\ j.cpuTime = i.cpuTime /\ j.last = i.last
            /\ j.new = i.new /\ j.name = i.name
        BY <4>3 DEF Item
      <4> QED
        BY <3>1, <4>4 DEF i, j
    <3>2. CASE p \notin DOMAIN items
      BY <1>8, <2>1, <3>2, NewIsItem
    <3> QED
      BY <3>1, <3>2
  <2>3. done[p] = Refreshed(listed[p], after[p], TRUE)
    BY <1>9, <2>1
  <2>4. IsRead(done[p], listed[p], after[p], clock)
    BY <1>2, <1>4, <2>1, <2>2, <2>3, RefreshedIsRead
  <2>5. p \in kept
    BY <2>1, <2>4 DEF IsRead, Finished
  <2> QED
    BY <2>2, <2>4, <2>5
<1>11. /\ kept \subseteq DOMAIN items \cup there
       /\ round = 0 => kept = there
       /\ round # 0 => \A p \in kept : done[p].exists
  BY <1>2, <1>5 DEF Finished
<1>12. ASSUME round # 0 PROVE kept = readable
  <2>1. \A p \in kept : p \in readable
    <3> SUFFICES ASSUME NEW p \in kept, p \notin readable PROVE FALSE
      OBVIOUS
    <3>1. done[p].exists
      BY <1>11, <1>12
    <3>2. CASE p \in there
      <4>0. (p \in readable) = FALSE
        OBVIOUS
      <4>1. done[p] = Refreshed(listed[p], after[p], FALSE)
        BY <1>9, <3>2, <4>0
      <4>2. listed[p] \in Item
        <5>1. CASE p \in DOMAIN items
          <6>1. items[p] \in Item
            BY <1>2, <5>1 DEF ItemInv
          <6> QED
            BY <1>7, <3>2, <5>1, <6>1, ZenonT(30) DEF Item
        <5>2. CASE p \notin DOMAIN items
          BY <1>8, <3>2, <5>2, NewIsItem
        <5> QED
          BY <5>1, <5>2
      <4> DEFINE d == listed[p]
                 name == NameOf(after[p].program)
      <4> HIDE DEF d, name
      <4>3. done[p] = [IF d.new THEN [d EXCEPT !.name = name, !.new = FALSE] ELSE d
                          EXCEPT !.exists = FALSE]
        BY <4>1 DEF Refreshed, d, name
      <4>4. d \in Item
        BY <4>2 DEF d
      <4>5. done[p].exists = FALSE
        BY <4>3, <4>4 DEF Item
      <4> QED
        BY <3>1, <4>5
    <3>3. CASE p \notin there
      <4>1. p \in DOMAIN items /\ done[p] = [items[p] EXCEPT !.exists = FALSE]
        BY <1>6, <1>9, <1>11, <3>3
      <4>2. items[p] \in Item
        BY <1>2, <4>1 DEF ItemInv
      <4>3. done[p].exists = FALSE
        BY <4>1, <4>2 DEF Item
      <4> QED
        BY <3>1, <4>3
    <3> QED
      BY <3>2, <3>3
  <2>2. \A p \in readable : p \in kept
    BY <1>10
  <2> QED
    BY <2>1, <2>2
<1> HIDE DEF kept
<1>13. readable \subseteq kept /\ kept \subseteq there
  BY <1>3, <1>10, <1>11, <1>12
<1>14. DOMAIN items' = kept
  BY <1>1
<1>15. ASSUME NEW p \in kept PROVE ItemInv(p)'
  <2> DEFINE e == done[p]
             a == after[p]
  <2>1. items'[p] = e /\ p \in there /\ p \in Pids
    BY <1>1, <1>3, <1>13
  <2>2. a \in Processes /\ a # Nothing /\ a.ticks \in Nat /\ a.fresh \in BOOLEAN
    BY <1>4, <2>1, ProcessIs
  <2>3. charged'[p] = e.used + IF p \in stays THEN charged[p] ELSE 0
    BY <1>1
  <2>4. spent'[p] = IF p \in stays /\ p \in readable THEN spent[p] + Used(p, after) ELSE 0
    BY <1>1
  <2>5. p \in readable => world'[p] = a
    BY <1>1, <2>1
  <2> HIDE DEF e, a
  <2>6. CASE p \notin readable
    <3>1. round = 0 /\ DOMAIN items = {}
      BY <1>2, <1>12, <2>6
    <3>2. e = Refreshed(NewProcess, a, FALSE)
      <4>1. (p \in readable) = FALSE
        BY <2>6
      <4>2. done[p] = Refreshed(listed[p], after[p], FALSE)
        BY <1>9, <2>1, <4>1
      <4> QED
        BY <1>8, <2>1, <3>1, <4>2 DEF e, a
    <3>3. e \in Item /\ e.exists = FALSE /\ e.cpuTime = 0 /\ e.used = 0
      BY <2>2, <3>2, RefreshedUnread
    <3>4. p \notin stays
      BY <3>1
    <3>5. charged'[p] = 0 /\ spent'[p] = 0
      BY <2>3, <2>4, <3>3, <3>4
    <3>6. p \notin seen' /\ items'[p] = e
      BY <1>1, <2>1, <2>6
    <3>7. items'[p].exists = (p \in seen')
      <4>1. (p \in seen') = FALSE
        BY <3>6
      <4> QED
        BY <3>3, <3>6, <4>1
    <3>8. charged'[p] \in Nat /\ spent'[p] \in Nat /\ charged'[p] <= spent'[p]
      BY <3>5
    <3> QED
      BY <3>3, <3>6, <3>7, <3>8 DEF ItemInv
  <2>7. CASE p \in readable
    <3>1. PICK d \in Item : /\ IsRead(e, d, a, clock)
                            /\ p \in DOMAIN items => /\ d.cpuTime = items[p].cpuTime
                                                     /\ d.last = items[p].last
                                                     /\ d.new = items[p].new
                                                     /\ d.name = items[p].name
                            /\ p \notin DOMAIN items => d.cpuTime = 0 /\ d.new = TRUE
      BY <1>10, <2>7 DEF e, a
    <3>2. /\ e \in Item /\ e.exists = TRUE /\ e.new = FALSE
          /\ e.name = IF d.new THEN NameOf(a.program) ELSE d.name
          /\ e.cpuTime = a.ticks /\ e.last = clock
          /\ d.cpuTime = 0 => e.used = 0
          /\ d.cpuTime # 0 => e.used = IF clock > d.last /\ a.ticks > d.cpuTime
                                       THEN a.ticks - d.cpuTime ELSE 0
      BY <3>1 DEF IsRead
    <3>3. /\ items'[p].exists = (p \in seen')
          /\ items'[p].cpuTime = world'[p].ticks
          /\ items'[p].last < clock'
          /\ items'[p].new = FALSE
      BY <1>1, <1>2, <2>1, <2>5, <2>7, <3>2
    <3>4. CASE p \notin stays
      <4>1. d.cpuTime = 0
        <5>1. CASE p \in DOMAIN items
          <6>1. ItemInv(p) /\ p \in before
            BY <1>2, <5>1
          <6>2. ~items[p].exists
            BY <3>4, <6>1
          <6> QED
            BY <3>1, <5>1, <6>1, <6>2 DEF ItemInv
        <5>2. CASE p \notin DOMAIN items
          BY <3>1, <5>2
        <5> QED
          BY <5>1, <5>2
      <4>2. charged'[p] = 0 /\ spent'[p] = 0
        BY <2>3, <2>4, <3>2, <3>4, <4>1
      <4>3. ASSUME p \notin other' PROVE e.name = NameOf(a.program)
        <5>1. p \notin DOMAIN items
          <6> SUFFICES ASSUME p \in DOMAIN items PROVE FALSE
            OBVIOUS
          <6>1. p \in before /\ ItemInv(p)
            BY <1>2
          <6>2. ~items[p].exists
            BY <3>4, <6>1
          <6>3. world[p] = Nothing
            BY <1>2, <2>1, <6>1, <6>2 DEF ItemInv
          <6>4. a.fresh
            BY <2>1, <2>2, <6>3 DEF MayBe, a
          <6> QED
            BY <1>1, <4>3, <6>1, <6>4 DEF a
        <5> QED
          BY <3>1, <3>2, <5>1
      <4>4. charged'[p] \in Nat /\ spent'[p] \in Nat /\ charged'[p] <= spent'[p]
            /\ charged'[p] = spent'[p]
        BY <4>2
      <4>5. /\ p \in seen' /\ items'[p] \in Item
            /\ p \notin other' => items'[p].name = NameOf(world'[p].program)
        BY <1>1, <2>1, <2>5, <2>7, <3>2, <4>3
      <4> QED
        BY <3>3, <4>4, <4>5 DEF ItemInv
    <3>5. CASE p \in stays
      <4>1. /\ ItemInv(p) /\ items[p].exists /\ p \in DOMAIN items /\ p \in before
        BY <1>2, <3>5
      <4> DEFINE w == world[p]
      <4>2. /\ p \in seen /\ d.cpuTime = w.ticks /\ d.last < clock /\ d.new = FALSE
            /\ d.name = items[p].name
            /\ charged[p] \in Nat /\ spent[p] \in Nat /\ charged[p] <= spent[p]
        BY <3>1, <4>1 DEF ItemInv
      <4>3. w \in Processes /\ w # Nothing
        BY <1>2, <2>1, <4>2
      <4>4. w.ticks \in Nat
        BY <4>3, ProcessIs
      <4>5. ~a.fresh => a.ticks >= w.ticks
        BY <2>1, <2>2 DEF MayBe, a
      <4>6. Used(p, after) = IF a.fresh THEN a.ticks ELSE a.ticks - w.ticks
        BY DEF Used, a
      <4>7. /\ charged'[p] = e.used + charged[p]
            /\ spent'[p] = spent[p] + Used(p, after)
        BY <2>3, <2>4, <2>7, <3>5
      <4> HIDE DEF w
      <4>8. /\ e.used \in Nat /\ Used(p, after) \in Nat
            /\ e.used <= Used(p, after)
            /\ ~a.fresh /\ w.ticks # 0 => e.used = Used(p, after)
        BY <1>2, <2>2, <3>2, <4>2, <4>4, <4>5, <4>6
      <4>9. charged'[p] \in Nat /\ spent'[p] \in Nat /\ charged'[p] <= spent'[p]
        BY <4>2, <4>7, <4>8
      <4>10. ASSUME p \notin other'
             PROVE  /\ e.name = NameOf(a.program)
                    /\ a.ticks > spent'[p] => charged'[p] = spent'[p]
        <5>1. p \notin other /\ ~a.fresh /\ a.program = w.program
          BY <1>1, <2>1, <4>1, <4>10 DEF a, w
        <5>2. /\ items[p].name = NameOf(w.program)
              /\ w.ticks > spent[p] => charged[p] = spent[p]
          BY <4>1, <4>2, <5>1 DEF ItemInv, w
        <5>3. e.name = NameOf(a.program)
          BY <3>2, <4>2, <5>1, <5>2
        <5>4. ASSUME a.ticks > spent'[p] PROVE charged'[p] = spent'[p]
          <6>1. Used(p, after) = a.ticks - w.ticks
            BY <4>6, <5>1
          <6>2. w.ticks > spent[p]
            BY <2>2, <4>2, <4>4, <4>7, <5>4, <6>1
          <6>3. w.ticks # 0
            BY <4>2, <4>4, <6>2
          <6>4. e.used = Used(p, after) /\ charged[p] = spent[p]
            BY <4>8, <5>1, <5>2, <6>2, <6>3
          <6> QED
            BY <4>7, <6>4, <4>2, <4>8
        <5> QED
          BY <5>3, <5>4
      <4> QED
        BY <2>1, <2>5, <2>7, <3>2, <3>3, <4>9, <4>10 DEF ItemInv
    <3> QED
      BY <3>4, <3>5
  <2> QED
    BY <2>6, <2>7
<1>16. /\ counts'.processes \in Nat /\ Cardinality(DOMAIN items') <= counts'.processes
  <2>1. IsFiniteSet(there)
    BY <1>3, ProcessesAssumption, FS_Subset
  <2>2. Cardinality(kept) <= Cardinality(there) /\ Cardinality(there) \in Nat
    BY <1>13, <2>1, FS_Subset, FS_CardinalityType
  <2> QED
    BY <1>1, <1>14, <2>2
<1>17. /\ world' \in [Pids -> Processes]
       /\ \A p \in Pids : world'[p] # Nothing <=> p \in seen'
  <2>1. Nothing \in Processes
    BY DEF Processes
  <2> QED
    BY <1>1, <1>3, <1>4, <2>1
<1>18. /\ round' \in 0 .. 2 /\ round' # 0 /\ (round' = 2 => kept = readable)
  BY <1>1, <1>2, <1>12
<1> QED
  BY <1>1, <1>2, <1>3, <1>13, <1>14, <1>15, <1>16, <1>17, <1>18 DEF ProcessesInv

\* The processes' part of a step of the collectors.
LEMMA ProcessesKeep == ProcessesInv /\ [NextProcesses]_processVars => ProcessesInv'
<1> SUFFICES ASSUME ProcessesInv, [NextProcesses]_processVars PROVE ProcessesInv'
  OBVIOUS
<1>1. CASE NextProcesses
  BY <1>1, UpdateProcessesKeeps DEF NextProcesses
<1>2. CASE UNCHANGED processVars
  BY <1>2 DEF processVars, ProcessesInv, ItemInv
<1> QED
  BY <1>1, <1>2

-----------------------------------------------------------------------------
\* An answer is a beginning of the list, in some order.
LEMMA AnswerIsPart ==
  ASSUME NEW S, IsFiniteSet(S), NEW s \in SetToSeqs(S), NEW k \in Nat,
         k = IF Len(s) < Top THEN Len(s) ELSE Top
  PROVE  /\ IsInjective(SubSeq(s, 1, k))
         /\ ToSet(SubSeq(s, 1, k)) \subseteq S
         /\ Len(SubSeq(s, 1, k)) <= Cardinality(S)
         /\ Top >= Cardinality(S) => S \subseteq ToSet(SubSeq(s, 1, k))
<1> DEFINE n == Cardinality(S)
           t == SubSeq(s, 1, k)
<1>1. n \in Nat /\ Top \in Nat \ {0}
  BY FS_CardinalityType, ProcessesAssumption
<1>2. s \in [1 .. n -> S] /\ \A i, j \in 1 .. n : i # j => s[i] # s[j]
  BY DEF SetToSeqs
<1> HIDE DEF n
<1>3. s \in Seq(S) /\ Len(s) = n
  BY <1>1, <1>2
<1>4. k <= n /\ k \in Nat
  BY <1>1, <1>3
<1>5. t \in Seq(S) /\ Len(t) = k /\ \A i \in 1 .. k : t[i] = s[i]
  <2>1. /\ t \in Seq(S) /\ Len(t) = IF 1 <= k THEN k - 1 + 1 ELSE 0
        /\ \A i \in 1 .. k - 1 + 1 : t[i] = s[1 + i - 1]
    BY <1>1, <1>3, <1>4, SubSeqProperties
  <2> QED
    BY <1>4, <2>1
<1> HIDE DEF t
<1>6. DOMAIN t = 1 .. k
  BY <1>5
<1>7. IsInjective(t)
  <2>1. \A i \in 1 .. k : i \in 1 .. n
    BY <1>1, <1>4
  <2>2. \A i, j \in 1 .. k : t[i] = t[j] => i = j
    BY <1>2, <1>5, <2>1
  <2> QED
    BY <1>6, <2>2 DEF IsInjective
<1>8. ToSet(t) = {t[i] : i \in 1 .. k}
  BY <1>6 DEF ToSet
<1>9. ToSet(t) \subseteq S
  BY <1>2, <1>4, <1>5, <1>8
<1>10. ASSUME Top >= n PROVE S \subseteq ToSet(t)
  <2>1. k = n
    BY <1>1, <1>3, <1>10
  <2>2. s \in Injection(1 .. n, S)
    BY <1>2 DEF Injection, IsInjective
  <2>3. Cardinality(1 .. n) = n
    BY <1>1, FS_Interval
  <2>4. s \in Surjection(1 .. n, S)
    BY <2>2, <2>3, FS_Injection DEF n
  <2>5. \A x \in S : \E i \in 1 .. n : s[i] = x
    BY <2>4 DEF Surjection
  <2> QED
    BY <1>5, <1>8, <2>1, <2>5
<1> QED
  BY <1>4, <1>5, <1>7, <1>9, <1>10 DEF n, t

\* The invariant says what ProcessesAreTold does.
LEMMA ProcessesInvIsEnough == ProcessesInv => ProcessesAreTold
<1> SUFFICES ASSUME ProcessesInv PROVE ProcessesAreTold
  OBVIOUS
<1> DEFINE S == DOMAIN items
<1>1. IsFiniteSet(S) /\ Cardinality(S) \in Nat /\ Cardinality(S) <= counts.processes
      /\ counts.processes \in Nat
  BY ProcessesAssumption, FS_Subset, FS_CardinalityType DEF ProcessesInv
<1>2. seen \subseteq S /\ (round = 2 => S = seen)
  BY DEF ProcessesInv
<1>3. ASSUME NEW answer \in AnswersOfProcesses
      PROVE  /\ IsInjective(answer)
             /\ Len(answer) <= counts.processes
             /\ Top >= Cardinality(DOMAIN items) => seen \subseteq ToSet(answer)
             /\ round = 2 => ToSet(answer) \subseteq seen
  <2>1. PICK s \in SetToSeqs(S) : answer = SubSeq(s, 1, IF Len(s) < Top THEN Len(s) ELSE Top)
    BY DEF AnswersOfProcesses, Answers
  <2> DEFINE k == IF Len(s) < Top THEN Len(s) ELSE Top
  <2>2. k \in Nat
    <3>1. s \in [1 .. Cardinality(S) -> S]
      BY DEF SetToSeqs
    <3>2. Len(s) \in Nat
      BY <1>1, <3>1
    <3> QED
      BY <3>2, ProcessesAssumption
  <2> HIDE DEF S
  <2>3. /\ IsInjective(answer)
        /\ ToSet(answer) \subseteq S
        /\ Len(answer) <= Cardinality(S)
        /\ Top >= Cardinality(S) => S \subseteq ToSet(answer)
    BY <1>1, <2>1, <2>2, AnswerIsPart
  <2>4. Len(answer) \in Nat
    <3>1. s \in [1 .. Cardinality(S) -> S]
      BY DEF SetToSeqs
    <3>2. s \in Seq(S)
      BY <1>1, <3>1
    <3> HIDE DEF k
    <3>3. answer = SubSeq(s, 1, k)
      BY <2>1 DEF k
    <3> QED
      BY <3>2, <3>3, <2>2, <1>1
  <2>5. Len(answer) <= counts.processes
    BY <1>1, <2>3, <2>4
  <2> QED
    BY <1>2, <2>3, <2>5 DEF S
<1>4. ASSUME NEW p \in DOMAIN items
      PROVE  /\ 0 <= items[p].used
             /\ charged[p] <= spent[p]
             /\ p \in seen \ other => /\ items[p].name = NameOf(world[p].program)
                                      /\ world[p].ticks > spent[p] => charged[p] = spent[p]
  <2>1. ItemInv(p)
    BY DEF ProcessesInv
  <2>2. items[p].used \in Nat
    BY <2>1 DEF ItemInv, Item
  <2> QED
    BY <2>1, <2>2 DEF ItemInv
<1> QED
  BY <1>3, <1>4 DEF ProcessesAreTold

-----------------------------------------------------------------------------
(***************************************************************************)
(* The sensors.  The lists of a machine, and what is made of them, are     *)
(* lists; an update processes one reading after the other, and the changes *)
(* it queues are executed one after the other.                             *)
(***************************************************************************)
\* A list, element by element.
LEMMA ListElements ==
  ASSUME NEW s, IsList(s)
  PROVE  /\ Len(s) \in Nat /\ DOMAIN s = 1 .. Len(s)
         /\ \A i \in 1 .. Len(s) : s[i] \in ToSet(s)
         /\ \A x \in ToSet(s) : \E i \in 1 .. Len(s) : s[i] = x
  BY DEF IsList, ToSet

\* What a function from 1 .. n lists.
LEMMA ListOf ==
  ASSUME NEW n \in Nat, NEW f, f = [i \in 1 .. n |-> f[i]]
  PROVE  IsList(f) /\ Len(f) = n
<1>1. \A i \in 1 .. n : f[i] \in ToSet(f)
  BY DEF ToSet
<1> QED
  BY <1>1 DEF IsList

\* One list behind another.
LEMMA ListJoined ==
  ASSUME NEW s, NEW t, IsList(s), IsList(t)
  PROVE  IsList(s \o t) /\ ToSet(s \o t) = ToSet(s) \cup ToSet(t)
<1> DEFINE T == ToSet(s) \cup ToSet(t)
           q == s \o t
<1>1. s \in Seq(T) /\ t \in Seq(T)
  BY DEF IsList
<1>2. /\ q \in Seq(T) /\ Len(q) = Len(s) + Len(t)
      /\ \A i \in 1 .. Len(s) + Len(t) : q[i] = IF i <= Len(s) THEN s[i] ELSE t[i - Len(s)]
  BY <1>1, ConcatProperties, SMTT(30)
<1>3. /\ Len(s) \in Nat /\ DOMAIN s = 1 .. Len(s) /\ Len(t) \in Nat /\ DOMAIN t = 1 .. Len(t)
      /\ DOMAIN q = 1 .. Len(q)
  BY <1>1, <1>2
<1> HIDE DEF q
<1>4. ToSet(q) \subseteq T
  BY <1>2, <1>3 DEF ToSet
<1>5. ASSUME NEW i \in 1 .. Len(s) PROVE s[i] \in ToSet(q)
  <2>1. i \in 1 .. Len(q) /\ q[i] = s[i]
    BY <1>2, <1>3
  <2> QED
    BY <1>3, <2>1 DEF ToSet
<1>6. ASSUME NEW i \in 1 .. Len(t) PROVE t[i] \in ToSet(q)
  <2>1. Len(s) + i \in 1 .. Len(q) /\ q[Len(s) + i] = t[i]
    BY <1>2, <1>3
  <2> QED
    BY <1>3, <2>1 DEF ToSet
<1>7. T \subseteq ToSet(q)
  BY <1>3, <1>5, <1>6 DEF ToSet
<1>8. q \in Seq(ToSet(q))
  BY <1>2, <1>4, <1>7
<1> QED
  BY <1>4, <1>7, <1>8 DEF q, IsList

\* A part of a list.
LEMMA ListOnly ==
  ASSUME NEW s, IsList(s), NEW S
  PROVE  IsList(Only(s, S)) /\ ToSet(Only(s, S)) = ToSet(s) \cap S
<1> DEFINE T == ToSet(s)
           q == Only(s, S)
<1>1. s \in Seq(T)
  BY DEF IsList
<1> HIDE DEF T
<1>2. q \in Seq(T) /\ Range(q) = Range(s) \cap S
  BY <1>1, OnlyType, OnlyElements
<1>3. ToSet(q) = Range(q) /\ ToSet(s) = Range(s)
  BY DEF ToSet, Range
<1> HIDE DEF q
<1>4. q \in Seq(ToSet(q))
  BY <1>2, <1>3, SeqOfRange
<1> QED
  BY <1>2, <1>3, <1>4 DEF IsList, q

\* Lists behind one another.
LEMMA ListFlat ==
  ASSUME NEW seqs, IsList(seqs), \A i \in DOMAIN seqs : IsList(seqs[i])
  PROVE  /\ IsList(FlattenSeq(seqs))
         /\ \A x \in ToSet(FlattenSeq(seqs)) : \E i \in DOMAIN seqs : x \in ToSet(seqs[i])
<1> DEFINE T == UNION {ToSet(seqs[i]) : i \in DOMAIN seqs}
           q == FlattenSeq(seqs)
<1>1. Len(seqs) \in Nat /\ DOMAIN seqs = 1 .. Len(seqs)
  BY ListElements
<1>2. \A i \in DOMAIN seqs : seqs[i] \in Seq(T)
  BY DEF IsList
<1> HIDE DEF T
<1>3. seqs \in Seq(Seq(T))
  BY <1>1, <1>2 DEF IsList
<1>4. q \in Seq(T)
  <2>1. <<>> \in Seq(T)
    BY EmptySeq
  <2> QED
    BY <1>3, <2>1, FlattenAppend
<1> HIDE DEF q
<1>5. ToSet(q) = Range(q)
  BY DEF ToSet, Range
<1>6. q \in Seq(ToSet(q)) /\ ToSet(q) \subseteq T
  BY <1>4, <1>5, SeqOfRange, RangeOfSeq
<1> QED
  BY <1>6 DEF IsList, T, q

-----------------------------------------------------------------------------
\* A list of what can be read.
LEMMA ForEachIsList ==
  ASSUME NEW s, IsList(s), NEW S, NEW f, f = [i \in DOMAIN Only(s, S) |-> f[i]]
  PROVE  /\ IsList(f)
         /\ \A i \in DOMAIN f : Only(s, S)[i] \in ToSet(s) \cap S
<1>1. IsList(Only(s, S)) /\ ToSet(Only(s, S)) = ToSet(s) \cap S
  BY ListOnly
<1> DEFINE q == Only(s, S)
<1> HIDE DEF q
<1>2. Len(q) \in Nat /\ DOMAIN q = 1 .. Len(q) /\ \A i \in 1 .. Len(q) : q[i] \in ToSet(q)
  BY <1>1, ListElements DEF q
<1>3. f = [i \in 1 .. Len(q) |-> f[i]]
  BY <1>2 DEF q
<1>4. IsList(f)
  BY <1>2, <1>3, ListOf
<1>5. DOMAIN f = 1 .. Len(q)
  BY <1>3
<1> QED
  BY <1>1, <1>2, <1>4, <1>5 DEF q

\* Readings: whole numbers, each under a key.
IsReadings(f) == IsList(f) /\ \A r \in ToSet(f) : r.value \in Int

\* A value that can be read is a number.
LEMMA ValueRead ==
  ASSUME NEW value, IsValue(value), There(value)
  PROVE  value[1] \in Int
<1>1. value \in Seq(Int) /\ Len(value) \in {0, 1} /\ value # <<>>
  BY DEF IsValue, There
<1>2. Len(value) = 1
  BY <1>1, EmptySeq
<1> QED
  BY <1>1, <1>2

\* A reading's key and value.
LEMMA ReadingIs ==
  ASSUME NEW key, NEW value, IsValue(value), There(value)
  PROVE  Reading(key, value).key = key /\ Reading(key, value).value \in Int
  BY ValueRead DEF Reading

\* A list of readings of a part of a list.
LEMMA ReadingsOf ==
  ASSUME NEW s, IsList(s), NEW S, NEW f, f = [i \in DOMAIN Only(s, S) |-> f[i]],
         \A i \in DOMAIN Only(s, S) : Only(s, S)[i] \in ToSet(s) \cap S => f[i].value \in Int
  PROVE  IsReadings(f)
<1>1. IsList(f) /\ \A i \in DOMAIN f : Only(s, S)[i] \in ToSet(s) \cap S
  BY ForEachIsList
<1>2. DOMAIN f = DOMAIN Only(s, S)
  OBVIOUS
<1>3. \A i \in DOMAIN f : f[i].value \in Int
  BY <1>1, <1>2
<1> QED
  BY <1>1, <1>3 DEF IsReadings, ToSet

\* Readings behind one another.
LEMMA ReadingsJoined ==
  ASSUME NEW f, NEW g, IsReadings(f), IsReadings(g)
  PROVE  IsReadings(f \o g)
  BY ListJoined DEF IsReadings

\* One value, or none, as readings.
LEMMA ReadingOfOne ==
  ASSUME NEW r, r.value \in Int
  PROVE  IsReadings(<<r>>) /\ IsReadings(<< >>)
  BY DEF IsReadings, IsList, ToSet

\* The lists of a machine are lists, and hold values.
LEMMA ShownLists ==
  ASSUME NEW found, IsShown(found)
  PROVE  /\ IsList(found.chips) /\ IsList(found.sysctl) /\ IsList(found.zones)
         /\ IsList(found.policies) /\ IsList(found.cpus) /\ IsList(found.devfreq)
         /\ IsList(found.cards) /\ IsList(found.i915) /\ IsList(found.rapl)
  BY DEF IsShown

\* Those values are whole numbers, where they are there.
LEMMA ShownValues ==
  ASSUME NEW found, IsShown(found)
  PROVE  /\ \A e \in ToSet(found.chips) : IsValue(e.value)
         /\ \A e \in ToSet(found.sysctl) : IsValue(e.value)
         /\ \A e \in ToSet(found.zones) : IsValue(e.value)
         /\ \A e \in ToSet(found.policies) : IsValue(e.value)
         /\ \A e \in ToSet(found.cpus) : IsValue(e.value)
         /\ \A e \in ToSet(found.cards) : IsValue(e.value)
  BY DEF IsShown

\* The chips are read as numbers.
LEMMA LibsensorsReadingsAre ==
  ASSUME NEW found, IsShown(found)
  PROVE  IsReadings(LibsensorsReadings(found))
<1> DEFINE s == found.chips
           S == {e \in ToSet(s) : There(e["value"])}
           q == Only(s, S)
           f == LibsensorsReadings(found)
<1>1. IsList(s) /\ \A e \in ToSet(s) : IsValue(e.value)
  BY ShownLists, ShownValues
<1>2. f = [i \in DOMAIN q |-> Reading(ChipKey(q[i]), q[i].value)]
  BY DEF LibsensorsReadings, ForEach, Those
<1>3. ASSUME NEW i \in DOMAIN q, q[i] \in ToSet(s) \cap S
      PROVE  Reading(ChipKey(q[i]), q[i].value).value \in Int
  <2>1. IsValue(q[i].value) /\ There(q[i].value)
    BY <1>1, <1>3
  <2> QED
    BY <2>1, ReadingIs
<1> HIDE DEF s, S
<1>4. \A i \in DOMAIN q : q[i] \in ToSet(s) \cap S => f[i].value \in Int
  BY <1>2, <1>3
<1>5. f = [i \in DOMAIN q |-> f[i]]
  BY <1>2
<1> HIDE DEF f
<1> QED
  BY <1>1, <1>4, <1>5, ReadingsOf DEF f

\* The thermal zones are read as numbers.
LEMMA ThermalReadingsAre ==
  ASSUME NEW found, IsShown(found)
  PROVE  IsReadings(ThermalReadings(found))
<1> DEFINE s == found.zones
           S == {e \in ToSet(s) : There(e["value"])}
           q == Only(s, S)
           f == ThermalReadings(found)
<1>1. IsList(s) /\ \A e \in ToSet(s) : IsValue(e.value)
  BY ShownLists, ShownValues
<1>2. f = [i \in DOMAIN q |-> Reading(ZoneKey(q[i]), q[i].value)]
  BY DEF ThermalReadings, ForEach, Those
<1>3. ASSUME NEW i \in DOMAIN q, q[i] \in ToSet(s) \cap S
      PROVE  Reading(ZoneKey(q[i]), q[i].value).value \in Int
  <2>1. IsValue(q[i].value) /\ There(q[i].value)
    BY <1>1, <1>3
  <2> QED
    BY <2>1, ReadingIs
<1> HIDE DEF s, S
<1>4. \A i \in DOMAIN q : q[i] \in ToSet(s) \cap S => f[i].value \in Int
  BY <1>2, <1>3
<1>5. f = [i \in DOMAIN q |-> f[i]]
  BY <1>2
<1> HIDE DEF f
<1> QED
  BY <1>1, <1>4, <1>5, ReadingsOf DEF f

\* The energy counters are read as numbers.
LEMMA RaplReadingsAre ==
  ASSUME NEW found, IsShown(found)
  PROVE  IsReadings(RaplReadings(found))
<1> DEFINE s == found.rapl
           S == {e \in ToSet(s) : There(e["power"])}
           q == Only(s, S)
           f == RaplReadings(found)
<1>1. IsList(s) /\ \A e \in ToSet(s) : IsValue(e.power)
  BY ShownLists DEF IsShown
<1>2. f = [i \in DOMAIN q |-> Reading(RaplKey(q[i]), q[i].power)]
  BY DEF RaplReadings, ForEach, Those
<1>3. ASSUME NEW i \in DOMAIN q, q[i] \in ToSet(s) \cap S
      PROVE  Reading(RaplKey(q[i]), q[i].power).value \in Int
  <2>1. IsValue(q[i].power) /\ There(q[i].power)
    BY <1>1, <1>3
  <2> QED
    BY <2>1, ReadingIs
<1> HIDE DEF s, S
<1>4. \A i \in DOMAIN q : q[i] \in ToSet(s) \cap S => f[i].value \in Int
  BY <1>2, <1>3
<1>5. f = [i \in DOMAIN q |-> f[i]]
  BY <1>2
<1> HIDE DEF f
<1> QED
  BY <1>1, <1>4, <1>5, ReadingsOf DEF f

\* Lists of readings behind one another.
LEMMA ReadingsFlat ==
  ASSUME NEW seqs, IsList(seqs), \A i \in DOMAIN seqs : IsReadings(seqs[i])
  PROVE  IsReadings(FlattenSeq(seqs))
<1> DEFINE q == FlattenSeq(seqs)
<1>1. /\ IsList(q)
      /\ \A x \in ToSet(q) : \E i \in DOMAIN seqs : x \in ToSet(seqs[i])
  BY ListFlat DEF IsReadings
<1> HIDE DEF q
<1>2. \A r \in ToSet(q) : r.value \in Int
  BY <1>1 DEF IsReadings
<1> QED
  BY <1>1, <1>2 DEF IsReadings, q

\* The values of sysctl are read as numbers.
LEMMA SysctlReadingsAre ==
  ASSUME NEW found, IsShown(found), NEW all, NEW method
  PROVE  IsReadings(SysctlReadings(found, all, method))
<1> DEFINE R == {c \in ToSet(found.sysctl) :
                   \E i \in DOMAIN all : all[i].method = method /\ all[i].key = SysctlKey(c)}
           s == Only(found.sysctl, R)
           S == {e \in ToSet(s) : There(e["value"])}
           q == Only(s, S)
           f == SysctlReadings(found, all, method)
<1>1. IsList(found.sysctl) /\ \A e \in ToSet(found.sysctl) : IsValue(e.value)
  BY ShownLists, ShownValues
<1>2. f = [i \in DOMAIN q |-> Reading(SysctlKey(q[i]), q[i].value)]
  BY DEF SysctlReadings, ForEach, Those
<1> HIDE DEF R
<1>3. IsList(s) /\ ToSet(s) = ToSet(found.sysctl) \cap R
  BY <1>1, ListOnly
<1> HIDE DEF s
<1>4. ASSUME NEW i \in DOMAIN q, q[i] \in ToSet(s) \cap S
      PROVE  Reading(SysctlKey(q[i]), q[i].value).value \in Int
  <2>1. IsValue(q[i].value) /\ There(q[i].value)
    BY <1>1, <1>3, <1>4
  <2> QED
    BY <2>1, ReadingIs
<1> HIDE DEF S
<1>5. \A i \in DOMAIN q : q[i] \in ToSet(s) \cap S => f[i].value \in Int
  BY <1>2, <1>4
<1>6. f = [i \in DOMAIN q |-> f[i]]
  BY <1>2
<1> HIDE DEF f
<1> QED
  BY <1>3, <1>5, <1>6, ReadingsOf DEF f

\* A QNAP's sensor is read as a number.
LEMMA QnapReadingsAre ==
  ASSUME NEW found, IsShown(found)
  PROVE  IsReadings(QnapReadings(found))
<1>1. IsValue(found.qnap)
  BY DEF IsShown
<1>2. CASE There(found.qnap)
  <2>1. QnapReadings(found) = <<Reading(<<"qnap">>, found.qnap)>>
    BY <1>2 DEF QnapReadings
  <2>2. Reading(<<"qnap">>, found.qnap).value \in Int
    BY <1>1, <1>2, ReadingIs
  <2> QED
    BY <2>1, <2>2, ReadingOfOne
<1>3. CASE ~There(found.qnap)
  <2>1. QnapReadings(found) = << >>
    BY <1>3 DEF QnapReadings
  <2> QED
    BY <2>1 DEF IsReadings, IsList, ToSet
<1> QED
  BY <1>2, <1>3

\* What comes first in a list.
LEMMA FirstOfList ==
  ASSUME NEW s, IsList(s), s # << >>
  PROVE  s[1] \in ToSet(s)
<1> DEFINE T == ToSet(s)
<1>1. s \in Seq(T)
  BY DEF IsList
<1> HIDE DEF T
<1>2. Len(s) # 0 /\ Len(s) \in Nat /\ \A i \in 1 .. Len(s) : s[i] \in T
  BY <1>1, EmptySeq
<1> QED
  BY <1>2 DEF T

\* A processor is read as a number, itself or by its policy.
LEMMA ProcessorReadAs ==
  ASSUME NEW own, NEW others, IsList(own), IsList(others), NEW key,
         \A e \in ToSet(own) \cup ToSet(others) : IsValue(e.value) /\ There(e.value)
  PROVE  IsReadings(IF own \o others = << >> THEN << >>
                    ELSE <<Reading(key, (own \o others)[1].value)>>)
<1> DEFINE ways == own \o others
<1>1. IsList(ways) /\ ToSet(ways) = ToSet(own) \cup ToSet(others)
  BY ListJoined
<1> HIDE DEF ways
<1>2. CASE ways = << >>
  BY <1>2 DEF ways, IsReadings, IsList, ToSet
<1>3. CASE ways # << >>
  <2>1. ways[1] \in ToSet(own) \cup ToSet(others)
    BY <1>1, <1>3, FirstOfList
  <2>2. IsValue(ways[1].value) /\ There(ways[1].value)
    BY <2>1
  <2>3. Reading(key, ways[1].value).value \in Int
    BY <2>2, ReadingIs
  <2> QED
    BY <1>3, <2>3, ReadingOfOne DEF ways
<1> QED
  BY <1>2, <1>3

\* The frequencies are read as numbers.
LEMMA CpufreqReadingsAre ==
  ASSUME NEW found, IsShown(found), NEW all
  PROVE  IsReadings(CpufreqReadings(found, all))
<1> DEFINE Has(key) == \E i \in DOMAIN all : all[i].key = key
           policies == Only(found.policies, {p \in ToSet(found.policies) : There(p.value)})
           Own(n)   == Only(found.cpus, {c \in ToSet(found.cpus) : c.number = n /\ There(c.value)})
           Of(n)    == Only(policies, {p \in ToSet(policies) : p.number = n})
           single   == Only(found.cpus, {c \in ToSet(found.cpus) : Has(CpuKey(c.number))})
           OneWay(c) == IF Own(c.number) \o Of(c.number) = << >> THEN << >>
                        ELSE <<Reading(CpuKey(c.number),
                                       (Own(c.number) \o Of(c.number))[1].value)>>
           each     == [i \in DOMAIN single |-> OneWay(single[i])]
           named    == Only(policies, {p \in ToSet(policies) : Has(<<"policy", p.number>>)})
           S        == {p \in ToSet(named) : There(p["value"])}
           q        == Only(named, S)
           rest     == [i \in DOMAIN q |-> Reading(<<"policy", q[i].number>>, q[i].value)]
<1>1. CpufreqReadings(found, all) = FlattenSeq(each) \o rest
  BY DEF CpufreqReadings, ForEach, Those
<1>2. /\ IsList(found.cpus) /\ \A e \in ToSet(found.cpus) : IsValue(e.value)
      /\ IsList(found.policies) /\ \A e \in ToSet(found.policies) : IsValue(e.value)
  BY ShownLists, ShownValues
<1>3. /\ IsList(policies)
      /\ \A p \in ToSet(policies) : IsValue(p.value) /\ There(p.value)
  BY <1>2, ListOnly
<1> HIDE DEF policies, Has
<1>4. ASSUME NEW n
      PROVE  /\ IsList(Own(n)) /\ IsList(Of(n))
             /\ \A e \in ToSet(Own(n)) \cup ToSet(Of(n)) : IsValue(e.value) /\ There(e.value)
  <2>1. IsList(Own(n)) /\ ToSet(Own(n)) =
           ToSet(found.cpus) \cap {c \in ToSet(found.cpus) : c.number = n /\ There(c.value)}
    BY <1>2, ListOnly
  <2>2. IsList(Of(n)) /\ ToSet(Of(n)) = ToSet(policies) \cap {p \in ToSet(policies) : p.number = n}
    BY <1>3, ListOnly
  <2> QED
    BY <1>2, <1>3, <2>1, <2>2
<1> HIDE DEF Own, Of
<1>5. \A c : IsReadings(OneWay(c))
  <2> TAKE c
  <2>1. /\ IsList(Own(c.number)) /\ IsList(Of(c.number))
        /\ \A e \in ToSet(Own(c.number)) \cup ToSet(Of(c.number)) : IsValue(e.value) /\ There(e.value)
    BY <1>4
  <2> QED
    BY <2>1, ProcessorReadAs
<1> HIDE DEF OneWay
<1>6. IsList(each)
  <2>1. IsList(single)
    BY <1>2, ListOnly
  <2> HIDE DEF single
  <2>2. Len(single) \in Nat /\ DOMAIN single = 1 .. Len(single)
    BY <2>1, ListElements
  <2>3. each = [i \in 1 .. Len(single) |-> each[i]]
    BY <2>2
  <2> HIDE DEF each
  <2> QED
    BY <2>2, <2>3, ListOf
<1> HIDE DEF single
<1>7. \A i \in DOMAIN each : IsReadings(each[i])
  BY <1>5
<1> HIDE DEF each
<1>8. IsReadings(FlattenSeq(each))
  BY <1>6, <1>7, ReadingsFlat
<1>9. IsList(named) /\ \A p \in ToSet(named) : IsValue(p.value)
  BY <1>3, ListOnly
<1> HIDE DEF named
<1>10. ASSUME NEW i \in DOMAIN q, q[i] \in ToSet(named) \cap S
       PROVE  rest[i].value \in Int
  <2>1. IsValue(q[i].value) /\ There(q[i].value)
    BY <1>9, <1>10
  <2>2. rest[i] = Reading(<<"policy", q[i].number>>, q[i].value)
    OBVIOUS
  <2> QED
    BY <2>1, <2>2, ReadingIs
<1>11. rest = [i \in DOMAIN q |-> rest[i]]
  OBVIOUS
<1> HIDE DEF rest, S
<1>12. IsReadings(rest)
  BY <1>9, <1>10, <1>11, ReadingsOf
<1> QED
  BY <1>1, <1>8, <1>12, ReadingsJoined

\* The GPUs of i915 are read as numbers.
LEMMA I915ReadingsAre ==
  ASSUME NEW found, IsShown(found)
  PROVE  IsReadings(I915Readings(found))
<1> DEFINE nums == [i \in DOMAIN found.i915 |-> i]
           S    == {i \in ToSet(nums) : There(found.i915[i])}
           q    == Only(nums, S)
           f    == [i \in DOMAIN q |-> Reading(<<"i915", q[i] - 1>>, found.i915[q[i]])]
<1>1. I915Readings(found) = f
  BY DEF I915Readings, Those
<1>2. IsList(found.i915) /\ \A v \in ToSet(found.i915) : IsValue(v)
  BY ShownLists DEF IsShown
<1>3. /\ Len(found.i915) \in Nat /\ DOMAIN found.i915 = 1 .. Len(found.i915)
      /\ \A i \in 1 .. Len(found.i915) : found.i915[i] \in ToSet(found.i915)
  BY <1>2, ListElements
<1>4. IsList(nums)
  <2>1. nums = [i \in 1 .. Len(found.i915) |-> nums[i]]
    BY <1>3
  <2> HIDE DEF nums
  <2> QED
    BY <1>3, <2>1, ListOf
<1>5. ToSet(nums) \subseteq 1 .. Len(found.i915)
  BY <1>3 DEF ToSet
<1> HIDE DEF nums
<1>6. ASSUME NEW i \in DOMAIN q, q[i] \in ToSet(nums) \cap S
      PROVE  f[i].value \in Int
  <2>1. IsValue(found.i915[q[i]]) /\ There(found.i915[q[i]])
    BY <1>2, <1>3, <1>5, <1>6
  <2>2. f[i] = Reading(<<"i915", q[i] - 1>>, found.i915[q[i]])
    OBVIOUS
  <2> QED
    BY <2>1, <2>2, ReadingIs
<1>7. f = [i \in DOMAIN q |-> f[i]]
  OBVIOUS
<1> HIDE DEF f, S
<1> QED
  BY <1>1, <1>4, <1>6, <1>7, ReadingsOf

\* The GPUs of DRM are read as numbers.
LEMMA DrmReadingsAre ==
  ASSUME NEW found, IsShown(found)
  PROVE  IsReadings(ForEach(found.cards, "value", LAMBDA c : Reading(DrmKey(c), c.value)))
<1> DEFINE s == found.cards
           S == {e \in ToSet(s) : There(e["value"])}
           q == Only(s, S)
           f == [i \in DOMAIN q |-> Reading(DrmKey(q[i]), q[i].value)]
<1>1. IsList(s) /\ \A e \in ToSet(s) : IsValue(e.value)
  BY ShownLists, ShownValues
<1>2. f = ForEach(found.cards, "value", LAMBDA c : Reading(DrmKey(c), c.value))
  BY DEF ForEach, Those
<1>3. ASSUME NEW i \in DOMAIN q, q[i] \in ToSet(s) \cap S
      PROVE  f[i].value \in Int
  <2>1. IsValue(q[i].value) /\ There(q[i].value)
    BY <1>1, <1>3
  <2>2. f[i] = Reading(DrmKey(q[i]), q[i].value)
    OBVIOUS
  <2> QED
    BY <2>1, <2>2, ReadingIs
<1>4. f = [i \in DOMAIN q |-> f[i]]
  OBVIOUS
<1> HIDE DEF f, S, s
<1>5. IsReadings(f)
  BY <1>1, <1>3, <1>4, ReadingsOf
<1> QED
  BY <1>2, <1>5

\* The GPUs of devfreq are read as numbers.
LEMMA DevfreqReadingsAre ==
  ASSUME NEW found, IsShown(found), NEW known, IsList(known)
  PROVE  IsReadings(DevfreqReadings(found, known))
<1> DEFINE s == found.devfreq
           F(i) == {g \in ToSet(s) : g.dir = known[i] /\ There(g["freq"])}
           L(i) == {g \in ToSet(s) : g.dir = known[i] /\ There(g["load"])}
           freq(i) == [j \in DOMAIN Only(s, F(i)) |->
                          Reading(<<"gpu", i - 1, "freq">>, Only(s, F(i))[j].freq)]
           load(i) == [j \in DOMAIN Only(s, L(i)) |->
                          Reading(<<"gpu", i - 1, "load">>, Only(s, L(i))[j].load)]
           each == [i \in DOMAIN known |-> freq(i) \o load(i)]
<1>1. DevfreqReadings(found, known) = FlattenSeq(each)
  BY DEF DevfreqReadings, Those
<1>2. IsList(s) /\ \A g \in ToSet(s) : IsValue(g.freq) /\ IsValue(g.load)
  BY ShownLists DEF IsShown
<1> HIDE DEF s
<1>3. ASSUME NEW i PROVE IsReadings(freq(i))
  <2> DEFINE q == Only(s, F(i))
             f == freq(i)
  <2>1. ASSUME NEW j \in DOMAIN q, q[j] \in ToSet(s) \cap F(i) PROVE f[j].value \in Int
    <3>1. IsValue(q[j].freq) /\ There(q[j].freq)
      BY <1>2, <2>1
    <3>2. f[j] = Reading(<<"gpu", i - 1, "freq">>, q[j].freq)
      OBVIOUS
    <3> QED
      BY <3>1, <3>2, ReadingIs
  <2>2. f = [j \in DOMAIN q |-> f[j]]
    OBVIOUS
  <2> HIDE DEF f, F
  <2>3. IsReadings(f)
    BY <1>2, <2>1, <2>2, ReadingsOf
  <2> QED
    BY <2>3 DEF f
<1>4. ASSUME NEW i PROVE IsReadings(load(i))
  <2> DEFINE q == Only(s, L(i))
             f == load(i)
  <2>1. ASSUME NEW j \in DOMAIN q, q[j] \in ToSet(s) \cap L(i) PROVE f[j].value \in Int
    <3>1. IsValue(q[j].load) /\ There(q[j].load)
      BY <1>2, <2>1
    <3>2. f[j] = Reading(<<"gpu", i - 1, "load">>, q[j].load)
      OBVIOUS
    <3> QED
      BY <3>1, <3>2, ReadingIs
  <2>2. f = [j \in DOMAIN q |-> f[j]]
    OBVIOUS
  <2> HIDE DEF f, L
  <2>3. IsReadings(f)
    BY <1>2, <2>1, <2>2, ReadingsOf
  <2> QED
    BY <2>3 DEF f
<1> HIDE DEF freq, load
<1>5. \A i \in DOMAIN each : IsReadings(each[i])
  BY <1>3, <1>4, ReadingsJoined
<1>6. IsList(each)
  <2>1. Len(known) \in Nat /\ DOMAIN known = 1 .. Len(known)
    BY ListElements
  <2>2. each = [i \in 1 .. Len(known) |-> each[i]]
    BY <2>1
  <2> HIDE DEF each
  <2> QED
    BY <2>1, <2>2, ListOf
<1> HIDE DEF each
<1> QED
  BY <1>1, <1>5, <1>6, ReadingsFlat

\* All that an update reads is a list of numbers.
LEMMA ReadingsAre ==
  ASSUME NEW found, IsShown(found), NEW vector, NEW known, IsList(known)
  PROVE  IsReadings(Readings(found, vector, known))
<1>1. /\ IsReadings(LibsensorsReadings(found)) /\ IsReadings(QnapReadings(found))
      /\ IsReadings(ThermalReadings(found)) /\ IsReadings(RaplReadings(found))
  BY LibsensorsReadingsAre, QnapReadingsAre, ThermalReadingsAre, RaplReadingsAre
<1>2. /\ IsReadings(DevCpuReadings(found, vector)) /\ IsReadings(AcpiThermalReadings(found, vector))
      /\ IsReadings(AcpiFreqReadings(found, vector))
  BY SysctlReadingsAre DEF DevCpuReadings, AcpiThermalReadings, AcpiFreqReadings
<1>3. IsReadings(CpufreqReadings(found, vector))
  BY CpufreqReadingsAre
<1>4. IsReadings(GpuReadings(found, known))
  <2> DEFINE drm == ForEach(found.cards, "value", LAMBDA c : Reading(DrmKey(c), c.value))
  <2>1. GpuReadings(found, known) = DevfreqReadings(found, known) \o drm \o I915Readings(found)
    BY DEF GpuReadings
  <2>2. /\ IsReadings(DevfreqReadings(found, known)) /\ IsReadings(drm)
        /\ IsReadings(I915Readings(found))
    BY DevfreqReadingsAre, DrmReadingsAre, I915ReadingsAre
  <2> HIDE DEF drm
  <2> QED
    BY <2>1, <2>2, ReadingsJoined
<1> DEFINE a == LibsensorsReadings(found)
           b == QnapReadings(found)
           c == DevCpuReadings(found, vector)
           d == AcpiThermalReadings(found, vector)
           e == AcpiFreqReadings(found, vector)
           f == ThermalReadings(found)
           g == CpufreqReadings(found, vector)
           h == GpuReadings(found, known)
           r == RaplReadings(found)
<1>5. Readings(found, vector, known) = a \o b \o c \o d \o e \o f \o g \o h \o r
  BY DEF Readings
<1>6. /\ IsReadings(a) /\ IsReadings(b) /\ IsReadings(c) /\ IsReadings(d) /\ IsReadings(e)
      /\ IsReadings(f) /\ IsReadings(g) /\ IsReadings(h) /\ IsReadings(r)
  BY <1>1, <1>2, <1>3, <1>4
<1> HIDE DEF a, b, c, d, e, f, g, h, r
<1>7. IsReadings(a \o b \o c \o d \o e)
  BY <1>6, ReadingsJoined
<1> DEFINE p == a \o b \o c \o d \o e
<1> HIDE DEF p
<1>8. IsReadings(p \o f \o g \o h \o r)
  BY <1>6, <1>7, ReadingsJoined DEF p
<1> QED
  BY <1>5, <1>8 DEF p

-----------------------------------------------------------------------------
\* What is made of each element of a list is a list.
LEMMA EachIsList ==
  ASSUME NEW s, IsList(s), NEW f, f = [i \in DOMAIN s |-> f[i]]
  PROVE  IsList(f)
<1>1. Len(s) \in Nat /\ DOMAIN s = 1 .. Len(s)
  BY ListElements
<1>2. f = [i \in 1 .. Len(s) |-> f[i]]
  BY <1>1
<1> QED
  BY <1>1, <1>2, ListOf

\* A list of one, of two, of none.
LEMMA ListsShort ==
  ASSUME NEW a, NEW b
  PROVE  IsList(<< >>) /\ IsList(<<a>>) /\ IsList(<<a, b>>)
  BY DEF IsList, ToSet

\* What sysctl shows is named in a list.
LEMMA SysctlNamedIs ==
  ASSUME NEW found, IsShown(found), NEW name, NEW method, NEW kind
  PROVE  IsList(SysctlNamed(found, name, method, kind))
<1> DEFINE R == {c \in ToSet(found.sysctl) : c.name = name /\ c.number < 32}
           s == Only(found.sysctl, R)
           S == {e \in ToSet(s) : There(e["value"])}
           q == Only(s, S)
           f == SysctlNamed(found, name, method, kind)
<1>1. f = [i \in DOMAIN q |-> Named(SysctlKey(q[i]), method, kind)]
  BY DEF SysctlNamed, ForEach, Those
<1>2. IsList(s)
  BY ShownLists, ListOnly
<1>3. f = [i \in DOMAIN q |-> f[i]]
  BY <1>1
<1> HIDE DEF f, S, s
<1> QED
  BY <1>2, <1>3, ForEachIsList DEF f

\* The thermal zones are named in a list.
LEMMA ThermalNamedIs ==
  ASSUME NEW found, IsShown(found)
  PROVE  IsList(ThermalNamed(found))
<1> DEFINE s == found.zones
           S == {e \in ToSet(s) : There(e["value"])}
           q == Only(s, S)
           f == ThermalNamed(found)
<1>1. f = [i \in DOMAIN q |-> Named(ZoneKey(q[i]), 10, 0)]
  BY DEF ThermalNamed, ForEach, Those
<1>2. IsList(s)
  BY ShownLists
<1>3. f = [i \in DOMAIN q |-> f[i]]
  BY <1>1
<1> HIDE DEF f, S, s
<1> QED
  BY <1>2, <1>3, ForEachIsList DEF f

\* The GPUs of DRM are named in a list.
LEMMA DrmNamedIs ==
  ASSUME NEW found, IsShown(found)
  PROVE  IsList(DrmNamed(found))
<1> DEFINE s == found.cards
           S == {e \in ToSet(s) : There(e["value"])}
           q == Only(s, S)
           f == DrmNamed(found)
<1>1. f = [i \in DOMAIN q |-> Named(DrmKey(q[i]), 15, IF q[i].name = "busy" THEN 6 ELSE 7)]
  BY DEF DrmNamed, ForEach, Those
<1>2. IsList(s)
  BY ShownLists
<1>3. f = [i \in DOMAIN q |-> f[i]]
  BY <1>1
<1> HIDE DEF f, S, s
<1> QED
  BY <1>2, <1>3, ForEachIsList DEF f

\* The frequencies are named in a list.
LEMMA CpufreqNamedIs ==
  ASSUME NEW found, IsShown(found)
  PROVE  IsList(CpufreqNamed(found))
<1> DEFINE policies == Only(found.policies, {p \in ToSet(found.policies) : There(p.value)})
           cpus     == Only(found.cpus, {c \in ToSet(found.cpus) : There(c.value)})
           OfPolicy(p) == IF p.cpus = << >> THEN <<Named(<<"policy", p.number>>, 11, 8)>>
                          ELSE [i \in DOMAIN p.cpus |-> Named(CpuKey(p.cpus[i]), 11, 8)]
           single == [i \in DOMAIN cpus |-> Named(CpuKey(cpus[i].number), 11, 8)]
           each   == [i \in DOMAIN policies |-> OfPolicy(policies[i])]
<1>1. CpufreqNamed(found) = IF policies = << >> THEN single ELSE FlattenSeq(each)
  BY DEF CpufreqNamed, Those
<1>2. /\ IsList(found.policies) /\ IsList(found.cpus)
      /\ \A p \in ToSet(found.policies) : IsList(p.cpus)
  BY ShownLists DEF IsShown
<1>3. /\ IsList(policies) /\ IsList(cpus)
      /\ \A p \in ToSet(policies) : IsList(p.cpus)
  BY <1>2, ListOnly
<1> HIDE DEF policies, cpus
<1>4. IsList(single)
  <2>1. single = [i \in DOMAIN cpus |-> single[i]]
    OBVIOUS
  <2> HIDE DEF single
  <2> QED
    BY <1>3, <2>1, EachIsList
<1>5. ASSUME NEW p \in ToSet(policies) PROVE IsList(OfPolicy(p))
  <2>1. CASE p.cpus = << >>
    BY <2>1, ListsShort
  <2>2. CASE p.cpus # << >>
    <3> DEFINE f == OfPolicy(p)
    <3>1. f = [i \in DOMAIN p.cpus |-> f[i]]
      BY <2>2
    <3>2. IsList(p.cpus)
      BY <1>3
    <3> HIDE DEF f
    <3>3. IsList(f)
      BY <3>1, <3>2, EachIsList
    <3> QED
      BY <3>3 DEF f
  <2> QED
    BY <2>1, <2>2
<1> HIDE DEF OfPolicy
<1>6. IsList(each)
  <2>1. each = [i \in DOMAIN policies |-> each[i]]
    OBVIOUS
  <2> HIDE DEF each
  <2> QED
    BY <1>3, <2>1, EachIsList
<1>7. \A i \in DOMAIN each : IsList(each[i])
  <2>1. \A i \in DOMAIN policies : policies[i] \in ToSet(policies)
    BY DEF ToSet
  <2> QED
    BY <1>5, <2>1
<1> HIDE DEF each, single
<1>8. IsList(FlattenSeq(each))
  BY <1>6, <1>7, ListFlat
<1> QED
  BY <1>1, <1>4, <1>8

\* The GPUs of i915 are named in a list.
LEMMA I915NamedIs ==
  ASSUME NEW found, IsShown(found)
  PROVE  IsList(I915Named(found))
<1> DEFINE nums == [i \in DOMAIN found.i915 |-> i]
           S    == {i \in ToSet(nums) : There(found.i915[i])}
           q    == Only(nums, S)
           f    == I915Named(found)
<1>1. f = [i \in DOMAIN q |-> Named(<<"i915", q[i] - 1>>, 16, 8)]
  BY DEF I915Named, Those
<1>2. IsList(found.i915)
  BY ShownLists
<1>3. IsList(nums)
  <2>1. nums = [i \in DOMAIN found.i915 |-> nums[i]]
    OBVIOUS
  <2> HIDE DEF nums
  <2> QED
    BY <1>2, <2>1, EachIsList
<1>4. f = [i \in DOMAIN q |-> f[i]]
  BY <1>1
<1> HIDE DEF nums, f, S
<1> QED
  BY <1>3, <1>4, ForEachIsList DEF f

\* The GPUs of devfreq are named in a list, and so are their directories.
LEMMA DevfreqNamedIs ==
  ASSUME NEW found, IsShown(found)
  PROVE  IsList(DevfreqNamed(found)) /\ IsList(DevfreqDirs(found))
<1> DEFINE S     == {g \in ToSet(found.devfreq) : There(g.freq)}
           there == Only(found.devfreq, S)
           Of(i) == <<Named(<<"gpu", i - 1, "freq">>, 12, 8)>>
                    \o IF There(there[i].load)
                       THEN <<Named(<<"gpu", i - 1, "load">>, 14, 6)>> ELSE << >>
           each  == [i \in DOMAIN there |-> Of(i)]
           dirs  == [i \in DOMAIN there |-> there[i].dir]
<1>1. DevfreqNamed(found) = FlattenSeq(each) /\ DevfreqDirs(found) = dirs
  <2>1. DevfreqNamed(found) = FlattenSeq(each)
    BY DEF DevfreqNamed, Those
  <2>2. DevfreqDirs(found) = dirs
    <3> DEFINE R == {g \in ToSet(found.devfreq) : There(g["freq"])}
    <3>1. R = S
      OBVIOUS
    <3>2. DevfreqDirs(found) = [i \in DOMAIN Only(found.devfreq, R) |-> Only(found.devfreq, R)[i].dir]
      BY DEF DevfreqDirs, ForEach, Those
    <3> HIDE DEF R, S
    <3> QED
      BY <3>1, <3>2
  <2> QED
    BY <2>1, <2>2
<1>2. IsList(there)
  BY ShownLists, ListOnly
<1> HIDE DEF there, S
<1>3. \A i \in DOMAIN each : IsList(each[i])
  BY ListsShort, ListJoined
<1>4. IsList(each)
  <2>1. each = [i \in DOMAIN there |-> each[i]]
    OBVIOUS
  <2> HIDE DEF each
  <2> QED
    BY <1>2, <2>1, EachIsList
<1> HIDE DEF each
<1>5. IsList(FlattenSeq(each))
  BY <1>3, <1>4, ListFlat
<1>6. IsList(dirs)
  <2>1. dirs = [i \in DOMAIN there |-> dirs[i]]
    OBVIOUS
  <2> HIDE DEF dirs
  <2> QED
    BY <1>2, <2>1, EachIsList
<1> QED
  BY <1>1, <1>5, <1>6

\* All that is named is named in lists.
LEMMA NamedAre ==
  ASSUME NEW found, IsShown(found)
  PROVE  /\ IsList(DevCpuNamed(found)) /\ IsList(QnapNamed(found)) /\ IsList(GpuNamed(found))
         /\ IsList(LibsensorsNamed(found))
         /\ IsList(AcpiThermalNamed(found) \o AcpiFreqNamed(found)
                     \o ThermalNamed(found) \o CpufreqNamed(found)
                     \o GpuNamed(found) \o RaplNamed(found) \o LibsensorsNamed(found))
<1>1. IsList(DevCpuNamed(found)) /\ IsList(AcpiThermalNamed(found)) /\ IsList(AcpiFreqNamed(found))
  BY SysctlNamedIs DEF DevCpuNamed, AcpiThermalNamed, AcpiFreqNamed
<1>2. IsList(QnapNamed(found))
  BY ListsShort DEF QnapNamed
<1>3. IsList(GpuNamed(found))
  BY DevfreqNamedIs, DrmNamedIs, I915NamedIs, ListJoined DEF GpuNamed
<1>4. IsList(LibsensorsNamed(found))
  <2> DEFINE f == LibsensorsNamed(found)
  <2>1. f = [i \in DOMAIN found.chips |-> f[i]]
    BY DEF LibsensorsNamed
  <2>2. IsList(found.chips)
    BY ShownLists
  <2> HIDE DEF f
  <2> QED
    BY <2>1, <2>2, EachIsList DEF f
<1>5. IsList(RaplNamed(found))
  <2> DEFINE f == RaplNamed(found)
  <2>1. f = [i \in DOMAIN found.rapl |-> f[i]]
    BY DEF RaplNamed
  <2>2. IsList(found.rapl)
    BY ShownLists
  <2> HIDE DEF f
  <2> QED
    BY <2>1, <2>2, EachIsList DEF f
<1>6. IsList(ThermalNamed(found)) /\ IsList(CpufreqNamed(found))
  BY ThermalNamedIs, CpufreqNamedIs
<1> DEFINE a == AcpiThermalNamed(found)
           b == AcpiFreqNamed(found)
           c == ThermalNamed(found)
           d == CpufreqNamed(found)
           e == GpuNamed(found)
           f == RaplNamed(found)
           g == LibsensorsNamed(found)
<1>7. IsList(a) /\ IsList(b) /\ IsList(c) /\ IsList(d) /\ IsList(e) /\ IsList(f) /\ IsList(g)
  BY <1>1, <1>3, <1>4, <1>5, <1>6
<1> HIDE DEF a, b, c, d, e, f, g
<1>8. IsList(a \o b \o c \o d)
  BY <1>7, ListJoined
<1>9. IsList(a \o b \o c \o d \o e \o f \o g)
  <2> DEFINE p == a \o b \o c \o d
  <2>1. IsList(p)
    BY <1>8
  <2> HIDE DEF p
  <2>2. IsList(p \o e \o f \o g)
    BY <1>7, <2>1, ListJoined
  <2> QED
    BY <2>2 DEF p
<1> QED
  BY <1>1, <1>2, <1>3, <1>4, <1>9 DEF a, b, c, d, e, f, g

-----------------------------------------------------------------------------
\* A row of the table of limits, and a sensor whose key, method and kind are among some.
SensorRows == [low : Int, high : Int]

SensorSet(K, M, D) ==
  [key : K, method : M, kind : D, low : Int, high : Int, changed : BOOLEAN,
   samples : Seq([id : Nat, value : Int])]

IsSensor(x) == x \in SensorSet({x.key}, {x.method}, {x.kind})

\* The limits of a sensor or a row cover a set of values, if -1 is none of them.
Fits(row, V) ==
  \/ -1 \in V
  \/ /\ row.low = -1 => V = {}
     /\ \A v \in V : row.low <= v /\ v <= row.high

\* What processSensor makes of a sensor: it keeps what it is, and its limits cover one value more;
\* where they do not change, the lowest was known.
LEMMA ProcessSensorIs ==
  ASSUME NEW K, NEW M, NEW D, NEW item \in SensorSet(K, M, D), NEW measured, measured.value \in Int,
         NEW id \in Nat
  PROVE  LET p == ProcessSensor(item, measured, id)
         IN  /\ p \in SensorSet(K, M, D) /\ p.key = item.key
             /\ item.key # measured.key => p = item
             /\ item.key = measured.key =>
                   /\ \A V \in SUBSET Int : Fits(item, V) => Fits(p, V \cup {measured.value})
                   /\ ~p.changed => p.low = item.low /\ p.high = item.high /\ item.low # -1
<1> DEFINE v     == measured.value
           above == v > item.high
           below == v < item.low \/ item.low = -1
           h     == IF above THEN v ELSE item.high
           l     == IF below THEN v ELSE item.low
           c     == above \/ below
           n     == IF Len(item.samples) < SensorSize THEN Len(item.samples) + 1 ELSE SensorSize
           joined == <<[id |-> id, value |-> v]>> \o item.samples
           s     == SubSeq(joined, 1, n)
           p     == ProcessSensor(item, measured, id)
<1> HIDE DEF v
<1>1. v \in Int /\ item.low \in Int /\ item.high \in Int /\ item.samples \in Seq([id : Nat, value : Int])
  BY DEF v, SensorSet
<1>2. s \in Seq([id : Nat, value : Int])
  <2> DEFINE T == [id : Nat, value : Int]
             e == [id |-> id, value |-> v]
  <2>1. e \in T
    BY <1>1
  <2> HIDE DEF e, T
  <2>2. <<e>> \in Seq(T) /\ Len(<<e>>) = 1
    BY <2>1
  <2>3. joined \in Seq(T) /\ Len(joined) = 1 + Len(item.samples)
    BY <1>1, <2>2, ConcatProperties DEF e, T
  <2>4. Len(item.samples) \in Nat /\ SensorSize \in Nat \ {0}
    BY <1>1, SensorsAssumption
  <2>5. n \in 1 .. Len(joined)
    BY <2>3, <2>4
  <2> HIDE DEF joined, n
  <2>6. s \in Seq(T)
    BY <2>3, <2>5, SubSeqProperties
  <2> QED
    BY <2>6 DEF T
<1>3. h \in Int /\ l \in Int /\ c \in BOOLEAN
  BY <1>1
<1>4. CASE item.key # measured.key
  BY <1>4 DEF ProcessSensor, p
<1>5. CASE item.key = measured.key
  <2>1. p = [item EXCEPT !.samples = s, !.high = h, !.low = l, !.changed = c]
    BY <1>5 DEF ProcessSensor, v
  <2> HIDE DEF s, h, l, c, p
  <2>2. /\ p \in SensorSet(K, M, D) /\ p.key = item.key
        /\ p.low = l /\ p.high = h /\ p.changed = c
    BY <1>2, <1>3, <2>1 DEF SensorSet
  <2>3. ASSUME NEW V \in SUBSET Int, Fits(item, V) PROVE Fits(p, V \cup {v})
    <3>1. CASE -1 \in V \/ v = -1
      BY <3>1 DEF Fits
    <3>2. CASE -1 \notin V /\ v # -1
      <4>1. /\ item.low = -1 => V = {}
            /\ \A w \in V : item.low <= w /\ w <= item.high
        BY <2>3, <3>2 DEF Fits
      <4>2. l <= v /\ v <= h /\ l # -1
        BY <1>1, <3>2 DEF l, h
      <4>3. ASSUME NEW w \in V PROVE l <= w /\ w <= h
        <5>1. item.low <= w /\ w <= item.high /\ item.low # -1
          BY <4>1, <4>3
        <5> QED
          BY <1>1, <5>1 DEF l, h
      <4> QED
        BY <2>2, <4>2, <4>3 DEF Fits
    <3> QED
      BY <3>1, <3>2
  <2>4. ~c => l = item.low /\ h = item.high /\ item.low # -1
    BY <1>1 DEF c, l, h
  <2> QED
    BY <1>5, <2>2, <2>3, <2>4 DEF v, p
<1> QED
  BY <1>4, <1>5

\* A vector of sensors.
IsItems(s) == IsList(s) /\ \A i \in DOMAIN s : IsSensor(s[i])

\* What the keys, methods and kinds of a vector are among.
LEMMA ItemsAmong ==
  ASSUME NEW s, IsItems(s), NEW K, NEW M, NEW D,
         \A i \in DOMAIN s : s[i].key \in K /\ s[i].method \in M /\ s[i].kind \in D
  PROVE  /\ Len(s) \in Nat /\ DOMAIN s = 1 .. Len(s)
         /\ s \in [1 .. Len(s) -> SensorSet(K, M, D)] /\ s \in Seq(SensorSet(K, M, D))
<1>1. IsList(s) /\ \A i \in DOMAIN s : IsSensor(s[i])
  BY DEF IsItems
<1>2. Len(s) \in Nat /\ DOMAIN s = 1 .. Len(s)
  BY <1>1, ListElements
<1>3. ASSUME NEW i \in DOMAIN s PROVE s[i] \in SensorSet(K, M, D)
  BY <1>1, <1>3 DEF IsSensor, SensorSet
<1> DEFINE T == SensorSet(K, M, D)
<1> HIDE DEF T
<1>4. s \in Seq(ToSet(s))
  BY <1>1 DEF IsList
<1>5. s \in [1 .. Len(s) -> T]
  BY <1>2, <1>3, <1>4 DEF T
<1>6. s \in Seq(T)
  BY <1>2, <1>5
<1> QED
  BY <1>2, <1>5, <1>6 DEF T

\* A sequence of sensors is a vector.
LEMMA AmongItems ==
  ASSUME NEW K, NEW M, NEW D, NEW N \in Nat, NEW s \in [1 .. N -> SensorSet(K, M, D)]
  PROVE  IsItems(s) /\ Len(s) = N
<1>1. s = [i \in 1 .. N |-> s[i]]
  OBVIOUS
<1>2. IsList(s) /\ Len(s) = N
  BY <1>1, ListOf
<1>3. ASSUME NEW i \in 1 .. N PROVE IsSensor(s[i])
  <2>1. s[i] \in SensorSet(K, M, D)
    OBVIOUS
  <2> QED
    BY <2>1 DEF IsSensor, SensorSet
<1> QED
  BY <1>2, <1>3 DEF IsItems

\* One reading, for the sensors of its key.
EachReads(vector, measured, id) == [i \in DOMAIN vector |-> ProcessSensor(vector[i], measured, id)]

\* The readings are processed one after the other.
LEMMA ProcessedInTurn ==
  ASSUME NEW vector, IsItems(vector), NEW readings, IsReadings(readings), NEW id \in Nat
  PROVE  \E K, M, D, f :
            /\ f \in [0 .. Len(readings) -> [DOMAIN vector -> SensorSet(K, M, D)]]
            /\ f[0] = vector
            /\ \A n \in 1 .. Len(readings) : f[n] = EachReads(f[n - 1], readings[n], id)
            /\ ProcessAll(vector, readings, id) = f[Len(readings)]
<1> DEFINE K == {vector[i].key : i \in DOMAIN vector}
           M == {vector[i].method : i \in DOMAIN vector}
           D == {vector[i].kind : i \in DOMAIN vector}
           T == SensorSet(K, M, D)
           I == DOMAIN vector
           V == [I -> T]
           N == Len(readings)
           F == [x \in Nat \X V |->
                    IF x[1] \in 1 .. N THEN EachReads(x[2], readings[x[1]], id) ELSE x[2]]
           All(f) == f = [n \in 0 .. N |->
                            IF n = 0 THEN vector
                            ELSE [i \in DOMAIN f[n - 1] |->
                                     ProcessSensor(f[n - 1][i], readings[n], id)]]
           after == CHOOSE f : All(f)
<1>1. vector \in V
  <2>1. \A i \in DOMAIN vector : vector[i].key \in K /\ vector[i].method \in M /\ vector[i].kind \in D
    OBVIOUS
  <2> HIDE DEF K, M, D
  <2>2. vector \in [1 .. Len(vector) -> T] /\ DOMAIN vector = 1 .. Len(vector)
    BY <2>1, ItemsAmong
  <2> QED
    BY <2>2
<1>2. N \in Nat /\ \A n \in 1 .. N : readings[n].value \in Int
  BY ListElements DEF IsReadings
<1>3. ASSUME NEW q \in V, NEW n \in 1 .. N PROVE EachReads(q, readings[n], id) \in V
  <2>1. \A i \in I : ProcessSensor(q[i], readings[n], id) \in T
    <3> TAKE i \in I
    <3>1. q[i] \in SensorSet(K, M, D)
      OBVIOUS
    <3>2. readings[n].value \in Int
      BY <1>2
    <3> HIDE DEF K, M, D
    <3> QED
      BY <3>1, <3>2, ProcessSensorIs
  <2> HIDE DEF T, I
  <2> QED
    BY <2>1 DEF EachReads
<1> HIDE DEF V
<1>4. F \in [Nat \X V -> V]
  <2>1. ASSUME NEW x \in Nat \X V
        PROVE  (IF x[1] \in 1 .. N THEN EachReads(x[2], readings[x[1]], id) ELSE x[2]) \in V
    BY <1>3
  <2> QED
    BY <2>1
<1>5. \A n \in Nat, q \in V : n \in 1 .. N => F[<<n, q>>] = EachReads(q, readings[n], id)
  OBVIOUS
<1> HIDE DEF F
<1>6. PICK g : Goes(g, V, vector, F, N)
  BY <1>1, <1>2, <1>4, Recursion
<1>7. /\ g \in [0 .. N -> V] /\ g[0] = vector
      /\ \A n \in 1 .. N : g[n] = EachReads(g[n - 1], readings[n], id)
  <2>1. \A n \in 1 .. N : n \in Nat /\ n - 1 \in 0 .. N
    BY <1>2
  <2> QED
    BY <1>6, <1>5, <2>1 DEF Goes
<1>8. All(g)
  <2>1. \A n \in 0 .. N :
           g[n] = IF n = 0 THEN vector
                  ELSE [i \in DOMAIN g[n - 1] |-> ProcessSensor(g[n - 1][i], readings[n], id)]
    <3> TAKE n \in 0 .. N
    <3>1. CASE n = 0
      BY <3>1, <1>7
    <3>2. CASE n # 0
      <4>1. n \in 1 .. N
        BY <1>2, <3>2
      <4>2. g[n] = EachReads(g[n - 1], readings[n], id)
        BY <1>7, <4>1
      <4> QED
        BY <3>2, <4>2 DEF EachReads
    <3> QED
      BY <3>1, <3>2
  <2> QED
    BY <1>7, <2>1
<1>9. All(after)
  <2>1. \E f : All(f)
    BY <1>8
  <2> HIDE DEF All
  <2> QED
    BY <2>1, Zenon
<1>10. ProcessAll(vector, readings, id) = after[N]
  BY DEF ProcessAll
<1> HIDE DEF after
<1>11. /\ after[0] = vector
       /\ \A n \in 1 .. N : after[n] = EachReads(after[n - 1], readings[n], id)
  <2>1. \A n \in 0 .. N :
           after[n] = IF n = 0 THEN vector
                      ELSE [i \in DOMAIN after[n - 1] |->
                               ProcessSensor(after[n - 1][i], readings[n], id)]
    BY <1>9
  <2> HIDE DEF All
  <2>2. after[0] = vector
    <3>1. 0 \in 0 .. N
      BY <1>2
    <3>2. after[0] = IF 0 = 0 THEN vector
                     ELSE [i \in DOMAIN after[0 - 1] |->
                              ProcessSensor(after[0 - 1][i], readings[0], id)]
      BY <2>1, <3>1, Zenon
    <3> QED
      BY <3>2
  <2>3. ASSUME NEW n \in 1 .. N PROVE after[n] = EachReads(after[n - 1], readings[n], id)
    <3>1. n \in 0 .. N /\ n # 0
      BY <1>2
    <3>2. after[n] = [i \in DOMAIN after[n - 1] |->
                         ProcessSensor(after[n - 1][i], readings[n], id)]
      BY <2>1, <3>1
    <3> QED
      BY <3>2 DEF EachReads
  <2> QED
    BY <2>2, <2>3
<1> HIDE DEF All
<1>12. \A n \in 1 .. N : after[n - 1] \in V => after[n] = F[<<n, after[n - 1]>>]
  BY <1>2, <1>5, <1>11
<1>13. Agrees(after, g, N)
  BY <1>2, <1>6, <1>11, <1>12, RecursionOnce
<1>14. after[N] = g[N]
  BY <1>2, <1>13 DEF Agrees
<1> HIDE DEF K, M, D
<1> QED
  BY <1>7, <1>10, <1>14 DEF V

\* What an update makes of the sensors: each is kept, and one for which there is at most one
\* reading has processed just that.
Processed(vector, readings, id, after) ==
  /\ IsItems(after) /\ DOMAIN after = DOMAIN vector
  /\ \A i \in DOMAIN vector : after[i].key = vector[i].key
  /\ \A i \in DOMAIN vector, p \in Nat :
        (\A m \in 1 .. Len(readings) : m # p => readings[m].key # vector[i].key)
        => after[i] = IF p \in 1 .. Len(readings) THEN ProcessSensor(vector[i], readings[p], id)
                      ELSE vector[i]

\* So it is.
LEMMA ProcessAllIs ==
  ASSUME NEW vector, IsItems(vector), NEW readings, IsReadings(readings), NEW id \in Nat
  PROVE  Processed(vector, readings, id, ProcessAll(vector, readings, id))
<1> DEFINE N == Len(readings)
           P == ProcessAll(vector, readings, id)
           I == DOMAIN vector
<1>1. PICK K, M, D, f :
         /\ f \in [0 .. N -> [I -> SensorSet(K, M, D)]]
         /\ f[0] = vector
         /\ \A n \in 1 .. N : f[n] = EachReads(f[n - 1], readings[n], id)
         /\ P = f[N]
  BY ProcessedInTurn
<1> HIDE DEF P
<1>2. N \in Nat /\ \A n \in 1 .. N : readings[n].value \in Int
  BY ListElements DEF IsReadings
<1>3. Len(vector) \in Nat /\ I = 1 .. Len(vector)
  BY ListElements DEF IsItems
<1> HIDE DEF N, I
<1>4. ASSUME NEW n \in 1 .. N, NEW i \in I
      PROVE  /\ f[n][i] = ProcessSensor(f[n - 1][i], readings[n], id)
             /\ f[n][i].key = f[n - 1][i].key
             /\ f[n - 1][i].key # readings[n].key => f[n][i] = f[n - 1][i]
  <2>1. n - 1 \in 0 .. N
    BY <1>2
  <2>2. f[n - 1] \in [I -> SensorSet(K, M, D)]
    BY <1>1, <2>1
  <2>3. f[n][i] = ProcessSensor(f[n - 1][i], readings[n], id)
    <3>1. f[n] = EachReads(f[n - 1], readings[n], id)
      BY <1>1
    <3> QED
      BY <2>2, <3>1 DEF EachReads
  <2>4. f[n - 1][i] \in SensorSet(K, M, D) /\ readings[n].value \in Int
    BY <1>2, <2>2
  <2> DEFINE x == f[n - 1][i]
             r == readings[n]
  <2> HIDE DEF x, r
  <2>5. x \in SensorSet(K, M, D) /\ r.value \in Int
    BY <2>4 DEF x, r
  <2>6. /\ ProcessSensor(x, r, id).key = x.key
        /\ x.key # r.key => ProcessSensor(x, r, id) = x
    BY <2>5, ProcessSensorIs
  <2> QED
    BY <2>3, <2>6 DEF x, r
<1>5. IsItems(P) /\ DOMAIN P = I
  <2>1. P \in [I -> SensorSet(K, M, D)]
    <3>1. N \in 0 .. N
      BY <1>2
    <3> QED
      BY <1>1, <3>1
  <2> QED
    BY <1>3, <2>1, AmongItems
<1>6. ASSUME NEW i \in I PROVE \A n \in 0 .. N : f[n][i].key = vector[i].key
  <2> DEFINE S == {n \in Nat : n <= N => f[n][i].key = vector[i].key}
  <2>1. 0 \in S
    BY <1>1
  <2>2. ASSUME NEW n \in Nat, n \in S PROVE n + 1 \in S
    <3> SUFFICES ASSUME n + 1 <= N PROVE f[n + 1][i].key = vector[i].key
      OBVIOUS
    <3>1. n + 1 \in 1 .. N /\ n <= N /\ (n + 1) - 1 = n
      BY <1>2
    <3> QED
      BY <1>4, <2>2, <3>1
  <2> HIDE DEF S
  <2>3. \A n \in Nat : n \in S
    BY <2>1, <2>2, NatSetInduction
  <2> QED
    BY <1>2, <2>3 DEF S
<1>7. ASSUME NEW i \in I, NEW p \in Nat,
             \A m \in 1 .. N : m # p => readings[m].key # vector[i].key
      PROVE  P[i] = IF p \in 1 .. N THEN ProcessSensor(vector[i], readings[p], id) ELSE vector[i]
  <2> DEFINE After(n) == IF p \in 1 .. n THEN ProcessSensor(vector[i], readings[p], id)
                         ELSE vector[i]
             S == {n \in Nat : n <= N => f[n][i] = After(n)}
  <2>1. 0 \in S
    BY <1>1
  <2>2. ASSUME NEW n \in Nat, n \in S PROVE n + 1 \in S
    <3> SUFFICES ASSUME n + 1 <= N PROVE f[n + 1][i] = After(n + 1)
      OBVIOUS
    <3>1. n + 1 \in 1 .. N /\ n \in 0 .. N /\ (n + 1) - 1 = n
      BY <1>2
    <3>2. f[n][i] = After(n)
      BY <1>2, <2>2, <3>1
    <3>3. CASE p = n + 1
      <4>1. After(n) = vector[i]
        BY <3>3
      <4>2. After(n + 1) = ProcessSensor(vector[i], readings[n + 1], id)
        BY <3>3
      <4>3. f[n + 1][i] = ProcessSensor(f[n][i], readings[n + 1], id)
        BY <1>4, <3>1
      <4> HIDE DEF After
      <4> QED
        BY <3>2, <4>1, <4>2, <4>3
    <3>4. CASE p # n + 1
      <4>1. After(n + 1) = After(n)
        <5>1. p \in 1 .. n + 1 <=> p \in 1 .. n
          BY <3>4
        <5> QED
          BY <5>1
      <4>2. readings[n + 1].key # f[n][i].key
        BY <1>6, <1>7, <3>1, <3>4
      <4>3. f[n + 1][i] = f[n][i]
        BY <1>4, <3>1, <4>2
      <4> HIDE DEF After
      <4> QED
        BY <3>2, <4>1, <4>3
    <3> QED
      BY <3>3, <3>4
  <2> HIDE DEF S
  <2>3. \A n \in Nat : n \in S
    BY <2>1, <2>2, NatSetInduction
  <2>4. f[N][i] = After(N)
    BY <1>2, <2>3 DEF S
  <2> QED
    BY <1>1, <2>4
<1>8. \A i \in I : P[i].key = vector[i].key
  <2>1. N \in 0 .. N
    BY <1>2
  <2> QED
    BY <1>1, <1>6, <2>1
<1>9. /\ IsItems(P) /\ DOMAIN P = I
      /\ \A i \in I : P[i].key = vector[i].key
      /\ \A i \in I, p \in Nat :
            (\A m \in 1 .. N : m # p => readings[m].key # vector[i].key)
            => P[i] = IF p \in 1 .. N THEN ProcessSensor(vector[i], readings[p], id)
                      ELSE vector[i]
  BY <1>5, <1>7, <1>8
<1>10. Processed(vector, readings, id, P)
  BY <1>9 DEF Processed, N, I
<1> QED
  BY <1>10 DEF P

-----------------------------------------------------------------------------
\* A table of limits, and changes of it.
IsTable(t) == t \in [DOMAIN t -> SensorRows]

IsChanges(c) == IsList(c) /\ \A i \in DOMAIN c : c[i].row \in SensorRows

\* The last change of a sensor's limits.
IsLast(c, k, p) ==
  /\ p \in 1 .. Len(c) /\ c[p].key = k
  /\ \A q \in 1 .. Len(c) : p < q => c[q].key # k

\* What is changed is changed once for the last time.
LEMMA SomeLast ==
  ASSUME NEW c, IsList(c), NEW k, \E q \in 1 .. Len(c) : c[q].key = k
  PROVE  \E p : IsLast(c, k, p)
<1> DEFINE N == Len(c)
           S == {n \in Nat : n <= N /\ (\E q \in 1 .. n : c[q].key = k) =>
                    \E p \in 1 .. n : c[p].key = k /\ \A q \in 1 .. n : p < q => c[q].key # k}
<1>1. N \in Nat
  BY ListElements
<1> HIDE DEF N
<1>2. 0 \in S
  OBVIOUS
<1>3. ASSUME NEW n \in Nat, n \in S PROVE n + 1 \in S
  <2> SUFFICES ASSUME n + 1 <= N, \E q \in 1 .. n + 1 : c[q].key = k
               PROVE  \E p \in 1 .. n + 1 : /\ c[p].key = k
                                            /\ \A q \in 1 .. n + 1 : p < q => c[q].key # k
    OBVIOUS
  <2>1. CASE c[n + 1].key = k
    <3>1. n + 1 \in 1 .. n + 1 /\ \A q \in 1 .. n + 1 : ~(n + 1 < q)
      OBVIOUS
    <3> QED
      BY <2>1, <3>1
  <2>2. CASE c[n + 1].key # k
    <3>1. \A q \in 1 .. n + 1 : q = n + 1 \/ q \in 1 .. n
      OBVIOUS
    <3>2. \E q \in 1 .. n : c[q].key = k
      BY <2>2, <3>1
    <3>3. PICK p \in 1 .. n : c[p].key = k /\ \A q \in 1 .. n : p < q => c[q].key # k
      BY <1>1, <1>3, <3>2
    <3>4. p \in 1 .. n + 1
      OBVIOUS
    <3> QED
      BY <2>2, <3>1, <3>3, <3>4
  <2> QED
    BY <2>1, <2>2
<1> HIDE DEF S
<1>4. \A n \in Nat : n \in S
  BY <1>2, <1>3, NatSetInduction
<1>5. \E q \in 1 .. N : c[q].key = k
  BY DEF N
<1>6. \E p \in 1 .. N : c[p].key = k /\ \A q \in 1 .. N : p < q => c[q].key # k
  <2>1. N \in S /\ N <= N
    BY <1>1, <1>4
  <2> QED
    BY <1>5, <2>1 DEF S
<1> QED
  BY <1>6 DEF IsLast, N

\* One change of a table.
Changed(rows, change) == [rows EXCEPT ![change.key] = change.row]

\* The changes are executed one after the other.
LEMMA ExecutedInTurn ==
  ASSUME NEW rows, IsTable(rows), NEW changes, IsChanges(changes)
  PROVE  \E f : /\ f \in [0 .. Len(changes) -> [DOMAIN rows -> SensorRows]]
                /\ f[0] = rows
                /\ \A n \in 1 .. Len(changes) : f[n] = Changed(f[n - 1], changes[n])
                /\ Executed(rows, changes) = f[Len(changes)]
<1> DEFINE V == [DOMAIN rows -> SensorRows]
           N == Len(changes)
           F == [x \in Nat \X V |->
                    IF x[1] \in 1 .. N THEN Changed(x[2], changes[x[1]]) ELSE x[2]]
           All(f) == f = [n \in 0 .. N |->
                            IF n = 0 THEN rows
                            ELSE [f[n - 1] EXCEPT ![changes[n].key] = changes[n].row]]
           after == CHOOSE f : All(f)
<1>1. rows \in V
  BY DEF IsTable
<1>2. N \in Nat /\ \A n \in 1 .. N : changes[n].row \in SensorRows
  BY ListElements DEF IsChanges
<1>3. ASSUME NEW q \in V, NEW n \in 1 .. N PROVE Changed(q, changes[n]) \in V
  BY <1>2 DEF Changed
<1> HIDE DEF V
<1>4. F \in [Nat \X V -> V]
  <2>1. ASSUME NEW x \in Nat \X V
        PROVE  (IF x[1] \in 1 .. N THEN Changed(x[2], changes[x[1]]) ELSE x[2]) \in V
    BY <1>3
  <2> QED
    BY <2>1
<1>5. \A n \in Nat, q \in V : n \in 1 .. N => F[<<n, q>>] = Changed(q, changes[n])
  OBVIOUS
<1> HIDE DEF F
<1>6. PICK g : Goes(g, V, rows, F, N)
  BY <1>1, <1>2, <1>4, Recursion
<1>7. /\ g \in [0 .. N -> V] /\ g[0] = rows
      /\ \A n \in 1 .. N : g[n] = Changed(g[n - 1], changes[n])
  <2>1. \A n \in 1 .. N : n \in Nat /\ n - 1 \in 0 .. N
    BY <1>2
  <2> QED
    BY <1>6, <1>5, <2>1 DEF Goes
<1>8. All(g)
  <2>1. \A n \in 0 .. N :
           g[n] = IF n = 0 THEN rows
                  ELSE [g[n - 1] EXCEPT ![changes[n].key] = changes[n].row]
    <3> TAKE n \in 0 .. N
    <3>1. CASE n = 0
      BY <3>1, <1>7
    <3>2. CASE n # 0
      <4>1. n \in 1 .. N
        BY <1>2, <3>2
      <4>2. g[n] = Changed(g[n - 1], changes[n])
        BY <1>7, <4>1
      <4> QED
        BY <3>2, <4>2 DEF Changed
    <3> QED
      BY <3>1, <3>2
  <2> QED
    BY <1>7, <2>1
<1>9. All(after)
  <2>1. \E f : All(f)
    BY <1>8
  <2> HIDE DEF All
  <2> QED
    BY <2>1, Zenon
<1>10. Executed(rows, changes) = after[N]
  BY DEF Executed
<1> HIDE DEF after
<1>11. /\ after[0] = rows
       /\ \A n \in 1 .. N : after[n] = Changed(after[n - 1], changes[n])
  <2>1. \A n \in 0 .. N :
           after[n] = IF n = 0 THEN rows
                      ELSE [after[n - 1] EXCEPT ![changes[n].key] = changes[n].row]
    BY <1>9
  <2> HIDE DEF All
  <2>2. after[0] = rows
    <3>1. 0 \in 0 .. N
      BY <1>2
    <3>2. after[0] = IF 0 = 0 THEN rows
                     ELSE [after[0 - 1] EXCEPT ![changes[0].key] = changes[0].row]
      BY <2>1, <3>1, Zenon
    <3> QED
      BY <3>2
  <2>3. ASSUME NEW n \in 1 .. N PROVE after[n] = Changed(after[n - 1], changes[n])
    <3>1. n \in 0 .. N /\ n # 0
      BY <1>2
    <3>2. after[n] = [after[n - 1] EXCEPT ![changes[n].key] = changes[n].row]
      BY <2>1, <3>1
    <3> QED
      BY <3>2 DEF Changed
  <2> QED
    BY <2>2, <2>3
<1> HIDE DEF All
<1>12. \A n \in 1 .. N : after[n - 1] \in V => after[n] = F[<<n, after[n - 1]>>]
  BY <1>2, <1>5, <1>11
<1>13. Agrees(after, g, N)
  BY <1>2, <1>6, <1>11, <1>12, RecursionOnce
<1>14. after[N] = g[N]
  BY <1>2, <1>13 DEF Agrees
<1> QED
  BY <1>7, <1>10, <1>14 DEF V

\* What a table is after its changes: the same rows, and in each the last change of it.
LEMMA ExecutedIs ==
  ASSUME NEW rows, IsTable(rows), NEW changes, IsChanges(changes)
  PROVE  LET E == Executed(rows, changes)
         IN  /\ IsTable(E) /\ DOMAIN E = DOMAIN rows
             /\ \A k \in DOMAIN rows :
                   /\ (\A q \in 1 .. Len(changes) : changes[q].key # k) => E[k] = rows[k]
                   /\ \A p : IsLast(changes, k, p) => E[k] = changes[p].row
<1> DEFINE N == Len(changes)
           E == Executed(rows, changes)
           R == DOMAIN rows
<1>1. PICK f : /\ f \in [0 .. N -> [R -> SensorRows]]
               /\ f[0] = rows
               /\ \A n \in 1 .. N : f[n] = Changed(f[n - 1], changes[n])
               /\ E = f[N]
  BY ExecutedInTurn
<1> HIDE DEF E
<1>2. N \in Nat
  BY ListElements DEF IsChanges
<1> HIDE DEF N, R
<1>3. ASSUME NEW n \in 1 .. N, NEW k \in R
      PROVE  /\ changes[n].key = k => f[n][k] = changes[n].row
             /\ changes[n].key # k => f[n][k] = f[n - 1][k]
  <2>1. n - 1 \in 0 .. N
    BY <1>2
  <2>2. f[n - 1] \in [R -> SensorRows] /\ f[n] = Changed(f[n - 1], changes[n])
    BY <1>1, <2>1
  <2> QED
    BY <2>2 DEF Changed
<1>4. IsTable(E) /\ DOMAIN E = R
  <2>1. N \in 0 .. N
    BY <1>2
  <2>2. E \in [R -> SensorRows]
    BY <1>1, <2>1
  <2> QED
    BY <2>2 DEF IsTable
<1>5. ASSUME NEW k \in R, NEW p \in 0 .. N, NEW row, f[p][k] = row,
             \A q \in 1 .. N : p < q => changes[q].key # k
      PROVE  E[k] = row
  <2> DEFINE S == {n \in Nat : p <= n /\ n <= N => f[n][k] = row}
  <2>1. 0 \in S
    BY <1>2, <1>5
  <2>2. ASSUME NEW n \in Nat, n \in S PROVE n + 1 \in S
    <3> SUFFICES ASSUME p <= n + 1, n + 1 <= N PROVE f[n + 1][k] = row
      OBVIOUS
    <3>1. CASE p = n + 1
      BY <1>5, <3>1
    <3>2. CASE p # n + 1
      <4>1. p <= n /\ n <= N /\ n + 1 \in 1 .. N /\ (n + 1) - 1 = n /\ p < n + 1
        BY <1>2, <3>2
      <4>2. f[n][k] = row
        BY <2>2, <4>1
      <4>3. changes[n + 1].key # k
        BY <1>5, <4>1
      <4>4. f[n + 1][k] = f[n][k]
        BY <1>3, <4>1, <4>3
      <4> QED
        BY <4>2, <4>4
    <3> QED
      BY <3>1, <3>2
  <2> HIDE DEF S
  <2>3. \A n \in Nat : n \in S
    BY <2>1, <2>2, NatSetInduction
  <2>4. p <= N
    BY <1>2
  <2> QED
    BY <1>1, <1>2, <2>3, <2>4 DEF S
<1>6. ASSUME NEW k \in R, \A q \in 1 .. N : changes[q].key # k PROVE E[k] = rows[k]
  <2>1. 0 \in 0 .. N /\ f[0][k] = rows[k]
    BY <1>1, <1>2
  <2> QED
    BY <1>5, <1>6, <2>1
<1>7. ASSUME NEW k \in R, NEW p, IsLast(changes, k, p) PROVE E[k] = changes[p].row
  <2>1. p \in 1 .. N /\ changes[p].key = k /\ \A q \in 1 .. N : p < q => changes[q].key # k
    BY <1>7 DEF IsLast, N
  <2>2. p \in 0 .. N /\ f[p][k] = changes[p].row
    BY <1>2, <1>3, <2>1
  <2> QED
    BY <1>5, <2>1, <2>2
<1>8. /\ IsTable(E) /\ DOMAIN E = R
      /\ \A k \in R : /\ (\A q \in 1 .. N : changes[q].key # k) => E[k] = rows[k]
                      /\ \A p : IsLast(changes, k, p) => E[k] = changes[p].row
  BY <1>4, <1>6, <1>7
<1> QED
  BY <1>8 DEF E, R, N

\* The row that changes give a sensor.
IsGiven(c, k, row) ==
  /\ \E j \in 1 .. Len(c) : c[j].key = k
  /\ \A j \in 1 .. Len(c) : c[j].key = k => c[j].row = row

\* Changes that are behind others count, and rows they do not name stay as those others left them.
LEMMA ExecutedMore ==
  ASSUME NEW rows, IsTable(rows), NEW more, IsTable(more),
         NEW p, IsChanges(p), NEW c, IsChanges(c), NEW k \in DOMAIN more
  PROVE  /\ IsChanges(p \o c)
         /\ (\A j \in 1 .. Len(c) : c[j].key # k) /\ k \in DOMAIN rows /\ more[k] = rows[k]
            => Executed(more, p \o c)[k] = Executed(rows, p)[k]
         /\ (\A j \in 1 .. Len(c) : c[j].key # k) /\ (\A j \in 1 .. Len(p) : p[j].key # k)
            => Executed(more, p \o c)[k] = more[k]
         /\ \A row : IsGiven(c, k, row) => Executed(more, p \o c)[k] = row
<1> DEFINE q == p \o c
           M == Len(p)
           N == Len(c)
<1>1. M \in Nat /\ N \in Nat /\ DOMAIN p = 1 .. M /\ DOMAIN c = 1 .. N
  BY ListElements DEF IsChanges
<1>2. IsList(q) /\ IsList(p) /\ IsList(c) /\ ToSet(q) = ToSet(p) \cup ToSet(c)
  BY ListJoined DEF IsChanges
<1>3. /\ Len(q) = M + N
      /\ \A i \in 1 .. M + N : q[i] = IF i <= M THEN p[i] ELSE c[i - M]
  <2> DEFINE T == ToSet(q)
  <2>1. p \in Seq(T) /\ c \in Seq(T)
    BY <1>2 DEF IsList
  <2> HIDE DEF T
  <2> QED
    BY <2>1, ConcatProperties, SMTT(30)
<1>4. IsChanges(q)
  <2>1. \A x \in ToSet(p) \cup ToSet(c) : x.row \in SensorRows
    BY DEF IsChanges, ToSet
  <2>2. \A i \in DOMAIN q : q[i] \in ToSet(q)
    BY DEF ToSet
  <2> QED
    BY <1>2, <2>1, <2>2 DEF IsChanges
<1> HIDE DEF q, M, N
<1>5. /\ \A i \in 1 .. M : i \in 1 .. Len(q) /\ q[i] = p[i]
      /\ \A j \in 1 .. N : M + j \in 1 .. Len(q) /\ q[M + j] = c[j]
      /\ \A i \in 1 .. Len(q) : i \in 1 .. M \/ \E j \in 1 .. N : i = M + j
  <2>1. \A i \in 1 .. M : i \in 1 .. M + N /\ i <= M
    BY <1>1
  <2>2. \A j \in 1 .. N : M + j \in 1 .. M + N /\ ~(M + j <= M) /\ (M + j) - M = j
    BY <1>1
  <2>3. ASSUME NEW i \in 1 .. M + N, i \notin 1 .. M PROVE \E j \in 1 .. N : i = M + j
    <3>1. i - M \in 1 .. N /\ i = M + (i - M)
      BY <1>1, <2>3
    <3> QED
      BY <3>1
  <2> QED
    BY <1>3, <2>1, <2>2, <2>3
<1>6. ASSUME \A j \in 1 .. N : c[j].key # k, \A j \in 1 .. M : p[j].key # k
      PROVE  Executed(more, q)[k] = more[k]
  <2>1. \A i \in 1 .. Len(q) : q[i].key # k
    BY <1>5, <1>6
  <2> QED
    BY <1>4, <2>1, ExecutedIs
<1>7. ASSUME \A j \in 1 .. N : c[j].key # k, k \in DOMAIN rows /\ more[k] = rows[k]
      PROVE  Executed(more, q)[k] = Executed(rows, p)[k]
  <2>1. CASE \A j \in 1 .. M : p[j].key # k
    <3>1. Executed(rows, p)[k] = rows[k]
      BY <1>7, <2>1, ExecutedIs DEF M
    <3> QED
      BY <1>6, <1>7, <2>1, <3>1
  <2>2. CASE \E j \in 1 .. M : p[j].key = k
    <3>1. PICK l : IsLast(p, k, l)
      BY <1>2, <2>2, SomeLast DEF M
    <3>2. l \in 1 .. M /\ p[l].key = k /\ \A i \in 1 .. M : l < i => p[i].key # k
      BY <3>1 DEF IsLast, M
    <3>3. IsLast(q, k, l)
      BY <1>5, <1>7, <3>2 DEF IsLast
    <3>4. Executed(more, q)[k] = q[l].row
      BY <1>4, <3>3, ExecutedIs
    <3>5. Executed(rows, p)[k] = p[l].row
      BY <1>7, <3>1, ExecutedIs
    <3> QED
      BY <1>5, <3>2, <3>4, <3>5
  <2> QED
    BY <2>1, <2>2
<1>8. ASSUME NEW row, \E j \in 1 .. N : c[j].key = k,
             \A j \in 1 .. N : c[j].key = k => c[j].row = row
      PROVE  Executed(more, q)[k] = row
  <2>1. PICK l : IsLast(c, k, l)
    BY <1>2, <1>8, SomeLast DEF N
  <2>2. l \in 1 .. N /\ c[l].key = k /\ \A i \in 1 .. N : l < i => c[i].key # k
    BY <2>1 DEF IsLast, N
  <2>3. M + l \in 1 .. Len(q) /\ q[M + l] = c[l]
    BY <1>5, <2>2
  <2>4. ASSUME NEW i \in 1 .. Len(q), M + l < i PROVE q[i].key # k
    <3>1. i \notin 1 .. M
      BY <1>1, <2>2, <2>4
    <3>2. PICK j \in 1 .. N : i = M + j
      BY <1>5, <3>1
    <3>3. l < j /\ q[i] = c[j]
      BY <1>1, <1>5, <2>2, <2>4, <3>2
    <3> QED
      BY <2>2, <3>3
  <2>5. IsLast(q, k, M + l)
    BY <2>2, <2>3, <2>4 DEF IsLast
  <2>6. Executed(more, q)[k] = q[M + l].row
    BY <1>4, <2>5, ExecutedIs
  <2> QED
    BY <1>8, <2>2, <2>3, <2>6
<1> QED
  BY <1>4, <1>6, <1>7, <1>8 DEF q, M, N, IsGiven

\* What comes last is what counts.
LEMMA ExecutedLast ==
  ASSUME NEW more, IsTable(more), NEW p, IsChanges(p), NEW c, IsChanges(c), NEW k \in DOMAIN more,
         NEW row, IsGiven(c, k, row)
  PROVE  Executed(more, p \o c)[k] = row
<1>1. \A r : IsGiven(c, k, r) => Executed(more, p \o c)[k] = r
  BY ExecutedMore
<1> QED
  BY <1>1

\* The keys of a vector differ.
SensorsOnce(vector) == \A i, j \in DOMAIN vector : vector[i].key = vector[j].key => i = j

\* The changes an update stores: the limits of just the sensors that changed.
LEMMA ChangesAre ==
  ASSUME NEW vector, IsItems(vector), SensorsOnce(vector)
  PROVE  LET c == Changes(vector)
         IN  /\ IsChanges(c)
             /\ \A j \in 1 .. Len(c) : \E i \in DOMAIN vector :
                   /\ vector[i].changed
                   /\ c[j].key = vector[i].key /\ c[j].row = Row(vector[i].low, vector[i].high)
             /\ \A i \in DOMAIN vector : vector[i].changed =>
                   /\ \E j \in 1 .. Len(c) : c[j].key = vector[i].key
                   /\ \A j \in 1 .. Len(c) : c[j].key = vector[i].key =>
                         c[j].row = Row(vector[i].low, vector[i].high)
<1> DEFINE S == {x \in ToSet(vector) : x.changed}
           q == Only(vector, S)
           c == Changes(vector)
<1>1. c = [i \in DOMAIN q |-> [key |-> q[i].key, row |-> Row(q[i].low, q[i].high)]]
  BY DEF Changes, Those
<1>2. IsList(vector) /\ \A i \in DOMAIN vector : IsSensor(vector[i])
  BY DEF IsItems
<1>3. IsList(q) /\ ToSet(q) = S
  <2>1. IsList(q) /\ ToSet(q) = ToSet(vector) \cap S
    BY <1>2, ListOnly
  <2> QED
    BY <2>1
<1> HIDE DEF c, q
<1>4. Len(q) \in Nat /\ DOMAIN q = 1 .. Len(q)
  BY <1>3, ListElements
<1>5. IsList(c) /\ Len(c) = Len(q) /\ DOMAIN c = DOMAIN q
  <2>1. c = [i \in 1 .. Len(q) |-> c[i]]
    BY <1>1, <1>4
  <2> QED
    BY <1>4, <2>1, ListOf
<1>6. ASSUME NEW j \in DOMAIN q
      PROVE  \E i \in DOMAIN vector :
                /\ vector[i].changed /\ q[j] = vector[i]
                /\ c[j].key = vector[i].key /\ c[j].row = Row(vector[i].low, vector[i].high)
  <2>1. q[j] \in S
    BY <1>3 DEF ToSet
  <2>2. PICK i \in DOMAIN vector : q[j] = vector[i] /\ vector[i].changed
    BY <2>1 DEF ToSet
  <2>3. c[j] = [key |-> vector[i].key, row |-> Row(vector[i].low, vector[i].high)]
    BY <1>1, <2>2
  <2> QED
    BY <2>2, <2>3
<1>7. IsChanges(c)
  <2>1. ASSUME NEW j \in DOMAIN c PROVE c[j].row \in SensorRows
    <3>1. PICK i \in DOMAIN vector : c[j].row = Row(vector[i].low, vector[i].high)
      BY <1>5, <1>6, <2>1
    <3>2. vector[i].low \in Int /\ vector[i].high \in Int
      BY <1>2 DEF IsSensor, SensorSet
    <3> QED
      BY <3>1, <3>2 DEF Row, SensorRows
  <2> QED
    BY <1>5, <2>1 DEF IsChanges
<1>8. ASSUME NEW i \in DOMAIN vector, vector[i].changed
      PROVE  /\ \E j \in 1 .. Len(c) : c[j].key = vector[i].key
             /\ \A j \in 1 .. Len(c) : c[j].key = vector[i].key =>
                   c[j].row = Row(vector[i].low, vector[i].high)
  <2>1. vector[i] \in ToSet(q)
    BY <1>3, <1>8 DEF ToSet
  <2>2. PICK j \in DOMAIN q : q[j] = vector[i]
    BY <2>1 DEF ToSet
  <2>3. c[j] = [key |-> vector[i].key, row |-> Row(vector[i].low, vector[i].high)]
    BY <1>1, <2>2
  <2>4. c[j].key = vector[i].key /\ j \in 1 .. Len(c)
    BY <1>4, <1>5, <2>3
  <2>5. ASSUME NEW l \in 1 .. Len(c), c[l].key = vector[i].key
        PROVE  c[l].row = Row(vector[i].low, vector[i].high)
    <3>1. PICK n \in DOMAIN vector : /\ c[l].key = vector[n].key
                                    /\ c[l].row = Row(vector[n].low, vector[n].high)
      BY <1>4, <1>5, <1>6, <2>5
    <3>2. n = i
      BY <2>5, <3>1 DEF SensorsOnce
    <3> QED
      BY <3>1, <3>2
  <2> QED
    BY <2>4, <2>5
<1>9. /\ IsChanges(c)
      /\ \A j \in 1 .. Len(c) : \E i \in DOMAIN vector :
            /\ vector[i].changed
            /\ c[j].key = vector[i].key /\ c[j].row = Row(vector[i].low, vector[i].high)
  BY <1>4, <1>5, <1>6, <1>7
<1> QED
  BY <1>8, <1>9 DEF c

-----------------------------------------------------------------------------
\* An element in front of a sequence.
LEMMA Prepended ==
  ASSUME NEW T, NEW s \in Seq(T), NEW e \in T
  PROVE  LET q == <<e>> \o s
         IN  /\ q \in Seq(T) /\ Len(s) \in Nat /\ Len(q) = Len(s) + 1 /\ DOMAIN q = 1 .. Len(s) + 1
             /\ q[1] = e
             /\ \A i \in 1 .. Len(s) : i + 1 \in DOMAIN q /\ q[i + 1] = s[i]
             /\ \A i \in DOMAIN q : i = 1 \/ (i - 1 \in 1 .. Len(s) /\ q[i] = s[i - 1])
<1> DEFINE q == <<e>> \o s
<1>1. <<e>> \in Seq(T) /\ Len(<<e>>) = 1 /\ <<e>>[1] = e
  OBVIOUS
<1>2. /\ q \in Seq(T) /\ Len(q) = 1 + Len(s)
      /\ \A i \in 1 .. 1 + Len(s) : q[i] = IF i <= 1 THEN <<e>>[i] ELSE s[i - 1]
  BY <1>1, ConcatProperties, SMTT(30)
<1> HIDE DEF q
<1>3. Len(s) \in Nat /\ DOMAIN q = 1 .. Len(s) + 1
  BY <1>2
<1>4. q[1] = e
  <2>1. 1 \in 1 .. 1 + Len(s) /\ 1 <= 1
    BY <1>3
  <2> QED
    BY <1>1, <1>2, <2>1
<1>5. ASSUME NEW i \in 1 .. Len(s) PROVE i + 1 \in DOMAIN q /\ q[i + 1] = s[i]
  <2>1. i + 1 \in 1 .. 1 + Len(s) /\ ~(i + 1 <= 1) /\ (i + 1) - 1 = i
    BY <1>3
  <2> QED
    BY <1>2, <1>3, <2>1
<1>6. ASSUME NEW i \in DOMAIN q, i # 1 PROVE i - 1 \in 1 .. Len(s) /\ q[i] = s[i - 1]
  <2>1. i \in 1 .. 1 + Len(s) /\ ~(i <= 1) /\ i - 1 \in 1 .. Len(s)
    BY <1>3, <1>6
  <2> QED
    BY <1>2, <2>1
<1> QED
  BY <1>2, <1>3, <1>4, <1>5, <1>6 DEF q

\* The limits a new sensor is given: those of the table, or none.
Given(rows, key) == IF key \in DOMAIN rows THEN rows[key] ELSE Row(-1, 0)

\* Sensors and rows grown from old ones: the rows are kept, and there is one of defaults for each
\* new sensor that had none; a sensor is an old one or has the limits it was given.
Grown(old, rows, s) ==
  /\ s \in [items : {s.items}, rows : {s.rows}]
  /\ IsItems(s.items) /\ SensorsOnce(s.items) /\ IsTable(s.rows)
  /\ DOMAIN s.rows = DOMAIN rows \cup KeysOf(s.items)
  /\ \A k \in DOMAIN s.rows : s.rows[k] = IF k \in DOMAIN rows THEN rows[k] ELSE Row(0, 0)
  /\ KeysOf(old) \subseteq KeysOf(s.items)
  /\ \A i \in DOMAIN s.items :
        \/ \E j \in DOMAIN old : s.items[i] = old[j]
        \/ /\ s.items[i].key \notin KeysOf(old)
           /\ Row(s.items[i].low, s.items[i].high) = Given(rows, s.items[i].key)

\* The sensors that were made are the ones there were, and those named so.
Added(s, named, c) ==
  \A i \in DOMAIN c.items :
     \/ \E j \in DOMAIN s.items : c.items[i] = s.items[j]
     \/ /\ c.items[i].key = named.key /\ c.items[i].method = named.method
        /\ c.items[i].kind = named.kind

\* createSensor lets sensors and rows grow.
LEMMA CreateSensorGrows ==
  ASSUME NEW old, NEW rows, IsTable(rows), NEW s, Grown(old, rows, s), NEW named,
         NEW garbage \in BOOLEAN
  PROVE  /\ Grown(old, rows, CreateSensor(s, named, garbage))
         /\ Added(s, named, CreateSensor(s, named, garbage))
<1> DEFINE known == named.key \in DOMAIN s.rows
           row   == IF known THEN s.rows[named.key] ELSE Row(-1, 0)
           e     == [key |-> named.key, method |-> named.method, kind |-> named.kind,
                     low |-> row.low, high |-> row.high, changed |-> garbage, samples |-> << >>]
           vector == <<e>> \o s.items
           more  == [k \in DOMAIN s.rows \cup {named.key} |->
                        IF k \in DOMAIN s.rows THEN s.rows[k] ELSE Row(0, 0)]
           c     == CreateSensor(s, named, garbage)
<1>1. /\ IsItems(s.items) /\ SensorsOnce(s.items) /\ IsTable(s.rows)
      /\ DOMAIN s.rows = DOMAIN rows \cup KeysOf(s.items)
      /\ \A k \in DOMAIN s.rows : s.rows[k] = IF k \in DOMAIN rows THEN rows[k] ELSE Row(0, 0)
      /\ KeysOf(old) \subseteq KeysOf(s.items)
      /\ \A i \in DOMAIN s.items :
            \/ \E j \in DOMAIN old : s.items[i] = old[j]
            \/ /\ s.items[i].key \notin KeysOf(old)
               /\ Row(s.items[i].low, s.items[i].high) = Given(rows, s.items[i].key)
  BY DEF Grown
<1>2. CASE \E i \in DOMAIN s.items : s.items[i].key = named.key
  BY <1>2 DEF CreateSensor, Added
<1>3. CASE ~ \E i \in DOMAIN s.items : s.items[i].key = named.key
  <2>1. c = [items |-> vector, rows |-> more]
    BY <1>3 DEF CreateSensor
  <2> HIDE DEF c
  <2>2. named.key \notin KeysOf(s.items)
    BY <1>3 DEF KeysOf
  <2>3. known <=> named.key \in DOMAIN rows
    BY <1>1, <2>2
  <2>4. row = Given(rows, named.key)
    BY <1>1, <2>3 DEF Given
  <2>5. row \in SensorRows /\ Row(row.low, row.high) = row
    <3>1. CASE known
      <4>1. row \in SensorRows
        BY <1>1, <3>1 DEF IsTable
      <4> HIDE DEF row
      <4> QED
        BY <4>1 DEF SensorRows, Row
    <3>2. CASE ~known
      BY <3>2 DEF SensorRows, Row
    <3> QED
      BY <3>1, <3>2
  <2> HIDE DEF row
  <2> DEFINE K == {named.key} \cup {s.items[i].key : i \in DOMAIN s.items}
             M == {named.method} \cup {s.items[i].method : i \in DOMAIN s.items}
             D == {named.kind} \cup {s.items[i].kind : i \in DOMAIN s.items}
             T == SensorSet(K, M, D)
  <2>6. e \in T
    <3>1. << >> \in Seq([id : Nat, value : Int])
      OBVIOUS
    <3>2. row.low \in Int /\ row.high \in Int
      BY <2>5 DEF SensorRows
    <3>3. named.key \in K /\ named.method \in M /\ named.kind \in D
      OBVIOUS
    <3> HIDE DEF K, M, D
    <3> QED
      BY <3>1, <3>2, <3>3 DEF SensorSet
  <2>7. s.items \in Seq(T) /\ Len(s.items) \in Nat /\ DOMAIN s.items = 1 .. Len(s.items)
    <3>1. \A i \in DOMAIN s.items : s.items[i].key \in K /\ s.items[i].method \in M
                                    /\ s.items[i].kind \in D
      OBVIOUS
    <3> HIDE DEF K, M, D
    <3> QED
      BY <1>1, <3>1, ItemsAmong
  <2>8. /\ e.key = named.key /\ e.low = row.low /\ e.high = row.high
        /\ e.method = named.method /\ e.kind = named.kind
    OBVIOUS
  <2> HIDE DEF e
  <2>9. /\ vector \in Seq(T) /\ DOMAIN vector = 1 .. Len(s.items) + 1
        /\ vector[1] = e
        /\ \A i \in DOMAIN s.items : i + 1 \in DOMAIN vector /\ vector[i + 1] = s.items[i]
        /\ \A i \in DOMAIN vector : i = 1 \/ (i - 1 \in DOMAIN s.items /\ vector[i] = s.items[i - 1])
    <3> HIDE DEF T
    <3> QED
      BY <2>6, <2>7, Prepended
  <2>10. IsItems(vector)
    <3>1. vector \in [1 .. Len(s.items) + 1 -> T] /\ Len(s.items) + 1 \in Nat
      <4> HIDE DEF vector, T
      <4> QED
        BY <2>7, <2>9
    <3> HIDE DEF vector, K, M, D
    <3> QED
      BY <3>1, AmongItems
  <2> HIDE DEF vector, K, M, D, T
  <2>11. KeysOf(vector) = KeysOf(s.items) \cup {named.key}
    <3>1. ASSUME NEW i \in DOMAIN vector PROVE vector[i].key \in KeysOf(s.items) \cup {named.key}
      BY <2>8, <2>9 DEF KeysOf
    <3>2. ASSUME NEW i \in DOMAIN s.items PROVE s.items[i].key \in KeysOf(vector)
      <4>1. i + 1 \in DOMAIN vector /\ vector[i + 1].key = s.items[i].key
        BY <2>9
      <4> QED
        BY <4>1 DEF KeysOf
    <3>3. named.key \in KeysOf(vector)
      <4>1. 1 \in DOMAIN vector /\ vector[1].key = named.key
        BY <2>7, <2>8, <2>9
      <4> QED
        BY <4>1 DEF KeysOf
    <3> QED
      BY <3>1, <3>2, <3>3 DEF KeysOf
  <2>12. SensorsOnce(vector)
    <3>1. ASSUME NEW i \in DOMAIN vector, NEW j \in DOMAIN vector, vector[i].key = vector[j].key
          PROVE  i = j
      <4>1. \A n \in DOMAIN vector : n # 1 => vector[n].key \in KeysOf(s.items)
        BY <2>9 DEF KeysOf
      <4>2. CASE i = 1 \/ j = 1
        BY <2>2, <2>8, <2>9, <3>1, <4>1, <4>2
      <4>3. CASE i # 1 /\ j # 1
        <5>1. /\ i - 1 \in DOMAIN s.items /\ vector[i] = s.items[i - 1]
              /\ j - 1 \in DOMAIN s.items /\ vector[j] = s.items[j - 1]
          BY <2>9, <4>3
        <5>2. i - 1 = j - 1
          BY <1>1, <3>1, <5>1 DEF SensorsOnce
        <5> QED
          BY <2>7, <2>9, <5>2
      <4> QED
        BY <4>2, <4>3
    <3> QED
      BY <3>1 DEF SensorsOnce
  <2>13. /\ IsTable(more) /\ DOMAIN more = DOMAIN rows \cup KeysOf(vector)
         /\ \A k \in DOMAIN more : more[k] = IF k \in DOMAIN rows THEN rows[k] ELSE Row(0, 0)
    <3>1. DOMAIN more = DOMAIN s.rows \cup {named.key}
      OBVIOUS
    <3>2. ASSUME NEW k \in DOMAIN more
          PROVE  more[k] = (IF k \in DOMAIN rows THEN rows[k] ELSE Row(0, 0))
      BY <1>1, <2>3, <3>1
    <3>3. Row(0, 0) \in SensorRows
      BY DEF Row, SensorRows
    <3>4. \A k \in DOMAIN more : more[k] \in SensorRows
      BY <1>1, <3>1, <3>3 DEF IsTable
    <3>5. more = [k \in DOMAIN more |-> more[k]]
      OBVIOUS
    <3> HIDE DEF more
    <3>6. IsTable(more)
      BY <3>4, <3>5 DEF IsTable
    <3> QED
      BY <1>1, <2>11, <3>1, <3>2, <3>6
  <2> HIDE DEF more
  <2>14. ASSUME NEW i \in DOMAIN vector
         PROVE  \/ \E j \in DOMAIN old : vector[i] = old[j]
                \/ /\ vector[i].key \notin KeysOf(old)
                   /\ Row(vector[i].low, vector[i].high) = Given(rows, vector[i].key)
    <3>1. CASE i = 1
      <4>1. vector[i].key = named.key /\ vector[i].low = row.low /\ vector[i].high = row.high
        BY <2>8, <2>9, <3>1
      <4> QED
        BY <1>1, <2>2, <2>4, <2>5, <4>1
    <3>2. CASE i # 1
      <4>1. i - 1 \in DOMAIN s.items /\ vector[i] = s.items[i - 1]
        BY <2>9, <3>2
      <4> QED
        BY <1>1, <4>1
    <3> QED
      BY <3>1, <3>2
  <2>15. c.items = vector /\ c.rows = more /\ c \in [items : {c.items}, rows : {c.rows}]
    BY <2>1
  <2>16. KeysOf(old) \subseteq KeysOf(vector)
    BY <1>1, <2>11
  <2>17. Grown(old, rows, c)
    BY <2>10, <2>12, <2>13, <2>14, <2>15, <2>16 DEF Grown
  <2>18. ASSUME NEW i \in DOMAIN c.items
         PROVE  \/ \E j \in DOMAIN s.items : c.items[i] = s.items[j]
                \/ /\ c.items[i].key = named.key /\ c.items[i].method = named.method
                   /\ c.items[i].kind = named.kind
    BY <2>8, <2>9, <2>15
  <2> QED
    BY <2>17, <2>18 DEF c, Added
<1> QED
  BY <1>2, <1>3

\* Sensors and rows grow while sensors are made one after the other.
LEMMA CreateAllGrows ==
  ASSUME NEW old, NEW rows, IsTable(rows), NEW s, Grown(old, rows, s), NEW all, IsList(all),
         NEW garbage \in BOOLEAN
  PROVE  Grown(old, rows, CreateAll(s, all, garbage))
<1> DEFINE N == Len(all)
           K == {s.items[i].key : i \in DOMAIN s.items} \cup {all[n].key : n \in 1 .. N}
           M == {s.items[i].method : i \in DOMAIN s.items} \cup {all[n].method : n \in 1 .. N}
           D == {s.items[i].kind : i \in DOMAIN s.items} \cup {all[n].kind : n \in 1 .. N}
           RowTables == UNION {[E -> SensorRows] : E \in SUBSET (DOMAIN rows \cup K)}
           V == {t \in [items : Seq(SensorSet(K, M, D)), rows : RowTables] : Grown(old, rows, t)}
           F == [x \in Nat \X V |->
                    IF x[1] \in 1 .. N THEN CreateSensor(x[2], all[x[1]], garbage) ELSE x[2]]
           All(f) == f = [n \in 0 .. N |->
                            IF n = 0 THEN s ELSE CreateSensor(f[n - 1], all[n], garbage)]
           made == CHOOSE f : All(f)
<1>1. N \in Nat
  BY ListElements
<1>2. /\ \A i \in DOMAIN s.items : s.items[i].key \in K /\ s.items[i].method \in M
                                   /\ s.items[i].kind \in D
      /\ \A n \in 1 .. N : all[n].key \in K /\ all[n].method \in M /\ all[n].kind \in D
  OBVIOUS
<1> HIDE DEF K, M, D
<1>3. ASSUME NEW t, Grown(old, rows, t),
             \A i \in DOMAIN t.items : t.items[i].key \in K /\ t.items[i].method \in M
                                       /\ t.items[i].kind \in D
      PROVE  t \in V
  <2>1. /\ t \in [items : {t.items}, rows : {t.rows}]
        /\ IsItems(t.items) /\ IsTable(t.rows)
        /\ DOMAIN t.rows = DOMAIN rows \cup KeysOf(t.items)
    BY <1>3 DEF Grown
  <2>2. t.items \in Seq(SensorSet(K, M, D))
    BY <1>3, <2>1, ItemsAmong
  <2>3. KeysOf(t.items) \subseteq K
    BY <1>3 DEF KeysOf
  <2>4. t.rows \in RowTables
    <3>1. DOMAIN t.rows \in SUBSET (DOMAIN rows \cup K)
      BY <2>1, <2>3
    <3>2. t.rows \in [DOMAIN t.rows -> SensorRows]
      BY <2>1 DEF IsTable
    <3> QED
      BY <3>1, <3>2
  <2> HIDE DEF RowTables
  <2>5. t \in [items : Seq(SensorSet(K, M, D)), rows : RowTables]
    BY <2>1, <2>2, <2>4
  <2> QED
    BY <1>3, <2>5
<1>4. s \in V
  BY <1>2, <1>3
<1>5. ASSUME NEW t \in V, NEW n \in 1 .. N PROVE CreateSensor(t, all[n], garbage) \in V
  <2> DEFINE c == CreateSensor(t, all[n], garbage)
  <2>1. Grown(old, rows, t) /\ t.items \in Seq(SensorSet(K, M, D))
    <3> HIDE DEF RowTables
    <3> QED
      OBVIOUS
  <2>2. /\ Grown(old, rows, c)
        /\ \A i \in DOMAIN c.items :
              \/ \E j \in DOMAIN t.items : c.items[i] = t.items[j]
              \/ /\ c.items[i].key = all[n].key /\ c.items[i].method = all[n].method
                 /\ c.items[i].kind = all[n].kind
    <3> DEFINE named == all[n]
    <3> HIDE DEF V, named
    <3>1. Grown(old, rows, CreateSensor(t, named, garbage))
      BY <2>1, CreateSensorGrows
    <3>2. Added(t, named, CreateSensor(t, named, garbage))
      BY <2>1, CreateSensorGrows
    <3> QED
      BY <3>1, <3>2 DEF named, Added
  <2>3. \A j \in DOMAIN t.items : t.items[j].key \in K /\ t.items[j].method \in M
                                  /\ t.items[j].kind \in D
    <3>1. \A j \in DOMAIN t.items : t.items[j] \in SensorSet(K, M, D)
      BY <2>1
    <3> QED
      BY <3>1 DEF SensorSet
  <2> HIDE DEF c
  <2>4. \A i \in DOMAIN c.items : c.items[i].key \in K /\ c.items[i].method \in M
                                  /\ c.items[i].kind \in D
    BY <1>2, <2>2, <2>3
  <2>5. c \in V
    BY <1>3, <2>2, <2>4
  <2> QED
    BY <2>5 DEF c
<1>6. \A t \in V : Grown(old, rows, t)
  OBVIOUS
<1> HIDE DEF V
<1>7. F \in [Nat \X V -> V]
  <2>1. ASSUME NEW x \in Nat \X V
        PROVE  (IF x[1] \in 1 .. N THEN CreateSensor(x[2], all[x[1]], garbage) ELSE x[2]) \in V
    BY <1>5
  <2> QED
    BY <2>1
<1>8. \A n \in Nat, q \in V : n \in 1 .. N => F[<<n, q>>] = CreateSensor(q, all[n], garbage)
  OBVIOUS
<1> HIDE DEF F
<1>9. PICK g : Goes(g, V, s, F, N)
  BY <1>1, <1>4, <1>7, Recursion
<1>10. /\ g \in [0 .. N -> V] /\ g[0] = s
       /\ \A n \in 1 .. N : g[n] = CreateSensor(g[n - 1], all[n], garbage)
  <2>1. \A n \in 1 .. N : n \in Nat /\ n - 1 \in 0 .. N
    BY <1>1
  <2> QED
    BY <1>9, <1>8, <2>1 DEF Goes
<1>11. All(g)
  <2>1. \A n \in 0 .. N :
           g[n] = IF n = 0 THEN s ELSE CreateSensor(g[n - 1], all[n], garbage)
    BY <1>1, <1>10
  <2> QED
    BY <1>10, <2>1
<1>12. All(made)
  <2>1. \E f : All(f)
    BY <1>11
  <2> HIDE DEF All
  <2> QED
    BY <2>1, Zenon
<1>13. CreateAll(s, all, garbage) = made[N]
  BY DEF CreateAll
<1> HIDE DEF made
<1>14. /\ made[0] = s
       /\ \A n \in 1 .. N : made[n] = CreateSensor(made[n - 1], all[n], garbage)
  <2>1. \A n \in 0 .. N :
           made[n] = IF n = 0 THEN s ELSE CreateSensor(made[n - 1], all[n], garbage)
    BY <1>12
  <2> HIDE DEF All
  <2>2. 0 \in 0 .. N /\ \A n \in 1 .. N : n \in 0 .. N /\ n # 0
    BY <1>1
  <2> QED
    BY <2>1, <2>2
<1> HIDE DEF All
<1>15. \A n \in 1 .. N : made[n - 1] \in V => made[n] = F[<<n, made[n - 1]>>]
  BY <1>1, <1>8, <1>14
<1>16. Agrees(made, g, N)
  BY <1>1, <1>9, <1>14, <1>15, RecursionOnce
<1>17. made[N] \in V
  BY <1>1, <1>10, <1>16 DEF Agrees
<1> QED
  BY <1>6, <1>13, <1>17

\* A QNAP's sensor grows like any other, and takes nothing of the others' limits.
LEMMA QnapCreatedGrows ==
  ASSUME NEW rows, IsTable(rows), NEW s, Grown(<< >>, rows, s), NEW found, IsShown(found),
         NEW garbage \in BOOLEAN
  PROVE  Grown(<< >>, rows, QnapCreated(s, found, garbage))
<1> DEFINE made  == CreateAll(s, QnapNamed(found), garbage)
           vector == [i \in DOMAIN made.items |->
                        [made.items[i] EXCEPT !.method = 3, !.kind = 0]]
           q     == QnapCreated(s, found, garbage)
<1>1. CASE QnapNamed(found) = << >>
  BY <1>1 DEF QnapCreated
<1>2. CASE QnapNamed(found) # << >>
  <2>1. q = [made EXCEPT !.items = vector]
    BY <1>2 DEF QnapCreated
  <2>2. Grown(<< >>, rows, made)
    BY NamedAre, CreateAllGrows
  <2> HIDE DEF made
  <2>3. /\ made \in [items : {made.items}, rows : {made.rows}]
        /\ IsItems(made.items) /\ SensorsOnce(made.items) /\ IsTable(made.rows)
        /\ DOMAIN made.rows = DOMAIN rows \cup KeysOf(made.items)
        /\ \A k \in DOMAIN made.rows :
              made.rows[k] = IF k \in DOMAIN rows THEN rows[k] ELSE Row(0, 0)
        /\ \A i \in DOMAIN made.items :
              Row(made.items[i].low, made.items[i].high) = Given(rows, made.items[i].key)
    BY <2>2 DEF Grown
  <2>4. Len(made.items) \in Nat /\ DOMAIN made.items = 1 .. Len(made.items)
    BY <2>3, ListElements DEF IsItems
  <2>5. ASSUME NEW i \in DOMAIN made.items
        PROVE  /\ vector[i] \in SensorSet(KeysOf(made.items), {3}, {0})
               /\ vector[i].key = made.items[i].key
               /\ vector[i].low = made.items[i].low /\ vector[i].high = made.items[i].high
    <3>1. IsSensor(made.items[i])
      BY <2>3 DEF IsItems
    <3>2. made.items[i].key \in KeysOf(made.items)
      BY DEF KeysOf
    <3> DEFINE x == made.items[i]
    <3>3. vector[i] = [x EXCEPT !.method = 3, !.kind = 0]
      OBVIOUS
    <3> HIDE DEF x, vector
    <3> QED
      BY <3>1, <3>2, <3>3 DEF IsSensor, SensorSet, x
  <2>6. vector = [i \in 1 .. Len(made.items) |-> vector[i]] /\ DOMAIN vector = DOMAIN made.items
    BY <2>4
  <2>7. q \in [items : {q.items}, rows : {q.rows}] /\ q.items = vector /\ q.rows = made.rows
    <3> HIDE DEF vector, q
    <3> QED
      BY <2>1, <2>3
  <2> HIDE DEF vector, q
  <2>8. IsItems(vector)
    <3>1. vector \in [1 .. Len(made.items) -> SensorSet(KeysOf(made.items), {3}, {0})]
      BY <2>4, <2>5, <2>6
    <3> QED
      BY <2>4, <3>1, AmongItems
  <2>9. SensorsOnce(vector) /\ KeysOf(vector) = KeysOf(made.items)
    <3>1. SensorsOnce(vector)
      BY <2>3, <2>5, <2>6 DEF SensorsOnce
    <3>2. ASSUME NEW i \in DOMAIN made.items PROVE vector[i].key = made.items[i].key
      BY <2>5
    <3>3. KeysOf(vector) = KeysOf(made.items)
      BY <2>6, <3>2 DEF KeysOf
    <3> QED
      BY <3>1, <3>3
  <2>10. \A i \in DOMAIN vector : /\ vector[i].key \notin KeysOf(<< >>)
                                 /\ Row(vector[i].low, vector[i].high) = Given(rows, vector[i].key)
    <3>1. KeysOf(<< >>) = {}
      BY DEF KeysOf
    <3> QED
      BY <2>3, <2>5, <2>6, <3>1
  <2>11. KeysOf(<< >>) \subseteq KeysOf(vector)
    BY DEF KeysOf
  <2> QED
    BY <2>3, <2>7, <2>8, <2>9, <2>10, <2>11 DEF Grown, q
<1> QED
  BY <1>1, <1>2

-----------------------------------------------------------------------------
\* The values a table of values has for a sensor.
ValuesOf(t, k) == IF k \in DOMAIN t THEN t[k] ELSE {}

IsValues(t) == t \in [DOMAIN t -> SUBSET Int]

\* Sensors, rows, changes that wait and two tables of values that are about each other.
Related(vector, rows, waiting, values, kept) ==
  /\ IsItems(vector) /\ SensorsOnce(vector) /\ KeysOf(vector) \subseteq DOMAIN rows
  /\ IsTable(rows)
  /\ IsChanges(waiting) /\ \A j \in 1 .. Len(waiting) : waiting[j].key \in KeysOf(vector)
  /\ IsValues(values) /\ DOMAIN values \subseteq DOMAIN rows
  /\ IsValues(kept) /\ DOMAIN kept \subseteq DOMAIN rows

\* What is lost apart: the rows cover what is kept, and with the changes that wait all values; the
\* sensors cover all values, and are known to the rows and changes.
Covered(vector, rows, waiting, values, kept, lost) ==
  /\ \A k \in DOMAIN rows \ lost :
        /\ Fits(Executed(rows, waiting)[k], ValuesOf(values, k))
        /\ Fits(rows[k], ValuesOf(kept, k))
  /\ \A i \in DOMAIN vector : vector[i].key \notin lost =>
        /\ Fits(vector[i], ValuesOf(values, vector[i].key))
        /\ vector[i].low # -1 =>
              Executed(rows, waiting)[vector[i].key] = Row(vector[i].low, vector[i].high)

\* The same, but for the sensors whose changes are yet to be queued.
CoveredBut(vector, rows, waiting, values, kept, lost) ==
  /\ \A k \in DOMAIN rows \ lost :
        /\ \/ \E i \in DOMAIN vector : vector[i].key = k /\ vector[i].changed
           \/ Fits(Executed(rows, waiting)[k], ValuesOf(values, k))
        /\ Fits(rows[k], ValuesOf(kept, k))
  /\ \A i \in DOMAIN vector : vector[i].key \notin lost =>
        /\ Fits(vector[i], ValuesOf(values, vector[i].key))
        /\ vector[i].low # -1 =>
              \/ vector[i].changed
              \/ Executed(rows, waiting)[vector[i].key] = Row(vector[i].low, vector[i].high)

\* The values of a table are whole numbers.
LEMMA ValuesAre ==
  ASSUME NEW t, IsValues(t), NEW k
  PROVE  ValuesOf(t, k) \in SUBSET Int
  BY DEF IsValues, ValuesOf

\* Nothing changes nothing.
LEMMA ExecutedNone ==
  ASSUME NEW rows, IsTable(rows)
  PROVE  IsChanges(<< >>) /\ Executed(rows, << >>) = rows
<1>1. IsChanges(<< >>)
  <2>1. DOMAIN << >> = {}
    OBVIOUS
  <2>2. IsList(<< >>)
    BY DEF IsList, ToSet
  <2> QED
    BY <2>1, <2>2 DEF IsChanges
<1>2. Len(<< >>) = 0 /\ 1 .. 0 = {}
  OBVIOUS
<1> DEFINE E == Executed(rows, << >>)
<1>3. IsTable(E) /\ DOMAIN E = DOMAIN rows
  BY <1>1, ExecutedIs
<1>4. \A k \in DOMAIN rows : E[k] = rows[k]
  <2> TAKE k \in DOMAIN rows
  <2>1. \A q \in 1 .. Len(<< >>) : << >>[q].key # k
    BY <1>2
  <2> QED
    BY <1>1, <2>1, ExecutedIs
<1> HIDE DEF E
<1>5. E = rows
  BY <1>3, <1>4 DEF IsTable
<1> QED
  BY <1>1, <1>5 DEF E

\* More rows, and the changes of those there were.
LEMMA ExecutedWider ==
  ASSUME NEW rows, IsTable(rows), NEW more, IsTable(more), NEW waiting, IsChanges(waiting),
         NEW k \in DOMAIN more
  PROVE  /\ k \in DOMAIN rows /\ more[k] = rows[k] =>
               Executed(more, waiting)[k] = Executed(rows, waiting)[k]
         /\ (\A j \in 1 .. Len(waiting) : waiting[j].key # k) => Executed(more, waiting)[k] = more[k]
<1>1. IsList(waiting)
  BY DEF IsChanges
<1>2. ASSUME \A j \in 1 .. Len(waiting) : waiting[j].key # k
      PROVE  Executed(more, waiting)[k] = more[k]
  BY <1>2, ExecutedIs
<1>3. ASSUME k \in DOMAIN rows, more[k] = rows[k]
      PROVE  Executed(more, waiting)[k] = Executed(rows, waiting)[k]
  <2>1. CASE \A j \in 1 .. Len(waiting) : waiting[j].key # k
    <3>1. Executed(rows, waiting)[k] = rows[k]
      BY <1>3, <2>1, ExecutedIs
    <3> QED
      BY <1>2, <1>3, <2>1, <3>1
  <2>2. CASE \E j \in 1 .. Len(waiting) : waiting[j].key = k
    <3>1. PICK p : IsLast(waiting, k, p)
      BY <1>1, <2>2, SomeLast
    <3>2. Executed(rows, waiting)[k] = waiting[p].row
      BY <1>3, <3>1, ExecutedIs
    <3>3. Executed(more, waiting)[k] = waiting[p].row
      BY <3>1, ExecutedIs
    <3> QED
      BY <3>2, <3>3
  <2> QED
    BY <2>1, <2>2
<1> QED
  BY <1>2, <1>3

\* New sensors, and the rows made for them, are covered as the old ones are.
LEMMA GrownIsCovered ==
  ASSUME NEW vector, NEW rows, NEW waiting, NEW values, NEW kept, NEW lost, NEW made,
         Related(vector, rows, waiting, values, kept),
         Covered(vector, rows, waiting, values, kept, lost),
         Grown(vector, rows, made)
  PROVE  /\ Related(made.items, made.rows, waiting, values, kept)
         /\ Covered(made.items, made.rows, waiting, values, kept, lost)
<1> DEFINE more == made.rows
           new  == made.items
<1>1. /\ IsItems(vector) /\ SensorsOnce(vector) /\ KeysOf(vector) \subseteq DOMAIN rows
      /\ IsTable(rows)
      /\ IsChanges(waiting) /\ \A j \in 1 .. Len(waiting) : waiting[j].key \in KeysOf(vector)
      /\ IsValues(values) /\ DOMAIN values \subseteq DOMAIN rows
      /\ IsValues(kept) /\ DOMAIN kept \subseteq DOMAIN rows
  BY DEF Related
<1>2. /\ IsItems(new) /\ SensorsOnce(new) /\ IsTable(more)
      /\ DOMAIN more = DOMAIN rows \cup KeysOf(new)
      /\ \A k \in DOMAIN more : more[k] = IF k \in DOMAIN rows THEN rows[k] ELSE Row(0, 0)
      /\ KeysOf(vector) \subseteq KeysOf(new)
      /\ \A i \in DOMAIN new :
            \/ \E j \in DOMAIN vector : new[i] = vector[j]
            \/ /\ new[i].key \notin KeysOf(vector)
               /\ Row(new[i].low, new[i].high) = Given(rows, new[i].key)
  BY DEF Grown
<1>3. Related(new, more, waiting, values, kept)
  BY <1>1, <1>2 DEF Related
<1> HIDE DEF more, new
<1>4. ASSUME NEW k \in DOMAIN rows
      PROVE  more[k] = rows[k] /\ Executed(more, waiting)[k] = Executed(rows, waiting)[k]
  <2>1. k \in DOMAIN more /\ more[k] = rows[k]
    BY <1>2
  <2> QED
    BY <1>1, <1>2, <2>1, ExecutedWider
<1>5. ASSUME NEW k \in DOMAIN more, k \notin KeysOf(vector)
      PROVE  Executed(more, waiting)[k] = more[k]
  <2>1. \A j \in 1 .. Len(waiting) : waiting[j].key # k
    BY <1>1, <1>5
  <2> QED
    BY <1>1, <1>2, <2>1, ExecutedWider
<1>6. ASSUME NEW k \in DOMAIN more, k \notin DOMAIN rows
      PROVE  /\ ValuesOf(values, k) = {} /\ ValuesOf(kept, k) = {}
             /\ more[k] = Row(0, 0) /\ Executed(more, waiting)[k] = Row(0, 0)
  <2>1. k \notin KeysOf(vector) /\ more[k] = Row(0, 0)
    BY <1>1, <1>2, <1>6
  <2>2. Executed(more, waiting)[k] = more[k]
    BY <1>5, <2>1
  <2> QED
    BY <1>1, <1>6, <2>1, <2>2 DEF ValuesOf
<1>7. ASSUME NEW k \in DOMAIN more \ lost
      PROVE  /\ Fits(Executed(more, waiting)[k], ValuesOf(values, k))
             /\ Fits(more[k], ValuesOf(kept, k))
  <2>1. CASE k \in DOMAIN rows
    BY <1>4, <2>1 DEF Covered
  <2>2. CASE k \notin DOMAIN rows
    <3>1. Fits(Row(0, 0), {})
      BY DEF Fits, Row
    <3> QED
      BY <1>6, <2>2, <3>1
  <2> QED
    BY <2>1, <2>2
<1>8. ASSUME NEW i \in DOMAIN new, new[i].key \notin lost
      PROVE  /\ Fits(new[i], ValuesOf(values, new[i].key))
             /\ new[i].low # -1 =>
                   Executed(more, waiting)[new[i].key] = Row(new[i].low, new[i].high)
  <2>1. CASE \E j \in DOMAIN vector : new[i] = vector[j]
    <3>1. PICK j \in DOMAIN vector : new[i] = vector[j]
      BY <2>1
    <3>2. vector[j].key \in DOMAIN rows
      BY <1>1 DEF KeysOf
    <3>3. /\ Fits(vector[j], ValuesOf(values, vector[j].key))
          /\ vector[j].low # -1 =>
                Executed(rows, waiting)[vector[j].key] = Row(vector[j].low, vector[j].high)
      BY <1>8, <3>1 DEF Covered
    <3> QED
      BY <1>4, <3>1, <3>2, <3>3
  <2>2. CASE /\ new[i].key \notin KeysOf(vector)
             /\ Row(new[i].low, new[i].high) = Given(rows, new[i].key)
    <3> DEFINE k == new[i].key
               l == new[i].low
               h == new[i].high
    <3>1. k \in DOMAIN more
      BY <1>2 DEF KeysOf
    <3>2. Executed(more, waiting)[k] = more[k]
      BY <1>5, <2>2, <3>1
    <3>3. CASE k \in DOMAIN rows
      <4>1. Row(l, h) = rows[k]
        BY <2>2, <3>3 DEF Given
      <4>2. Fits(Executed(more, waiting)[k], ValuesOf(values, k))
        BY <1>7, <1>8, <3>1
      <4>3. Fits(Row(l, h), ValuesOf(values, k))
        BY <1>4, <3>2, <3>3, <4>1, <4>2
      <4>4. Fits(new[i], ValuesOf(values, k))
        BY <4>3 DEF Fits, Row
      <4> QED
        BY <1>4, <3>2, <3>3, <4>1, <4>4
    <3>4. CASE k \notin DOMAIN rows
      <4>1. Row(l, h) = Row(-1, 0)
        BY <2>2, <3>4 DEF Given
      <4>2. l = -1
        <5>1. Row(l, h).low = l /\ Row(-1, 0).low = -1
          BY DEF Row
        <5> QED
          BY <4>1, <5>1
      <4>3. ValuesOf(values, k) = {}
        BY <1>6, <3>1, <3>4
      <4>4. Fits(new[i], {})
        BY DEF Fits
      <4> QED
        BY <4>2, <4>3, <4>4
    <3> QED
      BY <3>3, <3>4
  <2> QED
    BY <1>2, <2>1, <2>2
<1>9. Covered(new, more, waiting, values, kept, lost)
  BY <1>7, <1>8 DEF Covered
<1> QED
  BY <1>3, <1>9 DEF new, more

\* Once their changes are queued, all are covered.
LEMMA ChangesCover ==
  ASSUME NEW vector, NEW rows, NEW waiting, NEW values, NEW kept, NEW lost,
         Related(vector, rows, waiting, values, kept),
         CoveredBut(vector, rows, waiting, values, kept, lost)
  PROVE  /\ Related(vector, rows, waiting \o Changes(vector), values, kept)
         /\ Covered(vector, rows, waiting \o Changes(vector), values, kept, lost)
<1> DEFINE c   == Changes(vector)
           all == waiting \o c
<1>1. /\ IsItems(vector) /\ SensorsOnce(vector) /\ KeysOf(vector) \subseteq DOMAIN rows
      /\ IsTable(rows)
      /\ IsChanges(waiting) /\ \A j \in 1 .. Len(waiting) : waiting[j].key \in KeysOf(vector)
      /\ IsValues(values) /\ DOMAIN values \subseteq DOMAIN rows
      /\ IsValues(kept) /\ DOMAIN kept \subseteq DOMAIN rows
  BY DEF Related
<1>2. /\ IsChanges(c)
      /\ \A j \in 1 .. Len(c) : \E i \in DOMAIN vector :
            /\ vector[i].changed
            /\ c[j].key = vector[i].key /\ c[j].row = Row(vector[i].low, vector[i].high)
      /\ \A i \in DOMAIN vector : vector[i].changed =>
            /\ \E j \in 1 .. Len(c) : c[j].key = vector[i].key
            /\ \A j \in 1 .. Len(c) : c[j].key = vector[i].key =>
                  c[j].row = Row(vector[i].low, vector[i].high)
  BY <1>1, ChangesAre
<1> HIDE DEF c
<1>3. ASSUME NEW i \in DOMAIN vector, vector[i].changed
      PROVE  Executed(rows, all)[vector[i].key] = Row(vector[i].low, vector[i].high)
  <2>1. vector[i].key \in DOMAIN rows
    BY <1>1 DEF KeysOf
  <2>2. /\ \E j \in 1 .. Len(c) : c[j].key = vector[i].key
        /\ \A j \in 1 .. Len(c) : c[j].key = vector[i].key =>
              c[j].row = Row(vector[i].low, vector[i].high)
    BY <1>2, <1>3
  <2> DEFINE k   == vector[i].key
             row == Row(vector[i].low, vector[i].high)
  <2> HIDE DEF k, row
  <2>3. k \in DOMAIN rows /\ IsTable(rows) /\ IsChanges(waiting) /\ IsChanges(c)
    BY <1>1, <1>2, <2>1 DEF k
  <2>4. IsGiven(c, k, row)
    BY <2>2 DEF k, row, IsGiven
  <2>5. Executed(rows, all)[k] = row
    BY <2>3, <2>4, ExecutedLast
  <2> QED
    BY <2>5 DEF k, row
<1>4. ASSUME NEW k \in DOMAIN rows, \A i \in DOMAIN vector : vector[i].key = k => ~vector[i].changed
      PROVE  Executed(rows, all)[k] = Executed(rows, waiting)[k]
  <2>1. \A j \in 1 .. Len(c) : c[j].key # k
    BY <1>2, <1>4
  <2> QED
    BY <1>1, <1>2, <2>1, ExecutedMore
<1>5. IsChanges(all) /\ \A j \in 1 .. Len(all) : all[j].key \in KeysOf(vector)
  <2>1. IsList(waiting) /\ IsList(c)
    BY <1>1, <1>2 DEF IsChanges
  <2>2. IsList(all) /\ ToSet(all) = ToSet(waiting) \cup ToSet(c)
    BY <2>1, ListJoined
  <2>3. /\ DOMAIN waiting = 1 .. Len(waiting) /\ DOMAIN c = 1 .. Len(c)
        /\ DOMAIN all = 1 .. Len(all)
    <3> HIDE DEF all
    <3> QED
      BY <2>1, <2>2, ListElements
  <2>4. \A x \in ToSet(waiting) \cup ToSet(c) : x.key \in KeysOf(vector) /\ x.row \in SensorRows
    <3>1. \A j \in 1 .. Len(waiting) : waiting[j].key \in KeysOf(vector) /\ waiting[j].row \in SensorRows
      BY <1>1, <2>3 DEF IsChanges
    <3>2. \A j \in 1 .. Len(c) : c[j].key \in KeysOf(vector) /\ c[j].row \in SensorRows
      BY <1>2, <2>3 DEF IsChanges, KeysOf
    <3> QED
      BY <2>3, <3>1, <3>2 DEF ToSet
  <2> HIDE DEF all
  <2>5. \A j \in 1 .. Len(all) : all[j] \in ToSet(all)
    BY <2>3 DEF ToSet
  <2> QED
    BY <2>2, <2>3, <2>4, <2>5 DEF IsChanges
<1> HIDE DEF all
<1>6. Related(vector, rows, all, values, kept)
  BY <1>1, <1>5 DEF Related
<1>7. ASSUME NEW i \in DOMAIN vector, vector[i].key \notin lost
      PROVE  /\ Fits(vector[i], ValuesOf(values, vector[i].key))
             /\ vector[i].low # -1 =>
                   Executed(rows, all)[vector[i].key] = Row(vector[i].low, vector[i].high)
  <2>1. /\ Fits(vector[i], ValuesOf(values, vector[i].key))
        /\ vector[i].low # -1 =>
              \/ vector[i].changed
              \/ Executed(rows, waiting)[vector[i].key] = Row(vector[i].low, vector[i].high)
    BY <1>7 DEF CoveredBut
  <2>2. CASE vector[i].changed
    BY <1>3, <2>1, <2>2
  <2>3. CASE ~vector[i].changed
    <3>1. vector[i].key \in DOMAIN rows
      BY <1>1 DEF KeysOf
    <3>2. \A j \in DOMAIN vector : vector[j].key = vector[i].key => ~vector[j].changed
      BY <1>1, <2>3 DEF SensorsOnce
    <3> QED
      BY <1>4, <2>1, <2>3, <3>1, <3>2
  <2> QED
    BY <2>2, <2>3
<1>8. ASSUME NEW k \in DOMAIN rows \ lost
      PROVE  /\ Fits(Executed(rows, all)[k], ValuesOf(values, k))
             /\ Fits(rows[k], ValuesOf(kept, k))
  <2>1. /\ \/ \E i \in DOMAIN vector : vector[i].key = k /\ vector[i].changed
           \/ Fits(Executed(rows, waiting)[k], ValuesOf(values, k))
        /\ Fits(rows[k], ValuesOf(kept, k))
    BY DEF CoveredBut
  <2>2. CASE \E i \in DOMAIN vector : vector[i].key = k /\ vector[i].changed
    <3>1. PICK i \in DOMAIN vector : vector[i].key = k /\ vector[i].changed
      BY <2>2
    <3>2. Executed(rows, all)[k] = Row(vector[i].low, vector[i].high)
      BY <1>3, <3>1
    <3>3. Fits(vector[i], ValuesOf(values, k))
      BY <1>7, <3>1
    <3>4. Fits(Row(vector[i].low, vector[i].high), ValuesOf(values, k))
      BY <3>3 DEF Fits, Row
    <3> QED
      BY <2>1, <3>2, <3>4
  <2>3. CASE ~ \E i \in DOMAIN vector : vector[i].key = k /\ vector[i].changed
    BY <1>4, <2>1, <2>3
  <2> QED
    BY <2>2, <2>3
<1>9. Covered(vector, rows, all, values, kept, lost)
  BY <1>7, <1>8 DEF Covered
<1> QED
  BY <1>6, <1>9 DEF all, c

\* The values a sensor had after an update, and a table of them.
ToldAfter(values, keys, readings, k) ==
  ValuesOf(values, k) \cup {r.value : r \in {q \in ToSet(readings) : q.key = k /\ k \in keys}}

IsToldAfter(t, values, keys, readings) ==
  /\ IsValues(t) /\ DOMAIN t = DOMAIN values \cup keys
  /\ \A k \in DOMAIN t : t[k] = ToldAfter(values, keys, readings, k)

\* What an update reads of each sensor is covered but for the changes it then queues, if no sensor
\* is read twice.
LEMMA ProcessedIsCovered ==
  ASSUME NEW vector, NEW rows, NEW waiting, NEW values, NEW kept, NEW lost,
         Related(vector, rows, waiting, values, kept),
         Covered(vector, rows, waiting, values, kept, lost),
         NEW readings, IsReadings(readings), NEW id \in Nat, NEW after,
         after = ProcessAll(vector, readings, id),
         NEW now, IsToldAfter(now, values, KeysOf(vector), readings)
  PROVE  /\ Related(after, rows, waiting, now, kept)
         /\ CoveredBut(after, rows, waiting, now, kept, lost \cup Twice(readings))
         /\ KeysOf(after) = KeysOf(vector)
<1> DEFINE N == Len(readings)
<1>0. /\ IsValues(now) /\ DOMAIN now = DOMAIN values \cup KeysOf(vector)
      /\ \A k \in DOMAIN now :
            now[k] = ValuesOf(values, k)
                       \cup {r.value : r \in {q \in ToSet(readings) : q.key = k /\ k \in KeysOf(vector)}}
  BY DEF IsToldAfter, ToldAfter
<1>1. /\ IsItems(vector) /\ SensorsOnce(vector) /\ KeysOf(vector) \subseteq DOMAIN rows
      /\ IsTable(rows)
      /\ IsChanges(waiting) /\ \A j \in 1 .. Len(waiting) : waiting[j].key \in KeysOf(vector)
      /\ IsValues(values) /\ DOMAIN values \subseteq DOMAIN rows
      /\ IsValues(kept) /\ DOMAIN kept \subseteq DOMAIN rows
  BY DEF Related
<1>2. /\ N \in Nat /\ DOMAIN readings = 1 .. N
      /\ \A m \in 1 .. N : readings[m].value \in Int /\ readings[m] \in ToSet(readings)
      /\ \A x \in ToSet(readings) : \E m \in 1 .. N : readings[m] = x
  BY ListElements DEF IsReadings
<1>3. /\ IsItems(after) /\ DOMAIN after = DOMAIN vector
      /\ \A i \in DOMAIN vector : after[i].key = vector[i].key
      /\ \A i \in DOMAIN vector, p \in Nat :
            (\A m \in 1 .. N : m # p => readings[m].key # vector[i].key)
            => after[i] = IF p \in 1 .. N THEN ProcessSensor(vector[i], readings[p], id)
                          ELSE vector[i]
  <2>1. Processed(vector, readings, id, after)
    BY <1>1, ProcessAllIs
  <2> QED
    BY <2>1 DEF Processed
<1> HIDE DEF N
<1>4. KeysOf(after) = KeysOf(vector)
  BY <1>3 DEF KeysOf
<1>5. SensorsOnce(after)
  BY <1>1, <1>3 DEF SensorsOnce
<1>6. Related(after, rows, waiting, now, kept)
  BY <1>0, <1>1, <1>3, <1>4, <1>5 DEF Related
<1>7. ASSUME NEW k, k \notin Twice(readings), NEW m \in 1 .. N, NEW n \in 1 .. N,
             readings[m].key = k, readings[n].key = k
      PROVE  m = n
  BY <1>2, <1>7 DEF Twice
<1>8. ASSUME NEW k, \A m \in 1 .. N : readings[m].key # k
      PROVE  ValuesOf(now, k) = ValuesOf(values, k)
  <2>1. {q \in ToSet(readings) : q.key = k /\ k \in KeysOf(vector)} = {}
    BY <1>2, <1>8
  <2> DEFINE R == {q \in ToSet(readings) : q.key = k /\ k \in KeysOf(vector)}
  <2> HIDE DEF R
  <2>2. {r.value : r \in R} = {}
    BY <2>1 DEF R
  <2>3. CASE k \in DOMAIN now
    <3>1. now[k] = ValuesOf(values, k) \cup {r.value : r \in R}
      BY <1>0, <2>3 DEF R
    <3> QED
      BY <2>2, <2>3, <3>1 DEF ValuesOf
  <2>4. CASE k \notin DOMAIN now
    BY <1>0, <2>4 DEF ValuesOf
  <2> QED
    BY <2>3, <2>4
<1>9. ASSUME NEW k \in KeysOf(vector), k \notin Twice(readings), NEW p \in 1 .. N, readings[p].key = k
      PROVE  ValuesOf(now, k) = ValuesOf(values, k) \cup {readings[p].value}
  <2> DEFINE R == {q \in ToSet(readings) : q.key = k /\ k \in KeysOf(vector)}
  <2>1. R = {readings[p]}
    <3>1. readings[p] \in R
      BY <1>2, <1>9
    <3>2. ASSUME NEW x \in R PROVE x = readings[p]
      <4>1. PICK m \in 1 .. N : readings[m] = x
        BY <1>2
      <4>2. readings[m].key = k
        BY <4>1
      <4> QED
        BY <1>7, <1>9, <4>1, <4>2
    <3> QED
      BY <3>1, <3>2
  <2>2. k \in DOMAIN now
    BY <1>0
  <2>3. now[k] = ValuesOf(values, k) \cup {r.value : r \in R}
    BY <1>0, <2>2
  <2> HIDE DEF R
  <2>4. {r.value : r \in R} = {readings[p].value}
    BY <2>1
  <2> QED
    BY <2>2, <2>3, <2>4 DEF ValuesOf
<1>10. ASSUME NEW k, k \notin KeysOf(vector)
       PROVE  ValuesOf(now, k) = ValuesOf(values, k)
  <2>1. CASE k \in DOMAIN now
    <3>1. now[k] = ValuesOf(values, k)
                     \cup {r.value : r \in {q \in ToSet(readings) : q.key = k /\ k \in KeysOf(vector)}}
      BY <1>0, <2>1
    <3>2. {q \in ToSet(readings) : q.key = k /\ k \in KeysOf(vector)} = {}
      BY <1>10
    <3> DEFINE R == {q \in ToSet(readings) : q.key = k /\ k \in KeysOf(vector)}
    <3> HIDE DEF R
    <3>3. {r.value : r \in R} = {}
      BY <3>2 DEF R
    <3> QED
      BY <2>1, <3>1, <3>3 DEF ValuesOf, R
  <2>2. CASE k \notin DOMAIN now
    BY <1>0, <2>2 DEF ValuesOf
  <2> QED
    BY <2>1, <2>2
<1>11. ASSUME NEW i \in DOMAIN vector, vector[i].key \notin lost \cup Twice(readings)
       PROVE  /\ Fits(after[i], ValuesOf(now, vector[i].key))
              /\ after[i].low # -1 =>
                    \/ after[i].changed
                    \/ Executed(rows, waiting)[vector[i].key] = Row(after[i].low, after[i].high)
              /\ \/ after[i].changed
                 \/ Fits(Executed(rows, waiting)[vector[i].key], ValuesOf(now, vector[i].key))
  <2> DEFINE k == vector[i].key
             x == vector[i]
             y == after[i]
             E == Executed(rows, waiting)[k]
  <2>1. k \in KeysOf(vector) /\ k \in DOMAIN rows \ lost /\ k \notin Twice(readings)
    BY <1>1, <1>11 DEF KeysOf
  <2>2. /\ Fits(x, ValuesOf(values, k)) /\ (x.low # -1 => E = Row(x.low, x.high))
        /\ Fits(E, ValuesOf(values, k))
    BY <1>11, <2>1 DEF Covered
  <2>3. CASE \A m \in 1 .. N : readings[m].key # k
    <3>1. y = x
      <4>1. N + 1 \in Nat /\ N + 1 \notin 1 .. N
        BY <1>2
      <4>2. \A m \in 1 .. N : m # N + 1 => readings[m].key # vector[i].key
        BY <2>3
      <4> QED
        BY <1>3, <4>1, <4>2
    <3>2. ValuesOf(now, k) = ValuesOf(values, k)
      BY <1>8, <2>3
    <3> HIDE DEF x, y, k, E
    <3>3. /\ Fits(y, ValuesOf(now, k))
          /\ (y.low # -1 => E = Row(y.low, y.high)) /\ Fits(E, ValuesOf(now, k))
      BY <2>2, <3>1, <3>2
    <3> QED
      BY <3>3 DEF x, y, k, E
  <2>4. CASE \E m \in 1 .. N : readings[m].key = k
    <3>1. PICK p \in 1 .. N : readings[p].key = k
      BY <2>4
    <3>2. \A m \in 1 .. N : m # p => readings[m].key # vector[i].key
      BY <1>7, <2>1, <3>1
    <3>3. y = ProcessSensor(x, readings[p], id)
      <4>1. p \in Nat
        BY <1>2
      <4> QED
        BY <1>3, <3>2, <4>1
    <3>4. IsSensor(x)
      BY <1>1 DEF IsItems
    <3>5. readings[p].value \in Int
      BY <1>2
    <3>6. x \in SensorSet({x.key}, {x.method}, {x.kind}) /\ x.key = readings[p].key
      BY <3>1, <3>4 DEF IsSensor
    <3>7. ValuesOf(values, k) \in SUBSET Int
      BY <1>1, ValuesAre
    <3>8. ValuesOf(now, k) = ValuesOf(values, k) \cup {readings[p].value}
      BY <1>9, <2>1, <3>1
    <3> DEFINE r == readings[p]
    <3> HIDE DEF x, y, k, E, r
    <3>9. /\ \A V \in SUBSET Int : Fits(x, V) => Fits(y, V \cup {r.value})
          /\ ~y.changed => y.low = x.low /\ y.high = x.high /\ x.low # -1
          /\ y.key = x.key
      BY <3>3, <3>5, <3>6, ProcessSensorIs DEF r
    <3>10. Fits(y, ValuesOf(now, k))
      BY <2>2, <3>7, <3>8, <3>9 DEF r
    <3>11. ~y.changed => E = Row(y.low, y.high)
      BY <2>2, <3>9
    <3>12. ~y.changed => Fits(E, ValuesOf(now, k))
      <4>1. Fits(Row(y.low, y.high), ValuesOf(now, k))
        BY <3>10 DEF Fits, Row
      <4> QED
        BY <3>11, <4>1
    <3> QED
      BY <3>10, <3>11, <3>12 DEF x, y, k, E
  <2> QED
    BY <2>3, <2>4
<1>12. ASSUME NEW k \in DOMAIN rows \ (lost \cup Twice(readings))
       PROVE  /\ \/ \E i \in DOMAIN after : after[i].key = k /\ after[i].changed
                 \/ Fits(Executed(rows, waiting)[k], ValuesOf(now, k))
              /\ Fits(rows[k], ValuesOf(kept, k))
  <2>1. /\ Fits(Executed(rows, waiting)[k], ValuesOf(values, k))
        /\ Fits(rows[k], ValuesOf(kept, k))
    BY DEF Covered
  <2>2. CASE k \notin KeysOf(vector)
    BY <1>10, <2>1, <2>2
  <2>3. CASE k \in KeysOf(vector)
    <3>1. PICK i \in DOMAIN vector : vector[i].key = k
      BY <2>3 DEF KeysOf
    <3>2. \/ after[i].changed
          \/ Fits(Executed(rows, waiting)[k], ValuesOf(now, k))
      BY <1>11, <3>1
    <3>3. i \in DOMAIN after /\ after[i].key = k
      BY <1>3, <3>1
    <3> QED
      BY <2>1, <3>2, <3>3
  <2> QED
    BY <2>2, <2>3
<1>13. ASSUME NEW i \in DOMAIN after, after[i].key \notin lost \cup Twice(readings)
       PROVE  /\ Fits(after[i], ValuesOf(now, after[i].key))
              /\ after[i].low # -1 =>
                    \/ after[i].changed
                    \/ Executed(rows, waiting)[after[i].key] = Row(after[i].low, after[i].high)
  <2>1. i \in DOMAIN vector /\ after[i].key = vector[i].key
    BY <1>3
  <2> QED
    BY <1>11, <1>13, <2>1
<1>14. CoveredBut(after, rows, waiting, now, kept, lost \cup Twice(readings))
  BY <1>12, <1>13 DEF CoveredBut
<1> QED
  BY <1>4, <1>6, <1>14

-----------------------------------------------------------------------------
(***************************************************************************)
(* The inductive invariant of the sensors: what the limits of the table,   *)
(* the changes that wait and the sensors themselves have to do with the    *)
(* values there were, now and at the last flush.                           *)
(***************************************************************************)
SensorsInv ==
  /\ machine \in Hardware
  /\ updates \in Nat
  /\ IsList(gpus)
  /\ Related(sensors, limits, pending, told, safe)
  /\ Covered(sensors, limits, pending, told, safe, spoiled)
  /\ ~running => sensors = << >> /\ pending = << >>

\* What is lost besides leaves the rest covered.
LEMMA CoveredLess ==
  ASSUME NEW vector, NEW rows, NEW waiting, NEW values, NEW kept, NEW lost, NEW more,
         Covered(vector, rows, waiting, values, kept, lost), lost \subseteq more
  PROVE  /\ Covered(vector, rows, waiting, values, kept, more)
         /\ CoveredBut(vector, rows, waiting, values, kept, more)
<1>1. Covered(vector, rows, waiting, values, kept, more)
  BY DEF Covered
<1> QED
  BY <1>1 DEF Covered, CoveredBut

\* Without sensors, and with nothing that waits, the rows are what covers.
LEMMA NoSensorsCovered ==
  ASSUME NEW rows, IsTable(rows), NEW values, IsValues(values), DOMAIN values \subseteq DOMAIN rows,
         NEW lost, \A k \in DOMAIN rows \ lost : Fits(rows[k], ValuesOf(values, k))
  PROVE  /\ Related(<< >>, rows, << >>, values, values)
         /\ Covered(<< >>, rows, << >>, values, values, lost)
<1>1. DOMAIN << >> = {} /\ Len(<< >>) = 0 /\ 1 .. 0 = {}
  OBVIOUS
<1>2. IsItems(<< >>) /\ SensorsOnce(<< >>) /\ KeysOf(<< >>) = {}
  BY <1>1, ListsShort DEF IsItems, SensorsOnce, KeysOf
<1>3. IsChanges(<< >>) /\ Executed(rows, << >>) = rows
  BY ExecutedNone
<1>4. Related(<< >>, rows, << >>, values, values)
  BY <1>1, <1>2, <1>3 DEF Related
<1>5. Covered(<< >>, rows, << >>, values, values, lost)
  BY <1>1, <1>3 DEF Covered
<1> QED
  BY <1>4, <1>5

\* At first there is nothing to cover.
LEMMA SensorsInit == InitSensors => SensorsInv
<1> SUFFICES ASSUME InitSensors PROVE SensorsInv
  OBVIOUS
<1>1. /\ machine \in Hardware /\ ~running /\ updates = 0 /\ sensors = << >> /\ gpus = << >>
      /\ limits = Empty /\ pending = << >> /\ told = Empty /\ safe = Empty /\ spoiled = {}
  BY DEF InitSensors
<1>2. IsTable(Empty) /\ IsValues(Empty) /\ DOMAIN Empty = {}
  BY DEF Empty, IsTable, IsValues
<1>3. Related(<< >>, Empty, << >>, Empty, Empty) /\ Covered(<< >>, Empty, << >>, Empty, Empty, {})
  BY <1>2, NoSensorsCovered
<1> QED
  BY <1>1, <1>3, ListsShort DEF SensorsInv

\* What is shown by the machine the server is on.
LEMMA MachineIsShown ==
  ASSUME machine \in Hardware, NEW found \in machine
  PROVE  IsShown(found)
  BY SensorsAssumption

\* Nothing has grown yet.
LEMMA GrownFirst ==
  ASSUME NEW vector, NEW rows, IsItems(vector), SensorsOnce(vector), IsTable(rows),
         KeysOf(vector) \subseteq DOMAIN rows
  PROVE  Grown(vector, rows, [items |-> vector, rows |-> rows])
<1> DEFINE s == [items |-> vector, rows |-> rows]
<1>1. s \in [items : {s.items}, rows : {s.rows}] /\ s.items = vector /\ s.rows = rows
  OBVIOUS
<1> HIDE DEF s
<1> QED
  BY <1>1 DEF Grown, s

\* A start keeps the invariant.
LEMMA StartSensorsKeeps ==
  ASSUME SensorsInv, NEW found \in machine, NEW garbage \in BOOLEAN, StartSensors(found, garbage)
  PROVE  SensorsInv'
<1> DEFINE named == AcpiThermalNamed(found) \o AcpiFreqNamed(found)
                    \o ThermalNamed(found) \o CpufreqNamed(found)
                    \o GpuNamed(found) \o RaplNamed(found)
                    \o LibsensorsNamed(found)
           s  == [items |-> << >>, rows |-> limits]
           s0 == CreateAll(s, DevCpuNamed(found), garbage)
           s1 == QnapCreated(s0, found, garbage)
           s2 == CreateAll(s1, named, garbage)
<1>1. /\ ~running /\ sensors' = s2.items /\ limits' = s2.rows
      /\ gpus' = DevfreqDirs(found) /\ pending' = Changes(s2.items) /\ running'
      /\ UNCHANGED <<machine, updates, told, safe, spoiled>>
  BY DEF StartSensors
<1>2. /\ machine \in Hardware /\ updates \in Nat
      /\ sensors = << >> /\ pending = << >>
      /\ Related(<< >>, limits, << >>, told, safe)
      /\ Covered(<< >>, limits, << >>, told, safe, spoiled)
  BY <1>1 DEF SensorsInv
<1>3. IsShown(found)
  BY <1>2, MachineIsShown
<1>4. IsList(DevCpuNamed(found)) /\ IsList(named) /\ IsList(DevfreqDirs(found))
  BY <1>3, NamedAre, DevfreqNamedIs
<1>5. IsTable(limits) /\ IsItems(<< >>) /\ SensorsOnce(<< >>) /\ KeysOf(<< >>) \subseteq DOMAIN limits
  BY <1>2 DEF Related
<1>6. Grown(<< >>, limits, s)
  BY <1>5, GrownFirst
<1> HIDE DEF named, s
<1>7. Grown(<< >>, limits, s0)
  BY <1>4, <1>5, <1>6, CreateAllGrows
<1> HIDE DEF s0
<1>8. Grown(<< >>, limits, s1)
  BY <1>3, <1>5, <1>7, QnapCreatedGrows
<1> HIDE DEF s1
<1>9. Grown(<< >>, limits, s2)
  BY <1>4, <1>5, <1>8, CreateAllGrows
<1> HIDE DEF s2
<1>10. /\ Related(s2.items, s2.rows, << >>, told, safe)
       /\ Covered(s2.items, s2.rows, << >>, told, safe, spoiled)
  BY <1>2, <1>9, GrownIsCovered
<1>11. CoveredBut(s2.items, s2.rows, << >>, told, safe, spoiled)
  BY <1>10, CoveredLess
<1> DEFINE c == Changes(s2.items)
<1>12. /\ Related(s2.items, s2.rows, << >> \o c, told, safe)
       /\ Covered(s2.items, s2.rows, << >> \o c, told, safe, spoiled)
  BY <1>10, <1>11, ChangesCover
<1>13. << >> \o c = c
  <2>1. IsItems(s2.items) /\ SensorsOnce(s2.items)
    BY <1>10 DEF Related
  <2>2. IsList(c)
    BY <2>1, ChangesAre DEF IsChanges
  <2> HIDE DEF c
  <2> QED
    BY <2>2, ConcatEmptySeq DEF IsList
<1> HIDE DEF c
<1>14. Related(s2.items, s2.rows, c, told, safe) /\ Covered(s2.items, s2.rows, c, told, safe, spoiled)
  BY <1>12, <1>13
<1>15. sensors' = s2.items /\ limits' = s2.rows /\ pending' = c /\ gpus' = DevfreqDirs(found)
       /\ machine' = machine /\ updates' = updates /\ told' = told /\ safe' = safe
       /\ spoiled' = spoiled /\ running'
  BY <1>1 DEF c
<1> QED
  BY <1>2, <1>4, <1>14, <1>15 DEF SensorsInv

\* They are whole numbers.
LEMMA ToldAreValues ==
  ASSUME NEW values, IsValues(values), NEW keys, NEW readings, IsReadings(readings), NEW after,
         after = [k \in DOMAIN values \cup keys |-> ToldAfter(values, keys, readings, k)]
  PROVE  IsToldAfter(after, values, keys, readings)
<1>1. ASSUME NEW k \in DOMAIN values \cup keys
      PROVE  ToldAfter(values, keys, readings, k) \in SUBSET Int
  <2>1. \A r \in ToSet(readings) : r.value \in Int
    BY DEF IsReadings
  <2>2. \A n \in DOMAIN values : values[n] \in SUBSET Int
    BY DEF IsValues
  <2> QED
    BY <2>1, <2>2 DEF ToldAfter, ValuesOf
<1>2. DOMAIN after = DOMAIN values \cup keys /\ \A k \in DOMAIN after : after[k] \in SUBSET Int
  BY <1>1
<1>3. after = [k \in DOMAIN after |-> after[k]]
  BY <1>2
<1>4. \A k \in DOMAIN after : after[k] = ToldAfter(values, keys, readings, k)
  BY <1>2
<1> QED
  BY <1>2, <1>3, <1>4 DEF IsValues, IsToldAfter

\* An update keeps the invariant.
LEMMA UpdateSensorsKeeps ==
  ASSUME SensorsInv, NEW found \in machine, NEW garbage \in BOOLEAN, UpdateSensors(found, garbage)
  PROVE  SensorsInv'
<1> DEFINE late  == IF gpus = << >> THEN GpuNamed(found) ELSE << >>
           known == IF gpus = << >> THEN DevfreqDirs(found) ELSE gpus
           s     == [items |-> sensors, rows |-> limits]
           named == LibsensorsNamed(found) \o late
           made  == CreateAll(s, named, garbage)
           id    == IdOf(updates + 1)
           readings == Readings(found, made.items, known)
           after == ProcessAll(made.items, readings, id)
           keys  == KeysOf(after)
           lost  == spoiled \cup Twice(readings)
                    \cup (IF Len(after) = Len(sensors) THEN {}
                          ELSE {pending[i].key : i \in DOMAIN pending})
           now == [k \in DOMAIN told \cup keys |-> ToldAfter(told, keys, readings, k)]
<1>1. /\ running /\ updates' = updates + 1 /\ sensors' = after /\ limits' = made.rows
      /\ gpus' = known /\ pending' = pending \o Changes(after)
      /\ told' = now /\ spoiled' = lost
      /\ UNCHANGED <<machine, running, safe>>
  BY DEF UpdateSensors, ToldAfter, ValuesOf
<1>2. /\ machine \in Hardware /\ updates \in Nat /\ IsList(gpus)
      /\ Related(sensors, limits, pending, told, safe)
      /\ Covered(sensors, limits, pending, told, safe, spoiled)
  BY DEF SensorsInv
<1>3. IsShown(found)
  BY <1>2, MachineIsShown
<1>4. IsList(named) /\ IsList(known)
  <2>1. IsList(GpuNamed(found)) /\ IsList(LibsensorsNamed(found)) /\ IsList(DevfreqDirs(found))
    BY <1>3, NamedAre, DevfreqNamedIs
  <2>2. IsList(late)
    BY <2>1, ListsShort
  <2>3. IsList(named)
    <3> HIDE DEF late
    <3> QED
      BY <2>1, <2>2, ListJoined
  <2> QED
    BY <1>2, <2>1, <2>3
<1>5. /\ IsItems(sensors) /\ SensorsOnce(sensors) /\ IsTable(limits)
      /\ KeysOf(sensors) \subseteq DOMAIN limits
  BY <1>2 DEF Related
<1>6. Grown(sensors, limits, s)
  BY <1>5, GrownFirst
<1> HIDE DEF known, named, s
<1>7. Grown(sensors, limits, made)
  BY <1>4, <1>5, <1>6, CreateAllGrows
<1> HIDE DEF made
<1>8. /\ Related(made.items, made.rows, pending, told, safe)
      /\ Covered(made.items, made.rows, pending, told, safe, spoiled)
  BY <1>2, <1>7, GrownIsCovered
<1>9. IsReadings(readings) /\ id \in Nat
  BY <1>2, <1>3, <1>4, ReadingsAre DEF IdOf
<1> HIDE DEF readings, id
<1>10. IsValues(told) /\ IsItems(made.items)
  BY <1>8 DEF Related
<1>11. KeysOf(after) = KeysOf(made.items)
  <2>1. Processed(made.items, readings, id, after)
    BY <1>9, <1>10, ProcessAllIs
  <2> QED
    BY <2>1 DEF Processed, KeysOf
<1> DEFINE L == KeysOf(made.items)
           t == [k \in DOMAIN told \cup L |-> ToldAfter(told, L, readings, k)]
<1>12. now = t
  BY <1>11
<1>13. IsToldAfter(t, told, L, readings)
  <2> HIDE DEF L
  <2> QED
    BY <1>9, <1>10, ToldAreValues
<1> HIDE DEF t, after, lost
<1>14. /\ Related(after, made.rows, pending, t, safe)
       /\ CoveredBut(after, made.rows, pending, t, safe, spoiled \cup Twice(readings))
  BY <1>8, <1>9, <1>13, ProcessedIsCovered DEF after
<1>15. /\ Related(after, made.rows, pending \o Changes(after), t, safe)
       /\ Covered(after, made.rows, pending \o Changes(after), t, safe,
                  spoiled \cup Twice(readings))
  BY <1>14, ChangesCover
<1>16. spoiled \cup Twice(readings) \subseteq lost
  BY DEF lost
<1>17. Covered(after, made.rows, pending \o Changes(after), t, safe, lost)
  BY <1>15, <1>16, CoveredLess
<1>18. updates + 1 \in Nat
  BY <1>2
<1> HIDE DEF now
<1> QED
  BY <1>1, <1>2, <1>4, <1>12, <1>15, <1>17, <1>18 DEF SensorsInv

\* A flush keeps the invariant.
LEMMA FlushSensorsKeeps ==
  ASSUME SensorsInv, NEW refused \in BOOLEAN, FlushSensors(refused)
  PROVE  SensorsInv'
<1> DEFINE E == Executed(limits, pending)
           lost == spoiled \cup {pending[i].key : i \in DOMAIN pending}
<1>1. /\ running /\ pending' = << >>
      /\ limits' = (IF refused THEN limits ELSE E)
      /\ spoiled' = (IF refused THEN lost ELSE spoiled)
      /\ safe' = told
      /\ UNCHANGED <<machine, running, updates, sensors, gpus, told>>
  BY DEF FlushSensors
<1>2. /\ machine \in Hardware /\ updates \in Nat /\ IsList(gpus)
      /\ Related(sensors, limits, pending, told, safe)
      /\ Covered(sensors, limits, pending, told, safe, spoiled)
  BY DEF SensorsInv
<1>3. /\ IsItems(sensors) /\ SensorsOnce(sensors) /\ KeysOf(sensors) \subseteq DOMAIN limits
      /\ IsTable(limits)
      /\ IsChanges(pending) /\ \A j \in 1 .. Len(pending) : pending[j].key \in KeysOf(sensors)
      /\ IsValues(told) /\ DOMAIN told \subseteq DOMAIN limits
  BY <1>2 DEF Related
<1>4. IsTable(E) /\ DOMAIN E = DOMAIN limits
  BY <1>3, ExecutedIs
<1>5. IsChanges(<< >>) /\ Executed(E, << >>) = E /\ Executed(limits, << >>) = limits
      /\ 1 .. Len(<< >>) = {}
  BY <1>3, <1>4, ExecutedNone
<1>6. \A i \in DOMAIN sensors : sensors[i].key \in DOMAIN limits
  BY <1>3 DEF KeysOf
<1>7. Related(sensors, E, << >>, told, told) /\ Related(sensors, limits, << >>, told, told)
  BY <1>3, <1>4, <1>5 DEF Related
<1>8. Covered(sensors, E, << >>, told, told, spoiled)
  BY <1>2, <1>4, <1>5 DEF Covered
<1>9. Covered(sensors, limits, << >>, told, told, lost)
  <2>1. ASSUME NEW k \in DOMAIN limits, k \notin lost PROVE E[k] = limits[k] /\ k \notin spoiled
    <3>1. DOMAIN pending = 1 .. Len(pending)
      BY <1>3, ListElements DEF IsChanges
    <3>2. \A q \in 1 .. Len(pending) : pending[q].key # k
      BY <2>1, <3>1
    <3> QED
      BY <1>3, <2>1, <3>2, ExecutedIs
  <2> HIDE DEF lost
  <2>2. ASSUME NEW k \in DOMAIN limits \ lost
        PROVE  Fits(limits[k], ValuesOf(told, k))
    <3>1. E[k] = limits[k] /\ k \in DOMAIN limits \ spoiled
      BY <2>1
    <3>2. Fits(E[k], ValuesOf(told, k))
      BY <1>2, <3>1 DEF Covered
    <3> QED
      BY <3>1, <3>2
  <2>3. ASSUME NEW i \in DOMAIN sensors, sensors[i].key \notin lost
        PROVE  /\ Fits(sensors[i], ValuesOf(told, sensors[i].key))
               /\ sensors[i].low # -1 =>
                     limits[sensors[i].key] = Row(sensors[i].low, sensors[i].high)
    <3>1. E[sensors[i].key] = limits[sensors[i].key] /\ sensors[i].key \notin spoiled
      BY <1>6, <2>1, <2>3
    <3>2. /\ Fits(sensors[i], ValuesOf(told, sensors[i].key))
          /\ sensors[i].low # -1 => E[sensors[i].key] = Row(sensors[i].low, sensors[i].high)
      BY <1>2, <3>1 DEF Covered
    <3> QED
      BY <3>1, <3>2
  <2> QED
    BY <1>5, <2>2, <2>3 DEF Covered
<1>10. CASE refused
  <2>1. limits' = limits /\ spoiled' = lost
    BY <1>1, <1>10
  <2> HIDE DEF lost
  <2> QED
    BY <1>1, <1>2, <1>7, <1>9, <2>1 DEF SensorsInv
<1>11. CASE ~refused
  <2>1. limits' = E /\ spoiled' = spoiled
    BY <1>1, <1>11
  <2> HIDE DEF E
  <2> QED
    BY <1>1, <1>2, <1>7, <1>8, <2>1 DEF SensorsInv
<1> QED
  BY <1>10, <1>11

\* An end keeps the invariant, in an orderly way or not.
LEMMA StopSensorsKeeps ==
  ASSUME SensorsInv, NEW saves \in BOOLEAN, StopSensors(saves)
  PROVE  SensorsInv'
<1> DEFINE E == Executed(limits, pending)
<1>1. /\ ~running' /\ pending' = << >> /\ sensors' = << >> /\ gpus' = << >>
      /\ limits' = (IF saves THEN E ELSE limits)
      /\ told' = (IF saves THEN told ELSE safe) /\ safe' = told'
      /\ UNCHANGED <<machine, updates, spoiled>>
  BY DEF StopSensors
<1>2. /\ machine \in Hardware /\ updates \in Nat
      /\ Related(sensors, limits, pending, told, safe)
      /\ Covered(sensors, limits, pending, told, safe, spoiled)
  BY DEF SensorsInv
<1>3. /\ IsTable(limits) /\ IsChanges(pending)
      /\ IsValues(told) /\ DOMAIN told \subseteq DOMAIN limits
      /\ IsValues(safe) /\ DOMAIN safe \subseteq DOMAIN limits
  BY <1>2 DEF Related
<1>4. IsTable(E) /\ DOMAIN E = DOMAIN limits
  BY <1>3, ExecutedIs
<1>5. /\ \A k \in DOMAIN E \ spoiled : Fits(E[k], ValuesOf(told, k))
      /\ \A k \in DOMAIN limits \ spoiled : Fits(limits[k], ValuesOf(safe, k))
  BY <1>2, <1>4 DEF Covered
<1> HIDE DEF E
<1>6. Related(<< >>, E, << >>, told, told) /\ Covered(<< >>, E, << >>, told, told, spoiled)
  BY <1>3, <1>4, <1>5, NoSensorsCovered
<1>7. Related(<< >>, limits, << >>, safe, safe) /\ Covered(<< >>, limits, << >>, safe, safe, spoiled)
  BY <1>3, <1>5, NoSensorsCovered
<1>8. IsList(<< >>)
  BY ListsShort
<1>9. CASE saves
  <2>1. limits' = E /\ told' = told /\ safe' = told
    BY <1>1, <1>9
  <2> QED
    BY <1>1, <1>2, <1>6, <1>8, <2>1 DEF SensorsInv
<1>10. CASE ~saves
  <2>1. limits' = limits /\ told' = safe /\ safe' = safe
    BY <1>1, <1>10
  <2> QED
    BY <1>1, <1>2, <1>7, <1>8, <2>1 DEF SensorsInv
<1> QED
  BY <1>9, <1>10

\* Every step of the sensors keeps the invariant.
LEMMA SensorsKeep ==
  ASSUME SensorsInv, [NextSensors]_sensorVars
  PROVE  SensorsInv'
<1>1. CASE UNCHANGED sensorVars
  BY <1>1 DEF sensorVars, SensorsInv
<1>2. CASE NextSensors
  <2>1. ASSUME NEW found \in machine, NEW garbage \in BOOLEAN, StartSensors(found, garbage)
        PROVE  SensorsInv'
    BY <2>1, StartSensorsKeeps
  <2>2. ASSUME NEW found \in machine, NEW garbage \in BOOLEAN, UpdateSensors(found, garbage)
        PROVE  SensorsInv'
    BY <2>2, UpdateSensorsKeeps
  <2>3. ASSUME NEW refused \in BOOLEAN, FlushSensors(refused) PROVE SensorsInv'
    BY <2>3, FlushSensorsKeeps
  <2>4. ASSUME NEW saves \in BOOLEAN, StopSensors(saves) PROVE SensorsInv'
    BY <2>4, StopSensorsKeeps
  <2> QED
    BY <1>2, <2>1, <2>2, <2>3, <2>4 DEF NextSensors
<1> QED
  BY <1>1, <1>2

\* The limits a client is told cover the values.
LEMMA SensorsInvIsEnough == SensorsInv => LimitsCover
<1> SUFFICES ASSUME SensorsInv, NEW i \in DOMAIN sensors,
                    sensors[i].key \notin spoiled,
                    -1 \notin ValuesOf(told, sensors[i].key),
                    NEW v \in ValuesOf(told, sensors[i].key)
             PROVE  sensors[i].low <= v /\ v <= sensors[i].high
  BY DEF LimitsCover, ValuesOf
<1>1. Fits(sensors[i], ValuesOf(told, sensors[i].key))
  BY DEF SensorsInv, Covered
<1> QED
  BY <1>1 DEF Fits

-----------------------------------------------------------------------------
(***************************************************************************)
(* The collectors.                                                         *)
(***************************************************************************)
\* A step of the collectors is a step or a stutter of each of them.
LEMMA CollectorsSteps ==
  ASSUME [NextCollectors]_collectorVars
  PROVE  /\ [NextSensors]_sensorVars
         /\ [NextProcesses]_processVars
         /\ [NextDisks]_diskVars
         /\ [NextBattery]_batteryVars
<1>1. CASE SensorsStep
  BY <1>1 DEF SensorsStep
<1>2. CASE ProcessesStep
  BY <1>2 DEF ProcessesStep
<1>3. CASE DisksStep
  BY <1>3 DEF DisksStep
<1>4. CASE BatteryStep
  BY <1>4 DEF BatteryStep
<1>5. CASE UNCHANGED collectorVars
  BY <1>5 DEF collectorVars
<1> QED
  BY <1>1, <1>2, <1>3, <1>4, <1>5 DEF NextCollectors

\* The inductive invariant of the collectors, in one part for each.
CollectorsInv == SensorsInv /\ ProcessesInv /\ DisksInv /\ BatteryInv

(***************************************************************************)
(* What is known of sensors, processes, disks and batteries is what was    *)
(* read of them, in every state of the collectors.                         *)
(***************************************************************************)
THEOREM CollectorsInvariant == CollectorsSpec => []CollectorsInv
<1>1. InitCollectors => CollectorsInv
  BY SensorsInit, ProcessesInit, DisksInit, BatteryInit DEF InitCollectors, CollectorsInv
<1>2. CollectorsInv /\ [NextCollectors]_collectorVars => CollectorsInv'
  <2> SUFFICES ASSUME CollectorsInv, [NextCollectors]_collectorVars PROVE CollectorsInv'
    OBVIOUS
  <2>1. SensorsInv /\ ProcessesInv /\ DisksInv /\ BatteryInv
    BY DEF CollectorsInv
  <2>2. SensorsInv' /\ ProcessesInv' /\ DisksInv' /\ BatteryInv'
    BY <2>1, CollectorsSteps, SensorsKeep, ProcessesKeep, DisksKeep, BatteryKeeps
  <2> QED
    BY <2>2 DEF CollectorsInv
<1> QED
  BY <1>1, <1>2, PTL DEF CollectorsSpec

(***************************************************************************)
(* The limits of a sensor that a client is told cover every value it had,  *)
(* also before restarts and crashes, as far as no change of them was lost, *)
(* for any machines.                                                       *)
(***************************************************************************)
THEOREM LimitsAlwaysCover == CollectorsSpec => []LimitsCover
<1>1. CollectorsInv => LimitsCover
  BY SensorsInvIsEnough DEF CollectorsInv
<1> QED
  BY <1>1, CollectorsInvariant, PTL

(***************************************************************************)
(* An answer names processes that could be read, none twice and no more    *)
(* than there are; each has the name of its program, and is told no more   *)
(* time than it used.                                                      *)
(***************************************************************************)
THEOREM ProcessesAlwaysTold == CollectorsSpec => []ProcessesAreTold
<1>1. CollectorsInv => ProcessesAreTold
  BY ProcessesInvIsEnough DEF CollectorsInv
<1> QED
  BY <1>1, CollectorsInvariant, PTL

(***************************************************************************)
(* What is told of a battery is what its file said when it was read last,  *)
(* and within its bounds.                                                  *)
(***************************************************************************)
THEOREM BatteriesAlwaysRead == CollectorsSpec => []BatteriesAreRead
<1>1. CollectorsInv => BatteriesAreRead
  BY BatteryInvIsEnough DEF CollectorsInv
<1> QED
  BY <1>1, CollectorsInvariant, PTL

(***************************************************************************)
(* A device that was mounted is a disk and stays one, and an update has a  *)
(* sample of it for each of its mounts that could be measured.             *)
(***************************************************************************)
THEOREM DisksFollowMounts == CollectorsSpec => DisksAreMounted
<1>1. CollectorsInv /\ [NextCollectors]_collectorVars =>
        [diskUpdates' # diskUpdates => UpdateIsMounted]_diskVars
  <2> SUFFICES ASSUME CollectorsInv, [NextCollectors]_collectorVars,
                      diskUpdates' # diskUpdates
               PROVE  UpdateIsMounted
    OBVIOUS
  <2>1. DisksInv /\ [NextDisks]_diskVars
    BY CollectorsSteps DEF CollectorsInv
  <2>2. NextDisks
    BY <2>1 DEF diskVars
  <2>3. PICK mounts \in Tables, opens \in BOOLEAN, garbage \in BOOLEAN :
           UpdateDisks(mounts, opens, garbage)
    BY <2>2 DEF NextDisks
  <2> QED
    BY <2>1, <2>3, UpdateMounts
<1> QED
  BY <1>1, CollectorsInvariant, PTL DEF CollectorsSpec, DisksAreMounted
=============================================================================
