---------------------------- MODULE KeyedHistory ----------------------------
(***************************************************************************)
(* The history of a collector with a series per device: the network        *)
(* interfaces (src/src/stats/StatsNetwork.cpp; disks, disk activity and    *)
(* sensors follow it).  Devices come and go, an item is made for a device  *)
(* that was never listed before, and what a level's turn stores goes into  *)
(* two tables: one row per turn, and one per device and turn.              *)
(*                                                                         *)
(* One level is modelled, with turns of a second, taken on time; History   *)
(* has the levels, the late turns and the moments of the flushes, which    *)
(* here may come after any second.  The k-th turn bears the time epoch+k.  *)
(***************************************************************************)
EXTENDS Integers, Sequences, FiniteSets, SequencesExt, Subsequence

CONSTANTS Device,      \* the interfaces the machine may have
          NoDevice,    \* a text that is the name of none of them
          HistorySize, \* HISTORY_SIZE
          LoadWindow,  \* how far back a query reads, and how many rows
          Keep,        \* how far back a flush keeps rows
          MaxTime      \* bound on the clock

ASSUME KeyedHistoryAssumption ==
    /\ IsFiniteSet(Device)
    /\ NoDevice \notin Device
    /\ LoadWindow \in Nat \ {0}
    /\ {HistorySize, Keep, MaxTime} \subseteq Nat

VARIABLES now,     \* the clock
          up,      \* the process runs
          items,   \* _items: of each device its samples of level 0 and of the level
          buffer,  \* which allocation holds the vector _items
          session, \* counts the items made
          known,   \* samples[x][0].sampleID: the newest turn read at the start
          id,      \* sampleIndex[x].sampleID
          queue,   \* databaseQueue
          ids,     \* the table of turns
          rows,    \* the table of samples
          epoch    \* the time a turn 0 would have

memoryVars == <<up, items, buffer, session, known, id, queue>>
diskVars   == <<ids, rows, epoch>>
vars       == <<now, memoryVars, diskVars>>

Min2(a, b) == IF a <= b THEN a ELSE b
Max2(a, b) == IF a >= b THEN a ELSE b

Texts == Device \cup {NoDevice}

Devices(its) == {its[i].device : i \in 1 .. Len(its)}

-----------------------------------------------------------------------------
(***************************************************************************)
(* Queued statements.  An insert of a sample binds its device's name with  *)
(* SQLITE_STATIC: not the text but its address, which for a name as short  *)
(* as an interface's lies inside the vector, at a slot of an allocation.   *)
(* of is the device it was measured on.                                    *)
(***************************************************************************)
InsertSample(n, slot, buf, device) ==
    [kind |-> "sample", id |-> n, slot |-> slot, buffer |-> buf, of |-> device]

InsertTurn(n) == [kind |-> "turn", id |-> n]

Delete(from, below) == [kind |-> from, below |-> below]

\* removeOldSamples
RemoveOldSamples == <<Delete("turns", id - Keep), Delete("samples", id - Keep)>>

(***************************************************************************)
(* The text found at the address when the statement runs: what the slot    *)
(* holds by then, or anything when the vector has moved elsewhere.         *)
(***************************************************************************)
Text(op, anything) ==
    IF op.buffer = buffer THEN items[op.slot].device ELSE anything[op.slot]

\* The table of samples has no key, so that it takes a row twice.
Execute(tables, op, anything) ==
    CASE op.kind = "turn"    -> [tables EXCEPT !.ids = @ \cup {op.id}]
      [] op.kind = "turns"   -> [tables EXCEPT !.ids = {i \in @ : i >= op.below}]
      [] op.kind = "samples" -> [tables EXCEPT !.rows = {r \in @ : r.id >= op.below}]
      [] op.kind = "sample"  ->
            [tables EXCEPT !.rows =
                @ \cup {[id |-> op.id, uuid |-> Text(op, anything), of |-> op.of]}]

Executed(ops, anything) ==
    LET after[n \in 0 .. Len(ops)] ==
            IF n = 0 THEN [ids |-> ids, rows |-> rows]
            ELSE Execute(after[n - 1], ops[n], anything)
    IN  after[Len(ops)]

\* insertDatabaseItems
ExecuteAll(ops, anything) ==
    LET done == Executed(ops, anything) IN ids' = done.ids /\ rows' = done.rows

-----------------------------------------------------------------------------
\* What is stored under the device's name, this far back.
Window(device, newest, back) == {r \in rows : r.uuid = device /\ r.id >= newest - back}

\* The id of the n-th of these rows, the oldest first.
IdAt(n, window) ==
    (CHOOSE r \in window : /\ Cardinality({s \in window : s.id < r.id}) < n
                           /\ n <= Cardinality({s \in window : s.id <= r.id})).id

\* Wrong: starts at the newest turn memory would keep.
MutReadBack(device, newest) ==
    LET window == Window(device, newest, HistorySize)
        count == Cardinality(window)
    IN  [i \in 1 .. count |-> [id |-> IdAt(count + 1 - i, window), empty |-> FALSE]]

\* Wrong: each row is put behind the older ones.
MutReadBackwards(device, newest) ==
    LET window == Window(device, newest, LoadWindow) IN
    [i \in 1 .. Min2(LoadWindow, Cardinality(window)) |->
        [id |-> IdAt(i, window), empty |-> FALSE]]

(***************************************************************************)
(* createInterface reads what is stored under the device's name: "where    *)
(* sample >= newest - LoadWindow and uuid = ... order by sample asc limit  *)
(* LoadWindow", each put in front.  newest is the newest turn read at the  *)
(* start of the process, however long ago that was.                        *)
(***************************************************************************)
ReadBack(device, newest) ==
    LET window == Window(device, newest, LoadWindow)
        count == Min2(LoadWindow, Cardinality(window))
    IN  [i \in 1 .. count |-> [id |-> IdAt(count + 1 - i, window), empty |-> FALSE]]

Item(device, newest) ==
    [device |-> device, active |-> TRUE, seen |-> -1, mem |-> ReadBack(device, newest)]

\* The devices listed for the first time, the one listed last in front.
Made(listed, newest) ==
    LET new == Only(listed, Device \ Devices(items)) IN
    [i \in 1 .. Len(new) |-> Item(new[Len(new) + 1 - i], newest)]

(***************************************************************************)
(* The vector takes new items at its front: every item moves up, within    *)
(* the allocation or, when that has no room, to another.                   *)
(***************************************************************************)
Insert(made, moved) ==
    /\ session' = session + Len(made)
    /\ buffer' = IF made # <<>> /\ moved THEN buffer + 1 ELSE buffer

\* prepareUpdate and processInterface: a sample of every device listed.
Sampled(its, listed, time) ==
    [i \in 1 .. Len(its) |->
        IF \E j \in 1 .. Len(listed) : listed[j] = its[i].device
        THEN [its[i] EXCEPT !.active = TRUE, !.seen = time]
        ELSE [its[i] EXCEPT !.active = FALSE]]

Pushed(mem, sample) ==
    SubSeq(<<sample>> \o mem, 1, Min2(Len(mem) + 1, Max2(Len(mem), HistorySize)))

\* historyItemAtIndex: empty when the interval's two ends saw no sample.
IsEmpty(item, time) == item.seen < time - 1

\* updateHistory, the turn n at this time, of the items.
Turned(its, n, time) ==
    [i \in 1 .. Len(its) |->
        [its[i] EXCEPT !.mem = Pushed(@, [id |-> n, empty |-> IsEmpty(its[i], time)])]]

SampleInserts(its, n, time, buf) ==
    LET stored == Only([i \in 1 .. Len(its) |-> i],
                       {i \in 1 .. Len(its) : ~IsEmpty(its[i], time)})
    IN  [k \in 1 .. Len(stored) |->
            InsertSample(n, stored[k], buf, its[stored[k]].device)]

\* Wrong: the turn before its samples.
MutTurnInserts(its, n, time, buf) ==
    <<InsertTurn(n)>> \o SampleInserts(its, n, time, buf)

\* The turn is stored behind its samples, and even when it has none.
TurnInserts(its, n, time, buf) ==
    SampleInserts(its, n, time, buf) \o <<InsertTurn(n)>>

(***************************************************************************)
(* One second of the statistics thread: the listed interfaces are sampled, *)
(* those never seen get an item, and the level takes its turn when it is   *)
(* due.                                                                    *)
(***************************************************************************)
Second(listed, moved) ==
    LET made == Made(listed, known)
        its  == Sampled(made \o items, listed, now + 1)
    IN  /\ up
        /\ now < MaxTime
        /\ now' = now + 1
        /\ Insert(made, moved)
        /\ IF epoch + id <= now
           THEN /\ id' = id + 1
                /\ items' = Turned(its, id + 1, now + 1)
                /\ queue' = queue \o TurnInserts(its, id + 1, now + 1, buffer')
           ELSE /\ items' = its
                /\ UNCHANGED <<id, queue>>
        /\ UNCHANGED <<up, known, diskVars>>

(***************************************************************************)
(* The queue, as in History: the first n statements are refused while the  *)
(* database is locked, and gone.                                           *)
(***************************************************************************)
Flush(n, anything) ==
    LET ops == queue \o RemoveOldSamples IN
    /\ up
    /\ queue # <<>>
    /\ n <= Len(ops)
    /\ ExecuteAll(SubSeq(ops, n + 1, Len(ops)), anything)
    /\ queue' = <<>>
    /\ UNCHANGED <<now, up, items, buffer, session, known, id, epoch>>

Down ==
    /\ up' = FALSE
    /\ items' = <<>>
    /\ buffer' = 0
    /\ session' = 0
    /\ known' = 0
    /\ id' = 1
    /\ queue' = <<>>

\* SIGTERM: finalize() executes the queue.
Terminate(anything) ==
    /\ up
    /\ ExecuteAll(queue, anything)
    /\ Down
    /\ UNCHANGED <<now, epoch>>

Crash ==
    /\ up
    /\ Down
    /\ UNCHANGED <<now, diskVars>>

-----------------------------------------------------------------------------
\* loadPreviousSamples: the newest turn read; a full window loses its newest.
NewestRead ==
    LET newest == CHOOSE i \in ids : \A j \in ids : j <= i
        window == {i \in ids : i >= newest - LoadWindow}
        others == window \ {newest}
    IN  IF Cardinality(window) > LoadWindow
        THEN CHOOSE i \in others : \A j \in others : j <= i
        ELSE newest

\* Wrong: goes on from the newest turn read, whatever the time.
MutGapsFilled == NewestRead

\* fillGaps: the turns gone by since.
GapsFilled == Max2(NewestRead, now - epoch)

(***************************************************************************)
(* The start: without any turn stored the first is stored at once.  The    *)
(* first update makes items but takes no samples, for ready is 0.          *)
(***************************************************************************)
Start(listed, moved) ==
    LET newest == IF ids = {} THEN 0 ELSE NewestRead
        made == Made(listed, newest)
    IN  /\ ~up
        /\ up' = TRUE
        /\ known' = newest
        /\ IF ids = {}
           THEN /\ id' = 1
                /\ ids' = {1}
                /\ epoch' = now
           ELSE /\ id' = GapsFilled
                /\ UNCHANGED <<ids, epoch>>
        /\ items' = made
        /\ Insert(made, moved)
        /\ UNCHANGED <<now, queue, rows>>

\* The machine is on, the server is not.
Wait ==
    /\ ~up
    /\ now < MaxTime
    /\ now' = now + 1
    /\ UNCHANGED <<memoryVars, diskVars>>

Init ==
    /\ now = 0
    /\ up = FALSE
    /\ items = <<>>
    /\ buffer = 0
    /\ session = 0
    /\ known = 0
    /\ id = 1
    /\ queue = <<>>
    /\ ids = {}
    /\ rows = {}
    /\ epoch = 0

\* The interfaces that are up, in the order /proc/net/dev has them.
Listings == {SetToSeq(S) : S \in SUBSET Device}

\* What a freed allocation may be read to hold.
Anything == [1 .. Cardinality(Device) -> Texts]

Next ==
    \/ \E listed \in Listings, moved \in BOOLEAN :
          Second(listed, moved) \/ Start(listed, moved)
    \/ \E n \in 0 .. Len(queue) + 2, anything \in Anything : Flush(n, anything)
    \/ \E anything \in Anything : Terminate(anything)
    \/ Crash
    \/ Wait

Spec == Init /\ [][Next]_vars

-----------------------------------------------------------------------------
Samples == [id : Nat, empty : BOOLEAN]

Rows == [id : Nat, uuid : Texts, of : Device]

Items == [device : Device, active : BOOLEAN, seen : -1 .. MaxTime, mem : Seq(Samples)]

Inserts == [kind : {"sample"}, id : Nat, slot : 1 .. Cardinality(Device),
            buffer : Nat, of : Device]
           \cup [kind : {"turn"}, id : Nat]

\* The memory an item takes is bounded, too, and no address is one of a slot
\* that was never written.
TypeOK ==
    /\ now \in 0 .. MaxTime
    /\ up \in BOOLEAN
    /\ items \in Seq(Items)
    /\ \A i \in 1 .. Len(items) : Len(items[i].mem) <= Max2(HistorySize, LoadWindow)
    /\ {buffer, session, known, id, epoch} \subseteq Nat
    /\ queue \in Seq(Inserts)
    /\ ids \subseteq Nat
    /\ rows \subseteq Rows

(***************************************************************************)
(* A restart learns the newest id from the table of turns alone: no sample *)
(* is stored beyond the newest turn stored, or its id would be given out   *)
(* again, and the table of samples has no key to refuse it.                *)
(***************************************************************************)
NewestIdKnown == \A r \in rows : \E i \in ids : r.id <= i

(***************************************************************************)
(* A device's sample of a turn is stored once: it is not queued twice, nor *)
(* queued when it is stored, over any crashes, restarts and gaps.          *)
(***************************************************************************)
NoneTwice ==
    LET samples == {i \in 1 .. Len(queue) : queue[i].kind = "sample"} IN
    /\ \A i, j \in samples :
          queue[i].id = queue[j].id /\ queue[i].of = queue[j].of => i = j
    /\ \A i \in samples, r \in rows : ~(queue[i].id = r.id /\ queue[i].of = r.of)

(***************************************************************************)
(* The samples of an item are in order, newest first, even where those     *)
(* read from the database meet those taken since: a reply stops at the     *)
(* first sample its client has.                                            *)
(***************************************************************************)
NewestFirst ==
    \A k \in 1 .. Len(items) :
        LET mem == items[k].mem IN
        /\ \A i \in 1 .. Len(mem) - 1 : mem[i].id >= mem[i + 1].id
        /\ mem # <<>> => mem[1].id <= id

(***************************************************************************)
(* A stored sample names the device it was measured on (the column uuid,   *)
(* which createInterface selects by).                                      *)
(***************************************************************************)
RowsNameTheirDevice == \A r \in rows : r.uuid = r.of

(***************************************************************************)
(* As long as the names are right, a device that appears, at the start or  *)
(* later, gets back all that is stored of it within the window, but for    *)
(* the newest turn the start read and what a turn taken in the same second *)
(* pushes out of a full memory.                                            *)
(***************************************************************************)
PushedOut(item, n) ==
    /\ up /\ id' # id
    /\ Len(item.mem) >= HistorySize
    /\ \A j \in 1 .. Len(item.mem) : n < item.mem[j].id

ComesBack ==
    [][RowsNameTheirDevice =>
         \A i \in 1 .. Len(items') :
            items'[i].device \notin Devices(items) =>
              \A r \in rows :
                 /\ r.uuid = items'[i].device
                 /\ r.id \in (known' - LoadWindow) .. (known' - 1)
                 => \/ \E j \in 1 .. Len(items'[i].mem) : items'[i].mem[j].id = r.id
                    \/ PushedOut(items'[i], r.id)]_vars
=============================================================================
