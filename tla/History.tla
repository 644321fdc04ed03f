------------------------------ MODULE History ------------------------------
(***************************************************************************)
(* The history of a collector with one series of samples, the load         *)
(* averages (src/src/stats/StatsLoad.cpp over StatBase.cpp), as the        *)
(* statistics thread drives it (src/src/Stats.cpp): a sample per second,   *)
(* averages of them per level of history, a queue of inserts that is       *)
(* flushed to SQLite every few minutes, and what a restart reads back.     *)
(*                                                                         *)
(* clock is the integer part of get_current_time(), whose fraction is      *)
(* never 0: t < now is t <= clock, and ceil(now) is clock + 1.  The wall   *)
(* clock is not set back.                                                  *)
(***************************************************************************)
EXTENDS Integers, Sequences, FiniteSets, SequencesExt, Subsequence

CONSTANTS Interval,    \* seconds per sample, for each level of history
          From,        \* historyIndex: the level a level averages
          HistorySize, \* HISTORY_SIZE
          LoadWindow,  \* how far back a restart reads, and how many rows
          Keep,        \* how far back a flush keeps rows
          FirstFlush,  \* seconds from the start to the first flush
          FlushPeriod, \* seconds between flushes
          StartTime,   \* when the system is installed
          MaxTime      \* bound on the clock

Levels == 1 .. Len(Interval)

ASSUME HistoryAssumption ==
    /\ Interval \in Seq(Nat \ {0})
    /\ From \in [Levels -> 0 .. Len(Interval)]
    /\ \A x \in Levels : From[x] < x /\ Interval[x] < StartTime
    /\ {HistorySize, LoadWindow} \subseteq Nat \ {0}
    /\ {Keep, FirstFlush, FlushPeriod, StartTime, MaxTime} \subseteq Nat

VARIABLES clock,
          up,        \* the process runs
          pc,        \* the statistics thread is to "sample" or to run the "queue"
          due,       \* sampleIndex[0].nextTime, the time the next sample bears
          asleep,    \* it sleeps until then; if not, it takes it at once
          recent,    \* samples[0]: their times, newest first
          mem,       \* samples[x], newest first
          id,        \* sampleIndex[x].sampleID
          next,      \* sampleIndex[x].nextTime
          queue,     \* databaseQueue
          nextQueue, \* nextQueueTime
          table      \* the rows of each level's table

\* For the properties.
VARIABLES epoch,  \* the time an id 0 would have
          failed  \* rows whose insert the database refused in this run

threadVars == <<up, pc, due, asleep, recent, nextQueue>>
memoryVars == <<mem, id, next, queue>>
diskVars   == <<table, epoch, failed>>
vars       == <<clock, threadVars, memoryVars, diskVars>>

Min2(a, b) == IF a <= b THEN a ELSE b
Max2(a, b) == IF a >= b THEN a ELSE b

Times(samples) == {samples[i].time : i \in 1 .. Len(samples)}

Ids(rows) == {r.id : r \in rows}

Row(sample) == [id |-> sample.id, time |-> sample.time]

Samples == [id : Nat, time : Nat, empty : BOOLEAN]
Rows    == [id : Nat, time : Nat]

-----------------------------------------------------------------------------
(***************************************************************************)
(* The database.  sample is the primary key: an insert of an id that is    *)
(* there fails, and nobody looks at the result.                            *)
(***************************************************************************)
Insert(x, row) == [kind |-> "insert", level |-> x, row |-> row]
Delete(x, below) == [kind |-> "delete", level |-> x, below |-> below]

Execute(tables, op) ==
    LET rows == tables[op.level] IN
    [tables EXCEPT ![op.level] =
        IF op.kind = "delete" THEN {r \in rows : r.id >= op.below}
        ELSE IF op.row.id \in Ids(rows) THEN rows
        ELSE rows \cup {op.row}]

\* insertDatabaseItems
ExecuteAll(tables, ops) ==
    LET after[n \in 0 .. Len(ops)] ==
            IF n = 0 THEN tables ELSE Execute(after[n - 1], ops[n])
    IN  after[Len(ops)]

Queued(x) ==
    {queue[i].row : i \in {j \in 1 .. Len(queue) :
                              queue[j].kind = "insert" /\ queue[j].level = x}}

\* Wrong: keeps what is older.
MutRemoveOldSamples == [x \in Levels |-> Delete(x, id[x] - Keep + 2)]

\* removeOldSamples, of every level
RemoveOldSamples == [x \in Levels |-> Delete(x, id[x] - Keep)]

-----------------------------------------------------------------------------
(***************************************************************************)
(* updateHistory: a level whose time has come takes one turn per interval  *)
(* that has passed, more than one when the thread was late.  Turns too     *)
(* long ago only count.                                                    *)
(***************************************************************************)
Turns(x) ==
    IF next[x] > Min2(due, clock) THEN 0
    ELSE (clock - next[x]) \div Interval[x] + 1

\* Wrong: the id is taken before it is counted up.
MutHistoryItem(x, turn, times) ==
    LET time == next[x] + (turn - 1) * Interval[x] IN
    [id |-> id[x] + turn - 1, time |-> time,
     empty |-> ~ \E t \in times : t \in (time - Interval[x]) .. time]

\* historyItemAtIndex, with the times of the samples it averages: empty when
\* there are none in the interval that ends at the turn.
HistoryItem(x, turn, times) ==
    LET time == next[x] + (turn - 1) * Interval[x] IN
    [id |-> id[x] + turn, time |-> time,
     empty |-> ~ \E t \in times : t \in (time - Interval[x]) .. time]

\* The turns that leave a sample, in their order: those that are not older
\* than HistorySize intervals.
Turned(x, times) ==
    Only([turn \in 1 .. Turns(x) |-> HistoryItem(x, turn, times)],
         {s \in Samples : s.time > clock - HistorySize * Interval[x]})

\* One push_front per sample, each followed by at most one pop_back: what a
\* restart has read may be longer than HistorySize, and stays so.
Pushed(samples, items) ==
    SubSeq(Reverse(items) \o samples, 1,
           Min2(Len(samples) + Len(items), Max2(Len(samples), HistorySize)))

Inserts(x, items) ==
    LET stored == Only(items, {s \in Samples : ~s.empty}) IN
    [i \in 1 .. Len(stored) |-> Insert(x, Row(stored[i]))]

(***************************************************************************)
(* One second of the statistics thread: the collector takes a sample that  *)
(* bears the time it was due (or cannot: /proc/loadavg does not open),     *)
(* then the levels follow in order, each from the samples the level below  *)
(* has by now.  A thread that is late takes the next sample at once, ahead *)
(* of its time; else it sleeps.                                            *)
(***************************************************************************)
Sample(taken) ==
    LET level0 == IF taken THEN Pushed(recent, <<due>>) ELSE recent
        level[x \in Levels] ==
          LET times == IF From[x] = 0 THEN {level0[i] : i \in 1 .. Len(level0)}
                       ELSE Times(level[From[x]].mem)
              items == Turned(x, times)
          IN  [items |-> items, mem |-> Pushed(mem[x], items)]
    IN  /\ up
        /\ pc = "sample"
        /\ asleep => clock >= due
        /\ recent' = level0
        /\ mem' = [x \in Levels |-> level[x].mem]
        /\ id' = [x \in Levels |-> id[x] + Turns(x)]
        /\ next' = [x \in Levels |-> next[x] + Turns(x) * Interval[x]]
        /\ queue' = queue \o FlattenSeq([x \in Levels |-> Inserts(x, level[x].items)])
        /\ asleep' = (due + 1 > clock)
        /\ due' = IF due + 1 > clock THEN due + 1 ELSE clock + 1
        /\ pc' = IF clock >= nextQueue THEN "queue" ELSE "sample"
        /\ UNCHANGED <<clock, up, nextQueue, diskVars>>

\* What the two wrong ones below have in common with the right one.
MutFlushing(n, ops) ==
    /\ up
    /\ pc = "queue"
    /\ n <= Len(ops)
    /\ table' = ExecuteAll(table, SubSeq(ops, n + 1, Len(ops)))
    /\ nextQueue' = clock + FlushPeriod
    /\ pc' = "sample"
    /\ UNCHANGED <<clock, up, due, asleep, recent, mem, id, next, epoch, failed>>

\* Wrong: the queue is not cleared.
MutFlush(n) == MutFlushing(n, queue \o RemoveOldSamples) /\ UNCHANGED queue

(***************************************************************************)
(* The queue: the old rows' removal is put behind what waits, and all of   *)
(* it is executed.  While another process (istatserver --verify) reads the *)
(* database, it is locked: the first n statements fail, are not looked at, *)
(* and are gone with the queue.                                            *)
(***************************************************************************)
Flush(n) ==
    LET ops == queue \o RemoveOldSamples IN
    /\ up
    /\ pc = "queue"
    /\ n <= Len(ops)
    /\ table' = ExecuteAll(table, SubSeq(ops, n + 1, Len(ops)))
    /\ failed' = [x \in Levels |-> failed[x] \cup
                    {ops[i].row : i \in {j \in 1 .. n : /\ ops[j].kind = "insert"
                                                        /\ ops[j].level = x}}]
    /\ queue' = <<>>
    /\ nextQueue' = clock + FlushPeriod
    /\ pc' = "sample"
    /\ UNCHANGED <<clock, up, due, asleep, recent, mem, id, next, epoch>>

-----------------------------------------------------------------------------
\* What ends with the process.
Down ==
    /\ up' = FALSE
    /\ pc' = "sample"
    /\ due' = 0
    /\ asleep' = FALSE
    /\ recent' = <<>>
    /\ nextQueue' = 0
    /\ mem' = [x \in Levels |-> <<>>]
    /\ id' = [x \in Levels |-> 1]
    /\ next' = [x \in Levels |-> 0]
    /\ queue' = <<>>
    /\ failed' = [x \in Levels |-> {}]

\* finalize(), on SIGTERM: what is queued is executed, nothing old removed.
Finalize == table' = ExecuteAll(table, queue)

Terminate ==
    /\ up
    /\ Finalize
    /\ Down
    /\ UNCHANGED <<clock, epoch>>

\* SIGINT, or a crash: what is queued is lost.
Crash ==
    /\ up
    /\ Down
    /\ UNCHANGED <<clock, table, epoch>>

-----------------------------------------------------------------------------
\* The rows "where sample >= newest - LoadWindow".
Window(rows) == {r \in rows : \A s \in rows : r.id >= s.id - LoadWindow}

\* Wrong: a limit of as many rows as memory keeps.
MutLoaded(rows) ==
    LET window == Window(rows)
        rank(r) == Cardinality({s \in window : s.id <= r.id})
        rowAt(n) == CHOOSE r \in window : rank(r) = n
        count == Min2(HistorySize, Cardinality(window))
    IN  [n \in 1 .. count |->
            LET r == rowAt(count + 1 - n) IN
            [id |-> r.id, time |-> r.time, empty |-> FALSE]]

(***************************************************************************)
(* loadPreviousSamples: "order by sample asc limit LoadWindow", each put   *)
(* in front.  The window can hold LoadWindow + 1 rows; the limit then cuts *)
(* off the newest.                                                         *)
(***************************************************************************)
Loaded(rows) ==
    LET window == Window(rows)
        rank(r) == Cardinality({s \in window : s.id <= r.id})
        rowAt(n) == CHOOSE r \in window : rank(r) = n
        count == Min2(LoadWindow, Cardinality(window))
    IN  [n \in 1 .. count |->
            LET r == rowAt(count + 1 - n) IN
            [id |-> r.id, time |-> r.time, empty |-> FALSE]]

\* fillGaps: how many turns have gone by since the newest sample read.
Gaps(x, nextTime) ==
    IF nextTime > clock THEN 0 ELSE (clock - nextTime) \div Interval[x] + 1

(***************************************************************************)
(* The start: every level reads its rows and counts the intervals since    *)
(* then; a level without any begins at 1 and stores that row at once.  The *)
(* first update's samples bear the time 0.                                 *)
(***************************************************************************)
Start ==
    LET loaded == [x \in Levels |-> Loaded(table[x])]
        new == {x \in Levels : table[x] = {}}
        nextTime == [x \in Levels |-> IF x \in new THEN clock + 1
                                      ELSE loaded[x][1].time + Interval[x]]
    IN  /\ ~up
        /\ up' = TRUE
        /\ pc' = "sample"
        /\ recent' = <<0>>
        /\ mem' = loaded
        /\ id' = [x \in Levels |-> IF x \in new THEN 1
                                   ELSE loaded[x][1].id + Gaps(x, nextTime[x])]
        /\ next' = [x \in Levels |->
                      IF x \in new THEN clock + 1 + Interval[x]
                      ELSE nextTime[x] + Gaps(x, nextTime[x]) * Interval[x]]
        /\ table' = [x \in Levels |->
                       IF x \in new THEN {[id |-> 1, time |-> clock + 1]} ELSE table[x]]
        /\ epoch' = [x \in Levels |-> IF x \in new THEN clock + 1 - Interval[x]
                                      ELSE epoch[x]]
        /\ due' = clock + 1
        /\ asleep' = TRUE
        /\ nextQueue' = clock + 1 + FirstFlush
        /\ UNCHANGED <<clock, queue, failed>>

Tick ==
    /\ clock < MaxTime
    /\ clock' = clock + 1
    /\ UNCHANGED <<threadVars, memoryVars, diskVars>>

Init ==
    /\ clock = StartTime
    /\ up = FALSE
    /\ pc = "sample"
    /\ due = 0
    /\ asleep = FALSE
    /\ recent = <<>>
    /\ mem = [x \in Levels |-> <<>>]
    /\ id = [x \in Levels |-> 1]
    /\ next = [x \in Levels |-> 0]
    /\ queue = <<>>
    /\ nextQueue = 0
    /\ table = [x \in Levels |-> {}]
    /\ epoch = [x \in Levels |-> 0]
    /\ failed = [x \in Levels |-> {}]

Next ==
    \/ \E taken \in BOOLEAN : Sample(taken)
    \/ \E n \in 0 .. Len(queue) + Len(Interval) : Flush(n)
    \/ Terminate
    \/ Crash
    \/ Start
    \/ Tick

Spec == Init /\ [][Next]_vars

-----------------------------------------------------------------------------
TypeOK ==
    /\ clock \in StartTime .. MaxTime
    /\ up \in BOOLEAN
    /\ pc \in {"sample", "queue"}
    /\ due \in Nat
    /\ asleep \in BOOLEAN
    /\ recent \in Seq(Nat)
    /\ mem \in [Levels -> Seq(Samples)]
    /\ id \in [Levels -> Nat]
    /\ next \in [Levels -> Nat]
    /\ \A i \in 1 .. Len(queue) :
          /\ queue[i].kind = "insert"
          /\ queue[i].level \in Levels
          /\ queue[i].row \in Rows
    /\ nextQueue \in Nat
    /\ \A x \in Levels : table[x] \subseteq Rows /\ failed[x] \subseteq Rows
    /\ epoch \in [Levels -> Nat]

(***************************************************************************)
(* Ids and times keep step: over late samples, missed intervals, lost      *)
(* queues and restarts a sample's id still says how many intervals after   *)
(* the level's beginning it lies, in memory, in the queue and in the       *)
(* table, so the ids a client remembers stay good.  A level begins anew    *)
(* only when its table is empty at a start.                                *)
(***************************************************************************)
OnTime(x, samples) ==
    \A s \in samples : s.time = epoch[x] + s.id * Interval[x]

IdsFollowTime ==
    \A x \in Levels :
        /\ OnTime(x, table[x])
        /\ up => /\ OnTime(x, {Row(mem[x][i]) : i \in 1 .. Len(mem[x])})
                 /\ OnTime(x, Queued(x))
                 /\ next[x] = epoch[x] + (id[x] + 1) * Interval[x]

(***************************************************************************)
(* No insert is refused for its key: no two queued rows of a level have    *)
(* the same id, nor one that is stored.  (A refused row would be lost      *)
(* without a word.)                                                        *)
(***************************************************************************)
NoKeyCollision ==
    /\ \A x \in Levels : Ids(Queued(x)) \cap Ids(table[x]) = {}
    /\ \A i, j \in 1 .. Len(queue) :
          queue[i].level = queue[j].level /\ queue[i].row.id = queue[j].row.id => i = j

(***************************************************************************)
(* What a client can be shown from memory is stored or on its way there,   *)
(* unless the database refused it or it is old enough to be removed.       *)
(***************************************************************************)
ShownIsStored ==
    up => \A x \in Levels : \A i \in 1 .. Len(mem[x]) :
            LET s == mem[x][i] IN
            \/ s.empty
            \/ s.id < id[x] - Keep
            \/ Row(s) \in table[x] \cup Queued(x) \cup failed[x]

(***************************************************************************)
(* A restart brings back every row of the last LoadWindow ids, but for the *)
(* newest when there is one more row than the query's limit.               *)
(***************************************************************************)
RestartBringsBack ==
    [][~up /\ up' => \A x \in Levels : \A r \in table[x] :
         LET younger == {s \in table[x] : s.id > r.id}
         IN  (\A s \in younger : r.id >= s.id - LoadWindow) =>
               \/ \E i \in 1 .. Len(mem'[x]) : Row(mem'[x][i]) = r
               \/ younger = {} /\ Cardinality(Window(table[x])) > LoadWindow]_vars
=============================================================================
