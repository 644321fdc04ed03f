------------------------------ MODULE Measures ------------------------------
(***************************************************************************)
(* What a collector makes of what it reads (src/src/stats/): the sample of *)
(* a second, from a gauge or from two readings of a counter; the sample of *)
(* a longer interval, from those of the level below; and the row of the    *)
(* database, which a restart reads back.                                   *)
(*                                                                         *)
(* A value is a record of whole numbers.  The doubles of the code are      *)
(* multiples of Unit, which makes every quotient of a run whole.  Fields   *)
(* that are treated alike stand for one another: user for nice and system, *)
(* r and w of a disk for rIOPS and wIOPS, one reading of the memory or the *)
(* kernel's tables for those like it.                                      *)
(***************************************************************************)
EXTENDS Integers, Sequences, SequencesExt

CONSTANTS Unit,    \* one, in the runs' whole numbers
          Word,    \* 2^64: unsigned counters are taken modulo it
          Interval \* the seconds of a history's sample, by level

ASSUME MeasuresAssumption ==
    /\ {Unit, Word} \subseteq Nat \ {0}
    /\ Interval \in Seq(Nat \ {0})

\* storageIndexes: the level a level is made of, here of the first three.
From == <<0, 1>>

\* Subtraction of unsigned long long.
Unsigned(a, b) == (a - b) % Word

\* Wrong: the first reading counts from zero.
MutSince(reading, last) == Unsigned(reading, last)

(***************************************************************************)
(* What a counter of the kernel has counted since the last reading; a last *)
(* reading of 0 means that there was none.                                 *)
(***************************************************************************)
Since(reading, last) == IF last = 0 THEN 0 ELSE Unsigned(reading, last)

-----------------------------------------------------------------------------
(***************************************************************************)
(* StatsCPU::processSample.  All five readings are taken for the last when *)
(* that of user is 0; the time waited is none of the ticks.                *)
(***************************************************************************)
CpuSample(read, last) ==
    LET base  == IF last.user = 0 THEN read ELSE last
        ticks == (read.user + read.idle) - (base.user + base.idle)
        Share(f) == IF ticks > 0 THEN (Unsigned(read[f], base[f]) * 100 * Unit) \div ticks
                    ELSE 0
    IN  [u |-> Share("user"), i |-> Share("idle")]

(***************************************************************************)
(* StatsMemory::update: what is used is what is neither free nor buffers   *)
(* nor cache; a kernel that tells nothing of activity gets what is not     *)
(* free.  A value the system does not have is -1.                          *)
(***************************************************************************)
MemorySample(read) ==
    [total |-> read.total, free |-> read.free, cached |-> read.cached,
     buffer |-> read.buffer,
     active |-> IF read.active = 0 /\ read.cached = 0 THEN read.total - read.free
                ELSE read.active,
     used |-> read.total - (read.free + read.buffer + read.cached),
     wired |-> -1]

\* StatsLoad::update
LoadSample(read) == [one |-> read.one, two |-> read.five, three |-> read.fifteen]

\* StatsNetwork::processInterface
NetworkSample(read, last) ==
    [u |-> Since(read.up, last.up), d |-> Since(read.down, last.down)]

\* StatsActivity::processDisk
ActivitySample(read, last) == [r |-> Since(read.r, last.r), w |-> Since(read.w, last.w)]

\* StatsDisks::get_sizes: the blocks kept for root count as used.
DiskSample(read) ==
    [t |-> read.blocks, u |-> read.blocks - read.available,
     f |-> read.available]

\* Wrong: a counter that has gone round is not noticed.
MutPowerSample(read, last, range, time, lastTime) ==
    LET delta == read - last IN
    IF last < 0 \/ time <= lastTime \/ delta < 0 THEN <<>>
    ELSE <<[value |-> (delta * Unit) \div (time - lastTime)]>>

(***************************************************************************)
(* StatsSensors::update_rapl: watts, from the energy spent since the last  *)
(* reading.  The counter starts again beyond its range.                    *)
(***************************************************************************)
PowerSample(read, last, range, time, lastTime) ==
    LET behind == read - last
        delta  == IF behind < 0 /\ range > 0 THEN behind + range ELSE behind
    IN  IF last < 0 \/ time <= lastTime \/ delta < 0 THEN <<>>
        ELSE <<[value |-> (delta * Unit) \div (time - lastTime)]>>

(***************************************************************************)
(* StatsSensors::update_sysfs_devfreq_gpu: the share of the time since the *)
(* last reading the GPU was busy.                                          *)
(***************************************************************************)
GpuLoadSample(read, last) ==
    LET busy  == read.busy - last.busy
        total == read.total - last.total
        share == (busy * 100 * Unit) \div total
    IN  IF last.busy < 0 \/ last.total < 0 \/ busy < 0 \/ total <= 0 THEN <<>>
        ELSE <<[value |-> IF share > 100 * Unit THEN 100 * Unit ELSE share]>>

-----------------------------------------------------------------------------
\* Wrong: goes on beyond the interval's start.
MutCounted(from, level, time) == SelectSeq(from, LAMBDA s : s.time <= time)

(***************************************************************************)
(* The samples of the level below a historyItemAtIndex counts: from the    *)
(* front, those of the interval, both its ends included; an empty one is   *)
(* counted like any other.                                                 *)
(***************************************************************************)
Counted(from, level, time) ==
    LET past == SelectSeq(from, LAMBDA s : s.time <= time)
        stop == SelectInSeq(past, LAMBDA s : s.time < time - Interval[level])
    IN  SubSeq(past, 1, IF stop = 0 THEN Len(past) ELSE stop - 1)

Sum(counted, f) == FoldLeft(LAMBDA sofar, s : sofar + s.v[f], 0, counted)

Mean(counted, f) == IF counted = <<>> THEN 0 ELSE Sum(counted, f) \div Len(counted)

\* A sample of a history; the level's id is History's matter.
Sample(time, v, counted) == [time |-> time, v |-> v, empty |-> counted = <<>>]

CpuItem(from, level, time) ==
    LET counted == Counted(from, level, time)
    IN  Sample(time, [u |-> Mean(counted, "u")], counted)

\* Wrong: divides by the samples there may be.
MutMemoryItem(from, newest, level, time) ==
    LET counted == Counted(from, level, time)
        fields  == {"total", "free", "cached", "buffer", "active", "used", "wired"}
    IN  Sample(time,
               [f \in fields |->
                   IF newest # <<>> /\ newest[1].v[f] = -1 THEN -1
                   ELSE IF f = "used" THEN Sum(counted, f) \div (Interval[level] + 1)
                   ELSE Mean(counted, f)],
               counted)

\* What the newest sample of level 0 does not have, the average has not.
MemoryItem(from, newest, level, time) ==
    LET counted == Counted(from, level, time)
        fields  == {"total", "free", "cached", "buffer", "active", "used", "wired"}
    IN  Sample(time,
               [f \in fields |-> IF newest # <<>> /\ newest[1].v[f] = -1 THEN -1
                                 ELSE Mean(counted, f)],
               counted)

(***************************************************************************)
(* load1 is divided by the count, load15 twice, load5 never, and load15 is *)
(* stored as both of them.                                                 *)
(***************************************************************************)
LoadItem(from, level, time) ==
    LET counted == Counted(from, level, time)
        twice   == IF counted = <<>> THEN 0
                   ELSE Mean(counted, "three") \div Len(counted)
    IN  Sample(time, [one |-> Mean(counted, "one"), two |-> twice, three |-> twice],
               counted)

NetworkItem(from, level, time) ==
    LET counted == Counted(from, level, time)
    IN  Sample(time, [u |-> Mean(counted, "u"), d |-> Mean(counted, "d")], counted)

ActivityItem(from, level, time) ==
    LET counted == Counted(from, level, time)
    IN  Sample(time, [r |-> Mean(counted, "r"), w |-> Mean(counted, "w")], counted)

\* The total is that of the oldest sample counted.
DiskItem(from, level, time) ==
    LET counted == Counted(from, level, time)
    IN  Sample(time,
               [u |-> Mean(counted, "u"), f |-> Mean(counted, "f"),
                t |-> IF counted = <<>> THEN 0 ELSE Last(counted).v.t],
               counted)

\* A sum that is not positive is left as it is.
SensorItem(from, level, time) ==
    LET counted == Counted(from, level, time)
        sum     == Sum(counted, "value")
    IN  Sample(time, [value |-> IF sum > 0 THEN Mean(counted, "value") ELSE sum], counted)

-----------------------------------------------------------------------------
(***************************************************************************)
(* A collector's tables: a sample as a row, and a row as it is read back.  *)
(* What a row has no column for is lost, or -1.                            *)
(***************************************************************************)
CpuRow(s)    == [time |-> s.time, user |-> s.v.u]
CpuRead(row) == [u |-> row.user]

\* databaseKeys: what /proc/meminfo and /proc/vmstat have.
MemoryKeys == {"total", "free", "cached", "buffer", "active", "used"}

MemoryRow(s) == [f \in MemoryKeys \cup {"time"} |-> IF f = "time" THEN s.time ELSE s.v[f]]

MemoryRead(row) ==
    [f \in MemoryKeys \cup {"wired"} |-> IF f = "wired" THEN -1 ELSE row[f]]

LoadRow(s) ==
    [time |-> s.time, one |-> s.v.one, five |-> s.v.two, fifteen |-> s.v.three]
LoadRead(row) == [one |-> row.one, two |-> row.five, three |-> row.fifteen]

NetworkRow(s)    == [time |-> s.time, upload |-> s.v.u, download |-> s.v.d]
NetworkRead(row) == [u |-> row.upload, d |-> row.download]

ActivityRow(s)    == [time |-> s.time, read |-> s.v.r, write |-> s.v.w]
ActivityRead(row) == [r |-> row.read, w |-> row.write]

DiskRow(s)    == [time |-> s.time, total |-> s.v.t, used |-> s.v.u, free |-> s.v.f]
DiskRead(row) == [t |-> row.total, u |-> row.used, f |-> row.free]

SensorRow(s)    == [time |-> s.time, value |-> s.v.value]
SensorRead(row) == [value |-> row.value]

\* push_front, and pop_back beyond the size.
Pushed(mem, size, sample) ==
    SubSeq(<<sample>> \o mem, 1, IF Len(mem) < size THEN Len(mem) + 1 ELSE size)

(***************************************************************************)
(* updateHistory, one turn of a level: the sample goes in front of the     *)
(* level's memory and, unless it is empty, to the table.                   *)
(***************************************************************************)
Turned(mem, size, level, item, row) ==
    [mem  |-> [mem EXCEPT ![level + 1] = Pushed(@, size, item)],
     rows |-> IF item.empty THEN <<>> ELSE <<row>>]

CpuTurn(mem, size, level, time) ==
    LET item == CpuItem(mem[From[level] + 1], level, time)
    IN  Turned(mem, size, level, item, CpuRow(item))

MemoryTurn(mem, size, level, time) ==
    LET item == MemoryItem(mem[From[level] + 1], mem[1], level, time)
    IN  Turned(mem, size, level, item, MemoryRow(item))

LoadTurn(mem, size, level, time) ==
    LET item == LoadItem(mem[From[level] + 1], level, time)
    IN  Turned(mem, size, level, item, LoadRow(item))

NetworkTurn(mem, size, level, time) ==
    LET item == NetworkItem(mem[From[level] + 1], level, time)
    IN  Turned(mem, size, level, item, NetworkRow(item))

ActivityTurn(mem, size, level, time) ==
    LET item == ActivityItem(mem[From[level] + 1], level, time)
    IN  Turned(mem, size, level, item, ActivityRow(item))

DiskTurn(mem, size, level, time) ==
    LET item == DiskItem(mem[From[level] + 1], level, time)
    IN  Turned(mem, size, level, item, DiskRow(item))

SensorTurn(mem, size, level, time) ==
    LET item == SensorItem(mem[From[level] + 1], level, time)
    IN  Turned(mem, size, level, item, SensorRow(item))

(***************************************************************************)
(* The rows of a level, newest first, as loadPreviousSamplesAtIndex and,   *)
(* for the item of a device, createInterface, createDisk and createSensor  *)
(* read them back.  How many of them and from where is History's matter.   *)
(***************************************************************************)
Read(row, v) == [time |-> row.time, v |-> v, empty |-> FALSE]

CpuHistory(rows)      == [i \in DOMAIN rows |-> Read(rows[i], CpuRead(rows[i]))]
MemoryHistory(rows)   == [i \in DOMAIN rows |-> Read(rows[i], MemoryRead(rows[i]))]
LoadHistory(rows)     == [i \in DOMAIN rows |-> Read(rows[i], LoadRead(rows[i]))]
NetworkHistory(rows)  == [i \in DOMAIN rows |-> Read(rows[i], NetworkRead(rows[i]))]
ActivityHistory(rows) == [i \in DOMAIN rows |-> Read(rows[i], ActivityRead(rows[i]))]
DiskHistory(rows)     == [i \in DOMAIN rows |-> Read(rows[i], DiskRead(rows[i]))]
SensorHistory(rows)   == [i \in DOMAIN rows |-> Read(rows[i], SensorRead(rows[i]))]
=============================================================================
