------------------------------ MODULE Samples ------------------------------
(***************************************************************************)
(* One series of one collector (src/src/stats/), from what the system      *)
(* shows each second to its history of two levels, over restarts.  History *)
(* and KeyedHistory say when samples are taken, numbered, stored and read  *)
(* back; this module says what is in them.                                 *)
(*                                                                         *)
(* A behaviour is about one kind of series.  The system (external) changes *)
(* each second; its reading may fail or the device may not be listed, and  *)
(* disks and sensors are read each third second only: any second may go by *)
(* without a sample.                                                       *)
(***************************************************************************)
EXTENDS Measures, FiniteSetsExt

CONSTANTS Kinds,       \* the kinds of series
          HistorySize, \* HISTORY_SIZE
          EnergyRange, \* max_energy_range_uj
          Epoch,       \* the clock at first; times of samples are later than 0
          LastTime     \* bound on the clock

ASSUME SamplesAssumption ==
    /\ {HistorySize, EnergyRange, Epoch, LastTime} \subseteq Nat \ {0}
    /\ Kinds \subseteq {"cpu", "memory", "load", "network", "diskactivity", "disks",
                        "temperature", "power", "gpuload"}

\* Counters of 64 bits do not go round.
ASSUME CountersAssumption == (LastTime + 1) * Unit < Word

\* The energy shown goes round once at most between two readings, and the watts
\* of any number of seconds are whole.
ASSUME EnergyAssumption ==
    /\ 2 * (LastTime - Epoch) <= EnergyRange
    /\ \A seconds \in 1 .. (LastTime - Epoch) : Unit % seconds = 0

VARIABLES kind,    \* what the series is of
          clock,   \* the clock
          system,  \* what the system shows
          up,      \* the process runs
          made,    \* the item of the device is there
          last,    \* the readings kept for the next second
          mem,     \* samples[0], samples[1] and samples[2], newest first
          next,    \* sampleIndex[1].nextTime and sampleIndex[2].nextTime
          queue,   \* databaseQueue: the turns to be stored
          stored,  \* the tables: the turns stored, oldest first
          begun,   \* the time the tables were made, 0 before
          started, \* of the process: when it started, whether without tables, its first
                   \* and latest reading, whether a counter started again, and what its
                   \* samples told, up to the latest
          log      \* the samples of level 0 ever taken

historyVars == <<mem, next, queue>>
samplesVars == <<kind, clock, system, up, made, last, historyVars, stored, begun, started, log>>

Levels == {1, 2}

\* The collectors of a single series, and those whose devices may come later.
Single == {"cpu", "memory", "load"}
Late   == {"network", "diskactivity", "disks", "gpuload"}

-----------------------------------------------------------------------------
(***************************************************************************)
(* The system.  Counters grow, and start again when a device is plugged    *)
(* in anew; a tick of the processor is spent working or idle; the energy   *)
(* shown starts again beyond its range, a GPU may count more busy time     *)
(* than time.                                                              *)
(***************************************************************************)
Fresh ==
    [cpu          |-> [user |-> 0, idle |-> 0],
     memory       |-> [total |-> 8 * Unit, buffer |-> Unit, free |-> Unit, cached |-> 0,
                       active |-> 0],
     load         |-> [one |-> 0, five |-> 0, fifteen |-> Unit],
     network      |-> [up |-> 0, down |-> Unit],
     diskactivity |-> [r |-> 0, w |-> Unit],
     disks        |-> [blocks |-> 8 * Unit, available |-> 2 * Unit],
     temperature  |-> [value |-> Unit],
     power        |-> [energy |-> EnergyRange - 1],
     gpuload      |-> [busy |-> 0, total |-> 0]]

Changed ==
    CASE kind = "cpu" ->
            {[system EXCEPT !.user = @ + 1], [system EXCEPT !.idle = @ + 1]}
      [] kind = "memory" ->
            {[system EXCEPT !.free = f * Unit, !.cached = c * Unit, !.active = c * Unit] :
                f \in {1, 3}, c \in {0, 2}}
      [] kind = "load" ->
            {[one |-> a * Unit, five |-> a * Unit, fifteen |-> b * Unit] :
                a \in {0, 2}, b \in {1, 3}}
      [] kind = "network" ->
            {[up |-> system.up + a * Unit, down |-> system.down + Unit] : a \in {0, 1}}
                \cup {[up |-> 0, down |-> 0]}
      [] kind = "diskactivity" ->
            {[r |-> system.r + a * Unit, w |-> system.w + Unit] : a \in {0, 1}}
                \cup {[r |-> 0, w |-> 0]}
      [] kind = "disks" ->
            {[blocks |-> b * Unit, available |-> a * Unit] : b \in {6, 8}, a \in {1, 2}}
      [] kind = "temperature" -> {[value |-> v * Unit] : v \in {-2, 1, 3}}
      [] kind = "power" -> {[energy |-> system.energy + e] : e \in 0 .. 2}
      [] kind = "gpuload" ->
            {[busy |-> system.busy + b, total |-> system.total + 1] : b \in 0 .. 2}

EnergyShown(energy) == energy % (EnergyRange + 1)

\* The counter each field of a sample is taken from.
CounterOf == [u |-> "up", d |-> "down", r |-> "r", w |-> "w", value |-> "energy"]

\* The fields that are told, of a kind that counts.
Fields ==
    CASE kind = "network"      -> {"u", "d"}
      [] kind = "diskactivity" -> {"r", "w"}
      [] kind = "power"        -> {"value"}
      [] OTHER                 -> {}

\* A sample tells a count, or of power what was spent since the sample before.
AddedUp(values, time) ==
    IF values = <<>> THEN started.told
    ELSE [f \in Fields |->
             started.told[f] + values[1][f] * (IF kind = "power" THEN time - started.sampled
                                               ELSE 1)]

-----------------------------------------------------------------------------
\* The readings an item begins with.
NoReading ==
    [cpu          |-> [user |-> 0, idle |-> 0],
     memory       |-> <<>>, load |-> <<>>, disks |-> <<>>, temperature |-> <<>>,
     network      |-> [up |-> 0, down |-> 0],
     diskactivity |-> [r |-> 0, w |-> 0],
     power        |-> [energy |-> -1, time |-> 0],
     gpuload      |-> [busy |-> -1, total |-> -1]]

\* What an update makes of the system it finds, if anything.
Measured(found, time) ==
    CASE kind = "cpu"          -> <<CpuSample(found, last)>>
      [] kind = "memory"       -> <<MemorySample(found)>>
      [] kind = "load"         -> <<LoadSample(found)>>
      [] kind = "network"      -> <<NetworkSample(found, last)>>
      [] kind = "diskactivity" -> <<ActivitySample(found, last)>>
      [] kind = "disks"        -> <<DiskSample(found)>>
      [] kind = "temperature"  -> <<found>>
      [] kind = "power"        ->
            PowerSample(EnergyShown(found.energy), last.energy, EnergyRange, time, last.time)
      [] kind = "gpuload"      -> GpuLoadSample(found, last)

Kept(found, time) ==
    CASE kind \in {"cpu", "network", "diskactivity", "gpuload"} -> found
      [] kind = "power" -> [energy |-> EnergyShown(found.energy), time |-> time]
      [] OTHER -> last

Turn(m, level, time) ==
    CASE kind = "cpu"          -> CpuTurn(m, HistorySize, level, time)
      [] kind = "memory"       -> MemoryTurn(m, HistorySize, level, time)
      [] kind = "load"         -> LoadTurn(m, HistorySize, level, time)
      [] kind = "network"      -> NetworkTurn(m, HistorySize, level, time)
      [] kind = "diskactivity" -> ActivityTurn(m, HistorySize, level, time)
      [] kind = "disks"        -> DiskTurn(m, HistorySize, level, time)
      [] OTHER                 -> SensorTurn(m, HistorySize, level, time)

HistoryOf(rows) ==
    CASE kind = "cpu"          -> CpuHistory(rows)
      [] kind = "memory"       -> MemoryHistory(rows)
      [] kind = "load"         -> LoadHistory(rows)
      [] kind = "network"      -> NetworkHistory(rows)
      [] kind = "diskactivity" -> ActivityHistory(rows)
      [] kind = "disks"        -> DiskHistory(rows)
      [] OTHER                 -> SensorHistory(rows)

\* The rows stored of a level, newest first.
Rows(level, tables) ==
    LET turns == SelectSeq(tables, LAMBDA t : t.level = level /\ t.rows # <<>>)
    IN  Reverse([i \in DOMAIN turns |-> turns[i].rows[1]])

NoMemory == <<<<>>, <<>>, <<>>>>

ReadBack(tables) == <<<<>>, HistoryOf(Rows(1, tables)), HistoryOf(Rows(2, tables))>>

-----------------------------------------------------------------------------
(***************************************************************************)
(* A level's turn, when its time has come.  Of a collector with devices a  *)
(* turn is stored without a sample, too.                                   *)
(***************************************************************************)
LevelTurn(h, level, time) ==
    IF h.next[level] > time THEN h
    ELSE LET turn == IF made' THEN Turn(h.mem, level, h.next[level])
                     ELSE [mem |-> h.mem, rows |-> <<>>]
         IN  [mem   |-> turn.mem,
              next  |-> [h.next EXCEPT ![level] = @ + Interval[level]],
              queue |-> IF kind \in Single /\ turn.rows = <<>> THEN h.queue
                        ELSE Append(h.queue, [level |-> level, time |-> h.next[level],
                                              rows |-> turn.rows])]

(***************************************************************************)
(* A second: the system found is sampled when it is seen, an item is made  *)
(* for a device listed for the first time, the levels take their turns.    *)
(***************************************************************************)
Second(found, seen) ==
    LET time   == clock + 1
        read   == seen /\ made'
        values == IF read THEN Measured(found, time) ELSE <<>>
        base   == IF made' /\ ~made THEN ReadBack(stored) ELSE mem
        front  == IF values = <<>> THEN base
                  ELSE [base EXCEPT ![1] = Pushed(@, HistorySize,
                          [time |-> time, v |-> values[1], empty |-> FALSE])]
        after  == LevelTurn(LevelTurn([mem |-> front, next |-> next, queue |-> queue],
                                      1, time), 2, time)
    IN  /\ up
        /\ clock < LastTime
        /\ clock' = time
        /\ system' = found
        /\ made' = (made \/ (seen /\ kind \in Late))
        /\ last' = IF read THEN Kept(found, time) ELSE last
        /\ mem' = after.mem
        /\ next' = after.next
        /\ queue' = after.queue
        /\ started' =
              [started EXCEPT
                  !.first   = IF read /\ @ = <<>> THEN <<found>> ELSE @,
                  !.latest  = IF read THEN found ELSE @,
                  !.again   = @ \/ (kind \in {"network", "diskactivity"}
                                    /\ found = NoReading[kind]),
                  !.told    = AddedUp(values, time),
                  !.sampled = IF values = <<>> THEN @ ELSE time]
        /\ log' = log \cup {[time |-> time, v |-> values[i]] : i \in DOMAIN values}
        /\ UNCHANGED <<kind, up, stored, begun>>

(***************************************************************************)
(* init and the first update: the history is read back, or made, and the   *)
(* first sample of a collector that is always ready bears the time 0.  The *)
(* others only learn what is there; the energy's reading is kept.          *)
(***************************************************************************)
InitialRow(level) ==
    LET zero(item) == [item EXCEPT !.v = [f \in DOMAIN @ |-> 0]] IN
    [level |-> level, time |-> clock,
     rows  |-> CASE kind = "cpu"    -> <<CpuRow(zero(CpuItem(<<>>, level, clock)))>>
                 [] kind = "memory" -> <<MemoryRow(zero(MemoryItem(<<>>, <<>>, level, clock)))>>
                 [] kind = "load"   -> <<LoadRow(zero(LoadItem(<<>>, level, clock)))>>
                 [] OTHER           -> <<>>]

\* fillGapsAtIndex: the first turn not yet stored and not yet gone by.
NextTurn(level, tables, from) ==
    LET after == {t.time : t \in {s \in ToSet(tables) : s.level = level}} IN
    Min({t \in (from + 1) .. (LastTime + Interval[level]) :
            /\ (t - from) % Interval[level] = 0
            /\ t >= clock
            /\ \A s \in after : t > s})

Start(seen) ==
    LET tables == IF begun = 0 THEN <<InitialRow(1), InitialRow(2)>> ELSE stored
        first  == IF begun = 0 THEN clock ELSE begun
        read   == IF kind \in Single /\ begun = 0 THEN NoMemory ELSE ReadBack(stored)
        value  == IF seen THEN Measured(system, clock) ELSE <<>>
    IN  /\ ~up
        /\ up' = TRUE
        /\ begun' = first
        /\ stored' = tables
        /\ made' = (seen \/ kind \in Single)
        /\ mem' = IF ~made' THEN NoMemory
                  ELSE IF kind \in Single /\ seen
                  THEN [read EXCEPT ![1] = <<[time |-> 0, v |-> value[1], empty |-> FALSE]>>]
                  ELSE read
        /\ next' = [l \in Levels |-> NextTurn(l, tables, first)]
        /\ queue' = <<>>
        /\ last' = IF seen /\ kind \in {"cpu", "power", "gpuload"} THEN Kept(system, clock)
                   ELSE NoReading[kind]
        /\ started' = [time |-> clock, fresh |-> begun = 0, latest |-> system, again |-> FALSE,
                       first |-> IF seen /\ kind \in {"cpu", "power", "gpuload"}
                                 THEN <<system>> ELSE <<>>,
                       told  |-> [f \in Fields |-> 0], sampled |-> clock]
        /\ UNCHANGED <<kind, clock, system, log>>

\* SIGTERM stores what is queued, a crash loses it.
Stop(saves) ==
    /\ up
    /\ up' = FALSE
    /\ stored' = IF saves THEN stored \o queue ELSE stored
    /\ made' = FALSE
    /\ last' = NoReading[kind]
    /\ mem' = NoMemory
    /\ queue' = <<>>
    /\ UNCHANGED <<kind, clock, system, next, begun, started, log>>

\* The machine is on, the server is not.
Wait(found) ==
    /\ ~up
    /\ clock < LastTime
    /\ clock' = clock + 1
    /\ system' = found
    /\ UNCHANGED <<kind, up, made, last, historyVars, stored, begun, started, log>>

SamplesInit ==
    /\ kind \in Kinds
    /\ clock = Epoch
    /\ system = Fresh[kind]
    /\ up = FALSE
    /\ made = FALSE
    /\ last = NoReading[kind]
    /\ mem = NoMemory
    /\ next = <<0, 0>>
    /\ queue = <<>>
    /\ stored = <<>>
    /\ begun = 0
    /\ started = [time |-> 0, fresh |-> TRUE, first |-> <<>>, latest |-> system, again |-> FALSE,
                  told |-> [f \in Fields |-> 0], sampled |-> 0]
    /\ log = {}

SamplesNext ==
    \/ \E found \in Changed : (\E seen \in BOOLEAN : Second(found, seen)) \/ Wait(found)
    \/ \E seen \in BOOLEAN : Start(seen)
    \/ \E saves \in BOOLEAN : Stop(saves)

SamplesSpec == SamplesInit /\ [][SamplesNext]_samplesVars

-----------------------------------------------------------------------------
\* The samples of level 0 an average of the level may be made of.
Covered(level, time) ==
    {s \in log : s.time \in (time - (IF level = 1 THEN Interval[1]
                                     ELSE Interval[1] + Interval[2])) .. time}

\* No second of the first process was missed up to this time.
NoGap(time) ==
    /\ started.fresh
    /\ \A t \in (begun + 1) .. time : \E s \in log : s.time = t

\* The fields averaged; a load's five and fifteen are not.
Averaged(v) ==
    CASE kind = "memory" -> MemoryKeys
      [] kind = "load"   -> {"one"}
      [] OTHER           -> DOMAIN v

(***************************************************************************)
(* A sample of the history is an average: never more than the most that    *)
(* was measured in the time it covers nor, as long as no second was        *)
(* missed, less than the least, over levels, restarts and lost turns.      *)
(* Only a sum of temperatures below zero is not divided.                   *)
(***************************************************************************)
AveragesAreMeasured ==
    \A level \in Levels : \A i \in DOMAIN mem[level + 1] :
        LET h == mem[level + 1][i]
            measured == Covered(level, h.time)
        IN  /\ ~h.empty
            /\ h.time > begun
            /\ (kind = "temperature" => \A s \in measured : s.v.value >= 0)
            => \A f \in Averaged(h.v) :
                  /\ h.v[f] = 0 \/ \E s \in measured : h.v[f] <= s.v[f]
                  /\ NoGap(h.time) => \E s \in measured : s.v[f] <= h.v[f]

-----------------------------------------------------------------------------
(***************************************************************************)
(* What the samples of a counter tell adds up to what it counted between   *)
(* the first reading and the last, however many seconds the device was not *)
(* listed: nothing is lost and nothing told twice.  A counter that read 0  *)
(* may lose what it counted until the next reading; one that starts again  *)
(* while the process runs is told as all but 2^64.                         *)
(***************************************************************************)
NothingLostOrTwice ==
    kind # "power" /\ up /\ started.first # <<>> /\ ~started.again =>
        \A f \in Fields :
            LET first   == started.first[1][CounterOf[f]]
                counted == started.latest[CounterOf[f]] - first
            IN  /\ started.told[f] <= counted
                /\ first # 0 => started.told[f] = counted

(***************************************************************************)
(* The parts of a whole stay its parts, in every sample and average and    *)
(* after they were stored: the shares of the processor are all of it or,   *)
(* when nothing was counted, none; memory used, free, cached and in        *)
(* buffers is the memory; a GPU is busy no more than all of the time.      *)
(***************************************************************************)
PartsMakeWhole ==
    \A level \in 0 .. 2 : \A i \in DOMAIN mem[level + 1] :
        LET v == mem[level + 1][i].v IN
        CASE kind = "cpu"     -> /\ level = 0 => v.u + v.i \in {0, 100 * Unit}
                                 /\ v.u \in 0 .. 100 * Unit
          [] kind = "memory"  -> v.used + v.free + v.cached + v.buffer = v.total
          [] kind = "gpuload" -> v.value \in 0 .. 100 * Unit
          [] OTHER            -> TRUE

(***************************************************************************)
(* The power told, over the time each sample stands for, is the energy     *)
(* spent since the first reading, but for one unit each time the counter   *)
(* started again, however many seconds could not be read.                  *)
(***************************************************************************)
Wraps(from, to) == (to \div (EnergyRange + 1)) - (from \div (EnergyRange + 1))

EnergyKnown ==
    kind = "power" /\ up /\ started.first # <<>> =>
        LET first == started.first[1].energy
        IN  started.told.value = Unit * (started.latest.energy - first
                                         - Wraps(first, started.latest.energy))
=============================================================================
