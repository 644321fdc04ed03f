# A specification of iStat Server

iStat Server samples a machine (CPU, memory, load, network, disks, sensors),
keeps eight levels of history from a second to a year, stores seven of them in
SQLite, and sends what it has to iStat View clients over TLS.  This directory
holds TLA+ models of it, the TLC configurations that check them on small
instances, and TLAPS proofs for every instance.  Paths below are relative to the
repository; `PROJECT.json` maps each definition to its lines, and lists the
hazards of the code with the properties that watch them.

## The system

| component | state | operations | how it meets the others |
|---|---|---|---|
| main loop (`src/main.cpp`) | none but the socket set | select, accept or receive one, sweep idle clients | calls every other part from the main thread |
| socket set (`src/Socketset.*`) | vector of sockets, `fd_set`, `highest` | `+=`, `-=`, `get_ready`, `get_status` | the loop holds references into its vector |
| socket (`src/Socket.*`) | descriptor, TLS state, `readbuf`, `_uuid`, `lastRequest` | accept, startSSL, receive, parse, send | parse reads the collectors under `Stats::lock`, and the list of devices |
| authorised devices (`src/Clientset.*`) | list of names, `clients.dat` | authenticate, is_authenticated, save, read, clear | the file is shared with `istatserver --clear-sessions` |
| statistics thread (`src/Stats.*`) | times of the next sample and the next flush, `lock` | a sample a second, history, a flush every five minutes, finalize | runs beside the main thread; SIGTERM calls finalize in the main thread |
| collectors (`src/stats/*`) | samples and `sampleIndex` of 8 levels, `databaseQueue` | init, update, updateHistory, removeOldSamples | the levels feed each other; the queue feeds SQLite |
| database (`src/Database.*`) | `istatserver.db` | prepare, update, transaction | the result of an update is not looked at |
| replies (`src/Responses.*`) | none | the samples and keys a client lacks, processes, batteries, disks' health | read collectors, some of them by value, under the lock |
| signals, daemon (`src/Daemon.*`) | pid file | SIGINT, SIGTERM, fork, setuid | interrupt any step of the main thread |
| SMART helper (`contrib/istat-smart-helper.py`) | `status.xml` | topology, ask, aggregate, replace | `SmartMetadata.h` reads the file again now and then |
| settings tools, certificates, Avahi, menu bar control | files, services | set up once, or programs of their own | |

What is hard: the socket set is changed while references into it are held, and
descriptors come back in any order; a request arrives in pieces, or with others,
or with the close; the list of devices is saved by truncating a file that
another process may unlink and that a crash may leave half written; ids and times
of the history must stay in step over late samples, refused inserts, crashes and
restarts; the two threads share collectors, and only a part of what they do is
under the lock; SIGTERM runs the flush in whatever state it finds; a reply that
does not fit is cut, and a client asks on from what it has; counters wrap, start
again and miss seconds; devices come and go between two readings of the system.

What makes the parts correct:
the socket set never loses, leaks or duplicates a descriptor, and select sees all
of them; the loop serves only what is ready, removes only what failed or timed
out, and never its listener; a connection is a stream of requests, each handled
once and in order; samples go only to devices that gave the passcode, and such a
device is remembered; an id says when its sample was taken, for ever; what is
shown is stored, and what is stored comes back; what a client has is a run of what
the server had; an average lies among what was measured, and nothing counted is lost
or told twice; a disk is said to be well only when all it lies on was found well.

## The modules

Each section says how a module's state and actions correspond to the code.

### SocketSet and ServerLoop

`SocketSet` is `Socketset.cpp`: `connections`, `socketset` and `highest`, with
`Plus` for `+=` and `Minus` for `-=`.  `Minus` keeps the oddity of the code: after
the erase the reference denotes another element of the vector, so that one is
compared with `highest` (`IdAfterErase`).

`ServerLoop` extends it with the loop of `main.cpp` (`pc`) and its environment.
`Select` goes to `accept`, `dispatch` or `sweep`; `Accept` takes any descriptor
that is free, since the statistics thread opens files of its own; `HandshakeEnds`
stores the socket whatever `startSSL` returned; `Receive` and `ReceiveFails` are
the outcomes of `receive()` the loop tells apart; `SweepRemoves`, `SweepPasses`
and `SweepDone` are the iterator of the timeout sweep.  Two undefined behaviours
are outcomes of the model: `isServer` of an accepted socket is never assigned, so
`HandshakeEnds` takes either value, and a failed `accept()` stores descriptor -1,
where `FD_SET` aborts under the build's `_FORTIFY_SOURCE` (`AcceptFails`).
Seconds pass only where the thread waits (`Tick`); the few instructions between
two waits take none.

### RequestStream, Framing, Sender and Connection

`RequestStream` says what a connection promises: the requests among the first
*n* messages, in their order.  `Framing` is `receive()` over TLS, a record at a
time, and in the clear, all there is, with the framing loop as `Consume`.  Bytes are
symbols; the end tag is two of them, so a cut can fall inside it, and a payload may
itself hold an end tag.  A connection is dropped with messages unread for the reasons
`LossIsExplained` lists: in the clear because the close or an error is found before the
bytes in front of it are handled; over TLS because a record that has no data to read was
alone when select woke (`ArriveDataless`: the beginning of one; one of the protocol's own
that comes alone counts as such, too, though where OpenSSL reads through it to the data
behind, nothing is lost); because the connection broke (`Break`: a reset, a record that
does not decrypt, `Socket.cpp:389-393`); or because no end tag was found for 120 seconds
(`Overdue`, `Sweep`, `main.cpp:300-302`).  The messages counted are those sent after the
handshake.  No message of the model is a document without a type, which is well-formed
and reaches `atoi(NULL)` (`Socket.cpp:524-525`): what a server does then is undefined.
`ParsedText`, `IsFrame` and `Inflate` stand for libxml2 and
zlib.  `ImplementsRequestStream` instantiates the abstract specification with the
same names.  `Only`, of `Subsequence`, is what a stream, a file or a reply keeps of a
sequence; it is written as a recursive function, which a proof can unfold.

`Sender` is `send()` and the calls `parse` makes of it.  The kernel has room for a
few pieces (`wire`).  Over TLS a piece that finds none is kept by the library
(`held`) and tried again from a new copy, which the library may refuse; the call
then gives up, and the next call puts the piece that was kept first.  In the clear a
call gives the kernel what fits and drops the rest.  `lost` keeps what was dropped.
Nothing bounds how often a call tries: a client that does not read holds the main
thread there.

`Connection` puts the two directions beside each other.  One thread serves both and
they share nothing that either would see, so `direction` chooses the one a behaviour
is about, instead of multiplying them.

### Sessions

Messages 100 to 103 on each connection, the list `auth`, and `clients.dat` as
`disk`.  A save is many steps (`PasscodeSaves`, `SaveLine`, `SaveEnds`), so that a
crash (`Stop`) or another process (`ClearSessions`) can come between two of them;
`SaveLineFails` and `PasscodeNotSaved` are the failures nobody looks at.
A name is any text: a sequence of lines (it may hold a newline), each a sequence of words
(what `explode` finds between colons).  `ReadCache` tells what a line authorises by what
it holds, as `Clientset.cpp:132-139` does, and not by who wrote it: one word is a name, more
are the `host:uuid:flag` of older versions.  So a device that calls itself `x:B:1` and
proves itself is written as that line, and after a restart B is authorised, which proved
nothing; a name with a newline becomes one name for each line; and a name of which a full
disk wrote a part becomes what is left of it.  The properties say so: `VouchedFor` are
the devices that proved themselves and those their names, or what is left of them, vouch
for (twice over: a name may be misread after one restart and cut after another).  Where
every name is one word and no word is ever cut, `VouchedFor(proved)` is `proved`.
`proved`, `told`, `lost` and `stale` only record what happened, for the properties.

### StatsThread

The main thread (`main`), the statistics thread (`stats`) and the handler of
SIGTERM, which runs in the main thread, over the lock, the collectors and the
database.  The listener accepts before the thread has started its work, so the start is
modelled step by step, too, all of it without the lock: the database is given to the
collectors (`OpenDatabase`), `init()` of each (`InitCollector`), the entitlement, a
first update of each (`FirstUpdate`), the flags that they are ready (`SetReady`), the
addresses, the times of the next samples (`UpdateNextTimes`).  Then a step is one call of
the thread on one collector (`Second`, in the order of `update_system_stats`), one
collector read by a reply (`Read`), one statement executed (`InsertItems`, `Finalize`).

A collector is its id and the second of its last update, its queue, and the rest of it.
`StatsTouches` and `MainTouches` say which of the three of which collectors each thread is
at.  A reply about network, activity, sensors, disks, battery or processes copies the
whole collector (`Copied`), queue and flags with it; the others are read where they are,
and of the processors' reply the number of processes is a part.  When the two meet, or a
database that was never opened is used, the behaviour is undefined (`undefined`) and the
model ends, since nothing more can be said of the program.  `UndefinedIsKnown` lists the
ways:

* a reply while the thread is in `init()`, the first updates or the addresses of the
  start, at the collector it reads;
* a copy while the database or the entitlement is handed out, the collectors are told
  that they are ready, or their next times are set, at the start or after any second
  (`Stats.cpp:330`, behind the unlock);
* a copy while the queue of that collector is flushed or cleaned up, without the lock;
* SIGTERM before the database is open, or while the thread is at the queue the handler
  goes through: in a flush, an update of the history, or an update of the sensors, the
  first included, which queues limits;
* the first flush of a server without history, whose database is no pointer.

Before its `init()` a collector shows what was in its memory, an id of 0 here, and the
processes, which have none, keep that; `RepliesAreWhole` speaks of a reply made in that
time only so far as each collector shows a state of its start (`Started`).  Whether the
limits of a new sensor count as changed is a value never set, so that its first update
may queue some.  `updateAddresses` inside a second is under the lock and changes nothing
that is shown here.  SIGTERM's statements are never refused by a locked database, which
`History` has for the flush only.

### Replies, SampleCopy and Polling

`Replies` is which samples and which keys a reply holds (`isr_*_data` of
`Responses.cpp`): per item and level those newer than the id asked, from the front of
the memory.  `SampleCopy` is the promise, for all series at once: within a session the
client's copy only grows, by a run that follows what it has, leaving out only what the
server no longer holds.  `Polling` is a client that asks again and again, of a server
that samples two levels, forgets, ends and starts again, over connections that drop with
the replies on them.  A series of the promise is one level of one device.  The refinement
mapping takes the copy as empty when it is of an earlier session: the client compares the
session of message 101 (the start time) with its own.

### History

A collector with one series, the load averages, as the statistics thread drives it.
`Sample` is one second: the sample, then every level's turns (`Turns`,
`HistoryItem`), each reading the samples the level below has by then, then the time
of the next second, late or not.  `Flush` executes the queue and the removal of old
rows; its parameter is how many statements a locked database refused.  `Terminate`,
`Crash` and `Start` are SIGTERM, everything else that ends the process, and `init()`.

The thread's branch for an interval of more than 2 (`Stats.cpp:279-297`) is entered only
when the wall clock is set back while samples are taken, which is not modelled.  Its loop
(282-294), which would tick the levels, is never entered, since `next` is then ahead of
`now`; the lines behind it begin a new second from the clock as it is.

### KeyedHistory

A collector with a series per device, as the network interfaces have them: `items`
is `_items`, `ids` and `rows` are the tables of turns and of samples of one level.
`Second` lists the interfaces, makes an item for one never seen (`Made`, which
reads back what is stored, and `Insert`, which moves the others up), samples, and
takes the turn.  The query of `createInterface`, "order by sample asc limit ...", is
`Window` and, row by row, `IdAt`: the n-th of the window's rows by id, which is told
without sorting; rows of one id cannot be told apart by it, nor by the query.  A queued
insert carries the slot and the allocation its name was bound to, and `Text` is what is
found there when it is executed: a device's name, or `NoDevice`, any text that is none.
Whether the vector moves to another allocation is a choice of the model, since it is
the library's.  `Executed` runs the queue statement by statement.  Turns are on time:
`History` has the late ones.

### Measures and Samples

What is in the samples.  `Measures` has the arithmetic as operators: differences of
counters (`Since`, modulo 2^64), shares of the processor, the parts of the memory
(`MemoryItem`), power from energy (`PowerSample`), the average over an interval
(`Counted` and what follows it), and the row a restart reads back.  Quotients stay
whole by counting in multiples of `Unit`.  `Samples` drives one series of one kind
through seconds, missed readings, counters that start again, turns of two levels,
flushes, crashes and restarts; `started` is history only, of what the process read and
told so far.

### Sensors, Processes, Disks, Battery and Collectors

What comes and goes.  `Sensors`: which sensors are found at the start and under which
key (`CreateSensor` and one operator for each source), what each update reads, the
lowest and highest values and their statements, queued (`pending`), refused or lost.
A machine is a set of what it may show, from one update to the next: lists of chips,
zones, policies and so on, each with a value or none (`IsShown`).
`Processes`: the list from one update to the next, names cut by the kernel and
completed from the command line, ticks, and the answers sorted by one measure.
`Disks`: which mounts are disks, under which label, and which are active and sampled
in an update.  `Battery`: the files of `power_supply`, line by line, and what a reply
makes of them.  Values the code leaves uninitialised are any value (`garbage`).  The
statistics thread updates the collectors one after the other and they share nothing,
so `Collectors` lets `part` choose the one a behaviour is about.  What the code does
thing by thing is a recursive function over the list it goes through (`CreateAll`,
`ProcessAll`, `ProcessDisks`, `CreateBatteries`), and a part of a list is `Those`.

### SmartHealth

The helper that asks the disks (`BeginRun`, a `Check` for each device, `Publish` or
`Abandon`), the file, the server's cache (`Refresh`, at each update of the disks) and
the replies (`Lookup`, `DiskInfoData`, `SmartData`).  The topology is computed as the
helper does it, from the block devices of Linux or the registry of macOS.  A reply about
devices goes through the disks asked for, leaves out those whose name tells no device
(`Responses.cpp:833`; `Share` of the run is one), and answers a path not answered yet
(`DevicePaths`, `SmartData`).  A file that is published may be one the server cannot
read (`readable`): larger than 1 MiB, or no well-formed document, for which a control
character in the model name of one disk is enough, because `ET.tostring` writes it as it
is and the server's parser refuses it (`SmartMetadata.h:35-39`).  Then, as when the file
cannot be opened (`opened`; a server out of descriptors), all volumes are forgotten, and a
failure the helper found is not told of, nor is anything else: `FailureIsTold` speaks of
files that can be read and opened.  An attribute of more than 4096 bytes is read as empty
(line 25); the helper cuts what it writes of a volume's details below that, and names and
states are shorter.  That keys of mounted disks differ is assumed, because
`processDisk` makes one disk of a key.  The clock may be set back once and server and
machine may start again at any step.  `of`
and `age` of the file are records for the properties.

## The runs

| run | bounds | checks |
|---|---|---|
| `server_loop` | 3 client descriptors, one below the listener's; timeout 1; 1 unread record; backlog 1 | `SelectCoversWatched`, `DescriptorsAccounted`, `ListenerKept`, `SweepIsComplete`, `NoWrongRemoval` |
| `server_loop_live` | 2 client descriptors | `ClosedClientsReleased` under `FairSpec` |
| `framing` | 2 messages of 5 kinds, every cut; 3 replies, data of 3 pieces, room for 2 | the refinement `ImplementsRequestStream`, `NothingLeftBehind`, `LossIsExplained`, `RepliesAreAccounted` |
| `sessions` | 2 connections; the empty name, two of one word of which one may be cut to the other, and one of two lines that spell both; an old file; a list of at most 2 | `DataOnlyToProved`, `FileFollowsList`, `Remembered` |
| `stats_thread` | the start and 3 seconds, a turn every second one, the queues looked at every second one | `RepliesAreWhole`, `SigtermSaves`, `UndefinedIsKnown`, and under fairness `SigtermEnds`, `RequestsAnswered` |
| `replies` | 2 devices, 2 levels, memory of 2, 5 seconds, 8 kinds of collector | the refinement `ImplementsSampleCopy`, `AnswersAreComplete` |
| `samples` | 9 kinds of series, the clock from 5 to 9, levels of 2 and 4 seconds, an energy counter that wraps after 9 | `AveragesAreMeasured`, `NothingLostOrTwice`, `PartsMakeWhole`, `EnergyKnown` |
| `history` | 2 levels (2 and 3 seconds), 10 seconds, windows of 2 and 4 | `IdsFollowTime`, `NoKeyCollision`, `ShownIsStored`, `RestartBringsBack` |
| `keyed_history` | 2 interfaces, 5 seconds, memory of 2, window of 3 | `NewestIdKnown`, `NoneTwice`, `NewestFirst`, `ComesBack` |
| `keyed_history_names` | the same, 4 seconds | violated: a row is stored under another interface's name |
| `collectors` | 4 machines, 3 updates; 2 pids, 2 programs, 2 ticks; 7 tables of mounts, disk memory 3; 2 batteries, 6 files | `LimitsCover`, `SensorsAreSampled`, `ProcessesAreTold`, `DisksAreMounted`, `BatteriesAreRead` |
| `smart_health` | a Linux host (partition, mirror, alias, a share) and one of macOS (a RAID that lost a member); read every 2 ticks, stale after 3, skew 1, 6 ticks, set back by 1 or 4 | `PassedIsChecked`, `FailureIsTold`, `DevicesAnsweredOnce` |

Why the bounds are enough.  The comparison after the erase involves the erased
socket, the one behind it and the highest, so three clients around the listener
show every order of positions and descriptors.  A second unread record adds
nothing but another turn.  Two messages put one behind the other, with a cut
in each, and a loss between them; the proofs are for any number.  Three replies put a whole reply between one that is cut and one that
begins behind the cut, and data one piece longer than the room is what has to wait.
Two devices are the least that can be confused, and the list holds one
of them twice; the name of two lines spells one device as an old line does and one as a
bare name, and the cut makes one device of another.  Three seconds of the thread hold the second in which the slow
collectors are updated, one with a turn and one without, and a flush, in a second with a
turn, with a second before and behind it.  The code looks at the queues after 60 seconds
and then every 300 by a clock that may jump; `Between` lets the flush come or not
(`FlushInterval`), which takes in every longer wait.  Ten seconds of `History` hold a flush, a crash, a
downtime longer than the windows and a flush after it; the windows keep the
program's relations (a restart reads two rows more than are kept) with 2 for 600.
Five seconds of `KeyedHistory` hold a flush, a crash, a restart with rows to read
back, and an interface that appears after it; a window one longer than the memory
and than what a flush keeps has the program's order of the three sizes.  A memory
of 2 in `Polling` is outrun by a client that misses three seconds, and five seconds
hold a run, a restart and two turns of level 1.  The counters of `Samples` may
start again in any second and be read or not in any second; four steps hold two turns
of the first level and one of the second.  Three updates of the collectors are
the first, in which things are made, and two between which they may go and come back.
The SMART clock is set back by less than one wait, which begins the wait anew, and by
more than everything, which is the jump the code looks for.

The bounds themselves are `MaxBacklog`, `MaxUnread`, `MaxMessages`, `MaxReplies`,
`MaxAuth`, `MaxSecond`, `MaxTime`, `MaxTicks`, `MaxClock`, `MaxUpdate`, `LastTime`,
`MaxDiskUpdate` and `MaxBatteryUpdate`, each a guard of the action it stops.
`MCSessions` uses the symmetry of the connections, `MCCollectors`
that of the pids: no definition tells them apart, and those runs check no liveness.
Deadlock is off where a connection is over once dropped (`framing`), where the
process ends (`stats_thread`), and where a clock or a number of updates reaches its
bound (`replies`, `samples`, `collectors`, `smart_health`); elsewhere it is checked.
`TypeOK` in a module states the domains of its variables.  Those of `ServerLoop`,
`Sessions` and `KeyedHistory` are proved, and so are the ones the other proofs state for
themselves, which leave out the bounds only TLC needs; the rest are there for the reader.

Fairness.  `FairSpec` of `ServerLoop` asks that the main thread, which has no lock to
wait for outside a reply, goes on with its loop (weak fairness of `Loop`), and that
seconds pass whatever the thread does (strong fairness of `Tick`, which is enabled
only where the thread waits).  Nothing is asked of the peers: that handshakes end is
a premise of the property, because nothing in `startSSL` makes it true.
`FairSpec` of `StatsThread` asks that both threads are scheduled (weak fairness of
their steps and of the handler) and that a main thread that waits for the lock gets
it if it is free again and again (strong fairness of `Lock`): the statistics thread
sleeps without the lock for the most part of every second, so the waiting thread is
not always beaten to it.

### The violation

`keyed_history_names`: `StatsNetwork.cpp:753` binds the address of a name, not the
name; an interface that appears before the flush puts another one there.
`ComesBack` therefore speaks only of tables in which the names are right.

### What a reader should know

Disagreements between the code and what its texts say, which the models contain and
the properties allow for, without a run of their own:

* The five and fifteen minute loads of the history: `StatsLoad.cpp:250-258` divides
  `load15` twice and `load5` never.  `AveragesAreMeasured` is about the first.
* `--clear-sessions` only unlinks the file; a daemon that runs keeps its list and
  writes it at the next right passcode.
* The window read at a restart holds one id more than the query's limit, ascending,
  so that the newest row of a full window is left out.
* `SSL_ERROR_WANT_READ` is no error, but leaves 0 for `receive` to return, which
  `main` takes for a close: a TLS record that comes in pieces, or without data, drops the
  connection.
* A device may name itself so that its line in `clients.dat` authorises another after a
  restart (`VouchedFor`).
* One disk's model name can make the SMART file unreadable, and with it every health.
* A flush after a long suspension can remove every row of a level, after which a
  crash makes its ids begin at 1 again (`IdsFollowTime` speaks of the level's present
  beginning).
* A client whose `isServer` happens to be true is never swept.
* A clock set back by less than the time since the SMART file was read begins the
  wait anew: a failure is told after up to twice the thirty seconds (`ReadWithin`).

Where the behaviour is undefined or a value is anything (`UndefinedIsKnown` and the
models' `garbage`):

* The replies take the network, activity, disk, sensor, battery and process collectors by
  value, with their queues and times, while the start, the flush and `updateNextTimes`,
  which take no lock, may be changing those.
* The database is a pointer without a value before `init`, and for ever when history
  is off, where the first flush uses it.  SIGTERM's handler takes no lock.
* `recordedValueChanged` of a sensor, `active` of a new disk whose sizes cannot be
  read, `sampleID` in the reply about processes, the buffer of a process whose
  command line cannot be read (`StatsProcesses.cpp:314-328`), the fields of a battery never
  read, the ids of collectors before their `init`.

And where an exception ends the server: the adapter of a battery is looked for by the end
of its path, as long as the battery's name behind its first three letters
(`StatsBattery.cpp:325`); an adapter whose whole name is shorter makes `substr` throw at
the start.  No battery or adapter of `Battery` is named like that.

And of the numbers: a counter that goes back tells nearly 2^64; the average of empty
samples is stored as zeros; the sum of temperatures is not divided when it is not
positive; an interval's two ends are counted in both its neighbours; battery shares
are divided as integers before they are multiplied, so they are 0 or 100 unless the
file says the capacity; a thermal zone that cannot be read when the server starts is
never sampled; two chips of one label and kind are one sensor; on a QNAP every sensor
found before its own is labelled and read like that.

## What is proved

`Serving_proofs` has the main loop and the clients that poll.  Of the loop it proves,
for every set of descriptors below `FD_SETSIZE`, every timeout and every bound, that
all the safety properties of the `server_loop` run hold: `SelectAlwaysCoversWatched`, `DescriptorsAlwaysAccounted`,
`ListenerAlwaysKept`, `SweepIsAlwaysComplete` and `NeverWrongRemoval`, and three more
which no run repeats, `TypeCorrect`, `VectorAlwaysMatchesSet` and
`ServedIsAlwaysReady`.  The assumptions are those the
modules name: `SocketSetAssumption` and `ServerLoopAssumption`.

The inductive invariant `IInv` joins the checked invariants with `LoopInv`, which
they need: what select reported is still watched when it is served (nothing runs
in between that could remove it), a backlog that was reported is still there, a
process that is down holds no socket, and the sockets the sweep has passed are not
overdue.  The argument about `-=` is `MinusKeepsSet`.  `highest` is left alone when
the reference denotes a socket other than the highest; then it still bounds every
descriptor left, because it bounded all of them before.  It is recomputed when they
agree, and then it is the greatest (`HighestOfBounds`).  So it may be too high and
never too low.  `DescriptorsAccounted` is what makes `+=` safe: `accept` cannot
return a descriptor the vector still names.  `NextKeeps` has one lemma per action.

Of polling it proves both properties of the `replies` run, for any finite set of
devices, any of the kinds of collector, any size of memory but 0 and any time
(`PollingAssumption`), at the two levels of the model.  `PollingInv` sees a series whole, as the log of the run: while
the server runs a memory is the end of its log, and the memory an absent device would
begin with the whole of it (`MemoryIsEnd`); ids rise in the log and are not ahead of
the counter, and what is stored of level 1 is not ahead of the turns gone by
(`StoredRises`), from which the ids of the next run go on.  A copy of this session ends
at a place of the log (`CopyEnds`), and what a reply on its way has of a series follows
that place, though seconds may pass, devices vanish or the server end before it arrives
(`ReplyFollows`).  A second is `SeriesGrows`; a request has two parts.  `NewerIs`: the
samples up to the first that is not newer are just those behind the place the client
names, or all the memory, when that begins later.  And `MultipleRight`: over the
children, their levels and the items shown, a key is added once, by the first child that
asks for it (`AddItemRight`), and that child names the copy's last id: the device's own,
or the one without keys, which names 0 and comes last, when every device known has been
answered.  `CopyIsImplemented` then maps each step: a start is a restart of the promise,
an arrival of a reply receives what follows, everything else measures
(`GoesOnOrArrives`, for each series).  `AnswersComplete` is that what follows ends where
the memory begins.

`Readings_proofs` proves `PassedIsAlwaysChecked`, `FailureIsAlwaysTold` and
`DevicesAlwaysAnsweredOnce`, for all machines and topologies, whatever their devices
answer, for every time between two readings but 0 and for every step the clock may be set back by; the assumption is
`SmartHealthAssumption`.  Its `IInv` says of the file and of the cache the same
(`Good`): a volume that passed has devices, all of them passed, and its age is not
younger than any of theirs; one with a device that failed has failed.  `SnapshotGood`
shows that of what the helper writes, from two lemmas about `Aggregate` and one about
the least of some numbers (`MinIsLeast`, by well-foundedness).  `ReadInv` is about
time: before the clock is set back a file not read yet is no older than the last
reading, so it is read within one wait, if it can be read and opened (`Unread`); setting it back begins at most one more, which
is why `ReadWithin` is two of them.  With one wait instead the induction fails, and
TLC shows why when the step is small.  `DevicesAnsweredOnce` is
`EachDeviceOnce`, that what was emitted so far has no path twice and every path gone
through, and `EachDiskOnce`, from the keys that differ.

It also proves two invariants of `Samples`, about collectors that count.
`CountedAllAndOnce` (`CountInv`): the reading an interface or a disk keeps is the latest
one, none before the first, and what was told since the process started is what was
counted from the first to it; a second in which the device is not listed changes neither.
No counter reaches its word (`SystemInv`), so that the subtraction of two readings is
their difference (`UnsignedOfMore`); the assumption is `CountersAssumption`.
`EnergyAlwaysKnown` (`EnergyInv`): the energy kept was shown at the time of the latest
sample, and since then less was spent than the counter holds, so that it went round once
at most and shows one unit less each time it did (`SpentButForWraps`); over the seconds
since the sample before, whole by `EnergyAssumption` (`WattsAreWhole`), the watts are
that energy.  What was told is added up in `started`, as the samples are taken.

`Sessions_proofs` proves the three properties of the `sessions` run, and `TypeOK`, for
any connections, any names of any lines and words, any file an older version may have left
and any other processes that clear it (`SessionsAssumption`: what a cut word may be cut to
is what the word itself may be cut to, and only words of 1 are granted).
The inductive invariant adds to them what they rest on: whoever is on the list, or would
be read from the file, is vouched for (`ListIsVouched`, `FileIsVouched`); a save under way
belongs to a name on the list, and while it goes well the file holds what is written of the
part of the list it has gone through (`SaveIsUnderWay`), so that the file follows the list
as it grows (`Follows`), as it is read back, or as it was written up to a cut; when the
process is down, the file alone remembers who was told (`FileRemembers`).  Whatever a save
writes of a name that is vouched for, whole or cut, authorises only what is vouched for
(`CutIsVouched`): what is read back is one word (`SpellsType`), which spells itself and
what it may be cut to, and so vouches for no more than was vouched for
(`VouchedIsClosed`).  That is why twice is enough, for any number of restarts.

`Connection_proofs` has both directions. *Replies*: `RepliesInOrder`, for any room in
the kernel, any number of replies and pieces. `Accounted` says that what was promised
and not given up is, in order, what the client has, what is under way and what is still
to be written. It is inductive only with the place of the piece the TLS library keeps
(`HeldInPlace`): it is the next one, or was given up and lies between the two, where it
falls into its place when it is written late; and with `DataIsLost`, that over TLS
nothing is given up but with a piece of data that is not the one the library keeps.
*Requests*: `FramingInv`, for any number of messages of every kind, cut at any byte.
`InStep` says that the buffer, the records that wait and what is on its way are the
encodings of the messages not yet taken, and `NothingFound` that the framing loop would
break at once on its buffer. One turn is `TurnFinds`: the first end tag in front of an
encoding is that of its first message (`FirstEndTag`; an end tag inside a payload lies
behind it, inside the length its header tells), so either a part of a message is there
and the turn breaks (`PartIsLeft`), or the whole and the turn takes exactly that
(`WholeIsTaken`); and what follows it is in step again. `TurnKeeps` and `ConsumeIs`
carry that over the turns of the loop. From the invariant follow `NothingIsLeft` (were
a message left behind whole, the loop would not have broken: `AllIsFound`),
`LossesExplained`, and `StreamIsImplemented`: each step takes the next messages of the
promised stream, or stutters. The assumptions are `SenderAssumption` and
`FramingAssumption`.

`Statistics_proofs` has the statistics thread and the collectors it updates.  Of the
thread it proves the three safety properties of the `stats_thread` run for
any number of seconds and any intervals of the history and of the flush but 0
(`StatsThreadAssumption`).
`ThreadsInv` says who holds the lock in which place (`LockKept`); what each collector
shows at each call of a second, part of the way from the last second's sample to this
one's (`ShownInTime`, `OnTheWay`); and so what a reply has read so far (`ReadInTime`,
`RepliesAreWhole`): all of one second, or of the first updates, which take no lock.
For SIGTERM, what was owed is executed, or in a queue the handler has still before it
(`OwedIsSafe`); of the queue the statistics thread is at, what it has passed was
executed (`FlushedInOrder`), which is why it may be cleared.  The properties speak of
behaviours not yet undefined; `UndefinedOnlySo` proves from the same invariant that
there is no other way to become so than those listed above.

`History_proofs` proves all four properties of the `history` run, for any number of
levels, intervals, windows and periods, over late samples, refused statements, crashes
and restarts.  The assumption, `HistoryAssumption`, is that intervals are positive and
shorter than the time the clock starts at, that a level is fed by one below it, and
that a level keeps and reads at least one row.  The heart of `HistoryInv` is the line a
row lies on: its time is its id's number of intervals behind the present beginning of
its level (`StoredInTime`, `QueuedInTime`, `MemoryOnTime`), and the level's own id is
not behind any row stored or queued (`IdsAreBehind`).  That gives `IdsFollowTime` and
`NoKeyCollision`; `ShownIsStored` needs that a flush executes the whole queue in order
(`OneByOne`, for a prefix that succeeded and a rest refused) and that what is queued for
different levels is told apart (`FlattenMadeOf`).  `RestartBringsBack` follows from what
`init` reads.

`KeyedHistory_proofs` proves the four properties of the `keyed_history` run, for any
finite number of devices, whatever is listed when, any sizes of memory and windows (a
window of at least one turn), flushes after any second with any beginning refused,
SIGTERM, crashes and restarts; the assumption is `KeyedHistoryAssumption`.  The table of
samples has no key, so everything hangs on ids.  `CounterInv`: no id that is stored or
queued is ahead of the counter, nothing queued is as old as a turn stored; `Come`: and
the counter is no further than the clock, which is why the gaps of a restart never
put it behind what is stored.  `QueueInv` says that a sample in the queue waits for its turn
behind it; that is the order of `TurnInserts`, and with a beginning refused it is what
keeps `NewestIdKnown`: a sample that is stored has its turn stored, or one that is newer.
The removal of old rows takes the turns and then the samples below the same id, and
keeps both sides of it.  `OnceQueued` and `ItemsInv`, an item for each device, give
`NoneTwice` (`NothingTwice`); `DevicesComeBack` counts: a row within the window that is
not among the last has a rank the query reaches (`IdAt`), and so a place in the memory.

Of the collectors, `Statistics_proofs` proves, under `SensorsAssumption`,
`ProcessesAssumption`, `DisksAssumption` and `BatteryAssumption`, which say what form the
kernel's answers have and nothing of what they say:

* `ProcessesAlwaysTold` (`ProcessesInv`).  Of a pid that could be read in the last update,
  the item holds the ticks that process has (`ItemInv`), so that the next difference is
  what was used since; of one that could not it holds none, and it is a new item when it
  can be read.  After an update just those that could be read are listed.
* `DisksFollowMounts` (`DisksInv`).  No key is there twice and the ids of a disk's samples
  fall, from which it follows, mount by mount, that a disk stays and takes one sample of
  each of its mounts that could be measured.
* `BatteriesAlwaysRead` (`BatteryInv`).  What is told of a battery whose file is there is
  what the lines of the file say, the last of a name.
* `LimitsAlwaysCover` (`SensorsInv`), for any machines.  Three things hold the values a
  sensor ever had: the sensor, the table of limits, and the changes queued between them.
  `Covered` says that the table covers what was told before the last flush, that the table
  with the changes carried out covers everything told, and that the sensor does, too,
  and is what the table will be, unless its lowest value stands for none.  A crash falls
  back to the first, SIGTERM and a flush go on to the second, and a sensor made anew takes
  the table's row.  It needs that no key has two sensors, so that an update has one change
  of each (`ChangesAre`), that of the changes of a sensor the last wins (`ExecutedLast`),
  and that a sensor read once in an update is the wider for it (`ProcessedIsCovered`).
  What is exempt (`spoiled`) are the ways in which the code loses a change or gives two
  sources one key.

`SequenceFacts` holds what these share: what `Only`, `FlattenSeq`, appending, taking a
head or a tail do to each other, to ranges and to sequences without repetition; and
`Recursion` and `RecursionOnce`, that a function given step by step exists and is the
only one.  Induction over numbers goes through the least counterexample of a set
(`WFMin`, `NatLessThanWellFounded`), because the library's induction theorems take an
operator, which the installed provers cannot instantiate.

Model-checked only:

* the liveness properties `ClosedClientsReleased`, `SigtermEnds` and `RequestsAnswered`,
  which with `ENABLED` are out of the prover's reach;
* `AveragesAreMeasured` and `PartsMakeWhole` of `Samples`: their averages are folds over
  what was counted, whose value for every input is induction over data, and the parts of
  the memory make the whole only where every quotient is a whole number, which is true
  of the instance and not of all;
* `SensorsAreSampled`, which is not true of every machine.  A devfreq GPU is numbered
  among those that can be read when it is looked for, and read by its place among those
  remembered: where another wakes while the one remembered sleeps, a key is offered that
  is not read.  And on a QNAP with `sysctl` the processors found first take the QNAP's
  method (`QnapCreated`) and are read no more.  It holds for the machines of the run,
  which combine neither.

## The plan

Done: the modules above, in the order of what depends on them: the loop and its set
carry every client, the framing every request, the sessions every permission, the
threads everything at once, and the history every sample; then what is in the
samples, and what they are samples of.  Proved: the loop, the connection, the sessions,
the threads, the history of one series and of many, what a client makes of the replies,
what comes and goes (processes, disks, batteries and the limits of sensors), the
disks' health, and what the samples of counters and of the energy add up to.

Next:

1. The machines of which `SensorsAreSampled` is true, as an assumption on what becomes
   readable when.
2. The settings tools, if their rewriting of the configuration is ever shared with a
   server that runs.

## Not modelled

Option and configuration parsing, certificates, `fork` and `setuid`: sequential,
done once.  Avahi, the macOS menu bar control, the settings tools, the powermetrics
and status helpers: programs of their own, or a library's thread.  Uptime: one
system call.  XML layout.  Readings of the system through the libraries of AIX,
Solaris, HP-UX and the BSDs beyond those named, of which what is read has the same
form.  A wall clock set back while samples are taken.  A crash between two levels'
first rows in `init()`, and in the middle of a flush whose transaction could not
begin: the statements of a `Flush` are one step in `History`, of which a beginning may
be refused.  What an undefined behaviour does after it happened.  The locks inside
SQLite and the allocator, at which a signal's handler could wait for itself.
