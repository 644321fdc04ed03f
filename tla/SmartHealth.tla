---------------------------- MODULE SmartHealth ----------------------------
(***************************************************************************)
(* The health of the disks, from a check of each device to what a client   *)
(* is told.  A helper that runs now and then (contrib/                     *)
(* istat-smart-helper.py) asks every device in turn and replaces a file;   *)
(* the server reads the file again from time to time (src/src/stats/       *)
(* SmartMetadata.h) and answers from what it read (src/src/Responses.cpp). *)
(*                                                                         *)
(* A tick is the three seconds after which the disks are updated.  Names   *)
(* of devices are atoms; what the topology is read from (the kernel's      *)
(* tables, the registry) and what a device answers are external.           *)
(***************************************************************************)
EXTENDS Integers, Sequences, FiniteSets, SequencesExt, FiniteSetsExt, Subsequence

CONSTANTS Hosts,        \* some machines
          Machine,      \* what it finds on each: system, querySafe and graph
          Answers,      \* what each device may answer when it is asked
          Mounted,      \* the disks the server shows, one for each key
          RefreshEvery, \* ticks after which the file is read again: 30 s
          StaleAfter,   \* ticks after which a check is too old: 900 s
          Skew,         \* ticks a check may lie in the future: 60 s
          SetBacks,     \* ticks the clock may be set back by
          MaxTime       \* bound on the ticks

ASSUME SmartHealthAssumption ==
    /\ {RefreshEvery, StaleAfter, Skew, MaxTime} \cup SetBacks \subseteq Nat
    /\ RefreshEvery # 0
    /\ DOMAIN Machine = Hosts
    /\ Mounted \in Seq(ToSet(Mounted))
    /\ \A i, j \in DOMAIN Mounted : Mounted[i].key = Mounted[j].key => i = j

VARIABLES host,  \* the machine
          real,  \* the ticks gone by
          now,   \* what the clock says
          set,   \* the clock was set back
          run,   \* the helper's records so far, when it runs
          file,  \* status.xml, when it is there
          cache  \* SmartMetadata: lastRead and volumes; was the file opened?

vars == <<host, real, now, set, run, file, cache>>

-----------------------------------------------------------------------------
(***************************************************************************)
(* The topology, a graph from each name to the names it lies on.  Of the   *)
(* kernel's block devices those that are no plain memory: one lies on its  *)
(* slaves, a partition on its disk, a device on nothing.  A mapper's alias *)
(* lies on its target.                                                     *)
(***************************************************************************)
LinuxTopology(block, alias) ==
    LET known == {n \in DOMAIN block :
                    ~block[n].memory /\ (\/ block[n].slaves # {}
                                         \/ block[n].partition # {} \/ block[n].device)}
        On(n) == IF block[n].slaves # {} THEN block[n].slaves ELSE block[n].partition
    IN  [n \in known \cup {a \in DOMAIN alias : alias[a] \in known} |->
            IF n \in known THEN On(n) ELSE {alias[n]}]

\* All that is reached from some names, themselves included.
Reached(names, graph) ==
    FoldLeft(LAMBDA found, i : found \cup UNION {graph[n] : n \in found \cap (DOMAIN graph)},
             names, [i \in 1 .. Cardinality(DOMAIN graph) |-> i])

(***************************************************************************)
(* The devices at the bottom of what a name lies on, among them an unknown *)
(* one when the graph goes round in circles.                               *)
(***************************************************************************)
Ancestors(name, graph) ==
    LET below == Reached({name}, graph)
        inner == below \cap (DOMAIN graph)
    IN  {n \in below : n \notin inner \/ graph[n] = {}}
            \cup (IF \E n \in inner : n \in Reached(graph[n], graph)
                  THEN {"unknown-topology"} ELSE {})

(***************************************************************************)
(* The registry of macOS, a tree of nodes: a node with a name lies on the  *)
(* name above it.  Below a RAID that is not online or does not tell its    *)
(* members a name lies on something unknown, too; so does one that was     *)
(* found on fewer devices than the RAID has members.                       *)
(***************************************************************************)
Above(registry, n) ==
    Reached({n}, [m \in DOMAIN registry |-> {registry[m].parent} \cap DOMAIN registry])

Uncertain(registry, n) == \E m \in Above(registry, n) : registry[m].raid = "degraded"

MacRegistryTopology(registry) ==
    LET names == {registry[n].name : n \in DOMAIN registry}
        Nodes(name) == {n \in DOMAIN registry : registry[n].name = name}
        On(n) == {registry[m].name : m \in {registry[n].parent} \cap DOMAIN registry}
                    \ {registry[n].name}
        found == [name \in names |->
                    UNION {On(n) \cup (IF Uncertain(registry, n) THEN {"unknown-topology"}
                                       ELSE {}) : n \in Nodes(name)}]
        Counts(name) == {registry[m].members : m \in
                            {k \in UNION {Above(registry, n) : n \in Nodes(name)} :
                                registry[k].raid = "online"}}
    IN  [name \in names |->
            found[name] \cup
                (IF \E c \in Counts(name) : Cardinality(Ancestors(name, found)) # c
                 THEN {"unknown-raid-member"} ELSE {})]

\* Only whole internal solid state disks whose place is certain are asked.
MacQuerySafe(registry) ==
    {registry[n].name : n \in {m \in DOMAIN registry :
        registry[m].parent = "" /\ registry[m].safe /\ ~Uncertain(registry, m)}}

-----------------------------------------------------------------------------
(***************************************************************************)
(* smartctl's verdict.  Its exit status is 99 for a drive that sleeps, 98  *)
(* for one whose power cannot be known, and a set of bits otherwise.       *)
(***************************************************************************)
SmartctlHealth(answer) ==
    IF answer.status = "asleep" THEN "standby"
    ELSE IF answer.status = "power unknown" THEN "unavailable"
    ELSE IF answer.passed = "no" \/ "failing" \in answer.bits THEN "failed"
    ELSE IF "command" \in answer.bits THEN "error"
    ELSE IF "attributes" \in answer.bits THEN "warning"
    ELSE IF answer.passed = "yes" THEN "passed"
    ELSE IF answer.passed = "without" THEN "unsupported"
    ELSE "unknown"

\* diskutil's.
Diskutil(answer) ==
    CASE answer.passed = "yes"     -> "passed"
      [] answer.passed = "no"      -> "failed"
      [] answer.passed = "without" -> "unsupported"
      [] OTHER                     -> "unknown"

(***************************************************************************)
(* A device is asked over the transports that do not wake it; a tool that  *)
(* is missing or does not answer in time is a state, too.                  *)
(***************************************************************************)
CollectDevice(name, machine, answer) ==
    IF name \in {"unknown-topology", "unknown-raid-member"} THEN "unknown"
    ELSE IF name \notin machine.querySafe
    THEN IF machine.system = "Darwin" THEN "unavailable" ELSE "unsupported"
    ELSE IF answer.tool = "missing" THEN "unavailable"
    ELSE IF answer.tool = "late" THEN "error"
    ELSE IF machine.system = "Darwin" THEN Diskutil(answer)
    ELSE SmartctlHealth(answer)

\* Wrong: one that passed is enough.
MutAggregate(states) ==
    IF "failed" \in states THEN "failed"
    ELSE IF "warning" \in states THEN "warning"
    ELSE IF "passed" \in states THEN "passed"
    ELSE IF Cardinality(states) = 1 THEN CHOOSE s \in states : TRUE
    ELSE "unknown"

(***************************************************************************)
(* The state of a volume from those of its devices: one that failed or     *)
(* warns decides, all must pass, and states that differ are unknown.       *)
(***************************************************************************)
Aggregate(states) ==
    IF "failed" \in states THEN "failed"
    ELSE IF "warning" \in states THEN "warning"
    ELSE IF Cardinality(states) = 1 THEN CHOOSE s \in states : TRUE
    ELSE "unknown"

\* What each name lies on in the end, for each machine.
Bottom == [m \in Hosts |-> [n \in DOMAIN Machine[m].graph |-> Ancestors(n, Machine[m].graph)]]

(***************************************************************************)
(* A volume is as old as the oldest check of its devices.  The file says   *)
(* that; its records of, and its age in ticks, are for the properties.     *)
(***************************************************************************)
Snapshot(machine, records) ==
    [n \in DOMAIN Machine[machine].graph |->
        LET devices == Bottom[machine][n]
            known   == devices \cap (DOMAIN records)
        IN  [state   |-> Aggregate({IF d \in known THEN records[d].state ELSE "unknown" :
                                      d \in devices}),
             checked |-> IF known = {} THEN 0 ELSE Min({records[d].checked : d \in known}),
             of      |-> [d \in devices |-> IF d \in known THEN records[d]
                                           ELSE [state |-> "unknown", checked |-> 0]]]]

-----------------------------------------------------------------------------
NoVolumes == [n \in {} |-> <<>>]

(***************************************************************************)
(* main: the devices of the topology are asked one after the other;        *)
(* the file is replaced by a whole new one, or not at all when the helper  *)
(* fails or is stopped by its time limit.  The new one may be larger than  *)
(* the server reads, or no well-formed document: what a device calls       *)
(* itself is written as it is, control characters included.  What such a   *)
(* file says is left out, for nobody reads it.                             *)
(***************************************************************************)
Physicals == [m \in Hosts |-> UNION {Bottom[m][n] : n \in DOMAIN Bottom[m]}]

Physical == Physicals[host]

BeginRun ==
    /\ run = <<>>
    /\ run' = <<[d \in {} |-> <<>>]>>
    /\ UNCHANGED <<host, real, now, set, file, cache>>

Check(answer) ==
    /\ run # <<>>
    /\ LET left == Physical \ (DOMAIN run[1]) IN
       /\ left # {}
       /\ LET next == CHOOSE d \in left : TRUE IN
          /\ answer \in Answers[next]
          /\ run' = <<[d \in (DOMAIN run[1]) \cup {next} |->
                      IF d = next
                      THEN [state |-> CollectDevice(d, Machine[host], answer), checked |-> now]
                      ELSE run[1][d]]>>
    /\ UNCHANGED <<host, real, now, set, file, cache>>

Publish ==
    /\ run # <<>>
    /\ DOMAIN run[1] = Physical
    /\ file' \in {<<[volumes |-> Snapshot(host, run[1]), readable |-> TRUE, age |-> 0]>>,
                  <<[volumes |-> NoVolumes, readable |-> FALSE, age |-> 0]>>}
    /\ run' = <<>>
    /\ UNCHANGED <<host, real, now, set, cache>>

Abandon ==
    /\ run # <<>>
    /\ run' = <<>>
    /\ UNCHANGED <<host, real, now, set, file, cache>>

-----------------------------------------------------------------------------
\* What is read of a file that may be gone, unreadable or impossible to open.
ReadFrom(content, opened) ==
    IF content # <<>> /\ opened /\ content[1].readable THEN content[1].volumes ELSE NoVolumes

\* Wrong: waits for the time of the last reading when the clock was set back.
MutRefresh(time, content, opened) ==
    IF time - cache.lastRead < RefreshEvery THEN cache
    ELSE [lastRead |-> time, opened |-> opened, volumes |-> ReadFrom(content, opened)]

(***************************************************************************)
(* SmartMetadata::refresh: the file is read again some time after the last *)
(* reading, and at once when the clock went back.  What was read before is *)
(* forgotten even when the file is gone, cannot be opened (the process may *)
(* have no descriptor left), is too large or is no such document.          *)
(***************************************************************************)
Refresh(time, content, opened) ==
    IF time >= cache.lastRead /\ time - cache.lastRead < RefreshEvery THEN cache
    ELSE [lastRead |-> time, opened |-> opened, volumes |-> ReadFrom(content, opened)]

\* SmartMetadata::lookup
Lookup(volume, time) ==
    IF volume \notin DOMAIN cache.volumes THEN <<>>
    ELSE LET health == cache.volumes[volume] IN
         <<IF \/ health.checked <= 0
              \/ health.checked > time + Skew
              \/ time - health.checked > StaleAfter
           THEN [health EXCEPT !.state = "stale"] ELSE health>>

(***************************************************************************)
(* The names a disk is known by: its key (the device's path) and uuid,     *)
(* the path's last part (bsd), the device it is a partition of and that    *)
(* device's path.  A client may ask by any of them.                        *)
(***************************************************************************)
BsdNameForDiskKey(disk) == disk.bsd

\* A partition's device where its name tells it.
PhysicalBSDForPartition(disk) ==
    IF disk.family \in {"disk", "nvme", "mmcblk", "loop", "sd", "hd", "vd", "xvd"}
    THEN disk.whole ELSE disk.bsd

DevicePathForBSD(bsd) == IF bsd = "" THEN "" ELSE "/dev/" \o bsd

Requested(disk, keys) ==
    LET physical == PhysicalBSDForPartition(disk) IN
    keys = {} \/ {disk.key, disk.uuid, BsdNameForDiskKey(disk), physical,
                  DevicePathForBSD(physical)} \cap keys # {}

\* The disks a request with some children, each a set of names, is about.
Asked(disks, children) ==
    Only(disks, {d \in ToSet(disks) :
        d.active /\ \E i \in DOMAIN children : Requested(d, children[i])})

(***************************************************************************)
(* The reply about the disks asked for (isr_diskinfo_data), to all the     *)
(* children of a request: each disk that is active once, with its health   *)
(* when the cache has it.                                                  *)
(***************************************************************************)
DiskInfoData(disks, children, time) ==
    LET asked == Asked(disks, children)
    IN  [i \in DOMAIN asked |-> [key |-> asked[i].key,
                                 health |-> Lookup(asked[i].volume, time)]]

\* The paths of the devices some disks are on, where their names tell them.
DevicePaths(disks) ==
    LET told == Only(disks, {d \in ToSet(disks) : PhysicalBSDForPartition(d) # ""})
    IN  [i \in DOMAIN told |-> DevicePathForBSD(PhysicalBSDForPartition(told[i]))]

\* Wrong: counts the disks, not the devices they are on.
MutSmartData(disks, children) == DevicePaths(Asked(disks, children))

\* isr_smart_data: the devices of the disks asked for, each once.
SmartData(disks, children) ==
    LET paths == DevicePaths(Asked(disks, children))
        emitted[n \in 0 .. Len(paths)] ==
            IF n = 0 THEN <<>>
            ELSE IF paths[n] \in ToSet(emitted[n - 1]) THEN emitted[n - 1]
            ELSE Append(emitted[n - 1], paths[n])
    IN  emitted[Len(paths)]

-----------------------------------------------------------------------------
\* Ticks after which a file must have been read: a clock that is set back
\* by less than it went on since the last reading begins the wait anew.
ReadWithin == 2 * RefreshEvery

\* Time goes by; the disks are updated, and with them the cache.
Tick ==
    /\ real < MaxTime
    /\ real' = real + 1
    /\ now' = now + 1
    /\ \E opened \in BOOLEAN : cache' = Refresh(now + 1, file, opened)
    /\ file' = IF file = <<>> \/ file[1].age = ReadWithin THEN file
               ELSE <<[file[1] EXCEPT !.age = @ + 1]>>
    /\ UNCHANGED <<host, set, run>>

\* The clock is set back, once.
SetBack(by) ==
    /\ ~set
    /\ by < now
    /\ set' = TRUE
    /\ now' = now - by
    /\ UNCHANGED <<host, real, run, file, cache>>

FreshCache == [lastRead |-> 0, opened |-> TRUE, volumes |-> NoVolumes]

\* The server starts anew; after a boot the file is gone as well.
Restart(boot) ==
    /\ cache # FreshCache
    /\ cache' = FreshCache
    /\ IF boot THEN run' = <<>> /\ file' = <<>> ELSE UNCHANGED <<run, file>>
    /\ UNCHANGED <<host, real, now, set>>

Init ==
    /\ host \in Hosts
    /\ real = 1
    /\ now = ReadWithin
    /\ set = FALSE
    /\ run = <<>>
    /\ file = <<>>
    /\ cache = FreshCache

Next ==
    \/ BeginRun
    \/ \E answer \in UNION Range(Answers) : Check(answer)
    \/ Publish
    \/ Abandon
    \/ Tick
    \/ \E by \in SetBacks : SetBack(by)
    \/ \E boot \in BOOLEAN : Restart(boot)

Spec == Init /\ [][Next]_vars

-----------------------------------------------------------------------------
\* What a client that asks for everything is told of a volume.
Told ==
    LET reply == DiskInfoData(Mounted, <<{}>>, now)
    IN  {reply[i].health[1] : i \in {j \in DOMAIN reply : reply[j].health # <<>>}}

(***************************************************************************)
(* A disk is said to have passed only when every device it lies on is      *)
(* known and passed its own check, none of them longer ago, by the clock,  *)
(* than StaleAfter: over the minutes a check of all devices takes, a       *)
(* helper that fails or stops running, a cache, and a clock set back.      *)
(***************************************************************************)
PassedIsChecked ==
    \A health \in Told : health.state = "passed" =>
        /\ DOMAIN health.of # {}
        /\ \A d \in DOMAIN health.of :
              /\ d \in Physical
              /\ health.of[d].state = "passed"
              /\ now - health.of[d].checked <= StaleAfter

(***************************************************************************)
(* A device that failed in the check the file holds is told of, for every  *)
(* volume on it, once twice the time between two readings went by since    *)
(* the file was written and until the check is too old, even when the      *)
(* clock was set back in between.  Of a file that the server cannot read,  *)
(* one volume's odd name being enough, or could not open the last time,    *)
(* nothing is told of any volume, and so no failure.                       *)
(***************************************************************************)
FailureIsTold ==
    (/\ file # <<>> /\ file[1].age = ReadWithin /\ file[1].readable
     /\ cache # FreshCache /\ cache.opened) =>
        \A n \in DOMAIN file[1].volumes :
            LET devices == file[1].volumes[n].of
                told    == Lookup(n, now)
            IN  (\E d \in DOMAIN devices : devices[d].state = "failed") =>
                    told # <<>> /\ told[1].state \in {"failed", "stale"}

\* The names some disk is known by.
Names == UNION {{d.key, d.uuid, d.bsd, d.whole, DevicePathForBSD(d.whole)} : d \in ToSet(Mounted)}

\* What a client may ask by, and of that what is answered as it should be.
AskedBy == {{}} \cup {{n} : n \in Names}

AnsweredOnce ==
    {keys \in AskedBy :
        LET reply == SmartData(Mounted, <<keys>>)
        IN  /\ \A i, j \in DOMAIN reply : reply[i] = reply[j] => i = j
            /\ \A d \in ToSet(Asked(Mounted, <<keys>>)) :
                  PhysicalBSDForPartition(d) # "" =>
                  DevicePathForBSD(PhysicalBSDForPartition(d)) \in ToSet(reply)}

(***************************************************************************)
(* Whatever name a client asks by, a device is answered once, and it is    *)
(* answered when a disk on it is asked for whose name tells the device;    *)
(* every disk that is active is answered once to who asks for all.         *)
(***************************************************************************)
DevicesAnsweredOnce ==
    /\ AskedBy \subseteq AnsweredOnce
    /\ LET info == DiskInfoData(Mounted, <<{}>>, now) IN
       /\ \A i, j \in DOMAIN info : info[i].key = info[j].key => i = j
       /\ \A d \in ToSet(Mounted) : d.active => \E i \in DOMAIN info : info[i].key = d.key
=============================================================================
