------------------------------- MODULE Sensors -------------------------------
(***************************************************************************)
(* The sensors (src/src/stats/StatsSensors.cpp): what is found when the    *)
(* server starts, under which key, what is read each third second, and the *)
(* lowest and highest value of each sensor, which the database keeps.      *)
(* Their history is Samples' and KeyedHistory's matter.                    *)
(*                                                                         *)
(* What the system shows is a record of its directories, as lists; a value *)
(* that may not be readable is a sequence of one element, or empty.  Keys  *)
(* are tuples, values whole numbers: scaling is left out.                  *)
(***************************************************************************)
EXTENDS Integers, Sequences, FiniteSets, SequencesExt, Subsequence

CONSTANTS Hardware,   \* machines: of each, what it may show
          SensorSize, \* HISTORY_SIZE
          MaxUpdate   \* bound on the updates

IsList(s) == s \in Seq(ToSet(s))

IsValue(value) == value \in Seq(Int) /\ Len(value) \in {0, 1}

\* What the system may show: whole numbers where it can be read.
IsShown(found) ==
    /\ \A name \in {"chips", "sysctl", "zones", "policies", "cpus", "devfreq", "cards", "i915",
                    "rapl"} : IsList(found[name])
    /\ \A name \in {"chips", "sysctl", "zones", "policies", "cpus", "cards"} :
          \A e \in ToSet(found[name]) : IsValue(e.value)
    /\ \A p \in ToSet(found.policies) : IsList(p.cpus)
    /\ \A g \in ToSet(found.devfreq) : IsValue(g.freq) /\ IsValue(g.load)
    /\ \A d \in ToSet(found.rapl) : IsValue(d.power)
    /\ \A v \in ToSet(found.i915) : IsValue(v)
    /\ IsValue(found.qnap)

ASSUME SensorsAssumption ==
    /\ SensorSize \in Nat \ {0}
    /\ MaxUpdate \in Nat
    /\ \A m \in Hardware : \A found \in m : IsShown(found)

VARIABLES machine, \* the one the server is on
          running, \* the server runs
          updates, \* updates so far; the sample id is counted with them
          sensors, \* _items
          gpus,    \* devfreqGpu_: the directories known
          limits,  \* the table sensor_limits
          pending, \* databaseQueue: the changes of limits
          told,    \* every value a sensor had, as far as limits were not lost
          offered, \* the keys the last update could read, by Offered
          safe,    \* those of them the database must know of
          spoiled  \* sensors of which a change of limits may be lost

sensorVars == <<machine, running, updates, sensors, gpus, limits, pending, told, offered, safe,
                spoiled>>

There(value) == value # <<>>

\* What init finds: a key, how it is read and what it measures.
Named(key, method, kind) == [key |-> key, method |-> method, kind |-> kind]

Reading(key, value) == [key |-> key, value |-> value[1]]

Those(list, Is(_)) == Only(list, {e \in ToSet(list) : Is(e)})

\* The elements of a list that can be read, each made into something.
ForEach(list, field, Made(_)) ==
    LET readable == Those(list, LAMBDA e : There(e[field]))
    IN  [i \in DOMAIN readable |-> Made(readable[i])]

-----------------------------------------------------------------------------
(***************************************************************************)
(* libsensors.  Chips are looked for in every update; two of one label and *)
(* kind are one sensor.                                                    *)
(***************************************************************************)
SensorType(input) ==
    CASE input = "temperature"      -> 1
      [] input = "fan"              -> 2
      [] input \in {"in", "vid"}    -> 3
      [] input = "current"          -> 4
      [] input = "power"            -> 5
      [] OTHER                      -> 0

ChipKey(c) == <<"chip", c.label, SensorType(c.input)>>

LibsensorsNamed(found) ==
    [i \in DOMAIN found.chips |->
        Named(ChipKey(found.chips[i]), 1, SensorType(found.chips[i].input))]

LibsensorsReadings(found) ==
    ForEach(found.chips, "value", LAMBDA c : Reading(ChipKey(c), c.value))

(***************************************************************************)
(* The values of sysctl, on systems that have it: up to 32 processors and  *)
(* thermal zones.  They are read again by the method they were made with.  *)
(***************************************************************************)
SysctlKey(c) == <<c.name, c.number>>

SysctlNamed(found, name, method, kind) ==
    ForEach(Those(found.sysctl, LAMBDA c : c.name = name /\ c.number < 32), "value",
         LAMBDA c : Named(SysctlKey(c), method, kind))

DevCpuNamed(found) == SysctlNamed(found, "dev.cpu.temperature", 2, 0)

AcpiThermalNamed(found) == SysctlNamed(found, "hw.acpi.thermal", 4, 0)

AcpiFreqNamed(found) == SysctlNamed(found, "dev.cpu.freq", 5, 8)

SysctlReadings(found, all, method) ==
    ForEach(Those(found.sysctl, LAMBDA c :
             \E i \in DOMAIN all : all[i].method = method /\ all[i].key = SysctlKey(c)),
         "value", LAMBDA c : Reading(SysctlKey(c), c.value))

DevCpuReadings(found, all) == SysctlReadings(found, all, 2)

AcpiThermalReadings(found, all) == SysctlReadings(found, all, 4)

AcpiFreqReadings(found, all) == SysctlReadings(found, all, 5)

\* A QNAP's own sensor.
QnapNamed(found) ==
    IF There(found.qnap) THEN <<Named(<<"qnap">>, 3, 0)>> ELSE <<>>

QnapReadings(found) ==
    IF There(found.qnap) THEN <<Reading(<<"qnap">>, found.qnap)>> ELSE <<>>

-----------------------------------------------------------------------------
\* The kernel's thermal zones, by type and number.
ZoneKey(z) == <<"thermal", z.type, z.zone>>

ThermalNamed(found) ==
    ForEach(found.zones, "value", LAMBDA z : Named(ZoneKey(z), 10, 0))

ThermalReadings(found) ==
    ForEach(found.zones, "value", LAMBDA z : Reading(ZoneKey(z), z.value))

(***************************************************************************)
(* Frequencies: a sensor for each processor a readable policy is for, or   *)
(* for the policy when it does not say; without any policy, for each       *)
(* processor that can be read itself.                                      *)
(***************************************************************************)
CpuKey(n) == <<"cpu", n>>

CpufreqNamed(found) ==
    LET policies == Those(found.policies, LAMBDA p : There(p.value))
        cpus     == Those(found.cpus, LAMBDA c : There(c.value))
        OfPolicy(p) == IF p.cpus = <<>> THEN <<Named(<<"policy", p.number>>, 11, 8)>>
                       ELSE [i \in DOMAIN p.cpus |-> Named(CpuKey(p.cpus[i]), 11, 8)]
    IN  IF policies = <<>>
        THEN [i \in DOMAIN cpus |-> Named(CpuKey(cpus[i].number), 11, 8)]
        ELSE FlattenSeq([i \in DOMAIN policies |-> OfPolicy(policies[i])])

\* Wrong: the policy of a processor is not looked at.
MutCpufreqReadings(found, all) ==
    ForEach(Those(found.cpus, LAMBDA c : \E i \in DOMAIN all : all[i].key = CpuKey(c.number)),
         "value", LAMBDA c : Reading(CpuKey(c.number), c.value))

(***************************************************************************)
(* A processor is read itself or, when it cannot be, through the policy of *)
(* its own number.                                                         *)
(***************************************************************************)
CpufreqReadings(found, all) ==
    LET Has(key) == \E i \in DOMAIN all : all[i].key = key
        policies == Those(found.policies, LAMBDA p : There(p.value))
        Own(n)   == Those(found.cpus, LAMBDA c : c.number = n /\ There(c.value))
        single   == Those(found.cpus, LAMBDA c : Has(CpuKey(c.number)))
        Read(c)  == LET ways == Own(c.number)
                                \o Those(policies, LAMBDA p : p.number = c.number)
                    IN  IF ways = <<>> THEN <<>>
                        ELSE <<Reading(CpuKey(c.number), ways[1].value)>>
    IN  FlattenSeq([i \in DOMAIN single |-> Read(single[i])])
        \o ForEach(Those(policies, LAMBDA p : Has(<<"policy", p.number>>)), "value",
                LAMBDA p : Reading(<<"policy", p.number>>, p.value))

-----------------------------------------------------------------------------
(***************************************************************************)
(* GPUs.  Those of devfreq are numbered as they are listed when they are   *)
(* looked for, and remembered; those of DRM share their sensors, and those *)
(* of i915 are numbered anew each time.                                    *)
(***************************************************************************)
DevfreqDirs(found) == ForEach(found.devfreq, "freq", LAMBDA g : g.dir)

DevfreqNamed(found) ==
    LET there == Those(found.devfreq, LAMBDA g : There(g.freq))
        Of(i) == <<Named(<<"gpu", i - 1, "freq">>, 12, 8)>>
                 \o IF There(there[i].load)
                    THEN <<Named(<<"gpu", i - 1, "load">>, 14, 6)>> ELSE <<>>
    IN  FlattenSeq([i \in DOMAIN there |-> Of(i)])

DrmKey(c) == <<"drm", c.name>>

DrmNamed(found) ==
    ForEach(found.cards, "value",
         LAMBDA c : Named(DrmKey(c), 15, IF c.name = "busy" THEN 6 ELSE 7))

I915Named(found) ==
    LET there == Those([i \in DOMAIN found.i915 |-> i], LAMBDA i : There(found.i915[i]))
    IN  [i \in DOMAIN there |-> Named(<<"i915", there[i] - 1>>, 16, 8)]

GpuNamed(found) == DevfreqNamed(found) \o DrmNamed(found) \o I915Named(found)

I915Readings(found) ==
    LET there == Those([i \in DOMAIN found.i915 |-> i], LAMBDA i : There(found.i915[i]))
    IN  [i \in DOMAIN there |-> Reading(<<"i915", there[i] - 1>>, found.i915[there[i]])]

DevfreqReadings(found, known) ==
    LET At(i, field) ==
            Those(found.devfreq, LAMBDA g : g.dir = known[i] /\ There(g[field]))
        Of(i) == [j \in DOMAIN At(i, "freq") |->
                     Reading(<<"gpu", i - 1, "freq">>, At(i, "freq")[j].freq)]
                 \o [j \in DOMAIN At(i, "load") |->
                        Reading(<<"gpu", i - 1, "load">>, At(i, "load")[j].load)]
    IN  FlattenSeq([i \in DOMAIN known |-> Of(i)])

GpuReadings(found, known) ==
    DevfreqReadings(found, known)
    \o ForEach(found.cards, "value", LAMBDA c : Reading(DrmKey(c), c.value))
    \o I915Readings(found)

(***************************************************************************)
(* The energy counters of the processor (what is made of them is Measures' *)
(* matter).  The cores of two packages have one name, and one sensor.      *)
(***************************************************************************)
RaplKey(d) == <<"rapl", d.name>>

RaplNamed(found) ==
    [i \in DOMAIN found.rapl |-> Named(RaplKey(found.rapl[i]), 13, 5)]

RaplReadings(found) == ForEach(found.rapl, "power", LAMBDA d : Reading(RaplKey(d), d.power))

-----------------------------------------------------------------------------
Row(low, high) == [low |-> low, high |-> high]

\* Wrong: the limits of an earlier run are not read.
MutCreateSensor(s, named, garbage) ==
    IF \E i \in DOMAIN s.items : s.items[i].key = named.key THEN s
    ELSE [items |-> <<[key |-> named.key, method |-> named.method, kind |-> named.kind,
                       low |-> -1, high |-> 0, changed |-> garbage, samples |-> <<>>]>>
                    \o s.items,
          rows  |-> IF named.key \in DOMAIN s.rows THEN s.rows
                    ELSE s.rows @@ (named.key :> Row(0, 0))]

(***************************************************************************)
(* createSensor: the limits are those of the database, or a row of its     *)
(* defaults is made there.  recordedValueChanged is not initialised.       *)
(***************************************************************************)
CreateSensor(s, named, garbage) ==
    IF \E i \in DOMAIN s.items : s.items[i].key = named.key THEN s
    ELSE LET known == named.key \in DOMAIN s.rows
             row   == IF known THEN s.rows[named.key] ELSE Row(-1, 0)
         IN  [items |-> <<[key |-> named.key, method |-> named.method, kind |-> named.kind,
                           low |-> row.low, high |-> row.high, changed |-> garbage,
                           samples |-> <<>>]>> \o s.items,
              rows  |-> [k \in DOMAIN s.rows \cup {named.key} |->
                            IF k \in DOMAIN s.rows THEN s.rows[k] ELSE Row(0, 0)]]

CreateAll(s, all, garbage) ==
    LET made[n \in 0 .. Len(all)] ==
            IF n = 0 THEN s ELSE CreateSensor(made[n - 1], all[n], garbage)
    IN  made[Len(all)]

\* init_qnap: the sensors found so far are taken for it, too.
QnapCreated(s, found, garbage) ==
    IF QnapNamed(found) = <<>> THEN s
    ELSE LET made == CreateAll(s, QnapNamed(found), garbage)
         IN  [made EXCEPT !.items = [i \in DOMAIN @ |->
                 [@[i] EXCEPT !.method = 3, !.kind = 0]]]

(***************************************************************************)
(* processSensor, when the collector is ready: a sample in front and the   *)
(* limits.  A lowest value of -1 stands for none.                          *)
(***************************************************************************)
ProcessSensor(item, reading, id) ==
    IF item.key # reading.key THEN item
    ELSE LET v     == reading.value
             above == v > item.high
             below == v < item.low \/ item.low = -1
         IN  [item EXCEPT
                 !.samples = SubSeq(<<[id |-> id, value |-> v]>> \o @, 1,
                                    IF Len(@) < SensorSize THEN Len(@) + 1 ELSE SensorSize),
                 !.high    = IF above THEN v ELSE @,
                 !.low     = IF below THEN v ELSE @,
                 !.changed = above \/ below]

ProcessAll(items, readings, id) ==
    LET after[n \in 0 .. Len(readings)] ==
            IF n = 0 THEN items
            ELSE [i \in DOMAIN after[n - 1] |->
                     ProcessSensor(after[n - 1][i], readings[n], id)]
    IN  after[Len(readings)]

\* The end of update: the limits that changed are to be stored.
Changes(items) ==
    LET changed == Those(items, LAMBDA i : i.changed)
    IN  [i \in DOMAIN changed |->
            [key |-> changed[i].key, row |-> Row(changed[i].low, changed[i].high)]]

\* The readings of an update, in its order.
Readings(found, items, known) ==
    LibsensorsReadings(found) \o QnapReadings(found) \o DevCpuReadings(found, items)
    \o AcpiThermalReadings(found, items) \o AcpiFreqReadings(found, items)
    \o ThermalReadings(found) \o CpufreqReadings(found, items)
    \o GpuReadings(found, known) \o RaplReadings(found)

\* prepareUpdate counts the three seconds, and the third twice.
IdOf(n) == 1 + 4 * n

KeysOf(items) == {items[i].key : i \in DOMAIN items}

Twice(readings) ==
    {readings[i].key : i \in {j \in DOMAIN readings :
        \E k \in DOMAIN readings : k # j /\ readings[k].key = readings[j].key}}

(***************************************************************************)
(* What the system offers under the key a sensor was made with: init and   *)
(* update build the keys each for themselves, and count apart.             *)
(***************************************************************************)
Offered(found) ==
    LET CanRead(n) ==
            \/ \E c \in ToSet(found.cpus) : c.number = n /\ There(c.value)
            \/ \E p \in ToSet(found.policies) : p.number = n /\ There(p.value)
        named == DevCpuNamed(found) \o AcpiThermalNamed(found) \o AcpiFreqNamed(found)
                 \o ThermalNamed(found) \o CpufreqNamed(found) \o GpuNamed(found)
                 \o QnapNamed(found)
    IN  {n.key : n \in {m \in ToSet(named) :
            m.key[1] = "cpu" => CanRead(m.key[2])}}

-----------------------------------------------------------------------------
(***************************************************************************)
(* init and the first update, while the collector is not ready: sensors    *)
(* are made, nothing is sampled.                                           *)
(***************************************************************************)
Empty == [k \in {} |-> <<>>]

StartSensors(found, garbage) ==
    LET s0 == CreateAll([items |-> <<>>, rows |-> limits], DevCpuNamed(found), garbage)
        s1 == QnapCreated(s0, found, garbage)
        s2 == CreateAll(s1, AcpiThermalNamed(found) \o AcpiFreqNamed(found)
                            \o ThermalNamed(found) \o CpufreqNamed(found)
                            \o GpuNamed(found) \o RaplNamed(found)
                            \o LibsensorsNamed(found), garbage)
    IN  /\ ~running
        /\ updates < MaxUpdate
        /\ running' = TRUE
        /\ sensors' = s2.items
        /\ limits' = s2.rows
        /\ gpus' = DevfreqDirs(found)
        /\ pending' = Changes(s2.items)
        /\ offered' = {}
        /\ UNCHANGED <<machine, updates, told, safe, spoiled>>

(***************************************************************************)
(* update, each third second.  A chip found for the first time goes to the *)
(* front of the vector, and the keys bound to the changes still pending    *)
(* are addresses in it (KeyedHistory has what becomes of such an address). *)
(***************************************************************************)
UpdateSensors(found, garbage) ==
    LET late  == IF gpus = <<>> THEN GpuNamed(found) ELSE <<>>
        known == IF gpus = <<>> THEN DevfreqDirs(found) ELSE gpus
        made  == CreateAll([items |-> sensors, rows |-> limits],
                           LibsensorsNamed(found) \o late, garbage)
        readings == Readings(found, made.items, known)
        after == ProcessAll(made.items, readings, IdOf(updates + 1))
        keys  == KeysOf(after)
        Told(k) == (IF k \in DOMAIN told THEN told[k] ELSE {})
                       \cup {r.value : r \in {q \in ToSet(readings) : q.key = k /\ k \in keys}}
    IN  /\ running
        /\ updates < MaxUpdate
        /\ updates' = updates + 1
        /\ sensors' = after
        /\ limits' = made.rows
        /\ gpus' = known
        /\ pending' = pending \o Changes(after)
        /\ told' = [k \in DOMAIN told \cup keys |-> Told(k)]
        /\ spoiled' = spoiled \cup Twice(readings)
                      \cup (IF Len(after) = Len(sensors) THEN {}
                            ELSE {pending[i].key : i \in DOMAIN pending})
        /\ offered' = Offered(found)
        /\ UNCHANGED <<machine, running, safe>>

Executed(rows, changes) ==
    LET after[n \in 0 .. Len(changes)] ==
            IF n = 0 THEN rows
            ELSE [after[n - 1] EXCEPT ![changes[n].key] = changes[n].row]
    IN  after[Len(changes)]

\* A flush; a database that is locked refuses it unnoticed.
FlushSensors(refused) ==
    /\ running
    /\ pending # <<>>
    /\ pending' = <<>>
    /\ limits' = IF refused THEN limits ELSE Executed(limits, pending)
    /\ spoiled' = IF refused THEN spoiled \cup {pending[i].key : i \in DOMAIN pending}
                  ELSE spoiled
    /\ safe' = told
    /\ UNCHANGED <<machine, running, updates, sensors, gpus, told, offered>>

\* SIGTERM stores what is pending, a crash loses it.
StopSensors(saves) ==
    /\ running
    /\ running' = FALSE
    /\ limits' = IF saves THEN Executed(limits, pending) ELSE limits
    /\ told' = IF saves THEN told ELSE safe
    /\ safe' = told'
    /\ pending' = <<>>
    /\ sensors' = <<>>
    /\ gpus' = <<>>
    /\ offered' = {}
    /\ UNCHANGED <<machine, updates, spoiled>>

InitSensors ==
    /\ machine \in Hardware
    /\ running = FALSE
    /\ updates = 0
    /\ sensors = <<>>
    /\ gpus = <<>>
    /\ limits = Empty
    /\ pending = <<>>
    /\ told = Empty
    /\ offered = {}
    /\ safe = Empty
    /\ spoiled = {}

NextSensors ==
    \/ \E found \in machine, garbage \in BOOLEAN :
          StartSensors(found, garbage) \/ UpdateSensors(found, garbage)
    \/ \E refused \in BOOLEAN : FlushSensors(refused)
    \/ \E saves \in BOOLEAN : StopSensors(saves)

-----------------------------------------------------------------------------
(***************************************************************************)
(* The limits a client is told cover every value the sensor ever had, also *)
(* before restarts, as far as a change was stored: for as long as the key  *)
(* stands for one source, no change was refused, and none was pending when *)
(* a new sensor moved the vector; -1, which stands for no value, excepted. *)
(***************************************************************************)
LimitsCover ==
    \A i \in DOMAIN sensors :
        LET item   == sensors[i]
            values == IF item.key \in DOMAIN told THEN told[item.key] ELSE {}
        IN  item.key \notin spoiled /\ -1 \notin values =>
                \A v \in values : item.low <= v /\ v <= item.high

(***************************************************************************)
(* Each sensor that exists and can be read is sampled in each update, with *)
(* the id of the update.                                                   *)
(***************************************************************************)
SensorsAreSampled ==
    \A i \in DOMAIN sensors :
        sensors[i].key \in offered =>
            /\ sensors[i].samples # <<>>
            /\ sensors[i].samples[1].id = IdOf(updates)
=============================================================================
