------------------------------- MODULE Battery -------------------------------
(***************************************************************************)
(* The batteries (src/src/stats/StatsBattery.cpp): found once, when the    *)
(* server starts, and read in each update.  What a reply says of a battery *)
(* (Responses.cpp, isr_battery_data) leaves out whether it is there.       *)
(*                                                                         *)
(* The file of a battery is a list of lines, a name and a value each, read *)
(* in their order; one that cannot be opened is Gone.                      *)
(***************************************************************************)
EXTENDS Integers, Sequences, FiniteSets, SequencesExt, Subsequence

CONSTANTS BatteryNames,     \* the entries of power_supply that begin with BAT
          Files,            \* what the file of a battery may hold
          Gone,             \* no file
          MaxBatteryUpdate  \* bound on the updates

\* The kernel tells numbers, but for the status, and no negative capacity.
IsLine(l) == /\ l[1] # "status" => l[2] \in Int
             /\ l[1] = "capacity" => l[2] \in Nat

ASSUME BatteryAssumption ==
    /\ IsFiniteSet(BatteryNames)
    /\ MaxBatteryUpdate \in Nat
    /\ Gone \notin Files
    /\ \A file \in Files : file \in Seq(ToSet(file)) /\ \A l \in ToSet(file) : IsLine(l)

VARIABLES batteryUpdates, \* updates so far
          batteries,      \* _items
          files           \* what the last update read, by battery

batteryVars == <<batteryUpdates, batteries, files>>

-----------------------------------------------------------------------------
StateUnknown  == -1
StateCharged  == 0
StateCharging == 1
StateDraining == 2

\* The last line with a name counts.
Line(file, name, default) ==
    LET lines == Only(file, {l \in ToSet(file) : l[1] = name})
    IN  IF lines = <<>> THEN default ELSE Last(lines)[2]

\* Whatever a battery does but charge and discharge is taken for charged.
StateOf(file) ==
    LET status == Line(file, "status", "none")
    IN  CASE status = "none"        -> StateUnknown
          [] status = "Charging"    -> StateCharging
          [] status = "Discharging" -> StateDraining
          [] OTHER                  -> StateCharged

SourceOf(file) == IF StateOf(file) = StateDraining THEN "battery" ELSE "AC"

(***************************************************************************)
(* The percentage, if the system does not say: a division of integers,     *)
(* before the multiplication.                                              *)
(***************************************************************************)
Percentage(file) ==
    LET full == Line(file, "full", 0)
        now  == Line(file, "now", 0)
        said == Line(file, "capacity", -1)
        made == IF said # -1 THEN said
                ELSE IF full > 0 /\ now > 0 THEN (now \div full) * 100 ELSE 0
    IN  IF made > 100 THEN 100 ELSE made

\* Minutes until full or empty, 0 where the rate is not known.
TimeRemaining(file) ==
    LET left == CASE StateOf(file) = StateCharging -> Line(file, "full", 0) - Line(file, "now", 0)
                  [] StateOf(file) = StateDraining -> Line(file, "now", 0)
                  [] OTHER -> 0
        rate == Line(file, "rate", 0)
    IN  IF left > 0 /\ rate > 0 THEN (left * 60) \div rate ELSE 0

Health(file) ==
    LET design == Line(file, "design", 0)
        full   == Line(file, "full", 0)
    IN  IF design > 0 /\ full > 0 THEN (full * 100) \div design ELSE 0

Told(file) ==
    [state |-> StateOf(file), source |-> SourceOf(file), cycles |-> Line(file, "cycles", 0),
     percentage |-> Percentage(file), time |-> TimeRemaining(file), health |-> Health(file)]

-----------------------------------------------------------------------------
(***************************************************************************)
(* createBattery.  Nothing of the battery is initialised but its names.    *)
(***************************************************************************)
NewBattery(key, garbage) ==
    [key |-> key, active |-> garbage, present |-> garbage, told |-> <<>>]

CreateBattery(list, key, garbage) ==
    IF \E i \in DOMAIN list : list[i].key = key THEN list
    ELSE <<NewBattery(key, garbage)>> \o list

\* One after the other.
CreateBatteries(found, garbage) ==
    LET made[n \in 0 .. Len(found)] ==
            IF n = 0 THEN <<>> ELSE CreateBattery(made[n - 1], found[n], garbage)
    IN  made[Len(found)]

(***************************************************************************)
(* init: the batteries whose file opens.  The adapter of each is looked    *)
(* for by the end of its path, which is never that of the battery; an      *)
(* adapter whose name is more than three letters shorter than that of a    *)
(* battery ends the server there (README).                                 *)
(***************************************************************************)
FileExists(now, key) == now[key] # Gone

StartBattery(order, now, garbage) ==
    /\ batteryUpdates = 0
    /\ batteries = <<>>
    /\ batteries' = CreateBatteries(Only(order, {key \in BatteryNames : FileExists(now, key)}),
                                    garbage)
    /\ batteries' # <<>>
    /\ UNCHANGED <<batteryUpdates, files>>

\* Wrong: a battery that went is taken for an empty file.
MutReadBattery(battery, file) ==
    [battery EXCEPT !.active = TRUE, !.present = TRUE,
                    !.told = <<Told(IF file = Gone THEN <<>> ELSE file)>>]

ReadBattery(battery, file) ==
    IF file = Gone THEN [battery EXCEPT !.present = FALSE]
    ELSE [battery EXCEPT !.active = TRUE,
                         !.present = Line(file, "present", 1) # 0,
                         !.told = <<Told(file)>>]

\* prepareUpdate, which the first update goes without, and update.
UpdateBattery(now) ==
    LET prepared == [i \in DOMAIN batteries |->
                        IF batteryUpdates = 0 THEN batteries[i]
                        ELSE [batteries[i] EXCEPT !.active = FALSE]]
    IN  /\ batteries # <<>>
        /\ batteryUpdates < MaxBatteryUpdate
        /\ batteryUpdates' = batteryUpdates + 1
        /\ batteries' = [i \in DOMAIN batteries |->
                            ReadBattery(prepared[i], now[batteries[i].key])]
        /\ files' = [key \in BatteryNames |->
                        IF now[key] = Gone THEN files[key] ELSE now[key]]

InitBattery ==
    /\ batteryUpdates = 0
    /\ batteries = <<>>
    /\ files = [key \in BatteryNames |-> Gone]

NextBattery ==
    \E now \in [BatteryNames -> Files \cup {Gone}] :
        \/ UpdateBattery(now)
        \/ \E order \in SetToSeqs(BatteryNames), garbage \in BOOLEAN :
              StartBattery(order, now, garbage)

-----------------------------------------------------------------------------
(***************************************************************************)
(* A client is told what the battery's file said when it could last be     *)
(* read, of one that went, too, and what is told hangs together: a share   *)
(* from 0 to 100, the battery as source exactly when it drains, and a time *)
(* only while it charges or drains.  Only a battery that was never read is *)
(* told as what its memory held.                                           *)
(***************************************************************************)
BatteriesAreRead ==
    \A i \in DOMAIN batteries :
        LET b == batteries[i]
        IN  files[b.key] # Gone =>
                /\ b.told # <<>>
                /\ b.told[1].percentage \in 0..100
                /\ b.told[1].source = "battery" <=> b.told[1].state = StateDraining
                /\ b.told[1].time > 0 => b.told[1].state \in {StateCharging, StateDraining}
                /\ b.told[1].health = Health(files[b.key])
                /\ Line(files[b.key], "capacity", -1) \in 0..100 =>
                      b.told[1].percentage = Line(files[b.key], "capacity", -1)
=============================================================================
