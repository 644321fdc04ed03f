----------------------------- MODULE Collectors ------------------------------
(***************************************************************************)
(* The collectors that look for things of the machine that come and go:    *)
(* sensors, processes, disks and batteries.  The statistics thread updates *)
(* one after the other and they share nothing (StatsThread has the order,  *)
(* the lock and the queue), so a behaviour shows one of them, the part.    *)
(***************************************************************************)
EXTENDS Sensors, Processes, Disks, Battery

VARIABLE part \* the collector a behaviour is about

collectorVars == <<part, sensorVars, processVars, diskVars, batteryVars>>

InitCollectors ==
    /\ part \in {"sensors", "processes", "disks", "batteries"}
    /\ InitSensors /\ InitProcesses /\ InitDisks /\ InitBattery
    /\ part # "sensors" => machine = CHOOSE m \in Hardware : TRUE
    /\ part # "disks" => ~options.disableFiltering /\ ~options.useMountPaths

SensorsStep ==
    part = "sensors" /\ NextSensors /\ UNCHANGED <<part, processVars, diskVars, batteryVars>>

ProcessesStep ==
    part = "processes" /\ NextProcesses /\ UNCHANGED <<part, sensorVars, diskVars, batteryVars>>

DisksStep ==
    part = "disks" /\ NextDisks /\ UNCHANGED <<part, sensorVars, processVars, batteryVars>>

BatteryStep ==
    part = "batteries" /\ NextBattery /\ UNCHANGED <<part, sensorVars, processVars, diskVars>>

NextCollectors == SensorsStep \/ ProcessesStep \/ DisksStep \/ BatteryStep

CollectorsSpec == InitCollectors /\ [][NextCollectors]_collectorVars
=============================================================================
