------------------------------ MODULE MCPolling ------------------------------
(***************************************************************************)
(* Polling with two devices, one of them a sensor of the GPU when they are *)
(* sensors, of every kind of collector.                                    *)
(***************************************************************************)
EXTENDS Polling

CONSTANTS d1, d2

MCDevice  == {d1, d2}
MCGpuUnit == {d2}
MCKinds   == {"cpu", "memory", "load", "network", "diskactivity", "disks",
              "sensors", "gpu"}
=============================================================================
