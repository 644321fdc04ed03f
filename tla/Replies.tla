------------------------------- MODULE Replies -------------------------------
(***************************************************************************)
(* What a reply to a request of samples holds (src/src/Responses.cpp): for *)
(* each level asked, the samples of each item shown that are newer than    *)
(* the one the client names.                                               *)
(*                                                                         *)
(* A collector has items with a key, or (cpu, memory, load) a single one,  *)
(* and an item a memory per level, newest first.  A sample is an id and a  *)
(* time; its values, the attributes of an item, and the session and id a   *)
(* reply names of the collector, are copied as they are.                   *)
(***************************************************************************)
EXTENDS Integers, Sequences, SequencesExt, Subsequence

(***************************************************************************)
(* The samples from the front, newest first, up to the first that is not   *)
(* newer than the one asked; the reply has them oldest first.              *)
(***************************************************************************)
NewerThan(mem, after) ==
    LET stop == SelectInSeq(mem, LAMBDA s : s.id <= after)
    IN  Reverse(SubSeq(mem, 1, IF stop = 0 THEN Len(mem) ELSE stop - 1))

\* One item at one level, as a reply has it.
Answer(item, level, after) ==
    [level |-> level, key |-> item.key, samples |-> NewerThan(item.mem[level], after)]

-----------------------------------------------------------------------------
(***************************************************************************)
(* The collectors of one series: an element per level asked.               *)
(***************************************************************************)
CpuData(coll, after) ==
    [l \in 1 .. Len(after) |-> Answer(coll.items[1], l, after[l])]

MemoryData(coll, after) ==
    [l \in 1 .. Len(after) |-> Answer(coll.items[1], l, after[l])]

LoadData(coll, after) ==
    [l \in 1 .. Len(after) |-> Answer(coll.items[1], l, after[l])]

-----------------------------------------------------------------------------
\* keyForIndex
KeyForIndex(key, level) == <<level, key>>

(***************************************************************************)
(* A key is given once per level in one reply, by the first child that     *)
(* covers it; a child without keys covers them all.                        *)
(***************************************************************************)
ShouldAddKey(added, level, key, keys) ==
    /\ KeyForIndex(key, level) \notin added
    /\ keys = {} \/ key \in keys

\* Wrong: a key the child does not ask for counts as given.
MutAddItem(to, level, item, child) ==
    [items |-> IF ShouldAddKey(to.added, level, item.key, child.keys)
               THEN Append(to.items, Answer(item, level, child.after[level]))
               ELSE to.items,
     added |-> to.added \cup {KeyForIndex(item.key, level)}]

\* An item that is shown, behind what the reply has.
AddItem(to, level, item, child) ==
    IF ShouldAddKey(to.added, level, item.key, child.keys)
    THEN [items |-> Append(to.items, Answer(item, level, child.after[level])),
          added |-> to.added \cup {KeyForIndex(item.key, level)}]
    ELSE to

\* One level of one child, over the items of the collector shown.
AddItems(to, level, items, child) ==
    LET after[n \in 0 .. Len(items)] ==
            IF n = 0 THEN to ELSE AddItem(after[n - 1], level, items[n], child)
    IN  after[Len(items)]

-----------------------------------------------------------------------------
(***************************************************************************)
(* The collectors of many series.  Interfaces, disks and their activity    *)
(* are shown as long as they are listed, sensors for ever; a sensor is     *)
(* one of the GPU, of the others, or of both.                              *)
(***************************************************************************)
IsActive(item) == item.active

IsNoGpuUnit(item) == ~(item.gpu /\ item.gpuUnit)

IsGpu(item) == item.gpu

\* The items a loop does not pass over, in their order.
Those(items, Is(_)) == Only(items, {i \in ToSet(items) : Is(i)})

NetworkData(to, coll, level, child) ==
    AddItems(to, level, Those(coll.items, IsActive), child)

ActivityData(to, coll, level, child) ==
    AddItems(to, level, Those(coll.items, IsActive), child)

DiskData(to, coll, level, child) ==
    AddItems(to, level, Those(coll.items, IsActive), child)

SensorData(to, coll, level, child) ==
    AddItems(to, level, Those(coll.items, IsNoGpuUnit), child)

GpuData(to, coll, level, child) ==
    AddItems(to, level, Those(coll.items, IsGpu), child)

LevelData(kind, to, coll, level, child) ==
    CASE kind = "network"      -> NetworkData(to, coll, level, child)
      [] kind = "diskactivity" -> ActivityData(to, coll, level, child)
      [] kind = "disks"        -> DiskData(to, coll, level, child)
      [] kind = "sensors"      -> SensorData(to, coll, level, child)
      [] kind = "gpu"          -> GpuData(to, coll, level, child)

(***************************************************************************)
(* isr_multiple_data: the children in turn, and of each the levels it      *)
(* names a last id for.                                                    *)
(***************************************************************************)
ChildData(kind, to, coll, child) ==
    LET after[l \in 0 .. Len(child.after)] ==
            IF l = 0 THEN to ELSE LevelData(kind, after[l - 1], coll, l, child)
    IN  after[Len(child.after)]

MultipleData(kind, coll, children) ==
    LET after[n \in 0 .. Len(children)] ==
            IF n = 0 THEN [items |-> <<>>, added |-> {}]
            ELSE ChildData(kind, after[n - 1], coll, children[n])
    IN  after[Len(children)].items

\* The element of a request for one kind of statistics, answered.
Reply(kind, coll, children) ==
    CASE kind = "cpu"    -> CpuData(coll, children[1].after)
      [] kind = "memory" -> MemoryData(coll, children[1].after)
      [] kind = "load"   -> LoadData(coll, children[1].after)
      [] OTHER           -> MultipleData(kind, coll, children)

\* Whether a reply of the kind has the item at all.
Shown(kind, item) ==
    CASE kind \in {"network", "diskactivity", "disks"} -> IsActive(item)
      [] kind = "sensors" -> IsNoGpuUnit(item)
      [] kind = "gpu"     -> IsGpu(item)
      [] OTHER            -> TRUE
=============================================================================
