--------------------------- MODULE MCSmartHealth ---------------------------
\* SmartHealth for TLC: a Linux host with a partition, a mirror and a mapped
\* volume, and one of macOS with a RAID that lost a member.  A share of
\* another computer is mounted as well, whose name has no last part.
EXTENDS SmartHealth

Plain == [slaves |-> {}, partition |-> {}, device |-> FALSE, memory |-> FALSE]

Block ==
    [sda     |-> [Plain EXCEPT !.device = TRUE],
     nvme0n1 |-> [Plain EXCEPT !.device = TRUE],
     sda1    |-> [Plain EXCEPT !.partition = {"sda"}],
     md0     |-> [Plain EXCEPT !.slaves = {"sda1", "nvme0n1"}],
     loop0   |-> [Plain EXCEPT !.device = TRUE, !.memory = TRUE]]

Linux == [system |-> "Linux", querySafe |-> {"sda", "nvme0n1"},
          graph  |-> LinuxTopology(Block, [root |-> "md0"])]

Node(name, parent, raid) ==
    [name |-> name, parent |-> parent, raid |-> raid, members |-> 2, safe |-> parent = ""]

Registry ==
    [a |-> Node("disk1", "", "none"), b |-> Node("disk2", "a", "online")]

Darwin == [system |-> "Darwin", querySafe |-> MacQuerySafe(Registry),
           graph  |-> MacRegistryTopology(Registry)]

Machines == {"linux", "darwin"}
MachineOf == [linux |-> Linux, darwin |-> Darwin]

Answer == [tool |-> "there", status |-> "bits", bits |-> {}, passed |-> "yes"]

Failing == [Answer EXCEPT !.bits = {"failing"}]
Asleep == [Answer EXCEPT !.status = "asleep"]

AnswersOf ==
    [n \in {"sda", "nvme0n1", "disk1", "unknown-raid-member"} |->
        CASE n = "sda"   -> {Answer, Asleep, Failing}
          [] n = "disk1" -> {Answer, Failing}
          [] OTHER       -> {Answer, Asleep}]

Disk(volume, bsd, whole) ==
    [key |-> "/dev/" \o bsd, uuid |-> "uuid:" \o bsd, bsd |-> bsd, volume |-> volume,
     whole |-> whole, family |-> "sd", active |-> TRUE]

Share == [Disk("", "", "") EXCEPT !.key = "nas:/"]

Disks == <<Disk("sda1", "sda1", "sda"), Disk("sda", "sda", "sda"),
           Disk("root", "root", "root"), Disk("disk2", "disk2", "disk2"),
           Disk("nvme0n1p1", "nvme0n1p1", "nvme0n1"), Share>>
=============================================================================
