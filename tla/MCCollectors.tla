---------------------------- MODULE MCCollectors -----------------------------
EXTENDS Collectors

CONSTANTS p1, p2 \* process ids

\* Machines: all have less than this, where it can be read.
Bare == [chips |-> <<>>, sysctl |-> <<>>, qnap |-> <<>>, zones |-> <<>>, policies |-> <<>>,
         cpus |-> <<>>, devfreq |-> <<>>, cards |-> <<>>, i915 |-> <<>>, rapl |-> <<>>]

Chip(label, v) == [label |-> label, input |-> "fan", value |-> v]

\* A zone, two processors of one policy, and a chip that is found late.
Board(v, found) == [Bare EXCEPT
    !.zones = <<[type |-> "cpu", zone |-> 0, value |-> <<>>],
                [type |-> "cpu", zone |-> 1, value |-> <<v>>]>>,
    !.policies = <<[number |-> 0, cpus |-> <<0, 1>>, value |-> <<v>>]>>,
    !.cpus = <<[number |-> 0, value |-> <<>>], [number |-> 1, value |-> <<v>>]>>,
    !.chips = IF found THEN <<Chip("a", <<v>>)>> ELSE <<>>]

\* GPUs that sleep, energy counters, two chips of one label.
Laptop(v, w) == [Bare EXCEPT
    !.i915 = <<w, <<v>>>>,
    !.devfreq = <<[dir |-> "gpu0", freq |-> w, load |-> <<>>]>>,
    !.cards = <<[name |-> "busy", value |-> <<v>>]>>,
    !.rapl = <<[name |-> "core", power |-> <<>>], [name |-> "core", power |-> <<v>>]>>,
    !.chips = <<Chip("a", <<v>>), Chip("a", <<0>>)>>]

\* A system with sysctl; a QNAP with a policy that names no processor.
Other(v) == [Bare EXCEPT
    !.sysctl = <<[name |-> "dev.cpu.temperature", number |-> 0, value |-> <<v>>],
                 [name |-> "dev.cpu.freq", number |-> 0, value |-> <<v>>],
                 [name |-> "hw.acpi.thermal", number |-> 1, value |-> <<v>>]>>]

Qnap(v) == [Bare EXCEPT
    !.qnap = <<v>>, !.chips = <<Chip("b", <<v>>)>>,
    !.policies = <<[number |-> 2, cpus |-> <<>>, value |-> <<v>>]>>]

MCHardware == {{Board(3, FALSE), Board(3, TRUE), Board(9, TRUE)},
               {Laptop(3, <<>>), Laptop(3, <<1>>), Laptop(9, <<>>)},
               {Other(9), Other(3), Bare}, {Qnap(3), Qnap(5)}}

MCPids == {p1, p2}

\* Nothing distinguishes the ids.
MCSymmetry == Permutations(MCPids)

Word(holds, last) == [holds |-> holds, last |-> last]

MCPrograms ==
    {[name |-> "sh", full |-> "sh", cut |-> FALSE, words |-> <<>>, threads |-> 1, size |-> 2],
     [name |-> "a-name-too-lon", full |-> "a-name-too-long", cut |-> TRUE, threads |-> 2, size |-> 1,
      words |-> <<Word(FALSE, "a-name-too-long"), Word(TRUE, "a-name-too-long")>>]}

Mount(name, dir, type, sizes) == [name |-> name, dir |-> dir, type |-> type, sizes |-> sizes]

Root == <<"/", "">>
Boot == <<"/boot", "/efi">>
Usr  == <<"/usr", "/lib">>

MCTables ==
    {<<>>,
     <<Mount("sda", Root, "ext4", TRUE), Mount("none", Boot, "tmpfs", TRUE)>>,
     <<Mount("sda", Boot, "ext4", TRUE)>>,
     <<Mount("sda", Boot, "ext4", FALSE), Mount("sda", Root, "ext4", TRUE)>>,
     <<Mount("sda", Root, "ext4", TRUE), Mount("sda", Usr, "ext4", TRUE)>>,
     <<Mount("sdb", Usr, "ext4", FALSE), Mount("sda", Root, "ext4", TRUE)>>,
     <<Mount("sda", Root, "tmpfs", TRUE), Mount("sdb", <<"/usr", "">>, "ext4", TRUE)>>}

MCUuids == [k \in {"sda"} |-> "u1"]

MCLabels == << <<Usr, <<>> >>, <<Boot, <<"boot">> >>, << <<"sdb">>, <<"data">> >> >>

MCBatteryNames == {"BAT0", "BAT1"}

MCFiles ==
    {<<>>,
     << <<"present", 0>>, <<"status", "Unknown">> >>,
     << <<"status", "Charging">>, <<"full", 50>>, <<"now", 60>>, <<"rate", 10>> >>,
     << <<"status", "Charging">>, <<"full", 50>>, <<"now", 20>>, <<"rate", 10>>, <<"capacity", 40>>,
        <<"design", 100>> >>,
     << <<"capacity", 101>>, <<"status", "Discharging">>, <<"full", 50>>, <<"now", 50>>, <<"rate", 10>> >>,
     << <<"status", "Discharging">>, <<"full", 10>>, <<"now", 30>> >>}
=============================================================================
