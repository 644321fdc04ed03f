-------------------------------- MODULE Disks --------------------------------
(***************************************************************************)
(* The disks (src/src/stats/StatsDisks.cpp, FilesystemFilters.h): which of *)
(* what is mounted is a disk, under which label, and the sizes sampled in  *)
(* each update.  Their later levels are Samples' and KeyedHistory's        *)
(* matter, what is known of their health SmartHealth's.                    *)
(*                                                                         *)
(* A mount is a device, a directory, a type of file system, and whether    *)
(* its sizes can be read; a table of mounts is a list.                     *)
(***************************************************************************)
EXTENDS Integers, Sequences, FiniteSets, SequencesExt, Subsequence

CONSTANTS Tables,        \* the mounts the system may have, each a list
          Uuids,         \* by-uuid: from devices to names
          Labels,        \* disk_rename_label: pairs, in their order
          DiskSize,      \* HISTORY_SIZE
          MaxDiskUpdate  \* bound on the updates

ASSUME DisksAssumption ==
    /\ DiskSize \in Nat \ {0} /\ MaxDiskUpdate \in Nat
    /\ \A mounts \in Tables : /\ mounts \in Seq(ToSet(mounts))
                            /\ \A m \in ToSet(mounts) : m.sizes \in BOOLEAN

VARIABLES options,      \* disableFiltering and useMountPaths, of the configuration
          diskReady,    \* the collector's ready
          diskUpdates,  \* sampleIndex[0].sampleID, as the number of updates
          disks,        \* _items
          diskSession,  \* session
          table         \* the mounts the last update went through

diskVars == <<options, diskReady, diskUpdates, disks, diskSession, table>>

-----------------------------------------------------------------------------
(***************************************************************************)
(* The filters.  A directory is the longest of the paths below it begins   *)
(* with, and the rest; some paths stand for all that begins like them, the *)
(* others for themselves.                                                  *)
(***************************************************************************)
Beginnings == {"/export", "/boot", "/tmp", "/system", "/usr/obj", "/usr/src", "/usr/local",
               "/usr/X11", "/usr/jails/.", "/usr/home"}

Directories == {"/usr", "/kern", "/dev/pts", "/compat/linux/proc", "/usr/jails", "/usr/ports"}

ShouldIgnoreMount(mount) ==
    /\ ~options.disableFiltering
    /\ \/ mount.dir[1] \in Beginnings
       \/ mount.dir[1] \in Directories /\ mount.dir[2] = ""

IsIgnoredFilesystem(type) ==
    type \in {"rpc_pipefs", "rootfs", "configfs", "hugetlbfs", "nfsd", "mqueue", "selinuxfs",
              "linprocfs", "binfmt_misc", "tmpfs", "devpts", "devtmpfs", "pstore", "prl_fs",
              "cgroup", "iso9660", "securityfs", "fusectl", "proc", "procfs", "debugfs",
              "fuse.gvfsd-fuse", "sysfs", "devfs", "autofs", "fd", "lofs", "sharefs", "objfs",
              "mntfs", "dev", "cgroup2", "bpf", "tracefs", "efivarfs", "nsfs"}

ShouldIgnoreType(mount) == IsIgnoredFilesystem(mount.type)

Known(list, key) == \E i \in DOMAIN list : list[i].key = key

-----------------------------------------------------------------------------
\* Given when a disk is processed for the first time; the last link wins.
UuidOf(key) == IF key \in DOMAIN Uuids THEN Uuids[key] ELSE key

\* The first label configured for the device or its directory, or one of both.
LabelOf(mount) ==
    LET custom == Only(Labels, {l \in ToSet(Labels) :
                               l[2] # <<>> /\ l[1] \in {<<mount.name>>, mount.dir}})
    IN  CASE custom # <<>>         -> custom[1][2]
          [] custom = <<>> /\ options.useMountPaths  -> mount.dir
          [] custom = <<>> /\ ~options.useMountPaths -> <<mount.name>>

\* createDisk leaves the mark of an active disk uninitialised.
NewDisk(mount, garbage) ==
    [key |-> mount.name, uuid |-> UuidOf(mount.name), name |-> mount.dir,
     label |-> LabelOf(mount), active |-> garbage, samples |-> <<>>]

\* get_sizes, and the sample put in front.
Sampled(disk, mount, id) ==
    IF ~mount.sizes THEN disk
    ELSE [disk EXCEPT !.active = TRUE,
                      !.samples = SubSeq(<<id>> \o @, 1, IF Len(@) < DiskSize
                                                         THEN Len(@) + 1 ELSE DiskSize)]

\* Wrong: a disk that is known is filtered by its directory, too.
MutProcessDisk(list, mount, ready, id, garbage) ==
    IF ShouldIgnoreType(mount) \/ ShouldIgnoreMount(mount) THEN list
    ELSE LET all == IF Known(list, mount.name) THEN list ELSE <<NewDisk(mount, garbage)>> \o list
         IN  [i \in DOMAIN all |->
                 IF all[i].key # mount.name THEN all[i]
                 ELSE IF ready THEN Sampled(all[i], mount, id)
                 ELSE [all[i] EXCEPT !.active = TRUE]]

(***************************************************************************)
(* processDisk: a mount of a device not known yet makes a disk, unless its *)
(* type or directory is ignored; a mount of one that is known is sampled   *)
(* whatever its directory.  Before the collector is ready nothing is       *)
(* sampled, and a disk is taken for active.                                *)
(***************************************************************************)
ProcessDisk(list, mount, ready, id, garbage) ==
    LET known == Known(list, mount.name)
        all   == IF known THEN list ELSE <<NewDisk(mount, garbage)>> \o list
    IN  IF ShouldIgnoreType(mount) \/ (~known /\ ShouldIgnoreMount(mount)) THEN list
        ELSE [i \in DOMAIN all |->
                 IF all[i].key # mount.name THEN all[i]
                 ELSE IF ready THEN Sampled(all[i], mount, id)
                 ELSE [all[i] EXCEPT !.active = TRUE]]

\* Of one mount after the other.
ProcessDisks(from, mounts, ready, id, garbage) ==
    LET after[n \in 0 .. Len(mounts)] ==
            IF n = 0 THEN from ELSE ProcessDisk(after[n - 1], mounts[n], ready, id, garbage)
    IN  after[Len(mounts)]

\* prepareUpdate
PreparedDisks(list) == [i \in DOMAIN list |-> [list[i] EXCEPT !.active = FALSE]]

(***************************************************************************)
(* An update; the table of mounts may not open.                            *)
(***************************************************************************)
UpdateDisks(mounts, opens, garbage) ==
    LET seen == IF opens THEN mounts ELSE <<>>
        id   == IF diskReady THEN diskUpdates + 1 ELSE diskUpdates
        from == IF diskReady THEN PreparedDisks(disks) ELSE disks
        list == ProcessDisks(from, seen, diskReady, id, garbage)
    IN  /\ diskUpdates < MaxDiskUpdate
        /\ diskUpdates' = id
        /\ disks' = list
        /\ diskSession' = diskSession + Len(list) - Len(disks)
        /\ diskReady' = TRUE
        /\ table' = seen
        /\ UNCHANGED options

InitDisks ==
    /\ options \in [disableFiltering : BOOLEAN, useMountPaths : BOOLEAN]
    /\ diskReady = FALSE
    /\ diskUpdates = 0
    /\ disks = <<>>
    /\ diskSession = 0
    /\ table = <<>>

NextDisks ==
    \E mounts \in Tables, opens, garbage \in BOOLEAN : UpdateDisks(mounts, opens, garbage)

-----------------------------------------------------------------------------
\* An update that does what DisksAreMounted says.
UpdateIsMounted ==
    LET Listings(key) == {i \in DOMAIN table' : /\ table'[i].name = key
                                                /\ ~ShouldIgnoreType(table'[i])}
        Measured(key) == {i \in Listings(key) : table'[i].sizes}
    IN  /\ \A i \in DOMAIN disks : Known(disks', disks[i].key)
        /\ \A i \in DOMAIN table' :
              ~ShouldIgnoreType(table'[i]) /\ ~ShouldIgnoreMount(table'[i]) =>
                  Known(disks', table'[i].name)
        /\ \A i \in DOMAIN disks' :
              LET d     == disks'[i]
                  ofNow == {j \in DOMAIN d.samples : d.samples[j] = diskUpdates'}
                  old   == Known(disks, d.key)
              IN  /\ \A j, k \in DOMAIN d.samples :
                        j < k => d.samples[j] >= d.samples[k]
                  /\ old =>
                        /\ d.active <=> Measured(d.key) # {}
                        /\ Cardinality(ofNow) = IF Cardinality(Measured(d.key)) < DiskSize
                                                THEN Cardinality(Measured(d.key))
                                                ELSE DiskSize

(***************************************************************************)
(* A device is a disk once it was mounted somewhere that is not ignored,   *)
(* and stays one; in an update it is active, and has a sample of it, if    *)
(* and only if one of its mounts could be measured, wherever that is.  A   *)
(* disk that was seen for the first time and could not be measured is      *)
(* active or not: nothing says so.  No sample is older than the next, and  *)
(* an update adds one for each mount of the device that was measured.      *)
(***************************************************************************)
DisksAreMounted == [][diskUpdates' # diskUpdates => UpdateIsMounted]_diskVars
=============================================================================
