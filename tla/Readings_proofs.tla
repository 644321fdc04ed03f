---------------------------- MODULE Readings_proofs ----------------------------
(***************************************************************************)
(* Theorems about what the machine is found in.  First the health of the   *)
(* disks, for all machines, all answers of their devices, every time       *)
(* between two readings and every step the clock may be set back by;       *)
(* nothing is used of a topology but the names it leads to.  Then what a   *)
(* collector makes of a counter of the kernel or of the energy.            *)
(***************************************************************************)
EXTENDS SmartHealth, Samples, SequenceFacts, FiniteSetTheorems

-----------------------------------------------------------------------------
\* What is known of a volume, in the file and in the cache, on a machine
\* with some devices.
GoodHealth(physical, h) ==
    /\ h = [state |-> h.state, checked |-> h.checked, of |-> h.of]
    /\ h.checked \in Nat
    /\ \A d \in DOMAIN h.of : h.of[d].checked \in Nat
    /\ h.state = "passed" =>
          /\ DOMAIN h.of # {}
          /\ \A d \in DOMAIN h.of : /\ d \in physical
                                    /\ h.of[d].state = "passed"
                                    /\ h.checked <= h.of[d].checked
    /\ (\E d \in DOMAIN h.of : h.of[d].state = "failed") => h.state = "failed"

Good(physical, volumes) ==
    \A n \in DOMAIN volumes : GoodHealth(physical, volumes[n])

TimeInv ==
    /\ host \in Hosts
    /\ now \in Nat
    /\ set \in BOOLEAN

RunInv ==
    run # <<>> =>
        /\ run = <<run[1]>>
        /\ IsFiniteSet(DOMAIN run[1])
        /\ \A d \in DOMAIN run[1] : run[1][d].checked \in Nat

FileInv ==
    file # <<>> =>
        /\ file = <<[volumes |-> file[1].volumes, readable |-> file[1].readable,
                     age |-> file[1].age]>>
        /\ file[1].age \in Nat
        /\ Good(Physical, file[1].volumes)

CacheInv ==
    /\ cache = [lastRead |-> cache.lastRead, opened |-> cache.opened, volumes |-> cache.volumes]
    /\ cache.lastRead \in Nat
    /\ Good(Physical, cache.volumes)

(***************************************************************************)
(* How long a file that can be read may lie there unread, unless it could  *)
(* not be opened the last time.  Before the clock is set back no           *)
(* longer than since the last reading, which is before the file; after it  *)
(* as long once more.                                                      *)
(***************************************************************************)
Unread ==
    /\ file # <<>> /\ file[1].readable
    /\ cache # FreshCache /\ cache.opened
    /\ cache.volumes # file[1].volumes

ReadInv ==
    /\ ~set => cache.lastRead <= now
    /\ cache # FreshCache => now - cache.lastRead < RefreshEvery
    /\ Unread /\ ~set => file[1].age <= now - cache.lastRead
    /\ Unread /\ set => \/ file[1].age < RefreshEvery
                        \/ file[1].age <= RefreshEvery + (now - cache.lastRead)

IInv == TimeInv /\ RunInv /\ FileInv /\ CacheInv /\ ReadInv

-----------------------------------------------------------------------------
(***************************************************************************)
(* The verdict about a volume.                                             *)
(***************************************************************************)

\* The least of some natural numbers.
LEMMA MinIsLeast ==
  ASSUME NEW T \in SUBSET Nat, T # {}
  PROVE  Min(T) \in T /\ \A y \in T : Min(T) <= y
<1>1. PICK x \in T : \A y \in T : ~ (<<y, x>> \in OpToRel(<, Nat))
  BY WFMin, NatLessThanWellFounded
<1>2. \A y \in T : x <= y
  <2> TAKE y \in T
  <2>1. <<y, x>> \in Nat \X Nat
    OBVIOUS
  <2>2. ~ (y < x)
    BY <1>1, <2>1 DEF OpToRel
  <2> QED
    BY <2>2
<1> QED
  BY <1>2 DEF Min

\* A volume passes only when all its devices do, of which there are some.
LEMMA AggregatePassed ==
  ASSUME NEW S, IsFiniteSet(S), Aggregate(S) = "passed"
  PROVE  S = {"passed"}
<1>1. Cardinality(S) = 1 /\ (CHOOSE s \in S : TRUE) = "passed"
  BY DEF Aggregate
<1>2. PICK x : S = {x}
  BY <1>1, FS_Singleton
<1>3. x = "passed"
  BY <1>1, <1>2
<1> QED
  BY <1>2, <1>3

\* One device that failed decides.
LEMMA AggregateFailed ==
  ASSUME NEW S, "failed" \in S
  PROVE  Aggregate(S) = "failed"
BY DEF Aggregate

\* Every device a name lies on is one the helper asks.
LEMMA BottomIsPhysical ==
  ASSUME host \in Hosts, NEW n \in DOMAIN Machine[host].graph
  PROVE  Bottom[host][n] \subseteq Physical
<1>1. DOMAIN Bottom[host] = DOMAIN Machine[host].graph
  BY DEF Bottom
<1> QED
  BY <1>1 DEF Physical, Physicals

\* What the helper writes when it has asked every device.
LEMMA SnapshotGood ==
  ASSUME host \in Hosts,
         NEW records, IsFiniteSet(DOMAIN records), DOMAIN records = Physical,
         \A d \in DOMAIN records : records[d].checked \in Nat
  PROVE  Good(Physical, Snapshot(host, records))
<1> SUFFICES ASSUME NEW n \in DOMAIN Machine[host].graph
             PROVE  GoodHealth(Physical, Snapshot(host, records)[n])
  BY DEF Good, Snapshot
<1> DEFINE devices == Bottom[host][n]
           StateOf(d) == IF d \in devices \cap (DOMAIN records) THEN records[d].state
                         ELSE "unknown"
           states == {StateOf(d) : d \in devices}
           times == {records[d].checked : d \in devices}
           h == Snapshot(host, records)[n]
<1>1. devices \subseteq DOMAIN records
  BY BottomIsPhysical
<1>2. devices \cap (DOMAIN records) = devices
  BY <1>1
<1>3. h = [state   |-> Aggregate(states),
           checked |-> IF devices = {} THEN 0 ELSE Min(times),
           of      |-> [d \in devices |-> records[d]]]
  <2>1. h = [state   |-> Aggregate(states),
             checked |-> IF devices \cap (DOMAIN records) = {} THEN 0
                         ELSE Min({records[d].checked : d \in devices \cap (DOMAIN records)}),
             of      |-> [d \in devices |->
                             IF d \in devices \cap (DOMAIN records) THEN records[d]
                             ELSE [state |-> "unknown", checked |-> 0]]]
    BY DEF Snapshot
  <2>2. [d \in devices |-> IF d \in devices \cap (DOMAIN records) THEN records[d]
                           ELSE [state |-> "unknown", checked |-> 0]]
        = [d \in devices |-> records[d]]
    BY <1>2
  <2> QED
    BY <2>1, <2>2, <1>2
<1>4. \A d \in devices : StateOf(d) = records[d].state
  BY <1>1
<1>5. times \in SUBSET Nat
  BY <1>1
<1>6. h.checked \in Nat /\ \A d \in devices : h.checked <= records[d].checked
  <2>1. CASE devices = {}
    BY <1>3, <2>1
  <2>2. CASE devices # {}
    <3>1. times # {}
      BY <2>2
    <3>2. Min(times) \in times /\ \A y \in times : Min(times) <= y
      BY <1>5, <3>1, MinIsLeast
    <3>3. h.checked = Min(times)
      BY <1>3, <2>2
    <3>4. \A d \in devices : records[d].checked \in times
      OBVIOUS
    <3> QED
      BY <1>5, <3>2, <3>3, <3>4
  <2> QED
    BY <2>1, <2>2
<1>7. IsFiniteSet(states)
  <2>1. IsFiniteSet(devices)
    BY <1>1, FS_Subset
  <2>2. [d \in devices |-> StateOf(d)] \in Surjection(devices, states)
    BY DEF Surjection
  <2> QED
    BY <2>1, <2>2, FS_Surjection
<1>8. ASSUME h.state = "passed"
      PROVE  devices # {} /\ \A d \in devices : records[d].state = "passed"
  <2>1. states = {"passed"}
    BY <1>3, <1>7, <1>8, AggregatePassed
  <2>2. \A d \in devices : records[d].state \in states
    BY <1>4
  <2> QED
    BY <2>1, <2>2
<1>9. ASSUME NEW d \in devices, records[d].state = "failed"
      PROVE  h.state = "failed"
  <2>1. "failed" \in states
    BY <1>4, <1>9
  <2> QED
    BY <1>3, <2>1, AggregateFailed
<1>10. DOMAIN h.of = devices /\ \A d \in devices : h.of[d] = records[d]
  BY <1>3
<1>11. h = [state |-> h.state, checked |-> h.checked, of |-> h.of]
  BY <1>3
<1>12. GoodHealth(Physical, h)
  <2> HIDE DEF h, devices
  <2> QED
    BY <1>1, <1>6, <1>8, <1>9, <1>10, <1>11 DEF GoodHealth
<1> QED
  BY <1>12

-----------------------------------------------------------------------------
(***************************************************************************)
(* The steps, each by itself.                                              *)
(***************************************************************************)
LEMMA Times ==
  /\ RefreshEvery \in Nat /\ RefreshEvery # 0
  /\ StaleAfter \in Nat
  /\ \A by \in SetBacks : by \in Nat
  /\ ReadWithin = RefreshEvery + RefreshEvery
<1>1. {RefreshEvery, StaleAfter} \cup SetBacks \subseteq Nat /\ RefreshEvery # 0
  BY SmartHealthAssumption
<1>2. RefreshEvery \in Nat
  BY <1>1
<1>3. ReadWithin = RefreshEvery + RefreshEvery
  BY <1>2 DEF ReadWithin
<1> QED
  BY <1>1, <1>3

\* The invariant holds at the start.
LEMMA InitKeeps == Init => IInv
<1> SUFFICES ASSUME Init PROVE IInv
  OBVIOUS
<1>1. TimeInv /\ RunInv /\ FileInv
  <2>1. host \in Hosts /\ now = ReadWithin /\ set = FALSE /\ run = <<>> /\ file = <<>>
    BY DEF Init
  <2>2. ReadWithin \in Nat
    BY Times
  <2> QED
    BY <2>1, <2>2 DEF TimeInv, RunInv, FileInv
<1>2. CacheInv
  BY DEF Init, CacheInv, FreshCache, NoVolumes, Good
<1>3. ReadInv
  BY Times DEF Init, ReadInv, Unread, FreshCache
<1> QED
  BY <1>1, <1>2, <1>3 DEF IInv

\* A step that touches neither the file, nor the cache, nor the clock.
LEMMA HelperStepKeeps ==
  ASSUME IInv, UNCHANGED <<host, real, now, set, file, cache>>, RunInv'
  PROVE  IInv'
<1>1. Physical' = Physical
  BY DEF Physical
<1> QED
  BY <1>1 DEF IInv, TimeInv, FileInv, CacheInv, ReadInv, Unread

\* A run that begins keeps it.
LEMMA BeginRunKeeps ==
  ASSUME IInv, BeginRun PROVE IInv'
<1>1. run' = <<[d \in {} |-> <<>>]>>
  BY DEF BeginRun
<1>2. RunInv'
  BY <1>1, FS_EmptySet DEF RunInv
<1> QED
  BY <1>2, HelperStepKeeps DEF BeginRun

\* So does a run that is given up.
LEMMA AbandonKeeps ==
  ASSUME IInv, Abandon PROVE IInv'
<1>1. RunInv'
  BY DEF Abandon, RunInv
<1> QED
  BY <1>1, HelperStepKeeps DEF Abandon

\* So does the check of a device, however its helper answers.
LEMMA CheckKeeps ==
  ASSUME IInv, NEW answer, Check(answer) PROVE IInv'
<1> DEFINE left == Physical \ (DOMAIN run[1])
           chosen == CHOOSE d \in left : TRUE
           record == [state |-> CollectDevice(chosen, Machine[host], answer), checked |-> now]
           records == [d \in (DOMAIN run[1]) \cup {chosen} |->
                          IF d = chosen THEN record ELSE run[1][d]]
<1>1. run' = <<records>>
  BY DEF Check
<1>2. DOMAIN records = (DOMAIN run[1]) \cup {chosen}
  OBVIOUS
<1>3. IsFiniteSet(DOMAIN records)
  BY <1>2, FS_AddElement DEF IInv, RunInv, Check
<1>4. \A d \in DOMAIN records : records[d].checked \in Nat
  BY <1>2 DEF IInv, RunInv, TimeInv, Check
<1>5. RunInv'
  <2> HIDE DEF records
  <2> QED
    BY <1>1, <1>3, <1>4 DEF RunInv
<1> QED
  BY <1>5, HelperStepKeeps DEF Check

\* The new file is good, and nobody has waited for it yet.
LEMMA PublishKeeps ==
  ASSUME IInv, Publish PROVE IInv'
<1>1. /\ \/ file' = <<[volumes |-> Snapshot(host, run[1]), readable |-> TRUE, age |-> 0]>>
         \/ file' = <<[volumes |-> NoVolumes, readable |-> FALSE, age |-> 0]>>
      /\ run' = <<>>
      /\ UNCHANGED <<host, real, now, set, cache>>
  BY DEF Publish
<1>2. Good(Physical, Snapshot(host, run[1])) /\ Good(Physical, NoVolumes)
  BY SnapshotGood DEF Publish, IInv, TimeInv, RunInv, Good, NoVolumes
<1>3. Physical' = Physical
  BY <1>1 DEF Physical
<1>4. TimeInv' /\ RunInv' /\ CacheInv'
  BY <1>1, <1>3 DEF IInv, TimeInv, RunInv, CacheInv
<1>5. /\ file' = <<[volumes |-> file'[1].volumes, readable |-> file'[1].readable, age |-> 0]>>
      /\ file'[1].age = 0 /\ Good(Physical, file'[1].volumes)
  <2> DEFINE new == Snapshot(host, run[1])
             none == NoVolumes
  <2>1. Good(Physical, new) /\ Good(Physical, none)
    BY <1>2
  <2>2. \/ file' = <<[volumes |-> new, readable |-> TRUE, age |-> 0]>>
        \/ file' = <<[volumes |-> none, readable |-> FALSE, age |-> 0]>>
    BY <1>1
  <2> HIDE DEF new, none
  <2> QED
    BY <2>1, <2>2
<1>6. FileInv'
  BY <1>1, <1>3, <1>5 DEF FileInv
<1>7. ReadInv'
  BY <1>1, <1>5, Times DEF IInv, TimeInv, CacheInv, ReadInv, Unread, FreshCache
<1> QED
  BY <1>4, <1>6, <1>7 DEF IInv

\* A second reading of the file gets what it says; waiting makes it older.
LEMMA TickKeeps ==
  ASSUME IInv, Tick PROVE IInv'
<1> USE Times DEF IInv
<1>1. PICK opened \in BOOLEAN : cache' = Refresh(now + 1, file, opened)
  BY DEF Tick
<1>9. now' = now + 1 /\ UNCHANGED <<host, set, run>>
  BY DEF Tick
<1>0. now \in Nat /\ cache.lastRead \in Nat /\ RefreshEvery \in Nat
  BY DEF TimeInv, CacheInv
<1>2. Physical' = Physical
  BY <1>9 DEF Physical
<1>3. TimeInv' /\ RunInv'
  BY <1>9 DEF TimeInv, RunInv
<1>4. ASSUME file # <<>>
      PROVE  /\ file' = <<[volumes |-> file[1].volumes, readable |-> file[1].readable,
                           age |-> file'[1].age]>>
             /\ file'[1].volumes = file[1].volumes
             /\ file'[1].readable = file[1].readable
             /\ file'[1].age \in {file[1].age, file[1].age + 1}
  <2> DEFINE v == file[1].volumes
             r == file[1].readable
             a == file[1].age
  <2>1. file = <<[volumes |-> v, readable |-> r, age |-> a]>> /\ a \in Nat
    BY <1>4 DEF FileInv
  <2> HIDE DEF v, r, a
  <2>2. file[1].volumes = v /\ file[1].readable = r /\ file[1].age = a
    BY <2>1
  <2>3. file' \in {<<[volumes |-> v, readable |-> r, age |-> a]>>,
                <<[volumes |-> v, readable |-> r, age |-> a + 1]>>}
    BY <1>4, <2>1, <2>2 DEF Tick
  <2> QED
    BY <2>2, <2>3
<1>5. file = <<>> <=> file' = <<>>
  BY <1>4 DEF Tick
<1>6. FileInv'
  BY <1>2, <1>4, <1>5 DEF FileInv
<1>7. CASE now + 1 >= cache.lastRead /\ now + 1 - cache.lastRead < RefreshEvery
  <2>1. cache' = cache
    BY <1>0, <1>1, <1>7 DEF Refresh
  <2>2. CacheInv'
    BY <2>1, <1>2 DEF CacheInv
  <2>3. ReadInv'
    <3>1. cache.lastRead \in Nat /\ now \in Nat
      BY DEF CacheInv, TimeInv
    <3>2. ~set => cache.lastRead <= now'
      BY <1>0, <1>7, <1>9
    <3>3. now' - cache.lastRead < RefreshEvery
      BY <1>0, <1>7, <1>9
    <3>4. ASSUME Unread'
          PROVE  /\ ~set => file'[1].age <= now' - cache.lastRead
                 /\ set => \/ file'[1].age < RefreshEvery
                           \/ file'[1].age <= RefreshEvery + (now' - cache.lastRead)
      <4>1. Unread /\ file # <<>>
        BY <3>4, <2>1, <1>4, <1>5 DEF Unread
      <4>2. file[1].age \in Nat /\ file'[1].age <= file[1].age + 1 /\ file'[1].age \in Nat
        BY <4>1, <1>4 DEF FileInv
      <4>3. CASE ~set
        <5>1. file[1].age <= now - cache.lastRead
          BY <4>1, <4>3 DEF ReadInv
        <5> QED
          BY <5>1, <4>2, <4>3, <3>1, <1>9
      <4>4. CASE set
        <5>1. \/ file[1].age < RefreshEvery
              \/ file[1].age <= RefreshEvery + (now - cache.lastRead)
          BY <4>1, <4>4 DEF ReadInv
        <5>2. file'[1].age <= RefreshEvery + (now' - cache.lastRead)
          BY <5>1, <4>2, <3>1, <1>9, <1>7
        <5> QED
          BY <5>2, <4>4
      <4> QED
        BY <4>3, <4>4 DEF TimeInv
    <3> QED
      BY <1>9, <2>1, <3>2, <3>3, <3>4 DEF ReadInv
  <2> QED
    BY <1>3, <1>6, <2>2, <2>3
<1>8. CASE ~(now + 1 >= cache.lastRead /\ now + 1 - cache.lastRead < RefreshEvery)
  <2> DEFINE read == ReadFrom(file, opened)
  <2>1. cache' = [lastRead |-> now + 1, opened |-> opened, volumes |-> read]
    BY <1>0, <1>1, <1>8 DEF Refresh
  <2>2. Good(Physical, read)
    BY DEF FileInv, Good, NoVolumes, ReadFrom
  <2>3. file # <<>> /\ opened /\ file'[1].readable => read = file'[1].volumes
    BY <1>4 DEF ReadFrom
  <2> HIDE DEF read
  <2>4. cache'.lastRead = now' /\ cache'.opened = opened /\ cache'.volumes = read
    BY <1>9, <2>1
  <2>5. CacheInv'
    BY <1>9, <1>2, <2>1, <2>2, <2>4 DEF CacheInv, TimeInv
  <2>6. ~Unread'
    BY <2>3, <2>4, <1>5 DEF Unread
  <2>7. ReadInv'
    <3>1. now' \in Nat /\ now' - now' = 0 /\ 0 < RefreshEvery
      BY <1>0, <1>9
    <3>2. now' <= now'
      BY <3>1
    <3>3. now' - cache'.lastRead = 0 /\ cache'.lastRead <= now'
      BY <2>4, <3>1, <3>2, Zenon
    <3> QED
      BY <3>1, <3>3, <2>6 DEF ReadInv
  <2> QED
    BY <1>3, <1>6, <2>5, <2>7
<1> QED
  BY <1>7, <1>8

\* The wait begins anew, once.
LEMMA SetBackKeeps ==
  ASSUME IInv, NEW by \in SetBacks, SetBack(by) PROVE IInv'
<1> USE Times DEF IInv
<1>1. /\ set = FALSE /\ set' = TRUE /\ now' = now - by /\ by < now
      /\ UNCHANGED <<host, run, file, cache>>
  BY DEF SetBack, TimeInv
<1>2. Physical' = Physical
  BY <1>1 DEF Physical
<1>3. now' \in Nat /\ now' <= now
  BY <1>1 DEF TimeInv
<1>4. TimeInv' /\ RunInv'
  BY <1>1, <1>3 DEF TimeInv, RunInv
<1>5. FileInv' /\ CacheInv'
  BY <1>1, <1>2 DEF FileInv, CacheInv
<1>6. cache # FreshCache => now' - cache.lastRead < RefreshEvery
  BY <1>3 DEF ReadInv, CacheInv, TimeInv
<1>7. Unread => file[1].age < RefreshEvery
  BY <1>1 DEF ReadInv, CacheInv, TimeInv, FileInv, Unread
<1>8. ReadInv'
  BY <1>1, <1>6, <1>7 DEF ReadInv, Unread
<1> QED
  BY <1>4, <1>5, <1>8

\* So does a restart.
LEMMA RestartKeeps ==
  ASSUME IInv, NEW boot \in BOOLEAN, Restart(boot) PROVE IInv'
<1> USE DEF IInv
<1>1. /\ cache' = FreshCache /\ UNCHANGED <<host, now, set>>
      /\ (run' = <<>> /\ file' = <<>>) \/ UNCHANGED <<run, file>>
  BY DEF Restart
<1>2. Physical' = Physical
  BY <1>1 DEF Physical
<1>3. TimeInv' /\ RunInv'
  BY <1>1 DEF TimeInv, RunInv
<1>4. FileInv'
  BY <1>1, <1>2 DEF FileInv
<1>5. CacheInv' /\ cache'.lastRead = 0
  BY <1>1 DEF CacheInv, FreshCache, NoVolumes, Good
<1>6. ReadInv'
  BY <1>1, <1>3, <1>5 DEF ReadInv, Unread, TimeInv
<1> QED
  BY <1>3, <1>4, <1>5, <1>6

\* So does every step.
LEMMA NextKeeps == IInv /\ [Next]_vars => IInv'
<1> SUFFICES ASSUME IInv, [Next]_vars PROVE IInv'
  OBVIOUS
<1>1. CASE BeginRun
  BY <1>1, BeginRunKeeps
<1>2. CASE \E answer \in UNION Range(Answers) : Check(answer)
  BY <1>2, CheckKeeps
<1>3. CASE Publish
  BY <1>3, PublishKeeps
<1>4. CASE Abandon
  BY <1>4, AbandonKeeps
<1>5. CASE Tick
  BY <1>5, TickKeeps
<1>6. CASE \E by \in SetBacks : SetBack(by)
  BY <1>6, SetBackKeeps
<1>7. CASE \E boot \in BOOLEAN : Restart(boot)
  BY <1>7, RestartKeeps
<1>8. CASE UNCHANGED vars
  <2>1. RunInv' /\ UNCHANGED <<host, real, now, set, file, cache>>
    BY <1>8 DEF vars, IInv, RunInv
  <2> QED
    BY <2>1, HelperStepKeeps
<1> QED
  BY <1>1, <1>2, <1>3, <1>4, <1>5, <1>6, <1>7, <1>8 DEF Next

(***************************************************************************)
(* The inductive invariant: of every volume the file and the cache tell no *)
(* more good and no less bad than its devices were found in, and a file    *)
(* lies unread no longer than the waits before and after the clock is set  *)
(* back.                                                                   *)
(***************************************************************************)
THEOREM Inductive == Spec => []IInv
<1> QED
  BY InitKeeps, NextKeeps, PTL DEF Spec

(***************************************************************************)
(* What is told of a volume is what the cache has, or that it is stale.    *)
(***************************************************************************)
LEMMA ToldIsCached ==
  ASSUME IInv, NEW health \in Told, health.state = "passed"
  PROVE  /\ \E n \in DOMAIN cache.volumes : health = cache.volumes[n]
         /\ now - health.checked <= StaleAfter
<1> USE Times
<1>1. PICK n : Lookup(n, now) # <<>> /\ health = Lookup(n, now)[1]
  BY DEF Told, DiskInfoData
<1>2. n \in DOMAIN cache.volumes
  BY <1>1 DEF Lookup
<1> DEFINE h == cache.volumes[n]
           old == \/ h.checked <= 0
                  \/ h.checked > now + Skew
                  \/ now - h.checked > StaleAfter
<1>3. h = [state |-> h.state, checked |-> h.checked, of |-> h.of] /\ h.checked \in Nat
  BY <1>2 DEF IInv, CacheInv, Good, GoodHealth
<1>4. health = IF old THEN [h EXCEPT !.state = "stale"] ELSE h
  BY <1>1, <1>2 DEF Lookup
<1>5. ~old
  <2> SUFFICES ASSUME old PROVE FALSE
    OBVIOUS
  <2>1. health = [h EXCEPT !.state = "stale"]
    BY <1>4
  <2> HIDE DEF h, old
  <2>2. health.state = "stale"
    BY <2>1, <1>3
  <2> QED
    BY <2>2
<1>6. health = h
  BY <1>4, <1>5
<1>7. now - h.checked <= StaleAfter
  BY <1>5, <1>3 DEF IInv, TimeInv
<1> QED
  BY <1>2, <1>6, <1>7

(***************************************************************************)
(* A disk said to have passed has devices, all passed their check, and not *)
(* too long ago: for every topology and everything a device may answer.    *)
(***************************************************************************)
THEOREM PassedIsAlwaysChecked == Spec => []PassedIsChecked
<1>1. IInv => PassedIsChecked
  <2> SUFFICES ASSUME IInv, NEW health \in Told, health.state = "passed"
               PROVE  /\ DOMAIN health.of # {}
                      /\ \A d \in DOMAIN health.of :
                            /\ d \in Physical
                            /\ health.of[d].state = "passed"
                            /\ now - health.of[d].checked <= StaleAfter
    BY DEF PassedIsChecked
  <2>1. PICK n \in DOMAIN cache.volumes : health = cache.volumes[n]
    BY ToldIsCached
  <2>2. now - health.checked <= StaleAfter
    BY ToldIsCached
  <2>3. GoodHealth(Physical, health)
    BY <2>1 DEF IInv, CacheInv, Good
  <2>4. /\ DOMAIN health.of # {}
        /\ \A d \in DOMAIN health.of : /\ d \in Physical
                                       /\ health.of[d].state = "passed"
                                       /\ health.checked <= health.of[d].checked
                                       /\ health.of[d].checked \in Nat
    BY <2>3 DEF GoodHealth
  <2>5. now \in Nat /\ health.checked \in Nat
    BY <2>3 DEF IInv, TimeInv, GoodHealth
  <2> QED
    BY <2>2, <2>4, <2>5, Times
<1> QED
  BY <1>1, Inductive, PTL

(***************************************************************************)
(* A failure in a file the server can read and open is told within twice   *)
(* the time between two readings, or called too old, for every such time   *)
(* and every step the clock is set back by.                                *)
(***************************************************************************)
THEOREM FailureIsAlwaysTold == Spec => []FailureIsTold
<1>1. IInv => FailureIsTold
  <2> SUFFICES ASSUME IInv, file # <<>>, file[1].age = ReadWithin, file[1].readable,
                      cache # FreshCache, cache.opened,
                      NEW n \in DOMAIN file[1].volumes,
                      NEW d \in DOMAIN file[1].volumes[n].of,
                      file[1].volumes[n].of[d].state = "failed"
               PROVE  Lookup(n, now) # <<>> /\ Lookup(n, now)[1].state \in {"failed", "stale"}
    BY DEF FailureIsTold
  <2>1. ~Unread
    <3> SUFFICES ASSUME Unread PROVE FALSE
      OBVIOUS
    <3>1. now - cache.lastRead < RefreshEvery
      BY DEF IInv, ReadInv
    <3>2. now \in Nat /\ cache.lastRead \in Nat
      BY DEF IInv, TimeInv, CacheInv
    <3>3. CASE set
      BY <3>1, <3>2, <3>3, Times DEF IInv, ReadInv
    <3>4. CASE ~set
      BY <3>1, <3>2, <3>4, Times DEF IInv, ReadInv
    <3> QED
      BY <3>3, <3>4
  <2>2. cache.volumes = file[1].volumes
    BY <2>1 DEF Unread
  <2> DEFINE h == cache.volumes[n]
  <2>3. GoodHealth(Physical, h) /\ h.state = "failed"
    <3>1. Good(Physical, cache.volumes)
      BY DEF IInv, CacheInv
    <3>2. GoodHealth(Physical, h) /\ h = file[1].volumes[n]
      BY <2>2, <3>1 DEF Good
    <3> HIDE DEF h
    <3> QED
      BY <3>2 DEF GoodHealth
  <2>4. Lookup(n, now) \in {<<h>>, <<[h EXCEPT !.state = "stale"]>>}
    BY <2>2 DEF Lookup
  <2> HIDE DEF h
  <2>5. [h EXCEPT !.state = "stale"].state = "stale"
    BY <2>3 DEF GoodHealth
  <2>6. CASE Lookup(n, now) = <<h>>
    <3>1. Lookup(n, now) # <<>> /\ Lookup(n, now)[1] = h
      BY <2>6
    <3> QED
      BY <2>3, <3>1
  <2>7. CASE Lookup(n, now) = <<[h EXCEPT !.state = "stale"]>>
    <3> DEFINE late == [h EXCEPT !.state = "stale"]
    <3>1. Lookup(n, now) = <<late>> /\ late.state = "stale"
      BY <2>5, <2>7
    <3> HIDE DEF late
    <3>2. Lookup(n, now) # <<>> /\ Lookup(n, now)[1] = late
      BY <3>1
    <3> QED
      BY <3>1, <3>2
  <2> QED
    BY <2>4, <2>6, <2>7
<1> QED
  BY <1>1, Inductive, PTL

-----------------------------------------------------------------------------
(***************************************************************************)
(* The reply about the devices is made one path after the other: f holds   *)
(* what is in it after each.                                               *)
(***************************************************************************)
Emits(f, paths, V) ==
    /\ f \in [0 .. Len(paths) -> Seq(V)]
    /\ f[0] = <<>>
    /\ \A n \in 1 .. Len(paths) :
          f[n] = IF paths[n] \in ToSet(f[n - 1]) THEN f[n - 1] ELSE Append(f[n - 1], paths[n])

\* It can be made, for any paths of any disks.
LEMMA ReplyIsMade ==
  ASSUME NEW disks, NEW children, NEW V, DevicePaths(Asked(disks, children)) \in Seq(V)
  PROVE  \E f : /\ Emits(f, DevicePaths(Asked(disks, children)), V)
                /\ SmartData(disks, children) = f[Len(DevicePaths(Asked(disks, children)))]
<1> DEFINE paths == DevicePaths(Asked(disks, children))
           N == Len(paths)
           Put(sofar, p) == IF p \in ToSet(sofar) THEN sofar ELSE Append(sofar, p)
           F == [x \in Nat \X Seq(V) |-> IF x[1] \in 1 .. N THEN Put(x[2], paths[x[1]]) ELSE x[2]]
           All(f) == f = [n \in 0 .. N |->
                            IF n = 0 THEN <<>>
                            ELSE IF paths[n] \in ToSet(f[n - 1]) THEN f[n - 1]
                            ELSE Append(f[n - 1], paths[n])]
           emitted == CHOOSE f : All(f)
<1>1. N \in Nat /\ <<>> \in Seq(V)
  BY EmptySeq
<1>2. ASSUME NEW q \in Seq(V), NEW n \in 1 .. N PROVE Put(q, paths[n]) \in Seq(V)
  BY AppendProperties
<1>3. F \in [Nat \X Seq(V) -> Seq(V)]
  <2>1. ASSUME NEW x \in Nat \X Seq(V)
        PROVE  (IF x[1] \in 1 .. N THEN Put(x[2], paths[x[1]]) ELSE x[2]) \in Seq(V)
    <3> HIDE DEF Put, N
    <3> QED
      BY <1>2
  <2> QED
    BY <2>1
<1>4. \A n \in Nat, q \in Seq(V) : n \in 1 .. N => F[<<n, q>>] = Put(q, paths[n])
  BY <1>1
<1> HIDE DEF F, Put
<1>5. PICK g : Goes(g, Seq(V), <<>>, F, N)
  BY <1>1, <1>3, Recursion
<1>6. /\ g \in [0 .. N -> Seq(V)] /\ g[0] = <<>>
      /\ \A n \in 1 .. N : g[n] = Put(g[n - 1], paths[n])
  <2>1. \A n \in 1 .. N : n \in Nat /\ n - 1 \in 0 .. N
    BY <1>1
  <2> QED
    BY <1>5, <1>4, <2>1 DEF Goes
<1>7. All(g)
  <2>1. ASSUME NEW n \in 0 .. N
        PROVE  g[n] = IF n = 0 THEN <<>> ELSE Put(g[n - 1], paths[n])
    <3>1. n = 0 \/ n \in 1 .. N
      BY <1>1
    <3>2. n \in 1 .. N => n # 0
      BY <1>1
    <3> QED
      BY <1>6, <3>1, <3>2, Zenon
  <2>2. \A n \in 0 .. N :
           g[n] = IF n = 0 THEN <<>>
                  ELSE IF paths[n] \in ToSet(g[n - 1]) THEN g[n - 1]
                  ELSE Append(g[n - 1], paths[n])
    BY <2>1, Zenon DEF Put
  <2> QED
    BY <1>6, <2>2
<1>8. All(emitted)
  BY <1>7
<1>9. SmartData(disks, children) = emitted[N]
  BY Zenon DEF SmartData
<1> HIDE DEF emitted
<1>10. Emits(emitted, paths, V)
  <2>1. /\ emitted[0] = <<>>
        /\ \A n \in 1 .. N : emitted[n] = Put(emitted[n - 1], paths[n])
    <3>1. \A n \in 0 .. N :
             emitted[n] = IF n = 0 THEN <<>> ELSE Put(emitted[n - 1], paths[n])
      BY <1>8, Zenon DEF Put
    <3>2. 0 \in 0 .. N /\ \A n \in 1 .. N : n \in 0 .. N /\ n # 0
      BY <1>1
    <3> QED
      BY <3>1, <3>2, Zenon
  <2>2. \A n \in 1 .. N : emitted[n - 1] \in Seq(V) => emitted[n] = F[<<n, emitted[n - 1]>>]
    BY <1>4, <2>1
  <2>3. Agrees(emitted, g, N)
    BY <1>1, <1>5, <2>1, <2>2, RecursionOnce
  <2>4. emitted \in [0 .. N -> Seq(V)]
    <3>1. DOMAIN emitted = 0 .. N /\ emitted = [n \in 0 .. N |-> emitted[n]]
      BY <1>8
    <3>2. \A n \in 0 .. N : emitted[n] \in Seq(V)
      BY <1>6, <2>3 DEF Agrees
    <3> QED
      BY <3>1, <3>2
  <2> QED
    BY <2>1, <2>4 DEF Emits, Put
<1> QED
  BY <1>9, <1>10

\* What was emitted after the n-th path: each of the paths so far, once.
SoFar(q, paths, n, V) ==
    /\ q \in Seq(V)
    /\ Once(q)
    /\ Range(q) = {paths[k] : k \in 1 .. n}

\* The reply has each path once.
LEMMA ReplyIsOnce ==
  ASSUME NEW disks, NEW children, NEW V, DevicePaths(Asked(disks, children)) \in Seq(V)
  PROVE  SoFar(SmartData(disks, children), DevicePaths(Asked(disks, children)),
               Len(DevicePaths(Asked(disks, children))), V)
<1> DEFINE paths == DevicePaths(Asked(disks, children))
           N == Len(paths)
<1> HIDE DEF paths
<1>1. PICK f : Emits(f, paths, V) /\ SmartData(disks, children) = f[N]
  BY ReplyIsMade DEF paths
<1>2. N \in Nat /\ \A n \in 1 .. N : paths[n] \in V
  BY DEF paths
<1> DEFINE Good1 == {n \in Nat : n <= N => SoFar(f[n], paths, n, V)}
<1>3. 0 \in Good1
  <2>1. <<>> \in Seq(V) /\ Once(<<>>) /\ Range(<<>>) = {}
    BY EmptySeq DEF Once, Range
  <2>2. {paths[k] : k \in 1 .. 0} = {}
    OBVIOUS
  <2>3. f[0] = <<>>
    BY <1>1 DEF Emits
  <2> QED
    BY <2>1, <2>2, <2>3 DEF SoFar
<1>4. ASSUME NEW n \in Nat, n \in Good1 PROVE n + 1 \in Good1
  <2> SUFFICES ASSUME n + 1 <= N PROVE SoFar(f[n + 1], paths, n + 1, V)
    OBVIOUS
  <2> DEFINE q == f[n]
             p == paths[n + 1]
  <2>1. n + 1 \in 1 .. N /\ (n + 1) - 1 = n
    BY <1>2
  <2>2. f[n + 1] = IF p \in ToSet(q) THEN q ELSE Append(q, p)
    BY <1>1, <2>1 DEF Emits
  <2>3. q \in Seq(V) /\ Once(q) /\ Range(q) = {paths[k] : k \in 1 .. n}
    BY <1>4, <2>1, <1>2 DEF SoFar
  <2>4. p \in V
    BY <1>2, <2>1
  <2>5. {paths[k] : k \in 1 .. n + 1} = {paths[k] : k \in 1 .. n} \cup {p}
    <3>1. 1 .. n + 1 = (1 .. n) \cup {n + 1}
      OBVIOUS
    <3> QED
      BY <3>1
  <2> HIDE DEF q, p
  <2>6. ToSet(q) = Range(q)
    BY DEF ToSet, Range
  <2>7. CASE p \in ToSet(q)
    BY <2>2, <2>3, <2>5, <2>6, <2>7 DEF SoFar
  <2>8. CASE p \notin ToSet(q)
    <3>1. Append(q, p) \in Seq(V) /\ Once(Append(q, p))
      BY <2>3, <2>4, <2>6, <2>8, OnceAppend, AppendProperties
    <3>2. Range(Append(q, p)) = Range(q) \cup {p}
      <4>1. Append(q, p) = q \o <<p>> /\ <<p>> \in Seq(V)
        BY <2>3, <2>4, AppendIsConcat
      <4>2. Range(<<p>>) = {p}
        BY DEF Range
      <4>3. Range(q \o <<p>>) = Range(q) \cup Range(<<p>>)
        BY <2>3, <4>1, RangeConcatenation, ZenonT(30)
      <4> QED
        BY <4>1, <4>2, <4>3
    <3> QED
      BY <2>2, <2>3, <2>5, <2>8, <3>1, <3>2 DEF SoFar
  <2> QED
    BY <2>7, <2>8
<1> HIDE DEF Good1
<1>5. N \in Good1
  BY <1>2, <1>3, <1>4, NatSetInduction
<1> QED
  BY <1>1, <1>2, <1>5 DEF Good1, paths

-----------------------------------------------------------------------------
\* The path a disk's device is answered by.
PathOf(d) == DevicePathForBSD(PhysicalBSDForPartition(d))

\* The paths of some disks are those of each whose name tells its device.
LEMMA PathsOfDisks ==
  ASSUME NEW T, NEW disks \in Seq(T)
  PROVE  /\ DevicePaths(disks) \in Seq({PathOf(d) : d \in T})
         /\ \A d \in Range(disks) : PhysicalBSDForPartition(d) # "" =>
               PathOf(d) \in {DevicePaths(disks)[k] : k \in 1 .. Len(DevicePaths(disks))}
<1> DEFINE V == {PathOf(d) : d \in T}
           S == {d \in ToSet(disks) : PhysicalBSDForPartition(d) # ""}
           told == Only(disks, S)
           paths == DevicePaths(disks)
<1>1. told \in Seq(T) /\ Range(told) = Range(disks) \cap S
  BY OnlyType, OnlyElements
<1>2. told \in Seq(T)
  BY <1>1
<1>3. paths = [i \in DOMAIN told |-> PathOf(told[i])]
  BY DEF DevicePaths, PathOf
<1> HIDE DEF told, paths
<1>4. paths \in Seq(V) /\ Len(paths) = Len(told) /\ \A k \in 1 .. Len(told) : paths[k] = PathOf(told[k])
  <2>1. Len(told) \in Nat /\ DOMAIN told = 1 .. Len(told) /\ \A k \in 1 .. Len(told) : told[k] \in T
    BY <1>2
  <2>2. \A k \in 1 .. Len(told) : PathOf(told[k]) \in V
    BY <2>1
  <2>3. paths \in [1 .. Len(told) -> V]
    BY <1>3, <2>1, <2>2
  <2> HIDE DEF V
  <2>4. paths \in Seq(V) /\ Len(paths) = Len(told)
    BY <2>1, <2>3
  <2> QED
    BY <1>3, <2>1, <2>4
<1>5. ASSUME NEW d \in Range(disks), PhysicalBSDForPartition(d) # ""
      PROVE  PathOf(d) \in {paths[k] : k \in 1 .. Len(paths)}
  <2>1. d \in S
    BY <1>5 DEF ToSet, Range
  <2>2. d \in Range(told)
    BY <1>1, <2>1
  <2>3. PICK k \in 1 .. Len(told) : d = told[k]
    BY <1>1, <2>2, RangeEquality
  <2> QED
    BY <1>4, <2>3
<1> QED
  BY <1>4, <1>5 DEF paths

\* The disks asked for are some of those there are.
LEMMA AskedAreMounted ==
  ASSUME NEW T, NEW disks \in Seq(T), NEW children
  PROVE  /\ Asked(disks, children) \in Seq(T)
         /\ \A d \in T : d \in Range(Asked(disks, children)) <=>
               d \in Range(disks) /\ d.active /\ \E i \in DOMAIN children : Requested(d, children[i])
<1> DEFINE S == {d \in ToSet(disks) :
                   d.active /\ \E i \in DOMAIN children : Requested(d, children[i])}
<1>1. Asked(disks, children) = Only(disks, S)
  BY DEF Asked
<1>2. ToSet(disks) = Range(disks)
  BY DEF ToSet, Range
<1>3. \A d : d \in S <=> /\ d \in Range(disks) /\ d.active
                         /\ \E i \in DOMAIN children : Requested(d, children[i])
  BY <1>2
<1> HIDE DEF S
<1> QED
  <2>1. Only(disks, S) \in Seq(T) /\ Range(Only(disks, S)) = Range(disks) \cap S
    BY OnlyType, OnlyElements
  <2> QED
    BY <1>1, <1>3, <2>1, Zenon

\* By whatever name a client asks: each device once, and each that it asks for.
LEMMA EachDeviceOnce == ASSUME NEW keys \in AskedBy PROVE keys \in AnsweredOnce
<1> DEFINE T == ToSet(Mounted)
           asked == Asked(Mounted, <<keys>>)
           reply == SmartData(Mounted, <<keys>>)
           paths == DevicePaths(asked)
           V == {PathOf(d) : d \in T}
<1>1. Mounted \in Seq(T)
  BY SmartHealthAssumption
<1> HIDE DEF T
<1>2. asked \in Seq(T)
  BY <1>1, AskedAreMounted
<1>3. /\ paths \in Seq(V)
      /\ \A d \in Range(asked) : PhysicalBSDForPartition(d) # "" =>
            PathOf(d) \in {paths[k] : k \in 1 .. Len(paths)}
  <2> HIDE DEF asked
  <2> QED
    BY <1>2, PathsOfDisks
<1> HIDE DEF V
<1>4. SoFar(reply, paths, Len(paths), V)
  BY <1>3, ReplyIsOnce
<1> HIDE DEF reply, asked, paths
<1>5. \A i, j \in DOMAIN reply : reply[i] = reply[j] => i = j
  BY <1>4 DEF SoFar, Once
<1>6. Range(reply) = ToSet(reply) /\ Range(asked) = ToSet(asked)
  BY DEF Range, ToSet
<1>7. \A d \in ToSet(asked) : PhysicalBSDForPartition(d) # "" => PathOf(d) \in ToSet(reply)
  BY <1>3, <1>4, <1>6 DEF SoFar
<1> QED
  BY <1>5, <1>7 DEF AnsweredOnce, PathOf, reply, asked

\* Who asks for all the disks is answered each that is active, once.
LEMMA EachDiskOnce ==
  /\ \A i, j \in DOMAIN DiskInfoData(Mounted, <<{}>>, now) :
        DiskInfoData(Mounted, <<{}>>, now)[i].key = DiskInfoData(Mounted, <<{}>>, now)[j].key
            => i = j
  /\ \A d \in ToSet(Mounted) : d.active =>
        \E i \in DOMAIN DiskInfoData(Mounted, <<{}>>, now) :
            DiskInfoData(Mounted, <<{}>>, now)[i].key = d.key
<1> DEFINE T == ToSet(Mounted)
           asked == Asked(Mounted, <<{}>>)
           info == DiskInfoData(Mounted, <<{}>>, now)
<1>1. Mounted \in Seq(T) /\ Len(Mounted) \in Nat /\ DOMAIN Mounted = 1 .. Len(Mounted)
  BY SmartHealthAssumption
<1>2. \A i, j \in 1 .. Len(Mounted) : Mounted[i].key = Mounted[j].key => i = j
  BY <1>1, SmartHealthAssumption
<1>3. T = {Mounted[i] : i \in 1 .. Len(Mounted)} /\ T = Range(Mounted)
  BY <1>1 DEF ToSet, Range
<1> HIDE DEF T
<1>4. Once(Mounted) /\ \A d, e \in T : d.key = e.key => d = e
  BY <1>2, <1>3 DEF Once
<1>5. /\ asked \in Seq(T)
      /\ \A d \in T : d \in Range(asked) <=> d.active
  <2>1. /\ asked \in Seq(T)
        /\ \A d \in T : d \in Range(asked) <=>
              d \in Range(Mounted) /\ d.active /\ \E i \in DOMAIN <<{}>> : Requested(d, <<{}>>[i])
    BY <1>1, AskedAreMounted
  <2>2. \A d : \E i \in DOMAIN <<{}>> : Requested(d, <<{}>>[i])
    <3>1. \A d : Requested(d, {})
      BY DEF Requested
    <3>2. 1 \in DOMAIN <<{}>> /\ <<{}>>[1] = {}
      OBVIOUS
    <3> QED
      BY <3>1, <3>2
  <2> QED
    BY <1>3, <2>1, <2>2
<1>6. Once(asked)
  BY <1>1, <1>4, OnlyOnce DEF Asked
<1>7. DOMAIN info = DOMAIN asked /\ \A i \in DOMAIN asked : info[i].key = asked[i].key
  BY DEF DiskInfoData
<1> HIDE DEF asked, info
<1>8. DOMAIN asked = 1 .. Len(asked) /\ \A i \in 1 .. Len(asked) : asked[i] \in T
  BY <1>5
<1>9. \A i, j \in DOMAIN info : info[i].key = info[j].key => i = j
  BY <1>4, <1>6, <1>7, <1>8 DEF Once
<1>10. ASSUME NEW d \in T, d.active PROVE \E i \in DOMAIN info : info[i].key = d.key
  <2>1. PICK i \in DOMAIN asked : d = asked[i]
    BY <1>5, <1>10 DEF Range
  <2> QED
    BY <1>7, <2>1
<1> QED
  BY <1>9, <1>10 DEF info, T

(***************************************************************************)
(* A device is answered once by whatever name it is asked for, and every   *)
(* active disk once: for any disks with a key each, in any order, several  *)
(* of them on one device.                                                  *)
(***************************************************************************)
THEOREM DevicesAlwaysAnsweredOnce == Spec => []DevicesAnsweredOnce
<1>1. DevicesAnsweredOnce
  <2>1. AskedBy \subseteq AnsweredOnce
    BY EachDeviceOnce
  <2> QED
    BY <2>1, EachDiskOnce DEF DevicesAnsweredOnce
<1> QED
  BY <1>1, PTL

-----------------------------------------------------------------------------
(***************************************************************************)
(* The kinds that count, and what a reading of them is.                    *)
(***************************************************************************)
Counting == {"network", "diskactivity"}

Reading(k) ==
    IF k = "network" THEN [up : Nat, down : Nat] ELSE [r : Nat, w : Nat]

\* Over the seconds no counter grows by more than Unit in each.
SystemInv ==
    /\ kind \in Counting =>
          /\ system \in Reading(kind)
          /\ \A f \in Fields : system[CounterOf[f]] <= (1 + clock - Epoch) * Unit
    /\ kind = "power" => system \in [energy : Nat]

ClockInv ==
    /\ clock \in Nat
    /\ Epoch <= clock
    /\ clock = Epoch \/ clock <= LastTime

StartedInv ==
    /\ started = [time |-> started.time, fresh |-> started.fresh, latest |-> started.latest,
                  again |-> started.again, first |-> started.first, told |-> started.told,
                  sampled |-> started.sampled]
    /\ started.first # <<>> => started.first = <<started.first[1]>>
    /\ made \in BOOLEAN

(***************************************************************************)
(* The reading kept is the latest one, and what was told is what was       *)
(* counted up to it.                                                       *)
(***************************************************************************)
CountedFrom(first, latest, told) ==
    \A f \in Fields :
        LET c == CounterOf[f]
        IN  /\ first[c] \in Nat /\ latest[c] \in Nat /\ told[f] \in Nat
            /\ first[c] <= latest[c]
            /\ latest[c] <= system[c]
            /\ told[f] <= latest[c] - first[c]
            /\ first[c] # 0 => told[f] = latest[c] - first[c]

CountInv ==
    kind \in Counting /\ up =>
        IF started.first = <<>>
        THEN last = NoReading[kind] /\ started.told = [f \in Fields |-> 0]
        ELSE /\ last = started.latest
             /\ ~started.again =>
                   CountedFrom(started.first[1], started.latest, started.told)

(***************************************************************************)
(* The energy kept is what was shown when the latest sample was taken;     *)
(* from then on no more was spent than a counter can hold.                 *)
(***************************************************************************)
EnergyFrom(first, latest, told) ==
    /\ first \in Nat /\ latest \in Nat
    /\ latest <= system.energy
    /\ system.energy <= latest + 2 * (clock - started.sampled)
    /\ told = Unit * (latest - first - Wraps(first, latest))

EnergyInv ==
    kind = "power" /\ up =>
        IF ~made THEN started.first = <<>>
        ELSE /\ started.first # <<>>
             /\ started.sampled \in Nat
             /\ Epoch <= started.sampled /\ started.sampled <= clock
             /\ last = [energy |-> EnergyShown(started.latest.energy),
                        time   |-> started.sampled]
             /\ EnergyFrom(started.first[1].energy, started.latest.energy,
                           started.told.value)

SamplesInv == ClockInv /\ SystemInv /\ StartedInv /\ CountInv /\ EnergyInv

-----------------------------------------------------------------------------
\* The difference of two readings of a counter that did not go round.
LEMMA UnsignedOfMore ==
    ASSUME NEW a \in Nat, NEW b \in Nat, b <= a, a < Word
    PROVE  Unsigned(a, b) = a - b
<1>1. a - b \in 0 .. (Word - 1) /\ Word \in Nat \ {0}
  BY MeasuresAssumption
<1> QED
  BY <1>1 DEF Unsigned

\* The watts of some seconds, times the seconds, are what was spent.
LEMMA WattsAreWhole ==
    ASSUME NEW delta \in Nat, NEW seconds \in Nat \ {0}, Unit % seconds = 0
    PROVE  ((delta * Unit) \div seconds) * seconds = delta * Unit
<1> DEFINE share == Unit \div seconds
<1>1. Unit \in Nat
  BY MeasuresAssumption
<1>2. share \in Int /\ Unit = share * seconds
  BY <1>1
<1> HIDE DEF share
<1>3. delta * Unit = (delta * share) * seconds /\ delta * share \in Int
  BY <1>1, <1>2
<1> DEFINE all == delta * share
<1>4. all \in Int /\ delta * Unit = all * seconds
  BY <1>3
<1> HIDE DEF all
<1>5. (all * seconds) \div seconds = all
  BY <1>4
<1> QED
  BY <1>4, <1>5

(***************************************************************************)
(* What is shown of a counter that went round is what was spent, but for   *)
(* the one unit that the range does not count.                             *)
(***************************************************************************)
Spent(from, to) ==
    LET behind == EnergyShown(to) - EnergyShown(from)
    IN  IF behind < 0 /\ EnergyRange > 0 THEN behind + EnergyRange ELSE behind

LEMMA SpentButForWraps ==
    ASSUME NEW from \in Nat, NEW to \in Nat, from <= to, to <= from + EnergyRange
    PROVE  /\ Spent(from, to) = to - from - Wraps(from, to)
           /\ Spent(from, to) \in Nat
           /\ Wraps(from, to) \in Int
<1> DEFINE round == EnergyRange + 1
           qf == from \div round
           qt == to \div round
           rf == from % round
           rt == to % round
<1>1. EnergyRange \in Nat \ {0} /\ round \in Nat \ {0}
  BY SamplesAssumption
<1>2. /\ qf \in Int /\ qt \in Int /\ rf \in 0 .. EnergyRange /\ rt \in 0 .. EnergyRange
      /\ from = round * qf + rf /\ to = round * qt + rt
  BY <1>1
<1>3. EnergyShown(from) = rf /\ EnergyShown(to) = rt /\ Wraps(from, to) = qt - qf
  BY DEF EnergyShown, Wraps
<1> HIDE DEF qf, qt, rf, rt, round
<1>4. round = EnergyRange + 1
  BY DEF round
<1> DEFINE w == qt - qf
<1>5. w \in Int /\ round * w = (to - from) - (rt - rf)
  BY <1>1, <1>2
<1> HIDE DEF w
<1>6. w < 2 /\ w > -1
  <2>1. CASE w >= 2
    <3>1. round * w >= round * 2
      BY <2>1, <1>1, <1>5
    <3> QED
      BY <3>1, <1>1, <1>2, <1>4, <1>5
  <2>2. CASE w <= -1
    <3>1. round * w <= -round
      BY <2>2, <1>1, <1>5
    <3> QED
      BY <3>1, <1>1, <1>2, <1>4, <1>5
  <2> QED
    BY <2>1, <2>2, <1>5
<1>7. CASE w = 0
  <2>1. rt - rf = to - from
    BY <1>7, <1>1, <1>2, <1>5
  <2> QED
    BY <2>1, <1>1, <1>2, <1>3, <1>7, <1>5 DEF Spent, w
<1>8. CASE w = 1
  <2>1. rt - rf = (to - from) - (EnergyRange + 1)
    BY <1>8, <1>1, <1>2, <1>5, <1>4
  <2>2. rt - rf < 0 /\ EnergyRange > 0
    BY <2>1, <1>1
  <2>3. Spent(from, to) = rt - rf + EnergyRange
    BY <2>2, <1>3 DEF Spent
  <2> QED
    BY <2>1, <2>3, <1>1, <1>2, <1>3, <1>8 DEF w
<1> QED
  BY <1>5, <1>6, <1>7, <1>8

\* Going round is counted from any reading to any later one.
LEMMA WrapsAdd ==
    ASSUME NEW first \in Nat, NEW from \in Nat, NEW to \in Nat
    PROVE  /\ Wraps(first, from) \in Int /\ Wraps(from, to) \in Int
           /\ Wraps(first, to) = Wraps(first, from) + Wraps(from, to)
           /\ Wraps(first, first) = 0
<1> DEFINE Rounds(e) == e \div (EnergyRange + 1)
<1>1. Rounds(first) \in Int /\ Rounds(from) \in Int /\ Rounds(to) \in Int
  BY SamplesAssumption
<1>2. \A a, b : Wraps(a, b) = Rounds(b) - Rounds(a)
  BY DEF Wraps
<1> HIDE DEF Rounds
<1> QED
  BY <1>1, <1>2

-----------------------------------------------------------------------------
\* The counters of a kind.
LEMMA TheCounters ==
    /\ kind = "network" => /\ Fields = {"u", "d"}
                           /\ CounterOf["u"] = "up" /\ CounterOf["d"] = "down"
    /\ kind = "diskactivity" => /\ Fields = {"r", "w"}
                                /\ CounterOf["r"] = "r" /\ CounterOf["w"] = "w"
    /\ kind = "power" => Fields = {"value"} /\ CounterOf["value"] = "energy"
BY DEF Fields, CounterOf

\* A second later every counter has grown, by no more than Unit, or all begin anew.
LEMMA CountersGrow ==
    ASSUME kind \in Counting, system \in Reading(kind), NEW found \in Changed
    PROVE  /\ found \in Reading(kind)
           /\ \A f \in Fields : found[CounterOf[f]] <= system[CounterOf[f]] + Unit
           /\ \/ \A f \in Fields : system[CounterOf[f]] <= found[CounterOf[f]]
              \/ found = NoReading[kind]
<1>1. Unit \in Nat /\ 0 * Unit = 0 /\ 1 * Unit = Unit
  BY MeasuresAssumption
<1>2. CASE kind = "network"
  <2>1. system \in [up : Nat, down : Nat]
    BY <1>2 DEF Reading
  <2>2. \/ found = [up |-> system.up + 0 * Unit, down |-> system.down + Unit]
        \/ found = [up |-> system.up + 1 * Unit, down |-> system.down + Unit]
        \/ found = [up |-> 0, down |-> 0]
    <3>1. Changed = {[up |-> system.up + a * Unit, down |-> system.down + Unit] : a \in {0, 1}}
                       \cup {[up |-> 0, down |-> 0]}
      BY <1>2 DEF Changed
    <3> QED
      BY <3>1
  <2>3. NoReading[kind] = [up |-> 0, down |-> 0]
    BY <1>2 DEF NoReading
  <2>4. found \in [up : Nat, down : Nat]
    BY <1>1, <2>1, <2>2
  <2>5. /\ found.up <= system.up + Unit /\ found.down <= system.down + Unit
        /\ \/ system.up <= found.up /\ system.down <= found.down
           \/ found = NoReading[kind]
    BY <1>1, <2>1, <2>2, <2>3
  <2>6. found \in Reading(kind)
    BY <2>4, <1>2 DEF Reading
  <2> QED
    BY <2>5, <2>6, <1>2, TheCounters
<1>3. CASE kind = "diskactivity"
  <2>1. system \in [r : Nat, w : Nat]
    BY <1>3 DEF Reading
  <2>2. \/ found = [r |-> system.r + 0 * Unit, w |-> system.w + Unit]
        \/ found = [r |-> system.r + 1 * Unit, w |-> system.w + Unit]
        \/ found = [r |-> 0, w |-> 0]
    <3>1. Changed = {[r |-> system.r + a * Unit, w |-> system.w + Unit] : a \in {0, 1}}
                       \cup {[r |-> 0, w |-> 0]}
      BY <1>3 DEF Changed
    <3> QED
      BY <3>1
  <2>3. NoReading[kind] = [r |-> 0, w |-> 0]
    BY <1>3 DEF NoReading
  <2>4. found \in [r : Nat, w : Nat]
    BY <1>1, <2>1, <2>2
  <2>5. /\ found.r <= system.r + Unit /\ found.w <= system.w + Unit
        /\ \/ system.r <= found.r /\ system.w <= found.w
           \/ found = NoReading[kind]
    BY <1>1, <2>1, <2>2, <2>3
  <2>6. found \in Reading(kind)
    BY <2>4, <1>3 DEF Reading
  <2> QED
    BY <2>5, <2>6, <1>3, TheCounters
<1> QED
  BY <1>2, <1>3 DEF Counting

LEMMA EnergyGrows ==
    ASSUME kind = "power", system \in [energy : Nat], NEW found \in Changed
    PROVE  /\ found \in [energy : Nat]
           /\ system.energy <= found.energy
           /\ found.energy <= system.energy + 2
<1>1. found \in {[energy |-> system.energy + e] : e \in 0 .. 2}
  BY DEF Changed
<1> QED
  BY <1>1

\* What a second shows keeps to the bounds.
LEMMA SystemStep ==
    ASSUME ClockInv, SystemInv, NEW found \in Changed,
           clock < LastTime, clock' = clock + 1, system' = found, kind' = kind
    PROVE  ClockInv' /\ SystemInv'
<1>1. Unit \in Nat /\ Epoch \in Nat /\ LastTime \in Nat
  BY MeasuresAssumption, SamplesAssumption
<1>2. ClockInv'
  BY <1>1 DEF ClockInv
<1>3. ASSUME kind \in Counting
      PROVE  /\ system' \in Reading(kind)
             /\ \A f \in Fields : system'[CounterOf[f]] <= (1 + clock' - Epoch) * Unit
  <2> DEFINE sofar == (1 + clock - Epoch) * Unit
  <2>1. sofar \in Nat /\ (1 + clock' - Epoch) * Unit = sofar + Unit
    <3>1. 1 + clock - Epoch \in Nat /\ 1 + clock' - Epoch = (1 + clock - Epoch) + 1
      BY <1>1 DEF ClockInv
    <3> DEFINE n == 1 + clock - Epoch
    <3>2. n \in Nat /\ (n + 1) * Unit = n * Unit + Unit
      BY <3>1, <1>1
    <3>3. sofar = n * Unit /\ n * Unit \in Nat
      BY <3>2, <1>1
    <3> HIDE DEF sofar
    <3> QED
      BY <3>1, <3>2, <3>3
  <2>2. /\ system \in Reading(kind)
        /\ \A f \in Fields : system[CounterOf[f]] <= sofar
    BY <1>3 DEF SystemInv
  <2> HIDE DEF sofar
  <2>3. /\ found \in Reading(kind)
        /\ \A f \in Fields : found[CounterOf[f]] <= system[CounterOf[f]] + Unit
    BY <1>3, <2>2, CountersGrow
  <2>4. \A f \in Fields : system[CounterOf[f]] \in Nat /\ found[CounterOf[f]] \in Nat
    BY <1>3, <2>2, <2>3, TheCounters DEF Counting, Reading
  <2> QED
    BY <2>1, <2>2, <2>3, <2>4, <1>1
<1>4. kind = "power" => system' \in [energy : Nat]
  BY EnergyGrows DEF SystemInv
<1>5. Fields' = Fields
  BY DEF Fields
<1> QED
  BY <1>2, <1>3, <1>4, <1>5 DEF SystemInv

\* A counter never reaches what it is taken modulo of.
LEMMA CountersFit ==
    ASSUME NEW n \in Nat, n <= LastTime + 1
    PROVE  n * Unit \in Nat /\ n * Unit < Word
<1>1. Unit \in Nat /\ Word \in Nat /\ LastTime \in Nat
  BY MeasuresAssumption, SamplesAssumption
<1>2. n * Unit <= (LastTime + 1) * Unit /\ n * Unit \in Nat /\ (LastTime + 1) * Unit \in Nat
  BY <1>1
<1> QED
  BY <1>1, <1>2, CountersAssumption

-----------------------------------------------------------------------------
\* At first.
LEMMA SamplesAtFirst == SamplesInit => SamplesInv
<1> SUFFICES ASSUME SamplesInit PROVE SamplesInv
  OBVIOUS
<1>1. EnergyRange \in Nat \ {0} /\ Epoch \in Nat \ {0} /\ Unit \in Nat
  BY SamplesAssumption, MeasuresAssumption
<1>2. ClockInv
  BY <1>1 DEF SamplesInit, ClockInv
<1>3. SystemInv
  <2>1. Fresh["network"] = [up |-> 0, down |-> Unit]
    BY DEF Fresh
  <2>2. Fresh["diskactivity"] = [r |-> 0, w |-> Unit]
    BY DEF Fresh
  <2>3. Fresh["power"] = [energy |-> EnergyRange - 1]
    BY DEF Fresh
  <2>4. (1 + clock - Epoch) * Unit = Unit
    BY <1>1 DEF SamplesInit
  <2>5. system = Fresh[kind]
    BY DEF SamplesInit
  <2>6. kind = "network" => /\ system \in Reading(kind)
                            /\ \A f \in Fields : system[CounterOf[f]] <= Unit
    BY <1>1, <2>1, <2>5, TheCounters DEF Reading
  <2>7. kind = "diskactivity" => /\ system \in Reading(kind)
                                 /\ \A f \in Fields : system[CounterOf[f]] <= Unit
    BY <1>1, <2>2, <2>5, TheCounters DEF Reading
  <2>8. kind = "power" => system \in [energy : Nat]
    BY <1>1, <2>3, <2>5
  <2> QED
    BY <2>4, <2>6, <2>7, <2>8 DEF SystemInv, Counting
<1>4. StartedInv
  BY DEF SamplesInit, StartedInv
<1>5. CountInv /\ EnergyInv
  BY DEF SamplesInit, CountInv, EnergyInv
<1> QED
  BY <1>2, <1>3, <1>4, <1>5 DEF SamplesInv

-----------------------------------------------------------------------------
\* While the server is down only the system goes on.
LEMMA WaitKeeps ==
    ASSUME SamplesInv, NEW found \in Changed, Wait(found)
    PROVE  SamplesInv'
<1>1. ClockInv' /\ SystemInv'
  BY SystemStep DEF SamplesInv, Wait
<1>2. StartedInv' /\ CountInv' /\ EnergyInv'
  BY DEF SamplesInv, Wait, StartedInv, CountInv, EnergyInv
<1> QED
  BY <1>1, <1>2 DEF SamplesInv

LEMMA StopKeeps ==
    ASSUME SamplesInv, NEW saves \in BOOLEAN, Stop(saves)
    PROVE  SamplesInv'
<1>1. ClockInv'
  BY DEF SamplesInv, Stop, ClockInv
<1>2. SystemInv'
  BY DEF SamplesInv, Stop, SystemInv, Fields
<1>3. StartedInv' /\ CountInv' /\ EnergyInv'
  BY DEF SamplesInv, Stop, StartedInv, CountInv, EnergyInv
<1> QED
  BY <1>1, <1>2, <1>3 DEF SamplesInv

\* What is told begins anew with the process; the energy's first reading is kept.
LEMMA StartKeeps ==
    ASSUME SamplesInv, NEW seen \in BOOLEAN, Start(seen)
    PROVE  SamplesInv'
<1>1. ClockInv'
  BY DEF SamplesInv, Start, ClockInv
<1>2. SystemInv'
  BY DEF SamplesInv, Start, SystemInv, Fields
<1>3. started' = [time |-> clock, fresh |-> begun = 0, latest |-> system, again |-> FALSE,
                  first |-> IF seen /\ kind \in {"cpu", "power", "gpuload"}
                            THEN <<system>> ELSE <<>>,
                  told  |-> [f \in Fields |-> 0], sampled |-> clock]
  BY DEF Start
<1>4. StartedInv'
  BY <1>3 DEF StartedInv, Start
<1>5. /\ kind' = kind /\ clock' = clock /\ system' = system /\ Fields' = Fields
      /\ NoReading' = NoReading
  BY DEF Start, Fields, NoReading
<1>6. CountInv'
  <2>1. CASE kind \in Counting
    <3>1. started'.first = <<>> /\ started'.told = [f \in Fields |-> 0]
      BY <1>3, <2>1 DEF Counting
    <3>2. last' = NoReading[kind]
      BY <2>1 DEF Start, Counting
    <3> QED
      BY <3>1, <3>2, <1>5 DEF CountInv
  <2> QED
    BY <2>1, <1>5 DEF CountInv
<1>7. EnergyInv'
  <2> SUFFICES ASSUME kind = "power" PROVE EnergyInv'
    BY <1>5 DEF EnergyInv
  <2>1. made' = seen
    BY DEF Start, Single
  <2>2. CASE ~seen
    BY <2>1, <2>2, <1>3 DEF EnergyInv
  <2>3. CASE seen
    <3>1. /\ started'.first = <<system>> /\ started'.latest = system
          /\ started'.sampled = clock /\ started'.told.value = 0
      BY <1>3, <2>3, TheCounters
    <3>2. last' = Kept(system, clock)
      BY <2>3 DEF Start
    <3>3. Kept(system, clock) = [energy |-> EnergyShown(system.energy), time |-> clock]
      BY DEF Kept
    <3>4. system.energy \in Nat /\ clock \in Nat /\ Epoch <= clock
      BY DEF SamplesInv, SystemInv, ClockInv
    <3>5. Wraps(system.energy, system.energy) = 0 /\ Unit \in Nat
      BY <3>4, WrapsAdd, MeasuresAssumption
    <3>6. EnergyFrom(system.energy, system.energy, 0)'
      BY <3>1, <3>4, <3>5, <1>5 DEF EnergyFrom, Wraps
    <3> QED
      BY <2>1, <2>3, <3>1, <3>2, <3>3, <3>4, <3>6, <1>5 DEF EnergyInv, EnergyShown
  <2> QED
    BY <2>2, <2>3
<1> QED
  BY <1>1, <1>2, <1>4, <1>6, <1>7 DEF SamplesInv

-----------------------------------------------------------------------------
\* The sample of a counting collector has what was counted since the reading kept.
LEMMA MeasuredCounts ==
    ASSUME kind \in Counting, NEW found, NEW time
    PROVE  /\ Measured(found, time) # <<>>
           /\ \A f \in Fields : Measured(found, time)[1][f]
                                    = Since(found[CounterOf[f]], last[CounterOf[f]])
<1>1. CASE kind = "network"
  <2>1. Measured(found, time) = <<NetworkSample(found, last)>>
    BY <1>1 DEF Measured
  <2> QED
    BY <1>1, <2>1, TheCounters DEF NetworkSample
<1>2. CASE kind = "diskactivity"
  <2>1. Measured(found, time) = <<ActivitySample(found, last)>>
    BY <1>2 DEF Measured
  <2> QED
    BY <1>2, <2>1, TheCounters DEF ActivitySample
<1> QED
  BY <1>1, <1>2 DEF Counting

\* A second, as far as what is told goes.
LEMMA SecondTells ==
    ASSUME StartedInv, NEW found, NEW seen \in BOOLEAN, Second(found, seen)
    PROVE  LET read   == seen /\ made'
               values == IF read THEN Measured(found, clock + 1) ELSE <<>>
           IN  started' = [time    |-> started.time, fresh |-> started.fresh,
                           latest  |-> IF read THEN found ELSE started.latest,
                           again   |-> started.again \/ (/\ kind \in Counting
                                                         /\ found = NoReading[kind]),
                           first   |-> IF read /\ started.first = <<>> THEN <<found>>
                                       ELSE started.first,
                           told    |-> AddedUp(values, clock + 1),
                           sampled |-> IF values = <<>> THEN started.sampled
                                       ELSE clock + 1]
<1> DEFINE read   == seen /\ made'
           values == IF read THEN Measured(found, clock + 1) ELSE <<>>
           again  == started.again \/ (kind \in Counting /\ found = NoReading[kind])
<1>1. started' = [started EXCEPT
                     !.first   = IF read /\ @ = <<>> THEN <<found>> ELSE @,
                     !.latest  = IF read THEN found ELSE @,
                     !.again   = @ \/ (kind \in Counting /\ found = NoReading[kind]),
                     !.told    = AddedUp(values, clock + 1),
                     !.sampled = IF values = <<>> THEN @ ELSE clock + 1]
  BY DEF Second, Counting
<1> DEFINE told == AddedUp(values, clock + 1)
<1> HIDE DEF read, values, told
<1>2. started' = [started EXCEPT
                     !.first   = IF read /\ @ = <<>> THEN <<found>> ELSE @,
                     !.latest  = IF read THEN found ELSE @,
                     !.again   = again,
                     !.told    = told,
                     !.sampled = IF values = <<>> THEN @ ELSE clock + 1]
  BY <1>1 DEF told
<1> HIDE DEF again
<1>3. started' = [time    |-> started.time, fresh |-> started.fresh,
                  latest  |-> IF read THEN found ELSE started.latest,
                  again   |-> again,
                  first   |-> IF read /\ started.first = <<>> THEN <<found>>
                              ELSE started.first,
                  told    |-> told,
                  sampled |-> IF values = <<>> THEN started.sampled ELSE clock + 1]
  BY <1>2 DEF StartedInv
<1> QED
  BY <1>3 DEF read, values, told, again

\* A second of a counting collector.
LEMMA SecondCounts ==
    ASSUME SamplesInv, NEW found \in Changed, NEW seen \in BOOLEAN, Second(found, seen),
           kind \in Counting, SystemInv', ClockInv'
    PROVE  CountInv'
<1> DEFINE time   == clock + 1
           values == IF seen THEN Measured(found, time) ELSE <<>>
<1>1. /\ up /\ kind' = kind /\ Fields' = Fields /\ system' = found /\ clock' = time
      /\ NoReading' = NoReading
  BY DEF Second, Fields, NoReading
<1>2. seen => made'
  BY DEF Second, Counting, Late
<1>3. /\ started'.latest = IF seen THEN found ELSE started.latest
      /\ started'.again = (started.again \/ found = NoReading[kind])
      /\ started'.first = IF seen /\ started.first = <<>> THEN <<found>> ELSE started.first
      /\ started'.told = AddedUp(values, time)
  BY <1>2, SecondTells DEF SamplesInv
<1>4. last' = IF seen THEN found ELSE last
  <2>1. last' = IF seen THEN Kept(found, time) ELSE last
    BY <1>2 DEF Second
  <2>2. Kept(found, time) = found
    BY DEF Kept, Counting
  <2> QED
    BY <2>1, <2>2
<1>5. \A f \in Fields :
          /\ system[CounterOf[f]] \in Nat
          /\ found[CounterOf[f]] \in Nat /\ found[CounterOf[f]] < Word
          /\ found # NoReading[kind] => system[CounterOf[f]] <= found[CounterOf[f]]
  <2>1. \A f \in Fields : system[CounterOf[f]] \in Nat /\ found[CounterOf[f]] \in Nat
    BY <1>1, TheCounters, CountersGrow DEF SamplesInv, SystemInv, Counting, Reading
  <2>2. \A f \in Fields : found[CounterOf[f]] <= (1 + clock' - Epoch) * Unit
    BY <1>1 DEF SystemInv
  <2> DEFINE n == 1 + clock' - Epoch
  <2>3. n \in Nat /\ n <= LastTime + 1
    BY SamplesAssumption DEF ClockInv
  <2> HIDE DEF n
  <2>4. n * Unit \in Nat /\ n * Unit < Word /\ Word \in Nat
    BY <2>3, CountersFit, MeasuresAssumption
  <2>5. \A f \in Fields : found[CounterOf[f]] <= n * Unit
    BY <2>2 DEF n
  <2>6. \A f \in Fields : found[CounterOf[f]] < Word
    BY <2>1, <2>4, <2>5
  <2>7. found # NoReading[kind] =>
            \A f \in Fields : system[CounterOf[f]] <= found[CounterOf[f]]
    BY CountersGrow DEF SamplesInv, SystemInv
  <2> QED
    BY <2>1, <2>6, <2>7
<1> HIDE DEF time, values
<1>6. CASE ~seen
  <2>1. /\ last' = last /\ started'.latest = started.latest
        /\ started'.first = started.first /\ started'.told = started.told
    BY <1>3, <1>4, <1>6 DEF values, AddedUp
  <2>2. CASE started.first = <<>>
    BY <2>1, <2>2, <1>1 DEF SamplesInv, CountInv
  <2>3. CASE started.first # <<>>
    <3>1. last' = started'.latest
      BY <2>1, <2>3, <1>1 DEF SamplesInv, CountInv
    <3>2. ASSUME ~started'.again
          PROVE  CountedFrom(started.first[1], started.latest, started.told)'
      <4>1. CountedFrom(started.first[1], started.latest, started.told)
        BY <3>2, <2>3, <1>1, <1>3 DEF SamplesInv, CountInv
      <4>2. \A f \in Fields : system[CounterOf[f]] <= found[CounterOf[f]]
        BY <3>2, <1>3, <1>5
      <4>3. \A f \in Fields : started.latest[CounterOf[f]] <= found[CounterOf[f]]
        BY <4>1, <4>2, <1>5 DEF CountedFrom
      <4> QED
        BY <4>1, <4>3, <2>1, <1>1 DEF CountedFrom
    <3> QED
      BY <3>1, <3>2, <2>1, <2>3, <1>1 DEF CountInv
  <2> QED
    BY <2>2, <2>3
<1>7. CASE seen
  <2> DEFINE c(f) == CounterOf[f]
  <2>1. last' = found /\ started'.latest = found /\ started'.first # <<>>
    BY <1>3, <1>4, <1>7
  <2>2. started'.told = [f \in Fields |-> started.told[f] + Since(found[c(f)], last[c(f)]) * 1]
    <3>1. /\ values # <<>>
          /\ \A f \in Fields : values[1][f] = Since(found[c(f)], last[c(f)])
      BY <1>7, MeasuredCounts DEF values
    <3>2. kind # "power"
      BY DEF Counting
    <3>3. AddedUp(values, time) = [f \in Fields |-> started.told[f] + values[1][f] * 1]
      BY <3>1, <3>2 DEF AddedUp
    <3> QED
      BY <1>3, <3>1, <3>3
  <2>3. ASSUME ~started'.again
        PROVE  CountedFrom(started.first[1], started.latest, started.told)'
    <3>1. ~started.again /\ \A f \in Fields : system[c(f)] <= found[c(f)]
      BY <2>3, <1>3, <1>5
    <3>2. CASE started.first = <<>>
      <4>1. started'.first[1] = found
        BY <3>2, <1>3, <1>7
      <4>2. last = NoReading[kind] /\ started.told = [f \in Fields |-> 0]
        BY <3>2, <1>1 DEF SamplesInv, CountInv
      <4>3. \A f \in Fields : last[c(f)] = 0
        <5>1. kind = "network" => NoReading[kind] = [up |-> 0, down |-> 0]
          BY DEF NoReading
        <5>2. kind = "diskactivity" => NoReading[kind] = [r |-> 0, w |-> 0]
          BY DEF NoReading
        <5> QED
          BY <4>2, <5>1, <5>2, TheCounters DEF Counting
      <4>4. \A f \in Fields : started'.told[f] = 0
        BY <2>2, <4>2, <4>3 DEF Since
      <4> QED
        BY <4>1, <4>4, <2>1, <1>1, <1>5 DEF CountedFrom
    <3>3. CASE started.first # <<>>
      <4>1. /\ last = started.latest /\ started'.first = started.first
            /\ CountedFrom(started.first[1], started.latest, started.told)
        BY <3>1, <3>3, <1>1, <1>3 DEF SamplesInv, CountInv
      <4>2. SUFFICES ASSUME NEW f \in Fields
                     PROVE  LET first  == started.first[1][c(f)]
                                latest == found[c(f)]
                                told   == started'.told[f]
                            IN  /\ first \in Nat /\ latest \in Nat /\ told \in Nat
                                /\ first <= latest
                                /\ told <= latest - first
                                /\ first # 0 => told = latest - first
        BY <4>1, <2>1, <1>1, <1>5 DEF CountedFrom
      <4> DEFINE first  == started.first[1][c(f)]
                 before == started.latest[c(f)]
                 latest == found[c(f)]
                 sofar  == started.told[f]
      <4>3. /\ first \in Nat /\ before \in Nat /\ latest \in Nat /\ sofar \in Nat
            /\ first <= before /\ before <= latest /\ latest < Word
            /\ sofar <= before - first /\ (first # 0 => sofar = before - first)
        <5>1. system[c(f)] \in Nat /\ before <= system[c(f)] /\ system[c(f)] <= latest
          BY <4>1, <3>1, <1>5 DEF CountedFrom
        <5>2. latest \in Nat /\ latest < Word
          BY <1>5
        <5> QED
          BY <4>1, <5>1, <5>2 DEF CountedFrom
      <4>4. started'.told[f] = sofar + Since(latest, before)
        <5>1. started'.told[f] = sofar + Since(latest, before) * 1
          BY <2>2, <4>1
        <5>2. Since(latest, before) \in Int
          BY <4>3, UnsignedOfMore DEF Since
        <5> QED
          BY <5>1, <5>2
      <4> HIDE DEF first, before, latest, sofar
      <4>5. Since(latest, before) = IF before = 0 THEN 0 ELSE latest - before
        BY <4>3, UnsignedOfMore DEF Since
      <4> QED
        BY <4>3, <4>4, <4>5 DEF first, latest
    <3> QED
      BY <3>2, <3>3
  <2> QED
    BY <2>1, <2>3, <1>1 DEF CountInv
<1> QED
  BY <1>6, <1>7

\* The sample of the power, of readings in time.
LEMMA PowerTells ==
    ASSUME NEW from \in Nat, NEW to \in Nat, NEW time \in Nat, NEW before \in Nat,
           from <= to, to <= from + EnergyRange,
           before < time, Unit % (time - before) = 0
    PROVE  LET sample == PowerSample(EnergyShown(to), EnergyShown(from), EnergyRange,
                                     time, before)
           IN  /\ sample # <<>>
               /\ sample[1].value * (time - before) = Unit * (to - from - Wraps(from, to))
<1> DEFINE spent == Spent(from, to)
           seconds == time - before
<1>1. EnergyRange \in Nat \ {0} /\ Unit \in Nat \ {0}
  BY SamplesAssumption, MeasuresAssumption
<1>2. EnergyShown(from) \in Nat /\ EnergyShown(to) \in Nat
  BY <1>1 DEF EnergyShown
<1>3. spent \in Nat /\ spent = to - from - Wraps(from, to)
  BY SpentButForWraps
<1>4. PowerSample(EnergyShown(to), EnergyShown(from), EnergyRange, time, before)
          = <<[value |-> (spent * Unit) \div seconds]>>
  <2>1. ~(EnergyShown(from) < 0 \/ time <= before \/ spent < 0)
    BY <1>2, <1>3
  <2> QED
    BY <2>1 DEF PowerSample, Spent
<1> HIDE DEF spent
<1>5. seconds \in Nat \ {0}
  OBVIOUS
<1>6. ((spent * Unit) \div seconds) * seconds = spent * Unit
  BY <1>3, <1>5, WattsAreWhole
<1>7. spent * Unit = Unit * spent
  BY <1>1, <1>3
<1> QED
  BY <1>3, <1>4, <1>6, <1>7

\* No more is spent in a second than the bound grows by.
LEMMA SpentInASecond ==
    ASSUME NEW latest \in Nat, NEW before \in Nat, NEW at \in Nat,
           NEW energy \in Nat, NEW later \in Nat,
           latest <= energy, energy <= latest + 2 * (at - before), before <= at,
           energy <= later, later <= energy + 2
    PROVE  /\ latest <= later /\ later <= latest + 2 * ((at + 1) - before)
           /\ before < at + 1
OBVIOUS

\* A second of the energy's counter.
LEMMA SecondSpends ==
    ASSUME SamplesInv, NEW found \in Changed, NEW seen \in BOOLEAN, Second(found, seen),
           kind = "power", ClockInv'
    PROVE  EnergyInv'
<1> DEFINE time   == clock + 1
           read   == seen /\ made
           values == IF read THEN Measured(found, time) ELSE <<>>
<1>1. /\ up /\ kind' = kind /\ system' = found /\ clock' = time /\ made' = made
      /\ clock < LastTime
  BY DEF Second, Late, SamplesInv, StartedInv
<1>2. /\ started'.latest = IF read THEN found ELSE started.latest
      /\ started'.first = IF read /\ started.first = <<>> THEN <<found>> ELSE started.first
      /\ started'.told = AddedUp(values, time)
      /\ started'.sampled = IF values = <<>> THEN started.sampled ELSE time
  BY <1>1, SecondTells DEF SamplesInv
<1>3. last' = IF read THEN [energy |-> EnergyShown(found.energy), time |-> time] ELSE last
  <2>1. last' = IF read THEN Kept(found, time) ELSE last
    BY <1>1 DEF Second
  <2>2. Kept(found, time) = [energy |-> EnergyShown(found.energy), time |-> time]
    BY DEF Kept
  <2> QED
    BY <2>1, <2>2
<1>4. /\ clock \in Nat /\ time \in Nat /\ Epoch \in Nat /\ LastTime \in Nat /\ Unit \in Nat
      /\ system.energy \in Nat /\ found.energy \in Nat
      /\ system.energy <= found.energy /\ found.energy <= system.energy + 2
  BY EnergyGrows, SamplesAssumption, MeasuresAssumption DEF SamplesInv, ClockInv, SystemInv
<1>5. CASE ~made
  BY <1>1, <1>2, <1>5 DEF SamplesInv, EnergyInv
<1>6. CASE made
  <2> DEFINE first  == started.first[1].energy
             latest == started.latest.energy
             before == started.sampled
             told   == started.told.value
  <2>1. /\ started.first # <<>>
        /\ before \in Nat /\ Epoch <= before /\ before <= clock
        /\ last = [energy |-> EnergyShown(latest), time |-> before]
        /\ first \in Nat /\ latest \in Nat /\ latest <= system.energy
        /\ system.energy <= latest + 2 * (clock - before)
        /\ told = Unit * (latest - first - Wraps(first, latest))
    BY <1>1, <1>6 DEF SamplesInv, EnergyInv, EnergyFrom
  <2>2. /\ latest <= found.energy /\ found.energy <= latest + 2 * (time - before)
        /\ before < time
    <3>1. /\ latest \in Nat /\ before \in Nat /\ latest <= system.energy
          /\ system.energy <= latest + 2 * (clock - before) /\ before <= clock
      BY <2>1
    <3> HIDE DEF latest, before
    <3> QED
      BY <3>1, <1>4, SpentInASecond
  <2>3. CASE ~seen
    <3>1. /\ started'.first = started.first /\ started'.latest = started.latest
          /\ started'.told = started.told /\ started'.sampled = before /\ last' = last
      BY <1>2, <1>3, <2>3 DEF AddedUp
    <3>2. EnergyFrom(started.first[1].energy, started.latest.energy, started.told.value)'
      BY <3>1, <2>1, <2>2, <1>1 DEF EnergyFrom, Wraps
    <3>3. Epoch <= before /\ before <= time
      BY <2>1, <2>2, <1>4
    <3>4. /\ started'.first # <<>> /\ started'.sampled = before
          /\ last' = [energy |-> EnergyShown(started'.latest.energy), time |-> before]
      BY <3>1, <2>1
    <3> QED
      BY <3>2, <3>3, <3>4, <2>1, <1>1, <1>6 DEF EnergyInv, EnergyShown
  <2>4. CASE seen
    <3> DEFINE to == found.energy
               sample == PowerSample(EnergyShown(to), EnergyShown(latest), EnergyRange,
                                     time, before)
    <3>1. values = sample
      <4>1. Measured(found, time) = PowerSample(EnergyShown(found.energy), last.energy,
                                                EnergyRange, time, last.time)
        BY DEF Measured
      <4> QED
        BY <4>1, <2>1, <1>6, <2>4
    <3>2. /\ before \in Nat /\ time \in Nat /\ latest \in Nat /\ to \in Nat
          /\ first \in Nat /\ Unit \in Nat
          /\ Epoch <= before /\ before < time /\ time <= LastTime
          /\ latest <= to /\ to <= latest + 2 * (time - before)
          /\ told = Unit * (latest - first - Wraps(first, latest))
      BY <1>1, <1>4, <2>1, <2>2
    <3> HIDE DEF values, time, first, latest, before, told, to
    <3>3. time - before \in 1 .. (LastTime - Epoch)
      BY <3>2, <1>4
    <3>4. to <= latest + EnergyRange
      BY <3>2, <3>3, <1>4, EnergyAssumption, SamplesAssumption
    <3>5. Unit % (time - before) = 0
      BY <3>3, EnergyAssumption
    <3>6. /\ sample # <<>>
          /\ sample[1].value * (time - before) = Unit * (to - latest - Wraps(latest, to))
      BY <3>2, <3>4, <3>5, PowerTells
    <3> HIDE DEF sample
    <3>7. /\ started'.first = started.first /\ started'.latest = found
          /\ started'.sampled = time
          /\ started'.told = [f \in Fields |-> started.told[f] + sample[1][f] * (time - before)]
      BY <1>2, <1>6, <2>1, <2>4, <3>1, <3>6 DEF AddedUp, before
    <3>8. started'.told.value = told + Unit * (to - latest - Wraps(latest, to))
      BY <3>6, <3>7, TheCounters DEF told
    <3>9. started'.told.value = Unit * (to - first - Wraps(first, to))
      <4> DEFINE m == latest - first - Wraps(first, latest)
                 n == to - latest - Wraps(latest, to)
      <4>1. m \in Int /\ n \in Int /\ m + n = to - first - Wraps(first, to)
        <5>1. /\ Wraps(first, latest) \in Int /\ Wraps(latest, to) \in Int
              /\ Wraps(first, to) = Wraps(first, latest) + Wraps(latest, to)
          BY <3>2, WrapsAdd
        <5> QED
          BY <5>1, <3>2
      <4>2. told = Unit * m /\ started'.told.value = told + Unit * n
        BY <3>2, <3>8
      <4> HIDE DEF m, n
      <4>3. Unit * m + Unit * n = Unit * (m + n)
        BY <4>1, <3>2
      <4> QED
        BY <4>1, <4>2, <4>3
    <3>10. EnergyFrom(started.first[1].energy, started.latest.energy, started.told.value)'
      <4>1. system'.energy = to /\ clock' - started'.sampled = 0
        BY <3>2, <3>7, <1>1 DEF to, time
      <4>2. /\ started'.first[1].energy = first /\ started'.latest.energy = to
        BY <3>7 DEF first, to
      <4> QED
        BY <4>1, <4>2, <3>2, <3>9, <1>1 DEF EnergyFrom, Wraps
    <3>11. last' = [energy |-> EnergyShown(to), time |-> time]
      BY <1>3, <1>6, <2>4 DEF to, time
    <3>12. /\ started'.first # <<>> /\ started'.sampled \in Nat
           /\ Epoch <= started'.sampled /\ started'.sampled <= clock'
           /\ last' = [energy |-> EnergyShown(started'.latest.energy),
                       time   |-> started'.sampled]
      <4>1. started'.latest.energy = to /\ started'.sampled = time /\ clock' = time
        BY <3>7, <1>1 DEF to, time
      <4>2. started'.first # <<>>
        BY <3>7, <2>1
      <4>3. Epoch <= time /\ time <= time /\ time \in Nat
        <5>1. Epoch \in Nat
          BY SamplesAssumption
        <5> QED
          BY <5>1, <3>2
      <4>4. last' = [energy |-> EnergyShown(started'.latest.energy),
                     time   |-> started'.sampled]
        BY <4>1, <3>11
      <4> QED
        BY <4>1, <4>2, <4>3, <4>4
    <3> QED
      BY <3>10, <3>12, <1>1, <1>6 DEF EnergyInv, EnergyShown
  <2> QED
    BY <2>3, <2>4
<1> QED
  BY <1>5, <1>6

LEMMA SecondKeeps ==
    ASSUME SamplesInv, NEW found \in Changed, NEW seen \in BOOLEAN, Second(found, seen)
    PROVE  SamplesInv'
<1>1. ClockInv' /\ SystemInv'
  BY SystemStep DEF SamplesInv, Second
<1>2. StartedInv'
  <2> DEFINE read == seen /\ made'
             values == IF read THEN Measured(found, clock + 1) ELSE <<>>
             first == IF read /\ started.first = <<>> THEN <<found>> ELSE started.first
  <2>1. first # <<>> => first = <<first[1]>>
    BY DEF SamplesInv, StartedInv
  <2> HIDE DEF first
  <2>2. made' \in BOOLEAN
    BY DEF Second, SamplesInv, StartedInv
  <2>3. \E latest, again, told, sampled :
            started' = [time |-> started.time, fresh |-> started.fresh, latest |-> latest,
                        again |-> again, first |-> first, told |-> told,
                        sampled |-> sampled]
    BY SecondTells DEF SamplesInv, first
  <2> QED
    BY <2>1, <2>2, <2>3 DEF StartedInv
<1>3. kind' = kind
  BY DEF Second
<1>4. CountInv'
  BY <1>1, <1>3, SecondCounts DEF CountInv
<1>5. EnergyInv'
  BY <1>1, <1>3, SecondSpends DEF EnergyInv
<1> QED
  BY <1>1, <1>2, <1>4, <1>5 DEF SamplesInv

-----------------------------------------------------------------------------
(***************************************************************************)
(* The inductive invariant of a series: of a collector that counts, the    *)
(* reading kept and what was told since the process started, over seconds  *)
(* in which nothing was read, restarts and crashes; no counter goes round, *)
(* and the energy's no more than once between two readings.                *)
(***************************************************************************)
THEOREM SamplesInvariant == SamplesSpec => []SamplesInv
<1>1. SamplesInv /\ [SamplesNext]_samplesVars => SamplesInv'
  <2> SUFFICES ASSUME SamplesInv, [SamplesNext]_samplesVars PROVE SamplesInv'
    OBVIOUS
  <2>1. CASE \E found \in Changed, seen \in BOOLEAN : Second(found, seen)
    BY <2>1, SecondKeeps
  <2>2. CASE \E found \in Changed : Wait(found)
    BY <2>2, WaitKeeps
  <2>3. CASE \E seen \in BOOLEAN : Start(seen)
    BY <2>3, StartKeeps
  <2>4. CASE \E saves \in BOOLEAN : Stop(saves)
    BY <2>4, StopKeeps
  <2>5. CASE UNCHANGED samplesVars
    BY <2>5 DEF samplesVars, SamplesInv, ClockInv, SystemInv, StartedInv, CountInv,
        EnergyInv, EnergyFrom, CountedFrom, Fields, NoReading, EnergyShown, Wraps
  <2> QED
    BY <2>1, <2>2, <2>3, <2>4, <2>5 DEF SamplesNext
<1> QED
  BY <1>1, SamplesAtFirst, PTL DEF SamplesSpec

(***************************************************************************)
(* What an interface or a disk told adds up to what it counted, however    *)
(* many seconds it was not listed, for any growth a second that keeps the  *)
(* counters below their word.                                              *)
(***************************************************************************)
THEOREM CountedAllAndOnce == SamplesSpec => []NothingLostOrTwice
<1>1. SamplesInv => NothingLostOrTwice
  <2> SUFFICES ASSUME SamplesInv, kind # "power", up, started.first # <<>>, ~started.again,
                      NEW f \in Fields
               PROVE  LET first   == started.first[1][CounterOf[f]]
                          counted == started.latest[CounterOf[f]] - first
                      IN  /\ started.told[f] <= counted
                          /\ first # 0 => started.told[f] = counted
    BY DEF NothingLostOrTwice
  <2>1. kind \in Counting
    BY DEF Fields, Counting
  <2>2. CountedFrom(started.first[1], started.latest, started.told)
    BY <2>1 DEF SamplesInv, CountInv
  <2> QED
    BY <2>2 DEF CountedFrom
<1> QED
  BY <1>1, SamplesInvariant, PTL

(***************************************************************************)
(* The power told is the energy spent, but for one unit each time the      *)
(* counter went round, for any range and however late a reading comes.     *)
(***************************************************************************)
THEOREM EnergyAlwaysKnown == SamplesSpec => []EnergyKnown
<1>1. SamplesInv => EnergyKnown
  BY DEF SamplesInv, EnergyInv, EnergyFrom, EnergyKnown
<1> QED
  BY <1>1, SamplesInvariant, PTL
=============================================================================
