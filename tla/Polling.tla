------------------------------- MODULE Polling -------------------------------
(***************************************************************************)
(* A client that polls the samples of a keyed collector: the server        *)
(* samples its devices, restarts and forgets; connections and the replies  *)
(* on them get lost; and the client asks, per device, for what is newer    *)
(* than its copy (src/src/Responses.cpp, src/src/Socket.cpp).              *)
(*                                                                         *)
(* Level 0 lives in memory only and its ids begin anew with every run of   *)
(* the server.  Level 1 takes a turn every second second, its id counts    *)
(* the turns since the database was made, and what SIGTERM saved of it is  *)
(* read back (History and KeyedHistory have these parts in full).          *)
(***************************************************************************)
EXTENDS Replies, FiniteSets

CONSTANTS Device,      \* the devices of the collector
          GpuUnit,     \* those only a reply of kind "gpu" shows
          Kinds,       \* the collectors to look at
          HistorySize, \* HISTORY_SIZE
          MaxTime      \* bound on the clock

\* The collectors of one series: the same, with one device always there.
Single == {"cpu", "memory", "load"}

Keyed == {"network", "diskactivity", "disks", "sensors", "gpu"}

ASSUME PollingAssumption ==
    /\ IsFiniteSet(Device)
    /\ Device # {}
    /\ Kinds \subseteq Single \cup Keyed
    /\ GpuUnit \subseteq Device
    /\ HistorySize \in Nat \ {0}
    /\ MaxTime \in Nat

VARIABLES now,       \* the clock
          kind,      \* the collector
          up,        \* the server runs
          session,   \* _session: when this run of it began
          ids,       \* sampleIndex[0 .. 1].sampleID
          items,     \* _items
          stored,    \* the table of level 1, as far as it is on the disk
          log,       \* the series of this run, oldest first: what it found
                     \* in the table, and what it took
          connected, \* the client's connection is open
          seen,      \* the session the client was told by message 101
          copy,      \* what the client has of each device and level
          reply      \* the reply on its way

serverVars == <<up, session, ids, items, stored, log>>
clientVars == <<connected, seen, copy, reply>>
pollingVars == <<now, kind, serverVars, clientVars>>

Levels  == 1 .. 2  \* level l is index l - 1 of the code
NoReply == [session |-> -1, items |-> <<>>]
Nothing == [d \in Device |-> [l \in Levels |-> <<>>]]

TheOnly == CHOOSE d \in Device : TRUE

Listings == IF kind \in Single THEN {{TheOnly}} ELSE SUBSET Device

Min2(a, b) == IF a <= b THEN a ELSE b

Sample(n, t) == [id |-> n, time |-> t]

Devices == {items[i].key : i \in 1 .. Len(items)}

ItemOf(its, d) == CHOOSE i \in ToSet(its) : i.key = d

\* push_front, and pop_back beyond the size.
Pushed(mem, sample) ==
    SubSeq(<<sample>> \o mem, 1, Min2(Len(mem) + 1, HistorySize))

\* createInterface: a new item reads back its rows of level 1.
Item(device) ==
    [key |-> device, active |-> TRUE,
     gpu |-> device \in GpuUnit, gpuUnit |-> device \in GpuUnit,
     mem |-> <<<<>>, stored[device]>>]

Made(listed) == Only(SetToSeq(listed), Device \ Devices)

(***************************************************************************)
(* A second of an item: a sample of level 0 when it is listed, and one of  *)
(* level 1 (empty perhaps) at every turn, listed or not.                   *)
(***************************************************************************)
Sampled(item, listed, taken) ==
    [item EXCEPT !.active = item.key \in listed,
                 !.mem = [l \in Levels |->
                     IF taken[l] # <<>> /\ (l = 2 \/ item.key \in listed)
                     THEN Pushed(@[l], taken[l][1]) ELSE @[l]]]

\* The log of a series grows by what came in front of its memory.
Logged(old, mem) == IF mem # <<>> /\ mem[1] \notin ToSet(old)
                    THEN Append(old, mem[1]) ELSE old

LogOf(its) ==
    [d \in Device |-> [l \in Levels |->
        IF \E i \in 1 .. Len(its) : its[i].key = d
        THEN Logged(log[d][l], ItemOf(its, d).mem[l])
        ELSE log[d][l]]]

-----------------------------------------------------------------------------
\* One second of the statistics thread.
Second(listed) ==
    LET time  == now + 1
        taken == <<<<Sample(ids[1] + 1, time)>>,
                   IF time % 2 = 0 THEN <<Sample(ids[2] + 1, time)>> ELSE <<>>>>
        made  == Made(listed)
        its   == [i \in 1 .. Len(made) |-> Item(made[i])] \o items
    IN  /\ up
        /\ now < MaxTime
        /\ now' = time
        /\ ids' = [l \in Levels |-> ids[l] + Len(taken[l])]
        /\ items' = [i \in 1 .. Len(its) |-> Sampled(its[i], listed, taken)]
        /\ log' = LogOf(items')
        /\ UNCHANGED <<kind, up, session, stored, clientVars>>

(***************************************************************************)
(* The server ends: SIGTERM saves level 1, a crash what was saved before.  *)
(* A reply may be on its way still.                                        *)
(***************************************************************************)
Stop(saves) ==
    /\ up
    /\ up' = FALSE
    /\ items' = <<>>
    /\ stored' = [d \in Device |->
                    IF saves /\ d \in Devices
                    THEN ItemOf(items, d).mem[2]
                    ELSE stored[d]]
    /\ connected' = FALSE
    /\ UNCHANGED <<now, kind, session, ids, log, seen, copy, reply>>

\* Wrong: the session is kept in the database, too.
MutStart ==
    /\ ~up
    /\ up' = TRUE
    /\ session' = session
    /\ ids' = <<1, now \div 2>>
    /\ log' = [d \in Device |-> <<<<>>, Reverse(stored[d])>>]
    /\ UNCHANGED <<now, kind, items, stored, clientVars>>

(***************************************************************************)
(* The session is the time of the start; systemd restarts no sooner than   *)
(* after RestartSec.  fillGaps counts the turns gone by.                   *)
(***************************************************************************)
Start ==
    /\ ~up
    /\ now > session
    /\ up' = TRUE
    /\ session' = now
    /\ ids' = <<1, now \div 2>>
    /\ log' = [d \in Device |-> <<<<>>, Reverse(stored[d])>>]
    /\ UNCHANGED <<now, kind, items, stored, clientVars>>

\* The machine is on, the server is not.
Wait ==
    /\ ~up
    /\ now < MaxTime
    /\ now' = now + 1
    /\ UNCHANGED <<kind, serverVars, clientVars>>

-----------------------------------------------------------------------------
\* Message 101 tells the session; a client of another one begins anew.
Greet ==
    /\ up
    /\ ~connected
    /\ connected' = TRUE
    /\ seen' = session
    /\ copy' = IF seen = session THEN copy ELSE Nothing
    /\ reply' = NoReply
    /\ UNCHANGED <<now, kind, serverVars>>

LastId(d, l) == IF copy[d][l] = <<>> THEN 0 ELSE Last(copy[d][l]).id

(***************************************************************************)
(* A child for each device the client has samples of, with the last ids it *)
(* has, and one without keys for those it does not know yet; for a single  *)
(* series just the last ids.                                               *)
(***************************************************************************)
LastIds(d) == [l \in Levels |-> LastId(d, l)]

Children ==
    LET known == {d \in Device : copy[d] # [l \in Levels |-> <<>>]} IN
    IF kind \in Single
    THEN <<[keys |-> {}, after |-> LastIds(TheOnly)]>>
    ELSE [i \in 1 .. Cardinality(known) |->
             LET d == SetToSeq(known)[i] IN [keys |-> {d}, after |-> LastIds(d)]]
         \o <<[keys |-> {}, after |-> [l \in Levels |-> 0]]>>

(***************************************************************************)
(* Message 103, answered under the lock of the statistics.  The client     *)
(* waits for an answer before it asks again.  A single series exists from  *)
(* the start, its first sample comes with the first second.                *)
(***************************************************************************)
Ask ==
    /\ up
    /\ connected
    /\ reply = NoReply
    /\ kind \in Single => items # <<>>
    /\ reply' = [session |-> session,
                 items |-> Reply(kind, [items |-> items], Children)]
    /\ UNCHANGED <<now, kind, serverVars, connected, seen, copy>>

\* What the client appends to its copy of a series.
Answered(answers, d, l) ==
    LET its == Those(answers, LAMBDA i : i.key = d /\ i.level = l)
    IN  FlattenSeq([n \in DOMAIN its |-> its[n].samples])

Deliver ==
    /\ reply # NoReply
    /\ copy' = [d \in Device |-> [l \in Levels |->
                   copy[d][l] \o Answered(reply.items, d, l)]]
    /\ reply' = NoReply
    /\ UNCHANGED <<now, kind, serverVars, connected, seen>>

\* The network, the timeout of an idle client, or the client itself.
Disconnect ==
    /\ connected
    /\ connected' = FALSE
    /\ reply' = NoReply
    /\ UNCHANGED <<now, kind, serverVars, seen, copy>>

-----------------------------------------------------------------------------
PollingInit ==
    /\ now = 0
    /\ kind \in Kinds
    /\ up = TRUE
    /\ session = 0
    /\ ids = <<1, 0>>
    /\ items = <<>>
    /\ stored = [d \in Device |-> <<>>]
    /\ log = Nothing
    /\ connected = FALSE
    /\ seen = -1
    /\ copy = Nothing
    /\ reply = NoReply

PollingNext ==
    \/ \E listed \in Listings : Second(listed)
    \/ \E saves \in BOOLEAN : Stop(saves)
    \/ Start
    \/ Wait
    \/ Greet
    \/ Ask
    \/ Deliver
    \/ Disconnect

PollingSpec == PollingInit /\ [][PollingNext]_pollingVars

-----------------------------------------------------------------------------
(***************************************************************************)
(* Each series of each device is copied as SampleCopy promises: over lost  *)
(* replies, devices that come and go, restarts with ids that begin anew or *)
(* go on, nothing the server still holds is left out, nothing comes twice, *)
(* and samples of two runs are not mixed.                                  *)
(***************************************************************************)
Held(d, l) ==
    IF d \in Devices
    THEN Len(log[d][l]) + 1 - Len(ItemOf(items, d).mem[l])
    ELSE IF up THEN 1 ELSE Len(log[d][l]) + 1

SeriesOf(f) == [s \in Device \X Levels |-> f[s[1]][s[2]]]

Copied ==
    INSTANCE SampleCopy WITH
        Series  <- Device \X Levels,
        session <- session,
        log     <- SeriesOf(log),
        held    <- [s \in Device \X Levels |-> Held(s[1], s[2])],
        copy    <- SeriesOf(IF seen = session THEN copy ELSE Nothing)

ImplementsSampleCopy == Copied!Spec

(***************************************************************************)
(* An answer is complete: with it the client has, of every device the      *)
(* collector shows, the newest sample the server has.                      *)
(***************************************************************************)
AnswersAreComplete ==
    [][Ask => \A i \in 1 .. Len(items), l \in Levels :
          LET item == items[i]
              all  == copy[item.key][l] \o Answered(reply'.items, item.key, l)
          IN  Shown(kind, item) /\ item.mem[l] # <<>> =>
                  all # <<>> /\ Last(all) = item.mem[l][1]]_pollingVars
=============================================================================
