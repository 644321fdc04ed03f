----------------------------- MODULE StatsThread -----------------------------
(***************************************************************************)
(* The statistics thread beside the main thread (src/src/Stats.cpp,        *)
(* src/src/Socket.cpp, src/src/Daemon.cpp): what the lock protects, what   *)
(* is done without it, and what a signal finds.                            *)
(*                                                                         *)
(* A collector is its sample id and the second it was updated last, and    *)
(* its queue of statements.  Each call of the statistics thread on a       *)
(* collector is a step, from the start on, and so is each collector read   *)
(* by a reply and each statement executed.  Where both threads are at the  *)
(* same data, one of them writing, the behaviour is undefined and the      *)
(* model ends.                                                             *)
(***************************************************************************)
EXTENDS Integers, Sequences, FiniteSets, SequencesExt

CONSTANTS HistoryInterval, \* seconds from one turn of a level to the next
          FlushInterval,   \* the queues are looked at every so many seconds
          MaxSecond        \* bound on the seconds sampled

ASSUME StatsThreadAssumption ==
    /\ HistoryInterval \in Nat \ {0}
    /\ FlushInterval \in Nat \ {0}
    /\ MaxSecond \in Nat

VARIABLES historyEnabled, \* of the configuration
          lock,           \* Stats::lock: the thread that holds it
          stats,          \* where the statistics thread is
          main,           \* where the main thread is
          sampleID,       \* Stats::sampleID
          shown,          \* of each collector its id and when it was updated
          reading,        \* what the reply being made has of the collectors
          queue,          \* databaseQueue of each collector
          open,           \* a transaction is open
          executed,       \* statements executed in it
          durable,        \* statements committed
          owed,           \* those queued and not committed when SIGTERM came
          undefined       \* both threads were at the same data

dataVars     == <<sampleID, shown, queue>>
databaseVars == <<open, executed, durable>>
vars == <<historyEnabled, lock, stats, main, dataVars, reading, databaseVars,
          owed, undefined>>

Free == "free"

-----------------------------------------------------------------------------
(***************************************************************************)
(* The calls of one second, in their order.                                *)
(***************************************************************************)
Prepared == <<"cpu", "load", "memory", "activity", "sensors", "network">>
Updated  == <<"cpu", "load", "memory", "network", "activity", "processes">>
Thirds   == <<"battery", "disks", "sensors">>
Stored   == <<"cpu", "load", "memory", "activity", "sensors", "network", "disks">>

\* Those with an index of samples, as init() and updateNextTimes go through them.
Indexed  == <<"cpu", "load", "memory", "activity", "sensors", "network", "disks", "battery">>

\* Those told that they are ready.
Readied == {"activity", "sensors", "network", "disks", "battery"}

\* What a client may ask for, in the order this one asks.
Asked == <<"cpu", "memory", "load", "network", "activity", "processes", "disks",
           "sensors", "battery">>

\* startStats updates each once before its loop.
First == <<"cpu", "memory", "load", "sensors", "network", "disks", "activity",
           "battery", "processes">>

Collector == ToSet(First)

Each(call, collectors) ==
    [i \in 1 .. Len(collectors) |-> [call |-> call, of |-> collectors[i]]]

\* Every third second the slow collectors, too.
Calls(second) ==
    Each("prepareUpdate", Prepared) \o Each("update", Updated)
    \o (IF second % 3 = 0
        THEN Each("prepareUpdate", Thirds) \o Each("update", Thirds) ELSE <<>>)
    \o (IF historyEnabled THEN Each("updateHistory", Stored) ELSE <<>>)

\* StatsBase::prepareUpdate
PrepareUpdate(c) == shown' = [shown EXCEPT ![c].id = @ + 1]

\* A statement queued in this second; at a flush come the deletes.
Statement(c, kind) == [of |-> c, kind |-> kind, second |-> sampleID]

Queue(c, kind) == queue' = [queue EXCEPT ![c] = Append(@, Statement(c, kind))]

(***************************************************************************)
(* An update of the sensors queues their new limits.  Of a new sensor      *)
(* whether they are new is a value never set, so that the first update may *)
(* queue some, too.                                                        *)
(***************************************************************************)
Update(c) ==
    /\ shown' = [shown EXCEPT ![c].at = sampleID]
    /\ \/ UNCHANGED queue
       \/ c = "sensors" /\ historyEnabled /\ Queue(c, "limits")

Do(call) ==
    CASE call.call = "prepareUpdate" ->
            PrepareUpdate(call.of) /\ UNCHANGED <<sampleID, queue>>
      [] call.call = "update" ->
            Update(call.of) /\ UNCHANGED sampleID
      [] call.call = "updateHistory" ->
            /\ IF sampleID % HistoryInterval = 0
               THEN Queue(call.of, "insert") ELSE UNCHANGED queue
            /\ UNCHANGED <<sampleID, shown>>

-----------------------------------------------------------------------------
At(place) == [at |-> place, i |-> 1, k |-> 1]

\* The collectors a reply is given by value, all they have with them.
Copied == {"network", "activity", "sensors", "disks", "battery", "processes"}

(***************************************************************************)
(* The data a thread is at: items of a collector, what it shows; its       *)
(* queue; and the rest of it, flags and times that only a copy reads.  The *)
(* processors are shown with the number of processes.                      *)
(***************************************************************************)
QueueOf(call) ==
    IF \/ call.call = "updateHistory"
       \/ call.call = "update" /\ call.of = "sensors" /\ historyEnabled
    THEN {<<"queue", call.of>>} ELSE {}

Called(call) == {<<"items", call.of>>} \cup QueueOf(call)

StatsTouches(s) ==
    CASE s.at = "open"        -> {"rest"} \X ToSet(Indexed)
      [] s.at = "init"        -> {"items", "rest"} \X {Indexed[s.i]}
      [] s.at = "entitlement" -> {<<"rest", "processes">>}
      [] s.at = "first"       -> Called([call |-> "update", of |-> First[s.i]])
      [] s.at = "ready"       -> {"rest"} \X Readied
      [] s.at = "addresses"   -> {<<"items", "network">>}
      [] s.at = "times"       -> {"rest"} \X ToSet(Indexed)
      [] s.at = "holds"       -> Called(Calls(sampleID')[s.i])
      [] s.at = "remove"      -> {<<"queue", Stored[s.i]>>}
      [] s.at = "insert"      -> {<<"queue", Stored[s.i]>>}
      [] OTHER                -> {}

Shows(c) ==
    (IF c \in Copied THEN {"items", "queue", "rest"} ELSE {"items"}) \X
    (IF c = "cpu" THEN {"cpu", "processes"} ELSE {c})

MainTouches(m) ==
    CASE m.at = "reads"    -> Shows(Asked[m.i])
      [] m.at = "finalize" -> {<<"queue", Stored[m.i]>>}
      [] OTHER             -> {}

(***************************************************************************)
(* Undefined, too: a database that was never opened (history is off, or    *)
(* the signal came first) is a pointer without a value.                    *)
(***************************************************************************)
NoDatabase(s, m) ==
    \/ s.at = "insert" /\ ~historyEnabled
    \/ m.at = "finalize" /\ s.at = "open"

Undefined ==
    undefined' = (\/ undefined
                  \/ StatsTouches(stats') \cap MainTouches(main') # {}
                  \/ NoDatabase(stats', main'))

-----------------------------------------------------------------------------
\* The database as a thread uses it.
Begin  == open' = TRUE /\ UNCHANGED <<executed, durable>>

Commit ==
    /\ open' = FALSE
    /\ executed' = {}
    /\ durable' = durable \cup executed

\* executeUpdate: outside a transaction a statement is committed at once.
Execute(c, k) ==
    /\ IF open
       THEN executed' = executed \cup {queue[c][k]} /\ UNCHANGED <<open, durable>>
       ELSE durable' = durable \cup {queue[c][k]} /\ UNCHANGED <<open, executed>>
    /\ UNCHANGED queue

Clear(c) == queue' = [queue EXCEPT ![c] = <<>>] /\ UNCHANGED databaseVars

\* insertDatabaseItems for one collector after the other, by a thread at pc.
Insert(pc, next) ==
    LET c == Stored[pc.i] IN
    IF pc.k <= Len(queue[c])
    THEN Execute(c, pc.k) /\ next = [pc EXCEPT !.k = @ + 1]
    ELSE /\ Clear(c)
         /\ next = IF pc.i < Len(Stored) THEN [pc EXCEPT !.i = @ + 1, !.k = 1]
                   ELSE At("commit")

-----------------------------------------------------------------------------
\* The steps of the statistics thread.
GoOn(collectors, next) ==
    stats' = IF stats.i < Len(collectors) THEN [stats EXCEPT !.i = @ + 1] ELSE next

\* The database is given to the collectors; all before the loop is without the lock.
OpenDatabase ==
    /\ stats.at = "open"
    /\ stats' = At("init")
    /\ UNCHANGED <<lock, dataVars, databaseVars>>

\* init(): the first id; until then a collector shows what was in its memory.
InitCollector ==
    /\ stats.at = "init"
    /\ shown' = [shown EXCEPT ![Indexed[stats.i]].id = 1]
    /\ GoOn(Indexed, At("entitlement"))
    /\ UNCHANGED <<lock, sampleID, queue, databaseVars>>

SetEntitlement ==
    /\ stats.at = "entitlement"
    /\ stats' = At("first")
    /\ UNCHANGED <<lock, dataVars, databaseVars>>

FirstUpdate ==
    /\ stats.at = "first"
    /\ Update(First[stats.i])
    /\ GoOn(First, At("ready"))
    /\ UNCHANGED <<lock, sampleID, databaseVars>>

SetReady ==
    /\ stats.at = "ready"
    /\ stats' = At("addresses")
    /\ UNCHANGED <<lock, dataVars, databaseVars>>

UpdateAddresses ==
    /\ stats.at = "addresses"
    /\ stats' = At("times")
    /\ UNCHANGED <<lock, dataVars, databaseVars>>

\* updateNextTimes, before the loop and at the end of every turn of it.
UpdateNextTimes ==
    /\ stats.at = "times"
    /\ stats' = At("sleep")
    /\ UNCHANGED <<lock, dataVars, databaseVars>>

Wake ==
    /\ stats.at = "sleep"
    /\ sampleID < MaxSecond
    /\ lock = Free
    /\ lock' = "stats"
    /\ sampleID' = sampleID + 1
    /\ stats' = At("holds")
    /\ UNCHANGED <<shown, queue, databaseVars>>

\* Wrong: the lock is given up behind the samples, before the history.
MutSecond ==
    /\ stats.at = "holds"
    /\ Do(Calls(sampleID)[stats.i])
    /\ stats' = IF stats.i < Len(Calls(sampleID)) THEN [stats EXCEPT !.i = @ + 1]
                ELSE At("between")
    /\ lock' = IF stats.i = Len(Prepared) + Len(Updated) THEN Free ELSE lock
    /\ UNCHANGED databaseVars

\* Wrong: a return before the unlock.
MutSecondReturns ==
    /\ stats.at = "holds"
    /\ Do(Calls(sampleID)[stats.i])
    /\ stats' = IF stats.i < Len(Calls(sampleID)) THEN [stats EXCEPT !.i = @ + 1]
                ELSE At("between")
    /\ UNCHANGED <<lock, databaseVars>>

\* update_system_stats, a call at a time; the lock is given up behind it (and
\* behind updateAddresses, now and then, which changes nothing that is shown here).
Second ==
    /\ stats.at = "holds"
    /\ Do(Calls(sampleID)[stats.i])
    /\ IF stats.i < Len(Calls(sampleID))
       THEN stats' = [stats EXCEPT !.i = @ + 1] /\ UNCHANGED lock
       ELSE stats' = At("between") /\ lock' = Free
    /\ UNCHANGED databaseVars

\* Whether it is time for the queue again, by a clock that may have been set.
Between ==
    /\ stats.at = "between"
    /\ \/ stats' = At("times")
       \/ sampleID % FlushInterval = 0 /\ stats' = At("remove")
    /\ UNCHANGED <<lock, dataVars, databaseVars>>

RemoveOldSamples ==
    /\ stats.at = "remove"
    /\ Queue(Stored[stats.i], "delete")
    /\ GoOn(Stored, At("begin"))
    /\ UNCHANGED <<lock, sampleID, shown, databaseVars>>

BeginFlush ==
    /\ stats.at = "begin"
    /\ Begin
    /\ stats' = At("insert")
    /\ UNCHANGED <<lock, dataVars>>

InsertItems ==
    /\ stats.at = "insert"
    /\ Insert(stats, stats')
    /\ UNCHANGED <<lock, sampleID, shown>>

CommitFlush ==
    /\ stats.at = "commit"
    /\ Commit
    /\ stats' = At("times")
    /\ UNCHANGED <<lock, dataVars>>

StatsStep ==
    /\ main.at # "exited"
    /\ \/ OpenDatabase \/ InitCollector \/ SetEntitlement \/ FirstUpdate \/ SetReady
       \/ UpdateAddresses \/ UpdateNextTimes \/ Wake \/ Second \/ Between
       \/ RemoveOldSamples \/ BeginFlush \/ InsertItems \/ CommitFlush
    /\ UNCHANGED <<historyEnabled, main, reading, owed>>
    /\ Undefined

-----------------------------------------------------------------------------
Elsewhere == UNCHANGED <<historyEnabled, stats, dataVars, owed>>

\* A client asks for samples.
Request ==
    /\ main.at = "idle"
    /\ main' = At("wants")
    /\ Elsewhere
    /\ UNCHANGED <<lock, reading, databaseVars>>
    /\ Undefined

Lock ==
    /\ main.at = "wants"
    /\ lock = Free
    /\ lock' = "main"
    /\ main' = At("reads")
    /\ reading' = <<>>
    /\ Elsewhere
    /\ UNCHANGED databaseVars
    /\ Undefined

\* Wrong: each collector is read under a lock of its own.
MutRead ==
    /\ main.at \in {"reads", "again"}
    /\ IF main.at = "again"
       THEN /\ lock = Free
            /\ lock' = "main"
            /\ main' = [main EXCEPT !.at = "reads"]
            /\ UNCHANGED reading
       ELSE /\ reading' = Append(reading, shown[Asked[main.i]])
            /\ lock' = Free
            /\ main' = IF main.i < Len(Asked) THEN [main EXCEPT !.i = @ + 1, !.at = "again"]
                       ELSE At("sends")
    /\ Elsewhere
    /\ UNCHANGED databaseVars
    /\ Undefined

Read ==
    /\ main.at = "reads"
    /\ reading' = Append(reading, shown[Asked[main.i]])
    /\ IF main.i < Len(Asked)
       THEN main' = [main EXCEPT !.i = @ + 1] /\ UNCHANGED lock
       ELSE main' = At("sends") /\ lock' = Free
    /\ Elsewhere
    /\ UNCHANGED databaseVars
    /\ Undefined

\* The reply is sent when the lock is free again.
Send ==
    /\ main.at = "sends"
    /\ main' = At("idle")
    /\ reading' = <<>>
    /\ Elsewhere
    /\ UNCHANGED <<lock, databaseVars>>
    /\ Undefined

(***************************************************************************)
(* SIGTERM interrupts the main thread wherever it is, holding the lock     *)
(* perhaps.  The handler executes the queues and ends the process.         *)
(***************************************************************************)
\* Wrong: the queues are executed under the lock.
MutFinalize(pc) ==
    /\ pc.at = "finalize"
    /\ lock = Free
    /\ lock' = "main"
    /\ main' = At("commit")
    /\ UNCHANGED <<dataVars, databaseVars>>

Finalize(pc) ==
    /\ pc.at = "finalize"
    /\ Insert(pc, main')
    /\ UNCHANGED <<lock, sampleID, shown>>

Interrupted == {"idle", "wants", "reads", "sends"}

Queued == UNION {ToSet(queue[c]) : c \in ToSet(Stored)}

Sigterm ==
    /\ main.at \in Interrupted
    /\ IF historyEnabled
       THEN /\ main' = At("finalize")
            /\ owed' = (Queued \cup executed) \ durable
            /\ Begin
       ELSE /\ main' = At("exited")
            /\ UNCHANGED <<owed, databaseVars>>
    /\ UNCHANGED <<historyEnabled, lock, stats, dataVars, reading>>
    /\ Undefined

\* Wrong: the transaction is left open.
MutHandle ==
    /\ \/ Finalize(main)
       \/ /\ main.at = "commit"
          /\ main' = At("exited")
          /\ UNCHANGED <<lock, dataVars, databaseVars>>
    /\ UNCHANGED <<historyEnabled, stats, reading, owed>>
    /\ Undefined

Handle ==
    /\ \/ Finalize(main)
       \/ /\ main.at = "commit"
          /\ Commit
          /\ main' = At("exited")
          /\ UNCHANGED <<lock, dataVars>>
    /\ UNCHANGED <<historyEnabled, stats, reading, owed>>
    /\ Undefined

\* SIGINT saves nothing, and neither does a process that dies.
Die ==
    /\ main.at \in Interrupted \/ undefined
    /\ main.at # "exited"
    /\ main' = At("exited")
    /\ open' = FALSE
    /\ executed' = {}
    /\ UNCHANGED <<historyEnabled, lock, stats, dataVars, reading, durable, owed,
                   undefined>>

-----------------------------------------------------------------------------
Init ==
    /\ historyEnabled \in BOOLEAN
    /\ lock = Free
    /\ stats = At("open")
    /\ main = At("idle")
    /\ sampleID = 0
    /\ shown = [c \in Collector |-> [id |-> 0, at |-> -1]]
    /\ reading = <<>>
    /\ queue = [c \in ToSet(Stored) |-> <<>>]
    /\ open = FALSE
    /\ executed = {}
    /\ durable = {}
    /\ owed = {}
    /\ undefined = FALSE

\* What an undefined behaviour does is left open but for its end.
Next ==
    \/ ~undefined /\ (StatsStep \/ Request \/ Lock \/ Read \/ Send \/ Sigterm \/ Handle)
    \/ Die

(***************************************************************************)
(* Both threads are scheduled.  The statistics thread sleeps without the   *)
(* lock for most of a second, so that a main thread that waits for it is   *)
(* woken in a window it does not miss for ever.                            *)
(***************************************************************************)
Fairness ==
    /\ WF_vars(~undefined /\ StatsStep)
    /\ SF_vars(~undefined /\ Lock)
    /\ WF_vars(~undefined /\ (Read \/ Send))
    /\ WF_vars(~undefined /\ Handle)

Spec == Init /\ [][Next]_vars

FairSpec == Spec /\ Fairness

-----------------------------------------------------------------------------
(***************************************************************************)
(* A reply shows the collectors as one whole number of seconds left them:  *)
(* the slow ones at the last third second, the sensors counted twice in    *)
(* it.  Only of the start, which is without the lock, a reply may show a   *)
(* part: some collectors initialised, or updated for the first time, and   *)
(* others not.                                                             *)
(***************************************************************************)
SampleOf(c, n) ==
    CASE c = "processes"           -> [id |-> 0, at |-> n]
      [] c = "sensors"             -> [id |-> 1 + n + n \div 3, at |-> 3 * (n \div 3)]
      [] c \in {"disks", "battery"} -> [id |-> 1 + n \div 3, at |-> 3 * (n \div 3)]
      [] OTHER                     -> [id |-> 1 + n, at |-> n]

\* What a collector may show before the first second.
Started(c) == {[id |-> 0, at |-> -1], [id |-> 1, at |-> -1], SampleOf(c, 0)}

RepliesAreWhole ==
    Len(reading) = Len(Asked) =>
        \/ \E n \in 0 .. MaxSecond :
              \A i \in 1 .. Len(Asked) : reading[i] = SampleOf(Asked[i], n)
        \/ \A i \in 1 .. Len(Asked) : reading[i] \in Started(Asked[i])

(***************************************************************************)
(* The behaviour is undefined in these ways only.  At the start, which is  *)
(* without the lock: a reply shows the collector that is initialised or    *)
(* updated, or the network's addresses.  A reply copies a collector, all   *)
(* that is in it, while the thread gives out the database, sets its flag   *)
(* or its next time, or flushes its queue, all of it without the lock.     *)
(* SIGTERM comes before the database is open, or while an update of the    *)
(* sensors, the history of a second or a flush is at the queue the handler *)
(* is at.  Or history is off, when the deletes of the first flush use a    *)
(* database nobody opened.                                                 *)
(***************************************************************************)
UndefinedIsKnown ==
    [][~undefined /\ undefined' =>
         \/ main'.at = "reads" /\ stats'.at \in {"init", "first", "addresses"}
         \/ main'.at = "reads" /\ Asked[main'.i] \in Copied
            /\ stats'.at \in {"open", "entitlement", "ready", "times", "remove", "insert"}
         \/ main'.at = "finalize" /\ stats'.at = "open"
         \/ main'.at = "finalize" /\ stats'.at \in {"first", "holds", "remove", "insert"}
         \/ ~historyEnabled /\ stats'.at = "insert"]_vars

(***************************************************************************)
(* SIGTERM loses nothing, whatever the statistics thread is doing, unless  *)
(* both come to the same queue: what was queued, or executed in a          *)
(* transaction still open, is committed when the process ends.             *)
(***************************************************************************)
SigtermSaves == main.at = "exited" /\ ~undefined => owed \subseteq durable

(***************************************************************************)
(* SIGTERM ends the process even when it interrupts a reply that holds the *)
(* lock.                                                                   *)
(***************************************************************************)
SigtermEnds == (main.at = "finalize") ~> (main.at = "exited" \/ undefined)

(***************************************************************************)
(* A request is answered, or the process is told to end: the statistics    *)
(* thread does not keep the lock, nor the main thread for itself.          *)
(***************************************************************************)
RequestsAnswered ==
    (main.at = "wants") ~> (main.at \in {"idle", "finalize", "exited"} \/ undefined)
=============================================================================
