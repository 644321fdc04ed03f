------------------------------ MODULE Processes ------------------------------
(***************************************************************************)
(* The list of processes (src/src/stats/StatsProcesses.cpp): who is in it, *)
(* under which name, and the share of the processor each has used since it *)
(* was read before.                                                        *)
(*                                                                         *)
(* The system has, at a pid, nothing or a process: the program it runs and *)
(* the ticks it has used.  A program has a name, which the kernel cuts if  *)
(* it is long, and the words of its command line; a word holds the name or *)
(* does not, and ends in the part after its last slash.                    *)
(***************************************************************************)
EXTENDS Integers, Sequences, FiniteSets, SequencesExt

CONSTANTS Pids,      \* the process ids
          Programs,  \* what a process may run
          MaxTicks,  \* bound on the time a process uses
          Top,       \* how many processes an answer names
          MaxClock   \* bound on the time

ASSUME ProcessesAssumption ==
    /\ IsFiniteSet(Pids)
    /\ Top \in Nat \ {0}
    /\ MaxTicks \in Nat /\ MaxClock \in Nat
    /\ \A p \in Programs :
          /\ p.cut \in BOOLEAN /\ p.words \in Seq([holds : BOOLEAN, last : {p.name, p.full}])
          /\ p.threads \in Nat /\ p.size \in Nat

VARIABLES clock,   \* get_current_time, in seconds
          round,   \* 0, 1 or more updates: 0, 1 or 2
          world,   \* the processes of the system
          items,   \* _items, by pid
          counts,  \* processCount and threadCount
          seen,    \* the pids that could be read in the last update
          charged, \* by pid, the time told since it is listed
          spent,   \* by pid, the time its processes used since then
          other    \* pids that became another program while listed

processVars == <<clock, round, world, items, counts, seen, charged, spent, other>>

Nothing == <<>>

-----------------------------------------------------------------------------
(***************************************************************************)
(* The name: that of /proc/<pid>/status or, if it has the length at which  *)
(* the kernel cuts, that of the first word of the command line it is part  *)
(* of.                                                                     *)
(***************************************************************************)
NameFromCmd(program) ==
    LET words == SelectSeq(program.words, LAMBDA w : w.holds)
    IN  IF words = <<>> THEN program.name ELSE words[1].last

NameOf(program) == IF program.cut THEN NameFromCmd(program) ELSE program.name

-----------------------------------------------------------------------------
\* createProcess; the time of its last reading is not initialised.
NewProcess == [name |-> Nothing, new |-> TRUE, exists |-> TRUE, cpuTime |-> 0, last |-> 0,
               used |-> 0, over |-> 0, threads |-> 0, size |-> 0]

Listed(list, pids) ==
    [p \in DOMAIN list \cup pids |-> IF p \in DOMAIN list THEN list[p] ELSE NewProcess]

\* Wrong: a reading lower than the one before is not noticed.
MutReadStat(item, process) ==
    LET none == item.cpuTime = 0
        was  == IF none THEN process.ticks ELSE item.cpuTime
        last == IF none THEN clock ELSE item.last
    IN  [item EXCEPT !.used = IF clock > last THEN process.ticks - was ELSE 0,
                     !.over = clock - last, !.threads = process.program.threads,
                     !.size = process.program.size, !.cpuTime = process.ticks, !.last = clock]

(***************************************************************************)
(* What is made of /proc/<pid>/stat: the ticks used, and over how many     *)
(* seconds.  A time of 0 stands for none; a lower one than before is of    *)
(* another process and counts nothing.                                     *)
(***************************************************************************)
ReadStat(item, process) ==
    LET none == item.cpuTime = 0
        was  == IF none THEN process.ticks ELSE item.cpuTime
        last == IF none THEN clock ELSE item.last
    IN  [item EXCEPT !.used = IF clock > last /\ process.ticks > was
                              THEN process.ticks - was ELSE 0,
                     !.over = clock - last, !.threads = process.program.threads,
                     !.size = process.program.size, !.cpuTime = process.ticks, !.last = clock]

\* The name is read once.
Refreshed(item, process, readable) ==
    LET named == IF item.new
                 THEN [item EXCEPT !.name = NameOf(process.program), !.new = FALSE]
                 ELSE item
    IN  IF readable THEN ReadStat([named EXCEPT !.exists = TRUE], process)
        ELSE [named EXCEPT !.exists = FALSE]

PreparedItems(list) == [p \in DOMAIN list |-> [list[p] EXCEPT !.exists = FALSE]]

\* finishUpdate: what could not be read is taken off the list.
Finished(list) ==
    LET there == {p \in DOMAIN list : list[p].exists}
    IN  [p \in there |-> list[p]]

-----------------------------------------------------------------------------
(***************************************************************************)
(* What the system does until an update: processes start, run, run another *)
(* program and end, and a pid is given again.  One that ends while it is   *)
(* looked at is listed, and cannot be read.                                *)
(***************************************************************************)
Processes ==
    {Nothing}
        \cup {a \in [program : Programs, ticks : 0..MaxTicks, fresh : BOOLEAN, ends : BOOLEAN] :
                  a.ends => a.fresh /\ a.ticks = 0}

MayBe(p, after) ==
    after # Nothing /\ ~after.fresh =>
        world[p] # Nothing /\ after.ticks >= world[p].ticks

Used(p, after) ==
    IF after[p].fresh THEN after[p].ticks ELSE after[p].ticks - world[p].ticks

(***************************************************************************)
(* An update.  The first, at the start, is neither prepared nor finished.  *)
(***************************************************************************)
UpdateProcesses(after, late) ==
    LET there    == {p \in Pids : after[p] # Nothing}
        readable == {p \in there : ~after[p].ends}
        listed == Listed(IF round = 0 THEN items ELSE PreparedItems(items), there)
        done   == [p \in DOMAIN listed |->
                      IF p \in there THEN Refreshed(listed[p], after[p], p \in readable)
                      ELSE listed[p]]
        kept   == DOMAIN (IF round = 0 THEN done ELSE Finished(done))
        before == kept \cap DOMAIN items
        stays  == {p \in before : items[p].exists}
    IN  /\ clock < MaxClock
        /\ clock' = clock + late
        /\ round' = IF round = 0 THEN 1 ELSE 2
        /\ world' = [p \in Pids |-> IF p \in readable THEN after[p] ELSE Nothing]
        /\ items' = [p \in kept |-> done[p]]
        /\ counts' = [processes |-> Cardinality(there),
                      threads   |-> FoldSet(LAMBDA p, n : n + after[p].program.threads,
                                            0, readable)]
        /\ seen' = readable
        /\ charged' = [p \in kept |-> done[p].used + IF p \in stays THEN charged[p] ELSE 0]
        /\ spent' = [p \in kept |-> IF p \in stays /\ p \in readable
                                    THEN spent[p] + Used(p, after) ELSE 0]
        /\ other' = (other \cap before)
                    \cup {p \in before : p \in there =>
                             after[p].fresh \/ after[p].program # world[p].program}

InitProcesses ==
    /\ clock = 1
    /\ round = 0
    /\ world = [p \in Pids |-> Nothing]
    /\ items = [p \in {} |-> NewProcess]
    /\ counts = [processes |-> 0, threads |-> 0]
    /\ seen = {}
    /\ charged = [p \in {} |-> 0]
    /\ spent = [p \in {} |-> 0]
    /\ other = {}

NextProcesses ==
    \E late \in 1..2, after \in [Pids -> Processes] :
        /\ \A p \in Pids : MayBe(p, after[p])
        /\ UpdateProcesses(after, late)

-----------------------------------------------------------------------------
(***************************************************************************)
(* isr_process_data: the Top processes by use of the processor or by size; *)
(* which of two alike comes first is open.                                 *)
(***************************************************************************)
Before(order, a, b) ==
    IF order = "size" THEN a.size > b.size ELSE a.used * b.over > b.used * a.over

Answers(order) ==
    LET sorted == {s \in SetToSeqs(DOMAIN items) :
                      \A i, j \in DOMAIN s : i < j => ~Before(order, items[s[j]], items[s[i]])}
    IN  {SubSeq(s, 1, IF Len(s) < Top THEN Len(s) ELSE Top) : s \in sorted}

AnswersOfProcesses == Answers("used") \cup Answers("size")

(***************************************************************************)
(* What a client is told of processes: those that could be read in the     *)
(* last update and no other, none twice, and no more than there are; each  *)
(* under the name of its program, with time it has used since it is        *)
(* listed, none of it twice and, if it had used some by then, all of it.   *)
(* A pid given again, or a program replaced, between two updates keeps its *)
(* name and may be told less than it used, never more.  The first update   *)
(* is an exception: it removes nothing, so that what was found and could   *)
(* not be read is told of, too.                                            *)
(***************************************************************************)
ProcessesAreTold ==
    /\ \A answer \in AnswersOfProcesses :
          /\ IsInjective(answer)
          /\ Len(answer) <= counts.processes
          /\ Top >= Cardinality(DOMAIN items) => seen \subseteq ToSet(answer)
          /\ round = 2 => ToSet(answer) \subseteq seen
    /\ \A p \in DOMAIN items :
          /\ 0 <= items[p].used
          /\ charged[p] <= spent[p]
          /\ p \in seen \ other =>
                /\ items[p].name = NameOf(world[p].program)
                /\ world[p].ticks > spent[p] => charged[p] = spent[p]
=============================================================================
