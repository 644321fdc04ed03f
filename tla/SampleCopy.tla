------------------------------ MODULE SampleCopy ------------------------------
(***************************************************************************)
(* What polling promises about each series of samples: within a session of *)
(* the server the client's copy only grows, by a run of samples that       *)
(* follows what it has, and leaves out only what the server no longer      *)
(* holds.                                                                  *)
(***************************************************************************)
EXTENDS Integers, Sequences, SequencesExt

CONSTANT Series

VARIABLES session, \* the run of the server
          log,     \* of each series, what there was since that run began, oldest first
          held,    \* position in log of the oldest sample still held
          copy     \* what the client has of the session

vars == <<session, log, held, copy>>

None == [s \in Series |-> <<>>]

Init ==
    /\ log = None
    /\ copy = None

\* A sample is taken, and old ones may be given up; or nothing happens.
Measure(s) ==
    /\ Len(log'[s]) \in Len(log[s]) .. Len(log[s]) + 1
    /\ IsPrefix(log[s], log'[s])
    /\ held'[s] >= held[s]
    /\ copy'[s] = copy[s]

\* Where the copy ends in the log; 0 when there is no copy.
Position(s) == IF copy[s] = <<>> THEN 0
               ELSE SelectInSeq(log[s], LAMBDA x : x = Last(copy[s]))

\* The samples from..to arrive.
Receive(s, from, to) ==
    /\ from > Position(s)
    /\ \A n \in Position(s) + 1 .. from - 1 : n < held[s]
    /\ copy'[s] = copy[s] \o SubSeq(log[s], from, to)
    /\ log'[s] = log[s]
    /\ held'[s] = held[s]

\* The server begins again, and copies of the run before are worth nothing.
Restart ==
    /\ session' # session
    /\ copy' = None

Next ==
    \/ /\ session' = session
       /\ \A s \in Series :
             \/ Measure(s)
             \/ \E from, to \in 1 .. Len(log[s]) : Receive(s, from, to)
    \/ Restart

Spec == Init /\ [][Next]_vars
=============================================================================
