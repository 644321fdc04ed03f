------------------------------ MODULE Sessions ------------------------------
(***************************************************************************)
(* Who the server knows: the handshake a client goes through on its        *)
(* connection (messages 100 to 103 of parse, src/src/Socket.cpp), the list *)
(* of authorised devices (src/src/Clientset.cpp) and its file clients.dat, *)
(* over crashes, restarts, failing writes and `istatserver                 *)
(* --clear-sessions` run beside the daemon.  The main thread does one      *)
(* thing at a time, but a save is many writes: between any two of them the *)
(* process can die or the other one can unlink the file.                   *)
(*                                                                         *)
(* A name is a text of the client's choosing: the sequence of its lines,   *)
(* of which it has more than one when it holds a newline.  A line is the   *)
(* sequence of the words that explode(line, ":") finds in it.              *)
(***************************************************************************)
EXTENDS Naturals, Sequences, SequencesExt

CONSTANTS Conn,       \* connections, each a socket with a _uuid of its own
          NoConn,     \* no connection
          Word,       \* words, without a colon
          Granted,    \* those that to_int() makes 1
          Shorter,    \* what a word may be cut to
          UUID,       \* the names that clients give themselves
          Offline,    \* no such connection at present
          OldFiles,   \* what clients.dat may hold before this version first runs
          MaxAuth     \* bound on the list of authorised devices

Line == Seq(Word)
Name == Seq(Line)

\* The empty string, a socket's _uuid before a 101.
NoUuid == <<<<>>>>

ASSUME SessionsAssumption ==
    /\ NoConn \notin Conn
    /\ Granted \subseteq Word
    /\ Shorter \in [Word -> SUBSET Word]
    /\ \A w \in Word : \A v \in Shorter[w] : Shorter[v] \subseteq Shorter[w]
    /\ UUID \subseteq Name /\ NoUuid \in UUID
    /\ Offline \notin UUID
    /\ OldFiles \subseteq Seq(Line)
    /\ MaxAuth \in Nat

VARIABLES up,      \* the process runs
          auth,    \* authenticatedClients
          disk,    \* the lines of clients.dat, none when it does not exist
          session, \* _uuid of each connection
          reply,   \* what was last sent on each connection
          saving,  \* the connection whose authenticate() is saving
          written, \* how many devices the save has gone through
          out      \* its ofstream: "good", "bad", or of an "unlinked" file

\* What has happened, for the properties.
VARIABLES proved,  \* devices that gave the right passcode, ever
          told,    \* devices told so (103), since the list was last reset
          lost,    \* devices a crash has lost while the file was behind
          stale    \* the file is behind the list: mid-save, or a save failed

processVars == <<up, auth, session, reply>>
saveVars    == <<disk, saving, written, out>>
historyVars == <<proved, told, lost, stale>>
vars        == <<processVars, saveVars, historyVars>>

Elems(seq) == {seq[i] : i \in 1 .. Len(seq)}

-----------------------------------------------------------------------------
(***************************************************************************)
(* The devices a line of clients.dat authorises, by what it holds and not  *)
(* by who wrote it.  save_cache() writes names, one word as a rule; an     *)
(* older form is host:uuid:flag, of which only flag 1 counts.              *)
(***************************************************************************)
Alone(word) == <<<<word>>>>

\* Wrong: the flag of an old line is not looked at.
MutNamesOf(line) ==
    IF Len(line) > 1 THEN IF Len(line) < 3 THEN <<>> ELSE <<Alone(line[2])>>
    ELSE IF Len(line) = 1 THEN <<<<line>>>> ELSE <<>>

NamesOf(line) ==
    IF Len(line) > 1
    THEN IF Len(line) >= 3 /\ line[3] \in Granted THEN <<Alone(line[2])>> ELSE <<>>
    ELSE IF Len(line) = 1 THEN <<<<line>>>> ELSE <<>>

\* read_cache()
ReadCache(lines) == FlattenSeq([i \in 1 .. Len(lines) |-> NamesOf(lines[i])])

\* What save_cache() makes of a list of names.
Written(names) == FlattenSeq(names)

(***************************************************************************)
(* What a write may leave of a name if it fails: lines, and of a further   *)
(* one some words and a part of a word.                                    *)
(***************************************************************************)
LineCut(line) ==
    {SubSeq(line, 1, k) : k \in 0 .. Len(line)}
        \cup UNION {{Append(SubSeq(line, 1, k - 1), w) : w \in Shorter[line[k]]} :
                       k \in 1 .. Len(line)}

Cut(name) ==
    {<<>>} \cup UNION {{Append(SubSeq(name, 1, k - 1), rest) : rest \in LineCut(name[k])} :
                         k \in 1 .. Len(name)}

\* is_authenticated()
IsAuthenticated(u) == u \in Elems(auth)

Idle == up /\ saving = NoConn

Answer(c, what) == reply' = [reply EXCEPT ![c] = what]

-----------------------------------------------------------------------------
\* The device that a line of either form stands for, if it does for one.
Authorises(line) ==
    IF Len(line) = 1 THEN {<<line>>}
    ELSE IF Len(line) >= 3 /\ line[3] \in Granted THEN {Alone(line[2])} ELSE {}

Init ==
    /\ disk \in OldFiles
    /\ up = TRUE
    /\ auth = ReadCache(disk)
    /\ session = [c \in Conn |-> Offline]
    /\ reply = [c \in Conn |-> "none"]
    /\ saving = NoConn
    /\ written = 0
    /\ out = "good"
    \* devices an older version had granted
    /\ proved = UNION {Authorises(disk[i]) : i \in 1 .. Len(disk)}
    /\ told = {}
    /\ lost = {}
    /\ stale = FALSE

Connect(c) ==
    /\ Idle
    /\ session[c] = Offline
    /\ session' = [session EXCEPT ![c] = NoUuid]
    /\ UNCHANGED <<up, auth, reply, saveVars, historyVars>>

Disconnect(c) ==
    /\ Idle
    /\ session[c] # Offline
    /\ session' = [session EXCEPT ![c] = Offline]
    /\ Answer(c, "none")
    /\ UNCHANGED <<up, auth, saveVars, historyVars>>

\* 100: the protocol is noted, the connection accepted.
Hello(c) ==
    /\ Idle
    /\ session[c] # Offline
    /\ Answer(c, "hello")
    /\ UNCHANGED <<up, auth, session, saveVars, historyVars>>

\* 101: the client names itself and hears whether it must give the passcode.
Identify(c, u) ==
    /\ Idle
    /\ session[c] # Offline
    /\ session' = [session EXCEPT ![c] = u]
    /\ Answer(c, IF IsAuthenticated(u) THEN "known" ELSE "ask")
    /\ UNCHANGED <<up, auth, saveVars, historyVars>>

(***************************************************************************)
(* 102: with the right passcode authenticate() appends the device - again, *)
(* if it was there - and save_cache() opens the file, which truncates it,  *)
(* or cannot open it and returns.  The client is told in either case.      *)
(***************************************************************************)
Passcode(c) ==
    /\ Idle
    /\ session[c] # Offline
    /\ Len(auth) < MaxAuth
    /\ auth' = Append(auth, session[c])
    /\ proved' = proved \cup {session[c]}
    /\ UNCHANGED <<up, session>>

PasscodeSaves(c) ==
    /\ Passcode(c)
    /\ disk' = <<>>
    /\ saving' = c
    /\ written' = 0
    /\ out' = "good"
    /\ stale' = TRUE
    /\ UNCHANGED <<reply, told, lost>>

PasscodeNotSaved(c) ==
    /\ Passcode(c)
    /\ Answer(c, "accepted")
    /\ told' = told \cup {session[c]}
    /\ lost' = lost \ {session[c]}
    /\ stale' = TRUE
    /\ UNCHANGED saveVars

WrongPasscode(c) ==
    /\ Idle
    /\ session[c] # Offline
    /\ Answer(c, "rejected")
    /\ UNCHANGED <<up, auth, session, saveVars, historyVars>>

\* 103: the samples go to a device that is authorised, an empty reply to others.
Query(c) ==
    /\ Idle
    /\ session[c] # Offline
    /\ Answer(c, IF IsAuthenticated(session[c]) THEN "data" ELSE "empty")
    /\ UNCHANGED <<up, auth, session, saveVars, historyVars>>

-----------------------------------------------------------------------------
\* Wrong: the first device of the list is passed over.
MutSaveLine ==
    /\ saving # NoConn
    /\ written < Len(auth)
    /\ disk' = IF out = "good" /\ written > 0 THEN disk \o auth[written + 1] ELSE disk
    /\ written' = written + 1
    /\ UNCHANGED <<processVars, saving, out, historyVars>>

\* One name and a newline, flushed by endl; a stream gone bad ignores it.
SaveLine ==
    /\ saving # NoConn
    /\ written < Len(auth)
    /\ disk' = IF out = "good" THEN disk \o auth[written + 1] ELSE disk
    /\ written' = written + 1
    /\ UNCHANGED <<processVars, saving, out, historyVars>>

\* The write fails (the disk is full), maybe half way, and nobody looks.
SaveLineFails ==
    /\ saving # NoConn
    /\ written < Len(auth)
    /\ out = "good"
    /\ \E rest \in Cut(auth[written + 1]) : disk' = disk \o rest
    /\ written' = written + 1
    /\ out' = "bad"
    /\ UNCHANGED <<processVars, saving, historyVars>>

\* out.close(), and authenticate() returns to parse.
SaveEnds ==
    /\ saving # NoConn
    /\ written = Len(auth)
    /\ saving' = NoConn
    /\ Answer(saving, "accepted")
    /\ told' = told \cup {session[saving]}
    /\ lost' = lost \ {session[saving]}
    /\ stale' = (out # "good")
    /\ UNCHANGED <<up, auth, session, disk, written, out, proved>>

-----------------------------------------------------------------------------
(***************************************************************************)
(* The process ends: a crash, or a signal, whose handler saves no clients  *)
(* and may have interrupted a save.  The file keeps what it holds.         *)
(***************************************************************************)
Stop ==
    /\ up
    /\ up' = FALSE
    /\ auth' = <<>>
    /\ session' = [c \in Conn |-> Offline]
    /\ reply' = [c \in Conn |-> "none"]
    /\ saving' = NoConn
    /\ written' = 0
    /\ out' = "good"
    /\ lost' = IF stale THEN lost \cup (told \ Elems(ReadCache(disk))) ELSE lost
    /\ stale' = FALSE
    /\ UNCHANGED <<disk, proved, told>>

\* Wrong: the first line of the file is passed over.
MutStart ==
    /\ ~up
    /\ up' = TRUE
    /\ auth' = IF disk = <<>> THEN <<>> ELSE ReadCache(Tail(disk))
    /\ UNCHANGED <<session, reply, saveVars, historyVars>>

Start ==
    /\ ~up
    /\ up' = TRUE
    /\ auth' = ReadCache(disk)
    /\ UNCHANGED <<session, reply, saveVars, historyVars>>

(***************************************************************************)
(* Another process, started with --clear-sessions, unlinks clients.dat.  A *)
(* daemon that runs is not told: it keeps its list, and a save that has    *)
(* the file open goes on writing to what has no name any more.             *)
(***************************************************************************)
ClearSessions ==
    /\ disk # <<>> \/ saving # NoConn
    /\ disk' = <<>>
    /\ out' = IF saving # NoConn /\ out = "good" THEN "unlinked" ELSE out
    /\ stale' = up
    /\ told' = {}
    /\ lost' = {}
    /\ UNCHANGED <<processVars, saving, written, proved>>

Request(c) ==
    \/ Hello(c)
    \/ \E u \in UUID : Identify(c, u)
    \/ PasscodeSaves(c)
    \/ PasscodeNotSaved(c)
    \/ WrongPasscode(c)
    \/ Query(c)

Next ==
    \/ \E c \in Conn : Connect(c) \/ Disconnect(c) \/ Request(c)
    \/ SaveLine
    \/ SaveLineFails
    \/ SaveEnds
    \/ Stop
    \/ Start
    \/ ClearSessions

Spec == Init /\ [][Next]_vars

-----------------------------------------------------------------------------
TypeOK ==
    /\ up \in BOOLEAN
    /\ auth \in Seq(Name)
    /\ disk \in Seq(Line)
    /\ session \in [Conn -> UUID \cup {Offline}]
    /\ reply \in [Conn -> {"none", "hello", "ask", "known", "accepted",
                           "rejected", "data", "empty"}]
    /\ saving \in Conn \cup {NoConn}
    /\ written \in 0 .. Len(auth)
    /\ out \in {"good", "bad", "unlinked"}
    /\ proved \subseteq Name /\ told \subseteq UUID
    /\ lost \subseteq UUID
    /\ stale \in BOOLEAN

(***************************************************************************)
(* Samples were sent only on a connection whose present name belongs to a  *)
(* device that has given the passcode to this or an earlier run of the     *)
(* server, or that is vouched for by the name of one that has: what a save *)
(* writes of that name is read, after a restart, as a line that authorises *)
(* it.  x:B:1 vouches for B, a name with a newline for each of its lines,  *)
(* and a name that a full disk cut short for what is left of it; and they  *)
(* for what is left of theirs.  The name and the answer change on one      *)
(* connection, the list on another, the file over restarts.                *)
(***************************************************************************)
Spells(name) ==
    UNION {Authorises(line) : line \in UNION {Elems(lines) : lines \in Cut(name)}}

VouchedFor(names) == names \cup UNION {Spells(name) : name \in names}

DataOnlyToProved ==
    \A c \in Conn : reply[c] = "data" => session[c] \in VouchedFor(VouchedFor(proved))

(***************************************************************************)
(* The file holds what a restart reads as a beginning of the list in       *)
(* memory, or what a save writes of one, cut in a name if a write failed;  *)
(* and of all of the list unless a save is under way or the last one       *)
(* failed or the file was removed meanwhile.                               *)
(***************************************************************************)
FileFollowsList ==
    up => /\ \/ IsPrefix(ReadCache(disk), auth)
             \/ \E n \in 1 .. Len(auth) : \E rest \in Cut(auth[n]) :
                  disk = Written(SubSeq(auth, 1, n - 1)) \o rest
          /\ ~stale => ReadCache(disk) = auth \/ disk = Written(auth)

(***************************************************************************)
(* A device that was told it is authorised stays so, over restarts too,    *)
(* unless its name is not read back from its line, the process ended while *)
(* the file was behind the list, or the list was reset.                    *)
(***************************************************************************)
Unreadable == {u \in UUID : u \notin Elems(ReadCache(u))}

Remembered ==
    up => \A u \in told \ (Unreadable \cup lost) : IsAuthenticated(u)
=============================================================================
