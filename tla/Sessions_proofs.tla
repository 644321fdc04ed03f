--------------------------- MODULE Sessions_proofs ---------------------------
(***************************************************************************)
(* Proofs about the authorised devices, for any number of connections and  *)
(* devices, any names, any way to cut a word and any bound on the list.    *)
(***************************************************************************)
EXTENDS Sessions, SequenceFacts, TLAPS

Vouched == VouchedFor(VouchedFor(proved))

(***************************************************************************)
(* The inductive invariant.  What a restart would authorise is vouched     *)
(* for; while a save goes well the file holds the part of the list it has  *)
(* gone through, and a save is not given up but by the process's end.      *)
(***************************************************************************)
ListIsVouched == Elems(auth) \subseteq Vouched

FileIsVouched == Elems(ReadCache(disk)) \subseteq Vouched

DataIsNamed == \A c \in Conn : reply[c] = "data" => session[c] \in UUID

SaveIsUnderWay ==
    saving # NoConn =>
        /\ up /\ stale
        /\ session[saving] \in UUID /\ session[saving] \in Elems(auth)
        /\ out = "good" => disk = Written(SubSeq(auth, 1, written))

StoppedIsIdle == ~up => written = 0

FileRemembers ==
    ~up => told \ (Unreadable \cup lost) \subseteq Elems(ReadCache(disk))

IInv ==
    /\ TypeOK
    /\ ListIsVouched
    /\ FileIsVouched
    /\ DataOnlyToProved
    /\ DataIsNamed
    /\ SaveIsUnderWay
    /\ FileFollowsList
    /\ Remembered
    /\ FileRemembers
    /\ StoppedIsIdle

-----------------------------------------------------------------------------
(***************************************************************************)
(* Sequences.                                                              *)
(***************************************************************************)

\* Appending adds an element.
LEMMA ElemsAppend ==
  ASSUME NEW T, NEW s \in Seq(T), NEW e \in T
  PROVE  Elems(Append(s, e)) = Elems(s) \cup {e}
<1> DEFINE t == Append(s, e)
<1>1. /\ Len(s) \in Nat /\ Len(t) = Len(s) + 1
      /\ \A i \in 1 .. Len(s) : t[i] = s[i]
      /\ t[Len(s) + 1] = e
  BY AppendProperties
<1>2. 1 .. Len(t) = (1 .. Len(s)) \cup {Len(s) + 1}
  BY <1>1
<1> HIDE DEF t
<1>3. Elems(t) = Elems(s) \cup {e}
  BY <1>1, <1>2 DEF Elems
<1> QED
  BY <1>3 DEF t

\* Two sequences joined have the elements of both.
LEMMA ElemsConcat ==
  ASSUME NEW T, NEW s \in Seq(T), NEW t \in Seq(T)
  PROVE  Elems(s \o t) = Elems(s) \cup Elems(t)
<1> DEFINE q == s \o t
           m == Len(s)
           n == Len(t)
<1>1. /\ m \in Nat /\ n \in Nat /\ Len(q) = m + n
      /\ \A i \in 1 .. m + n : q[i] = IF i <= m THEN s[i] ELSE t[i - m]
  BY ConcatProperties
<1> HIDE DEF q, m, n
<1>2. Elems(q) \subseteq Elems(s) \cup Elems(t)
  <2> SUFFICES ASSUME NEW i \in 1 .. m + n PROVE q[i] \in Elems(s) \cup Elems(t)
    BY <1>1 DEF Elems
  <2>1. CASE i <= m
    <3>1. i \in 1 .. m
      BY <1>1, <2>1
    <3> QED
      BY <1>1, <2>1, <3>1 DEF Elems, m
  <2>2. CASE ~(i <= m)
    <3>1. i - m \in 1 .. n
      BY <1>1, <2>2
    <3> QED
      BY <1>1, <2>2, <3>1 DEF Elems, n
  <2> QED
    BY <2>1, <2>2
<1>3. ASSUME NEW i \in 1 .. m PROVE s[i] \in Elems(q)
  <2>1. i \in 1 .. m + n /\ i <= m
    BY <1>1
  <2> QED
    BY <1>1, <2>1 DEF Elems
<1>4. ASSUME NEW i \in 1 .. n PROVE t[i] \in Elems(q)
  <2>1. i + m \in 1 .. m + n /\ ~(i + m <= m) /\ (i + m) - m = i
    BY <1>1
  <2>2. q[i + m] = t[i]
    BY <1>1, <2>1
  <2> QED
    BY <1>1, <2>1, <2>2 DEF Elems
<1>5. Elems(s) \subseteq Elems(q) /\ Elems(t) \subseteq Elems(q)
  BY <1>3, <1>4 DEF Elems, m, n
<1> QED
  BY <1>2, <1>5 DEF q

\* Many sequences joined have the elements of each.
LEMMA ElemsFlatten ==
  ASSUME NEW T, NEW seqs \in Seq(Seq(T))
  PROVE  /\ FlattenSeq(seqs) \in Seq(T)
         /\ Elems(FlattenSeq(seqs)) = UNION {Elems(s) : s \in Elems(seqs)}
<1> DEFINE V == Seq(T)
           none == <<>>
           Of(ss) == UNION {Elems(s) : s \in Elems(ss)}
           W == {ss \in Seq(V) : FlattenSeq(ss) \in V /\ Elems(FlattenSeq(ss)) = Of(ss)}
<1>1. none \in W
  <2>1. none \in Seq(V) /\ FlattenSeq(none) = none /\ none \in V /\ Len(none) = 0
    BY FlattenNone, EmptySeq
  <2>2. Elems(none) = {}
    BY <2>1 DEF Elems
  <2> HIDE DEF none
  <2> QED
    BY <2>1, <2>2
<1>2. ASSUME NEW ss \in Seq(V), NEW s \in V, ss \in W PROVE Append(ss, s) \in W
  <2> DEFINE more == Append(ss, s)
             f == FlattenSeq(ss)
  <2>1. more \in Seq(V) /\ Elems(more) = Elems(ss) \cup {s}
    BY ElemsAppend, AppendProperties
  <2>2. FlattenSeq(more) = f \o s /\ f \in Seq(T) /\ s \in Seq(T)
    BY FlattenAppend
  <2>3. f \o s \in V /\ Elems(f \o s) = Elems(f) \cup Elems(s)
    BY <2>2, ElemsConcat, ConcatProperties
  <2>4. Elems(f) = Of(ss)
    BY <1>2
  <2> HIDE DEF more, f
  <2>5. Of(more) = Of(ss) \cup Elems(s)
    BY <2>1
  <2>6. more \in W
    BY <2>1, <2>2, <2>3, <2>4, <2>5
  <2> QED
    BY <2>6 DEF more
<1> HIDE DEF W
<1>3. \A ss \in Seq(V) : ss \in W
  <2> HIDE DEF V, none
  <2>1. <<>> \in W
    BY <1>1 DEF none
  <2> QED
    BY <1>2, <2>1, SeqSetInduction
<1> QED
  BY <1>3 DEF W

\* What begins a sequence begins it still when an element is appended.
LEMMA PrefixAppend ==
  ASSUME NEW T, NEW s \in Seq(T), NEW t \in Seq(T), NEW e \in T, IsPrefix(s, t)
  PROVE  IsPrefix(s, Append(t, e))
BY DEF IsPrefix

\* A sequence begins itself.
LEMMA PrefixSelf ==
  ASSUME NEW T, NEW s \in Seq(T)
  PROVE  IsPrefix(s, s) /\ IsPrefix(<<>>, s)
BY DEF IsPrefix

-----------------------------------------------------------------------------
(***************************************************************************)
(* What is read of lines.                                                  *)
(***************************************************************************)

\* What is read of one line is a name, the device it authorises, or nothing.
LEMMA NamesOfType ==
  ASSUME NEW line \in Line
  PROVE  NamesOf(line) \in Seq(Name) /\ Elems(NamesOf(line)) = Authorises(line)
<1>1. line \in Seq(Word) /\ Len(line) \in Nat
  BY DEF Line
<1>2. \A n \in Name : <<n>> \in Seq(Name) /\ Elems(<<n>>) = {n}
  BY DEF Elems
<1>3. <<>> \in Seq(Name) /\ Elems(<<>>) = {}
  BY DEF Elems
<1>4. CASE Len(line) = 1
  <2>1. <<line>> \in Name
    BY DEF Name
  <2>2. NamesOf(line) = <<<<line>>>> /\ Authorises(line) = {<<line>>}
    BY <1>4 DEF NamesOf, Authorises
  <2> QED
    BY <1>2, <2>1, <2>2
<1>5. CASE Len(line) >= 3 /\ line[3] \in Granted
  <2>1. line[2] \in Word
    BY <1>1, <1>5
  <2>2. Alone(line[2]) \in Name
    BY <2>1 DEF Name, Line, Alone
  <2>3. NamesOf(line) = <<Alone(line[2])>> /\ Authorises(line) = {Alone(line[2])}
    BY <1>1, <1>5 DEF NamesOf, Authorises
  <2> QED
    BY <1>2, <2>2, <2>3
<1>6. CASE Len(line) # 1 /\ ~(Len(line) >= 3 /\ line[3] \in Granted)
  <2>1. NamesOf(line) = <<>> /\ Authorises(line) = {}
    BY <1>1, <1>6 DEF NamesOf, Authorises
  <2> QED
    BY <1>3, <2>1
<1> QED
  BY <1>4, <1>5, <1>6

\* What is read of lines are names, those of the devices they authorise.
LEMMA ReadCacheType ==
  ASSUME NEW lines \in Seq(Line)
  PROVE  /\ ReadCache(lines) \in Seq(Name)
         /\ Elems(ReadCache(lines)) = UNION {Authorises(line) : line \in Elems(lines)}
<1> DEFINE read == [i \in 1 .. Len(lines) |-> NamesOf(lines[i])]
<1>1. Len(lines) \in Nat /\ \A i \in 1 .. Len(lines) : lines[i] \in Line
  OBVIOUS
<1>2. \A i \in 1 .. Len(lines) : read[i] \in Seq(Name) /\ Elems(read[i]) = Authorises(lines[i])
  BY <1>1, NamesOfType
<1>3. read \in Seq(Seq(Name)) /\ Len(read) = Len(lines)
  BY <1>1, <1>2
<1>4. ReadCache(lines) = FlattenSeq(read)
  BY DEF ReadCache
<1> HIDE DEF read
<1>5. /\ FlattenSeq(read) \in Seq(Name)
      /\ Elems(FlattenSeq(read)) = UNION {Elems(s) : s \in Elems(read)}
  BY <1>3, ElemsFlatten
<1>6. UNION {Elems(s) : s \in Elems(read)} = UNION {Authorises(line) : line \in Elems(lines)}
  <2>1. ASSUME NEW u, NEW s \in Elems(read), u \in Elems(s)
        PROVE  \E line \in Elems(lines) : u \in Authorises(line)
    <3>1. PICK i \in 1 .. Len(lines) : s = read[i]
      BY <1>3, <2>1 DEF Elems
    <3>2. lines[i] \in Elems(lines) /\ u \in Authorises(lines[i])
      BY <1>2, <2>1, <3>1 DEF Elems
    <3> QED
      BY <3>2
  <2>2. ASSUME NEW u, NEW line \in Elems(lines), u \in Authorises(line)
        PROVE  \E s \in Elems(read) : u \in Elems(s)
    <3>1. PICK i \in 1 .. Len(lines) : line = lines[i]
      BY <2>2 DEF Elems
    <3>2. read[i] \in Elems(read) /\ u \in Elems(read[i])
      BY <1>2, <1>3, <2>2, <3>1 DEF Elems
    <3> QED
      BY <3>2
  <2> QED
    BY <2>1, <2>2
<1> QED
  BY <1>4, <1>5, <1>6

\* Of an empty file nothing is read.
LEMMA ReadCacheEmpty == ReadCache(<<>>) = <<>> /\ Elems(ReadCache(<<>>)) = {}
<1> DEFINE none == <<>>
           r == ReadCache(none)
<1>1. none \in Seq(Line) /\ Len(none) = 0
  BY EmptySeq
<1>2. Elems(none) = {}
  BY <1>1 DEF Elems
<1>3. r \in Seq(Name) /\ Elems(r) = {}
  <2> HIDE DEF none
  <2> QED
    BY <1>1, <1>2, ReadCacheType
<1> HIDE DEF r
<1>4. Len(r) = 0
  <2>1. Len(r) \in Nat
    BY <1>3
  <2>2. Len(r) # 0 => r[1] \in Elems(r)
    BY <2>1 DEF Elems
  <2> QED
    BY <1>3, <2>2
<1>5. r = <<>>
  BY <1>3, <1>4, EmptySeq
<1> QED
  BY <1>3, <1>5 DEF r

\* A device whose name is read back is read from any file that holds it.
LEMMA NameIsRead ==
  ASSUME NEW names \in Seq(Name), NEW u \in Elems(names), u \in Elems(ReadCache(u))
  PROVE  /\ Written(names) \in Seq(Line)
         /\ u \in Elems(ReadCache(Written(names)))
<1>1. names \in Seq(Seq(Line))
  BY DEF Name
<1>2. /\ Written(names) \in Seq(Line)
      /\ Elems(Written(names)) = UNION {Elems(s) : s \in Elems(names)}
  BY <1>1, ElemsFlatten DEF Written
<1>3. u \in Seq(Line)
  BY <1>1 DEF Elems
<1>4. PICK line \in Elems(u) : u \in Authorises(line)
  BY <1>3, ReadCacheType
<1>5. line \in Elems(Written(names))
  BY <1>2, <1>4
<1> QED
  BY <1>2, <1>4, <1>5, ReadCacheType

-----------------------------------------------------------------------------
(***************************************************************************)
(* What a name vouches for.                                                *)
(***************************************************************************)

\* What may be left of a line, of a name.
LEMMA LineCutHas ==
  ASSUME NEW line, NEW rest
  PROVE  rest \in LineCut(line) <=>
           \/ \E k \in 0 .. Len(line) : rest = SubSeq(line, 1, k)
           \/ \E k \in 1 .. Len(line) : \E w \in Shorter[line[k]] :
                rest = Append(SubSeq(line, 1, k - 1), w)
<1> DEFINE Whole == {SubSeq(line, 1, k) : k \in 0 .. Len(line)}
           Part(k) == {Append(SubSeq(line, 1, k - 1), w) : w \in Shorter[line[k]]}
<1>1. rest \in Whole <=> \E k \in 0 .. Len(line) : rest = SubSeq(line, 1, k)
  OBVIOUS
<1>2. \A k : rest \in Part(k) <=> \E w \in Shorter[line[k]] :
                                    rest = Append(SubSeq(line, 1, k - 1), w)
  OBVIOUS
<1>3. LineCut(line) = Whole \cup UNION {Part(k) : k \in 1 .. Len(line)}
  BY DEF LineCut
<1> HIDE DEF Whole, Part
<1>4. rest \in LineCut(line) <=> rest \in Whole \/ \E k \in 1 .. Len(line) : rest \in Part(k)
  BY <1>3
<1> QED
  BY <1>1, <1>2, <1>4

LEMMA CutHas ==
  ASSUME NEW name, NEW lines
  PROVE  lines \in Cut(name) <=>
           \/ lines = <<>>
           \/ \E k \in 1 .. Len(name) : \E rest \in LineCut(name[k]) :
                lines = Append(SubSeq(name, 1, k - 1), rest)
<1> DEFINE Part(k) == {Append(SubSeq(name, 1, k - 1), rest) : rest \in LineCut(name[k])}
<1>1. \A k : lines \in Part(k) <=> \E rest \in LineCut(name[k]) :
                                     lines = Append(SubSeq(name, 1, k - 1), rest)
  OBVIOUS
<1>2. Cut(name) = {<<>>} \cup UNION {Part(k) : k \in 1 .. Len(name)}
  BY DEF Cut
<1> HIDE DEF Part
<1>3. lines \in Cut(name) <=> lines = <<>> \/ \E k \in 1 .. Len(name) : lines \in Part(k)
  BY <1>2
<1> QED
  BY <1>1, <1>3

\* What may be left of a line is a line.
LEMMA LineCutType ==
  ASSUME NEW line \in Line
  PROVE  /\ LineCut(line) \subseteq Line
         /\ line \in LineCut(line) /\ <<>> \in LineCut(line)
<1> USE SessionsAssumption
<1>1. line \in Seq(Word) /\ Len(line) \in Nat
  BY DEF Line
<1>2. \A k \in 0 .. Len(line) : SubSeq(line, 1, k) \in Seq(Word)
  BY <1>1
<1>3. ASSUME NEW k \in 1 .. Len(line), NEW w \in Shorter[line[k]]
      PROVE  Append(SubSeq(line, 1, k - 1), w) \in Seq(Word)
  <2>1. k - 1 \in 0 .. Len(line) /\ line[k] \in Word
    BY <1>1
  <2>2. w \in Word
    BY <2>1
  <2>3. SubSeq(line, 1, k - 1) \in Seq(Word)
    BY <1>2, <2>1
  <2> QED
    BY <2>2, <2>3, AppendProperties
<1>4. SubSeq(line, 1, Len(line)) = line /\ SubSeq(line, 1, 0) = <<>>
  BY <1>1, SubSeqFull, SubSeqEmpty
<1>5. LineCut(line) \subseteq Line
  <2> SUFFICES ASSUME NEW rest \in LineCut(line) PROVE rest \in Line
    OBVIOUS
  <2> QED
    BY <1>2, <1>3, LineCutHas DEF Line
<1>6. Len(line) \in 0 .. Len(line) /\ 0 \in 0 .. Len(line)
  BY <1>1
<1> QED
  BY <1>4, <1>5, <1>6, LineCutHas

\* What may be left of a name is lines, and it may be all or none.
LEMMA CutType ==
  ASSUME NEW name \in Name
  PROVE  /\ Cut(name) \subseteq Seq(Line)
         /\ name \in Cut(name) /\ <<>> \in Cut(name)
<1>1. name \in Seq(Line) /\ Len(name) \in Nat
  BY DEF Name
<1>2. ASSUME NEW k \in 1 .. Len(name)
      PROVE  SubSeq(name, 1, k - 1) \in Seq(Line) /\ name[k] \in Line
  BY <1>1
<1>3. ASSUME NEW k \in 1 .. Len(name), NEW rest \in LineCut(name[k])
      PROVE  Append(SubSeq(name, 1, k - 1), rest) \in Seq(Line)
  <2>1. rest \in Line
    BY <1>2, LineCutType
  <2> QED
    BY <1>2, <2>1, AppendProperties
<1>4. name \in Cut(name)
  <2>1. CASE name = <<>>
    BY <2>1 DEF Cut
  <2>2. CASE name # <<>>
    <3> DEFINE k == Len(name)
    <3>1. k \in 1 .. k /\ name[k] \in LineCut(name[k])
      <4>1. k \in 1 .. k
        BY <1>1, <2>2, EmptySeq
      <4> QED
        BY <1>2, <4>1, LineCutType
    <3>2. Append(SubSeq(name, 1, k - 1), name[k]) = name
      BY <1>1, <3>1
    <3>3. name \in Cut(name) <=>
            \/ name = <<>>
            \/ \E j \in 1 .. Len(name) : \E rest \in LineCut(name[j]) :
                 name = Append(SubSeq(name, 1, j - 1), rest)
      BY CutHas
    <3> QED
      BY <3>1, <3>2, <3>3
  <2> QED
    BY <2>1, <2>2
<1>5. <<>> \in Cut(name)
  BY DEF Cut
<1>6. Cut(name) \subseteq Seq(Line)
  <2> SUFFICES ASSUME NEW lines \in Cut(name) PROVE lines \in Seq(Line)
    OBVIOUS
  <2>1. \/ lines = <<>>
        \/ \E k \in 1 .. Len(name) : \E rest \in LineCut(name[k]) :
             lines = Append(SubSeq(name, 1, k - 1), rest)
    BY CutHas
  <2> QED
    BY <1>3, <2>1, EmptySeq
<1> QED
  BY <1>4, <1>5, <1>6

\* What a name of one word spells.
LEMMA AloneSpells ==
  ASSUME NEW w \in Word
  PROVE  Spells(Alone(w)) = {Alone(v) : v \in {w} \cup Shorter[w]}
<1> DEFINE none == <<>>
           one == <<w>>
           name == <<one>>
           cuts == {none, one} \cup {<<v>> : v \in Shorter[w]}
<1>1. none \in Seq(Word) /\ Len(none) = 0
  BY EmptySeq
<1>2. \A v \in Word : /\ <<v>> \in Seq(Word) /\ Len(<<v>>) = 1 /\ <<v>>[1] = v
                      /\ Append(none, v) = <<v>>
  OBVIOUS
<1>3. \A rest \in Line : /\ <<rest>> \in Seq(Line) /\ Len(<<rest>>) = 1 /\ <<rest>>[1] = rest
                         /\ Append(none, rest) = <<rest>>
  OBVIOUS
<1>4. Shorter[w] \subseteq Word
  BY SessionsAssumption
<1>5. cuts \subseteq Line /\ one \in Line
  BY <1>1, <1>2, <1>4 DEF Line
<1>6. 1 .. 1 = {1} /\ 0 .. 1 = {0, 1} /\ 1 - 1 = 0
  OBVIOUS
<1>7. ASSUME NEW T, NEW s \in Seq(T), Len(s) = 1
      PROVE  SubSeq(s, 1, 0) = none /\ SubSeq(s, 1, 1) = s
  BY <1>7, SubSeqFull, SubSeqEmpty
<1>8. LineCut(one) = cuts
  <2>1. one \in Seq(Word) /\ Len(one) = 1 /\ one[1] = w
    BY <1>2
  <2>2. SubSeq(one, 1, 0) = none /\ SubSeq(one, 1, 1) = one
    BY <1>7, <2>1
  <2> HIDE DEF one, none
  <2>3. ASSUME NEW rest PROVE rest \in LineCut(one) <=> rest \in cuts
    <3>1. rest \in LineCut(one) <=>
            \/ \E k \in 0 .. 1 : rest = SubSeq(one, 1, k)
            \/ \E k \in 1 .. 1 : \E v \in Shorter[one[k]] :
                 rest = Append(SubSeq(one, 1, k - 1), v)
      <4>1. rest \in LineCut(one) <=>
              \/ \E k \in 0 .. Len(one) : rest = SubSeq(one, 1, k)
              \/ \E k \in 1 .. Len(one) : \E v \in Shorter[one[k]] :
                   rest = Append(SubSeq(one, 1, k - 1), v)
        BY LineCutHas
      <4> QED
        BY <2>1, <4>1
    <3>2. (\E k \in 0 .. 1 : rest = SubSeq(one, 1, k)) <=> rest = none \/ rest = one
      BY <1>6, <2>2
    <3>3. (\E k \in 1 .. 1 : \E v \in Shorter[one[k]] : rest = Append(SubSeq(one, 1, k - 1), v))
            <=> \E v \in Shorter[w] : rest = <<v>>
      BY <1>2, <1>4, <1>6, <2>1, <2>2
    <3> QED
      BY <3>1, <3>2, <3>3
  <2> QED
    BY <2>3
<1>9. Cut(name) = {none} \cup {<<rest>> : rest \in cuts}
  <2>1. name \in Seq(Line) /\ Len(name) = 1 /\ name[1] = one
    BY <1>3, <1>5
  <2>2. SubSeq(name, 1, 0) = none
    BY <1>7, <2>1
  <2> HIDE DEF name, one, cuts, none
  <2>3. ASSUME NEW lines PROVE lines \in Cut(name) <=> lines = none \/ \E rest \in cuts : lines = <<rest>>
    <3>1. lines \in Cut(name) <=>
            \/ lines = none
            \/ \E k \in 1 .. 1 : \E rest \in LineCut(name[k]) :
                 lines = Append(SubSeq(name, 1, k - 1), rest)
      BY <2>1, CutHas DEF none
    <3>2. (\E k \in 1 .. 1 : \E rest \in LineCut(name[k]) : lines = Append(SubSeq(name, 1, k - 1), rest))
            <=> \E rest \in cuts : lines = <<rest>>
      BY <1>3, <1>5, <1>6, <1>8, <2>1, <2>2
    <3> QED
      BY <3>1, <3>2
  <2> QED
    BY <2>3
<1>10. Elems(none) = {} /\ \A rest \in Line : Elems(<<rest>>) = {rest}
  <2>1. Elems(none) = {}
    BY <1>1 DEF Elems
  <2>2. ASSUME NEW rest \in Line PROVE Elems(<<rest>>) = {rest}
    BY DEF Elems
  <2> QED
    BY <2>1, <2>2
<1>11. UNION {Elems(lines) : lines \in Cut(name)} = cuts
  <2> HIDE DEF name, one, cuts, none
  <2>1. \A rest \in cuts : Elems(<<rest>>) = {rest}
    BY <1>5, <1>10
  <2>2. UNION {Elems(lines) : lines \in Cut(name)}
          = Elems(none) \cup UNION {Elems(<<rest>>) : rest \in cuts}
    BY <1>9
  <2>3. UNION {Elems(<<rest>>) : rest \in cuts} = cuts
    <3>1. \A line : (\E rest \in cuts : line \in Elems(<<rest>>)) <=> line \in cuts
      BY <2>1
    <3> QED
      BY <3>1, Zenon
  <2> QED
    BY <1>10, <2>2, <2>3
<1>12. Authorises(none) = {} /\ \A v \in Word : Authorises(<<v>>) = {Alone(v)}
  <2>1. Authorises(none) = {}
    <3> HIDE DEF none
    <3> QED
      BY <1>1 DEF Authorises
  <2>2. \A v \in Word : Authorises(<<v>>) = {Alone(v)}
    BY <1>2 DEF Authorises, Alone
  <2> QED
    BY <2>1, <2>2
<1>13. Spells(name) = UNION {Authorises(line) : line \in cuts}
  BY <1>11 DEF Spells
<1>14. UNION {Authorises(line) : line \in cuts} = {Alone(v) : v \in {w} \cup Shorter[w]}
  <2>1. Authorises(one) = {Alone(w)}
    BY <1>12
  <2>2. UNION {Authorises(line) : line \in cuts}
          = Authorises(none) \cup Authorises(one)
              \cup UNION {Authorises(<<v>>) : v \in Shorter[w]}
    <3> HIDE DEF none, one
    <3> QED
      BY Zenon DEF cuts
  <2>3. UNION {Authorises(<<v>>) : v \in Shorter[w]} = {Alone(v) : v \in Shorter[w]}
    <3>1. \A v \in Shorter[w] : Authorises(<<v>>) = {Alone(v)}
      BY <1>4, <1>12
    <3>2. ASSUME NEW u
          PROVE  (\E v \in Shorter[w] : u \in Authorises(<<v>>)) <=> \E v \in Shorter[w] : u = Alone(v)
      BY <3>1
    <3> QED
      BY <3>2
  <2> HIDE DEF none, one, cuts
  <2> QED
    BY <1>12, <2>1, <2>2, <2>3
<1> QED
  BY <1>13, <1>14 DEF Alone

\* What any name spells are names of one word.
LEMMA SpellsType ==
  ASSUME NEW name \in Name
  PROVE  \A n \in Spells(name) : \E w \in Word : n = Alone(w)
<1> SUFFICES ASSUME NEW n \in Spells(name) PROVE \E w \in Word : n = Alone(w)
  OBVIOUS
<1>1. PICK lines \in Cut(name) : \E line \in Elems(lines) : n \in Authorises(line)
  BY DEF Spells
<1>2. PICK line \in Elems(lines) : n \in Authorises(line)
  BY <1>1
<1>3. line \in Line
  BY <1>1, <1>2, CutType DEF Elems
<1>4. line \in Seq(Word)
  BY <1>3 DEF Line
<1>5. CASE Len(line) = 1
  <2>1. n = <<line>>
    BY <1>2, <1>5 DEF Authorises
  <2>2. line = <<line[1]>> /\ line[1] \in Word
    BY <1>4, <1>5, SeqOfOne
  <2> QED
    BY <2>1, <2>2 DEF Alone
<1>6. CASE Len(line) # 1
  <2>1. Len(line) >= 3 /\ n = Alone(line[2])
    BY <1>2, <1>6 DEF Authorises
  <2>2. line[2] \in Word
    BY <1>4, <2>1
  <2> QED
    BY <2>1, <2>2
<1> QED
  BY <1>5, <1>6

\* A name vouched for vouches for no more.
LEMMA VouchedIsClosed ==
  ASSUME proved \subseteq Name, NEW name \in Vouched
  PROVE  name \in Name /\ Spells(name) \subseteq Vouched
<1> USE SessionsAssumption
<1> DEFINE Direct == VouchedFor(proved)
<1>1. Vouched = Direct \cup UNION {Spells(n) : n \in Direct}
  BY DEF Vouched, VouchedFor
<1>2. Direct = proved \cup UNION {Spells(n) : n \in proved}
  BY DEF VouchedFor
<1>3. \A w \in Word : Alone(w) \in Name
  BY DEF Alone, Name, Line
<1>4. Direct \subseteq Name
  BY <1>2, <1>3, SpellsType
<1>5. name \in Name
  BY <1>1, <1>3, <1>4, SpellsType
<1>6. CASE name \in Direct
  BY <1>1, <1>5, <1>6
<1>7. CASE name \notin Direct
  <2>1. PICK m \in Direct : name \in Spells(m)
    BY <1>1, <1>7
  <2>2. m \notin proved
    BY <1>2, <1>7, <2>1
  <2>3. PICK p \in proved : m \in Spells(p)
    BY <1>2, <2>1, <2>2
  <2>4. PICK u \in Word : m = Alone(u)
    BY <2>3, SpellsType
  <2>5. PICK w \in {u} \cup Shorter[u] : name = Alone(w)
    BY <2>1, <2>4, AloneSpells
  <2>6. w \in Word /\ {w} \cup Shorter[w] \subseteq {u} \cup Shorter[u]
    BY <2>5
  <2>7. Spells(name) \subseteq Spells(m)
    BY <2>4, <2>5, <2>6, AloneSpells
  <2>8. Spells(m) \subseteq Vouched
    BY <1>1, <2>1
  <2> QED
    BY <1>5, <2>7, <2>8
<1> QED
  BY <1>6, <1>7

\* Who has proved itself is vouched for, and more so as more do.
LEMMA VouchedGrows ==
  ASSUME proved \subseteq proved'
  PROVE  proved \subseteq Vouched /\ Vouched \subseteq Vouched'
BY DEF Vouched, VouchedFor

\* What the file is given of a name vouched for is vouched for.
LEMMA CutIsVouched ==
  ASSUME proved \subseteq Name, NEW name \in Vouched, NEW rest \in Cut(name),
         disk \in Seq(Line), FileIsVouched
  PROVE  /\ disk \o rest \in Seq(Line)
         /\ Elems(ReadCache(disk \o rest)) \subseteq Vouched
<1>1. name \in Name /\ Spells(name) \subseteq Vouched
  BY VouchedIsClosed
<1>2. rest \in Seq(Line)
  BY <1>1, CutType
<1>3. \A line \in Elems(rest) : Authorises(line) \subseteq Spells(name)
  BY DEF Spells
<1>4. disk \o rest \in Seq(Line) /\ Elems(disk \o rest) = Elems(disk) \cup Elems(rest)
  BY <1>2, ElemsConcat, ConcatProperties
<1>5. \A line \in Elems(disk) : Authorises(line) \subseteq Vouched
  BY ReadCacheType DEF FileIsVouched
<1>6. Elems(ReadCache(disk \o rest)) = UNION {Authorises(line) : line \in Elems(disk \o rest)}
  BY <1>4, ReadCacheType
<1> HIDE DEF Vouched
<1> QED
  BY <1>1, <1>3, <1>4, <1>5, <1>6

-----------------------------------------------------------------------------
(***************************************************************************)
(* The invariant holds at first: an older version's file counts for the    *)
(* devices it says were granted.                                           *)
(***************************************************************************)
LEMMA InitIInv == Init => IInv
<1> SUFFICES ASSUME Init PROVE IInv
  OBVIOUS
<1> USE SessionsAssumption
<1>1. disk \in Seq(Line)
  BY DEF Init
<1>2. auth = ReadCache(disk) /\ auth \in Seq(Name)
  BY <1>1, ReadCacheType DEF Init
<1>3. Elems(auth) = proved
  <2>1. proved = UNION {Authorises(disk[i]) : i \in 1 .. Len(disk)}
    BY DEF Init
  <2>2. proved = UNION {Authorises(line) : line \in Elems(disk)}
    BY <2>1 DEF Elems
  <2> QED
    BY <1>1, <1>2, <2>2, ReadCacheType
<1>4. Elems(auth) \subseteq Vouched /\ proved \subseteq Name
  <2>1. Elems(auth) \subseteq Name
    BY <1>2 DEF Elems
  <2>2. proved \subseteq Vouched
    BY DEF Vouched, VouchedFor
  <2> QED
    BY <1>3, <2>1, <2>2
<1>5. TypeOK
  <2>1. 0 \in 0 .. Len(auth)
    BY <1>2
  <2> QED
    BY <1>1, <1>2, <1>4, <2>1, Zenon DEF Init, TypeOK
<1>6. ListIsVouched /\ FileIsVouched
  BY <1>2, <1>4 DEF ListIsVouched, FileIsVouched
<1>7. DataOnlyToProved /\ DataIsNamed /\ SaveIsUnderWay
  BY DEF Init, DataOnlyToProved, DataIsNamed, SaveIsUnderWay
<1>8. FileFollowsList
  BY <1>2, PrefixSelf DEF FileFollowsList
<1>9. Remembered /\ FileRemembers /\ StoppedIsIdle
  BY DEF Init, Remembered, FileRemembers, StoppedIsIdle
<1> QED
  BY <1>5, <1>6, <1>7, <1>8, <1>9 DEF IInv

-----------------------------------------------------------------------------
\* While the list and the file stand, so does what is said of them.
LEMMA ListAndFileStand ==
  ASSUME IInv, UNCHANGED <<auth, disk, proved>>
  PROVE  ListIsVouched' /\ FileIsVouched'
<1>1. Elems(ReadCache(disk))' = Elems(ReadCache(disk)) /\ Elems(auth)' = Elems(auth)
  OBVIOUS
<1>2. Vouched' = Vouched
  BY DEF Vouched
<1>3. ListIsVouched /\ FileIsVouched
  BY DEF IInv
<1> QED
  BY <1>1, <1>2, <1>3 DEF ListIsVouched, FileIsVouched

\* Data for names that are vouched for, as long as answers are.
LEMMA AnswersStand ==
  ASSUME proved \subseteq proved', DataOnlyToProved,
         \A c \in Conn : reply'[c] = "data" =>
            \/ reply[c] = "data" /\ session'[c] = session[c]
            \/ session'[c] \in Vouched
  PROVE  DataOnlyToProved'
<1>1. Vouched \subseteq Vouched'
  BY VouchedGrows
<1>2. \A c \in Conn : reply[c] = "data" => session[c] \in Vouched
  BY DEF DataOnlyToProved, Vouched
<1>3. \A c \in Conn : reply'[c] = "data" => session'[c] \in Vouched'
  BY <1>1, <1>2
<1> QED
  BY <1>3 DEF DataOnlyToProved, Vouched

\* Requests that neither authorise nor save keep the invariant.
LEMMA TalkKeepsIInv ==
  ASSUME IInv, Idle, UNCHANGED <<up, auth, saveVars, historyVars>>,
         session' \in [Conn -> UUID \cup {Offline}],
         reply' \in [Conn -> {"none", "hello", "ask", "known", "accepted",
                              "rejected", "data", "empty"}],
         \A c \in Conn : reply'[c] = "data" => session'[c] \in UUID,
         \A c \in Conn : reply'[c] = "data" =>
            \/ reply[c] = "data" /\ session'[c] = session[c]
            \/ session'[c] \in Vouched
  PROVE  IInv'
<1>1. UNCHANGED <<up, auth, disk, saving, written, out, proved, told, lost, stale>>
  BY DEF saveVars, historyVars
<1>2. TypeOK'
  BY <1>1 DEF IInv, TypeOK
<1>3. ListIsVouched' /\ FileIsVouched'
  BY <1>1, ListAndFileStand
<1>4. DataOnlyToProved' /\ DataIsNamed'
  <2>1. DataOnlyToProved'
    BY <1>1, AnswersStand DEF IInv
  <2> QED
    BY <2>1 DEF DataIsNamed
<1>5. SaveIsUnderWay' /\ StoppedIsIdle' /\ FileRemembers'
  BY <1>1 DEF Idle, SaveIsUnderWay, StoppedIsIdle, FileRemembers
<1>6. FileFollowsList'
  BY <1>1 DEF IInv, FileFollowsList
<1>7. Remembered'
  BY <1>1 DEF IInv, Remembered, IsAuthenticated
<1> QED
  BY <1>2, <1>3, <1>4, <1>5, <1>6, <1>7 DEF IInv

\* The answers to these requests: data only for a device on the list.
LEMMA TalkStep ==
  ASSUME IInv, NEW c \in Conn,
         \/ Connect(c) \/ Disconnect(c) \/ Hello(c) \/ WrongPasscode(c) \/ Query(c)
         \/ \E u \in UUID : Identify(c, u)
  PROVE  IInv'
<1> USE SessionsAssumption
<1>1. /\ session \in [Conn -> UUID \cup {Offline}]
      /\ reply \in [Conn -> {"none", "hello", "ask", "known", "accepted",
                             "rejected", "data", "empty"}]
      /\ DataIsNamed /\ ListIsVouched
  BY DEF IInv, TypeOK
<1>2. /\ Idle
      /\ UNCHANGED <<up, auth, saveVars, historyVars>>
  BY DEF Connect, Disconnect, Hello, WrongPasscode, Query, Identify
<1>3. CASE Connect(c)
  <2>1. session' = [session EXCEPT ![c] = NoUuid] /\ reply' = reply /\ session[c] = Offline
    BY <1>3 DEF Connect
  <2>2. reply[c] # "data"
    BY <1>1, <2>1 DEF DataIsNamed
  <2>3. \A d \in Conn : reply'[d] = "data" =>
          reply[d] = "data" /\ session'[d] = session[d] /\ session'[d] \in UUID
    BY <1>1, <2>1, <2>2 DEF DataIsNamed
  <2>4. session' \in [Conn -> UUID \cup {Offline}]
    BY <1>1, <2>1
  <2> QED
    BY <1>1, <1>2, <2>1, <2>3, <2>4, TalkKeepsIInv
<1>4. CASE Disconnect(c)
  <2>1. session' = [session EXCEPT ![c] = Offline] /\ reply' = [reply EXCEPT ![c] = "none"]
    BY <1>4 DEF Disconnect, Answer
  <2>2. \A d \in Conn : reply'[d] = "data" =>
          reply[d] = "data" /\ session'[d] = session[d] /\ session'[d] \in UUID
    BY <1>1, <2>1 DEF DataIsNamed
  <2>3. /\ session' \in [Conn -> UUID \cup {Offline}]
        /\ reply' \in [Conn -> {"none", "hello", "ask", "known", "accepted",
                                "rejected", "data", "empty"}]
    BY <1>1, <2>1
  <2> QED
    BY <1>2, <2>2, <2>3, TalkKeepsIInv
<1>5. CASE Hello(c) \/ WrongPasscode(c) \/ Query(c)
  <2>1. PICK what \in {"hello", "rejected", "data", "empty"} :
           /\ session' = session /\ reply' = [reply EXCEPT ![c] = what]
           /\ what = "data" => IsAuthenticated(session[c])
    BY <1>5, Zenon DEF Hello, WrongPasscode, Query, Answer
  <2>2. session[c] # Offline
    BY <1>5 DEF Hello, WrongPasscode, Query
  <2>3. what = "data" => session[c] \in Vouched
    BY <1>1, <2>1 DEF ListIsVouched, IsAuthenticated
  <2>4. \A d \in Conn : reply'[d] = "data" =>
          /\ reply[d] = "data" \/ session'[d] \in Vouched
          /\ session'[d] = session[d] /\ session'[d] \in UUID
    BY <1>1, <2>1, <2>2, <2>3 DEF DataIsNamed
  <2>5. /\ session' \in [Conn -> UUID \cup {Offline}]
        /\ reply' \in [Conn -> {"none", "hello", "ask", "known", "accepted",
                                "rejected", "data", "empty"}]
    BY <1>1, <2>1
  <2> QED
    BY <1>2, <2>4, <2>5, TalkKeepsIInv
<1>6. CASE \E u \in UUID : Identify(c, u)
  <2>1. PICK u \in UUID, what \in {"known", "ask"} :
           session' = [session EXCEPT ![c] = u] /\ reply' = [reply EXCEPT ![c] = what]
    BY <1>6, Zenon DEF Identify, Answer
  <2>2. \A d \in Conn : reply'[d] = "data" =>
          reply[d] = "data" /\ session'[d] = session[d] /\ session'[d] \in UUID
    BY <1>1, <2>1 DEF DataIsNamed
  <2>3. /\ session' \in [Conn -> UUID \cup {Offline}]
        /\ reply' \in [Conn -> {"none", "hello", "ask", "known", "accepted",
                                "rejected", "data", "empty"}]
    BY <1>1, <2>1
  <2> QED
    BY <1>2, <2>2, <2>3, TalkKeepsIInv
<1> QED
  BY <1>3, <1>4, <1>5, <1>6

\* Of none of the list an empty file is written.
LEMMA NoneWritten ==
  ASSUME NEW s \in Seq(Name)
  PROVE  Written(SubSeq(s, 1, 0)) = <<>> /\ <<>> \o <<>> = <<>>
<1> DEFINE none == <<>>
<1>1. SubSeq(s, 1, 0) = none
  BY SubSeqEmpty
<1>2. FlattenSeq(none) = none
  BY FlattenNone
<1>3. none \o none = none
  BY EmptySeq, ConcatEmptySeq
<1> HIDE DEF none
<1>4. Written(SubSeq(s, 1, 0)) = none
  BY <1>1, <1>2 DEF Written
<1> QED
  BY <1>3, <1>4 DEF none

\* Lines of a beginning of a list: the names they are read as, or all that was
\* written before a cut.
Follows(lines, names) ==
  \/ IsPrefix(ReadCache(lines), names)
  \/ \E n \in 1 .. Len(names) : \E rest \in Cut(names[n]) :
       lines = Written(SubSeq(names, 1, n - 1)) \o rest

\* The file is of a beginning of the list, and so it stays as the list grows.
LEMMA GrownListIsFollowed ==
  ASSUME NEW s \in Seq(Name), NEW u \in Name, NEW lines \in Seq(Line),
         Follows(lines, s)
  PROVE  Follows(lines, Append(s, u))
<1> DEFINE t == Append(s, u)
<1>1. CASE IsPrefix(ReadCache(lines), s)
  <2>1. ReadCache(lines) \in Seq(Name)
    BY ReadCacheType
  <2> QED
    BY <1>1, <2>1, PrefixAppend DEF Follows
<1>2. ASSUME NEW n \in 1 .. Len(s), NEW rest \in Cut(s[n]),
             lines = Written(SubSeq(s, 1, n - 1)) \o rest
      PROVE  \E m \in 1 .. Len(t) : \E more \in Cut(t[m]) :
               lines = Written(SubSeq(t, 1, m - 1)) \o more
  <2>1. n \in 1 .. Len(t) /\ t[n] = s[n]
    BY AppendProperties
  <2>2. SubSeq(t, 1, n - 1) = SubSeq(s, 1, n - 1)
    OBVIOUS
  <2> HIDE DEF t
  <2> QED
    BY <1>2, <2>1, <2>2
<1> QED
  BY <1>1, <1>2 DEF Follows

\* The right passcode: the list grows at its end, which keeps what the file
\* holds a beginning of it; a save starts with an empty file.
LEMMA PasscodeStep ==
  ASSUME IInv, NEW c \in Conn, PasscodeSaves(c) \/ PasscodeNotSaved(c)
  PROVE  IInv'
<1> USE SessionsAssumption
<1>1. TypeOK /\ ListIsVouched /\ FileIsVouched /\ DataOnlyToProved /\ DataIsNamed
      /\ FileFollowsList /\ Remembered /\ StoppedIsIdle
  BY DEF IInv
<1> DEFINE u == session[c]
<1>2. /\ up /\ up' /\ saving = NoConn /\ session' = session /\ u \in UUID /\ u \in Name
      /\ auth' = Append(auth, u) /\ proved' = proved \cup {u}
  BY <1>1 DEF PasscodeSaves, PasscodeNotSaved, Passcode, Idle, TypeOK
<1>3. /\ auth \in Seq(Name) /\ auth' \in Seq(Name) /\ Len(auth') = Len(auth) + 1
      /\ Len(auth) \in Nat /\ Elems(auth') = Elems(auth) \cup {u}
  BY <1>1, <1>2, ElemsAppend, AppendProperties DEF TypeOK
<1>4. Vouched \subseteq Vouched' /\ u \in Vouched'
  BY <1>2, VouchedGrows DEF Vouched, VouchedFor
<1>5. ListIsVouched'
  BY <1>1, <1>3, <1>4 DEF ListIsVouched
<1>6. StoppedIsIdle' /\ FileRemembers'
  BY <1>2 DEF StoppedIsIdle, FileRemembers
<1>7. CASE PasscodeSaves(c)
  <2>1. /\ disk' = <<>> /\ saving' = c /\ written' = 0 /\ out' = "good" /\ stale' = TRUE
        /\ UNCHANGED <<reply, told, lost>>
    BY <1>7 DEF PasscodeSaves
  <2>2. Elems(ReadCache(disk')) = {} /\ disk' \in Seq(Line)
    BY <2>1, ReadCacheEmpty
  <2>3. Written(SubSeq(auth', 1, 0)) = <<>> /\ <<>> \o <<>> = <<>>
    BY <1>3, NoneWritten
  <2>4. TypeOK'
    BY <1>1, <1>2, <1>3, <2>1, <2>2 DEF TypeOK
  <2>5. FileIsVouched'
    BY <2>2 DEF FileIsVouched
  <2>6. DataOnlyToProved' /\ DataIsNamed'
    <3>1. DataOnlyToProved'
      BY <1>1, <1>2, <2>1, AnswersStand
    <3> QED
      BY <1>1, <1>2, <2>1, <3>1 DEF DataIsNamed
  <2>7. SaveIsUnderWay'
    BY <1>2, <1>3, <2>1, <2>3 DEF SaveIsUnderWay, Elems
  <2>8. FileFollowsList'
    <3>1. 1 \in 1 .. Len(auth') /\ 1 - 1 = 0 /\ auth'[1] \in Name
      BY <1>3
    <3>2. <<>> \in Cut(auth'[1])
      BY <3>1, CutType
    <3>3. disk' = Written(SubSeq(auth', 1, 1 - 1)) \o <<>>
      BY <2>1, <2>3, <3>1
    <3>4. \E n \in 1 .. Len(auth') : \E rest \in Cut(auth'[n]) :
            disk' = Written(SubSeq(auth', 1, n - 1)) \o rest
      BY <3>1, <3>2, <3>3
    <3> QED
      BY <2>1, <3>4 DEF FileFollowsList
  <2>9. Remembered'
    BY <1>1, <1>2, <1>3, <2>1 DEF Remembered, IsAuthenticated
  <2> QED
    BY <1>5, <1>6, <2>4, <2>5, <2>6, <2>7, <2>8, <2>9 DEF IInv
<1>8. CASE PasscodeNotSaved(c)
  <2>1. /\ reply' = [reply EXCEPT ![c] = "accepted"] /\ told' = told \cup {u}
        /\ lost' = lost \ {u} /\ stale' = TRUE
        /\ UNCHANGED <<disk, saving, written, out>>
    BY <1>8 DEF PasscodeNotSaved, Answer, saveVars
  <2>2. TypeOK'
    BY <1>1, <1>2, <1>3, <2>1 DEF TypeOK
  <2>3. FileIsVouched'
    <3>1. Elems(ReadCache(disk))' = Elems(ReadCache(disk))
      BY <2>1
    <3> QED
      BY <1>1, <1>4, <3>1 DEF FileIsVouched
  <2>4. DataOnlyToProved' /\ DataIsNamed'
    <3>1. \A d \in Conn : reply'[d] = "data" => reply[d] = "data" /\ session'[d] = session[d]
      BY <1>1, <1>2, <2>1 DEF TypeOK
    <3>2. DataOnlyToProved'
      BY <1>1, <1>2, <3>1, AnswersStand
    <3> QED
      BY <1>1, <1>2, <3>1, <3>2 DEF DataIsNamed
  <2>5. SaveIsUnderWay'
    BY <1>2, <2>1 DEF SaveIsUnderWay
  <2>6. FileFollowsList'
    <3>1. disk \in Seq(Line) /\ Follows(disk, auth)
      BY <1>1, <1>2 DEF FileFollowsList, Follows, TypeOK
    <3>2. Follows(disk, Append(auth, u))
      BY <1>2, <1>3, <3>1, GrownListIsFollowed
    <3>3. Follows(disk, auth')
      BY <1>2, <3>2
    <3> QED
      BY <2>1, <3>3 DEF FileFollowsList, Follows
  <2>7. Remembered'
    BY <1>1, <1>2, <1>3, <2>1 DEF Remembered, IsAuthenticated
  <2> QED
    BY <1>5, <1>6, <2>2, <2>3, <2>4, <2>5, <2>6, <2>7 DEF IInv
<1> QED
  BY <1>7, <1>8

\* A name written, in part, or not: the file holds what the save has gone
\* through, or is not written any more.
LEMMA SaveLineStep ==
  ASSUME IInv, SaveLine \/ SaveLineFails
  PROVE  IInv'
<1> USE SessionsAssumption
<1>1. TypeOK /\ ListIsVouched /\ FileIsVouched /\ DataOnlyToProved /\ DataIsNamed
      /\ FileFollowsList /\ Remembered /\ SaveIsUnderWay
  BY DEF IInv
<1>2. /\ saving # NoConn /\ written < Len(auth) /\ written' = written + 1
      /\ UNCHANGED <<up, auth, session, reply, saving, proved, told, lost, stale>>
  BY DEF SaveLine, SaveLineFails, processVars, historyVars
<1> DEFINE n == written + 1
           u == auth[n]
<1>3. /\ up /\ up' /\ stale /\ stale'
      /\ session[saving] \in UUID /\ session[saving] \in Elems(auth)
      /\ written \in Nat /\ Len(auth) \in Nat /\ n \in 1 .. Len(auth) /\ n - 1 = written
      /\ auth \in Seq(Name) /\ disk \in Seq(Line) /\ proved \subseteq Name
  BY <1>1, <1>2 DEF SaveIsUnderWay, TypeOK
<1>4. u \in Name /\ u \in Vouched
  BY <1>1, <1>3 DEF ListIsVouched, Elems
<1>5. \/ disk' = disk /\ out' # "good" /\ out' \in {"bad", "unlinked"}
      \/ disk' = disk \o u /\ out = "good" /\ out' = "good"
      \/ /\ \E rest \in Cut(u) : disk' = disk \o rest
         /\ out = "good" /\ out' = "bad"
  <2>1. out \in {"good", "bad", "unlinked"}
    BY <1>1 DEF TypeOK
  <2> QED
    BY <2>1 DEF SaveLine, SaveLineFails
<1>6. /\ out' \in {"good", "bad", "unlinked"}
      /\ disk' = disk \/ \E rest \in Cut(u) : disk' = disk \o rest /\ out = "good"
  BY <1>4, <1>5, CutType
<1>7. disk' \in Seq(Line) /\ FileIsVouched'
  <2>1. Vouched' = Vouched
    BY <1>2 DEF Vouched
  <2>2. CASE disk' = disk
    BY <1>1, <1>3, <2>1, <2>2 DEF FileIsVouched
  <2>3. ASSUME NEW rest \in Cut(u), disk' = disk \o rest
        PROVE  disk' \in Seq(Line) /\ FileIsVouched'
    <3>1. /\ disk \o rest \in Seq(Line)
          /\ Elems(ReadCache(disk \o rest)) \subseteq Vouched
      BY <1>1, <1>3, <1>4, CutIsVouched
    <3> QED
      BY <2>1, <2>3, <3>1 DEF FileIsVouched
  <2> QED
    BY <1>6, <2>2, <2>3
<1>8. TypeOK'
  BY <1>1, <1>2, <1>3, <1>6, <1>7 DEF TypeOK
<1>9. ListIsVouched' /\ DataOnlyToProved' /\ DataIsNamed' /\ Remembered'
  <2>1. ListIsVouched'
    BY <1>1, <1>2 DEF ListIsVouched, Vouched
  <2>2. DataOnlyToProved'
    BY <1>1, <1>2, AnswersStand
  <2> QED
    BY <1>1, <1>2, <2>1, <2>2 DEF DataIsNamed, Remembered, IsAuthenticated
<1>10. FileRemembers' /\ StoppedIsIdle'
  BY <1>3 DEF FileRemembers, StoppedIsIdle
<1>11. out = "good" => disk = Written(SubSeq(auth, 1, n - 1))
  BY <1>1, <1>2, <1>3 DEF SaveIsUnderWay
<1>12. SaveIsUnderWay'
  <2>1. ASSUME out' = "good" PROVE disk' = Written(SubSeq(auth, 1, n))
    <3>1. disk' = disk \o u /\ disk = Written(SubSeq(auth, 1, n - 1))
      BY <1>5, <1>11, <2>1
    <3>2. SubSeq(auth, 1, n) = Append(SubSeq(auth, 1, n - 1), u)
          /\ SubSeq(auth, 1, n - 1) \in Seq(Name)
      BY <1>3
    <3>3. Written(SubSeq(auth, 1, n)) = Written(SubSeq(auth, 1, n - 1)) \o u
      <4> HIDE DEF u, n
      <4> QED
        BY <1>4, <3>2, FlattenAppend DEF Written, Name
    <3> QED
      BY <3>1, <3>3
  <2> QED
    BY <1>2, <1>3, <2>1 DEF SaveIsUnderWay
<1>13. FileFollowsList'
  <2>1. \/ IsPrefix(ReadCache(disk'), auth)
        \/ \E m \in 1 .. Len(auth) : \E rest \in Cut(auth[m]) :
             disk' = Written(SubSeq(auth, 1, m - 1)) \o rest
    <3>1. CASE disk' = disk
      BY <1>1, <1>3, <3>1 DEF FileFollowsList
    <3>2. ASSUME NEW rest \in Cut(u), disk' = disk \o rest, out = "good"
          PROVE  \E m \in 1 .. Len(auth) : \E more \in Cut(auth[m]) :
                   disk' = Written(SubSeq(auth, 1, m - 1)) \o more
      <4>1. disk' = Written(SubSeq(auth, 1, n - 1)) \o rest
        BY <1>11, <3>2
      <4> QED
        BY <1>3, <3>2, <4>1
    <3> QED
      BY <1>6, <3>1, <3>2
  <2> QED
    BY <1>2, <1>3, <2>1 DEF FileFollowsList
<1> QED
  BY <1>7, <1>8, <1>9, <1>10, <1>12, <1>13 DEF IInv

\* A save that went well leaves the whole list in the file.
LEMMA SaveEndsStep ==
  ASSUME IInv, SaveEnds
  PROVE  IInv'
<1> USE SessionsAssumption
<1>1. TypeOK /\ DataOnlyToProved /\ DataIsNamed /\ FileFollowsList /\ Remembered
      /\ SaveIsUnderWay /\ StoppedIsIdle
  BY DEF IInv
<1>2. /\ saving # NoConn /\ saving \in Conn /\ written = Len(auth) /\ saving' = NoConn
      /\ reply' = [reply EXCEPT ![saving] = "accepted"]
      /\ told' = told \cup {session[saving]} /\ lost' = lost \ {session[saving]}
      /\ stale' = (out # "good")
      /\ UNCHANGED <<up, auth, session, disk, written, out, proved>>
  BY <1>1 DEF SaveEnds, Answer, TypeOK
<1>3. up /\ up' /\ session[saving] \in Elems(auth) /\ session[saving] \in UUID
  BY <1>1, <1>2 DEF SaveIsUnderWay
<1>4. TypeOK'
  BY <1>1, <1>2, <1>3 DEF TypeOK
<1>5. ListIsVouched' /\ FileIsVouched'
  BY <1>2, ListAndFileStand
<1>6. DataOnlyToProved' /\ DataIsNamed'
  <2>1. \A d \in Conn : reply'[d] = "data" => reply[d] = "data" /\ session'[d] = session[d]
    BY <1>1, <1>2 DEF TypeOK
  <2>2. DataOnlyToProved'
    BY <1>1, <1>2, <2>1, AnswersStand
  <2> QED
    BY <1>1, <2>1, <2>2 DEF DataIsNamed
<1>7. SaveIsUnderWay' /\ FileRemembers' /\ StoppedIsIdle'
  BY <1>2, <1>3 DEF SaveIsUnderWay, FileRemembers, StoppedIsIdle
<1>8. FileFollowsList'
  <2>1. SubSeq(auth, 1, Len(auth)) = auth
    BY <1>1, SubSeqFull DEF TypeOK
  <2>2. out = "good" => disk = Written(auth)
    BY <1>1, <1>2, <2>1 DEF SaveIsUnderWay
  <2> QED
    BY <1>1, <1>2, <1>3, <2>2 DEF FileFollowsList
<1>9. Remembered'
  BY <1>1, <1>2, <1>3 DEF Remembered, IsAuthenticated
<1> QED
  BY <1>4, <1>5, <1>6, <1>7, <1>8, <1>9 DEF IInv

\* What the process leaves is in the file, or the file was behind.
LEMMA StopStep ==
  ASSUME IInv, Stop
  PROVE  IInv'
<1> USE SessionsAssumption
<1>1. TypeOK /\ FileIsVouched /\ FileFollowsList /\ Remembered
  BY DEF IInv
<1>2. /\ up /\ up' = FALSE /\ auth' = <<>> /\ session' = [c \in Conn |-> Offline]
      /\ reply' = [c \in Conn |-> "none"] /\ saving' = NoConn /\ written' = 0
      /\ out' = "good" /\ stale' = FALSE /\ UNCHANGED <<disk, proved, told>>
      /\ lost' = IF stale THEN lost \cup (told \ Elems(ReadCache(disk))) ELSE lost
  BY <1>1 DEF Stop, TypeOK
<1>3. TypeOK'
  <2>1. lost' \subseteq UUID /\ auth' \in Seq(Name) /\ written' \in 0 .. Len(auth')
    BY <1>1, <1>2 DEF TypeOK
  <2>2. /\ session' \in [Conn -> UUID \cup {Offline}]
        /\ reply' \in [Conn -> {"none", "hello", "ask", "known", "accepted",
                                "rejected", "data", "empty"}]
    BY <1>2
  <2>3. disk' \in Seq(Line) /\ proved' \subseteq Name /\ told' \subseteq UUID
    BY <1>1, <1>2 DEF TypeOK
  <2> QED
    BY <1>2, <2>1, <2>2, <2>3 DEF TypeOK
<1>4. ListIsVouched' /\ DataOnlyToProved' /\ DataIsNamed' /\ SaveIsUnderWay'
      /\ FileFollowsList' /\ Remembered' /\ StoppedIsIdle'
  BY <1>2 DEF ListIsVouched, DataOnlyToProved, DataIsNamed, SaveIsUnderWay, FileFollowsList,
              Remembered, StoppedIsIdle, Elems
<1>5. FileIsVouched'
  BY <1>1, <1>2 DEF FileIsVouched, Vouched
<1>6. FileRemembers'
  <2>1. CASE stale
    BY <1>2, <2>1 DEF FileRemembers
  <2>2. CASE ~stale
    <3> SUFFICES ASSUME NEW u \in told \ (Unreadable \cup lost)
                 PROVE  u \in Elems(ReadCache(disk))
      BY <1>2, <2>2 DEF FileRemembers
    <3>1. u \in Elems(auth) /\ auth \in Seq(Name) /\ u \in UUID
      BY <1>1, <1>2 DEF Remembered, IsAuthenticated, TypeOK
    <3>2. u \in Elems(ReadCache(u))
      BY <3>1 DEF Unreadable
    <3>3. ReadCache(disk) = auth \/ disk = Written(auth)
      BY <1>1, <1>2, <2>2 DEF FileFollowsList
    <3> QED
      BY <3>1, <3>2, <3>3, NameIsRead
  <2> QED
    BY <2>1, <2>2
<1> QED
  BY <1>3, <1>4, <1>5, <1>6 DEF IInv

\* A restart reads what the file holds, and the file holds no more.
LEMMA StartStep ==
  ASSUME IInv, Start
  PROVE  IInv'
<1> USE SessionsAssumption
<1>1. TypeOK /\ FileIsVouched /\ DataOnlyToProved /\ DataIsNamed /\ FileRemembers
      /\ StoppedIsIdle /\ SaveIsUnderWay
  BY DEF IInv
<1>2. /\ ~up /\ up' = TRUE /\ auth' = ReadCache(disk)
      /\ UNCHANGED <<session, reply, disk, saving, written, out, proved, told, lost, stale>>
  BY <1>1 DEF Start, saveVars, historyVars, TypeOK
<1>3. auth' \in Seq(Name) /\ Elems(auth') \subseteq Vouched /\ Vouched' = Vouched
  BY <1>1, <1>2, ReadCacheType DEF TypeOK, FileIsVouched, Vouched
<1>4. saving = NoConn /\ written = 0
  BY <1>1, <1>2 DEF SaveIsUnderWay, StoppedIsIdle
<1>5. TypeOK'
  <2>1. 0 \in 0 .. Len(auth')
    BY <1>3
  <2> QED
    BY <1>1, <1>2, <1>3, <1>4, <2>1 DEF TypeOK
<1>6. ListIsVouched' /\ FileIsVouched'
  BY <1>1, <1>2, <1>3 DEF ListIsVouched, FileIsVouched
<1>7. DataOnlyToProved' /\ DataIsNamed' /\ SaveIsUnderWay' /\ FileRemembers' /\ StoppedIsIdle'
  BY <1>1, <1>2, <1>4
     DEF DataOnlyToProved, DataIsNamed, SaveIsUnderWay, FileRemembers, StoppedIsIdle
<1>8. FileFollowsList'
  <2>1. ReadCache(disk') = auth' /\ IsPrefix(auth', auth')
    BY <1>2, <1>3, PrefixSelf
  <2> QED
    BY <2>1 DEF FileFollowsList
<1>9. Remembered'
  BY <1>1, <1>2 DEF Remembered, IsAuthenticated, FileRemembers
<1> QED
  BY <1>5, <1>6, <1>7, <1>8, <1>9 DEF IInv

\* The file is removed beside the daemon, which goes on with its list.
LEMMA ClearSessionsStep ==
  ASSUME IInv, ClearSessions
  PROVE  IInv'
<1> USE SessionsAssumption
<1>1. TypeOK /\ ListIsVouched /\ DataOnlyToProved /\ DataIsNamed /\ SaveIsUnderWay
      /\ StoppedIsIdle
  BY DEF IInv
<1>2. /\ disk' = <<>> /\ stale' = up /\ told' = {} /\ lost' = {}
      /\ out' = IF saving # NoConn /\ out = "good" THEN "unlinked" ELSE out
      /\ UNCHANGED <<up, auth, session, reply, saving, written, proved>>
  BY DEF ClearSessions, processVars
<1>3. ReadCache(disk') = <<>> /\ Elems(ReadCache(disk')) = {}
  BY <1>2, ReadCacheEmpty
<1>4. TypeOK'
  BY <1>1, <1>2 DEF TypeOK
<1>5. ListIsVouched' /\ FileIsVouched'
  BY <1>1, <1>2, <1>3 DEF ListIsVouched, FileIsVouched, Vouched
<1>6. DataOnlyToProved' /\ DataIsNamed' /\ Remembered' /\ FileRemembers' /\ StoppedIsIdle'
  BY <1>1, <1>2
     DEF DataOnlyToProved, DataIsNamed, Remembered, FileRemembers, StoppedIsIdle
<1>7. SaveIsUnderWay'
  BY <1>1, <1>2 DEF SaveIsUnderWay
<1>8. FileFollowsList'
  <2>1. IsPrefix(<<>>, auth')
    BY <1>4, PrefixSelf DEF TypeOK
  <2> QED
    BY <1>2, <1>3, <2>1 DEF FileFollowsList
<1> QED
  BY <1>4, <1>5, <1>6, <1>7, <1>8 DEF IInv

-----------------------------------------------------------------------------
\* The invariant is kept by every step.
LEMMA NextIInv == IInv /\ [Next]_vars => IInv'
<1> SUFFICES ASSUME IInv, [Next]_vars PROVE IInv'
  OBVIOUS
<1>1. ASSUME NEW c \in Conn, Connect(c) \/ Disconnect(c) \/ Request(c) PROVE IInv'
  <2>1. \/ Connect(c) \/ Disconnect(c) \/ Hello(c) \/ WrongPasscode(c) \/ Query(c)
        \/ \E u \in UUID : Identify(c, u)
        \/ PasscodeSaves(c) \/ PasscodeNotSaved(c)
    BY <1>1 DEF Request
  <2> QED
    BY <2>1, TalkStep, PasscodeStep
<1>2. CASE SaveLine \/ SaveLineFails
  BY <1>2, SaveLineStep
<1>3. CASE SaveEnds
  BY <1>3, SaveEndsStep
<1>4. CASE Stop
  BY <1>4, StopStep
<1>5. CASE Start
  BY <1>5, StartStep
<1>6. CASE ClearSessions
  BY <1>6, ClearSessionsStep
<1>7. CASE UNCHANGED vars
  <2>1. UNCHANGED <<up, auth, session, reply, disk, saving, written, out, proved, told,
                    lost, stale>>
    BY <1>7 DEF vars, processVars, saveVars, historyVars
  <2>2. TypeOK' /\ StoppedIsIdle' /\ DataOnlyToProved' /\ DataIsNamed'
    BY <2>1 DEF IInv, TypeOK, StoppedIsIdle, DataOnlyToProved, DataIsNamed
  <2>3. ListIsVouched' /\ FileIsVouched' /\ Remembered' /\ FileRemembers'
    BY <2>1, ListAndFileStand DEF IInv, Remembered, FileRemembers, IsAuthenticated
  <2>4. SaveIsUnderWay' /\ FileFollowsList'
    BY <2>1 DEF IInv, SaveIsUnderWay, FileFollowsList
  <2> QED
    BY <2>2, <2>3, <2>4 DEF IInv
<1> QED
  BY <1>1, <1>2, <1>3, <1>4, <1>5, <1>6, <1>7 DEF Next

\* The inductive invariant is an invariant.
LEMMA AlwaysIInv == Spec => []IInv
BY InitIInv, NextIInv, PTL DEF Spec

-----------------------------------------------------------------------------
(***************************************************************************)
(* The list, the file and the variables of a save keep their types: the    *)
(* place of a save stays within the list, which is emptied by a restart.   *)
(***************************************************************************)
THEOREM SessionsTypes == Spec => []TypeOK
<1>1. IInv => TypeOK
  BY DEF IInv
<1> QED
  BY <1>1, AlwaysIInv, PTL

(***************************************************************************)
(* Samples go only to a connection whose device has given the passcode, or *)
(* is named by the line of one that has: parse answers a 103 from the      *)
(* list, the list comes from passcodes and from the file, and what a save  *)
(* or a part of one writes of a name authorises no more than that name     *)
(* vouches for, however often the server is restarted.                     *)
(***************************************************************************)
THEOREM SamplesOnlyToProved == Spec => []DataOnlyToProved
<1>1. IInv => DataOnlyToProved
  BY DEF IInv
<1> QED
  BY <1>1, AlwaysIInv, PTL

(***************************************************************************)
(* clients.dat holds a beginning of the list of authorised devices, its    *)
(* last name maybe cut, and all of the list when no save is under way,     *)
(* failed or was undone.                                                   *)
(***************************************************************************)
THEOREM FileFollows == Spec => []FileFollowsList
<1>1. IInv => FileFollowsList
  BY DEF IInv
<1> QED
  BY <1>1, AlwaysIInv, PTL

(***************************************************************************)
(* A device told so stays authorised over any number of restarts, unless   *)
(* its line is read as another's, the process ended while the file was     *)
(* behind or the list was reset.                                           *)
(***************************************************************************)
THEOREM DevicesRemembered == Spec => []Remembered
<1>1. IInv => Remembered
  BY DEF IInv
<1> QED
  BY <1>1, AlwaysIInv, PTL
=============================================================================
