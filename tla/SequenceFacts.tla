---------------------------- MODULE SequenceFacts ----------------------------
(***************************************************************************)
(* Facts about sequences that several of the proofs rest on: induction,    *)
(* functions defined from each number to the next, what is kept of a       *)
(* sequence (Only), and sequences in which nothing comes twice (Once).     *)
(***************************************************************************)
EXTENDS Subsequence, SequencesExt, SequenceTheorems, WellFoundedInduction, TLAPS

\* Induction, for a set instead of a predicate.
LEMMA NatSetInduction ==
  ASSUME NEW S, 0 \in S, \A n \in Nat : n \in S => n + 1 \in S
  PROVE  \A n \in Nat : n \in S
<1> DEFINE T == {n \in Nat : n \notin S}
<1> SUFFICES ASSUME T # {} PROVE FALSE
  OBVIOUS
<1>1. PICK x \in T : \A y \in T : ~ (<<y, x>> \in OpToRel(<, Nat))
  BY WFMin, NatLessThanWellFounded
<1>2. x \in Nat /\ x # 0 /\ x - 1 \in Nat /\ x = (x - 1) + 1
  <2>1. x \in Nat /\ x # 0
    OBVIOUS
  <2> QED
    BY <2>1
<1>3. CASE x - 1 \in S
  BY <1>2, <1>3
<1>4. CASE x - 1 \notin S
  <2>1. x - 1 \in T /\ <<x - 1, x>> \in Nat \X Nat /\ x - 1 < x
    BY <1>2, <1>4
  <2> QED
    BY <1>1, <2>1 DEF OpToRel
<1> QED
  BY <1>3, <1>4

\* f goes from base on, from each number to the next by F.
Goes(f, V, base, F, N) ==
    /\ f \in [0 .. N -> V]
    /\ f[0] = base
    /\ \A n \in 1 .. N : f[n] = F[<<n, f[n - 1]>>]

\* A function on the first numbers may be defined from each number to the next.
LEMMA Recursion ==
  ASSUME NEW V, NEW base \in V, NEW F \in [Nat \X V -> V], NEW N \in Nat
  PROVE  \E f : Goes(f, V, base, F, N)
<1> DEFINE Upto(f, m) == /\ f \in [0 .. m -> V] /\ f[0] = base
                         /\ \A n \in 1 .. m : f[n] = F[<<n, f[n - 1]>>]
           Good == {m \in Nat : \E f : Upto(f, m)}
<1>1. 0 \in Good
  <2>1. Upto([n \in 0 .. 0 |-> base], 0)
    OBVIOUS
  <2> QED
    BY <2>1
<1>2. ASSUME NEW m \in Nat, m \in Good PROVE m + 1 \in Good
  <2>1. PICK f : Upto(f, m)
    BY <1>2
  <2> DEFINE last == F[<<m + 1, f[m]>>]
             g == [n \in 0 .. m + 1 |-> IF n = m + 1 THEN last ELSE f[n]]
  <2>2. last \in V
    BY <2>1
  <2> HIDE DEF last
  <2>3. g \in [0 .. m + 1 -> V] /\ g[0] = base
    BY <2>1, <2>2
  <2>4. ASSUME NEW n \in 1 .. m + 1 PROVE g[n] = F[<<n, g[n - 1]>>]
    <3>1. CASE n = m + 1
      <4>1. g[n] = last /\ g[n - 1] = f[m] /\ n - 1 = m
        BY <3>1
      <4> QED
        BY <3>1, <4>1 DEF last
    <3>2. CASE n # m + 1
      <4>1. n \in 1 .. m
        BY <3>2
      <4>2. g[n] = f[n] /\ g[n - 1] = f[n - 1]
        BY <4>1
      <4> QED
        BY <2>1, <4>1, <4>2
    <3> QED
      BY <3>1, <3>2
  <2>5. Upto(g, m + 1)
    BY <2>3, <2>4
  <2> HIDE DEF Upto
  <2> QED
    BY <2>5
<1> HIDE DEF Good
<1>3. N \in Good
  BY <1>1, <1>2, NatSetInduction
<1> QED
  BY <1>3 DEF Good, Goes

\* g is f, as far as f goes.
Agrees(g, f, N) == \A n \in 0 .. N : g[n] = f[n]

\* There is only one.
LEMMA RecursionOnce ==
  ASSUME NEW V, NEW base, NEW F, NEW N \in Nat, NEW f, Goes(f, V, base, F, N),
         NEW g, g[0] = base,
         \A n \in 1 .. N : g[n - 1] \in V => g[n] = F[<<n, g[n - 1]>>]
  PROVE  Agrees(g, f, N)
<1> DEFINE Good == {n \in Nat : n <= N => g[n] = f[n]}
<1>1. 0 \in Good
  BY DEF Goes
<1>2. ASSUME NEW n \in Nat, n \in Good PROVE n + 1 \in Good
  <2> SUFFICES ASSUME n + 1 <= N PROVE g[n + 1] = f[n + 1]
    OBVIOUS
  <2>1. n + 1 \in 1 .. N /\ n \in 0 .. N /\ (n + 1) - 1 = n
    OBVIOUS
  <2>2. g[n] = f[n]
    BY <1>2
  <2>3. f[n] \in V /\ f[n + 1] = F[<<n + 1, f[n]>>]
    BY <2>1 DEF Goes
  <2> QED
    BY <2>1, <2>2, <2>3
<1> HIDE DEF Good
<1>3. \A n \in Nat : n \in Good
  BY <1>1, <1>2, NatSetInduction
<1> QED
  BY <1>3 DEF Good, Agrees

-----------------------------------------------------------------------------
\* The function Only is defined by.
IsKept(g, s, S) ==
    g = [n \in 0 .. Len(s) |->
            IF n = 0 THEN <<>>
            ELSE IF s[n] \in S THEN Append(g[n - 1], s[n]) ELSE g[n - 1]]

\* What is kept of a sequence can be worked out, element after element.
LEMMA KeptExists ==
  ASSUME NEW T, NEW S, NEW s \in Seq(T)
  PROVE  \E g : IsKept(g, s, S)
<1> DEFINE Upto(g, m) ==
             g = [n \in 0 .. m |->
                    IF n = 0 THEN <<>>
                    ELSE IF s[n] \in S THEN Append(g[n - 1], s[n]) ELSE g[n - 1]]
           Good == {m \in Nat : \E g : Upto(g, m)}
<1>1. 0 \in Good
  <2>1. Upto([n \in 0 .. 0 |-> <<>>], 0)
    OBVIOUS
  <2> QED
    BY <2>1
<1>2. ASSUME NEW m \in Nat, m \in Good PROVE m + 1 \in Good
  <2>1. PICK g : Upto(g, m)
    BY <1>2
  <2> DEFINE last == IF s[m + 1] \in S THEN Append(g[m], s[m + 1]) ELSE g[m]
             h == [n \in 0 .. m + 1 |-> IF n = m + 1 THEN last ELSE g[n]]
  <2>2. \A n \in 0 .. m : g[n] = IF n = 0 THEN <<>>
                    ELSE IF s[n] \in S THEN Append(g[n - 1], s[n]) ELSE g[n - 1]
    BY <2>1
  <2>3. ASSUME NEW n \in 0 .. m + 1
        PROVE  h[n] = IF n = 0 THEN <<>>
                    ELSE IF s[n] \in S THEN Append(h[n - 1], s[n]) ELSE h[n - 1]
    <3>1. CASE n = m + 1
      <4>1. h[m + 1] = last /\ m \in 0 .. m + 1 /\ m # m + 1
        OBVIOUS
      <4>2. h[m] = g[m]
        BY <4>1
      <4>3. n # 0 /\ n - 1 = m
        BY <3>1
      <4> QED
        BY <4>1, <4>2, <4>3, <3>1
    <3>2. CASE n # m + 1
      <4>1. n \in 0 .. m
        BY <3>2
      <4>2. n # 0 => n - 1 \in 0 .. m /\ n - 1 # m + 1 /\ n - 1 \in 0 .. m + 1
        BY <4>1
      <4>3. h[n] = g[n] /\ (n # 0 => h[n - 1] = g[n - 1])
        BY <3>2, <4>2
      <4> QED
        BY <2>2, <4>1, <4>3
    <3> QED
      BY <3>1, <3>2
  <2>4. Upto(h, m + 1)
    <3> HIDE DEF last
    <3> QED
      BY <2>3, Zenon
  <2>5. \E f : Upto(f, m + 1)
    BY <2>4
  <2> HIDE DEF Upto
  <2> QED
    BY <2>5
<1> HIDE DEF Good
<1>3. \A m \in Nat : m \in Good
  BY <1>1, <1>2, NatSetInduction
<1>4. Len(s) \in Good
  BY <1>3
<1> QED
  BY <1>4 DEF Good, IsKept

\* What Only is: the last value of such a function.
LEMMA OnlyByKept ==
  ASSUME NEW T, NEW S, NEW s \in Seq(T)
  PROVE  \E g : IsKept(g, s, S) /\ Only(s, S) = g[Len(s)]
<1> DEFINE g == CHOOSE h : h = [n \in 0 .. Len(s) |->
            IF n = 0 THEN <<>>
            ELSE IF s[n] \in S THEN Append(h[n - 1], s[n]) ELSE h[n - 1]]
<1>0. PICK h : IsKept(h, s, S)
  BY KeptExists
<1>1. IsKept(g, s, S)
  BY <1>0, Zenon DEF IsKept
<1>2. Only(s, S) = g[Len(s)]
  BY Zenon DEF Only
<1> QED
  BY <1>1, <1>2

\* Such a function depends on what comes up to a place only.
LEMMA KeptUnique ==
  ASSUME NEW T, NEW S, NEW s \in Seq(T), NEW t \in Seq(T), NEW m \in Nat,
         m <= Len(s), m <= Len(t), \A i \in 1 .. m : s[i] = t[i],
         NEW g, IsKept(g, s, S), NEW h, IsKept(h, t, S)
  PROVE  g[m] = h[m]
<1> DEFINE Good == {n \in Nat : n <= m => g[n] = h[n]}
<1>0. Len(s) \in Nat /\ Len(t) \in Nat
  OBVIOUS
<1>1. /\ \A n \in 0 .. m : g[n] = IF n = 0 THEN <<>>
                    ELSE IF s[n] \in S THEN Append(g[n - 1], s[n]) ELSE g[n - 1]
      /\ \A n \in 0 .. m : h[n] = IF n = 0 THEN <<>>
                    ELSE IF t[n] \in S THEN Append(h[n - 1], t[n]) ELSE h[n - 1]
  <2>1. \A n \in 0 .. m : n \in 0 .. Len(s) /\ n \in 0 .. Len(t)
    BY <1>0
  <2> QED
    BY <2>1 DEF IsKept
<1>2. 0 \in Good
  BY <1>1
<1>3. ASSUME NEW n \in Nat, n \in Good PROVE n + 1 \in Good
  <2> SUFFICES ASSUME n + 1 <= m PROVE g[n + 1] = h[n + 1]
    OBVIOUS
  <2>1. n + 1 \in 0 .. m /\ n + 1 # 0 /\ (n + 1) - 1 = n /\ n + 1 \in 1 .. m
    OBVIOUS
  <2>2. g[n] = h[n]
    BY <1>3
  <2> QED
    BY <1>1, <2>1, <2>2
<1> HIDE DEF Good
<1>4. \A n \in Nat : n \in Good
  BY <1>2, <1>3, NatSetInduction
<1> QED
  BY <1>4 DEF Good

-----------------------------------------------------------------------------
(***************************************************************************)
(* What Only does: the empty sequence, and one element more.               *)
(***************************************************************************)
LEMMA OnlyEmpty ==
  ASSUME NEW S
  PROVE  Only(<<>>, S) = <<>>
<1>1. <<>> \in Seq({}) /\ Len(<<>>) = 0
  OBVIOUS
<1>2. PICK g : IsKept(g, <<>>, S) /\ Only(<<>>, S) = g[Len(<<>>)]
  BY <1>1, OnlyByKept
<1>3. 0 \in 0 .. Len(<<>>)
  BY <1>1
<1>4. g[0] = <<>>
  BY <1>2, <1>3 DEF IsKept
<1> QED
  BY <1>1, <1>2, <1>4

\* An element at the end is kept or not.
LEMMA OnlyAppend ==
  ASSUME NEW T, NEW S, NEW s \in Seq(T), NEW e \in T
  PROVE  Only(Append(s, e), S) = IF e \in S THEN Append(Only(s, S), e) ELSE Only(s, S)
<1> DEFINE t == Append(s, e)
           n == Len(t)
<1>1. /\ t \in Seq(T) /\ n = Len(s) + 1 /\ Len(s) \in Nat /\ n - 1 = Len(s)
      /\ t[n] = e /\ \A i \in 1 .. Len(s) : s[i] = t[i]
  BY AppendProperties
<1>2. PICK g : IsKept(g, s, S) /\ Only(s, S) = g[Len(s)]
  BY OnlyByKept
<1>3. PICK h : IsKept(h, t, S) /\ Only(t, S) = h[Len(t)]
  BY <1>1, OnlyByKept
<1>4. g[Len(s)] = h[Len(s)]
  <2>1. Len(s) <= Len(s) /\ Len(s) <= Len(t)
    BY <1>1
  <2> HIDE DEF t
  <2> QED
    BY <1>1, <1>2, <1>3, <2>1, KeptUnique
<1>5. h[n] = IF t[n] \in S THEN Append(h[n - 1], t[n]) ELSE h[n - 1]
  <2>1. n \in 0 .. Len(t) /\ n # 0
    BY <1>1
  <2> HIDE DEF t
  <2> QED
    BY <1>3, <2>1 DEF IsKept
<1> QED
  BY <1>1, <1>2, <1>3, <1>4, <1>5

(***************************************************************************)
(* Induction over sequences, for a set instead of a predicate.             *)
(***************************************************************************)
LEMMA SeqSetInduction ==
  ASSUME NEW T, NEW W, <<>> \in W,
         \A s \in Seq(T), e \in T : s \in W => Append(s, e) \in W
  PROVE  \A s \in Seq(T) : s \in W
<1> DEFINE Good == {n \in Nat : \A s \in Seq(T) : Len(s) = n => s \in W}
<1>1. 0 \in Good
  <2>1. \A s \in Seq(T) : Len(s) = 0 => s = <<>>
    BY EmptySeq
  <2> QED
    BY <2>1
<1>2. ASSUME NEW n \in Nat, n \in Good PROVE n + 1 \in Good
  <2> SUFFICES ASSUME NEW s \in Seq(T), Len(s) = n + 1 PROVE s \in W
    OBVIOUS
  <2>1. s # <<>>
    BY EmptySeq
  <2>2. PICK front \in Seq(T), e \in T : s = Append(front, e)
    BY <2>1, SequenceEmptyOrAppend
  <2>3. Len(front) \in Nat /\ Len(s) = Len(front) + 1
    BY <2>2, AppendProperties
  <2>4. front \in W
    BY <1>2, <2>3
  <2> QED
    BY <2>2, <2>4
<1> HIDE DEF Good
<1>3. \A n \in Nat : n \in Good
  BY <1>1, <1>2, NatSetInduction
<1> QED
  BY <1>3 DEF Good

(***************************************************************************)
(* What Only keeps: those in the set, in sequences of the same elements.   *)
(***************************************************************************)
LEMMA OnlyType ==
  ASSUME NEW T, NEW S, NEW s \in Seq(T)
  PROVE  Only(s, S) \in Seq(T) /\ Only(s, S) \in Seq(T \cap S)
<1> DEFINE W == {q \in Seq(T) : Only(q, S) \in Seq(T \cap S)}
<1>1. <<>> \in W
  <2>1. <<>> \in Seq(T) /\ <<>> \in Seq(T \cap S)
    BY EmptySeq
  <2> QED
    BY <2>1, OnlyEmpty
<1>2. ASSUME NEW q \in Seq(T), NEW e \in T, q \in W PROVE Append(q, e) \in W
  <2>1. Append(q, e) \in Seq(T)
    BY AppendProperties
  <2>2. CASE e \in S
    <3>1. e \in T \cap S /\ Only(q, S) \in Seq(T \cap S)
      BY <1>2, <2>2
    <3>2. Append(Only(q, S), e) \in Seq(T \cap S)
      BY <3>1, AppendProperties
    <3>3. Only(Append(q, e), S) = Append(Only(q, S), e)
      BY <2>2, OnlyAppend
    <3> QED
      BY <2>1, <3>2, <3>3
  <2>3. CASE e \notin S
    BY <1>2, <2>1, <2>3, OnlyAppend
  <2> QED
    BY <2>2, <2>3
<1> HIDE DEF W
<1>3. s \in W
  BY <1>1, <1>2, SeqSetInduction
<1>4. Only(s, S) \in Seq(T \cap S)
  BY <1>3 DEF W
<1> QED
  BY <1>4, SeqMonotonic

\* What is kept of two sequences is what is kept of each.
LEMMA OnlyConcat ==
  ASSUME NEW T, NEW S, NEW s \in Seq(T), NEW t \in Seq(T)
  PROVE  Only(s \o t, S) = Only(s, S) \o Only(t, S)
<1> DEFINE W == {q \in Seq(T) : Only(s \o q, S) = Only(s, S) \o Only(q, S)}
<1>1. <<>> \in W
  <2>1. Only(s, S) \in Seq(T) /\ <<>> \in Seq(T)
    BY OnlyType, EmptySeq
  <2>2. s \o <<>> = s /\ Only(s, S) \o <<>> = Only(s, S)
    BY <2>1, ConcatEmptySeq
  <2>3. Only(<<>>, S) = <<>>
    BY OnlyEmpty
  <2> QED
    BY <2>1, <2>2, <2>3
<1>2. ASSUME NEW q \in Seq(T), NEW e \in T, q \in W PROVE Append(q, e) \in W
  <2>1. s \o Append(q, e) = Append(s \o q, e) /\ s \o q \in Seq(T)
    OBVIOUS
  <2>2. Only(s, S) \in Seq(T) /\ Only(q, S) \in Seq(T) /\ Append(q, e) \in Seq(T)
    BY OnlyType, AppendProperties
  <2>3. Only(s \o q, S) = Only(s, S) \o Only(q, S)
    BY <1>2
  <2>4. CASE e \in S
    <3>1. Only(s \o Append(q, e), S) = Append(Only(s, S) \o Only(q, S), e)
      BY <2>1, <2>3, <2>4, OnlyAppend
    <3>2. Only(Append(q, e), S) = Append(Only(q, S), e)
      BY <2>4, OnlyAppend
    <3>3. Append(Only(s, S) \o Only(q, S), e) = Only(s, S) \o Append(Only(q, S), e)
      <4> DEFINE a == Only(s, S)
                 b == Only(q, S)
      <4>1. a \in Seq(T) /\ b \in Seq(T)
        BY <2>2
      <4> HIDE DEF a, b
      <4>2. <<e>> \in Seq(T) /\ a \o b \in Seq(T)
        BY <4>1
      <4>3. Append(a \o b, e) = (a \o b) \o <<e>> /\ Append(b, e) = b \o <<e>>
        <5>1. \A x \in Seq(T) : Append(x, e) = x \o <<e>>
          BY AppendIsConcat
        <5> QED
          BY <4>1, <4>2, <5>1, Zenon
      <4>4. (a \o b) \o <<e>> = a \o (b \o <<e>>)
        BY <4>1, <4>2, ConcatAssociative
      <4>5. Append(a \o b, e) = a \o Append(b, e)
        BY <4>3, <4>4, Zenon
      <4> QED
        BY <4>5 DEF a, b
    <3> QED
      BY <2>2, <3>1, <3>2, <3>3
  <2>5. CASE e \notin S
    <3>0. \A r \in Seq(T) : Only(Append(r, e), S) = Only(r, S)
      BY <2>5, OnlyAppend
    <3>1. Only(s \o Append(q, e), S) = Only(s \o q, S)
      BY <2>1, <3>0, Zenon
    <3>2. Only(Append(q, e), S) = Only(q, S)
      BY <2>5, OnlyAppend
    <3> QED
      BY <2>2, <2>3, <3>1, <3>2
  <2> QED
    BY <2>4, <2>5
<1> HIDE DEF W
<1>3. t \in W
  BY <1>1, <1>2, SeqSetInduction
<1> QED
  BY <1>3 DEF W

\* Sets that agree on the elements keep the same.
LEMMA OnlySame ==
  ASSUME NEW T, NEW A, NEW B, NEW s \in Seq(T), A \cap T = B \cap T
  PROVE  Only(s, A) = Only(s, B)
<1> DEFINE W == {q \in Seq(T) : Only(q, A) = Only(q, B)}
<1>1. <<>> \in W
  BY OnlyEmpty
<1>2. ASSUME NEW q \in Seq(T), NEW e \in T, q \in W PROVE Append(q, e) \in W
  <2>1. Append(q, e) \in Seq(T) /\ (e \in A <=> e \in B)
    BY AppendProperties
  <2> QED
    BY <1>2, <2>1, OnlyAppend, SMTT(30)
<1> HIDE DEF W
<1>3. s \in W
  BY <1>1, <1>2, SeqSetInduction
<1> QED
  BY <1>3 DEF W

\* Where all is to be kept, all is.
LEMMA OnlyAll ==
  ASSUME NEW T, NEW S, NEW s \in Seq(T), T \subseteq S
  PROVE  Only(s, S) = s
<1> DEFINE W == {q \in Seq(T) : Only(q, S) = q}
<1>1. <<>> \in W
  BY OnlyEmpty
<1>2. ASSUME NEW q \in Seq(T), NEW e \in T, q \in W PROVE Append(q, e) \in W
  BY <1>2, OnlyAppend, AppendProperties
<1> HIDE DEF W
<1>3. s \in W
  BY <1>1, <1>2, SeqSetInduction
<1> QED
  BY <1>3 DEF W

\* Where nothing is to be kept, nothing is.
LEMMA OnlyNone ==
  ASSUME NEW T, NEW S, NEW s \in Seq(T), T \cap S = {}
  PROVE  Only(s, S) = <<>>
<1> DEFINE W == {q \in Seq(T) : Only(q, S) = <<>>}
<1>1. <<>> \in W
  BY OnlyEmpty
<1>2. ASSUME NEW q \in Seq(T), NEW e \in T, q \in W PROVE Append(q, e) \in W
  BY <1>2, OnlyAppend, AppendProperties
<1> HIDE DEF W
<1>3. s \in W
  BY <1>1, <1>2, SeqSetInduction
<1> QED
  BY <1>3 DEF W

\* To keep of what was kept is to keep what is in both sets.
LEMMA OnlyTwice ==
  ASSUME NEW T, NEW A, NEW B, NEW s \in Seq(T)
  PROVE  Only(Only(s, A), B) = Only(s, A \cap B)
<1> DEFINE W == {q \in Seq(T) : Only(Only(q, A), B) = Only(q, A \cap B)}
<1>1. <<>> \in W
  BY OnlyEmpty
<1>2. ASSUME NEW q \in Seq(T), NEW e \in T, q \in W PROVE Append(q, e) \in W
  <2>1. Append(q, e) \in Seq(T) /\ Only(q, A) \in Seq(T)
    BY OnlyType, AppendProperties
  <2>2. Only(Only(q, A), B) = Only(q, A \cap B)
    BY <1>2
  <2>3. CASE e \in A
    <3>1. Only(Append(q, e), A) = Append(Only(q, A), e)
      BY <2>3, OnlyAppend
    <3>2. Only(Append(Only(q, A), e), B) = IF e \in B THEN Append(Only(Only(q, A), B), e)
                                          ELSE Only(Only(q, A), B)
      BY <2>1, OnlyAppend
    <3>3. Only(Append(q, e), A \cap B) = IF e \in B THEN Append(Only(q, A \cap B), e)
                                         ELSE Only(q, A \cap B)
      BY <2>3, OnlyAppend
    <3>4. Only(Only(Append(q, e), A), B) = Only(Append(q, e), A \cap B)
      BY <2>2, <3>1, <3>2, <3>3, Zenon
    <3> QED
      BY <2>1, <3>4
  <2>4. CASE e \notin A
    <3>1. Only(Append(q, e), A) = Only(q, A)
      BY <2>4, OnlyAppend
    <3>2. Only(Append(q, e), A \cap B) = Only(q, A \cap B)
      BY <2>4, OnlyAppend
    <3> QED
      BY <2>1, <2>2, <3>1, <3>2
  <2> QED
    BY <2>3, <2>4
<1> HIDE DEF W
<1>3. s \in W
  BY <1>1, <1>2, SeqSetInduction
<1> QED
  BY <1>3 DEF W

\* The elements kept are those of the sequence in the set.
LEMMA OnlyElements ==
  ASSUME NEW T, NEW S, NEW s \in Seq(T)
  PROVE  Range(Only(s, S)) = Range(s) \cap S
<1> DEFINE W == {q \in Seq(T) : Range(Only(q, S)) = Range(q) \cap S}
<1>1. <<>> \in W
  BY OnlyEmpty DEF Range
<1>2. ASSUME NEW q \in Seq(T), NEW e \in T, q \in W PROVE Append(q, e) \in W
  <2>1. Append(q, e) \in Seq(T) /\ Only(q, S) \in Seq(T)
    BY OnlyType, AppendProperties
  <2>2. ASSUME NEW r \in Seq(T) PROVE Range(Append(r, e)) = Range(r) \cup {e}
    <3>1. <<e>> \in Seq(T) /\ Append(r, e) = r \o <<e>>
      BY AppendIsConcat
    <3>2. Range(<<e>>) = {e}
      BY DEF Range
    <3>3. Range(r \o <<e>>) = Range(r) \cup Range(<<e>>)
      BY <3>1, RangeConcatenation, ZenonT(30)
    <3> QED
      BY <3>1, <3>2, <3>3
  <2>3. Range(Append(q, e)) = Range(q) \cup {e} /\ Range(Only(q, S)) = Range(q) \cap S
    BY <1>2, <2>2
  <2>4. CASE e \in S
    <3>1. Only(Append(q, e), S) = Append(Only(q, S), e)
      BY <2>4, OnlyAppend
    <3>2. Range(Append(Only(q, S), e)) = Range(Only(q, S)) \cup {e}
      BY <2>1, <2>2
    <3> QED
      BY <2>1, <2>3, <2>4, <3>1, <3>2
  <2>5. CASE e \notin S
    <3>1. Only(Append(q, e), S) = Only(q, S)
      BY <2>5, OnlyAppend
    <3> QED
      BY <2>1, <2>3, <2>5, <3>1
  <2> QED
    BY <2>4, <2>5
<1> HIDE DEF W
<1>3. s \in W
  BY <1>1, <1>2, SeqSetInduction
<1> QED
  BY <1>3 DEF W

-----------------------------------------------------------------------------
\* A sequence of one element, and one of two.
LEMMA SeqOfOne ==
  ASSUME NEW T, NEW s \in Seq(T), Len(s) = 1
  PROVE  s = <<s[1]>> /\ s[1] \in T /\ Head(s) = s[1] /\ Tail(s) = <<>>
<1>1. s[1] \in T /\ s # <<>>
  BY EmptySeq
<1>2. s = <<s[1]>>
  BY <1>1, SeqEqual
<1> DEFINE t == Tail(s)
<1>3. t \in Seq(T) /\ Len(t) = Len(s) - 1
  BY <1>1, HeadTailProperties, Zenon
<1> HIDE DEF t
<1>4. t = <<>>
  BY <1>3, EmptySeq
<1> QED
  BY <1>1, <1>2, <1>4 DEF t

\* A sequence of two elements.
LEMMA SeqOfTwo ==
  ASSUME NEW T, NEW s \in Seq(T), Len(s) = 2
  PROVE  s = <<s[1], s[2]>> /\ s[1] \in T /\ s[2] \in T /\ Head(s) = s[1]
         /\ Tail(s) = <<s[2]>>
<1>1. s[1] \in T /\ s[2] \in T /\ s # <<>>
  BY EmptySeq, SMTT(30)
<1>2. s = <<s[1], s[2]>>
  BY <1>1, SeqEqual
<1> DEFINE t == Tail(s)
<1>3. t \in Seq(T) /\ Len(t) = Len(s) - 1 /\ \A i \in 1 .. Len(t) : t[i] = s[i + 1]
  BY <1>1, HeadTailProperties, Zenon
<1> HIDE DEF t
<1>4. t = <<s[2]>>
  BY <1>3, SeqOfOne
<1> QED
  BY <1>1, <1>2, <1>4 DEF t

-----------------------------------------------------------------------------
(***************************************************************************)
(* Sequences without repetition.                                           *)
(***************************************************************************)
Once(s) == \A i, j \in 1 .. Len(s) : s[i] = s[j] => i = j

\* An element more does not repeat one that is there.
LEMMA OnceAppend ==
  ASSUME NEW T, NEW s \in Seq(T), NEW e \in T
  PROVE  Once(Append(s, e)) <=> Once(s) /\ e \notin Range(s)
<1> DEFINE t == Append(s, e)
           n == Len(s)
<1>1. /\ n \in Nat /\ Len(t) = n + 1 /\ t[n + 1] = e
      /\ \A i \in 1 .. n : t[i] = s[i]
  BY AppendProperties
<1>2. Range(s) = {s[i] : i \in 1 .. n}
  BY RangeEquality
<1> HIDE DEF t, n
<1>3. ASSUME Once(t) PROVE Once(s) /\ e \notin Range(s)
  <2>1. \A i, j \in 1 .. n : s[i] = s[j] => i = j
    BY <1>1, <1>3 DEF Once
  <2>2. \A i \in 1 .. n : s[i] # e
    BY <1>1, <1>3 DEF Once
  <2> QED
    BY <1>2, <2>1, <2>2 DEF Once, n
<1>4. ASSUME Once(s), e \notin Range(s) PROVE Once(t)
  <2>1. \A i \in 1 .. n : s[i] # e
    BY <1>2, <1>4
  <2>2. \A i, j \in 1 .. n : s[i] = s[j] => i = j
    BY <1>4 DEF Once, n
  <2>3. \A i \in 1 .. n + 1 : i \in 1 .. n \/ i = n + 1
    BY <1>1
  <2>4. ASSUME NEW i \in 1 .. n + 1, NEW j \in 1 .. n + 1, t[i] = t[j] PROVE i = j
    BY <1>1, <2>1, <2>2, <2>3, <2>4
  <2> QED
    BY <1>1, <2>4 DEF Once
<1> QED
  BY <1>3, <1>4 DEF t

\* Two sequences behind each other repeat nothing.
LEMMA OnceConcat ==
  ASSUME NEW T, NEW s \in Seq(T), NEW t \in Seq(T)
  PROVE  Once(s \o t) <=> Once(s) /\ Once(t) /\ Range(s) \cap Range(t) = {}
<1> DEFINE q == s \o t
           m == Len(s)
           n == Len(t)
<1>1. /\ m \in Nat /\ n \in Nat /\ Len(q) = m + n
      /\ \A i \in 1 .. m + n : q[i] = IF i <= m THEN s[i] ELSE t[i - m]
  BY ConcatProperties
<1>2. Range(s) = {s[i] : i \in 1 .. m} /\ Range(t) = {t[i] : i \in 1 .. n}
  BY RangeEquality
<1>3. /\ \A i \in 1 .. m : i \in 1 .. m + n /\ q[i] = s[i]
      /\ \A i \in 1 .. n : m + i \in 1 .. m + n /\ q[m + i] = t[i]
  <2>1. \A i \in 1 .. n : m + i \in 1 .. m + n /\ ~ (m + i <= m) /\ (m + i) - m = i
    BY <1>1
  <2>2. \A i \in 1 .. m : i \in 1 .. m + n /\ i <= m
    BY <1>1
  <2> HIDE DEF q, m, n
  <2> QED
    BY <1>1, <2>1, <2>2
<1> HIDE DEF q
<1>4. ASSUME Once(q) PROVE Once(s) /\ Once(t) /\ Range(s) \cap Range(t) = {}
  <2>1. \A i, j \in 1 .. m + n : q[i] = q[j] => i = j
    BY <1>1, <1>4 DEF Once
  <2> HIDE DEF m, n
  <2>2. \A i, j \in 1 .. m : s[i] = s[j] => i = j
    BY <1>3, <2>1
  <2>3. \A i, j \in 1 .. n : t[i] = t[j] => i = j
    <3> SUFFICES ASSUME NEW i \in 1 .. n, NEW j \in 1 .. n, t[i] = t[j] PROVE i = j
      OBVIOUS
    <3>1. q[m + i] = q[m + j]
      BY <1>3
    <3>2. m + i = m + j
      BY <1>3, <2>1, <3>1
    <3> QED
      BY <1>1, <3>2
  <2>4. \A i \in 1 .. m, j \in 1 .. n : s[i] # t[j]
    <3> SUFFICES ASSUME NEW i \in 1 .. m, NEW j \in 1 .. n, s[i] = t[j] PROVE FALSE
      OBVIOUS
    <3>1. i = m + j
      BY <1>3, <2>1
    <3> QED
      BY <1>1, <3>1
  <2> QED
    BY <1>2, <2>2, <2>3, <2>4 DEF Once, m, n
<1>5. ASSUME Once(s), Once(t), Range(s) \cap Range(t) = {} PROVE Once(q)
  <2>1. \A i, j \in 1 .. m : s[i] = s[j] => i = j
    BY <1>5 DEF Once
  <2>2. \A i, j \in 1 .. n : t[i] = t[j] => i = j
    BY <1>5 DEF Once
  <2>3. \A i \in 1 .. m, j \in 1 .. n : s[i] # t[j]
    BY <1>2, <1>5
  <2>4. \A i \in 1 .. m + n : i \in 1 .. m \/ (i - m \in 1 .. n /\ ~ (i <= m))
    BY <1>1
  <2> HIDE DEF m, n
  <2>5. ASSUME NEW i \in 1 .. m + n, NEW j \in 1 .. m + n, q[i] = q[j] PROVE i = j
    <3>1. CASE i \in 1 .. m /\ j \in 1 .. m
      BY <1>3, <2>1, <2>5, <3>1
    <3>2. CASE i - m \in 1 .. n /\ ~ (i <= m) /\ j - m \in 1 .. n /\ ~ (j <= m)
      <4>1. t[i - m] = t[j - m]
        BY <1>1, <2>5, <3>2
      <4>2. i - m = j - m
        BY <2>2, <3>2, <4>1
      <4> QED
        BY <1>1, <4>2
    <3>3. CASE i \in 1 .. m /\ j - m \in 1 .. n /\ ~ (j <= m)
      BY <1>1, <1>3, <2>3, <2>5, <3>3
    <3>4. CASE j \in 1 .. m /\ i - m \in 1 .. n /\ ~ (i <= m)
      BY <1>1, <1>3, <2>3, <2>5, <3>4
    <3> QED
      BY <2>4, <3>1, <3>2, <3>3, <3>4
  <2> QED
    BY <1>1, <2>5 DEF Once
<1> QED
  BY <1>4, <1>5 DEF q

\* Nor does what is kept of one.
LEMMA OnlyOnce ==
  ASSUME NEW T, NEW S, NEW s \in Seq(T), Once(s)
  PROVE  Once(Only(s, S))
<1> DEFINE W == {q \in Seq(T) : Once(q) => Once(Only(q, S))}
<1>1. <<>> \in W
  <2>1. <<>> \in Seq(T) /\ Only(<<>>, S) = <<>>
    BY OnlyEmpty, EmptySeq
  <2> QED
    BY <2>1
<1>2. ASSUME NEW q \in Seq(T), NEW e \in T, q \in W PROVE Append(q, e) \in W
  <2>1. Append(q, e) \in Seq(T) /\ Only(q, S) \in Seq(T)
    BY OnlyType, AppendProperties
  <2> SUFFICES ASSUME Once(Append(q, e)) PROVE Once(Only(Append(q, e), S))
    BY <2>1
  <2>2. Once(q) /\ e \notin Range(q)
    BY OnceAppend
  <2>3. Once(Only(q, S))
    BY <1>2, <2>2
  <2>4. Range(Only(q, S)) = Range(q) \cap S
    BY OnlyElements
  <2>5. Once(Append(Only(q, S), e))
    BY <2>1, <2>2, <2>3, <2>4, OnceAppend
  <2>6. Only(Append(q, e), S) = IF e \in S THEN Append(Only(q, S), e) ELSE Only(q, S)
    BY OnlyAppend
  <2> QED
    BY <2>3, <2>5, <2>6
<1> HIDE DEF W
<1>3. s \in W
  BY <1>1, <1>2, SeqSetInduction
<1> QED
  BY <1>3 DEF W

\* To keep less is to keep less of what was kept.
LEMMA OnlyLess ==
  ASSUME NEW T, NEW S, NEW H, NEW s \in Seq(T)
  PROVE  Only(s, S \ H) = Only(Only(s, S), T \ H)
<1>1. ASSUME NEW A, NEW B PROVE Only(Only(s, A), B) = Only(s, A \cap B)
  BY OnlyTwice
<1>2. Only(Only(s, S), T \ H) = Only(s, S \cap (T \ H))
  BY <1>1, Zenon
<1>3. (S \cap (T \ H)) \cap T = (S \ H) \cap T
  OBVIOUS
<1>4. \A A, B : A \cap T = B \cap T => Only(s, A) = Only(s, B)
  BY OnlySame
<1>5. Only(s, S \cap (T \ H)) = Only(s, S \ H)
  BY <1>3, <1>4, Zenon
<1> QED
  BY <1>2, <1>5

\* What nothing is taken from stays.
LEMMA OnlyApart ==
  ASSUME NEW T, NEW H, NEW s \in Seq(T), Range(s) \cap H = {}
  PROVE  Only(s, T \ H) = s
<1>1. s \in Seq(Range(s)) /\ Range(s) \subseteq T \ H
  BY SeqOfRange, RangeOfSeq
<1> QED
  BY <1>1, OnlyAll

\* And what all is taken from goes.
LEMMA OnlyGone ==
  ASSUME NEW T, NEW H, NEW s \in Seq(T), Range(s) \subseteq H
  PROVE  Only(s, T \ H) = <<>>
<1>1. s \in Seq(Range(s)) /\ Range(s) \cap (T \ H) = {}
  BY SeqOfRange
<1> QED
  BY <1>1, OnlyNone

\* h can be taken out from between a and b, and only h is.
TakesOut(a, h, b, T) ==
    /\ Only(a \o (h \o b), T \ Range(h)) = a \o b
    /\ Only(a, T \ Range(h)) = a
    /\ Only(h \o b, T \ Range(h)) = b

\* To keep less by what stands between a and b leaves a and b.
LEMMA OnlyDrop ==
  ASSUME NEW T, NEW a \in Seq(T), NEW h \in Seq(T), NEW b \in Seq(T),
         Once(a \o (h \o b))
  PROVE  TakesOut(a, h, b, T)
<1> DEFINE R == T \ Range(h)
<1>1. h \o b \in Seq(T)
  BY ConcatProperties
<1>2. Once(h \o b) /\ Range(a) \cap Range(h \o b) = {}
  BY <1>1, OnceConcat
<1>3. Range(h) \cap Range(b) = {} /\ Range(h \o b) = Range(h) \cup Range(b)
  BY <1>2, OnceConcat, RangeConcatenation
<1>4. Only(a, R) = a /\ Only(b, R) = b /\ Only(h, R) = <<>>
  <2>1. Range(a) \cap Range(h) = {} /\ Range(b) \cap Range(h) = {}
    BY <1>2, <1>3
  <2>2. Only(a, R) = a /\ Only(b, R) = b
    BY <2>1, OnlyApart
  <2>3. Only(h, R) = <<>>
    BY OnlyGone
  <2> QED
    BY <2>2, <2>3
<1> HIDE DEF R
<1>5. Only(a \o (h \o b), R) = Only(a, R) \o Only(h \o b, R)
  BY <1>1, OnlyConcat
<1>6. Only(h \o b, R) = Only(h, R) \o Only(b, R)
  BY OnlyConcat
<1>7. <<>> \o b = b
  BY ConcatEmptySeq
<1> QED
  BY <1>4, <1>5, <1>6, <1>7 DEF R, TakesOut

\* The sequence s has y somewhere.
Splits(s, y, T) == \E a, b \in Seq(T) : s = a \o (<<y>> \o b)

\* An element of a sequence has something before and something behind it.
LEMMA SplitAt ==
  ASSUME NEW T, NEW s \in Seq(T), NEW y \in Range(s)
  PROVE  Splits(s, y, T)
<1>1. PICK i \in 1 .. Len(s) : s[i] = y
  BY RangeEquality
<1> DEFINE a == SubSeq(s, 1, i - 1)
           b == SubSeq(s, i + 1, Len(s))
<1>2. a \in Seq(T) /\ b \in Seq(T) /\ y \in T
  BY <1>1
<1>3. SubSeq(s, i, Len(s)) = <<y>> \o b
  <2>1. Len(s) \in i .. Len(s)
    OBVIOUS
  <2>2. SubSeq(s, i, Len(s)) = <<s[i]>> \o SubSeq(s, i + 1, Len(s))
    BY <2>1, SubSeqRecursiveFirst
  <2> QED
    BY <1>1, <2>2
<1>4. a \o SubSeq(s, i, Len(s)) = s
  <2>1. 1 \in 1 .. Len(s) + 1 /\ i - 1 \in 1 - 1 .. Len(s) /\ Len(s) \in i - 1 .. Len(s)
        /\ (i - 1) + 1 = i
    OBVIOUS
  <2>2. SubSeq(s, 1, i - 1) \o SubSeq(s, (i - 1) + 1, Len(s)) = SubSeq(s, 1, Len(s))
    BY <2>1, ConcatAdjacentSubSeq
  <2> QED
    BY <2>1, <2>2, SubSeqFull
<1> HIDE DEF a, b
<1>5. s = a \o (<<y>> \o b)
  BY <1>3, <1>4
<1> QED
  BY <1>2, <1>5, Zenon DEF Splits

\* And that is before and behind it in every reading of the sequence.
LEMMA SplitOnce ==
  ASSUME NEW T, NEW y \in T, NEW a \in Seq(T), NEW b \in Seq(T),
         NEW c \in Seq(T), NEW d \in Seq(T),
         a \o (<<y>> \o b) = c \o (<<y>> \o d), Once(c \o (<<y>> \o d))
  PROVE  a = c /\ b = d
<1> DEFINE q == c \o (<<y>> \o d)
           m == Len(a)
           n == Len(c)
<1>1. /\ <<y>> \o b \in Seq(T) /\ <<y>> \o d \in Seq(T) /\ <<y>> \in Seq(T)
      /\ q \in Seq(T) /\ m \in Nat /\ n \in Nat
  BY ConcatProperties
<1>2. m + 1 \in 1 .. Len(q) /\ q[m + 1] = y
  <2>1. Len(<<y>> \o b) = 1 + Len(b) /\ (<<y>> \o b)[1] = y /\ Len(b) \in Nat
    OBVIOUS
  <2> DEFINE r == <<y>> \o b
  <2> HIDE DEF r
  <2>2. Len(a \o r) = m + Len(r) /\ \A i \in 1 .. m + Len(r) : (a \o r)[i] = IF i <= m THEN a[i] ELSE r[i - m]
    BY <1>1, ConcatProperties DEF r
  <2>3. m + 1 \in 1 .. Len(a \o r) /\ (a \o r)[m + 1] = r[1]
    BY <1>1, <2>1, <2>2 DEF r
  <2> QED
    BY <2>1, <2>3 DEF r
<1>3. n + 1 \in 1 .. Len(q) /\ q[n + 1] = y
  <2>1. Len(<<y>> \o d) = 1 + Len(d) /\ (<<y>> \o d)[1] = y /\ Len(d) \in Nat
    OBVIOUS
  <2> DEFINE r == <<y>> \o d
  <2> HIDE DEF r
  <2>2. Len(c \o r) = n + Len(r) /\ \A i \in 1 .. n + Len(r) : (c \o r)[i] = IF i <= n THEN c[i] ELSE r[i - n]
    BY <1>1, ConcatProperties DEF r
  <2>3. n + 1 \in 1 .. Len(c \o r) /\ (c \o r)[n + 1] = r[1]
    BY <1>1, <2>1, <2>2 DEF r
  <2> QED
    BY <2>1, <2>3 DEF r
<1>4. m = n
  <2>1. m + 1 = n + 1
    BY <1>2, <1>3 DEF Once
  <2> QED
    BY <1>1, <2>1
<1>5. a = c
  <2>1. \A i \in 1 .. m : a[i] = q[i]
    BY <1>1, ConcatProperties
  <2>2. \A i \in 1 .. n : c[i] = q[i]
    BY <1>1, ConcatProperties
  <2> HIDE DEF q
  <2> QED
    BY <1>4, <2>1, <2>2, SeqEqual
<1>6. \A u, v, w \in Seq(T) : u \o v = u \o w => v = w
  BY ConcatSimplifications, Zenon
<1>7. <<y>> \o b = <<y>> \o d
  BY <1>1, <1>5, <1>6, Zenon
<1>8. b = d
  BY <1>1, <1>6, <1>7, Zenon
<1> QED
  BY <1>5, <1>8

\* In s, y has elements in front of it of which c is kept, and elements behind
\* it of which d is kept.
Stands(y, c, d, s, S, T) ==
    \E a, b \in Seq(T) : /\ s = a \o (<<y>> \o b)
                         /\ Only(a, S) = c
                         /\ Only(b, S) = d

\* Where an element kept once stands, what is kept before it and behind it is
\* kept of what stands before and behind it.
LEMMA OnlyAround ==
  ASSUME NEW T, NEW S, NEW s \in Seq(T), Once(s), NEW y \in T \cap S,
         NEW c \in Seq(T), NEW d \in Seq(T), Only(s, S) = c \o (<<y>> \o d)
  PROVE  Stands(y, c, d, s, S, T)
<1>1. <<y>> \in Seq(T) /\ <<y>> \o d \in Seq(T)
  BY ConcatProperties
<1>2. y \in Range(s)
  <2> DEFINE r == <<y>> \o d
  <2>1. Range(c \o r) = Range(c) \cup Range(r)
    <3>1. \A v \in Seq(T) : Range(c \o v) = Range(c) \cup Range(v)
      BY RangeConcatenation
    <3>2. r \in Seq(T)
      BY <1>1
    <3> HIDE DEF r
    <3> QED
      BY <3>1, <3>2, Zenon
  <2>2. Range(<<y>> \o d) = Range(<<y>>) \cup Range(d)
    BY <1>1, RangeConcatenation
  <2>3. y \in Range(<<y>>)
    BY DEF Range
  <2>4. Range(Only(s, S)) = Range(s) \cap S
    BY OnlyElements
  <2> QED
    BY <2>1, <2>2, <2>3, <2>4
<1>3. PICK a \in Seq(T), b \in Seq(T) : s = a \o (<<y>> \o b)
  <2>1. Splits(s, y, T)
    BY <1>2, SplitAt
  <2> QED
    BY <2>1, Zenon DEF Splits
<1>4. <<y>> \o b \in Seq(T)
  BY <1>1, <1>3, ConcatProperties
<1>5. Only(<<y>>, S) = <<y>>
  <2>1. <<y>> \in Seq({y}) /\ {y} \subseteq S
    OBVIOUS
  <2> QED
    BY <2>1, OnlyAll
<1>6. Only(s, S) = Only(a, S) \o (<<y>> \o Only(b, S))
  <2>1. Only(a \o (<<y>> \o b), S) = Only(a, S) \o Only(<<y>> \o b, S)
    BY <1>3, <1>4, OnlyConcat
  <2>2. Only(<<y>> \o b, S) = Only(<<y>>, S) \o Only(b, S)
    BY <1>1, <1>3, OnlyConcat
  <2> QED
    BY <1>3, <1>5, <2>1, <2>2
<1>7. Once(c \o (<<y>> \o d))
  BY OnlyOnce
<1>8. Only(a, S) \in Seq(T) /\ Only(b, S) \in Seq(T)
  BY <1>3, OnlyType
<1>9. Only(a, S) = c /\ Only(b, S) = d
  BY <1>6, <1>7, <1>8, SplitOnce, ZenonT(30)
<1> QED
  BY <1>3, <1>9, Zenon DEF Stands

\* x ends what comes before as it begins what follows.
PassesOver(x, a, t, b) == a \o ((<<x>> \o t) \o b) = (a \o <<x>>) \o (t \o b)

\* An element can be taken from the front of what follows and put at the end of
\* what comes before.
LEMMA MovedOver ==
  ASSUME NEW T, NEW x \in T, NEW a \in Seq(T), NEW t \in Seq(T), NEW b \in Seq(T)
  PROVE  PassesOver(x, a, t, b)
<1> DEFINE one == <<x>>
<1>1. one \in Seq(T)
  OBVIOUS
<1> HIDE DEF one
<1>2. \A u, v, w \in Seq(T) : (u \o v) \o w = u \o (v \o w)
  BY ConcatAssociative, SMTT(30)
<1>3. t \o b \in Seq(T)
  BY ConcatProperties
<1>4. (one \o t) \o b = one \o (t \o b)
  BY <1>1, <1>2, Zenon
<1>5. (a \o one) \o (t \o b) = a \o (one \o (t \o b))
  BY <1>1, <1>2, <1>3, ZenonT(30)
<1> QED
  BY <1>4, <1>5, Zenon DEF one, PassesOver

\* So for a single element.
LEMMA OnlyDropOne ==
  ASSUME NEW T, NEW x \in T, NEW c \in Seq(T), NEW r \in Seq(T), Once(c \o (<<x>> \o r))
  PROVE  Only(c, T \ {x}) = c /\ Only(<<x>> \o r, T \ {x}) = r
<1> DEFINE one == <<x>>
           q == one \o r
<1>1. one \in Seq(T) /\ q \in Seq(T) /\ Range(one) = {x} /\ Once(c \o q)
  BY DEF Range
<1> HIDE DEF one
<1>2. Once(c \o (one \o r))
  BY <1>1
<1>3. TakesOut(c, one, r, T)
  BY <1>1, <1>2, OnlyDrop
<1> QED
  BY <1>1, <1>3 DEF one, TakesOut

\* With y kept and x not, y stands between c and r.
Replaces(y, x, c, r, s, L, T) == Only(s, T \ ((L \cup {x}) \ {y})) = c \o (<<y>> \o r)

\* One element is kept after all, in the place of another that comes right
\* behind what stands before it.
LEMMA PutBack ==
  ASSUME NEW T, NEW L, NEW s \in Seq(T), Once(s), NEW x \in T \ L, NEW y \in T \cap L,
         NEW c \in Seq(T), NEW r \in Seq(T), Once(c \o (<<x>> \o r)),
         Stands(y, c, <<x>> \o r, s, T \ L, T)
  PROVE  Replaces(y, x, c, r, s, L, T)
<1> DEFINE S == T \ L
           K == T \ ((L \cup {x}) \ {y})
           X == {x}
<1>1. PICK a \in Seq(T), b \in Seq(T) : /\ s = a \o (<<y>> \o b)
                                        /\ Only(a, S) = c
                                        /\ Only(b, S) = <<x>> \o r
  BY Zenon DEF Stands
<1>2. <<y>> \in Seq(T) /\ <<x>> \in Seq(T) /\ <<y>> \in Seq({y})
  OBVIOUS
<1>3. Range(<<y>>) = {y} /\ Range(<<x>>) = X
  BY DEF Range
<1>4. <<y>> \o b \in Seq(T)
  BY <1>1, <1>2, ConcatProperties
<1>5. y \notin Range(a) /\ y \notin Range(b)
  <2> DEFINE one == <<y>>
             q == one \o b
  <2>1. one \in Seq(T) /\ q \in Seq(T) /\ Range(one) = {y}
    BY <1>2, <1>3, <1>4
  <2>2. Range(q) = Range(one) \cup Range(b)
    <3> HIDE DEF one
    <3> QED
      BY <1>1, <2>1, RangeConcatenation
  <2>3. Once(q) => Range(one) \cap Range(b) = {}
    <3> HIDE DEF one
    <3> QED
      BY <1>1, <2>1, OnceConcat
  <2> HIDE DEF q
  <2>4. Once(q) /\ Range(a) \cap Range(q) = {}
    <3>1. s = a \o q
      BY <1>1 DEF q
    <3>2. \A u, v \in Seq(T) : Once(u \o v) => Once(v) /\ Range(u) \cap Range(v) = {}
      BY OnceConcat
    <3> QED
      BY <1>1, <2>1, <3>1, <3>2, ZenonT(30)
  <2> HIDE DEF one
  <2> QED
    BY <2>1, <2>2, <2>3, <2>4
<1>6. \A u \in Seq(T) : y \notin Range(u) => Only(u, K) = Only(Only(u, S), T \ X)
  <2> SUFFICES ASSUME NEW u \in Seq(T), y \notin Range(u)
               PROVE  Only(u, K) = Only(Only(u, S), T \ X)
    OBVIOUS
  <2>1. u \in Seq(Range(u)) /\ Range(u) \subseteq T
    BY SeqOfRange, RangeOfSeq
  <2>2. K \cap Range(u) = (S \ X) \cap Range(u)
    BY <2>1
  <2>3. Only(u, K) = Only(u, S \ X)
    <3> HIDE DEF K, S, X
    <3> QED
      BY <2>1, <2>2, OnlySame
  <2>4. Only(u, S \ X) = Only(Only(u, S), T \ X)
    <3>1. S \cap (T \ X) = S \ X
      OBVIOUS
    <3> DEFINE Y == T \ X
    <3> HIDE DEF S, Y
    <3>2. Only(Only(u, S), Y) = Only(u, S \cap Y)
      BY OnlyTwice
    <3> QED
      BY <3>1, <3>2, Zenon DEF Y
  <2> QED
    BY <2>3, <2>4
<1>7. Only(c, T \ X) = c /\ Only(<<x>> \o r, T \ X) = r
  BY <1>2, OnlyDropOne
<1>8. Only(a, K) = c /\ Only(b, K) = r
  BY <1>1, <1>5, <1>6, <1>7, Zenon
<1>9. Only(<<y>>, K) = <<y>>
  <2>1. {y} \subseteq K
    OBVIOUS
  <2> HIDE DEF K
  <2> QED
    BY <1>2, <2>1, OnlyAll, ZenonT(30)
<1> DEFINE one == <<y>>
<1>10. one \in Seq(T) /\ s = a \o (one \o b) /\ one \o b \in Seq(T) /\ Only(one, K) = one
  BY <1>1, <1>2, <1>4, <1>9
<1> HIDE DEF one, K
<1>11. Only(s, K) = Only(a, K) \o Only(one \o b, K)
  <2>1. \A u, v \in Seq(T) : Only(u \o v, K) = Only(u, K) \o Only(v, K)
    BY OnlyConcat
  <2> QED
    BY <1>1, <1>10, <2>1, Zenon
<1>12. Only(one \o b, K) = one \o Only(b, K)
  <2>1. \A u, v \in Seq(T) : Only(u \o v, K) = Only(u, K) \o Only(v, K)
    BY OnlyConcat
  <2>2. Only(one \o b, K) = Only(one, K) \o Only(b, K)
    BY <1>1, <1>10, <2>1, Zenon
  <2> QED
    BY <1>10, <2>2, Zenon
<1> QED
  BY <1>8, <1>11, <1>12, Zenon DEF one, K, Replaces
-----------------------------------------------------------------------------
(***************************************************************************)
(* Sequences joined: FlattenSeq of the library, unfolded.                  *)
(***************************************************************************)
\* f joins the sequences, one after the other.
Joins(f, seqs, T) ==
    /\ f \in [0 .. Len(seqs) -> Seq(T)] /\ f[0] = <<>>
    /\ \A n \in 1 .. Len(seqs) : f[n] = f[n - 1] \o seqs[n]

\* FlattenSeq, as the functions that join the sequences give it.
LEMMA FlattenJoins ==
  ASSUME NEW T, NEW seqs \in Seq(Seq(T))
  PROVE  \E f : Joins(f, seqs, T) /\ FlattenSeq(seqs) = f[Len(seqs)]
<1> DEFINE N == Len(seqs)
           F == [p \in Nat \X Seq(T) |-> IF p[1] \in 1 .. N THEN p[2] \o seqs[p[1]] ELSE p[2]]
           All(f) == f = [i \in 1 .. N |-> IF i = 1 THEN seqs[i] ELSE f[i - 1] \o seqs[i]]
           flatten == CHOOSE f : All(f)
<1>1. N \in Nat /\ <<>> \in Seq(T) /\ \A n \in 1 .. N : seqs[n] \in Seq(T)
  OBVIOUS
<1>2. F \in [Nat \X Seq(T) -> Seq(T)]
  <2>1. ASSUME NEW p \in Nat \X Seq(T)
        PROVE  (IF p[1] \in 1 .. N THEN p[2] \o seqs[p[1]] ELSE p[2]) \in Seq(T)
    <3>1. p[2] \in Seq(T)
      OBVIOUS
    <3> QED
      BY <1>1, <3>1, ConcatProperties
  <2> QED
    BY <2>1
<1> HIDE DEF F
<1>3. PICK g : Goes(g, Seq(T), <<>>, F, N)
  BY <1>1, <1>2, Recursion
<1>4. \A n \in Nat, t \in Seq(T) : n \in 1 .. N => F[<<n, t>>] = t \o seqs[n]
  BY <1>1 DEF F
<1>5. Joins(g, seqs, T)
  <2>1. /\ g \in [0 .. N -> Seq(T)] /\ g[0] = <<>>
        /\ \A n \in 1 .. N : g[n] = F[<<n, g[n - 1]>>]
    BY <1>3, Zenon DEF Goes
  <2>2. \A n \in 1 .. N : n \in Nat /\ n - 1 \in 0 .. N
    BY <1>1
  <2>3. \A n \in 1 .. N : g[n] = g[n - 1] \o seqs[n]
    BY <1>4, <2>1, <2>2
  <2> QED
    BY <2>1, <2>3 DEF Joins
<1>6. CASE N = 0
  <2>1. FlattenSeq(seqs) = seqs
    BY <1>6 DEF FlattenSeq
  <2>2. seqs = <<>>
    BY <1>6, EmptySeq
  <2> QED
    BY <1>5, <1>6, <2>1, <2>2 DEF Joins
<1>7. CASE N # 0
  <2> DEFINE h == [i \in 1 .. N |-> g[i]]
  <2>1. All(h)
    <3>1. ASSUME NEW i \in 1 .. N
          PROVE  h[i] = IF i = 1 THEN seqs[i] ELSE h[i - 1] \o seqs[i]
      <4>1. g[i] = g[i - 1] \o seqs[i]
        BY <1>5 DEF Joins
      <4>2. CASE i = 1
        <5>1. g[0] = <<>> /\ i - 1 = 0
          BY <1>5, <4>2 DEF Joins
        <5>2. <<>> \o seqs[i] = seqs[i]
          BY <1>1, ConcatEmptySeq
        <5> QED
          BY <4>1, <4>2, <5>1, <5>2
      <4>3. CASE i # 1
        <5>1. i - 1 \in 1 .. N
          BY <1>1, <4>3
        <5> QED
          BY <4>1, <4>3, <5>1
      <4> QED
        BY <4>2, <4>3
    <3> QED
      BY <3>1
  <2>2. All(flatten)
    BY <2>1
  <2>3. FlattenSeq(seqs) = flatten[N]
    BY <1>7, Zenon DEF FlattenSeq
  <2> HIDE DEF flatten, h
  <2>4. \A i \in 1 .. N : flatten[i] = IF i = 1 THEN seqs[i] ELSE flatten[i - 1] \o seqs[i]
    BY <2>2
  <2> DEFINE k == [i \in 0 .. N |-> IF i = 0 THEN <<>> ELSE flatten[i]]
  <2>5. k[0] = <<>> /\ \A i \in 1 .. N : k[i] = flatten[i]
    BY <1>1
  <2> HIDE DEF k
  <2>6. ASSUME NEW i \in 1 .. N, k[i - 1] \in Seq(T) PROVE k[i] = F[<<i, k[i - 1]>>]
    <3>1. F[<<i, k[i - 1]>>] = k[i - 1] \o seqs[i]
      <4>1. i \in Nat
        BY <1>1
      <4> QED
        BY <1>4, <2>6, <4>1
    <3>2. CASE i = 1
      <4>1. k[i - 1] = <<>> /\ k[i] = seqs[i]
        BY <2>4, <2>5, <3>2
      <4>2. <<>> \o seqs[i] = seqs[i]
        BY <1>1, ConcatEmptySeq
      <4> QED
        BY <3>1, <4>1, <4>2
    <3>3. CASE i # 1
      <4>1. i - 1 \in 1 .. N
        BY <1>1, <3>3
      <4> QED
        BY <2>4, <2>5, <3>1, <3>3, <4>1
    <3> QED
      BY <3>2, <3>3
  <2>7. \A n \in 0 .. N : k[n] = g[n]
    <3> DEFINE V == Seq(T)
               none == <<>>
    <3>1. Goes(g, V, none, F, N) /\ N \in Nat /\ k[0] = none
          /\ \A n \in 1 .. N : k[n - 1] \in V => k[n] = F[<<n, k[n - 1]>>]
      BY <1>1, <1>3, <2>5, <2>6
    <3> HIDE DEF V, N, none
    <3>2. Agrees(k, g, N)
      BY <3>1, RecursionOnce
    <3> QED
      BY <3>2 DEF Agrees
  <2>8. flatten[N] = g[N]
    BY <1>1, <1>7, <2>5, <2>7
  <2> QED
    BY <1>5, <2>3, <2>8
<1> QED
  BY <1>6, <1>7


\* No sequences, nothing.
LEMMA FlattenNone == FlattenSeq(<<>>) = <<>>
<1>1. Len(<<>>) = 0
  BY EmptySeq
<1> QED
  BY <1>1 DEF FlattenSeq

\* One sequence more at the end.
LEMMA FlattenAppend ==
  ASSUME NEW T, NEW seqs \in Seq(Seq(T)), NEW a \in Seq(T)
  PROVE  /\ FlattenSeq(seqs) \in Seq(T)
         /\ FlattenSeq(Append(seqs, a)) = FlattenSeq(seqs) \o a
<1> DEFINE V == Seq(T)
           N == Len(seqs)
           more == Append(seqs, a)
           F == [p \in Nat \X V |-> IF p[1] \in 1 .. N THEN p[2] \o seqs[p[1]] ELSE p[2]]
           none == <<>>
<1>1. /\ more \in Seq(V) /\ Len(more) = N + 1 /\ N \in Nat /\ more[N + 1] = a
      /\ \A i \in 1 .. N : more[i] = seqs[i] /\ seqs[i] \in V
  BY AppendProperties
<1> HIDE DEF more
<1>2. PICK f : Joins(f, seqs, T) /\ FlattenSeq(seqs) = f[N]
  BY FlattenJoins
<1>3. PICK g : Joins(g, more, T) /\ FlattenSeq(more) = g[N + 1]
  BY <1>1, FlattenJoins
<1> HIDE DEF N
<1>4. \A n \in Nat, t \in V : n \in 1 .. N => F[<<n, t>>] = t \o seqs[n]
  OBVIOUS
<1> HIDE DEF F
<1>5. /\ f \in [0 .. N -> V] /\ f[0] = none
      /\ \A n \in 1 .. N : f[n] = f[n - 1] \o seqs[n]
  BY <1>2 DEF Joins, N
<1>6. /\ g \in [0 .. N + 1 -> V] /\ g[0] = none
      /\ \A n \in 1 .. N + 1 : g[n] = g[n - 1] \o more[n]
  BY <1>1, <1>3 DEF Joins
<1>7. \A n \in 1 .. N : /\ n \in Nat /\ n - 1 \in 0 .. N /\ n \in 1 .. N + 1
                       /\ n - 1 \in 0 .. N + 1
  BY <1>1
<1>8. Goes(f, V, none, F, N)
  BY <1>4, <1>5, <1>7 DEF Goes
<1>9. \A n \in 1 .. N : g[n - 1] \in V => g[n] = F[<<n, g[n - 1]>>]
  BY <1>1, <1>4, <1>6, <1>7, ZenonT(30)
<1>10. Agrees(g, f, N)
  <2>1. /\ Goes(f, V, none, F, N) /\ N \in Nat /\ g[0] = none
        /\ \A n \in 1 .. N : g[n - 1] \in V => g[n] = F[<<n, g[n - 1]>>]
    BY <1>1, <1>6, <1>8, <1>9
  <2> HIDE DEF V, none
  <2> QED
    BY <2>1, RecursionOnce
<1>11. g[N] = f[N] /\ f[N] \in V
  BY <1>1, <1>5, <1>10 DEF Agrees
<1>12. g[N + 1] = g[N] \o a
  <2>1. N + 1 \in 1 .. N + 1 /\ (N + 1) - 1 = N
    BY <1>1
  <2> QED
    BY <1>1, <1>6, <2>1
<1> QED
  BY <1>2, <1>3, <1>11, <1>12 DEF more

\* One sequence.
LEMMA FlattenOne ==
  ASSUME NEW T, NEW a \in Seq(T)
  PROVE  FlattenSeq(<<a>>) = a
<1> DEFINE none == <<>>
<1>1. none \in Seq(Seq(T)) /\ Append(none, a) = <<a>> /\ FlattenSeq(none) = none
  BY FlattenNone
<1>2. none \o a = a
  BY ConcatEmptySeq
<1> HIDE DEF none
<1>3. FlattenSeq(Append(none, a)) = FlattenSeq(none) \o a
  BY <1>1, FlattenAppend
<1> QED
  BY <1>1, <1>2, <1>3

\* One element more than one.
LEMMA AppendToOne == ASSUME NEW T, NEW a \in T, NEW b \in T PROVE Append(<<a>>, b) = <<a, b>>
<1>1. <<a>> \in Seq(T) /\ <<a, b>> \in Seq(T) /\ Len(<<a>>) = 1 /\ Len(<<a, b>>) = 2
      /\ <<a>>[1] = a /\ <<a, b>>[1] = a /\ <<a, b>>[2] = b
  OBVIOUS
<1>2. ASSUME NEW one \in Seq(T), Len(one) = 1, NEW two \in Seq(T), Len(two) = 2,
             one[1] = two[1], two[2] = b
      PROVE  Append(one, b) = two
  <2>1. PICK d \in Seq(T) : /\ d = Append(one, b) /\ Len(d) = Len(one) + 1
                            /\ \A i \in 1 .. Len(one) : d[i] = one[i]
                            /\ d[Len(one) + 1] = b
    BY AppendProperties
  <2>2. Len(d) = 2 /\ d[1] = two[1] /\ d[2] = two[2]
    BY <1>2, <2>1
  <2>3. \A i \in 1 .. Len(d) : i = 1 \/ i = 2
    BY <2>2
  <2>4. \A i \in 1 .. Len(d) : d[i] = two[i]
    BY <2>2, <2>3
  <2>5. Len(d) = Len(two)
    BY <1>2, <2>2
  <2>6. d = two
    BY <2>4, <2>5, SeqEqual
  <2> QED
    BY <2>1, <2>6
<1> QED
  BY <1>1, <1>2

\* Two sequences.
LEMMA FlattenTwo ==
  ASSUME NEW T, NEW a \in Seq(T), NEW b \in Seq(T)
  PROVE  FlattenSeq(<<a, b>>) = a \o b
<1> DEFINE one == <<a>>
<1>1. one \in Seq(Seq(T)) /\ Append(one, b) = <<a, b>> /\ FlattenSeq(one) = a
  <2>1. one \in Seq(Seq(T))
    OBVIOUS
  <2>2. Append(one, b) = <<a, b>>
    <3> DEFINE V == Seq(T)
    <3>1. a \in V /\ b \in V
      OBVIOUS
    <3> HIDE DEF V
    <3> QED
      BY <3>1, AppendToOne
  <2>3. FlattenSeq(one) = a
    BY FlattenOne
  <2> QED
    BY <2>1, <2>2, <2>3
<1> HIDE DEF one
<1>2. FlattenSeq(Append(one, b)) = FlattenSeq(one) \o b
  BY <1>1, FlattenAppend
<1> QED
  BY <1>1, <1>2

\* The first sequence comes first.
LEMMA FlattenHead ==
  ASSUME NEW T, NEW seqs \in Seq(Seq(T)), seqs # <<>>
  PROVE  /\ Head(seqs) \in Seq(T) /\ Tail(seqs) \in Seq(Seq(T))
         /\ FlattenSeq(Tail(seqs)) \in Seq(T)
         /\ FlattenSeq(seqs) = Head(seqs) \o FlattenSeq(Tail(seqs))
<1> DEFINE a == Head(seqs)
           V == Seq(T)
           W == {s \in Seq(V) : FlattenSeq(<<a>> \o s) = a \o FlattenSeq(s)}
           none == <<>>
<1>1. /\ a \in V /\ Tail(seqs) \in Seq(V) /\ <<a>> \in Seq(V)
      /\ seqs = <<a>> \o Tail(seqs)
  <2>1. a \in V /\ Tail(seqs) \in Seq(V)
    BY HeadTailProperties
  <2>2. seqs = <<a>> \o Tail(seqs)
    <3> HIDE DEF V
    <3>1. <<Head(seqs)>> \o Tail(seqs) = seqs
      BY HeadTailProperties
    <3> QED
      BY <3>1
  <2> QED
    BY <2>1, <2>2
<1> HIDE DEF a
<1>2. none \in Seq(V) /\ none \in V /\ FlattenSeq(none) = none
  BY EmptySeq, FlattenNone
<1>3. none \in W
  <2>1. <<a>> = Append(none, a) /\ <<a>> \o none = <<a>>
    BY <1>1, ConcatEmptySeq
  <2>2. FlattenSeq(Append(none, a)) = FlattenSeq(none) \o a
    <3> HIDE DEF none
    <3> QED
      BY <1>1, <1>2, FlattenAppend
  <2>3. none \o a = a /\ a \o none = a
    BY <1>1, ConcatEmptySeq
  <2> QED
    BY <1>2, <2>1, <2>2, <2>3
<1>4. ASSUME NEW s \in Seq(V), NEW e \in V, s \in W PROVE Append(s, e) \in W
  <2>1. Append(s, e) \in Seq(V) /\ <<a>> \o s \in Seq(V)
        /\ <<a>> \o Append(s, e) = Append(<<a>> \o s, e)
    <3>1. \A u, v \in Seq(V) : u \o Append(v, e) = Append(u \o v, e) /\ u \o v \in Seq(V)
      <4> HIDE DEF V
      <4> QED
        BY ConcatProperties
    <3> QED
      BY <1>1, <3>1, AppendProperties
  <2>2. FlattenSeq(s) \in V /\ FlattenSeq(Append(s, e)) = FlattenSeq(s) \o e
    BY FlattenAppend
  <2>3. FlattenSeq(Append(<<a>> \o s, e)) = FlattenSeq(<<a>> \o s) \o e
    BY <2>1, FlattenAppend
  <2>4. (a \o FlattenSeq(s)) \o e = a \o (FlattenSeq(s) \o e)
    BY <1>1, <2>2, ConcatAssociative, SMTT(30)
  <2>5. FlattenSeq(<<a>> \o s) = a \o FlattenSeq(s)
    BY <1>4
  <2> HIDE DEF V
  <2> QED
    BY <2>1, <2>2, <2>3, <2>4, <2>5
<1> HIDE DEF W
<1>5. Tail(seqs) \in W
  <2> HIDE DEF V, none
  <2>1. none = <<>>
    BY DEF none
  <2> QED
    BY <1>1, <1>3, <1>4, <2>1, SeqSetInduction
<1>6. FlattenSeq(Tail(seqs)) \in V
  BY <1>1, <1>2, FlattenAppend
<1> QED
  BY <1>1, <1>5, <1>6 DEF W, a

==============================================================================
