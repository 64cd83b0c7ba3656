------------------------------- MODULE DataFacts -------------------------------
(***************************************************************************)
(* Facts about data of any size: what the folds of the community modules   *)
(* compute (FlattenSeq, a history put together from parts, and             *)
(* SumFunctionOnSet, a total), and counting in intervals.  Induction over  *)
(* data is induction over sets of naturals here: a set of them with 0 and  *)
(* all successors is Nat.                                                  *)
(***************************************************************************)
EXTENDS Integers, Sequences, FiniteSets, SequencesExt, FiniteSetsExt, Functions,
        TLAPS, WellFoundedInduction, FiniteSetTheorems, SequenceTheorems

\* Induction over the naturals, for a set.
LEMMA NatInductionOnSet ==
  ASSUME NEW S \in SUBSET Nat, 0 \in S, \A n \in S : n + 1 \in S
  PROVE  S = Nat
  <1> DEFINE T == Nat \ S
             R == {ss \in Nat \X Nat : ss[1] < ss[2]}
  <1>1. IsWellFoundedOn(R, Nat)
    BY NatLessThanWellFounded DEF OpToRel
  <1> SUFFICES ASSUME T # {} PROVE FALSE
    OBVIOUS
  <1>2. T \subseteq Nat
    OBVIOUS
  <1> HIDE DEF T, R
  <1>3. PICK x \in T : \A y \in T : ~(<<y, x>> \in R)
    BY <1>1, <1>2, WFMin
  <1>4. x \in Nat /\ x # 0 /\ x - 1 \in Nat /\ x - 1 \notin S
    BY <1>3 DEF T
  <1>5. <<x - 1, x>> \in R
    BY <1>4 DEF R
  <1> QED
    BY <1>3, <1>4, <1>5 DEF T

-----------------------------------------------------------------------------
(***************************************************************************)
(* FlattenSeq.                                                             *)
(***************************************************************************)

\* h[i] is the concatenation of the first i elements of ss.
Flattens(h, ss) ==
  h = [i \in 1 .. Len(ss) |-> IF i = 1 THEN ss[i] ELSE h[i - 1] \o ss[i]]

\* There is such a function, and its values are sequences.
LEMMA FlattensExists ==
  ASSUME NEW S, NEW ss \in Seq(Seq(S))
  PROVE  \E h : Flattens(h, ss) /\ \A i \in 1 .. Len(ss) : h[i] \in Seq(S)
  <1> DEFINE n == Len(ss)
             Upto(h, m) == \A i \in 1 .. m : h[i] = IF i = 1 THEN ss[i] ELSE h[i - 1] \o ss[i]
             Has(m) == m <= n => \E h \in [1 .. m -> Seq(S)] : Upto(h, m)
             Good == {m \in Nat : Has(m)}
  <1>1. n \in Nat /\ \A i \in 1 .. n : ss[i] \in Seq(S)
    BY ElementOfSeq
  <1>2. Has(0)
    <2> DEFINE e == [i \in 1 .. 0 |-> <<>>]
    <2>1. e \in [1 .. 0 -> Seq(S)]
      OBVIOUS
    <2> HIDE DEF e
    <2>2. Upto(e, 0)
      OBVIOUS
    <2> QED
      BY <2>1, <2>2
  <1>3. ASSUME NEW m \in Nat, Has(m) PROVE Has(m + 1)
    <2> SUFFICES ASSUME m + 1 <= n
                 PROVE  \E h \in [1 .. m + 1 -> Seq(S)] : Upto(h, m + 1)
      OBVIOUS
    <2>1. m \in Nat /\ m <= n /\ m + 1 \in 1 .. n
      BY <1>1
    <2>2. PICK h \in [1 .. m -> Seq(S)] : Upto(h, m)
      BY <1>3, <2>1
    <2> DEFINE last == IF m + 1 = 1 THEN ss[m + 1] ELSE h[m] \o ss[m + 1]
               g == [i \in 1 .. m + 1 |-> IF i = m + 1 THEN last ELSE h[i]]
    <2>3. last \in Seq(S)
      <3>1. CASE m = 0
        BY <1>1, <2>1, <3>1
      <3>2. CASE m # 0
        <4>1. h[m] \in Seq(S) /\ ss[m + 1] \in Seq(S)
          BY <1>1, <2>1, <3>2
        <4> QED
          BY <2>1, <3>2, <4>1, ConcatProperties
      <3> QED
        BY <3>1, <3>2
    <2> HIDE DEF last
    <2>4. g \in [1 .. m + 1 -> Seq(S)]
      BY <2>1, <2>3
    <2>5. g[m + 1] = last /\ \A i \in 1 .. m : g[i] = h[i]
      BY <2>1
    <2> HIDE DEF g
    <2>6. ASSUME NEW i \in 1 .. m + 1
          PROVE  g[i] = IF i = 1 THEN ss[i] ELSE g[i - 1] \o ss[i]
      <3>1. CASE i = m + 1
        <4>1. m # 0 => g[m] = h[m]
          BY <2>1, <2>5
        <4>2. i - 1 = m /\ (m = 0 <=> i = 1)
          BY <2>1, <3>1
        <4> QED
          BY <2>5, <3>1, <4>1, <4>2 DEF last
      <3>2. CASE i # m + 1
        <4>1. i \in 1 .. m /\ (i # 1 => i - 1 \in 1 .. m)
          BY <2>1, <3>2
        <4> QED
          BY <2>2, <2>5, <4>1
      <3> QED
        BY <3>1, <3>2
    <2> QED
      BY <2>4, <2>6
  <1>4. Has(n)
    <2> HIDE DEF Has
    <2>1. Good = Nat
      <3>1. Good \in SUBSET Nat /\ 0 \in Good /\ \A m \in Good : m + 1 \in Good
        BY <1>2, <1>3
      <3> HIDE DEF Good
      <3> QED
        BY <3>1, NatInductionOnSet
    <2> QED
      BY <1>1, <2>1
  <1>5. PICK h \in [1 .. n -> Seq(S)] : Upto(h, n)
    BY <1>4
  <1>6. h = [i \in 1 .. n |-> IF i = 1 THEN ss[i] ELSE h[i - 1] \o ss[i]]
    BY <1>5
  <1> QED
    BY <1>5, <1>6 DEF Flattens

\* There is one such function.
LEMMA FlattensUnique ==
  ASSUME NEW S, NEW ss \in Seq(S), NEW g, NEW h, Flattens(g, ss), Flattens(h, ss)
  PROVE  g = h
  <1> DEFINE n == Len(ss)
             Same == {m \in Nat : m \in 1 .. n => g[m] = h[m]}
  <1>1. n \in Nat
    OBVIOUS
  <1>2. /\ g = [i \in 1 .. n |-> IF i = 1 THEN ss[i] ELSE g[i - 1] \o ss[i]]
        /\ h = [i \in 1 .. n |-> IF i = 1 THEN ss[i] ELSE h[i - 1] \o ss[i]]
    BY DEF Flattens
  <1> HIDE DEF n
  <1>3. /\ \A i \in 1 .. n : g[i] = IF i = 1 THEN ss[i] ELSE g[i - 1] \o ss[i]
        /\ \A i \in 1 .. n : h[i] = IF i = 1 THEN ss[i] ELSE h[i - 1] \o ss[i]
    BY <1>2
  <1>4. 0 \in Same
    OBVIOUS
  <1>5. ASSUME NEW m \in Same PROVE m + 1 \in Same
    <2> SUFFICES ASSUME m + 1 \in 1 .. n PROVE g[m + 1] = h[m + 1]
      OBVIOUS
    <2>1. CASE m = 0
      <3>1. m + 1 = 1
        BY <2>1
      <3> QED
        BY <1>3, <3>1
    <2>2. CASE m # 0
      <3>1. m \in Nat /\ m \in 1 .. n /\ (m + 1) - 1 = m /\ m + 1 # 1
        BY <1>1, <2>2
      <3>2. g[m] = h[m]
        BY <3>1
      <3> QED
        BY <1>3, <3>1, <3>2
    <2> QED
      BY <2>1, <2>2
  <1>6. Same = Nat
    <2> HIDE DEF Same
    <2>1. Same \in SUBSET Nat
      BY DEF Same
    <2> QED
      BY <1>4, <1>5, <2>1, NatInductionOnSet
  <1>7. \A i \in 1 .. n : g[i] = h[i]
    BY <1>1, <1>6
  <1> QED
    BY <1>2, <1>7

\* FlattenSeq is the last value of that function.
LEMMA FlattenIs ==
  ASSUME NEW S, NEW ss \in Seq(S), Len(ss) # 0, NEW h, Flattens(h, ss)
  PROVE  FlattenSeq(ss) = h[Len(ss)]
  <1> DEFINE c == CHOOSE g : Flattens(g, ss)
  <1>1. Flattens(c, ss)
    BY Zenon
  <1> HIDE DEF c
  <1>2. c = h
    BY <1>1, FlattensUnique
  <1>3. FlattenSeq(ss) = c[Len(ss)]
    BY DEF FlattenSeq, Flattens, c
  <1> QED
    BY <1>2, <1>3

\* Nothing flattens to nothing.
LEMMA FlattenEmpty == FlattenSeq(<<>>) = <<>>
  <1>1. Len(<<>>) = 0
    OBVIOUS
  <1> QED
    BY <1>1 DEF FlattenSeq

\* What is flattened is a sequence of the elements.
LEMMA FlattenType ==
  ASSUME NEW S, NEW ss \in Seq(Seq(S))
  PROVE  FlattenSeq(ss) \in Seq(S)
  <1>1. CASE ss = <<>>
    <2>1. <<>> \in Seq(S)
      OBVIOUS
    <2> QED
      BY <1>1, <2>1, FlattenEmpty
  <1>2. CASE ss # <<>>
    <2>1. Len(ss) # 0 /\ Len(ss) \in 1 .. Len(ss)
      BY <1>2
    <2>2. PICK h : Flattens(h, ss) /\ \A i \in 1 .. Len(ss) : h[i] \in Seq(S)
      BY FlattensExists
    <2>3. FlattenSeq(ss) = h[Len(ss)]
      BY <2>1, <2>2, FlattenIs
    <2> QED
      BY <2>1, <2>2, <2>3
  <1> QED
    BY <1>1, <1>2

\* One part more is concatenated at the end.
LEMMA FlattenAppend ==
  ASSUME NEW S, NEW ss \in Seq(Seq(S)), NEW t \in Seq(S)
  PROVE  FlattenSeq(Append(ss, t)) = FlattenSeq(ss) \o t
  <1> DEFINE n == Len(ss)
             tt == Append(ss, t)
  <1>1. /\ n \in Nat /\ tt \in Seq(Seq(S)) /\ Len(tt) = n + 1 /\ tt[n + 1] = t
        /\ \A i \in 1 .. n : tt[i] = ss[i]
    BY AppendProperties
  <1>2. PICK h : Flattens(h, tt) /\ \A i \in 1 .. Len(tt) : h[i] \in Seq(S)
    BY <1>1, FlattensExists
  <1>3. h = [i \in 1 .. n + 1 |-> IF i = 1 THEN tt[i] ELSE h[i - 1] \o tt[i]]
    BY <1>1, <1>2 DEF Flattens
  <1> HIDE DEF n, tt
  <1>4. FlattenSeq(tt) = h[n + 1]
    <2>1. Len(tt) # 0 /\ Flattens(h, tt)
      BY <1>1, <1>2
    <2> QED
      BY <1>1, <2>1, FlattenIs
  <1>5. CASE n = 0
    <2>1. ss = <<>>
      BY <1>5 DEF n
    <2>2. 1 \in 1 .. n + 1 /\ h[1] = t
      BY <1>1, <1>3, <1>5
    <2>3. FlattenSeq(ss) \o t = t
      BY <2>1, FlattenEmpty, ConcatEmptySeq
    <2> QED
      BY <1>4, <1>5, <2>2, <2>3 DEF tt
  <1>6. CASE n # 0
    <2> DEFINE g == [i \in 1 .. n |-> h[i]]
    <2>1. ASSUME NEW i \in 1 .. n
          PROVE  g[i] = IF i = 1 THEN ss[i] ELSE g[i - 1] \o ss[i]
      <3>1. i \in 1 .. n + 1 /\ g[i] = h[i] /\ tt[i] = ss[i]
        BY <1>1
      <3>2. i # 1 => i - 1 \in 1 .. n /\ g[i - 1] = h[i - 1]
        BY <1>1
      <3> QED
        BY <1>3, <3>1, <3>2
    <2>2. Flattens(g, ss)
      <3>1. DOMAIN g = 1 .. n
        OBVIOUS
      <3> HIDE DEF g
      <3>2. g = [i \in 1 .. n |-> g[i]]
        BY <3>1 DEF g
      <3> QED
        BY <2>1, <3>2 DEF Flattens, n
    <2>3. FlattenSeq(ss) = g[n]
      BY <1>6, <2>2, FlattenIs DEF n
    <2>4. n \in 1 .. n /\ n + 1 \in 1 .. n + 1 /\ n + 1 # 1 /\ (n + 1) - 1 = n
      BY <1>1, <1>6
    <2>5. h[n + 1] = h[n] \o tt[n + 1] /\ g[n] = h[n]
      BY <1>3, <2>4
    <2> QED
      BY <1>1, <1>4, <2>3, <2>5 DEF tt
  <1> QED
    BY <1>5, <1>6

\* A part more after a concatenation.
LEMMA ConcatAppend ==
  \A S : \A ss, tt \in Seq(Seq(S)) : \A t \in Seq(S) :
    ss \o Append(tt, t) = Append(ss \o tt, t)
  OBVIOUS

\* Three sequences, the last one longer by a part.
LEMMA FlattenConcatStep ==
  ASSUME NEW S, NEW ss \in Seq(Seq(S)), NEW tt \in Seq(Seq(S)), NEW t \in Seq(S),
         FlattenSeq(ss \o tt) = FlattenSeq(ss) \o FlattenSeq(tt)
  PROVE  FlattenSeq(ss \o Append(tt, t)) = FlattenSeq(ss) \o FlattenSeq(Append(tt, t))
  <1> DEFINE a == FlattenSeq(ss)
             b == FlattenSeq(tt)
             c == ss \o tt
  <1>1. a \in Seq(S) /\ b \in Seq(S) /\ c \in Seq(Seq(S))
    BY FlattenType, ConcatProperties
  <1>2. ss \o Append(tt, t) = Append(c, t)
    BY ConcatAppend
  <1>3. FlattenSeq(Append(tt, t)) = b \o t
    BY FlattenAppend
  <1> HIDE DEF a, b, c
  <1>4. FlattenSeq(Append(c, t)) = FlattenSeq(c) \o t
    BY <1>1, FlattenAppend
  <1>5. (a \o b) \o t = a \o (b \o t)
    <2>1. a \in Seq(S) /\ b \in Seq(S)
      BY <1>1
    <2> QED
      BY <2>1
  <1> QED
    BY <1>2, <1>3, <1>4, <1>5, Zenon DEF a, b, c

\* Flattening respects concatenation.
LEMMA FlattenConcat ==
  ASSUME NEW S, NEW ss \in Seq(Seq(S)), NEW tt \in Seq(Seq(S))
  PROVE  FlattenSeq(ss \o tt) = FlattenSeq(ss) \o FlattenSeq(tt)
  <1> DEFINE Same(uu) == FlattenSeq(ss \o uu) = FlattenSeq(ss) \o FlattenSeq(uu)
             Has(m) == \A uu \in Seq(Seq(S)) : Len(uu) = m => Same(uu)
             Good == {m \in Nat : Has(m)}
  <1>1. FlattenSeq(ss) \in Seq(S)
    BY FlattenType
  <1>2. Has(0)
    <2> SUFFICES ASSUME NEW uu \in Seq(Seq(S)), Len(uu) = 0 PROVE Same(uu)
      OBVIOUS
    <2>1. uu = <<>>
      OBVIOUS
    <2>2. ss \o uu = ss
      BY <2>1, ConcatEmptySeq
    <2> QED
      BY <1>1, <2>1, <2>2, FlattenEmpty, ConcatEmptySeq
  <1>3. ASSUME NEW m \in Nat, Has(m) PROVE Has(m + 1)
    <2> SUFFICES ASSUME NEW uu \in Seq(Seq(S)), Len(uu) = m + 1 PROVE Same(uu)
      OBVIOUS
    <2>1. uu # <<>>
      OBVIOUS
    <2>2. PICK vv \in Seq(Seq(S)), v \in Seq(S) : uu = Append(vv, v)
      BY <2>1, SequenceEmptyOrAppend
    <2>3. Len(vv) = m
      BY <2>2
    <2>4. Same(vv)
      BY <1>3, <2>3
    <2> QED
      BY <2>2, <2>4, FlattenConcatStep
  <1>4. Good = Nat
    <2> HIDE DEF Has
    <2>1. Good \in SUBSET Nat /\ 0 \in Good /\ \A m \in Good : m + 1 \in Good
      BY <1>2, <1>3
    <2> HIDE DEF Good
    <2> QED
      BY <2>1, NatInductionOnSet
  <1>5. Has(Len(tt))
    <2> HIDE DEF Has
    <2> QED
      BY <1>4
  <1> QED
    BY <1>5

\* What f makes of the elements of s, one after the other.
Parts(f, s) == FlattenSeq([n \in 1 .. Len(s) |-> f[s[n]]])

\* A sequence without its first element.
LEMMA HeadAndTail ==
  ASSUME NEW C, NEW s \in Seq(C), s # <<>>
  PROVE  Head(s) \in C /\ Tail(s) \in Seq(C) /\ s = <<Head(s)>> \o Tail(s)
  OBVIOUS

\* A function on 1 .. n is a sequence of length n.
LEMMA OfLength ==
  ASSUME NEW T, NEW n \in Nat, NEW h \in [1 .. n -> T]
  PROVE  h \in Seq(T) /\ Len(h) = n
  OBVIOUS

\* The elements of two sequences, one after the other.
LEMMA ConcatFacts ==
  ASSUME NEW T, NEW s \in Seq(T), NEW t \in Seq(T)
  PROVE  /\ s \o t \in Seq(T) /\ Len(s \o t) = Len(s) + Len(t)
         /\ Len(s) \in Nat /\ Len(t) \in Nat
         /\ \A n \in 1 .. Len(s) : (s \o t)[n] = s[n]
         /\ \A n \in Len(s) + 1 .. Len(s) + Len(t) : (s \o t)[n] = t[n - Len(s)]
  OBVIOUS

\* The sequences that Parts flattens.
LEMMA PartsOf ==
  ASSUME NEW C, NEW S, NEW f \in [C -> Seq(S)], NEW s \in Seq(C)
  PROVE  /\ [n \in 1 .. Len(s) |-> f[s[n]]] \in Seq(Seq(S))
         /\ Len([n \in 1 .. Len(s) |-> f[s[n]]]) = Len(s)
  <1> DEFINE fs == [n \in 1 .. Len(s) |-> f[s[n]]]
  <1>1. Len(s) \in Nat /\ \A n \in 1 .. Len(s) : f[s[n]] \in Seq(S)
    BY ElementOfSeq
  <1>2. fs \in [1 .. Len(s) -> Seq(S)]
    BY <1>1
  <1> HIDE DEF fs
  <1>3. fs \in Seq(Seq(S)) /\ Len(fs) = Len(s)
    BY <1>1, <1>2, OfLength
  <1> QED
    BY <1>3 DEF fs

\* They are those of its two halves.
LEMMA PartsSplit ==
  ASSUME NEW C, NEW S, NEW f \in [C -> Seq(S)], NEW s \in Seq(C), NEW t \in Seq(C)
  PROVE  [n \in 1 .. Len(s \o t) |-> f[(s \o t)[n]]]
           = [n \in 1 .. Len(s) |-> f[s[n]]] \o [n \in 1 .. Len(t) |-> f[t[n]]]
  <1> DEFINE fs == [n \in 1 .. Len(s) |-> f[s[n]]]
             ft == [n \in 1 .. Len(t) |-> f[t[n]]]
             u == s \o t
             fu == [n \in 1 .. Len(u) |-> f[u[n]]]
  <1>1. fs \in Seq(Seq(S)) /\ Len(fs) = Len(s) /\ ft \in Seq(Seq(S)) /\ Len(ft) = Len(t)
    BY PartsOf
  <1>2. /\ u \in Seq(C) /\ Len(u) = Len(s) + Len(t) /\ Len(s) \in Nat /\ Len(t) \in Nat
        /\ \A n \in 1 .. Len(s) : u[n] = s[n]
        /\ \A n \in Len(s) + 1 .. Len(s) + Len(t) : u[n] = t[n - Len(s)]
    BY ConcatFacts
  <1>3. /\ \A n \in 1 .. Len(s) : fs[n] = f[s[n]]
        /\ \A n \in 1 .. Len(t) : ft[n] = f[t[n]]
    OBVIOUS
  <1>4. fu \in Seq(Seq(S)) /\ Len(fu) = Len(u) /\ \A n \in 1 .. Len(u) : fu[n] = f[u[n]]
    <2>1. u \in Seq(C)
      BY <1>2
    <2> HIDE DEF u
    <2> QED
      BY <2>1, PartsOf
  <1> HIDE DEF fs, ft, u, fu
  <1>5. /\ fs \o ft \in Seq(Seq(S)) /\ Len(fs \o ft) = Len(fs) + Len(ft)
        /\ \A n \in 1 .. Len(fs) : (fs \o ft)[n] = fs[n]
        /\ \A n \in Len(fs) + 1 .. Len(fs) + Len(ft) : (fs \o ft)[n] = ft[n - Len(fs)]
    BY <1>1, ConcatFacts, ZenonT(30)
  <1>6. ASSUME NEW n \in 1 .. Len(u) PROVE fu[n] = (fs \o ft)[n]
    <2>1. n \in Nat /\ n <= Len(s) + Len(t) /\ n >= 1
      BY <1>2
    <2>2. CASE n <= Len(s)
      <3>1. n \in 1 .. Len(s)
        BY <1>2, <2>1, <2>2
      <3> QED
        BY <1>1, <1>2, <1>3, <1>4, <1>5, <3>1, SMTT(20)
    <2>3. CASE ~(n <= Len(s))
      <3>1. n - Len(s) \in 1 .. Len(t) /\ n \in Len(s) + 1 .. Len(s) + Len(t)
        BY <1>2, <2>1, <2>3
      <3>2. fu[n] = f[t[n - Len(s)]]
        BY <1>2, <1>4, <3>1
      <3>3. ft[n - Len(s)] = f[t[n - Len(s)]]
        BY <1>3, <3>1
      <3>4. (fs \o ft)[n] = ft[n - Len(s)]
        BY <1>1, <1>5, <3>1
      <3> QED
        BY <3>2, <3>3, <3>4
    <2> QED
      BY <2>2, <2>3
  <1>7. fu = fs \o ft
    <2>1. Len(fs \o ft) = Len(fu)
      BY <1>1, <1>2, <1>4, <1>5
    <2>2. \A n \in 1 .. Len(fu) : fu[n] = (fs \o ft)[n]
      BY <1>4, <1>6
    <2>3. fu \in Seq(Seq(S)) /\ fs \o ft \in Seq(Seq(S))
      BY <1>4, <1>5
    <2>4. \A T : \A v, w \in Seq(T) :
             Len(w) = Len(v) /\ (\A n \in 1 .. Len(v) : v[n] = w[n]) => v = w
      OBVIOUS
    <2> QED
      BY <2>1, <2>2, <2>3, <2>4, Zenon
  <1> QED
    BY <1>7 DEF fs, ft, u, fu

\* The parts of a sequence of sequences are elements of theirs.
LEMMA PartsType ==
  ASSUME NEW C, NEW S, NEW f \in [C -> Seq(S)], NEW s \in Seq(C)
  PROVE  Parts(f, s) \in Seq(S)
  <1>1. PICK fs : fs = [n \in 1 .. Len(s) |-> f[s[n]]]
    OBVIOUS
  <1>2. fs \in Seq(Seq(S))
    BY <1>1, PartsOf
  <1>3. FlattenSeq(fs) \in Seq(S)
    BY <1>2, FlattenType
  <1> QED
    BY <1>1, <1>3, Zenon DEF Parts

\* No element, no part.
LEMMA PartsEmpty ==
  ASSUME NEW f
  PROVE  Parts(f, <<>>) = <<>>
  <1>1. [n \in 1 .. Len(<<>>) |-> f[<<>>[n]]] = <<>>
    OBVIOUS
  <1> QED
    BY <1>1, FlattenEmpty DEF Parts

\* The parts of two sequences.
LEMMA PartsConcat ==
  ASSUME NEW C, NEW S, NEW f \in [C -> Seq(S)], NEW s \in Seq(C), NEW t \in Seq(C)
  PROVE  Parts(f, s \o t) = Parts(f, s) \o Parts(f, t)
  <1>1. PICK fs : fs = [n \in 1 .. Len(s) |-> f[s[n]]]
    OBVIOUS
  <1>2. PICK ft : ft = [n \in 1 .. Len(t) |-> f[t[n]]]
    OBVIOUS
  <1>3. PICK fu : fu = [n \in 1 .. Len(s \o t) |-> f[(s \o t)[n]]]
    OBVIOUS
  <1>4. fs \in Seq(Seq(S)) /\ ft \in Seq(Seq(S))
    BY <1>1, <1>2, PartsOf
  <1>5. fu = fs \o ft
    BY <1>1, <1>2, <1>3, PartsSplit
  <1>6. FlattenSeq(fs \o ft) = FlattenSeq(fs) \o FlattenSeq(ft)
    BY <1>4, FlattenConcat
  <1>7. FlattenSeq(fu) = FlattenSeq(fs) \o FlattenSeq(ft)
    BY <1>5, <1>6, Zenon
  <1>8. Parts(f, s) = FlattenSeq(fs) /\ Parts(f, t) = FlattenSeq(ft)
        /\ Parts(f, s \o t) = FlattenSeq(fu)
    BY <1>1, <1>2, <1>3, Zenon DEF Parts
  <1> QED
    BY <1>7, <1>8, Zenon

\* One element makes one part.
LEMMA PartsOne ==
  ASSUME NEW C, NEW S, NEW f \in [C -> Seq(S)], NEW c \in C
  PROVE  Parts(f, <<c>>) = f[c]
  <1>1. [n \in 1 .. Len(<<c>>) |-> f[<<c>>[n]]] = Append(<<>>, f[c])
    OBVIOUS
  <1>2. f[c] \in Seq(S) /\ <<>> \in Seq(Seq(S))
    OBVIOUS
  <1>3. FlattenSeq(Append(<<>>, f[c])) = FlattenSeq(<<>>) \o f[c]
    BY <1>2, FlattenAppend
  <1>4. <<>> \o f[c] = f[c]
    BY <1>2
  <1>5. FlattenSeq(<<>>) \o f[c] = f[c]
    BY <1>4, FlattenEmpty, Zenon
  <1> QED
    BY <1>1, <1>3, <1>5, Zenon DEF Parts

\* An element more at the end.
LEMMA PartsAppend ==
  ASSUME NEW C, NEW S, NEW f \in [C -> Seq(S)], NEW s \in Seq(C), NEW c \in C
  PROVE  Parts(f, Append(s, c)) = Parts(f, s) \o f[c]
  <1>1. PICK t : t = <<c>>
    OBVIOUS
  <1>2. Append(s, c) = s \o t
    BY <1>1
  <1>3. Parts(f, s \o t) = Parts(f, s) \o Parts(f, t)
    <2>1. t \in Seq(C)
      BY <1>1
    <2> QED
      BY <2>1, PartsConcat
  <1>4. Parts(f, <<c>>) = f[c]
    BY PartsOne
  <1> QED
    BY <1>1, <1>2, <1>3, <1>4, Zenon

\* The first element of a sequence, and the others.
LEMMA PartsHead ==
  ASSUME NEW C, NEW S, NEW f \in [C -> Seq(S)]
  PROVE  \A s \in Seq(C) : s # <<>> => Parts(f, s) = f[Head(s)] \o Parts(f, Tail(s))
  <1>1. \A s, t \in Seq(C) : Parts(f, s \o t) = Parts(f, s) \o Parts(f, t)
    BY PartsConcat
  <1>2. \A c \in C : Parts(f, <<c>>) = f[c]
    BY PartsOne
  <1>3. \A c \in C : <<c>> \in Seq(C)
    OBVIOUS
  <1>4. \A c \in C : \A s \in Seq(C) : Parts(f, <<c>> \o s) = f[c] \o Parts(f, s)
    BY <1>1, <1>2, <1>3, Zenon
  <1>5. \A s \in Seq(C) : s # <<>> =>
          Head(s) \in C /\ Tail(s) \in Seq(C) /\ s = <<Head(s)>> \o Tail(s)
    OBVIOUS
  <1> QED
    BY <1>4, <1>5, Zenon

\* Elements that make nothing.
LEMMA PartsNone ==
  ASSUME NEW C, NEW S, NEW f \in [C -> Seq(S)], NEW s \in Seq(C),
         \A n \in 1 .. Len(s) : f[s[n]] = <<>>
  PROVE  Parts(f, s) = <<>>
  <1> DEFINE fs == [n \in 1 .. Len(s) |-> f[s[n]]]
  <1>1. Len(s) \in Nat /\ <<>> \in Seq({})
    OBVIOUS
  <1>2. fs \in [1 .. Len(s) -> Seq({})]
    BY <1>1
  <1> HIDE DEF fs
  <1>3. fs \in Seq(Seq({}))
    <2>1. \A T : \A n \in Nat : \A h \in [1 .. n -> T] : h \in Seq(T)
      BY OfLength
    <2> QED
      BY <1>1, <1>2, <2>1, Zenon
  <1>4. FlattenSeq(fs) \in Seq({})
    BY <1>3, FlattenType
  <1>5. \A t \in Seq({}) : t = <<>>
    OBVIOUS
  <1>6. FlattenSeq(fs) = <<>>
    BY <1>4, <1>5
  <1> QED
    BY <1>6 DEF Parts, fs

-----------------------------------------------------------------------------
(***************************************************************************)
(* SumFunctionOnSet.                                                       *)
(***************************************************************************)

\* The element the fold takes next.
Next1(s) == CHOOSE x \in s : TRUE

\* g[s] is the sum of f over s, for every subset s of S.
Sums(g, f, S) ==
  g = [s \in SUBSET S |-> IF s = {} THEN 0 ELSE f[Next1(s)] + g[s \ {Next1(s)}]]

\* A set without one of its elements.
LEMMA SmallerSet ==
  ASSUME NEW s, IsFiniteSet(s), NEW x \in s
  PROVE  /\ IsFiniteSet(s \ {x}) /\ Cardinality(s) \in Nat \ {0}
         /\ Cardinality(s \ {x}) = Cardinality(s) - 1
  BY FS_RemoveElement, FS_CardinalityType, FS_EmptySet

\* The fold takes an element of the set.
LEMMA Next1In ==
  ASSUME NEW s, s # {}
  PROVE  Next1(s) \in s
  BY DEF Next1

\* There is such a function, and its values are integers.
LEMMA SumsExists ==
  ASSUME NEW S, IsFiniteSet(S), NEW f, \A x \in S : f[x] \in Int
  PROVE  \E g \in [SUBSET S -> Int] : Sums(g, f, S)
  <1> DEFINE Below(m) == {s \in SUBSET S : Cardinality(s) <= m}
             Value(g, s) == IF s = {} THEN 0 ELSE f[Next1(s)] + g[s \ {Next1(s)}]
             Fits(g, m) == \A s \in Below(m) : g[s] = Value(g, s)
             Has(m) == \E g \in [Below(m) -> Int] : Fits(g, m)
             Good == {m \in Nat : Has(m)}
  <1>1. \A s \in SUBSET S : IsFiniteSet(s) /\ Cardinality(s) \in Nat
    BY FS_Subset, FS_CardinalityType
  <1>2. \A s \in SUBSET S : s # {} =>
          /\ Next1(s) \in s /\ s \ {Next1(s)} \in SUBSET S
          /\ Cardinality(s) # 0
          /\ Cardinality(s \ {Next1(s)}) = Cardinality(s) - 1
    BY <1>1, Next1In, SmallerSet
  <1>3. Has(0)
    <2> DEFINE g == [s \in Below(0) |-> 0]
    <2>1. g \in [Below(0) -> Int]
      OBVIOUS
    <2>2. \A s \in Below(0) : s = {}
      <3> SUFFICES ASSUME NEW s \in Below(0) PROVE s = {}
        OBVIOUS
      <3>1. IsFiniteSet(s) /\ Cardinality(s) = 0
        BY <1>1
      <3> QED
        BY <3>1, FS_EmptySet
    <2>3. Fits(g, 0)
      BY <2>2
    <2> HIDE DEF g, Fits
    <2> QED
      BY <2>1, <2>3
  <1>4. ASSUME NEW m \in Nat, Has(m) PROVE Has(m + 1)
    <2>1. PICK h \in [Below(m) -> Int] : Fits(h, m)
      BY <1>4
    <2> DEFINE g == [s \in Below(m + 1) |-> Value(h, s)]
    <2>2. ASSUME NEW s \in Below(m + 1), s # {}
          PROVE  s \ {Next1(s)} \in Below(m) /\ f[Next1(s)] \in Int
      BY <1>1, <1>2, <2>2
    <2>3. g \in [Below(m + 1) -> Int]
      <3>1. \A s \in Below(m + 1) : Value(h, s) \in Int
        BY <2>1, <2>2
      <3> HIDE DEF Value, Below
      <3> QED
        BY <3>1
    <2>4. \A s \in Below(m) : s \in Below(m + 1) /\ g[s] = h[s]
      <3>1. \A s \in Below(m) : s \in Below(m + 1)
        BY <1>1
      <3> HIDE DEF Value, Below
      <3> QED
        BY <2>1, <3>1
    <2>5. Fits(g, m + 1)
      <3> SUFFICES ASSUME NEW s \in Below(m + 1) PROVE g[s] = Value(g, s)
        OBVIOUS
      <3>1. g[s] = Value(h, s)
        OBVIOUS
      <3>2. s # {} => g[s \ {Next1(s)}] = h[s \ {Next1(s)}]
        BY <2>2, <2>4
      <3> HIDE DEF g
      <3> QED
        BY <3>1, <3>2
    <2> HIDE DEF g, Fits, Below
    <2> QED
      BY <2>3, <2>5
  <1>5. Has(Cardinality(S))
    <2> HIDE DEF Has
    <2>1. Good \in SUBSET Nat /\ 0 \in Good /\ \A m \in Good : m + 1 \in Good
      BY <1>3, <1>4
    <2>2. Good = Nat
      <3> HIDE DEF Good
      <3> QED
        BY <2>1, NatInductionOnSet
    <2> QED
      BY <1>1, <2>2
  <1>6. Below(Cardinality(S)) = SUBSET S
    BY FS_Subset
  <1>7. PICK g \in [SUBSET S -> Int] : \A s \in SUBSET S : g[s] = Value(g, s)
    BY <1>5, <1>6
  <1>8. g = [s \in SUBSET S |-> Value(g, s)]
    BY <1>7
  <1> QED
    BY <1>7, <1>8 DEF Sums

\* There is one such function, and over the subsets of a larger set it is the same.
LEMMA SumsUnique ==
  ASSUME NEW S, IsFiniteSet(S), NEW T, S \subseteq T, NEW f,
         NEW g, Sums(g, f, S), NEW h, Sums(h, f, T)
  PROVE  \A s \in SUBSET S : g[s] = h[s]
  <1> DEFINE Has(m) == \A s \in SUBSET S : Cardinality(s) = m => g[s] = h[s]
             Good == {m \in Nat : Has(m)}
  <1>1. \A s \in SUBSET S :
          /\ IsFiniteSet(s) /\ Cardinality(s) \in Nat
          /\ g[s] = IF s = {} THEN 0 ELSE f[Next1(s)] + g[s \ {Next1(s)}]
          /\ h[s] = IF s = {} THEN 0 ELSE f[Next1(s)] + h[s \ {Next1(s)}]
    <2>1. \A s \in SUBSET S : IsFiniteSet(s) /\ Cardinality(s) \in Nat
      BY FS_Subset, FS_CardinalityType
    <2>2. \A s \in SUBSET S : g[s] = IF s = {} THEN 0 ELSE f[Next1(s)] + g[s \ {Next1(s)}]
      BY DEF Sums
    <2>3. \A s \in SUBSET S : h[s] = IF s = {} THEN 0 ELSE f[Next1(s)] + h[s \ {Next1(s)}]
      BY DEF Sums
    <2> QED
      BY <2>1, <2>2, <2>3
  <1>2. \A s \in SUBSET S : s # {} =>
          /\ s \ {Next1(s)} \in SUBSET S
          /\ Cardinality(s) # 0
          /\ Cardinality(s \ {Next1(s)}) = Cardinality(s) - 1
    BY <1>1, Next1In, SmallerSet
  <1>3. Has(0)
    BY <1>1, <1>2
  <1>4. ASSUME NEW m \in Nat, Has(m) PROVE Has(m + 1)
    <2> SUFFICES ASSUME NEW s \in SUBSET S, Cardinality(s) = m + 1 PROVE g[s] = h[s]
      OBVIOUS
    <2>1. s # {}
      BY FS_EmptySet
    <2>2. g[s \ {Next1(s)}] = h[s \ {Next1(s)}]
      BY <1>2, <1>4, <2>1
    <2> QED
      BY <1>1, <2>1, <2>2
  <1>5. Good = Nat
    <2> HIDE DEF Has
    <2>1. Good \in SUBSET Nat /\ 0 \in Good /\ \A m \in Good : m + 1 \in Good
      BY <1>3, <1>4
    <2> HIDE DEF Good
    <2> QED
      BY <2>1, NatInductionOnSet
  <1>6. \A m \in Nat : Has(m)
    <2> HIDE DEF Has
    <2> QED
      BY <1>5
  <1> QED
    BY <1>1, <1>6

\* SumFunctionOnSet is the value of that function for the whole set.
LEMMA SumIs ==
  ASSUME NEW S, IsFiniteSet(S), NEW T, S \subseteq T, NEW f, NEW h, Sums(h, f, T),
         \A x \in S : f[x] \in Int
  PROVE  SumFunctionOnSet(f, S) = h[S]
  <1> DEFINE c == CHOOSE g : Sums(g, f, S)
  <1>1. \E g : Sums(g, f, S)
    BY SumsExists
  <1>2. Sums(c, f, S)
    BY <1>1, Zenon
  <1>3. SumFunctionOnSet(f, S) = c[S]
    BY DEF SumFunctionOnSet, FoldFunctionOnSet, MapThenFoldSet, Sums, Next1
  <1> HIDE DEF c
  <1>4. c[S] = h[S]
    BY <1>2, SumsUnique
  <1> QED
    BY <1>3, <1>4

\* Whichever element is taken first, the sum is the same.
LEMMA SumsAnyOrder ==
  ASSUME NEW T, IsFiniteSet(T), NEW f, \A x \in T : f[x] \in Int,
         NEW h, \A s \in SUBSET T : h[s] \in Int, Sums(h, f, T)
  PROVE  \A y \in T : h[T] = f[y] + h[T \ {y}]
  <1> DEFINE AnyFirst(s) == \A y \in s : h[s] = f[y] + h[s \ {y}]
             Has(m) == \A s \in SUBSET T : Cardinality(s) = m => AnyFirst(s)
             Good == {m \in Nat : Has(m)}
  <1>1. \A s \in SUBSET T : /\ IsFiniteSet(s) /\ Cardinality(s) \in Nat
                            /\ \A y \in s : Cardinality(s \ {y}) = Cardinality(s) - 1
    BY FS_Subset, FS_CardinalityType, SmallerSet
  <1>2. \A s \in SUBSET T : s # {} =>
          Next1(s) \in s /\ h[s] = f[Next1(s)] + h[s \ {Next1(s)}]
    BY Next1In DEF Sums
  <1>3. Has(0)
    BY <1>1, FS_EmptySet
  <1>4. ASSUME NEW m \in Nat, Has(m) PROVE Has(m + 1)
    <2> SUFFICES ASSUME NEW s \in SUBSET T, Cardinality(s) = m + 1, NEW y \in s
                 PROVE  h[s] = f[y] + h[s \ {y}]
      OBVIOUS
    <2> DEFINE c == Next1(s)
    <2>1. c \in s /\ h[s] = f[c] + h[s \ {c}]
      BY <1>2
    <2> HIDE DEF c
    <2>2. CASE y = c
      BY <2>1, <2>2
    <2>3. CASE y # c
      <3> DEFINE sc == s \ {c}
                 sy == s \ {y}
                 both == s \ {c, y}
      <3>1. sc \in SUBSET T /\ sy \in SUBSET T /\ both \in SUBSET T
        BY <2>1
      <3>2. y \in sc /\ c \in sy /\ sc \ {y} = both /\ sy \ {c} = both
        BY <2>1, <2>3
      <3>3. Cardinality(sc) = m /\ Cardinality(sy) = m
        BY <1>1, <2>1
      <3>4. AnyFirst(sc) /\ AnyFirst(sy)
        <4> HIDE DEF sc, sy, AnyFirst
        <4> QED
          BY <1>4, <3>1, <3>3
      <3> HIDE DEF sc, sy, both
      <3>5. h[sc] = f[y] + h[both] /\ h[sy] = f[c] + h[both]
        BY <3>2, <3>4
      <3>6. h[s] = f[c] + h[sc]
        BY <2>1 DEF sc
      <3>7. f[y] \in Int /\ f[c] \in Int /\ h[both] \in Int
        BY <2>1, <3>1
      <3>8. h[s] = f[y] + h[sy]
        BY <3>5, <3>6, <3>7
      <3> QED
        BY <3>8 DEF sy
    <2> QED
      BY <2>2, <2>3
  <1>5. Good = Nat
    <2> HIDE DEF Has
    <2>1. Good \in SUBSET Nat /\ 0 \in Good /\ \A m \in Good : m + 1 \in Good
      BY <1>3, <1>4
    <2> HIDE DEF Good
    <2> QED
      BY <2>1, NatInductionOnSet
  <1>6. \A m \in Nat : Has(m)
    <2> HIDE DEF Has
    <2> QED
      BY <1>5
  <1>7. AnyFirst(T)
    <2> HIDE DEF AnyFirst
    <2> QED
      BY <1>1, <1>6
  <1> QED
    BY <1>7

\* The sum over no element.
LEMMA SumEmpty ==
  ASSUME NEW f
  PROVE  SumFunctionOnSet(f, {}) = 0
  <1>1. PICK h \in [SUBSET {} -> Int] : Sums(h, f, {})
    BY SumsExists, FS_EmptySet
  <1>2. SumFunctionOnSet(f, {}) = h[{}]
    BY <1>1, SumIs, FS_EmptySet
  <1> QED
    BY <1>1, <1>2 DEF Sums

\* A sum of integers is an integer.
LEMMA SumType ==
  ASSUME NEW S, IsFiniteSet(S), NEW f, \A x \in S : f[x] \in Int
  PROVE  SumFunctionOnSet(f, S) \in Int
  <1>1. PICK h \in [SUBSET S -> Int] : Sums(h, f, S)
    BY SumsExists
  <1>2. SumFunctionOnSet(f, S) = h[S]
    BY <1>1, SumIs
  <1> QED
    BY <1>1, <1>2

\* Functions that agree on a set have the same sum over it.
LEMMA SumSame ==
  ASSUME NEW S, IsFiniteSet(S), NEW f, NEW g, \A x \in S : f[x] \in Int /\ g[x] = f[x]
  PROVE  SumFunctionOnSet(g, S) = SumFunctionOnSet(f, S)
  <1>1. PICK h \in [SUBSET S -> Int] : Sums(h, f, S)
    BY SumsExists
  <1>2. Sums(h, g, S)
    <2>1. \A s \in SUBSET S : s # {} => Next1(s) \in S
      BY Next1In
    <2>2. \A s \in SUBSET S :
            (IF s = {} THEN 0 ELSE f[Next1(s)] + h[s \ {Next1(s)}])
              = (IF s = {} THEN 0 ELSE g[Next1(s)] + h[s \ {Next1(s)}])
      BY <2>1
    <2> QED
      BY <1>1, <2>2 DEF Sums
  <1>3. SumFunctionOnSet(f, S) = h[S]
    BY <1>1, SumIs
  <1>4. SumFunctionOnSet(g, S) = h[S]
    BY <1>1, <1>2, SumIs
  <1> QED
    BY <1>3, <1>4

\* One element less takes its value away.
LEMMA SumRemove ==
  ASSUME NEW T, IsFiniteSet(T), NEW x \in T, NEW f, \A y \in T : f[y] \in Int
  PROVE  SumFunctionOnSet(f, T) = SumFunctionOnSet(f, T \ {x}) + f[x]
  <1>1. PICK h \in [SUBSET T -> Int] : Sums(h, f, T)
    BY SumsExists
  <1>2. \A y \in T : h[T] = f[y] + h[T \ {y}]
    <2>1. \A s \in SUBSET T : h[s] \in Int
      OBVIOUS
    <2> QED
      BY <1>1, <2>1, SumsAnyOrder
  <1>3. SumFunctionOnSet(f, T) = h[T]
    BY <1>1, SumIs
  <1>4. SumFunctionOnSet(f, T \ {x}) = h[T \ {x}]
    <2>1. IsFiniteSet(T \ {x}) /\ T \ {x} \subseteq T
      BY FS_RemoveElement
    <2> QED
      BY <1>1, <2>1, SumIs
  <1>5. h[T] = f[x] + h[T \ {x}] /\ h[T \ {x}] \in Int /\ f[x] \in Int
    BY <1>1, <1>2
  <1>6. h[T] = h[T \ {x}] + f[x]
    BY <1>5
  <1> QED
    BY <1>3, <1>4, <1>6, Zenon

\* One element more adds its value.
LEMMA SumAdd ==
  ASSUME NEW S, IsFiniteSet(S), NEW x, x \notin S, NEW f,
         f[x] \in Int, \A y \in S : f[y] \in Int
  PROVE  SumFunctionOnSet(f, S \cup {x}) = SumFunctionOnSet(f, S) + f[x]
  <1>1. PICK T : T = S \cup {x}
    OBVIOUS
  <1>2. IsFiniteSet(T) /\ x \in T /\ T \ {x} = S /\ \A y \in T : f[y] \in Int
    BY <1>1, FS_AddElement
  <1>3. SumFunctionOnSet(f, T) = SumFunctionOnSet(f, T \ {x}) + f[x]
    BY <1>2, SumRemove
  <1> QED
    BY <1>1, <1>2, <1>3, Zenon

\* When the value of one element changes, the sum changes by as much.
LEMMA SumChange ==
  ASSUME NEW S, IsFiniteSet(S), NEW x \in S, NEW f, NEW g, \A y \in S : f[y] \in Int,
         \A y \in S \ {x} : g[y] = f[y], g[x] \in Int
  PROVE  SumFunctionOnSet(g, S) = SumFunctionOnSet(f, S) + (g[x] - f[x])
  <1> DEFINE R == S \ {x}
  <1>1. IsFiniteSet(R) /\ x \notin R /\ R \cup {x} = S
    BY FS_RemoveElement
  <1>2. \A y \in R : f[y] \in Int /\ g[y] \in Int /\ g[y] = f[y]
    OBVIOUS
  <1> HIDE DEF R
  <1>3. SumFunctionOnSet(f, R \cup {x}) = SumFunctionOnSet(f, R) + f[x]
    BY <1>1, <1>2, SumAdd
  <1>4. SumFunctionOnSet(g, R \cup {x}) = SumFunctionOnSet(g, R) + g[x]
    BY <1>1, <1>2, SumAdd
  <1>5. SumFunctionOnSet(g, R) = SumFunctionOnSet(f, R)
    BY <1>1, <1>2, SumSame
  <1>6. SumFunctionOnSet(f, R) \in Int
    BY <1>1, <1>2, SumType
  <1> DEFINE a == SumFunctionOnSet(f, R)
  <1>7. /\ SumFunctionOnSet(f, S) = a + f[x] /\ SumFunctionOnSet(g, S) = a + g[x]
        /\ a \in Int /\ f[x] \in Int /\ g[x] \in Int
    BY <1>1, <1>3, <1>4, <1>5, <1>6, Zenon
  <1> HIDE DEF a
  <1>8. a + g[x] = (a + f[x]) + (g[x] - f[x])
    BY <1>7
  <1> QED
    BY <1>7, <1>8

\* The sum of zeros.
LEMMA SumZero ==
  ASSUME NEW S, IsFiniteSet(S), NEW f, \A x \in S : f[x] = 0
  PROVE  SumFunctionOnSet(f, S) = 0
  <1> DEFINE h == [s \in SUBSET S |-> 0]
  <1>1. \A s \in SUBSET S : s # {} => f[Next1(s)] = 0 /\ h[s \ {Next1(s)}] = 0
    BY Next1In
  <1>2. Sums(h, f, S)
    BY <1>1 DEF Sums
  <1>3. SumFunctionOnSet(f, S) = h[S]
    <2> HIDE DEF h
    <2> QED
      BY <1>2, SumIs
  <1> QED
    BY <1>3

\* The sum of natural numbers.
LEMMA SumNat ==
  ASSUME NEW S, IsFiniteSet(S), NEW f, \A x \in S : f[x] \in Nat
  PROVE  SumFunctionOnSet(f, S) \in Nat
  <1> DEFINE Has(m) == \A s \in SUBSET S : Cardinality(s) = m => SumFunctionOnSet(f, s) \in Nat
             Good == {m \in Nat : Has(m)}
  <1>1. Has(0)
    <2> SUFFICES ASSUME NEW s \in SUBSET S, Cardinality(s) = 0
                 PROVE  SumFunctionOnSet(f, s) \in Nat
      OBVIOUS
    <2>1. s = {}
      BY FS_Subset, FS_EmptySet
    <2> QED
      BY <2>1, SumEmpty
  <1>2. ASSUME NEW m \in Nat, Has(m) PROVE Has(m + 1)
    <2> SUFFICES ASSUME NEW s \in SUBSET S, Cardinality(s) = m + 1
                 PROVE  SumFunctionOnSet(f, s) \in Nat
      OBVIOUS
    <2>1. IsFiniteSet(s) /\ s # {}
      BY FS_Subset, FS_EmptySet
    <2>2. PICK x \in s : TRUE
      BY <2>1
    <2>3. Cardinality(s \ {x}) = m
      <3>1. Cardinality(s \ {x}) = Cardinality(s) - 1
        BY <2>1, <2>2, FS_RemoveElement, Zenon
      <3> QED
        BY <3>1
    <2>4. s \ {x} \in SUBSET S
      OBVIOUS
    <2>5. SumFunctionOnSet(f, s \ {x}) \in Nat
      BY <1>2, <2>3, <2>4
    <2>6. \A y \in s : f[y] \in Int
      OBVIOUS
    <2>7. SumFunctionOnSet(f, s) = SumFunctionOnSet(f, s \ {x}) + f[x]
      BY <2>1, <2>2, <2>6, SumRemove
    <2>8. f[x] \in Nat
      BY <2>2
    <2> QED
      BY <2>5, <2>7, <2>8
  <1>3. Good = Nat
    <2> HIDE DEF Has
    <2>1. Good \in SUBSET Nat /\ 0 \in Good /\ \A m \in Good : m + 1 \in Good
      BY <1>1, <1>2
    <2> QED
      BY <2>1, NatInductionOnSet
  <1>4. Cardinality(S) \in Nat
    BY FS_CardinalityType
  <1>5. Has(Cardinality(S))
    <2> HIDE DEF Has
    <2> QED
      BY <1>3, <1>4
  <1> QED
    BY <1>5

\* Part of a sum of natural numbers is no more than the sum, and one of them is
\* no more than the part it is in.
LEMMA SumPart ==
  ASSUME NEW T, IsFiniteSet(T), NEW f, \A x \in T : f[x] \in Nat, NEW S \in SUBSET T
  PROVE  /\ SumFunctionOnSet(f, S) \in Nat
         /\ SumFunctionOnSet(f, S) <= SumFunctionOnSet(f, T)
         /\ \A x \in S : f[x] <= SumFunctionOnSet(f, S)
  <1> DEFINE Has(m) == \A s \in SUBSET T :
                         Cardinality(T \ s) = m => SumFunctionOnSet(f, s) <= SumFunctionOnSet(f, T)
             Good == {m \in Nat : Has(m)}
  <1>1. \A s \in SUBSET T : IsFiniteSet(s) /\ IsFiniteSet(T \ s)
    BY FS_Subset, FS_Difference
  <1>2. \A s \in SUBSET T : SumFunctionOnSet(f, s) \in Nat
    <2> TAKE s \in SUBSET T
    <2>1. IsFiniteSet(s) /\ \A x \in s : f[x] \in Nat
      BY <1>1
    <2> QED
      BY <2>1, SumNat
  <1>3. Has(0)
    <2> SUFFICES ASSUME NEW s \in SUBSET T, Cardinality(T \ s) = 0
                 PROVE  SumFunctionOnSet(f, s) <= SumFunctionOnSet(f, T)
      OBVIOUS
    <2>1. T \ s = {}
      BY <1>1, FS_EmptySet
    <2>2. s = T
      BY <2>1
    <2> QED
      BY <1>2, <2>2
  <1>4. ASSUME NEW m \in Nat, Has(m) PROVE Has(m + 1)
    <2> SUFFICES ASSUME NEW s \in SUBSET T, Cardinality(T \ s) = m + 1
                 PROVE  SumFunctionOnSet(f, s) <= SumFunctionOnSet(f, T)
      OBVIOUS
    <2>1. T \ s # {}
      <3>1. m + 1 # 0
        OBVIOUS
      <3> QED
        BY <3>1, FS_EmptySet, Zenon
    <2>2. PICK x \in T \ s : TRUE
      BY <2>1
    <2> DEFINE u == s \cup {x}
    <2>3. T \ u = (T \ s) \ {x} /\ u \in SUBSET T
      OBVIOUS
    <2>4. Cardinality((T \ s) \ {x}) = m
      <3>1. IsFiniteSet(T \ s)
        BY <1>1
      <3>2. Cardinality((T \ s) \ {x}) = Cardinality(T \ s) - 1
        BY <2>2, <3>1, FS_RemoveElement, Zenon
      <3> QED
        BY <3>2
    <2>5. IsFiniteSet(s) /\ x \notin s /\ f[x] \in Int /\ \A y \in s : f[y] \in Int
      BY <1>1, <2>2
    <2>6. SumFunctionOnSet(f, u) = SumFunctionOnSet(f, s) + f[x]
      BY <2>5, SumAdd
    <2> HIDE DEF u
    <2>7. SumFunctionOnSet(f, u) <= SumFunctionOnSet(f, T)
      BY <1>4, <2>3, <2>4
    <2>8. SumFunctionOnSet(f, s) \in Nat /\ SumFunctionOnSet(f, T) \in Nat /\ f[x] \in Nat
      BY <1>2, <2>2
    <2> QED
      BY <2>6, <2>7, <2>8
  <1>5. Good = Nat
    <2> HIDE DEF Has
    <2>1. Good \in SUBSET Nat /\ 0 \in Good /\ \A m \in Good : m + 1 \in Good
      BY <1>3, <1>4
    <2> QED
      BY <2>1, NatInductionOnSet
  <1>6. Cardinality(T \ S) \in Nat
    BY <1>1, FS_CardinalityType
  <1>7. Has(Cardinality(T \ S))
    <2> HIDE DEF Has
    <2> QED
      BY <1>5, <1>6
  <1>8. ASSUME NEW x \in S PROVE f[x] <= SumFunctionOnSet(f, S)
    <2>1. IsFiniteSet(S)
      BY <1>1, Zenon
    <2>2. \A y \in S : f[y] \in Int
      OBVIOUS
    <2>3. SumFunctionOnSet(f, S) = SumFunctionOnSet(f, S \ {x}) + f[x]
      BY <2>1, <2>2, SumRemove
    <2>4. SumFunctionOnSet(f, S \ {x}) \in Nat /\ f[x] \in Nat
      BY <1>2
    <2> QED
      BY <2>3, <2>4
  <1> QED
    BY <1>2, <1>7, <1>8

-----------------------------------------------------------------------------
(***************************************************************************)
(* Counting in an interval.                                                *)
(***************************************************************************)

\* Members of S from i to j.
CountIn(S, i, j) == Cardinality(S \cap (i .. j))

\* What is counted is finite.
LEMMA CountFinite ==
  ASSUME NEW S, NEW i \in Int, NEW j \in Int
  PROVE  IsFiniteSet(S \cap (i .. j))
  <1>1. IsFiniteSet(i .. j)
    BY FS_Interval
  <1> QED
    BY <1>1, FS_Subset

\* A count is a natural number.
LEMMA CountType ==
  ASSUME NEW S, NEW i \in Int, NEW j \in Int
  PROVE  CountIn(S, i, j) \in Nat
  BY CountFinite, FS_CardinalityType DEF CountIn

\* There is nothing to count outside of an interval.
LEMMA CountNone ==
  ASSUME NEW S, NEW i \in Int, NEW j \in Int, j < i
  PROVE  CountIn(S, i, j) = 0
  <1>1. S \cap (i .. j) = {}
    OBVIOUS
  <1> QED
    BY <1>1, FS_EmptySet DEF CountIn

\* A smaller interval has no more.
LEMMA CountMonotone ==
  ASSUME NEW S, NEW i \in Int, NEW j \in Int, NEW k \in Int, NEW l \in Int, i <= k, l <= j
  PROVE  CountIn(S, k, l) <= CountIn(S, i, j)
  <1>1. S \cap (k .. l) \subseteq S \cap (i .. j)
    OBVIOUS
  <1> QED
    BY <1>1, CountFinite, FS_Subset DEF CountIn

\* The members of an interval are those of its two parts.
LEMMA CountSplit ==
  ASSUME NEW S, NEW i \in Int, NEW j \in Int, NEW k \in Int, i <= k, k <= j + 1
  PROVE  CountIn(S, i, j) = CountIn(S, i, k - 1) + CountIn(S, k, j)
  <1> DEFINE A == S \cap (i .. k - 1)
             B == S \cap (k .. j)
             C == S \cap (i .. j)
  <1>0. k - 1 \in Int
    OBVIOUS
  <1>1. IsFiniteSet(A) /\ IsFiniteSet(B)
    BY <1>0, CountFinite, Zenon
  <1>2. C = A \cup B /\ A \cap B = {}
    <2>1. i .. j = (i .. k - 1) \cup (k .. j)
      <3>1. \A x \in i .. j : x \in i .. k - 1 \/ x \in k .. j
        OBVIOUS
      <3>2. \A x \in i .. k - 1 : x \in i .. j
        OBVIOUS
      <3>3. \A x \in k .. j : x \in i .. j
        OBVIOUS
      <3> QED
        BY <3>1, <3>2, <3>3, Zenon
    <2>2. \A x \in i .. k - 1 : x \notin k .. j
      OBVIOUS
    <2> QED
      BY <2>1, <2>2, Zenon
  <1> HIDE DEF A, B, C
  <1>3. Cardinality(C) = Cardinality(A) + Cardinality(B) - Cardinality({})
    BY <1>1, <1>2, FS_Union
  <1>4. Cardinality(C) = Cardinality(A) + Cardinality(B)
    BY <1>1, <1>3, FS_CardinalityType, FS_EmptySet
  <1> QED
    BY <1>4 DEF A, B, C, CountIn

\* The count of one place.
LEMMA CountOne ==
  ASSUME NEW S, NEW i \in Int
  PROVE  CountIn(S, i, i) = IF i \in S THEN 1 ELSE 0
  <1>1. S \cap (i .. i) = IF i \in S THEN {i} ELSE {}
    OBVIOUS
  <1> QED
    BY <1>1, FS_Singleton, FS_EmptySet DEF CountIn

\* The interval is longer by one.
LEMMA CountMore ==
  ASSUME NEW S, NEW i \in Int, NEW j \in Int, i <= j + 1
  PROVE  CountIn(S, i, j + 1) = CountIn(S, i, j) + (IF j + 1 \in S THEN 1 ELSE 0)
  <1>1. CountIn(S, i, j + 1) = CountIn(S, i, j) + CountIn(S, j + 1, j + 1)
    <2>1. j + 1 \in Int /\ j + 1 <= (j + 1) + 1 /\ (j + 1) - 1 = j
      OBVIOUS
    <2> QED
      BY <2>1, CountSplit
  <1>2. CountIn(S, j + 1, j + 1) = IF j + 1 \in S THEN 1 ELSE 0
    BY CountOne
  <1> QED
    BY <1>1, <1>2

\* The same members, the same count.
LEMMA CountSame ==
  ASSUME NEW S, NEW T, NEW i \in Int, NEW j \in Int, \A k \in i .. j : k \in S <=> k \in T
  PROVE  CountIn(S, i, j) = CountIn(T, i, j)
  <1>1. S \cap (i .. j) = T \cap (i .. j)
    OBVIOUS
  <1> QED
    BY <1>1 DEF CountIn

-----------------------------------------------------------------------------
(***************************************************************************)
(* Sorting.                                                                *)
(***************************************************************************)

\* A list of numbers that is not empty has a greatest one.
LEMMA GreatestPlace ==
  ASSUME NEW n \in Nat \ {0}, NEW s, \A i \in 1 .. n : s[i] \in Nat
  PROVE  \E m \in 1 .. n : \A i \in 1 .. n : s[i] <= s[m]
  <1> DEFINE Good == {k \in Nat : k + 1 <= n =>
                        \E m \in 1 .. k + 1 : \A i \in 1 .. k + 1 : s[i] <= s[m]}
  <1>1. 0 \in Good
    <2>1. \A i \in 1 .. 1 : i = 1 /\ s[i] <= s[1]
      OBVIOUS
    <2> QED
      BY <2>1
  <1>2. ASSUME NEW k \in Good
        PROVE  k + 1 \in Good
    <2>1. SUFFICES ASSUME (k + 1) + 1 <= n
                   PROVE  \E m \in 1 .. (k + 1) + 1 : \A i \in 1 .. (k + 1) + 1 : s[i] <= s[m]
      OBVIOUS
    <2>2. PICK m \in 1 .. k + 1 : \A i \in 1 .. k + 1 : s[i] <= s[m]
      BY <2>1
    <2> DEFINE new == (k + 1) + 1
    <2>3. new \in 1 .. new /\ m \in 1 .. new /\ \A i \in 1 .. new : i = new \/ i \in 1 .. k + 1
      OBVIOUS
    <2>4. s[new] \in Nat /\ s[m] \in Nat /\ \A i \in 1 .. new : s[i] \in Nat
      BY <2>1
    <2> HIDE DEF new
    <2>5. CASE s[new] <= s[m]
      BY <2>2, <2>3, <2>5 DEF new
    <2>6. CASE s[m] <= s[new]
      <3>1. \A i \in 1 .. new : s[i] <= s[new]
        BY <2>2, <2>3, <2>4, <2>6
      <3> QED
        BY <2>3, <3>1 DEF new
    <2> QED
      BY <2>4, <2>5, <2>6
  <1> HIDE DEF Good
  <1>3. Good = Nat
    <2>1. Good \in SUBSET Nat
      BY DEF Good
    <2> QED
      BY <1>1, <1>2, <2>1, NatInductionOnSet
  <1>4. n - 1 \in Good
    BY <1>3
  <1>5. (n - 1) + 1 = n
    OBVIOUS
  <1> QED
    BY <1>4, <1>5 DEF Good

\* f puts the numbers of s in ascending order.
Sorts(f, s, n) ==
  /\ f \in Bijection(1 .. n, 1 .. n)
  /\ \A i, j \in 1 .. n : i < j => s[f[i]] <= s[f[j]]

\* What a bijection is.
LEMMA BijectionIs ==
  ASSUME NEW S, NEW f
  PROVE  f \in Bijection(S, S) <=> /\ f \in [S -> S]
                                   /\ \A x, y \in S : f[x] = f[y] => x = y
                                   /\ \A y \in S : \E x \in S : f[x] = y
  BY DEF Bijection, Injection, Surjection, IsInjective

\* What it is to put numbers in order.
LEMMA SortsIs ==
  ASSUME NEW n, NEW f, NEW s, Sorts(f, s, n)
  PROVE  /\ f \in [1 .. n -> 1 .. n]
         /\ \A x, y \in 1 .. n : f[x] = f[y] => x = y
         /\ \A y \in 1 .. n : \E x \in 1 .. n : f[x] = y
         /\ \A i, j \in 1 .. n : i < j => s[f[i]] <= s[f[j]]
  <1>1. PICK S : S = 1 .. n
    OBVIOUS
  <1>2. f \in Bijection(S, S)
    BY <1>1, Zenon DEF Sorts
  <1>3. /\ f \in [S -> S]
        /\ \A x, y \in S : f[x] = f[y] => x = y
        /\ \A y \in S : \E x \in S : f[x] = y
    BY <1>2, BijectionIs
  <1>4. \A i, j \in 1 .. n : i < j => s[f[i]] <= s[f[j]]
    BY Zenon DEF Sorts
  <1> QED
    BY <1>1, <1>3, <1>4, Zenon

\* The greatest number goes to the end, and the last one to its place.
LEMMA SortsMore ==
  ASSUME NEW n \in Nat, NEW s, \A i \in 1 .. n + 1 : s[i] \in Nat,
         NEW m \in 1 .. n + 1, \A i \in 1 .. n + 1 : s[i] <= s[m],
         NEW t, \A i \in 1 .. n : t[i] = IF i = m THEN s[n + 1] ELSE s[i],
         NEW g, Sorts(g, t, n)
  PROVE  \E f : Sorts(f, s, n + 1)
  <1> DEFINE k == n + 1
             f == [i \in 1 .. k |-> IF i = k THEN m ELSE IF g[i] = m THEN k ELSE g[i]]
  <1>1. /\ g \in [1 .. n -> 1 .. n]
        /\ \A x, y \in 1 .. n : g[x] = g[y] => x = y
        /\ \A y \in 1 .. n : \E x \in 1 .. n : g[x] = y
        /\ \A i, j \in 1 .. n : i < j => t[g[i]] <= t[g[j]]
    BY SortsIs
  <1>2. /\ \A i \in 1 .. k : i = k \/ i \in 1 .. n
        /\ \A i \in 1 .. n : i \in 1 .. k /\ i # k /\ g[i] \in 1 .. n
        /\ k \in 1 .. k /\ k \notin 1 .. n
    <2>1. \A i \in 1 .. n : g[i] \in 1 .. n
      BY <1>1, Zenon
    <2> HIDE DEF f
    <2> QED
      BY <2>1
  <1>3. f[k] = m /\ \A i \in 1 .. n : f[i] = IF g[i] = m THEN k ELSE g[i]
    BY <1>2
  <1>4. f \in [1 .. k -> 1 .. k]
    BY <1>2
  <1> HIDE DEF f
  <1>5. \A i \in 1 .. n : f[i] # m /\ s[f[i]] = t[g[i]]
    <2> TAKE i \in 1 .. n
    <2>1. CASE g[i] = m
      <3>1. f[i] = k /\ t[g[i]] = s[n + 1] /\ m # k
        BY <1>2, <1>3, <2>1
      <3> QED
        BY <3>1
    <2>2. CASE g[i] # m
      BY <1>2, <1>3, <2>2
    <2> QED
      BY <2>1, <2>2
  <1>6. \A x, y \in 1 .. k : f[x] = f[y] => x = y
    <2> SUFFICES ASSUME NEW x \in 1 .. k, NEW y \in 1 .. k, f[x] = f[y]
                 PROVE  x = y
      OBVIOUS
    <2>1. CASE x = k \/ y = k
      BY <1>2, <1>3, <1>5, <2>1
    <2>2. CASE x \in 1 .. n /\ y \in 1 .. n
      <3>1. g[x] = g[y]
        BY <1>2, <1>3, <2>2
      <3> QED
        BY <1>1, <2>2, <3>1
    <2> QED
      BY <1>2, <2>1, <2>2
  <1>7. \A y \in 1 .. k : \E x \in 1 .. k : f[x] = y
    <2> TAKE y \in 1 .. k
    <2>1. CASE y = m
      BY <1>2, <1>3, <2>1
    <2>2. CASE y # m /\ y = k
      <3>1. m \in 1 .. n
        BY <1>2, <2>2
      <3>2. PICK x \in 1 .. n : g[x] = m
        BY <1>1, <3>1
      <3> QED
        BY <1>2, <1>3, <2>2, <3>2
    <2>3. CASE y # m /\ y # k
      <3>1. y \in 1 .. n
        BY <1>2, <2>3
      <3>2. PICK x \in 1 .. n : g[x] = y
        BY <1>1, <3>1
      <3> QED
        BY <1>2, <1>3, <2>3, <3>2
    <2> QED
      BY <2>1, <2>2, <2>3
  <1>8. \A i, j \in 1 .. k : i < j => s[f[i]] <= s[f[j]]
    <2> SUFFICES ASSUME NEW i \in 1 .. k, NEW j \in 1 .. k, i < j
                 PROVE  s[f[i]] <= s[f[j]]
      OBVIOUS
    <2>1. i \in 1 .. n
      OBVIOUS
    <2>2. CASE j = k
      <3>1. f[i] \in 1 .. k
        BY <1>4
      <3> QED
        BY <1>3, <2>2, <3>1
    <2>3. CASE j \in 1 .. n
      BY <1>1, <1>5, <2>1, <2>3
    <2> QED
      BY <1>2, <2>2, <2>3
  <1>9. f \in Bijection(1 .. k, 1 .. k)
    BY <1>4, <1>6, <1>7, BijectionIs
  <1> QED
    BY <1>8, <1>9 DEF Sorts

\* Every list of numbers can be sorted.
LEMMA SortsExists ==
  ASSUME NEW n \in Nat, NEW s, \A i \in 1 .. n : s[i] \in Nat
  PROVE  \E f : Sorts(f, s, n)
  <1> DEFINE Has(k) == \A t : (\A i \in 1 .. k : t[i] \in Nat) => \E f : Sorts(f, t, k)
             Good == {k \in Nat : Has(k)}
  <1>1. 0 \in Good
    <2> SUFFICES ASSUME NEW t PROVE \E f : Sorts(f, t, 0)
      OBVIOUS
    <2> DEFINE f == [i \in {} |-> i]
    <2>1. 1 .. 0 = {} /\ f \in [{} -> {}]
      OBVIOUS
    <2>2. f \in Bijection({}, {})
      BY <2>1, BijectionIs
    <2>3. Sorts(f, t, 0)
      BY <2>1, <2>2 DEF Sorts
    <2> QED
      BY <2>3
  <1>2. ASSUME NEW k \in Good
        PROVE  k + 1 \in Good
    <2> SUFFICES ASSUME NEW t, \A i \in 1 .. k + 1 : t[i] \in Nat
                 PROVE  \E f : Sorts(f, t, k + 1)
      OBVIOUS
    <2>1. k + 1 \in Nat \ {0} /\ k \in Nat
      OBVIOUS
    <2>2. PICK m \in 1 .. k + 1 : \A i \in 1 .. k + 1 : t[i] <= t[m]
      BY <2>1, GreatestPlace
    <2> DEFINE u == [i \in 1 .. k |-> IF i = m THEN t[k + 1] ELSE t[i]]
    <2>3. \A i \in 1 .. k : u[i] \in Nat /\ u[i] = IF i = m THEN t[k + 1] ELSE t[i]
      BY <2>1
    <2> HIDE DEF u
    <2>4. PICK g : Sorts(g, u, k)
      BY <2>3
    <2> HIDE DEF Good
    <2> QED
      BY <2>1, <2>2, <2>3, <2>4, SortsMore
  <1> HIDE DEF Good, Has
  <1>3. Good = Nat
    <2>1. Good \in SUBSET Nat
      BY DEF Good
    <2> QED
      BY <1>1, <1>2, <2>1, NatInductionOnSet
  <1>4. Has(n)
    BY <1>3 DEF Good
  <1> QED
    BY <1>4 DEF Has

\* In a sorted list, at least r places do not exceed what is at place r.
LEMMA RankReached ==
  ASSUME NEW n \in Nat, NEW s, \A i \in 1 .. n : s[i] \in Nat,
         NEW f, Sorts(f, s, n), NEW r \in 1 .. n,
         NEW C, C \subseteq 1 .. n, \A i \in 1 .. n : s[i] <= s[f[r]] => i \in C
  PROVE  r <= Cardinality(C)
  <1> DEFINE g == [i \in 1 .. r |-> f[i]]
  <1>1. /\ f \in [1 .. n -> 1 .. n]
        /\ \A x, y \in 1 .. n : f[x] = f[y] => x = y
        /\ \A i, j \in 1 .. n : i < j => s[f[i]] <= s[f[j]]
    BY SortsIs
  <1>2. \A i \in 1 .. r : i \in 1 .. n /\ f[i] \in 1 .. n /\ s[f[i]] <= s[f[r]]
    <2> TAKE i \in 1 .. r
    <2>1. i \in 1 .. n /\ f[i] \in 1 .. n /\ s[f[i]] \in Nat
      BY <1>1
    <2>2. CASE i = r
      BY <2>1, <2>2
    <2>3. CASE i < r
      BY <1>1, <2>1, <2>3
    <2> QED
      BY <2>1, <2>2, <2>3
  <1>3. g \in [1 .. r -> C]
    BY <1>2
  <1>4. \A x, y \in 1 .. r : g[x] = g[y] => x = y
    BY <1>1, <1>2
  <1>5. IsFiniteSet(C)
    <2>1. IsFiniteSet(1 .. n)
      BY FS_Interval
    <2> QED
      BY <2>1, FS_Subset
  <1> HIDE DEF g
  <1>6. g \in Injection(1 .. r, C)
    BY <1>3, <1>4 DEF Injection, IsInjective
  <1>7. Cardinality(1 .. r) <= Cardinality(C)
    BY <1>5, <1>6, FS_Injection
  <1>8. Cardinality(1 .. r) = r
    BY FS_Interval
  <1> QED
    BY <1>7, <1>8

\* In a sorted list, less than r places do not exceed a number below the one at
\* place r.
LEMMA RankMissed ==
  ASSUME NEW n \in Nat, NEW s, \A i \in 1 .. n : s[i] \in Nat,
         NEW f, Sorts(f, s, n), NEW r \in 1 .. n, NEW w \in Nat, w < s[f[r]],
         NEW C, C \subseteq 1 .. n, \A i \in C : s[i] <= w
  PROVE  Cardinality(C) <= r - 1
  <1> DEFINE At(y) == CHOOSE x \in 1 .. n : f[x] = y
             g == [y \in C |-> At(y)]
  <1>1. /\ f \in [1 .. n -> 1 .. n]
        /\ \A y \in 1 .. n : \E x \in 1 .. n : f[x] = y
        /\ \A i, j \in 1 .. n : i < j => s[f[i]] <= s[f[j]]
    BY SortsIs
  <1>2. \A y \in C : At(y) \in 1 .. n /\ f[At(y)] = y
    BY <1>1
  <1> HIDE DEF At
  <1>3. \A y \in C : At(y) \in 1 .. r - 1
    <2> TAKE y \in C
    <2>1. At(y) \in 1 .. n /\ s[f[At(y)]] <= w /\ s[f[At(y)]] \in Nat /\ s[f[r]] \in Nat
      BY <1>1, <1>2
    <2>2. r < At(y) => s[f[r]] <= s[f[At(y)]]
      BY <1>1, <2>1
    <2>3. At(y) # r
      BY <2>1
    <2> QED
      BY <2>1, <2>2, <2>3
  <1>4. g \in [C -> 1 .. r - 1] /\ \A x, y \in C : g[x] = g[y] => x = y
    BY <1>2, <1>3
  <1> HIDE DEF g
  <1>5. g \in Injection(C, 1 .. r - 1)
    BY <1>4 DEF Injection, IsInjective
  <1>6. r - 1 \in Int /\ IsFiniteSet(1 .. r - 1) /\ Cardinality(1 .. r - 1) = r - 1
    BY FS_Interval
  <1>7. Cardinality(C) <= Cardinality(1 .. r - 1)
    BY <1>5, <1>6, FS_Injection
  <1> QED
    BY <1>6, <1>7

=============================================================================
