----------------------------- MODULE DataLemmas -----------------------------
(***************************************************************************)
(* Facts about the operators on data that several modules are built from:  *)
(* FlattenSeq, Filter and SumFunctionOnSet.  Induction is stated for sets: *)
(* what is to be shown of every number, sequence or finite set is the set  *)
(* T of those it holds for.  FlattenSeq and the sums are recursive: what   *)
(* they unfold to is shown from the function they are defined by, which    *)
(* exists and is unique.                                                   *)
(***************************************************************************)
EXTENDS Sublists, SequenceTheorems, FiniteSetTheorems, TLAPS

\* A non-empty set of numbers has a least element.
LEMMA NatMin ==
  ASSUME NEW T, T \subseteq Nat, T # {}
  PROVE  \E n \in T : \A m \in T : n <= m
<1> DEFINE R == {ss \in Nat \X Nat : ss[1] < ss[2]}
<1>1. IsWellFoundedOn(R, Nat)
  BY NatLessThanWellFounded, Zenon DEF OpToRel
<1>2. PICK n \in T : \A m \in T : <<m, n>> \notin R
  <2> HIDE DEF R
  <2> QED
    BY <1>1, WFMin
<1>3. ASSUME NEW m \in T, m < n PROVE FALSE
  <2> DEFINE p == <<m, n>>
  <2>1. p \in Nat \X Nat /\ p[1] < p[2]
    BY <1>3
  <2> QED
    BY <1>2, <2>1
<1> QED
  BY <1>3

\* Induction: a set that holds zero, and the successor of every number it
\* holds, holds every number.
LEMMA NatSetInduction ==
  ASSUME NEW S, 0 \in S, \A n \in Nat : n \in S => n + 1 \in S
  PROVE  \A n \in Nat : n \in S
<1> DEFINE T == Nat \ S
<1> SUFFICES ASSUME T # {} PROVE FALSE
  OBVIOUS
<1>1. PICK n \in T : \A m \in T : n <= m
  BY NatMin
<1>2. n # 0 
  OBVIOUS
<1>3. n - 1 \in Nat /\ n - 1 \notin T
  BY <1>1, <1>2
<1> QED
  BY <1>3

\* Induction on sequences: a set that holds the empty sequence, and every
\* sequence it holds with one element more, holds every sequence.
LEMMA SeqSetInduction ==
  ASSUME NEW D, NEW T, <<>> \in T,
         \A s \in Seq(D), e \in D : s \in T => Append(s, e) \in T
  PROVE  \A s \in Seq(D) : s \in T
<1> DEFINE N == {n \in Nat : \A s \in Seq(D) : Len(s) = n => s \in T}
<1>1. 0 \in N
  BY EmptySeq
<1>2. ASSUME NEW n \in Nat, n \in N PROVE n + 1 \in N
  <2> SUFFICES ASSUME NEW s \in Seq(D), Len(s) = n + 1 PROVE s \in T
    OBVIOUS
  <2>1. s # <<>>
    BY <1>2
  <2>2. PICK t \in Seq(D), e \in D : s = Append(t, e)
    BY <2>1, SequenceEmptyOrAppend
  <2>3. Len(t) = n
    BY <2>2, <1>2
  <2>4. t \in T
    BY <1>2, <2>3
  <2> QED
    BY <2>2, <2>4
<1> HIDE DEF N
<1>3. \A n \in Nat : n \in N
  BY <1>1, <1>2, NatSetInduction
<1> QED
  BY <1>3, LenProperties DEF N

-----------------------------------------------------------------------------
(* FlattenSeq.                                                             *)

\* The concatenation of the first i sequences, from that of i - 1.
Join(f, s, i) == IF i = 1 THEN s[i] ELSE f[i - 1] \o s[i]

\* f holds the concatenations of the first sequences of s.
Flattens(f, s) ==
  /\ f = [i \in 1 .. Len(s) |-> f[i]]
  /\ \A i \in 1 .. Len(s) : f[i] = Join(f, s, i)

\* They are what the recursive function of FlattenSeq is defined by.
LEMMA FlattensDef ==
  ASSUME NEW f, NEW s
  PROVE  Flattens(f, s) <=>
           f = [i \in 1 .. Len(s) |-> IF i = 1 THEN s[i] ELSE f[i - 1] \o s[i]]
<1>1. ASSUME Flattens(f, s) PROVE f = [i \in 1 .. Len(s) |-> Join(f, s, i)]
  BY <1>1, Zenon DEF Flattens
<1>2. ASSUME f = [i \in 1 .. Len(s) |-> Join(f, s, i)] PROVE Flattens(f, s)
  <2>1. \A i \in 1 .. Len(s) : f[i] = Join(f, s, i)
    BY <1>2, Zenon
  <2>2. f = [i \in 1 .. Len(s) |-> f[i]]
    BY <1>2, <2>1, Zenon
  <2> QED
    BY <2>1, <2>2, Zenon DEF Flattens
<1> QED
  BY <1>1, <1>2, Zenon DEF Join

\* The next concatenation depends on the one before and the next sequence only.
LEMMA JoinSame ==
  ASSUME NEW f, NEW g, NEW s, NEW t, NEW i,
         s[i] = t[i], i # 1 => f[i - 1] = g[i - 1]
  PROVE  Join(f, s, i) = Join(g, t, i)
BY Zenon DEF Join

\* The concatenations of the first sequences exist.
LEMMA FlattensExists ==
  ASSUME NEW D, NEW s \in Seq(Seq(D))
  PROVE  \E f : Flattens(f, s)
<1> DEFINE T == {t \in Seq(Seq(D)) : \E f : Flattens(f, t)}
<1>1. <<>> \in T
  <2>1. Flattens([i \in 1 .. 0 |-> <<>>], <<>>)
    BY DEF Flattens
  <2> QED
    BY <2>1, EmptySeq
<1>2. ASSUME NEW t \in Seq(Seq(D)), NEW e \in Seq(D), t \in T
      PROVE  Append(t, e) \in T
  <2>1. PICK f : Flattens(f, t)
    BY <1>2
  <2> DEFINE u == Append(t, e)
             g == [i \in 1 .. Len(u) |->
                     IF i \in 1 .. Len(t) THEN f[i] ELSE Join(f, u, i)]
  <2>2. /\ u \in Seq(Seq(D)) /\ Len(u) = Len(t) + 1 /\ Len(t) \in Nat
        /\ \A i \in 1 .. Len(t) : t[i] = u[i]
    BY AppendProperties, LenProperties
  <2> HIDE DEF u
  <2>3. ASSUME NEW i \in 1 .. Len(u)
        PROVE  g[i] = Join(g, u, i)
    <3>. g[i] = IF i \in 1 .. Len(t) THEN f[i] ELSE Join(f, u, i)
      OBVIOUS
    <3>1. i # 1 => f[i - 1] = g[i - 1]
      BY <2>2
    <3> HIDE DEF g
    <3>2. Join(f, u, i) = Join(g, u, i)
      BY <3>1, Zenon DEF Join
    <3>3. i \in 1 .. Len(t) => f[i] = Join(f, u, i)
      <4> SUFFICES ASSUME i \in 1 .. Len(t) PROVE f[i] = Join(f, u, i)
        OBVIOUS
      <4>1. f[i] = Join(f, t, i)
        BY <2>1 DEF Flattens
      <4> QED
        BY <2>2, <4>1, JoinSame
    <3> QED
      BY <3>2, <3>3
  <2>4. Flattens(g, u)
    BY <2>3 DEF Flattens
  <2> QED
    BY <2>2, <2>4 DEF u
<1>3. \A t \in Seq(Seq(D)) : t \in T
  <2> HIDE DEF T
  <2> QED
    BY <1>1, <1>2, SeqSetInduction
<1> QED
  BY <1>3

\* They depend on the sequences they concatenate only.
LEMMA FlattensUnique ==
  ASSUME NEW s, NEW t, NEW f, NEW g,
         Flattens(f, s), Flattens(g, t),
         Len(s) \in Nat, Len(t) \in Nat, Len(s) <= Len(t),
         \A i \in 1 .. Len(s) : s[i] = t[i]
  PROVE  \A i \in 1 .. Len(s) : f[i] = g[i]
<1> DEFINE N == {n \in Nat : n \in 1 .. Len(s) => f[n] = g[n]}
<1>1. \A i \in 1 .. Len(s) : f[i] = Join(f, s, i) /\ g[i] = Join(g, t, i)
  <2>1. \A i \in 1 .. Len(s) : i \in 1 .. Len(t)
    OBVIOUS
  <2> QED
    BY <2>1, Zenon DEF Flattens
<1>2. ASSUME NEW n \in Nat, n \in N PROVE n + 1 \in N
  <2> SUFFICES ASSUME n + 1 \in 1 .. Len(s) PROVE f[n + 1] = g[n + 1]
    OBVIOUS
  <2>1. n + 1 # 1 => f[n + 1 - 1] = g[n + 1 - 1]
    BY <1>2
  <2>2. Join(f, s, n + 1) = Join(g, t, n + 1)
    BY <2>1, JoinSame
  <2> QED
    BY <1>1, <2>2
<1>3. 0 \in N
  OBVIOUS
<1> HIDE DEF N
<1>4. \A n \in Nat : n \in N
  BY <1>2, <1>3, NatSetInduction
<1> QED
  BY <1>4 DEF N

\* What FlattenSeq is made of.
LEMMA FlattenSeqDef ==
  ASSUME NEW D, NEW s \in Seq(Seq(D)), s # <<>>
  PROVE  \E f : Flattens(f, s) /\ FlattenSeq(s) = f[Len(s)]
<1>1. Len(s) # 0
  BY EmptySeq
<1>2. PICK f : f = [i \in 1 .. Len(s) |-> IF i = 1 THEN s[i] ELSE f[i - 1] \o s[i]]
  BY FlattensExists, FlattensDef
<1>3. \E g : /\ g = [i \in 1 .. Len(s) |-> IF i = 1 THEN s[i] ELSE g[i - 1] \o s[i]]
             /\ FlattenSeq(s) = g[Len(s)]
  BY <1>1, <1>2 DEF FlattenSeq
<1> QED
  BY <1>3, FlattensDef

\* Nothing flattens to nothing, and a sequence more is a suffix more.
LEMMA FlattenSeqAppend ==
  ASSUME NEW D
  PROVE  /\ FlattenSeq(<<>>) = <<>>
         /\ \A s \in Seq(Seq(D)), x \in Seq(D) :
              /\ FlattenSeq(s) \in Seq(D)
              /\ FlattenSeq(Append(s, x)) = FlattenSeq(s) \o x
<1>1. FlattenSeq(<<>>) = <<>>
  BY DEF FlattenSeq
<1>2. ASSUME NEW s \in Seq(Seq(D)), NEW x \in Seq(D), FlattenSeq(s) \in Seq(D)
      PROVE  FlattenSeq(Append(s, x)) = FlattenSeq(s) \o x
  <2> DEFINE u == Append(s, x)
  <2>1. /\ u \in Seq(Seq(D)) /\ Len(u) = Len(s) + 1 /\ Len(s) \in Nat
        /\ u[Len(u)] = x /\ \A i \in 1 .. Len(s) : s[i] = u[i]
    BY AppendProperties, LenProperties
  <2> HIDE DEF u
  <2>2. u # <<>>
    BY <2>1
  <2>3. PICK g : Flattens(g, u) /\ FlattenSeq(u) = g[Len(u)]
    BY <2>1, <2>2, FlattenSeqDef
  <2>4. g[Len(u)] = Join(g, u, Len(u))
    <3>1. Len(u) \in 1 .. Len(u)
      BY <2>1
    <3> QED
      BY <2>3, <3>1, Zenon DEF Flattens
  <2>5. CASE s = <<>>
    <3>1. g[Len(u)] = x
      BY <2>1, <2>4, <2>5, EmptySeq DEF Join
    <3> QED
      BY <1>1, <2>3, <2>5, <3>1, ConcatEmptySeq DEF u
  <2>6. CASE s # <<>>
    <3>1. PICK f : Flattens(f, s) /\ FlattenSeq(s) = f[Len(s)]
      BY <2>6, FlattenSeqDef
    <3>2. Len(s) \in 1 .. Len(s)
      BY <2>1, <2>6, EmptySeq
    <3>3. f[Len(s)] = g[Len(s)]
      <4>1. /\ Len(s) \in Nat /\ Len(u) \in Nat
            /\ Len(s) <= Len(u)
        BY <2>1
      <4>2. Flattens(f, s) /\ Flattens(g, u)
        BY <2>3, <3>1
      <4>3. \A i \in 1 .. Len(s) : s[i] = u[i]
        BY <2>1
      <4>4. \A i \in 1 .. Len(s) : f[i] = g[i]
        BY <4>1, <4>2, <4>3, FlattensUnique
      <4> QED
        BY <3>2, <4>4
    <3>4. g[Len(u)] = g[Len(s)] \o x
      BY <2>1, <2>4, <3>2 DEF Join
    <3> QED
      BY <2>3, <3>1, <3>3, <3>4 DEF u
  <2> QED
    BY <2>5, <2>6
<1> DEFINE T == {t \in Seq(Seq(D)) : FlattenSeq(t) \in Seq(D)}
<1>3. <<>> \in T
  BY <1>1, EmptySeq
<1>4. ASSUME NEW t \in Seq(Seq(D)), NEW e \in Seq(D), t \in T
      PROVE  Append(t, e) \in T
  BY <1>2, <1>4, AppendProperties, ConcatProperties
<1>5. \A t \in Seq(Seq(D)) : t \in T
  <2> HIDE DEF T
  <2> QED
    BY <1>3, <1>4, SeqSetInduction
<1> QED
  BY <1>1, <1>2, <1>5

\* Flattening sequences over a set gives a sequence over that set.
LEMMA FlattenSeqType ==
  ASSUME NEW D, NEW s \in Seq(Seq(D))
  PROVE  FlattenSeq(s) \in Seq(D)
<1>1. <<>> \in Seq(D)
  BY EmptySeq
<1> QED
  BY <1>1, FlattenSeqAppend, Zenon

\* One sequence more is a suffix more.
LEMMA FlattenSeqMore ==
  ASSUME NEW D, NEW s \in Seq(Seq(D)), NEW x \in Seq(D)
  PROVE  FlattenSeq(Append(s, x)) = FlattenSeq(s) \o x
BY FlattenSeqAppend, Zenon

-----------------------------------------------------------------------------
(* Filter.                                                                 *)

\* Filter goes through a sequence element by element.
LEMMA FilterAppend ==
  ASSUME NEW D, NEW S
  PROVE  /\ Filter(<<>>, S) = <<>>
         /\ \A s \in Seq(D) : Filter(s, S) \in Seq(D)
         /\ \A s \in Seq(D), e \in D : Filter(Append(s, e), S) =
              IF e \in S THEN Append(Filter(s, S), e) ELSE Filter(s, S)
<1> DEFINE P(e) == IF e \in S THEN <<e>> ELSE <<>>
           Parts(s) == [i \in DOMAIN s |-> P(s[i])]
<1>1. \A s : Filter(s, S) = FlattenSeq(Parts(s))
  BY DEF Filter
<1>2. \A e \in D : P(e) \in Seq(D)
  BY EmptySeq
<1>3. \A s \in Seq(D) : Parts(s) \in Seq(Seq(D)) /\ Len(Parts(s)) = Len(s)
  <2> HIDE DEF P
  <2> SUFFICES ASSUME NEW s \in Seq(D)
               PROVE  Parts(s) \in Seq(Seq(D)) /\ Len(Parts(s)) = Len(s)
    OBVIOUS
  <2>1. DOMAIN s = 1 .. Len(s) /\ Len(s) \in Nat /\ \A i \in DOMAIN s : s[i] \in D
    BY LenProperties, ElementOfSeq
  <2>2. \A i \in 1 .. Len(s) : P(s[i]) \in Seq(D)
    BY <1>2, <2>1
  <2>3. Parts(s) \in Seq(Seq(D))
    BY <2>1, <2>2, IsASeq
  <2>4. DOMAIN Parts(s) = 1 .. Len(s)
    BY <2>1
  <2> HIDE DEF Parts
  <2>5. Len(Parts(s)) = Len(s)
    BY <2>1, <2>3, <2>4, LenProperties
  <2> QED
    BY <2>3, <2>5
<1>4. Filter(<<>>, S) = <<>>
  <2>1. Parts(<<>>) = <<>>
    BY EmptySeq
  <2> QED
    BY <1>1, <2>1, FlattenSeqAppend
<1>5. \A s \in Seq(D) : Filter(s, S) \in Seq(D)
  <2> HIDE DEF Parts
  <2> QED
    BY <1>1, <1>3, FlattenSeqAppend
<1>6. ASSUME NEW s \in Seq(D), NEW e \in D
      PROVE  Filter(Append(s, e), S) =
               IF e \in S THEN Append(Filter(s, S), e) ELSE Filter(s, S)
  <2>1. Parts(Append(s, e)) = Append(Parts(s), P(e))
    <3> HIDE DEF P
    <3>1. /\ Append(s, e) \in Seq(D) /\ Len(Append(s, e)) = Len(s) + 1
          /\ Append(s, e)[Len(s) + 1] = e
          /\ \A i \in 1 .. Len(s) : Append(s, e)[i] = s[i]
      BY AppendProperties
    <3> DEFINE u == Append(s, e)
               v == Append(Parts(s), P(e))
    <3>2. DOMAIN s = 1 .. Len(s) /\ Len(s) \in Nat /\ DOMAIN u = 1 .. Len(u)
      BY <3>1, LenProperties
    <3>3. Parts(s) \in Seq(Seq(D)) /\ Len(Parts(s)) = Len(s)
      <4> HIDE DEF Parts
      <4> QED
        BY <1>3
    <3>4. /\ v \in Seq(Seq(D)) /\ Len(v) = Len(s) + 1 /\ v[Len(s) + 1] = P(e)
          /\ \A i \in 1 .. Len(s) : v[i] = Parts(s)[i]
      BY <1>2, <3>3, AppendProperties
    <3>5. Parts(u) \in Seq(Seq(D)) /\ Len(Parts(u)) = Len(s) + 1
      <4> HIDE DEF Parts
      <4> QED
        BY <1>3, <3>1
    <3>6. \A i \in 1 .. Len(s) + 1 : Parts(u)[i] = P(u[i])
      BY <3>1, <3>2
    <3>7. \A i \in 1 .. Len(s) : Parts(s)[i] = P(s[i])
      BY <3>2
    <3> HIDE DEF u, v, Parts
    <3>8. \A i \in 1 .. Len(s) + 1 : Parts(u)[i] = v[i]
      BY <3>1, <3>2, <3>4, <3>6, <3>7 DEF u
    <3>9. Parts(u) = v
      BY <3>4, <3>5, <3>8, SeqEqual
    <3> QED
      BY <3>9 DEF u, v
  <2>2. Filter(Append(s, e), S) = Filter(s, S) \o P(e)
    <3> HIDE DEF Parts, P
    <3>1. Parts(s) \in Seq(Seq(D)) /\ P(e) \in Seq(D)
      BY <1>2, <1>3
    <3>2. FlattenSeq(Append(Parts(s), P(e))) = FlattenSeq(Parts(s)) \o P(e)
      BY <3>1, FlattenSeqAppend
    <3> QED
      BY <1>1, <2>1, <3>2
  <2>3. CASE e \in S
    BY <1>5, <2>2, <2>3, AppendIsConcat
  <2>4. CASE e \notin S
    BY <1>5, <2>2, <2>4, ConcatEmptySeq
  <2> QED
    BY <2>3, <2>4
<1> QED
  BY <1>4, <1>5, <1>6, Zenon

\* Nothing is kept of nothing.
LEMMA FilterEmpty == ASSUME NEW S PROVE Filter(<<>>, S) = <<>>
BY FilterAppend, Zenon

\* Nothing becomes of another type.
LEMMA FilterType ==
  ASSUME NEW D, NEW S, NEW s \in Seq(D)
  PROVE  Filter(s, S) \in Seq(D)
BY FilterAppend, Zenon

\* One element more.
LEMMA FilterStep ==
  ASSUME NEW D, NEW S, NEW s \in Seq(D), NEW e \in D
  PROVE  /\ e \in S => Filter(Append(s, e), S) = Append(Filter(s, S), e)
         /\ e \notin S => Filter(Append(s, e), S) = Filter(s, S)
<1>1. \A a \in Seq(D), b \in D : Filter(Append(a, b), S) =
        IF b \in S THEN Append(Filter(a, S), b) ELSE Filter(a, S)
  BY FilterAppend, Zenon
<1> QED
  BY <1>1, Zenon

\* What Filter keeps is of the set.
LEMMA FilterKeeps ==
  ASSUME NEW D, NEW S, NEW s \in Seq(D)
  PROVE  Filter(s, S) \in Seq(D \cap S)
<1> DEFINE T == {t \in Seq(D) : Filter(t, S) \in Seq(D \cap S)}
<1>1. <<>> \in T
  BY FilterEmpty, EmptySeq
<1>2. ASSUME NEW t \in Seq(D), NEW e \in D, t \in T PROVE Append(t, e) \in T
  <2> DEFINE u == Append(t, e)
  <2>1. /\ e \in S => Filter(u, S) = Append(Filter(t, S), e)
        /\ e \notin S => Filter(u, S) = Filter(t, S)
    BY FilterStep, Zenon
  <2>2. u \in Seq(D) /\ Filter(t, S) \in Seq(D \cap S)
    BY <1>2, AppendProperties
  <2>3. e \in S => Append(Filter(t, S), e) \in Seq(D \cap S)
    <3> SUFFICES ASSUME e \in D \cap S PROVE Append(Filter(t, S), e) \in Seq(D \cap S)
      OBVIOUS
    <3> QED
      BY <2>2, AppendProperties, Zenon
  <2>4. Filter(u, S) \in Seq(D \cap S)
    BY <2>1, <2>2, <2>3, Zenon
  <2> QED
    BY <2>2, <2>4
<1>3. \A t \in Seq(D) : t \in T
  <2> HIDE DEF T
  <2> QED
    BY <1>1, <1>2, SeqSetInduction
<1> QED
  BY <1>3

\* Everything of the set is kept.
LEMMA FilterFinds ==
  ASSUME NEW D, NEW S, NEW s \in Seq(D), NEW n \in DOMAIN s, s[n] \in S
  PROVE  \E j \in DOMAIN Filter(s, S) : Filter(s, S)[j] = s[n]
<1> DEFINE T == {t \in Seq(D) : \A k \in 1 .. Len(t) : t[k] \in S =>
                   \E j \in 1 .. Len(Filter(t, S)) : Filter(t, S)[j] = t[k]}
<1>1. <<>> \in T
  BY FilterEmpty, EmptySeq
<1>2. ASSUME NEW t \in Seq(D), NEW e \in D, t \in T PROVE Append(t, e) \in T
  <2> DEFINE u == Append(t, e)
             F == Filter(t, S)
             G == Filter(u, S)
  <2>1. /\ u \in Seq(D) /\ Len(u) = Len(t) + 1 /\ u[Len(t) + 1] = e
        /\ \A i \in 1 .. Len(t) : u[i] = t[i]
    BY AppendProperties
  <2>2. F \in Seq(D) /\ Len(F) \in Nat /\ Len(t) \in Nat
    BY FilterType, LenProperties
  <2>3. /\ e \in S => G = Append(F, e)
        /\ e \notin S => G = F
    BY FilterStep, Zenon
  <2>4. \A i \in 1 .. Len(t) : t[i] \in S => \E j \in 1 .. Len(F) : F[j] = t[i]
    BY <1>2
  <2> HIDE DEF u, F, G
  <2>5. CASE e \in S
    <3>1. /\ Len(G) = Len(F) + 1 /\ G[Len(F) + 1] = e
          /\ \A i \in 1 .. Len(F) : G[i] = F[i]
      BY <2>2, <2>3, <2>5, AppendProperties
    <3>2. ASSUME NEW i \in 1 .. Len(u), u[i] \in S
          PROVE  \E j \in 1 .. Len(G) : G[j] = u[i]
      <4>1. CASE i = Len(t) + 1
        BY <2>1, <2>2, <3>1, <4>1
      <4>2. CASE i \in 1 .. Len(t)
        <5>1. PICK j \in 1 .. Len(F) : F[j] = t[i]
          BY <2>1, <2>4, <3>2, <4>2
        <5> QED
          BY <2>1, <2>2, <3>1, <4>2, <5>1
      <4> QED
        BY <2>1, <2>2, <4>1, <4>2
    <3> QED
      BY <2>1, <3>1, <3>2 DEF u, G
  <2>6. CASE e \notin S
    <3>1. ASSUME NEW i \in 1 .. Len(u), u[i] \in S
          PROVE  \E j \in 1 .. Len(G) : G[j] = u[i]
      <4>1. i \in 1 .. Len(t)
        BY <2>1, <2>2, <2>6, <3>1
      <4> QED
        BY <2>1, <2>3, <2>4, <2>6, <3>1, <4>1
    <3> QED
      BY <2>1, <2>2, <2>3, <2>6, <3>1 DEF u, G
  <2> QED
    BY <2>5, <2>6
<1>3. \A t \in Seq(D) : t \in T
  <2> HIDE DEF T
  <2> QED
    BY <1>1, <1>2, SeqSetInduction
<1>4. DOMAIN s = 1 .. Len(s) /\ DOMAIN Filter(s, S) = 1 .. Len(Filter(s, S))
  BY FilterType, LenProperties
<1>5. s \in T
  <2> HIDE DEF T
  <2> QED
    BY <1>3
<1> QED
  BY <1>4, <1>5

\* Nothing is left out of a sequence over the set itself.
LEMMA FilterAll ==
  ASSUME NEW S, NEW s \in Seq(S)
  PROVE  Filter(s, S) = s
<1> DEFINE T == {t \in Seq(S) : Filter(t, S) = t}
<1>1. <<>> \in T
  BY FilterEmpty, EmptySeq
<1>2. ASSUME NEW t \in Seq(S), NEW e \in S, t \in T PROVE Append(t, e) \in T
  BY <1>2, FilterStep, AppendProperties
<1>3. \A t \in Seq(S) : t \in T
  <2> HIDE DEF T
  <2> QED
    BY <1>1, <1>2, SeqSetInduction
<1> QED
  BY <1>3

\* Everything is left out of a sequence without an element of the set.
LEMMA FilterNone ==
  ASSUME NEW D, NEW S, NEW s \in Seq(D), D \cap S = {}
  PROVE  Filter(s, S) = <<>>
<1> DEFINE T == {t \in Seq(D) : Filter(t, S) = <<>>}
<1>1. <<>> \in T
  BY FilterEmpty, EmptySeq
<1>2. ASSUME NEW t \in Seq(D), NEW e \in D, t \in T PROVE Append(t, e) \in T
  <2>1. e \notin S
    OBVIOUS
  <2> QED
    BY <1>2, <2>1, FilterStep, AppendProperties
<1>3. \A t \in Seq(D) : t \in T
  <2> HIDE DEF T
  <2> QED
    BY <1>1, <1>2, SeqSetInduction
<1> QED
  BY <1>3

\* Filter goes through a concatenation part by part.
LEMMA FilterConcat ==
  ASSUME NEW D, NEW S, NEW s \in Seq(D), NEW t \in Seq(D)
  PROVE  Filter(s \o t, S) = Filter(s, S) \o Filter(t, S)
<1> DEFINE T == {u \in Seq(D) : Filter(s \o u, S) = Filter(s, S) \o Filter(u, S)}
<1>1. <<>> \in T
  BY FilterEmpty, FilterType, EmptySeq, ConcatEmptySeq
<1>2. ASSUME NEW u \in Seq(D), NEW e \in D, u \in T PROVE Append(u, e) \in T
  <2> DEFINE w == s \o u
             A == Filter(s, S)
             B == Filter(u, S)
  <2>1. s \o Append(u, e) = Append(w, e) /\ w \in Seq(D)
    BY AppendIsConcat, ConcatAssociative, ConcatProperties
  <2>2. A \in Seq(D) /\ B \in Seq(D)
    BY FilterType
  <2>3. Filter(w, S) = A \o B
    BY <1>2
  <2> HIDE DEF w, A, B, T
  <2>4. /\ e \in S => Filter(Append(u, e), S) = Append(B, e)
        /\ e \notin S => Filter(Append(u, e), S) = B
    BY FilterStep, Zenon DEF B
  <2>5. /\ e \in S => Filter(Append(w, e), S) = Append(Filter(w, S), e)
        /\ e \notin S => Filter(Append(w, e), S) = Filter(w, S)
    BY <2>1, FilterStep, Zenon
  <2>6. Append(A \o B, e) = A \o Append(B, e)
    <3>1. A \o B \in Seq(D) /\ <<e>> \in Seq(D)
      BY <2>2, ConcatProperties
    <3>2. Append(A \o B, e) = (A \o B) \o <<e>> /\ Append(B, e) = B \o <<e>>
      BY <2>2, <3>1, AppendIsConcat
    <3>3. (A \o B) \o <<e>> = A \o (B \o <<e>>)
      BY <2>2, <3>1, ConcatAssociative
    <3> QED
      BY <3>2, <3>3
  <2>7. Filter(s \o Append(u, e), S) = Filter(s, S) \o Filter(Append(u, e), S)
    <3>1. CASE e \in S
      BY <2>1, <2>3, <2>4, <2>5, <2>6, <3>1 DEF A
    <3>2. CASE e \notin S
      BY <2>1, <2>3, <2>4, <2>5, <3>2 DEF A
    <3> QED
      BY <3>1, <3>2
  <2> QED
    BY <2>7, AppendProperties DEF T
<1>3. \A u \in Seq(D) : u \in T
  <2> HIDE DEF T
  <2> QED
    BY <1>1, <1>2, SeqSetInduction
<1> QED
  BY <1>3

\* Where the elements that are kept are, and how many of them come first.
KeptAt(s, S)    == {i \in 1 .. Len(s) : s[i] \in S}
RankOf(s, S, i) == Cardinality({j \in KeptAt(s, S) : j <= i})

\* What Filter keeps is in the order of the sequence, with its repetitions.
LEMMA FilterPlaces ==
  ASSUME NEW D, NEW S, NEW s \in Seq(D)
  PROVE  /\ Len(Filter(s, S)) = Cardinality(KeptAt(s, S))
         /\ \A i \in KeptAt(s, S) :
              /\ RankOf(s, S, i) \in 1 .. Len(Filter(s, S))
              /\ Filter(s, S)[RankOf(s, S, i)] = s[i]
<1> DEFINE T == {t \in Seq(D) :
                   /\ Len(Filter(t, S)) = Cardinality(KeptAt(t, S))
                   /\ \A i \in KeptAt(t, S) :
                        /\ RankOf(t, S, i) \in 1 .. Len(Filter(t, S))
                        /\ Filter(t, S)[RankOf(t, S, i)] = t[i]}
<1>1. <<>> \in T
  <2>1. KeptAt(<<>>, S) = {}
    BY EmptySeq DEF KeptAt
  <2> QED
    BY <2>1, FilterEmpty, EmptySeq, FS_EmptySet
<1>2. ASSUME NEW t \in Seq(D), NEW e \in D, t \in T PROVE Append(t, e) \in T
  <2> DEFINE u == Append(t, e)
             n == Len(t) + 1
             F == Filter(t, S)
             G == Filter(u, S)
             K == KeptAt(t, S)
  <2>1. /\ u \in Seq(D) /\ Len(u) = n /\ u[n] = e
        /\ \A i \in 1 .. Len(t) : u[i] = t[i]
    BY AppendProperties
  <2>2. F \in Seq(D) /\ Len(F) \in Nat /\ Len(t) \in Nat
    BY FilterType, LenProperties
  <2>3. /\ Len(F) = Cardinality(K)
        /\ \A i \in K : RankOf(t, S, i) \in 1 .. Len(F) /\ F[RankOf(t, S, i)] = t[i]
    BY <1>2
  <2>4. IsFiniteSet(K)
    <3>1. IsFiniteSet(1 .. Len(t))
      BY <2>2, FS_Interval
    <3>2. K \subseteq 1 .. Len(t)
      BY DEF KeptAt
    <3> HIDE DEF K
    <3> QED
      BY <3>1, <3>2, FS_Subset
  <2>5. /\ e \in S => G = Append(F, e)
        /\ e \notin S => G = F
    BY FilterStep, Zenon
  <2> HIDE DEF u, F, G
  <2>6. KeptAt(u, S) = IF e \in S THEN K \cup {n} ELSE K
    BY <2>1, <2>2 DEF KeptAt
  <2>7. \A i \in K : i \in 1 .. Len(t) /\ i # n /\ RankOf(u, S, i) = RankOf(t, S, i)
    <3> SUFFICES ASSUME NEW i \in K
                 PROVE  i \in 1 .. Len(t) /\ i # n /\ RankOf(u, S, i) = RankOf(t, S, i)
      OBVIOUS
    <3>1. i \in 1 .. Len(t) /\ i # n
      BY <2>2 DEF KeptAt
    <3>2. {j \in KeptAt(u, S) : j <= i} = {j \in K : j <= i}
      BY <2>2, <2>6, <3>1
    <3> QED
      BY <3>1, <3>2 DEF RankOf
  <2>8. CASE e \in S
    <3>0. G = Append(F, e)
      BY <2>5, <2>8, Zenon
    <3>1. /\ Len(G) = Len(F) + 1 /\ G[Len(F) + 1] = e
          /\ \A i \in 1 .. Len(F) : G[i] = F[i]
      BY <2>2, <3>0, AppendProperties
    <3>2. n \notin K
      BY <2>2 DEF KeptAt
    <3>3. Cardinality(KeptAt(u, S)) = Cardinality(K) + 1
      BY <2>4, <2>6, <2>8, <3>2, FS_AddElement
    <3>4. RankOf(u, S, n) = Cardinality(K) + 1
      <4>1. {j \in KeptAt(u, S) : j <= n} = KeptAt(u, S)
        BY <2>1, <2>2 DEF KeptAt
      <4> QED
        BY <3>3, <4>1 DEF RankOf
    <3>5. Len(G) = Cardinality(KeptAt(u, S))
      BY <2>3, <3>1, <3>3
    <3>6. ASSUME NEW i \in KeptAt(u, S)
          PROVE  RankOf(u, S, i) \in 1 .. Len(G) /\ G[RankOf(u, S, i)] = u[i]
      <4>1. CASE i = n
        BY <2>1, <2>2, <2>3, <3>1, <3>4, <4>1
      <4>2. CASE i \in K
        <5>1. RankOf(t, S, i) \in 1 .. Len(F) /\ F[RankOf(t, S, i)] = t[i]
          BY <2>3, <4>2
        <5>2. i \in 1 .. Len(t) /\ RankOf(u, S, i) = RankOf(t, S, i)
          BY <2>7, <4>2
        <5> HIDE DEF K, n
        <5> QED
          BY <2>1, <2>2, <3>1, <5>1, <5>2
      <4> QED
        BY <2>6, <2>8, <4>1, <4>2
    <3> QED
      BY <2>1, <3>5, <3>6 DEF u, G
  <2>9. CASE e \notin S
    <3>1. G = F /\ KeptAt(u, S) = K
      BY <2>5, <2>6, <2>9
    <3>2. \A i \in KeptAt(u, S) : RankOf(u, S, i) \in 1 .. Len(G) /\ G[RankOf(u, S, i)] = u[i]
      BY <2>1, <2>3, <2>7, <3>1
    <3>3. Len(G) = Cardinality(KeptAt(u, S))
      BY <2>3, <3>1
    <3> QED
      BY <2>1, <3>2, <3>3 DEF u, G
  <2> QED
    BY <2>8, <2>9
<1>3. \A t \in Seq(D) : t \in T
  <2> HIDE DEF T
  <2> QED
    BY <1>1, <1>2, SeqSetInduction
<1> QED
  BY <1>3

-----------------------------------------------------------------------------
(* Sums of a function over a finite set.                                   *)

\* Induction on finite sets: what holds the empty set, and every finite set it
\* holds with one element more, holds every finite set.
LEMMA FinSetInduction ==
  ASSUME NEW S, IsFiniteSet(S), NEW T, {} \in T,
         ASSUME NEW A \in SUBSET S, NEW x \in S, IsFiniteSet(A), A \in T, x \notin A
         PROVE  A \cup {x} \in T
  PROVE  S \in T
<1> DEFINE N == {n \in Nat : \A A \in SUBSET S : Cardinality(A) = n => A \in T}
<1>0. \A A \in SUBSET S : IsFiniteSet(A) /\ Cardinality(A) \in Nat
  BY FS_Subset, FS_CardinalityType
<1>1. 0 \in N
  <2> SUFFICES ASSUME NEW A \in SUBSET S, Cardinality(A) = 0 PROVE A \in T
    OBVIOUS
  <2>1. A = {}
    BY <1>0, FS_EmptySet
  <2> QED
    BY <2>1
<1>2. ASSUME NEW n \in Nat, n \in N PROVE n + 1 \in N
  <2> SUFFICES ASSUME NEW A \in SUBSET S, Cardinality(A) = n + 1 PROVE A \in T
    OBVIOUS
  <2>0. Cardinality({}) = 0
    BY FS_EmptySet
  <2>1. PICK x \in A : TRUE
    BY <2>0
  <2> DEFINE B == A \ {x}
  <2>2. IsFiniteSet(B) /\ Cardinality(B) = Cardinality(A) - 1
    BY <1>0, <2>1, FS_RemoveElement
  <2>3. B \in SUBSET S /\ Cardinality(B) = n
    BY <1>2, <2>2
  <2>4. B \in T
    BY <1>2, <2>3
  <2>5. x \in S /\ x \notin B /\ A = B \cup {x}
    BY <2>1
  <2> HIDE DEF B, N
  <2>6. B \cup {x} \in T
    BY <2>2, <2>3, <2>4, <2>5
  <2> QED
    BY <2>5, <2>6
<1>3. \A n \in Nat : n \in N
  <2> HIDE DEF N
  <2> QED
    BY <1>1, <1>2, NatSetInduction
<1> QED
  BY <1>0, <1>3

\* The element that a sum takes next.
NextOf(s) == CHOOSE x \in s : TRUE

\* g[s] is the sum of f over s, for every s of C.
SumAt(g, f, s) == IF s = {} THEN 0 ELSE f[NextOf(s)] + g[s \ {NextOf(s)}]
Sums(g, f, C)  == g = [s \in C |-> g[s]] /\ \A s \in C : g[s] = SumAt(g, f, s)

\* The subsets of S with at most n elements.
UpTo(S, n) == {s \in SUBSET S : Cardinality(s) <= n}

\* A set that is not empty has a next element, and less without it.
LEMMA NextIn ==
  ASSUME NEW s, s # {}
  PROVE  NextOf(s) \in s
BY DEF NextOf

\* There is such a g for the subsets of a finite set.
LEMMA SumsExist ==
  ASSUME NEW S, IsFiniteSet(S), NEW f
  PROVE  \E g : Sums(g, f, SUBSET S)
<1> DEFINE N == {n \in Nat : \E g : Sums(g, f, UpTo(S, n))}
<1>0. \A s \in SUBSET S : IsFiniteSet(s) /\ Cardinality(s) \in Nat
  BY FS_Subset, FS_CardinalityType
<1>r. ASSUME NEW s \in SUBSET S, s # {}
      PROVE  /\ s \ {NextOf(s)} \in SUBSET S
             /\ Cardinality(s \ {NextOf(s)}) = Cardinality(s) - 1
  <2>1. NextOf(s) \in s
    BY <1>r, NextIn
  <2> QED
    BY <1>0, <2>1, FS_RemoveElement
<1>1. 0 \in N
  <2> DEFINE g == [s \in UpTo(S, 0) |-> 0]
  <2>1. ASSUME NEW s \in UpTo(S, 0) PROVE g[s] = SumAt(g, f, s)
    <3>1. s = {}
      BY <1>0, FS_EmptySet DEF UpTo
    <3> QED
      BY <3>1 DEF SumAt
  <2>2. Sums(g, f, UpTo(S, 0))
    BY <2>1 DEF Sums
  <2> QED
    BY <2>2
<1>2. ASSUME NEW n \in Nat, n \in N PROVE n + 1 \in N
  <2>1. PICK g : Sums(g, f, UpTo(S, n))
    BY <1>2
  <2> DEFINE h == [s \in UpTo(S, n + 1) |->
                     IF Cardinality(s) <= n THEN g[s]
                     ELSE f[NextOf(s)] + g[s \ {NextOf(s)}]]
  <2>2. \A s \in UpTo(S, n) : s \in UpTo(S, n + 1) /\ h[s] = g[s]
    BY <1>0 DEF UpTo
  <2>3. ASSUME NEW s \in UpTo(S, n + 1) PROVE h[s] = SumAt(h, f, s)
    <3>1. CASE s = {}
      <4>1. Cardinality(s) = 0 /\ s \in UpTo(S, n)
        BY <3>1, FS_EmptySet DEF UpTo
      <4>2. g[s] = 0
        BY <2>1, <3>1, <4>1 DEF Sums, SumAt
      <4> QED
        BY <2>2, <3>1, <4>1, <4>2 DEF SumAt
    <3>2. CASE s # {}
      <4> DEFINE t == s \ {NextOf(s)}
      <4>1. s \in SUBSET S /\ Cardinality(s) <= n + 1
        BY DEF UpTo
      <4>2. t \in UpTo(S, n)
        <5>1. /\ t \in SUBSET S /\ Cardinality(t) = Cardinality(s) - 1
              /\ Cardinality(s) \in Nat
          BY <1>0, <1>r, <3>2, <4>1
        <5> HIDE DEF t
        <5> QED
          BY <4>1, <5>1 DEF UpTo
      <4>3. h[t] = g[t]
        BY <2>2, <4>2
      <4>4. CASE Cardinality(s) <= n
        <5>1. s \in UpTo(S, n)
          BY <4>1, <4>4 DEF UpTo
        <5>2. g[s] = f[NextOf(s)] + g[t]
          BY <2>1, <3>2, <5>1 DEF Sums, SumAt
        <5>3. h[s] = g[s]
          BY <2>2, <5>1
        <5> HIDE DEF h
        <5> QED
          BY <3>2, <4>3, <5>2, <5>3 DEF SumAt
      <4>5. CASE ~(Cardinality(s) <= n)
        <5>1. h[s] = f[NextOf(s)] + g[t]
          BY <4>5
        <5> HIDE DEF h
        <5> QED
          BY <3>2, <4>3, <5>1 DEF SumAt
      <4> QED
        BY <4>4, <4>5
    <3> QED
      BY <3>1, <3>2
  <2>4. h = [s \in UpTo(S, n + 1) |-> h[s]]
    BY Zenon
  <2> HIDE DEF h
  <2>5. Sums(h, f, UpTo(S, n + 1))
    BY <2>3, <2>4, Zenon DEF Sums
  <2> QED
    BY <2>5
<1>3. \A n \in Nat : n \in N
  <2> HIDE DEF N
  <2> QED
    BY <1>1, <1>2, NatSetInduction
<1>4. UpTo(S, Cardinality(S)) = SUBSET S
  BY FS_Subset DEF UpTo
<1>5. Cardinality(S) \in Nat
  BY FS_CardinalityType
<1> QED
  BY <1>3, <1>4, <1>5

\* Two of them agree wherever both are defined.
LEMMA SumsUnique ==
  ASSUME NEW S, IsFiniteSet(S), NEW A \in SUBSET S, NEW f, NEW g, NEW h,
         Sums(g, f, SUBSET S), Sums(h, f, SUBSET A)
  PROVE  g[A] = h[A]
<1> DEFINE N == {n \in Nat : \A s \in SUBSET A : Cardinality(s) = n => g[s] = h[s]}
<1>0. /\ \A s \in SUBSET S : IsFiniteSet(s) /\ Cardinality(s) \in Nat
      /\ \A s \in SUBSET A : s \in SUBSET S
  BY FS_Subset, FS_CardinalityType
<1>a. ASSUME NEW s \in SUBSET A
      PROVE  /\ g[s] = IF s = {} THEN 0 ELSE f[NextOf(s)] + g[s \ {NextOf(s)}]
             /\ h[s] = IF s = {} THEN 0 ELSE f[NextOf(s)] + h[s \ {NextOf(s)}]
  BY <1>0, Zenon DEF Sums, SumAt
<1>1. 0 \in N
  <2> SUFFICES ASSUME NEW s \in SUBSET A, Cardinality(s) = 0 PROVE g[s] = h[s]
    OBVIOUS
  <2>1. s = {}
    BY <1>0, FS_EmptySet
  <2> QED
    BY <1>a, <2>1
<1>2. ASSUME NEW n \in Nat, n \in N PROVE n + 1 \in N
  <2> SUFFICES ASSUME NEW s \in SUBSET A, Cardinality(s) = n + 1 PROVE g[s] = h[s]
    OBVIOUS
  <2>0. Cardinality({}) = 0
    BY FS_EmptySet
  <2>1. s # {}
    BY <2>0
  <2> DEFINE t == s \ {NextOf(s)}
  <2>2. NextOf(s) \in s
    BY <2>1, NextIn
  <2>3. t \in SUBSET A /\ Cardinality(t) = n
    <3>1. IsFiniteSet(s) /\ Cardinality(s) \in Nat
      BY <1>0
    <3>2. Cardinality(t) = Cardinality(s) - 1
      BY <2>2, <3>1, FS_RemoveElement
    <3> QED
      BY <3>1, <3>2
  <2>4. g[t] = h[t]
    BY <1>2, <2>3
  <2>5. g[s] = f[NextOf(s)] + g[t] /\ h[s] = f[NextOf(s)] + h[t]
    BY <1>a, <2>1
  <2> QED
    BY <2>4, <2>5
<1>3. \A n \in Nat : n \in N
  <2> HIDE DEF N
  <2> QED
    BY <1>1, <1>2, NatSetInduction
<1> QED
  BY <1>0, <1>3

\* Such a g is the recursive function of the community modules.
SumFcn(g, f, S) ==
  g = [s \in SUBSET S |->
         IF s = {} THEN 0 ELSE f[CHOOSE x \in s : TRUE] + g[s \ {CHOOSE x \in s : TRUE}]]

\* Sums says what the recursive function of the community module is defined by.
LEMMA SumsDef ==
  ASSUME NEW g, NEW f, NEW S
  PROVE  Sums(g, f, SUBSET S) <=> SumFcn(g, f, S)
<1>1. ASSUME Sums(g, f, SUBSET S) PROVE g = [s \in SUBSET S |-> SumAt(g, f, s)]
  BY <1>1, Zenon DEF Sums
<1>2. ASSUME g = [s \in SUBSET S |-> SumAt(g, f, s)] PROVE Sums(g, f, SUBSET S)
  <2>1. \A s \in SUBSET S : g[s] = SumAt(g, f, s)
    BY <1>2, Zenon
  <2>2. g = [s \in SUBSET S |-> g[s]]
    BY <1>2, <2>1, Zenon
  <2> QED
    BY <2>1, <2>2, Zenon DEF Sums
<1>3. SumFcn(g, f, S) <=> g = [s \in SUBSET S |-> SumAt(g, f, s)]
  BY Zenon DEF SumFcn, SumAt, NextOf
<1> QED
  BY <1>1, <1>2, <1>3, Zenon

\* The community operator is the value of such a g.
LEMMA SumIsOne ==
  ASSUME NEW S, IsFiniteSet(S), NEW f
  PROVE  \E g : Sums(g, f, SUBSET S) /\ SumFunctionOnSet(f, S) = g[S]
<1>1. PICK g : SumFcn(g, f, S)
  BY SumsExist, SumsDef, Zenon
<1>2. \E h : SumFcn(h, f, S) /\ SumFunctionOnSet(f, S) = h[S]
  BY <1>1 DEF SumFcn, SumFunctionOnSet, FoldFunctionOnSet, MapThenFoldSet
<1> QED
  BY <1>2, SumsDef, Zenon

\* The sum over nothing is zero.
LEMMA SumEmpty ==
  ASSUME NEW f
  PROVE  SumFunctionOnSet(f, {}) = 0
<1>1. PICK g : Sums(g, f, SUBSET {}) /\ SumFunctionOnSet(f, {}) = g[{}]
  BY SumIsOne, FS_EmptySet
<1> QED
  BY <1>1, Zenon DEF Sums, SumAt

\* A sum is its next element and the sum of the others.
LEMMA SumUnfold ==
  ASSUME NEW S, IsFiniteSet(S), S # {}, NEW f
  PROVE  SumFunctionOnSet(f, S)
           = f[NextOf(S)] + SumFunctionOnSet(f, S \ {NextOf(S)})
<1> DEFINE A == S \ {NextOf(S)}
<1>1. PICK g : Sums(g, f, SUBSET S) /\ SumFunctionOnSet(f, S) = g[S]
  BY SumIsOne
<1>2. A \in SUBSET S /\ IsFiniteSet(A)
  BY FS_Subset
<1>3. PICK h : Sums(h, f, SUBSET A) /\ SumFunctionOnSet(f, A) = h[A]
  <2> HIDE DEF A
  <2> QED
    BY <1>2, SumIsOne
<1>4. g[A] = h[A]
  <2> HIDE DEF A
  <2> QED
    BY <1>1, <1>2, <1>3, SumsUnique
<1>5. g[S] = f[NextOf(S)] + g[A]
  <2>1. S \in SUBSET S
    OBVIOUS
  <2>2. g[S] = SumAt(g, f, S)
    BY <1>1, <2>1, Zenon DEF Sums
  <2> QED
    BY <2>2, Zenon DEF SumAt
<1> QED
  BY <1>1, <1>3, <1>4, <1>5

\* A sum of natural numbers is one.
LEMMA SumType ==
  ASSUME NEW D, NEW f \in [D -> Nat], NEW S \in SUBSET D, IsFiniteSet(S)
  PROVE  SumFunctionOnSet(f, S) \in Nat
<1> DEFINE N == {n \in Nat : \A A \in SUBSET S : Cardinality(A) = n => SumFunctionOnSet(f, A) \in Nat}
<1>0. \A A \in SUBSET S : IsFiniteSet(A) /\ Cardinality(A) \in Nat
  BY FS_Subset, FS_CardinalityType
<1>e. Cardinality({}) = 0
  BY FS_EmptySet
<1>1. 0 \in N
  <2> SUFFICES ASSUME NEW A \in SUBSET S, Cardinality(A) = 0
               PROVE  SumFunctionOnSet(f, A) \in Nat
    OBVIOUS
  <2>1. A = {}
    BY <1>0, FS_EmptySet
  <2> QED
    BY <2>1, SumEmpty
<1>2. ASSUME NEW n \in Nat, n \in N PROVE n + 1 \in N
  <2> SUFFICES ASSUME NEW A \in SUBSET S, Cardinality(A) = n + 1
               PROVE  SumFunctionOnSet(f, A) \in Nat
    OBVIOUS
  <2>1. A # {}
    BY <1>e
  <2> DEFINE y == NextOf(A)
             B == A \ {y}
  <2>2. y \in A
    BY <2>1, NextIn
  <2>3. SumFunctionOnSet(f, A) = f[y] + SumFunctionOnSet(f, B)
    BY <1>0, <2>1, SumUnfold
  <2> HIDE DEF y
  <2>4. Cardinality(B) = Cardinality(A) - 1
    BY <1>0, <2>2, FS_RemoveElement
  <2>5. B \in SUBSET S /\ Cardinality(B) = n
    BY <1>0, <2>4
  <2>6. SumFunctionOnSet(f, B) \in Nat /\ f[y] \in Nat
    BY <1>2, <2>2, <2>5
  <2> QED
    BY <2>3, <2>6
<1>3. \A n \in Nat : n \in N
  <2> HIDE DEF N
  <2> QED
    BY <1>1, <1>2, NatSetInduction
<1> QED
  BY <1>0, <1>3

\* Any element may be taken first.
LEMMA SumTakes ==
  ASSUME NEW D, NEW f \in [D -> Nat], NEW S \in SUBSET D, IsFiniteSet(S)
  PROVE  \A x \in S : SumFunctionOnSet(f, S) = f[x] + SumFunctionOnSet(f, S \ {x})
<1> DEFINE Good(A) == \A x \in A : SumFunctionOnSet(f, A)
                                   = f[x] + SumFunctionOnSet(f, A \ {x})
           N == {n \in Nat : \A A \in SUBSET S : Cardinality(A) = n => Good(A)}
<1>0. \A A \in SUBSET S : IsFiniteSet(A) /\ Cardinality(A) \in Nat
  BY FS_Subset, FS_CardinalityType
<1>e. Cardinality({}) = 0
  BY FS_EmptySet
<1>1. 0 \in N
  <2> SUFFICES ASSUME NEW A \in SUBSET S, Cardinality(A) = 0 PROVE Good(A)
    OBVIOUS
  <2>1. A = {}
    BY <1>0, FS_EmptySet
  <2> QED
    BY <2>1
<1>2. ASSUME NEW n \in Nat, n \in N PROVE n + 1 \in N
  <2> SUFFICES ASSUME NEW A \in SUBSET S, Cardinality(A) = n + 1 PROVE Good(A)
    OBVIOUS
  <2>1. A # {}
    BY <1>e
  <2>2. ASSUME NEW x \in A
        PROVE  /\ A \ {x} \in SUBSET S /\ Cardinality(A \ {x}) = n
               /\ f[x] \in Nat
    <3>1. IsFiniteSet(A)
      BY <1>0
    <3>2. Cardinality(A \ {x}) = Cardinality(A) - 1
      BY <2>2, <3>1, FS_RemoveElement
    <3> QED
      BY <3>2
  <2>3. ASSUME NEW x \in A PROVE Good(A \ {x})
    <3> HIDE DEF Good
    <3> QED
      BY <1>2, <2>2
  <2> DEFINE y == NextOf(A)
  <2>4. y \in A
    BY <2>1, NextIn
  <2>5. SumFunctionOnSet(f, A) = f[y] + SumFunctionOnSet(f, A \ {y})
    BY <1>0, <2>1, SumUnfold
  <2> HIDE DEF y
  <2>7. ASSUME NEW x \in A
        PROVE  SumFunctionOnSet(f, A) = f[x] + SumFunctionOnSet(f, A \ {x})
    <3>1. CASE x = y
      BY <2>5, <3>1
    <3>2. CASE x # y
      <4> DEFINE B == (A \ {y}) \ {x}
      <4>1. B = (A \ {x}) \ {y} /\ x \in A \ {y} /\ y \in A \ {x}
        BY <2>4, <3>2
      <4>2. SumFunctionOnSet(f, A \ {y}) = f[x] + SumFunctionOnSet(f, B)
        BY <2>3, <2>4, <4>1
      <4>3. SumFunctionOnSet(f, A \ {x}) = f[y] + SumFunctionOnSet(f, B)
        BY <2>3, <4>1
      <4>4. B \in SUBSET S /\ IsFiniteSet(B)
        BY <1>0
      <4>5. SumFunctionOnSet(f, B) \in Nat
        BY <4>4, SumType
      <4> QED
        BY <2>2, <2>4, <2>5, <4>2, <4>3, <4>5
    <3> QED
      BY <3>1, <3>2
  <2> QED
    BY <2>7
<1>3. \A n \in Nat : n \in N
  <2> HIDE DEF N
  <2> QED
    BY <1>1, <1>2, NatSetInduction
<1>4. S \in SUBSET S /\ Cardinality(S) \in Nat
  BY <1>0
<1>5. Good(S)
  <2> HIDE DEF Good
  <2> QED
    BY <1>3, <1>4
<1> QED
  BY <1>5

\* One element more.
LEMMA SumAdd ==
  ASSUME NEW D, NEW f \in [D -> Nat], NEW A \in SUBSET D, IsFiniteSet(A),
         NEW x \in D, x \notin A
  PROVE  SumFunctionOnSet(f, A \cup {x}) = f[x] + SumFunctionOnSet(f, A)
<1> DEFINE S == A \cup {x}
<1>1. S \in SUBSET D /\ IsFiniteSet(S) /\ x \in S /\ S \ {x} = A
  BY FS_AddElement
<1> HIDE DEF S
<1>2. SumFunctionOnSet(f, S) = f[x] + SumFunctionOnSet(f, S \ {x})
  BY <1>1, SumTakes
<1> QED
  BY <1>1, <1>2 DEF S

\* Two disjoint parts.
LEMMA SumUnion ==
  ASSUME NEW D, NEW f \in [D -> Nat], NEW A \in SUBSET D, NEW B \in SUBSET D,
         IsFiniteSet(A), IsFiniteSet(B), A \cap B = {}
  PROVE  SumFunctionOnSet(f, A \cup B) = SumFunctionOnSet(f, A) + SumFunctionOnSet(f, B)
<1> DEFINE T == {C \in SUBSET B : SumFunctionOnSet(f, A \cup C)
                                    = SumFunctionOnSet(f, A) + SumFunctionOnSet(f, C)}
<1>0. SumFunctionOnSet(f, A) \in Nat
  BY SumType
<1>1. {} \in T
  BY <1>0, SumEmpty
<1>2. ASSUME NEW C \in SUBSET B, NEW x \in B, IsFiniteSet(C), C \in T, x \notin C
      PROVE  C \cup {x} \in T
  <2> DEFINE U == A \cup C
  <2>1. U \in SUBSET D /\ IsFiniteSet(U) /\ x \in D /\ x \notin U
    BY <1>2, FS_Union
  <2>2. A \cup (C \cup {x}) = U \cup {x}
    OBVIOUS
  <2>3. SumFunctionOnSet(f, U) = SumFunctionOnSet(f, A) + SumFunctionOnSet(f, C)
    BY <1>2
  <2>4. SumFunctionOnSet(f, C \cup {x}) = f[x] + SumFunctionOnSet(f, C)
    BY <1>2, <2>1, SumAdd
  <2>5. f[x] \in Nat /\ SumFunctionOnSet(f, C) \in Nat
    BY <1>2, <2>1, SumType
  <2> HIDE DEF U
  <2>6. SumFunctionOnSet(f, U \cup {x}) = f[x] + SumFunctionOnSet(f, U)
    BY <2>1, SumAdd
  <2>7. SumFunctionOnSet(f, A \cup (C \cup {x})) = f[x] + SumFunctionOnSet(f, U)
    <3>1. SumFunctionOnSet(f, A \cup (C \cup {x})) = SumFunctionOnSet(f, U \cup {x})
      BY <2>2, Zenon
    <3> QED
      BY <3>1, <2>6, Zenon
  <2>8. SumFunctionOnSet(f, A \cup (C \cup {x}))
          = SumFunctionOnSet(f, A) + SumFunctionOnSet(f, C \cup {x})
    <3> DEFINE a == SumFunctionOnSet(f, A)
               c == SumFunctionOnSet(f, C)
               cx == SumFunctionOnSet(f, C \cup {x})
               u == SumFunctionOnSet(f, U)
               ux == SumFunctionOnSet(f, A \cup (C \cup {x}))
    <3>1. a \in Nat /\ c \in Nat /\ f[x] \in Nat /\ cx = f[x] + c /\ u = a + c /\ ux = f[x] + u
      BY <1>0, <2>3, <2>4, <2>5, <2>7
    <3> HIDE DEF a, c, cx, u, ux
    <3>2. ux = a + cx
      BY <3>1
    <3> QED
      BY <3>2 DEF a, cx, ux
  <2> QED
    BY <1>2, <2>8
<1>3. B \in T
  <2> HIDE DEF T
  <2> QED
    BY <1>1, <1>2, FinSetInduction
<1> QED
  BY <1>3

\* A part of a sum is not more than the sum.
LEMMA SumPart ==
  ASSUME NEW D, NEW f \in [D -> Nat], NEW B \in SUBSET D, IsFiniteSet(B), NEW A \in SUBSET B
  PROVE  SumFunctionOnSet(f, A) <= SumFunctionOnSet(f, B)
<1>1. /\ A \in SUBSET D /\ B \ A \in SUBSET D /\ A \cup (B \ A) = B /\ A \cap (B \ A) = {}
      /\ IsFiniteSet(A) /\ IsFiniteSet(B \ A)
  BY FS_Subset
<1>2. SumFunctionOnSet(f, A) \in Nat /\ SumFunctionOnSet(f, B \ A) \in Nat
  BY <1>1, SumType
<1>3. SumFunctionOnSet(f, A \cup (B \ A)) = SumFunctionOnSet(f, A) + SumFunctionOnSet(f, B \ A)
  BY <1>1, SumUnion
<1>4. SumFunctionOnSet(f, B) = SumFunctionOnSet(f, A) + SumFunctionOnSet(f, B \ A)
  <2>1. SumFunctionOnSet(f, B) = SumFunctionOnSet(f, A \cup (B \ A))
    BY <1>1, Zenon
  <2> QED
    BY <2>1, <1>3, Zenon
<1> QED
  BY <1>2, <1>4

\* Zeros add up to zero.
LEMMA SumZero ==
  ASSUME NEW D, NEW f \in [D -> Nat], NEW A \in SUBSET D, IsFiniteSet(A),
         \A x \in A : f[x] = 0
  PROVE  SumFunctionOnSet(f, A) = 0
<1> DEFINE T == {C \in SUBSET A : SumFunctionOnSet(f, C) = 0}
<1>1. {} \in T
  BY SumEmpty
<1>2. ASSUME NEW C \in SUBSET A, NEW x \in A, IsFiniteSet(C), C \in T, x \notin C
      PROVE  C \cup {x} \in T
  <2>1. SumFunctionOnSet(f, C \cup {x}) = f[x] + SumFunctionOnSet(f, C)
    BY <1>2, SumAdd
  <2> QED
    BY <1>2, <2>1
<1>3. A \in T
  <2> HIDE DEF T
  <2> QED
    BY <1>1, <1>2, FinSetInduction
<1> QED
  BY <1>3

\* Ones add up to the number of elements.
LEMMA SumOnes ==
  ASSUME NEW D, NEW f \in [D -> Nat], NEW A \in SUBSET D, IsFiniteSet(A),
         \A x \in A : f[x] = 1
  PROVE  SumFunctionOnSet(f, A) = Cardinality(A)
<1> DEFINE T == {C \in SUBSET A : SumFunctionOnSet(f, C) = Cardinality(C)}
<1>1. {} \in T
  BY SumEmpty, FS_EmptySet
<1>2. ASSUME NEW C \in SUBSET A, NEW x \in A, IsFiniteSet(C), C \in T, x \notin C
      PROVE  C \cup {x} \in T
  <2>1. SumFunctionOnSet(f, C \cup {x}) = f[x] + SumFunctionOnSet(f, C)
    BY <1>2, SumAdd
  <2>2. Cardinality(C \cup {x}) = Cardinality(C) + 1 /\ Cardinality(C) \in Nat
    BY <1>2, FS_AddElement, FS_CardinalityType
  <2> QED
    BY <1>2, <2>1, <2>2
<1>3. A \in T
  <2> HIDE DEF T
  <2> QED
    BY <1>1, <1>2, FinSetInduction
<1> QED
  BY <1>3

\* The same summands under other names, one to one, have the same sum.
LEMMA SumRename ==
  ASSUME NEW D, NEW f \in [D -> Nat], NEW E, NEW g \in [E -> Nat],
         NEW A \in SUBSET D, IsFiniteSet(A), NEW h \in [A -> E],
         \A x, y \in A : h[x] = h[y] => x = y,
         \A x \in A : f[x] = g[h[x]]
  PROVE  SumFunctionOnSet(f, A) = SumFunctionOnSet(g, {h[x] : x \in A})
<1> DEFINE Img(C) == {h[x] : x \in C}
           T == {C \in SUBSET A : /\ IsFiniteSet(Img(C))
                                  /\ SumFunctionOnSet(f, C) = SumFunctionOnSet(g, Img(C))}
<1>1. {} \in T
  <2>1. Img({}) = {}
    OBVIOUS
  <2> QED
    BY <2>1, SumEmpty, FS_EmptySet
<1>2. ASSUME NEW C \in SUBSET A, NEW x \in A, IsFiniteSet(C), C \in T, x \notin C
      PROVE  C \cup {x} \in T
  <2> DEFINE I == Img(C)
             J == Img(C \cup {x})
  <2>1. J = I \cup {h[x]} /\ h[x] \notin I /\ I \in SUBSET E /\ h[x] \in E
    BY <1>2
  <2>2. IsFiniteSet(I) /\ SumFunctionOnSet(f, C) = SumFunctionOnSet(g, I)
    BY <1>2
  <2> HIDE DEF I, J
  <2>3. IsFiniteSet(J) /\ SumFunctionOnSet(g, J) = g[h[x]] + SumFunctionOnSet(g, I)
    BY <2>1, <2>2, SumAdd, FS_AddElement
  <2>4. SumFunctionOnSet(f, C \cup {x}) = f[x] + SumFunctionOnSet(f, C)
    BY <1>2, SumAdd
  <2>5. IsFiniteSet(J) /\ SumFunctionOnSet(f, C \cup {x}) = SumFunctionOnSet(g, J)
    BY <2>2, <2>3, <2>4
  <2> QED
    BY <1>2, <2>5 DEF J
<1>3. A \in T
  <2> HIDE DEF T
  <2> QED
    BY <1>1, <1>2, FinSetInduction
<1> QED
  BY <1>3

\* The sums over the groups that h sorts the elements into add up to the sum
\* over all of them.
LEMMA SumGroups ==
  ASSUME NEW D, NEW f \in [D -> Nat], NEW A \in SUBSET D, IsFiniteSet(A),
         NEW K, IsFiniteSet(K), NEW h \in [A -> K], NEW total \in [K -> Nat],
         \A k \in K : total[k] = SumFunctionOnSet(f, {x \in A : h[x] = k})
  PROVE  SumFunctionOnSet(total, K) = SumFunctionOnSet(f, A)
<1> DEFINE G(C) == {x \in A : h[x] \in C}
           T == {C \in SUBSET K : SumFunctionOnSet(total, C) = SumFunctionOnSet(f, G(C))}
<1>0. \A B \in SUBSET A : B \in SUBSET D /\ IsFiniteSet(B)
  BY FS_Subset
<1>1. {} \in T
  <2>1. G({}) = {}
    OBVIOUS
  <2> QED
    BY <2>1, SumEmpty
<1>2. ASSUME NEW C \in SUBSET K, NEW k \in K, IsFiniteSet(C), C \in T, k \notin C
      PROVE  C \cup {k} \in T
  <2> DEFINE P == G(C)
             Q == {x \in A : h[x] = k}
  <2>1. G(C \cup {k}) = Q \cup P /\ Q \cap P = {} /\ P \in SUBSET A /\ Q \in SUBSET A
    BY <1>2
  <2>2. SumFunctionOnSet(total, C) = SumFunctionOnSet(f, P)
    BY <1>2
  <2>3. total[k] = SumFunctionOnSet(f, Q)
    OBVIOUS
  <2>4. SumFunctionOnSet(total, C \cup {k}) = total[k] + SumFunctionOnSet(total, C)
    BY <1>2, SumAdd
  <2> HIDE DEF P, Q, G
  <2>5. SumFunctionOnSet(f, Q \cup P) = SumFunctionOnSet(f, Q) + SumFunctionOnSet(f, P)
    <3>1. /\ P \in SUBSET D /\ IsFiniteSet(P)
          /\ Q \in SUBSET D /\ IsFiniteSet(Q) /\ Q \cap P = {}
      BY <1>0, <2>1
    <3> QED
      BY <3>1, SumUnion
  <2>6. SumFunctionOnSet(total, C \cup {k}) = SumFunctionOnSet(f, G(C \cup {k}))
    BY <2>1, <2>2, <2>3, <2>4, <2>5
  <2> QED
    BY <1>2, <2>6
<1>3. K \in T
  <2> HIDE DEF T
  <2> QED
    BY <1>1, <1>2, FinSetInduction
<1>4. G(K) = A
  OBVIOUS
<1> QED
  BY <1>3, <1>4

\* Functions that agree on a set have the same sum over it.
LEMMA SumSame ==
  ASSUME NEW D, NEW f \in [D -> Nat], NEW E, NEW g \in [E -> Nat],
         NEW A \in SUBSET D, A \in SUBSET E, IsFiniteSet(A), \A x \in A : f[x] = g[x]
  PROVE  SumFunctionOnSet(f, A) = SumFunctionOnSet(g, A)
<1> DEFINE h == [x \in A |-> x]
<1>1. h \in [A -> E] /\ \A x \in A : h[x] = x
  OBVIOUS
<1> HIDE DEF h
<1>2. SumFunctionOnSet(f, A) = SumFunctionOnSet(g, {h[x] : x \in A})
  BY <1>1, SumRename
<1>3. {h[x] : x \in A} = A
  BY <1>1
<1> QED
  BY <1>2, <1>3, Zenon

=============================================================================
