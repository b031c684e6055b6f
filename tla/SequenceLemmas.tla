-------------------------- MODULE SequenceLemmas --------------------------
(***************************************************************************)
(* What the proofs about loops over sequences and numbers rest on.         *)
(*                                                                         *)
(* Induction is over a set: NatSetInduction and SeqSetInduction take the   *)
(* set of those of which a claim holds, and say that it is all.            *)
(***************************************************************************)
EXTENDS Integers, Sequences, SequencesExt, WellFoundedInduction, SequenceTheorems, TLAPS

\* Induction, for a set of numbers that is given by what is to be shown of them.
LEMMA NatSetInduction ==
  ASSUME NEW S \in SUBSET Nat, 0 \in S, \A n \in S : n + 1 \in S PROVE S = Nat
<1> DEFINE T == Nat \ S
<1> SUFFICES ASSUME T # {} PROVE FALSE
  OBVIOUS
<1>1. PICK x \in T : \A y \in T : <<y, x>> \notin OpToRel(<, Nat)
  <2>1. T \subseteq Nat
    OBVIOUS
  <2> HIDE DEF T
  <2> QED
    BY <2>1, NatLessThanWellFounded, WFMin
<1>2. x # 0 /\ x - 1 \in Nat
  OBVIOUS
<1>3. x - 1 \notin T
  <2>1. <<x - 1, x>> \in OpToRel(<, Nat)
    BY <1>2 DEF OpToRel
  <2> HIDE DEF T
  <2> QED
    BY <1>1, <2>1
<1> QED
  BY <1>2, <1>3

LEMMA SeqSetInduction ==
  ASSUME NEW S, NEW T \in SUBSET Seq(S), <<>> \in T, \A s \in T : \A e \in S : Append(s, e) \in T
  PROVE  T = Seq(S)
<1> DEFINE L == {n \in Nat : \A s \in Seq(S) : Len(s) = n => s \in T}
<1>1. 0 \in L
  <2>1. \A s \in Seq(S) : Len(s) = 0 => s = <<>>
    OBVIOUS
  <2> QED
    BY <2>1
<1>2. ASSUME NEW n \in L PROVE n + 1 \in L
  <2> SUFFICES ASSUME NEW s \in Seq(S), Len(s) = n + 1 PROVE s \in T
    OBVIOUS
  <2>1. s # <<>>
    OBVIOUS
  <2>2. PICK q \in Seq(S), e \in S : s = Append(q, e)
    BY <2>1, SequenceEmptyOrAppend
  <2>3. Len(q) = n
    BY <2>2
  <2> QED
    BY <2>2, <2>3
<1> HIDE DEF L
<1>3. L = Nat
  BY <1>1, <1>2, NatSetInduction DEF L
<1>4. \A s \in Seq(S) : Len(s) \in Nat
  OBVIOUS
<1> QED
  BY <1>3, <1>4 DEF L

\* A function on a set of numbers.
LEMMA FunctionSeq == ASSUME NEW S, NEW n \in Nat, NEW f \in [1 .. n -> S] PROVE f \in Seq(S) /\ Len(f) = n
OBVIOUS

\* A function that is defined by recursion on a range of numbers exists.
Recursive(g, m, n, first, step) == \A i \in m .. n : g[i] = IF i = m THEN first ELSE step[<<i, g[i - 1]>>]

LEMMA RecursionExists ==
  ASSUME NEW A, NEW m \in Nat, NEW n \in Nat, NEW first \in A, NEW step \in [Nat \X A -> A]
  PROVE  \E g \in [m .. n -> A] : Recursive(g, m, n, first, step)
<1> DEFINE Good(k, g) == Recursive(g, m, k, first, step)
           K == {k \in Nat : \E g \in [m .. k -> A] : Good(k, g)}
<1>1. ASSUME NEW k \in Nat, k < m PROVE k \in K
  <2>1. m .. k = {}
    BY <1>1
  <2>2. [i \in m .. k |-> first] \in [m .. k -> A] /\ Good(k, [i \in m .. k |-> first])
    BY <2>1 DEF Recursive
  <2> QED
    BY <2>2
<1>2. m \in K
  <2>1. m .. m = {m}
    OBVIOUS
  <2>2. [i \in m .. m |-> first] \in [m .. m -> A] /\ Good(m, [i \in m .. m |-> first])
    BY <2>1 DEF Recursive
  <2> QED
    BY <2>2
<1>3. ASSUME NEW k \in K, k >= m PROVE k + 1 \in K
  <2>1. PICK g \in [m .. k -> A] : Good(k, g)
    OBVIOUS
  <2>2. k \in m .. k /\ k \in Nat /\ k + 1 \in Nat /\ k + 1 # m
    BY <1>3
  <2> DEFINE e == step[<<k + 1, g[k]>>]
             h == [i \in m .. k + 1 |-> IF i = k + 1 THEN e ELSE g[i]]
  <2>3. e \in A
    BY <2>2
  <2>4. \A i \in m .. k + 1 : i # k + 1 => i \in m .. k /\ i \in Nat
    BY <2>2
  <2> HIDE DEF e
  <2>5. h \in [m .. k + 1 -> A]
    BY <2>3, <2>4 DEF Recursive
  <2>6. Good(k + 1, h)
    <3> SUFFICES ASSUME NEW i \in m .. k + 1 PROVE h[i] = IF i = m THEN first ELSE step[<<i, h[i - 1]>>]
      BY DEF Recursive
    <3>1. CASE i = k + 1
      <4>1. h[k] = g[k] /\ i - 1 = k /\ h[i] = e
        BY <2>2, <3>1
      <4> QED
        BY <2>2, <3>1, <4>1 DEF e
    <3>2. CASE i # k + 1
      <4>1. h[i] = g[i] /\ i \in m .. k
        BY <2>4, <3>2
      <4>2. i # m => i - 1 \in m .. k + 1 /\ i - 1 # k + 1
        BY <2>4, <3>2
      <4>3. i # m => h[i - 1] = g[i - 1]
        BY <4>2
      <4> QED
        BY <2>1, <4>1, <4>3 DEF Recursive
    <3> QED
      BY <3>1, <3>2
  <2> HIDE DEF h
  <2> QED
    BY <2>2, <2>5, <2>6
<1> HIDE DEF Good
<1>4. 0 \in K
  <2>1. 0 < m \/ m = 0
    OBVIOUS
  <2> QED
    BY <1>1, <1>2, <2>1
<1>5. \A k \in K : k + 1 \in K
  <2> SUFFICES ASSUME NEW k \in K PROVE k + 1 \in K
    OBVIOUS
  <2>1. k \in Nat /\ k + 1 \in Nat
    OBVIOUS
  <2>2. k >= m \/ k + 1 < m \/ k + 1 = m
    BY <2>1
  <2> HIDE DEF K
  <2> QED
    BY <1>1, <1>2, <1>3, <2>1, <2>2
<1>6. K = Nat
  <2>1. K \in SUBSET Nat
    OBVIOUS
  <2> HIDE DEF K
  <2> QED
    BY <1>4, <1>5, <2>1, NatSetInduction
<1> QED
  BY <1>6 DEF Good

---------------------------------------------------------------------------
(* FlattenSeq.                                                             *)

Gathered(seqs, f) == f = [i \in 1 .. Len(seqs) |-> IF i = 1 THEN seqs[i] ELSE f[i - 1] \o seqs[i]]

LEMMA FlattenIs ==
  ASSUME NEW S, NEW seqs \in Seq(Seq(S)), Len(seqs) # 0
  PROVE  \E f \in [1 .. Len(seqs) -> Seq(S)] : Gathered(seqs, f) /\ FlattenSeq(seqs) = f[Len(seqs)]
<1> DEFINE n == Len(seqs)
           J == CHOOSE f : Gathered(seqs, f)
<1>1. n \in Nat /\ n # 0 /\ 1 \in 1 .. n /\ \A i \in 1 .. n : seqs[i] \in Seq(S)
  OBVIOUS
<1>2. FlattenSeq(seqs) = J[n]
  BY DEF FlattenSeq, Gathered
<1>3. \A f : Gathered(seqs, f) <=> f = [i \in 1 .. n |-> IF i = 1 THEN seqs[i] ELSE f[i - 1] \o seqs[i]]
  BY DEF Gathered
<1> HIDE DEF n
<1>4. \E f \in [1 .. n -> Seq(S)] : Gathered(seqs, f)
  <2> DEFINE step == [p \in Nat \X Seq(S) |-> IF p[1] \in 1 .. n THEN p[2] \o seqs[p[1]] ELSE <<>>]
  <2>1. step \in [Nat \X Seq(S) -> Seq(S)]
    BY <1>1, ConcatProperties, EmptySeq
  <2>2. seqs[1] \in Seq(S)
    BY <1>1
  <2> HIDE DEF step
  <2>3. PICK f \in [1 .. n -> Seq(S)] : Recursive(f, 1, n, seqs[1], step)
    BY <1>1, <2>1, <2>2, RecursionExists
  <2>4. \A i \in 1 .. n : i # 1 => f[i] = f[i - 1] \o seqs[i]
    <3> SUFFICES ASSUME NEW i \in 1 .. n, i # 1 PROVE f[i] = f[i - 1] \o seqs[i]
      OBVIOUS
    <3>1. i \in Nat /\ i - 1 \in 1 .. n
      BY <1>1
    <3>2. f[i - 1] \in Seq(S)
      BY <3>1
    <3>3. step[<<i, f[i - 1]>>] = f[i - 1] \o seqs[i]
      BY <3>1, <3>2 DEF step
    <3> QED
      BY <2>3, <3>3 DEF Recursive
  <2>5. f = [i \in 1 .. n |-> IF i = 1 THEN seqs[i] ELSE f[i - 1] \o seqs[i]]
    BY <2>3, <2>4 DEF Recursive
  <2> QED
    BY <1>3, <2>5
<1>5. Gathered(seqs, J)
  BY <1>4
<1>6. J \in [1 .. n -> Seq(S)]
  <2> HIDE DEF J
  <2>1. DOMAIN J = 1 .. n /\ J[1] = seqs[1] /\ \A i \in 1 .. n : i # 1 => J[i] = J[i - 1] \o seqs[i]
    BY <1>1, <1>3, <1>5
  <2> DEFINE K == {i \in Nat : i + 1 \in 1 .. n => J[i + 1] \in Seq(S)}
  <2>2. 0 \in K
    BY <1>1, <2>1
  <2>3. ASSUME NEW i \in K PROVE i + 1 \in K
    <3> SUFFICES ASSUME (i + 1) + 1 \in 1 .. n PROVE J[(i + 1) + 1] \in Seq(S)
      OBVIOUS
    <3>1. i \in Nat /\ i + 1 \in 1 .. n /\ (i + 1) + 1 # 1 /\ ((i + 1) + 1) - 1 = i + 1
      BY <1>1
    <3>2. J[i + 1] \in Seq(S)
      BY <3>1
    <3>3. J[(i + 1) + 1] = J[i + 1] \o seqs[(i + 1) + 1]
      BY <2>1, <3>1
    <3> QED
      BY <1>1, <3>2, <3>3, ConcatProperties
  <2>4. K = Nat
    <3>1. K \in SUBSET Nat
      OBVIOUS
    <3> HIDE DEF K
    <3> QED
      BY <2>2, <2>3, <3>1, NatSetInduction
  <2>5. ASSUME NEW i \in 1 .. n PROVE J[i] \in Seq(S)
    <3>1. i - 1 \in Nat /\ (i - 1) + 1 = i
      BY <1>1
    <3>2. i - 1 \in K
      BY <2>4, <3>1
    <3> QED
      BY <3>1, <3>2
  <2>6. J = [i \in 1 .. n |-> J[i]]
    BY <1>1, <1>3, <1>5
  <2> QED
    BY <2>5, <2>6
<1> QED
  BY <1>2, <1>5, <1>6 DEF n

LEMMA FlattenEmpty == FlattenSeq(<<>>) = <<>>
BY DEF FlattenSeq

LEMMA FlattenAppend ==
  ASSUME NEW S, NEW seqs \in Seq(Seq(S)), NEW e \in Seq(S)
  PROVE  FlattenSeq(seqs) \in Seq(S) /\ FlattenSeq(Append(seqs, e)) = FlattenSeq(seqs) \o e
<1> DEFINE n == Len(seqs)
           all == Append(seqs, e)
<1>1. n \in Nat /\ all \in Seq(Seq(S)) /\ Len(all) = n + 1 /\ all[n + 1] = e /\ \A i \in 1 .. n : all[i] = seqs[i]
  OBVIOUS
<1>2. PICK g \in [1 .. n + 1 -> Seq(S)] : Gathered(all, g) /\ FlattenSeq(all) = g[n + 1]
  <2>1. Len(all) # 0
    BY <1>1
  <2> QED
    BY <1>1, <2>1, FlattenIs
<1>3. g = [i \in 1 .. n + 1 |-> IF i = 1 THEN all[i] ELSE g[i - 1] \o all[i]]
  BY <1>1, <1>2 DEF Gathered
<1>4. CASE n = 0
  <2>1. seqs = <<>> /\ FlattenSeq(seqs) = <<>>
    BY <1>4, FlattenEmpty
  <2>2. g[1] = e
    BY <1>1, <1>3, <1>4
  <2>3. <<>> \o e = e /\ <<>> \in Seq(S)
    BY ConcatEmptySeq
  <2>4. n + 1 = 1
    BY <1>4
  <2>5. FlattenSeq(all) = g[1]
    BY <1>2, <2>4
  <2> HIDE DEF n, all
  <2>6. FlattenSeq(all) = e
    BY <2>2, <2>5
  <2>7. FlattenSeq(all) = FlattenSeq(seqs) \o e
    BY <2>1, <2>3, <2>6
  <2> QED
    BY <2>1, <2>3, <2>7 DEF all
<1>5. CASE n # 0
  <2>1. PICK f \in [1 .. n -> Seq(S)] : Gathered(seqs, f) /\ FlattenSeq(seqs) = f[n]
    BY <1>5, FlattenIs
  <2>2. f = [i \in 1 .. n |-> IF i = 1 THEN seqs[i] ELSE f[i - 1] \o seqs[i]]
    BY <2>1 DEF Gathered
  <2> HIDE DEF n, all
  <2> DEFINE K == {i \in Nat : i + 1 =< n => g[i + 1] = f[i + 1]}
  <2>3. 0 \in K
    BY <1>1, <1>3, <2>2, <1>5
  <2>4. ASSUME NEW i \in K PROVE i + 1 \in K
    <3> SUFFICES ASSUME (i + 1) + 1 =< n PROVE g[(i + 1) + 1] = f[(i + 1) + 1]
      OBVIOUS
    <3>1. i \in Nat /\ g[i + 1] = f[i + 1] /\ (i + 1) + 1 # 1 /\ ((i + 1) + 1) - 1 = i + 1
      <4>1. i \in Nat /\ (i + 1 =< n => g[i + 1] = f[i + 1])
        BY Zenon
      <4> HIDE DEF K
      <4> QED
        BY <1>1, <4>1
    <3>2. (i + 1) + 1 \in 1 .. n /\ (i + 1) + 1 \in 1 .. n + 1
      BY <1>1, <3>1
    <3>3. g[(i + 1) + 1] = g[i + 1] \o all[(i + 1) + 1]
      BY <1>3, <3>1, <3>2
    <3>4. f[(i + 1) + 1] = f[i + 1] \o seqs[(i + 1) + 1]
      BY <2>2, <3>1, <3>2
    <3> QED
      BY <1>1, <3>1, <3>2, <3>3, <3>4
  <2>5. K = Nat
    <3>1. K \in SUBSET Nat
      OBVIOUS
    <3> HIDE DEF K
    <3> QED
      BY <2>3, <2>4, <3>1, NatSetInduction
  <2>6. g[n] = f[n]
    <3>1. n - 1 \in Nat /\ (n - 1) + 1 = n
      BY <1>1, <1>5
    <3>2. n - 1 \in K
      BY <2>5, <3>1
    <3> QED
      BY <3>1, <3>2
  <2>7. g[n + 1] = g[n] \o e
    <3>1. n + 1 \in 1 .. n + 1 /\ n + 1 # 1 /\ (n + 1) - 1 = n
      BY <1>1, <1>5
    <3> QED
      BY <1>1, <1>3, <3>1
  <2>8. f[n] \in Seq(S)
    BY <1>1, <1>5
  <2> QED
    BY <1>2, <2>1, <2>6, <2>7, <2>8 DEF all
<1> QED
  BY <1>4, <1>5

---------------------------------------------------------------------------
(* Sequences of whatever they hold.                                        *)

Elements(s) == {s[i] : i \in DOMAIN s}
IsSequence(s) == s \in Seq(Elements(s))

LEMMA SequenceFacts ==
  ASSUME NEW s, IsSequence(s)
  PROVE  Len(s) \in Nat /\ DOMAIN s = 1 .. Len(s) /\ s = [i \in 1 .. Len(s) |-> s[i]]
BY DEF IsSequence

LEMMA SeqIsSequence == ASSUME NEW S, NEW s \in Seq(S) PROVE IsSequence(s)
<1>1. Len(s) \in Nat /\ DOMAIN s = 1 .. Len(s) /\ s = [i \in 1 .. Len(s) |-> s[i]]
  OBVIOUS
<1>2. s \in [1 .. Len(s) -> Elements(s)]
  BY <1>1 DEF Elements
<1> QED
  BY <1>1, <1>2, FunctionSeq DEF IsSequence

LEMMA FunctionIsSequence ==
  ASSUME NEW n \in Nat, NEW s, s = [i \in 1 .. n |-> s[i]] PROVE IsSequence(s) /\ Len(s) = n
<1>1. s \in [1 .. n -> Elements(s)]
  BY DEF Elements
<1> QED
  BY <1>1, FunctionSeq DEF IsSequence

LEMMA ConcatSequence ==
  ASSUME NEW s, NEW t, IsSequence(s), IsSequence(t)
  PROVE  /\ IsSequence(s \o t) /\ Len(s \o t) = Len(s) + Len(t)
         /\ \A i \in 1 .. Len(s) : (s \o t)[i] = s[i]
         /\ \A i \in 1 .. Len(t) : (s \o t)[Len(s) + i] = t[i]
<1> DEFINE S == Elements(s) \cup Elements(t)
<1>1. s \in Seq(S) /\ t \in Seq(S)
  <2>1. Elements(s) \subseteq S /\ Elements(t) \subseteq S
    OBVIOUS
  <2> HIDE DEF S
  <2>2. s \in Seq(Elements(s)) /\ t \in Seq(Elements(t))
    BY DEF IsSequence
  <2> QED
    BY <2>1, <2>2
<1> HIDE DEF S
<1>2. s \o t \in Seq(S)
  BY <1>1
<1>3. IsSequence(s \o t)
  BY <1>2, SeqIsSequence, Zenon
<1>4. /\ Len(s \o t) = Len(s) + Len(t)
      /\ \A i \in 1 .. Len(s) : (s \o t)[i] = s[i]
      /\ \A i \in 1 .. Len(t) : (s \o t)[Len(s) + i] = t[i]
  BY <1>1
<1> QED
  BY <1>3, <1>4

LEMMA ReverseSequence ==
  ASSUME NEW s, IsSequence(s)
  PROVE  /\ IsSequence(Reverse(s)) /\ Len(Reverse(s)) = Len(s)
         /\ \A i \in 1 .. Len(s) : Reverse(s)[i] = s[(Len(s) - i) + 1]
<1>1. Len(s) \in Nat /\ Reverse(s) = [i \in 1 .. Len(s) |-> s[(Len(s) - i) + 1]]
  BY SequenceFacts DEF Reverse
<1>2. Reverse(s) = [i \in 1 .. Len(s) |-> Reverse(s)[i]]
  BY <1>1
<1> QED
  BY <1>1, <1>2, FunctionIsSequence

LEMMA PrefixSequence ==
  ASSUME NEW s, IsSequence(s), NEW n \in 0 .. Len(s)
  PROVE  /\ IsSequence(SubSeq(s, 1, n)) /\ Len(SubSeq(s, 1, n)) = n
         /\ \A i \in 1 .. n : SubSeq(s, 1, n)[i] = s[i]
<1> DEFINE S == Elements(s)
<1>1. s \in Seq(S)
  BY DEF IsSequence
<1> HIDE DEF S
<1>2. SubSeq(s, 1, n) \in Seq(S) /\ Len(SubSeq(s, 1, n)) = n /\ \A i \in 1 .. n : SubSeq(s, 1, n)[i] = s[i]
  BY <1>1
<1> QED
  BY <1>2, SeqIsSequence, Zenon

\* What is flattened of a family of sequences grows by the next of them.
LEMMA FlattenMore ==
  ASSUME NEW S, NEW i \in Nat, NEW g, \A j \in 1 .. i + 1 : g[j] \in Seq(S)
  PROVE  /\ FlattenSeq([j \in 1 .. i |-> g[j]]) \in Seq(S)
         /\ FlattenSeq([j \in 1 .. i + 1 |-> g[j]]) = FlattenSeq([j \in 1 .. i |-> g[j]]) \o g[i + 1]
<1> DEFINE s == [j \in 1 .. i |-> g[j]]
           e == g[i + 1]
<1>1. s \in Seq(Seq(S)) /\ Len(s) = i
  <2>1. s \in [1 .. i -> Seq(S)]
    OBVIOUS
  <2> HIDE DEF s
  <2> QED
    BY <2>1, FunctionSeq
<1>2. e \in Seq(S)
  OBVIOUS
<1>3. [j \in 1 .. i + 1 |-> g[j]] = Append(s, e)
  <2> DEFINE u == [j \in 1 .. i + 1 |-> g[j]]
             v == Append(s, e)
  <2>1. u \in [1 .. i + 1 -> Seq(S)]
    OBVIOUS
  <2>2. \A j \in 1 .. i : s[j] = g[j] /\ u[j] = g[j]
    OBVIOUS
  <2>3. u[i + 1] = e
    OBVIOUS
  <2> HIDE DEF s, e, u
  <2>4. v \in Seq(Seq(S)) /\ Len(v) = i + 1 /\ (\A j \in 1 .. i : v[j] = s[j]) /\ v[i + 1] = e
    BY <1>1, <1>2
  <2>5. u \in Seq(Seq(S)) /\ Len(u) = i + 1
    BY <2>1, FunctionSeq
  <2> HIDE DEF v
  <2>6. \A j \in 1 .. i + 1 : u[j] = v[j]
    BY <2>2, <2>3, <2>4
  <2>7. u = v
    BY <2>4, <2>5, <2>6, SeqEqual
  <2> QED
    BY <2>7 DEF u, v
<1> HIDE DEF s, e
<1>4. FlattenSeq(s) \in Seq(S) /\ FlattenSeq(Append(s, e)) = FlattenSeq(s) \o e
  BY <1>1, <1>2, FlattenAppend
<1> QED
  BY <1>3, <1>4 DEF s, e

LEMMA FlattenNothing == ASSUME NEW g PROVE FlattenSeq([j \in 1 .. 0 |-> g[j]]) = <<>>
<1>1. [j \in 1 .. 0 |-> g[j]] = <<>>
  OBVIOUS
<1> QED
  BY <1>1, FlattenEmpty

\* A sequence and one or two elements more.
LEMMA OneMore ==
  ASSUME NEW s, IsSequence(s), NEW a
  PROVE  /\ IsSequence(s \o <<a>>) /\ Len(s \o <<a>>) = Len(s) + 1 /\ (s \o <<a>>)[Len(s) + 1] = a
         /\ \A i \in 1 .. Len(s) : (s \o <<a>>)[i] = s[i]
<1> DEFINE w == <<a>>
<1>1. w \in Seq({a}) /\ Len(w) = 1 /\ w[1] = a
  OBVIOUS
<1> HIDE DEF w
<1>2. IsSequence(w)
  BY <1>1, SeqIsSequence, Zenon
<1>3. /\ IsSequence(s \o w) /\ Len(s \o w) = Len(s) + Len(w)
      /\ (\A i \in 1 .. Len(s) : (s \o w)[i] = s[i]) /\ \A i \in 1 .. Len(w) : (s \o w)[Len(s) + i] = w[i]
  BY <1>2, ConcatSequence
<1> DEFINE u == s \o w
<1> HIDE DEF u
<1>4. /\ IsSequence(u) /\ Len(u) = Len(s) + Len(w)
      /\ (\A i \in 1 .. Len(s) : u[i] = s[i]) /\ \A i \in 1 .. Len(w) : u[Len(s) + i] = w[i]
  BY <1>3 DEF u
<1>5. IsSequence(u) /\ Len(u) = Len(s) + 1 /\ u[Len(s) + 1] = a /\ \A i \in 1 .. Len(s) : u[i] = s[i]
  BY <1>1, <1>4
<1> QED
  BY <1>5 DEF u, w

\* Short sequences, named so that the provers need not look into the tuples.
IsTwo(w, a, b) == IsSequence(w) /\ Len(w) = 2 /\ w[1] = a /\ w[2] = b

LEMMA TwoMore ==
  ASSUME NEW s, IsSequence(s), NEW a, NEW b, NEW w, IsTwo(w, a, b)
  PROVE  /\ IsSequence(s \o w) /\ Len(s \o w) = Len(s) + 2
         /\ (s \o w)[Len(s) + 1] = a /\ (s \o w)[Len(s) + 2] = b
         /\ \A i \in 1 .. Len(s) : (s \o w)[i] = s[i]
<1>1. /\ IsSequence(s \o w) /\ Len(s \o w) = Len(s) + Len(w)
      /\ (\A i \in 1 .. Len(s) : (s \o w)[i] = s[i]) /\ \A i \in 1 .. Len(w) : (s \o w)[Len(s) + i] = w[i]
  <2>1. IsSequence(w)
    BY DEF IsTwo
  <2> QED
    BY <2>1, ConcatSequence
<1> DEFINE u == s \o w
<1> HIDE DEF u
<1>2. /\ IsSequence(u) /\ Len(u) = Len(s) + Len(w)
      /\ (\A i \in 1 .. Len(s) : u[i] = s[i]) /\ \A i \in 1 .. Len(w) : u[Len(s) + i] = w[i]
  BY <1>1 DEF u
<1>3. /\ IsSequence(u) /\ Len(u) = Len(s) + 2 /\ u[Len(s) + 1] = a /\ u[Len(s) + 2] = b
      /\ \A i \in 1 .. Len(s) : u[i] = s[i]
  BY <1>2 DEF IsTwo
<1> QED
  BY <1>3 DEF u

LEMMA IsTwoOf == ASSUME NEW a, NEW b PROVE IsTwo(<<a, b>>, a, b)
<1> DEFINE x == <<a, b>>
<1>1. x \in Seq({a, b}) /\ Len(x) = 2 /\ x[1] = a /\ x[2] = b
  OBVIOUS
<1> HIDE DEF x
<1>2. IsTwo(x, a, b)
  BY <1>1, SeqIsSequence, Zenon DEF IsTwo
<1> QED
  BY <1>2 DEF x

\* Sequences of the same elements are the same sequence.
LEMMA SameSequence ==
  ASSUME NEW s, NEW t, IsSequence(s), IsSequence(t), Len(s) = Len(t), \A i \in 1 .. Len(s) : s[i] = t[i] PROVE s = t
<1>1. s = [i \in 1 .. Len(s) |-> s[i]] /\ t = [i \in 1 .. Len(t) |-> t[i]]
  BY SequenceFacts
<1> QED
  BY <1>1

LEMMA Single == ASSUME NEW a PROVE IsSequence(<<a>>)
<1>1. <<a>> \in Seq({a})
  OBVIOUS
<1> QED
  BY <1>1, SeqIsSequence, Zenon

LEMMA TwoOnes == ASSUME NEW a, NEW b PROVE IsSequence(<<a, b>>) /\ <<a>> \o <<b>> = <<a, b>>
<1> DEFINE x == <<a>>
           z == <<a, b>>
           u == x \o <<b>>
<1>1. Len(x) = 1 /\ x[1] = a /\ Len(z) = 2 /\ z[1] = a /\ z[2] = b /\ z \in Seq({a, b})
  OBVIOUS
<1>2. IsSequence(x)
  BY Single
<1> HIDE DEF x, z
<1>3. IsSequence(z)
  BY <1>1, SeqIsSequence, Zenon
<1>4. IsSequence(u) /\ Len(u) = Len(x) + 1 /\ u[Len(x) + 1] = b /\ \A i \in 1 .. Len(x) : u[i] = x[i]
  BY <1>2, OneMore, Zenon
<1> HIDE DEF u
<1>5. Len(u) = 2 /\ u[1] = a /\ u[2] = b
  BY <1>1, <1>4
<1>6. \A i \in 1 .. 2 : i = 1 \/ i = 2
  OBVIOUS
<1>7. u = z
  BY <1>1, <1>3, <1>4, <1>5, <1>6, SameSequence
<1> QED
  BY <1>3, <1>7 DEF u, x, z

\* A sequence that goes on with two more elements.
PairAfter(t, s, a, b) ==
    /\ IsSequence(s) /\ IsSequence(t) /\ Len(t) = Len(s) + 2
    /\ (\A i \in 1 .. Len(s) : t[i] = s[i]) /\ t[Len(s) + 1] = a /\ t[Len(s) + 2] = b

LEMMA PairMore ==
  ASSUME NEW s, NEW t, NEW a, NEW b, NEW w, PairAfter(t, s, a, b), IsTwo(w, a, b) PROVE t = s \o w
<1>1. IsSequence(s)
  BY DEF PairAfter
<1>2. /\ IsSequence(s \o w) /\ Len(s \o w) = Len(s) + 2
      /\ (s \o w)[Len(s) + 1] = a /\ (s \o w)[Len(s) + 2] = b
      /\ \A i \in 1 .. Len(s) : (s \o w)[i] = s[i]
  BY <1>1, TwoMore
<1> DEFINE u == s \o w
<1> HIDE DEF u
<1>3. /\ IsSequence(u) /\ Len(u) = Len(s) + 2 /\ u[Len(s) + 1] = a /\ u[Len(s) + 2] = b
      /\ \A i \in 1 .. Len(s) : u[i] = s[i]
  BY <1>2 DEF u
<1>4. Len(s) \in Nat
  BY <1>1, SequenceFacts
<1>5. \A i \in 1 .. Len(s) + 2 : i \in 1 .. Len(s) \/ i = Len(s) + 1 \/ i = Len(s) + 2
  BY <1>4
<1>6. IsSequence(t) /\ Len(t) = Len(u) /\ \A i \in 1 .. Len(t) : t[i] = u[i]
  BY <1>3, <1>5 DEF PairAfter
<1>7. t = u
  BY <1>3, <1>6, SameSequence
<1> QED
  BY <1>7 DEF u

\* Three elements.
IsThree(w, a, b, c) == IsSequence(w) /\ Len(w) = 3 /\ w[1] = a /\ w[2] = b /\ w[3] = c

LEMMA ThreeOnes == ASSUME NEW a, NEW b, NEW c, NEW w, IsThree(w, a, b, c) PROVE w = (<<a>> \o <<b>>) \o <<c>>
<1> DEFINE v == <<a>> \o <<b>>
           u == v \o <<c>>
<1>1. IsTwo(v, a, b)
  <2> DEFINE x == <<a, b>>
  <2>1. v = x /\ IsTwo(x, a, b)
    BY TwoOnes, IsTwoOf
  <2> HIDE DEF v, x
  <2> QED
    BY <2>1
<1> HIDE DEF v
<1>2. IsSequence(v)
  BY <1>1 DEF IsTwo
<1>3. IsSequence(u) /\ Len(u) = Len(v) + 1 /\ u[Len(v) + 1] = c /\ \A i \in 1 .. Len(v) : u[i] = v[i]
  BY <1>2, OneMore, Zenon
<1> HIDE DEF u
<1>4. Len(u) = 3 /\ u[1] = a /\ u[2] = b /\ u[3] = c
  BY <1>1, <1>3 DEF IsTwo
<1>5. \A i \in 1 .. 3 : i = 1 \/ i = 2 \/ i = 3
  OBVIOUS
<1>6. Len(u) = Len(w) /\ \A i \in 1 .. Len(u) : u[i] = w[i]
  BY <1>4, <1>5 DEF IsThree
<1>7. u = w
  BY <1>3, <1>6, SameSequence DEF IsThree
<1> QED
  BY <1>7 DEF u, v
---------------------------------------------------------------------------
(* Beginnings of a sequence, and sequences of sequences of one element.    *)

LEMMA PrefixMore ==
  ASSUME NEW S, NEW s \in Seq(S), NEW k \in Nat, k + 1 \in 1 .. Len(s)
  PROVE  SubSeq(s, 1, k) \o <<s[k + 1]>> = SubSeq(s, 1, k + 1)
<1> DEFINE u == SubSeq(s, 1, k)
           v == u \o <<s[k + 1]>>
           x == SubSeq(s, 1, k + 1)
<1>1. u \in Seq(S) /\ Len(u) = k /\ \A i \in 1 .. k : u[i] = s[i]
  OBVIOUS
<1>2. x \in Seq(S) /\ Len(x) = k + 1 /\ \A i \in 1 .. k + 1 : x[i] = s[i]
  OBVIOUS
<1>3. s[k + 1] \in S
  OBVIOUS
<1> HIDE DEF u, x
<1>4. v \in Seq(S) /\ Len(v) = k + 1 /\ (\A i \in 1 .. k : v[i] = u[i]) /\ v[k + 1] = s[k + 1]
  BY <1>1, <1>3
<1> HIDE DEF v
<1>5. \A i \in 1 .. k + 1 : v[i] = x[i]
  BY <1>1, <1>2, <1>4
<1>6. v = x
  BY <1>2, <1>4, <1>5, SeqEqual
<1> QED
  BY <1>6 DEF u, v, x

LEMMA FlattenIn == ASSUME NEW S, NEW seqs \in Seq(Seq(S)) PROVE FlattenSeq(seqs) \in Seq(S)
<1>1. CASE Len(seqs) = 0
  <2>1. seqs = <<>>
    BY <1>1
  <2>2. <<>> \in Seq(S)
    OBVIOUS
  <2> QED
    BY <2>1, <2>2, FlattenEmpty
<1>2. CASE Len(seqs) # 0
  <2>1. Len(seqs) \in 1 .. Len(seqs)
    BY <1>2
  <2> QED
    <3>1. PICK f \in [1 .. Len(seqs) -> Seq(S)] : Gathered(seqs, f) /\ FlattenSeq(seqs) = f[Len(seqs)]
      BY <1>2, FlattenIs
    <3> QED
      BY <2>1, <3>1
<1> QED
  BY <1>1, <1>2

LEMMA FlattenSingles == ASSUME NEW S, NEW s \in Seq(S) PROVE FlattenSeq([i \in 1 .. Len(s) |-> <<s[i]>>]) = s
<1> DEFINE g == [i \in 1 .. Len(s) |-> <<s[i]>>]
           G(k) == FlattenSeq([i \in 1 .. k |-> g[i]])
           Good(k) == G(k) = SubSeq(s, 1, k)
           K == {k \in Nat : k =< Len(s) => Good(k)}
<1>0. Len(s) \in Nat /\ \A i \in 1 .. Len(s) : g[i] = <<s[i]>> /\ s[i] \in S /\ g[i] \in Seq(S)
  OBVIOUS
<1>1. 0 \in K
  <2>1. G(0) = <<>>
    BY FlattenNothing
  <2>2. SubSeq(s, 1, 0) = <<>>
    OBVIOUS
  <2> QED
    BY <2>1, <2>2
<1>2. ASSUME NEW k \in K PROVE k + 1 \in K
  <2> SUFFICES ASSUME k + 1 =< Len(s) PROVE Good(k + 1)
    <3> HIDE DEF Good
    <3> QED
      OBVIOUS
  <2>0. k \in Nat /\ k + 1 \in 1 .. Len(s) /\ Good(k)
    <3> HIDE DEF Good
    <3> QED
      BY <1>0
  <2>1. k \in Nat /\ k + 1 \in 1 .. Len(s) /\ G(k) = SubSeq(s, 1, k)
    BY <2>0
  <2>2. \A j \in 1 .. k + 1 : g[j] \in Seq(S)
    BY <1>0, <2>1
  <2>3. g[k + 1] = <<s[k + 1]>>
    BY <1>0, <2>1
  <2> HIDE DEF g
  <2>4. G(k + 1) = G(k) \o g[k + 1]
    BY <2>1, <2>2, FlattenMore
  <2> HIDE DEF G, K
  <2>5. SubSeq(s, 1, k) \o <<s[k + 1]>> = SubSeq(s, 1, k + 1)
    BY <2>0, PrefixMore
  <2> QED
    BY <2>1, <2>3, <2>4, <2>5
<1>3. K = Nat
  <2>1. K \in SUBSET Nat
    OBVIOUS
  <2> HIDE DEF K
  <2> QED
    BY <1>1, <1>2, <2>1, NatSetInduction
<1>4. Good(Len(s))
  <2> HIDE DEF Good
  <2> QED
    BY <1>0, <1>3
<1>5. SubSeq(s, 1, Len(s)) = s
  OBVIOUS
<1>6. G(Len(s)) = FlattenSeq(g)
  OBVIOUS
<1> QED
  BY <1>4, <1>5, <1>6
=============================================================================
