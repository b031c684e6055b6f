-------------------------- MODULE NetworkProofs ---------------------------
(***************************************************************************)
(* Theorems about the network: Wire, for every message and every text;     *)
(* Link, for any texts, any number of phones, addresses, datagrams and     *)
(* keys; Discovery, for whatever networks the system lists and refuses.    *)
(***************************************************************************)
EXTENDS Link, Discovery, SequenceLemmas

---------------------------------------------------------------------------
(***************************************************************************)
(* Wire: what is encoded is what is decoded.                               *)
(***************************************************************************)

(* UTF-8.                                                                  *)

LEMMA Utf8Typed == \A c \in Int : utf8(c) \in Seq(Int)
BY DEF utf8, more

LEMMA BytesEmpty == as_bytes(<<>>) = <<>>
<1>1. [i \in DOMAIN <<>> |-> utf8(<<>>[i])] = <<>>
  OBVIOUS
<1> QED
  BY <1>1, FlattenEmpty DEF as_bytes

LEMMA BytesAppend ==
  ASSUME NEW text \in Seq(Int), NEW c \in Int
  PROVE  as_bytes(text) \in Seq(Int) /\ as_bytes(Append(text, c)) = as_bytes(text) \o utf8(c)
<1> DEFINE each(t) == [i \in DOMAIN t |-> utf8(t[i])]
<1>1. each(text) \in Seq(Seq(Int))
  <2>1. DOMAIN text = 1 .. Len(text) /\ Len(text) \in Nat /\ \A i \in DOMAIN text : utf8(text[i]) \in Seq(Int)
    BY Utf8Typed
  <2>2. [i \in 1 .. Len(text) |-> utf8(text[i])] \in Seq(Seq(Int))
    BY <2>1
  <2> QED
    BY <2>1, <2>2
<1>2. each(Append(text, c)) = Append(each(text), utf8(c))
  OBVIOUS
<1>3. utf8(c) \in Seq(Int)
  BY Utf8Typed
<1> QED
  BY <1>1, <1>2, <1>3, FlattenAppend DEF as_bytes

LEMMA TakeTyped ==
  ASSUME NEW state \in [text : Seq(Int), rest : Seq(Int)], NEW x \in Int
  PROVE  Take(state, x) \in [text : Seq(Int), rest : Seq(Int)]
<1> DEFINE r == Append(state.rest, x)
<1>1. r \in Seq(Int) /\ state.text \in Seq(Int)
  OBVIOUS
<1>2. IsChar(r) => CodePoint(r) \in Int
  <2>1. \A c : Scalar(c) => c \in Int
    BY DEF Scalar
  <2>2. IsChar(r) => Scalar(CodePoint(r))
    BY DEF IsChar
  <2> HIDE DEF r
  <2> QED
    BY <2>1, <2>2
<1>3. Take(state, x) = IF IsChar(r) THEN [text |-> Append(state.text, CodePoint(r)), rest |-> <<>>]
                       ELSE [text |-> state.text, rest |-> r]
  BY DEF Take
<1> HIDE DEF r
<1>4. CASE IsChar(r)
  <2>1. Append(state.text, CodePoint(r)) \in Seq(Int) /\ <<>> \in Seq(Int)
    BY <1>1, <1>2, <1>4
  <2> QED
    BY <1>3, <1>4, <2>1
<1>5. CASE ~IsChar(r)
  BY <1>1, <1>3, <1>5
<1> QED
  BY <1>4, <1>5

Reads(b, f) ==
  f = [i \in 0 .. Len(b) |-> IF i = 0 THEN [text |-> <<>>, rest |-> <<>>] ELSE Take(f[i - 1], b[i])]

LEMMA TakenIs ==
  ASSUME NEW b \in Seq(Int)
  PROVE  \E f \in [0 .. Len(b) -> [text : Seq(Int), rest : Seq(Int)]] : Reads(b, f) /\ taken(b) = f[Len(b)]
<1> DEFINE n == Len(b)
           State == [text : Seq(Int), rest : Seq(Int)]
           start == [text |-> <<>>, rest |-> <<>>]
           J == CHOOSE f : Reads(b, f)
<1>1. n \in Nat /\ (\A i \in 1 .. n : b[i] \in Int) /\ start \in State /\ 0 \in 0 .. n
  OBVIOUS
<1>2. taken(b) = J[n]
  BY DEF taken, Reads
<1>3. \A f : Reads(b, f) <=> f = [i \in 0 .. n |-> IF i = 0 THEN start ELSE Take(f[i - 1], b[i])]
  BY DEF Reads
<1>4. \A s \in State : \A x \in Int : Take(s, x) \in State
  BY TakeTyped
<1> HIDE DEF n, State, start
<1>5. \E f \in [0 .. n -> State] : Reads(b, f)
  <2> DEFINE step == [p \in Nat \X State |-> IF p[1] \in 1 .. n THEN Take(p[2], b[p[1]]) ELSE start]
  <2>1. step \in [Nat \X State -> State]
    BY <1>1, <1>4
  <2> HIDE DEF step
  <2>2. PICK f \in [0 .. n -> State] : Recursive(f, 0, n, start, step)
    BY <1>1, <2>1, RecursionExists
  <2>3. \A i \in 0 .. n : i # 0 => f[i] = Take(f[i - 1], b[i])
    <3> SUFFICES ASSUME NEW i \in 0 .. n, i # 0 PROVE f[i] = Take(f[i - 1], b[i])
      OBVIOUS
    <3>1. i \in Nat /\ i \in 1 .. n /\ i - 1 \in 0 .. n
      BY <1>1
    <3>2. f[i - 1] \in State
      BY <3>1
    <3>3. step[<<i, f[i - 1]>>] = Take(f[i - 1], b[i])
      BY <3>1, <3>2 DEF step
    <3> QED
      BY <2>2, <3>3 DEF Recursive
  <2>4. f = [i \in 0 .. n |-> IF i = 0 THEN start ELSE Take(f[i - 1], b[i])]
    BY <2>2, <2>3 DEF Recursive
  <2> QED
    BY <1>3, <2>4
<1>6. Reads(b, J)
  BY <1>5
<1>7. J \in [0 .. n -> State]
  <2> HIDE DEF J
  <2>1. DOMAIN J = 0 .. n /\ J[0] = start /\ \A i \in 0 .. n : i # 0 => J[i] = Take(J[i - 1], b[i])
    BY <1>1, <1>3, <1>6
  <2> DEFINE K == {i \in Nat : i =< n => J[i] \in State}
  <2>2. 0 \in K
    BY <1>1, <2>1
  <2>3. ASSUME NEW i \in K PROVE i + 1 \in K
    <3> SUFFICES ASSUME i + 1 =< n PROVE J[i + 1] \in State
      OBVIOUS
    <3>1. i \in Nat /\ i + 1 \in 0 .. n /\ i + 1 \in 1 .. n /\ i + 1 # 0 /\ (i + 1) - 1 = i
      BY <1>1
    <3>2. J[i] \in State
      BY <1>1, <3>1
    <3>3. J[i + 1] = Take(J[i], b[i + 1])
      BY <2>1, <3>1
    <3> QED
      BY <1>1, <1>4, <3>1, <3>2, <3>3
  <2>4. K = Nat
    <3>1. K \in SUBSET Nat
      OBVIOUS
    <3> HIDE DEF K
    <3> QED
      BY <2>2, <2>3, <3>1, NatSetInduction
  <2>5. \A i \in 0 .. n : J[i] \in State
    BY <1>1, <2>4
  <2>6. J = [i \in 0 .. n |-> J[i]]
    BY <1>1, <1>3, <1>6
  <2> QED
    BY <2>5, <2>6
<1> QED
  BY <1>2, <1>6, <1>7 DEF n, State

LEMMA TakenEmpty == taken(<<>>) = [text |-> <<>>, rest |-> <<>>]
<1>1. <<>> \in Seq(Int) /\ Len(<<>>) = 0
  OBVIOUS
<1>2. PICK f : Reads(<<>>, f) /\ taken(<<>>) = f[0]
  BY <1>1, TakenIs
<1>3. 0 \in 0 .. 0
  OBVIOUS
<1> QED
  BY <1>1, <1>2, <1>3 DEF Reads

\* One byte more.
LEMMA TakenAppend ==
  ASSUME NEW b \in Seq(Int), NEW x \in Int
  PROVE  taken(b) \in [text : Seq(Int), rest : Seq(Int)] /\ taken(Append(b, x)) = Take(taken(b), x)
<1> DEFINE n == Len(b)
           all == Append(b, x)
<1>1. n \in Nat /\ all \in Seq(Int) /\ Len(all) = n + 1 /\ all[n + 1] = x /\ \A i \in 1 .. n : all[i] = b[i]
  OBVIOUS
<1>2. PICK f \in [0 .. n -> [text : Seq(Int), rest : Seq(Int)]] : Reads(b, f) /\ taken(b) = f[n]
  BY TakenIs
<1>3. PICK g : Reads(all, g) /\ taken(all) = g[n + 1]
  BY <1>1, TakenIs
<1>4. f = [i \in 0 .. n |-> IF i = 0 THEN [text |-> <<>>, rest |-> <<>>] ELSE Take(f[i - 1], b[i])]
  BY <1>2 DEF Reads
<1>5. g = [i \in 0 .. n + 1 |-> IF i = 0 THEN [text |-> <<>>, rest |-> <<>>] ELSE Take(g[i - 1], all[i])]
  BY <1>1, <1>3 DEF Reads
<1> HIDE DEF n, all
<1> DEFINE K == {i \in Nat : i =< n => g[i] = f[i]}
<1>6. 0 \in K
  BY <1>1, <1>4, <1>5
<1>7. ASSUME NEW i \in K PROVE i + 1 \in K
  <2> SUFFICES ASSUME i + 1 =< n PROVE g[i + 1] = f[i + 1]
    OBVIOUS
  <2>1. i \in Nat /\ g[i] = f[i] /\ i + 1 # 0 /\ (i + 1) - 1 = i
    BY <1>1
  <2>2. i + 1 \in 0 .. n /\ i + 1 \in 1 .. n /\ i + 1 \in 0 .. n + 1
    BY <1>1, <2>1
  <2>3. g[i + 1] = Take(g[i], all[i + 1]) /\ f[i + 1] = Take(f[i], b[i + 1])
    BY <1>4, <1>5, <2>1, <2>2
  <2> QED
    BY <1>1, <2>1, <2>2, <2>3
<1>8. K = Nat
  <2>1. K \in SUBSET Nat
    OBVIOUS
  <2> HIDE DEF K
  <2> QED
    BY <1>6, <1>7, <2>1, NatSetInduction
<1>9. g[n] = f[n]
  <2>1. n =< n
    BY <1>1
  <2>2. n \in K
    <3> HIDE DEF K
    <3> QED
      BY <1>1, <1>8
  <2> QED
    BY <2>1, <2>2
<1>10. g[n + 1] = Take(g[n], x)
  <2>1. n + 1 \in 0 .. n + 1 /\ n + 1 # 0 /\ (n + 1) - 1 = n
    BY <1>1
  <2> QED
    BY <1>1, <1>5, <2>1
<1> QED
  BY <1>1, <1>2, <1>3, <1>9, <1>10 DEF n, all

LEMMA ScalarFacts == \A c : Scalar(c) => c \in Nat /\ c < 1114112
BY SMT DEF Scalar

\* The first byte of a character says how many there are.
Leads(x, n) ==
  \/ n = 1 /\ x < 128
  \/ n = 2 /\ x >= 192 /\ x < 224
  \/ n = 3 /\ x >= 224 /\ x < 240
  \/ n = 4 /\ x >= 240
Lead(r) == Leads(r[1], Len(r))

LEMMA Utf8Char == ASSUME NEW c \in Nat, c < 1114112 PROVE Lead(utf8(c)) /\ CodePoint(utf8(c)) = c
<1>1. CASE c < 128
  <2>1. utf8(c) = <<c>>
    BY <1>1, SMT DEF utf8
  <2> QED
    BY <1>1, <2>1, SMT DEF Lead, Leads, CodePoint
<1>2. CASE c >= 128 /\ c < 2048
  <2> DEFINE i == c \div 64
             j == c % 64
  <2>1. i \in Nat /\ i < 32 /\ j \in Nat /\ j < 64 /\ c = i * 64 + j
    BY <1>2, SMT
  <2>2. utf8(c) = <<192 + i, 128 + j>>
    BY <1>2, SMT DEF utf8, more
  <2> HIDE DEF i, j
  <2>3. Lead(utf8(c))
    BY <2>1, <2>2, SMT DEF Lead, Leads
  <2>4. CodePoint(utf8(c)) = c
    BY <2>1, <2>2, SMT DEF CodePoint
  <2> QED
    BY <2>3, <2>4
<1>3. CASE c >= 2048 /\ c < 65536
  <2> DEFINE i == c \div 4096
             j == (c \div 64) % 64
             k == c % 64
  <2>1. i \in Nat /\ i < 16 /\ j \in Nat /\ j < 64 /\ k \in Nat /\ k < 64 /\ c = i * 4096 + j * 64 + k
    BY <1>3, SMT
  <2>2. utf8(c) = <<224 + i, 128 + j, 128 + k>>
    BY <1>3, SMT DEF utf8, more
  <2> HIDE DEF i, j, k
  <2>3. Lead(utf8(c))
    BY <2>1, <2>2, SMT DEF Lead, Leads
  <2>4. CodePoint(utf8(c)) = c
    BY <2>1, <2>2, SMT DEF CodePoint
  <2> QED
    BY <2>3, <2>4
<1>4. CASE c >= 65536
  <2> DEFINE i == c \div 262144
             j == (c \div 4096) % 64
             k == (c \div 64) % 64
             l == c % 64
  <2>1. /\ i \in Nat /\ i < 64 /\ j \in Nat /\ j < 64 /\ k \in Nat /\ k < 64 /\ l \in Nat /\ l < 64
        /\ c = i * 262144 + j * 4096 + k * 64 + l
    BY <1>4, SMT
  <2>2. utf8(c) = <<240 + i, 128 + j, 128 + k, 128 + l>>
    BY <1>4, SMT DEF utf8, more
  <2> HIDE DEF i, j, k, l
  <2>3. Lead(utf8(c))
    BY <2>1, <2>2, SMT DEF Lead, Leads
  <2>4. CodePoint(utf8(c)) = c
    BY <2>1, <2>2, SMT DEF CodePoint
  <2> QED
    BY <2>3, <2>4
<1> QED
  BY <1>1, <1>2, <1>3, <1>4, SMT

LEMMA IsCharLead == ASSUME NEW r, IsChar(r) PROVE Lead(r)
BY ScalarFacts, Utf8Char DEF IsChar

LEMMA CharIs == ASSUME NEW c, Scalar(c) PROVE IsChar(utf8(c)) /\ CodePoint(utf8(c)) = c
BY ScalarFacts, Utf8Char DEF IsChar

LEMMA Unfinished ==
  ASSUME NEW r \in Seq(Int), IsChar(r), NEW k \in Nat, k < Len(r), k # 0 PROVE ~IsChar(SubSeq(r, 1, k))
<1> DEFINE q == SubSeq(r, 1, k)
<1>1. Len(q) = k /\ q[1] = r[1] /\ r[1] \in Int
  OBVIOUS
<1> HIDE DEF q
<1>2. Lead(r) /\ (IsChar(q) => Lead(q))
  BY IsCharLead
<1>3. \A x \in Int : \A m, n \in Nat : Leads(x, m) /\ Leads(x, n) => m = n
  BY SMT DEF Leads
<1>4. Len(r) \in Nat /\ Len(r) # k
  OBVIOUS
<1> QED
  BY <1>1, <1>2, <1>3, <1>4 DEF q, Lead

\* One byte more, in the midst of a character or at its end.
LEMMA TakenByte ==
  ASSUME NEW q \in Seq(Int), NEW x \in Int, NEW t, NEW p, taken(q) = [text |-> t, rest |-> p]
  PROVE  /\ ~IsChar(Append(p, x)) => taken(Append(q, x)) = [text |-> t, rest |-> Append(p, x)]
         /\ IsChar(Append(p, x)) => taken(Append(q, x)) = [text |-> Append(t, CodePoint(Append(p, x))), rest |-> <<>>]
<1>1. taken(Append(q, x)) = Take(taken(q), x)
  BY TakenAppend
<1>2. taken(q).text = t /\ taken(q).rest = p
  OBVIOUS
<1> DEFINE r == Append(p, x)
           s == taken(q)
<1>3. Take(s, x) = IF IsChar(r) THEN [text |-> Append(t, CodePoint(r)), rest |-> <<>>] ELSE [text |-> t, rest |-> r]
  BY <1>2 DEF Take
<1> HIDE DEF r, s
<1>4. /\ ~IsChar(r) => Take(s, x) = [text |-> t, rest |-> r]
      /\ IsChar(r) => Take(s, x) = [text |-> Append(t, CodePoint(r)), rest |-> <<>>]
  BY <1>3
<1> QED
  BY <1>1, <1>4 DEF r, s

LEMMA NextByte ==
  ASSUME NEW b \in Seq(Int), NEW r \in Seq(Int), NEW k \in Nat, k < Len(r)
  PROVE  /\ r[k + 1] \in Int /\ SubSeq(r, 1, k) \in Seq(Int) /\ b \o SubSeq(r, 1, k) \in Seq(Int)
         /\ Append(SubSeq(r, 1, k), r[k + 1]) = SubSeq(r, 1, k + 1)
         /\ Append(b \o SubSeq(r, 1, k), r[k + 1]) = b \o SubSeq(r, 1, k + 1)
<1> DEFINE x == r[k + 1]
           p == SubSeq(r, 1, k)
           q == SubSeq(r, 1, k + 1)
<1>1. k + 1 \in 1 .. Len(r) /\ 1 \in 1 .. Len(r) /\ (k + 1) - 1 = k
  OBVIOUS
<1>2. x \in Int /\ p \in Seq(Int) /\ <<x>> \in Seq(Int)
  BY <1>1
<1>3. q = p \o <<x>>
  BY <1>1, SubSeqRecursiveSecond
<1> HIDE DEF x, p, q
<1>4. b \o p \in Seq(Int)
  BY <1>2, ConcatProperties
<1>5. Append(p, x) = q
  BY <1>2, <1>3, AppendIsConcat
<1>6. Append(b \o p, x) = (b \o p) \o <<x>>
  BY <1>2, <1>4, AppendIsConcat
<1>7. (b \o p) \o <<x>> = b \o q
  BY <1>2, <1>3, ConcatAssociative, SMTT(30)
<1> QED
  BY <1>2, <1>4, <1>5, <1>6, <1>7 DEF x, p, q

\* The bytes of a character, after those of a text, are read as that character.
LEMMA TakenChar ==
  ASSUME NEW b \in Seq(Int), taken(b).rest = <<>>, NEW c, Scalar(c)
  PROVE  taken(b \o utf8(c)) = [text |-> Append(taken(b).text, c), rest |-> <<>>]
<1> DEFINE r == utf8(c)
           t == taken(b).text
           Begun(k) == taken(b \o SubSeq(r, 1, k)) = [text |-> t, rest |-> SubSeq(r, 1, k)]
           K == {k \in Nat : k < Len(r) => Begun(k)}
<1>1. IsChar(r) /\ CodePoint(r) = c /\ Lead(r)
  BY CharIs, IsCharLead
<1>2. r \in Seq(Int)
  BY Utf8Typed, ScalarFacts
<1>3. taken(b) = [text |-> t, rest |-> <<>>]
  BY TakenAppend
<1> HIDE DEF r, t
<1>4. 0 \in K
  <2>1. SubSeq(r, 1, 0) = <<>> /\ b \o <<>> = b
    BY <1>2, SubSeqEmpty, ConcatEmptySeq
  <2> QED
    BY <1>3, <2>1
<1>5. ASSUME NEW k \in K PROVE k + 1 \in K
  <2> SUFFICES ASSUME k + 1 < Len(r) PROVE Begun(k + 1)
    OBVIOUS
  <2>1. k \in Nat /\ k < Len(r) /\ Begun(k) /\ k + 1 \in Nat /\ k + 1 # 0
    BY <1>2
  <2>2. ~IsChar(SubSeq(r, 1, k + 1))
    BY <1>1, <1>2, <2>1, Unfinished
  <2> DEFINE q == b \o SubSeq(r, 1, k)
             p == SubSeq(r, 1, k)
             x == r[k + 1]
  <2>3. x \in Int /\ q \in Seq(Int) /\ Append(p, x) = SubSeq(r, 1, k + 1) /\ Append(q, x) = b \o SubSeq(r, 1, k + 1)
    BY <1>2, <2>1, NextByte
  <2>4. taken(q) = [text |-> t, rest |-> p]
    BY <2>1
  <2> HIDE DEF q, p, x
  <2>5. taken(Append(q, x)) = [text |-> t, rest |-> Append(p, x)]
    BY <2>2, <2>3, <2>4, TakenByte, ZenonT(30)
  <2> QED
    BY <2>3, <2>5
<1>6. K = Nat
  <2>1. K \in SUBSET Nat
    OBVIOUS
  <2> HIDE DEF K
  <2> QED
    BY <1>4, <1>5, <2>1, NatSetInduction
<1>7. Len(r) \in Nat /\ Len(r) # 0
  BY <1>1, <1>2 DEF Lead, Leads
<1> DEFINE k == Len(r) - 1
<1>8. k \in Nat /\ k < Len(r) /\ k + 1 = Len(r)
  BY <1>7
<1>9. Begun(k)
  <2>1. k \in K
    <3> HIDE DEF K
    <3> QED
      BY <1>6, <1>8
  <2> QED
    BY <1>8, <2>1
<1> HIDE DEF k
<1> DEFINE q == b \o SubSeq(r, 1, k)
           p == SubSeq(r, 1, k)
           x == r[k + 1]
<1>10. x \in Int /\ q \in Seq(Int) /\ Append(p, x) = SubSeq(r, 1, k + 1) /\ Append(q, x) = b \o SubSeq(r, 1, k + 1)
  BY <1>2, <1>8, NextByte
<1>11. SubSeq(r, 1, k + 1) = r
  BY <1>2, <1>8, SubSeqFull
<1>12. taken(q) = [text |-> t, rest |-> p]
  BY <1>9
<1> HIDE DEF q, p, x
<1>13. taken(Append(q, x)) = [text |-> Append(t, CodePoint(Append(p, x))), rest |-> <<>>]
  <2>1. IsChar(Append(p, x))
    BY <1>1, <1>10, <1>11
  <2> QED
    <3>1. x \in Int /\ q \in Seq(Int)
      BY <1>10
    <3>2. \A u, v : taken(q) = [text |-> u, rest |-> v] /\ IsChar(Append(v, x)) =>
                   taken(Append(q, x)) = [text |-> Append(u, CodePoint(Append(v, x))), rest |-> <<>>]
      BY <3>1, TakenByte
    <3> QED
      BY <1>12, <2>1, <3>2, Zenon
<1> QED
  BY <1>1, <1>10, <1>11, <1>13 DEF r, t

LEMMA TextRead == ASSUME NEW t, IsText(t) PROVE as_bytes(t) \in Seq(Int) /\ taken(as_bytes(t)) = [text |-> t, rest |-> <<>>]
<1> DEFINE S == {c \in Int : Scalar(c)}
           Good(u) == u \in Seq(Int) /\ as_bytes(u) \in Seq(Int) /\ taken(as_bytes(u)) = [text |-> u, rest |-> <<>>]
           T == {u \in Seq(S) : Good(u)}
<1>1. <<>> \in T
  <2>1. <<>> \in Seq(S) /\ <<>> \in Seq(Int)
    BY EmptySeq
  <2>2. Good(<<>>)
    BY <2>1, BytesEmpty, TakenEmpty
  <2> QED
    BY <2>1, <2>2
<1>2. ASSUME NEW u \in T, NEW c \in S PROVE Append(u, c) \in T
  <2>1. c \in Int /\ Scalar(c) /\ u \in Seq(Int) /\ as_bytes(u) \in Seq(Int) /\ Append(u, c) \in Seq(S)
    OBVIOUS
  <2>2. taken(as_bytes(u)).rest = <<>> /\ taken(as_bytes(u)).text = u
    OBVIOUS
  <2>3. as_bytes(Append(u, c)) = as_bytes(u) \o utf8(c)
    BY <2>1, BytesAppend
  <2>4. taken(as_bytes(u) \o utf8(c)) = [text |-> Append(u, c), rest |-> <<>>]
    BY <2>1, <2>2, TakenChar
  <2>5. Append(u, c) \in Seq(Int)
    BY <2>1
  <2>6. as_bytes(Append(u, c)) \in Seq(Int)
    BY <2>5, <2>1, BytesAppend
  <2> QED
    BY <2>1, <2>3, <2>4, <2>5, <2>6
<1>3. T \in SUBSET Seq(S)
  OBVIOUS
<1>4. t \in Seq(S)
  BY DEF IsText
<1> HIDE DEF T
<1>5. T = Seq(S)
  BY <1>1, <1>2, <1>3, SeqSetInduction
<1>6. t \in T
  BY <1>4, <1>5
<1> QED
  BY <1>6 DEF T


---------------------------------------------------------------------------
(* Numbers and fields.                                                     *)

LEMMA TwoBytes ==
  ASSUME NEW v \in Int
  PROVE  /\ Little(v, 2) \in Seq(Int) /\ Len(Little(v, 2)) = 2
         /\ Little(v, 2)[1] = v % 256 /\ Little(v, 2)[2] = (v \div 256) % 256
<1>1. Little(v, 2)[1] = v % 256 /\ Little(v, 2)[2] = (v \div 256) % 256
  BY SMT DEF Little
<1>2. v % 256 \in Int /\ (v \div 256) % 256 \in Int
  BY SMT
<1>3. Little(v, 2) \in [1 .. 2 -> Int]
  <2>1. \A i \in 1 .. 2 : i = 1 \/ i = 2
    BY SMT
  <2>2. \A i \in 1 .. 2 : Little(v, 2)[i] \in Int
    BY <1>1, <1>2, <2>1
  <2>3. DOMAIN Little(v, 2) = 1 .. 2 /\ Little(v, 2) = [i \in 1 .. 2 |-> Little(v, 2)[i]]
    BY DEF Little
  <2> QED
    BY <2>2, <2>3
<1>4. Little(v, 2) \in Seq(Int) /\ Len(Little(v, 2)) = 2
  <2> DEFINE f == Little(v, 2)
             n == 2
  <2>1. f \in [1 .. n -> Int] /\ n \in Nat
    BY <1>3
  <2> HIDE DEF f, n
  <2>2. f \in Seq(Int) /\ Len(f) = n
    BY <2>1, FunctionSeq
  <2> QED
    BY <2>2 DEF f, n
<1> QED
  BY <1>1, <1>4

LEMMA MinOfThree ==
  ASSUME NEW n \in Nat PROVE (n < 3 => Min({3, n}) = n) /\ (n >= 3 => Min({3, n}) = 3)
BY SMT DEF Min

IsU16(v) == v \in Nat /\ v < 65536
IsI16(v) == v \in Int /\ v >= -32768 /\ v < 32768

LEMMA NumberOfTwo ==
  ASSUME NEW b \in Seq(Int), Len(b) = 2, NEW v \in Int, b[1] = v % 256, b[2] = (v \div 256) % 256
  PROVE  /\ IsU16(v) => Number(b, FALSE) = v
         /\ IsI16(v) => Number(b, TRUE) = v
<1>1. Min({3, Len(b)}) = 2
  BY MinOfThree, SMT
<1> DEFINE x == b[1]
           y == b[2]
           minus == IF y >= 128 THEN x + 256 * y - 65536 ELSE x + 256 * y
<1>2. Number(b, FALSE) = x + 256 * y
  BY <1>1, SMT DEF Number
<1>3. Number(b, TRUE) = minus
  BY <1>1, SMT DEF Number
<1>4. x \in Int /\ y \in Int /\ x = v % 256 /\ y = (v \div 256) % 256
  BY SMT
<1> DEFINE unsigned == Number(b, FALSE)
           signed == Number(b, TRUE)
<1> HIDE DEF x, y, unsigned, signed, minus
<1>5. IsU16(v) => x + 256 * y = v
  BY <1>4, SMT DEF IsU16
<1>6. IsI16(v) => v = minus
  BY <1>4, SMT DEF IsI16, minus
<1>7. unsigned = x + 256 * y
  BY <1>2, Zenon DEF unsigned
<1>8. signed = minus
  BY <1>3, Zenon DEF signed
<1>9. (IsU16(v) => unsigned = v) /\ (IsI16(v) => signed = v)
  BY <1>5, <1>6, <1>7, <1>8, SMT
<1> QED
  BY <1>9, Zenon DEF unsigned, signed

LEMMA Concats == \A a, b \in Seq(Int) : a \o b \in Seq(Int) /\ Len(a \o b) = Len(a) + Len(b)
<1> SUFFICES ASSUME NEW a \in Seq(Int), NEW b \in Seq(Int) PROVE a \o b \in Seq(Int) /\ Len(a \o b) = Len(a) + Len(b)
  OBVIOUS
<1> QED
  BY ConcatProperties

LEMMA Associative == \A a, b, c \in Seq(Int) : (a \o b) \o c = a \o (b \o c)
<1> SUFFICES ASSUME NEW a \in Seq(Int), NEW b \in Seq(Int), NEW c \in Seq(Int) PROVE (a \o b) \o c = a \o (b \o c)
  OBVIOUS
<1> QED
  BY ConcatAssociative

LEMMA FirstOfConcat ==
  ASSUME NEW a \in Seq(Int), NEW b \in Seq(Int)
  PROVE  /\ SubSeq(a \o b, 1, Len(a)) = a
         /\ SubSeq(a \o b, Len(a) + 1, Len(a \o b)) = b
         /\ a # <<>> => (a \o b)[1] = a[1]
<1>1. a \o b \in Seq(Int) /\ Len(a \o b) = Len(a) + Len(b) /\ Len(a) \in Nat /\ Len(b) \in Nat
  BY ConcatProperties
<1>2. SubSeq(a \o b, 1, Len(a)) = a
  <2>1. CASE a = <<>>
    BY <2>1, SubSeqEmpty
  <2>2. CASE a # <<>>
    <3>1. 1 \in 1 .. Len(a) /\ Len(a) \in 1 .. Len(a)
      BY <2>2
    <3> QED
      BY <3>1, SubSeqOfConcat1, SubSeqFull
  <2> QED
    BY <2>1, <2>2
<1>3. SubSeq(a \o b, Len(a) + 1, Len(a \o b)) = b
  <2>1. CASE b = <<>>
    <3>1. Len(b) = 0
      BY <2>1
    <3>2. Len(a) + 1 \in Int /\ Len(a \o b) \in Int /\ Len(a \o b) < Len(a) + 1
      BY <1>1, <3>1
    <3> QED
      BY <2>1, <3>2, SubSeqEmpty
  <2>2. CASE b # <<>>
    <3>1. Len(b) # 0
      BY <2>2
    <3>2. /\ Len(a) + 1 \in Len(a) + 1 .. Len(a) + Len(b) /\ Len(a) + Len(b) \in Len(a) + 1 .. Len(a) + Len(b)
          /\ (Len(a) + 1) - Len(a) = 1 /\ (Len(a) + Len(b)) - Len(a) = Len(b)
      BY <1>1, <3>1
    <3>3. SubSeq(a \o b, Len(a) + 1, Len(a) + Len(b)) = SubSeq(b, 1, Len(b))
      BY <3>2, SubSeqOfConcat2
    <3> QED
      BY <1>1, <3>3, SubSeqFull
  <2> QED
    BY <2>1, <2>2
<1>4. a # <<>> => (a \o b)[1] = a[1]
  BY <1>1, ConcatProperties
<1> QED
  BY <1>2, <1>3, <1>4


\* What a field of each kind can hold.
Fits(kind, v) ==
  \/ kind = "i16" /\ IsI16(v)
  \/ kind = "u16" /\ IsU16(v)
  \/ kind \in {"u8", "os"} /\ v \in Nat /\ v < 256 /\ (kind = "os" => v < 4)
  \/ kind = "bool" /\ v \in {0, 1}
  \/ kind \in DOMAIN Enumerated /\ v \in Nat /\ v < Enumerated[kind]
  \/ kind = "text" /\ IsText(v)
Short(kind, v) == kind = "text" => Len(as_bytes(v)) =< MAX_PAYLOAD

\* A field that is read where it was put is what was put there, whatever follows.
FieldKept(kind, v, rest) ==
  /\ Put(kind, v) \in Seq(Int)
  /\ Len(Put(kind, v)) >= Size(kind)
  /\ kind # "text" => Len(Put(kind, v)) = Size(kind)
  /\ Read(kind, Put(kind, v) \o rest) = v

LEMMA MiddleOfConcat ==
  ASSUME NEW a \in Seq(Int), NEW m \in Seq(Int), NEW r \in Seq(Int)
  PROVE  SubSeq(a \o (m \o r), Len(a) + 1, Len(a) + Len(m)) = m
<1> DEFINE t == m \o r
<1>1. t \in Seq(Int) /\ Len(t) = Len(m) + Len(r) /\ Len(m) \in Nat /\ Len(r) \in Nat /\ Len(a) \in Nat
  BY ConcatProperties
<1>2. SubSeq(t, 1, Len(m)) = m
  BY FirstOfConcat
<1> HIDE DEF t
<1>3. CASE m = <<>>
  <2>1. Len(m) = 0
    BY <1>3
  <2>2. Len(a) + 1 \in Int /\ Len(a) + Len(m) \in Int /\ Len(a) + Len(m) < Len(a) + 1
    BY <1>1, <2>1
  <2>3. SubSeq(a \o t, Len(a) + 1, Len(a) + Len(m)) = <<>>
    BY <2>2, SubSeqEmpty
  <2> QED
    BY <1>3, <2>3 DEF t
<1>4. CASE m # <<>>
  <2>1. Len(m) # 0
    BY <1>4
  <2>2. /\ Len(a) + 1 \in Len(a) + 1 .. Len(a) + Len(t) /\ Len(a) + Len(m) \in Len(a) + 1 .. Len(a) + Len(t)
        /\ (Len(a) + 1) - Len(a) = 1 /\ (Len(a) + Len(m)) - Len(a) = Len(m)
    BY <1>1, <2>1
  <2>3. SubSeq(a \o t, Len(a) + 1, Len(a) + Len(m)) = SubSeq(t, 1, Len(m))
    BY <1>1, <2>2, SubSeqOfConcat2, SMTT(30)
  <2> QED
    BY <1>2, <2>3 DEF t
<1> QED
  BY <1>3, <1>4

LEMMA ReadPut ==
  ASSUME NEW kind, NEW v, Fits(kind, v), Short(kind, v), NEW rest \in Seq(Int) PROVE FieldKept(kind, v, rest) /\ v # Absent
<1> DEFINE two == Little(v, 2)
           b == Put(kind, v) \o rest
<1>1. CASE kind = "i16" /\ IsI16(v)
  <2>1. v \in Int
    BY <1>1, SMT DEF IsI16
  <2>2. two \in Seq(Int) /\ Len(two) = 2 /\ two[1] = v % 256 /\ two[2] = (v \div 256) % 256
    BY <2>1, TwoBytes
  <2>3. Put(kind, v) = two
    BY <1>1, Zenon DEF Put
  <2>4. Size(kind) = 2
    BY <1>1, Zenon DEF Size
  <2> HIDE DEF two
  <2>5. SubSeq(two \o rest, 1, 2) = two
    BY <2>2, FirstOfConcat
  <2>6. Read(kind, two \o rest) = Number(SubSeq(two \o rest, 1, 2), TRUE)
    BY <1>1, Zenon DEF Read, Enumerated
  <2>8. Number(two, TRUE) = v
    BY <1>1, <2>1, <2>2, NumberOfTwo
  <2>9. Read(kind, two \o rest) = v
    BY <2>5, <2>6, <2>8, Zenon
  <2>10. v # Absent
    <3> HIDE DEF two
    <3> QED
      BY <2>1, WireAssumption, SMT
  <2>11. Len(two) >= 2
    BY <2>2
  <2> QED
    BY <2>2, <2>3, <2>4, <2>9, <2>10, <2>11 DEF FieldKept
<1>2. CASE kind = "u16" /\ IsU16(v)
  <2>1. v \in Int
    BY <1>2, SMT DEF IsU16
  <2>2. two \in Seq(Int) /\ Len(two) = 2 /\ two[1] = v % 256 /\ two[2] = (v \div 256) % 256
    BY <2>1, TwoBytes
  <2>3. Put(kind, v) = two
    BY <1>2, Zenon DEF Put
  <2>4. Size(kind) = 2
    BY <1>2, Zenon DEF Size
  <2> HIDE DEF two
  <2>5. SubSeq(two \o rest, 1, 2) = two
    BY <2>2, FirstOfConcat
  <2>6. Read(kind, two \o rest) = Number(SubSeq(two \o rest, 1, 2), FALSE)
    BY <1>2, Zenon DEF Read, Enumerated
  <2>8. Number(two, FALSE) = v
    BY <1>2, <2>1, <2>2, NumberOfTwo
  <2>9. Read(kind, two \o rest) = v
    BY <2>5, <2>6, <2>8, Zenon
  <2>10. v # Absent
    <3> HIDE DEF two
    <3> QED
      BY <2>1, WireAssumption, SMT
  <2>11. Len(two) >= 2
    BY <2>2
  <2> QED
    BY <2>2, <2>3, <2>4, <2>9, <2>10, <2>11 DEF FieldKept
<1>3. CASE kind \in {"u8", "os"} /\ v \in Nat /\ v < 256 /\ (kind = "os" => v < 4)
  <2>1. Put(kind, v) = <<v>> /\ Size(kind) = 1
    BY <1>3, Zenon DEF Put, Size
  <2>2. Read(kind, b) = IF kind = "os" THEN IF b[1] \in 1 .. 3 THEN b[1] ELSE 0 ELSE b[1]
    BY <1>3, Zenon DEF Read, Enumerated
  <2>3. <<v>> \in Seq(Int) /\ <<v>> # <<>>
    BY <1>3
  <2>4. b[1] = v
    BY <2>1, <2>3, FirstOfConcat
  <2> HIDE DEF b
  <2>5. Read(kind, b) = v
    BY <1>3, <2>2, <2>4
  <2> QED
    BY <1>3, <2>1, <2>3, <2>5, WireAssumption DEF FieldKept, b
<1>4. CASE kind = "bool" /\ v \in {0, 1}
  <2>1. Put(kind, v) = <<v>> /\ Size(kind) = 1
    BY <1>4, Zenon DEF Put, Size
  <2>2. Read(kind, b) = IF b[1] = 0 THEN 0 ELSE 1
    BY <1>4, Zenon DEF Read, Enumerated
  <2>3. <<v>> \in Seq(Int) /\ <<v>> # <<>> /\ Len(<<v>>) = 1
    BY <1>4
  <2>4. b[1] = v
    BY <2>1, <2>3, FirstOfConcat
  <2> HIDE DEF b
  <2>5. Read(kind, b) = v
    BY <1>4, <2>2, <2>4
  <2>6. v # Absent
    BY <1>4, WireAssumption
  <2>7. kind # "text"
    BY <1>4
  <2> QED
    BY <2>1, <2>3, <2>5, <2>6, <2>7 DEF FieldKept, b
<1>5. CASE kind \in DOMAIN Enumerated /\ v \in Nat /\ v < Enumerated[kind]
  <2>1. kind \in {"button", "media", "volume", "action"}
    BY <1>5 DEF Enumerated
  <2>2. Put(kind, v) = <<v>> /\ Size(kind) = 1
    BY <2>1, Zenon DEF Put, Size
  <2>3. Read(kind, b) = IF b[1] < Enumerated[kind] THEN b[1] ELSE Absent
    BY <1>5, <2>1, Zenon DEF Read
  <2>4. <<v>> \in Seq(Int) /\ <<v>> # <<>> /\ Len(<<v>>) = 1
    BY <1>5
  <2>5. b[1] = v
    BY <2>2, <2>4, FirstOfConcat
  <2> HIDE DEF b
  <2>6. Read(kind, b) = v
    BY <1>5, <2>3, <2>5
  <2>7. kind # "text"
    BY <2>1
  <2> QED
    BY <1>5, <2>2, <2>4, <2>6, <2>7, WireAssumption DEF FieldKept, b
<1>6. CASE kind = "text" /\ IsText(v) /\ Len(as_bytes(v)) =< MAX_PAYLOAD
  <2> DEFINE bytes == as_bytes(v)
             n == Len(bytes)
             size == Little(n, 2)
  <2>1. bytes \in Seq(Int) /\ taken(bytes) = [text |-> v, rest |-> <<>>]
    BY <1>6, TextRead
  <2>2. n \in Nat /\ n \in Int /\ IsU16(n)
    BY <1>6, <2>1, WireAssumption, SMT DEF IsU16
  <2>3. from_utf8(bytes) = v
    BY <2>1 DEF from_utf8
  <2>4. Put(kind, v) = size \o bytes /\ Size(kind) = 2
    BY <1>6, Zenon DEF Put, Size
  <2>5. Read(kind, b) = IF Len(b) - 2 < Number(SubSeq(b, 1, 2), FALSE) THEN Absent
                        ELSE from_utf8(SubSeq(b, 3, Number(SubSeq(b, 1, 2), FALSE) + 2))
    BY <1>6, Zenon DEF Read, Enumerated
  <2> HIDE DEF bytes, n
  <2>6. size \in Seq(Int) /\ Len(size) = 2 /\ size[1] = n % 256 /\ size[2] = (n \div 256) % 256
    BY <2>2, TwoBytes
  <2> HIDE DEF size
  <2>7. Number(size, FALSE) = n
    BY <2>2, <2>6, NumberOfTwo
  <2>8. /\ size \o bytes \in Seq(Int) /\ Len(size \o bytes) = 2 + n
        /\ bytes \o rest \in Seq(Int) /\ Len(bytes \o rest) = n + Len(rest) /\ Len(rest) \in Nat
    <3> HIDE DEF b
    <3>1. Len(bytes) = n
      BY DEF n
    <3>2. Len(rest) \in Nat
      OBVIOUS
    <3> QED
      BY <2>1, <2>6, <3>1, <3>2, Concats, ZenonT(30)
  <2>9. b = size \o (bytes \o rest)
    <3>1. b = (size \o bytes) \o rest
      BY <2>4
    <3> HIDE DEF b
    <3> QED
      BY <2>1, <2>6, <3>1, Associative
  <2> HIDE DEF b
  <2>10. SubSeq(b, 1, 2) = size
    BY <2>6, <2>8, <2>9, FirstOfConcat, ZenonT(30)
  <2>11. SubSeq(b, 3, n + 2) = bytes
    <3>1. SubSeq(b, Len(size) + 1, Len(size) + Len(bytes)) = bytes
      BY <2>1, <2>6, <2>9, MiddleOfConcat
    <3>2. Len(size) + 1 = 3 /\ Len(size) + Len(bytes) = n + 2
      BY <2>2, <2>6 DEF n
    <3> QED
      BY <3>1, <3>2
  <2>12. Len(b) = 2 + (n + Len(rest))
    BY <2>6, <2>8, <2>9, Concats, ZenonT(30)
  <2>13. ~(Len(b) - 2 < n)
    BY <2>2, <2>8, <2>12
  <2>14. Read(kind, b) = v
    BY <2>3, <2>5, <2>7, <2>10, <2>11, <2>13
  <2>15. v # Absent
    BY <1>6, WireAssumption DEF IsText
  <2>16. Len(size \o bytes) >= 2
    BY <2>2, <2>8
  <2> QED
    BY <1>6, <2>4, <2>8, <2>14, <2>15, <2>16 DEF FieldKept, b
<1> QED
  BY <1>1, <1>2, <1>3, <1>4, <1>5, <1>6, Zenon DEF Fits, Short

---------------------------------------------------------------------------
(* Messages.                                                               *)

LEMMA FlattenPrefix ==
  ASSUME NEW seqs \in Seq(Seq(Int)), NEW k \in Nat, k =< Len(seqs)
  PROVE  /\ FlattenSeq(SubSeq(seqs, 1, k)) \in Seq(Int)
         /\ k # Len(seqs) => FlattenSeq(SubSeq(seqs, 1, k + 1)) = FlattenSeq(SubSeq(seqs, 1, k)) \o seqs[k + 1]
<1> DEFINE q == SubSeq(seqs, 1, k)
<1>1. q \in Seq(Seq(Int))
  OBVIOUS
<1>2. <<>> \in Seq(Int)
  OBVIOUS
<1>3. FlattenSeq(q) \in Seq(Int)
  <2> HIDE DEF q
  <2> QED
    BY <1>1, <1>2, FlattenAppend
<1>4. ASSUME k # Len(seqs) PROVE FlattenSeq(SubSeq(seqs, 1, k + 1)) = FlattenSeq(q) \o seqs[k + 1]
  <2>1. k + 1 \in 1 .. Len(seqs) /\ 1 \in 1 .. Len(seqs) /\ (k + 1) - 1 = k
    BY <1>4
  <2> DEFINE e == seqs[k + 1]
  <2>2. e \in Seq(Int)
    BY <2>1
  <2>3. SubSeq(seqs, 1, k + 1) = q \o <<e>>
    BY <2>1, SubSeqRecursiveSecond
  <2> HIDE DEF q, e
  <2>4. Append(q, e) = q \o <<e>>
    BY <1>1, <2>2, AppendIsConcat
  <2>5. FlattenSeq(Append(q, e)) = FlattenSeq(q) \o e
    BY <1>1, <2>2, FlattenAppend
  <2> QED
    BY <2>3, <2>4, <2>5 DEF e
<1> QED
  BY <1>3, <1>4

LEMMA FlattenSplit ==
  ASSUME NEW seqs \in Seq(Seq(Int)), NEW k \in Nat, k < Len(seqs)
  PROVE  \E rest \in Seq(Int) : FlattenSeq(seqs) = FlattenSeq(SubSeq(seqs, 1, k)) \o (seqs[k + 1] \o rest)
<1> DEFINE F(j) == FlattenSeq(SubSeq(seqs, 1, j))
           e == seqs[k + 1]
           Split(n) == \E rest \in Seq(Int) : F(n) = F(k) \o (e \o rest)
           N == {n \in Nat : (k + 1) + n =< Len(seqs) => Split((k + 1) + n)}
<1>1. Len(seqs) \in Nat /\ e \in Seq(Int) /\ \A j \in 1 .. Len(seqs) : seqs[j] \in Seq(Int)
  OBVIOUS
<1>2. \A j \in Nat : j =< Len(seqs) => F(j) \in Seq(Int) /\ (j # Len(seqs) => F(j + 1) = F(j) \o seqs[j + 1])
  BY FlattenPrefix
<1> HIDE DEF F
<1>3. F(k) \in Seq(Int) /\ F(k + 1) = F(k) \o e
  <2>1. k =< Len(seqs) /\ k # Len(seqs)
    BY <1>1
  <2> QED
    BY <1>2, <2>1
<1> HIDE DEF e
<1>4. 0 \in N
  <2>1. e \o <<>> = e /\ <<>> \in Seq(Int)
    BY <1>1, ConcatEmptySeq
  <2>2. (k + 1) + 0 = k + 1
    OBVIOUS
  <2>3. Split(k + 1)
    BY <1>3, <2>1
  <2> QED
    BY <2>2, <2>3
<1>5. ASSUME NEW n \in N PROVE n + 1 \in N
  <2> DEFINE j == (k + 1) + n
  <2> SUFFICES ASSUME (k + 1) + (n + 1) =< Len(seqs) PROVE Split((k + 1) + (n + 1))
    <3> HIDE DEF Split
    <3> QED
      OBVIOUS
  <2>1. j \in Nat /\ j + 1 = (k + 1) + (n + 1) /\ j =< Len(seqs) /\ j # Len(seqs) /\ j + 1 \in 1 .. Len(seqs)
    BY <1>1
  <2>2. Split(j)
    BY <2>1
  <2> HIDE DEF j
  <2>3. PICK rest \in Seq(Int) : F(j) = F(k) \o (e \o rest)
    BY <2>2
  <2> DEFINE x == seqs[j + 1]
  <2>4. x \in Seq(Int) /\ F(j + 1) = F(j) \o x
    BY <1>1, <1>2, <2>1
  <2> HIDE DEF x
  <2>5. rest \o x \in Seq(Int) /\ e \o rest \in Seq(Int)
    BY <1>1, <2>4, Associative
  <2>6. (F(k) \o (e \o rest)) \o x = F(k) \o ((e \o rest) \o x)
    BY <1>3, <2>4, <2>5, Associative, ZenonT(30)
  <2>7. (e \o rest) \o x = e \o (rest \o x)
    BY <1>1, <2>4, Associative
  <2>8. F(j + 1) = F(k) \o (e \o (rest \o x))
    BY <2>3, <2>4, <2>6, <2>7
  <2>9. Split(j + 1)
    BY <2>5, <2>8
  <2> HIDE DEF Split
  <2> QED
    BY <2>1, <2>9
<1>6. N = Nat
  <2>1. N \in SUBSET Nat
    OBVIOUS
  <2> HIDE DEF N
  <2> QED
    BY <1>4, <1>5, <2>1, NatSetInduction
<1> DEFINE n == Len(seqs) - (k + 1)
<1>7. n \in Nat /\ (k + 1) + n = Len(seqs)
  BY <1>1
<1>8. n \in N
  <2> HIDE DEF N
  <2> QED
    BY <1>6, <1>7
<1>9. Split(Len(seqs))
  <2> HIDE DEF n, Split
  <2>1. (k + 1) + n =< Len(seqs)
    BY <1>1, <1>7
  <2>2. Split((k + 1) + n)
    BY <1>8, <2>1
  <2> QED
    BY <1>7, <2>2
<1>10. SubSeq(seqs, 1, Len(seqs)) = seqs
  BY SubSeqFull
<1> QED
  BY <1>9, <1>10 DEF F, e

LEMMA SizeIs == \A kind : Size(kind) \in Nat /\ Size(kind) > 0
BY DEF Size

LEMMA StartsAre ==
  ASSUME NEW fields, Len(fields) \in Nat
  PROVE  /\ Starts(fields)[1] = 2
         /\ \A i \in 1 .. Len(fields) + 1 : Starts(fields)[i] \in Nat
         /\ \A i \in 1 .. Len(fields) : Starts(fields)[i + 1] = Starts(fields)[i] + Size(fields[i])
<1> DEFINE n == Len(fields)
           Is(f) == f = [i \in 1 .. n + 1 |-> IF i = 1 THEN 2 ELSE f[i - 1] + Size(fields[i - 1])]
           J == CHOOSE f : Is(f)
           step == [p \in Nat \X Nat |-> p[2] + Size(fields[p[1] - 1])]
<1>1. Starts(fields) = J
  BY DEF Starts
<1>2. step \in [Nat \X Nat -> Nat]
  BY SizeIs
<1>3. \A i \in Nat : \A x \in Nat : step[<<i, x>>] = x + Size(fields[i - 1])
  OBVIOUS
<1>4. n + 1 \in Nat /\ 1 \in 1 .. n + 1
  OBVIOUS
<1> HIDE DEF step
<1>5. PICK f \in [1 .. n + 1 -> Nat] : Recursive(f, 1, n + 1, 2, step)
  BY <1>2, <1>4, RecursionExists
<1>6. \A i \in 1 .. n + 1 : f[i] = IF i = 1 THEN 2 ELSE f[i - 1] + Size(fields[i - 1])
  <2> SUFFICES ASSUME NEW i \in 1 .. n + 1 PROVE f[i] = IF i = 1 THEN 2 ELSE f[i - 1] + Size(fields[i - 1])
    OBVIOUS
  <2>1. i # 1 => i - 1 \in 1 .. n + 1
    BY <1>4
  <2>2. i \in Nat /\ (i # 1 => f[i - 1] \in Nat)
    BY <2>1
  <2> QED
    BY <1>3, <1>5, <2>2 DEF Recursive
<1>7. Is(f)
  BY <1>6
<1>8. Is(J)
  BY <1>7
<1> HIDE DEF J
<1>9. DOMAIN J = 1 .. n + 1 /\ J[1] = 2 /\ \A i \in 1 .. n + 1 : i # 1 => J[i] = J[i - 1] + Size(fields[i - 1])
  BY <1>4, <1>8
<1>10. \A i \in 1 .. n : J[i + 1] = J[i] + Size(fields[i])
  <2> SUFFICES ASSUME NEW i \in 1 .. n PROVE J[i + 1] = J[i] + Size(fields[i])
    OBVIOUS
  <2>1. i + 1 \in 1 .. n + 1 /\ i + 1 # 1 /\ (i + 1) - 1 = i
    BY <1>4
  <2> QED
    BY <1>9, <2>1
<1> DEFINE K == {i \in Nat : i =< n => J[i + 1] \in Nat}
<1>11. 0 \in K
  BY <1>9
<1>12. ASSUME NEW i \in K PROVE i + 1 \in K
  <2> SUFFICES ASSUME i + 1 =< n PROVE J[(i + 1) + 1] \in Nat
    OBVIOUS
  <2>1. i + 1 \in 1 .. n /\ i =< n
    BY <1>4
  <2>2. J[i + 1] \in Nat /\ J[(i + 1) + 1] = J[i + 1] + Size(fields[i + 1])
    BY <1>10, <2>1
  <2> QED
    BY <2>2, SizeIs
<1>13. K = Nat
  <2>1. K \in SUBSET Nat
    OBVIOUS
  <2> HIDE DEF K
  <2> QED
    BY <1>11, <1>12, <2>1, NatSetInduction
<1>14. \A i \in 1 .. n + 1 : J[i] \in Nat
  <2> SUFFICES ASSUME NEW i \in 1 .. n + 1 PROVE J[i] \in Nat
    OBVIOUS
  <2>1. i - 1 \in Nat /\ i - 1 =< n /\ (i - 1) + 1 = i
    BY <1>4
  <2>2. i - 1 \in K
    BY <1>13, <2>1
  <2> QED
    BY <2>1, <2>2
<1> QED
  BY <1>1, <1>9, <1>10, <1>14

\* Every field is read where the layout says it starts, and the message is long enough.
FieldKinds == {"i16", "u16", "u8", "os", "bool", "text", "button", "media", "volume", "action"}
Fields(fields, args) ==
  /\ fields \in Seq(FieldKinds) /\ Len(args) = Len(fields)
  /\ \A i \in 1 .. Len(fields) : Fits(fields[i], args[i]) /\ (fields[i] = "text" => i = Len(fields))
AllShort(fields, args) == \A i \in 1 .. Len(fields) : Short(fields[i], args[i])
Puts(fields, args) == [i \in 1 .. Len(fields) |-> Put(fields[i], args[i])]

WellRead(fields, args, tag, b) ==
  /\ b # <<>> /\ b[1] = tag
  /\ \A i \in 1 .. Len(fields) : Read(fields[i], SubSeq(b, Starts(fields)[i], Len(b))) = args[i] /\ args[i] # Absent
  /\ ~(Starts(fields)[Len(fields) + 1] > Len(b) + 1)

LEMMA FieldsRead ==
  ASSUME NEW fields, NEW args, Fields(fields, args), AllShort(fields, args), NEW tag \in Int, NEW b, b = <<tag>> \o FlattenSeq(Puts(fields, args))
  PROVE  WellRead(fields, args, tag, b)
<1> DEFINE n == Len(fields)
           puts == Puts(fields, args)
           at == Starts(fields)
           F(k) == FlattenSeq(SubSeq(puts, 1, k))
           K == {k \in Nat : k =< n => Len(F(k)) >= at[k + 1] - 2 /\ (k < n => Len(F(k)) = at[k + 1] - 2)}
<1>1. n \in Nat /\ 1 \in 1 .. n + 1
  BY DEF Fields
<1>2. \A i \in 1 .. n : \A rest \in Seq(Int) : FieldKept(fields[i], args[i], rest) /\ args[i] # Absent
  BY ReadPut DEF Fields, AllShort
<1>3. /\ at[1] = 2
      /\ \A i \in 1 .. n + 1 : at[i] \in Nat
      /\ \A i \in 1 .. n : at[i + 1] = at[i] + Size(fields[i])
  BY <1>1, StartsAre
<1>4. <<>> \in Seq(Int)
  OBVIOUS
<1>5. \A i \in 1 .. n : Put(fields[i], args[i]) \in Seq(Int)
  BY <1>2, <1>4 DEF FieldKept
<1>6. puts \in Seq(Seq(Int)) /\ Len(puts) = n /\ \A i \in 1 .. n : puts[i] = Put(fields[i], args[i])
  <2>1. puts \in [1 .. n -> Seq(Int)] /\ \A i \in 1 .. n : puts[i] = Put(fields[i], args[i])
    BY <1>5 DEF Puts
  <2> HIDE DEF n, puts
  <2> QED
    BY <1>1, <2>1, FunctionSeq
<1>7. \A k \in Nat : k =< n => F(k) \in Seq(Int) /\ (k # n => F(k + 1) = F(k) \o puts[k + 1])
  BY <1>6, FlattenPrefix
<1>8. F(0) = <<>> /\ F(n) = FlattenSeq(puts)
  <2>1. SubSeq(puts, 1, 0) = <<>>
    BY SubSeqEmpty
  <2>2. SubSeq(puts, 1, n) = puts
    BY <1>6, SubSeqFull
  <2> QED
    BY <2>1, <2>2, FlattenEmpty
<1>9. \A i \in 1 .. n : fields[i] = "text" => i = n
  BY DEF Fields
<1>10. \A i \in 1 .. n : \A x \in Nat : TRUE
  OBVIOUS
<1>11. \A k \in Nat : k < n => \E rest \in Seq(Int) : FlattenSeq(puts) = F(k) \o (puts[k + 1] \o rest)
  BY <1>6, FlattenSplit
<1>12. b = <<tag>> \o FlattenSeq(puts)
  OBVIOUS
<1> HIDE DEF n, puts, at, F
<1>13. 0 \in K
  <2>1. Len(F(0)) = 0 /\ at[0 + 1] = 2
    BY <1>3, <1>8
  <2> QED
    BY <2>1
<1>14. ASSUME NEW k \in K PROVE k + 1 \in K
  <2> SUFFICES ASSUME k + 1 =< n
               PROVE  Len(F(k + 1)) >= at[(k + 1) + 1] - 2 /\ (k + 1 < n => Len(F(k + 1)) = at[(k + 1) + 1] - 2)
    OBVIOUS
  <2>1. k \in Nat /\ k < n /\ k =< n /\ k # n /\ k + 1 \in 1 .. n /\ k + 1 \in 1 .. n + 1
    BY <1>1
  <2>2. Len(F(k)) = at[k + 1] - 2 /\ at[(k + 1) + 1] = at[k + 1] + Size(fields[k + 1]) /\ at[k + 1] \in Nat
    BY <1>3, <2>1
  <2>3. F(k + 1) = F(k) \o puts[k + 1] /\ F(k) \in Seq(Int) /\ puts[k + 1] = Put(fields[k + 1], args[k + 1])
    BY <1>6, <1>7, <2>1
  <2> DEFINE x == Put(fields[k + 1], args[k + 1])
             size == Size(fields[k + 1])
  <2>4. x \in Seq(Int) /\ Len(x) >= size /\ (fields[k + 1] # "text" => Len(x) = size)
    BY <1>2, <1>4, <2>1 DEF FieldKept
  <2>5. k + 1 < n => Len(x) = size
    BY <1>9, <2>1, <2>4
  <2>6. size \in Nat
    BY SizeIs
  <2> HIDE DEF x, size
  <2>7. Len(F(k + 1)) = Len(F(k)) + Len(x)
    BY <2>3, <2>4, Concats DEF x
  <2>8. Len(x) \in Nat /\ at[(k + 1) + 1] = at[k + 1] + size
    BY <2>2, <2>4 DEF size
  <2> QED
    BY <2>2, <2>4, <2>5, <2>6, <2>7, <2>8, SMTT(30)
<1>15. K = Nat
  <2>1. K \in SUBSET Nat
    OBVIOUS
  <2> HIDE DEF K
  <2> QED
    BY <1>13, <1>14, <2>1, NatSetInduction
<1> DEFINE head == <<tag>>
           all == FlattenSeq(puts)
<1>16. head \in Seq(Int) /\ head # <<>> /\ Len(head) = 1 /\ head[1] = tag
  OBVIOUS
<1>17. all \in Seq(Int)
  BY <1>1, <1>7, <1>8
<1>18. b \in Seq(Int) /\ Len(b) = 1 + Len(all) /\ b[1] = tag
  <2>1. b = head \o all
    BY <1>12
  <2> HIDE DEF head, all
  <2>2. (head \o all)[1] = head[1]
    BY <1>16, <1>17, FirstOfConcat
  <2>3. head \o all \in Seq(Int) /\ Len(head \o all) = Len(head) + Len(all)
    BY <1>16, <1>17, Concats
  <2> QED
    BY <1>16, <2>1, <2>2, <2>3
<1>19. b # <<>>
  BY <1>17, <1>18
<1>20. ~(at[n + 1] > Len(b) + 1)
  <2>1. n \in K /\ n =< n
    BY <1>1, <1>15
  <2>2. Len(F(n)) >= at[n + 1] - 2 /\ at[n + 1] \in Nat /\ Len(F(n)) \in Nat
    BY <1>1, <1>3, <1>7, <2>1
  <2> QED
    BY <1>8, <1>18, <2>2
<1>21. ASSUME NEW i \in 1 .. n PROVE Read(fields[i], SubSeq(b, at[i], Len(b))) = args[i]
  <2>1. i - 1 \in Nat /\ i - 1 < n /\ i - 1 =< n /\ (i - 1) + 1 = i /\ i \in 1 .. n + 1
    BY <1>1
  <2>2. PICK rest \in Seq(Int) : FlattenSeq(puts) = F(i - 1) \o (puts[(i - 1) + 1] \o rest)
    BY <1>11, <2>1
  <2> DEFINE a == F(i - 1)
             x == Put(fields[i], args[i])
             t == x \o rest
             c == <<tag>> \o a
  <2>3. x \in Seq(Int) /\ Read(fields[i], t) = args[i]
    BY <1>2 DEF FieldKept
  <2>4. FlattenSeq(puts) = a \o t
    BY <1>6, <2>1, <2>2
  <2>5. a \in Seq(Int)
    BY <1>7, <2>1
  <2>6. i - 1 \in K
    BY <1>15, <2>1
  <2>7. Len(a) = at[i] - 2 /\ at[i] \in Nat
    BY <1>3, <2>1, <2>6
  <2> HIDE DEF a, x, K
  <2>8. t \in Seq(Int)
    BY <2>3, Concats
  <2> HIDE DEF t
  <2>9. c \in Seq(Int) /\ Len(c) = 1 + Len(a)
    BY <1>16, <2>5, Concats
  <2>10. b = c \o t
    <3>1. b = head \o (a \o t)
      BY <1>12, <2>4
    <3>2. c = head \o a
      OBVIOUS
    <3> HIDE DEF head, c
    <3> QED
      BY <1>16, <2>5, <2>8, <3>1, <3>2, Associative
  <2>11. SubSeq(c \o t, Len(c) + 1, Len(c \o t)) = t
    BY <2>8, <2>9, FirstOfConcat
  <2> HIDE DEF c
  <2>12. Len(c) + 1 = at[i]
    BY <2>7, <2>9, SMTT(30)
  <2> QED
    BY <2>3, <2>10, <2>11, <2>12
<1>22. \A i \in 1 .. n : args[i] # Absent
  BY <1>2, <1>4
<1> QED
  BY <1>18, <1>19, <1>20, <1>21, <1>22 DEF n, at, WellRead

\* A layout is a tag and kinds, and the tag tells the type.
IsTable(table) ==
  /\ \A t \in DOMAIN table : table[t][1] \in Int /\ Len(table[t][2]) \in Nat
  /\ \A t, u \in DOMAIN table : table[t][1] = table[u][1] => t = u

LEMMA ClientTable == IsTable(ClientLayout)
<1> DEFINE L == ClientLayout
<1>1. DOMAIN L = {"MouseMove", "MouseButton", "Scroll", "KeyPress", "KeyRelease", "TextInput",
                "MediaCmd", "VolumeCmd", "LockScreen", "ClipboardGet", "ClipboardSet", "LaunchAction", "NowPlayingQuery", "HostInfoQuery"}
  BY DEF ClientLayout
<1>2. /\ L["MouseMove"][1] = 1 /\ L["MouseButton"][1] = 2 /\ L["Scroll"][1] = 3
      /\ L["KeyPress"][1] = 4 /\ L["KeyRelease"][1] = 5 /\ L["TextInput"][1] = 6
      /\ L["MediaCmd"][1] = 7 /\ L["VolumeCmd"][1] = 8 /\ L["LockScreen"][1] = 9
      /\ L["ClipboardGet"][1] = 14 /\ L["ClipboardSet"][1] = 15 /\ L["LaunchAction"][1] = 16
      /\ L["NowPlayingQuery"][1] = 17 /\ L["HostInfoQuery"][1] = 18
  BY DEF ClientLayout
<1>3. /\ Len(L["MouseMove"][2]) = 2 /\ Len(L["MouseButton"][2]) = 2 /\ Len(L["Scroll"][2]) = 1
      /\ Len(L["KeyPress"][2]) = 2 /\ Len(L["KeyRelease"][2]) = 2 /\ Len(L["TextInput"][2]) = 1
      /\ Len(L["MediaCmd"][2]) = 1 /\ Len(L["VolumeCmd"][2]) = 1 /\ Len(L["LockScreen"][2]) = 0
      /\ Len(L["ClipboardGet"][2]) = 0 /\ Len(L["ClipboardSet"][2]) = 1 /\ Len(L["LaunchAction"][2]) = 1
      /\ Len(L["NowPlayingQuery"][2]) = 0 /\ Len(L["HostInfoQuery"][2]) = 0
  BY DEF ClientLayout
<1> HIDE DEF L
<1>4. \A t \in DOMAIN L : L[t][1] \in Int /\ Len(L[t][2]) \in Nat
  BY <1>1, <1>2, <1>3
<1>5. \A t, u \in DOMAIN L : L[t][1] = L[u][1] => t = u
  BY <1>1, <1>2
<1> QED
  BY <1>4, <1>5 DEF IsTable, L

LEMMA ServerTable == IsTable(ServerLayout)
<1>1. DOMAIN ServerLayout = {"ClipboardData", "HostInfo"}
  BY DEF ServerLayout
<1>2. ServerLayout["ClipboardData"][1] = 128 /\ ServerLayout["HostInfo"][1] = 130
  BY DEF ServerLayout
<1>3. Len(ServerLayout["ClipboardData"][2]) = 1 /\ Len(ServerLayout["HostInfo"][2]) = 5
  BY DEF ServerLayout
<1> QED
  BY <1>1, <1>2, <1>3 DEF IsTable

\* A message of a table's types, with values its fields can hold.
IsMessage(table, m) ==
  /\ m.type \in DOMAIN table /\ Fields(table[m.type][2], m.args)
  /\ m = [type |-> m.type, args |-> [i \in 1 .. Len(table[m.type][2]) |-> m.args[i]]]

\* Exactly the messages without a text that is too long are encoded, and they begin with their tag.
LEMMA Encoded ==
  ASSUME NEW table, IsTable(table), NEW m, IsMessage(table, m)
  PROVE  /\ AllShort(table[m.type][2], m.args) => encode(table, m) # <<>>
         /\ encode(table, m) # <<>> => /\ AllShort(table[m.type][2], m.args)
                                       /\ encode(table, m)[1] = table[m.type][1]
                                       /\ encode(table, m) = <<table[m.type][1]>> \o FlattenSeq(Puts(table[m.type][2], m.args))
<1> DEFINE type == m.type
           args == m.args
           fields == table[type][2]
           tag == table[type][1]
           n == Len(fields)
           b == encode(table, m)
           Long == \E i \in DOMAIN args : fields[i] = "text" /\ Len(as_bytes(args[i])) > MAX_PAYLOAD
           puts == [i \in DOMAIN args |-> Put(fields[i], args[i])]
           c == <<tag>> \o FlattenSeq(puts)
<1>1. type \in DOMAIN table /\ tag \in Int /\ Fields(fields, args) /\ n \in Nat
  BY DEF IsTable, IsMessage
<1>2. DOMAIN args = 1 .. n
  BY DEF IsMessage
<1>3. b = IF Long THEN <<>> ELSE c
  BY DEF encode
<1>4. puts = Puts(fields, args)
  BY <1>2 DEF Puts
<1>5. Long <=> ~AllShort(fields, args)
  <2>1. ASSUME NEW i \in 1 .. n, fields[i] = "text"
        PROVE  Len(as_bytes(args[i])) =< MAX_PAYLOAD <=> ~(Len(as_bytes(args[i])) > MAX_PAYLOAD)
    <3>1. Fits(fields[i], args[i])
      BY <1>1 DEF Fields
    <3>2. IsText(args[i])
      BY <2>1, <3>1 DEF Fits, Enumerated
    <3>3. as_bytes(args[i]) \in Seq(Int)
      BY <3>2, TextRead
    <3>4. Len(as_bytes(args[i])) \in Nat
      BY <3>3
    <3> QED
      BY <3>4, WireAssumption
  <2> QED
    BY <1>2, <2>1 DEF AllShort, Short
<1>6. AllShort(fields, args) => WellRead(fields, args, tag, c)
  BY <1>1, <1>4, FieldsRead
<1> HIDE DEF Long, c, fields, args, tag, b
<1>7. AllShort(fields, args) => c # <<>> /\ c[1] = tag
  BY <1>6 DEF WellRead
<1>8. AllShort(fields, args) => b = c
  BY <1>3, <1>5
<1>9. b # <<>> => AllShort(fields, args)
  BY <1>3, <1>5
<1>10. AllShort(fields, args) => b # <<>>
  BY <1>7, <1>8
<1>11. b # <<>> => AllShort(fields, args) /\ b[1] = tag
  BY <1>7, <1>8, <1>9
<1>12. c = <<tag>> \o FlattenSeq(Puts(fields, args))
  BY <1>4 DEF c
<1>13. b # <<>> => b = <<tag>> \o FlattenSeq(Puts(fields, args))
  BY <1>8, <1>9, <1>12
<1> QED
  BY <1>10, <1>11, <1>13 DEF fields, args, tag, b

LEMMA RoundTrip ==
  ASSUME NEW table, IsTable(table), NEW m, IsMessage(table, m), encode(table, m) # <<>>
  PROVE  decode(table, encode(table, m)) = m
<1> DEFINE type == m.type
           args == m.args
           fields == table[type][2]
           tag == table[type][1]
           n == Len(fields)
           b == encode(table, m)
           at == Starts(fields)
           got == [i \in 1 .. n |-> Read(fields[i], SubSeq(b, at[i], Len(b)))]
           types == {t \in DOMAIN table : b # <<>> /\ b[1] = table[t][1]}
<1>1. type \in DOMAIN table /\ tag \in Int /\ Fields(fields, args) /\ n \in Nat
  BY DEF IsTable, IsMessage
<1>2. DOMAIN args = 1 .. n /\ m = [type |-> type, args |-> [i \in 1 .. n |-> args[i]]]
  BY DEF IsMessage
<1>3. DOMAIN fields = 1 .. n
  BY <1>1 DEF Fields
<1>4. /\ AllShort(fields, args)
      /\ b = <<tag>> \o FlattenSeq(Puts(fields, args))
  BY Encoded
<1> HIDE DEF b, args, fields, tag, n, type
<1>5. /\ b # <<>> /\ b[1] = tag
      /\ \A i \in 1 .. n : Read(fields[i], SubSeq(b, at[i], Len(b))) = args[i] /\ args[i] # Absent
      /\ ~(at[n + 1] > Len(b) + 1)
  <2>1. WellRead(fields, args, tag, b)
    BY <1>1, <1>4, FieldsRead
  <2> QED
    BY <2>1 DEF n, WellRead
<1>6. types = {type}
  BY <1>1, <1>5 DEF IsTable, tag
<1>7. (CHOOSE t \in types : TRUE) = type
  BY <1>6
<1>8. got = [i \in 1 .. n |-> args[i]]
  BY <1>5
<1>10. decode(table, b) =
         IF types = {} THEN Refused
         ELSE IF at[n + 1] > Len(b) + 1 THEN Refused
         ELSE IF \E i \in 1 .. n : got[i] = Absent THEN Refused
         ELSE [type |-> type, args |-> got]
  BY <1>3, <1>7, Zenon DEF decode, fields, n
<1> QED
  BY <1>2, <1>5, <1>6, <1>8, <1>10 DEF b

---------------------------------------------------------------------------
(* What is cut.                                                            *)

LEMMA MaxExists ==
  ASSUME NEW n \in Nat, NEW S \in SUBSET (0 .. n), 0 \in S PROVE \E k \in S : \A j \in S : j =< k
<1> DEFINE Has(T) == \E k \in T : \A j \in T : j =< k
           N == {m \in Nat : \A T \in SUBSET (0 .. m) : 0 \in T => Has(T)}
<1>1. 0 \in N
  <2> SUFFICES ASSUME NEW T \in SUBSET (0 .. 0), 0 \in T PROVE Has(T)
    OBVIOUS
  <2>1. \A j \in T : j = 0
    OBVIOUS
  <2> QED
    BY <2>1
<1>2. ASSUME NEW m \in N PROVE m + 1 \in N
  <2> SUFFICES ASSUME NEW T \in SUBSET (0 .. m + 1), 0 \in T PROVE Has(T)
    OBVIOUS
  <2>1. CASE m + 1 \in T
    BY <2>1
  <2>2. CASE m + 1 \notin T
    <3>1. T \in SUBSET (0 .. m)
      <4> SUFFICES ASSUME NEW j \in T PROVE j \in 0 .. m
        OBVIOUS
      <4>1. j \in 0 .. m + 1 /\ j # m + 1 /\ m \in Nat
        BY <2>2
      <4> QED
        BY <4>1
    <3> HIDE DEF Has
    <3> QED
      BY <3>1
  <2> QED
    BY <2>1, <2>2
<1>3. N = Nat
  <2>1. N \in SUBSET Nat
    OBVIOUS
  <2> HIDE DEF N
  <2> QED
    BY <1>1, <1>2, <2>1, NatSetInduction
<1> QED
  BY <1>3

\* A text cut to max bytes: a beginning of it, whole characters, and as many of them as fit.
Cut(text, cut, max) ==
  /\ IsText(cut) /\ Len(as_bytes(cut)) =< max /\ IsPrefix(cut, text)
  /\ Len(cut) < Len(text) => ~(Len(as_bytes(SubSeq(text, 1, Len(cut) + 1))) =< max)

LEMMA Truncated == ASSUME NEW text, IsText(text), NEW max \in Nat PROVE Cut(text, truncate_to_char_boundary(text, max), max)
<1> DEFINE n == Len(text)
           bytes(k) == Len(as_bytes(SubSeq(text, 1, k)))
           fits == {k \in 0 .. n : bytes(k) =< max}
           k == CHOOSE k \in fits : \A j \in fits : j =< k
           cut == SubSeq(text, 1, k)
<1>1. text \in Seq(Int) /\ n \in Nat /\ \A i \in 1 .. n : Scalar(text[i])
  BY DEF IsText
<1>2. truncate_to_char_boundary(text, max) = cut
  BY DEF truncate_to_char_boundary
<1>3. 0 \in fits
  <2>1. SubSeq(text, 1, 0) = <<>>
    BY SubSeqEmpty
  <2>2. bytes(0) = 0
    <3>1. Len(as_bytes(<<>>)) = 0
      BY BytesEmpty
    <3> QED
      BY <2>1, <3>1
  <2> HIDE DEF bytes
  <2> QED
    BY <1>1, <2>2
<1>4. fits \in SUBSET (0 .. n)
  OBVIOUS
<1> HIDE DEF fits
<1>5. \E j \in fits : \A i \in fits : i =< j
  BY <1>1, <1>3, <1>4, MaxExists
<1>6. k \in fits /\ \A j \in fits : j =< k
  BY <1>5
<1> HIDE DEF k
<1>7. k \in 0 .. n /\ bytes(k) =< max
  BY <1>6 DEF fits
<1>8. cut \in Seq(Int) /\ Len(cut) = k /\ \A i \in 1 .. k : cut[i] = text[i]
  BY <1>1, <1>7
<1>9. IsText(cut)
  <2>1. DOMAIN cut = 1 .. k
    BY <1>8
  <2>2. \A i \in 1 .. k : i \in 1 .. n
    BY <1>1, <1>7
  <2> HIDE DEF cut
  <2> QED
    BY <1>1, <1>8, <2>1, <2>2 DEF IsText
<1>10. IsPrefix(cut, text)
  <2>1. SubSeq(cut, 1, k) = cut
    BY <1>8, SubSeqFull
  <2>2. k =< n
    BY <1>1, <1>7
  <2> QED
    BY <1>8, <2>1, <2>2 DEF IsPrefix
<1>11. ASSUME k < n PROVE ~(bytes(k + 1) =< max)
  <2>1. k + 1 \in 0 .. n /\ ~(k + 1 =< k)
    BY <1>1, <1>7, <1>11
  <2>2. k + 1 \notin fits
    BY <1>6, <2>1
  <2> HIDE DEF bytes
  <2> QED
    BY <2>1, <2>2 DEF fits
<1>12. Len(as_bytes(cut)) =< max
  BY <1>7
<1>13. k < n => ~(Len(as_bytes(SubSeq(text, 1, k + 1))) =< max)
  BY <1>11
<1> HIDE DEF cut
<1> QED
  BY <1>2, <1>8, <1>9, <1>10, <1>12, <1>13 DEF Cut

---------------------------------------------------------------------------
(* What is playing.                                                        *)

IsTime(v) == v \in Int /\ v >= -1 /\ v < 8388608

LEMMA EightBytes ==
  ASSUME NEW v, IsTime(v)
  PROVE  Little(v, 8) \in Seq(Int) /\ Len(Little(v, 8)) = 8 /\ Number(Little(v, 8), TRUE) = v
<1> DEFINE b == Little(v, 8)
           x == v % 256
           y == (v \div 256) % 256
           z == (v \div 65536) % 256
           high == IF v < 0 THEN 255 ELSE 0
           n == 8
<1>1. v \in Int
  BY SMT DEF IsTime
<1>2. x \in Int /\ y \in Int /\ z \in Int /\ high \in Int
  BY <1>1, SMT
<1>3. b = [i \in 1 .. n |-> IF i =< 3 THEN <<x, y, z>>[i] ELSE high]
  BY DEF Little
<1>4. n \in Nat /\ n = 8
  OBVIOUS
<1> HIDE DEF b, x, y, z, high, n
<1>5. \A i \in 1 .. n : i =< 3 => i = 1 \/ i = 2 \/ i = 3
  BY <1>4
<1>6. \A i \in 1 .. n : b[i] \in Int
  BY <1>2, <1>3, <1>5
<1>7. b \in [1 .. n -> Int]
  BY <1>3, <1>6
<1>8. b \in Seq(Int) /\ Len(b) = 8
  BY <1>4, <1>7, FunctionSeq
<1>9. b[1] = x /\ b[2] = y /\ b[3] = z /\ b[8] = high
  BY <1>3, <1>4
<1>10. Min({3, Len(b)}) = 3
  BY <1>8, MinOfThree
<1> DEFINE low == x + 256 * y + 65536 * z
           signed == Number(b, TRUE)
           value == IF high >= 128 THEN low - 16777216 ELSE low
<1>11. signed = value
  <2>1. b[Len(b)] = high
    BY <1>8, <1>9
  <2> DEFINE k == Min({3, Len(b)})
             third == <<256, 65536, 16777216>>[k]
  <2>3. third = 16777216
    <3>1. k = 3
      BY <1>10
    <3> HIDE DEF k
    <3> QED
      BY <3>1, SMT
  <2> DEFINE n1 == b[1] + (IF k > 1 THEN 256 * b[2] ELSE 0) + (IF k > 2 THEN 65536 * b[3] ELSE 0)
  <2>4. n1 = low
    <3>1. k = 3
      BY <1>10
    <3> HIDE DEF k
    <3> QED
      BY <1>2, <1>9, <3>1, SMT
  <2>5. signed = IF b[Len(b)] >= 128 THEN n1 - third ELSE n1
    BY SMT DEF Number
  <2> HIDE DEF signed, n1, third, low
  <2>6. signed = IF high >= 128 THEN low - 16777216 ELSE low
    BY <2>1, <2>3, <2>4, <2>5, SMT
  <2> QED
    BY <2>6
<1>12. v = value
  <2>1. CASE v < 0
    <3>1. v = -1
      BY <1>1, <2>1, SMT DEF IsTime
    <3>2. x = 255
      BY <1>1, <2>1, SMT DEF IsTime, x
    <3>3. y = 255
      BY <1>1, <2>1, SMT DEF IsTime, y
    <3>4. z = 255
      BY <1>1, <2>1, SMT DEF IsTime, z
    <3>5. high = 255
      BY <3>1, SMT DEF high
    <3> QED
      BY <3>1, <3>2, <3>3, <3>4, <3>5, SMT
  <2>2. CASE v >= 0
    <3>1. v = low
      BY <1>1, <1>2, <2>2, SMT DEF IsTime, x, y, z
    <3>2. high = 0
      BY <1>1, <2>2, SMT DEF high
    <3> QED
      BY <1>2, <3>1, <3>2, SMT
  <2> QED
    BY <1>1, <2>1, <2>2, SMT
<1> HIDE DEF signed, value
<1>13. signed = v
  BY <1>11, <1>12
<1> QED
  BY <1>8, <1>13, Zenon DEF signed, b

\* A name as it arrives: cut, and an empty one still there.
Heard(name) == IF name = Absent THEN Absent ELSE truncate_to_char_boundary(name, MAX_NAME)
IsName(name) == name = Absent \/ IsText(name)

LEMMA NoNameIsRead ==
  ASSUME NEW b, NEW present, b # Absent, b # <<>>, b[1] = 0
  PROVE  read_str(b, present) = [name |-> IF present = 1 THEN <<>> ELSE Absent, rest |-> SubSeq(b, 2, Len(b))]
BY ZenonT(30) DEF read_str

LEMMA SomeNameIsRead ==
  ASSUME NEW b, NEW present, b # Absent, b # <<>>, b[1] # 0
  PROVE  read_str(b, present) =
           LET t == IF Len(b) - 1 < b[1] THEN Absent ELSE from_utf8(SubSeq(b, 2, b[1] + 1))
           IN [name |-> t, rest |-> IF t = Absent THEN Absent ELSE SubSeq(b, b[1] + 2, Len(b))]
BY ZenonT(30) DEF read_str

LEMMA NameRead ==
  ASSUME NEW name, IsName(name), NEW rest \in Seq(Int), NEW present, present = IF name = Absent THEN 0 ELSE 1
  PROVE  /\ PutName(name) \in Seq(Int)
         /\ read_str(PutName(name) \o rest, present) = [name |-> Heard(name), rest |-> rest]
<1> DEFINE text == IF name = Absent THEN <<>> ELSE Heard(name)
           bytes == as_bytes(text)
           n == Len(bytes)
           head == <<n>>
           b == head \o (bytes \o rest)
<1>1. IsText(text)
  <2>1. CASE name = Absent
    BY <2>1 DEF IsText
  <2>2. CASE name # Absent
    <3>1. Cut(name, text, MAX_NAME)
      BY <2>2, Truncated, WireAssumption DEF IsName, Heard
    <3> QED
      BY <3>1 DEF Cut
  <2> QED
    BY <2>1, <2>2
<1>2. bytes = IF name = Absent THEN <<>> ELSE as_bytes(truncate_to_char_boundary(name, MAX_NAME))
  BY BytesEmpty DEF Heard
<1>3. PutName(name) = head \o bytes
  BY <1>2 DEF PutName
<1>4. bytes \in Seq(Int) /\ taken(bytes) = [text |-> text, rest |-> <<>>]
  BY <1>1, TextRead
<1>5. from_utf8(bytes) = text
  BY <1>4 DEF from_utf8
<1>6. text \in Seq(Int) /\ text # Absent
  <2> HIDE DEF text
  <2> QED
    BY <1>1, WireAssumption DEF IsText
<1>7. n = 0 => text = <<>>
  <2>1. n = 0 => bytes = <<>>
    BY <1>4
  <2> QED
    BY <1>4, <2>1, TakenEmpty
<1>8. name # Absent => text = Heard(name)
  OBVIOUS
<1>9. name = Absent => Heard(name) = Absent /\ n = 0
  BY <1>2 DEF Heard
<1> HIDE DEF text, bytes
<1>10. n \in Nat /\ head \in Seq(Int) /\ Len(head) = 1 /\ head[1] = n /\ head # <<>>
  BY <1>4
<1>11. Len(bytes) = n
  OBVIOUS
<1> HIDE DEF n, head
<1>12. bytes \o rest \in Seq(Int) /\ Len(bytes \o rest) = n + Len(rest) /\ Len(rest) \in Nat
  <2>1. Len(rest) \in Nat
    OBVIOUS
  <2> QED
    BY <1>4, <1>11, <2>1, Concats
<1>13. b \in Seq(Int) /\ Len(b) = 1 + (n + Len(rest)) /\ b[1] = n
  <2> DEFINE t == bytes \o rest
  <2> HIDE DEF t
  <2>1. t \in Seq(Int) /\ Len(t) = n + Len(rest)
    BY <1>12 DEF t
  <2>2. (head \o t)[1] = n /\ head \o t \in Seq(Int)
    BY <1>10, <2>1, Concats, FirstOfConcat
  <2>3. Len(head \o t) = 1 + Len(t)
    BY <1>10, <2>1, Concats
  <2> QED
    BY <2>1, <2>2, <2>3 DEF t
<1>14. (head \o bytes) \o rest = b /\ head \o bytes \in Seq(Int)
  BY <1>4, <1>10, Associative, Concats, SMTT(30)
<1>15. SubSeq(b, 2, n + 1) = bytes
  <2>1. SubSeq(b, Len(head) + 1, Len(head) + Len(bytes)) = bytes
    BY <1>4, <1>10, MiddleOfConcat
  <2>2. Len(head) + 1 = 2 /\ Len(head) + Len(bytes) = n + 1
    BY <1>10, <1>11
  <2> QED
    BY <2>1, <2>2
<1>16. SubSeq(b, n + 2, Len(b)) = rest
  <2> DEFINE c == head \o bytes
  <2>1. Len(c) = n + 1 /\ c \in Seq(Int)
    <3>1. Len(head \o bytes) = Len(head) + Len(bytes) /\ head \o bytes \in Seq(Int)
      BY <1>4, <1>10, Concats
    <3>2. Len(head) + Len(bytes) = n + 1
      BY <1>10, <1>11
    <3> QED
      BY <3>1, <3>2
  <2>2. b = c \o rest
    BY <1>14
  <2> HIDE DEF c, b
  <2>3. SubSeq(c \o rest, Len(c) + 1, Len(c \o rest)) = rest
    BY <2>1, FirstOfConcat
  <2>4. Len(c) + 1 = n + 2
    BY <1>10, <2>1
  <2> QED
    BY <2>2, <2>3, <2>4
<1> HIDE DEF b
<1>17. b # Absent /\ b # <<>> /\ ~(Len(b) - 1 < n)
  BY <1>10, <1>12, <1>13, WireAssumption
<1>18. CASE n = 0
  <2>1. read_str(b, present) = [name |-> IF present = 1 THEN <<>> ELSE Absent, rest |-> SubSeq(b, 2, Len(b))]
    BY <1>13, <1>17, <1>18, NoNameIsRead, Zenon
  <2>2. SubSeq(b, 2, Len(b)) = rest
    BY <1>16, <1>18
  <2>3. (IF present = 1 THEN <<>> ELSE Absent) = Heard(name)
    BY <1>7, <1>8, <1>9, <1>18
  <2> QED
    BY <1>3, <1>14, <2>1, <2>2, <2>3
<1>19. CASE n # 0
  <2>1. read_str(b, present) =
          LET t == IF Len(b) - 1 < b[1] THEN Absent ELSE from_utf8(SubSeq(b, 2, b[1] + 1))
          IN [name |-> t, rest |-> IF t = Absent THEN Absent ELSE SubSeq(b, b[1] + 2, Len(b))]
    BY <1>13, <1>17, <1>19, SomeNameIsRead, Zenon
  <2>2. read_str(b, present) = [name |-> text, rest |-> rest]
    BY <1>5, <1>6, <1>13, <1>15, <1>16, <1>17, <2>1
  <2>3. text = Heard(name)
    BY <1>8, <1>9, <1>19
  <2> QED
    BY <1>3, <1>14, <2>2, <2>3
<1> QED
  BY <1>18, <1>19

\* What a message of a head, two times and a tail is made of.
Framed(b, a, h1, h2, t) ==
    /\ b \in Seq(Int) /\ Len(b) >= 18 /\ b[1] = a[1] /\ b[2] = a[2]
    /\ SubSeq(b, 3, 10) = h1 /\ SubSeq(b, 11, 18) = h2 /\ SubSeq(b, 19, Len(b)) = t

(* The first two bytes of a sequence are the bytes of its first part.      *)
LEMMA FirstTwo ==
  ASSUME NEW s \in Seq(Int), Len(s) >= 2
  PROVE  s[1] = SubSeq(s, 1, 2)[1] /\ s[2] = SubSeq(s, 1, 2)[2]
<1>1. 1 \in 1 .. Len(SubSeq(s, 1, 2)) /\ 2 \in 1 .. Len(SubSeq(s, 1, 2))
  OBVIOUS
<1> QED
  BY <1>1

LEMMA FrameParts ==
  ASSUME NEW a \in Seq(Int), Len(a) = 2, NEW h1 \in Seq(Int), Len(h1) = 8, NEW h2 \in Seq(Int), Len(h2) = 8,
         NEW t \in Seq(Int), NEW b, b = a \o (h1 \o (h2 \o t))
  PROVE  Framed(b, a, h1, h2, t)
<1> DEFINE ah == a \o h1
           ahh == (a \o h1) \o h2
           ht == h2 \o t
           hht == h1 \o (h2 \o t)
<1>1. ah \in Seq(Int) /\ Len(ah) = 10 /\ ht \in Seq(Int) /\ Len(ht) = 8 + Len(t) /\ Len(t) \in Nat
  <2>1. ah \in Seq(Int) /\ Len(ah) = Len(a) + Len(h1)
    BY Concats
  <2>2. ht \in Seq(Int) /\ Len(ht) = Len(h2) + Len(t)
    BY Concats
  <2> HIDE DEF ah, ht
  <2> QED
    BY <2>1, <2>2
<1>2. ahh \in Seq(Int) /\ Len(ahh) = 18 /\ hht \in Seq(Int) /\ Len(hht) = 16 + Len(t)
  <2>1. ahh \in Seq(Int) /\ Len(ahh) = Len(ah) + Len(h2)
    BY <1>1, Concats
  <2>2. hht \in Seq(Int) /\ Len(hht) = Len(h1) + Len(ht)
    BY <1>1, Concats
  <2> HIDE DEF ah, ahh, ht, hht
  <2> QED
    BY <1>1, <2>1, <2>2
<1>3. b \in Seq(Int) /\ Len(b) = 18 + Len(t)
  <2>1. b \in Seq(Int) /\ Len(b) = Len(a) + Len(hht)
    BY <1>2, Concats
  <2> HIDE DEF hht
  <2> QED
    BY <1>1, <1>2, <2>1
<1>4. b = ah \o ht
  BY <1>1, Associative, ZenonT(30)
<1>5. b = ahh \o t
  BY <1>1, <1>4, Associative, ZenonT(30)
<1>6. SubSeq(b, 1, 2) = a
  BY <1>2, FirstOfConcat
<1>7. b[1] = a[1] /\ b[2] = a[2]
  <2>1. Len(b) >= 2
    BY <1>1, <1>3
  <2>2. b[1] = SubSeq(b, 1, 2)[1] /\ b[2] = SubSeq(b, 1, 2)[2]
    BY <1>3, <2>1, FirstTwo, Zenon
  <2> QED
    BY <1>6, <2>2, Zenon
<1>8. SubSeq(b, 3, 10) = h1
  <2> HIDE DEF ht
  <2>1. SubSeq(a \o (h1 \o ht), Len(a) + 1, Len(a) + Len(h1)) = h1
    BY <1>1, MiddleOfConcat
  <2>2. Len(a) + 1 = 3 /\ Len(a) + Len(h1) = 10
    OBVIOUS
  <2> QED
    BY <2>1, <2>2 DEF ht
<1>9. SubSeq(b, 11, 18) = h2
  <2> HIDE DEF ah
  <2>1. SubSeq(ah \o (h2 \o t), Len(ah) + 1, Len(ah) + Len(h2)) = h2
    BY <1>1, MiddleOfConcat
  <2>2. Len(ah) + 1 = 11 /\ Len(ah) + Len(h2) = 18
    BY <1>1
  <2> QED
    BY <1>4, <2>1, <2>2
<1>10. SubSeq(b, 19, Len(b)) = t
  <2> HIDE DEF ahh
  <2>1. SubSeq(ahh \o t, Len(ahh) + 1, Len(ahh \o t)) = t
    BY <1>2, FirstOfConcat
  <2>2. Len(ahh) + 1 = 19
    BY <1>2
  <2> QED
    BY <1>5, <2>1, <2>2
<1>11. Len(b) >= 18
  BY <1>1, <1>3
<1> QED
  BY <1>3, <1>7, <1>8, <1>9, <1>10, <1>11, Zenon DEF Framed

\* The mask: whether it plays, and which of the four names are there.
Present(name) == IF name = Absent THEN 0 ELSE 1
Mask(p, e1, e2, e3, e4) == p + 2 * e1 + 4 * e2 + 8 * e3 + 16 * e4
Bits == {0, 1}

LEMMA MaskRead ==
  ASSUME NEW p \in Bits, NEW e1 \in Bits, NEW e2 \in Bits, NEW e3 \in Bits, NEW e4 \in Bits
  PROVE  LET mask == Mask(p, e1, e2, e3, e4)
         IN /\ mask \in Nat /\ (mask \div 1) % 2 = p /\ (mask \div 2) % 2 = e1 /\ (mask \div 4) % 2 = e2
            /\ (mask \div 8) % 2 = e3 /\ (mask \div 16) % 2 = e4
<1> DEFINE mask == Mask(p, e1, e2, e3, e4)
<1>1. p \in Int /\ e1 \in Int /\ e2 \in Int /\ e3 \in Int /\ e4 \in Int
  BY DEF Bits
<1>2. (p = 0 \/ p = 1) /\ (e1 = 0 \/ e1 = 1) /\ (e2 = 0 \/ e2 = 1) /\ (e3 = 0 \/ e3 = 1) /\ (e4 = 0 \/ e4 = 1)
  BY DEF Bits
<1>3. mask \in Nat /\ mask = p + 2 * e1 + 4 * e2 + 8 * e3 + 16 * e4
  BY <1>1, <1>2 DEF Mask
<1> HIDE DEF mask
<1>4. (mask \div 1) % 2 = p
  BY <1>1, <1>2, <1>3, SMT
<1>5. (mask \div 2) % 2 = e1
  BY <1>1, <1>2, <1>3, SMT
<1>6. (mask \div 4) % 2 = e2
  BY <1>1, <1>2, <1>3, SMT
<1>7. (mask \div 8) % 2 = e3
  BY <1>1, <1>2, <1>3, SMT
<1>8. (mask \div 16) % 2 = e4
  BY <1>1, <1>2, <1>3, SMT
<1> QED
  BY <1>3, <1>4, <1>5, <1>6, <1>7, <1>8 DEF mask

\* A time is read as it was put.
LEMMA TimeRead ==
  ASSUME NEW v, IsTime(v)
  PROVE  (LET t == Number(Little(v, 8), TRUE) IN IF t >= 0 THEN t ELSE -1) = v
<1> DEFINE t == Number(Little(v, 8), TRUE)
<1>1. t = v
  BY EightBytes
<1> HIDE DEF t
<1>2. (IF t >= 0 THEN t ELSE -1) = v
  BY <1>1, SMT DEF IsTime
<1> QED
  BY <1>2, Zenon DEF t

\* ServerMessage::decode gives back what is playing: its state, its times, and which names there are; of each name,
\* what fits.
THEOREM NowPlayingRoundTrip ==
  ASSUME NEW p \in Bits, NEW position, IsTime(position), NEW duration, IsTime(duration),
         NEW n1, IsName(n1), NEW n2, IsName(n2), NEW n3, IsName(n3), NEW n4, IsName(n4)
  PROVE  ServerDecode(ServerEncode(NowPlaying(p, position, duration, <<n1, n2, n3, n4>>)))
           = NowPlaying(p, position, duration, <<Heard(n1), Heard(n2), Heard(n3), Heard(n4)>>)
<1> DEFINE e1 == Present(n1)
           e2 == Present(n2)
           e3 == Present(n3)
           e4 == Present(n4)
           mask == Mask(p, e1, e2, e3, e4)
           a == <<129, mask>>
           h1 == Little(position, 8)
           h2 == Little(duration, 8)
           r3 == PutName(n4)
           r2 == PutName(n3) \o r3
           r1 == PutName(n2) \o r2
           t == PutName(n1) \o r1
           b == a \o (h1 \o (h2 \o t))
           m == NowPlaying(p, position, duration, <<n1, n2, n3, n4>>)
<1>1. e1 \in Bits /\ e2 \in Bits /\ e3 \in Bits /\ e4 \in Bits
  BY DEF Present, Bits
<1>2. /\ mask \in Nat /\ (mask \div 1) % 2 = p /\ (mask \div 2) % 2 = e1 /\ (mask \div 4) % 2 = e2
      /\ (mask \div 8) % 2 = e3 /\ (mask \div 16) % 2 = e4
  BY <1>1, MaskRead
<1>3. ServerEncode(m) = b
  <2>1. m.type = "NowPlaying" /\ m.args = <<p, position, duration, <<n1, n2, n3, n4>> >>
    BY DEF NowPlaying
  <2>2. ServerEncode(m) = PutNowPlaying(m)
    BY <2>1, Zenon DEF ServerEncode
  <2> HIDE DEF m
  <2> DEFINE names == m.args[4]
             Bit(i) == IF names[i] = Absent THEN 0 ELSE <<2, 4, 8, 16>>[i]
  <2>3. m.args[1] = p /\ m.args[2] = position /\ m.args[3] = duration /\ names = <<n1, n2, n3, n4>>
    BY <2>1
  <2>4. names[1] = n1 /\ names[2] = n2 /\ names[3] = n3 /\ names[4] = n4
    BY <2>3
  <2>5. Bit(1) = 2 * e1 /\ Bit(2) = 4 * e2 /\ Bit(3) = 8 * e3 /\ Bit(4) = 16 * e4
    <3> HIDE DEF names
    <3>1. Bit(1) = 2 * e1
      BY <2>4 DEF Present
    <3>2. Bit(2) = 4 * e2
      BY <2>4 DEF Present
    <3>3. Bit(3) = 8 * e3
      BY <2>4 DEF Present
    <3>4. Bit(4) = 16 * e4
      BY <2>4 DEF Present
    <3> QED
      BY <3>1, <3>2, <3>3, <3>4
  <2>6. PutNowPlaying(m) =
          <<129, m.args[1] + Bit(1) + Bit(2) + Bit(3) + Bit(4)>> \o (Little(m.args[2], 8) \o (Little(m.args[3], 8)
            \o (PutName(names[1]) \o (PutName(names[2]) \o (PutName(names[3]) \o PutName(names[4]))))))
    BY Zenon DEF PutNowPlaying
  <2>7. m.args[1] + Bit(1) + Bit(2) + Bit(3) + Bit(4) = mask
    <3> HIDE DEF names, Bit, e1, e2, e3, e4
    <3> QED
      BY <2>3, <2>5, Zenon DEF Mask
  <2> HIDE DEF names, Bit, e1, e2, e3, e4, mask
  <2> QED
    BY <2>2, <2>3, <2>4, <2>6, <2>7, Zenon
<1>4. PutName(n4) \in Seq(Int) /\ read_str(r3, e4) = [name |-> Heard(n4), rest |-> <<>>]
  <2>1. PutName(n4) \in Seq(Int) /\ read_str(PutName(n4) \o <<>>, e4) = [name |-> Heard(n4), rest |-> <<>>]
    <3>1. <<>> \in Seq(Int) /\ e4 = IF n4 = Absent THEN 0 ELSE 1
      BY DEF Present
    <3> HIDE DEF e4
    <3> QED
      BY <3>1, NameRead
  <2>2. PutName(n4) \o <<>> = PutName(n4)
    BY <2>1, ConcatEmptySeq
  <2> QED
    BY <2>1, <2>2
<1>5. r3 \in Seq(Int)
  BY <1>4
<1> HIDE DEF r3
<1>6. PutName(n3) \in Seq(Int) /\ read_str(r2, e3) = [name |-> Heard(n3), rest |-> r3]
  BY <1>5, NameRead DEF Present
<1>7. r2 \in Seq(Int)
  BY <1>5, <1>6, Concats
<1> HIDE DEF r2
<1>8. PutName(n2) \in Seq(Int) /\ read_str(r1, e2) = [name |-> Heard(n2), rest |-> r2]
  BY <1>7, NameRead DEF Present
<1>9. r1 \in Seq(Int)
  BY <1>7, <1>8, Concats
<1> HIDE DEF r1
<1>10. PutName(n1) \in Seq(Int) /\ read_str(t, e1) = [name |-> Heard(n1), rest |-> r1]
  BY <1>9, NameRead DEF Present
<1>11. t \in Seq(Int)
  BY <1>9, <1>10, Concats
<1> HIDE DEF t, mask, e1, e2, e3, e4
<1>12. a \in Seq(Int) /\ Len(a) = 2 /\ a[1] = 129 /\ a[2] = mask
  BY <1>2
<1>13. h1 \in Seq(Int) /\ Len(h1) = 8 /\ h2 \in Seq(Int) /\ Len(h2) = 8
  BY EightBytes
<1> HIDE DEF a
<1>14. /\ b \in Seq(Int) /\ Len(b) >= 18 /\ b[1] = 129 /\ b[2] = mask
       /\ SubSeq(b, 3, 10) = h1 /\ SubSeq(b, 11, 18) = h2 /\ SubSeq(b, 19, Len(b)) = t
  <2>1. b = a \o (h1 \o (h2 \o t))
    OBVIOUS
  <2> HIDE DEF b, h1, h2
  <2>2. Framed(b, a, h1, h2, t)
    <3>1. a \in Seq(Int) /\ Len(a) = 2
      BY <1>12
    <3> QED
      BY <1>11, <1>13, <2>1, <3>1, FrameParts, Zenon
  <2> QED
    BY <1>12, <2>2 DEF Framed
<1> HIDE DEF b
<1> DEFINE flag(i) == (b[2] \div <<1, 2, 4, 8, 16>>[i]) % 2
           time(i) == LET v == Number(SubSeq(b, i, i + 7), TRUE) IN IF v >= 0 THEN v ELSE -1
           title == read_str(SubSeq(b, 19, Len(b)), flag(2))
           artist == read_str(title.rest, flag(3))
           album == read_str(artist.rest, flag(4))
           player == read_str(album.rest, flag(5))
<1>15. flag(1) = p /\ flag(2) = e1 /\ flag(3) = e2 /\ flag(4) = e3 /\ flag(5) = e4
  BY <1>2, <1>14
<1>16. time(3) = position
  <2>1. SubSeq(b, 3, 3 + 7) = h1
    BY <1>14
  <2> QED
    BY <2>1, TimeRead, Zenon
<1>17. time(11) = duration
  <2>1. SubSeq(b, 11, 11 + 7) = h2
    BY <1>14
  <2> QED
    BY <2>1, TimeRead, Zenon
<1> HIDE DEF flag, time
<1>18. title = [name |-> Heard(n1), rest |-> r1]
  BY <1>10, <1>14, <1>15
<1>19. title.name = Heard(n1) /\ title.rest = r1
  BY <1>18
<1> HIDE DEF title
<1>20. artist = [name |-> Heard(n2), rest |-> r2]
  BY <1>8, <1>15, <1>19
<1>21. artist.name = Heard(n2) /\ artist.rest = r2
  BY <1>20
<1> HIDE DEF artist
<1>22. album = [name |-> Heard(n3), rest |-> r3]
  BY <1>6, <1>15, <1>21
<1>23. album.name = Heard(n3) /\ album.rest = r3
  BY <1>22
<1> HIDE DEF album
<1>24. player = [name |-> Heard(n4), rest |-> <<>>]
  BY <1>4, <1>15, <1>23
<1>25. player.name = Heard(n4) /\ player.rest = <<>>
  BY <1>24
<1> HIDE DEF player
<1>26. ReadNowPlaying(b) =
         IF Len(b) < 18 \/ player.rest = Absent THEN Refused
         ELSE NowPlaying(flag(1), time(3), time(11), <<title.name, artist.name, album.name, player.name>>)
  BY Zenon DEF ReadNowPlaying, player, album, artist, title, time, flag
<1>27. <<>> # Absent /\ ~(Len(b) < 18)
  <2>1. <<>> # Absent
    <3>1. <<>> \in Seq(Int) /\ Absent \notin Seq(Int)
      BY WireAssumption
    <3> QED
      BY <3>1, Zenon
  <2>2. Len(b) \in Nat
    BY <1>14
  <2> QED
    BY <1>14, <2>1, <2>2
<1>28. ServerDecode(b) = ReadNowPlaying(b)
  BY <1>14 DEF ServerDecode
<1>29. ReadNowPlaying(b) = NowPlaying(p, position, duration, <<Heard(n1), Heard(n2), Heard(n3), Heard(n4)>>)
  BY <1>15, <1>16, <1>17, <1>19, <1>21, <1>23, <1>25, <1>26, <1>27, Zenon
<1> QED
  BY <1>3, <1>28, <1>29, Zenon

---------------------------------------------------------------------------
(* What the protocol's messages are for.                                   *)

\* A message of one text, and one without fields.
LEMMA TextMessage ==
  ASSUME NEW table, NEW type \in DOMAIN table, table[type][2] = <<"text">>, NEW t, IsText(t)
  PROVE  IsMessage(table, [type |-> type, args |-> <<t>>])
<1> DEFINE m == [type |-> type, args |-> <<t>>]
<1>1. m.type = type /\ m.args = <<t>>
  OBVIOUS
<1>2. Len(table[type][2]) = 1 /\ table[type][2] \in Seq(FieldKinds) /\ table[type][2][1] = "text" /\ Len(<<t>>) = 1 /\ <<t>>[1] = t
  <2>1. <<"text">> \in Seq(FieldKinds) /\ Len(<<"text">>) = 1 /\ <<"text">>[1] = "text"
    <3>1. \A S : \A x \in S : <<x>> \in Seq(S) /\ Len(<<x>>) = 1 /\ <<x>>[1] = x
      OBVIOUS
    <3>2. "text" \in FieldKinds
      BY DEF FieldKinds
    <3> QED
      BY <3>1, <3>2, Zenon
  <2>2. Len(<<t>>) = 1 /\ <<t>>[1] = t
    OBVIOUS
  <2> QED
    BY <2>1, <2>2, Zenon
<1>3. Fits("text", t)
  BY DEF Fits
<1>4. Fields(table[type][2], <<t>>)
  BY <1>2, <1>3 DEF Fields
<1>5. <<t>> = [i \in 1 .. 1 |-> <<t>>[i]]
  OBVIOUS
<1>6. m = [type |-> m.type, args |-> [i \in 1 .. Len(table[m.type][2]) |-> m.args[i]]]
  BY <1>1, <1>2, <1>5
<1> QED
  BY <1>1, <1>4, <1>6 DEF IsMessage

LEMMA PlainMessage ==
  ASSUME NEW table, NEW type \in DOMAIN table, table[type][2] = <<>>
  PROVE  IsMessage(table, [type |-> type, args |-> <<>>])
<1> DEFINE m == [type |-> type, args |-> <<>>]
<1>1. m.type = type /\ m.args = <<>>
  OBVIOUS
<1>2. Len(table[type][2]) = 0 /\ table[type][2] \in Seq(FieldKinds)
  OBVIOUS
<1>3. Fields(table[type][2], <<>>)
  BY <1>2 DEF Fields
<1>4. m = [type |-> m.type, args |-> [i \in 1 .. Len(table[m.type][2]) |-> m.args[i]]]
  BY <1>1, <1>2
<1> QED
  BY <1>1, <1>3, <1>4 DEF IsMessage

\* String::from_utf8 gives back the text whose bytes it is given (telepad-protocol/src/lib.rs, the text fields).
THEOREM TextRoundTrip == ASSUME NEW t, IsText(t) PROVE from_utf8(as_bytes(t)) = t
BY TextRead DEF from_utf8

\* ClientMessage::decode gives back every message ClientMessage::encode has not refused: whatever its type, and
\* for every value its fields hold.
THEOREM ClientRoundTrip ==
  ASSUME NEW m, IsMessage(ClientLayout, m), ClientEncode(m) # <<>> PROVE ClientDecode(ClientEncode(m)) = m
BY RoundTrip, ClientTable DEF ClientEncode, ClientDecode

\* encode refuses no message but one whose text is longer than a length of sixteen bits can say.
THEOREM ShortIsEncoded ==
  ASSUME NEW m, IsMessage(ClientLayout, m), AllShort(ClientLayout[m.type][2], m.args) PROVE ClientEncode(m) # <<>>
BY Encoded, ClientTable DEF ClientEncode

\* The same of ServerMessage, for the clipboard's text and the description of the PC.
THEOREM ServerRoundTrip ==
  ASSUME NEW m, IsMessage(ServerLayout, m), ServerEncode(m) # <<>> PROVE ServerDecode(ServerEncode(m)) = m
<1> DEFINE b == encode(ServerLayout, m)
<1>1. m.type \in {"ClipboardData", "HostInfo"}
  BY DEF IsMessage, ServerLayout
<1>2. ServerEncode(m) = b
  BY <1>1 DEF ServerEncode
<1>3. b # <<>>
  BY <1>2
<1>4. b[1] = ServerLayout[m.type][1]
  BY <1>3, Encoded, ServerTable
<1>5. ServerLayout["ClipboardData"][1] = 128 /\ ServerLayout["HostInfo"][1] = 130
  BY DEF ServerLayout
<1>6. b[1] # 129
  BY <1>1, <1>4, <1>5
<1>7. decode(ServerLayout, b) = m
  BY <1>3, RoundTrip, ServerTable
<1> HIDE DEF b
<1>8. ServerDecode(b) = decode(ServerLayout, b)
  BY <1>6 DEF ServerDecode
<1> QED
  BY <1>2, <1>7, <1>8

---------------------------------------------------------------------------
(***************************************************************************)
(* Link: from the handshake to the answer.                                 *)
(***************************************************************************)

Requests == {"ClipboardGet", "NowPlayingQuery", "HostInfoQuery"}
PhoneMessages == {Message("ClipboardSet", <<t>>) : t \in Texts} \cup {Message(q, <<>>) : q \in Requests}

LEMMA PhoneCodec ==
  ASSUME NEW m \in PhoneMessages, ClientEncode(m) # <<>> PROVE ClientDecode(ClientEncode(m)) = m
<1>1. IsMessage(ClientLayout, m)
  <2>1. /\ {"ClipboardSet", "ClipboardGet", "NowPlayingQuery", "HostInfoQuery"} \subseteq DOMAIN ClientLayout
        /\ ClientLayout["ClipboardSet"][2] = <<"text">> /\ ClientLayout["ClipboardGet"][2] = <<>>
        /\ ClientLayout["NowPlayingQuery"][2] = <<>> /\ ClientLayout["HostInfoQuery"][2] = <<>>
    BY DEF ClientLayout
  <2>2. CASE \E t \in Texts : m = Message("ClipboardSet", <<t>>)
    <3>1. PICK t \in Texts : m = Message("ClipboardSet", <<t>>)
      BY <2>2
    <3>2. IsText(t)
      BY LinkAssumption
    <3>3. IsMessage(ClientLayout, [type |-> "ClipboardSet", args |-> <<t>>])
      BY <2>1, <3>2, TextMessage
    <3> QED
      BY <3>1, <3>3 DEF Message
  <2>3. CASE \E q \in Requests : m = Message(q, <<>>)
    <3>1. PICK q \in Requests : m = Message(q, <<>>)
      BY <2>3
    <3>2. q \in DOMAIN ClientLayout /\ ClientLayout[q][2] = <<>>
      BY <2>1 DEF Requests
    <3>3. IsMessage(ClientLayout, [type |-> q, args |-> <<>>])
      BY <3>2, PlainMessage
    <3> QED
      BY <3>1, <3>3 DEF Message
  <2> QED
    BY <2>2, <2>3 DEF PhoneMessages
<1> QED
  BY <1>1, ClientRoundTrip

\* A session that has ended is sent nothing more.
LEMMA EndedStep == EndedHearsNothing /\ [Next]_vars => EndedHearsNothing'
<1> SUFFICES ASSUME EndedHearsNothing, [Next]_vars PROVE EndedHearsNothing'
  OBVIOUS
<1>2. \A a, k, m : \A d \in send_reply(a, k, m) : d.addr = a /\ d.key = sessions[a]
  BY DEF send_reply, Sealed, Datagram
<1>3. ASSUME out' = {} PROVE EndedHearsNothing'
  BY <1>3 DEF EndedHearsNothing
<1>4. ASSUME sessions' = sessions, NEW a, NEW k, NEW m, out' = send_reply(a, k, m) PROVE EndedHearsNothing'
  BY <1>2, <1>4 DEF EndedHearsNothing
<1>5. CASE Receive
  <2>1. PICK d \in net : handshake(d) \/ transport(d)
    BY <1>5 DEF Receive
  <2>2. CASE handshake(d)
    BY <1>3, <2>2 DEF handshake
  <2>3. CASE transport(d)
    <3> DEFINE m == ClientDecode(d.body)
    <3>1. Dispatch(d, m) /\ sessions' = sessions
      BY <2>3 DEF transport
    <3> HIDE DEF m
    <3>2. \/ out' = {}
          \/ out' = send_reply(d.addr, d.key, NothingPlaying)
          \/ out' = send_reply(d.addr, d.key, host_info)
      BY <3>1, Zenon DEF Dispatch
    <3> QED
      BY <1>3, <1>4, <3>1, <3>2
  <2> QED
    BY <2>1, <2>2, <2>3
<1>6. CASE Answer
  BY <1>4, <1>6 DEF Answer
<1>7. CASE UNCHANGED vars
  BY <1>7 DEF vars, EndedHearsNothing
<1> QED
  BY <1>3, <1>5, <1>6, <1>7 DEF Next

---------------------------------------------------------------------------
(* What is on its way to the server.                                       *)

FromPhones == {d \in net : d.to = "server"}

\* What the phones have sent, one datagram for each number.
Sound(d) ==
  /\ d.addr \in Addrs
  /\ \/ d.tag = WIRE_HANDSHAKE_INIT /\ d.meant.type \in Phones
     \/ d.tag = WIRE_TRANSPORT /\ d.meant \in PhoneMessages /\ ClientDecode(d.body) = d.meant
NetInv ==
  /\ \A d \in FromPhones : Sound(d) /\ d.nonce \in 1 .. sent
  /\ \A d, e \in FromPhones : d.nonce = e.nonce => d = e

\* The numbers of the packets the server has accepted, each under the keys it was sent under.
Accepted == UNION {keys[k].accepted : k \in DOMAIN keys}
AcceptedInv ==
  /\ Accepted \subseteq 1 .. sent
  /\ \A d \in FromPhones : d.nonce \in Accepted => d.key \in DOMAIN keys /\ d.nonce \in keys[d.key].accepted

LEMMA TagsDiffer ==
  /\ WIRE_HANDSHAKE_INIT # WIRE_TRANSPORT
  /\ WIRE_HANDSHAKE_RESP # WIRE_PAIRING_REJECTED
BY DEF WIRE_HANDSHAKE_INIT, WIRE_TRANSPORT, WIRE_HANDSHAKE_RESP, WIRE_PAIRING_REJECTED

\* What a step may do to the datagrams of the phones and to the packets accepted: nothing, or add one of either.
Extends == \A k \in DOMAIN keys : k \in DOMAIN keys' /\ keys[k].accepted \subseteq keys'[k].accepted
Steady == FromPhones' = FromPhones /\ sent' = sent /\ Accepted' = Accepted /\ Extends
Sends(d) ==
  /\ d.to = "server" /\ Sound(d) /\ d.nonce = sent + 1 /\ sent' = sent + 1
  /\ FromPhones' = FromPhones \cup {d} /\ Accepted' = Accepted /\ Extends
Takes(d) ==
  /\ d \in FromPhones /\ d.tag = WIRE_TRANSPORT /\ d.nonce \notin Accepted
  /\ FromPhones' = FromPhones /\ sent' = sent /\ Accepted' = Accepted \cup {d.nonce} /\ Extends
  /\ d.key \in DOMAIN keys' /\ d.nonce \in keys'[d.key].accepted

LEMMA SteadyNet == TypeOK /\ NetInv /\ AcceptedInv /\ Steady => NetInv' /\ AcceptedInv'
BY DEF NetInv, AcceptedInv, Steady, Extends

LEMMA SendsNet ==
  ASSUME TypeOK, NetInv, AcceptedInv, NEW d, Sends(d) PROVE NetInv' /\ AcceptedInv'
<1>1. sent \in Nat /\ sent' = sent + 1 /\ d.nonce = sent + 1
  BY LinkAssumption DEF TypeOK, Sends
<1>2. NetInv'
  BY <1>1 DEF NetInv, Sends
<1>3. AcceptedInv'
  BY <1>1 DEF AcceptedInv, NetInv, Sends, Extends
<1> QED
  BY <1>2, <1>3

LEMMA TakesNet ==
  ASSUME TypeOK, NetInv, AcceptedInv, NEW d, Takes(d) PROVE NetInv' /\ AcceptedInv'
<1>1. NetInv'
  BY DEF NetInv, Takes
<1>2. AcceptedInv'
  BY DEF AcceptedInv, NetInv, Takes, Extends
<1> QED
  BY <1>1, <1>2

LEMMA SameKeys == keys' = keys => Extends /\ Accepted' = Accepted
BY DEF Extends, Accepted

\* What a phone sends arrives only at the server.
LEMMA SaySends ==
  ASSUME TypeOK, NEW p \in Phones, NEW m \in PhoneMessages, Say(p, m)
  PROVE  \E d : Sends(d) /\ d.tag = WIRE_TRANSPORT /\ d.meant = m
<1> DEFINE d == Datagram("server", link[p].addr, WIRE_TRANSPORT, link[p].key, sent + 1, m, ClientEncode(m))
<1>1. net' = net \cup {d} /\ sent' = sent + 1 /\ keys' = keys /\ ClientEncode(m) # <<>>
  BY DEF Say
<1>2. /\ d.to = "server" /\ d.tag = WIRE_TRANSPORT /\ d.meant = m /\ d.nonce = sent + 1
      /\ d.addr = link[p].addr /\ d.body = ClientEncode(m)
  BY DEF Datagram
<1> HIDE DEF d
<1>3. d.addr \in Addrs
  BY <1>2 DEF TypeOK
<1>4. Sound(d)
  BY <1>1, <1>2, <1>3, PhoneCodec DEF Sound
<1>5. FromPhones' = FromPhones \cup {d}
  BY <1>1, <1>2 DEF FromPhones
<1> QED
  BY <1>1, <1>2, <1>4, <1>5, SameKeys DEF Sends

LEMMA HelloSends ==
  ASSUME TypeOK, NEW p \in Phones, Hello(p)
  PROVE  \E d : Sends(d) /\ d.tag = WIRE_HANDSHAKE_INIT
<1> DEFINE d == Datagram("server", link[p].addr, WIRE_HANDSHAKE_INIT, 0, sent + 1, Message(p, <<>>), <<>>)
<1>1. net' = net \cup {d} /\ sent' = sent + 1 /\ keys' = keys
  BY DEF Hello
<1>2. d.to = "server" /\ d.tag = WIRE_HANDSHAKE_INIT /\ d.meant.type = p /\ d.nonce = sent + 1 /\ d.addr = link[p].addr
  BY DEF Datagram, Message
<1> HIDE DEF d
<1>3. d.addr \in Addrs
  BY <1>2 DEF TypeOK
<1>4. Sound(d)
  BY <1>2, <1>3 DEF Sound
<1>5. FromPhones' = FromPhones \cup {d}
  BY <1>1, <1>2 DEF FromPhones
<1> QED
  BY <1>1, <1>2, <1>4, <1>5, SameKeys DEF Sends

LEMMA HandshakeSteady ==
  ASSUME TypeOK, NEW d \in net, handshake(d) PROVE Steady
<1> DEFINE new == respond_handshake_with_payload(d)
<1>1. sent' = sent
  BY DEF handshake, phones
<1>2. FromPhones' = FromPhones
  <2>1. \E e : e.to = "phone" /\ net' = net \cup {e}
    <3>1. \A a, tag, k, n, m, b : Datagram("phone", a, tag, k, n, m, b).to = "phone"
      BY DEF Datagram
    <3> QED
      BY <3>1 DEF handshake
  <2> QED
    BY <2>1 DEF FromPhones
<1>3. keys' = keys \/ keys' = Append(keys, new)
  BY DEF handshake
<1>4. CASE keys' = Append(keys, new)
  <2>1. new.accepted = {}
    BY DEF respond_handshake_with_payload
  <2> HIDE DEF new
  <2>2. keys \in Seq([phone : Phones, init : 1 .. MaxSends, accepted : SUBSET (1 .. MaxSends)])
    BY DEF TypeOK
  <2>3. /\ DOMAIN keys' = DOMAIN keys \cup {Len(keys) + 1} /\ keys'[Len(keys) + 1] = new
        /\ \A k \in DOMAIN keys : keys'[k] = keys[k]
    BY <1>4, <2>2
  <2>4. Accepted' = Accepted
    BY <2>1, <2>3, ZenonT(30) DEF Accepted
  <2>5. Extends
    BY <2>3 DEF Extends
  <2> QED
    BY <1>1, <1>2, <2>4, <2>5 DEF Steady
<1> QED
  BY <1>1, <1>2, <1>3, <1>4, SameKeys DEF Steady

LEMMA TransportTakes ==
  ASSUME TypeOK, NetInv, AcceptedInv, NEW d \in FromPhones, transport(d)
  PROVE  Takes(d) /\ Dispatch(d, d.meant) /\ d.meant \in PhoneMessages
<1> DEFINE k == sessions[d.addr]
<1>1. /\ d.tag = WIRE_TRANSPORT /\ k # 0 /\ d.key = k /\ d.nonce \notin keys[k].accepted
      /\ keys' = [keys EXCEPT ![k].accepted = @ \cup {d.nonce}]
      /\ Dispatch(d, ClientDecode(d.body)) /\ net' = net /\ sent' = sent
  BY DEF transport, phones
<1>2. d.meant \in PhoneMessages /\ ClientDecode(d.body) = d.meant
  BY <1>1, TagsDiffer DEF NetInv, Sound
<1>3. k \in DOMAIN keys
  <2>1. d.addr \in Addrs
    BY DEF NetInv, Sound
  <2>2. keys \in Seq([phone : Phones, init : 1 .. MaxSends, accepted : SUBSET (1 .. MaxSends)])
    BY DEF TypeOK
  <2> QED
    BY <1>1, <2>1, <2>2 DEF TypeOK
<1>4. /\ DOMAIN keys' = DOMAIN keys /\ keys'[k].accepted = keys[k].accepted \cup {d.nonce}
      /\ \A j \in DOMAIN keys : j # k => keys'[j] = keys[j]
  <2>1. keys \in Seq([phone : Phones, init : 1 .. MaxSends, accepted : SUBSET (1 .. MaxSends)])
    BY DEF TypeOK
  <2> DEFINE Each == [phone : Phones, init : 1 .. MaxSends, accepted : SUBSET (1 .. MaxSends)]
  <2>2. keys[k] \in Each
    <3>1. keys \in Seq(Each)
      BY <2>1
    <3> HIDE DEF Each, k
    <3> QED
      BY <3>1, <1>3
  <2> HIDE DEF k
  <2> QED
    BY <1>1, <1>3, <2>2
<1> HIDE DEF k
<1>5. Accepted' = Accepted \cup {d.nonce}
  BY <1>3, <1>4, Zenon DEF Accepted
<1>6. Extends
  BY <1>3, <1>4 DEF Extends
<1>7. d.nonce \notin Accepted
  BY <1>1 DEF AcceptedInv
<1>8. FromPhones' = FromPhones
  BY <1>1 DEF FromPhones
<1> QED
  BY <1>1, <1>2, <1>3, <1>4, <1>5, <1>6, <1>7, <1>8 DEF Takes

---------------------------------------------------------------------------
(* Types.                                                                  *)

Key == [phone : Phones, init : 1 .. MaxSends, accepted : SUBSET (1 .. MaxSends)]
Entry == [id : 0 .. MaxSends, text : Texts \cup {Absent}]
Task == [id : 1 .. MaxSends, addr : Addrs, key : 1 .. MaxKeys, text : Texts \cup {Absent},
         stage : {"spawned", "waiting", "answered"}, stale : SUBSET Texts]

PhonesTyped ==
  /\ sent \in 0 .. MaxSends
  /\ link \in [Phones -> [addr : Addrs, init : 0 .. MaxSends, key : 0 .. MaxKeys]]
  /\ fresh \subseteq Texts
KeysTyped ==
  /\ keys \in Seq(Key) /\ Len(keys) =< MaxKeys
  /\ sessions \in [Addrs -> 0 .. Len(keys)]
  /\ paired \subseteq Phones
PcTyped ==
  /\ opened \in BOOLEAN
  /\ clipboard \in Texts \cup {Absent}
  /\ queue \in Seq(Entry) /\ gets \subseteq Task
  /\ old \subseteq Texts
\* The answers to handshakes name keys the server has made.
AnswersInv == \A d \in net : d.to = "phone" /\ d.tag = WIRE_HANDSHAKE_RESP => d.key \in 1 .. Len(keys)
Typed == PhonesTyped /\ KeysTyped /\ PcTyped /\ AnswersInv

LEMMA TypedIsTypeOK == Typed => TypeOK
BY DEF Typed, TypeOK, PhonesTyped, KeysTyped, PcTyped, Key, Entry, Task

LEMMA PhonesStep ==
  ASSUME Typed, Next PROVE PhonesTyped'
<1>1. PhonesTyped
  BY DEF Typed
<1>2. CASE \E p \in Phones : Hello(p)
  <2>1. PICK p \in Phones : Hello(p)
    BY <1>2
  <2>2. sent + 1 \in 0 .. MaxSends /\ 0 \in 0 .. MaxKeys /\ sent' = sent + 1 /\ fresh' = fresh
    BY <1>1, <2>1, LinkAssumption DEF Hello, PhonesTyped
  <2>3. link' \in [Phones -> [addr : Addrs, init : 0 .. MaxSends, key : 0 .. MaxKeys]]
    BY <1>1, <2>1, <2>2 DEF Hello, PhonesTyped
  <2> QED
    BY <1>1, <2>2, <2>3 DEF PhonesTyped
<1>3. CASE \E p \in Phones : HearHandshake(p)
  <2>1. PICK p \in Phones, d \in net :
          /\ d.to = "phone"
          /\ \/ d.tag = WIRE_HANDSHAKE_RESP /\ link' = [link EXCEPT ![p].key = d.key]
             \/ link' = [link EXCEPT ![p].init = 0]
          /\ sent' = sent /\ fresh' = fresh
    BY <1>3 DEF HearHandshake
  <2>2. d.tag = WIRE_HANDSHAKE_RESP => d.key \in 0 .. MaxKeys
    <3>1. Len(keys) =< MaxKeys /\ Len(keys) \in Nat /\ MaxKeys \in Nat
      BY LinkAssumption DEF Typed, KeysTyped
    <3> QED
      BY <2>1, <3>1 DEF Typed, AnswersInv
  <2>3. 0 \in 0 .. MaxSends
    BY LinkAssumption
  <2>4. link' \in [Phones -> [addr : Addrs, init : 0 .. MaxSends, key : 0 .. MaxKeys]]
    BY <1>1, <2>1, <2>2, <2>3 DEF PhonesTyped
  <2> QED
    BY <1>1, <2>1, <2>4 DEF PhonesTyped
<1>4. CASE \E p \in Phones : SayText(p) \/ Ask(p)
  <2>1. sent < MaxSends /\ sent' = sent + 1 /\ link' = link /\ fresh' \subseteq fresh
    BY <1>4 DEF SayText, Ask, Say
  <2> QED
    BY <1>1, <2>1, LinkAssumption DEF PhonesTyped
<1>5. CASE Receive
  <2>1. UNCHANGED phones
    BY <1>5 DEF Receive, handshake, transport
  <2> QED
    BY <1>1, <2>1 DEF phones, PhonesTyped
<1>6. CASE forget_all \/ expire_idle \/ Asks \/ Serve \/ GiveUp \/ Answer
  <2>1. UNCHANGED phones
    BY <1>6 DEF forget_all, expire_idle, Asks, Serve, GiveUp, Answer
  <2> QED
    BY <1>1, <2>1 DEF phones, PhonesTyped
<1>7. CASE Copy
  BY <1>1, <1>7 DEF Copy, PhonesTyped
<1> QED
  BY <1>2, <1>3, <1>4, <1>5, <1>6, <1>7 DEF Next, Silent

LEMMA KeysStep ==
  ASSUME Typed, NetInv, Next PROVE KeysTyped' /\ AnswersInv'
<1>1. KeysTyped /\ AnswersInv
  BY DEF Typed
<1>2. keys \in Seq(Key) /\ Len(keys) \in Nat /\ sent \in 0 .. MaxSends /\ MaxKeys \in Nat /\ MaxSends \in Nat
  BY LinkAssumption DEF Typed, KeysTyped, PhonesTyped
<1>3. ASSUME NEW d \in net, d.to = "server", handshake(d) PROVE KeysTyped' /\ AnswersInv'
  <2> DEFINE new == respond_handshake_with_payload(d)
  <2>1. d \in FromPhones /\ d.tag = WIRE_HANDSHAKE_INIT
    BY <1>3 DEF FromPhones, handshake
  <2>2. d.meant.type \in Phones /\ d.addr \in Addrs /\ d.nonce \in 1 .. MaxSends
    BY <1>2, <2>1, TagsDiffer DEF NetInv, Sound
  <2>3. new \in Key
    BY <2>2 DEF respond_handshake_with_payload, Key
  <2>4. new.phone = d.meant.type
    BY DEF respond_handshake_with_payload
  <2>5. \A a, tag, k, n, m, b : /\ Datagram("phone", a, tag, k, n, m, b).key = k
                                /\ Datagram("phone", a, tag, k, n, m, b).tag = tag
    BY DEF Datagram
  <2> HIDE DEF new
  <2>6. CASE /\ Len(keys) < MaxKeys /\ paired' = paired \cup {new.phone} /\ keys' = Append(keys, new)
             /\ sessions' = [sessions EXCEPT ![d.addr] = Len(keys')]
             /\ \E e : net' = net \cup {e} /\ e.key = Len(keys')
    <3>1. keys' \in Seq(Key) /\ Len(keys') = Len(keys) + 1
      BY <1>2, <2>3, <2>6
    <3>2. KeysTyped'
      BY <1>1, <1>2, <2>2, <2>4, <2>6, <3>1 DEF KeysTyped
    <3>3. AnswersInv'
      BY <1>1, <1>2, <2>6, <3>1 DEF AnswersInv
    <3> QED
      BY <3>2, <3>3
  <2>7. CASE /\ UNCHANGED <<paired, keys, sessions>>
             /\ \E e : net' = net \cup {e} /\ e.tag = WIRE_PAIRING_REJECTED
    <3>1. KeysTyped'
      BY <1>1, <2>7 DEF KeysTyped
    <3>2. AnswersInv'
      BY <1>1, <2>7, TagsDiffer DEF AnswersInv
    <3> QED
      BY <3>1, <3>2
  <2> QED
    BY <1>3, <2>5, <2>6, <2>7 DEF handshake, new
<1>4. ASSUME NEW d \in net, d.to = "server", transport(d) PROVE KeysTyped' /\ AnswersInv'
  <2> DEFINE k == sessions[d.addr]
  <2>1. d.nonce \in 1 .. MaxSends /\ d.addr \in Addrs
    BY <1>2, <1>4 DEF FromPhones, NetInv, Sound
  <2>2. /\ k # 0 /\ keys' = [keys EXCEPT ![k].accepted = @ \cup {d.nonce}]
        /\ net' = net /\ sessions' = sessions /\ paired' = paired
    BY <1>4 DEF transport
  <2>3. k \in DOMAIN keys
    BY <1>1, <1>2, <2>1, <2>2 DEF KeysTyped
  <2> HIDE DEF k
  <2>4. keys[k] \in Key
    BY <1>2, <2>3
  <2>5. [keys[k] EXCEPT !.accepted = @ \cup {d.nonce}] \in Key
    BY <2>1, <2>4 DEF Key
  <2>6. keys' \in Seq(Key) /\ Len(keys') = Len(keys)
    BY <1>2, <2>2, <2>3, <2>5
  <2>7. KeysTyped'
    BY <1>1, <2>2, <2>6 DEF KeysTyped
  <2>8. AnswersInv'
    BY <1>1, <2>2, <2>6 DEF AnswersInv
  <2> QED
    BY <2>7, <2>8
<1>5. CASE Receive
  BY <1>3, <1>4, <1>5 DEF Receive
<1>6. ASSUME keys' = keys, paired' \subseteq Phones, \A d \in net' : d \in net \/ d.to = "server",
             sessions' \in [Addrs -> 0 .. Len(keys)]
      PROVE  KeysTyped' /\ AnswersInv'
  BY <1>1, <1>6 DEF KeysTyped, AnswersInv
<1>7. CASE \E p \in Phones : Hello(p) \/ HearHandshake(p) \/ SayText(p) \/ Ask(p)
  <2>1. \A a, tag, k, n, m, b : Datagram("server", a, tag, k, n, m, b).to = "server"
    BY DEF Datagram
  <2>2. keys' = keys /\ sessions' = sessions /\ paired' = paired
    BY <1>7 DEF Hello, HearHandshake, SayText, Ask, Say
  <2>3. net' = net \/ \E d : net' = net \cup {d} /\ d.to = "server"
    <3>1. CASE \E p \in Phones : SayText(p) \/ Ask(p)
      <4>1. PICK p \in Phones : \E m : Say(p, m)
        BY <3>1 DEF SayText, Ask
      <4> QED
        BY <2>1, <4>1 DEF Say
    <3>2. CASE \E p \in Phones : Hello(p) \/ HearHandshake(p)
      BY <2>1, <3>2 DEF Hello, HearHandshake
    <3> QED
      BY <1>7, <3>1, <3>2
  <2> QED
    BY <1>1, <1>6, <2>2, <2>3 DEF KeysTyped
<1>8. CASE forget_all
  <2>1. 0 \in 0 .. Len(keys)
    BY <1>2
  <2> QED
    BY <1>1, <1>6, <1>8, <2>1 DEF forget_all, KeysTyped
<1>9. CASE expire_idle
  <2>1. 0 \in 0 .. Len(keys)
    BY <1>2
  <2>2. PICK a \in Addrs : sessions' = [sessions EXCEPT ![a] = 0]
    BY <1>9 DEF expire_idle
  <2>3. sessions' \in [Addrs -> 0 .. Len(keys)]
    BY <1>1, <2>1, <2>2 DEF KeysTyped
  <2> QED
    BY <1>1, <1>6, <1>9, <2>3 DEF expire_idle, KeysTyped
<1>10. CASE Asks \/ Serve \/ GiveUp \/ Answer \/ Copy
  <2>1. UNCHANGED <<net, keys, sessions, paired>>
    BY <1>10 DEF Asks, Serve, GiveUp, Answer, Copy
  <2> QED
    BY <1>1, <1>6, <2>1 DEF KeysTyped
<1> QED
  BY <1>5, <1>7, <1>8, <1>9, <1>10 DEF Next, Silent

\* What a message of a phone does to the clipboard's side.
TextOf(m, text) == m.type = "ClipboardSet" /\ m.args = <<text>>

LEMMA DispatchCases ==
  ASSUME NEW d, NEW m \in PhoneMessages, Dispatch(d, m)
  PROVE  \/ \E text \in Texts : TextOf(m, text) /\ set(text) /\ UNCHANGED gets
         \/ m.type # "ClipboardSet" /\ spawn(d) /\ UNCHANGED <<queue, old>>
         \/ m.type # "ClipboardSet" /\ UNCHANGED <<queue, gets, old>>
<1>1. CASE \E text \in Texts : m = Message("ClipboardSet", <<text>>)
  <2>1. PICK text \in Texts : m = Message("ClipboardSet", <<text>>)
    BY <1>1
  <2>2. m.type = "ClipboardSet" /\ m.args = <<text>> /\ m.args[1] = text
    BY <2>1 DEF Message
  <2>3. set(m.args[1]) /\ UNCHANGED gets
    BY <2>2, Zenon DEF Dispatch
  <2> QED
    BY <2>2, <2>3 DEF TextOf
<1>2. CASE \E q \in Requests : m = Message(q, <<>>)
  <2>1. PICK q \in Requests : m.type = q
    BY <1>2 DEF Message
  <2>2. m.type # "ClipboardSet"
    BY <2>1 DEF Requests
  <2>3. CASE m.type = "ClipboardGet"
    BY <2>2, <2>3, Zenon DEF Dispatch
  <2>4. CASE m.type # "ClipboardGet"
    BY <2>2, <2>4, Zenon DEF Dispatch
  <2> QED
    BY <2>3, <2>4
<1> QED
  BY <1>1, <1>2 DEF PhoneMessages

LEMMA SetTyped == ASSUME PcTyped, NEW text \in Texts, set(text), UNCHANGED <<opened, clipboard, gets>> PROVE PcTyped'
<1> DEFINE r == [id |-> 0, text |-> text]
<1>1. 0 \in 0 .. MaxSends
  BY LinkAssumption
<1>2. r \in Entry
  BY <1>1 DEF Entry
<1>3. queue' \in Seq(Entry)
  <2> HIDE DEF r
  <2>1. queue' = Append(queue, r)
    BY DEF set, r
  <2> QED
    BY <1>2, <2>1 DEF PcTyped
<1>4. old' \subseteq Texts
  <2>1. \A i \in DOMAIN queue : queue[i] \in Entry
    BY DEF PcTyped
  <2>2. \A i \in DOMAIN queue : queue[i].text \in Texts \cup {Absent}
    BY <2>1 DEF Entry
  <2> QED
    BY <2>2 DEF set, PcTyped
<1> QED
  BY <1>3, <1>4 DEF PcTyped

LEMMA PcStep ==
  ASSUME Typed, NetInv, AcceptedInv, Next PROVE PcTyped'
<1>1. PcTyped /\ MaxSends \in Nat /\ MaxKeys \in Nat
  BY LinkAssumption DEF Typed
<1>2. CASE Receive
  <2>1. PICK d \in FromPhones : handshake(d) \/ transport(d)
    BY <1>2 DEF Receive, FromPhones
  <2>2. CASE handshake(d)
    BY <1>1, <2>2 DEF handshake, pc, PcTyped
  <2>3. CASE transport(d)
    <3>1. Dispatch(d, d.meant) /\ d.meant \in PhoneMessages
      BY <2>3, TransportTakes, TypedIsTypeOK
    <3>2. UNCHANGED <<opened, clipboard>> /\ d.key = sessions[d.addr] /\ d.key # 0
      BY <2>3 DEF transport
    <3>3. d.nonce \in 1 .. MaxSends /\ d.addr \in Addrs
      BY <1>1 DEF NetInv, Sound, Typed, PhonesTyped
    <3>4. d.key \in 1 .. MaxKeys
      BY <1>1, <3>2, <3>3 DEF Typed, KeysTyped
    <3>5. CASE spawn(d) /\ UNCHANGED <<queue, old>>
      <4> DEFINE g == [id |-> d.nonce, addr |-> d.addr, key |-> d.key, stage |-> "spawned", text |-> Absent,
                       stale |-> old]
      <4>1. g \in Task
        BY <1>1, <3>3, <3>4 DEF PcTyped, Task
      <4>2. gets' = gets \cup {g}
        BY <3>5 DEF spawn
      <4> HIDE DEF g
      <4> QED
        BY <1>1, <3>2, <3>5, <4>1, <4>2 DEF PcTyped
    <3>6. CASE UNCHANGED <<queue, gets, old>>
      BY <1>1, <3>2, <3>6 DEF PcTyped
    <3> QED
      BY <1>1, <3>1, <3>2, <3>5, <3>6, DispatchCases, SetTyped
  <2> QED
    BY <2>1, <2>2, <2>3
<1>3. ASSUME NEW g \in gets, NEW stage \in {"spawned", "waiting", "answered"}
      PROVE  [g EXCEPT !.stage = stage] \in Task /\ g \in Task
  BY <1>1 DEF PcTyped, Task
<1>4. CASE Asks
  <2>1. PICK g \in gets : /\ queue' = Append(queue, [id |-> g.id, text |-> Absent])
                          /\ gets' = (gets \ {g}) \cup {[g EXCEPT !.stage = "waiting"]}
                          /\ UNCHANGED <<opened, clipboard, old>>
    BY <1>4 DEF Asks, Stage
  <2>2. g.id \in 0 .. MaxSends
    <3>1. g \in Task
      BY <1>1 DEF PcTyped
    <3> QED
      BY <1>1, <3>1 DEF Task
  <2>3. [id |-> g.id, text |-> Absent] \in Entry
    BY <2>2 DEF Entry
  <2>4. queue' \in Seq(Entry)
    BY <1>1, <2>1, <2>3 DEF PcTyped
  <2>5. gets' \subseteq Task
    BY <1>1, <1>3, <2>1 DEF PcTyped
  <2> QED
    BY <1>1, <2>1, <2>4, <2>5 DEF PcTyped
<1>5. CASE Serve
  <2> DEFINE r == Head(queue)
  <2>1. /\ queue # <<>> /\ queue' = Tail(queue) /\ opened' \in BOOLEAN
        /\ SetText(r.text) \/ GetText(r.id)
    BY <1>5 DEF Serve
  <2>2. queue' \in Seq(Entry) /\ r \in Entry
    BY <1>1, <2>1 DEF PcTyped
  <2>3. r.text \in Texts \cup {Absent}
    BY <2>2 DEF Entry
  <2> HIDE DEF r
  <2>4. CASE Kept
    <3>1. \A g \in gets : [g EXCEPT !.stale = @ \ {clipboard}] \in Task
      BY <1>1 DEF PcTyped, Task
    <3>2. gets' \subseteq Task
      BY <2>4, <3>1 DEF Kept
    <3> QED
      BY <1>1, <2>1, <2>2, <2>4, <3>2 DEF PcTyped, Kept
  <2>5. CASE clipboard' = r.text /\ UNCHANGED <<gets, old>>
    BY <1>1, <2>1, <2>2, <2>3, <2>5 DEF PcTyped
  <2>6. CASE GetText(r.id)
    <3>1. PICK text \in Texts \cup {Absent} :
            gets' = {g \in gets : g.id # r.id} \cup {[g EXCEPT !.stage = "answered", !.text = text] :
                                                     g \in {x \in gets : x.id = r.id /\ text # Absent}}
      BY <1>1, <2>6 DEF GetText, PcTyped
    <3>2. \A g \in gets : [g EXCEPT !.stage = "answered", !.text = text] \in Task
      BY <1>1 DEF PcTyped, Task
    <3>3. gets' \subseteq Task
      BY <1>1, <3>1, <3>2 DEF PcTyped
    <3> QED
      BY <1>1, <2>1, <2>2, <2>6, <3>3 DEF PcTyped, GetText
  <2> QED
    BY <2>1, <2>4, <2>5, <2>6 DEF SetText
<1>6. CASE Answer \/ GiveUp
  BY <1>1, <1>6 DEF Answer, GiveUp, PcTyped
<1>7. CASE Copy
  BY <1>1, <1>7 DEF Copy, PcTyped, Typed, PhonesTyped
<1>8. CASE forget_all \/ expire_idle \/ \E p \in Phones : Hello(p) \/ HearHandshake(p) \/ SayText(p) \/ Ask(p)
  <2>1. UNCHANGED <<pc, old>>
    BY <1>8 DEF forget_all, expire_idle, Hello, HearHandshake, SayText, Ask, Say
  <2> QED
    BY <1>1, <2>1 DEF pc, PcTyped
<1> QED
  BY <1>2, <1>4, <1>5, <1>6, <1>7, <1>8 DEF Next, Silent

---------------------------------------------------------------------------
(* What a step is to the texts: what happens to the datagrams, and what to *)
(* the clipboard's side.                                                   *)

texts == <<fresh, old, clipboard, queue, gets>>
CarriesText(d) == d.tag = WIRE_TRANSPORT /\ d.meant.type = "ClipboardSet"

Elsewhere == Steady /\ UNCHANGED texts
OtherSent == \E d : Sends(d) /\ ~CarriesText(d) /\ UNCHANGED texts
TextSent == \E d : \E text \in fresh : /\ Sends(d) /\ d.tag = WIRE_TRANSPORT /\ TextOf(d.meant, text)
                                       /\ fresh' = fresh \ {text} /\ UNCHANGED <<old, clipboard, queue, gets>>
TextTaken == \E d : \E text \in Texts : /\ Takes(d) /\ TextOf(d.meant, text) /\ set(text)
                                        /\ UNCHANGED <<fresh, clipboard, gets>>
RequestTaken == \E d : Takes(d) /\ ~CarriesText(d) /\ spawn(d) /\ UNCHANGED <<fresh, old, clipboard, queue>>
OtherTaken == \E d : Takes(d) /\ ~CarriesText(d) /\ UNCHANGED texts
AtClipboard == Steady /\ fresh' = fresh /\ (Asks \/ Serve \/ Answer \/ GiveUp)
Copied == Steady /\ Copy
Kinds == \/ Elsewhere \/ OtherSent \/ TextSent \/ TextTaken \/ RequestTaken \/ OtherTaken \/ AtClipboard \/ Copied

LEMMA StepKinds == ASSUME Typed, NetInv, AcceptedInv, Next PROVE Kinds
<1>1. TypeOK
  BY TypedIsTypeOK
<1>2. ASSUME UNCHANGED <<net, sent, keys>> PROVE Steady
  BY <1>2, SameKeys DEF Steady, FromPhones
<1>3. CASE Receive
  <2>1. PICK d \in net : d \in FromPhones /\ (handshake(d) \/ transport(d))
    BY <1>3 DEF Receive, FromPhones
  <2>2. CASE handshake(d)
    <3>1. Steady
      BY <1>1, <2>1, <2>2, HandshakeSteady
    <3>2. UNCHANGED texts
      BY <2>2 DEF handshake, phones, pc, texts
    <3> QED
      BY <3>1, <3>2 DEF Kinds, Elsewhere
  <2>3. CASE transport(d)
    <3>1. Takes(d) /\ Dispatch(d, d.meant) /\ d.meant \in PhoneMessages
      BY <1>1, <2>1, <2>3, TransportTakes
    <3>2. UNCHANGED <<fresh, clipboard>>
      BY <2>3 DEF transport, phones
    <3>3. CASE \E text \in Texts : TextOf(d.meant, text) /\ set(text) /\ UNCHANGED gets
      <4>1. PICK text \in Texts : TextOf(d.meant, text) /\ set(text) /\ UNCHANGED gets
        BY <3>3
      <4>2. TextTaken
        BY <3>1, <3>2, <4>1 DEF TextTaken
      <4> QED
        BY <4>2 DEF Kinds
    <3>4. CASE d.meant.type # "ClipboardSet" /\ spawn(d) /\ UNCHANGED <<queue, old>>
      BY <3>1, <3>2, <3>4 DEF Kinds, RequestTaken, CarriesText
    <3>5. CASE d.meant.type # "ClipboardSet" /\ UNCHANGED <<queue, gets, old>>
      BY <3>1, <3>2, <3>5 DEF Kinds, OtherTaken, CarriesText, texts
    <3> QED
      BY <3>1, <3>3, <3>4, <3>5, DispatchCases
  <2> QED
    BY <2>1, <2>2, <2>3
<1>4. CASE \E p \in Phones : Hello(p)
  <2>1. PICK p \in Phones : Hello(p)
    BY <1>4
  <2>2. UNCHANGED texts
    BY <2>1 DEF Hello, pc, texts
  <2> QED
    BY <1>1, <2>1, <2>2, HelloSends, TagsDiffer DEF Kinds, OtherSent, CarriesText
<1>5. CASE \E p \in Phones : HearHandshake(p)
  BY <1>2, <1>5 DEF HearHandshake, Kinds, Elsewhere, texts, pc
<1>6. CASE \E p \in Phones : SayText(p)
  <2>1. PICK p \in Phones, text \in fresh : Say(p, Message("ClipboardSet", <<text>>)) /\ fresh' = fresh \ {text}
    BY <1>6 DEF SayText
  <2> DEFINE m == Message("ClipboardSet", <<text>>)
  <2>2. m \in PhoneMessages /\ TextOf(m, text)
    BY <1>1 DEF PhoneMessages, TypeOK, TextOf, Message
  <2>3. UNCHANGED <<old, clipboard, queue, gets>>
    BY <2>1 DEF Say, pc
  <2> HIDE DEF m
  <2>4. Say(p, m)
    BY <2>1 DEF m
  <2>5. PICK d : Sends(d) /\ d.tag = WIRE_TRANSPORT /\ d.meant = m
    BY <1>1, <2>2, <2>4, SaySends
  <2>6. TextOf(d.meant, text)
    BY <2>2, <2>5
  <2>7. TextSent
    BY <2>1, <2>3, <2>5, <2>6 DEF TextSent
  <2> QED
    BY <2>7 DEF Kinds
<1>7. CASE \E p \in Phones : Ask(p)
  <2>1. PICK p \in Phones, q \in Requests : Say(p, Message(q, <<>>)) /\ UNCHANGED fresh
    BY <1>7 DEF Ask, Requests
  <2> DEFINE m == Message(q, <<>>)
  <2>2. m \in PhoneMessages /\ m.type # "ClipboardSet"
    BY DEF PhoneMessages, Message, Requests
  <2>3. UNCHANGED texts
    BY <2>1 DEF Say, pc, texts
  <2> HIDE DEF m
  <2>4. Say(p, m)
    BY <2>1 DEF m
  <2> QED
    BY <1>1, <2>2, <2>3, <2>4, SaySends DEF Kinds, OtherSent, CarriesText
<1>8. CASE forget_all \/ expire_idle
  BY <1>2, <1>8 DEF forget_all, expire_idle, phones, pc, texts, Kinds, Elsewhere
<1>9. CASE Asks \/ Serve \/ Answer \/ GiveUp
  <2>1. UNCHANGED <<net, sent, keys, fresh>>
    BY <1>9 DEF Asks, Serve, Answer, GiveUp, phones
  <2> QED
    BY <1>2, <1>9, <2>1 DEF Kinds, AtClipboard
<1>10. CASE Copy
  <2>1. UNCHANGED <<net, sent, keys>>
    BY <1>10 DEF Copy
  <2> QED
    BY <1>2, <1>10, <2>1 DEF Kinds, Copied
<1> QED
  BY <1>3, <1>4, <1>5, <1>6, <1>7, <1>8, <1>9, <1>10 DEF Next, Silent

LEMMA NetStep == ASSUME Typed, NetInv, AcceptedInv, Kinds PROVE NetInv' /\ AcceptedInv'
<1>1. TypeOK
  BY TypedIsTypeOK
<1>2. Steady \/ \E d : Sends(d) \/ Takes(d)
  BY DEF Kinds, Elsewhere, OtherSent, TextSent, TextTaken, RequestTaken, OtherTaken, AtClipboard, Copied
<1> QED
  BY <1>1, <1>2, SteadyNet, SendsNet, TakesNet

LEMMA TypedStep == ASSUME Typed, NetInv, AcceptedInv, Next PROVE Typed'
BY PhonesStep, KeysStep, PcStep DEF Typed

---------------------------------------------------------------------------
(* Requests and their tasks: no number is used twice.                      *)

TaskInv ==
  /\ \A g \in gets : g.id \in Accepted
  /\ \A g, h \in gets : g.id = h.id => g = h
  /\ \A i \in DOMAIN queue : queue[i].id # 0 => queue[i].id \in Accepted
  /\ \A i, j \in DOMAIN queue : queue[i].id # 0 /\ queue[i].id = queue[j].id => i = j
  /\ \A g \in gets : \A i \in DOMAIN queue : queue[i].id = g.id => g.stage = "waiting"

\* A request at the head of the queue and the others.
LEMMA TailFacts ==
  ASSUME NEW S, NEW q \in Seq(S), q # <<>>
  PROVE  /\ Tail(q) \in Seq(S) /\ Len(Tail(q)) = Len(q) - 1 /\ Len(q) \in Nat /\ Len(q) > 0
         /\ \A i \in DOMAIN Tail(q) : i \in 1 .. Len(q) - 1 /\ i + 1 \in DOMAIN q /\ Tail(q)[i] = q[i + 1]
         /\ 1 \in DOMAIN q /\ Head(q) = q[1] /\ Head(q) \in S
OBVIOUS

LEMMA AppendFacts ==
  ASSUME NEW S, NEW q \in Seq(S), NEW r
  PROVE  /\ Len(Append(q, r)) = Len(q) + 1 /\ Len(q) \in Nat
         /\ DOMAIN q = 1 .. Len(q) /\ DOMAIN Append(q, r) = DOMAIN q \cup {Len(q) + 1}
         /\ \A i \in DOMAIN q : i \in 1 .. Len(q) /\ Append(q, r)[i] = q[i]
         /\ Append(q, r)[Len(q) + 1] = r
OBVIOUS

LEMMA NoText == Absent \notin Texts
BY LinkAssumption, WireAssumption DEF IsText

LEMMA TaskFacts == \A g \in Task : g.id \in 1 .. MaxSends /\ g.id # 0 /\ g.stale \subseteq Texts
BY LinkAssumption DEF Task

\* What serving a request makes of a task.
Answered(g, text) == [g EXCEPT !.stage = "answered", !.text = text]
Spared(g, text) == [g EXCEPT !.stale = @ \ {text}]

LEMMA ServedFacts ==
  ASSUME NEW g \in Task, NEW text
  PROVE  /\ Answered(g, text).id = g.id /\ Answered(g, text).stage = "answered"
         /\ Answered(g, text).text = text /\ Answered(g, text).stale = g.stale
         /\ Spared(g, text).id = g.id /\ Spared(g, text).stage = g.stage
         /\ Spared(g, text).text = g.text /\ Spared(g, text).stale = g.stale \ {text}
BY DEF Task, Answered, Spared

\* Serving a request: a text is set, or it is kept out, or a text or none is the answer.
SetServed(r) == r.id = 0 /\ clipboard' = r.text /\ UNCHANGED <<gets, old>>
KeptServed(r) == /\ r.id = 0 /\ clipboard' = clipboard /\ old' = old \ {clipboard}
                 /\ gets' = {Spared(g, clipboard) : g \in gets}
GetServed(r, text) ==
  /\ r.id # 0 /\ text \in {clipboard, Absent} /\ UNCHANGED <<clipboard, old>>
  /\ gets' = {g \in gets : g.id # r.id} \cup {Answered(g, text) : g \in {x \in gets : x.id = r.id /\ text # Absent}}

LEMMA ServeKinds ==
  ASSUME Serve
  PROVE  LET r == Head(queue)
         IN /\ queue # <<>> /\ queue' = Tail(queue)
            /\ SetServed(r) \/ KeptServed(r) \/ \E text : GetServed(r, text)
<1> DEFINE r == Head(queue)
<1>1. /\ queue # <<>> /\ queue' = Tail(queue) /\ ((r.id = 0 /\ SetText(r.text)) \/ (r.id # 0 /\ GetText(r.id)))
  BY DEF Serve
<1> HIDE DEF r
<1>2. ASSUME r.id = 0, SetText(r.text) PROVE SetServed(r) \/ KeptServed(r)
  <2>1. (clipboard' = r.text /\ UNCHANGED <<gets, old>>) \/ Kept
    BY <1>2, Zenon DEF SetText
  <2>2. CASE Kept
    BY <1>2, <2>2 DEF Kept, KeptServed, Spared
  <2> QED
    BY <1>2, <2>1, <2>2 DEF SetServed
<1>3. ASSUME r.id # 0, GetText(r.id) PROVE \E text : GetServed(r, text)
  <2>1. PICK text \in {clipboard, Absent} :
          gets' = {g \in gets : g.id # r.id} \cup
                  {[g EXCEPT !.stage = "answered", !.text = text] : g \in {x \in gets : x.id = r.id /\ text # Absent}}
    BY <1>3, Zenon DEF GetText
  <2>2. UNCHANGED <<clipboard, old>>
    BY <1>3 DEF GetText
  <2>3. GetServed(r, text)
    BY <1>3, <2>1, <2>2, Zenon DEF GetServed, Answered
  <2> QED
    BY <2>3
<1> QED
  BY <1>1, <1>2, <1>3 DEF r

LEMMA TaskSame == TaskInv /\ UNCHANGED <<queue, gets>> /\ Accepted \subseteq Accepted' => TaskInv'
BY DEF TaskInv

LEMMA TaskSet ==
  ASSUME Typed, TaskInv, NEW text, set(text), gets' = gets, Accepted \subseteq Accepted' PROVE TaskInv'
<1> DEFINE r == [id |-> 0, text |-> text]
<1>1. queue' = Append(queue, r) /\ r.id = 0
  BY DEF set
<1> HIDE DEF r
<1>2. queue \in Seq(Entry) /\ \A g \in gets : g.id # 0
  <2>1. \A g \in gets : g \in Task
    BY DEF Typed, PcTyped
  <2>2. \A g \in gets : g.id # 0
    BY <2>1, LinkAssumption DEF Task
  <2> QED
    BY <2>2 DEF Typed, PcTyped
<1> QED
  BY <1>1, <1>2, AppendFacts DEF TaskInv

LEMMA TaskSpawned ==
  ASSUME Typed, TaskInv, AcceptedInv, NetInv, NEW d, Takes(d), spawn(d), queue' = queue PROVE TaskInv'
<1>1. PICK g : g.id = d.nonce /\ gets' = gets \cup {g}
  BY DEF spawn
<1>2. d.nonce \notin Accepted /\ Accepted' = Accepted \cup {d.nonce} /\ d.nonce \in 1 .. sent /\ sent \in Nat
  BY LinkAssumption DEF Takes, NetInv, Typed, PhonesTyped
<1> QED
  BY <1>1, <1>2 DEF TaskInv

LEMMA TaskAsks ==
  ASSUME Typed, TaskInv, Asks, Accepted' = Accepted PROVE TaskInv'
<1>1. PICK g \in gets : /\ g.stage = "spawned" /\ queue' = Append(queue, [id |-> g.id, text |-> Absent])
                        /\ gets' = Stage(g, "waiting")
  BY DEF Asks
<1> DEFINE r == [id |-> g.id, text |-> Absent]
           h == [g EXCEPT !.stage = "waiting"]
<1>2. queue' = Append(queue, r) /\ r.id = g.id /\ gets' = (gets \ {g}) \cup {h}
  BY <1>1 DEF Stage
<1>3. h.id = g.id /\ h.stage = "waiting" /\ queue \in Seq(Entry)
  <2>1. g \in Task
    BY DEF Typed, PcTyped
  <2> QED
    BY <2>1 DEF Task, Typed, PcTyped
<1> HIDE DEF r, h
<1>4. \A i \in DOMAIN queue : queue[i].id # g.id
  BY <1>1 DEF TaskInv
<1>5. \A x \in gets' : x = h \/ (x \in gets /\ x.id # g.id)
  <2>1. \A x \in gets : x.id = g.id => x = g
    BY DEF TaskInv
  <2> QED
    BY <1>2, <2>1
<1>6. DOMAIN queue' = DOMAIN queue \cup {Len(queue) + 1} /\ queue'[Len(queue) + 1] = r
      /\ \A i \in DOMAIN queue : queue'[i] = queue[i]
  BY <1>2, <1>3, AppendFacts
<1>7. \A x, y \in gets' : x.id = y.id => x = y
  BY <1>3, <1>5 DEF TaskInv
<1>8. \A x \in gets' : x.id \in Accepted'
  BY <1>3, <1>5 DEF TaskInv
<1>9. \A x \in gets' : \A i \in DOMAIN queue' : queue'[i].id = x.id => x.stage = "waiting"
  BY <1>2, <1>3, <1>5, <1>6 DEF TaskInv
<1>10. \A i \in DOMAIN queue' : queue'[i].id # 0 => queue'[i].id \in Accepted'
  BY <1>2, <1>6 DEF TaskInv
<1>11. \A i, j \in DOMAIN queue' : queue'[i].id # 0 /\ queue'[i].id = queue'[j].id => i = j
  BY <1>2, <1>4, <1>6 DEF TaskInv
<1> QED
  BY <1>7, <1>8, <1>9, <1>10, <1>11 DEF TaskInv

LEMMA TaskServe ==
  ASSUME Typed, TaskInv, Serve, Accepted' = Accepted PROVE TaskInv'
<1> DEFINE r == Head(queue)
<1>1. queue # <<>> /\ queue' = Tail(queue) /\ (SetServed(r) \/ KeptServed(r) \/ \E text : GetServed(r, text))
  BY ServeKinds
<1>2. queue \in Seq(Entry) /\ \A g \in gets : g \in Task
  BY DEF Typed, PcTyped
<1>3. /\ \A i \in DOMAIN Tail(queue) : i \in 1 .. Len(queue) - 1 /\ i + 1 \in DOMAIN queue /\ Tail(queue)[i] = queue[i + 1]
      /\ 1 \in DOMAIN queue /\ r = queue[1] /\ Len(queue) \in Nat
  BY <1>1, <1>2, TailFacts
<1>4. \A i \in DOMAIN queue' : i + 1 \in DOMAIN queue /\ queue'[i] = queue[i + 1] /\ i \in Nat /\ i > 0
  BY <1>1, <1>3
<1> HIDE DEF r
<1>5. /\ \A i \in DOMAIN queue' : queue'[i].id # 0 => queue'[i].id \in Accepted'
      /\ \A i, j \in DOMAIN queue' : queue'[i].id # 0 /\ queue'[i].id = queue'[j].id => i = j
  <2>1. ASSUME NEW i \in DOMAIN queue', NEW j \in DOMAIN queue', queue'[i].id # 0, queue'[i].id = queue'[j].id
        PROVE  i = j
    <3>1. i + 1 = j + 1
      BY <1>4, <2>1 DEF TaskInv
    <3> QED
      BY <1>4, <3>1
  <2> QED
    BY <1>4, <2>1 DEF TaskInv
\* Every task is one there was, with the same number and, unless the request served was its own, the same stage.
<1>6. \A x \in gets' : \E g \in gets : /\ x.id = g.id
                                       /\ x.stage = g.stage \/ (r.id = g.id /\ r.id # 0)
  <2>1. ASSUME NEW text, GetServed(r, text), NEW x \in gets'
        PROVE  \E g \in gets : x.id = g.id /\ (x.stage = g.stage \/ (r.id = g.id /\ r.id # 0))
    BY <1>2, <2>1, ServedFacts DEF GetServed
  <2>2. CASE KeptServed(r)
    BY <1>2, <2>2, ServedFacts DEF KeptServed
  <2>3. CASE SetServed(r)
    BY <2>3 DEF SetServed
  <2> QED
    BY <1>1, <2>1, <2>2, <2>3
<1>7. \A x, y \in gets' : x.id = y.id => x = y
  <2>1. CASE SetServed(r)
    BY <2>1 DEF SetServed, TaskInv
  <2>2. CASE KeptServed(r)
    BY <1>2, <2>2, ServedFacts DEF KeptServed, TaskInv
  <2>3. ASSUME NEW text, GetServed(r, text) PROVE \A x, y \in gets' : x.id = y.id => x = y
    BY <1>2, <2>3, ServedFacts DEF GetServed, TaskInv
  <2> QED
    BY <1>1, <2>1, <2>2, <2>3
<1>8. \A x \in gets' : x.id \in Accepted'
  BY <1>6 DEF TaskInv
<1>9. ASSUME NEW x \in gets', NEW i \in DOMAIN queue', queue'[i].id = x.id PROVE x.stage = "waiting"
  <2>1. PICK g \in gets : x.id = g.id /\ (x.stage = g.stage \/ (r.id = g.id /\ r.id # 0))
    BY <1>6
  <2>2. queue[i + 1].id = g.id /\ i + 1 \in DOMAIN queue /\ i + 1 # 1
    BY <1>4, <1>9, <2>1
  <2>3. ~ (r.id = g.id /\ r.id # 0)
    BY <1>3, <2>2 DEF TaskInv
  <2> QED
    BY <2>1, <2>2, <2>3 DEF TaskInv
<1> QED
  BY <1>5, <1>7, <1>8, <1>9 DEF TaskInv

LEMMA TaskStep ==
  ASSUME Typed, NetInv, AcceptedInv, TaskInv, Kinds PROVE TaskInv'
<1>1. CASE Elsewhere \/ OtherSent \/ OtherTaken \/ TextSent
  <2>1. UNCHANGED <<queue, gets>> /\ Accepted \subseteq Accepted'
    BY <1>1 DEF Elsewhere, OtherSent, OtherTaken, TextSent, Steady, Sends, Takes, texts
  <2> QED
    BY <2>1, TaskSame
<1>2. CASE TextTaken
  <2>1. \E text : set(text) /\ gets' = gets /\ Accepted \subseteq Accepted'
    BY <1>2 DEF TextTaken, Takes
  <2> QED
    BY <2>1, TaskSet
<1>3. CASE RequestTaken
  BY <1>3, TaskSpawned DEF RequestTaken
<1>4. CASE AtClipboard
  <2>1. Accepted' = Accepted
    BY <1>4 DEF AtClipboard, Steady
  <2>2. CASE Answer \/ GiveUp
    <3>1. gets' \subseteq gets /\ queue' = queue
      BY <2>2 DEF Answer, GiveUp
    <3> QED
      BY <2>1, <3>1 DEF TaskInv
  <2> QED
    BY <1>4, <2>1, <2>2, TaskAsks, TaskServe DEF AtClipboard
<1>5. CASE Copied
  <2>1. UNCHANGED <<queue, gets>> /\ Accepted' = Accepted
    BY <1>5 DEF Copied, Copy, Steady
  <2> QED
    BY <2>1, TaskSame
<1> QED
  BY <1>1, <1>2, <1>3, <1>4, <1>5 DEF Kinds

---------------------------------------------------------------------------
(* Texts: what has not reached the clipboard is nowhere on its side yet.   *)

Carrying == {d \in FromPhones : CarriesText(d) /\ d.nonce \notin Accepted}
Carried(d) == d.meant.args[1]
Unseen == fresh \cup {Carried(d) : d \in Carrying}

Distinct ==
  /\ \A d, e \in Carrying : Carried(d) = Carried(e) => d = e
  /\ \A d \in Carrying : Carried(d) \notin fresh
NotSeen ==
  /\ old \cap Unseen = {} /\ clipboard \notin Unseen
  /\ \A g \in gets : g.stale \cap Unseen = {}
  /\ \A i \in DOMAIN queue : queue[i].text \notin Unseen

LEMMA TextOfFacts == ASSUME NEW d, NEW text, TextOf(d.meant, text) PROVE d.meant.type = "ClipboardSet" /\ Carried(d) = text
BY DEF TextOf, Carried

\* What is carried is a text.
LEMMA UnseenTyped == Typed /\ NetInv => Unseen \subseteq Texts
<1> SUFFICES ASSUME Typed, NetInv, NEW d \in Carrying PROVE Carried(d) \in Texts
  BY DEF Unseen, Typed, PhonesTyped
<1>1. d.meant \in PhoneMessages /\ d.meant.type = "ClipboardSet"
  BY TagsDiffer DEF Carrying, CarriesText, NetInv, Sound
<1>2. \A q \in Requests : Message(q, <<>>).type # "ClipboardSet"
  BY DEF Requests, Message
<1>3. PICK text \in Texts : d.meant = Message("ClipboardSet", <<text>>)
  BY <1>1, <1>2 DEF PhoneMessages
<1>4. d.meant.args[1] = text
  BY <1>3 DEF Message
<1> QED
  BY <1>4 DEF Carried

LEMMA SameUnseen ==
  ASSUME Typed, NetInv, AcceptedInv, Distinct, Carrying' = Carrying, fresh' = fresh
  PROVE  Distinct' /\ Unseen' = Unseen
BY DEF Distinct, Unseen

LEMMA QuietCarrying ==
  ASSUME Typed, NetInv, AcceptedInv, Elsewhere \/ OtherSent \/ RequestTaken \/ OtherTaken \/ AtClipboard \/ Copied
  PROVE  Carrying' = Carrying
<1>1. CASE Steady
  BY <1>1 DEF Steady, Carrying
<1>2. ASSUME NEW d, Sends(d), ~CarriesText(d) PROVE Carrying' = Carrying
  BY <1>2 DEF Sends, Carrying
<1>3. ASSUME NEW d, Takes(d), ~CarriesText(d) PROVE Carrying' = Carrying
  <2>1. \A e \in FromPhones : CarriesText(e) => e.nonce # d.nonce
    BY <1>3 DEF Takes, NetInv
  <2> QED
    BY <1>3, <2>1 DEF Takes, Carrying
<1> QED
  BY <1>1, <1>2, <1>3 DEF Elsewhere, OtherSent, RequestTaken, OtherTaken, AtClipboard, Copied

LEMMA SentUnseen ==
  ASSUME Typed, NetInv, AcceptedInv, Distinct, TextSent PROVE Distinct' /\ Unseen' = Unseen
<1>1. PICK d : \E text \in fresh : /\ Sends(d) /\ d.tag = WIRE_TRANSPORT /\ TextOf(d.meant, text)
                                   /\ fresh' = fresh \ {text}
  BY DEF TextSent
<1>2. PICK text \in fresh : Sends(d) /\ d.tag = WIRE_TRANSPORT /\ TextOf(d.meant, text) /\ fresh' = fresh \ {text}
  BY <1>1
<1>3. CarriesText(d) /\ Carried(d) = text
  BY <1>2, TextOfFacts DEF CarriesText
<1>4. d.nonce \notin Accepted
  <2>1. sent \in Nat /\ d.nonce = sent + 1
    BY <1>2, LinkAssumption DEF Typed, PhonesTyped, Sends
  <2> QED
    BY <2>1 DEF AcceptedInv
<1>5. Carrying' = Carrying \cup {d}
  BY <1>2, <1>3, <1>4 DEF Carrying, Sends
<1>6. Unseen' = Unseen
  BY <1>2, <1>3, <1>5 DEF Unseen
<1>7. Distinct'
  BY <1>2, <1>3, <1>5 DEF Distinct
<1> QED
  BY <1>6, <1>7

LEMMA TakenUnseen ==
  ASSUME Typed, NetInv, AcceptedInv, Distinct,
         NEW d, NEW text \in Texts, Takes(d), TextOf(d.meant, text), fresh' = fresh
  PROVE  Distinct' /\ Unseen' \subseteq Unseen /\ text \in Unseen /\ text \notin Unseen'
<1>1. CarriesText(d) /\ Carried(d) = text /\ d \in Carrying
  BY TextOfFacts DEF CarriesText, Carrying, Takes
<1>2. Carrying' = Carrying \ {d}
  <2>1. \A e \in FromPhones : e.nonce = d.nonce => e = d
    BY DEF Takes, NetInv
  <2> QED
    BY <1>1, <2>1 DEF Takes, Carrying
<1> QED
  BY <1>1, <1>2 DEF Distinct, Unseen

LEMMA CopiedUnseen ==
  ASSUME Typed, NetInv, AcceptedInv, Distinct, Copied
  PROVE  Distinct' /\ Unseen' \subseteq Unseen /\ clipboard' \in Unseen /\ clipboard' \notin Unseen'
<1>1. Carrying' = Carrying
  BY QuietCarrying
<1>2. clipboard' \in fresh /\ fresh' = fresh \ {clipboard'}
  BY DEF Copied, Copy
<1> QED
  BY <1>1, <1>2 DEF Distinct, Unseen

\* The clipboard's side only gets less to tell apart, as long as it gets nothing new.
LEMMA LessSeen ==
  ASSUME NotSeen, UNCHANGED <<old, clipboard, queue, gets>>, Unseen' \subseteq Unseen PROVE NotSeen'
BY DEF NotSeen

LEMMA TextsStep ==
  ASSUME Typed, NetInv, AcceptedInv, Distinct, NotSeen, Kinds PROVE Distinct' /\ NotSeen'
<1>1. CASE Elsewhere \/ OtherSent \/ OtherTaken
  <2>1. UNCHANGED texts
    BY <1>1 DEF Elsewhere, OtherSent, OtherTaken
  <2>2. Distinct' /\ Unseen' = Unseen
    BY <1>1, <2>1, QuietCarrying, SameUnseen DEF texts
  <2> QED
    BY <2>1, <2>2, LessSeen DEF texts
<1>2. CASE TextSent
  BY <1>2, SentUnseen, LessSeen DEF TextSent
<1>3. CASE TextTaken
  <2>1. PICK d : \E text \in Texts : /\ Takes(d) /\ TextOf(d.meant, text) /\ set(text)
                                     /\ UNCHANGED <<fresh, clipboard, gets>>
    BY <1>3 DEF TextTaken
  <2>2. PICK text \in Texts : /\ Takes(d) /\ TextOf(d.meant, text) /\ set(text)
                              /\ UNCHANGED <<fresh, clipboard, gets>>
    BY <2>1
  <2>3. Distinct' /\ Unseen' \subseteq Unseen /\ text \notin Unseen'
    BY <2>2, TakenUnseen
  <2> DEFINE r == [id |-> 0, text |-> text]
  <2>4. queue' = Append(queue, r) /\ r.text = text /\ queue \in Seq(Entry)
        /\ old' \subseteq old \cup {clipboard} \cup {queue[i].text : i \in DOMAIN queue}
    BY <2>2 DEF set, Typed, PcTyped
  <2> HIDE DEF r
  <2>5. \A i \in DOMAIN queue' : queue'[i] = r \/ \E j \in DOMAIN queue : queue'[i] = queue[j]
    BY <2>4, AppendFacts
  <2>6. NotSeen'
    BY <2>2, <2>3, <2>4, <2>5 DEF NotSeen
  <2> QED
    BY <2>3, <2>6
<1>4. CASE RequestTaken
  <2>1. UNCHANGED <<fresh, old, clipboard, queue>> /\ \E g : g.stale = old /\ gets' = gets \cup {g}
    BY <1>4 DEF RequestTaken, spawn
  <2>2. Distinct' /\ Unseen' = Unseen
    BY <1>4, <2>1, QuietCarrying, SameUnseen
  <2>3. NotSeen'
    BY <2>1, <2>2 DEF NotSeen
  <2> QED
    BY <2>2, <2>3
<1>5. CASE AtClipboard
  <2>1. Distinct' /\ Unseen' = Unseen
    BY <1>5, QuietCarrying, SameUnseen DEF AtClipboard
  <2>2. queue \in Seq(Entry) /\ \A g \in gets : g \in Task
    BY DEF Typed, PcTyped
  <2>3. Absent \notin Unseen
    <3>1. Absent \notin Texts
      BY LinkAssumption, WireAssumption DEF IsText
    <3> QED
      BY <3>1, UnseenTyped
  <2>4. CASE Asks
    <3>1. PICK g \in gets : /\ queue' = Append(queue, [id |-> g.id, text |-> Absent])
                            /\ gets' = (gets \ {g}) \cup {[g EXCEPT !.stage = "waiting"]}
                            /\ UNCHANGED <<clipboard, old>>
      BY <2>4 DEF Asks, Stage
    <3> DEFINE r == [id |-> g.id, text |-> Absent]
               h == [g EXCEPT !.stage = "waiting"]
    <3>2. r.text = Absent /\ h.stale = g.stale /\ queue' = Append(queue, r) /\ gets' \subseteq gets \cup {h}
      BY <2>2, <3>1 DEF Task
    <3> HIDE DEF r, h
    <3>3. \A i \in DOMAIN queue' : queue'[i] = r \/ \E j \in DOMAIN queue : queue'[i] = queue[j]
      BY <2>2, <3>2, AppendFacts
    <3>4. NotSeen'
      BY <2>1, <2>3, <3>1, <3>2, <3>3 DEF NotSeen
    <3> QED
      BY <2>1, <3>4
  <2>5. CASE Serve
    <3> DEFINE r == Head(queue)
    <3>1. queue # <<>> /\ queue' = Tail(queue) /\ (SetServed(r) \/ KeptServed(r) \/ \E text : GetServed(r, text))
      BY <2>5, ServeKinds
    <3>2. r \in {queue[j] : j \in DOMAIN queue} /\ \A i \in DOMAIN Tail(queue) : \E j \in DOMAIN queue : Tail(queue)[i] = queue[j]
      BY <2>2, <3>1, TailFacts
    <3> HIDE DEF r
    <3>3. \A i \in DOMAIN queue' : queue'[i].text \notin Unseen
      BY <3>1, <3>2 DEF NotSeen
    <3>4. \A x \in gets' : \E g \in gets : x.stale \subseteq g.stale
      <4>1. CASE SetServed(r)
        BY <4>1 DEF SetServed
      <4>2. CASE KeptServed(r)
        BY <2>2, <4>2, ServedFacts DEF KeptServed
      <4>3. ASSUME NEW text, GetServed(r, text) PROVE \A x \in gets' : \E g \in gets : x.stale \subseteq g.stale
        BY <2>2, <4>3, ServedFacts DEF GetServed
      <4> QED
        BY <3>1, <4>1, <4>2, <4>3
    <3>5. old' \subseteq old /\ clipboard' \in {clipboard, r.text}
      BY <3>1 DEF SetServed, KeptServed, GetServed
    <3>6. r.text \notin Unseen
      BY <3>2 DEF NotSeen
    <3>7. NotSeen'
      BY <2>1, <3>3, <3>4, <3>5, <3>6 DEF NotSeen
    <3> QED
      BY <2>1, <3>7
  <2>6. CASE Answer \/ GiveUp
    <3>1. gets' \subseteq gets /\ UNCHANGED <<clipboard, queue, old>>
      BY <2>6 DEF Answer, GiveUp
    <3> QED
      BY <2>1, <3>1 DEF NotSeen
  <2> QED
    BY <1>5, <2>4, <2>5, <2>6 DEF AtClipboard
<1>6. CASE Copied
  <2>1. UNCHANGED <<old, queue, gets>>
    BY <1>6 DEF Copied, Copy
  <2>2. Distinct' /\ Unseen' \subseteq Unseen /\ clipboard' \notin Unseen'
    BY <1>6, CopiedUnseen
  <2>3. NotSeen'
    BY <2>1, <2>2 DEF NotSeen
  <2> QED
    BY <2>2, <2>3
<1> QED
  BY <1>1, <1>2, <1>3, <1>4, <1>5, <1>6 DEF Kinds

---------------------------------------------------------------------------
(* The order of requests: what is old and still there, or on its way, is   *)
(* replaced before the request is served.                                  *)

SetIn(q, i, n) == \E j \in i .. n : q[j].id = 0
\* A text of S that is the clipboard's, or that the first n requests would make it, is replaced by one of them.
Followed(S, c, q, n) ==
  /\ c \in S => SetIn(q, 1, n)
  /\ \A i \in 1 .. n : q[i].text \in S => SetIn(q, i + 1, n)

OldInv == Followed(old, clipboard, queue, Len(queue))
GetsInv ==
  \A g \in gets :
    /\ g.stage = "spawned" => Followed(g.stale, clipboard, queue, Len(queue))
    /\ \A i \in DOMAIN queue : queue[i].id = g.id => Followed(g.stale, clipboard, queue, i - 1)
    /\ g.stage = "answered" => g.text \notin g.stale

\* What comes after the first n requests does not matter to them.
LEMMA FollowedAppend ==
  ASSUME NEW q \in Seq(Entry), NEW r, NEW S, NEW c, NEW n \in 0 .. Len(q), Followed(S, c, q, n)
  PROVE  Followed(S, c, Append(q, r), n)
<1>1. \A i \in 1 .. n : Append(q, r)[i] = q[i]
  BY AppendFacts
<1>2. n \in Nat
  BY AppendFacts
<1>3. \A i \in 1 .. n + 1 : SetIn(q, i, n) => SetIn(Append(q, r), i, n)
  BY <1>1, <1>2 DEF SetIn
<1>4. 1 \in 1 .. n + 1 /\ \A i \in 1 .. n : i + 1 \in 1 .. n + 1
  BY <1>2
<1> QED
  BY <1>1, <1>3, <1>4 DEF Followed

\* A request at the end that brings nothing of S changes nothing.
LEMMA FollowedLonger ==
  ASSUME NEW q \in Seq(Entry), NEW r, NEW S, NEW c, Followed(S, c, q, Len(q)), r.text \notin S
  PROVE  Followed(S, c, Append(q, r), Len(q) + 1)
<1>1. Followed(S, c, Append(q, r), Len(q)) /\ Len(q) \in Nat
  BY FollowedAppend, AppendFacts
<1>2. Append(q, r)[Len(q) + 1] = r
  BY AppendFacts
<1>3. \A i \in 1 .. Len(q) + 1 : SetIn(Append(q, r), i, Len(q)) => SetIn(Append(q, r), i, Len(q) + 1)
  BY <1>1 DEF SetIn
<1> QED
  BY <1>1, <1>2, <1>3 DEF Followed

\* A text at the end that is not in S follows everything.
LEMMA FollowedBySet ==
  ASSUME NEW q \in Seq(Entry), NEW r, NEW S, NEW c, r.id = 0, r.text \notin S
  PROVE  Followed(S, c, Append(q, r), Len(q) + 1)
<1>1. Append(q, r)[Len(q) + 1] = r /\ Len(q) \in Nat
  BY AppendFacts
<1>2. \A i \in 1 .. Len(q) + 1 : SetIn(Append(q, r), i, Len(q) + 1)
  BY <1>1 DEF SetIn
<1> QED
  BY <1>1, <1>2 DEF Followed

\* The first request has been served: what is left follows whatever that made the clipboard's text.
LEMMA FollowedTail ==
  ASSUME NEW q \in Seq(Entry), q # <<>>, NEW S, NEW T, T \subseteq S, NEW c, NEW e, NEW n \in 1 .. Len(q),
         Followed(S, c, q, n),
         e \in T => (e = Head(q).text /\ Head(q).id = 0) \/ (e = c /\ Head(q).id # 0)
  PROVE  Followed(T, e, Tail(q), n - 1)
<1>1. /\ \A i \in DOMAIN Tail(q) : i \in 1 .. Len(q) - 1 /\ i + 1 \in DOMAIN q /\ Tail(q)[i] = q[i + 1]
      /\ 1 \in DOMAIN q /\ Head(q) = q[1] /\ Len(Tail(q)) = Len(q) - 1 /\ Len(q) \in Nat
  BY TailFacts
<1>2. n \in Nat /\ n - 1 \in Nat /\ \A i \in 1 .. n - 1 : Tail(q)[i] = q[i + 1]
  BY <1>1
<1>3. \A i \in 1 .. n : SetIn(q, i + 1, n) => SetIn(Tail(q), i, n - 1)
  <2>1. SUFFICES ASSUME NEW i \in 1 .. n, NEW j \in i + 1 .. n, q[j].id = 0 PROVE SetIn(Tail(q), i, n - 1)
    BY DEF SetIn
  <2>2. j - 1 \in i .. n - 1 /\ j - 1 \in 1 .. n - 1 /\ (j - 1) + 1 = j
    BY <1>2
  <2> QED
    BY <1>2, <2>1, <2>2 DEF SetIn
<1>4. e \in T => SetIn(Tail(q), 1, n - 1)
  <2>1. CASE e = Head(q).text /\ Head(q).id = 0
    <3>1. e \in T => SetIn(q, 1 + 1, n)
      BY <1>1, <1>2, <2>1 DEF Followed
    <3> QED
      BY <1>2, <1>3, <3>1
  <2>2. CASE e = c /\ Head(q).id # 0
    <3>1. e \in T => SetIn(q, 1, n)
      BY <2>2 DEF Followed
    <3>2. SetIn(q, 1, n) => SetIn(q, 1 + 1, n)
      BY <1>1, <1>2, <2>2 DEF SetIn
    <3> QED
      BY <1>2, <1>3, <3>1, <3>2
  <2> QED
    BY <2>1, <2>2
<1>5. ASSUME NEW i \in 1 .. n - 1, Tail(q)[i].text \in T PROVE SetIn(Tail(q), i + 1, n - 1)
  <2>1. i + 1 \in 1 .. n /\ q[i + 1].text \in S
    BY <1>2, <1>5
  <2>2. SetIn(q, (i + 1) + 1, n)
    BY <2>1 DEF Followed
  <2> QED
    BY <1>3, <2>1, <2>2
<1> QED
  BY <1>4, <1>5 DEF Followed

\* A text that is not in S may take the clipboard's place at any time.
LEMMA FollowedCopy ==
  ASSUME NEW q, NEW S, NEW c, NEW e, NEW n, Followed(S, c, q, n), e \notin S PROVE Followed(S, e, q, n)
BY DEF Followed

LEMMA OldSet ==
  ASSUME Typed, OldInv, GetsInv, NotSeen, NEW text \in Unseen, set(text), UNCHANGED <<clipboard, gets>>
  PROVE  OldInv' /\ GetsInv'
<1> DEFINE r == [id |-> 0, text |-> text]
<1>1. queue' = Append(queue, r) /\ r.id = 0 /\ r.text = text /\ queue \in Seq(Entry)
      /\ old' \subseteq old \cup {clipboard} \cup {queue[i].text : i \in DOMAIN queue}
  BY DEF set, Typed, PcTyped
<1> HIDE DEF r
<1>2. text \notin old' /\ \A g \in gets : text \notin g.stale
  BY <1>1 DEF NotSeen
<1>3. Len(queue') = Len(queue) + 1 /\ Len(queue) \in Nat
  BY <1>1, AppendFacts
<1>4. OldInv'
  BY <1>1, <1>2, <1>3, FollowedBySet DEF OldInv
<1>5. ASSUME NEW g \in gets, g.stage = "spawned" PROVE Followed(g.stale, clipboard, queue', Len(queue'))
  <2>1. Followed(g.stale, clipboard, queue, Len(queue)) /\ r.text \notin g.stale
    BY <1>1, <1>2, <1>5 DEF GetsInv
  <2>2. Followed(g.stale, clipboard, Append(queue, r), Len(queue) + 1)
    BY <1>1, <2>1, FollowedLonger
  <2> QED
    BY <1>1, <1>3, <2>2
<1>6. ASSUME NEW g \in gets, NEW i \in DOMAIN queue', queue'[i].id = g.id
      PROVE  Followed(g.stale, clipboard, queue', i - 1)
  <2>1. g.id # 0
    <3>1. g \in Task
      BY DEF Typed, PcTyped
    <3> QED
      BY <3>1, LinkAssumption DEF Task
  <2>2. i \in DOMAIN queue /\ queue'[i] = queue[i] /\ i \in 1 .. Len(queue)
    BY <1>1, <1>6, <2>1, AppendFacts
  <2>3. Followed(g.stale, clipboard, queue, i - 1) /\ i - 1 \in 0 .. Len(queue)
    BY <1>3, <1>6, <2>2 DEF GetsInv
  <2> QED
    BY <1>1, <2>3, FollowedAppend
<1>7. GetsInv'
  BY <1>5, <1>6 DEF GetsInv
<1> QED
  BY <1>4, <1>7

LEMMA OldAsks ==
  ASSUME Typed, TaskInv, OldInv, GetsInv, Asks PROVE OldInv' /\ GetsInv'
<1>1. PICK g \in gets : /\ g.stage = "spawned" /\ queue' = Append(queue, [id |-> g.id, text |-> Absent])
                        /\ gets' = (gets \ {g}) \cup {[g EXCEPT !.stage = "waiting"]}
                        /\ UNCHANGED <<clipboard, old>>
  BY DEF Asks, Stage
<1> DEFINE r == [id |-> g.id, text |-> Absent]
           h == [g EXCEPT !.stage = "waiting"]
<1>2. queue \in Seq(Entry) /\ \A x \in gets : x \in Task
  BY DEF Typed, PcTyped
<1>3. /\ queue' = Append(queue, r) /\ r.id = g.id /\ r.text = Absent
      /\ h.stale = g.stale /\ h.stage = "waiting" /\ h.id = g.id /\ gets' = (gets \ {g}) \cup {h}
  BY <1>1, <1>2 DEF Task
<1> HIDE DEF r, h
<1>4. Absent \notin Texts /\ old \subseteq Texts /\ \A x \in gets : x.stale \subseteq Texts
  BY <1>2, NoText, TaskFacts DEF Typed, PcTyped
<1>5. Len(queue') = Len(queue) + 1 /\ Len(queue) \in Nat
  BY <1>2, <1>3, AppendFacts
<1>6. OldInv'
  BY <1>1, <1>2, <1>3, <1>4, <1>5, FollowedLonger DEF OldInv
<1>7. ASSUME NEW x \in gets, x # g
      PROVE  /\ x.stage = "spawned" => Followed(x.stale, clipboard, queue', Len(queue'))
             /\ \A i \in DOMAIN queue' : queue'[i].id = x.id => Followed(x.stale, clipboard, queue', i - 1)
  <2>1. x.stage = "spawned" => Followed(x.stale, clipboard, queue', Len(queue'))
    BY <1>2, <1>3, <1>4, <1>5, FollowedLonger DEF GetsInv
  <2>2. ASSUME NEW i \in DOMAIN queue', queue'[i].id = x.id PROVE Followed(x.stale, clipboard, queue', i - 1)
    <3>1. x.id # g.id
      BY <1>7 DEF TaskInv
    <3>2. i \in DOMAIN queue /\ queue'[i] = queue[i] /\ i \in 1 .. Len(queue)
      BY <1>2, <1>3, <2>2, <3>1, AppendFacts
    <3>3. Followed(x.stale, clipboard, queue, i - 1) /\ i - 1 \in 0 .. Len(queue)
      BY <1>5, <2>2, <3>2 DEF GetsInv
    <3> QED
      BY <1>2, <1>3, <3>3, FollowedAppend
  <2> QED
    BY <2>1, <2>2
<1>8. ASSUME NEW i \in DOMAIN queue', queue'[i].id = h.id PROVE Followed(h.stale, clipboard, queue', i - 1)
  <2>1. \A j \in DOMAIN queue : queue[j].id # g.id
    BY <1>1 DEF TaskInv
  <2>2. i = Len(queue) + 1
    BY <1>2, <1>3, <1>8, <2>1, AppendFacts
  <2>3. Followed(g.stale, clipboard, queue, Len(queue)) /\ Len(queue) \in 0 .. Len(queue) /\ i - 1 = Len(queue)
    BY <1>1, <1>5, <2>2 DEF GetsInv
  <2> QED
    BY <1>2, <1>3, <2>3, FollowedAppend
<1>9. GetsInv'
  <2>1. SUFFICES ASSUME NEW x \in gets'
                 PROVE  /\ x.stage = "spawned" => Followed(x.stale, clipboard, queue', Len(queue'))
                        /\ \A i \in DOMAIN queue' : queue'[i].id = x.id => Followed(x.stale, clipboard, queue', i - 1)
                        /\ x.stage = "answered" => x.text \notin x.stale
    BY <1>1 DEF GetsInv
  <2>2. CASE x = h
    BY <1>3, <1>8, <2>2
  <2>3. CASE x \in gets /\ x # g
    BY <1>7, <2>3 DEF GetsInv
  <2> QED
    BY <1>3, <2>1, <2>2, <2>3
<1> QED
  BY <1>6, <1>9

LEMMA OldServe ==
  ASSUME Typed, TaskInv, OldInv, GetsInv, Serve PROVE OldInv' /\ GetsInv'
<1> DEFINE r == Head(queue)
<1>1. queue # <<>> /\ queue' = Tail(queue) /\ (SetServed(r) \/ KeptServed(r) \/ \E text : GetServed(r, text))
  BY ServeKinds
<1>2. queue \in Seq(Entry) /\ \A g \in gets : g \in Task
  BY DEF Typed, PcTyped
<1>3. /\ \A i \in DOMAIN Tail(queue) : i \in 1 .. Len(queue) - 1 /\ i + 1 \in DOMAIN queue /\ Tail(queue)[i] = queue[i + 1]
      /\ 1 \in DOMAIN queue /\ r = queue[1] /\ Len(queue) \in Nat /\ Len(queue) > 0 /\ Len(Tail(queue)) = Len(queue) - 1
  BY <1>1, <1>2, TailFacts
<1>4. Absent \notin Texts /\ \A g \in gets : g.stale \subseteq Texts
  BY <1>2, NoText, TaskFacts
\* What follows among the first n requests still does when the first has been served.
<1>5. ASSUME NEW S, NEW T, T \subseteq S, NEW n \in 1 .. Len(queue), Followed(S, clipboard, queue, n),
             KeptServed(r) => clipboard \notin T
      PROVE  Followed(T, clipboard', queue', n - 1)
  <2>1. clipboard' \in T => (clipboard' = r.text /\ r.id = 0) \/ (clipboard' = clipboard /\ r.id # 0)
    BY <1>1, <1>5 DEF SetServed, KeptServed, GetServed
  <2> QED
    BY <1>1, <1>2, <1>5, <2>1, FollowedTail
<1> HIDE DEF r
<1>6. OldInv'
  <2>1. old' \subseteq old /\ (KeptServed(r) => clipboard \notin old')
    BY <1>1 DEF SetServed, KeptServed, GetServed
  <2>2. Len(queue) \in 1 .. Len(queue) /\ Len(queue') = Len(queue) - 1
    BY <1>1, <1>3
  <2> QED
    BY <1>5, <2>1, <2>2 DEF OldInv
\* A task that is there afterwards and has not just been answered.
<1>7. ASSUME NEW g \in gets, NEW x, x.id = g.id, x.stage = g.stage, x.text = g.text, x.stale \subseteq g.stale,
             KeptServed(r) => clipboard \notin x.stale
      PROVE  /\ x.stage = "spawned" => Followed(x.stale, clipboard', queue', Len(queue'))
             /\ \A i \in DOMAIN queue' : queue'[i].id = x.id => Followed(x.stale, clipboard', queue', i - 1)
             /\ x.stage = "answered" => x.text \notin x.stale
  <2>1. x.stage = "spawned" => Followed(x.stale, clipboard', queue', Len(queue'))
    <3>1. Len(queue) \in 1 .. Len(queue) /\ Len(queue') = Len(queue) - 1
      BY <1>1, <1>3
    <3> QED
      BY <1>5, <1>7, <3>1 DEF GetsInv
  <2>2. ASSUME NEW i \in DOMAIN queue', queue'[i].id = x.id PROVE Followed(x.stale, clipboard', queue', i - 1)
    <3>1. i + 1 \in DOMAIN queue /\ queue[i + 1].id = g.id /\ i \in 1 .. Len(queue) /\ (i + 1) - 1 = i
      BY <1>1, <1>3, <1>7, <2>2
    <3>2. Followed(g.stale, clipboard, queue, i)
      BY <3>1 DEF GetsInv
    <3> QED
      BY <1>5, <1>7, <3>1, <3>2
  <2> QED
    BY <1>7, <2>1, <2>2 DEF GetsInv
<1>8. ASSUME NEW text, GetServed(r, text), NEW g \in gets, g.id = r.id, text # Absent
      PROVE  Answered(g, text).text \notin Answered(g, text).stale
  <2>1. Followed(g.stale, clipboard, queue, 1 - 1)
    BY <1>3, <1>8 DEF GetsInv
  <2>2. clipboard \notin g.stale
    BY <2>1 DEF Followed, SetIn
  <2>3. text = clipboard
    BY <1>8 DEF GetServed
  <2> QED
    BY <1>2, <2>2, <2>3, ServedFacts
<1>9. GetsInv'
  <2> SUFFICES ASSUME NEW x \in gets'
               PROVE  /\ x.stage = "spawned" => Followed(x.stale, clipboard', queue', Len(queue'))
                      /\ \A i \in DOMAIN queue' : queue'[i].id = x.id => Followed(x.stale, clipboard', queue', i - 1)
                      /\ x.stage = "answered" => x.text \notin x.stale
    BY DEF GetsInv
  <2>1. CASE SetServed(r) /\ ~KeptServed(r)
    <3>1. x \in gets
      BY <2>1 DEF SetServed
    <3> QED
      BY <1>7, <2>1, <3>1
  <2>2. CASE KeptServed(r)
    <3>1. PICK g \in gets : x = Spared(g, clipboard)
      BY <2>2 DEF KeptServed
    <3>2. x.id = g.id /\ x.stage = g.stage /\ x.text = g.text /\ x.stale = g.stale \ {clipboard}
      BY <1>2, <3>1, ServedFacts
    <3> QED
      BY <1>7, <3>2
  <2>3. ASSUME NEW text, GetServed(r, text)
        PROVE  /\ x.stage = "spawned" => Followed(x.stale, clipboard', queue', Len(queue'))
               /\ \A i \in DOMAIN queue' : queue'[i].id = x.id => Followed(x.stale, clipboard', queue', i - 1)
               /\ x.stage = "answered" => x.text \notin x.stale
    <3>1. ~KeptServed(r)
      BY <2>3 DEF GetServed, KeptServed
    <3>2. CASE x \in gets
      BY <1>7, <3>1, <3>2
    <3>3. CASE x \notin gets
      <4>1. PICK g \in gets : g.id = r.id /\ text # Absent /\ x = Answered(g, text)
        BY <2>3, <3>3 DEF GetServed
      <4>2. x.id = r.id /\ x.stage = "answered" /\ x.text \notin x.stale
        BY <1>2, <1>8, <2>3, <4>1, ServedFacts
      <4>3. ASSUME NEW i \in DOMAIN queue', queue'[i].id = x.id PROVE FALSE
        <5>1. i + 1 \in DOMAIN queue /\ queue[i + 1].id = r.id /\ i + 1 # 1 /\ r.id # 0
          BY <1>1, <1>3, <2>3, <4>2, <4>3 DEF GetServed
        <5> QED
          BY <1>3, <5>1 DEF TaskInv
      <4> QED
        BY <4>2, <4>3
    <3> QED
      BY <3>2, <3>3
  <2> QED
    BY <1>1, <2>1, <2>2, <2>3
<1> QED
  BY <1>6, <1>9

LEMMA OldStep ==
  ASSUME Typed, NetInv, AcceptedInv, TaskInv, Distinct, NotSeen, OldInv, GetsInv, Kinds PROVE OldInv' /\ GetsInv'
<1>1. CASE Elsewhere \/ OtherSent \/ OtherTaken \/ TextSent
  <2>1. UNCHANGED <<old, clipboard, queue, gets>>
    BY <1>1 DEF Elsewhere, OtherSent, OtherTaken, TextSent, texts
  <2> QED
    BY <2>1 DEF OldInv, GetsInv
<1>2. CASE TextTaken
  <2>1. PICK d : \E text \in Texts : /\ Takes(d) /\ TextOf(d.meant, text) /\ set(text)
                                     /\ UNCHANGED <<fresh, clipboard, gets>>
    BY <1>2 DEF TextTaken
  <2> QED
    BY <2>1, TakenUnseen, OldSet
<1>3. CASE RequestTaken
  <2>1. PICK d : Takes(d) /\ spawn(d) /\ UNCHANGED <<fresh, old, clipboard, queue>>
    BY <1>3 DEF RequestTaken
  <2> DEFINE g == [id |-> d.nonce, addr |-> d.addr, key |-> d.key, stage |-> "spawned", text |-> Absent, stale |-> old]
  <2>2. gets' = gets \cup {g} /\ g.id = d.nonce /\ g.stage = "spawned" /\ g.stale = old
    BY <2>1 DEF spawn
  <2> HIDE DEF g
  <2>3. d.nonce \notin Accepted /\ d.nonce # 0
    <3>1. d.nonce \in 1 .. sent /\ sent \in Nat
      BY <2>1, LinkAssumption DEF Takes, NetInv, Typed, PhonesTyped
    <3> QED
      BY <2>1, <3>1 DEF Takes
  <2>4. \A i \in DOMAIN queue : queue[i].id # g.id
    BY <2>2, <2>3 DEF TaskInv
  <2> QED
    BY <2>1, <2>2, <2>4 DEF OldInv, GetsInv
<1>4. CASE AtClipboard
  <2>1. CASE Answer \/ GiveUp
    <3>1. gets' \subseteq gets /\ UNCHANGED <<clipboard, queue, old>>
      BY <2>1 DEF Answer, GiveUp
    <3> QED
      BY <3>1 DEF OldInv, GetsInv
  <2> QED
    BY <1>4, <2>1, OldAsks, OldServe DEF AtClipboard
<1>5. CASE Copied
  <2>1. UNCHANGED <<old, queue, gets>>
    BY <1>5 DEF Copied, Copy
  <2>2. clipboard' \notin old /\ \A g \in gets : clipboard' \notin g.stale
    BY <1>5, CopiedUnseen DEF NotSeen
  <2> QED
    BY <2>1, <2>2, FollowedCopy DEF OldInv, GetsInv
<1> QED
  BY <1>1, <1>2, <1>3, <1>4, <1>5 DEF Kinds

---------------------------------------------------------------------------
LinkInv == Typed /\ NetInv /\ AcceptedInv /\ TaskInv /\ Distinct /\ NotSeen /\ OldInv /\ GetsInv

LEMMA LinkInit == Init => LinkInv /\ EndedHearsNothing
<1> SUFFICES ASSUME Init PROVE LinkInv /\ EndedHearsNothing
  OBVIOUS
<1>1. /\ net = {} /\ out = {} /\ sent = 0 /\ keys = <<>> /\ sessions = [a \in Addrs |-> 0] /\ paired = Phones
      /\ opened = FALSE /\ clipboard = Absent /\ queue = <<>> /\ gets = {} /\ fresh = Texts /\ old = {}
      /\ link \in [Phones -> [addr : Addrs, init : {0}, key : {0}]]
  BY DEF Init
<1>2. MaxSends \in Nat /\ MaxKeys \in Nat /\ Absent \notin Texts
  BY LinkAssumption, WireAssumption DEF IsText
<1>3. FromPhones = {} /\ Accepted = {}
  BY <1>1 DEF FromPhones, Accepted
<1>4. Carrying = {} /\ Unseen = Texts
  BY <1>1, <1>3 DEF Carrying, Unseen
<1>5. PhonesTyped
  <2>1. [addr : Addrs, init : {0}, key : {0}] \subseteq [addr : Addrs, init : 0 .. MaxSends, key : 0 .. MaxKeys]
    BY <1>2
  <2> QED
    BY <1>1, <1>2, <2>1 DEF PhonesTyped
<1>6. KeysTyped /\ PcTyped
  <2>1. <<>> \in Seq(Key) /\ Len(<<>>) = 0 /\ <<>> \in Seq(Entry)
    OBVIOUS
  <2>2. sessions \in [Addrs -> 0 .. 0]
    BY <1>1
  <2>3. KeysTyped
    BY <1>1, <1>2, <2>1, <2>2 DEF KeysTyped
  <2> QED
    BY <1>1, <2>1, <2>3 DEF PcTyped
<1>7. Typed
  BY <1>1, <1>5, <1>6 DEF Typed, AnswersInv
<1>8. NetInv /\ AcceptedInv
  BY <1>3 DEF NetInv, AcceptedInv
<1>9. TaskInv /\ Distinct /\ NotSeen
  BY <1>1, <1>2, <1>4 DEF TaskInv, Distinct, NotSeen
<1>10. OldInv /\ GetsInv
  BY <1>1 DEF OldInv, GetsInv, Followed
<1> QED
  BY <1>1, <1>7, <1>8, <1>9, <1>10 DEF LinkInv, EndedHearsNothing

LEMMA LinkNext == LinkInv /\ [Next]_vars => LinkInv'
<1> SUFFICES ASSUME LinkInv, [Next]_vars PROVE LinkInv'
  OBVIOUS
<1>1. CASE Next
  <2>1. Kinds
    BY <1>1, StepKinds DEF LinkInv
  <2>2. Typed' /\ NetInv' /\ AcceptedInv'
    BY <1>1, <2>1, TypedStep, NetStep DEF LinkInv
  <2>3. TaskInv'
    BY <2>1, TaskStep DEF LinkInv
  <2>4. Distinct' /\ NotSeen'
    BY <2>1, TextsStep DEF LinkInv
  <2>5. OldInv' /\ GetsInv'
    BY <2>1, OldStep DEF LinkInv
  <2> QED
    BY <2>2, <2>3, <2>4, <2>5 DEF LinkInv
<1>2. CASE UNCHANGED vars
  <2>1. UNCHANGED <<net, sent, link, fresh, keys, sessions, paired, opened, clipboard, queue, gets, old>>
    BY <1>2 DEF vars, phones, pc
  <2>2. FromPhones' = FromPhones /\ Accepted' = Accepted
    BY <2>1 DEF FromPhones, Accepted
  <2>3. Carrying' = Carrying /\ Unseen' = Unseen
    BY <2>1, <2>2 DEF Carrying, Unseen
  <2>4. Typed'
    BY <2>1 DEF LinkInv, Typed, PhonesTyped, KeysTyped, PcTyped, AnswersInv
  <2>5. NetInv' /\ AcceptedInv'
    BY <2>1, <2>2 DEF LinkInv, NetInv, AcceptedInv
  <2>6. TaskInv' /\ Distinct' /\ NotSeen'
    BY <2>1, <2>2, <2>3 DEF LinkInv, TaskInv, Distinct, NotSeen
  <2>7. OldInv' /\ GetsInv'
    BY <2>1 DEF LinkInv, OldInv, GetsInv
  <2> QED
    BY <2>4, <2>5, <2>6, <2>7 DEF LinkInv
<1> QED
  BY <1>1, <1>2

---------------------------------------------------------------------------
(* What is sent is what is read.                                           *)

AnsweredInv == \A g \in gets : g.stage = "answered" => g.text \in Texts

LEMMA DispatchGets == ASSUME NEW d, NEW m, Dispatch(d, m) PROVE UNCHANGED gets \/ spawn(d)
<1>1. CASE m.type \in {"ClipboardSet", "NowPlayingQuery", "HostInfoQuery"}
  BY <1>1, Zenon DEF Dispatch
<1>2. CASE m.type = "ClipboardGet"
  BY <1>2, Zenon DEF Dispatch
<1>3. CASE m.type \notin {"ClipboardSet", "NowPlayingQuery", "HostInfoQuery", "ClipboardGet"}
  BY <1>3, Zenon DEF Dispatch
<1> QED
  BY <1>1, <1>2, <1>3

\* An answer is a text: a task that is told there is none ends.
LEMMA AnsweredStep == Typed /\ AnsweredInv /\ Next => AnsweredInv'
<1> SUFFICES ASSUME Typed, AnsweredInv, Next PROVE AnsweredInv'
  OBVIOUS
<1>1. gets \subseteq Task /\ clipboard \in Texts \cup {Absent} /\ Absent \notin Texts
  BY NoText DEF Typed, PcTyped
<1>2. CASE UNCHANGED gets
  BY <1>2 DEF AnsweredInv
<1>3. ASSUME NEW d, spawn(d) PROVE AnsweredInv'
  BY <1>3 DEF AnsweredInv, spawn
<1>4. CASE Asks
  <2>1. \A g : [g EXCEPT !.stage = "waiting"].stage # "answered" \/ ~(g \in Task)
    BY DEF Task
  <2> QED
    BY <1>1, <1>4, <2>1 DEF Asks, Stage, AnsweredInv
<1>7. CASE Serve
  <2>1. PICK r : SetServed(r) \/ KeptServed(r) \/ \E text : GetServed(r, text)
    BY <1>7, ServeKinds
  <2>2. CASE SetServed(r)
    BY <1>2, <2>2 DEF SetServed
  <2>3. CASE KeptServed(r)
    <3> SUFFICES ASSUME NEW h \in gets', h.stage = "answered" PROVE h.text \in Texts
      BY DEF AnsweredInv
    <3>1. PICK g \in gets : h = Spared(g, clipboard)
      BY <2>3 DEF KeptServed
    <3>2. g \in Task /\ h.stage = g.stage /\ h.text = g.text
      BY <1>1, <3>1, ServedFacts
    <3> QED
      BY <3>2 DEF AnsweredInv
  <2>4. CASE \E text : GetServed(r, text)
    <3>1. PICK text : GetServed(r, text)
      BY <2>4
    <3> SUFFICES ASSUME NEW h \in gets', h.stage = "answered" PROVE h.text \in Texts
      BY DEF AnsweredInv
    <3>2. CASE h \in gets
      BY <3>2 DEF AnsweredInv
    <3>3. CASE h \notin gets
      <4>1. PICK g \in gets : h = Answered(g, text) /\ text # Absent
        BY <3>1, <3>3 DEF GetServed
      <4>2. h.text = text
        BY <1>1, <4>1, ServedFacts
      <4> QED
        BY <1>1, <3>1, <4>1, <4>2 DEF GetServed
    <3> QED
      BY <3>2, <3>3
  <2> QED
    BY <2>1, <2>2, <2>3, <2>4
<1>8. CASE Receive
  <2>1. PICK d \in net : handshake(d) \/ transport(d)
    BY <1>8 DEF Receive
  <2>2. CASE handshake(d)
    BY <1>2, <2>2 DEF handshake, pc
  <2>3. CASE transport(d)
    <3>1. Dispatch(d, ClientDecode(d.body))
      BY <2>3 DEF transport
    <3> QED
      BY <1>2, <1>3, <3>1, DispatchGets
  <2> QED
    BY <2>1, <2>2, <2>3
<1>9. CASE Answer \/ GiveUp
  BY <1>9 DEF Answer, GiveUp, AnsweredInv
<1>10. CASE \E p \in Phones : Hello(p) \/ HearHandshake(p) \/ SayText(p) \/ Ask(p)
  BY <1>2, <1>10 DEF Hello, HearHandshake, SayText, Ask, Say, pc
<1>11. CASE forget_all \/ expire_idle \/ Copy
  BY <1>2, <1>11 DEF forget_all, expire_idle, Copy, pc
<1> QED
  BY <1>4, <1>7, <1>8, <1>9, <1>10, <1>11 DEF Next, Silent

\* A text for a phone as it is read there.
LEMMA ClipRead ==
  ASSUME NEW t \in Texts
  PROVE  LET m == Message("ClipboardData", <<t>>) IN AsMeant(ServerDecode(ServerEncode(Clipped(m))), m)
<1> DEFINE m == Message("ClipboardData", <<t>>)
           max == MAX_CLIPBOARD_REPLY_BYTES
           cut == truncate_to_char_boundary(t, max)
           c == Message("ClipboardData", <<cut>>)
<1>1. IsText(t) /\ max \in Nat /\ max =< MAX_PAYLOAD
  BY LinkAssumption
<1>2. Cut(t, cut, max)
  BY <1>1, Truncated
<1>3. m.type = "ClipboardData" /\ m.args = <<t>> /\ m.args[1] = t
  BY DEF Message
<1>4. Clipped(m) = c
  <2> HIDE DEF m
  <2>1. Clipped(m) = Message(m.type, <<truncate_to_char_boundary(m.args[1], max)>>)
    BY <1>3 DEF Clipped
  <2> QED
    BY <1>3, <2>1
<1> HIDE DEF cut
<1>5. c.type = "ClipboardData" /\ c.args = <<cut>> /\ c.args[1] = cut
  BY DEF Message
<1>6. /\ "ClipboardData" \in DOMAIN ServerLayout /\ ServerLayout["ClipboardData"][2] = <<"text">>
  BY DEF ServerLayout
<1>7. IsText(cut) /\ Len(as_bytes(cut)) =< max
  BY <1>2 DEF Cut
<1>8. IsMessage(ServerLayout, c)
  BY <1>6, <1>7, TextMessage DEF Message
<1>9. AllShort(ServerLayout[c.type][2], c.args)
  <2>1. Len(<<"text">>) = 1 /\ <<"text">>[1] = "text"
    OBVIOUS
  <2>2. as_bytes(cut) \in Seq(Int)
    BY <1>7, TextRead
  <2>3. Len(as_bytes(cut)) =< MAX_PAYLOAD
    <3>1. Len(as_bytes(cut)) \in Nat /\ MAX_PAYLOAD \in Nat
      BY <2>2, WireAssumption
    <3> QED
      BY <1>1, <1>7, <3>1
  <2>4. Short("text", cut)
    BY <2>3 DEF Short
  <2> HIDE DEF c
  <2> QED
    BY <1>5, <1>6, <2>1, <2>4 DEF AllShort
<1>10. ServerEncode(c) # <<>>
  <2>1. encode(ServerLayout, c) # <<>>
    BY <1>8, <1>9, Encoded, ServerTable
  <2> HIDE DEF c
  <2> QED
    BY <1>5, <2>1 DEF ServerEncode
<1>11. ServerDecode(ServerEncode(c)) = c
  BY <1>8, <1>10, ServerRoundTrip
<1> HIDE DEF c, m
<1>12. AsMeant(c, m)
  BY <1>2, <1>3, <1>5 DEF AsMeant, Cut
<1> QED
  BY <1>4, <1>11, <1>12 DEF m

LEMMA HostInfoRead == ServerDecode(ServerEncode(Clipped(host_info))) = host_info /\ host_info.type # "ClipboardData"
<1> DEFINE fields == ServerLayout["HostInfo"][2]
           args == <<1, 1, 2, 1, 7>>
           m == [type |-> "HostInfo", args |-> args]
<1>1. fields = <<"os", "u8", "u8", "u8", "u8">> /\ "HostInfo" \in DOMAIN ServerLayout
  BY DEF ServerLayout
<1>2. host_info = m
  BY DEF host_info, Message
<1>3. m.type = "HostInfo" /\ m.args = args
  OBVIOUS
<1>4. Len(fields) = 5 /\ fields \in Seq(FieldKinds) /\ Len(args) = 5
  <2>1. "os" \in FieldKinds /\ "u8" \in FieldKinds
    BY DEF FieldKinds
  <2> QED
    BY <1>1, <2>1
<1>5. \A i \in 1 .. 5 : Fits(fields[i], args[i]) /\ fields[i] # "text"
  <2> SUFFICES ASSUME NEW i \in 1 .. 5 PROVE Fits(fields[i], args[i]) /\ fields[i] # "text"
    OBVIOUS
  <2>1. fields[i] \in {"u8", "os"} /\ args[i] \in Nat /\ args[i] < 256 /\ (fields[i] = "os" => args[i] < 4) /\ fields[i] # "text"
    BY <1>1
  <2> HIDE DEF fields, args
  <2> QED
    BY <2>1, Zenon DEF Fits
<1>6. Fields(fields, args) /\ AllShort(fields, args)
  BY <1>4, <1>5 DEF Fields, AllShort, Short
<1>7. args = [i \in 1 .. 5 |-> args[i]]
  OBVIOUS
<1> HIDE DEF fields, args
<1>8. IsMessage(ServerLayout, m)
  BY <1>1, <1>3, <1>4, <1>6, <1>7 DEF IsMessage, fields
<1>9. encode(ServerLayout, m) # <<>>
  BY <1>3, <1>6, <1>8, Encoded, ServerTable DEF fields
<1> HIDE DEF m
<1>10. ServerEncode(m) # <<>> /\ Clipped(m) = m
  BY <1>3, <1>9 DEF ServerEncode, Clipped
<1> QED
  BY <1>2, <1>3, <1>8, <1>10, ServerRoundTrip

LEMMA NothingRead ==
  ServerDecode(ServerEncode(Clipped(NothingPlaying))) = NothingPlaying /\ NothingPlaying.type # "ClipboardData"
<1> DEFINE m == NowPlaying(0, -1, -1, <<Absent, Absent, Absent, Absent>>)
<1>1. m.type = "NowPlaying"
  BY DEF NowPlaying
<1>2. Clipped(m) = m
  <2> HIDE DEF m
  <2> QED
    BY <1>1 DEF Clipped
<1>3. 0 \in Bits /\ IsTime(-1) /\ IsName(Absent) /\ Heard(Absent) = Absent
  BY DEF Bits, IsTime, IsName, Heard
<1>4. ServerDecode(ServerEncode(m)) = m
  BY <1>3, NowPlayingRoundTrip
<1> QED
  BY <1>1, <1>2, <1>4 DEF NothingPlaying

ReadRight(d) ==
  d.tag = WIRE_TRANSPORT => AsMeant(IF d.to = "server" THEN ClientDecode(d.body) ELSE ServerDecode(d.body), d.meant)

LEMMA SaidRead ==
  ASSUME NEW p, NEW m \in PhoneMessages, Say(p, m), out' = {} PROVE \A d \in (net' \ net) \cup out' : ReadRight(d)
<1> DEFINE e == Datagram("server", link[p].addr, WIRE_TRANSPORT, link[p].key, sent + 1, m, ClientEncode(m))
<1>1. net' = net \cup {e} /\ ClientEncode(m) # <<>>
  BY DEF Say
<1>2. e.to = "server" /\ e.meant = m /\ e.body = ClientEncode(m)
  BY DEF Datagram
<1> HIDE DEF e
<1>3. m.type # "ClipboardData"
  BY DEF PhoneMessages, Message, Requests
<1>4. ReadRight(e)
  BY <1>1, <1>2, <1>3, PhoneCodec DEF ReadRight, AsMeant
<1> QED
  BY <1>1, <1>4

LEMMA RepliesRead ==
  ASSUME NEW a, NEW k, NEW m, AsMeant(ServerDecode(ServerEncode(Clipped(m))), m), net' = net, out' = send_reply(a, k, m)
  PROVE  \A d \in (net' \ net) \cup out' : ReadRight(d)
<1> DEFINE e == Datagram("phone", a, WIRE_TRANSPORT, sessions[a], 0, m, ServerEncode(Clipped(m)))
<1>1. out' \subseteq {e}
  BY DEF send_reply, Sealed
<1>2. e.to # "server" /\ e.meant = m /\ e.body = ServerEncode(Clipped(m))
  BY DEF Datagram
<1> HIDE DEF e
<1>3. ReadRight(e)
  BY <1>2 DEF ReadRight
<1> QED
  BY <1>1, <1>3

LEMMA ReadStep ==
  ASSUME LinkInv, AnsweredInv, Next PROVE \A d \in (net' \ net) \cup out' : ReadRight(d)
<1> DEFINE Right == \A d \in (net' \ net) \cup out' : ReadRight(d)
<1>1. TypeOK /\ NetInv /\ AcceptedInv
  BY TypedIsTypeOK DEF LinkInv
<1>2. CASE net' = net /\ out' = {}
  BY <1>2
<1>3. ASSUME NEW p, Hello(p), out' = {} PROVE Right
  <2> DEFINE e == Datagram("server", link[p].addr, WIRE_HANDSHAKE_INIT, 0, sent + 1, Message(p, <<>>), <<>>)
  <2>1. net' = net \cup {e}
    BY <1>3 DEF Hello
  <2>2. e.tag # WIRE_TRANSPORT
    BY TagsDiffer DEF Datagram
  <2> HIDE DEF e
  <2> QED
    BY <1>3, <2>1, <2>2 DEF ReadRight
<1>4. ASSUME NEW p, SayText(p) \/ Ask(p), out' = {} PROVE Right
  <2>1. PICK m : Say(p, m) /\ m \in PhoneMessages
    <3>1. CASE SayText(p)
      <4>1. PICK t \in fresh : Say(p, Message("ClipboardSet", <<t>>))
        BY <3>1 DEF SayText
      <4>2. t \in Texts
        BY <1>1 DEF TypeOK
      <4> QED
        BY <4>1, <4>2 DEF PhoneMessages
    <3>2. CASE Ask(p)
      BY <3>2 DEF Ask, PhoneMessages, Requests
    <3> QED
      BY <1>4, <3>1, <3>2
  <2> QED
    BY <1>4, <2>1, SaidRead
<1>5. ASSUME NEW d \in net, handshake(d) PROVE Right
  <2>1. WIRE_HANDSHAKE_RESP # WIRE_TRANSPORT /\ WIRE_PAIRING_REJECTED # WIRE_TRANSPORT
    BY DEF WIRE_HANDSHAKE_RESP, WIRE_TRANSPORT, WIRE_PAIRING_REJECTED
  <2>2. out' = {} /\ \E e : net' = net \cup {e} /\ e.tag \in {WIRE_HANDSHAKE_RESP, WIRE_PAIRING_REJECTED}
    <3>1. \A to, b, tag, k, n, m, c : Datagram(to, b, tag, k, n, m, c).tag = tag
      BY DEF Datagram
    <3> QED
      BY <1>5, <3>1 DEF handshake
  <2> QED
    BY <2>1, <2>2 DEF ReadRight
<1>6. ASSUME NEW d \in net, d.to = "server", transport(d) PROVE Right
  <2> DEFINE m == ClientDecode(d.body)
  <2>1. Dispatch(d, m) /\ net' = net
    BY <1>6 DEF transport
  <2> HIDE DEF m
  <2>2. \/ out' = {}
        \/ out' = send_reply(d.addr, d.key, NothingPlaying)
        \/ out' = send_reply(d.addr, d.key, host_info)
    BY <2>1, Zenon DEF Dispatch
  <2>3. AsMeant(ServerDecode(ServerEncode(Clipped(NothingPlaying))), NothingPlaying)
    BY NothingRead DEF AsMeant
  <2>4. AsMeant(ServerDecode(ServerEncode(Clipped(host_info))), host_info)
    BY HostInfoRead DEF AsMeant
  <2>5. CASE out' = send_reply(d.addr, d.key, NothingPlaying)
    BY <2>1, <2>3, <2>5, RepliesRead
  <2>6. CASE out' = send_reply(d.addr, d.key, host_info)
    BY <2>1, <2>4, <2>6, RepliesRead
  <2> QED
    BY <1>2, <2>1, <2>2, <2>5, <2>6
<1>7. CASE Answer
  <2>1. PICK g \in gets : /\ g.stage = "answered" /\ net' = net
                          /\ out' = send_reply(g.addr, g.key, Message("ClipboardData", <<g.text>>))
    BY <1>7 DEF Answer
  <2>2. g.text \in Texts
    BY <2>1 DEF AnsweredInv
  <2> QED
    BY <2>1, <2>2, ClipRead, RepliesRead
<1>8. CASE Receive
  BY <1>5, <1>6, <1>8 DEF Receive
<1>9. CASE Silent /\ out' = {}
  <2>1. CASE \E p \in Phones : HearHandshake(p)
    BY <1>2, <1>9, <2>1 DEF HearHandshake
  <2>2. CASE forget_all \/ expire_idle \/ Asks \/ Serve \/ GiveUp \/ Copy
    BY <1>2, <1>9, <2>2 DEF forget_all, expire_idle, Asks, Serve, GiveUp, Copy
  <2> QED
    BY <1>3, <1>4, <1>9, <2>1, <2>2 DEF Silent
<1> QED
  BY <1>7, <1>8, <1>9 DEF Next

\* What the desktop remembers, what is on the network and what the phones keep stay what they may be.
THEOREM LinkTyped == Spec => []TypeOK
<1>1. LinkInv => TypeOK
  BY TypedIsTypeOK DEF LinkInv
<1> QED
  BY LinkInit, LinkNext, <1>1, PTL DEF Spec

\* A phone that sends a text and then asks for the text is never given what its own text has replaced, whatever is
\* delayed, repeated or lost between them (RequestHandler::serve, SessionManager::decrypt).
THEOREM NeverOld == Spec => []AnswerIsNotOld
<1>1. LinkInv => AnswerIsNotOld
  BY DEF LinkInv, GetsInv, AnswerIsNotOld
<1> QED
  BY LinkInit, LinkNext, <1>1, PTL DEF Spec

\* Nothing is sent to a session that has ended: an answer begun for it goes out under the keys in force, or not at
\* all (send_reply, SessionManager::forget_all, expire_idle).
THEOREM EndedIsEnded == Spec => []EndedHearsNothing
BY LinkInit, EndedStep, PTL DEF Spec

\* What one side encodes is what the other decodes, whatever is copied, and a text for a phone arrives as far as it
\* fits and is never cut through a character.
THEOREM AsSent == Spec => ReadAsMeant
<1>1. Init => LinkInv /\ AnsweredInv
  BY LinkInit DEF Init, AnsweredInv
<1>2. LinkInv /\ AnsweredInv /\ [Next]_vars => LinkInv' /\ AnsweredInv'
  <2>1. LinkInv => Typed
    BY DEF LinkInv
  <2>2. AnsweredInv /\ UNCHANGED vars => AnsweredInv'
    BY DEF AnsweredInv, vars, pc
  <2> QED
    BY <2>1, <2>2, LinkNext, AnsweredStep
<1>3. LinkInv /\ AnsweredInv /\ Next =>
        \A d \in (net' \ net) \cup out' : d.tag = WIRE_TRANSPORT =>
           AsMeant(IF d.to = "server" THEN ClientDecode(d.body) ELSE ServerDecode(d.body), d.meant)
  BY ReadStep DEF ReadRight
<1> QED
  BY <1>1, <1>2, <1>3, PTL DEF Spec, ReadAsMeant

---------------------------------------------------------------------------
(***************************************************************************)
(* Discovery: one PC is heard once.                                        *)
(***************************************************************************)

---------------------------------------------------------------------------
(* What the system lists, read into networks.                              *)

NetworksOf(list) == {Network(list[i]) : i \in 1 .. Len(list)}
Lists(list, f) ==
  f = [i \in 0 .. Len(list) |->
         IF i = 0 THEN <<>>
         ELSE IF Usable(list[i]) /\ \A j \in DOMAIN f[i - 1] : f[i - 1][j].ip # list[i].ip
         THEN Append(f[i - 1], Network(list[i]))
         ELSE f[i - 1]]

\* The loop's result is a sequence of the networks there are.
LEMMA NetworksTyped ==
  ASSUME NEW list \in Setups PROVE local_ipv4_networks(list) \in Seq(NetworksOf(list))
<1> DEFINE n == Len(list)
           Nets == NetworksOf(list)
           State == Seq(Nets)
           Pushed(s, i) == IF Usable(list[i]) /\ \A j \in DOMAIN s : s[j].ip # list[i].ip THEN Append(s, Network(list[i])) ELSE s
           J == CHOOSE f : Lists(list, f)
<1>1. n \in Nat
  BY DiscoveryAssumption
<1>2. local_ipv4_networks(list) = J[n]
  BY DEF local_ipv4_networks, Lists
<1>3. \A f : Lists(list, f) <=> f = [i \in 0 .. n |-> IF i = 0 THEN <<>> ELSE Pushed(f[i - 1], i)]
  BY DEF Lists
<1>4. \A s \in State : \A i \in 1 .. n : Pushed(s, i) \in State
  <2> SUFFICES ASSUME NEW s \in State, NEW i \in 1 .. n PROVE Pushed(s, i) \in State
    OBVIOUS
  <2>1. Network(list[i]) \in Nets
    BY DEF NetworksOf
  <2> HIDE DEF Nets
  <2>2. Append(s, Network(list[i])) \in State
    BY <2>1
  <2> QED
    BY <2>2
<1>5. <<>> \in State
  OBVIOUS
<1> HIDE DEF n, State, Nets, Pushed
<1>6. \E f \in [0 .. n -> State] : Lists(list, f)
  <2> DEFINE step == [p \in Nat \X State |-> IF p[1] \in 1 .. n THEN Pushed(p[2], p[1]) ELSE <<>>]
  <2>1. step \in [Nat \X State -> State]
    BY <1>4, <1>5
  <2> HIDE DEF step
  <2>2. PICK f \in [0 .. n -> State] : Recursive(f, 0, n, <<>>, step)
    BY <1>1, <1>5, <2>1, RecursionExists
  <2>3. \A i \in 0 .. n : f[i] = IF i = 0 THEN <<>> ELSE Pushed(f[i - 1], i)
    <3> SUFFICES ASSUME NEW i \in 0 .. n PROVE f[i] = IF i = 0 THEN <<>> ELSE Pushed(f[i - 1], i)
      OBVIOUS
    <3>1. CASE i = 0
      BY <2>2, <3>1 DEF Recursive
    <3>2. CASE i # 0
      <4>1. i \in Nat /\ i \in 1 .. n /\ i - 1 \in 0 .. n
        BY <1>1, <3>2
      <4>2. f[i - 1] \in State
        BY <4>1
      <4>3. step[<<i, f[i - 1]>>] = Pushed(f[i - 1], i)
        BY <4>1, <4>2 DEF step
      <4> QED
        BY <2>2, <3>2, <4>3 DEF Recursive
    <3> QED
      BY <3>1, <3>2
  <2>4. f = [i \in 0 .. n |-> IF i = 0 THEN <<>> ELSE Pushed(f[i - 1], i)]
    BY <2>3
  <2> QED
    BY <1>3, <2>4
<1>7. Lists(list, J)
  BY <1>6
<1>8. \A i \in 0 .. n : J[i] = IF i = 0 THEN <<>> ELSE Pushed(J[i - 1], i)
  <2> HIDE DEF J
  <2>1. J = [i \in 0 .. n |-> IF i = 0 THEN <<>> ELSE Pushed(J[i - 1], i)]
    BY <1>3, <1>7
  <2> DEFINE g == [i \in 0 .. n |-> IF i = 0 THEN <<>> ELSE Pushed(J[i - 1], i)]
  <2>2. \A i \in 0 .. n : g[i] = IF i = 0 THEN <<>> ELSE Pushed(J[i - 1], i)
    OBVIOUS
  <2> HIDE DEF g
  <2> QED
    BY <2>1, <2>2 DEF g
<1> HIDE DEF J
<1>9. {k \in Nat : k =< n => J[k] \in State} = Nat
  <2> DEFINE K == {k \in Nat : k =< n => J[k] \in State}
  <2>1. 0 \in K
    BY <1>1, <1>5, <1>8
  <2>2. ASSUME NEW k \in K PROVE k + 1 \in K
    <3> SUFFICES ASSUME k + 1 =< n PROVE J[k + 1] \in State
      BY <2>2
    <3>1. k \in 0 .. n /\ k + 1 \in 1 .. n /\ k + 1 \in 0 .. n /\ (k + 1) - 1 = k /\ k + 1 # 0
      BY <1>1, <2>2
    <3>2. J[k] \in State
      BY <1>1, <3>1
    <3>3. J[k + 1] = Pushed(J[k], k + 1)
      BY <1>8, <3>1
    <3> QED
      BY <1>4, <3>1, <3>2, <3>3
  <2>3. K \in SUBSET Nat
    OBVIOUS
  <2> HIDE DEF K
  <2> QED
    BY <2>1, <2>2, <2>3, NatSetInduction DEF K
<1> QED
  BY <1>1, <1>2, <1>9 DEF State, Nets

---------------------------------------------------------------------------
(* From where it is announced.                                             *)

\* What the sockets of the last refresh would send: an address to broadcast to has one source, and the group is sent
\* to from where there is somebody to hear it.
Announcing(A) ==
  /\ \A a, b \in A : \A t \in a.targets \cap b.targets : t \in {Group, BROADCAST} \/ a.source = b.source
  /\ \A a \in A : Group \in a.targets /\ a.source # UNSPECIFIED => \E t \in a.targets : t # Group

\* A plan is kept by the sockets that are not to be had, and by those that refuse the group.
LEMMA AnnouncersKeep ==
  ASSUME NEW W, Announcing(W), \A w \in W : \E s, T : w = [source |-> s, targets |-> T],
         NEW A, \A a \in A : \E w \in W : a = announcer(w)
  PROVE  Announcing(A)
<1>1. ASSUME NEW a \in A
      PROVE  \E w \in W : a.source = w.source /\ a.targets \in {w.targets, w.targets \ {Group}}
  <2>1. PICK w \in W : a = announcer(w)
    OBVIOUS
  <2>2. PICK s, T : w = [source |-> s, targets |-> T]
    OBVIOUS
  <2>3. a.source = w.source /\ a.targets \in {w.targets, w.targets \ {Group}}
    BY <2>1, <2>2 DEF announcer
  <2> QED
    BY <2>3
<1> QED
  BY <1>1 DEF Announcing

LEMMA PlanAnnounces ==
  ASSUME NEW networks, NEW N, networks \in Seq(N), \A n \in N : n.broadcast # Group
  PROVE  Announcing(announcement_plan(networks))
<1> DEFINE P == announcement_plan(networks)
           F == FirstOfSubnet(networks)
<1>1. DOMAIN networks = 1 .. Len(networks) /\ Len(networks) \in Nat /\ \A i \in 1 .. Len(networks) : networks[i] \in N
  OBVIOUS
<1>2. ASSUME NEW i \in F, NEW j \in F, networks[i].broadcast = networks[j].broadcast PROVE i = j
  <2>1. i \in 1 .. Len(networks) /\ j \in 1 .. Len(networks) /\ i \notin 1 .. j - 1 /\ j \notin 1 .. i - 1
    BY <1>1, <1>2 DEF FirstOfSubnet
  <2> QED
    BY <1>1, <2>1
<1>3. ASSUME NEW i \in F PROVE announcement_targets(networks[i]) = {networks[i].broadcast, Group} /\ networks[i].broadcast # Group
  BY <1>1 DEF FirstOfSubnet, announcement_targets
<1>4. ASSUME NEW a \in P
      PROVE  \E i \in F : a.source = networks[i].ip /\ a.targets = {networks[i].broadcast, Group} /\ networks[i].broadcast # Group
  <2>1. PICK i \in F : a = [source |-> networks[i].ip, targets |-> announcement_targets(networks[i])]
    BY DEF announcement_plan
  <2> QED
    BY <1>3, <2>1
<1> HIDE DEF P, F
<1>5. ASSUME NEW a \in P, NEW b \in P, NEW t \in a.targets \cap b.targets PROVE t = Group \/ a.source = b.source
  <2>1. PICK i \in F : a.source = networks[i].ip /\ a.targets = {networks[i].broadcast, Group}
    BY <1>4
  <2>2. PICK j \in F : b.source = networks[j].ip /\ b.targets = {networks[j].broadcast, Group}
    BY <1>4
  <2>3. CASE t # Group
    <3>1. i = j
      BY <1>2, <2>1, <2>2, <2>3
    <3> QED
      BY <2>1, <2>2, <3>1
  <2> QED
    BY <2>3
<1>6. ASSUME NEW a \in P PROVE \E t \in a.targets : t # Group
  BY <1>4, ZenonT(30)
<1> QED
  BY <1>5, <1>6 DEF Announcing, P

LEMMA BuildAnnounces == ASSUME NEW list \in Setups PROVE Announcing(build_announcers(local_ipv4_networks(list)))
<1> DEFINE networks == local_ipv4_networks(list)
           wanted == IF networks = <<>> THEN {[source |-> UNSPECIFIED, targets |-> fallback_targets]}
                     ELSE announcement_plan(networks)
           A == {announcer(a) : a \in {w \in wanted : w.source \notin refusing}}
<1>1. networks \in Seq(NetworksOf(list)) /\ \A n \in NetworksOf(list) : n.broadcast # Group
  BY NetworksTyped, DiscoveryAssumption DEF NetworksOf
<1> HIDE DEF networks
<1>2. Announcing(wanted) /\ \A w \in wanted : \E s, T : w = [source |-> s, targets |-> T]
  <2>1. CASE networks = <<>>
    <3>1. wanted = {[source |-> UNSPECIFIED, targets |-> fallback_targets]}
      BY <2>1
    <3> HIDE DEF wanted
    <3>2. \A w \in wanted : w = [source |-> UNSPECIFIED, targets |-> fallback_targets] /\ w.source = UNSPECIFIED
      BY <3>1
    <3>3. Announcing(wanted)
      BY <3>2, Zenon DEF Announcing
    <3> QED
      BY <3>2, <3>3
  <2>2. CASE networks # <<>>
    <3>1. wanted = announcement_plan(networks)
      BY <2>2
    <3>2. Announcing(announcement_plan(networks))
      BY <1>1, PlanAnnounces
    <3>3. \A w \in announcement_plan(networks) : \E s, T : w = [source |-> s, targets |-> T]
      BY DEF announcement_plan
    <3> HIDE DEF wanted
    <3> QED
      BY <3>1, <3>2, <3>3
  <2> QED
    BY <2>1, <2>2
<1>3. build_announcers(networks) = A
  BY DEF build_announcers
<1>4. \A a \in A : \E w \in wanted : a = announcer(w)
  OBVIOUS
<1> HIDE DEF wanted, A
<1> QED
  BY <1>2, <1>3, <1>4, AnnouncersKeep DEF networks

---------------------------------------------------------------------------
(* The invariant.                                                          *)

Announced(A) == UNION {{[source |-> a.source, to |-> t] : t \in a.targets} : a \in A}
DiscoveryInv ==
  /\ interfaces \in Setups
  /\ Announcing(announcers)
  /\ announced \in {{}, Announced(announcers)}

LEMMA DiscoveryInvInit == DiscoveryInit => DiscoveryInv
BY DEF DiscoveryInit, DiscoveryInv, Announcing

LEMMA DiscoveryInvNext == DiscoveryInv /\ [DiscoveryNext]_discovery_vars => DiscoveryInv'
<1> SUFFICES ASSUME DiscoveryInv, [DiscoveryNext]_discovery_vars PROVE DiscoveryInv'
  OBVIOUS
<1>1. CASE Round
  <2>1. Networks[interfaces] = local_ipv4_networks(interfaces)
    BY DEF DiscoveryInv, Networks
  <2>2. Announcing(build_announcers(Networks[interfaces]))
    BY <2>1, BuildAnnounces DEF DiscoveryInv
  <2>3. announcers' \in {announcers, build_announcers(Networks[interfaces])} /\ interfaces' = interfaces
    BY <1>1 DEF Round, env
  <2>4. Announcing(announcers')
    BY <2>2, <2>3 DEF DiscoveryInv
  <2>5. announced' = Announced(announcers')
    BY <1>1 DEF Round, Announced
  <2> QED
    BY <2>3, <2>4, <2>5 DEF DiscoveryInv
<1>2. CASE Move
  BY <1>2 DEF Move, DiscoveryInv
<1>3. CASE Refuse
  BY <1>3 DEF Refuse, DiscoveryInv
<1>4. CASE UNCHANGED discovery_vars
  BY <1>4 DEF discovery_vars, env, DiscoveryInv
<1> QED
  BY <1>1, <1>2, <1>3, <1>4 DEF DiscoveryNext

LEMMA AnnouncedOnce == DiscoveryInv => HeardOnce
<1> SUFFICES ASSUME DiscoveryInv, announced = Announced(announcers) PROVE HeardOnce
  BY DEF DiscoveryInv, HeardOnce
<1>1. ASSUME NEW x \in announced PROVE \E a \in announcers : x.source = a.source /\ x.to \in a.targets
  BY DEF Announced
<1>2. ASSUME NEW a \in announcers, NEW t \in a.targets PROVE [source |-> a.source, to |-> t] \in announced
  BY DEF Announced
<1> SUFFICES ASSUME NEW x \in announced, NEW y \in announced
             PROVE  /\ x.to = y.to /\ x.to \notin {Group, BROADCAST} => x.source = y.source
                    /\ x.to = Group /\ x.source # UNSPECIFIED => \E z \in announced : z.source = x.source /\ z.to # Group
  BY DEF HeardOnce
<1>3. PICK a \in announcers : x.source = a.source /\ x.to \in a.targets
  BY <1>1
<1>4. PICK b \in announcers : y.source = b.source /\ y.to \in b.targets
  BY <1>1
<1>5. x.to = y.to /\ x.to \notin {Group, BROADCAST} => x.source = y.source
  BY <1>3, <1>4 DEF DiscoveryInv, Announcing
<1>6. ASSUME x.to = Group, x.source # UNSPECIFIED PROVE \E z \in announced : z.source = x.source /\ z.to # Group
  <2>1. PICK t \in a.targets : t # Group
    BY <1>3, <1>6 DEF DiscoveryInv, Announcing
  <2>2. [source |-> a.source, to |-> t] \in announced
    BY <1>2
  <2> QED
    BY <1>3, <2>1, <2>2
<1> QED
  BY <1>5, <1>6

\* One PC is one in a phone's list: what one round announces on a network comes from one address, and from where
\* somebody can hear it, whatever interfaces come and go and whatever the system refuses.
THEOREM OnePC == DiscoverySpec => []HeardOnce
BY DiscoveryInvInit, DiscoveryInvNext, AnnouncedOnce, PTL DEF DiscoverySpec

===========================================================================
