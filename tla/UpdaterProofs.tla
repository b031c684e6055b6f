----------------------------- MODULE UpdaterProofs -----------------------------
(***************************************************************************)
(* Theorems about Updater, for any threads, versions, feeds and copies of  *)
(* Telepad, and any number of failing renames and power cuts.              *)
(* Then about CommandLines, what is in the entry that starts it at login.  *)
(***************************************************************************)
EXTENDS Updater, CommandLines, SequenceLemmas, FiniteSetTheorems

Fetching == {"preparing", "downloading", "verifying"}
InSwap == {"clearing", "copying", "aside", "swapping", "cleaning"}
Coming == {"installer", "replacing"}   \* an installer that has yet to replace the program
Putting == {"applying", "staging", "renaming", "relaunching"} \cup InSwap

\* Who works, and what the state says of it.
WorkInv ==
    /\ \A t, u \in Working : t = u
    /\ \A t \in Threads :
           /\ pc[t] = "asking" => state = "Checking"
           /\ pc[t] \in Fetching => state = "Downloading"
           /\ pc[t] \in Putting => state = "Installing"
           /\ pc[t] \in Fetching \cup Putting => update.install
    /\ state \in {"Checking", "Downloading", "Installing"} => Working # {}
    /\ state = "Restarting" => process = "quitting"
    /\ process = "down" => Working = {} /\ state = "Unknown" /\ update = UpToDate

\* Only a later version is worked on, and only by copies that can replace themselves.
OfferInv ==
    update # UpToDate => is_offered(running, update.version) /\ (update.install => kind # "Unsupported")

\* What may be put in place: what runs, what is offered, or something else after a change of the file.
FitFor(content, current, k, changed) ==
    \/ content \in Versions /\ (content = current \/ is_offered(current, content))
    \/ content = Other /\ changed = TRUE /\ k \notin Formats
Fit(content) == FitFor(content, running, kind, tampered)

\* What the files hold at each point of an installation.
PlaceInv ==
    /\ place.app = Nothing \/ Fit(place.app)
    /\ \A t \in Threads :
           /\ pc[t] = "applying" => file # "other" \/ tampered
           /\ pc[t] \in {"clearing", "copying", "staging"} => Fit(puts)
           /\ pc[t] \in {"aside", "swapping", "renaming"} => Fit(place.new)
           /\ pc[t] = "swapping" => Fit(place.old)
           /\ pc[t] \in InSwap => kind = "MacApp"
           /\ pc[t] \in {"staging", "renaming"} => kind = "LinuxUser"
    /\ helper \in Coming => kind = "WindowsInstaller" /\ Fit(puts)
    /\ kind = "WindowsInstaller" =>
           place.app \in {running, Other} \/ (process = "down" /\ helper \notin Coming)
    /\ kind = "Unsupported" => place.app = running

\* The program is in its place but between the two renames, or when they were cut short.
ThereInv ==
    faults < 2 =>
        /\ Complete(place.app) \/ Complete(place.old)
        /\ process = "down" \/ Complete(place.app) \/ \E t \in Threads : pc[t] = "swapping"

UpdaterInv == TypeOK /\ WorkInv /\ OfferInv /\ PlaceInv /\ ThereInv
-----------------------------------------------------------------------------
(* Versions: later and earlier is a strict and total order, so that what   *)
(* is newest is one release, whatever the order of the feed.               *)

\* The first place at which t is later than s.
Decides(s, t, n) ==
    /\ n \in 1 .. Len(t) /\ n - 1 <= Len(s)
    /\ \A j \in 1 .. n - 1 : s[j] = t[j]
    /\ n > Len(s) \/ PartLess(s[n], t[n])

\* Parts are in a strict and total order.
LEMMA PartOrder ==
  /\ \A a \in Part : ~PartLess(a, a)
  /\ \A a, b, c \in Part : PartLess(a, b) /\ PartLess(b, c) => PartLess(a, c)
  /\ \A a, b \in Part : a # b => PartLess(a, b) \/ PartLess(b, a)
<1>1. \A a \in Part : a = [word |-> a.word, val |-> a.val] /\ a.word \in BOOLEAN /\ a.val \in Nat
  BY DEF Part
<1>2. \A a \in Part : ~PartLess(a, a)
  BY <1>1 DEF PartLess
<1>3. ASSUME NEW a \in Part, NEW b \in Part, NEW c \in Part, PartLess(a, b), PartLess(b, c) PROVE PartLess(a, c)
  <2>1. CASE ~a.word /\ c.word
    BY <2>1 DEF PartLess
  <2>2. CASE a.word = b.word /\ b.word = c.word
    BY <1>1, <1>3, <2>2 DEF PartLess
  <2> QED
    BY <1>1, <1>3, <2>1, <2>2 DEF PartLess
<1>4. ASSUME NEW a \in Part, NEW b \in Part, a # b, ~PartLess(a, b) PROVE PartLess(b, a)
  <2>1. CASE a.word = b.word
    BY <1>1, <1>4, <2>1 DEF PartLess
  <2>2. CASE a.word # b.word
    BY <1>1, <1>4, <2>2, Zenon DEF PartLess
  <2> QED
    BY <2>1, <2>2
<1> QED
  BY <1>2, <1>3, <1>4

\* Two sequences compare as their first difference does.
LEMMA SeqLessIs ==
  ASSUME NEW s \in Seq(Part), NEW t \in Seq(Part)
  PROVE  SeqLess(s, t) <=> \E n \in Nat : Decides(s, t, n)
<1>1. DOMAIN s = 1 .. Len(s) /\ DOMAIN t = 1 .. Len(t) /\ Len(s) \in Nat /\ Len(t) \in Nat
  OBVIOUS
<1>2. ASSUME NEW i \in DOMAIN s \cap DOMAIN t, PartLess(s[i], t[i]), \A j \in 1 .. i - 1 : s[j] = t[j]
      PROVE  \E n \in Nat : Decides(s, t, n)
  <2>1. i \in Nat /\ i \in 1 .. Len(t) /\ i - 1 <= Len(s)
    BY <1>1
  <2>2. Decides(s, t, i)
    BY <1>2, <2>1 DEF Decides
  <2> QED
    BY <2>1, <2>2
<1>3. ASSUME IsStrictPrefix(s, t) PROVE \E n \in Nat : Decides(s, t, n)
  <2>1. Len(s) <= Len(t)
    BY <1>3 DEF IsStrictPrefix, IsPrefix
  <2>2. \A j \in 1 .. Len(s) : s[j] = t[j]
    <3>1. SubSeq(s, 1, Len(s)) = SubSeq(t, 1, Len(s))
      BY <1>3 DEF IsStrictPrefix, IsPrefix
    <3> QED
      BY <1>1, <2>1, <3>1
  <2>3. Len(s) # Len(t)
    BY <1>3, <2>2, SeqEqual DEF IsStrictPrefix
  <2> DEFINE n == Len(s) + 1
  <2>4. n \in Nat /\ n \in 1 .. Len(t) /\ n - 1 = Len(s) /\ n > Len(s)
    <3> DEFINE k == Len(s)
               l == Len(t)
    <3>1. k \in Nat /\ l \in Nat
      OBVIOUS
    <3>2. k <= l
      BY <2>1
    <3>3. k # l
      BY <2>3
    <3> HIDE DEF k, l
    <3>4. k < l
      BY <3>1, <3>2, <3>3
    <3>5. Len(s) < Len(t)
      BY <3>4 DEF k, l
    <3> QED
      BY <1>1, <3>5
  <2> HIDE DEF n
  <2>5. Decides(s, t, n)
    BY <1>1, <2>2, <2>4 DEF Decides
  <2> QED
    BY <2>4, <2>5
<1>4. ASSUME NEW n \in Nat, Decides(s, t, n) PROVE SeqLess(s, t)
  <2>1. CASE n > Len(s)
    <3>1. Len(s) = n - 1 /\ Len(s) < Len(t) /\ \A j \in 1 .. Len(s) : s[j] = t[j]
      BY <1>1, <1>4, <2>1 DEF Decides
    <3>2. SubSeq(s, 1, Len(s)) = SubSeq(t, 1, Len(s))
      BY <1>1, <3>1
    <3> QED
      BY <3>1, <3>2 DEF SeqLess, IsStrictPrefix, IsPrefix
  <2>2. CASE ~(n > Len(s))
    <3>1. n \in DOMAIN s \cap DOMAIN t
      BY <1>1, <1>4, <2>2 DEF Decides
    <3> QED
      BY <1>4, <2>2, <3>1 DEF Decides, SeqLess
  <2> QED
    BY <2>1, <2>2
<1> QED
  BY <1>2, <1>3, <1>4 DEF SeqLess

\* So are sequences of parts.
LEMMA SeqOrder ==
  /\ \A s \in Seq(Part) : ~SeqLess(s, s)
  /\ \A s, t, u \in Seq(Part) : SeqLess(s, t) /\ SeqLess(t, u) => SeqLess(s, u)
  /\ \A s, t \in Seq(Part) : s # t => SeqLess(s, t) \/ SeqLess(t, s)
<1>1. ASSUME NEW s \in Seq(Part), SeqLess(s, s) PROVE FALSE
  <2>1. PICK n \in Nat : Decides(s, s, n)
    BY <1>1, SeqLessIs
  <2>2. s[n] \in Part /\ PartLess(s[n], s[n])
    BY <2>1 DEF Decides
  <2> QED
    BY <2>2, PartOrder
<1>2. ASSUME NEW s \in Seq(Part), NEW t \in Seq(Part), NEW u \in Seq(Part), SeqLess(s, t), SeqLess(t, u)
      PROVE  SeqLess(s, u)
  <2>1. PICK m \in Nat : Decides(s, t, m)
    BY <1>2, SeqLessIs
  <2>2. PICK n \in Nat : Decides(t, u, n)
    BY <1>2, SeqLessIs
  <2>3. Len(s) \in Nat /\ Len(t) \in Nat /\ Len(u) \in Nat
    OBVIOUS
  <2>4. CASE m < n
    <3>1. m \in 1 .. n - 1 /\ m \in 1 .. Len(u) /\ \A j \in 1 .. m - 1 : j \in 1 .. n - 1
      BY <2>2, <2>3, <2>4, <2>1 DEF Decides
    <3>2. t[m] = u[m] /\ \A j \in 1 .. m - 1 : t[j] = u[j]
      BY <2>2, <3>1 DEF Decides
    <3>3. Decides(s, u, m)
      BY <2>1, <3>1, <3>2 DEF Decides
    <3> QED
      BY <3>3, SeqLessIs
  <2>5. CASE n < m
    <3>1. n \in 1 .. m - 1 /\ n <= Len(s) /\ n <= Len(t) /\ \A j \in 1 .. n - 1 : j \in 1 .. m - 1
      BY <2>1, <2>2, <2>3, <2>5 DEF Decides
    <3>2. s[n] = t[n] /\ \A j \in 1 .. n - 1 : s[j] = t[j]
      BY <2>1, <3>1 DEF Decides
    <3>3. Decides(s, u, n)
      BY <2>2, <2>3, <3>1, <3>2 DEF Decides
    <3> QED
      BY <3>3, SeqLessIs
  <2>6. CASE m = n
    <3>1. m > Len(s) \/ PartLess(s[m], u[m])
      <4> SUFFICES ASSUME ~(m > Len(s)) PROVE PartLess(s[m], u[m])
        OBVIOUS
      <4>1. m \in 1 .. Len(s) /\ m \in 1 .. Len(t) /\ m \in 1 .. Len(u)
        BY <2>1, <2>2, <2>3, <2>6 DEF Decides
      <4>2. s[m] \in Part /\ t[m] \in Part /\ u[m] \in Part
        BY <4>1
      <4>3. PartLess(s[m], t[m]) /\ PartLess(t[m], u[m])
        BY <2>1, <2>2, <2>3, <2>6, <4>1 DEF Decides
      <4> QED
        BY <4>2, <4>3, PartOrder
    <3>2. Decides(s, u, m)
      BY <2>1, <2>2, <2>6, <3>1 DEF Decides
    <3> QED
      BY <3>2, SeqLessIs
  <2> QED
    BY <2>4, <2>5, <2>6
<1>3. ASSUME NEW s \in Seq(Part), NEW t \in Seq(Part), s # t PROVE SeqLess(s, t) \/ SeqLess(t, s)
  <2> DEFINE Same(n) == n <= Len(s) /\ n <= Len(t) /\ s[n] = t[n]
             K == {n \in Nat : \A j \in 1 .. n : Same(j)}
  <2>1. Len(s) \in Nat /\ Len(t) \in Nat
    OBVIOUS
  <2>2. PICK n \in Nat : n \in K /\ n + 1 \notin K /\ (n < Len(s) \/ n < Len(t))
    <3> SUFFICES ASSUME \A n \in Nat : n \in K /\ (n < Len(s) \/ n < Len(t)) => n + 1 \in K PROVE FALSE
      OBVIOUS
    <3> DEFINE L == {n \in Nat : (n <= Len(s) \/ n <= Len(t)) => n \in K}
    <3>1. 0 \in L
      OBVIOUS
    <3>2. ASSUME NEW n \in L PROVE n + 1 \in L
      <4> HIDE DEF K
      <4>1. n \in Nat /\ (n <= Len(s) \/ n <= Len(t) => n \in K)
        OBVIOUS
      <4> QED
        BY <2>1, <4>1
    <3>3. L = Nat
      <4>1. L \in SUBSET Nat
        OBVIOUS
      <4> HIDE DEF L
      <4> QED
        BY <3>1, <3>2, <4>1, NatSetInduction
    <3>4. Len(s) \in K /\ Len(t) \in K
      <4> HIDE DEF K
      <4> QED
        BY <2>1, <3>3
    <3>5. Len(s) = Len(t)
      <4>1. Len(s) # 0 => Same(Len(s))
        BY <2>1, <3>4
      <4>2. Len(t) # 0 => Same(Len(t))
        BY <2>1, <3>4
      <4> QED
        BY <2>1, <4>1, <4>2
    <3>6. \A j \in 1 .. Len(s) : s[j] = t[j]
      BY <3>4
    <3> QED
      BY <1>3, <3>5, <3>6, SeqEqual
  <2>3. n <= Len(s) /\ n <= Len(t) /\ ~Same(n + 1)
    <3>1. n # 0 => Same(n)
      BY <2>2
    <3>2. \E j \in 1 .. n + 1 : ~Same(j)
      BY <2>2
    <3>3. ~Same(n + 1)
      BY <2>2, <3>2
    <3> QED
      BY <2>1, <3>1, <3>3
  <2>4. \A j \in 1 .. (n + 1) - 1 : s[j] = t[j] /\ t[j] = s[j]
    BY <2>2
  <2> DEFINE m == n + 1
  <2>5. m \in Nat /\ m - 1 <= Len(s) /\ m - 1 <= Len(t) /\ m >= 1 /\ m - 1 = n
    BY <2>1, <2>3
  <2>6. CASE n = Len(s)
    <3>1. Decides(s, t, m)
      BY <2>1, <2>2, <2>4, <2>5, <2>6 DEF Decides
    <3> QED
      BY <2>5, <3>1, SeqLessIs
  <2>7. CASE n = Len(t)
    <3>1. Decides(t, s, m)
      BY <2>1, <2>2, <2>4, <2>5, <2>7 DEF Decides
    <3> QED
      BY <2>5, <3>1, SeqLessIs
  <2>8. CASE n < Len(s) /\ n < Len(t)
    <3>1. m \in 1 .. Len(s) /\ m \in 1 .. Len(t) /\ s[m] # t[m]
      BY <2>1, <2>3, <2>8
    <3>2. PartLess(s[m], t[m]) \/ PartLess(t[m], s[m])
      <4>1. s[m] \in Part /\ t[m] \in Part
        BY <3>1
      <4> QED
        BY <3>1, <4>1, PartOrder
    <3>3. Decides(s, t, m) \/ Decides(t, s, m)
      BY <2>4, <2>5, <3>1, <3>2 DEF Decides
    <3> QED
      BY <2>5, <3>3, SeqLessIs
  <2> QED
    BY <2>1, <2>3, <2>6, <2>7, <2>8
<1> QED
  BY <1>1, <1>2, <1>3

\* Three numbers as parts of a sequence.
LEMMA NumbersAre ==
  ASSUME NEW c \in [1 .. 3 -> Nat]
  PROVE  Numbers(c) \in Seq(Part) /\ \A d \in [1 .. 3 -> Nat] : Numbers(c) = Numbers(d) => c = d
<1>1. Numbers(c) \in [1 .. 3 -> Part]
  BY DEF Numbers, Number, Part
<1>2. ASSUME NEW d \in [1 .. 3 -> Nat], Numbers(c) = Numbers(d) PROVE c = d
  <2>1. \A i \in 1 .. 3 : Numbers(c)[i].val = c[i] /\ Numbers(d)[i].val = d[i]
    BY DEF Numbers, Number
  <2> QED
    BY <1>2, <2>1
<1>3. Numbers(c) \in Seq(Part)
  BY <1>1, FunctionSeq
<1> QED
  BY <1>2, <1>3

\* What is compared of a version before its pre-release.
Core(v) == Numbers(v.core)

\* Of two versions one is later: the order is strict and total.
LEMMA VersionOrder ==
  /\ \A v \in Version : ~Earlier(v, v)
  /\ \A v, w, x \in Version : Earlier(v, w) /\ Earlier(w, x) => Earlier(v, x)
  /\ \A v, w \in Version : v # w => Earlier(v, w) \/ Earlier(w, v)
<1>1. \A v \in Version : v = [core |-> v.core, pre |-> v.pre] /\ v.core \in [1 .. 3 -> Nat] /\ v.pre \in Seq(Part)
  BY DEF Version
<1>2. \A v \in Version : Core(v) \in Seq(Part)
  BY <1>1, NumbersAre DEF Core
<1>3. \A v, w \in Version : Core(v) = Core(w) <=> v.core = w.core
  BY <1>1, NumbersAre DEF Core
<1>4. \A v, w : Earlier(v, w) <=> \/ SeqLess(Core(v), Core(w))
                                  \/ v.core = w.core /\ v.pre # <<>> /\ (w.pre = <<>> \/ SeqLess(v.pre, w.pre))
  BY DEF Earlier, Core, is_prerelease
<1>5. ASSUME NEW v \in Version, Earlier(v, v) PROVE FALSE
  BY <1>1, <1>2, <1>4, <1>5, SeqOrder
<1>6. ASSUME NEW v \in Version, NEW w \in Version, NEW x \in Version, Earlier(v, w), Earlier(w, x)
      PROVE  Earlier(v, x)
  <2>1. CASE SeqLess(Core(v), Core(w)) /\ SeqLess(Core(w), Core(x))
    BY <1>2, <1>4, <2>1, SeqOrder
  <2>2. CASE v.core = w.core
    <3>1. Core(v) = Core(w)
      BY <1>3, <2>2
    <3>2. CASE SeqLess(Core(w), Core(x))
      BY <1>4, <3>1, <3>2
    <3>3. CASE ~SeqLess(Core(w), Core(x))
      <4>1. w.core = x.core /\ w.pre # <<>> /\ (x.pre = <<>> \/ SeqLess(w.pre, x.pre))
        BY <1>4, <1>6, <3>3
      <4>2. ~SeqLess(Core(v), Core(w))
        BY <1>2, <3>1, SeqOrder
      <4>3. v.pre # <<>> /\ (w.pre = <<>> \/ SeqLess(v.pre, w.pre))
        BY <1>4, <1>6, <4>2
      <4>4. x.pre = <<>> \/ SeqLess(v.pre, x.pre)
        BY <1>1, <4>1, <4>3, SeqOrder
      <4> QED
        BY <1>4, <2>2, <4>1, <4>3, <4>4
    <3> QED
      BY <3>2, <3>3
  <2>3. CASE SeqLess(Core(v), Core(w)) /\ w.core = x.core
    <3>1. Core(w) = Core(x)
      BY <1>3, <2>3
    <3> QED
      BY <1>4, <2>3, <3>1
  <2> QED
    BY <1>4, <1>6, <2>1, <2>2, <2>3
<1>7. ASSUME NEW v \in Version, NEW w \in Version, v # w PROVE Earlier(v, w) \/ Earlier(w, v)
  <2>1. CASE v.core # w.core
    <3>1. SeqLess(Core(v), Core(w)) \/ SeqLess(Core(w), Core(v))
      BY <1>2, <1>3, <2>1, SeqOrder
    <3> QED
      BY <1>4, <3>1
  <2>2. CASE v.core = w.core
    <3>1. v.pre # w.pre
      BY <1>1, <1>7, <2>2
    <3>2. SeqLess(v.pre, w.pre) \/ SeqLess(w.pre, v.pre)
      BY <1>1, <3>1, SeqOrder
    <3>3. v.pre # <<>> \/ w.pre # <<>>
      BY <3>1
    <3>4. CASE v.pre # <<>> /\ w.pre # <<>>
      BY <1>4, <2>2, <3>2, <3>4
    <3>5. CASE v.pre = <<>> \/ w.pre = <<>>
      BY <1>4, <2>2, <3>3, <3>5
    <3> QED
      BY <3>4, <3>5
  <2> QED
    BY <2>1, <2>2
<1> QED
  BY <1>5, <1>6, <1>7

\* Of finitely many versions one is later than all the others.
LEMMA LatestExists ==
  ASSUME NEW some \in SUBSET Version, IsFiniteSet(some), some # {}
  PROVE  \E v \in some : \A w \in some \ {v} : Earlier(w, v)
<1> DEFINE Latest(S, v) == v \in S /\ \A w \in S \ {v} : Earlier(w, v)
           K == {n \in Nat : \A S \in SUBSET Version :
                                 IsFiniteSet(S) /\ Cardinality(S) = n /\ S # {} => \E v : Latest(S, v)}
<1>1. 0 \in K
  BY FS_EmptySet
<1>2. ASSUME NEW n \in K PROVE n + 1 \in K
  <2> SUFFICES ASSUME NEW S \in SUBSET Version, IsFiniteSet(S), Cardinality(S) = n + 1, S # {}
               PROVE  \E v : Latest(S, v)
    OBVIOUS
  <2>1. PICK x : x \in S
    OBVIOUS
  <2> DEFINE T == S \ {x}
  <2>2. IsFiniteSet(T) /\ Cardinality(T) = n /\ T \in SUBSET Version
    <3>1. IsFiniteSet(T) /\ Cardinality(T) = Cardinality(S) - 1
      BY <2>1, FS_RemoveElement
    <3> QED
      BY <3>1
  <2>3. CASE T = {}
    <3>1. Latest(S, x)
      BY <2>1, <2>3
    <3> QED
      BY <3>1
  <2>4. CASE T # {}
    <3>1. PICK y : Latest(T, y)
      BY <2>2, <2>4
    <3>2. x \in Version /\ y \in Version /\ x # y /\ S = T \cup {x}
      BY <2>1, <3>1
    <3>3. CASE Earlier(x, y)
      <4>1. Latest(S, y)
        BY <3>1, <3>2, <3>3
      <4> QED
        BY <4>1
    <3>4. CASE Earlier(y, x)
      <4>1. \A w \in T \ {y} : w \in Version /\ Earlier(w, y)
        BY <3>1
      <4>2. \A w \in T : Earlier(w, x)
        BY <3>2, <3>4, <4>1, VersionOrder
      <4>3. Latest(S, x)
        BY <2>1, <3>2, <4>2
      <4> QED
        BY <4>3
    <3> QED
      BY <3>2, <3>3, <3>4, VersionOrder
  <2> QED
    BY <2>3, <2>4
<1>3. K = Nat
  <2>1. K \in SUBSET Nat
    OBVIOUS
  <2> HIDE DEF K
  <2> QED
    BY <1>1, <1>2, <2>1, NatSetInduction
<1>4. Cardinality(some) \in K
  <2> HIDE DEF K
  <2> QED
    BY <1>3, FS_CardinalityType
<1> QED
  BY <1>4

\* What a feed offers a copy is the one release that is later than all the others it might be offered,
\* whatever the order of the feed, and none if there is none (newest_for).
THEOREM NewestIsLatest ==
  ASSUME NEW releases \in SUBSET Version, IsFiniteSet(releases), NEW current \in Version
  PROVE  LET newest == newest_for(releases, current)
             offered == {v \in releases : is_offered(current, v)}
         IN  IF offered = {} THEN newest = NoRelease
             ELSE newest \in offered /\ \A w \in offered \ {newest} : Earlier(w, newest)
<1> DEFINE newest == newest_for(releases, current)
           offered == {v \in releases : is_offered(current, v)}
<1>1. CASE offered = {}
  BY <1>1 DEF newest_for
<1>2. CASE offered # {}
  <2>1. IsFiniteSet(offered) /\ offered \in SUBSET Version
    BY FS_Subset
  <2>2. newest = CHOOSE v \in offered : \A w \in offered : ~Earlier(v, w)
    BY <1>2 DEF newest_for
  <2> HIDE DEF newest, offered
  <2>3. PICK v \in offered : \A w \in offered \ {v} : Earlier(w, v)
    BY <1>2, <2>1, LatestExists
  <2>4. \A w \in offered : ~Earlier(v, w)
    <3>1. \A w \in offered : w \in Version /\ v \in Version
      BY <2>1
    <3>2. \A w \in offered : Earlier(v, w) /\ w # v => Earlier(v, v)
      BY <2>3, <3>1, VersionOrder
    <3> QED
      BY <3>1, <3>2, VersionOrder
  <2>5. newest \in offered /\ \A w \in offered : ~Earlier(newest, w)
    BY <2>2, <2>3, <2>4
  <2>6. \A w \in offered \ {newest} : Earlier(w, newest)
    BY <2>1, <2>5, VersionOrder
  <2> QED
    BY <1>2, <2>5, <2>6 DEF newest, offered
<1> QED
  BY <1>1, <1>2

-----------------------------------------------------------------------------
(* Constants. *)

LEMMA Constants ==
  /\ Nothing \notin Versions /\ Cut \notin Versions /\ Other \notin Versions
  /\ Nothing # Other /\ Cut # Other
  /\ MaxFaults \in Nat /\ MaxCrashes \in Nat
<1>1. \A v \in Versions : DOMAIN v.core = 1 .. 3
  BY UpdaterAssumption DEF Version
<1>2. Nothing.core = <<>> /\ Cut.core = <<>> /\ Other.core = <<>> /\ DOMAIN <<>> # 1 .. 3
  BY DEF Nothing, Cut, Other, NoRelease
<1>3. Nothing # Other /\ Cut # Other
  BY DEF Nothing, Cut, Other, NoRelease, Word
<1> QED
  BY <1>1, <1>2, <1>3, UpdaterAssumption

\* What is looked for is found: check() offers the latest of the versions the copy may be offered, to
\* install only where Telepad can replace itself, and nothing only if there is nothing to offer.
LEMMA CheckOffers ==
  ASSUME NEW feed \in SUBSET Tags, NEW summed \in SUBSET Versions, NEW current \in Versions, NEW k
  PROVE  LET outcome == check(feed, summed, current, k)
         IN  /\ outcome \in [version : Versions, install : BOOLEAN] \cup {UpToDate}
             /\ outcome # UpToDate => is_offered(current, outcome.version)
                                       /\ (outcome.install => k # "Unsupported")
             /\ \A w \in parse(feed) : is_offered(current, w) =>
                    outcome # UpToDate /\ (w = outcome.version \/ Earlier(w, outcome.version))
<1> DEFINE release == newest_for(parse(feed), current)
           offered == {v \in parse(feed) : is_offered(current, v)}
           outcome == check(feed, summed, current, k)
<1>1. parse(feed) \subseteq Versions
  BY UpdaterAssumption DEF parse
<1>2. IsFiniteSet(parse(feed)) /\ parse(feed) \in SUBSET Version /\ current \in Version
  BY <1>1, UpdaterAssumption, FS_Subset
<1>3. IF offered = {} THEN release = NoRelease
      ELSE release \in offered /\ \A w \in offered \ {release} : Earlier(w, release)
  BY <1>2, NewestIsLatest
<1>4. NoRelease \notin Versions
  BY Constants DEF Nothing
<1>5. CASE offered = {}
  <2>1. outcome = UpToDate
    BY <1>3, <1>5 DEF check
  <2> QED
    BY <1>5, <2>1
<1>6. CASE offered # {}
  <2>1. release \in Versions /\ is_offered(current, release) /\ release # NoRelease
    BY <1>1, <1>3, <1>4, <1>6
  <2> HIDE DEF release
  <2> DEFINE install == can_update_itself(k) /\ release \in summed
  <2>2. outcome = [version |-> release, install |-> install]
    BY <2>1 DEF check, release, Available
  <2>3. install \in BOOLEAN /\ (install => k # "Unsupported")
    BY DEF can_update_itself
  <2> HIDE DEF install, outcome
  <2>4. /\ outcome.version = release /\ outcome \in [version : Versions, install : BOOLEAN]
        /\ outcome.install => k # "Unsupported"
    BY <2>1, <2>2, <2>3
  <2>5. outcome # UpToDate
    BY <2>1, <2>4 DEF UpToDate, Available
  <2> QED
    BY <1>3, <1>6, <2>1, <2>4, <2>5 DEF outcome, release
<1> QED
  BY <1>5, <1>6

-----------------------------------------------------------------------------
(* Typing. *)

LEMMA InitTyped == Init => TypeOK
<1> SUFFICES ASSUME Init PROVE TypeOK
  OBVIOUS
<1>1. place \in [app : Versions \cup {Nothing, Cut, Other}, new : Versions \cup {Nothing, Cut, Other},
                old : Versions \cup {Nothing, Cut, Other}]
  BY DEF Init
<1>2. faults \in 0..MaxFaults /\ crashes \in 0..MaxCrashes
  BY Constants DEF Init
<1> QED
  BY <1>1, <1>2 DEF Init, TypeOK

LEMMA NextTyped == TypeOK /\ [Next]_vars => TypeOK'
<1> SUFFICES ASSUME TypeOK, [Next]_vars PROVE TypeOK'
  OBVIOUS
<1>a. update.version \in Versions \cup {Nothing}
  BY DEF TypeOK, UpToDate, Available, Nothing
<1>b. Payload \in Versions \cup {Nothing, Other}
  BY <1>a DEF Payload
<1>c. Downloaded \subseteq {"sound", "other"}
  BY DEF Downloaded
<1> USE Constants DEF TypeOK, Busy
<1>1. ASSUME NEW t \in Threads, CheckBegins(t) PROVE TypeOK'
  BY <1>1 DEF CheckBegins, Goto, program, history
<1>2. ASSUME NEW t \in Threads, CheckAnswers(t) PROVE TypeOK'
  BY <1>2, CheckOffers DEF CheckAnswers, Goto, program, history
<1>3. ASSUME NEW t \in Threads, InstallBegins(t) PROVE TypeOK'
  BY <1>3 DEF InstallBegins, Goto, program, history
<1>4. ASSUME NEW t \in Threads, Prepare(t) PROVE TypeOK'
  BY <1>4 DEF Prepare, Goto, program, history, Fails
<1>5. ASSUME NEW t \in Threads, Download(t) PROVE TypeOK'
  <2>1. file' \in Downloaded \cup {"gone", "none"}
    BY <1>5 DEF Download
  <2>2. file' \in {"gone", "none", "sound", "other"}
    BY <2>1, <1>c
  <2> QED
    BY <1>5, <2>2 DEF Download, Goto, program, history, Fails
<1>6. ASSUME NEW t \in Threads, Verify(t) PROVE TypeOK'
  BY <1>6 DEF Verify, Goto, program, history, Fails, Matches
<1>7. ASSUME NEW t \in Threads, OpenImage(t) PROVE TypeOK'
  BY <1>7, <1>b DEF OpenImage, Goto, program, history, Fails, GivesUp, There
<1>8. ASSUME NEW t \in Threads, Unpack(t) PROVE TypeOK'
  BY <1>8, <1>b DEF Unpack, Goto, program, history, Fails, GivesUp, There
<1>9. ASSUME NEW t \in Threads, Clear(t) PROVE TypeOK'
  BY <1>9 DEF Clear, Goto, program, history, Swapping
<1>10. ASSUME NEW t \in Threads, Copy(t) PROVE TypeOK'
  BY <1>10 DEF Copy, Goto, program, history, Swapping, Fails
<1>11. ASSUME NEW t \in Threads, Aside(t) PROVE TypeOK'
  BY <1>11 DEF Aside, Goto, program, history, Swapping, Fails, Fault
<1>12. ASSUME NEW t \in Threads, Swap(t) PROVE TypeOK'
  BY <1>12 DEF Swap, Goto, program, history, Swapping, Fails, Fault
<1>13. ASSUME NEW t \in Threads, Clean(t) PROVE TypeOK'
  BY <1>13 DEF Clean, Goto, program, history, Swapping
<1>14. ASSUME NEW t \in Threads, Stage(t) PROVE TypeOK'
  BY <1>14 DEF Stage, Goto, program, history, Swapping, Fails
<1>15. ASSUME NEW t \in Threads, Rename(t) PROVE TypeOK'
  BY <1>15 DEF Rename, Goto, program, history, Swapping, Fails, Fault
<1>16. ASSUME NEW t \in Threads, Package(t) PROVE TypeOK'
  BY <1>16, <1>b DEF Package, Goto, program, history, Fails, GivesUp, There, RootAccepts
<1>17. ASSUME NEW t \in Threads, Windows(t) PROVE TypeOK'
  BY <1>17, <1>b DEF Windows, Goto, program, history, Fails, There, Restarts
<1>18. ASSUME NEW t \in Threads, Relaunch(t) PROVE TypeOK'
  BY <1>18 DEF Relaunch, Goto, program, history, Fails, Restarts
<1>19. CASE Quit
  BY <1>19 DEF Quit, program, history
<1>20. CASE Gone
  BY <1>20 DEF Gone, program, history, Ends
<1>21. CASE Crash
  BY <1>21 DEF Crash, program, history, Ends
<1>22. CASE Start
  BY <1>22 DEF Start, program, history, Starts
<1>23. CASE HelperStarts
  BY <1>23 DEF HelperStarts, program, history, Starts
<1>24. CASE InstallerAsks
  BY <1>24 DEF InstallerAsks, program, history
<1>25. CASE InstallerReplaces
  BY <1>25, <1>b DEF InstallerReplaces, program, history
<1>29. CASE InstallerStarts
  BY <1>29 DEF InstallerStarts, program, history, Starts
<1>26. CASE ForgetDownloads
  BY <1>26 DEF ForgetDownloads, program, history
<1>27. CASE FileChanges
  BY <1>27 DEF FileChanges, program, history
<1>28. CASE UNCHANGED vars
  BY <1>28 DEF vars
<1> QED
  BY <1>1, <1>2, <1>3, <1>4, <1>5, <1>6, <1>7, <1>8, <1>9, <1>10, <1>11, <1>12, <1>13, <1>14, <1>15, <1>16, <1>17, <1>18, <1>19, <1>20, <1>21, <1>22, <1>23, <1>24, <1>25, <1>26, <1>27, <1>28, <1>29 DEF Next, Install

-----------------------------------------------------------------------------
(* Who works. *)

LEMMA InitWork == Init => WorkInv
BY DEF Init, WorkInv, Working, Fetching, Putting, InSwap

LEMMA NextWork == TypeOK /\ WorkInv /\ [Next]_vars => WorkInv'
<1> SUFFICES ASSUME TypeOK, WorkInv, [Next]_vars PROVE WorkInv'
  OBVIOUS
<1>pc. pc \in [Threads -> {"idle", "asking"} \cup Fetching \cup Putting]
  BY DEF TypeOK, Fetching, Putting, InSwap
<1> USE DEF WorkInv, Working, Fetching, Putting, InSwap, Alive, is_busy, Busy
<1>1. ASSUME NEW t \in Threads, CheckBegins(t) PROVE WorkInv'
  BY <1>1, <1>pc DEF CheckBegins, Goto, program, history
<1>2. ASSUME NEW t \in Threads, CheckAnswers(t) PROVE WorkInv'
  <2>1. /\ pc' = [pc EXCEPT ![t] = "idle"] /\ process' = process /\ process # "down"
        /\ state' \in {"UpToDate", "Available", "CheckFailed"} /\ t \in Working
    BY <1>2 DEF CheckAnswers, Goto, program
  <2>2. \A u \in Threads : pc'[u] = "idle"
    BY <2>1, <1>pc
  <2> QED
    BY <2>1, <2>2
<1>3. ASSUME NEW t \in Threads, InstallBegins(t) PROVE WorkInv'
  <2>1. /\ pc' = [pc EXCEPT ![t] = "preparing"] /\ process' = process /\ process # "down"
        /\ state \in {"Available", "InstallFailed"} /\ state' = "Downloading"
        /\ update' = update /\ update.install
    BY <1>3 DEF InstallBegins, Goto, program
  <2>2. \A u \in Threads : pc[u] = "idle"
    BY <2>1, <1>pc
  <2> QED
    BY <2>1, <2>2, <1>pc
<1>4. ASSUME NEW t \in Threads, Prepare(t) PROVE WorkInv'
  BY <1>4, <1>pc DEF Prepare, Goto, program, history, Fails
<1>5. ASSUME NEW t \in Threads, Download(t) PROVE WorkInv'
  BY <1>5, <1>pc DEF Download, Goto, program, history, Fails
<1>6. ASSUME NEW t \in Threads, Verify(t) PROVE WorkInv'
  BY <1>6, <1>pc DEF Verify, Goto, program, history, Fails, Matches
<1>7. ASSUME NEW t \in Threads, OpenImage(t) PROVE WorkInv'
  BY <1>7, <1>pc DEF OpenImage, Goto, program, history, Fails, GivesUp, There
<1>8. ASSUME NEW t \in Threads, Unpack(t) PROVE WorkInv'
  BY <1>8, <1>pc DEF Unpack, Goto, program, history, Fails, GivesUp, There
<1>9. ASSUME NEW t \in Threads, Clear(t) PROVE WorkInv'
  BY <1>9, <1>pc DEF Clear, Goto, program, history, Swapping
<1>10. ASSUME NEW t \in Threads, Copy(t) PROVE WorkInv'
  BY <1>10, <1>pc DEF Copy, Goto, program, history, Swapping, Fails
<1>11. ASSUME NEW t \in Threads, Aside(t) PROVE WorkInv'
  BY <1>11, <1>pc DEF Aside, Goto, program, history, Swapping, Fails, Fault
<1>12. ASSUME NEW t \in Threads, Swap(t) PROVE WorkInv'
  BY <1>12, <1>pc DEF Swap, Goto, program, history, Swapping, Fails, Fault
<1>13. ASSUME NEW t \in Threads, Clean(t) PROVE WorkInv'
  BY <1>13, <1>pc DEF Clean, Goto, program, history, Swapping
<1>14. ASSUME NEW t \in Threads, Stage(t) PROVE WorkInv'
  BY <1>14, <1>pc DEF Stage, Goto, program, history, Swapping, Fails
<1>15. ASSUME NEW t \in Threads, Rename(t) PROVE WorkInv'
  BY <1>15, <1>pc DEF Rename, Goto, program, history, Swapping, Fails, Fault
<1>16. ASSUME NEW t \in Threads, Package(t) PROVE WorkInv'
  BY <1>16, <1>pc DEF Package, Goto, program, history, Fails, GivesUp, There, RootAccepts
<1>17. ASSUME NEW t \in Threads, Windows(t) PROVE WorkInv'
  BY <1>17, <1>pc DEF Windows, Goto, program, history, Fails, There, Restarts
<1>18. ASSUME NEW t \in Threads, Relaunch(t) PROVE WorkInv'
  BY <1>18, <1>pc DEF Relaunch, Goto, program, history, Fails, Restarts
<1>19. CASE Quit
  BY <1>19, <1>pc DEF Quit, program, history
<1>20. CASE Gone
  BY <1>20, <1>pc DEF Gone, program, history, Ends
<1>21. CASE Crash
  BY <1>21, <1>pc DEF Crash, program, history, Ends
<1>22. CASE Start
  BY <1>22, <1>pc DEF Start, program, history, Starts
<1>23. CASE HelperStarts
  BY <1>23, <1>pc DEF HelperStarts, program, history, Starts
<1>24. CASE InstallerAsks
  BY <1>24, <1>pc DEF InstallerAsks, program, history
<1>25. CASE InstallerReplaces
  BY <1>25, <1>pc DEF InstallerReplaces, program, history
<1>29. CASE InstallerStarts
  BY <1>29, <1>pc DEF InstallerStarts, program, history, Starts
<1>26. CASE ForgetDownloads
  BY <1>26, <1>pc DEF ForgetDownloads, program, history
<1>27. CASE FileChanges
  BY <1>27, <1>pc DEF FileChanges, program, history
<1>28. CASE UNCHANGED vars
  BY <1>28 DEF vars
<1> QED
  BY <1>1, <1>2, <1>3, <1>4, <1>5, <1>6, <1>7, <1>8, <1>9, <1>10, <1>11, <1>12, <1>13, <1>14, <1>15, <1>16, <1>17, <1>18, <1>19, <1>20, <1>21, <1>22, <1>23, <1>24, <1>25, <1>26, <1>27, <1>28, <1>29 DEF Next, Install

\* What is offered stays offered; the program that runs changes only when nothing is offered.
LEMMA InitOffer == Init => OfferInv
BY DEF Init, OfferInv

LEMMA NextOffer == TypeOK /\ WorkInv /\ OfferInv /\ [Next]_vars => OfferInv'
<1> SUFFICES ASSUME TypeOK, WorkInv, OfferInv, [Next]_vars PROVE OfferInv'
  OBVIOUS
<1> USE DEF OfferInv
<1>1. ASSUME NEW t \in Threads, CheckBegins(t) PROVE OfferInv'
  BY <1>1 DEF CheckBegins, Goto, program, history, kind
<1>2. ASSUME NEW t \in Threads, CheckAnswers(t) PROVE OfferInv'
  <2>1. CASE update' = UpToDate
    BY <2>1
  <2>2. ASSUME NEW feed \in SUBSET Tags, NEW summed \in SUBSET Versions,
               update' = check(feed, summed, running, kind)
        PROVE  OfferInv'
    <3>1. running \in Versions /\ running' = running /\ kind' = kind
      BY <1>2 DEF CheckAnswers, program, kind, TypeOK
    <3> QED
      BY <2>2, <3>1, CheckOffers
  <2> QED
    BY <1>2, <2>1, <2>2 DEF CheckAnswers
<1>3. ASSUME NEW t \in Threads, InstallBegins(t) PROVE OfferInv'
  BY <1>3 DEF InstallBegins, Goto, program, history, kind
<1>4. ASSUME NEW t \in Threads, Prepare(t) PROVE OfferInv'
  BY <1>4 DEF Prepare, Goto, program, history, Fails, kind
<1>5. ASSUME NEW t \in Threads, Download(t) PROVE OfferInv'
  BY <1>5 DEF Download, Goto, program, history, Fails, kind
<1>6. ASSUME NEW t \in Threads, Verify(t) PROVE OfferInv'
  BY <1>6 DEF Verify, Goto, program, history, Fails, Matches, kind
<1>7. ASSUME NEW t \in Threads, OpenImage(t) PROVE OfferInv'
  BY <1>7 DEF OpenImage, Goto, program, history, Fails, GivesUp, There, kind
<1>8. ASSUME NEW t \in Threads, Unpack(t) PROVE OfferInv'
  BY <1>8 DEF Unpack, Goto, program, history, Fails, GivesUp, There, kind
<1>9. ASSUME NEW t \in Threads, Clear(t) PROVE OfferInv'
  BY <1>9 DEF Clear, Goto, program, history, Swapping, kind
<1>10. ASSUME NEW t \in Threads, Copy(t) PROVE OfferInv'
  BY <1>10 DEF Copy, Goto, program, history, Swapping, Fails, kind
<1>11. ASSUME NEW t \in Threads, Aside(t) PROVE OfferInv'
  BY <1>11 DEF Aside, Goto, program, history, Swapping, Fails, Fault, kind
<1>12. ASSUME NEW t \in Threads, Swap(t) PROVE OfferInv'
  BY <1>12 DEF Swap, Goto, program, history, Swapping, Fails, Fault, kind
<1>13. ASSUME NEW t \in Threads, Clean(t) PROVE OfferInv'
  BY <1>13 DEF Clean, Goto, program, history, Swapping, kind
<1>14. ASSUME NEW t \in Threads, Stage(t) PROVE OfferInv'
  BY <1>14 DEF Stage, Goto, program, history, Swapping, Fails, kind
<1>15. ASSUME NEW t \in Threads, Rename(t) PROVE OfferInv'
  BY <1>15 DEF Rename, Goto, program, history, Swapping, Fails, Fault, kind
<1>16. ASSUME NEW t \in Threads, Package(t) PROVE OfferInv'
  BY <1>16 DEF Package, Goto, program, history, Fails, GivesUp, There, RootAccepts, kind
<1>17. ASSUME NEW t \in Threads, Windows(t) PROVE OfferInv'
  BY <1>17 DEF Windows, Goto, program, history, Fails, There, Restarts, kind
<1>18. ASSUME NEW t \in Threads, Relaunch(t) PROVE OfferInv'
  BY <1>18 DEF Relaunch, Goto, program, history, Fails, Restarts, kind
<1>19. CASE Quit
  BY <1>19 DEF Quit, program, history, kind
<1>20. CASE Gone
  BY <1>20 DEF Gone, program, history, Ends, kind
<1>21. CASE Crash
  BY <1>21 DEF Crash, program, history, Ends, kind
<1>22. CASE Start
  BY <1>22 DEF Start, program, history, Starts, WorkInv, kind
<1>23. CASE HelperStarts
  BY <1>23 DEF HelperStarts, program, history, Starts, WorkInv, kind
<1>24. CASE InstallerAsks
  BY <1>24 DEF InstallerAsks, program, history, kind
<1>25. CASE InstallerReplaces
  BY <1>25 DEF InstallerReplaces, program, history, kind
<1>29. CASE InstallerStarts
  BY <1>29 DEF InstallerStarts, program, history, Starts, WorkInv, kind
<1>26. CASE ForgetDownloads
  BY <1>26 DEF ForgetDownloads, program, history, kind
<1>27. CASE FileChanges
  BY <1>27 DEF FileChanges, program, history, kind
<1>28. CASE UNCHANGED vars
  BY <1>28 DEF vars, kind
<1> QED
  BY <1>1, <1>2, <1>3, <1>4, <1>5, <1>6, <1>7, <1>8, <1>9, <1>10, <1>11, <1>12, <1>13, <1>14, <1>15, <1>16, <1>17, <1>18, <1>19, <1>20, <1>21, <1>22, <1>23, <1>24, <1>25, <1>26, <1>27, <1>28, <1>29 DEF Next, Install

-----------------------------------------------------------------------------
(* What the files hold. *)

LEMMA InitPlace == Init => PlaceInv
BY Constants DEF Init, PlaceInv, Fit, FitFor, InSwap, Coming

\* A step of the one thread that works, to where nothing is to be had that is not fit.
LEMMA WorkerStep ==
  ASSUME TypeOK, WorkInv, PlaceInv,
         NEW t \in Threads, pc[t] # "idle", NEW there, pc' = [pc EXCEPT ![t] = there],
         kind' = kind, running' = running, tampered' = tampered,
         there = "applying" => file' # "other",
         helper' = helper, puts' = puts \/ kind # "WindowsInstaller",
         place.app' = Nothing \/ FitFor(place.app', running, kind, tampered),
         there \in {"clearing", "copying", "staging"} => FitFor(puts', running, kind, tampered),
         there \in {"aside", "swapping", "renaming"} => FitFor(place.new', running, kind, tampered),
         there = "swapping" => FitFor(place.old', running, kind, tampered),
         there \in InSwap => kind = "MacApp",
         there \in {"staging", "renaming"} => kind = "LinuxUser",
         kind \in {"WindowsInstaller", "Unsupported"} => place.app' = place.app
  PROVE  PlaceInv'
<1>1. \A u \in Threads : u # t => pc'[u] = "idle"
  BY DEF WorkInv, Working, TypeOK
<1>2. pc'[t] = there
  BY DEF TypeOK
<1>3. kind = "WindowsInstaller" => place.app' \in {running', Other}
  <2>1. process # "down"
    BY DEF WorkInv, Working
  <2> QED
    BY <2>1 DEF PlaceInv
<1>4. helper' \in Coming => kind = "WindowsInstaller" /\ FitFor(puts', running, kind, tampered)
  BY DEF PlaceInv, Fit
<1>5. kind = "Unsupported" => place.app' = running'
  BY DEF PlaceInv
<1>6. \A u \in Threads : pc'[u] # "idle" => u = t
  BY <1>1
<1> QED
  BY <1>2, <1>3, <1>4, <1>5, <1>6 DEF PlaceInv, Fit, InSwap

\* A copy is started, from where the program is.
LEMMA AnotherRuns ==
  ASSUME TypeOK, WorkInv, PlaceInv, process = "down", pc' = pc, kind' = kind, tampered' = tampered,
         puts' = puts, file' = file, helper' \in {helper, "none"}, place' = place,
         running' = IF place.app \in Versions THEN place.app ELSE running,
         place.app \notin Versions => process' = process
  PROVE  PlaceInv'
<1>1. \A t \in Threads : pc[t] = "idle"
  BY DEF WorkInv, Working
<1>2. place.app = Nothing \/ FitFor(place.app, running, kind, tampered)
  BY DEF PlaceInv, Fit
<1>3. helper' \in Coming => helper \in Coming
  BY DEF Coming
<1>4. place.app = Nothing \/ FitFor(place.app, running', kind, tampered)
  BY <1>2 DEF FitFor
<1>5. kind = "WindowsInstaller" => place.app \in {running', Other} \/ (process' = "down" /\ helper' \notin Coming)
  BY <1>3, Constants DEF PlaceInv
<1>6. kind = "Unsupported" => place.app = running'
  BY DEF PlaceInv
<1>7. ASSUME helper' \in Coming PROVE kind = "WindowsInstaller" /\ FitFor(puts, running', kind, tampered)
  <2>1. kind = "WindowsInstaller" /\ place.app \in {running, Other} /\ FitFor(puts, running, kind, tampered)
    BY <1>3, <1>7 DEF PlaceInv, Fit
  <2>2. running' = running
    BY <2>1, Constants
  <2> QED
    BY <2>1, <2>2
<1> QED
  BY <1>1, <1>4, <1>5, <1>6, <1>7 DEF PlaceInv, Fit, InSwap

\* What a download holds when it is about to be put in place.
LEMMA PayloadFits ==
  ASSUME TypeOK, WorkInv, OfferInv, PlaceInv,
         NEW t \in Threads, pc[t] = "applying", There, kind \notin Formats \/ file = "sound"
  PROVE  Fit(Payload)
<1>1. update.install
  BY DEF WorkInv, Putting
<1>2. update # UpToDate
  BY <1>1 DEF UpToDate, Available
<1>3. update.version \in Versions /\ is_offered(running, update.version)
  BY <1>2 DEF OfferInv, TypeOK
<1>4. CASE file = "sound"
  BY <1>3, <1>4 DEF Payload, Fit, FitFor
<1>5. CASE file = "other"
  <2>1. tampered = TRUE
    BY <1>5 DEF PlaceInv, TypeOK
  <2> QED
    BY <1>5, <2>1 DEF Payload, Fit, FitFor
<1> QED
  BY <1>4, <1>5 DEF There

LEMMA NextPlace == TypeOK /\ WorkInv /\ OfferInv /\ PlaceInv /\ [Next]_vars => PlaceInv'
<1> SUFFICES ASSUME TypeOK, WorkInv, OfferInv, PlaceInv, [Next]_vars PROVE PlaceInv'
  OBVIOUS
<1>pc. pc \in [Threads -> {"idle", "asking"} \cup Fetching \cup Putting]
  BY DEF TypeOK, Fetching, Putting, InSwap
<1>rec. place \in [app : Versions \cup {Nothing, Cut, Other}, new : Versions \cup {Nothing, Cut, Other},
                  old : Versions \cup {Nothing, Cut, Other}]
  BY DEF TypeOK
<1>app. place.app = Nothing \/ FitFor(place.app, running, kind, tampered)
  BY DEF PlaceInv, Fit
<1>one. ASSUME NEW t \in Threads, pc[t] # "idle"
        PROVE  \A u \in Threads : u # t => pc[u] = "idle"
  BY <1>one DEF WorkInv, Working
<1> USE DEF PlaceInv, Fit, InSwap
<1>1. ASSUME NEW t \in Threads, CheckBegins(t) PROVE PlaceInv'
  BY <1>1, <1>pc, <1>one DEF CheckBegins, Goto, program, history, kind
<1>2. ASSUME NEW t \in Threads, CheckAnswers(t) PROVE PlaceInv'
  BY <1>2, <1>pc, <1>one DEF CheckAnswers, Goto, program, history, kind
<1>3. ASSUME NEW t \in Threads, InstallBegins(t) PROVE PlaceInv'
  BY <1>3, <1>pc, <1>one DEF InstallBegins, Goto, program, history, kind
<1>4. ASSUME NEW t \in Threads, Prepare(t) PROVE PlaceInv'
  BY <1>4, <1>pc, <1>one DEF Prepare, Goto, program, history, Fails, kind
<1>5. ASSUME NEW t \in Threads, Download(t) PROVE PlaceInv'
  BY <1>5, <1>pc, <1>one DEF Download, Goto, program, history, Fails, kind
<1>6. ASSUME NEW t \in Threads, Verify(t) PROVE PlaceInv'
  BY <1>6, <1>pc, <1>one DEF Verify, Goto, program, history, Fails, Matches, kind
<1>7. ASSUME NEW t \in Threads, OpenImage(t) PROVE PlaceInv'
  <2>1. /\ kind' = kind /\ running' = running /\ tampered' = tampered
        /\ file' = file /\ helper' = helper /\ pc[t] # "idle"
    BY <1>7 DEF OpenImage, Goto, program, history, kind, Fails, GivesUp, There
  <2>2. ASSUME pc' = [pc EXCEPT ![t] = "idle"], puts' = puts, place'.app = place.app PROVE PlaceInv'
    BY <2>1, <2>2, <1>app, <1>pc, WorkerStep DEF InSwap
  <2>3. ASSUME pc' = [pc EXCEPT ![t] = "clearing"], puts' = Payload, place' = place, There PROVE PlaceInv'
    <3>1. kind = "MacApp" /\ pc[t] = "applying"
      BY <1>7 DEF OpenImage
    <3>2. Fit(Payload)
      BY <3>1, <2>3, PayloadFits DEF Formats
    <3> QED
      BY <2>1, <2>3, <3>1, <3>2, <1>app, WorkerStep DEF InSwap, Fit
  <2> QED
    BY <1>7, <2>2, <2>3 DEF OpenImage, Goto, Fails, GivesUp, There
<1>8. ASSUME NEW t \in Threads, Unpack(t) PROVE PlaceInv'
  <2>1. /\ kind' = kind /\ running' = running /\ tampered' = tampered
        /\ file' = file /\ helper' = helper /\ pc[t] # "idle"
    BY <1>8 DEF Unpack, Goto, program, history, kind, Fails, GivesUp, There
  <2>2. ASSUME pc' = [pc EXCEPT ![t] = "idle"], puts' = puts, place'.app = place.app PROVE PlaceInv'
    BY <2>1, <2>2, <1>app, <1>pc, WorkerStep DEF InSwap
  <2>3. ASSUME pc' = [pc EXCEPT ![t] = "staging"], puts' = Payload, place' = place, There PROVE PlaceInv'
    <3>1. kind = "LinuxUser" /\ pc[t] = "applying"
      BY <1>8 DEF Unpack
    <3>2. Fit(Payload)
      BY <3>1, <2>3, PayloadFits DEF Formats
    <3> QED
      BY <2>1, <2>3, <3>1, <3>2, <1>app, WorkerStep DEF InSwap, Fit
  <2> QED
    BY <1>8, <2>2, <2>3 DEF Unpack, Goto, Fails, GivesUp, There
<1>9. ASSUME NEW t \in Threads, Clear(t) PROVE PlaceInv'
  <2>1. /\ kind' = kind /\ running' = running /\ tampered' = tampered
        /\ file' = file /\ helper' = helper /\ pc[t] # "idle"
    BY <1>9 DEF Clear, Goto, program, history, kind, Swapping
  <2>3. ASSUME pc' = [pc EXCEPT ![t] = "copying"], puts' = puts, place'.app = place.app PROVE PlaceInv'
    <3>1. pc[t] = "clearing" /\ kind = "MacApp" /\ FitFor(puts, running, kind, tampered)
      BY <1>9 DEF Clear, Swapping, PlaceInv, InSwap, Fit
    <3> QED
      BY <2>1, <2>3, <3>1, <1>app, WorkerStep DEF InSwap
  <2> QED
    BY <1>9, <2>3 DEF Clear, Goto, Swapping
<1>10. ASSUME NEW t \in Threads, Copy(t) PROVE PlaceInv'
  <2>1. /\ kind' = kind /\ running' = running /\ tampered' = tampered
        /\ file' = file /\ helper' = helper /\ pc[t] # "idle"
    BY <1>10 DEF Copy, Goto, program, history, kind, Swapping, Fails
  <2>2. ASSUME pc' = [pc EXCEPT ![t] = "idle"], puts' = puts, place'.app = place.app PROVE PlaceInv'
    BY <2>1, <2>2, <1>app, <1>pc, WorkerStep DEF InSwap
  <2>3. ASSUME pc' = [pc EXCEPT ![t] = "aside"], puts' = puts, place'.app = place.app, place'.new = puts PROVE PlaceInv'
    <3>1. pc[t] = "copying" /\ kind = "MacApp" /\ FitFor(puts, running, kind, tampered)
      BY <1>10 DEF Copy, Swapping, PlaceInv, InSwap, Fit
    <3> QED
      BY <2>1, <2>3, <3>1, <1>app, WorkerStep DEF InSwap
  <2> QED
    BY <1>10, <1>rec, <2>2, <2>3 DEF Copy, Goto, Swapping, Fails
<1>11. ASSUME NEW t \in Threads, Aside(t) PROVE PlaceInv'
  <2>1. /\ kind' = kind /\ running' = running /\ tampered' = tampered
        /\ file' = file /\ helper' = helper /\ pc[t] # "idle"
    BY <1>11 DEF Aside, Goto, program, history, kind, Swapping, Fails, Fault
  <2>2. ASSUME pc' = [pc EXCEPT ![t] = "idle"], puts' = puts, place'.app = place.app PROVE PlaceInv'
    BY <2>1, <2>2, <1>app, <1>pc, WorkerStep DEF InSwap
  <2>3. ASSUME pc' = [pc EXCEPT ![t] = "swapping"], puts' = puts, place'.app = Nothing, place'.new = place.new, place.app # Nothing, place'.old = place.app PROVE PlaceInv'
    <3>1. pc[t] = "aside" /\ kind = "MacApp" /\ FitFor(place.new, running, kind, tampered)
      BY <1>11 DEF Aside, Swapping, PlaceInv, InSwap, Fit
    <3> QED
      BY <2>1, <2>3, <3>1, <1>app, WorkerStep DEF InSwap
  <2> QED
    BY <1>11, <1>rec, <2>2, <2>3 DEF Aside, Goto, Swapping, Fails, Fault
<1>12. ASSUME NEW t \in Threads, Swap(t) PROVE PlaceInv'
  <2>1. /\ kind' = kind /\ running' = running /\ tampered' = tampered
        /\ file' = file /\ helper' = helper /\ pc[t] # "idle"
    BY <1>12 DEF Swap, Goto, program, history, kind, Swapping, Fails, Fault
  <2>2. ASSUME pc' = [pc EXCEPT ![t] = "idle"], puts' = puts, place'.app = place.app PROVE PlaceInv'
    BY <2>1, <2>2, <1>app, <1>pc, WorkerStep DEF InSwap
  <2>3. ASSUME pc' = [pc EXCEPT ![t] = "cleaning"], puts' = puts, place'.app = place.new PROVE PlaceInv'
    <3>1. pc[t] = "swapping" /\ kind = "MacApp" /\ FitFor(place.new, running, kind, tampered)
      BY <1>12 DEF Swap, Swapping, PlaceInv, InSwap, Fit
    <3> QED
      BY <2>1, <2>3, <3>1, <1>app, WorkerStep DEF InSwap
  <2>4. ASSUME pc' = [pc EXCEPT ![t] = "idle"], puts' = puts, place'.app = place.old PROVE PlaceInv'
    <3>1. pc[t] = "swapping" /\ kind = "MacApp" /\ FitFor(place.old, running, kind, tampered)
      BY <1>12 DEF Swap, Swapping, PlaceInv, InSwap, Fit
    <3> QED
      BY <2>1, <2>4, <3>1, <1>app, WorkerStep DEF InSwap
  <2> QED
    BY <1>12, <1>rec, <2>2, <2>3, <2>4 DEF Swap, Goto, Swapping, Fails, Fault
<1>13. ASSUME NEW t \in Threads, Clean(t) PROVE PlaceInv'
  <2>1. /\ kind' = kind /\ running' = running /\ tampered' = tampered
        /\ file' = file /\ helper' = helper /\ pc[t] # "idle"
    BY <1>13 DEF Clean, Goto, program, history, kind, Swapping
  <2>3. ASSUME pc' = [pc EXCEPT ![t] = "relaunching"], puts' = puts, place'.app = place.app PROVE PlaceInv'
    <3>1. pc[t] = "cleaning" /\ kind = "MacApp"
      BY <1>13 DEF Clean, Swapping, PlaceInv, InSwap, Fit
    <3> QED
      BY <2>1, <2>3, <3>1, <1>app, WorkerStep DEF InSwap
  <2> QED
    BY <1>13, <2>3 DEF Clean, Goto, Swapping
<1>14. ASSUME NEW t \in Threads, Stage(t) PROVE PlaceInv'
  <2>1. /\ kind' = kind /\ running' = running /\ tampered' = tampered
        /\ file' = file /\ helper' = helper /\ pc[t] # "idle"
    BY <1>14 DEF Stage, Goto, program, history, kind, Swapping, Fails
  <2>2. ASSUME pc' = [pc EXCEPT ![t] = "idle"], puts' = puts, place'.app = place.app PROVE PlaceInv'
    BY <2>1, <2>2, <1>app, <1>pc, WorkerStep DEF InSwap
  <2>3. ASSUME pc' = [pc EXCEPT ![t] = "renaming"], puts' = puts, place'.app = place.app, place'.new = puts PROVE PlaceInv'
    <3>1. pc[t] = "staging" /\ kind = "LinuxUser" /\ FitFor(puts, running, kind, tampered)
      BY <1>14 DEF Stage, Swapping, PlaceInv, InSwap, Fit
    <3> QED
      BY <2>1, <2>3, <3>1, <1>app, WorkerStep DEF InSwap
  <2> QED
    BY <1>14, <1>rec, <2>2, <2>3 DEF Stage, Goto, Swapping, Fails
<1>15. ASSUME NEW t \in Threads, Rename(t) PROVE PlaceInv'
  <2>1. /\ kind' = kind /\ running' = running /\ tampered' = tampered
        /\ file' = file /\ helper' = helper /\ pc[t] # "idle"
    BY <1>15 DEF Rename, Goto, program, history, kind, Swapping, Fails, Fault
  <2>2. ASSUME pc' = [pc EXCEPT ![t] = "idle"], puts' = puts, place'.app = place.app PROVE PlaceInv'
    BY <2>1, <2>2, <1>app, <1>pc, WorkerStep DEF InSwap
  <2>3. ASSUME pc' = [pc EXCEPT ![t] = "relaunching"], puts' = puts, place'.app = place.new PROVE PlaceInv'
    <3>1. pc[t] = "renaming" /\ kind = "LinuxUser" /\ FitFor(place.new, running, kind, tampered)
      BY <1>15 DEF Rename, Swapping, PlaceInv, InSwap, Fit
    <3> QED
      BY <2>1, <2>3, <3>1, <1>app, WorkerStep DEF InSwap
  <2> QED
    BY <1>15, <1>rec, <2>2, <2>3 DEF Rename, Goto, Swapping, Fails, Fault
<1>16. ASSUME NEW t \in Threads, Package(t) PROVE PlaceInv'
  <2>1. /\ kind' = kind /\ running' = running /\ tampered' = tampered
        /\ file' = file /\ helper' = helper /\ pc[t] # "idle"
    BY <1>16 DEF Package, Goto, program, history, kind, Fails, GivesUp, There, RootAccepts
  <2>2. ASSUME pc' = [pc EXCEPT ![t] = "idle"], puts' = puts, place'.app = place.app PROVE PlaceInv'
    BY <2>1, <2>2, <1>app, <1>pc, WorkerStep DEF InSwap
  <2>3. ASSUME pc' = [pc EXCEPT ![t] = "relaunching"], puts' = puts, place'.app = Payload, RootAccepts, kind \in Formats PROVE PlaceInv'
    <3>1. pc[t] = "applying"
      BY <1>16 DEF Package
    <3>2. Fit(Payload)
      BY <3>1, <2>3, PayloadFits DEF RootAccepts, There
    <3> QED
      BY <2>1, <2>3, <3>1, <3>2, <1>app, WorkerStep DEF InSwap, Fit, Formats
  <2> QED
    BY <1>16, <1>rec, <2>2, <2>3 DEF Package, Goto, Fails, GivesUp, There, RootAccepts
<1>17. ASSUME NEW t \in Threads, Windows(t) PROVE PlaceInv'
  <2>1. /\ kind' = kind /\ running' = running /\ tampered' = tampered /\ file' = file
        /\ place' = place /\ pc[t] = "applying" /\ kind = "WindowsInstaller"
        /\ pc' = [pc EXCEPT ![t] = "idle"]
    BY <1>17 DEF Windows, Goto, Fails, Restarts, history, kind
  <2>2. \A u \in Threads : pc'[u] = "idle"
    BY <2>1, <1>one, <1>pc
  <2>3. There => FitFor(Payload, running, kind, tampered)
    BY <2>1, PayloadFits DEF Formats
  <2>4. \/ puts' = puts /\ helper' = helper
        \/ There /\ puts' = Payload
    BY <1>17 DEF Windows, Restarts
  <2>5. place.app' \in {running', Other}
    <3>1. process # "down"
      BY <1>17 DEF Windows, Alive
    <3> QED
      BY <2>1, <3>1
  <2> QED
    BY <2>1, <2>2, <2>3, <2>4, <2>5
<1>18. ASSUME NEW t \in Threads, Relaunch(t) PROVE PlaceInv'
  BY <1>18, <1>pc, <1>one DEF Relaunch, Goto, program, history, Fails, Restarts, kind, Alive, Coming
<1>19. CASE Quit
  BY <1>19, <1>pc, <1>one DEF Quit, program, history, kind
<1>20. CASE Gone
  BY <1>20, <1>pc, <1>one DEF Gone, program, history, Ends, kind
<1>21. CASE Crash
  BY <1>21, <1>pc, <1>one DEF Crash, program, history, Ends, kind, Coming
<1>22. CASE Start
  <2>1. /\ process = "down" /\ kind' = kind /\ tampered' = tampered /\ pc' = pc /\ place' = place
        /\ puts' = puts /\ helper' = helper /\ file' = file
        /\ place.app \in Versions /\ running' = place.app
    BY <1>22 DEF Start, Starts, history, kind
  <2> QED
    BY <2>1, AnotherRuns
<1>23. CASE HelperStarts
  <2>1. /\ kind' = kind /\ tampered' = tampered /\ pc' = pc /\ place' = place
        /\ puts' = puts /\ helper' = "none" /\ file' = file
    BY <1>23 DEF HelperStarts, history, kind
  <2>2. CASE process = "down"
    <3>1. running' = IF place.app \in Versions THEN place.app ELSE running
      BY <1>23, <2>2 DEF HelperStarts, Starts
    <3>2. place.app \notin Versions => process' = process
      BY <1>23, <2>2 DEF HelperStarts, Starts
    <3> QED
      BY <2>1, <2>2, <3>1, <3>2, AnotherRuns
  <2>3. CASE process # "down"
    <3>1. running' = running /\ process' = process
      BY <1>23, <2>3 DEF HelperStarts
    <3> QED
      BY <2>1, <2>3, <3>1 DEF Coming
  <2> QED
    BY <2>2, <2>3
<1>24. CASE InstallerAsks
  BY <1>24, <1>pc, <1>one DEF InstallerAsks, program, history, kind, Coming
<1>25. CASE InstallerReplaces
  <2>1. /\ kind' = kind /\ running' = running /\ tampered' = tampered /\ pc' = pc /\ puts' = puts
        /\ file' = file /\ process' = process /\ helper' \notin Coming
        /\ kind = "WindowsInstaller" /\ FitFor(puts, running, kind, tampered)
    BY <1>25 DEF InstallerReplaces, history, kind, Coming
  <2>2. CASE place' = place /\ helper' = "aborted"
    <3>1. place.app \in {running, Other}
      BY <1>25, <2>1 DEF InstallerReplaces, Coming
    <3> QED
      BY <2>1, <2>2, <3>1
  <2>3. CASE process = "down" /\ place' = [place EXCEPT !.app = puts]
    <3>1. \A t \in Threads : pc[t] = "idle"
      BY <2>3 DEF WorkInv, Working
    <3>2. place'.app = puts
      BY <2>3 DEF TypeOK
    <3> QED
      BY <2>1, <2>3, <3>1, <3>2
  <2> QED
    BY <1>25, <2>2, <2>3 DEF InstallerReplaces
<1>29. CASE InstallerStarts
  <2>1. /\ kind' = kind /\ tampered' = tampered /\ pc' = pc /\ place' = place
        /\ puts' = puts /\ helper' = "none" /\ file' = file
    BY <1>29 DEF InstallerStarts, history, kind
  <2>2. CASE process = "down"
    <3>1. running' = IF place.app \in Versions THEN place.app ELSE running
      BY <1>29, <2>2 DEF InstallerStarts, Starts
    <3>2. place.app \notin Versions => process' = process
      BY <1>29, <2>2 DEF InstallerStarts, Starts
    <3> QED
      BY <2>1, <2>2, <3>1, <3>2, AnotherRuns
  <2>3. CASE process # "down"
    <3>1. running' = running /\ process' = process
      BY <1>29, <2>3 DEF InstallerStarts
    <3> QED
      BY <2>1, <2>3, <3>1 DEF Coming
  <2> QED
    BY <2>2, <2>3
<1>26. CASE ForgetDownloads
  BY <1>26, <1>pc, <1>one DEF ForgetDownloads, program, history, kind
<1>27. CASE FileChanges
  <2>1. /\ kind' = kind /\ running' = running /\ tampered' = TRUE /\ pc' = pc /\ place' = place
        /\ puts' = puts /\ helper' = helper /\ process' = process
    BY <1>27 DEF FileChanges, program, kind
  <2>2. \A c : FitFor(c, running, kind, tampered) => FitFor(c, running, kind, TRUE)
    BY DEF FitFor
  <2> QED
    BY <2>1, <2>2
<1>28. CASE UNCHANGED vars
  BY <1>28 DEF vars, kind
<1> QED
  BY <1>1, <1>2, <1>3, <1>4, <1>5, <1>6, <1>7, <1>8, <1>9, <1>10, <1>11, <1>12, <1>13, <1>14, <1>15, <1>16, <1>17, <1>18, <1>19, <1>20, <1>21, <1>22, <1>23, <1>24, <1>25, <1>26, <1>27, <1>28, <1>29 DEF Next, Install

\* Only between the two renames is there no program where it belongs.
LEMMA InitThere == Init => ThereInv
BY Constants DEF Init, ThereInv, Complete

\* What is fit is complete.
LEMMA FitIsComplete ==
  ASSUME NEW c, Fit(c) PROVE Complete(c)
BY Constants DEF Fit, FitFor, Complete

LEMMA NextThere == UpdaterInv /\ [Next]_vars => ThereInv'
<1> SUFFICES ASSUME TypeOK, WorkInv, OfferInv, PlaceInv, ThereInv, [Next]_vars PROVE ThereInv'
  BY DEF UpdaterInv
<1>pc. pc \in [Threads -> {"idle", "asking"} \cup Fetching \cup Putting] /\ faults \in Nat
  BY Constants DEF TypeOK, Fetching, Putting, InSwap
<1>rec. place \in [app : Versions \cup {Nothing, Cut, Other}, new : Versions \cup {Nothing, Cut, Other},
                  old : Versions \cup {Nothing, Cut, Other}]
  BY DEF TypeOK
<1>one. ASSUME NEW t \in Threads, pc[t] # "idle"
        PROVE  \A u \in Threads : u # t => pc[u] = "idle"
  BY <1>one DEF WorkInv, Working
<1>old. \A t \in Threads : pc[t] = "swapping" => Complete(place.old) /\ Complete(place.new)
  BY FitIsComplete DEF PlaceInv
<1>new. \A t \in Threads : pc[t] = "renaming" => Complete(place.new)
  BY FitIsComplete DEF PlaceInv
<1>down. process = "down" => \A t \in Threads : pc[t] = "idle"
  BY DEF WorkInv, Working
<1> USE DEF ThereInv, Alive
<1>1. ASSUME NEW t \in Threads, CheckBegins(t) PROVE ThereInv'
  BY <1>1, <1>pc, <1>rec, <1>one DEF CheckBegins, Goto, program, history
<1>2. ASSUME NEW t \in Threads, CheckAnswers(t) PROVE ThereInv'
  BY <1>2, <1>pc, <1>rec, <1>one DEF CheckAnswers, Goto, program, history
<1>3. ASSUME NEW t \in Threads, InstallBegins(t) PROVE ThereInv'
  BY <1>3, <1>pc, <1>rec, <1>one DEF InstallBegins, Goto, program, history
<1>4. ASSUME NEW t \in Threads, Prepare(t) PROVE ThereInv'
  BY <1>4, <1>pc, <1>rec, <1>one DEF Prepare, Goto, program, history, Fails
<1>5. ASSUME NEW t \in Threads, Download(t) PROVE ThereInv'
  BY <1>5, <1>pc, <1>rec, <1>one DEF Download, Goto, program, history, Fails
<1>6. ASSUME NEW t \in Threads, Verify(t) PROVE ThereInv'
  BY <1>6, <1>pc, <1>rec, <1>one DEF Verify, Goto, program, history, Fails, Matches
<1>7. ASSUME NEW t \in Threads, OpenImage(t) PROVE ThereInv'
  BY <1>7, <1>pc, <1>rec, <1>one DEF OpenImage, Goto, program, history, Fails, GivesUp, There
<1>8. ASSUME NEW t \in Threads, Unpack(t) PROVE ThereInv'
  BY <1>8, <1>pc, <1>rec, <1>one DEF Unpack, Goto, program, history, Fails, GivesUp, There
<1>9. ASSUME NEW t \in Threads, Clear(t) PROVE ThereInv'
  BY <1>9, <1>pc, <1>rec, <1>one DEF Clear, Goto, program, history, Swapping
<1>10. ASSUME NEW t \in Threads, Copy(t) PROVE ThereInv'
  BY <1>10, <1>pc, <1>rec, <1>one DEF Copy, Goto, program, history, Swapping, Fails
<1>11. ASSUME NEW t \in Threads, Aside(t) PROVE ThereInv'
  BY <1>11, <1>pc, <1>rec, <1>one DEF Aside, Goto, program, history, Swapping, Fails, Fault
<1>12. ASSUME NEW t \in Threads, Swap(t) PROVE ThereInv'
  BY <1>12, <1>pc, <1>rec, <1>one, <1>old DEF Swap, Goto, program, history, Swapping, Fails, Fault
<1>13. ASSUME NEW t \in Threads, Clean(t) PROVE ThereInv'
  BY <1>13, <1>pc, <1>rec, <1>one DEF Clean, Goto, program, history, Swapping
<1>14. ASSUME NEW t \in Threads, Stage(t) PROVE ThereInv'
  BY <1>14, <1>pc, <1>rec, <1>one DEF Stage, Goto, program, history, Swapping, Fails
<1>15. ASSUME NEW t \in Threads, Rename(t) PROVE ThereInv'
  BY <1>15, <1>pc, <1>rec, <1>one, <1>new DEF Rename, Goto, program, history, Swapping, Fails, Fault
<1>16. ASSUME NEW t \in Threads, Package(t) PROVE ThereInv'
  <2>1. RootAccepts => Complete(Payload)
    BY <1>16, PayloadFits, FitIsComplete DEF Package, RootAccepts, There
  <2>2. pc[t] = "applying" /\ process' = process /\ faults' = faults
    BY <1>16 DEF Package, GivesUp, program
  <2>3. place' = place \/ (RootAccepts /\ place' = [place EXCEPT !.app = Payload])
    BY <1>16 DEF Package, GivesUp
  <2>4. \A u \in Threads : pc[u] # "swapping"
    BY <2>2, <1>one
  <2> QED
    BY <2>1, <2>2, <2>3, <2>4, <1>rec
<1>17. ASSUME NEW t \in Threads, Windows(t) PROVE ThereInv'
  BY <1>17, <1>pc, <1>rec, <1>one DEF Windows, Goto, program, history, Fails, There, Restarts
<1>18. ASSUME NEW t \in Threads, Relaunch(t) PROVE ThereInv'
  BY <1>18, <1>pc, <1>rec, <1>one DEF Relaunch, Goto, program, history, Fails, Restarts
<1>19. CASE Quit
  BY <1>19, <1>pc, <1>rec, <1>one DEF Quit, program, history
<1>20. CASE Gone
  BY <1>20, <1>pc, <1>rec, <1>one DEF Gone, program, history, Ends
<1>21. CASE Crash
  BY <1>21, <1>pc, <1>rec, <1>one DEF Crash, program, history, Ends
<1>22. CASE Start
  BY <1>22, Constants DEF Start, history, Complete
<1>23. CASE HelperStarts
  BY <1>23, Constants DEF HelperStarts, history, Starts, Complete
<1>24. CASE InstallerAsks
  BY <1>24, <1>pc, <1>rec, <1>one DEF InstallerAsks, program, history
<1>25. CASE InstallerReplaces
  <2>1. Complete(puts)
    BY <1>25, FitIsComplete DEF InstallerReplaces, PlaceInv, Coming
  <2> QED
    BY <1>25, <1>rec, <2>1 DEF InstallerReplaces, history
<1>29. CASE InstallerStarts
  BY <1>29, Constants DEF InstallerStarts, history, Starts, Complete
<1>26. CASE ForgetDownloads
  BY <1>26, <1>pc, <1>rec, <1>one DEF ForgetDownloads, program, history
<1>27. CASE FileChanges
  BY <1>27, <1>pc, <1>rec, <1>one DEF FileChanges, program, history
<1>28. CASE UNCHANGED vars
  BY <1>28 DEF vars
<1> QED
  BY <1>1, <1>2, <1>3, <1>4, <1>5, <1>6, <1>7, <1>8, <1>9, <1>10, <1>11, <1>12, <1>13, <1>14, <1>15, <1>16, <1>17, <1>18, <1>19, <1>20, <1>21, <1>22, <1>23, <1>24, <1>25, <1>26, <1>27, <1>28, <1>29 DEF Next, Install

-----------------------------------------------------------------------------
(* Theorems. *)

LEMMA Inductive == Spec => []UpdaterInv
<1>1. Init => UpdaterInv
  BY InitTyped, InitWork, InitOffer, InitPlace, InitThere DEF UpdaterInv
<1>2. UpdaterInv /\ [Next]_vars => UpdaterInv'
  BY NextTyped, NextWork, NextOffer, NextPlace, NextThere DEF UpdaterInv
<1> QED
  BY <1>1, <1>2, PTL DEF Spec

\* The updater's variables keep their types.
THEOREM UpdaterTyped == Spec => []TypeOK
<1>1. UpdaterInv => TypeOK
  BY DEF UpdaterInv
<1> QED
  BY <1>1, Inductive, PTL

\* One thread at most looks or installs, and while the program is up a busy state has one at work.
THEOREM OneAtATime == Spec => []OneWorker
<1>1. UpdaterInv => OneWorker
  BY DEF UpdaterInv, WorkInv, OneWorker, is_busy, Busy
<1> QED
  BY <1>1, Inductive, PTL

\* However an installation is cut short, a complete program is left, unless two renames fail.
THEOREM ProgramRemains == Spec => []AProgramRemains
<1>1. UpdaterInv => AProgramRemains
  BY DEF UpdaterInv, ThereInv, AProgramRemains
<1> QED
  BY <1>1, Inductive, PTL

\* What is put in place was published, or changed after it was verified; root installs only the former.
THEOREM PublishedOnly == Spec => []OnlyPublishedInstalled
<1>1. UpdaterInv => OnlyPublishedInstalled
  BY Constants DEF UpdaterInv, PlaceInv, Fit, FitFor, OnlyPublishedInstalled
<1> QED
  BY <1>1, Inductive, PTL

\* A build from source and Homebrew's copy are never replaced.
THEOREM LeftAlone == Spec => []OthersLeftAlone
<1>1. ASSUME UpdaterInv PROVE OthersLeftAlone
  <2>1. facts \in Facts
    BY <1>1, UpdaterAssumption DEF UpdaterInv, TypeOK
  <2>2. facts.at = "build" \/ (facts.at = "homebrew" /\ facts.os = "MacOs") => kind = "Unsupported"
    BY <2>1 DEF kind, classify, Facts
  <2> QED
    BY <1>1, <2>2 DEF UpdaterInv, PlaceInv, OthersLeftAlone
<1> QED
  BY <1>1, Inductive, PTL

\* The program that runs is only ever followed by a later one, by a final one if it is final itself.
THEOREM Forward == Spec => OnlyForward
<1>1. ASSUME UpdaterInv, [Next]_vars, running' # running
      PROVE  Earlier(running, running') /\ (is_prerelease(running') => is_prerelease(running))
  <2>1. running' \in Versions /\ running' = place.app
    <3>1. ASSUME NEW t \in Threads, CheckBegins(t) \/ CheckAnswers(t) \/ InstallBegins(t) \/ Install(t)
          PROVE  running' = running
      BY <3>1 DEF CheckBegins, CheckAnswers, InstallBegins, Install, Prepare, Download, Verify, OpenImage,
           Unpack, Clear, Copy, Aside, Swap, Clean, Stage, Rename, Package, Windows, Relaunch, Swapping, program
    <3> QED
      BY <1>1, <3>1 DEF Next, Quit, Gone, Crash, Ends, Start, HelperStarts, Starts, InstallerAsks,
           InstallerReplaces, InstallerStarts, ForgetDownloads, FileChanges, vars, program
  <2>2. Fit(running')
    BY <1>1, <2>1, Constants DEF UpdaterInv, PlaceInv
  <2>3. is_offered(running, running')
    BY <1>1, <2>1, <2>2, Constants DEF Fit, FitFor
  <2> QED
    BY <2>3 DEF is_offered
<1>2. UpdaterInv /\ [Next]_vars =>
        [running' # running => Earlier(running, running') /\ (is_prerelease(running') => is_prerelease(running))]_vars
  BY <1>1
<1> QED
  BY <1>2, Inductive, PTL DEF Spec, OnlyForward

\* A computer that has run a version never runs an earlier one again, over any number of updates, faults
\* and restarts: each step goes forward, and the order of versions is transitive.
THEOREM NeverBack ==
  ASSUME NEW v \in Versions PROVE Spec => [](running = v => [](running = v \/ Earlier(v, running)))
<1> DEFINE Since == running = v \/ Earlier(v, running)
<1>1. ASSUME UpdaterInv, Since, [running' # running => Earlier(running, running')
                                            /\ (is_prerelease(running') => is_prerelease(running))]_vars, [Next]_vars, UpdaterInv'
      PROVE  Since'
  <2>1. running \in Version /\ running' \in Version /\ v \in Version
    BY <1>1, UpdaterAssumption DEF UpdaterInv, TypeOK
  <2>2. running' = running \/ Earlier(running, running')
    BY <1>1 DEF vars
  <2> QED
    BY <1>1, <2>1, <2>2, VersionOrder
<1>2. running = v => Since
  OBVIOUS
<1> HIDE DEF Since
<1>3. Spec => [](running = v => []Since)
  BY <1>1, <1>2, Inductive, Forward, PTL DEF Spec, OnlyForward
<1> QED
  BY <1>3, PTL DEF Since

---------------------------------------------------------------------------
(***************************************************************************)
(* CommandLines: the words of an entry at login are read back.  A reader   *)
(* is taken through the text of one word, wherever it is and whatever it   *)
(* read before, then through the words with the spaces between them.       *)
(***************************************************************************)
\* The characters, with those of them named that mean something to a reader.
Chars == STRING \cup {"\\", "%", DoubleQuote, Space}

\* What a reader has found, character by character.
Reading(r, start, text, s) ==
    s = [i \in 0 .. Len(text) |-> IF i = 0 THEN start ELSE Reads(r, s[i - 1], text[i])]

LEMMA ReadingExists ==
  ASSUME NEW r, NEW start, NEW text \in Seq(Chars) PROVE \E s : Reading(r, start, text, s)
<1> DEFINE For(k, s) == s = [i \in 0 .. k |-> IF i = 0 THEN start ELSE Reads(r, s[i - 1], text[i])]
           K == {k \in Nat : \E s : For(k, s)}
<1>1. 0 \in K
  <2> DEFINE s == [i \in 0 .. 0 |-> start]
  <2>1. For(0, s)
    OBVIOUS
  <2> QED
    BY <2>1
<1>2. ASSUME NEW k \in K PROVE k + 1 \in K
  <2>1. PICK s : For(k, s)
    OBVIOUS
  <2> DEFINE e == Reads(r, s[k], text[k + 1])
             f == [i \in 0 .. k + 1 |-> IF i = k + 1 THEN e ELSE s[i]]
  <2>2. k \in Nat /\ s[0] = start /\ \A i \in 0 .. k : i # 0 => s[i] = Reads(r, s[i - 1], text[i])
    BY <2>1
  <2> HIDE DEF e
  <2>3. f[0] = start /\ f[k + 1] = e /\ f[k] = s[k] /\ \A i \in 0 .. k : f[i] = s[i]
    BY <2>2
  <2>4. ASSUME NEW i \in 0 .. k + 1, i # 0 PROVE f[i] = Reads(r, f[i - 1], text[i])
    <3>1. CASE i = k + 1
      <4>1. i - 1 = k
        BY <2>2, <3>1
      <4> HIDE DEF f
      <4> QED
        BY <2>3, <3>1, <4>1 DEF e
    <3>2. CASE i # k + 1
      <4>1. i \in 0 .. k /\ i - 1 \in 0 .. k
        BY <2>2, <2>4, <3>2
      <4> HIDE DEF f
      <4> QED
        BY <2>2, <2>3, <2>4, <4>1
    <3> QED
      BY <3>1, <3>2
  <2>5. f = [i \in 0 .. k + 1 |-> f[i]]
    OBVIOUS
  <2> HIDE DEF f
  <2>6. For(k + 1, f)
    BY <2>3, <2>4, <2>5
  <2> HIDE DEF For
  <2>7. k + 1 \in Nat /\ \E h : For(k + 1, h)
    BY <2>2, <2>6
  <2> QED
    BY <2>7
<1>3. K = Nat
  <2>1. K \in SUBSET Nat
    OBVIOUS
  <2> HIDE DEF K
  <2> QED
    BY <1>1, <1>2, <2>1, NatSetInduction
<1>4. Len(text) \in K
  <2> HIDE DEF K
  <2> QED
    BY <1>3
<1> QED
  BY <1>4 DEF Reading

\* Reading takes a character after the other.
LEMMA ReadIs ==
  ASSUME NEW r, NEW start, NEW text \in Seq(Chars)
  PROVE  \E s : /\ Read(r, start, text) = s[Len(text)] /\ s[0] = start
                /\ \A i \in 1 .. Len(text) : s[i] = Reads(r, s[i - 1], text[i])
<1> DEFINE s == CHOOSE f : Reading(r, start, text, f)
<1>1. Reading(r, start, text, s)
  BY ReadingExists
<1>2. Read(r, start, text) = s[Len(text)]
  BY DEF Read, Reading
<1> HIDE DEF s
<1>3. Len(text) \in Nat
  OBVIOUS
<1>4. s[0] = start /\ \A i \in 1 .. Len(text) : s[i] = Reads(r, s[i - 1], text[i])
  BY <1>1, <1>3 DEF Reading
<1> QED
  BY <1>2, <1>4

\* Nothing read, one character more, and two texts one after the other.
LEMMA ReadEmpty ==
  ASSUME NEW r, NEW start, NEW text \in Seq(Chars) PROVE Len(text) = 0 => Read(r, start, text) = start
<1>1. PICK f : /\ Read(r, start, text) = f[Len(text)] /\ f[0] = start
               /\ \A i \in 1 .. Len(text) : f[i] = Reads(r, f[i - 1], text[i])
  BY ReadIs
<1> QED
  BY <1>1

LEMMA ReadNone == ASSUME NEW r, NEW start PROVE Read(r, start, <<>>) = start
<1> DEFINE t == <<>>
<1>1. t \in Seq(Chars) /\ Len(t) = 0
  OBVIOUS
<1> HIDE DEF t
<1>2. Read(r, start, t) = start
  BY <1>1, ReadEmpty
<1> QED
  BY <1>2 DEF t

LEMMA ReadMore ==
  ASSUME NEW r, NEW start, NEW text \in Seq(Chars), NEW c \in Chars
  PROVE  Read(r, start, Append(text, c)) = Reads(r, Read(r, start, text), c)
<1> DEFINE t == Append(text, c)
           n == Len(text)
<1>1. n \in Nat /\ t \in Seq(Chars) /\ Len(t) = n + 1 /\ t[n + 1] = c /\ \A i \in 1 .. n : t[i] = text[i]
  OBVIOUS
<1>2. PICK f : Read(r, start, text) = f[n] /\ f[0] = start /\ \A i \in 1 .. n : f[i] = Reads(r, f[i - 1], text[i])
  BY ReadIs
<1> HIDE DEF n, t
<1>3. PICK g : /\ Read(r, start, t) = g[n + 1] /\ g[0] = start
               /\ \A i \in 1 .. n + 1 : g[i] = Reads(r, g[i - 1], t[i])
  <2>1. t \in Seq(Chars)
    BY <1>1
  <2>2. \E g : /\ Read(r, start, t) = g[Len(t)] /\ g[0] = start
               /\ \A i \in 1 .. Len(t) : g[i] = Reads(r, g[i - 1], t[i])
    BY <2>1, ReadIs
  <2>3. Len(t) = n + 1
    BY <1>1
  <2> QED
    BY <2>2, <2>3
<1> DEFINE K == {i \in Nat : i =< n => f[i] = g[i]}
<1>4. 0 \in K
  BY <1>2, <1>3
<1>5. ASSUME NEW i \in K PROVE i + 1 \in K
  <2> SUFFICES ASSUME i + 1 =< n PROVE f[i + 1] = g[i + 1]
    OBVIOUS
  <2>1. i \in Nat /\ i + 1 \in 1 .. n /\ i + 1 \in 1 .. n + 1 /\ (i + 1) - 1 = i
    BY <1>1
  <2>2. f[i] = g[i]
    BY <1>1, <2>1
  <2> HIDE DEF K
  <2> QED
    BY <1>1, <1>2, <1>3, <2>1, <2>2
<1>6. K = Nat
  <2>1. K \in SUBSET Nat
    OBVIOUS
  <2> HIDE DEF K
  <2> QED
    BY <1>4, <1>5, <2>1, NatSetInduction
<1>7. f[n] = g[n]
  BY <1>1, <1>6
<1>8. g[n + 1] = Reads(r, g[n], c)
  <2>1. n + 1 \in 1 .. n + 1 /\ (n + 1) - 1 = n
    BY <1>1
  <2> QED
    BY <1>1, <1>3, <2>1
<1> QED
  BY <1>2, <1>3, <1>7, <1>8 DEF t

LEMMA ReadOne == ASSUME NEW r, NEW start, NEW c \in Chars PROVE Read(r, start, <<c>>) = Reads(r, start, c)
<1> DEFINE t == <<>>
<1>1. t \in Seq(Chars) /\ Append(t, c) = <<c>>
  OBVIOUS
<1>2. Read(r, start, t) = start
  BY ReadNone
<1> HIDE DEF t
<1>3. Read(r, start, Append(t, c)) = Reads(r, start, c)
  <2>1. Read(r, start, Append(t, c)) = Reads(r, Read(r, start, t), c)
    BY <1>1, ReadMore
  <2> QED
    BY <1>2, <2>1
<1> QED
  BY <1>1, <1>3

LEMMA ReadConcat ==
  ASSUME NEW r, NEW start, NEW a \in Seq(Chars), NEW b \in Seq(Chars)
  PROVE  Read(r, start, a \o b) = Read(r, Read(r, start, a), b)
<1> DEFINE T == {t \in Seq(Chars) : Read(r, start, a \o t) = Read(r, Read(r, start, a), t)}
<1>1. <<>> \in T
  <2>1. a \o <<>> = a /\ <<>> \in Seq(Chars)
    OBVIOUS
  <2>2. Read(r, Read(r, start, a), <<>>) = Read(r, start, a)
    BY ReadNone
  <2> QED
    BY <2>1, <2>2
<1>2. ASSUME NEW t \in T, NEW c \in Chars PROVE Append(t, c) \in T
  <2>1. t \in Seq(Chars) /\ Read(r, start, a \o t) = Read(r, Read(r, start, a), t)
    OBVIOUS
  <2> HIDE DEF T
  <2>2. a \o Append(t, c) = Append(a \o t, c) /\ a \o t \in Seq(Chars) /\ Append(t, c) \in Seq(Chars)
    BY <2>1
  <2>3. Read(r, start, Append(a \o t, c)) = Reads(r, Read(r, start, a \o t), c)
    BY <2>2, ReadMore
  <2>4. Read(r, Read(r, start, a), Append(t, c)) = Reads(r, Read(r, Read(r, start, a), t), c)
    BY <2>1, ReadMore
  <2> QED
    BY <2>1, <2>2, <2>3, <2>4 DEF T
<1>3. T = Seq(Chars)
  <2>1. T \in SUBSET Seq(Chars)
    OBVIOUS
  <2> HIDE DEF T
  <2> QED
    BY <1>1, <1>2, <2>1, SeqSetInduction
<1> QED
  BY <1>3

---------------------------------------------------------------------------
\* Where a reader is in the words, and whatever of a word was read before: the text t adds x to it.
Positions == {"between", "word", "quotes"}
After(where, x) == IF x = <<>> THEN where ELSE Within(where)
Gives(r, ws, A, t, x) ==
    \A w \in Seq(Chars), where \in A : Read(r, Found(ws, w, where, 0), t) = Found(ws, w \o x, After(where, x), 0)
Bare == {"between", "word"}
Quotes == {"quotes"}

\* A set of places that are not left by reading on in a word.
Steady(A) == \A where \in A : Within(where) \in A /\ Within(Within(where)) = Within(where)

LEMMA AllSteady == Steady(Positions) /\ Steady(Bare) /\ Steady(Quotes)
BY DEF Steady, Positions, Bare, Quotes, Within

\* What the readers' steps make of what is found so far.
LEMMA FoundIs ==
  ASSUME NEW ws, NEW w, NEW where, NEW h
  PROVE  /\ Found(ws, w, where, h).words = ws /\ Found(ws, w, where, h).word = w
         /\ Found(ws, w, where, h).at = where /\ Found(ws, w, where, h).held = h
BY DEF Found

LEMMA WithIs ==
  ASSUME NEW ws, NEW w, NEW where, NEW h, NEW c
  PROVE  With(Found(ws, w, where, h), c) = Found(ws, Append(w, c), Within(where), 0)
BY FoundIs DEF With

LEMMA HoldsBackIs ==
  ASSUME NEW ws, NEW w, NEW where, NEW h, NEW n PROVE HoldsBack(Found(ws, w, where, h), n) = Found(ws, w, Within(where), n)
BY FoundIs DEF HoldsBack

LEMMA NextWordIs ==
  ASSUME NEW ws, NEW w, NEW where, where # "between", NEW h
  PROVE  /\ AllWords(Found(ws, w, where, h)) = Append(ws, w)
         /\ NextWord(Found(ws, w, where, h)) = Found(Append(ws, w), <<>>, "between", 0)
BY FoundIs DEF AllWords, NextWord

LEMMA NoWordsNext == AllWords(NoWords) = <<>> /\ NextWord(NoWords) = NoWords
BY FoundIs DEF AllWords, NextWord, NoWords

\* Texts that give nothing, two texts one after the other, a character, and a character after its mark.
LEMMA GivesNothing == ASSUME NEW r, NEW ws, NEW A PROVE Gives(r, ws, A, <<>>, <<>>)
<1> SUFFICES ASSUME NEW w \in Seq(Chars), NEW where \in A
             PROVE  Read(r, Found(ws, w, where, 0), <<>>) = Found(ws, w \o <<>>, After(where, <<>>), 0)
  BY DEF Gives
<1>1. w \o <<>> = w /\ After(where, <<>>) = where
  BY DEF After
<1> QED
  BY <1>1, ReadNone

LEMMA GivesBoth ==
  ASSUME NEW r, NEW ws, NEW A, Steady(A),
         NEW t \in Seq(Chars), NEW x \in Seq(Chars), NEW u \in Seq(Chars), NEW y \in Seq(Chars),
         Gives(r, ws, A, t, x), Gives(r, ws, A, u, y)
  PROVE  Gives(r, ws, A, t \o u, x \o y)
<1> SUFFICES ASSUME NEW w \in Seq(Chars), NEW where \in A
             PROVE  Read(r, Found(ws, w, where, 0), t \o u) = Found(ws, w \o (x \o y), After(where, x \o y), 0)
  BY DEF Gives
<1>1. Read(r, Found(ws, w, where, 0), t \o u) = Read(r, Read(r, Found(ws, w, where, 0), t), u)
  BY ReadConcat
<1>2. Read(r, Found(ws, w, where, 0), t) = Found(ws, w \o x, After(where, x), 0)
  BY DEF Gives
<1>3. w \o x \in Seq(Chars)
  OBVIOUS
<1>4. After(where, x) \in A
  BY DEF After, Steady
<1>5. Read(r, Found(ws, w \o x, After(where, x), 0), u) = Found(ws, (w \o x) \o y, After(After(where, x), y), 0)
  BY <1>3, <1>4 DEF Gives
<1>6. (w \o x) \o y = w \o (x \o y)
  OBVIOUS
<1>7. After(After(where, x), y) = After(where, x \o y)
  <2>1. x \o y = <<>> <=> (x = <<>> /\ y = <<>>)
    OBVIOUS
  <2> QED
    BY <2>1 DEF After, Steady
<1> QED
  BY <1>1, <1>2, <1>5, <1>6, <1>7

LEMMA GivesOne ==
  ASSUME NEW r, NEW ws, NEW A, NEW c \in Chars,
         \A w \in Seq(Chars), where \in A : Reads(r, Found(ws, w, where, 0), c) = Found(ws, Append(w, c), Within(where), 0)
  PROVE  Gives(r, ws, A, <<c>>, <<c>>)
<1> SUFFICES ASSUME NEW w \in Seq(Chars), NEW where \in A
             PROVE  Read(r, Found(ws, w, where, 0), <<c>>) = Found(ws, w \o <<c>>, After(where, <<c>>), 0)
  BY DEF Gives
<1>1. Read(r, Found(ws, w, where, 0), <<c>>) = Reads(r, Found(ws, w, where, 0), c)
  BY ReadOne
<1>2. w \o <<c>> = Append(w, c) /\ <<c>> # <<>>
  OBVIOUS
<1>3. After(where, <<c>>) = Within(where)
  BY <1>2 DEF After
<1> QED
  BY <1>1, <1>2, <1>3

LEMMA GivesTwo ==
  ASSUME NEW r, NEW ws, NEW A, Steady(A), NEW m \in Chars, NEW c \in Chars,
         \A w \in Seq(Chars), where \in A :
            /\ Reads(r, Found(ws, w, where, 0), m) = Found(ws, w, Within(where), 1)
            /\ Reads(r, Found(ws, w, where, 1), c) = Found(ws, Append(w, c), Within(where), 0)
  PROVE  Gives(r, ws, A, <<m, c>>, <<c>>)
<1> SUFFICES ASSUME NEW w \in Seq(Chars), NEW where \in A
             PROVE  Read(r, Found(ws, w, where, 0), <<m, c>>) = Found(ws, w \o <<c>>, After(where, <<c>>), 0)
  BY DEF Gives
<1> DEFINE t == <<m>>
           start == Found(ws, w, where, 0)
<1>1. <<m, c>> = Append(t, c) /\ t \in Seq(Chars)
  OBVIOUS
<1>2. Read(r, start, t) = Found(ws, w, Within(where), 1)
  BY ReadOne
<1> HIDE DEF t
<1>3. Read(r, start, Append(t, c)) = Reads(r, Read(r, start, t), c)
  <2> HIDE DEF start
  <2> QED
    BY <1>1, ReadMore
<1>4. Reads(r, Found(ws, w, Within(where), 1), c) = Found(ws, Append(w, c), Within(where), 0)
  <2>1. Within(where) \in A /\ Within(Within(where)) = Within(where)
    BY DEF Steady
  <2> QED
    BY <2>1
<1>5. w \o <<c>> = Append(w, c) /\ <<c>> # <<>>
  OBVIOUS
<1>6. After(where, <<c>>) = Within(where)
  BY <1>5 DEF After
<1> QED
  BY <1>1, <1>2, <1>3, <1>4, <1>5, <1>6

\* What is read of each part of a text, one after the other.
Family(f, n) == f = [i \in 1 .. n |-> f[i]]

LEMMA GivesEach ==
  ASSUME NEW r, NEW ws, NEW A, Steady(A), NEW n \in Nat, NEW f, NEW g, Family(f, n), Family(g, n),
         \A i \in 1 .. n : f[i] \in Seq(Chars) /\ g[i] \in Seq(Chars) /\ Gives(r, ws, A, f[i], g[i])
  PROVE  /\ FlattenSeq(f) \in Seq(Chars) /\ FlattenSeq(g) \in Seq(Chars)
         /\ Gives(r, ws, A, FlattenSeq(f), FlattenSeq(g))
<1> DEFINE F(k) == FlattenSeq([i \in 1 .. k |-> f[i]])
           G(k) == FlattenSeq([i \in 1 .. k |-> g[i]])
           Good(k) == F(k) \in Seq(Chars) /\ G(k) \in Seq(Chars) /\ Gives(r, ws, A, F(k), G(k))
           K == {k \in Nat : k =< n => Good(k)}
<1>1. 0 \in K
  <2>1. F(0) = <<>> /\ G(0) = <<>>
    BY FlattenNothing
  <2>2. <<>> \in Seq(Chars)
    OBVIOUS
  <2> HIDE DEF F, G
  <2> QED
    BY <2>1, <2>2, GivesNothing
<1>2. ASSUME NEW k \in K PROVE k + 1 \in K
  <2> SUFFICES ASSUME k + 1 =< n PROVE Good(k + 1)
    OBVIOUS
  <2>1. k \in Nat /\ k + 1 \in 1 .. n /\ Good(k)
    OBVIOUS
  <2>2. /\ \A j \in 1 .. k + 1 : f[j] \in Seq(Chars) /\ g[j] \in Seq(Chars)
        /\ Gives(r, ws, A, f[k + 1], g[k + 1]) /\ f[k + 1] \in Seq(Chars) /\ g[k + 1] \in Seq(Chars)
    BY <2>1
  <2>3. F(k + 1) = F(k) \o f[k + 1] /\ G(k + 1) = G(k) \o g[k + 1]
    BY <2>1, <2>2, FlattenMore
  <2> HIDE DEF F, G, K
  <2>4. Gives(r, ws, A, F(k) \o f[k + 1], G(k) \o g[k + 1])
    BY <2>1, <2>2, GivesBoth
  <2>5. F(k) \o f[k + 1] \in Seq(Chars) /\ G(k) \o g[k + 1] \in Seq(Chars)
    BY <2>1, <2>2
  <2> QED
    BY <2>3, <2>4, <2>5
<1>3. K = Nat
  <2>1. K \in SUBSET Nat
    OBVIOUS
  <2> HIDE DEF K
  <2> QED
    BY <1>1, <1>2, <2>1, NatSetInduction
<1>4. Good(n)
  <2> HIDE DEF Good
  <2> QED
    BY <1>3
<1>5. F(n) = FlattenSeq(f) /\ G(n) = FlattenSeq(g)
  BY DEF Family
<1> QED
  BY <1>4, <1>5

---------------------------------------------------------------------------
(* The three layers of a word on Linux: each is undone by its reader.      *)
LEMMA ReadersAre ==
  ASSUME NEW s, NEW c
  PROVE  /\ Reads("string", s, c) = Escapes(s, c, "\\") /\ Reads("codes", s, c) = Escapes(s, c, "%")
         /\ Reads("Exec", s, c) = ReadsExec(s, c) /\ Reads("Windows", s, c) = ReadsCommandLine(s, c)
BY DEF Reads

LEMMA EscapesIs ==
  ASSUME NEW ws, NEW w, NEW where, NEW c, NEW mark
  PROVE  /\ c # mark => Escapes(Found(ws, w, where, 0), c, mark) = Found(ws, Append(w, c), Within(where), 0)
         /\ Escapes(Found(ws, w, where, 0), mark, mark) = Found(ws, w, Within(where), 1)
         /\ Escapes(Found(ws, w, where, 1), c, mark) = Found(ws, Append(w, c), Within(where), 0)
<1>1. Found(ws, w, where, 0).held = 0 /\ Found(ws, w, where, 1).held = 1
  BY FoundIs
<1> QED
  BY <1>1, WithIs, HoldsBackIs DEF Escapes

LEMMA MarkGives ==
  ASSUME NEW r, NEW A, Steady(A), NEW mark \in Chars, NEW ws, NEW c \in Chars,
         \A w \in Seq(Chars), where \in A, h \in {0, 1}, d \in Chars :
            Reads(r, Found(ws, w, where, h), d) = Escapes(Found(ws, w, where, h), d, mark)
  PROVE  /\ c # mark => Gives(r, ws, A, <<c>>, <<c>>)
         /\ Gives(r, ws, A, <<mark, c>>, <<c>>)
<1>1. ASSUME c # mark PROVE Gives(r, ws, A, <<c>>, <<c>>)
  <2>1. \A w \in Seq(Chars), where \in A : Reads(r, Found(ws, w, where, 0), c) = Found(ws, Append(w, c), Within(where), 0)
    BY <1>1, EscapesIs
  <2> QED
    BY <2>1, GivesOne
<1>2. Gives(r, ws, A, <<mark, c>>, <<c>>)
  <2>1. \A w \in Seq(Chars), where \in A :
           /\ Reads(r, Found(ws, w, where, 0), mark) = Found(ws, w, Within(where), 1)
           /\ Reads(r, Found(ws, w, where, 1), c) = Found(ws, Append(w, c), Within(where), 0)
    BY EscapesIs
  <2> QED
    BY <2>1, GivesTwo
<1> QED
  BY <1>1, <1>2

LEMMA CharTuples == ASSUME NEW c \in Chars, NEW m \in Chars PROVE <<c>> \in Seq(Chars) /\ <<m, c>> \in Seq(Chars)
OBVIOUS

LEMMA DoubledGives ==
  ASSUME NEW ws, NEW c \in Chars
  PROVE  doubled(c) \in Seq(Chars) /\ Gives("string", ws, Positions, doubled(c), <<c>>)
<1> DEFINE mark == "\\"
<1>1. mark \in Chars
  BY DEF Chars
<1>2. doubled(c) = IF c = mark THEN <<mark, c>> ELSE <<c>>
  BY DEF doubled
<1>3. \A s, d : Reads("string", s, d) = Escapes(s, d, mark)
  BY ReadersAre
<1> HIDE DEF mark
<1>4. /\ c # mark => Gives("string", ws, Positions, <<c>>, <<c>>)
      /\ Gives("string", ws, Positions, <<mark, c>>, <<c>>)
  BY <1>1, <1>3, AllSteady, MarkGives
<1> QED
  BY <1>1, <1>2, <1>4, CharTuples

LEMMA PercentGives ==
  ASSUME NEW ws, NEW c \in Chars
  PROVE  percent(c) \in Seq(Chars) /\ Gives("codes", ws, Positions, percent(c), <<c>>)
<1> DEFINE mark == "%"
<1>1. mark \in Chars
  BY DEF Chars
<1>2. percent(c) = IF c = mark THEN <<mark, c>> ELSE <<c>>
  BY DEF percent
<1>3. \A s, d : Reads("codes", s, d) = Escapes(s, d, mark)
  BY ReadersAre
<1> HIDE DEF mark
<1>4. /\ c # mark => Gives("codes", ws, Positions, <<c>>, <<c>>)
      /\ Gives("codes", ws, Positions, <<mark, c>>, <<c>>)
  BY <1>1, <1>3, AllSteady, MarkGives
<1> QED
  BY <1>1, <1>2, <1>4, CharTuples

LEMMA MarksDiffer ==
  /\ Space # DoubleQuote /\ Space # "\\" /\ Space # "\t" /\ Space # "%"
  /\ DoubleQuote # "\\" /\ DoubleQuote # "\t" /\ DoubleQuote # "%"
BY Zenon DEF Space, DoubleQuote

LEMMA ExecQuoted ==
  ASSUME NEW s, NEW c, s.at = "quotes"
  PROVE  /\ s.held = 0 /\ c = DoubleQuote => ReadsExec(s, c) = Turned(s)
         /\ s.held = 1 \/ c # DoubleQuote => ReadsExec(s, c) = Escapes(s, c, "\\")
<1>1. s.held = 0 /\ c = DoubleQuote => ReadsExec(s, c) = Turned(s)
  BY DEF ReadsExec
<1>2. s.held = 1 => ReadsExec(s, c) = Escapes(s, c, "\\")
  BY DEF ReadsExec
<1>3. c # DoubleQuote => ReadsExec(s, c) = Escapes(s, c, "\\")
  BY DEF ReadsExec
<1> QED
  BY <1>1, <1>2, <1>3

LEMMA ExecBare ==
  ASSUME NEW s, NEW c, s.at # "quotes"
  PROVE  /\ c = DoubleQuote => ReadsExec(s, c) = Turned(s)
         /\ c = Space => ReadsExec(s, c) = NextWord(s)
         /\ c \notin Special => ReadsExec(s, c) = With(s, c)
<1>1. c \notin Special => c # DoubleQuote /\ c # Space /\ c # "\t"
  BY DEF Special
<1>3. Space # DoubleQuote
  BY MarksDiffer
<1>2. c = DoubleQuote => ReadsExec(s, c) = Turned(s)
  <2>1. DoubleQuote \notin {Space, "\t"}
    BY MarksDiffer
  <2> QED
    BY <2>1 DEF ReadsExec
<1>4. c = Space => ReadsExec(s, c) = NextWord(s)
  BY <1>3 DEF ReadsExec
<1>5. ASSUME c # DoubleQuote, c # Space, c # "\t" PROVE ReadsExec(s, c) = With(s, c)
  <2>1. c # DoubleQuote /\ c \notin {Space, "\t"}
    BY <1>5
  <2> QED
    BY <2>1 DEF ReadsExec
<1> QED
  BY <1>1, <1>2, <1>4, <1>5

LEMMA BareGives ==
  ASSUME NEW ws, NEW c \in Chars, c \notin Special PROVE Gives("Exec", ws, Bare, <<c>>, <<c>>)
<1>1. ASSUME NEW w \in Seq(Chars), NEW where \in Bare
      PROVE  Reads("Exec", Found(ws, w, where, 0), c) = Found(ws, Append(w, c), Within(where), 0)
  <2>1. Found(ws, w, where, 0).at # "quotes"
    BY FoundIs DEF Bare
  <2>2. ReadsExec(Found(ws, w, where, 0), c) = With(Found(ws, w, where, 0), c)
    BY <2>1, ExecBare
  <2> QED
    BY <2>2, WithIs, ReadersAre
<1> QED
  BY <1>1, GivesOne

LEMMA EscapedGives ==
  ASSUME NEW ws, NEW c \in Chars
  PROVE  escaped(c) \in Seq(Chars) /\ Gives("Exec", ws, Quotes, escaped(c), <<c>>)
<1> DEFINE mark == "\\"
<1>1. mark \in Chars
  BY DEF Chars
<1>2. ASSUME NEW w \in Seq(Chars), NEW where \in Quotes, NEW h \in {0, 1}, NEW d, h = 1 \/ d # DoubleQuote
      PROVE  Reads("Exec", Found(ws, w, where, h), d) = Escapes(Found(ws, w, where, h), d, mark)
  <2>1. Found(ws, w, where, h).at = "quotes" /\ Found(ws, w, where, h).held = h
    BY FoundIs DEF Quotes
  <2>2. ReadsExec(Found(ws, w, where, h), d) = Escapes(Found(ws, w, where, h), d, mark)
    BY <1>2, <2>1, ExecQuoted
  <2> QED
    BY <2>2, ReadersAre
<1>3. CASE c \in {DoubleQuote, "backtick", "$", mark}
  <2>1. escaped(c) = <<mark, c>>
    BY <1>3 DEF escaped
  <2>2. ASSUME NEW w \in Seq(Chars), NEW where \in Quotes
        PROVE  /\ Reads("Exec", Found(ws, w, where, 0), mark) = Found(ws, w, Within(where), 1)
               /\ Reads("Exec", Found(ws, w, where, 1), c) = Found(ws, Append(w, c), Within(where), 0)
    <3>1. /\ Reads("Exec", Found(ws, w, where, 0), mark) = Escapes(Found(ws, w, where, 0), mark, mark)
          /\ Reads("Exec", Found(ws, w, where, 1), c) = Escapes(Found(ws, w, where, 1), c, mark)
      <4>1. mark # DoubleQuote
        BY MarksDiffer
      <4> HIDE DEF mark
      <4> QED
        BY <1>2, <4>1
    <3> HIDE DEF mark
    <3> QED
      BY <3>1, EscapesIs
  <2> HIDE DEF mark
  <2> QED
    BY <1>1, <2>1, <2>2, AllSteady, GivesTwo, CharTuples
<1>4. CASE c \notin {DoubleQuote, "backtick", "$", mark}
  <2>1. escaped(c) = <<c>> /\ c # mark /\ c # DoubleQuote
    BY <1>4 DEF escaped
  <2>2. ASSUME NEW w \in Seq(Chars), NEW where \in Quotes
        PROVE  Reads("Exec", Found(ws, w, where, 0), c) = Found(ws, Append(w, c), Within(where), 0)
    <3>1. Reads("Exec", Found(ws, w, where, 0), c) = Escapes(Found(ws, w, where, 0), c, mark)
      BY <1>2, <2>1
    <3>2. c # mark
      BY <2>1
    <3> HIDE DEF mark
    <3>3. Escapes(Found(ws, w, where, 0), c, mark) = Found(ws, Append(w, c), Within(where), 0)
      BY <3>2, EscapesIs
    <3> QED
      BY <3>1, <3>3
  <2> QED
    BY <2>1, <2>2, GivesOne, CharTuples
<1> QED
  BY <1>3, <1>4

\* The same of whole texts.
LEMMA TextDoubled ==
  ASSUME NEW ws, NEW text \in Seq(Chars)
  PROVE  Each(text, doubled) \in Seq(Chars) /\ Gives("string", ws, Positions, Each(text, doubled), text)
<1> DEFINE n == Len(text)
           f == [i \in 1 .. n |-> doubled(text[i])]
           g == [i \in 1 .. n |-> <<text[i]>>]
<1>1. n \in Nat /\ DOMAIN text = 1 .. n /\ \A i \in 1 .. n : text[i] \in Chars /\ <<text[i]>> \in Seq(Chars)
  OBVIOUS
<1> HIDE DEF n
<1>2. \A i \in 1 .. n : f[i] = doubled(text[i]) /\ g[i] = <<text[i]>>
  OBVIOUS
<1>3. Family(f, n) /\ Family(g, n)
  BY DEF Family
<1> HIDE DEF f, g
<1>4. \A i \in 1 .. n : f[i] \in Seq(Chars) /\ g[i] \in Seq(Chars) /\ Gives("string", ws, Positions, f[i], g[i])
  BY <1>1, <1>2, DoubledGives
<1>5. FlattenSeq(f) \in Seq(Chars) /\ Gives("string", ws, Positions, FlattenSeq(f), FlattenSeq(g))
  BY <1>1, <1>3, <1>4, AllSteady, GivesEach
<1>6. FlattenSeq(g) = text
  BY FlattenSingles DEF g, n
<1>7. FlattenSeq(f) = Each(text, doubled)
  BY <1>1 DEF Each, f
<1> QED
  BY <1>5, <1>6, <1>7

LEMMA TextPercent ==
  ASSUME NEW ws, NEW text \in Seq(Chars)
  PROVE  Each(text, percent) \in Seq(Chars) /\ Gives("codes", ws, Positions, Each(text, percent), text)
<1> DEFINE n == Len(text)
           f == [i \in 1 .. n |-> percent(text[i])]
           g == [i \in 1 .. n |-> <<text[i]>>]
<1>1. n \in Nat /\ DOMAIN text = 1 .. n /\ \A i \in 1 .. n : text[i] \in Chars /\ <<text[i]>> \in Seq(Chars)
  OBVIOUS
<1> HIDE DEF n
<1>2. \A i \in 1 .. n : f[i] = percent(text[i]) /\ g[i] = <<text[i]>>
  OBVIOUS
<1>3. Family(f, n) /\ Family(g, n)
  BY DEF Family
<1> HIDE DEF f, g
<1>4. \A i \in 1 .. n : f[i] \in Seq(Chars) /\ g[i] \in Seq(Chars) /\ Gives("codes", ws, Positions, f[i], g[i])
  BY <1>1, <1>2, PercentGives
<1>5. FlattenSeq(f) \in Seq(Chars) /\ Gives("codes", ws, Positions, FlattenSeq(f), FlattenSeq(g))
  BY <1>1, <1>3, <1>4, AllSteady, GivesEach
<1>6. FlattenSeq(g) = text
  BY FlattenSingles DEF g, n
<1>7. FlattenSeq(f) = Each(text, percent)
  BY <1>1 DEF Each, f
<1> QED
  BY <1>5, <1>6, <1>7

LEMMA TextEscaped ==
  ASSUME NEW ws, NEW text \in Seq(Chars)
  PROVE  Each(text, escaped) \in Seq(Chars) /\ Gives("Exec", ws, Quotes, Each(text, escaped), text)
<1> DEFINE n == Len(text)
           f == [i \in 1 .. n |-> escaped(text[i])]
           g == [i \in 1 .. n |-> <<text[i]>>]
<1>1. n \in Nat /\ DOMAIN text = 1 .. n /\ \A i \in 1 .. n : text[i] \in Chars /\ <<text[i]>> \in Seq(Chars)
  OBVIOUS
<1> HIDE DEF n
<1>2. \A i \in 1 .. n : f[i] = escaped(text[i]) /\ g[i] = <<text[i]>>
  OBVIOUS
<1>3. Family(f, n) /\ Family(g, n)
  BY DEF Family
<1> HIDE DEF f, g
<1>4. \A i \in 1 .. n : f[i] \in Seq(Chars) /\ g[i] \in Seq(Chars) /\ Gives("Exec", ws, Quotes, f[i], g[i])
  BY <1>1, <1>2, EscapedGives
<1>5. FlattenSeq(f) \in Seq(Chars) /\ Gives("Exec", ws, Quotes, FlattenSeq(f), FlattenSeq(g))
  BY <1>1, <1>3, <1>4, AllSteady, GivesEach
<1>6. FlattenSeq(g) = text
  BY FlattenSingles DEF g, n
<1>7. FlattenSeq(f) = Each(text, escaped)
  BY <1>1 DEF Each, f
<1> QED
  BY <1>5, <1>6, <1>7

\* A text of characters that stand for themselves.
LEMMA GivesSame ==
  ASSUME NEW r, NEW ws, NEW A, Steady(A), NEW S \in SUBSET Chars, \A c \in S : Gives(r, ws, A, <<c>>, <<c>>),
         NEW text \in Seq(S)
  PROVE  Gives(r, ws, A, text, text)
<1> DEFINE T == {t \in Seq(S) : Gives(r, ws, A, t, t)}
<1>1. <<>> \in T
  <2>1. <<>> \in Seq(S)
    OBVIOUS
  <2> QED
    BY <2>1, GivesNothing
<1>2. ASSUME NEW t \in T, NEW c \in S PROVE Append(t, c) \in T
  <2>1. t \in Seq(S) /\ Gives(r, ws, A, t, t)
    OBVIOUS
  <2> DEFINE u == <<c>>
  <2>2. Append(t, c) = t \o u /\ Append(t, c) \in Seq(S) /\ t \in Seq(Chars) /\ u \in Seq(Chars)
    BY <2>1
  <2>3. Gives(r, ws, A, u, u)
    OBVIOUS
  <2> HIDE DEF T, u
  <2>4. Gives(r, ws, A, t \o u, t \o u)
    BY <2>1, <2>2, <2>3, GivesBoth
  <2> QED
    BY <2>2, <2>4 DEF T
<1>3. T = Seq(S)
  <2>1. T \in SUBSET Seq(S)
    OBVIOUS
  <2> HIDE DEF T
  <2> QED
    BY <1>1, <1>2, <2>1, SeqSetInduction
<1> QED
  BY <1>3

\* A word with nothing in it that is quoted for has nothing of that after its percent signs are doubled.
Simple == {c \in Chars : c \notin Special}

LEMMA PlainIs ==
  ASSUME NEW word \in Seq(Chars)
  PROVE  /\ word # <<>> => Each(word, percent) # <<>>
         /\ ~needs_quotes(word) => Each(word, percent) \in Seq(Simple) /\ word # <<>>
<1>1. ASSUME word # <<>>, Each(word, percent) = <<>> PROVE FALSE
  <2>1. Gives("codes", <<>>, Positions, Each(word, percent), word)
    BY TextPercent
  <2>2. <<>> \in Seq(Chars) /\ "between" \in Positions /\ <<>> \o word = word
    BY DEF Positions
  <2>3. /\ Read("codes", Found(<<>>, <<>>, "between", 0), Each(word, percent)) = Found(<<>>, <<>> \o word, After("between", word), 0)
        /\ Read("codes", Found(<<>>, <<>>, "between", 0), <<>>) = Found(<<>>, <<>>, "between", 0)
    BY <2>1, <2>2, ReadNone DEF Gives
  <2>4. Found(<<>>, word, After("between", word), 0) = Found(<<>>, <<>>, "between", 0)
    BY <1>1, <2>2, <2>3
  <2>5. word = <<>>
    BY <2>4, FoundIs
  <2> QED
    BY <1>1, <2>5
<1>2. ASSUME ~needs_quotes(word) PROVE Each(word, percent) \in Seq(Simple) /\ word # <<>>
  <2> DEFINE n == Len(word)
             f == [i \in 1 .. n |-> percent(word[i])]
  <2>1. n \in Nat /\ DOMAIN word = 1 .. n /\ \A i \in 1 .. n : word[i] \in Chars
    OBVIOUS
  <2>2. word # <<>> /\ \A i \in 1 .. n : word[i] \notin Special
    BY <1>2, <2>1 DEF needs_quotes, ToSet
  <2> HIDE DEF n
  <2>3. ASSUME NEW i \in 1 .. n PROVE percent(word[i]) \in Seq(Simple)
    <3>1. word[i] \in Simple
      BY <2>1, <2>2 DEF Simple
    <3>2. "%" \notin Special
      BY MarksDiffer DEF Special
    <3>3. percent(word[i]) = <<word[i], word[i]>> \/ percent(word[i]) = <<word[i]>>
      BY DEF percent
    <3> DEFINE d == word[i]
    <3>4. d \in Simple
      BY <3>1
    <3> HIDE DEF d
    <3>5. <<d, d>> \in Seq(Simple) /\ <<d>> \in Seq(Simple)
      BY <3>4
    <3> QED
      BY <3>3, <3>5 DEF d
  <2>4. f \in Seq(Seq(Simple))
    <3>1. f \in [1 .. n -> Seq(Simple)]
      BY <2>3
    <3> HIDE DEF f
    <3> QED
      BY <2>1, <3>1, FunctionSeq
  <2>5. FlattenSeq(f) = Each(word, percent)
    BY <2>1 DEF Each
  <2> HIDE DEF f
  <2> QED
    BY <2>2, <2>4, <2>5, FlattenIn
<1> QED
  BY <1>1, <1>2
---------------------------------------------------------------------------
(* A line of words: what is left when the reader has read it, so that a    *)
(* space or the end gives the words.                                       *)
Finished(r, s) == IF r = "Windows" THEN PutBack(s, s.held) ELSE s
Settled(r, s, all) == Reads(r, s, Space) = Found(all, <<>>, "between", 0) /\ AllWords(Finished(r, s)) = all
ReadsWord(r, t, x) == \A ws : Settled(r, Read(r, Found(ws, <<>>, "between", 0), t), Append(ws, x))

LEMMA LineRead ==
  ASSUME NEW r, Settled(r, NoWords, <<>>), NEW n \in Nat, NEW X, NEW texts \in [1 .. n -> Seq(Chars)], NEW xs \in [1 .. n -> X],
         \A i \in 1 .. n : ReadsWord(r, texts[i], xs[i])
  PROVE  Spaced(texts) \in Seq(Chars) /\ Settled(r, Read(r, NoWords, Spaced(texts)), xs)
<1> DEFINE space == Space
           g == [i \in 1 .. n |-> IF i = 1 THEN texts[i] ELSE <<space>> \o texts[i]]
           F(k) == FlattenSeq([i \in 1 .. k |-> g[i]])
           xsTo(k) == SubSeq(xs, 1, k)
           Good(k) == F(k) \in Seq(Chars) /\ Settled(r, Read(r, NoWords, F(k)), xsTo(k))
           K == {k \in Nat : k =< n => Good(k)}
<1>0. /\ xs \in Seq(X) /\ Len(xs) = n /\ DOMAIN texts = 1 .. n /\ \A i \in 1 .. n : texts[i] \in Seq(Chars)
      /\ xsTo(0) = <<>> /\ xsTo(n) = xs
  <2>1. xs \in Seq(X) /\ Len(xs) = n
    BY FunctionSeq
  <2> QED
    BY <2>1
<1>1. space \in Chars /\ \A i \in 1 .. n : g[i] \in Seq(Chars)
  <2>1. space \in Chars
    BY DEF Chars
  <2>2. \A i \in 1 .. n : g[i] = IF i = 1 THEN texts[i] ELSE <<space>> \o texts[i]
    OBVIOUS
  <2> HIDE DEF space, g
  <2>3. ASSUME NEW i \in 1 .. n PROVE g[i] \in Seq(Chars)
    <3> DEFINE t == texts[i]
               u == <<space>>
    <3>1. t \in Seq(Chars) /\ u \in Seq(Chars) /\ g[i] = IF i = 1 THEN t ELSE u \o t
      BY <1>0, <2>1, <2>2
    <3> HIDE DEF t, u
    <3> QED
      BY <3>1
  <2> QED
    BY <2>1, <2>3
<1>2. Spaced(texts) = F(n)
  <2>1. g = [i \in 1 .. n |-> g[i]]
    OBVIOUS
  <2>2. Spaced(texts) = FlattenSeq(g)
    BY <1>0 DEF Spaced
  <2> QED
    BY <2>1, <2>2
<1>3. 0 \in K
  <2>1. F(0) = <<>>
    BY FlattenNothing
  <2>2. <<>> \in Seq(Chars)
    OBVIOUS
  <2>3. Read(r, NoWords, <<>>) = NoWords
    BY ReadNone
  <2> HIDE DEF F, xsTo
  <2> QED
    BY <1>0, <2>1, <2>2, <2>3
<1>4. ASSUME NEW k \in K PROVE k + 1 \in K
  <2> SUFFICES ASSUME k + 1 =< n PROVE Good(k + 1)
    <3> HIDE DEF Good
    <3> QED
      OBVIOUS
  <2>1. k \in Nat /\ k + 1 \in 1 .. n /\ Good(k)
    <3> HIDE DEF Good
    <3> QED
      OBVIOUS
  <2> DEFINE t == texts[k + 1]
             x == xs[k + 1]
             before == Read(r, NoWords, F(k))
  <2>2. ASSUME NEW j \in 1 .. k + 1 PROVE g[j] \in Seq(Chars)
    <3>1. j \in 1 .. n
      <4> HIDE DEF Good, K
      <4> QED
        BY <2>1
    <3> HIDE DEF g
    <3> QED
      BY <1>1, <3>1
  <2>3. g[k + 1] = IF k + 1 = 1 THEN t ELSE <<space>> \o t
    BY <2>1
  <2>4. F(k + 1) = F(k) \o g[k + 1]
    <3> HIDE DEF g, Good, K
    <3> QED
      BY <2>1, <2>2, FlattenMore
  <2>5. xsTo(k) \o <<x>> = xsTo(k + 1) /\ Append(xsTo(k), x) = xsTo(k) \o <<x>>
    <3>1. xsTo(k) \o <<x>> = xsTo(k + 1)
      BY <1>0, <2>1, PrefixMore
    <3>2. xsTo(k) \in Seq(X)
      <4> HIDE DEF Good, K
      <4> QED
        BY <1>0, <2>1
    <3> DEFINE y == xsTo(k)
    <3>3. y \in Seq(X) /\ x \in X
      BY <1>0, <2>1, <3>2
    <3> HIDE DEF x, y
    <3>4. Append(y, x) = y \o <<x>>
      BY <3>3
    <3> QED
      BY <3>1, <3>4 DEF y
  <2>6. t \in Seq(Chars) /\ ReadsWord(r, t, x) /\ g[k + 1] \in Seq(Chars)
    BY <1>0, <1>1, <2>1
  <2>7. F(k) \in Seq(Chars) /\ Settled(r, before, xsTo(k))
    BY <2>1
  <2> HIDE DEF K, F, g, t, x, xsTo
  <2>8. Read(r, NoWords, F(k) \o g[k + 1]) = Read(r, before, g[k + 1])
    BY <2>6, <2>7, ReadConcat
  <2>9. Settled(r, Read(r, before, g[k + 1]), Append(xsTo(k), x))
    <3>1. CASE k + 1 = 1
      <4>1. k = 0
        BY <2>1, <3>1
      <4>2. F(k) = <<>> /\ xsTo(k) = <<>> /\ g[k + 1] = t
        BY <1>0, <2>3, <3>1, <4>1, FlattenNothing DEF F
      <4>3. before = Found(<<>>, <<>>, "between", 0)
        BY <4>2, ReadNone DEF NoWords
      <4> HIDE DEF before
      <4> QED
        BY <2>6, <4>2, <4>3 DEF ReadsWord
    <3>2. CASE k + 1 # 1
      <4> DEFINE u == <<space>>
      <4>1. u \in Seq(Chars) /\ g[k + 1] = u \o t
        <5>1. u \in Seq(Chars)
          BY <1>1
        <5> QED
          BY <2>3, <3>2, <5>1
      <4>2. Read(r, before, u) = Reads(r, before, space)
        BY <1>1, ReadOne
      <4> HIDE DEF u, before
      <4>3. Read(r, before, u \o t) = Read(r, Read(r, before, u), t)
        BY <2>6, <4>1, ReadConcat
      <4>4. Reads(r, before, space) = Found(xsTo(k), <<>>, "between", 0)
        BY <2>7 DEF Settled
      <4> HIDE DEF space
      <4> QED
        BY <2>6, <4>1, <4>2, <4>3, <4>4 DEF ReadsWord
    <3> QED
      BY <3>1, <3>2
  <2>10. F(k) \o g[k + 1] \in Seq(Chars)
    BY <2>6, <2>7
  <2> HIDE DEF before
  <2> QED
    BY <2>4, <2>5, <2>8, <2>9, <2>10
<1>5. K = Nat
  <2>1. K \in SUBSET Nat
    OBVIOUS
  <2> HIDE DEF K
  <2> QED
    BY <1>3, <1>4, <2>1, NatSetInduction
<1>6. Good(n)
  <2> HIDE DEF Good
  <2> QED
    BY <1>5
<1> QED
  BY <1>0, <1>2, <1>6

---------------------------------------------------------------------------
(* Linux.                                                                  *)

\* A word as it is in the line, without the marks of the string.
lined(word) ==
    IF needs_quotes(word) THEN (<<DoubleQuote>> \o Each(Each(word, percent), escaped)) \o <<DoubleQuote>> ELSE Each(word, percent)

LEMMA ExecSettled ==
  ASSUME NEW s, NEW all, s.at # "quotes", AllWords(s) = all PROVE Settled("Exec", s, all)
<1>1. Reads("Exec", s, Space) = NextWord(s)
  BY ExecBare, ReadersAre
<1>2. NextWord(s) = Found(all, <<>>, "between", 0)
  BY DEF NextWord
<1>3. Finished("Exec", s) = s
  BY DEF Finished
<1> QED
  BY <1>1, <1>2, <1>3 DEF Settled

\* A word that is quoted, and any word, as the reader of the line finds it.
LEMMA QuoteTurns ==
  ASSUME NEW ws, NEW w, NEW c, c = DoubleQuote
  PROVE  /\ Reads("Exec", Found(ws, w, "between", 0), c) = Found(ws, w, "quotes", 0)
         /\ Reads("Exec", Found(ws, w, "quotes", 0), c) = Found(ws, w, "word", 0)
<1>1. \A where : Found(ws, w, where, 0).at = where /\ Found(ws, w, where, 0).held = 0
  BY FoundIs
<1>2. \A where : ReadsExec(Found(ws, w, where, 0), c) = Turned(Found(ws, w, where, 0))
  <2> TAKE where
  <2>1. CASE where = "quotes"
    BY <1>1, <2>1, ExecQuoted
  <2>2. CASE where # "quotes"
    BY <1>1, <2>2, ExecBare
  <2> QED
    BY <2>1, <2>2
<1>3. /\ Turned(Found(ws, w, "between", 0)) = Found(ws, w, "quotes", 0)
      /\ Turned(Found(ws, w, "quotes", 0)) = Found(ws, w, "word", 0)
  <2>1. \A s : Turned(s) = Found(s.words, s.word, IF s.at = "quotes" THEN "word" ELSE "quotes", s.held)
    BY DEF Turned
  <2>2. \A where : Turned(Found(ws, w, where, 0)) = Found(ws, w, IF where = "quotes" THEN "word" ELSE "quotes", 0)
    BY <2>1, FoundIs
  <2> QED
    BY <2>2
<1> QED
  BY <1>2, <1>3, ReadersAre

LEMMA QuotedRead ==
  ASSUME NEW text \in Seq(Chars), NEW q \in Chars, q = DoubleQuote
  PROVE  /\ (<<q>> \o Each(text, escaped)) \o <<q>> \in Seq(Chars)
         /\ ReadsWord("Exec", (<<q>> \o Each(text, escaped)) \o <<q>>, text)
<1> DEFINE e == Each(text, escaped)
           t == <<q>>
           x == "Exec"
<1>1. e \in Seq(Chars) /\ t \in Seq(Chars)
  <2>1. e \in Seq(Chars) /\ Gives(x, <<>>, Quotes, e, text)
    BY TextEscaped
  <2> QED
    BY <2>1
<1>2. ASSUME NEW ws PROVE Settled(x, Read(x, Found(ws, <<>>, "between", 0), (t \o e) \o t), Append(ws, text))
  <2> DEFINE start == Found(ws, <<>>, "between", 0)
  <2>1. Read(x, start, t) = Found(ws, <<>>, "quotes", 0)
    BY ReadOne, QuoteTurns
  <2>2. Read(x, Found(ws, <<>>, "quotes", 0), e) = Found(ws, text, "quotes", 0)
    <3>1. Gives(x, ws, Quotes, e, text)
      BY TextEscaped
    <3>2. <<>> \in Seq(Chars) /\ <<>> \o text = text
      OBVIOUS
    <3>3. "quotes" \in Quotes /\ After("quotes", text) = "quotes"
      BY DEF Quotes, After, Within
    <3> HIDE DEF e, x
    <3> QED
      BY <3>1, <3>2, <3>3 DEF Gives
  <2>3. Read(x, Found(ws, text, "quotes", 0), t) = Found(ws, text, "word", 0)
    BY ReadOne, QuoteTurns
  <2> HIDE DEF t, e, start, x
  <2>4. Read(x, start, (t \o e) \o t) = Read(x, Read(x, start, t \o e), t) /\ Read(x, start, t \o e) = Read(x, Read(x, start, t), e)
    <3>1. t \in Seq(Chars) /\ e \in Seq(Chars)
      BY <1>1
    <3>2. t \o e \in Seq(Chars)
      BY <3>1
    <3>3. Read(x, start, t \o e) = Read(x, Read(x, start, t), e)
      BY <3>1, ReadConcat
    <3> DEFINE u == t \o e
    <3>4. u \in Seq(Chars)
      BY <3>2
    <3> HIDE DEF u
    <3>5. Read(x, start, u \o t) = Read(x, Read(x, start, u), t)
      BY <3>1, <3>4, ReadConcat
    <3> QED
      BY <3>3, <3>5 DEF u
  <2>5. Read(x, start, (t \o e) \o t) = Found(ws, text, "word", 0)
    BY <2>1, <2>2, <2>3, <2>4
  <2>6. AllWords(Found(ws, text, "word", 0)) = Append(ws, text)
    BY NextWordIs
  <2>7. Found(ws, text, "word", 0).at # "quotes"
    BY FoundIs
  <2> QED
    BY <2>5, <2>6, <2>7, ExecSettled DEF start, x
<1>3. (t \o e) \o t \in Seq(Chars)
  <2> HIDE DEF t, e
  <2>1. t \in Seq(Chars) /\ e \in Seq(Chars)
    BY <1>1
  <2> QED
    BY <2>1
<1> HIDE DEF t, e
<1> QED
  BY <1>2, <1>3 DEF ReadsWord, t, e

LEMMA WordRead ==
  ASSUME NEW word \in Seq(Chars)
  PROVE  /\ quote(word) \in Seq(Chars) /\ lined(word) \in Seq(Chars) /\ Each(word, percent) \in Seq(Chars)
         /\ Gives("string", <<>>, Positions, quote(word), lined(word))
         /\ ReadsWord("Exec", lined(word), Each(word, percent))
<1> DEFINE plain == Each(word, percent)
           q == DoubleQuote
<1>1. plain \in Seq(Chars) /\ q \in Chars
  BY TextPercent DEF Chars
<1>2. CASE needs_quotes(word)
  <2> DEFINE l == (<<q>> \o Each(plain, escaped)) \o <<q>>
  <2>1. l \in Seq(Chars) /\ ReadsWord("Exec", l, plain)
    BY <1>1, QuotedRead
  <2>2. lined(word) = l /\ quote(word) = Each(l, doubled)
    BY <1>2 DEF lined, quote
  <2> HIDE DEF l, plain
  <2>3. Each(l, doubled) \in Seq(Chars) /\ Gives("string", <<>>, Positions, Each(l, doubled), l)
    BY <2>1, TextDoubled
  <2> QED
    BY <1>1, <2>1, <2>2, <2>3 DEF plain
<1>3. CASE ~needs_quotes(word)
  <2>1. plain \in Seq(Simple) /\ plain # <<>> /\ lined(word) = plain /\ quote(word) = plain
    BY <1>3, PlainIs DEF lined, quote
  <2> HIDE DEF plain
  <2>2. Simple \in SUBSET Chars
    BY DEF Simple
  <2>3. Gives("string", <<>>, Positions, plain, plain)
    <3>1. ASSUME NEW c \in Simple PROVE Gives("string", <<>>, Positions, <<c>>, <<c>>)
      <4>1. c \in Chars /\ c # "\\"
        BY DEF Simple, Special
      <4> QED
        BY <4>1, DoubledGives DEF doubled
    <3> QED
      BY <2>1, <2>2, <3>1, AllSteady, GivesSame
  <2>4. ASSUME NEW ws PROVE Settled("Exec", Read("Exec", Found(ws, <<>>, "between", 0), plain), Append(ws, plain))
    <3>1. ASSUME NEW c \in Simple PROVE Gives("Exec", ws, Bare, <<c>>, <<c>>)
      BY BareGives DEF Simple
    <3>2. Gives("Exec", ws, Bare, plain, plain)
      BY <2>1, <2>2, <3>1, AllSteady, GivesSame
    <3>3. <<>> \in Seq(Chars) /\ <<>> \o plain = plain
      BY <1>1
    <3>6. "between" \in Bare /\ After("between", plain) = "word"
      BY <2>1 DEF Bare, After, Within
    <3>4. Read("Exec", Found(ws, <<>>, "between", 0), plain) = Found(ws, plain, "word", 0)
      BY <3>2, <3>3, <3>6 DEF Gives
    <3>5. AllWords(Found(ws, plain, "word", 0)) = Append(ws, plain) /\ Found(ws, plain, "word", 0).at # "quotes"
      BY FoundIs, NextWordIs
    <3> QED
      BY <3>4, <3>5, ExecSettled
  <2> QED
    BY <1>1, <2>1, <2>3, <2>4 DEF ReadsWord, plain
<1> QED
  BY <1>2, <1>3

LEMMA SpacedGives ==
  ASSUME NEW r, NEW ws, NEW A, Steady(A), Gives(r, ws, A, <<Space>>, <<Space>>), NEW n \in Nat,
         NEW texts \in [1 .. n -> Seq(Chars)], NEW lines \in [1 .. n -> Seq(Chars)],
         \A i \in 1 .. n : Gives(r, ws, A, texts[i], lines[i])
  PROVE  Spaced(texts) \in Seq(Chars) /\ Spaced(lines) \in Seq(Chars) /\ Gives(r, ws, A, Spaced(texts), Spaced(lines))
<1> DEFINE u == <<Space>>
           f == [i \in 1 .. n |-> IF i = 1 THEN texts[i] ELSE u \o texts[i]]
           g == [i \in 1 .. n |-> IF i = 1 THEN lines[i] ELSE u \o lines[i]]
<1>1. u \in Seq(Chars) /\ Gives(r, ws, A, u, u)
  BY DEF Chars
<1>2. Spaced(texts) = FlattenSeq(f) /\ Spaced(lines) = FlattenSeq(g)
  BY DEF Spaced
<1>3. \A i \in 1 .. n : /\ f[i] = IF i = 1 THEN texts[i] ELSE u \o texts[i]
                        /\ g[i] = IF i = 1 THEN lines[i] ELSE u \o lines[i]
  OBVIOUS
<1>4. Family(f, n) /\ Family(g, n)
  BY DEF Family
<1> HIDE DEF u, f, g
<1>5. ASSUME NEW i \in 1 .. n PROVE f[i] \in Seq(Chars) /\ g[i] \in Seq(Chars) /\ Gives(r, ws, A, f[i], g[i])
  <2> DEFINE t == texts[i]
             l == lines[i]
  <2>1. /\ t \in Seq(Chars) /\ l \in Seq(Chars) /\ Gives(r, ws, A, t, l)
        /\ f[i] = (IF i = 1 THEN t ELSE u \o t) /\ g[i] = (IF i = 1 THEN l ELSE u \o l)
    BY <1>3
  <2> HIDE DEF t, l
  <2>2. u \o t \in Seq(Chars) /\ u \o l \in Seq(Chars)
    BY <1>1, <2>1
  <2>3. Gives(r, ws, A, u \o t, u \o l)
    BY <1>1, <2>1, GivesBoth
  <2> QED
    BY <2>1, <2>2, <2>3
<1>6. FlattenSeq(f) \in Seq(Chars) /\ FlattenSeq(g) \in Seq(Chars) /\ Gives(r, ws, A, FlattenSeq(f), FlattenSeq(g))
  BY <1>4, <1>5, GivesEach
<1> QED
  BY <1>2, <1>6

LEMMA ReadFirst ==
  ASSUME NEW r, NEW t, NEW x \in Seq(Chars), Gives(r, <<>>, Positions, t, x) PROVE Read(r, NoWords, t).word = x
<1>1. <<>> \in Seq(Chars) /\ "between" \in Positions /\ <<>> \o x = x
  BY DEF Positions
<1>2. Read(r, Found(<<>>, <<>>, "between", 0), t) = Found(<<>>, <<>> \o x, After("between", x), 0)
  BY <1>1 DEF Gives
<1>3. Found(<<>>, x, After("between", x), 0).word = x
  BY FoundIs
<1> QED
  BY <1>1, <1>2, <1>3 DEF NoWords

\* The desktop finds in an entry's Exec line the very program and arguments it was written for: the quotes, the
\* percent signs and both layers of backslashes are undone in the order xdg.rs:48-54 says, for every list of words.
\* The entry's value is one line, so a word with a line break in it is none an entry can hold.
THEOREM ExecReadBack ==
  ASSUME NEW words \in Seq(Seq(STRING \ {"\n"})) PROVE ReadExec(Exec(words)) = words
<1> DEFINE n == Len(words)
           quotes == [i \in 1 .. n |-> quote(words[i])]
           lines == [i \in 1 .. n |-> lined(words[i])]
           plain == [i \in 1 .. n |-> Each(words[i], percent)]
<1>1. n \in Nat /\ DOMAIN words = 1 .. n /\ words = [i \in 1 .. n |-> words[i]]
  OBVIOUS
<1>2. ASSUME NEW i \in 1 .. n PROVE words[i] \in Seq(Chars)
  <2>1. words[i] \in Seq(STRING \ {"\n"})
    BY <1>2
  <2>2. (STRING \ {"\n"}) \subseteq Chars
    BY DEF Chars
  <2> DEFINE w == words[i]
             S == STRING \ {"\n"}
  <2>3. w \in Seq(S) /\ S \subseteq Chars
    BY <2>1, <2>2
  <2> HIDE DEF w, S
  <2>4. w \in Seq(Chars)
    BY <2>3
  <2> QED
    BY <2>4 DEF w
<1>3. Exec(words) = Spaced(quotes)
  BY <1>1 DEF Exec
<1> HIDE DEF n
<1>4. \A i \in 1 .. n : quotes[i] = quote(words[i]) /\ lines[i] = lined(words[i]) /\ plain[i] = Each(words[i], percent)
  OBVIOUS
<1>5. ASSUME NEW i \in 1 .. n
      PROVE  /\ quotes[i] \in Seq(Chars) /\ lines[i] \in Seq(Chars) /\ plain[i] \in Seq(Chars)
             /\ Gives("string", <<>>, Positions, quotes[i], lines[i]) /\ ReadsWord("Exec", lines[i], plain[i])
             /\ Gives("codes", <<>>, Positions, plain[i], words[i])
  BY <1>2, <1>4, WordRead, TextPercent
<1>6. quotes \in [1 .. n -> Seq(Chars)] /\ lines \in [1 .. n -> Seq(Chars)] /\ plain \in [1 .. n -> Seq(Chars)]
  BY <1>4, <1>5
<1>7. DOMAIN plain = 1 .. n
  OBVIOUS
<1> HIDE DEF quotes, lines, plain
<1>8. Read("string", NoWords, Spaced(quotes)).word = Spaced(lines)
  <2>1. Gives("string", <<>>, Positions, <<Space>>, <<Space>>)
    <3>1. Space \in Chars /\ Space # "\\"
      BY MarksDiffer DEF Chars
    <3> QED
      BY <3>1, DoubledGives DEF doubled
  <2>2. Spaced(lines) \in Seq(Chars) /\ Gives("string", <<>>, Positions, Spaced(quotes), Spaced(lines))
    BY <1>1, <1>5, <1>6, <2>1, AllSteady, SpacedGives
  <2> QED
    BY <2>2, ReadFirst
<1>9. AllWords(Read("Exec", NoWords, Spaced(lines))) = plain
  <2>1. Settled("Exec", NoWords, <<>>)
    BY NoWordsNext, ExecSettled, FoundIs DEF NoWords
  <2>2. Settled("Exec", Read("Exec", NoWords, Spaced(lines)), plain)
    BY <1>1, <1>5, <1>6, <2>1, LineRead
  <2> QED
    BY <2>2 DEF Settled, Finished
<1>10. \A i \in 1 .. n : Read("codes", NoWords, plain[i]).word = words[i]
  BY <1>2, <1>5, ReadFirst
<1>11. ReadExec(Spaced(quotes)) = [i \in DOMAIN plain |-> Read("codes", NoWords, plain[i]).word]
  BY <1>8, <1>9 DEF ReadExec
<1> QED
  BY <1>1, <1>3, <1>7, <1>10, <1>11

---------------------------------------------------------------------------
(* Windows.                                                                *)

LEMMA CopiesAre ==
  ASSUME NEW c \in Chars, NEW k \in Nat
  PROVE  /\ Copies(c, k) \in Seq(Chars) /\ Len(Copies(c, k)) = k /\ \A i \in 1 .. k : Copies(c, k)[i] = c
         /\ Copies(c, 0) = <<>> /\ Copies(c, k + 1) = Append(Copies(c, k), c)
<1>1. \A n \in Nat : Copies(c, n) \in Seq(Chars) /\ Len(Copies(c, n)) = n /\ \A i \in 1 .. n : Copies(c, n)[i] = c
  <2> TAKE n \in Nat
  <2>1. Copies(c, n) \in [1 .. n -> Chars] /\ \A i \in 1 .. n : Copies(c, n)[i] = c
    BY DEF Copies
  <2> QED
    BY <2>1, FunctionSeq
<1>2. Copies(c, 0) = <<>>
  BY <1>1
<1> DEFINE u == Copies(c, k)
           v == Copies(c, k + 1)
           x == Append(u, c)
<1>3. u \in Seq(Chars) /\ Len(u) = k /\ \A i \in 1 .. k : u[i] = c
  BY <1>1
<1>4. v \in Seq(Chars) /\ Len(v) = k + 1 /\ \A i \in 1 .. k + 1 : v[i] = c
  BY <1>1
<1> HIDE DEF u, v
<1>5. x \in Seq(Chars) /\ Len(x) = k + 1 /\ \A i \in 1 .. k + 1 : x[i] = c
  BY <1>3
<1> HIDE DEF x
<1>6. v = x
  BY <1>4, <1>5, SeqEqual
<1> QED
  BY <1>2, <1>3, <1>6 DEF u, v, x

\* What is held back at the end of a word is put back.
Slash == "\\"
WithSlashes(w, h) == w \o Copies(Slash, h)

LEMMA SlashIs == Slash \in Chars /\ Slash # DoubleQuote /\ Slash # Space /\ Slash # "\t"
BY MarksDiffer DEF Slash, Chars

LEMMA WithSlashesIs ==
  ASSUME NEW w \in Seq(Chars), NEW h \in Nat
  PROVE  WithSlashes(w, h) \in Seq(Chars) /\ WithSlashes(w, 0) = w /\ WithSlashes(w, h + 1) = Append(WithSlashes(w, h), Slash)
<1> DEFINE u == Copies(Slash, h)
           v == Copies(Slash, h + 1)
<1>1. u \in Seq(Chars) /\ Copies(Slash, 0) = <<>> /\ v = Append(u, Slash) /\ Slash \in Chars
  BY SlashIs, CopiesAre
<1> HIDE DEF u, v
<1>2. w \o u \in Seq(Chars) /\ w \o <<>> = w /\ w \o Append(u, Slash) = Append(w \o u, Slash)
  BY <1>1
<1> QED
  BY <1>1, <1>2 DEF WithSlashes, u, v

LEMMA OneSlashMore == ASSUME NEW w \in Seq(Chars), NEW h \in Nat PROVE WithSlashes(w, h + 1) = Append(WithSlashes(w, h), Slash)
BY WithSlashesIs

LEMMA NoSlashes == ASSUME NEW w \in Seq(Chars) PROVE WithSlashes(w, 0) = w
<1>1. 0 \in Nat
  OBVIOUS
<1> QED
  BY <1>1, WithSlashesIs

LEMMA PutBackIs ==
  ASSUME NEW ws, NEW w, NEW where, NEW h, NEW n PROVE PutBack(Found(ws, w, where, h), n) = Found(ws, WithSlashes(w, n), where, 0)
BY FoundIs DEF PutBack, WithSlashes, Slash

\* What Windows makes of a character when backslashes are held back.
LEMMA WindowsReads ==
  ASSUME NEW ws, NEW w, NEW where, NEW h, NEW c
  PROVE  /\ Reads("Windows", Found(ws, w, where, h), Slash) = Found(ws, w, Within(where), h + 1)
         /\ c # Slash /\ c # DoubleQuote /\ (where = "quotes" \/ (c # Space /\ c # "\t"))
              => Reads("Windows", Found(ws, w, where, h), c) = Found(ws, Append(WithSlashes(w, h), c), Within(where), 0)
         /\ where # "quotes" => Reads("Windows", Found(ws, w, where, h), Space) = NextWord(Found(ws, WithSlashes(w, h), where, 0))
         /\ h % 2 = 1
              => Reads("Windows", Found(ws, w, where, h), DoubleQuote) = Found(ws, Append(WithSlashes(w, h \div 2), DoubleQuote), Within(where), 0)
         /\ h % 2 = 0
              => Reads("Windows", Found(ws, w, where, h), DoubleQuote)
                   = Found(ws, WithSlashes(w, h \div 2), IF where = "quotes" THEN "word" ELSE "quotes", 0)
<1> DEFINE s == Found(ws, w, where, h)
<1>1. s.at = where /\ s.held = h
  BY FoundIs
<1>2. HoldsBack(s, h + 1) = Found(ws, w, Within(where), h + 1)
  BY HoldsBackIs
<1>3. \A n : PutBack(s, n) = Found(ws, WithSlashes(w, n), where, 0)
  BY PutBackIs
<1>4. \A n, d : With(Found(ws, WithSlashes(w, n), where, 0), d) = Found(ws, Append(WithSlashes(w, n), d), Within(where), 0)
  BY WithIs
<1>5. \A n : Turned(Found(ws, WithSlashes(w, n), where, 0)) = Found(ws, WithSlashes(w, n), IF where = "quotes" THEN "word" ELSE "quotes", 0)
  <2>1. \A x : Turned(x) = Found(x.words, x.word, IF x.at = "quotes" THEN "word" ELSE "quotes", x.held)
    BY DEF Turned
  <2> QED
    BY <2>1, FoundIs
<1>6. \A d : Reads("Windows", s, d) = ReadsCommandLine(s, d)
  BY ReadersAre
<1> HIDE DEF s
<1>7. ReadsCommandLine(s, Slash) = HoldsBack(s, s.held + 1)
  <2>1. Slash # DoubleQuote /\ Slash \notin {Space, "\t"} /\ Slash = "\\"
    BY SlashIs DEF Slash
  <2> QED
    BY <2>1 DEF ReadsCommandLine
<1>8. ReadsCommandLine(s, DoubleQuote)
        = IF s.held % 2 = 1 THEN With(PutBack(s, s.held \div 2), DoubleQuote) ELSE Turned(PutBack(s, s.held \div 2))
  <2>1. DoubleQuote # "\\" /\ DoubleQuote \notin {Space, "\t"}
    BY MarksDiffer
  <2> QED
    BY <2>1 DEF ReadsCommandLine
<1>9. where # "quotes" => ReadsCommandLine(s, Space) = NextWord(PutBack(s, s.held))
  <2>1. Space # "\\" /\ Space # DoubleQuote /\ Space \in {Space, "\t"}
    BY MarksDiffer
  <2> QED
    BY <1>1, <2>1 DEF ReadsCommandLine
<1>10. ASSUME c # Slash, c # DoubleQuote, where = "quotes" \/ (c # Space /\ c # "\t")
       PROVE  ReadsCommandLine(s, c) = With(PutBack(s, s.held), c)
  <2>1. c # "\\" /\ c # DoubleQuote
    BY <1>10 DEF Slash
  <2>2. ~(c \in {Space, "\t"} /\ s.at # "quotes")
    BY <1>1, <1>10
  <2> QED
    BY <2>1, <2>2 DEF ReadsCommandLine
<1>11. Reads("Windows", s, Slash) = Found(ws, w, Within(where), h + 1)
  BY <1>1, <1>2, <1>6, <1>7
<1>12. where # "quotes" => Reads("Windows", s, Space) = NextWord(Found(ws, WithSlashes(w, h), where, 0))
  BY <1>1, <1>3, <1>6, <1>9
<1>13. h % 2 = 1 => Reads("Windows", s, DoubleQuote) = Found(ws, Append(WithSlashes(w, h \div 2), DoubleQuote), Within(where), 0)
  BY <1>1, <1>3, <1>4, <1>6, <1>8
<1>14. h % 2 = 0 => Reads("Windows", s, DoubleQuote) = Found(ws, WithSlashes(w, h \div 2), IF where = "quotes" THEN "word" ELSE "quotes", 0)
  BY <1>1, <1>3, <1>5, <1>6, <1>8
<1>15. c # Slash /\ c # DoubleQuote /\ (where = "quotes" \/ (c # Space /\ c # "\t"))
         => Reads("Windows", s, c) = Found(ws, Append(WithSlashes(w, h), c), Within(where), 0)
  BY <1>1, <1>3, <1>4, <1>6, <1>10
<1> QED
  BY <1>11, <1>12, <1>13, <1>14, <1>15 DEF s

LEMMA WindowsSettled ==
  ASSUME NEW ws, NEW w \in Seq(Chars), NEW h \in Nat
  PROVE  Settled("Windows", Found(ws, w, "word", h), Append(ws, WithSlashes(w, h)))
<1> DEFINE s == Found(ws, w, "word", h)
           b == Found(ws, WithSlashes(w, h), "word", 0)
           all == Append(ws, WithSlashes(w, h))
<1>1. AllWords(b) = all /\ NextWord(b) = Found(all, <<>>, "between", 0)
  BY NextWordIs
<1>2. Reads("Windows", s, Space) = NextWord(b)
  BY WindowsReads
<1>3. Finished("Windows", s) = b
  BY PutBackIs, FoundIs DEF Finished
<1> QED
  BY <1>1, <1>2, <1>3 DEF Settled

\* A text without quotes: what is found of it and what is held back are the text.
Scans(ws, where, t) ==
    \E w \in Seq(Chars), h \in Nat : Read("Windows", Found(ws, <<>>, where, 0), t) = Found(ws, w, After(where, t), h) /\ WithSlashes(w, h) = t

LEMMA TextScanned ==
  ASSUME NEW ws, NEW where \in Positions, NEW S \in SUBSET Chars, DoubleQuote \notin S,
         where = "quotes" \/ (Space \notin S /\ "\t" \notin S), NEW text \in Seq(S)
  PROVE  Scans(ws, where, text)
<1> DEFINE T == {t \in Seq(S) : Scans(ws, where, t)}
           start == Found(ws, <<>>, where, 0)
<1>1. <<>> \in T
  <2>1. <<>> \in Seq(S) /\ <<>> \in Seq(Chars) /\ 0 \in Nat
    OBVIOUS
  <2>2. Read("Windows", start, <<>>) = start /\ WithSlashes(<<>>, 0) = <<>> /\ After(where, <<>>) = where
    BY <2>1, ReadNone, WithSlashesIs DEF After
  <2>3. Scans(ws, where, <<>>)
    BY <2>1, <2>2 DEF Scans
  <2> QED
    BY <2>1, <2>3
<1>2. ASSUME NEW t \in T, NEW c \in S PROVE Append(t, c) \in T
  <2> DEFINE u == Append(t, c)
             found == Read("Windows", start, t)
  <2>1. t \in Seq(S) /\ t \in Seq(Chars) /\ c \in Chars /\ Scans(ws, where, t) /\ u \in Seq(S) /\ u # <<>>
    OBVIOUS
  <2>2. PICK w \in Seq(Chars), h \in Nat : found = Found(ws, w, After(where, t), h) /\ WithSlashes(w, h) = t
    BY <2>1 DEF Scans
  <2>3. Read("Windows", start, u) = Reads("Windows", found, c)
    BY <2>1, ReadMore
  <2>4. Within(After(where, t)) = After(where, u) /\ (where = "quotes" <=> After(where, t) = "quotes")
    BY <2>1 DEF After, Within, Positions
  <2>5. CASE c = Slash
    <3>1. Reads("Windows", found, c) = Found(ws, w, After(where, u), h + 1)
      BY <2>2, <2>4, <2>5, WindowsReads
    <3>2. WithSlashes(w, h + 1) = u /\ h + 1 \in Nat
      <4>1. WithSlashes(w, h + 1) = Append(WithSlashes(w, h), Slash)
        BY OneSlashMore
      <4> QED
        BY <2>2, <2>5, <4>1
    <3>3. Scans(ws, where, u)
      <4> HIDE DEF u, found, T
      <4> QED
        BY <2>3, <3>1, <3>2 DEF Scans
    <3> QED
      BY <2>1, <3>3
  <2>6. CASE c # Slash
    <3>1. c # DoubleQuote /\ (After(where, t) = "quotes" \/ (c # Space /\ c # "\t"))
      BY <2>4
    <3>2. Reads("Windows", found, c) = Found(ws, Append(WithSlashes(w, h), c), After(where, u), 0)
      BY <2>2, <2>4, <2>6, <3>1, WindowsReads
    <3>3. u \in Seq(Chars) /\ WithSlashes(u, 0) = u /\ Append(WithSlashes(w, h), c) = u /\ 0 \in Nat
      <4>1. u \in Seq(Chars)
        BY <2>1
      <4> QED
        BY <2>2, <4>1, WithSlashesIs
    <3>4. Scans(ws, where, u)
      <4> HIDE DEF u, found, T
      <4> QED
        BY <2>3, <3>2, <3>3 DEF Scans
    <3> QED
      BY <2>1, <3>4
  <2> QED
    BY <2>5, <2>6
<1>3. T = Seq(S)
  <2>1. T \in SUBSET Seq(S)
    OBVIOUS
  <2> HIDE DEF T
  <2> QED
    BY <1>1, <1>2, <2>1, SeqSetInduction
<1> QED
  BY <1>3

\* An argument that is written as it is.
LEMMA BareArgument ==
  ASSUME NEW arg \in Seq(Chars), arg # <<>>, ~has_space(arg) PROVE ReadsWord("Windows", arg, arg)
<1> DEFINE S == {c \in Chars : c # DoubleQuote /\ c # Space /\ c # "\t"}
<1>1. arg \in Seq(S)
  <2> DEFINE n == Len(arg)
  <2>1. n \in Nat /\ DOMAIN arg = 1 .. n /\ \A i \in 1 .. n : arg[i] \in Chars
    OBVIOUS
  <2>2. ASSUME NEW i \in 1 .. n PROVE arg[i] \in S
    <3>1. arg[i] \notin {Space, "\t", "\n", DoubleQuote, "\f"}
      BY <2>1 DEF has_space, ToSet
    <3> QED
      BY <2>1, <3>1
  <2> HIDE DEF S
  <2> QED
    BY <2>1, <2>2
<1>2. S \in SUBSET Chars /\ DoubleQuote \notin S /\ Space \notin S /\ "\t" \notin S
  OBVIOUS
<1> HIDE DEF S
<1>3. ASSUME NEW ws PROVE Settled("Windows", Read("Windows", Found(ws, <<>>, "between", 0), arg), Append(ws, arg))
  <2>1. "between" \in Positions /\ After("between", arg) = "word"
    BY DEF Positions, After, Within
  <2>2. Scans(ws, "between", arg)
    BY <1>1, <1>2, <2>1, TextScanned
  <2>3. PICK w \in Seq(Chars), h \in Nat :
           Read("Windows", Found(ws, <<>>, "between", 0), arg) = Found(ws, w, "word", h) /\ WithSlashes(w, h) = arg
    BY <2>1, <2>2 DEF Scans
  <2> QED
    BY <2>3, WindowsSettled
<1> QED
  BY <1>3 DEF ReadsWord

\* Quotes around what is read, with nothing held back, give it as a word.
LEMMA QuotesOpen == ASSUME NEW ws PROVE Read("Windows", Found(ws, <<>>, "between", 0), <<DoubleQuote>>) = Found(ws, <<>>, "quotes", 0)
<1>1. DoubleQuote \in Chars /\ <<>> \in Seq(Chars)
  BY DEF Chars
<1>2. Read("Windows", Found(ws, <<>>, "between", 0), <<DoubleQuote>>) = Reads("Windows", Found(ws, <<>>, "between", 0), DoubleQuote)
  BY <1>1, ReadOne
<1>3. 0 % 2 = 0 /\ 0 \div 2 = 0
  OBVIOUS
<1>4. Reads("Windows", Found(ws, <<>>, "between", 0), DoubleQuote) = Found(ws, WithSlashes(<<>>, 0), "quotes", 0)
  BY <1>3, WindowsReads
<1> QED
  BY <1>1, <1>2, <1>4, WithSlashesIs

\* The program is only put in quotes (windows.rs:12): a path of Windows has no quote in it, and that of a file does
\* not end in a backslash.
IsProgram(word) == DoubleQuote \notin ToSet(word) /\ (word # <<>> => Last(word) # "\\")

LEMMA ProgramRead ==
  ASSUME NEW word \in Seq(Chars), IsProgram(word)
  PROVE  /\ (<<DoubleQuote>> \o word) \o <<DoubleQuote>> \in Seq(Chars)
         /\ ReadsWord("Windows", (<<DoubleQuote>> \o word) \o <<DoubleQuote>>, word)
<1> DEFINE t == <<DoubleQuote>>
           S == {c \in Chars : c # DoubleQuote}
<1>1. t \in Seq(Chars)
  BY DEF Chars
<1>2. word \in Seq(S)
  <2>1. Len(word) \in Nat /\ DOMAIN word = 1 .. Len(word) /\ \A i \in 1 .. Len(word) : word[i] \in S
    BY DEF IsProgram, ToSet
  <2> HIDE DEF S
  <2> QED
    BY <2>1
<1>3. S \in SUBSET Chars /\ DoubleQuote \notin S
  OBVIOUS
<1> HIDE DEF S
<1>4. ASSUME NEW ws PROVE Settled("Windows", Read("Windows", Found(ws, <<>>, "between", 0), (t \o word) \o t), Append(ws, word))
  <2> DEFINE start == Found(ws, <<>>, "between", 0)
             in == Found(ws, <<>>, "quotes", 0)
  <2>1. Read("Windows", start, t) = in
    BY QuotesOpen
  <2>2. "quotes" \in Positions /\ After("quotes", word) = "quotes"
    BY DEF Positions, After, Within
  <2>3. Scans(ws, "quotes", word)
    BY <1>2, <1>3, <2>2, TextScanned
  <2>4. PICK w \in Seq(Chars), h \in Nat : Read("Windows", in, word) = Found(ws, w, "quotes", h) /\ WithSlashes(w, h) = word
    BY <2>2, <2>3 DEF Scans
  <2>5. h = 0
    <3> SUFFICES ASSUME h # 0 PROVE FALSE
      OBVIOUS
    <3> DEFINE k == h - 1
               x == WithSlashes(w, k)
    <3>1. k \in Nat /\ k + 1 = h
      OBVIOUS
    <3> HIDE DEF k
    <3>4. WithSlashes(w, k) \in Seq(Chars) /\ WithSlashes(w, k + 1) = Append(WithSlashes(w, k), Slash)
      BY <3>1, WithSlashesIs
    <3>5. WithSlashes(w, k + 1) = word
      BY <2>4, <3>1
    <3>2. x \in Seq(Chars) /\ word = Append(x, Slash)
      BY <3>4, <3>5
    <3> HIDE DEF x
    <3>3. Append(x, Slash) # <<>> /\ Append(x, Slash)[Len(Append(x, Slash))] = Slash
      BY <3>2
    <3> QED
      BY <3>2, <3>3, SMTT(30) DEF IsProgram, Last, Slash
  <2>6. Read("Windows", in, word) = Found(ws, word, "quotes", 0)
    BY <2>4, <2>5, WithSlashesIs
  <2>7. Read("Windows", Found(ws, word, "quotes", 0), t) = Found(ws, word, "word", 0)
    <3>1. DoubleQuote \in Chars /\ 0 % 2 = 0 /\ 0 \div 2 = 0
      BY DEF Chars
    <3>2. Reads("Windows", Found(ws, word, "quotes", 0), DoubleQuote) = Found(ws, WithSlashes(word, 0), "word", 0)
      BY <3>1, WindowsReads
    <3>3. WithSlashes(word, 0) = word
      BY WithSlashesIs
    <3> QED
      BY <3>1, <3>2, <3>3, ReadOne
  <2> HIDE DEF t, in, start
  <2> DEFINE u == t \o word
  <2>8. u \in Seq(Chars)
    BY <1>1
  <2>9. Read("Windows", start, u) = Read("Windows", Read("Windows", start, t), word)
    BY <1>1, ReadConcat
  <2> HIDE DEF u
  <2>10. Read("Windows", start, u \o t) = Read("Windows", Read("Windows", start, u), t)
    BY <1>1, <2>8, ReadConcat
  <2>11. Read("Windows", start, u \o t) = Found(ws, word, "word", 0)
    BY <2>1, <2>6, <2>7, <2>9, <2>10
  <2>12. Settled("Windows", Found(ws, word, "word", 0), Append(ws, WithSlashes(word, 0))) /\ WithSlashes(word, 0) = word
    BY WindowsSettled, WithSlashesIs
  <2> QED
    BY <2>11, <2>12 DEF u, start
<1>5. (t \o word) \o t \in Seq(Chars)
  <2> HIDE DEF t
  <2>1. t \o word \in Seq(Chars)
    BY <1>1
  <2> QED
    BY <1>1, <2>1
<1> QED
  BY <1>4, <1>5 DEF ReadsWord

\* What was read of an argument within quotes: the backslashes before the next character are written later.
Written(s) == s.run \in Nat /\ s.out \in Seq(Chars)
InQuotes(ws, s, x) ==
    \E w \in Seq(Chars) : Read("Windows", Found(ws, <<>>, "between", 0), s.out) = Found(ws, w, "quotes", 0) /\ WithSlashes(w, s.run) = x

LEMMA CopiesRead ==
  ASSUME NEW ws, NEW w, NEW k \in Nat
  PROVE  Read("Windows", Found(ws, w, "quotes", 0), Copies(Slash, k)) = Found(ws, w, "quotes", k)
<1> DEFINE start == Found(ws, w, "quotes", 0)
           K == {n \in Nat : Read("Windows", start, Copies(Slash, n)) = Found(ws, w, "quotes", n)}
<1>1. 0 \in K
  BY SlashIs, CopiesAre, ReadNone
<1>2. ASSUME NEW n \in K PROVE n + 1 \in K
  <2>1. n \in Nat /\ Read("Windows", start, Copies(Slash, n)) = Found(ws, w, "quotes", n)
    OBVIOUS
  <2>2. /\ Copies(Slash, n) \in Seq(Chars) /\ Copies(Slash, n + 1) = Append(Copies(Slash, n), Slash)
        /\ Slash \in Chars
    BY <2>1, SlashIs, CopiesAre
  <2>3. Read("Windows", start, Append(Copies(Slash, n), Slash)) = Reads("Windows", Found(ws, w, "quotes", n), Slash)
    BY <2>1, <2>2, ReadMore
  <2>4. Reads("Windows", Found(ws, w, "quotes", n), Slash) = Found(ws, w, Within("quotes"), n + 1)
    BY WindowsReads
  <2>5. Within("quotes") = "quotes"
    BY DEF Within
  <2>6. Read("Windows", start, Copies(Slash, n + 1)) = Found(ws, w, "quotes", n + 1)
    BY <2>2, <2>3, <2>4, <2>5
  <2> QED
    BY <2>1, <2>6
<1>3. K = Nat
  <2>1. K \in SUBSET Nat
    OBVIOUS
  <2> HIDE DEF K
  <2> QED
    BY <1>1, <1>2, <2>1, NatSetInduction
<1> QED
  BY <1>3

\* After a text, so many backslashes and one character more.
LEMMA ReadAfter ==
  ASSUME NEW ws, NEW out \in Seq(Chars), NEW w, NEW k \in Nat, NEW c \in Chars,
         Read("Windows", Found(ws, <<>>, "between", 0), out) = Found(ws, w, "quotes", 0)
  PROVE  /\ out \o Copies(Slash, k) \o <<c>> \in Seq(Chars)
         /\ Read("Windows", Found(ws, <<>>, "between", 0), out \o Copies(Slash, k) \o <<c>>)
              = Reads("Windows", Found(ws, w, "quotes", k), c)
<1> DEFINE start == Found(ws, <<>>, "between", 0)
           m == Copies(Slash, k)
           u == out \o m
           all == u \o <<c>>
<1>1. m \in Seq(Chars)
  BY SlashIs, CopiesAre
<1>2. Read("Windows", Found(ws, w, "quotes", 0), m) = Found(ws, w, "quotes", k)
  BY CopiesRead
<1> HIDE DEF start, m
<1>3. Read("Windows", start, u) = Read("Windows", Read("Windows", start, out), m)
  BY <1>1, ReadConcat
<1>4. u \in Seq(Chars)
  BY <1>1
<1> HIDE DEF u
<1>5. all = Append(u, c) /\ all \in Seq(Chars)
  BY <1>4
<1>6. Read("Windows", start, Append(u, c)) = Reads("Windows", Read("Windows", start, u), c)
  BY <1>4, ReadMore
<1> QED
  BY <1>2, <1>3, <1>5, <1>6 DEF all, u, m, start

LEMMA QuotingIs ==
  ASSUME NEW s, NEW c
  PROVE  /\ c = Slash => Quoting(s, c).run = s.run + 1 /\ Quoting(s, c).out = s.out
         /\ c = DoubleQuote => /\ Quoting(s, c).run = 0
                               /\ Quoting(s, c).out = s.out \o Copies(Slash, 2 * s.run + 1) \o <<c>>
         /\ c # Slash /\ c # DoubleQuote => Quoting(s, c).run = 0 /\ Quoting(s, c).out = s.out \o Copies(Slash, s.run) \o <<c>>
<1> DEFINE n == s.run + 1
           t == s.out \o Copies(Slash, 2 * s.run + 1) \o <<c>>
           u == s.out \o Copies(Slash, s.run) \o <<c>>
<1>1. /\ c = Slash => Quoting(s, c) = [run |-> n, out |-> s.out]
      /\ c = DoubleQuote => Quoting(s, c) = [run |-> 0, out |-> t]
      /\ c # Slash /\ c # DoubleQuote => Quoting(s, c) = [run |-> 0, out |-> u]
  BY SlashIs DEF Quoting, Slash
<1> HIDE DEF n, t, u
<1>2. /\ c = Slash => Quoting(s, c).run = n /\ Quoting(s, c).out = s.out
      /\ c = DoubleQuote => Quoting(s, c).run = 0 /\ Quoting(s, c).out = t
      /\ c # Slash /\ c # DoubleQuote => Quoting(s, c).run = 0 /\ Quoting(s, c).out = u
  BY <1>1
<1> QED
  BY <1>2 DEF n, t, u

LEMMA InQuotesIs ==
  ASSUME NEW ws, NEW s, NEW x, NEW w \in Seq(Chars), WithSlashes(w, s.run) = x,
         Read("Windows", Found(ws, <<>>, "between", 0), s.out) = Found(ws, w, "quotes", 0)
  PROVE  InQuotes(ws, s, x)
BY DEF InQuotes

LEMMA QuotingStep ==
  ASSUME NEW ws, NEW s, Written(s), NEW x \in Seq(Chars), InQuotes(ws, s, x), NEW c \in Chars
  PROVE  Written(Quoting(s, c)) /\ InQuotes(ws, Quoting(s, c), Append(x, c))
<1> DEFINE start == Found(ws, <<>>, "between", 0)
           n == s.run
           out == s.out
           q == Quoting(s, c)
           v == Append(x, c)
<1>1. n \in Nat /\ out \in Seq(Chars) /\ v \in Seq(Chars) /\ 0 \in Nat
  BY DEF Written
<1>2. PICK w \in Seq(Chars) : Read("Windows", start, out) = Found(ws, w, "quotes", 0) /\ WithSlashes(w, n) = x
  BY DEF InQuotes
<1>3. Within("quotes") = "quotes" /\ WithSlashes(v, 0) = v
  BY <1>1, NoSlashes DEF Within
<1>4. CASE c = Slash
  <2>1. q.run = n + 1 /\ q.out = out
    BY <1>4, QuotingIs
  <2>2. WithSlashes(w, n + 1) = Append(WithSlashes(w, n), Slash)
    BY <1>1, OneSlashMore
  <2>3. WithSlashes(w, n + 1) = v
    BY <1>2, <1>4, <2>2
  <2> HIDE DEF q, n, out, v
  <2>4. Written(q)
    BY <1>1, <2>1 DEF Written
  <2>5. InQuotes(ws, q, v)
    BY <1>2, <2>1, <2>3, InQuotesIs
  <2> QED
    BY <2>4, <2>5 DEF q, v
<1>5. ASSUME NEW k \in Nat, q.run = 0, q.out = out \o Copies(Slash, k) \o <<c>>,
             Reads("Windows", Found(ws, w, "quotes", k), c) = Found(ws, Append(WithSlashes(w, n), c), "quotes", 0)
      PROVE  Written(q) /\ InQuotes(ws, q, v)
  <2> DEFINE t == out \o Copies(Slash, k) \o <<c>>
  <2> HIDE DEF out, n, q
  <2>1. t \in Seq(Chars) /\ Read("Windows", start, t) = Reads("Windows", Found(ws, w, "quotes", k), c)
    BY <1>1, <1>2, ReadAfter
  <2>2. Append(WithSlashes(w, n), c) = v
    BY <1>2
  <2>3. q.out = t
    BY <1>5
  <2> HIDE DEF t, v
  <2>4. Read("Windows", start, t) = Found(ws, v, "quotes", 0)
    BY <1>5, <2>1, <2>2
  <2>5. WithSlashes(v, q.run) = v
    BY <1>3, <1>5
  <2>6. Written(q)
    BY <1>1, <1>5, <2>1, <2>3 DEF Written
  <2>7. InQuotes(ws, q, v)
    BY <1>1, <2>3, <2>4, <2>5, InQuotesIs
  <2> QED
    BY <2>6, <2>7
<1>6. CASE c = DoubleQuote
  <2> DEFINE k == 2 * n + 1
  <2>1. q.run = 0 /\ q.out = out \o Copies(Slash, k) \o <<c>>
    BY <1>6, QuotingIs
  <2> HIDE DEF n, q, out
  <2>2. k \in Nat /\ k % 2 = 1 /\ k \div 2 = n
    BY <1>1
  <2> HIDE DEF k
  <2>3. Reads("Windows", Found(ws, w, "quotes", k), c) = Found(ws, Append(WithSlashes(w, n), c), "quotes", 0)
    <3>1. Reads("Windows", Found(ws, w, "quotes", k), DoubleQuote)
            = Found(ws, Append(WithSlashes(w, k \div 2), DoubleQuote), Within("quotes"), 0)
      <4>1. k % 2 = 1
        BY <2>2
      <4> QED
        BY <4>1, WindowsReads
    <3>2. k \div 2 = n
      BY <2>2
    <3> QED
      BY <1>3, <1>6, <3>1, <3>2
  <2> QED
    BY <1>5, <2>1, <2>2, <2>3 DEF q
<1>7. CASE c # Slash /\ c # DoubleQuote
  <2>1. q.run = 0 /\ q.out = out \o Copies(Slash, n) \o <<c>>
    BY <1>7, QuotingIs
  <2> HIDE DEF n, q, out
  <2>2. Reads("Windows", Found(ws, w, "quotes", n), c) = Found(ws, Append(WithSlashes(w, n), c), "quotes", 0)
    BY <1>3, <1>7, WindowsReads
  <2> QED
    BY <1>1, <1>5, <2>1, <2>2 DEF q
<1> QED
  BY <1>4, <1>6, <1>7

\* The loop over an argument that is quoted.
LEMMA LoopExists ==
  ASSUME NEW arg \in Seq(Chars)
  PROVE  LET s == CHOOSE f : f = [i \in 0 .. Len(arg) |-> IF i = 0 THEN [run |-> 0, out |-> <<DoubleQuote>>]
                                                                   ELSE Quoting(f[i - 1], arg[i])]
         IN  s[0] = [run |-> 0, out |-> <<DoubleQuote>>] /\ \A i \in 1 .. Len(arg) : s[i] = Quoting(s[i - 1], arg[i])
<1> DEFINE first == [run |-> 0, out |-> <<DoubleQuote>>]
           For(k, f) == f = [i \in 0 .. k |-> IF i = 0 THEN first ELSE Quoting(f[i - 1], arg[i])]
           K == {k \in Nat : \E f : For(k, f)}
           s == CHOOSE f : For(Len(arg), f)
<1> HIDE DEF first
<1>1. 0 \in K
  <2> DEFINE f == [i \in 0 .. 0 |-> first]
  <2>1. For(0, f)
    OBVIOUS
  <2> QED
    BY <2>1
<1>2. ASSUME NEW k \in K PROVE k + 1 \in K
  <2>1. PICK f : For(k, f)
    OBVIOUS
  <2> DEFINE e == Quoting(f[k], arg[k + 1])
             g == [i \in 0 .. k + 1 |-> IF i = k + 1 THEN e ELSE f[i]]
  <2>2. k \in Nat /\ f[0] = first /\ \A i \in 0 .. k : i # 0 => f[i] = Quoting(f[i - 1], arg[i])
    BY <2>1
  <2> HIDE DEF e
  <2>3. g[0] = first /\ g[k + 1] = e /\ g[k] = f[k] /\ \A i \in 0 .. k : g[i] = f[i]
    BY <2>2
  <2>4. ASSUME NEW i \in 0 .. k + 1, i # 0 PROVE g[i] = Quoting(g[i - 1], arg[i])
    <3>1. CASE i = k + 1
      <4>1. i - 1 = k
        BY <2>2, <3>1
      <4> HIDE DEF g
      <4> QED
        BY <2>3, <3>1, <4>1 DEF e
    <3>2. CASE i # k + 1
      <4>1. i \in 0 .. k /\ i - 1 \in 0 .. k
        BY <2>2, <2>4, <3>2
      <4> HIDE DEF g
      <4> QED
        BY <2>2, <2>3, <2>4, <4>1
    <3> QED
      BY <3>1, <3>2
  <2>5. g = [i \in 0 .. k + 1 |-> g[i]]
    OBVIOUS
  <2> HIDE DEF g
  <2>6. For(k + 1, g)
    BY <2>3, <2>4, <2>5
  <2> HIDE DEF For
  <2>7. k + 1 \in Nat /\ \E h : For(k + 1, h)
    BY <2>2, <2>6
  <2> QED
    BY <2>7
<1>3. K = Nat
  <2>1. K \in SUBSET Nat
    OBVIOUS
  <2> HIDE DEF K
  <2> QED
    BY <1>1, <1>2, <2>1, NatSetInduction
<1>4. Len(arg) \in K /\ Len(arg) \in Nat
  <2> HIDE DEF K
  <2> QED
    BY <1>3
<1>5. For(Len(arg), s)
  BY <1>4
<1>6. s[0] = first /\ \A i \in 1 .. Len(arg) : s[i] = Quoting(s[i - 1], arg[i])
  <2> HIDE DEF s
  <2> QED
    BY <1>4, <1>5
<1> QED
  BY <1>6 DEF first

\* An argument that is quoted.
LEMMA QuotedArgument ==
  ASSUME NEW arg \in Seq(Chars), arg = <<>> \/ has_space(arg)
  PROVE  quote_argument(arg) \in Seq(Chars) /\ ReadsWord("Windows", quote_argument(arg), arg)
<1> DEFINE s == CHOOSE f : f = [i \in 0 .. Len(arg) |-> IF i = 0 THEN [run |-> 0, out |-> <<DoubleQuote>>]
                                                               ELSE Quoting(f[i - 1], arg[i])]
           n == Len(arg)
           final == s[n]
           t == final.out \o Copies(Slash, 2 * final.run) \o <<DoubleQuote>>
<1>1. s[0] = [run |-> 0, out |-> <<DoubleQuote>>] /\ \A i \in 1 .. n : s[i] = Quoting(s[i - 1], arg[i])
  BY LoopExists
<1>2. quote_argument(arg) = t
  BY DEF quote_argument, Slash
<1>3. n \in Nat /\ DoubleQuote \in Chars /\ \A i \in 1 .. n : arg[i] \in Chars
  BY DEF Chars
<1> HIDE DEF s, n
<1>4. ASSUME NEW ws PROVE t \in Seq(Chars) /\ Settled("Windows", Read("Windows", Found(ws, <<>>, "between", 0), t), Append(ws, arg))
  <2> DEFINE x(i) == SubSeq(arg, 1, i)
             Good(i) == Written(s[i]) /\ InQuotes(ws, s[i], x(i))
             K == {i \in Nat : i =< n => Good(i)}
  <2>1. 0 \in K
    <3> DEFINE u == <<DoubleQuote>>
    <3>1. s[0].run = 0 /\ s[0].out = u
      BY <1>1
    <3>2. u \in Seq(Chars) /\ 0 \in Nat /\ <<>> \in Seq(Chars) /\ x(0) = <<>>
      BY <1>3
    <3>3. Read("Windows", Found(ws, <<>>, "between", 0), u) = Found(ws, <<>>, "quotes", 0)
      BY QuotesOpen
    <3> HIDE DEF u, x
    <3>4. WithSlashes(<<>>, 0) = <<>>
      BY <3>2, NoSlashes
    <3>5. Good(0)
      BY <3>1, <3>2, <3>3, <3>4, InQuotesIs DEF Written
    <3> QED
      BY <3>5
  <2>2. ASSUME NEW i \in K PROVE i + 1 \in K
    <3> SUFFICES ASSUME i + 1 =< n PROVE Good(i + 1)
      <4> HIDE DEF Good
      <4> QED
        OBVIOUS
    <3>1. i \in Nat /\ i + 1 \in 1 .. n /\ Good(i) /\ (i + 1) - 1 = i
      <4> HIDE DEF Good
      <4> QED
        BY <1>3
    <3> DEFINE c == arg[i + 1]
    <3>2. c \in Chars /\ s[i + 1] = Quoting(s[i], c)
      BY <1>1, <1>3, <3>1
    <3>3. x(i) \in Seq(Chars) /\ Append(x(i), c) = x(i + 1)
      <4>1. x(i) \o <<c>> = x(i + 1)
        <5>1. i + 1 \in 1 .. Len(arg)
          BY <3>1 DEF n
        <5> HIDE DEF Good, K
        <5> QED
          BY <3>1, <5>1, PrefixMore
      <4>2. x(i) \in Seq(Chars)
        <5> HIDE DEF Good, K
        <5>1. i \in Nat /\ i =< Len(arg)
          BY <3>1 DEF n
        <5> QED
          BY <5>1
      <4> DEFINE y == x(i)
      <4>3. y \in Seq(Chars) /\ c \in Chars
        BY <3>2, <4>2
      <4> HIDE DEF y, c
      <4>4. Append(y, c) = y \o <<c>>
        BY <4>3
      <4> QED
        BY <4>1, <4>2, <4>4 DEF y
    <3> HIDE DEF x, c, K
    <3>4. Written(Quoting(s[i], c)) /\ InQuotes(ws, Quoting(s[i], c), Append(x(i), c))
      BY <3>1, <3>2, <3>3, QuotingStep
    <3> QED
      BY <3>2, <3>3, <3>4
  <2>3. K = Nat
    <3>1. K \in SUBSET Nat
      OBVIOUS
    <3> HIDE DEF K
    <3> QED
      BY <2>1, <2>2, <3>1, NatSetInduction
  <2>4. Good(n)
    <3> HIDE DEF Good
    <3> QED
      BY <1>3, <2>3
  <2>5. x(n) = arg
    BY DEF n
  <2> DEFINE r == final.run
             out == final.out
             k == 2 * r
  <2>6. r \in Nat /\ out \in Seq(Chars)
    BY <2>4 DEF Written
  <2> HIDE DEF x
  <2>7. PICK w \in Seq(Chars) : Read("Windows", Found(ws, <<>>, "between", 0), out) = Found(ws, w, "quotes", 0) /\ WithSlashes(w, r) = arg
    BY <2>4, <2>5 DEF InQuotes
  <2> HIDE DEF r, out, Good, K, final
  <2>8. k \in Nat /\ k % 2 = 0 /\ k \div 2 = r
    BY <2>6
  <2> HIDE DEF k
  <2>9. /\ out \o Copies(Slash, k) \o <<DoubleQuote>> \in Seq(Chars)
        /\ Read("Windows", Found(ws, <<>>, "between", 0), out \o Copies(Slash, k) \o <<DoubleQuote>>)
             = Reads("Windows", Found(ws, w, "quotes", k), DoubleQuote)
    <3> DEFINE c == DoubleQuote
    <3>1. c \in Chars
      BY <1>3
    <3> HIDE DEF c
    <3>2. /\ out \o Copies(Slash, k) \o <<c>> \in Seq(Chars)
          /\ Read("Windows", Found(ws, <<>>, "between", 0), out \o Copies(Slash, k) \o <<c>>)
               = Reads("Windows", Found(ws, w, "quotes", k), c)
      <4>1. out \in Seq(Chars) /\ k \in Nat /\ Read("Windows", Found(ws, <<>>, "between", 0), out) = Found(ws, w, "quotes", 0)
        BY <2>6, <2>7, <2>8
      <4> QED
        BY <3>1, <4>1, ReadAfter
    <3> QED
      BY <3>2 DEF c
  <2>10. Reads("Windows", Found(ws, w, "quotes", k), DoubleQuote) = Found(ws, arg, "word", 0)
    <3>1. Reads("Windows", Found(ws, w, "quotes", k), DoubleQuote) = Found(ws, WithSlashes(w, k \div 2), "word", 0)
      <4>1. k % 2 = 0
        BY <2>8
      <4> QED
        BY <4>1, WindowsReads
    <3>2. k \div 2 = r
      BY <2>8
    <3> QED
      BY <2>7, <3>1, <3>2
  <2>11. Settled("Windows", Found(ws, arg, "word", 0), Append(ws, arg))
    <3>1. 0 \in Nat /\ WithSlashes(arg, 0) = arg
      BY NoSlashes
    <3> QED
      BY <3>1, WindowsSettled
  <2>12. t = out \o Copies(Slash, k) \o <<DoubleQuote>>
    BY DEF k, r, out
  <2> HIDE DEF t
  <2> QED
    BY <2>9, <2>10, <2>11, <2>12
<1> HIDE DEF t
<1> QED
  BY <1>2, <1>4 DEF ReadsWord

\* CommandLineToArgvW reads back exactly what was given (windows.rs:21): whatever spaces, quotes and runs of
\* backslashes the arguments have, the line splits into the program and its arguments.
THEOREM CommandLineReadBack ==
  ASSUME NEW words \in Seq(Seq(STRING)), words # <<>>, IsProgram(words[1])
  PROVE  ReadCommandLine(command_line(words)) = words
<1> DEFINE n == Len(words)
           first == (<<DoubleQuote>> \o words[1]) \o <<DoubleQuote>>
           texts == [i \in 1 .. n |-> IF i = 1 THEN first ELSE quote_argument(words[i])]
<1>1. n \in Nat /\ DOMAIN words = 1 .. n
  OBVIOUS
<1>2. ASSUME NEW i \in 1 .. n PROVE words[i] \in Seq(Chars)
  <2> DEFINE w == words[i]
             S == STRING
  <2>1. w \in Seq(S) /\ S \subseteq Chars
    BY DEF Chars
  <2> HIDE DEF w, S
  <2>2. w \in Seq(Chars)
    BY <2>1
  <2> QED
    BY <2>2 DEF w
<1>3. command_line(words) = Spaced(texts)
  <2>1. \A i \in DOMAIN words : i = 1 => words[i] = words[1]
    OBVIOUS
  <2>2. [i \in DOMAIN words |-> IF i = 1 THEN <<DoubleQuote>> \o words[i] \o <<DoubleQuote>> ELSE quote_argument(words[i])] = texts
    BY <1>1
  <2> HIDE DEF texts
  <2> QED
    BY <2>2 DEF command_line
<1>4. \A i \in 1 .. n : texts[i] = IF i = 1 THEN first ELSE quote_argument(words[i])
  OBVIOUS
<1>5. DOMAIN texts = 1 .. n /\ texts = [i \in 1 .. n |-> texts[i]]
  OBVIOUS
<1> HIDE DEF texts, n
<1>6. ASSUME NEW i \in 1 .. n PROVE texts[i] \in Seq(Chars) /\ ReadsWord("Windows", texts[i], words[i])
  <2>1. CASE i = 1
    <3>1. words[1] \in Seq(Chars)
      BY <1>2, <2>1
    <3>2. first \in Seq(Chars) /\ ReadsWord("Windows", first, words[1])
      BY <3>1, ProgramRead
    <3> HIDE DEF first
    <3> QED
      BY <1>4, <2>1, <3>2
  <2>2. CASE i # 1 /\ words[i] # <<>> /\ ~has_space(words[i])
    <3>1. quote_argument(words[i]) = words[i]
      BY <2>2 DEF quote_argument
    <3>2. ReadsWord("Windows", words[i], words[i])
      BY <1>2, <2>2, BareArgument
    <3> QED
      BY <1>2, <1>4, <2>2, <3>1, <3>2
  <2>3. CASE i # 1 /\ (words[i] = <<>> \/ has_space(words[i]))
    <3>1. quote_argument(words[i]) \in Seq(Chars) /\ ReadsWord("Windows", quote_argument(words[i]), words[i])
      BY <1>2, <2>3, QuotedArgument
    <3> HIDE DEF first
    <3> QED
      BY <1>4, <2>3, <3>1
  <2> QED
    BY <2>1, <2>2, <2>3
<1>7. texts \in [1 .. n -> Seq(Chars)] /\ words \in [1 .. n -> Seq(Chars)]
  <2>1. words = [i \in 1 .. n |-> words[i]]
    BY <1>1 DEF n
  <2>2. texts \in [1 .. n -> Seq(Chars)]
    BY <1>5, <1>6
  <2> QED
    BY <1>2, <2>1, <2>2
<1>8. Settled("Windows", NoWords, <<>>)
  <2>1. Reads("Windows", NoWords, Space) = NextWord(Found(<<>>, WithSlashes(<<>>, 0), "between", 0))
    BY WindowsReads DEF NoWords
  <2>2. <<>> \in Seq(Chars)
    OBVIOUS
  <2>3. WithSlashes(<<>>, 0) = <<>>
    BY <2>2, NoSlashes
  <2>4. Finished("Windows", NoWords) = Found(<<>>, WithSlashes(<<>>, 0), "between", 0)
    BY PutBackIs, FoundIs DEF Finished, NoWords
  <2> QED
    BY <2>1, <2>3, <2>4, NoWordsNext DEF Settled, NoWords
<1>9. Settled("Windows", Read("Windows", NoWords, Spaced(texts)), words)
  BY <1>1, <1>6, <1>7, <1>8, LineRead
<1> QED
  BY <1>3, <1>9 DEF ReadCommandLine, Settled, Finished
===========================================================================
