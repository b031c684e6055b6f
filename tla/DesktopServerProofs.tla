------------------------- MODULE DesktopServerProofs -------------------------
(***************************************************************************)
(* Theorems about DesktopServer, for any number of addresses, phones and   *)
(* inputs, any size of the table and any time limits.                      *)
(***************************************************************************)
EXTENDS DesktopServer, FiniteSetTheorems, TLAPS

LEMMA Constants ==
  /\ MaxSessions \in Nat /\ MaxSessions > 0
  /\ Quiet \in Nat /\ Idle \in Nat /\ Quiet < Idle
  /\ MaxPackets \in Nat
  /\ IsFiniteSet(Addrs)
BY ServerAssumption

-----------------------------------------------------------------------------
(* Typing. *)

LEMMA ReleasesTyped ==
  ASSUME TypeOK, NEW from \in SUBSET Addrs
  PROVE  Releases(from) \subseteq Events /\ LetGo(from) \in [Addrs -> SUBSET Inputs]
<1>1. held \in [Addrs -> SUBSET Inputs]
  BY DEF TypeOK
<1>2. UNION {held[a] : a \in from} \subseteq Inputs
  BY <1>1
<1>3. Releases(from) \subseteq Events
  <2> SUFFICES ASSUME NEW i \in UNION {held[a] : a \in from} PROVE Release(i) \in Events
    BY DEF Releases
  <2>1. i \in Inputs
    BY <1>2
  <2> QED
    BY <2>1 DEF Release, Events
<1>4. LetGo(from) \in [Addrs -> SUBSET Inputs]
  BY <1>1 DEF LetGo
<1> QED
  BY <1>3, <1>4

LEMMA InitTyped == Init => TypeOK
<1> SUFFICES ASSUME Init PROVE TypeOK
  OBVIOUS
<1>1. held \in [Addrs -> SUBSET Inputs] /\ pending \in [Tasks -> SUBSET Events]
  BY DEF Init
<1>2. 0 \in 0..MaxAge /\ 0 \in 0..MaxPackets
  BY Constants DEF MaxAge
<1>3. age \in [Addrs -> 0..MaxAge] /\ handled \in 0..MaxPackets
  BY <1>2 DEF Init
<1>4. queue \in Seq(Events)
  BY DEF Init
<1> QED
  BY <1>1, <1>3, <1>4 DEF Init, TypeOK

LEMMA NextTyped == TypeOK /\ [Next]_vars => TypeOK'
<1> SUFFICES ASSUME TypeOK, [Next]_vars PROVE TypeOK'
  OBVIOUS
<1>1. /\ live \subseteq Addrs /\ owner \in [Addrs -> Phones]
      /\ held \in [Addrs -> SUBSET Inputs] /\ age \in [Addrs -> 0..MaxAge]
      /\ trusted \subseteq Phones /\ pending \in [Tasks -> SUBSET Events]
      /\ handled \in 0..MaxPackets /\ MaxAge \in Nat /\ MaxPackets \in Nat
  BY Constants DEF TypeOK, MaxAge
<1>2. "rx" \in Tasks /\ "maint" \in Tasks /\ "console" \in Tasks
  BY DEF Tasks
<1>3. Handle => handled' \in 0..MaxPackets
  BY <1>1 DEF Handle
<1>4. ASSUME NEW a \in Addrs, NEW p \in Phones, Handshake(a, p) PROVE TypeOK'
  <2>1. PICK evicted \in SUBSET live : Insert(a, p, evicted)
    BY <1>4 DEF Handshake
  <2>2. {a} \cup evicted \subseteq Addrs
    BY <1>1
  <2>3. live' \subseteq Addrs /\ owner' \in [Addrs -> Phones] /\ age' \in [Addrs -> 0..MaxAge]
    BY <1>1, <2>1, <2>2 DEF Insert
  <2>4. held' \in [Addrs -> SUBSET Inputs] /\ pending' \in [Tasks -> SUBSET Events]
    BY <1>1, <1>2, <2>1, <2>2, ReleasesTyped DEF Insert
  <2>5. trusted' \subseteq Phones /\ handled' \in 0..MaxPackets
    BY <1>1, <1>3, <1>4 DEF Handshake
  <2>6. crossed' \subseteq Inputs /\ unsaved' \subseteq Phones
    BY <1>4 DEF Handshake, TypeOK
  <2> QED
    BY <1>4, <2>3, <2>4, <2>5, <2>6 DEF Handshake, worker, TypeOK
<1>5. ASSUME NEW a \in Addrs, NEW e \in Events, Transport(a, e) PROVE TypeOK'
  <2>1. e.input \in Inputs
    BY DEF Events
  <2>2. held' \in [Addrs -> SUBSET Inputs] /\ age' \in [Addrs -> 0..MaxAge]
    BY <1>1, <1>5, <2>1 DEF Transport
  <2>3. pending' \in [Tasks -> SUBSET Events] /\ handled' \in 0..MaxPackets
    BY <1>1, <1>2, <1>3, <1>5 DEF Transport
  <2> QED
    BY <1>5, <2>2, <2>3 DEF Transport, worker, forgets, TypeOK
<1>6. ASSUME NEW a \in Addrs, Query(a) PROVE TypeOK'
  <2>1. age' \in [Addrs -> 0..MaxAge] /\ handled' \in 0..MaxPackets
    BY <1>1, <1>3, <1>6 DEF Query
  <2> QED
    BY <1>6, <2>1 DEF Query, worker, forgets, TypeOK
<1>7. CASE Maintain
  <2>1. Expired \cup Stale \in SUBSET Addrs
    BY <1>1 DEF Expired, Stale
  <2>2. held' \in [Addrs -> SUBSET Inputs] /\ pending' \in [Tasks -> SUBSET Events]
    BY <1>1, <1>2, <1>7, <2>1, ReleasesTyped DEF Maintain
  <2> QED
    BY <1>1, <1>7, <2>2 DEF Maintain, worker, forgets, TypeOK
<1>8. CASE ForgetAll
  <2>1. held' \in [Addrs -> SUBSET Inputs] /\ pending' \in [Tasks -> SUBSET Events]
    BY <1>1, <1>2, <1>8, ReleasesTyped DEF ForgetAll, ClearSessions
  <2>2. live' = {} /\ trusted' = {} /\ handled' \in 0..MaxPackets
    BY <1>3, <1>8 DEF ForgetAll, ClearSessions
  <2>3. crossed' \subseteq Inputs /\ unsaved' \subseteq Phones
    BY <1>8 DEF ForgetAll, TypeOK
  <2> QED
    BY <1>8, <2>1, <2>2, <2>3 DEF ForgetAll, worker, TypeOK
<1>9. CASE ForgetFails
  BY <1>3, <1>9 DEF ForgetFails, table, worker, forgets, TypeOK
<1>10. ASSUME NEW t \in Tasks, Send(t) PROVE TypeOK'
  <2>1. PICK e \in pending[t] :
          /\ pending' = [pending EXCEPT ![t] = @ \ {e}]
          /\ queue' = IF stopPosted THEN queue ELSE Append(queue, e)
          /\ dropped' = IF stopPosted /\ t # "rx" THEN dropped \cup {e.input} ELSE dropped
    BY <1>10 DEF Send
  <2>2. e \in Events /\ e.input \in Inputs
    BY <1>1, <2>1 DEF Events
  <2>3. pending' \in [Tasks -> SUBSET Events]
    BY <1>1, <2>1
  <2>4. queue' \in Seq(Events) /\ dropped' \subseteq Inputs
    BY <2>1, <2>2 DEF TypeOK
  <2>5. crossed' \subseteq Inputs
    BY <1>10 DEF Send, TypeOK
  <2> QED
    BY <1>10, <2>3, <2>4, <2>5 DEF Send, table, TypeOK
<1>11. CASE Shutdown
  BY <1>11 DEF Shutdown, table, worker, forgets, TypeOK
<1>12. CASE ReleaseAll
  <2>1. held' \in [Addrs -> SUBSET Inputs] /\ pending' \in [Tasks -> SUBSET Events]
    BY <1>1, <1>2, <1>12, ReleasesTyped DEF ReleaseAll
  <2> QED
    BY <1>12, <2>1 DEF ReleaseAll, worker, forgets, TypeOK
<1>13. CASE PostStop
  BY <1>13 DEF PostStop, table, forgets, TypeOK
<1>14. CASE Apply
  <2>1. queue \in Seq(Events) /\ queue # <<>> /\ queue' = Tail(queue)
    BY <1>14 DEF Apply, TypeOK
  <2>2. Head(queue) \in Events /\ queue' \in Seq(Events)
    BY <2>1
  <2>3. down' \subseteq Inputs
    BY <1>14, <2>2 DEF Apply, Events, TypeOK
  <2> QED
    BY <1>14, <2>2, <2>3 DEF Apply, table, forgets, TypeOK
<1>15. CASE StopThread
  BY <1>15 DEF StopThread, table, forgets, TypeOK
<1>16. CASE Tick
  <2>1. age' \in [Addrs -> 0..MaxAge]
    BY <1>1, <1>16 DEF Tick
  <2> QED
    BY <1>16, <2>1 DEF Tick, worker, forgets, TypeOK
<1>17. CASE UNCHANGED vars
  BY <1>17 DEF vars, table, worker, forgets, TypeOK
<1> QED
  BY <1>4, <1>5, <1>6, <1>7, <1>8, <1>9, <1>10, <1>11, <1>12, <1>13, <1>14, <1>15,
     <1>16, <1>17 DEF Next

\* Every variable keeps its type, the channel and the events underway included.
THEOREM Typing == Spec => []TypeOK
BY InitTyped, NextTyped, PTL DEF Spec

-----------------------------------------------------------------------------
(* The table. *)

\* Only a handshake brings a session; every other step keeps or ends some.
LEMMA OnlyHandshakesBring ==
  ASSUME TypeOK, [Next]_vars,
         ~ \E a \in Addrs, p \in Phones : Handshake(a, p)
  PROVE  live' \subseteq live /\ owner' = owner
<1>1. ASSUME NEW a \in Addrs, NEW e \in Events, Transport(a, e)
      PROVE  live' \subseteq live /\ owner' = owner
  BY <1>1 DEF Transport
<1>2. ASSUME NEW a \in Addrs, Query(a) PROVE live' \subseteq live /\ owner' = owner
  BY <1>2 DEF Query
<1>3. ASSUME NEW t \in Tasks, Send(t) PROVE live' \subseteq live /\ owner' = owner
  BY <1>3 DEF Send, table
<1>4. CASE Maintain \/ ForgetAll \/ ForgetFails \/ Shutdown \/ ReleaseAll
  BY <1>4 DEF Maintain, ForgetAll, ClearSessions, ForgetFails, Shutdown, ReleaseAll, table
<1>5. CASE PostStop \/ Apply \/ StopThread \/ Tick \/ UNCHANGED vars
  BY <1>5 DEF PostStop, Apply, StopThread, Tick, vars, table
<1> QED
  BY <1>1, <1>2, <1>3, <1>4, <1>5 DEF Next

\* A session that comes to a full table takes the place of another.
LEMMA InsertKeepsCapacity ==
  ASSUME TypeOK, CapacityRespected, NEW a \in Addrs, NEW p \in Phones,
         NEW evicted \in SUBSET live, Insert(a, p, evicted)
  PROVE  CapacityRespected'
<1> DEFINE rest == live \ {a}
<1>1. live \in SUBSET Addrs /\ rest \in SUBSET live
  BY DEF TypeOK
<1>2. IsFiniteSet(live)
  BY <1>1, FS_Subset, Constants
<1>3. IsFiniteSet(rest) /\ Cardinality(rest) <= Cardinality(live)
  BY <1>1, <1>2, FS_Subset
<1>4. Cardinality(live) \in Nat /\ Cardinality(rest) \in Nat
  BY <1>2, <1>3, FS_CardinalityType
<1>5. live' = (live \ evicted) \cup {a}
  BY DEF Insert
<1>6. CASE Full(rest)
  <2>1. PICK v \in Oldest(rest) : evicted = {v}
    BY <1>6 DEF Insert
  <2>2. v \in rest
    BY <2>1 DEF Oldest
  <2>3. live' = (rest \ {v}) \cup {a} /\ a \notin rest \ {v}
    BY <1>5, <2>1, <2>2
  <2>4. IsFiniteSet(rest \ {v}) /\ Cardinality(rest \ {v}) = Cardinality(rest) - 1
    BY <1>3, <2>2, FS_RemoveElement
  <2>5. Cardinality((rest \ {v}) \cup {a}) = Cardinality(rest \ {v}) + 1
    BY <2>3, <2>4, FS_AddElement
  <2>6. Cardinality(live') = Cardinality(rest)
    BY <1>4, <2>3, <2>4, <2>5
  <2> QED
    BY <1>3, <1>4, <2>6, Constants DEF CapacityRespected
<1>7. CASE ~Full(rest)
  <2>1. evicted = {}
    BY <1>7 DEF Insert
  <2>2. live' = rest \cup {a} /\ a \notin rest
    BY <1>5, <2>1
  <2>3. Cardinality(live') = Cardinality(rest) + 1
    BY <1>3, <2>2, FS_AddElement
  <2> QED
    BY <1>4, <1>7, <2>3, Constants DEF Full, CapacityRespected
<1> QED
  BY <1>6, <1>7

\* The table of sessions never outgrows max_sessions.
THEOREM Capacity == Spec => []CapacityRespected
<1>1. Init => CapacityRespected
  BY FS_EmptySet, Constants DEF Init, CapacityRespected
<1>2. TypeOK /\ CapacityRespected /\ [Next]_vars => CapacityRespected'
  <2> SUFFICES ASSUME TypeOK, CapacityRespected, [Next]_vars PROVE CapacityRespected'
    OBVIOUS
  <2>1. ASSUME NEW a \in Addrs, NEW p \in Phones, Handshake(a, p)
        PROVE  CapacityRespected'
    BY <2>1, InsertKeepsCapacity DEF Handshake
  <2>2. CASE ~ \E a \in Addrs, p \in Phones : Handshake(a, p)
    <3>1. live' \in SUBSET live /\ live \in SUBSET Addrs
      BY <2>2, OnlyHandshakesBring DEF TypeOK
    <3>2. IsFiniteSet(live)
      BY <3>1, FS_Subset, Constants
    <3>3. IsFiniteSet(live') /\ Cardinality(live') <= Cardinality(live)
      BY <3>1, <3>2, FS_Subset
    <3>4. Cardinality(live) \in Nat /\ Cardinality(live') \in Nat
      BY <3>2, <3>3, FS_CardinalityType
    <3> QED
      BY <3>3, <3>4, Constants DEF CapacityRespected
  <2> QED
    BY <2>1, <2>2
<1> QED
  BY <1>1, <1>2, Typing, PTL DEF Spec

\* Only a handshake and the owner's `forget' change who is paired.
LEMMA OnlyForgetsUnpair ==
  ASSUME [Next]_vars, ~ForgetAll, ~ForgetFails,
         ~ \E a \in Addrs, p \in Phones : Handshake(a, p)
  PROVE  trusted' = trusted /\ unsaved' = unsaved
<1>1. ASSUME NEW a \in Addrs, NEW e \in Events, Transport(a, e)
      PROVE  trusted' = trusted /\ unsaved' = unsaved
  BY <1>1 DEF Transport, forgets
<1>2. ASSUME NEW a \in Addrs, Query(a) PROVE trusted' = trusted /\ unsaved' = unsaved
  BY <1>2 DEF Query, forgets
<1>3. ASSUME NEW t \in Tasks, Send(t) PROVE trusted' = trusted /\ unsaved' = unsaved
  BY <1>3 DEF Send
<1>4. CASE Maintain \/ Shutdown \/ ReleaseAll \/ PostStop \/ Apply \/ StopThread
  BY <1>4 DEF Maintain, Shutdown, ReleaseAll, PostStop, Apply, StopThread, forgets
<1>5. CASE Tick \/ UNCHANGED vars
  BY <1>5 DEF Tick, vars, forgets
<1> QED
  BY <1>1, <1>2, <1>3, <1>4, <1>5 DEF Next

\* Unpairing ends sessions: every session belongs to a phone that is paired, or
\* that a `forget' has unpaired without being able to save the list.
THEOREM PairedSessions == Spec => []SessionsOfPairedPhones
<1>1. Init => SessionsOfPairedPhones
  BY DEF Init, SessionsOfPairedPhones
<1>2. TypeOK /\ SessionsOfPairedPhones /\ [Next]_vars => SessionsOfPairedPhones'
  <2> SUFFICES ASSUME TypeOK, SessionsOfPairedPhones, [Next]_vars
               PROVE  SessionsOfPairedPhones'
    OBVIOUS
  <2>1. ASSUME NEW a \in Addrs, NEW p \in Phones, Handshake(a, p)
        PROVE  SessionsOfPairedPhones'
    <3>1. PICK evicted \in SUBSET live : Insert(a, p, evicted)
      BY <2>1 DEF Handshake
    <3>2. /\ live' \subseteq live \cup {a} /\ owner' = [owner EXCEPT ![a] = p]
          /\ trusted' = trusted \cup {p} /\ unsaved' = unsaved \ {p}
      BY <2>1, <3>1 DEF Handshake, Insert
    <3> QED
      BY <3>2 DEF SessionsOfPairedPhones, TypeOK
  <2>2. CASE ForgetAll
    BY <2>2 DEF ForgetAll, ClearSessions, SessionsOfPairedPhones
  <2>3. CASE ForgetFails
    BY <2>3 DEF ForgetFails, table, SessionsOfPairedPhones
  <2>4. CASE /\ ~ForgetAll /\ ~ForgetFails
             /\ ~ \E a \in Addrs, p \in Phones : Handshake(a, p)
    BY <2>4, OnlyHandshakesBring, OnlyForgetsUnpair DEF SessionsOfPairedPhones
  <2> QED
    BY <2>1, <2>2, <2>3, <2>4
<1> QED
  BY <1>1, <1>2, Typing, PTL DEF Spec

-----------------------------------------------------------------------------
(* Nothing is left stuck but by a `forget' that overtakes a press.          *)

Covered(i) == LookedAfter(i) \/ i \in crossed

\* Only the receive loop presses, while serving, and for a session that it has
\* heard at this very instant, unless `forget' has just ended it.
PressesAreHeld ==
  \A t \in Tasks, i \in Inputs : Press(i) \in pending[t] =>
    /\ t = "rx" /\ phase = "serving"
    /\ (\E a \in live : i \in held[a] /\ age[a] = 0) \/ i \in crossed

\* The receive loop shuts down in order: what it has decided on is queued before
\* it releases everything, and what it releases is queued before Stop.
ShutsDownInOrder ==
  /\ phase \in {"releasing", "stopped"} => pending["rx"] = {}
  /\ phase \in {"flushing", "stopped"} => \A a \in live : held[a] = {}
  /\ stopPosted => phase = "stopped"
  /\ ~inputRunning => stopPosted /\ queue = <<>>

KeysInv == TypeOK /\ PressesAreHeld /\ ShutsDownInOrder /\ NothingStuck

LEMMA EventIsOneOfTwo ==
  ASSUME NEW e \in Events
  PROVE  /\ e.input \in Inputs
         /\ e.down => e = Press(e.input)
         /\ ~e.down => e = Release(e.input)
BY DEF Events, Press, Release

LEMMA PressIsNoRelease ==
  ASSUME NEW i, NEW j
  PROVE  /\ Press(i) # Release(j) /\ Press(i).input = i /\ Release(i).input = i
         /\ Press(i).down /\ ~Release(i).down
BY DEF Press, Release

LEMMA ReleasesAreReleases ==
  ASSUME NEW from, NEW i
  PROVE  /\ Press(i) \notin Releases(from)
         /\ Release(i) \in Releases(from) <=> \E a \in from : i \in held[a]
<1>1. \A j : Press(i) # Release(j)
  BY PressIsNoRelease
<1>2. \A j : Release(i) = Release(j) => i = j
  BY DEF Release
<1> QED
  BY <1>1, <1>2 DEF Releases

\* What is queued last decides.
LEMMA QueuedLast ==
  ASSUME TypeOK, NEW e \in Events, queue' = Append(queue, e), down' = down,
         NEW i \in Inputs, EndsDown(i)'
  PROVE  e = Press(i) \/ (EndsDown(i) /\ e.input # i)
<1>1. queue \in Seq(Events) /\ Len(queue) \in Nat
  BY DEF TypeOK
<1>2. /\ Len(queue') = Len(queue) + 1 /\ queue'[Len(queue) + 1] = e
      /\ \A n \in 1..Len(queue) : queue'[n] = queue[n]
  BY <1>1
<1>3. Len(queue) + 1 \in 1..Len(queue')
  BY <1>1, <1>2
<1>4. CASE i \in down' /\ \A n \in 1..Len(queue') : queue'[n].input # i
  BY <1>1, <1>2, <1>3, <1>4 DEF EndsDown
<1>5. ASSUME NEW n \in 1..Len(queue'), queue'[n] = Press(i),
             \A m \in n+1..Len(queue') : queue'[m].input # i
      PROVE  e = Press(i) \/ (EndsDown(i) /\ e.input # i)
  <2>1. CASE n = Len(queue) + 1
    BY <1>2, <1>5, <2>1
  <2>2. CASE n # Len(queue) + 1
    <3>1. n \in 1..Len(queue) /\ Len(queue) + 1 \in n+1..Len(queue')
      BY <1>1, <1>2, <2>2
    <3>2. queue[n] = Press(i) /\ e.input # i
      BY <1>2, <1>5, <3>1
    <3>3. \A m \in n+1..Len(queue) : queue[m].input # i
      BY <1>1, <1>2, <1>5, <3>1
    <3> QED
      BY <3>1, <3>2, <3>3 DEF EndsDown
  <2> QED
    BY <2>1, <2>2
<1> QED
  BY <1>4, <1>5 DEF EndsDown

\* Applying the next event changes nothing about what the queue will leave down.
LEMMA AppliedInOrder ==
  ASSUME TypeOK, Apply, NEW i \in Inputs, EndsDown(i)'
  PROVE  EndsDown(i)
<1> DEFINE e == Head(queue)
<1>1. queue \in Seq(Events) /\ queue # <<>> /\ Len(queue) \in Nat /\ Len(queue) > 0
  BY DEF TypeOK, Apply
<1>2. /\ e = queue[1] /\ e \in Events /\ queue' = Tail(queue)
      /\ Len(queue') = Len(queue) - 1
      /\ \A n \in 1..Len(queue') : queue'[n] = queue[n+1]
  BY <1>1 DEF Apply
<1>3. \A m \in 2..Len(queue) : m - 1 \in 1..Len(queue') /\ queue[m] = queue'[m-1]
  BY <1>1, <1>2
<1>4. down' = IF e.down THEN down \cup {e.input} ELSE down \ {e.input}
  BY DEF Apply
<1>5. CASE i \in down' /\ \A n \in 1..Len(queue') : queue'[n].input # i
  <2>1. \A m \in 2..Len(queue) : queue[m].input # i
    BY <1>3, <1>5
  <2>2. CASE e.input = i
    <3>1. queue[1] = Press(i)
      BY <1>2, <1>4, <1>5, <2>2, EventIsOneOfTwo
    <3>2. 1 \in 1..Len(queue) /\ 1 + 1 = 2
      BY <1>1
    <3> QED
      BY <2>1, <3>1, <3>2 DEF EndsDown
  <2>3. CASE e.input # i
    <3>1. i \in down
      BY <1>4, <1>5, <2>3
    <3>2. \A m \in 1..Len(queue) : m = 1 \/ m \in 2..Len(queue)
      BY <1>1
    <3> QED
      BY <1>2, <2>1, <2>3, <3>1, <3>2 DEF EndsDown
  <2> QED
    BY <2>2, <2>3
<1>6. ASSUME NEW n \in 1..Len(queue'), queue'[n] = Press(i),
             \A m \in n+1..Len(queue') : queue'[m].input # i
      PROVE  EndsDown(i)
  <2>1. n + 1 \in 1..Len(queue) /\ queue[n+1] = Press(i)
    BY <1>1, <1>2, <1>6
  <2>2. \A m \in (n+1)+1..Len(queue) : queue[m].input # i
    <3> SUFFICES ASSUME NEW m \in (n+1)+1..Len(queue) PROVE queue[m].input # i
      OBVIOUS
    <3>1. m \in 2..Len(queue) /\ m - 1 \in n+1..Len(queue')
      BY <1>1, <1>2
    <3> QED
      BY <1>3, <1>6, <3>1
  <2> QED
    BY <2>1, <2>2 DEF EndsDown
<1> QED
  BY <1>5, <1>6 DEF EndsDown

\* A task that lets go of sessions takes over what they held.
LEMMA LettingGoCovers ==
  ASSUME TypeOK, NEW from \in SUBSET Addrs, NEW t \in Tasks, pending[t] = {},
         held' = LetGo(from), pending' = [pending EXCEPT ![t] = Releases(from)],
         dropped' = dropped, crossed \subseteq crossed', live \subseteq live' \cup from,
         NEW i \in Inputs, Covered(i)
  PROVE  Covered(i)'
<1>1. pending \in [Tasks -> SUBSET Events] /\ live \subseteq Addrs
      /\ held \in [Addrs -> SUBSET Inputs]
  BY DEF TypeOK
<1>2. CASE BeingReleased(i)
  BY <1>1, <1>2 DEF BeingReleased, LookedAfter, Covered
<1>3. ASSUME NEW a \in live, i \in held[a] PROVE Covered(i)'
  <2>1. CASE a \in from
    <3>1. Release(i) \in pending'[t]
      BY <1>1, <1>3, <2>1, ReleasesAreReleases
    <3> QED
      BY <3>1 DEF Covered, LookedAfter, BeingReleased
  <2>2. CASE a \notin from
    <3>1. a \in live' /\ i \in held'[a]
      BY <1>1, <1>3, <2>2 DEF LetGo
    <3> QED
      BY <3>1 DEF Covered, LookedAfter
  <2> QED
    BY <2>1, <2>2
<1> QED
  BY <1>2, <1>3 DEF Covered, LookedAfter

\* The steps other than queueing and applying change nothing in the channel.
LEMMA KeysStep ==
  ASSUME KeysInv, Next, ~Apply, ~ \E t \in Tasks : Send(t)
  PROVE  PressesAreHeld' /\ ShutsDownInOrder' /\ NothingStuck'
<1>1. TypeOK /\ PressesAreHeld /\ ShutsDownInOrder /\ NothingStuck
  BY DEF KeysInv
<1>2. /\ pending \in [Tasks -> SUBSET Events] /\ held \in [Addrs -> SUBSET Inputs]
      /\ age \in [Addrs -> 0..MaxAge] /\ live \subseteq Addrs
      /\ "rx" \in Tasks /\ "maint" \in Tasks
  BY <1>1 DEF TypeOK, Tasks
<1> DEFINE Goal == /\ PressesAreHeld' /\ ShutsDownInOrder'
                   /\ \A i \in Inputs : Covered(i) => Covered(i)'
<1>3. ASSUME NEW a \in Addrs, NEW p \in Phones, Handshake(a, p)
      PROVE  Goal /\ queue' = queue /\ down' = down
  <2>1. PICK evicted \in SUBSET live : Insert(a, p, evicted)
    BY <1>3 DEF Handshake
  <2> DEFINE gone == {a} \cup evicted
  <2>2. /\ gone \in SUBSET Addrs /\ live' = (live \ evicted) \cup {a}
        /\ held' = LetGo(gone) /\ pending' = [pending EXCEPT !["rx"] = Releases(gone)]
        /\ age' = [age EXCEPT ![a] = 0]
    BY <1>2, <2>1 DEF Insert
  <2>3. phase = "serving" /\ pending["rx"] = {} /\ UNCHANGED <<phase, worker>>
    BY <1>3 DEF Handshake, Serving
  <2>4. \A t \in Tasks, i \in Inputs : Press(i) \notin pending'[t]
    BY <1>1, <1>2, <2>2, <2>3, ReleasesAreReleases DEF PressesAreHeld
  <2>5. \A i \in Inputs : Covered(i) => Covered(i)'
    <3>1. live \subseteq live' \cup gone /\ dropped' = dropped /\ crossed' = crossed
      BY <1>3, <2>2, <2>3 DEF Handshake, worker
    <3> QED
      BY <1>1, <1>2, <2>2, <2>3, <3>1, LettingGoCovers
  <2>6. ShutsDownInOrder'
    BY <1>1, <2>3 DEF ShutsDownInOrder, worker
  <2> QED
    BY <2>3, <2>4, <2>5, <2>6 DEF PressesAreHeld, worker
<1>4. ASSUME NEW a \in Addrs, NEW e \in Events, Transport(a, e)
      PROVE  Goal /\ queue' = queue /\ down' = down
  <2>1. /\ a \in live /\ phase = "serving" /\ pending["rx"] = {}
        /\ held' = [held EXCEPT ![a] = IF e.down THEN @ \cup {e.input} ELSE @ \ {e.input}]
        /\ age' = [age EXCEPT ![a] = 0] /\ pending' = [pending EXCEPT !["rx"] = {e}]
        /\ UNCHANGED <<live, phase, worker, crossed>>
    BY <1>4 DEF Transport, Serving, forgets
  <2>2. PressesAreHeld'
    <3> SUFFICES ASSUME NEW t \in Tasks, NEW i \in Inputs, Press(i) \in pending'[t]
                 PROVE  t = "rx" /\ \E b \in live : i \in held'[b] /\ age'[b] = 0
      BY <2>1 DEF PressesAreHeld
    <3>1. t = "rx" /\ e = Press(i)
      BY <1>1, <1>2, <2>1 DEF PressesAreHeld
    <3>2. i \in held'[a] /\ age'[a] = 0
      BY <1>2, <2>1, <3>1, PressIsNoRelease
    <3> QED
      BY <2>1, <3>1, <3>2
  <2>3. ASSUME NEW i \in Inputs, Covered(i) PROVE Covered(i)'
    <3>1. CASE BeingReleased(i)
      BY <1>2, <2>1, <3>1 DEF BeingReleased, Covered, LookedAfter, worker
    <3>2. ASSUME NEW b \in live, i \in held[b] PROVE Covered(i)'
      <4>1. CASE e = Release(i)
        BY <1>2, <2>1, <4>1 DEF Covered, LookedAfter, BeingReleased
      <4>2. CASE e # Release(i)
        <5>1. i \in held'[b]
          BY <1>2, <2>1, <3>2, <4>2, EventIsOneOfTwo
        <5> QED
          BY <2>1, <5>1 DEF Covered, LookedAfter
      <4> QED
        BY <4>1, <4>2
    <3> QED
      BY <2>1, <2>3, <3>1, <3>2 DEF Covered, LookedAfter
  <2>4. ShutsDownInOrder'
    BY <1>1, <2>1 DEF ShutsDownInOrder, worker
  <2> QED
    BY <2>1, <2>2, <2>3, <2>4 DEF worker
<1>5. ASSUME NEW a \in Addrs, Query(a)
      PROVE  Goal /\ queue' = queue /\ down' = down
  <2>1. pending["rx"] = {} /\ UNCHANGED <<live, held, pending, phase, worker, crossed>>
    BY <1>5 DEF Query, Serving, forgets
  <2>2. PressesAreHeld'
    BY <1>1, <2>1 DEF PressesAreHeld
  <2> QED
    BY <1>1, <2>1, <2>2 DEF ShutsDownInOrder, Covered, LookedAfter, BeingReleased, worker
<1>6. ASSUME Maintain PROVE Goal /\ queue' = queue /\ down' = down
  <2> DEFINE from == Expired \cup Stale
  <2>1. /\ from \in SUBSET Addrs /\ live' = live \ Expired /\ held' = LetGo(from)
        /\ pending' = [pending EXCEPT !["maint"] = Releases(from)]
        /\ phase = "serving" /\ pending["maint"] = {}
        /\ UNCHANGED <<age, phase, worker, crossed>>
    BY <1>2, <1>6 DEF Maintain, Serving, Expired, Stale, forgets
  <2>2. PressesAreHeld'
    <3> SUFFICES ASSUME NEW t \in Tasks, NEW i \in Inputs, Press(i) \in pending'[t]
                 PROVE  /\ t = "rx"
                        /\ (\E a \in live' : i \in held'[a] /\ age'[a] = 0)
                             \/ i \in crossed
      BY <2>1 DEF PressesAreHeld
    <3>1. Press(i) \in pending[t]
      BY <1>2, <2>1, ReleasesAreReleases
    <3>2. ASSUME NEW a \in live, i \in held[a], age[a] = 0
          PROVE  a \in live' /\ i \in held'[a] /\ age'[a] = 0
      <4>1. a \notin from
        BY <3>2, Constants DEF Expired, Stale
      <4> QED
        BY <1>2, <2>1, <3>2, <4>1 DEF LetGo
    <3> QED
      BY <1>1, <3>1, <3>2 DEF PressesAreHeld
  <2>3. \A i \in Inputs : Covered(i) => Covered(i)'
    <3>1. live \subseteq live' \cup from /\ dropped' = dropped /\ crossed' = crossed
      BY <2>1 DEF worker
    <3> QED
      BY <1>1, <1>2, <2>1, <3>1, LettingGoCovers
  <2>4. ShutsDownInOrder'
    BY <1>1, <1>2, <2>1 DEF ShutsDownInOrder, worker
  <2> QED
    BY <2>1, <2>2, <2>3, <2>4 DEF worker
<1>7. ASSUME Shutdown PROVE Goal /\ queue' = queue /\ down' = down
  <2>1. /\ phase = "serving" /\ pending["rx"] = {} /\ phase' = "releasing"
        /\ UNCHANGED <<live, held, age, pending, worker, crossed>>
    BY <1>7 DEF Shutdown, Serving, table, forgets
  <2>2. PressesAreHeld' /\ ShutsDownInOrder'
    BY <1>1, <1>2, <2>1 DEF PressesAreHeld, ShutsDownInOrder, worker
  <2> QED
    BY <2>1, <2>2 DEF Covered, LookedAfter, BeingReleased, worker
<1>8. ASSUME ReleaseAll PROVE Goal /\ queue' = queue /\ down' = down
  <2>1. /\ phase = "releasing" /\ phase' = "flushing" /\ held' = LetGo(live)
        /\ pending' = [pending EXCEPT !["rx"] = Releases(live)]
        /\ UNCHANGED <<live, worker, crossed>>
    BY <1>8 DEF ReleaseAll, forgets
  <2>2. pending["rx"] = {} /\ live \in SUBSET Addrs
    BY <1>1, <1>2, <2>1 DEF ShutsDownInOrder
  <2>3. \A t \in Tasks, i \in Inputs : Press(i) \notin pending'[t]
    BY <1>1, <1>2, <2>1, ReleasesAreReleases DEF PressesAreHeld
  <2>4. \A i \in Inputs : Covered(i) => Covered(i)'
    <3>1. live \subseteq live' \cup live /\ dropped' = dropped /\ crossed' = crossed
      BY <2>1 DEF worker
    <3> QED
      BY <1>1, <1>2, <2>1, <2>2, <3>1, LettingGoCovers
  <2>5. ShutsDownInOrder'
    BY <1>1, <1>2, <2>1, <2>2 DEF ShutsDownInOrder, LetGo, worker
  <2> QED
    BY <2>1, <2>3, <2>4, <2>5 DEF PressesAreHeld, worker
<1>9. ASSUME PostStop PROVE Goal /\ queue' = queue /\ down' = down
  <2>1. /\ phase = "flushing" /\ pending["rx"] = {} /\ phase' = "stopped" /\ stopPosted'
        /\ UNCHANGED <<live, held, age, pending, queue, inputRunning, down, dropped,
                       crossed>>
    BY <1>9 DEF PostStop, table, forgets
  <2>2. PressesAreHeld' /\ ShutsDownInOrder'
    BY <1>1, <1>2, <2>1 DEF PressesAreHeld, ShutsDownInOrder
  <2> QED
    BY <2>1, <2>2 DEF Covered, LookedAfter, BeingReleased
<1>10. ASSUME StopThread PROVE Goal /\ queue' = queue /\ down' = down
  <2>1. /\ stopPosted /\ queue = <<>> /\ ~inputRunning'
        /\ UNCHANGED <<live, held, age, pending, phase, queue, stopPosted, down, dropped,
                       crossed>>
    BY <1>10 DEF StopThread, table, forgets
  <2>2. PressesAreHeld' /\ ShutsDownInOrder'
    BY <1>1, <2>1 DEF PressesAreHeld, ShutsDownInOrder
  <2> QED
    BY <2>1, <2>2 DEF Covered, LookedAfter, BeingReleased
<1>11. ASSUME Tick PROVE Goal /\ queue' = queue /\ down' = down
  <2>1. /\ \A t \in Tasks : pending[t] = {}
        /\ UNCHANGED <<live, held, pending, phase, worker, crossed>>
    BY <1>11 DEF Tick, forgets
  <2>2. PressesAreHeld' /\ ShutsDownInOrder'
    BY <1>1, <2>1 DEF PressesAreHeld, ShutsDownInOrder, worker
  <2> QED
    BY <2>1, <2>2 DEF Covered, LookedAfter, BeingReleased, worker
<1>12. ASSUME ForgetAll PROVE Goal /\ queue' = queue /\ down' = down
  <2>1. /\ live' = {} /\ held' = LetGo(live) /\ pending["console"] = {}
        /\ pending' = [pending EXCEPT !["console"] = Releases(live)]
        /\ crossed' = crossed \cup {i \in Inputs : Press(i) \in pending["rx"]}
        /\ UNCHANGED <<age, phase, worker>> /\ "console" \in Tasks
    BY <1>12 DEF ForgetAll, ClearSessions, Tasks
  <2>2. PressesAreHeld'
    <3> SUFFICES ASSUME NEW t \in Tasks, NEW i \in Inputs, Press(i) \in pending'[t]
                 PROVE  t = "rx" /\ phase = "serving" /\ i \in crossed'
      BY <2>1 DEF PressesAreHeld
    <3>1. Press(i) \in pending[t]
      BY <1>2, <2>1, ReleasesAreReleases
    <3> QED
      BY <1>1, <2>1, <3>1 DEF PressesAreHeld
  <2>3. \A i \in Inputs : Covered(i) => Covered(i)'
    <3>1. /\ live \in SUBSET Addrs /\ live \subseteq live' \cup live
          /\ dropped' = dropped /\ crossed \subseteq crossed'
      BY <1>2, <2>1 DEF worker
    <3> QED
      BY <1>1, <1>2, <2>1, <3>1, LettingGoCovers
  <2>4. ShutsDownInOrder'
    BY <1>1, <1>2, <2>1 DEF ShutsDownInOrder, worker
  <2> QED
    BY <2>1, <2>2, <2>3, <2>4 DEF worker
<1>13. ASSUME ForgetFails PROVE Goal /\ queue' = queue /\ down' = down
  <2>1. UNCHANGED <<live, held, age, pending, phase, worker, crossed>>
    BY <1>13 DEF ForgetFails, table
  <2>2. PressesAreHeld' /\ ShutsDownInOrder'
    BY <1>1, <2>1 DEF PressesAreHeld, ShutsDownInOrder, worker
  <2> QED
    BY <2>1, <2>2 DEF Covered, LookedAfter, BeingReleased, worker
<1>14. Goal /\ queue' = queue /\ down' = down
  <2> HIDE DEF Goal
  <2> QED
    BY <1>3, <1>4, <1>5, <1>6, <1>7, <1>8, <1>9, <1>10, <1>11, <1>12, <1>13 DEF Next
<1>15. \A i \in Inputs : EndsDown(i)' => EndsDown(i)
  BY <1>14 DEF EndsDown
<1>16. NothingStuck'
  BY <1>1, <1>14, <1>15 DEF NothingStuck, Covered
<1> QED
  BY <1>14, <1>16

LEMMA KeysInit == Init => KeysInv
<1> SUFFICES ASSUME Init PROVE KeysInv
  OBVIOUS
<1>1. TypeOK
  BY InitTyped
<1>2. PressesAreHeld /\ ShutsDownInOrder
  BY DEF Init, PressesAreHeld, ShutsDownInOrder
<1>3. NothingStuck
  BY DEF Init, NothingStuck, EndsDown
<1> QED
  BY <1>1, <1>2, <1>3 DEF KeysInv

LEMMA KeysNext == KeysInv /\ [Next]_vars => KeysInv'
<1> SUFFICES ASSUME KeysInv, [Next]_vars PROVE KeysInv'
  OBVIOUS
<1>1. TypeOK /\ PressesAreHeld /\ ShutsDownInOrder /\ NothingStuck
  BY DEF KeysInv
<1>2. TypeOK'
  BY <1>1, NextTyped
<1>3. ASSUME NEW t \in Tasks, Send(t)
      PROVE  PressesAreHeld' /\ ShutsDownInOrder' /\ NothingStuck'
  <2>1. PICK e \in pending[t] :
          /\ pending' = [pending EXCEPT ![t] = @ \ {e}]
          /\ queue' = IF stopPosted THEN queue ELSE Append(queue, e)
          /\ dropped' = IF stopPosted /\ t # "rx" THEN dropped \cup {e.input} ELSE dropped
          /\ crossed' = IF e.down \/ Press(e.input) \in pending["rx"]
                        THEN crossed ELSE crossed \ {e.input}
          /\ UNCHANGED <<table, phase, stopPosted, inputRunning, down>>
    BY <1>3 DEF Send
  <2>2. /\ pending \in [Tasks -> SUBSET Events] /\ "rx" \in Tasks /\ e \in Events
        /\ UNCHANGED <<live, held, age>>
    BY <1>1, <2>1 DEF TypeOK, Tasks, table
  <2>3. PressesAreHeld'
    <3> SUFFICES ASSUME NEW u \in Tasks, NEW i \in Inputs, Press(i) \in pending'[u]
                 PROVE  /\ u = "rx" /\ phase = "serving"
                        /\ (\E a \in live : i \in held[a] /\ age[a] = 0)
                             \/ i \in crossed'
      BY <2>1, <2>2 DEF PressesAreHeld
    <3>1. Press(i) \in pending[u]
      BY <2>1, <2>2
    <3>2. u = "rx" /\ (i \in crossed => i \in crossed')
      BY <1>1, <2>1, <3>1 DEF PressesAreHeld
    <3> QED
      BY <1>1, <3>1, <3>2 DEF PressesAreHeld
  <2>4. ShutsDownInOrder'
    BY <1>1, <2>1, <2>2 DEF ShutsDownInOrder
  <2>5. ASSUME NEW i \in Inputs, EndsDown(i)' PROVE Covered(i)'
    <3>1. CASE stopPosted
      <4>1. t # "rx"
        BY <1>1, <2>1, <3>1 DEF ShutsDownInOrder
      <4>2. EndsDown(i)
        BY <2>1, <2>5, <3>1 DEF EndsDown
      <4>3. Covered(i)
        BY <1>1, <4>2 DEF NothingStuck, Covered
      <4>4. e = Release(i) => e.input = i
        BY PressIsNoRelease
      <4> QED
        BY <2>1, <2>2, <3>1, <4>1, <4>3, <4>4 DEF Covered, LookedAfter, BeingReleased
    <3>2. CASE ~stopPosted /\ e = Press(i)
      <4>1. (\E a \in live : i \in held[a]) \/ i \in crossed
        BY <1>1, <2>1, <3>2 DEF PressesAreHeld
      <4>2. crossed' = crossed
        BY <2>1, <3>2, PressIsNoRelease
      <4> QED
        BY <2>2, <4>1, <4>2 DEF Covered, LookedAfter
    <3>3. CASE ~stopPosted /\ e # Press(i)
      <4>1. EndsDown(i) /\ e.input # i
        BY <1>1, <2>1, <2>2, <2>5, <3>3, QueuedLast
      <4>2. Covered(i)
        BY <1>1, <4>1 DEF NothingStuck, Covered
      <4>3. e # Release(i)
        BY <4>1, PressIsNoRelease
      <4> QED
        BY <2>1, <2>2, <3>3, <4>1, <4>2, <4>3 DEF Covered, LookedAfter, BeingReleased
    <3> QED
      BY <3>1, <3>2, <3>3
  <2>6. NothingStuck'
    BY <2>5 DEF NothingStuck, Covered
  <2> QED
    BY <2>3, <2>4, <2>6
<1>4. ASSUME Apply PROVE PressesAreHeld' /\ ShutsDownInOrder' /\ NothingStuck'
  <2>1. /\ queue # <<>> /\ inputRunning
        /\ UNCHANGED <<live, held, age, pending, phase, stopPosted, inputRunning, dropped,
                       crossed>>
    BY <1>4 DEF Apply, table, forgets
  <2>2. PressesAreHeld' /\ ShutsDownInOrder'
    BY <1>1, <2>1 DEF PressesAreHeld, ShutsDownInOrder
  <2>3. \A i \in Inputs : EndsDown(i)' => EndsDown(i)
    BY <1>1, <1>4, AppliedInOrder
  <2>4. NothingStuck'
    BY <1>1, <2>1, <2>3 DEF NothingStuck, LookedAfter, BeingReleased
  <2> QED
    BY <2>2, <2>4
<1>5. ASSUME UNCHANGED vars PROVE PressesAreHeld' /\ ShutsDownInOrder' /\ NothingStuck'
  BY <1>1, <1>5 DEF vars, table, worker, forgets, PressesAreHeld, ShutsDownInOrder,
     NothingStuck, EndsDown, LookedAfter, BeingReleased
<1>6. PressesAreHeld' /\ ShutsDownInOrder' /\ NothingStuck'
  BY <1>3, <1>4, <1>5, KeysStep
<1> QED
  BY <1>2, <1>6 DEF KeysInv

\* Whatever order the tasks' steps come in, no key or button is left down that no
\* live session holds and no task is about to release, but one whose press was
\* overtaken by `forget'.
THEOREM NoStuckKeys == Spec => []NothingStuck
<1>1. KeysInv => NothingStuck
  BY DEF KeysInv
<1> QED
  BY <1>1, KeysInit, KeysNext, PTL DEF Spec

\* When the input thread has stopped, what is still down was being released by a
\* task that came too late, or its press was overtaken by `forget'.
THEOREM StopLeavesNothing == Spec => []DownAtStopCameTooLate
<1>1. KeysInv => DownAtStopCameTooLate
  <2> SUFFICES ASSUME KeysInv, ~inputRunning, NEW i \in down
               PROVE  BeingReleased(i) \/ i \in crossed
    BY DEF DownAtStopCameTooLate
  <2>1. TypeOK /\ ShutsDownInOrder /\ NothingStuck /\ i \in Inputs
    BY DEF KeysInv, TypeOK
  <2>2. queue = <<>> /\ phase = "stopped"
    BY <2>1 DEF ShutsDownInOrder
  <2>3. \A a \in live : held[a] = {}
    BY <2>1, <2>2 DEF ShutsDownInOrder
  <2>4. EndsDown(i)
    BY <2>2 DEF EndsDown
  <2> QED
    BY <2>1, <2>3, <2>4 DEF NothingStuck, LookedAfter
<1> QED
  BY <1>1, KeysInit, KeysNext, PTL DEF Spec
=============================================================================
