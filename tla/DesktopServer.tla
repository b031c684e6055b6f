---------------------------- MODULE DesktopServer ----------------------------
(***************************************************************************)
(* The desktop server at work: its table of sessions and what each session *)
(* holds down (telepad-server/src/sessions.rs), the tasks that change the  *)
(* table under one lock and act on the result after releasing it           *)
(* (server.rs), and the thread that applies input to the PC in the order   *)
(* it was queued (input.rs).                                               *)
(*                                                                         *)
(* Three tasks run in parallel on a multi-thread runtime:                  *)
(*   rx       the receive loop: handshakes, packets, and the shutdown;     *)
(*   maint    the housekeeping that expires sessions and stale holds;      *)
(*   console  the owner's commands, of which `forget' ends every session.  *)
(* Each decides under the lock which key and button events follow and      *)
(* queues them one by one once it has let go of it: pending[t] holds those *)
(* a task has decided on and not queued yet.                               *)
(*                                                                         *)
(* Only authenticated packets change anything, so the network is the       *)
(* choice of the next one.  Who is paired is Pairing's subject: here an    *)
(* unknown phone is let in or not.  A key and a mouse button are alike:    *)
(* an input, down or up.  Time is the age of each session since its last   *)
(* packet, counted up to the first age at which it has expired.            *)
(***************************************************************************)
EXTENDS Naturals, Sequences, FiniteSets

CONSTANTS
  Addrs,        \* UDP addresses packets come from
  Phones,       \* static keys
  Inputs,       \* keys and buttons of the PC
  MaxSessions,  \* ServerConfig::max_sessions
  Quiet,        \* ServerConfig::held_input_timeout
  Idle,         \* ServerConfig::session_idle_timeout
  Forgetting,   \* whether the owner uses `forget'
  SavesFail,    \* whether rewriting the list of trusted phones can fail
  MaxPackets    \* bound: handshakes, packets and commands handled

ASSUME ServerAssumption ==
  /\ IsFiniteSet(Addrs)
  /\ MaxSessions \in Nat \ {0}
  /\ Quiet \in Nat
  /\ Idle \in Nat
  /\ Quiet < Idle
  /\ Forgetting \in BOOLEAN
  /\ SavesFail \in BOOLEAN
  /\ MaxPackets \in Nat

VARIABLES
  live,          \* addresses with a session
  owner,         \* the phone of each session
  held,          \* what each session has pressed and not released
  age,           \* time since each session was last heard
  trusted,       \* phones that are paired
  pending,       \* events each task has decided on and not queued yet
  phase,         \* how far the receive loop is
  queue,         \* the input thread's channel
  stopPosted,    \* Stop is in the channel, behind everything in the queue
  inputRunning,  \* the input thread runs
  down,          \* what is down on the PC
  dropped,       \* history: inputs another task than rx released after Stop
  crossed,       \* history: inputs whose press `forget' overtook
  unsaved,       \* history: phones unpaired by a `forget' that was not saved
  handled        \* packets handled so far, for the bound

table == <<live, owner, held, age>>
worker == <<queue, stopPosted, inputRunning, down, dropped>>
forgets == <<crossed, unsaved>>
vars == <<table, trusted, pending, phase, worker, forgets, handled>>

Tasks == {"rx", "maint", "console"}
Events == [input : Inputs, down : BOOLEAN]
Press(i) == [input |-> i, down |-> TRUE]
Release(i) == [input |-> i, down |-> FALSE]
MaxAge == Idle + 1

TypeOK ==
  /\ live \subseteq Addrs
  /\ owner \in [Addrs -> Phones]
  /\ held \in [Addrs -> SUBSET Inputs]
  /\ age \in [Addrs -> 0..MaxAge]
  /\ trusted \subseteq Phones
  /\ pending \in [Tasks -> SUBSET Events]
  /\ phase \in {"serving", "releasing", "flushing", "stopped"}
  /\ queue \in Seq(Events)
  /\ stopPosted \in BOOLEAN
  /\ inputRunning \in BOOLEAN
  /\ down \subseteq Inputs
  /\ dropped \subseteq Inputs
  /\ crossed \subseteq Inputs
  /\ unsaved \subseteq Phones
  /\ handled \in 0..MaxPackets

Init ==
  /\ live = {}
  /\ owner \in [Addrs -> Phones]
  /\ \A a, b \in Addrs : owner[a] = owner[b]
  /\ held = [a \in Addrs |-> {}]
  /\ age = [a \in Addrs |-> 0]
  /\ trusted \in SUBSET Phones
  /\ pending = [t \in Tasks |-> {}]
  /\ phase = "serving"
  /\ queue = <<>>
  /\ stopPosted = FALSE
  /\ inputRunning = TRUE
  /\ down = {}
  /\ dropped = {}
  /\ crossed = {}
  /\ unsaved = {}
  /\ handled = 0

-----------------------------------------------------------------------------
(* The table (sessions.rs).  Every operation that drops a session or lets   *)
(* go of what it holds returns the releases for the caller to queue.        *)

Full(rest) == Cardinality(rest) >= MaxSessions

\* A session that has been quiet for longest (ties fall either way).
Oldest(rest) == {v \in rest : \A u \in rest : age[u] <= age[v]}

\* Mutated form: what the ended sessions held is forgotten with them.
NoReleases(from) == {}

\* take_release_messages of every session of `from'.
Releases(from) == {Release(i) : i \in UNION {held[a] : a \in from}}

\* Nothing is held any more at the addresses of `from'.
LetGo(from) == [a \in Addrs |-> IF a \in from THEN {} ELSE held[a]]

\* insert: replaces the session of this address and, when the table is full
\* without it, evicts one.
Insert(a, phone, evicted) ==
  LET rest == live \ {a}
      gone == {a} \cup evicted
  IN /\ IF Full(rest) THEN \E v \in Oldest(rest) : evicted = {v} ELSE evicted = {}
     /\ live' = (live \ evicted) \cup {a}
     /\ owner' = [owner EXCEPT ![a] = phone]
     /\ held' = LetGo(gone)
     /\ age' = [age EXCEPT ![a] = 0]
     /\ pending' = [pending EXCEPT !["rx"] = Releases(gone)]

Expired == {a \in live : age[a] > Idle}

Stale == {a \in live : age[a] > Quiet}

-----------------------------------------------------------------------------
(* The tasks.  Each action but the last is one critical section.            *)

Serving(t) == phase = "serving" /\ pending[t] = {}

Handle ==
  /\ handled < MaxPackets
  /\ handled' = handled + 1

\* handshake(): the phone is known, or pairs now, and gets a session.  One that
\* is refused changes nothing here.
Handshake(a, phone) ==
  /\ Serving("rx") /\ Handle
  /\ trusted' = trusted \cup {phone}
  /\ unsaved' = unsaved \ {phone}
  /\ \E evicted \in SUBSET live : Insert(a, phone, evicted)
  /\ UNCHANGED <<phase, worker, crossed>>

\* transport(): the session is looked up by address, is seen alive, and takes
\* note of a press or a release that will be queued after the lock is released.
Transport(a, event) ==
  /\ Serving("rx") /\ Handle
  /\ a \in live
  /\ age' = [age EXCEPT ![a] = 0]
  /\ held' = [held EXCEPT ![a] = IF event.down THEN @ \cup {event.input}
                                               ELSE @ \ {event.input}]
  /\ pending' = [pending EXCEPT !["rx"] = {event}]
  /\ UNCHANGED <<live, owner, trusted, phase, worker, forgets>>

\* transport() with a query, which holds nothing: only the session is seen.
Query(a) ==
  /\ Serving("rx") /\ Handle
  /\ a \in live
  /\ age' = [age EXCEPT ![a] = 0]
  /\ UNCHANGED <<live, owner, held, trusted, pending, phase, worker, forgets>>

\* maintenance(): sessions silent for too long end, and the others let go of
\* what they have held in silence.
Maintain ==
  /\ Serving("maint")
  /\ live' = live \ Expired
  /\ held' = LetGo(Expired \cup Stale)
  /\ pending' = [pending EXCEPT !["maint"] = Releases(Expired \cup Stale)]
  /\ UNCHANGED <<owner, age, trusted, phase, worker, forgets, handled>>

\* Mutated form: the phones are unpaired, their sessions go on.
KeepSessions ==
  /\ pending' = [pending EXCEPT !["console"] = {}]
  /\ UNCHANGED <<live, held>>

\* SessionTable::clear.
ClearSessions ==
  /\ live' = {}
  /\ held' = LetGo(live)
  /\ pending' = [pending EXCEPT !["console"] = Releases(live)]

\* forget_all(): the phones are unpaired and their sessions ended.
ForgetAll ==
  /\ Forgetting /\ pending["console"] = {} /\ Handle
  /\ trusted' = {}
  /\ ClearSessions
  /\ unsaved' = {}
  /\ crossed' = crossed \cup {i \in Inputs : Press(i) \in pending["rx"]}
  /\ UNCHANGED <<owner, age, phase, worker>>

\* forget_all() when the list cannot be saved: it is empty in memory, and the
\* error returns before the sessions are ended.
ForgetFails ==
  /\ Forgetting /\ SavesFail /\ pending["console"] = {} /\ Handle
  /\ trusted' = {}
  /\ unsaved' = unsaved \cup trusted
  /\ UNCHANGED <<table, pending, phase, worker, crossed>>

\* InputWorker::send, for the next of the events a task has decided on.  Behind
\* Stop, or after the thread is gone, it has no effect.
Send(t) ==
  \E e \in pending[t] :
    /\ pending' = [pending EXCEPT ![t] = @ \ {e}]
    /\ queue' = IF stopPosted THEN queue ELSE Append(queue, e)
    /\ dropped' = IF stopPosted /\ t # "rx" THEN dropped \cup {e.input} ELSE dropped
    /\ crossed' = IF e.down \/ Press(e.input) \in pending["rx"]
                  THEN crossed ELSE crossed \ {e.input}
    /\ UNCHANGED <<table, trusted, phase, stopPosted, inputRunning, down, unsaved,
                   handled>>

-----------------------------------------------------------------------------
(* Shutdown, at the end of run(). *)

\* The loop is left between two packets and the housekeeping is aborted: it
\* takes the lock no more, but finishes what it has begun.
Shutdown ==
  /\ Serving("rx")
  /\ phase' = "releasing"
  /\ UNCHANGED <<table, trusted, pending, worker, forgets, handled>>

\* release_all.
ReleaseAll ==
  /\ phase = "releasing"
  /\ phase' = "flushing"
  /\ held' = LetGo(live)
  /\ pending' = [pending EXCEPT !["rx"] = Releases(live)]
  /\ UNCHANGED <<live, owner, age, trusted, worker, forgets, handled>>

\* Mutated form: the thread is told to stop before the releases are sent.
PostStopAtOnce ==
  /\ phase = "flushing"
  /\ phase' = "stopped"
  /\ stopPosted' = TRUE
  /\ UNCHANGED <<table, trusted, pending, queue, inputRunning, down, dropped,
                 forgets, handled>>

\* InputWorker::shutdown.
PostStop ==
  /\ phase = "flushing" /\ pending["rx"] = {}
  /\ phase' = "stopped"
  /\ stopPosted' = TRUE
  /\ UNCHANGED <<table, trusted, pending, queue, inputRunning, down, dropped,
                 forgets, handled>>

-----------------------------------------------------------------------------
(* The input thread. *)

\* Mutated form: what was queued last is applied first.
ApplyNewest ==
  /\ inputRunning /\ queue # <<>>
  /\ LET e == queue[Len(queue)]
     IN down' = IF e.down THEN down \cup {e.input} ELSE down \ {e.input}
  /\ queue' = SubSeq(queue, 1, Len(queue) - 1)
  /\ UNCHANGED <<table, trusted, pending, phase, stopPosted, inputRunning,
                 dropped, forgets, handled>>

Apply ==
  /\ inputRunning /\ queue # <<>>
  /\ LET e == Head(queue)
     IN down' = IF e.down THEN down \cup {e.input} ELSE down \ {e.input}
  /\ queue' = Tail(queue)
  /\ UNCHANGED <<table, trusted, pending, phase, stopPosted, inputRunning,
                 dropped, forgets, handled>>

StopThread ==
  /\ inputRunning /\ stopPosted /\ queue = <<>>
  /\ inputRunning' = FALSE
  /\ UNCHANGED <<table, trusted, pending, phase, queue, stopPosted, down,
                 dropped, forgets, handled>>

-----------------------------------------------------------------------------

\* A second passes.  The code between an unlock and the sends that follow it
\* never waits, so it takes no time on this scale.
Tick ==
  /\ \A t \in Tasks : pending[t] = {}
  /\ \E a \in live : age[a] < MaxAge
  /\ age' = [a \in Addrs |-> IF a \in live /\ age[a] < MaxAge
                             THEN age[a] + 1 ELSE age[a]]
  /\ UNCHANGED <<live, owner, held, trusted, pending, phase, worker, forgets, handled>>

Next ==
  \/ \E a \in Addrs, p \in Phones : Handshake(a, p)
  \/ \E a \in Addrs, e \in Events : Transport(a, e)
  \/ \E a \in Addrs : Query(a)
  \/ Maintain
  \/ ForgetAll
  \/ ForgetFails
  \/ \E t \in Tasks : Send(t)
  \/ Shutdown
  \/ ReleaseAll
  \/ PostStop
  \/ Apply
  \/ StopThread
  \/ Tick

Spec == Init /\ [][Next]_vars

\* The threads and the clock go on.  Nothing obliges a phone or the owner to act.
Fairness ==
  /\ \A t \in Tasks : WF_vars(Send(t))
  /\ WF_vars(Maintain)
  /\ WF_vars(ReleaseAll)
  /\ WF_vars(PostStop)
  /\ WF_vars(Apply)
  /\ WF_vars(StopThread)
  /\ WF_vars(Tick)

FairSpec == Spec /\ Fairness

-----------------------------------------------------------------------------
(* Properties. *)

\* Whether the input is down once the thread has emptied its queue.
EndsDown(i) ==
  \/ /\ i \in down
     /\ \A n \in 1..Len(queue) : queue[n].input # i
  \/ \E n \in 1..Len(queue) :
       /\ queue[n] = Press(i)
       /\ \A m \in n+1..Len(queue) : queue[m].input # i

\* A release of the input is on its way, or came too late to be applied.
BeingReleased(i) ==
  i \in dropped \/ \E t \in Tasks : Release(i) \in pending[t]

\* What is down when the queue is empty is held by a live session, or a task is
\* about to release it.
LookedAfter(i) == (\E a \in live : i \in held[a]) \/ BeingReleased(i)

\* What goes down on the PC stays the business of a live session or of a task
\* that is about to release it, in any order of the tasks' steps: nothing is left
\* stuck by a session that is replaced, evicted or expired.  The one way out is
\* a `forget' that overtook the press, between its note and its queueing, and it
\* lasts until the next release of the same input.
NothingStuck ==
  \A i \in Inputs : EndsDown(i) => LookedAfter(i) \/ i \in crossed

\* What the table is for ("lets the server release it on the client's behalf
\* instead of leaving a mouse button or modifier stuck down on the PC"): without
\* the exception.
ReleasedOnItsBehalf ==
  \A i \in Inputs : EndsDown(i) => LookedAfter(i)

\* The table never outgrows its limit, whatever order phones come in.
CapacityRespected == Cardinality(live) <= MaxSessions

\* Sessions belong to paired phones: unpairing a phone takes away its session,
\* unless the empty list could not be saved, when forget_all() stops half-way.
SessionsOfPairedPhones == \A a \in live : owner[a] \in trusted \cup unsaved

\* When the input thread has stopped, what is still down was being released by
\* a task that came too late, or pressed after a `forget': run() itself leaves
\* nothing that a session held.
DownAtStopCameTooLate ==
  ~inputRunning => \A i \in down : BeingReleased(i) \/ i \in crossed

\* Phones that fall silent, with fingers on keys or without, leave nothing down
\* on the PC for good, as long as the server serves and `forget' has overtaken no
\* press; and their sessions end, whether or not `forget' can save the list.
SilenceLetsGo == <>[]((down \subseteq crossed /\ live = {}) \/ phase # "serving")
=======
