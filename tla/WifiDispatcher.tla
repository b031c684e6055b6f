---------------------------- MODULE WifiDispatcher ----------------------------
(***************************************************************************)
(* The phone's connection to a PC (WifiInputDispatcher.kt): asked to       *)
(* connect and to disconnect by the main thread, kept alive and rebuilt by *)
(* coroutines on other threads.  Every request takes a new generation, so  *)
(* that work for an older one knows to stop; the link and the jobs around  *)
(* it change under a lock, what is shown to the user changes without it.   *)
(*                                                                         *)
(* The main thread does one thing at a time; a request waits for its       *)
(* attempts without occupying it.  Its caller may give up waiting (its     *)
(* coroutine is cancelled): the attempts still run to their end, but       *)
(* withContext then throws their result away and raises the cancellation,  *)
(* as it does whenever it has changed the dispatcher or its own job is     *)
(* cancelled.                                                              *)
(*                                                                         *)
(* A handshake succeeds, is refused or stays unanswered: the PC's choice.  *)
(* A socket is modelled from the moment its handshake succeeds; the others *)
(* are closed within the attempt.  Time is a choice: a link is found       *)
(* silent, and reconnecting given up, at any moment.                       *)
(***************************************************************************)
EXTENDS Naturals, Sequences, FiniteSets

CONSTANTS
  PCs,           \* ConnectionTarget.Wifi values
  NoPC,          \* no target
  MaxRequests,   \* bound: connects and disconnects
  MaxLinks       \* bound: handshakes that succeed

ASSUME WifiDispatcherAssumption ==
  /\ NoPC \notin PCs
  /\ MaxRequests \in Nat
  /\ MaxLinks \in Nat

VARIABLES
  generation,    \* WifiInputDispatcher.generation
  target,        \* the PC the user wants, or NoPC
  link,          \* the live link, or 0; links are numbered as they come up
  links,         \* the sockets of the links: to which PC, for which request, open
  connects,      \* connectTo calls that wait for their attempts
  reconnects,    \* reconnectLoop coroutines
  publishing,    \* links whose loops have seen that they may publish
  main,          \* what the main thread still has to show
  state,         \* connectionState
  \* history, read by the properties only
  established,   \* PCs with which a handshake has succeeded
  reported,      \* PCs for which connectTo has answered Connected
  abandoned      \* the wanted request's caller was cancelled, its outcome thrown away

under_lock == <<generation, target, link>>
wifi_vars == <<under_lock, links, connects, reconnects, publishing, main, state,
          established, reported, abandoned>>

Links == DOMAIN links
Shown == [kind : {"Connecting", "Connected", "Reconnecting", "Failed"}, pc : PCs]
Disconnected == [kind |-> "Disconnected", pc |-> NoPC]
Idle == [kind |-> "idle", pc |-> NoPC]

\* link: the link the handshake gave, or 0.
Connects == [mine : 1..MaxRequests, pc : PCs, cancelled : BOOLEAN, link : 0..MaxLinks,
             step : {"attempting", "established", "notPaired", "silent"}]
Reconnects == [mine : 1..MaxRequests, pc : PCs, cancelled : BOOLEAN, link : 0..MaxLinks,
               step : {"top", "wanted", "delay", "attempting", "established",
                       "notPaired"}]

WifiTypeOK ==
  /\ generation \in 0..MaxRequests
  /\ target \in PCs \cup {NoPC}
  /\ links \in Seq([pc : PCs, mine : 1..MaxRequests, open : BOOLEAN])
  /\ Len(links) <= MaxLinks
  /\ link \in {0} \cup Links
  /\ connects \subseteq Connects
  /\ reconnects \subseteq Reconnects
  /\ publishing \subseteq Links
  /\ main \in {Idle, Disconnected} \cup Shown
  /\ state \in {Disconnected} \cup Shown
  /\ established \subseteq PCs
  /\ reported \subseteq PCs
  /\ abandoned \in BOOLEAN

WifiInit ==
  /\ generation = 0
  /\ target = NoPC
  /\ link = 0
  /\ links = <<>>
  /\ connects = {}
  /\ reconnects = {}
  /\ publishing = {}
  /\ main = Idle
  /\ state = Disconnected
  /\ established = {}
  /\ reported = {}
  /\ abandoned = FALSE

-----------------------------------------------------------------------------
(* Under the lock. *)

\* Mutated form: work for an older request is not told.
AlwaysWanted(mine) == TRUE

stillWanted(mine) == generation = mine

\* Mutated form: every link of the request counts as the live one.
OfTheRequest(l) == links[l].mine = generation

Live(l) == link = l

\* Mutated form: the socket is let go of and not closed.
Unclosed(l) == links

\* The links, with the socket of l closed (0 is none).
Closed(l) == [k \in Links |-> IF k = l THEN [links[k] EXCEPT !.open = FALSE]
                                       ELSE links[k]]

\* A handshake with the PC succeeds on a socket that becomes the next link.
NewLink == Len(links) + 1
Opened(pc, mine) == Append(links, [pc |-> pc, mine |-> mine, open |-> TRUE])

\* What a request or a retry has in hands when its attempt ends.
Ended(w, step) ==
  [mine |-> w.mine, pc |-> w.pc, cancelled |-> w.cancelled, step |-> step,
   link |-> IF step = "established" THEN NewLink ELSE 0]

\* A new generation; teardownLocked; the new target.
Teardown(wanted) ==
  /\ generation < MaxRequests
  /\ generation' = generation + 1
  /\ reconnects' = {[r EXCEPT !.cancelled = TRUE] : r \in reconnects}
  /\ links' = Closed(link)
  /\ link' = 0
  /\ target' = wanted
  /\ abandoned' = FALSE

\* onEstablished: the link is the live one now, unless it comes too late.
onEstablished(l, mine) ==
  IF stillWanted(mine)
  THEN link' = l /\ UNCHANGED links
  ELSE links' = Closed(l) /\ UNCHANGED link

-----------------------------------------------------------------------------
(* The main thread. *)

\* begin() answers with the new generation.
begin == generation'

\* connectTo(), up to its wait: a new generation, and Connecting is to be shown.
connectTo(pc) ==
  /\ main = Idle
  /\ ~(target = pc /\ state.kind = "Connected")
  /\ Teardown(pc)
  /\ connects' = connects \cup {[mine |-> begin, pc |-> pc, cancelled |-> FALSE,
                                 link |-> 0, step |-> "attempting"]}
  /\ main' = [kind |-> "Connecting", pc |-> pc]
  /\ UNCHANGED <<publishing, state, established, reported>>

\* connectTo() to the PC that is wanted and shown as connected: nothing to do.
connectToSame(pc) ==
  /\ main = Idle
  /\ target = pc /\ state.kind = "Connected"
  /\ reported' = reported \cup {pc}
  /\ UNCHANGED <<under_lock, links, connects, reconnects, publishing, main, state,
                 established, abandoned>>

disconnect ==
  /\ main = Idle
  /\ Teardown(NoPC)
  /\ main' = Disconnected
  /\ UNCHANGED <<connects, publishing, state, established, reported>>

\* The main thread writes connectionState, having left the lock.
Show ==
  /\ main # Idle
  /\ state' = main
  /\ main' = Idle
  /\ UNCHANGED <<under_lock, links, connects, reconnects, publishing, established,
                 reported, abandoned>>

\* The caller of a waiting connectTo is cancelled.
CallerCancelled(c) ==
  /\ main = Idle /\ ~c.cancelled
  /\ connects' = (connects \ {c}) \cup {[c EXCEPT !.cancelled = TRUE]}
  /\ UNCHANGED <<under_lock, links, reconnects, publishing, main, state, established,
                 reported, abandoned>>

\* The attempts of a request, begun once Connecting has been shown, end on
\* another thread.
AttemptEnds(c, step) ==
  /\ c.step = "attempting"
  /\ ~(main.kind = "Connecting" /\ stillWanted(c.mine))
  /\ step \in {"established", "notPaired", "silent"}
  /\ IF step = "established"
     THEN /\ NewLink <= MaxLinks
          /\ links' = Opened(c.pc, c.mine)
          /\ established' = established \cup {c.pc}
     ELSE UNCHANGED <<links, established>>
  /\ connects' = (connects \ {c}) \cup {Ended(c, step)}
  /\ UNCHANGED <<under_lock, reconnects, publishing, main, state, reported,
                 abandoned>>

\* withContext raises the cancellation; the result is lost.
ResumesCancelled(c) ==
  /\ main = Idle
  /\ c.step # "attempting" /\ c.cancelled
  /\ connects' = connects \ {c}
  /\ abandoned' = (abandoned \/ stillWanted(c.mine))
  /\ UNCHANGED <<under_lock, links, reconnects, publishing, main, state, established,
                 reported>>

\* Mutated form: the caller is told, the user is not.
FailSilently(pc) == UNCHANGED main

fail(pc) == main' = [kind |-> "Failed", pc |-> pc]

\* connectTo(), after its wait.  The main thread changes the generation, so
\* nothing comes between the checks; publish() comes after the lock.
Resumes(c) ==
  /\ main = Idle
  /\ c.step # "attempting" /\ ~c.cancelled
  /\ connects' = connects \ {c}
  /\ IF ~stillWanted(c.mine)
     THEN /\ links' = Closed(c.link)
          /\ UNCHANGED <<link, main, reported>>
     ELSE IF c.step = "established"
     THEN /\ onEstablished(c.link, c.mine)
          /\ main' = [kind |-> "Connected", pc |-> c.pc]
          /\ reported' = reported \cup {c.pc}
     ELSE /\ fail(c.pc)
          /\ UNCHANGED <<link, links, reported>>
  /\ UNCHANGED <<generation, target, reconnects, publishing, state, established,
                 abandoned>>

-----------------------------------------------------------------------------
(* The link's loops, on other threads. *)

\* publish(): the link is still the live one ...
MayPublish(l) ==
  /\ Live(l) /\ links[l].open
  /\ publishing' = publishing \cup {l}
  /\ UNCHANGED <<under_lock, links, connects, reconnects, main, state, established,
                 reported, abandoned>>

\* ... and its state is shown.
Publish(l) ==
  /\ l \in publishing
  /\ publishing' = publishing \ {l}
  /\ state' = [kind |-> "Connected", pc |-> links[l].pc]
  /\ UNCHANGED <<under_lock, links, connects, reconnects, main, established, reported,
                 abandoned>>

\* onLost(), from the heartbeat or from verifyNow: nothing has been heard for too
\* long.  A loop for a link that is not the live one any more does nothing.
onLost(l) ==
  /\ Live(l) /\ stillWanted(links[l].mine)
  /\ link' = 0
  /\ links' = Closed(l)
  /\ reconnects' = reconnects \cup
       {[mine |-> generation, pc |-> links[l].pc, cancelled |-> FALSE, link |-> 0,
         step |-> "top"]}
  /\ UNCHANGED <<generation, target, connects, publishing, main, state, established,
                 reported, abandoned>>

-----------------------------------------------------------------------------
(* reconnectLoop. *)

Becomes(r, step) == reconnects' = (reconnects \ {r}) \cup {[r EXCEPT !.step = step]}

\* Mutated form: a return is missing, and the loop goes on.
GoesOn(r) == Becomes(r, "top")

Ends(r) == reconnects' = reconnects \ {r}

\* The head of the loop.
ReconnectLoop(r) ==
  /\ r.step = "top"
  /\ IF stillWanted(r.mine) THEN Becomes(r, "wanted") ELSE Ends(r)
  /\ UNCHANGED <<under_lock, links, connects, publishing, main, state, established,
                 reported, abandoned>>

\* The time is up: the loop ends with CONNECTION_LOST.
GiveUp(r) ==
  /\ r.step = "wanted"
  /\ state' = [kind |-> "Failed", pc |-> r.pc]
  /\ Ends(r)
  /\ UNCHANGED <<under_lock, links, connects, publishing, main, established, reported,
                 abandoned>>

ShowReconnecting(r) ==
  /\ r.step = "wanted"
  /\ state' = [kind |-> "Reconnecting", pc |-> r.pc]
  /\ Becomes(r, "delay")
  /\ UNCHANGED <<under_lock, links, connects, publishing, main, established, reported,
                 abandoned>>

\* The delay ends the loop when it has been cancelled, and so does the check.
DelayEnds(r) ==
  /\ r.step = "delay"
  /\ IF r.cancelled \/ ~stillWanted(r.mine) THEN Ends(r) ELSE Becomes(r, "attempting")
  /\ UNCHANGED <<under_lock, links, connects, publishing, main, state, established,
                 reported, abandoned>>

\* The attempt ends.  If the loop has been cancelled meanwhile, its result is lost.
ReattemptEnds(r, step) ==
  /\ r.step = "attempting"
  /\ step \in {"established", "notPaired", "top"}
  /\ IF step = "established"
     THEN /\ NewLink <= MaxLinks
          /\ links' = Opened(r.pc, r.mine)
          /\ established' = established \cup {r.pc}
     ELSE UNCHANGED <<links, established>>
  /\ IF r.cancelled THEN Ends(r)
     ELSE reconnects' = (reconnects \ {r}) \cup {Ended(r, step)}
  /\ UNCHANGED <<under_lock, connects, publishing, main, state, reported,
                 abandoned>>

\* Established: onEstablished, and publish() as any loop does.
Reconnected(r) ==
  /\ r.step = "established"
  /\ onEstablished(r.link, r.mine)
  /\ Ends(r)
  /\ UNCHANGED <<generation, target, connects, publishing, main, state, established,
                 reported, abandoned>>

\* The PC has unpaired the phone.
Refused(r) ==
  /\ r.step = "notPaired"
  /\ state' = [kind |-> "Failed", pc |-> r.pc]
  /\ Ends(r)
  /\ UNCHANGED <<under_lock, links, connects, publishing, main, established, reported,
                 abandoned>>

WifiNext ==
  \/ \E pc \in PCs : connectTo(pc)
  \/ \E pc \in PCs : connectToSame(pc)
  \/ disconnect
  \/ Show
  \/ \E c \in connects : CallerCancelled(c)
  \/ \E c \in connects, step \in {"established", "notPaired", "silent"} :
       AttemptEnds(c, step)
  \/ \E c \in connects : ResumesCancelled(c)
  \/ \E c \in connects : Resumes(c)
  \/ \E l \in Links : MayPublish(l)
  \/ \E l \in Links : Publish(l)
  \/ \E l \in Links : onLost(l)
  \/ \E r \in reconnects : ReconnectLoop(r)
  \/ \E r \in reconnects : GiveUp(r)
  \/ \E r \in reconnects : ShowReconnecting(r)
  \/ \E r \in reconnects : DelayEnds(r)
  \/ \E r \in reconnects, step \in {"established", "notPaired", "top"} :
       ReattemptEnds(r, step)
  \/ \E r \in reconnects : Reconnected(r)
  \/ \E r \in reconnects : Refused(r)

WifiSpec == WifiInit /\ [][WifiNext]_wifi_vars

\* Every attempt ends, by its time limits, and so do the retries, which are given
\* up after two minutes; the threads go on.  Nothing obliges the user to act.
Fairness ==
  /\ WF_wifi_vars(Show)
  /\ WF_wifi_vars(\E c \in connects, step \in {"established", "notPaired", "silent"} :
               AttemptEnds(c, step))
  /\ WF_wifi_vars(\E c \in connects : ResumesCancelled(c))
  /\ WF_wifi_vars(\E c \in connects : Resumes(c))
  /\ WF_wifi_vars(\E l \in Links : Publish(l))
  /\ \A g \in 1..MaxRequests :
       /\ WF_wifi_vars(\E r \in reconnects : r.mine = g /\
             (ReconnectLoop(r) \/ ShowReconnecting(r) \/ DelayEnds(r)
                \/ Reconnected(r) \/ Refused(r)
                \/ \E step \in {"established", "notPaired", "top"} :
                      ReattemptEnds(r, step)))
       /\ SF_wifi_vars(\E r \in reconnects : r.mine = g /\ GiveUp(r))

WifiFairSpec == WifiSpec /\ Fairness

-----------------------------------------------------------------------------
(* Properties. *)

\* The live link is open, belongs to the request that is wanted and leads to the
\* PC that is wanted: an older request's handshake never takes over.
LiveLinkIsWanted ==
  link # 0 => /\ links[link].open
              /\ stillWanted(links[link].mine)
              /\ links[link].pc = target

\* Links in the hands of a request or of a retry that has yet to hand them over.
InHands == {c.link : c \in connects} \cup {r.link : r \in reconnects}

\* The sockets that are neither the live one, nor closed, nor in hands.
Leaked == {l \in Links : links[l].open /\ l # link /\ l \notin InHands}

\* While a link is live, no other socket of the same request is open, be it in
\* the hands of a retry or forgotten: the PC never hears the phone twice.
NoSecondConversation ==
  link # 0 => \A l \in Links : links[l].open /\ l # link => ~stillWanted(links[l].mine)

\* At most one loop retries for the request that is wanted, and none does while
\* its link is live.
OneRetryLoop ==
  LET wanted == {r \in reconnects : stillWanted(r.mine)}
  IN /\ Cardinality(wanted) <= 1
     /\ link # 0 => wanted = {}
     /\ \A r \in wanted : r.pc = target

\* Retrying ends, with a link, a refusal or by being given up; and Connecting does
\* not last, unless the caller of the request was cancelled.
Retrying == \E r \in reconnects : stillWanted(r.mine)
AttemptsEnd == (Retrying ~> ~Retrying) /\ []<>(state.kind # "Connecting" \/ abandoned)

\* What connectTo() promises of its attempts ("the attempt owns a socket that
\* must end up either live or closed"): no socket is forgotten open.
SocketsEndLiveOrClosed == Leaked = {}

\* Connecting is shown only while an attempt is under way, unless the caller of
\* the request was cancelled.
ConnectingIsAttempted ==
  state.kind = "Connecting" => connects # {} \/ main # Idle \/ abandoned

\* What the connection manager relies on to remember a PC ("only after the
\* encrypted connection has actually been established").
ReportedIsEstablished == reported \subseteq established
=============================================================================
