------------------------------- MODULE Link -------------------------------
(***************************************************************************)
(* Phones and the server over UDP, from the handshake to the answer of a   *)
(* clipboard request (telepad-server/src/server.rs and clipboard.rs,       *)
(* telepad-crypto/src/lib.rs).                                             *)
(*                                                                         *)
(* The receive loop handles one datagram after the other.  A text from a   *)
(* phone goes to the clipboard's thread at once; a request for the text    *)
(* becomes a task of its own, which asks that thread, waits no longer than *)
(* GET_TIMEOUT, and answers to the address the request came from, under    *)
(* the keys of the session that is there by then.                          *)
(*                                                                         *)
(* The network keeps every datagram: it can be delivered never, late, out  *)
(* of order and more than once; what the server sends under a session's    *)
(* keys changes no phone, and is kept for one step only. Keys are numbered *)
(* in the order the server made them; what is encrypted under other keys   *)
(* cannot be read. Whom the pairing rules let in is Pairing's subject,     *)
(* what is held down and which session makes room DesktopServer's.         *)
(***************************************************************************)
EXTENDS Wire

CONSTANTS
    Addrs, Phones,
    Texts,                      \* what is copied, on the PC or on a phone: sequences of code points
    MAX_CLIPBOARD_REPLY_BYTES,  \* bytes of a text the server sends
    MaxSends,                   \* bound: datagrams the phones send
    MaxKeys                     \* bound: handshakes the server answers

ASSUME LinkAssumption ==
    /\ MaxSends \in Nat /\ MaxKeys \in Nat
    /\ MAX_CLIPBOARD_REPLY_BYTES \in Nat /\ MAX_CLIPBOARD_REPLY_BYTES =< MAX_PAYLOAD
    /\ \A t \in Texts : IsText(t)

VARIABLES
    net,        \* the datagrams
    out,        \* those the server has just sent under the keys of a session
    sent,       \* how many the phones have sent
    link,       \* what each phone knows: its address, its handshake, and its keys (0 is none)
    keys,       \* the keys made so far: the handshake they answer and the nonces accepted under them
    sessions,   \* the keys of the session of each address, 0 for none
    paired,     \* phones the server knows
    opened,     \* whether the clipboard has been opened
    clipboard,  \* its text
    queue,      \* what its thread is asked to do
    gets,       \* the tasks that answer requests
    fresh,      \* history: texts nobody has copied yet
    old         \* history: texts that a text received since replaces

phones == <<link, sent, fresh>>
pc == <<opened, clipboard, queue, gets>>
vars == <<net, out, phones, keys, sessions, paired, pc, old>>

Datagram(to, a, tag, key, nonce, m, body) ==
    [to |-> to, addr |-> a, tag |-> tag, key |-> key, nonce |-> nonce, meant |-> m, body |-> body]
Message(type, args) == [type |-> type, args |-> args]
InForce(k) == \E a \in Addrs : sessions[a] = k

TypeOK ==
    /\ sent \in 0 .. MaxSends
    /\ link \in [Phones -> [addr : Addrs, init : 0 .. MaxSends, key : 0 .. MaxKeys]]
    /\ keys \in Seq([phone : Phones, init : 1 .. MaxSends, accepted : SUBSET (1 .. MaxSends)])
    /\ sessions \in [Addrs -> 0 .. Len(keys)]
    /\ paired \subseteq Phones
    /\ opened \in BOOLEAN
    /\ clipboard \in Texts \cup {Absent}
    /\ fresh \subseteq Texts /\ old \subseteq Texts
    /\ queue \in Seq([id : 0 .. MaxSends, text : Texts \cup {Absent}])
    /\ gets \subseteq [id : 1 .. MaxSends, addr : Addrs, key : 1 .. MaxKeys, text : Texts \cup {Absent},
                      stage : {"spawned", "waiting", "answered"}, stale : SUBSET Texts]

Init ==
    /\ net = {} /\ out = {} /\ sent = 0 /\ keys = <<>>
    /\ link \in [Phones -> [addr : Addrs, init : {0}, key : {0}]]
    /\ sessions = [a \in Addrs |-> 0]
    /\ paired = Phones
    /\ opened = FALSE /\ clipboard = Absent /\ queue = <<>> /\ gets = {}
    /\ fresh = Texts /\ old = {}

---------------------------------------------------------------------------
(* The phones.                                                             *)

\* A handshake begins: what it answers is known by its number.
Hello(p) ==
    /\ sent < MaxSends /\ sent' = sent + 1
    /\ link' = [link EXCEPT ![p].init = sent + 1, ![p].key = 0]
    /\ net' = net \cup {Datagram("server", link[p].addr, WIRE_HANDSHAKE_INIT, 0, sent + 1, Message(p, <<>>), <<>>)}
    /\ UNCHANGED <<keys, sessions, paired, pc, fresh, old>>

\* The answer to the handshake the phone waits for; any refusal ends the wait.
HearHandshake(p) ==
    \E d \in net :
        /\ d.to = "phone" /\ d.addr = link[p].addr /\ link[p].init # 0 /\ link[p].key = 0
        /\ \/ d.tag = WIRE_HANDSHAKE_RESP /\ d.nonce = link[p].init /\ link' = [link EXCEPT ![p].key = d.key]
           \/ d.tag = WIRE_PAIRING_REJECTED /\ link' = [link EXCEPT ![p].init = 0]
        /\ UNCHANGED <<net, sent, keys, sessions, paired, pc, fresh, old>>

Say(p, m) ==
    /\ link[p].key # 0 /\ ClientEncode(m) # <<>>
    /\ sent < MaxSends /\ sent' = sent + 1
    /\ net' = net \cup {Datagram("server", link[p].addr, WIRE_TRANSPORT, link[p].key, sent + 1, m, ClientEncode(m))}
    /\ UNCHANGED <<link, keys, sessions, paired, pc, old>>
SayText(p) == \E t \in fresh : Say(p, Message("ClipboardSet", <<t>>)) /\ fresh' = fresh \ {t}
Ask(p) == \E q \in {"ClipboardGet", "NowPlayingQuery", "HostInfoQuery"} : Say(p, Message(q, <<>>)) /\ UNCHANGED fresh

---------------------------------------------------------------------------
(* The receive loop.                                                       *)

\* What the responder makes of a first message, which may be one it has answered before: new keys.
respond_handshake_with_payload(d) == [phone |-> d.meant.type, init |-> d.nonce, accepted |-> {}]

\* The phone is let in, being known or having paired, and its session takes its address over; or it is refused.
handshake(d) ==
    /\ d.tag = WIRE_HANDSHAKE_INIT
    /\ out' = {}
    /\ LET new == respond_handshake_with_payload(d)
       IN \/ /\ Len(keys) < MaxKeys
             /\ paired' = paired \cup {new.phone}
             /\ keys' = Append(keys, new)
             /\ sessions' = [sessions EXCEPT ![d.addr] = Len(keys')]
             /\ net' = net \cup {Datagram("phone", d.addr, WIRE_HANDSHAKE_RESP, Len(keys'), d.nonce,
                                          Message("Reply", <<>>), <<>>)}
          \/ /\ new.phone \notin paired
             /\ net' = net \cup {Datagram("phone", d.addr, WIRE_PAIRING_REJECTED, 0, 0, Message("No", <<>>), <<>>)}
             /\ UNCHANGED <<paired, keys, sessions>>
    /\ UNCHANGED <<phones, pc, old>>

\* A reply under the keys of the session that the address has now; in a mutated form, under those of the request.
Clipped(m) == IF m.type # "ClipboardData" THEN m
              ELSE Message(m.type, <<truncate_to_char_boundary(m.args[1], MAX_CLIPBOARD_REPLY_BYTES)>>)
Sealed(a, k, m) == IF k = 0 THEN {} ELSE {Datagram("phone", a, WIRE_TRANSPORT, k, 0, m, ServerEncode(Clipped(m)))}
send_reply(a, k, m) == Sealed(a, sessions[a], m)

host_info == Message("HostInfo", <<1, 1, 2, 1, 7>>)
NothingPlaying == NowPlaying(0, -1, -1, <<Absent, Absent, Absent, Absent>>)

\* The thread is asked to set the text before the next datagram is read: what is there, or on its way, is old.
\* In a mutated form a thread that has something to do is not asked.
SetIfIdle(text) ==
    /\ queue' = IF queue = <<>> THEN <<[id |-> 0, text |-> text]>> ELSE queue
    /\ old' = old \cup (({clipboard} \cup {queue[i].text : i \in DOMAIN queue}) \ {Absent})
set(text) ==
    /\ queue' = Append(queue, [id |-> 0, text |-> text])
    /\ old' = old \cup (({clipboard} \cup {queue[i].text : i \in DOMAIN queue}) \ {Absent})

\* A request starts a task, which asks the thread in its own time.
spawn(d) ==
    gets' = gets \cup {[id |-> d.nonce, addr |-> d.addr, key |-> d.key, stage |-> "spawned", text |-> Absent, stale |-> old]}

\* What is done with a message that has been decrypted and decoded; what cannot be decoded is dropped, and the
\* rest is for the input worker.
Dispatch(d, m) ==
    CASE m.type = "ClipboardSet" -> set(m.args[1]) /\ UNCHANGED gets /\ out' = {}
      [] m.type = "ClipboardGet" -> spawn(d) /\ UNCHANGED <<queue, old>> /\ out' = {}
      [] m.type = "NowPlayingQuery" -> out' = send_reply(d.addr, d.key, NothingPlaying)
                                       /\ UNCHANGED <<queue, gets, old>>
      [] m.type = "HostInfoQuery" -> out' = send_reply(d.addr, d.key, host_info) /\ UNCHANGED <<queue, gets, old>>
      [] OTHER -> out' = {} /\ UNCHANGED <<queue, gets, old>>

\* A packet counts when it was encrypted for the session of its address and its nonce is new.
transport(d) ==
    LET k == sessions[d.addr]
    IN /\ d.tag = WIRE_TRANSPORT /\ k # 0 /\ d.key = k /\ d.nonce \notin keys[k].accepted
       /\ keys' = [keys EXCEPT ![k].accepted = @ \cup {d.nonce}]
       /\ Dispatch(d, ClientDecode(d.body))
       /\ UNCHANGED <<net, phones, sessions, paired, opened, clipboard>>

Receive == \E d \in net : d.to = "server" /\ (handshake(d) \/ transport(d))

\* The owner unpairs every phone and ends the sessions; when the list cannot be saved, they go on.
forget_all ==
    /\ paired # {} /\ paired' = {}
    /\ sessions' \in {[a \in Addrs |-> 0], sessions}
    /\ UNCHANGED <<net, phones, keys, pc, old>>

\* A session that has been silent ends.
expire_idle ==
    /\ \E a \in Addrs : sessions[a] # 0 /\ sessions' = [sessions EXCEPT ![a] = 0]
    /\ UNCHANGED <<net, phones, keys, paired, pc, old>>

---------------------------------------------------------------------------
(* The clipboard's thread, and the tasks that wait for it.                 *)

Stage(g, stage) == (gets \ {g}) \cup {[g EXCEPT !.stage = stage]}

\* get(): the task asks.
Asks ==
    \E g \in gets :
        /\ g.stage = "spawned"
        /\ queue' = Append(queue, [id |-> g.id, text |-> Absent]) /\ gets' = Stage(g, "waiting")
        /\ UNCHANGED <<net, phones, keys, sessions, paired, opened, clipboard, old>>

\* What a text that could not be set was to replace is not old after all.
Kept == /\ clipboard' = clipboard /\ old' = old \ {clipboard}
        /\ gets' = {[g EXCEPT !.stale = @ \ {clipboard}] : g \in gets}
SetText(text) == IF opened' THEN \/ clipboard' = text /\ UNCHANGED <<gets, old>>
                                 \/ Kept
                            ELSE Kept

\* The text, or none: nothing to read, no clipboard, an error.  A task that gave up is not there any more.
GetText(id) ==
    /\ \E text \in IF opened' THEN {clipboard, Absent} ELSE {Absent} :
          gets' = {g \in gets : g.id # id} \cup
                  {[g EXCEPT !.stage = "answered", !.text = text] : g \in {x \in gets : x.id = id /\ text # Absent}}
    /\ UNCHANGED <<clipboard, old>>

\* Requests are served in the order they come in.  The clipboard is opened when there is something to do, and
\* tried again, not too soon, when it could not be.
Serve ==
    /\ queue # <<>> /\ queue' = Tail(queue)
    /\ opened' \in IF opened THEN {TRUE} ELSE BOOLEAN
    /\ LET r == Head(queue) IN IF r.id = 0 THEN SetText(r.text) ELSE GetText(r.id)
    /\ UNCHANGED <<net, phones, keys, sessions, paired>>

\* The answer goes out, or GET_TIMEOUT passes without one.
Answer ==
    \E g \in gets :
        /\ g.stage = "answered" /\ gets' = gets \ {g}
        /\ out' = send_reply(g.addr, g.key, Message("ClipboardData", <<g.text>>))
        /\ UNCHANGED <<net, phones, keys, sessions, paired, opened, clipboard, queue, old>>
GiveUp ==
    \E g \in gets : /\ g.stage = "waiting" /\ gets' = gets \ {g}
                    /\ UNCHANGED <<net, phones, keys, sessions, paired, opened, clipboard, queue, old>>

\* Somebody copies a text on the PC.
Copy ==
    \E t \in fresh : /\ clipboard' = t /\ fresh' = fresh \ {t}
                     /\ UNCHANGED <<net, link, sent, keys, sessions, paired, opened, queue, gets, old>>

Silent == \/ \E p \in Phones : Hello(p) \/ HearHandshake(p) \/ SayText(p) \/ Ask(p)
          \/ forget_all \/ expire_idle
          \/ Asks \/ Serve \/ GiveUp \/ Copy
Next == Receive \/ Answer \/ (Silent /\ out' = {})

Spec == Init /\ [][Next]_vars

---------------------------------------------------------------------------

\* What one side encodes is what the other decodes, and a text for a phone is cut to the bytes a datagram can carry
\* and never through a character: what arrives is as much of the clipboard as fits.
AsMeant(read, meant) ==
    IF meant.type # "ClipboardData" THEN read = meant
    ELSE LET text == read.args[1]
             all == meant.args[1]
             fits(t) == Len(as_bytes(t)) =< MAX_CLIPBOARD_REPLY_BYTES
         IN /\ read.type = meant.type /\ fits(text) /\ IsPrefix(text, all)
            /\ Len(text) < Len(all) => ~fits(SubSeq(all, 1, Len(text) + 1))
ReadAsMeant ==
    [][\A d \in (net' \ net) \cup out' : d.tag = WIRE_TRANSPORT =>
           AsMeant(IF d.to = "server" THEN ClientDecode(d.body) ELSE ServerDecode(d.body), d.meant)]_vars

\* A phone that sends a text and then asks for the text is never given what its own text has replaced, however
\* the receive loop, the tasks and the clipboard's thread take turns, as long as the clipboard takes the text.
AnswerIsNotOld == \A g \in gets : g.stage = "answered" => g.text \notin g.stale

\* A session that has ended, forgotten, expired or replaced by another, is sent nothing more: a request that was
\* waiting for the clipboard meanwhile is answered under the keys in force, or not at all.
EndedHearsNothing == \A d \in out : sessions[d.addr] = d.key
===========================================================================
