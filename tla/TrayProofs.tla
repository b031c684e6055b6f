------------------------------- MODULE TrayProofs -------------------------------
(***************************************************************************)
(* Theorems about Tray, for any number of copies and of runs of --quit,    *)
(* whatever the copies find, and however many of them are killed.          *)
(***************************************************************************)
EXTENDS Tray, TLAPS

\* Copies that have a key to serve with, and those that may have a page.
Keyed == {"binding", "paging", "tray", "ready", "up", "leaving"}
Paged == {"tray", "ready", "up"}

\* One key: it is made where there is none, and by one copy where hard links exclude the others.
KeyInv ==
    /\ world.key # NoFile => key # NoFile /\ key.of = world.key.of
                              /\ (key = world.key \/ key.form = "protected")
    /\ \A c \in Copies :
           /\ pc[c] = "keying" => world.key = NoFile
           /\ pc[c] = "renaming" => world.key = NoFile /\ ~world.links
           /\ pc[c] \in Keyed => key # NoFile /\ (world.links => key.of = ident[c])
           /\ server[c] # "off" => pc[c] \in Keyed \ {"binding"}
           /\ task[c] # "none" => pc[c] \in Paged \cup {"leaving"}

\* Who answers, and who has been asked to quit.
PageInv ==
    /\ \A c \in page : pc[c] \in Paged
    /\ \A q \in Askers :
           /\ asker[q] \in {"waiting", "Done"} => target[q] \in Copies /\ target[q] \in quitting
           /\ asker[q] = "waiting" => target[q] \in page \/ pc[target[q]] \in {"leaving", "ended"}
           /\ asker[q] = "Done" =>
                  q \in late \/ (target[q] \notin page /\ pc[target[q]] \in {"leaving", "ended"})

\* What is removed is the address that was read, unless another copy has announced itself since.
FileInv ==
    \A d \in Copies : task[d] = "removing" => file \in {d, Nobody} \cup overlap

TrayInv == TypeOK /\ KeyInv /\ PageInv /\ FileInv
-----------------------------------------------------------------------------
(* Typing. *)

LEMMA InitTyped == Init => TypeOK
BY TrayAssumption DEF Init, TypeOK

LEMMA NextTyped == TypeOK /\ [Next]_vars => TypeOK'
<1> SUFFICES ASSUME TypeOK, [Next]_vars PROVE TypeOK'
  OBVIOUS
<1> USE TrayAssumption DEF TypeOK
<1>1. ASSUME NEW c \in Copies, Read(c) PROVE TypeOK'
  BY <1>1 DEF Read, running_page, answers, Goto, copy, identity, asking, past
<1>2. ASSUME NEW c \in Copies, ConsoleStarts(c) PROVE TypeOK'
  BY <1>2 DEF ConsoleStarts, Goto, copy, identity, asking, past
<1>3. ASSUME NEW c \in Copies, LooksForKey(c) PROVE TypeOK'
  BY <1>3 DEF LooksForKey, Loads, Goto, copy, identity, asking, past
<1>4. ASSUME NEW c \in Copies, WritesKey(c) PROVE TypeOK'
  BY <1>4 DEF WritesKey, Loads, Writes, Goto, copy, identity, asking, past
<1>5. ASSUME NEW c \in Copies, RenamesKey(c) PROVE TypeOK'
  BY <1>5 DEF RenamesKey, Writes, Goto, copy, identity, asking, past
<1>6. ASSUME NEW c \in Copies, Bind(c) PROVE TypeOK'
  BY <1>6 DEF Bind, Goto, copy, identity, asking, past
<1>7. ASSUME NEW c \in Copies, Announce(c) PROVE TypeOK'
  BY <1>7 DEF Announce, announced, Goto, copy, identity, asking, past
<1>8. ASSUME NEW c \in Copies, Ready(c) PROVE TypeOK'
  BY <1>8 DEF Ready, Goto, copy, identity, asking, past
<1>9. ASSUME NEW c \in Copies, TrayIsUp(c) PROVE TypeOK'
  BY <1>9 DEF TrayIsUp, Stops, Goto, copy, identity, asking, past
<1>10. ASSUME NEW c \in Copies, StartFails(c) PROVE TypeOK'
  BY <1>10 DEF StartFails, Goto, copy, identity, asking, past
<1>11. ASSUME NEW c \in Copies, Quit(c) PROVE TypeOK'
  BY <1>11 DEF Quit, BeginQuit, Goto, copy, identity, asking, past
<1>12. ASSUME NEW c \in Copies, ConsoleQuits(c) PROVE TypeOK'
  BY <1>12 DEF ConsoleQuits, BeginQuit, Goto, copy, identity, asking, past
<1>13. ASSUME NEW c \in Copies, Withdraw(c) PROVE TypeOK'
  BY <1>13 DEF Withdraw, Goto, copy, identity, asking, past
<1>14. ASSUME NEW c \in Copies, Remove(c) PROVE TypeOK'
  BY <1>14 DEF Remove, Goto, copy, identity, asking, past
<1>15. ASSUME NEW c \in Copies, ServerStops(c) PROVE TypeOK'
  BY <1>15 DEF ServerStops, Goto, copy, identity, asking, past
<1>16. ASSUME NEW c \in Copies, StopIcon(c) PROVE TypeOK'
  BY <1>16 DEF StopIcon, Stops, Goto, copy, identity, asking, past
<1>17. ASSUME NEW c \in Copies, Exit(c) PROVE TypeOK'
  BY <1>17 DEF Exit, Over, Goto, copy, identity, asking, past
<1>18. ASSUME NEW c \in Copies, Kill(c) PROVE TypeOK'
  BY <1>18 DEF Kill, Over, Running, Goto, copy, identity, asking, past
<1>19. ASSUME NEW q \in Askers, AskerReads(q) PROVE TypeOK'
  BY <1>19 DEF AskerReads, Says, running_page, answers, Goto, copy, identity, asking, past
<1>20. ASSUME NEW q \in Askers, AskerSends(q) PROVE TypeOK'
  BY <1>20 DEF AskerSends, Says, answers, BeginQuit, Goto, copy, identity, asking, past
<1>21. ASSUME NEW q \in Askers, AskerWaits(q) PROVE TypeOK'
  BY <1>21 DEF AskerWaits, Says, answers, Goto, copy, identity, asking, past
<1>22. CASE UNCHANGED vars
  BY <1>22 DEF vars, copy, identity, asking, past
<1> QED
  BY <1>1, <1>2, <1>3, <1>4, <1>5, <1>6, <1>7, <1>8, <1>9, <1>10, <1>11, <1>12, <1>13, <1>14, <1>15, <1>16, <1>17, <1>18, <1>19, <1>20, <1>21, <1>22 DEF Next, Starting, Quitting, Asking

-----------------------------------------------------------------------------
(* Who answers, and the file with the address. *)

LEMMA InitPage == Init => PageInv /\ FileInv
BY DEF Init, PageInv, FileInv

LEMMA NextPage == TypeOK /\ KeyInv /\ PageInv /\ [Next]_vars => PageInv'
<1> SUFFICES ASSUME TypeOK, KeyInv, PageInv, [Next]_vars PROVE PageInv'
  OBVIOUS
<1>task. \A c \in Copies : task[c] # "none" => pc[c] \in {"tray", "ready", "up", "leaving"}
  BY DEF KeyInv, Paged
<1>type. /\ DOMAIN pc = Copies /\ DOMAIN asker = Askers
         /\ target \in [Askers -> Copies \cup {Nobody}] /\ page \subseteq Copies
  BY DEF TypeOK
<1> USE DEF PageInv, Paged
<1>1. ASSUME NEW c \in Copies, Read(c) PROVE PageInv'
  BY <1>1, <1>type, <1>task DEF Read, running_page, answers, Goto, copy, identity, asking, past
<1>2. ASSUME NEW c \in Copies, ConsoleStarts(c) PROVE PageInv'
  BY <1>2, <1>type, <1>task DEF ConsoleStarts, Goto, copy, identity, asking, past
<1>3. ASSUME NEW c \in Copies, LooksForKey(c) PROVE PageInv'
  BY <1>3, <1>type, <1>task DEF LooksForKey, Loads, Goto, copy, identity, asking, past
<1>4. ASSUME NEW c \in Copies, WritesKey(c) PROVE PageInv'
  BY <1>4, <1>type, <1>task DEF WritesKey, Loads, Writes, Goto, copy, identity, asking, past
<1>5. ASSUME NEW c \in Copies, RenamesKey(c) PROVE PageInv'
  BY <1>5, <1>type, <1>task DEF RenamesKey, Writes, Goto, copy, identity, asking, past
<1>6. ASSUME NEW c \in Copies, Bind(c) PROVE PageInv'
  BY <1>6, <1>type, <1>task DEF Bind, Goto, copy, identity, asking, past
<1>7. ASSUME NEW c \in Copies, Announce(c) PROVE PageInv'
  BY <1>7, <1>type, <1>task DEF Announce, announced, Goto, copy, identity, asking, past
<1>8. ASSUME NEW c \in Copies, Ready(c) PROVE PageInv'
  BY <1>8, <1>type, <1>task DEF Ready, Goto, copy, identity, asking, past
<1>9. ASSUME NEW c \in Copies, TrayIsUp(c) PROVE PageInv'
  BY <1>9, <1>type, <1>task DEF TrayIsUp, Stops, Goto, copy, identity, asking, past
<1>10. ASSUME NEW c \in Copies, StartFails(c) PROVE PageInv'
  BY <1>10, <1>type, <1>task DEF StartFails, Goto, copy, identity, asking, past
<1>11. ASSUME NEW c \in Copies, Quit(c) PROVE PageInv'
  BY <1>11, <1>type, <1>task DEF Quit, BeginQuit, Goto, copy, identity, asking, past
<1>12. ASSUME NEW c \in Copies, ConsoleQuits(c) PROVE PageInv'
  BY <1>12, <1>type, <1>task DEF ConsoleQuits, BeginQuit, Goto, copy, identity, asking, past
<1>13. ASSUME NEW c \in Copies, Withdraw(c) PROVE PageInv'
  BY <1>13, <1>type, <1>task DEF Withdraw, Goto, copy, identity, asking, past
<1>14. ASSUME NEW c \in Copies, Remove(c) PROVE PageInv'
  BY <1>14, <1>type, <1>task DEF Remove, Goto, copy, identity, asking, past
<1>15. ASSUME NEW c \in Copies, ServerStops(c) PROVE PageInv'
  BY <1>15, <1>type, <1>task DEF ServerStops, Goto, copy, identity, asking, past
<1>16. ASSUME NEW c \in Copies, StopIcon(c) PROVE PageInv'
  BY <1>16, <1>type, <1>task DEF StopIcon, Stops, Goto, copy, identity, asking, past
<1>17. ASSUME NEW c \in Copies, Exit(c) PROVE PageInv'
  BY <1>17, <1>type, <1>task DEF Exit, Over, Goto, copy, identity, asking, past
<1>18. ASSUME NEW c \in Copies, Kill(c) PROVE PageInv'
  BY <1>18, <1>type, <1>task DEF Kill, Over, Running, Goto, copy, identity, asking, past
<1>19. ASSUME NEW q \in Askers, AskerReads(q) PROVE PageInv'
  BY <1>19, <1>type, <1>task DEF AskerReads, Says, running_page, answers, Goto, copy, identity, asking, past
<1>20. ASSUME NEW q \in Askers, AskerSends(q) PROVE PageInv'
  BY <1>20, <1>type, <1>task DEF AskerSends, Says, answers, BeginQuit, Goto, copy, identity, asking, past
<1>21. ASSUME NEW q \in Askers, AskerWaits(q) PROVE PageInv'
  BY <1>21, <1>type, <1>task DEF AskerWaits, Says, answers, Goto, copy, identity, asking, past
<1>22. CASE UNCHANGED vars
  BY <1>22 DEF vars, copy, identity, asking, past
<1> QED
  BY <1>1, <1>2, <1>3, <1>4, <1>5, <1>6, <1>7, <1>8, <1>9, <1>10, <1>11, <1>12, <1>13, <1>14, <1>15, <1>16, <1>17, <1>18, <1>19, <1>20, <1>21, <1>22 DEF Next, Starting, Quitting, Asking


LEMMA NextFile == TypeOK /\ FileInv /\ [Next]_vars => FileInv'
<1> SUFFICES ASSUME TypeOK, FileInv, [Next]_vars PROVE FileInv'
  OBVIOUS
<1>type. DOMAIN task = Copies /\ page \subseteq Copies
  BY DEF TypeOK
<1> USE DEF FileInv
<1>1. ASSUME NEW c \in Copies, Read(c) PROVE FileInv'
  BY <1>1, <1>type DEF Read, running_page, answers, Goto, copy, identity, asking, past
<1>2. ASSUME NEW c \in Copies, ConsoleStarts(c) PROVE FileInv'
  BY <1>2, <1>type DEF ConsoleStarts, Goto, copy, identity, asking, past
<1>3. ASSUME NEW c \in Copies, LooksForKey(c) PROVE FileInv'
  BY <1>3, <1>type DEF LooksForKey, Loads, Goto, copy, identity, asking, past
<1>4. ASSUME NEW c \in Copies, WritesKey(c) PROVE FileInv'
  BY <1>4, <1>type DEF WritesKey, Loads, Writes, Goto, copy, identity, asking, past
<1>5. ASSUME NEW c \in Copies, RenamesKey(c) PROVE FileInv'
  BY <1>5, <1>type DEF RenamesKey, Writes, Goto, copy, identity, asking, past
<1>6. ASSUME NEW c \in Copies, Bind(c) PROVE FileInv'
  BY <1>6, <1>type DEF Bind, Goto, copy, identity, asking, past
<1>7. ASSUME NEW c \in Copies, Announce(c) PROVE FileInv'
  BY <1>7, <1>type DEF Announce, announced, Goto, copy, identity, asking, past
<1>8. ASSUME NEW c \in Copies, Ready(c) PROVE FileInv'
  BY <1>8, <1>type DEF Ready, Goto, copy, identity, asking, past
<1>9. ASSUME NEW c \in Copies, TrayIsUp(c) PROVE FileInv'
  BY <1>9, <1>type DEF TrayIsUp, Stops, Goto, copy, identity, asking, past
<1>10. ASSUME NEW c \in Copies, StartFails(c) PROVE FileInv'
  BY <1>10, <1>type DEF StartFails, Goto, copy, identity, asking, past
<1>11. ASSUME NEW c \in Copies, Quit(c) PROVE FileInv'
  BY <1>11, <1>type DEF Quit, BeginQuit, Goto, copy, identity, asking, past
<1>12. ASSUME NEW c \in Copies, ConsoleQuits(c) PROVE FileInv'
  BY <1>12, <1>type DEF ConsoleQuits, BeginQuit, Goto, copy, identity, asking, past
<1>13. ASSUME NEW c \in Copies, Withdraw(c) PROVE FileInv'
  BY <1>13, <1>type DEF Withdraw, Goto, copy, identity, asking, past
<1>14. ASSUME NEW c \in Copies, Remove(c) PROVE FileInv'
  BY <1>14, <1>type DEF Remove, Goto, copy, identity, asking, past
<1>15. ASSUME NEW c \in Copies, ServerStops(c) PROVE FileInv'
  BY <1>15, <1>type DEF ServerStops, Goto, copy, identity, asking, past
<1>16. ASSUME NEW c \in Copies, StopIcon(c) PROVE FileInv'
  BY <1>16, <1>type DEF StopIcon, Stops, Goto, copy, identity, asking, past
<1>17. ASSUME NEW c \in Copies, Exit(c) PROVE FileInv'
  BY <1>17, <1>type DEF Exit, Over, Goto, copy, identity, asking, past
<1>18. ASSUME NEW c \in Copies, Kill(c) PROVE FileInv'
  BY <1>18, <1>type DEF Kill, Over, Running, Goto, copy, identity, asking, past
<1>19. ASSUME NEW q \in Askers, AskerReads(q) PROVE FileInv'
  BY <1>19, <1>type DEF AskerReads, Says, running_page, answers, Goto, copy, identity, asking, past
<1>20. ASSUME NEW q \in Askers, AskerSends(q) PROVE FileInv'
  BY <1>20, <1>type DEF AskerSends, Says, answers, BeginQuit, Goto, copy, identity, asking, past
<1>21. ASSUME NEW q \in Askers, AskerWaits(q) PROVE FileInv'
  BY <1>21, <1>type DEF AskerWaits, Says, answers, Goto, copy, identity, asking, past
<1>22. CASE UNCHANGED vars
  BY <1>22 DEF vars, copy, identity, asking, past
<1> QED
  BY <1>1, <1>2, <1>3, <1>4, <1>5, <1>6, <1>7, <1>8, <1>9, <1>10, <1>11, <1>12, <1>13, <1>14, <1>15, <1>16, <1>17, <1>18, <1>19, <1>20, <1>21, <1>22 DEF Next, Starting, Quitting, Asking

-----------------------------------------------------------------------------
(* The key. *)

LEMMA InitKey == Init => KeyInv
BY DEF Init, KeyInv, Keyed

\* Reading a key, and even rewriting it, does not change whose it is.
LEMMA LoadsKeep ==
  ASSUME NEW c \in Copies, Loads(c), key # NoFile
  PROVE  /\ key' # NoFile /\ key'.of = key.of /\ (key' = key \/ key'.form = "protected")
         /\ \/ pc' = [pc EXCEPT ![c] = "binding"] /\ ident' = [ident EXCEPT ![c] = key.of]
            \/ pc' = [pc EXCEPT ![c] = "ended"] /\ ident' = ident
<1>1. key' = key \/ (decode_key(key).migrate /\ key' = encode_key(key.of))
  BY DEF Loads
<1>2. decode_key(key).migrate => encode_key(key.of).form = "protected"
  BY DEF decode_key, encode_key
<1>3. encode_key(key.of).of = key.of /\ encode_key(key.of) # NoFile
  BY DEF encode_key, NoFile
<1> QED
  BY <1>1, <1>2, <1>3 DEF Loads, Goto

LEMMA WritesMake ==
  ASSUME NEW c \in Copies, Writes(c)
  PROVE  key' # NoFile /\ key'.of = c
BY DEF Writes, encode_key, NoFile

LEMMA NextKey == TypeOK /\ KeyInv /\ PageInv /\ [Next]_vars => KeyInv'
<1> SUFFICES ASSUME TypeOK, KeyInv, PageInv, [Next]_vars PROVE KeyInv'
  OBVIOUS
<1>type. /\ DOMAIN pc = Copies /\ DOMAIN ident = Copies /\ DOMAIN server = Copies
         /\ DOMAIN task = Copies /\ page \subseteq Copies
  BY DEF TypeOK
<1>page. \A c \in page : pc[c] \in Paged
  BY DEF PageInv
<1> USE DEF KeyInv, Paged, Keyed
<1>1. ASSUME NEW c \in Copies, Read(c) PROVE KeyInv'
  BY <1>1, <1>type, <1>page DEF Read, running_page, answers, Goto, copy, identity, asking, past
<1>2. ASSUME NEW c \in Copies, ConsoleStarts(c) PROVE KeyInv'
  BY <1>2, <1>type, <1>page DEF ConsoleStarts, Goto, copy, identity, asking, past
<1>3. ASSUME NEW c \in Copies, LooksForKey(c) PROVE KeyInv'
  <2>3. CASE key # NoFile
    <3>1. Loads(c) /\ pc[c] = "identity" /\ world' = world /\ server' = server /\ task' = task
      BY <1>3, <2>3 DEF LooksForKey, copy
    <3> QED
      BY <3>1, <2>3, LoadsKeep, <1>type
  <2>4. CASE key = NoFile
    BY <1>3, <2>4, <1>type DEF LooksForKey, Goto, copy, identity
  <2> QED
    BY <2>3, <2>4
<1>4. ASSUME NEW c \in Copies, WritesKey(c) PROVE KeyInv'
  <2>3. CASE key # NoFile
    <3>1. Loads(c) /\ pc[c] = "keying" /\ world' = world /\ server' = server /\ task' = task
      BY <1>4, <2>3 DEF WritesKey, copy
    <3> QED
      BY <3>1, <2>3, LoadsKeep, <1>type
  <2>4. CASE key = NoFile /\ world.links
    <3>1. Writes(c) /\ pc[c] = "keying" /\ world' = world /\ server' = server /\ task' = task
      BY <1>4, <2>4 DEF WritesKey, copy
    <3>2. \A d \in Copies : pc[d] \notin Keyed
      BY <2>4
    <3>3. ident' = [ident EXCEPT ![c] = c] /\ pc' = [pc EXCEPT ![c] = "binding"]
      BY <3>1 DEF Writes, Goto
    <3> QED
      BY <3>1, <3>2, <3>3, <2>4, WritesMake, <1>type
  <2>5. CASE key = NoFile /\ ~world.links
    BY <1>4, <2>5, <1>type DEF WritesKey, Goto, copy, identity
  <2> QED
    BY <2>3, <2>4, <2>5
<1>5. ASSUME NEW c \in Copies, RenamesKey(c) PROVE KeyInv'
  <2>1. Writes(c) /\ pc[c] = "renaming" /\ world' = world /\ server' = server /\ task' = task
    BY <1>5 DEF RenamesKey, copy
  <2>2. ident' = [ident EXCEPT ![c] = c] /\ pc' = [pc EXCEPT ![c] = "binding"]
    BY <2>1 DEF Writes, Goto
  <2> QED
    BY <2>1, <2>2, WritesMake, <1>type
<1>6. ASSUME NEW c \in Copies, Bind(c) PROVE KeyInv'
  BY <1>6, <1>type, <1>page DEF Bind, Goto, copy, identity, asking, past
<1>7. ASSUME NEW c \in Copies, Announce(c) PROVE KeyInv'
  BY <1>7, <1>type, <1>page DEF Announce, announced, Goto, copy, identity, asking, past
<1>8. ASSUME NEW c \in Copies, Ready(c) PROVE KeyInv'
  BY <1>8, <1>type, <1>page DEF Ready, Goto, copy, identity, asking, past
<1>9. ASSUME NEW c \in Copies, TrayIsUp(c) PROVE KeyInv'
  BY <1>9, <1>type, <1>page DEF TrayIsUp, Stops, Goto, copy, identity, asking, past
<1>10. ASSUME NEW c \in Copies, StartFails(c) PROVE KeyInv'
  BY <1>10, <1>type, <1>page DEF StartFails, Goto, copy, identity, asking, past
<1>11. ASSUME NEW c \in Copies, Quit(c) PROVE KeyInv'
  BY <1>11, <1>type, <1>page DEF Quit, BeginQuit, Goto, copy, identity, asking, past
<1>12. ASSUME NEW c \in Copies, ConsoleQuits(c) PROVE KeyInv'
  BY <1>12, <1>type, <1>page DEF ConsoleQuits, BeginQuit, Goto, copy, identity, asking, past
<1>13. ASSUME NEW c \in Copies, Withdraw(c) PROVE KeyInv'
  BY <1>13, <1>type, <1>page DEF Withdraw, Goto, copy, identity, asking, past
<1>14. ASSUME NEW c \in Copies, Remove(c) PROVE KeyInv'
  BY <1>14, <1>type, <1>page DEF Remove, Goto, copy, identity, asking, past
<1>15. ASSUME NEW c \in Copies, ServerStops(c) PROVE KeyInv'
  BY <1>15, <1>type, <1>page DEF ServerStops, Goto, copy, identity, asking, past
<1>16. ASSUME NEW c \in Copies, StopIcon(c) PROVE KeyInv'
  BY <1>16, <1>type, <1>page DEF StopIcon, Stops, Goto, copy, identity, asking, past
<1>17. ASSUME NEW c \in Copies, Exit(c) PROVE KeyInv'
  BY <1>17, <1>type, <1>page DEF Exit, Over, Goto, copy, identity, asking, past
<1>18. ASSUME NEW c \in Copies, Kill(c) PROVE KeyInv'
  BY <1>18, <1>type, <1>page DEF Kill, Over, Running, Goto, copy, identity, asking, past
<1>19. ASSUME NEW q \in Askers, AskerReads(q) PROVE KeyInv'
  BY <1>19, <1>type, <1>page DEF AskerReads, Says, running_page, answers, Goto, copy, identity, asking, past
<1>20. ASSUME NEW q \in Askers, AskerSends(q) PROVE KeyInv'
  BY <1>20, <1>type, <1>page DEF AskerSends, Says, answers, BeginQuit, Goto, copy, identity, asking, past
<1>21. ASSUME NEW q \in Askers, AskerWaits(q) PROVE KeyInv'
  BY <1>21, <1>type, <1>page DEF AskerWaits, Says, answers, Goto, copy, identity, asking, past
<1>22. CASE UNCHANGED vars
  BY <1>22 DEF vars, copy, identity, asking, past
<1> QED
  BY <1>1, <1>2, <1>3, <1>4, <1>5, <1>6, <1>7, <1>8, <1>9, <1>10, <1>11, <1>12, <1>13, <1>14, <1>15, <1>16, <1>17, <1>18, <1>19, <1>20, <1>21, <1>22 DEF Next, Starting, Quitting, Asking

-----------------------------------------------------------------------------
(* Theorems. *)

LEMMA Inductive == Spec => []TrayInv
<1>1. Init => TrayInv
  BY InitTyped, InitKey, InitPage DEF TrayInv
<1>2. TrayInv /\ [Next]_vars => TrayInv'
  BY NextTyped, NextKey, NextPage, NextFile DEF TrayInv
<1> QED
  BY <1>1, <1>2, PTL DEF Spec

\* The variables of the copies keep their types.
THEOREM TrayTyped == Spec => []TypeOK
<1>1. TrayInv => TypeOK
  BY DEF TrayInv
<1> QED
  BY <1>1, Inductive, PTL

\* Every copy that serves does it with the key that is on disk, and a key that was there stays.
THEOREM IdentityIsOne == Spec => []OneIdentity
<1>1. TrayInv => OneIdentity
  BY DEF TrayInv, KeyInv, OneIdentity, Keyed
<1> QED
  BY <1>1, Inductive, PTL

\* When --quit says Done, the copy it asked has been told to quit; unless its page was alive and slow, it
\* is past its tray, or ended, and its page has gone.
THEOREM DoneIsGone == Spec => []DoneMeansGone
<1>1. TrayInv => DoneMeansGone
  BY DEF TrayInv, PageInv, DoneMeansGone
<1> QED
  BY <1>1, Inductive, PTL

\* The address of a copy that stays is not removed by another one that leaves.
THEOREM AddressStays == Spec => AddressOfTheLivingStays
<1>1. ASSUME TrayInv, NEW c \in Copies, NEW d \in Copies, file = c, c \notin overlap, c # d
      PROVE  ~Remove(d)
  BY <1>1, TrayAssumption DEF TrayInv, FileInv, Remove
<1>2. TrayInv /\ [Next]_vars =>
        [\A c, d \in Copies :
           file = c /\ Running(c) /\ c \notin quitting \cup overlap /\ c # d => ~Remove(d)]_vars
  BY <1>1
<1> QED
  BY <1>2, Inductive, PTL DEF Spec, AddressOfTheLivingStays

=============================================================================
