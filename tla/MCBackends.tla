----------------------------- MODULE MCBackends -----------------------------
(* Every system and mode, keys A and the right Shift, alone or with Ctrl and Shift; texts of every kind of character. *)
EXTENDS Backends
Sys(os, policy, entry, desktop) == [os |-> os, policy |-> policy, entry |-> entry, desktop |-> desktop]
MCSystems == {Sys("Linux", "Native", "Keys", "Kde"), Sys("Linux", "Native", "Unicode", "Other"),
              Sys("macOS", "Native", "Keys", "Other"), Sys("macOS", "CtrlAsCommand", "Keys", "Other"),
              Sys("Windows", "Native", "Keys", "Other"), Sys("none", "Native", "Keys", "Other")}
MCUsages == {4, 229}
MCKeyMods == {{}, {224, 225}}
MCRestTexts == {<<97, 65>>, <<128640, 128640>>, <<97, 97, 128640>>, <<97, 13, 10>>, <<10, 8, 97>>, <<27, 233, 9>>}
MCHeldTexts == {<<65>>}
MCButtons == {272}
=============================================================================
