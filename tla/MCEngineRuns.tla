---- MODULE MCEngineRuns ----
(* Two in-process runs, or one child run, of a model three providers offer,   *)
(* one of which the routing policy excludes.                                  *)
EXTENDS EngineRuns
CONSTANTS scout, editor, tester, read, home, away, barred
MCLegs == {scout, editor}
MCReaders == {scout}
MCTalkers == {scout}
MCCallers == {editor}
MCPinned == {editor}
MCCalls == {read}
MCCatalog == <<away, barred, home>>
MCBrokers == {FALSE}
MCRedirects == {home}
MCFirst == {away}
MCAllowed == {away, home}
====
