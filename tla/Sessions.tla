---- MODULE Sessions ----
(***************************************************************************)
(* What the sessions of a machine share: the registry they find each other *)
(* in, the messages they exchange and are woken by, and the answers they   *)
(* wait for.                                                               *)
(*                                                                         *)
(* No step belongs to two of these parts, so a behaviour runs one of them, *)
(* and the others are at rest.                                             *)
(***************************************************************************)
EXTENDS Registry, Mail, Waits

ASSUME LettersAssumption == \A l \in DOMAIN Letters : Letters[l].size \in Nat
ASSUME BudgetAssumption == Budget \in [comes : Nat, lapses : Nat]

VARIABLES part   \* the part that runs

vars == <<part, poolVars, mailVars, boxVars, waitVars>>

NoPool == Starting("dead")
NoMail == MailInit /\ InboxInit
NoWaits == WaitsStart(FALSE)

Init ==
  \/ part = "pool" /\ PoolInit /\ NoMail /\ NoWaits
  \/ part \in {"mail", "inbox"} /\ NoPool /\ NoMail /\ NoWaits
  \/ part = "waits" /\ NoPool /\ NoMail /\ WaitsInit

Next ==
  /\ UNCHANGED part
  /\ \/ part = "pool" /\ PoolNext /\ UNCHANGED <<mailVars, boxVars, waitVars>>
     \/ part = "mail" /\ MailNext /\ UNCHANGED <<poolVars, boxVars, waitVars>>
     \/ part = "inbox" /\ InboxNext /\ UNCHANGED <<poolVars, mailVars, waitVars>>
     \/ part = "waits" /\ WaitsNext /\ UNCHANGED <<poolVars, mailVars, boxVars>>

Spec == Init /\ [][Next]_vars

\* A part at rest has no step the fairness asks for.
FairSpec == Spec /\ PoolFairness /\ WaitsFairness /\ InboxFairness

---------------------------------------------------------------------------
\* plane.ts:1003, install.ts:497: what a session is told of its messages and of
\* the answers it waits for is so, and the files of messages and what it hears match it.
ToldTheTruth == SendersHearTrue /\ FilesMatchMessages /\ InboxIsTrue /\ WaitsAreTrue

\* hooks.ts:325, registry.ts:277: a session that was shut down ends without a
\* plane, and a removal takes no entry but the one it was meant for.
RegistryIsTrue == ShutdownLeavesNoPlane /\ EntriesAreSafe

\* registry.ts:238, install.ts:494: a running session is found again however
\* often it is pruned, a wait that was armed ends, and what a session accepted is told.
SessionsConverge == PoolConverges /\ WaitsEnd /\ InboxDrains
====
