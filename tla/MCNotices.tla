---- MODULE MCNotices ----
(* The bus, or what wakes the supervisor; the other one rests.  Of the bus two *)
(* handles and three messages; a watch that wakes on lines, a watch that wakes *)
(* on its exit, and an alarm; a backlog of two and messages of one event, so   *)
(* that three events overflow it.                                              *)
EXTENDS InProcBus, Wakes

CONSTANTS build, files, soon, x, y, supervisor, child
MCWatches == {build, files}
MCMode == (build :> "exit") @@ (files :> "output")
MCMaxEvents == (build :> 1) @@ (files :> 2)
MCLines == {x, y}
MCAlarms == {soon}

VARIABLE part   \* "bus" or "wakes"
mcVars == <<part, busVars, vars>>

MCInit ==
  \/ part = "bus" /\ BusInit /\ WakesStart(TRUE) /\ ~permitted
  \/ part = "wakes" /\ BusInit /\ Init
MCNext ==
  \/ part = "bus" /\ BusNext /\ UNCHANGED <<part, vars>>
  \/ part = "wakes" /\ Next /\ UNCHANGED <<part, busVars>>

\* A bus without asks and a session that was shut down owe nobody a step, so the
\* fairness of one asks nothing of the other.
MCSpec == MCInit /\ [][MCNext]_mcVars /\ BusFairness /\ Fairness
====
