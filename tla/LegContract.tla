---- MODULE LegContract ----
(***************************************************************************)
(* What an engine promises about a leg (one delegated agent run), whatever *)
(* carries it: it settles once, the first thing that cut it short names    *)
(* its verdict, and one that failed leaves no tool call looking open.      *)
(***************************************************************************)
CONSTANTS Runs, Calls

VARIABLES life,     \* "idle", "running" or "settled"
          cause,    \* the first thing that cut the leg short ("none" so far)
          verdict,  \* how it ended: "ok", or the result's failureKind
          shown     \* tool calls the caller sees running

contractVars == <<life, cause, verdict, shown>>

Deadlines == {"idle", "hard", "startup"}
Cuts == Deadlines \cup {"abort", "flood"}

\* The verdicts that tell the truth about a leg cut short by c.
Verdicts(c) ==
  CASE c = "none" -> {"ok", "contract", "provider", "agent", "threw"}
    [] c = "abort" -> {"abort"}
    [] c = "flood" -> {"agent", "provider", "abort"}
    [] OTHER -> {"timeout"}

ContractInit ==
  /\ life = [r \in Runs |-> "idle"]
  /\ cause = [r \in Runs |-> "none"]
  /\ verdict = [r \in Runs |-> "none"]
  /\ shown = [r \in Runs |-> {}]

\* A leg begins, or another attempt of its run does.
Begin(r) ==
  /\ life[r] # "running"
  /\ life' = [life EXCEPT ![r] = "running"]
  /\ cause' = [cause EXCEPT ![r] = "none"]
  /\ verdict' = [verdict EXCEPT ![r] = "none"]
  /\ shown' = [shown EXCEPT ![r] = {}]

\* A leg that is turned down, or stopped before it began, never runs.
Refuse(r) ==
  /\ life[r] # "running"
  /\ life' = [life EXCEPT ![r] = "settled"]
  /\ cause' = [cause EXCEPT ![r] = "none"]
  /\ \E v \in {"refused", "abort"} : verdict' = [verdict EXCEPT ![r] = v]
  /\ shown' = [shown EXCEPT ![r] = {}]

Cut(r) ==
  /\ life[r] = "running" /\ cause[r] = "none"
  /\ \E c \in Cuts : cause' = [cause EXCEPT ![r] = c]
  /\ UNCHANGED <<life, verdict, shown>>

Show(r) ==
  /\ life[r] # "idle"
  /\ \E S \in SUBSET Calls : shown' = [shown EXCEPT ![r] = S]
  /\ UNCHANGED <<life, cause, verdict>>

Settle(r) ==
  /\ life[r] = "running"
  /\ life' = [life EXCEPT ![r] = "settled"]
  /\ \E v \in Verdicts(cause[r]) :
       /\ verdict' = [verdict EXCEPT ![r] = v]
       /\ shown'[r] # {} => v \in {"ok", "contract"}
  /\ shown' \in {shown, [shown EXCEPT ![r] = {}]}
  /\ UNCHANGED cause

ContractNext ==
  \E r \in Runs : Begin(r) \/ Refuse(r) \/ Cut(r) \/ Show(r) \/ Settle(r)

ContractSpec == ContractInit /\ [][ContractNext]_contractVars
====
