---- MODULE AskContract ----
(***************************************************************************)
(* What the coordination bus promises about a blocking question, without   *)
(* mailboxes, timers or drains: a question put to a present peer gets one  *)
(* outcome, once, and a peer that leaves takes its open questions with it. *)
(***************************************************************************)
EXTENDS Naturals, Sequences

CONSTANTS Names,      \* the handles participants register under
          Reasons     \* the ways a question can be closed

VARIABLES peers,      \* the handles that can be written to
          asks        \* every message so far: [from, to, phase]

contractVars == <<peers, asks>>

\* A message that never waited for an answer has phase "note".
Phases == {"note", "waiting"} \cup Reasons

Questions == [from : Names, to : Names, phase : Phases]

ContractInit == peers = {} /\ asks = <<>>

Join(n) == peers' = peers \cup {n} /\ UNCHANGED asks

\* A peer leaves: exactly its own open questions, either way, are closed.
Leave(n) ==
  /\ peers' = peers \ {n}
  /\ asks' = [i \in DOMAIN asks |->
                IF asks[i].phase = "waiting" /\ n \in {asks[i].from, asks[i].to}
                THEN [asks[i] EXCEPT !.phase = "unregistered"] ELSE asks[i]]

\* A message is accepted for a present peer; a question may be closed at once.
Put(q) == /\ q.to \in peers
          /\ asks' = Append(asks, q)
          /\ UNCHANGED peers

\* One open question gets its outcome.
Close(i, reason) ==
  /\ asks[i].phase = "waiting"
  /\ asks' = [asks EXCEPT ![i].phase = reason]
  /\ UNCHANGED peers

ContractNext ==
  \/ \E n \in Names : Join(n) \/ Leave(n)
  \/ \E q \in Questions : Put(q)
  \/ \E i \in DOMAIN asks, reason \in Reasons : Close(i, reason)

ContractSpec == ContractInit /\ [][ContractNext]_contractVars
====
