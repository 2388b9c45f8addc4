---- MODULE MCLedgerStore ----
(* Two sessions of one workspace, one of which may die, on top of a ledger *)
(* in which one of them took a write task, or asked and was answered, or   *)
(* holds a claim and owes an answer; and small instances of the other      *)
(* files the sessions share.                                               *)
EXTENDS SharedFiles, TLC

CONSTANTS p1, p2, work, ask, file

MCClashing == {<<file, file>>}
MCWriteSets == {{}, {file}}

\* The n-th event of a history: its number is its msg_id.
Nth(n, kind, p, more) == [kind |-> kind, id |-> n, key |-> work, from |-> p] @@ more

Picked(p) ==
  <<Nth(1, "task_create", p, [paths |-> {file}]), Nth(2, "task_take", p, [task |-> 1])>>
Asking(p, q) ==
  <<Nth(1, "ask", p, [to |-> q, askId |-> ask]), Nth(2, "answer", q, [askId |-> ask])>>
Owing(p, q) ==
  <<Nth(1, "claim", p, [paths |-> {file}]), Nth(2, "ask", q, [to |-> p, askId |-> ask])>>

MCHistories ==
  UNION {{Picked(p), Asking(p, q), Owing(p, q)} : <<p, q>> \in {pq \in Procs \X Procs : pq[1] # pq[2]}}

\* A new ledger.
MCNoHistory == {<<>>}

Sessions == Permutations(Procs)
====
