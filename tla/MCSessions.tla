---- MODULE MCSessions ----
(* Two sessions, one of which restarts its plane, changes its persona and    *)
(* ends while the other sends to it; a message to two peers, one of which    *)
(* shows the other's token as its name; four letters, two of which fill the  *)
(* sender's window, for a queue of two; and two waits for one ask.           *)
EXTENDS Sessions

MCMaxPlanes == [s \in Sessions |-> IF s = "a" THEN 2 ELSE 1]
MCMaxTurns == [s \in Sessions |-> IF s = "a" THEN 2 ELSE 0]
MCNameOf == [p \in Peers |-> IF p = "b" THEN "name" ELSE "b"]
MCMaxKeys == [p \in Peers |-> IF p = "b" THEN 2 ELSE 1]
Letter(from, size, far) == [from |-> from, size |-> size, far |-> far]
MCLetters == [l1 |-> Letter("b", 1, FALSE), l2 |-> Letter("b", 1, FALSE), l3 |-> Letter("c", 2, FALSE), l4 |-> Letter("c", 1, TRUE)]
MCBudget == [comes |-> 3, lapses |-> 2]
====
