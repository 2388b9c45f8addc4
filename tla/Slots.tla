---- MODULE Slots ----
(***************************************************************************)
(* The counting semaphore of src/orchestration/parallel.ts, as operators   *)
(* on a record of the free slots and the line of the waiters.  A slot that *)
(* comes back goes straight to the head of the line.                       *)
(***************************************************************************)
EXTENDS Integers, Sequences

Fresh(n) == [free |-> n, line |-> <<>>]

Taken(s) == [s EXCEPT !.free = @ - 1]

Queued(s, w) == [s EXCEPT !.line = Append(@, w)]

\* A waiter whose signal fires leaves the line at once.
Without(s, w) ==
  LET at == CHOOSE i \in DOMAIN s.line : s.line[i] = w IN
  [s EXCEPT !.line = [i \in 1..(Len(@) - 1) |-> IF i < at THEN @[i] ELSE @[i + 1]]]

\* The signal of everyone in the line fires.
Emptied(s) == [s EXCEPT !.line = <<>>]

\* The waiter the slot goes to, if anybody waits.
Heir(s) == IF s.line = <<>> THEN {} ELSE {Head(s.line)}

\* Wrong: the slot is free and the next waiter has it.
BothWays(s) == [free |-> s.free + 1, line |-> IF s.line = <<>> THEN <<>> ELSE Tail(s.line)]

Returned(s) ==
  IF s.line = <<>> THEN [s EXCEPT !.free = @ + 1] ELSE [s EXCEPT !.line = Tail(@)]
====
