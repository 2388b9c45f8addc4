---- MODULE MCOrchestration ----
(* Every built-in strategy with the smallest rosters in which its cases     *)
(* differ, with limits that just fit it, leave one child for a recovery, or *)
(* do not fit; flows of three phases, in a chain, a fork and a join, or of  *)
(* two, with and without checkpoints, inline and by reference; tool calls   *)
(* and background runs in the combinations in which their rules meet; legs  *)
(* with checkouts of their own or a shared one; and personas that override, *)
(* or fail to override, what the operator set.                              *)
EXTENDS Orchestration

MCSays ==
  [worker |-> {"yes", "provider", "broken"}, voter |-> {"yes", "no", "contract", "provider"},
   critic |-> {"yes", "no", "prose", "provider"}, arbiter |-> {"yes", "no", "provider"},
   splitter |-> {"yes", "prose", "provider"}]

\* A session of its own model, two slots, no token budget.
Usual(name, n, max) ==
  [name |-> name, n |-> n, max |-> max, conc |-> 2, budget |-> 0, alt |-> TRUE, denied |-> {},
   rounds |-> 2, reflect |-> TRUE, unanimous |-> FALSE, bestOf |-> 0, arbiter |-> TRUE,
   items |-> 3, verify |-> FALSE, clash |-> FALSE, says |-> MCSays]

Voices(set) == [MCSays EXCEPT !.voter = set]

MCPlans ==
  {Usual("custom", 3, 3), [Usual("custom", 3, 4) EXCEPT !.conc = 1], Usual("custom", 3, 2),
   Usual("fanout", 3, 4), [Usual("fanout", 3, 4) EXCEPT !.budget = 2],
   [Usual("fanout", 2, 2) EXCEPT !.denied = {"worker"}], Usual("fanout", 0, 2),
   Usual("pair", 2, 2), Usual("pair", 1, 2),
   Usual("pipeline", 3, 3), Usual("pipeline", 2, 3), Usual("pipeline", 0, 2),
   Usual("critic-loop", 2, 4), Usual("critic-loop", 2, 5),
   Usual("debate", 3, 4), [Usual("debate", 2, 2) EXCEPT !.unanimous = TRUE], Usual("debate", 1, 2),
   [Usual("council-rounds", 2, 4) EXCEPT !.says = Voices({"yes", "no", "provider"})],
   [Usual("council-rounds", 2, 5) EXCEPT !.says = Voices({"yes", "no", "provider"}), !.conc = 1],
   [Usual("magi", 2, 4) EXCEPT !.says = Voices({"yes", "no", "provider"})],
   [Usual("magi", 2, 5) EXCEPT !.says = Voices({"yes", "contract", "provider"})],
   [Usual("magi", 2, 4) EXCEPT !.budget = 3, !.alt = FALSE], [Usual("magi", 3, 6) EXCEPT !.says = Voices({"yes", "no"}), !.conc = 3],
   [Usual("magi", 3, 3) EXCEPT !.alt = FALSE],
   [Usual("judge", 2, 3) EXCEPT !.alt = FALSE], Usual("judge", 2, 4), [Usual("judge", 1, 3) EXCEPT !.arbiter = FALSE],
   Usual("compete", 2, 3), Usual("synthesize", 2, 3),
   Usual("map", 2, 3), Usual("map", 2, 5), [Usual("map", 2, 5) EXCEPT !.verify = TRUE],
   [Usual("map", 2, 4) EXCEPT !.clash = TRUE]}
Chain == [a |-> {}, b |-> {"a"}, c |-> {"b"}]
Fork == [a |-> {}, b |-> {"a"}, c |-> {"a"}]
Pair == [a |-> {}, b |-> {}]
Join == [a |-> {}, b |-> {}, c |-> {"a", "b"}]

Flow(needs, gated, handoff) ==
  [phases |-> DOMAIN needs, needs |-> needs, gated |-> gated, handoff |-> handoff,
   order |-> [a |-> 1, b |-> 2, c |-> 3]]

MCSpecs ==
  {Flow(Chain, {"a"}, "inline"), Flow(Fork, {"a", "c"}, "inline"), Flow(Join, {"b"}, "inline"),
   Flow(Pair, {}, "reference"), Flow(Chain, {"b"}, "reference")}

Own(kind, size, changes) ==
  [kind |-> kind, of |-> [c \in DOMAIN kind |-> "model"], size |-> [c \in DOMAIN kind |-> size], changes |-> changes]
MCScripts ==
  {Own([a |-> "launch", b |-> "sleep", c |-> "read"], 1, 2),
   Own([a |-> "write", b |-> "write", c |-> "write", d |-> "write"], 0, 2),
   Own([a |-> "send", b |-> "intercom"], 0, 0),
   [kind |-> [a |-> "wrap", b |-> "wrap", c |-> "launch", d |-> "launch"], of |-> [a |-> "model", b |-> "a", c |-> "b", d |-> "a"],
    size |-> [a |-> 1, b |-> 1, c |-> 1, d |-> 2], changes |-> 0],
   Own([a |-> "work", b |-> "work", c |-> "work", d |-> "work"], 3, 0),
   Own([a |-> "work", b |-> "launch", c |-> "launch", d |-> "work"], 2, 0)}

Tasks(conc, legs) == [kind |-> "delegate", conc |-> conc, legs |-> legs]
As(role, key, area) == [role |-> role, key |-> key, area |-> area]
One(role, key) == Tasks(1, <<As(role, key, {1})>>)
Aside(kind) == [kind |-> kind, conc |-> 1, legs |-> <<As(IF kind = "mind" THEN "reader" ELSE "writer", "none", {1})>>]
MCBooks ==
  {[calls |-> [a |-> One("writer", "k"), b |-> Tasks(1, <<As("writer", "k", {1}), As("verifier", "v", {1})>>), c |-> One("verifier", "v")],
    ticks |-> 0, looks |-> 0, says |-> {"ok"}, stops |-> TRUE],
   [calls |-> [a |-> Tasks(2, <<As("writer", "k", {1}), As("writer", "m", {2}), As("reader", "r", {})>>), b |-> Aside("run"), c |-> One("verifier", "v")],
    ticks |-> 0, looks |-> 0, says |-> {"ok"}, stops |-> TRUE],
   [calls |-> [a |-> Tasks(2, <<As("writer", "k", {1}), As("writer", "m", {1})>>), b |-> Tasks(1, <<As("verifier", "v", {1}), As("writer", "k", {1})>>),
               c |-> Tasks(1, <<As("writer", "k", {1}), As("reader", "m", {1}), As("verifier", "v", {})>>), d |-> Tasks(2, <<As("writer", "k", {1}), As("verifier", "v", {2})>>),
               e |-> Tasks(2, <<As("writer", "k", {1}), As("writer", "v", {})>>), f |-> Tasks(1, <<As("writer", "k", {1}), As("writer", "m", {1})>>)],
    ticks |-> 0, looks |-> 0, says |-> {"ok"}, stops |-> FALSE],
   [calls |-> [a |-> Aside("mind"), b |-> Aside("mind"), c |-> Tasks(1, <<As("reader", "k", {}), As("reader", "m", {})>>)], ticks |-> 0, looks |-> 0, says |-> {"ok"}, stops |-> TRUE],
   [calls |-> [a |-> One("reader", "k"), b |-> One("reader", "k"), c |-> One("reader", "k"), d |-> One("reader", "k")], ticks |-> 0, looks |-> 0, says |-> {"ok", "failed", "broken"}, stops |-> TRUE],
   [calls |-> [a |-> One("writer", "k")], ticks |-> 5, looks |-> 0, says |-> {"ok"}, stops |-> FALSE],
   [calls |-> [a |-> One("reader", "k")], ticks |-> 2, looks |-> 3, says |-> {"ok"}, stops |-> FALSE],
   [calls |-> [a |-> One("reader", "k"), b |-> One("reader", "m")], ticks |-> 0, looks |-> 2, says |-> {"ok"}, stops |-> TRUE]}

Job(iso, owns, writes, commits, faults, tries) ==
  [isolated |-> iso, owns |-> owns, files |-> {1, 2}, tracked |-> {1}, writes |-> writes, commits |-> commits, faults |-> faults, tries |-> tries]

MCJobs ==
  {Job([a |-> TRUE], [a |-> {}], 2, 1, 1, 1), Job([a |-> TRUE], [a |-> {}], 1, 1, 0, 2),
   Job([a |-> TRUE, b |-> TRUE], [a |-> {}, b |-> {}], 0, 0, 3, 1), Job([a |-> TRUE, b |-> FALSE], [a |-> {}, b |-> {2}], 1, 0, 0, 1),
   Job([a |-> FALSE], [a |-> {2}], 2, 1, 0, 2), Job([a |-> FALSE], [a |-> {1}], 1, 1, 1, 1)}

Def(m, t, r) == [model |-> m, thinking |-> t, tools |-> r]
Purse(g, r, c, f) == [gestures |-> g, refusals |-> r, choices |-> c, faults |-> f]
Scene(defs, edited, cycle, last, closes, purse, setups, stops) ==
  [defs |-> defs, edited |-> edited, cycle |-> cycle, remembered |-> last, ends |-> closes, budget |-> purse, setups |-> setups, stops |-> stops]
Bare(names) == [n \in names |-> Def("none", "none", FALSE)]
Asked(kind, keys) == [kind |-> kind, keys |-> keys]
MCScenes ==
  {Scene([p |-> Def("m", "high", TRUE), q |-> Def("none", "none", FALSE)], [p |-> Def("m", "none", FALSE)], <<"p", "q">>, "p", TRUE, Purse(2, 1, 1, 0), <<>>, FALSE),
   Scene([p |-> Def("m", "junk", TRUE), q |-> Def("gone", "high", TRUE)], [q |-> Def("n", "none", FALSE)], <<"p", "q">>, "q", FALSE, Purse(3, 1, 1, 0), <<>>, FALSE),
   Scene(Bare({"p", "q"}), [p |-> Def("none", "none", TRUE)], <<"p", "q">>, "p", FALSE, Purse(1, 0, 0, 0), <<Asked("auto", <<"k", "l">>), Asked("auto", <<"k">>)>>, TRUE),
   Scene(Bare({"p", "q"}), [p |-> Def("none", "none", TRUE)], <<"p", "q">>, "p", FALSE, Purse(1, 0, 0, 1), <<Asked("auto", <<"k">>), Asked("edit", <<"k", "l">>)>>, FALSE),
   Scene(Bare({"p"}), Bare({"p"}), <<"p">>, "q", TRUE, Purse(1, 0, 0, 0), <<>>, FALSE),
   Scene(Bare({"p"}), Bare({"p"}), <<"p">>, "p", TRUE, Purse(0, 0, 0, 1), <<Asked("auto", <<"k">>), [kind |-> "draft", keys |-> <<"k", "l">>, for |-> "p"]>>, FALSE)}

\* Two runs of one strategy at once, one of two legs.
MCRosters == [one |-> {"k", "l"}, two |-> {"k"}]
====
