---- MODULE Checkouts ----
(***************************************************************************)
(* Legs and the checkout they work in: worktree.ts and change-report.ts of *)
(* src/engine, composed as buildEngine of src/extension/engine.ts does.    *)
(* An isolated leg works in a checkout of its own, which is exported as a  *)
(* diff and thrown away; any other leg works in the shared one, and what   *)
(* git status saw change meanwhile is reported.                            *)
(*                                                                         *)
(* A file is clean, changed or new; a job names its legs (isolated or not, *)
(* the files each owns, the attempts its providers allow) and bounds the   *)
(* writes and commits (of legs, of what a leg leaves running, of the       *)
(* operator) and the calls of git that fail.                               *)
(***************************************************************************)
EXTENDS FiniteSets, Integers

CONSTANTS Jobs, MaxReported

VARIABLES
  job,
  repo,    \* the shared checkout: status of each file, the tracked ones, commits made
  at,      \* where each leg's attempt is
  copy,    \* the checkout of an isolated leg
  shot,    \* a shared leg's first snapshot, and what changed since
  out,     \* each leg's result
  left     \* writes, commits, failing calls of git and attempts left

Legs == DOMAIN job.isolated
Isolated == {l \in Legs : job.isolated[l]}
Result(ok, kind, own) == [ok |-> ok, kind |-> kind, own |-> own, diff |-> {}, warned |-> FALSE, listed |-> {}, more |-> 0, outside |-> {}]
NoResult == Result(FALSE, "none", FALSE)
Contract == Result(FALSE, "contract", FALSE)

NoTree ==
  [dir |-> FALSE, listed |-> FALSE, start |-> 0, base |-> 0, tracked |-> {}, committed |-> {}, edited |-> {}, fresh |-> {},
   wrote |-> {}, got |-> {}, names |-> {}, removed |-> FALSE, stuck |-> FALSE, raced |-> FALSE, captured |-> FALSE]

Clean == [f \in job.files |-> "clean"]
First(l) == IF job.isolated[l] THEN "check" ELSE "before"

CheckoutsStart(j, stage) ==
  /\ job = j
  /\ repo = [status |-> Clean, tracked |-> job.tracked, head |-> 0]
  /\ at = [l \in Legs |-> IF stage = "first" THEN First(l) ELSE stage]
  /\ copy = [l \in Legs |-> NoTree]
  /\ shot = [l \in Legs |-> [taken |-> FALSE, before |-> Clean, touched |-> {}, wrote |-> {}, swept |-> {}]]
  /\ out = [l \in Legs |-> NoResult]
  /\ left = [writes |-> job.writes, faults |-> job.faults, commits |-> job.commits, tries |-> [l \in Legs |-> job.tries]]

CheckoutsInit == \E j \in Jobs : CheckoutsStart(j, "first")

Goes(l, stage) == at' = [at EXCEPT ![l] = stage]
Tree(l, t) == copy' = [copy EXCEPT ![l] = t]
Works == UNCHANGED left
Fails == left.faults > 0 /\ left' = [left EXCEPT !.faults = @ - 1]
Settles(l, r, stage) == out' = [out EXCEPT ![l] = r] /\ Goes(l, stage)

---------------------------------------------------------------------------
\* The checkout of an isolated leg.

IsDirty == \E f \in job.files : repo.status[f] # "clean"

\* worktreePreflight, asked twice: a checkout that is dirty, no repository or a
\* git that fails refuses the leg.
Preflight(l) ==
  /\ at[l] \in {"check", "recheck"}
  /\ \/ ~IsDirty /\ Goes(l, IF at[l] = "check" THEN "recheck" ELSE "add") /\ Works /\ UNCHANGED out
     \/ (IF IsDirty THEN Works ELSE Fails) /\ Settles(l, Contract, "settled")
  /\ UNCHANGED <<job, repo, copy, shot>>

\* worktree add --detach HEAD, into a directory of its own.
Add(l) ==
  /\ at[l] = "add"
  /\ \/ /\ Tree(l, [NoTree EXCEPT !.dir = TRUE, !.listed = TRUE, !.start = repo.head, !.tracked = repo.tracked])
        /\ Goes(l, "pin") /\ Works /\ UNCHANGED out
     \/ Fails /\ Settles(l, Contract, "settled") /\ UNCHANGED copy
  /\ UNCHANGED <<job, repo, shot>>

\* Wrong: asked of the shared checkout, whose HEAD may have moved.
SharedHead(l) == repo.head

PinnedHead(l) == copy[l].start

Pin(l) ==
  /\ at[l] = "pin"
  /\ \/ Tree(l, [copy[l] EXCEPT !.base = PinnedHead(l)]) /\ Goes(l, "run") /\ Works /\ UNCHANGED out
     \/ Fails /\ Settles(l, Contract, "remove") /\ UNCHANGED copy
  /\ UNCHANGED <<job, repo, shot>>

\* Wrong: what the leg committed is not looked at.
Uncommitted(t) == t.edited

\* What tells a checkout from its base; every file differs in another commit.
Tracked(t) == IF t.base = t.start THEN t.committed \cup t.edited ELSE job.files
Made(t) == t.committed \cup t.edited \cup t.fresh

Capturing == {"diff", "list", "each", "remove"}

\* The leg, or after it what it left running, writes a file.
TreeWrite(l, f) ==
  /\ l \in Isolated /\ at[l] \in {"run"} \cup Capturing /\ copy[l].dir
  /\ left.writes > 0 /\ f \notin copy[l].edited \cup copy[l].fresh
  /\ Tree(l, IF f \in copy[l].tracked THEN [copy[l] EXCEPT !.edited = @ \cup {f}]
                                      ELSE [copy[l] EXCEPT !.fresh = @ \cup {f}])
  /\ left' = [left EXCEPT !.writes = @ - 1]
  /\ UNCHANGED <<job, repo, at, shot, out>>

\* A leg may commit; so may what it left running, and then the two listings of
\* a capture may each miss the file.
TreeCommit(l) ==
  /\ l \in Isolated /\ at[l] \in {"run"} \cup Capturing /\ copy[l].dir
  /\ left.commits > 0 /\ copy[l].edited \cup copy[l].fresh # {}
  /\ Tree(l, [copy[l] EXCEPT !.committed = Made(copy[l]), !.edited = {}, !.fresh = {}, !.tracked = @ \cup copy[l].fresh,
                             !.raced = at[l] # "run"])
  /\ left' = [left EXCEPT !.commits = @ - 1]
  /\ UNCHANGED <<job, repo, at, shot, out>>

\* The run ends, with a diff of its own in its answer or not; an engine that
\* throws leaves a contract failure and captures nothing.
TreeEnds(l) ==
  /\ l \in Isolated /\ at[l] = "run"
  /\ Tree(l, [copy[l] EXCEPT !.wrote = Made(copy[l])])
  /\ \/ \E kind \in {"none", "provider", "agent"}, own \in BOOLEAN :
          (own => kind = "none") /\ Settles(l, Result(kind = "none", kind, own), "diff") /\ Works
     \/ Fails /\ Settles(l, Contract, "remove")
  /\ UNCHANGED <<job, repo, shot>>

Appended(r, d) == IF d = {} THEN r ELSE [r EXCEPT !.diff = d]

\* Wrong: a success whose checkout could not be read keeps its word.
Believed(r, fine, d) == IF fine THEN Appended(r, d) ELSE r

\* A failed leg is returned with what it made; a success needs a diff: the
\* checkout's, or, said to be unverified, its own.
Judged(r, fine, d) ==
  CASE ~r.ok -> IF fine THEN Appended(r, d) ELSE r
    [] r.ok /\ ~fine -> IF r.own THEN [r EXCEPT !.warned = TRUE] ELSE Contract
    [] OTHER -> IF d # {} \/ r.own THEN Appended(r, d) ELSE Contract

Judge(l, fine, d) == Settles(l, Judged(out[l], fine, d), "remove")

\* captureWorktreeArtifact: git may fail at each call, or the patch be too large.
DiffTracked(l) ==
  /\ at[l] = "diff"
  /\ \/ Tree(l, [copy[l] EXCEPT !.got = Tracked(copy[l])]) /\ Goes(l, "list") /\ Works /\ UNCHANGED out
     \/ Fails /\ Judge(l, FALSE, {}) /\ UNCHANGED copy
  /\ UNCHANGED <<job, repo, shot>>

ListNew(l) ==
  /\ at[l] = "list"
  /\ \/ Tree(l, [copy[l] EXCEPT !.names = copy[l].fresh]) /\ Goes(l, "each") /\ Works /\ UNCHANGED out
     \/ Fails /\ Judge(l, FALSE, {}) /\ UNCHANGED copy
  /\ UNCHANGED <<job, repo, shot>>

DiffNew(l) ==
  /\ at[l] = "each" /\ copy[l].names # {}
  /\ \/ \E f \in copy[l].names :
          Tree(l, [copy[l] EXCEPT !.names = @ \ {f}, !.got = @ \cup {f}]) /\ Works /\ UNCHANGED <<at, out>>
     \/ Fails /\ Judge(l, FALSE, {}) /\ UNCHANGED copy
  /\ UNCHANGED <<job, repo, shot>>

Captured(l) ==
  /\ at[l] = "each" /\ copy[l].names = {}
  /\ Judge(l, TRUE, copy[l].got)
  /\ Tree(l, [copy[l] EXCEPT !.captured = TRUE])
  /\ UNCHANGED <<job, repo, shot, left>>

\* worktree remove: a process left running can hold a file inside it.
Remove(l) ==
  /\ at[l] = "remove"
  /\ \/ Tree(l, [copy[l] EXCEPT !.dir = FALSE, !.listed = FALSE, !.removed = TRUE]) /\ Works
     \/ Fails /\ UNCHANGED copy
  /\ Goes(l, "rm")
  /\ UNCHANGED <<job, repo, shot, out>>

\* Wrong: git is trusted to have removed what it listed.
AfterRemoval(l) == "settled"

\* Only a removal that failed leaves an entry to prune.
AfterRm(l) == IF copy[l].removed THEN "settled" ELSE "prune"

Rm(l) ==
  /\ at[l] = "rm"
  /\ \/ Tree(l, [copy[l] EXCEPT !.dir = FALSE]) /\ Works
     \/ copy[l].dir /\ Fails /\ UNCHANGED copy
  /\ Goes(l, AfterRm(l))
  /\ UNCHANGED <<job, repo, shot, out>>

\* worktree prune forgets every checkout whose directory is gone.
Prune(l) ==
  /\ at[l] = "prune"
  /\ \/ copy' = [k \in Legs |-> [copy[k] EXCEPT !.listed = @ /\ copy[k].dir]] /\ Works
     \/ Fails /\ Tree(l, [copy[l] EXCEPT !.stuck = TRUE])
  /\ Goes(l, "settled")
  /\ UNCHANGED <<job, repo, shot, out>>

---------------------------------------------------------------------------
\* The shared checkout.

\* captureStatus, before: no snapshot, no report.
Before(l) ==
  /\ at[l] = "before"
  /\ \E taken \in BOOLEAN :
       shot' = [shot EXCEPT ![l] = [taken |-> taken, before |-> IF taken THEN repo.status ELSE Clean, touched |-> {}, wrote |-> {}, swept |-> {}]]
       /\ IF taken THEN Works ELSE Fails
  /\ Goes(l, "work")
  /\ UNCHANGED <<job, repo, copy, out>>

Reporting == {l \in Legs \ Isolated : at[l] \in {"work", "after"}}

\* by: the leg that does it, or "operator".
Changes(by, written, dropped) ==
  shot' = [l \in Legs |->
    IF l \notin Reporting THEN shot[l]
    ELSE [shot[l] EXCEPT !.touched = @ \cup written \cup dropped, !.swept = (@ \ written) \cup dropped,
                         !.wrote = (IF l = by THEN @ \cup written ELSE @) \ dropped]]

Writers == {l \in Legs \ Isolated : at[l] = "work"} \cup {"operator"}

SharedWrite(by, f) ==
  /\ by \in Writers /\ left.writes > 0
  /\ repo' = [repo EXCEPT !.status[f] = IF f \in repo.tracked THEN "changed" ELSE "new"]
  /\ Changes(by, {f}, {})
  /\ left' = [left EXCEPT !.writes = @ - 1]
  /\ UNCHANGED <<job, at, copy, out>>

\* A commit of everything, or a checkout that drops it.
SharedCommit(by) ==
  /\ by \in Writers /\ left.commits > 0 /\ IsDirty
  /\ \E kept \in BOOLEAN :
       repo' = [status |-> Clean, head |-> repo.head + (IF kept THEN 1 ELSE 0),
                tracked |-> repo.tracked \cup (IF kept THEN {f \in job.files : repo.status[f] # "clean"} ELSE {})]
  /\ Changes(by, {}, {f \in job.files : repo.status[f] # "clean"})
  /\ left' = [left EXCEPT !.commits = @ - 1]
  /\ UNCHANGED <<job, at, copy, out>>

WorkEnds(l) ==
  /\ at[l] = "work"
  /\ \/ \E kind \in {"none", "provider", "agent"} :
          Settles(l, Result(kind = "none", kind, FALSE), IF shot[l].taken THEN "after" ELSE "settled") /\ Works
     \/ Fails /\ Settles(l, Contract, "settled")
  /\ UNCHANGED <<job, repo, copy, shot>>

\* Wrong: only what is dirty now is looked at.
StillDirty(before, now) == {f \in job.files : before[f] # now[f] /\ now[f] # "clean"}

DiffStatus(before, now) == {f \in job.files : before[f] # now[f]}

\* renderChangeReport: by path, at most MaxReported of them, the rest counted.
Report(l, changed) ==
  LET shown == {f \in changed : Cardinality({g \in changed : g < f}) < MaxReported} IN
  [out[l] EXCEPT !.listed = shown, !.more = Cardinality(changed) - Cardinality(shown),
                 !.outside = IF job.owns[l] = {} THEN {} ELSE shown \ job.owns[l]]

\* captureStatus, after.
After(l) ==
  /\ at[l] = "after"
  /\ \/ Settles(l, Report(l, DiffStatus(shot[l].before, repo.status)), "settled") /\ Works /\ UNCHANGED shot
     \/ Fails /\ Settles(l, out[l], "settled") /\ shot' = [shot EXCEPT ![l].taken = FALSE]
  /\ UNCHANGED <<job, repo, copy>>

---------------------------------------------------------------------------
\* withModelFallback is outermost: another attempt is another checkout, or
\* another pair of snapshots.
TriesAgain(l) == out[l].kind = "provider" /\ left.tries[l] > 1

Again(l) ==
  /\ at[l] = "settled" /\ TriesAgain(l)
  /\ Settles(l, NoResult, First(l))
  /\ left' = [left EXCEPT !.tries[l] = @ - 1]
  /\ UNCHANGED <<job, repo, copy, shot>>

Ends(l) ==
  /\ at[l] = "settled" /\ ~TriesAgain(l)
  /\ Goes(l, "over")
  /\ UNCHANGED <<job, repo, copy, shot, out, left>>

LegMoves(l) ==
  \/ Preflight(l) \/ Add(l) \/ Pin(l) \/ TreeEnds(l) \/ DiffTracked(l) \/ ListNew(l) \/ DiffNew(l) \/ Captured(l)
  \/ Remove(l) \/ Rm(l) \/ Prune(l) \/ Before(l) \/ WorkEnds(l) \/ After(l) \/ Again(l) \/ Ends(l)

Moves == \E l \in Legs : LegMoves(l)

CheckoutsNext ==
  \/ Moves
  \/ \E l \in Legs : TreeCommit(l) \/ \E f \in job.files : TreeWrite(l, f)
  \/ \E by \in Legs \cup {"operator"} : SharedCommit(by) \/ \E f \in job.files : SharedWrite(by, f)

---------------------------------------------------------------------------
Over(l) == at[l] \in {"settled", "over"}

\* engine.ts:266: an isolated leg that succeeds hands over all it made in its checkout and
\* nothing else, or says that its diff is its own word; one that fails hands over what
\* could be captured.  What is left running may commit between the two listings.
ArtifactsAreTrue ==
  \A l \in Isolated : Over(l) /\ ~copy[l].raced =>
    /\ out[l].diff \subseteq Made(copy[l])
    /\ out[l].ok => out[l].warned \/ (out[l].own /\ copy[l].wrote = {}) \/ (out[l].diff # {} /\ copy[l].wrote \subseteq out[l].diff)
    /\ copy[l].captured /\ out[l].kind # "contract" => copy[l].wrote \subseteq out[l].diff

\* worktree.ts:147: no checkout stays listed once its directory is gone, unless git would not prune it.
NoGhosts == \A l \in Isolated : Over(l) /\ copy[l].listed /\ ~copy[l].dir => copy[l].stuck

\* engine.ts:239: a report names only what changed while the leg ran, every file the leg
\* left otherwise than it found it, counts what it does not name, and flags each named file
\* the leg does not own.
ReportsAreTrue ==
  \A l \in Legs \ Isolated : Over(l) /\ shot[l].taken /\ out[l].kind # "contract" =>
    LET found == shot[l].before
        due == {f \in shot[l].wrote : found[f] = "clean"} \cup {f \in shot[l].swept : found[f] # "clean"}
    IN  /\ out[l].listed \subseteq shot[l].touched
        /\ IF out[l].more = 0 THEN due \subseteq out[l].listed ELSE Cardinality(out[l].listed) = MaxReported
        /\ Cardinality(due) <= Cardinality(out[l].listed) + out[l].more
        /\ out[l].outside = IF job.owns[l] = {} THEN {} ELSE out[l].listed \ job.owns[l]

\* Every leg comes to its end.
AllOver == \A l \in Legs : at[l] = "over"
LegsEnd == <>[]AllOver
====
