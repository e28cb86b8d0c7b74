----------------------------- MODULE MCCollection -----------------------------
(***************************************************************************)
(* Small instances of Collection: two guides, two journeys with an edited  *)
(* edition each, and runs of every outcome.                                *)
(***************************************************************************)
EXTENDS Collection, TLC

Doc(id, rev) == [id |-> id, rev |-> rev, sound |-> TRUE, guided |-> TRUE]
A1 == Doc("a", 1)
A2 == Doc("a", 2)
B1 == Doc("b", 1)
Broken == [B1 EXCEPT !.sound = FALSE]
Unguided == [B1 EXCEPT !.guided = FALSE]

Run(id, journey, outcome, size) ==
  [report |-> [id |-> id, journey |-> journey, outcome |-> outcome],
   evidence |-> [of |-> id, size |-> size], link |-> FALSE]

PassedA == Run("passed a", A1, "passed", 1)
NewerA == Run("newer a", A2, "passed", 1)
FailedA == Run("failed a", A1, "failed", 1)
PassedB == Run("passed b", B1, "passed", 1)
LargeB == Run("large b", B1, "passed", 3)
FailedB == Run("failed b", B1, "failed", 1)
BlockedB == Run("blocked b", B1, "blocked", 1)
UnguidedB == Run("unguided b", Unguided, "passed", 1)
BrokenB == Run("broken b", B1, "error", 1)

Guide(key, order) == [key |-> key, order |-> order, run |-> key, journey |-> key]
Topic(id, order, guides) == [id |-> id, order |-> order, guides |-> guides]

\* The two guides in one topic, or in two, or a manifest that repeats a key.
Together == {Topic("t", 1, {Guide("a", 1), Guide("b", 2)})}
Apart == {Topic("t", 2, {Guide("a", 1)}), Topic("u", 1, {Guide("b", 1)})}
Twice == {Topic("t", 1, {Guide("a", 1), Guide("a", 2)})}

\* A topic of an admissible name, whose review meets the index of the review tree.
Named == {Topic("index.md", 1, {Guide("a", 1), Guide("b", 2)})}

Start(a, runA, runB) ==
  [manifest |-> Together,
   journeys |-> [path \in {"a", "b"} |-> IF path = "a" THEN a ELSE B1],
   runs |-> [path \in {"a", "b"} |-> IF path = "a" THEN runA ELSE runB]]

MCManifests == {Together, Apart, Twice, Named}
MCDocuments == {A1, A2, B1, Broken}
MCRuns == {PassedA, NewerA, FailedA, PassedB, LargeB, FailedB, BlockedB, UnguidedB,
           BrokenB}
MCStarts ==
  {Start(A1, PassedA, PassedB), Start(A1, PassedA, FailedB), Start(A1, FailedA, BlockedB),
   Start(A1, PassedA, BrokenB), Start(A1, NewerA, PassedB),
   [Start(A1, PassedA, UnguidedB) EXCEPT !.journeys["b"] = Unguided],
   [Start(A1, PassedA, FailedB) EXCEPT !.manifest = Named]}

\* The run of journey a, which comes second, executed an edition yet to be put in place.
SiblingStarts == {[Start(A1, NewerA, PassedB) EXCEPT !.manifest = Apart]}

Symmetry == Permutations(Procs)
=============================================================================
