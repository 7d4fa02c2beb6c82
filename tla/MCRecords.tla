------------------------------ MODULE MCRecords ------------------------------
(* An instance of Records for TLC. *)
EXTENDS Records, TLC

CONSTANTS e1, e2, w1, w2, w3

\* What callers remember: a candidate, what Claude calls validated itself, and what the store refuses.
Say(ns, status, evidence) == [ns |-> ns, status |-> status, evidence |-> evidence]
Said == {Say("project", "CANDIDATE", FALSE), Say("claude", "VALIDATED", TRUE), Say("company", "ACTIVE", TRUE)}

\* Fragments: two versions of one id that must be kept, and optional ones that repeat a content.
Piece(i, content, category, priority) ==
  [id |-> i, content |-> content, category |-> category, priority |-> priority]
Pieces == {Piece(1, "x", "must_keep", 50), Piece(1, "y", "must_keep", None), Piece(2, "x", "recent", None),
              Piece(2, "z", "historical", None), Piece(3, "z", "recent", None)}
PieceChars(content) == CASE content = "x" -> 2 [] content = "y" -> 1 [] content = "z" -> 3
PieceKind(i) == CASE i = 1 -> "instruction" [] i = 2 -> "symbol" [] i = 3 -> "snippet"

\* Compilations that shrink and grow, usage with and without input tokens.
Sizes == {<<3, 9>>, <<9, 2>>}
Costs == {<<None, 5>>, <<2, 5>>}

\* Lanes: a baseline that was right; mcg ones that were better, told no total, told no usage, made something up, failed.
Lane(real, measured, total, context, invented) ==
  [real |-> real, measured |-> measured, total |-> total, context |-> context, right |-> TRUE, invented |-> invented]
BaselineLanes == {Lane(TRUE, TRUE, 4, 4, FALSE)}
McgLanes == {Lane(TRUE, TRUE, 2, 2, FALSE), Lane(TRUE, TRUE, None, 2, FALSE), Lane(TRUE, FALSE, None, None, FALSE),
             Lane(TRUE, TRUE, 5, 2, TRUE), Lane(FALSE, TRUE, 2, 2, FALSE)}

\* Workers: two of one engine, one of another.
WorkersEngine == w1 :> e1 @@ w2 :> e1 @@ w3 :> e2

\* Quotas: plenty, about to run out, and not told.
Snapshot(left, remaining) == [percent |-> left, budget |-> remaining]
Snapshots == {Snapshot(60, 1), Snapshot(5, 1), Snapshot(None, None)}
Ask(capability, phase, exclude, learned) ==
  [capability |-> capability, risk |-> 1, complexity |-> 2, phase |-> phase, exclude |-> exclude, learned |-> learned]
Asked == {Ask({}, "execute", {}, FALSE), Ask({"coding"}, "execute", {}, TRUE), Ask({"review"}, "verify", {"claude"}, FALSE),
          Ask({}, "plan", {}, FALSE), Ask({"linux"}, "execute", {}, FALSE)}

Cases == <<"case 1", "case 2">>

\* Calls are interchangeable in every part that has them, subjects, ids of memories and suites in the only one.
Symmetry == Permutations(Call) \cup Permutations(Subject) \cup Permutations(Id) \cup Permutations(Suite)
=============================================================================
