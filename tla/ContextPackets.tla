--------------------------- MODULE ContextPackets ---------------------------
(***************************************************************************)
(* Compilation of a context: compileContext of packages/brain (as dispatch *)
(* and compileMemoryContext use it), the packets of ContextEngine, and the *)
(* cache of fragments already seen that dispatch writes after compiling:   *)
(* writeFile empties the file, then fills it.                              *)
(* A fragment's hash stands for its content, and its length is a function  *)
(* of the content.                                                         *)
(***************************************************************************)
EXTENDS Integers, FiniteSets, FiniteSetsExt, Folds

CONSTANTS
  Fragment,       \* the fragments a caller may offer: id, content, category, priority or None
  Chars(_),       \* length of a content
  Kind(_),        \* kind of the reference a fragment becomes in a packet
  Budget,         \* values of budget_chars
  Call,           \* dispatches in flight
  MaxCompiles, None

VARIABLES
  offered,    \* fragments of the task, at most one per id
  previous,   \* fragments of the last compilation
  diff,       \* what the last compilation reported against the one before it
  budget,     \* its budget
  input,      \* what it was given
  cache,      \* contents that context-cache.json shows: none while it is empty or no JSON
  call,       \* calls of cacheContext that have read the file: what each read, was given, and (history) has missed of
              \* what others stored; "fill" has opened the file, and "over" too, but another has filled it since
  stored,     \* (history) what the last call that filled the file meant to store
  spoilt,     \* (history) whether the file was left empty by a death, or cut by two that wrote at once
  compiles

vars == <<offered, previous, diff, budget, input, cache, call, stored, spoilt, compiles>>

NoDiff == [added |-> {}, removed |-> {}, changed |-> {}, unchanged |-> {}]
Idle == [at |-> "idle", read |-> {}, contents |-> {}, missed |-> {}]
Init ==
  /\ offered = {} /\ previous = {} /\ diff = NoDiff /\ budget \in {None} /\ input = {}
  /\ cache = {} /\ call = [c \in Call |-> Idle] /\ stored = {} /\ spoilt = FALSE /\ compiles = 0

DefaultPriority(category) == CASE category = "must_keep" -> 100 [] category = "recent" -> 70 [] OTHER -> 10
\* normalizeFragment: the category gives the priority when the caller does not, and 100 or more is kept.
Normalized(f) == [id |-> f.id, content |-> f.content,
  priority |-> IF f.priority = None THEN DefaultPriority(f.category) ELSE f.priority,
  must_keep |-> f.category = "must_keep" \/ (f.priority # None /\ f.priority >= 100)]

Before(a, b) == a.priority > b.priority \/ (a.priority = b.priority /\ a.id < b.id)
\* deduplicateFragments: of fragments with the same content the first in this order stays.
Deduplicated(fs) == {f \in fs : \A g \in fs : g.content = f.content => g = f \/ Before(f, g)}
Size(fs) == FoldSet(LAMBDA f, sum : Chars(f.content) + sum, 0, fs)

\* What is kept when each is taken in this order while it fits beside those taken before it.
Last(fs) == CHOOSE f \in fs : \A g \in fs \ {f} : Before(g, f)
Fit(kept, f, limit) == IF Size(kept) + Chars(f.content) <= limit THEN kept \cup {f} ELSE kept
Fitting(fs, first, limit) == MapThenFoldSet(LAMBDA f, kept : Fit(kept, f, limit), first, LAMBDA f : f, Last, fs)

\* Faulty variant of Selected: what must be kept competes for the budget like the rest.
SelectedInBudget(fs, limit) == Fitting(Deduplicated(fs), {}, limit)
\* compileContext: all that must be kept, then what still fits, in order of priority.
Selected(fs, limit) == LET unique == Deduplicated(fs) IN
  Fitting({f \in unique : ~f.must_keep}, {f \in unique : f.must_keep}, limit)

Ids(fs) == {f.id : f \in fs}
Of(fs, id) == CHOOSE f \in fs : f.id = id
\* Faulty variant of Diff: a fragment whose content changed counts as unchanged.
DiffById(before, after) ==
  [added |-> {f \in after : f.id \notin Ids(before)}, removed |-> {f \in before : f.id \notin Ids(after)},
   changed |-> {}, unchanged |-> {f \in after : f.id \in Ids(before)}]
\* diffContext.
Diff(before, after) ==
  [added |-> {f \in after : f.id \notin Ids(before)}, removed |-> {f \in before : f.id \notin Ids(after)},
   changed |-> {f \in after : f.id \in Ids(before) /\ Of(before, f.id).content # f.content},
   unchanged |-> {f \in after : f.id \in Ids(before) /\ Of(before, f.id).content = f.content}]
delta_chars == Size(diff.added) + Size(diff.changed)

\* The caller gathers fragments, drops them and replaces them by later versions.
Offer(f) == /\ f \notin offered /\ offered' = {g \in offered : g.id # f.id} \cup {f}
            /\ UNCHANGED <<previous, diff, budget, input, cache, call, stored, spoilt, compiles>>
Withdraw(f) == /\ f \in offered /\ offered' = offered \ {f}
               /\ UNCHANGED <<previous, diff, budget, input, cache, call, stored, spoilt, compiles>>

\* dispatch: the context is compiled, then cacheContext reads its file.
Compile(c) ==
  /\ call[c].at = "idle" /\ compiles < MaxCompiles /\ offered # {}
  /\ \E limit \in Budget :
       LET fs == {Normalized(f) : f \in offered}  kept == Selected(fs, limit) IN
       /\ budget' = limit /\ input' = fs /\ previous' = kept /\ diff' = Diff(previous, kept)
       /\ call' = [call EXCEPT ![c] = [at |-> "write", read |-> cache, contents |-> {f.content : f \in kept},
                                       missed |-> stored \ cache]]
  /\ compiles' = compiles + 1
  /\ UNCHANGED <<offered, cache, stored, spoilt>>
\* The file is emptied; who was to write over another's text writes into an empty file again.
OpenCache(c) ==
  /\ call[c].at = "write"
  /\ cache' = {}
  /\ call' = [d \in Call |-> IF d = c \/ call[d].at = "over" THEN [call[d] EXCEPT !.at = "fill"] ELSE call[d]]
  /\ UNCHANGED <<offered, previous, diff, budget, input, stored, spoilt, compiles>>
\* The others that have read the file do not see what is stored now, and who has opened it will write over it.
Beside(c, new) == [d \in Call |->
  IF d = c \/ call[d].at = "idle" THEN Idle
  ELSE [call[d] EXCEPT !.at = IF @ = "fill" THEN "over" ELSE @, !.missed = @ \cup new]]
\* What a call writes is the file, unless a longer text is there already, whose end stays.
Store(c, contents) ==
  /\ call[c].at \in {"fill", "over"}
  /\ stored' = contents /\ call' = Beside(c, contents)
  /\ cache' \in {contents} \cup (IF call[c].at = "over" THEN {{}} ELSE {})
  /\ spoilt' = (cache' # contents)
  /\ UNCHANGED <<offered, previous, diff, budget, input, compiles>>
\* Faulty variant of CacheContext: what the file held is forgotten.
CacheOnlyThese(c) == Store(c, call[c].contents)
\* The file is written as it was read, with the misses added.
CacheContext(c) == Store(c, call[c].read \cup call[c].contents)
\* The process ends between opening the file and filling it; one that ends before has changed nothing.
Die(c) ==
  /\ call[c].at \in {"fill", "over"}
  /\ call' = [call EXCEPT ![c] = Idle] /\ spoilt' = (spoilt \/ call[c].at = "fill")
  /\ UNCHANGED <<offered, previous, diff, budget, input, cache, stored, compiles>>

Next == \/ \E f \in Fragment : Offer(f) \/ Withdraw(f)
        \/ \E c \in Call : Compile(c) \/ OpenCache(c) \/ CacheContext(c) \/ Die(c)
Spec == Init /\ [][Next]_vars

\* ContextEngine.compilePacket: the sources a level allows, by priority, while they fit the budget.
allowedAtLevel(kind, level) ==
  CASE level = 0 -> kind \in {"instruction", "evidence"}
    [] level = 1 -> kind \in {"instruction", "symbol", "memory", "evidence", "tool"}
    [] level = 2 -> kind # "file"
    [] OTHER -> TRUE
Allowed(fs, level) == {f \in fs : allowedAtLevel(Kind(f.id), level)}
\* Faulty variant of References: every level shows every kind.
ReferencesAnyLevel(fs, limit, level) == Fitting(fs, {}, limit)
References(fs, limit, level) == Fitting(Allowed(fs, level), {}, limit)

-----------------------------------------------------------------------------
\* The budget yields only to what must be kept, and no content is sent twice; an optional fragment is left
\* out only when it would not have fitted beside those that come before it.
BudgetIsSpentByPriority ==
  budget # None =>
    LET must == {f \in previous : f.must_keep} IN
    /\ Size(previous) <= (IF Size(must) > budget THEN Size(must) ELSE budget)
    /\ Cardinality({f.content : f \in previous}) = Cardinality(previous)
    /\ \A f \in Deduplicated(input) \ previous :
         ~f.must_keep /\ Size({g \in previous : g.must_keep \/ Before(g, f)}) + Chars(f.content) > budget

\* A reader who holds the compilation before and is sent the difference has the new one, and is sent no
\* character it already has.
DeltaRebuilds == [][compiles' > compiles =>
  LET d == diff' IN
  /\ {<<f.id, f.content>> : f \in previous'} =
       {<<f.id, f.content>> : f \in (d.added \cup d.changed \cup {g \in previous : g.id \notin Ids(d.removed \cup d.changed)})}
  /\ delta_chars' + Size(d.unchanged) = Size(previous')]_vars

\* The file shows what was stored last, unless somebody has just emptied it, died then, or wrote together with another;
\* and whoever stores keeps what was stored, but for what it could not see when it read.
CachedStays ==
  [][/\ cache = stored \/ spoilt \/ \E c \in Call : call[c].at = "fill"
     /\ \A c \in Call : call[c].at # "idle" /\ call'[c].at = "idle" => stored \subseteq stored' \cup call[c].missed]_vars

\* Expanding a packet to a higher level adds to it when all that the level allows fits the budget, and the
\* lower level never shows what only the higher one allows.
ExpansionAdds ==
  \A limit \in Budget, low \in 0..3 : LET high == low + 1 IN
    /\ Size(Allowed(input, high)) <= limit => References(input, limit, low) \subseteq References(input, limit, high)
    /\ \A f \in References(input, limit, low) : allowedAtLevel(Kind(f.id), low)
    /\ Size(References(input, limit, low)) <= limit

\* "critical constraints/must_keep cannot be dropped by simple size pressure": the content of a fragment
\* that must be kept is in the compilation.  Does not hold: when an optional fragment with the same content
\* has the higher priority, the duplicate that stays may be dropped.
MustKeepIsKept == \A f \in input : f.must_keep => \E g \in previous : g.content = f.content
=============================================================================
