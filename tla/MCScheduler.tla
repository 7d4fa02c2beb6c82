----------------------------- MODULE MCScheduler -----------------------------
(* Instances of Scheduler for TLC. *)
EXTENDS Scheduler, TLC

CONSTANTS t1, t2, a, b, c, codex, claude, disklock

AnyExecutor == {codex, claude}

\* Chain: task t1 runs a and then b; task t2 runs c, with the lock a also takes.
ChainTaskOf == a :> t1 @@ b :> t1 @@ c :> t2
ChainDeps == a :> {} @@ b :> {a} @@ c :> {}
ChainLock == a :> disklock @@ b :> None @@ c :> disklock
ChainNoLock == a :> None @@ b :> None @@ c :> None
ChainCapable == a :> {codex} @@ b :> {codex} @@ c :> {codex}
IdleCapable == a :> {codex} @@ b :> {codex} @@ c :> {claude}

\* Pair: a and b of task t1 are independent.
PairTaskOf == a :> t1 @@ b :> t1
PairDeps == a :> {} @@ b :> {}
PairLock == a :> None @@ b :> disklock
PairCapable == a :> {codex} @@ b :> {codex}
PairAnyCapable == a :> AnyExecutor @@ b :> AnyExecutor
NoLock == a :> None @@ b :> None

\* Step: b of task t1 waits for a.
StepDeps == a :> {} @@ b :> {a}

\* Twin: tasks t1 and t2 of one node each.
TwinTaskOf == a :> t1 @@ b :> t2

\* Solo: task t1 of one node.
SoloTaskOf == a :> t1
SoloDeps == a :> {}
SoloCapable == a :> {codex}
SoloLock == a :> None

\* Trio: three independent nodes in two tasks, a with a lock of its own.
TrioTaskOf == a :> t1 @@ b :> t1 @@ c :> t2
TrioLock == a :> disklock @@ b :> None @@ c :> None
TrioCapable == [n \in {a, b, c} |-> AnyExecutor]
TrioDeps == a :> {} @@ b :> {} @@ c :> {}

SameKey == t1 :> "key" @@ t2 :> "key"
OwnKeys == t1 :> "key1" @@ t2 :> "key2"
OneKey == t1 :> "key"

RunnerSymmetry == Permutations(Runner)
AllUp == {Executor}
AnyUp == SUBSET Executor
CodexUp == {{codex}}
=============================================================================
