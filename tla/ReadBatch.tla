------------------------------ MODULE ReadBatch ------------------------------
(***************************************************************************)
(* One call of ReadOnlyLocalExecutor.batch (apps/edge/src/bridge/          *)
(* read-executor.ts), as the tool mcg_read_batch makes it: workers share a *)
(* cursor over the operations while others write, replace and remove the   *)
(* files; then one pass in order spends the output budget.  A content is a *)
(* sequence of pieces, of a byte each, and a file is read some pieces at a *)
(* time; one that is replaced gets a new generation, its inode.  Git,      *)
(* service-health and port-check come back from outside with anything, or  *)
(* fail.  Redaction and wording are left out.                              *)
(***************************************************************************)
EXTENDS Naturals, Sequences, FiniteSetsExt

CONSTANTS
  File, Piece,
  Content,         \* what a file may hold, a set of sequences of pieces
  First,           \* what each file holds when the batch comes
  Query,           \* the piece a search looks for
  Batches,         \* the batches a caller sends
  Worker,          \* the concurrency asked for
  maxFileBytes, maxSearchResults, maxOutputBytes,
  MaxGen,          \* bound on the generations of a file
  MaxWrites,       \* bound on the writes of others during the batch
  None

VARIABLES
  inode,     \* the content of each generation of each file
  path,      \* the generation a path names, 0 if removed
  writes,    \* writes so far
  ops,       \* the batch, << >> before it starts
  cursor,    \* operations handed out
  worker,    \* what each worker is doing
  outcomes,  \* the outcome of each operation that has ended
  named,     \* what the path of each operation has named since the operation began
  results    \* of the batch, << >> until it ends

vars == <<inode, path, writes, ops, cursor, worker, outcomes, named, results>>

\* What a worker is doing, and reading: "mixed" (history) if the file was written in place meanwhile.
Idle == [at |-> "idle", op |-> 0, file |-> None, gen |-> 0, limit |-> 0, got |-> << >>, mixed |-> FALSE,
         todo |-> {}, found |-> {}]
Succeeded(value, bytes, mixed) == [status |-> "succeeded", value |-> value, bytes |-> bytes, mixed |-> mixed]
Failed == [status |-> "failed", value |-> None, bytes |-> 0, mixed |-> FALSE]
Now(f) == IF path[f] = 0 THEN None ELSE inode[<<f, path[f]>>]
Fits(c) == Len(c) <= maxFileBytes

Init ==
  /\ inode = [x \in File \X (1..MaxGen) |-> IF x[2] = 1 THEN First[x[1]] ELSE None]
  /\ path = [f \in File |-> 1]
  /\ writes = 0 /\ ops = << >> /\ cursor = 0 /\ worker = [w \in Worker |-> Idle]
  /\ outcomes = << >> /\ named = << >> /\ results = << >>

-----------------------------------------------------------------------------
(* The others. *)

\* What the operations in progress may have seen.
Noted(p, i) ==
  named' = [k \in DOMAIN named |->
              LET f == ops[k].file IN
              IF outcomes[k] = None /\ f # None /\ p[f] # 0 THEN named[k] \cup {i[<<f, p[f]>>]} ELSE named[k]]

Reads(s, f) == s.at = "reading" /\ s.file = f /\ s.gen = path[f]

Write(f, c) ==
  /\ writes < MaxWrites /\ ops # << >> /\ results = << >> /\ path[f] # 0 /\ c # Now(f)
  /\ inode' = [inode EXCEPT ![<<f, path[f]>>] = c]
  /\ writes' = writes + 1
  /\ Noted(path, inode')
  /\ worker' = [w \in Worker |-> IF Reads(worker[w], f) THEN [worker[w] EXCEPT !.mixed = TRUE] ELSE worker[w]]
  /\ UNCHANGED <<path, ops, cursor, outcomes, results>>

\* A new file takes the path's place, or the path goes.
Replace(f, c) ==
  /\ writes < MaxWrites /\ ops # << >> /\ results = << >> /\ path[f] \in 1..(MaxGen - 1)
  /\ \/ /\ path' = [path EXCEPT ![f] = @ + 1]
        /\ inode' = [inode EXCEPT ![<<f, path[f] + 1>>] = c]
     \/ path' = [path EXCEPT ![f] = 0] /\ UNCHANGED inode
  /\ writes' = writes + 1
  /\ Noted(path', inode')
  /\ UNCHANGED <<ops, cursor, worker, outcomes, results>>

-----------------------------------------------------------------------------
(* batch *)

Kind == {"read", "read-if-changed", "search", "outside"}
assertBatchOperations(b) == Len(b) \in 1..20 /\ \A k \in DOMAIN b : b[k].kind \in Kind

\* A batch whose operations do not pass throws before any of them runs.
batch(b) ==
  /\ ops = << >> /\ assertBatchOperations(b)
  /\ ops' = b
  /\ named' = [k \in DOMAIN b |-> {}]
  /\ outcomes' = [k \in DOMAIN b |-> None]
  /\ UNCHANGED <<inode, path, writes, cursor, worker, results>>

\* The operation at the cursor; its path is resolved.
Take(w) ==
  /\ worker[w].at = "idle" /\ cursor < Len(ops)
  /\ cursor' = cursor + 1
  /\ LET k == cursor + 1  op == ops[k] IN
     /\ worker' = [worker EXCEPT ![w] = [Idle EXCEPT !.at = op.kind, !.op = k, !.file = op.file,
                                           !.todo = IF op.kind = "search" THEN {f \in File : path[f] # 0} ELSE {}]]
     /\ named' = [named EXCEPT ![k] = IF op.file = None \/ path[op.file] = 0 THEN {} ELSE {Now(op.file)}]
  /\ UNCHANGED <<inode, path, writes, ops, outcomes, results>>

\* Faulty variant of End: outcomes in the order of their ends.
EndPushed(w, outcome) ==
  /\ LET free == Min({k \in DOMAIN outcomes : outcomes[k] = None}) IN outcomes' = [outcomes EXCEPT ![free] = outcome]
  /\ worker' = [worker EXCEPT ![w] = Idle]
  /\ UNCHANGED <<inode, path, writes, ops, cursor, named, results>>

End(w, outcome) ==
  /\ outcomes' = [outcomes EXCEPT ![worker[w].op] = outcome]
  /\ worker' = [worker EXCEPT ![w] = Idle]
  /\ UNCHANGED <<inode, path, writes, ops, cursor, named, results>>

Goto(w, there) ==
  /\ worker' = [worker EXCEPT ![w] = there]
  /\ UNCHANGED <<inode, path, writes, ops, cursor, outcomes, named, results>>

\* read and read-log: the size is looked at first, then the path is read again.
Stat(w) ==
  /\ worker[w].at = "read"
  /\ LET c == Now(worker[w].file) IN
     IF c = None \/ ~Fits(c) THEN End(w, Failed) ELSE Goto(w, [worker[w] EXCEPT !.at = "readFile"])

\* readFile opens the path and takes its size.  search passes over a file that is gone by then.
OpenFile(w) ==
  /\ worker[w].at = "readFile"
  /\ LET f == worker[w].file IN
     IF path[f] # 0 THEN Goto(w, [worker[w] EXCEPT !.at = "reading", !.gen = path[f], !.limit = Len(Now(f))])
     ELSE IF ops[worker[w].op].kind = "read" THEN End(w, Failed)
     ELSE Goto(w, [worker[w] EXCEPT !.at = "search", !.file = None])

\* read-if-changed: a handle is opened; the file it holds must be small enough and still the one its path names.
Open(w) ==
  /\ worker[w].at = "read-if-changed"
  /\ LET f == worker[w].file IN
     IF path[f] = 0 THEN End(w, Failed) ELSE Goto(w, [worker[w] EXCEPT !.at = "check", !.gen = path[f]])

Held(w) == inode[<<worker[w].file, worker[w].gen>>]

CheckOpened(w) ==
  /\ worker[w].at = "check"
  /\ IF Fits(Held(w)) /\ path[worker[w].file] = worker[w].gen
     THEN Goto(w, [worker[w] EXCEPT !.at = "reading", !.limit = maxFileBytes + 1]) ELSE End(w, Failed)

\* One read of an open file returns some of what it now holds behind what was read before.
ReadChunk(w) ==
  /\ worker[w].at = "reading"
  /\ \E n \in 1..worker[w].limit :
       /\ Len(worker[w].got) < n /\ n <= Len(Held(w))
       /\ Goto(w, [worker[w] EXCEPT !.got = [i \in 1..n |-> IF i <= Len(worker[w].got) THEN worker[w].got[i] ELSE Held(w)[i]]])

\* The reads end at the end of the file, or of the buffer.
AllRead(w) ==
  worker[w].at = "reading" /\ (Len(worker[w].got) >= Len(Held(w)) \/ Len(worker[w].got) >= worker[w].limit)

ReadFile(w) ==
  /\ AllRead(w) /\ ops[worker[w].op].kind = "read"
  /\ End(w, Succeeded(worker[w].got, Len(worker[w].got), worker[w].mixed))

\* The handle is asked for its size once more.
ReadHandle(w) ==
  /\ AllRead(w) /\ ops[worker[w].op].kind = "read-if-changed"
  /\ Goto(w, [worker[w] EXCEPT !.at = "digest"])

\* An unchanged content is not sent again.
IfChanged(w) == LET s == worker[w] IN
  IF ops[s.op].expected = s.got THEN Succeeded(None, 1, s.mixed) ELSE Succeeded(s.got, Len(s.got), s.mixed)

\* Faulty variant of Digest: the size before the read is trusted.
DigestTrusting(w) == worker[w].at = "digest" /\ End(w, IfChanged(w))

\* A file that has grown past the limit is refused.
Digest(w) ==
  /\ worker[w].at = "digest"
  /\ End(w, IF Fits(worker[w].got) /\ Fits(Held(w)) THEN IfChanged(w) ELSE Failed)

\* search: the files listed are looked at one by one.  One that is gone by then makes the search fail.
Search(w) ==
  /\ worker[w].at = "search"
  /\ IF worker[w].todo = {} \/ Cardinality(worker[w].found) >= maxSearchResults
     THEN End(w, Succeeded(worker[w].found, 1 + Cardinality(worker[w].found), FALSE))
     ELSE \E f \in worker[w].todo :
            IF Now(f) = None THEN End(w, Failed)
            ELSE Goto(w, IF Fits(Now(f)) THEN [worker[w] EXCEPT !.at = "readFile", !.file = f, !.todo = @ \ {f}]
                         ELSE [worker[w] EXCEPT !.todo = @ \ {f}])

Matches(text) == \E i \in DOMAIN text : text[i] = Query

SearchFile(w) ==
  /\ AllRead(w) /\ ops[worker[w].op].kind = "search"
  /\ LET s == worker[w] IN
     Goto(w, [Idle EXCEPT !.at = "search", !.op = s.op, !.todo = s.todo,
                          !.found = s.found \cup (IF Matches(s.got) THEN {s.file} ELSE {})])

\* Git, a service or a port: any answer.
Outside(w) ==
  /\ worker[w].at = "outside"
  /\ \E c \in Content : End(w, Failed) \/ End(w, Succeeded(c, Len(c), FALSE))

\* What the first k outcomes that were given have cost.
Spent(given, k) ==
  LET cost[n \in 0..Len(given)] ==
        IF n = 0 THEN 0 ELSE cost[n - 1] + (IF given[n].status = "succeeded" THEN given[n].bytes ELSE 0)
  IN cost[k]

\* The bytes that remain after each outcome: one that does not fit takes nothing.
remainingBytes(out) ==
  LET left[k \in 0..Len(out)] ==
        IF k = 0 THEN maxOutputBytes
        ELSE IF out[k].status = "succeeded" /\ out[k].bytes <= left[k - 1] THEN left[k - 1] - out[k].bytes ELSE left[k - 1]
  IN left

\* Faulty variant of Budgeted: what does not fit is still counted as spent.
BudgetedAll(out) ==
  [k \in DOMAIN out |-> IF out[k].status = "succeeded" /\ Spent(out, k) > maxOutputBytes
                         THEN [out[k] EXCEPT !.status = "omitted", !.value = None] ELSE out[k]]

\* The pass in order: an outcome that does not fit in what remains is omitted, later ones may still fit.
Budgeted(out) ==
  [k \in DOMAIN out |-> IF out[k].status = "succeeded" /\ out[k].bytes > remainingBytes(out)[k - 1]
                         THEN [out[k] EXCEPT !.status = "omitted", !.value = None] ELSE out[k]]

\* Faulty variant of Finish: a failed operation ends the batch for all.
FinishIfNoneFailed ==
  /\ ops # << >> /\ results = << >> /\ cursor = Len(ops) /\ \A w \in Worker : worker[w] = Idle
  /\ Failed \notin {outcomes[k] : k \in DOMAIN outcomes}
  /\ results' = Budgeted(outcomes)
  /\ UNCHANGED <<inode, path, writes, ops, cursor, worker, outcomes, named>>

Finish ==
  /\ ops # << >> /\ results = << >> /\ cursor = Len(ops) /\ \A w \in Worker : worker[w] = Idle
  /\ results' = Budgeted(outcomes)
  /\ UNCHANGED <<inode, path, writes, ops, cursor, worker, outcomes, named>>

Work(w) ==
  \/ Take(w) \/ Stat(w) \/ OpenFile(w) \/ Open(w) \/ CheckOpened(w) \/ ReadChunk(w) \/ ReadFile(w)
  \/ ReadHandle(w) \/ Digest(w) \/ Search(w) \/ SearchFile(w) \/ Outside(w)

Next ==
  \/ \E f \in File, c \in Content : Write(f, c) \/ Replace(f, c)
  \/ \E b \in Batches : batch(b)
  \/ \E w \in Worker : Work(w)
  \/ Finish

Fairness == WF_vars(Finish) /\ \A w \in Worker : WF_vars(Work(w))

Spec == Init /\ [][Next]_vars /\ Fairness

-----------------------------------------------------------------------------
TypeOK ==
  /\ inode \in [File \X (1..MaxGen) -> Content \cup {None}] /\ path \in [File -> 0..MaxGen]
  /\ writes \in 0..MaxWrites /\ ops \in Batches \cup {<< >>} /\ cursor \in 0..Len(ops)
  /\ \A w \in Worker : worker[w].op \in 0..Len(ops) /\ worker[w].todo \subseteq File
  /\ Len(outcomes) = Len(ops) /\ Len(results) \in {0, Len(ops)}

\* Every piece of a text is from a content of these, at its place, and the text is not cut short.
PiecedFrom(text, seen) ==
  /\ \A i \in DOMAIN text : \E c \in seen : i \in DOMAIN c /\ text[i] = c[i]
  /\ \E c \in seen : Len(c) <= Len(text)

\* A result stands where its operation stood, and what a read returns, or calls unchanged, is what its path named at
\* some moment of the operation, however the workers and the writers interleave; of a file that was written in place
\* while it was read, this holds of every piece (read-executor.ts 151-186, 289-298).
ResultsAreOfTheirTime ==
  \A k \in DOMAIN results :
     results[k].status = "succeeded" /\ ops[k].file # None =>
       LET text == IF results[k].value = None THEN ops[k].expected ELSE results[k].value IN
       IF results[k].mixed THEN PiecedFrom(text, named[k]) ELSE text \in named[k]

\* read-if-changed keeps to the size limit even if the file grows after its size was taken
\* (read-executor.ts 173-174; read and read-log do not).
LimitOutlastsGrowth ==
  \A k \in DOMAIN results :
     ops[k].kind = "read-if-changed" /\ results[k].status # "failed" => results[k].bytes <= maxFileBytes

\* The budget is kept, and nothing is left out that would have fitted with what was given before it
\* (read-executor.ts 300-319).
BudgetIsSpentInOrder ==
  \A k \in DOMAIN results :
     /\ Spent(results, k) <= maxOutputBytes
     /\ results[k].status = "omitted" => Spent(results, k) + results[k].bytes > maxOutputBytes

\* The batch ends, whatever the files go through.
BatchEnds == ops # << >> ~> results # << >>
=============================================================================
