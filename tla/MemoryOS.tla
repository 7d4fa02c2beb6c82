------------------------------ MODULE MemoryOS ------------------------------
(***************************************************************************)
(* The memory log of packages/brain/src/memory.mjs.  Every operation reads *)
(* the whole of events.jsonl, takes the last event of each memory as its   *)
(* current record, and appends one event or two.  Between the read and the *)
(* appends other calls, of this process or another, may append; a process  *)
(* may also die there.                                                     *)
(***************************************************************************)
EXTENDS Naturals, Sequences, FiniteSets, SequencesExt

CONSTANTS
  Id,         \* memory ids that callers choose or the store draws
  Call,       \* calls in flight
  Given,      \* what callers say of a memory: [ns, status, evidence]
  TopK,       \* top_k, at most 5 in the code
  MaxEvents,  \* bound on the log
  MaxCrash,   \* bound on the calls that die half way
  None

VARIABLES
  log,    \* events.jsonl (retrieval.jsonl, which only lists what was recalled, is left out)
  call,   \* the events each call in flight still has to append
  read,   \* the length of the log each call read, and then left
  torn    \* ids whose event a dead call did not append

vars == <<log, call, read, torn>>

\* "claude" stands for the namespaces one agent owns, "project" for those every agent writes.
Namespace == {"company", "project", "claude"}
Status == {"CANDIDATE", "VALIDATED", "ACTIVE", "STALE", "SUPERSEDED", "REJECTED", "ARCHIVED"}
Memory == [id : Id, ns : Namespace, status : Status, version : 1..(MaxEvents + 1),
           evidence : BOOLEAN, by : Id \cup {None}, from : Id \cup {None}]
Event == [action : {"CREATED", "RETRIEVED", "VALIDATED", "REJECTED", "PROMOTED", "SUPERSEDED", "ARCHIVED"},
          memory : Memory]

Known(l) == {l[i].memory.id : i \in DOMAIN l}
\* The last event of an id holds its current record.
Current(l, id) == l[CHOOSE i \in DOMAIN l : /\ l[i].memory.id = id
                                            /\ \A j \in DOMAIN l : l[j].memory.id = id => j <= i].memory

\* Every agent writes every namespace but the private ones of the others; "system" writes them all.
ActorCanWrite(ns, actor) == ns # "claude" \/ actor \in {"claude", "system"}

\* Only a promotion makes a company record (allowCompany).
NormalizedRecord(id, given) ==
  [id |-> id, ns |-> given.ns, status |-> given.status, version |-> 1, evidence |-> given.evidence, by |-> None, from |-> None]
Active(ns, evidence) == [ns |-> ns, status |-> "ACTIVE", evidence |-> evidence]

With(memory, status) == [memory EXCEPT !.status = status, !.version = @ + 1]
AppendEvent(action, memory) == [action |-> action, memory |-> memory]

Pending(c) == {call[c][i].memory.id : i \in DOMAIN call[c]}
\* An id that the store draws is nobody's.
FreshId == Id \ (Known(log) \cup torn \cup UNION {Pending(c) : c \in Call})

Idle(c) == call[c] = << >> /\ Len(log) < MaxEvents
\* The call has read the log: what it will append is decided here.
Begin(c, events) ==
  call' = [call EXCEPT ![c] = events] /\ read' = [read EXCEPT ![c] = Len(log)] /\ UNCHANGED <<log, torn>>

Init == log = << >> /\ call = [c \in Call |-> << >>] /\ read = [c \in Call |-> 0] /\ torn = {}

\* The caller may name any id, also one in use, and any status.
Remember(c) ==
  /\ Idle(c)
  /\ \E id \in Id, given \in Given, actor \in {"claude", "codex", "system"} :
       /\ given.ns # "company" /\ ActorCanWrite(given.ns, actor)
       /\ Begin(c, <<AppendEvent("CREATED", NormalizedRecord(id, given))>>)

\* A handoff is a memory of its own.
CreateHandoff(c) ==
  Idle(c) /\ \E id \in FreshId : Begin(c, <<AppendEvent("CREATED", NormalizedRecord(id, Active("project", FALSE)))>>)

\* The memories a recall may return: the current ones, those with the candidates, or one status alone.
\* What layer, scope, namespace, query and ttl leave of them is any part of at most TopK, best first.
Retrievable(statuses) == {id \in Known(log) : Current(log, id).status \in statuses}

Recall(c) ==
  /\ Idle(c)
  /\ \E statuses \in {{"ACTIVE", "VALIDATED"}, {"ACTIVE", "VALIDATED", "CANDIDATE", "STALE"}} \cup {{s} : s \in Status} :
       \E found \in SUBSET Retrievable(statuses) \ {{}} :
         \E ranked \in SetToSeqs(found) :
           /\ Len(ranked) <= TopK
           /\ Begin(c, [i \in DOMAIN ranked |-> AppendEvent("RETRIEVED", Current(log, ranked[i]))])

\* Faulty variant of ValidateMemory: whatever the memory's status.
ValidateMemoryOfAny(c) ==
  /\ Idle(c)
  /\ \E id \in Known(log), status \in {"VALIDATED", "REJECTED"} :
       Begin(c, <<AppendEvent(status, [With(Current(log, id), status) EXCEPT !.evidence = TRUE])>>)

ValidateMemory(c) ==
  /\ Idle(c)
  /\ \E id \in Known(log), status \in {"VALIDATED", "REJECTED"} :
       /\ Current(log, id).status = "CANDIDATE"
       /\ Begin(c, <<AppendEvent(status, [With(Current(log, id), status) EXCEPT !.evidence = TRUE])>>)

\* Faulty variant of PromoteMemory: the source's status is not looked at.
PromoteMemoryOfAny(c) ==
  /\ Idle(c)
  /\ \E id \in Known(log), copy \in FreshId, given \in BOOLEAN :
       /\ given \/ Current(log, id).evidence
       /\ Begin(c, <<AppendEvent("PROMOTED", [NormalizedRecord(copy, Active("company", TRUE)) EXCEPT !.from = id])>>)

\* The company copy gets a new id; the memory it comes from is left as it is.
PromoteMemory(c) ==
  /\ Idle(c)
  /\ \E id \in Known(log), copy \in FreshId, given \in BOOLEAN :
       /\ Current(log, id).status = "VALIDATED"
       /\ given \/ Current(log, id).evidence
       /\ Begin(c, <<AppendEvent("PROMOTED", [NormalizedRecord(copy, Active("company", TRUE)) EXCEPT !.from = id])>>)

\* Faulty variant of SupersedeMemory: the replacement is not written.
SupersedeMemoryAlone(c) ==
  /\ Idle(c)
  /\ \E id \in Known(log), next \in Id, actor \in {"claude", "codex", "system"} :
       /\ ActorCanWrite(Current(log, id).ns, actor)
       /\ Begin(c, <<AppendEvent("SUPERSEDED", [With(Current(log, id), "SUPERSEDED") EXCEPT !.by = next])>>)

\* The replacement has the id, the namespace (by default that of the old memory) and the status the caller names.
SupersedeMemory(c) ==
  /\ Idle(c)
  /\ \E id \in Known(log), next \in Id, given \in Given, actor \in {"claude", "codex", "system"} :
       /\ ActorCanWrite(Current(log, id).ns, actor)
       /\ given.ns # "company" /\ ActorCanWrite(given.ns, actor)
       /\ Begin(c, <<AppendEvent("SUPERSEDED", [With(Current(log, id), "SUPERSEDED") EXCEPT !.by = next]),
                     AppendEvent("CREATED", NormalizedRecord(next, given))>>)

ArchiveMemory(c) ==
  /\ Idle(c)
  /\ \E id \in Known(log), actor \in {"claude", "codex", "system"} :
       /\ ActorCanWrite(Current(log, id).ns, actor)
       /\ Begin(c, <<AppendEvent("ARCHIVED", With(Current(log, id), "ARCHIVED"))>>)

AppendMemoryEvent(c) ==
  /\ call[c] # << >>
  /\ log' = Append(log, Head(call[c]))
  /\ call' = [call EXCEPT ![c] = Tail(@)]
  /\ read' = [read EXCEPT ![c] = @ + 1]
  /\ UNCHANGED torn

\* The process dies between the read and an append.
Crash(c) ==
  /\ call[c] # << >> /\ Cardinality(torn) < MaxCrash
  /\ torn' = torn \cup Pending(c)
  /\ call' = [call EXCEPT ![c] = << >>]
  /\ UNCHANGED <<log, read>>

Next == \E c \in Call :
  Remember(c) \/ CreateHandoff(c) \/ Recall(c) \/ ValidateMemory(c) \/ PromoteMemory(c) \/ SupersedeMemory(c)
    \/ ArchiveMemory(c) \/ AppendMemoryEvent(c) \/ Crash(c)

Spec == Init /\ [][Next]_vars

-----------------------------------------------------------------------------
\* Nothing reaches the company namespace but by promotion: whatever other calls append meanwhile, every
\* company record was copied, with evidence, from a memory that the log showed VALIDATED before it.
CompanyIsValidated ==
  \A i \in DOMAIN log : log[i].memory.ns = "company" =>
    /\ log[i].memory.evidence
    /\ \E j \in 1..(i - 1) : log[j].memory.id = log[i].memory.from /\ log[j].memory.status = "VALIDATED"

\* What supersedes a memory is an id that the log holds, that the same call is about to append, or that a
\* dead call never appended.
SuccessorExists ==
  \A i \in DOMAIN log : log[i].action = "SUPERSEDED" =>
    log[i].memory.by \in Known(log) \cup torn \cup UNION {Pending(c) : c \in Call}

MovesOn(old, new) == \/ new \in {old, "SUPERSEDED", "ARCHIVED"}
                     \/ old = "CANDIDATE" /\ new \in {"VALIDATED", "REJECTED"}
\* The current status of a memory goes back only when a caller remembers something else under its id, or when the
\* appended event was built from a log that another call has extended since: one call after another, what the store
\* itself does to a status only moves it on.
BackOnlyInARace ==
  [][\A id \in Known(log) :
       \/ MovesOn(Current(log, id).status, Current(log', id).status)
       \/ \E c \in Call : call'[c] # call[c] /\ (read[c] < Len(log) \/ Head(call[c]).action = "CREATED")]_vars

\* Once supersedeMemory has appended its event, getMemory finds the memory SUPERSEDED
\* (tests/integration/memory-os.test.mjs:97-98), or archived later.
SupersededSticks ==
  [][\A id \in Known(log) : Current(log, id).status = "SUPERSEDED" =>
       Current(log', id).status \in {"SUPERSEDED", "ARCHIVED"}]_vars
=============================================================================
