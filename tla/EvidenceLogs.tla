---------------------------- MODULE EvidenceLogs ----------------------------
(***************************************************************************)
(* The append-only files of packages/evidence: telemetry, traces, alerts   *)
(* and the history store behind them.  Every operation is a list of writes *)
(* to several files, with an await before each: other calls run in between *)
(* and the process may die there.  Retention reads a history file, appends *)
(* the old rows to an archive and writes the rest back.                    *)
(***************************************************************************)
EXTENDS Naturals, Sequences, FiniteSets, SequencesExt

CONSTANTS
  Call,            \* calls in flight
  Subject,         \* scope, key and severity of an alert, by which a duplicate is recognised
  RetentionDays,   \* retention_days
  MaxRows, MaxDay, MaxCalls, MaxCrash   \* bounds

VARIABLES
  file,      \* the rows of every file: no row is told from another by its place
  todo,      \* what each call in flight still has to do
  rows,      \* rows drawn so far: a row is a number, its subject and its day
  day, calls, crashes,
  exposed    \* history: rows written while a retention was about to write the file back, or that a
             \* dead call had in its hands

vars == <<file, todo, rows, day, calls, crashes, exposed>>

HistoryType == <<"telemetry", "alerts">>      \* the types retention goes through, in this order
State(name) == <<"state", name>>
Raw(type) == <<"raw", type>>
Archive(type) == <<"archive", type>>
Path == {State("telemetry"), State("alerts"), State("inbox")}
          \cup {Raw(HistoryType[i]) : i \in DOMAIN HistoryType}
          \cup {Archive(HistoryType[i]) : i \in DOMAIN HistoryType}

Write(path, new) == [do |-> "append", path |-> path, rows |-> new]
Truncate(path, keep) == [do |-> "truncate", path |-> path, rows |-> keep]
Fill(path, keep) == [do |-> "fill", path |-> path, rows |-> keep]
Check(row) == [do |-> "check", path |-> State("alerts"), rows |-> {row}]
Retain(type) == [do |-> "retain", path |-> Raw(type), rows |-> {}]

Init ==
  /\ file = [p \in Path |-> {}] /\ todo = [c \in Call |-> << >>]
  /\ rows = 0 /\ day = 0 /\ calls = 0 /\ crashes = 0 /\ exposed = {}

Begin(c, steps) ==
  /\ todo[c] = << >> /\ calls < MaxCalls
  /\ calls' = calls + 1 /\ todo' = [todo EXCEPT ![c] = steps]
  /\ UNCHANGED <<file, day, crashes, exposed>>

Row(n, subject) == [id |-> n, subject |-> subject, day |-> day]

\* One event file and one history file; a trace does the same with its own two files.
RecordTelemetry(c) ==
  /\ rows < MaxRows /\ rows' = rows + 1
  /\ \E s \in Subject : LET row == Row(rows + 1, s) IN
       Begin(c, <<Write(State("telemetry"), {row}), Write(Raw("telemetry"), {row})>>)

\* The subjects above their budget or rule, each looked up in alerts.jsonl before it is written.
EvaluateAlerts(c) ==
  \E over \in SUBSET Subject \ {{}} :
    /\ rows + Cardinality(over) <= MaxRows /\ rows' = rows + Cardinality(over)
    /\ \E order \in SetToSeqs(over) :
         Begin(c, [i \in DOMAIN order |-> Check(Row(rows + i, order[i]))])

ApplyRetention(c) ==
  /\ RetentionDays > 0
  /\ UNCHANGED rows
  /\ Begin(c, [i \in DOMAIN HistoryType |-> Retain(HistoryType[i])])

\* The file of the alerts has an active one like the row in hand.
Active(new) == \E old \in file[State("alerts")], row \in new : old.subject = row.subject

\* Faulty variant of AppendOnce: the inbox first.
AppendOnceInboxFirst(new) ==
  IF Active(new) THEN << >> ELSE <<Write(State("inbox"), new), Write(State("alerts"), new), Write(Raw("alerts"), new)>>

\* Faulty variant of AppendOnce: the file is not looked at.
AppendAlways(new) == <<Write(State("alerts"), new), Write(State("inbox"), new), Write(Raw("alerts"), new)>>

\* appendOnce: the alert is written, with what follows it, unless the file holds an active one like it.
AppendOnce(new) ==
  IF Active(new) THEN << >> ELSE <<Write(State("alerts"), new), Write(State("inbox"), new), Write(Raw("alerts"), new)>>

Expired(row) == row.day + RetentionDays < day
Old(type) == {row \in file[Raw(type)] : Expired(row)}
\* Faulty variant of RetentionWrites: the file is written again and nothing goes to the archive.
RetentionDrops(type) ==
  IF Old(type) = {} THEN << >>
  ELSE <<Truncate(Raw(type), file[Raw(type)] \ Old(type)), Fill(Raw(type), file[Raw(type)] \ Old(type))>>

\* The rows of one type that are out of date go to the archive, then the file is written again.
RetentionWrites(type) ==
  IF Old(type) = {} THEN << >>
  ELSE <<Write(Archive(type), Old(type)),
         Truncate(Raw(type), file[Raw(type)] \ Old(type)), Fill(Raw(type), file[Raw(type)] \ Old(type))>>

\* A step that reads decides on the writes that take its place.
Decide(c) ==
  LET step == Head(todo[c]) IN
  /\ todo[c] # << >> /\ step.do \in {"check", "retain"}
  /\ todo' = [todo EXCEPT ![c] =
       (IF step.do = "check" THEN AppendOnce(step.rows) ELSE RetentionWrites(step.path[2])) \o Tail(@)]
  /\ UNCHANGED <<file, rows, day, calls, crashes, exposed>>

\* Another call, a retention, has read the file and not yet written it back.
AboutToReplace(path, c) == \E d \in Call \ {c} : \E i \in DOMAIN todo[d] :
  todo[d][i].do = "fill" /\ todo[d][i].path = path

DoWrite(c) ==
  LET step == Head(todo[c]) IN
  /\ todo[c] # << >> /\ step.do \in {"append", "truncate", "fill"}
  /\ file' = [file EXCEPT ![step.path] = CASE step.do = "append" -> @ \cup step.rows
                                           [] step.do = "truncate" -> {}
                                           [] step.do = "fill" -> step.rows]
  /\ exposed' = exposed \cup (IF AboutToReplace(step.path, c) THEN step.rows ELSE {})
  /\ todo' = [todo EXCEPT ![c] = Tail(@)]
  /\ UNCHANGED <<rows, day, calls, crashes>>

Crash(c) ==
  /\ todo[c] # << >> /\ crashes < MaxCrash
  /\ crashes' = crashes + 1
  /\ exposed' = exposed \cup UNION {todo[c][i].rows : i \in DOMAIN todo[c]}
  /\ todo' = [todo EXCEPT ![c] = << >>]
  /\ UNCHANGED <<file, rows, day, calls>>

NextDay == day < MaxDay /\ day' = day + 1 /\ UNCHANGED <<file, todo, rows, calls, crashes, exposed>>

Next ==
  \/ \E c \in Call : RecordTelemetry(c) \/ EvaluateAlerts(c) \/ ApplyRetention(c)
                       \/ Decide(c) \/ DoWrite(c) \/ Crash(c)
  \/ NextDay

Spec == Init /\ [][Next]_vars

-----------------------------------------------------------------------------
InHand(path) == UNION {UNION {todo[c][i].rows : i \in {j \in DOMAIN todo[c] : todo[c][j].path = path}} : c \in Call}

\* A row that telemetry has recorded stays in the history file or its archive, whatever retentions run and
\* die: it can only be lost when it was appended between the read and the write of a retention, or was in
\* the hands of a call that died.
LostOnlyIfExposed ==
  [][\A i \in DOMAIN HistoryType : LET t == HistoryType[i] IN
       \A row \in file[Raw(t)] : row \in file'[Raw(t)] \cup file'[Archive(t)] \cup InHand(Raw(t))' \cup exposed']_vars

\* An alert that was written is in the inbox too, is about to be, or belongs to a call that died; nothing
\* reaches the inbox without its alert.
InboxFollowsAlerts ==
  /\ file[State("alerts")] \subseteq file[State("inbox")] \cup InHand(State("inbox")) \cup exposed
  /\ file[State("inbox")] \subseteq file[State("alerts")]

\* However often the dashboard evaluates, an alert is written at most once per call that may overlap.
AlertsBoundedByCalls ==
  \A s \in Subject : Cardinality({row \in file[State("alerts")] : row.subject = s}) <= Cardinality(Call)
=============================================================================
