---------------------------- MODULE SharedLookups ----------------------------
(***************************************************************************)
(* What audits of one domain share while they run beside and after one     *)
(* another: the thread pools of src/audit_engine.py, the answer cache and  *)
(* the probe memo of src/dns_tools.py, the result cache of src/server.py   *)
(* and the snapshot table of src/dns_snapshots.py.                         *)
(*                                                                         *)
(* An audit is a task of the shared pool that hands its lookups to a pool  *)
(* of probes and waits for them; then it stores what it read and is        *)
(* cached.  The domain has one name with a TXT record, which the operator  *)
(* publishes, changes or removes at any time, and no CNAME.  DKIM stands   *)
(* for the selector probes, which have a memo instead of the cache; the    *)
(* operator publishes its key with the record.                             *)
(***************************************************************************)
EXTENDS Integers, Sequences, FiniteSets, SequencesExt

CONSTANTS
  Audits,         \* the audits that are run
  Scopes,         \* their scopes: an audit's key in the result cache
  Scopings,       \* which audit may have which
  Values,         \* what the record may say
  Absent,         \* that there is none
  Past,           \* what the rows of earlier audits may say, oldest first
  Earlier,        \* whoever wrote them
  SharedWorkers,  \* workers of _shared_executor
  ProbeWorkers,   \* workers of _probe_executor (and of _dkim_executor)
  NegativeCap,    \* NEGATIVE_TTL_CAP, in ticks of a minute
  NegativeTtl,    \* what the zone's SOA gives a negative answer
  PositiveTtl,    \* the TTL of the record
  MemoTtl,        \* PROBE_MEMO_TTL
  ResultTtl,      \* CACHE_TTL
  QueryTime,      \* bound: ticks a reply is on its way
  MaxTime,        \* bound: ticks
  MaxChanges      \* bound: changes of the record

ASSUME LookupsAssumption ==
  /\ Scopings \subseteq [Audits -> Scopes]
  /\ Absent \notin Values /\ Past \subseteq Seq(Values) /\ Earlier \notin Audits
  /\ {SharedWorkers, ProbeWorkers} \subseteq Nat \ {0}
  /\ {NegativeCap, NegativeTtl, PositiveTtl, MemoTtl, ResultTtl, QueryTime, MaxTime, MaxChanges}
       \subseteq Nat
  /\ NegativeCap + QueryTime < ResultTtl /\ MemoTtl <= NegativeCap

VARIABLES
  now,      \* the clock
  record,   \* what the domain publishes
  changes,  \* how often it was changed
  pc,       \* where each audit is
  scope,    \* its scope
  born,     \* when it began
  met,      \* the audits it ran beside
  queue,    \* the tasks waiting in each pool
  busy,     \* the tasks that hold a worker of it
  probe,    \* each lookup of an audit
  cache,    \* _PLAIN_CACHE: the entries of the name, by record type
  memo,     \* _probe_memo: the entry of the selector
  results,  \* _cache: the last result of each scope
  rows,     \* dns_snapshots: the rows of the record, oldest first
  latest    \* the row an audit saw as the latest
vars == <<now, record, changes, pc, scope, born, met, queue, busy, probe, cache, memo,
          results, rows, latest>>

Questions == {"TXT", "CNAME", "DKIM"}
Pools     == {"shared", "probe"}
Workers   == [shared |-> SharedWorkers, probe |-> ProbeWorkers]

NoAnswerYet == [value |-> Absent, nx |-> FALSE, at |-> 0, was |-> Absent,
                by |-> CHOOSE a \in Audits : TRUE]
NothingAsked == [q \in Questions |-> [state |-> "none", answer |-> NoAnswerYet]]
Answered(p) == p.state = "done"

\* A row: what it says, when the reply it rests on was sent, the audit that wrote it and
\* the one that had asked. Which audit wrote the rows of Past is of no matter.
EarlierRow(value) == [value |-> value, at |-> 0, by |-> Earlier, asker |-> Earlier]

-----------------------------------------------------------------------------
(* dns_tools: what an answer leaves behind, and what is found.              *)

Least(m, n) == IF m <= n THEN m ELSE n

(* LRUCache of dnspython: an answer is kept under its name and type, but    *)
(* NXDOMAIN under its name alone.                                           *)
KeyOf(question, answer) == IF answer.nx THEN "ANY" ELSE question
Expiry(answer) == now + IF answer.value = Absent THEN NegativeTtl ELSE PositiveTtl

\* What is kept of an answer: of the CNAME's, which it follows, nothing.
Heard(q, answer) == IF q = "CNAME" THEN NoAnswerYet ELSE [answer EXCEPT !.nx = FALSE]

\* BoundedNegativeCache.put without its rule for NXDOMAIN.
PutEveryType(question, answer) ==
  [cache EXCEPT ![KeyOf(question, answer)] =
     {[answer |-> [answer EXCEPT !.nx = FALSE],
       until |-> Least(Expiry(answer), now + NegativeCap)]}]

(* BoundedNegativeCache.put *)
Put(question, answer) ==
  LET key == KeyOf(question, answer)
      kept == Heard(question, answer)
  IN IF answer.value # Absent
     THEN [cache EXCEPT ![key] = {[answer |-> kept, until |-> Expiry(answer)]}]
     ELSE IF key = "ANY" THEN cache
     ELSE [cache EXCEPT ![key] =
             {[answer |-> kept, until |-> Least(Expiry(answer), now + NegativeCap)]}]

(* What a lookup finds without asking: in the cache for its own type or for *)
(* the name, or in the memo.                                                *)
Remembered(question) ==
  {e.answer : e \in IF question = "DKIM" THEN memo ELSE cache[question] \cup cache["ANY"]}

-----------------------------------------------------------------------------
Init ==
  /\ now = 0 /\ record \in Values \cup {Absent} /\ changes = 0
  /\ pc = [a \in Audits |-> "idle"] /\ scope \in Scopings
  /\ born = [a \in Audits |-> 0] /\ met = [a \in Audits |-> {}]
  /\ queue = [p \in Pools |-> <<>>] /\ busy = [p \in Pools |-> {}]
  /\ probe = [a \in Audits |-> NothingAsked]
  /\ cache = [k \in {"TXT", "CNAME", "ANY"} |-> {}] /\ memo = {}
  /\ results = [s \in Scopes |-> {}]
  /\ \E past \in Past : rows = [i \in 1..Len(past) |-> EarlierRow(past[i])]
  /\ latest = [a \in Audits |-> {}]

(* The world: the clock, and the operator.  Time begins with the first      *)
(* audit.  A tick is a minute: the program's own steps take none, and it    *)
(* passes while workers wait for replies, which arrive in QueryTime.  What  *)
(* has expired is never found again, and is dropped.                        *)
Begun == \E a \in Audits : pc[a] # "idle"
Free(pool) == Cardinality(busy[pool]) < Workers[pool]
Waiting ==
  /\ \A p \in Pools : queue[p] # <<>> => ~Free(p)
  /\ \A a \in Audits :
       /\ pc[a] \in {"idle", "replayed", "checking", "done"}
       /\ ~(<<a, "check">> \in busy.shared /\ \A q \in Questions : Answered(probe[a][q]))
       /\ \A q \in Questions :
            probe[a][q].state = "asked" => now - probe[a][q].answer.at < QueryTime
Tick ==
  /\ now < MaxTime /\ Begun /\ Waiting
  /\ now' = now + 1
  /\ cache' = [k \in DOMAIN cache |-> {c \in cache[k] : now' < c.until}]
  /\ memo' = {m \in memo : now' - m.from < MemoTtl}
  /\ results' = [s \in Scopes |-> {r \in results[s] : now' - r.at < ResultTtl}]
  /\ UNCHANGED <<record, changes, pc, scope, born, met, queue, busy, probe, rows, latest>>

Publish(value) ==
  /\ changes < MaxChanges /\ value # record /\ Begun
  /\ record' = value /\ changes' = changes + 1
  /\ UNCHANGED <<now, pc, scope, born, met, queue, busy, probe, cache, memo, results, rows,
                 latest>>

(* An audit starts: the result cache answers, or its check is queued.       *)
Running(a) == pc[a] \in {"checking", "storing", "selected", "comparing"}
Begin(a) ==
  /\ pc[a] = "idle"
  /\ IF results[scope[a]] # {}
     THEN /\ pc' = [pc EXCEPT ![a] = "replayed"]
          /\ UNCHANGED <<born, queue>>
     ELSE /\ pc' = [pc EXCEPT ![a] = "checking"]
          /\ born' = [born EXCEPT ![a] = now]
          /\ queue' = [queue EXCEPT !.shared = Append(@, <<a, "check">>)]
  /\ LET beside == IF results[scope[a]] # {} THEN {} ELSE {b \in Audits : Running(b)}
     IN met' = [b \in Audits |-> IF b = a THEN beside
                                 ELSE IF b \in beside THEN met[b] \cup {a} ELSE met[b]]
  /\ UNCHANGED <<now, record, changes, scope, busy, probe, cache, memo, results, rows,
                 latest>>

-----------------------------------------------------------------------------
(* The pools.  The check submits its lookups and holds its worker while it  *)
(* waits for them.                                                          *)

\* The pool of the lookups, were they handed to the pool the check runs on.
OwnPool(task) == "shared"
(* "No task may submit into the pool it is running on." *)
ProbePool(task) == "probe"

CheckStarts(a) ==
  /\ Free("shared") /\ queue.shared # <<>> /\ Head(queue.shared) = <<a, "check">>
  /\ busy' = [busy EXCEPT !.shared = @ \cup {<<a, "check">>}]
  /\ LET tasks == SetToSeq({<<a, q>> : q \in Questions})
         left  == [queue EXCEPT !.shared = Tail(@)]
     IN queue' = [left EXCEPT ![ProbePool(<<a, "check">>)] = @ \o tasks]
  /\ probe' = [probe EXCEPT ![a] = [q \in Questions |-> [@[q] EXCEPT !.state = "queued"]]]
  /\ UNCHANGED <<now, record, changes, pc, scope, born, met, cache, memo, results, rows,
                 latest>>

(* What the server answers when it is asked: it may say NXDOMAIN for a type *)
(* it does not serve, whatever else is at the name.                         *)
Replies(a, q) ==
  LET value == IF q = "CNAME" THEN Absent ELSE record
  IN {[value |-> value, nx |-> nx, at |-> now, was |-> record, by |-> a] :
        nx \in {n \in BOOLEAN : n => value = Absent /\ q # "DKIM"}}

(* A worker takes a lookup: answered from memory, or asked. *)
ProbeStarts(pool, a, q) ==
  /\ Free(pool) /\ queue[pool] # <<>> /\ Head(queue[pool]) = <<a, q>>
  /\ queue' = [queue EXCEPT ![pool] = Tail(@)]
  /\ IF Remembered(q) # {}
     THEN /\ \E answer \in Remembered(q) :
               probe' = [probe EXCEPT ![a][q] =
                           [state |-> "done", answer |-> Heard(q, answer)]]
          /\ UNCHANGED busy
     ELSE /\ \E answer \in Replies(a, q) :
               probe' = [probe EXCEPT ![a][q] = [state |-> "asked", answer |-> answer]]
          /\ busy' = [busy EXCEPT ![pool] = @ \cup {<<a, q>>}]
  /\ UNCHANGED <<now, record, changes, pc, scope, born, met, cache, memo, results, rows,
                 latest>>

(* The reply arrives, and is remembered: the memo counts from the asking.   *)
ProbeEnds(pool, a, q) ==
  /\ probe[a][q].state = "asked" /\ <<a, q>> \in busy[pool]
  /\ probe' = [probe EXCEPT ![a][q] = [state |-> "done", answer |-> Heard(q, @.answer)]]
  /\ busy' = [busy EXCEPT ![pool] = @ \ {<<a, q>>}]
  /\ IF q = "DKIM"
     THEN /\ memo' = {[answer |-> probe[a][q].answer, from |-> probe[a][q].answer.at]}
          /\ UNCHANGED cache
     ELSE /\ cache' = Put(q, probe[a][q].answer)
          /\ UNCHANGED memo
  /\ UNCHANGED <<now, record, changes, pc, scope, born, met, queue, results, rows, latest>>

CheckEnds(a) ==
  /\ <<a, "check">> \in busy.shared /\ \A q \in Questions : Answered(probe[a][q])
  /\ busy' = [busy EXCEPT !.shared = @ \ {<<a, "check">>}]
  /\ pc' = [pc EXCEPT ![a] = "storing"]
  /\ UNCHANGED <<now, record, changes, scope, born, met, queue, probe, cache, memo, results,
                 rows, latest>>

-----------------------------------------------------------------------------
(* store_snapshot: the latest row is read and the new one written in two    *)
(* statements.  An absent record is not stored.  A statement that the       *)
(* database refuses, which costs the history the row, is left out.          *)
Found(a) == probe[a]["TXT"].answer.value

\* Mutant: the rows are read in ascending order.
SelectOldest(a) ==
  /\ pc[a] = "storing"
  /\ latest' = [latest EXCEPT ![a] = IF rows = <<>> THEN {} ELSE {Head(rows).value}]
  /\ pc' = [pc EXCEPT ![a] = IF Found(a) = Absent THEN "comparing" ELSE "selected"]
  /\ UNCHANGED <<now, record, changes, scope, born, met, queue, busy, probe, cache, memo,
                 results, rows>>
SelectLatest(a) ==
  /\ pc[a] = "storing"
  /\ latest' = [latest EXCEPT ![a] = IF rows = <<>> THEN {} ELSE {Last(rows).value}]
  /\ pc' = [pc EXCEPT ![a] = IF Found(a) = Absent THEN "comparing" ELSE "selected"]
  /\ UNCHANGED <<now, record, changes, scope, born, met, queue, busy, probe, cache, memo,
                 results, rows>>

Differs(a) == latest[a] # {Found(a)}
RowOf(a) == LET answer == probe[a]["TXT"].answer
            IN [value |-> answer.value, at |-> answer.at, by |-> a, asker |-> answer.by]
InsertRow(a) ==
  /\ pc[a] = "selected"
  /\ rows' = IF Differs(a) THEN Append(rows, RowOf(a)) ELSE rows
  /\ latest' = [latest EXCEPT ![a] = {}]
  /\ pc' = [pc EXCEPT ![a] = "comparing"]
  /\ UNCHANGED <<now, record, changes, scope, born, met, queue, busy, probe, cache, memo,
                 results>>

(* The history is read, the result is cached, and what the audit held of    *)
(* its own is gone.                                                         *)
Finish(a) ==
  /\ pc[a] = "comparing"
  /\ results' = [results EXCEPT ![scope[a]] = {[at |-> now]}]
  /\ pc' = [pc EXCEPT ![a] = "done"]
  /\ probe' = [probe EXCEPT ![a] = NothingAsked] /\ born' = [born EXCEPT ![a] = 0]
  /\ UNCHANGED <<now, record, changes, scope, met, queue, busy, cache, memo, rows, latest>>

Work(a) ==
  \/ CheckStarts(a) \/ CheckEnds(a)
  \/ \E q \in Questions :
       \E pool \in Pools : ProbeStarts(pool, a, q) \/ ProbeEnds(pool, a, q)
  \/ SelectLatest(a) \/ InsertRow(a) \/ Finish(a)

Next ==
  \/ Tick
  \/ \E value \in Values \cup {Absent} : Publish(value)
  \/ \E a \in Audits : Begin(a) \/ Work(a)

(* The threads of the pools run.  The clock, the operator and visitors need *)
(* not.                                                                     *)
Spec == Init /\ [][Next]_vars /\ WF_vars(\E a \in Audits : Work(a))
-----------------------------------------------------------------------------
\* The fix is seen: an audit that asked and says "absent" has it from a reply of a time
\* when the record was absent, no longer ago than the cap and the way of a reply, and
\* never from one that an audit of its own scope had got and reported before it began
\* ("a re-audit can never be answered from a negative entry the previous audit created").
FixIsSeen ==
  \A a \in Audits, q \in {"TXT", "DKIM"} :
    LET answer == probe[a][q].answer
    IN pc[a] = "comparing" /\ answer.value = Absent =>
         /\ answer.was = Absent
         /\ answer.at + NegativeCap + QueryTime >= born[a]
         /\ answer.by # a /\ scope[answer.by] = scope[a] => answer.by \in met[a]

\* The history tells what happened, but for what audits that run at once do to it. A row
\* that an audit added says something new ("Only stores a new snapshot when a record
\* actually changes"), unless the audit that wrote it ran beside the one that wrote the
\* row before, and rests on a later reply, unless those who asked or wrote ran at once.
\* And an audit's record is not lost: when it has stored it there is a row that says it,
\* and only audits that it ran beside have added rows since.
Met == {pair \in Audits \X Audits : pair[1] \in met[pair[2]]}
HistoryTells ==
  /\ \A i \in 1..(Len(rows) - 1) :
       LET old == rows[i]
           new == rows[i + 1]
       IN new.by \in Audits =>
            /\ old.value = new.value => <<old.by, new.by>> \in Met
            /\ old.at > new.at => ({old.by, old.asker} \X {new.by, new.asker}) \cap Met # {}
  /\ \A a \in Audits : pc[a] = "comparing" /\ Found(a) # Absent =>
       \E i \in 1..Len(rows) :
         /\ rows[i].value = Found(a)
         /\ \A j \in (i + 1)..Len(rows) : <<rows[j].by, a>> \in Met

\* No pool waits for itself: every audit that is queued ends, however many are queued
\* ("No task may submit into the pool it is running on").
ChecksEnd == \A a \in Audits : pc[a] = "checking" ~> pc[a] = "done"
=============================================================================
