--------------------------- MODULE SharedLookupsProofs ---------------------------
(***************************************************************************)
(* That the pools the audits of one domain share never wait for themselves, *)
(* and what the answers they share can make them say, for any number of     *)
(* audits, scopes and workers, and any lifetimes that the assumption of     *)
(* SharedLookups allows.                                                    *)
(***************************************************************************)
EXTENDS SharedLookups, SequenceTheorems, FiniteSetTheorems, TLAPS

Records == Values \cup {Absent}
Answers == [value : Records, nx : BOOLEAN, at : Nat, was : Records, by : Audits]
Probes  == [state : {"none", "queued", "asked", "done"}, answer : Answers]
Rows    == [value : Records, at : Nat, by : Audits \cup {Earlier}, asker : Audits \cup {Earlier}]
Tasks   == Audits \X ({"check"} \cup Questions)

Types ==
  /\ now \in Nat /\ record \in Records /\ changes \in Nat
  /\ pc \in [Audits -> {"idle", "replayed", "checking", "storing", "selected", "comparing", "done"}]
  /\ scope \in [Audits -> Scopes] /\ born \in [Audits -> Nat] /\ met \in [Audits -> SUBSET Audits]
  /\ queue \in [Pools -> Seq(Tasks)] /\ busy \in [Pools -> SUBSET Tasks]
  /\ probe \in [Audits -> [Questions -> Probes]]
  /\ cache \in [{"TXT", "CNAME", "ANY"} -> SUBSET [answer : Answers, until : Nat]]
  /\ memo \in SUBSET [answer : Answers, from : Nat]
  /\ results \in [Scopes -> SUBSET [at : Nat]]
  /\ rows \in Seq(Rows) /\ latest \in [Audits -> SUBSET Records]

-----------------------------------------------------------------------------
(* The pools.                                                               *)

In(s)       == {s[i] : i \in 1..Len(s)}
Distinct(s) == \A i, j \in 1..Len(s) : s[i] = s[j] => i = j

\* A task is handed in once and runs once: a check from the queue of the audits, then on
\* its worker; a lookup from the queue of the probes.
TasksInv ==
  /\ Distinct(queue.shared) /\ Distinct(queue.probe)
  /\ \A t \in In(queue.shared) :
       \E a \in Audits : /\ t = <<a, "check">> /\ pc[a] = "checking"
                         /\ \A q \in Questions : probe[a][q].state = "none"
  /\ \A t \in In(queue.probe) :
       \E a \in Audits, q \in Questions : t = <<a, q>> /\ probe[a][q].state = "queued"
  /\ \A a \in Audits : <<a, "check">> \in busy.shared =>
       pc[a] = "checking" /\ \A q \in Questions : probe[a][q].state # "none"

\* The lookups of an audit belong to its check: before and after there are none, and it
\* goes on with the answers of all.
Stages ==
  \A a \in Audits, q \in Questions :
    /\ pc[a] \in {"idle", "replayed", "done"} => probe[a][q].state = "none"
    /\ pc[a] \in {"storing", "selected", "comparing"} => probe[a][q].state = "done"

\* Two audits that run have met.
Beside ==
  /\ \A a \in Audits : pc[a] = "idle" => met[a] = {}
  /\ \A a, b \in Audits : Running(a) /\ Running(b) /\ a # b => b \in met[a]

\* Taking the first task of a queue, and adding to one.
LEMMA TailIn ==
  ASSUME NEW S, NEW s \in Seq(S), s # <<>>, Distinct(s)
  PROVE  /\ Tail(s) \in Seq(S) /\ Distinct(Tail(s)) /\ Head(s) \in In(s)
         /\ In(Tail(s)) \subseteq In(s) \ {Head(s)}
<1>1. /\ Tail(s) \in Seq(S) /\ Len(Tail(s)) = Len(s) - 1 /\ Len(s) \in Nat \ {0}
      /\ \A i \in 1..Len(Tail(s)) : Tail(s)[i] = s[i + 1]
  BY HeadTailProperties, EmptySeq
<1>2. Head(s) = s[1] /\ 1 \in 1..Len(s)
  BY <1>1
<1>3. Distinct(Tail(s))
  BY <1>1 DEF Distinct
<1>4. ASSUME NEW i \in 1..Len(Tail(s)) PROVE Tail(s)[i] \in In(s) /\ Tail(s)[i] # Head(s)
  <2>1. i + 1 \in 1..Len(s) /\ i + 1 # 1
    BY <1>1
  <2>2. QED
    BY <1>1, <1>2, <2>1 DEF Distinct, In
<1>5. QED
  BY <1>1, <1>2, <1>3, <1>4 DEF In

LEMMA AppendIn ==
  ASSUME NEW S, NEW s \in Seq(S), NEW t \in S, t \notin In(s), Distinct(s)
  PROVE  /\ Append(s, t) \in Seq(S) /\ Distinct(Append(s, t))
         /\ In(Append(s, t)) \subseteq In(s) \cup {t}
<1>1. /\ Append(s, t) \in Seq(S) /\ Len(Append(s, t)) = Len(s) + 1 /\ Len(s) \in Nat
      /\ \A i \in 1..Len(s) : Append(s, t)[i] = s[i]
      /\ Append(s, t)[Len(s) + 1] = t
  BY AppendProperties, LenProperties
<1>2. \A i \in 1..Len(s) : s[i] # t
  BY DEF In
<1>3. \A i \in 1..(Len(s) + 1) : i \in 1..Len(s) \/ i = Len(s) + 1
  BY <1>1
<1>4. Distinct(Append(s, t))
  BY <1>1, <1>2, <1>3 DEF Distinct
<1>5. QED
  BY <1>1, <1>3, <1>4 DEF In

LEMMA ConcatIn ==
  ASSUME NEW S, NEW s \in Seq(S), NEW t \in Seq(S), In(s) \cap In(t) = {}, Distinct(s), Distinct(t)
  PROVE  /\ s \o t \in Seq(S) /\ Distinct(s \o t)
         /\ In(s \o t) \subseteq In(s) \cup In(t)
<1>1. /\ s \o t \in Seq(S) /\ Len(s \o t) = Len(s) + Len(t) /\ Len(s) \in Nat /\ Len(t) \in Nat
      /\ \A i \in 1..(Len(s) + Len(t)) :
           (s \o t)[i] = IF i <= Len(s) THEN s[i] ELSE t[i - Len(s)]
  BY ConcatProperties, LenProperties
<1>2. ASSUME NEW i \in 1..Len(s \o t)
      PROVE  \/ i \in 1..Len(s) /\ (s \o t)[i] = s[i]
             \/ i - Len(s) \in 1..Len(t) /\ (s \o t)[i] = t[i - Len(s)]
  BY <1>1
<1>3. \A i \in 1..Len(s), j \in 1..Len(t) : s[i] # t[j]
  BY DEF In
<1>4. ASSUME NEW i \in 1..Len(s \o t), NEW j \in 1..Len(s \o t), (s \o t)[i] = (s \o t)[j]
      PROVE  i = j
  <2>1. CASE i \in 1..Len(s) /\ (s \o t)[i] = s[i]
    BY <1>1, <1>2, <1>3, <1>4, <2>1 DEF Distinct
  <2>2. CASE i - Len(s) \in 1..Len(t) /\ (s \o t)[i] = t[i - Len(s)]
    <3>1. j - Len(s) \in 1..Len(t) /\ (s \o t)[j] = t[j - Len(s)]
      BY <1>2, <1>3, <1>4, <2>2
    <3>2. i - Len(s) = j - Len(s)
      BY <1>4, <2>2, <3>1 DEF Distinct
    <3>3. QED
      BY <1>1, <3>2
  <2>3. QED
    BY <1>2, <2>1, <2>2
<1>5. QED
  BY <1>1, <1>2, <1>4 DEF Distinct, In

\* A check has finitely many lookups.
LEMMA LookupsFinite ==
  ASSUME NEW a \in Audits
  PROVE  IsFiniteSet({<<a, q>> : q \in Questions})
<1>1. {<<a, q>> : q \in Questions} = {<<a, "TXT">>, <<a, "CNAME">>, <<a, "DKIM">>}
  BY DEF Questions
<1>2. IsFiniteSet({<<a, "TXT">>} \cup {<<a, "CNAME">>} \cup {<<a, "DKIM">>})
  BY FS_Union, FS_Singleton
<1>3. QED
  BY <1>1, <1>2

\* The lookups of a check, in the order in which it hands them in.
LEMMA LookupsOnce ==
  ASSUME NEW a \in Audits
  PROVE  LET tasks == SetToSeq({<<a, q>> : q \in Questions})
         IN tasks \in Seq(Tasks) /\ Distinct(tasks) /\ In(tasks) \subseteq {<<a, q>> : q \in Questions}
<1> DEFINE S == {<<a, q>> : q \in Questions}
           n == Cardinality(S)
<1>1. IsFiniteSet(S)
  BY LookupsFinite
<1>2. n \in Nat /\ ExistsBijection(1..n, S)
  BY <1>1, FS_CardinalityType
<1> HIDE DEF S
<1>3. \E f \in [1..n -> S] : IsInjective(f)
  BY <1>2 DEF ExistsBijection, Bijection, Injection
<1>4. SetToSeq(S) \in [1..n -> S] /\ IsInjective(SetToSeq(S))
  BY <1>3 DEF SetToSeq
<1>5. SetToSeq(S) \in Seq(S) /\ Len(SetToSeq(S)) = n
  BY <1>2, <1>4
<1>6. S \subseteq Tasks
  BY DEF S, Tasks
<1>7. SetToSeq(S) \in Seq(Tasks)
  BY <1>5, <1>6, SeqMonotonic
<1>8. Distinct(SetToSeq(S)) /\ In(SetToSeq(S)) \subseteq S
  BY <1>4, <1>5 DEF Distinct, In, IsInjective
<1>9. QED
  BY <1>7, <1>8 DEF S

-----------------------------------------------------------------------------
(* The clock.                                                               *)

\* Nothing is from the future, and a reply comes in time.
Clock ==
  /\ \A a \in Audits : born[a] <= now
  /\ \A s \in Scopes : \A r \in results[s] : r.at <= now
  /\ \A a \in Audits, q \in Questions : probe[a][q].state = "asked" =>
       LET answer == probe[a][q].answer
       IN answer.by = a /\ answer.at <= now /\ now <= answer.at + QueryTime

Typed == Types /\ TasksInv /\ Stages /\ Beside /\ Clock

LEMMA Amounts ==
  /\ NegativeCap \in Nat /\ NegativeTtl \in Nat /\ PositiveTtl \in Nat /\ MemoTtl \in Nat
  /\ ResultTtl \in Nat /\ QueryTime \in Nat
  /\ NegativeCap + QueryTime < ResultTtl /\ MemoTtl <= NegativeCap
BY LookupsAssumption

\* The types of what answers are made of.
LEMMA HeardType ==
  ASSUME NEW a \in Audits, NEW q, NEW answer \in Answers
  PROVE  Heard(q, answer) \in Answers
<1>1. (CHOOSE b \in Audits : TRUE) \in Audits
  OBVIOUS
<1>2. NoAnswerYet \in Answers
  BY <1>1 DEF NoAnswerYet, Answers, Records
<1>3. [answer EXCEPT !.nx = FALSE] \in Answers
  BY DEF Answers
<1>4. QED
  BY <1>2, <1>3 DEF Heard

LEMMA RepliesType ==
  ASSUME Types, NEW a \in Audits, NEW q \in Questions
  PROVE  Replies(a, q) \subseteq Answers
BY DEF Types, Replies, Answers, Records

LEMMA RememberedType ==
  ASSUME Types, NEW q \in Questions
  PROVE  Remembered(q) \subseteq Answers
BY DEF Types, Remembered, Questions

LEMMA PutType ==
  ASSUME Types, NEW a \in Audits, NEW q \in {"TXT", "CNAME"}, NEW answer \in Answers
  PROVE  Put(q, answer) \in [{"TXT", "CNAME", "ANY"} -> SUBSET [answer : Answers, until : Nat]]
<1> DEFINE kept == Heard(q, answer)
<1>1. kept \in Answers
  BY HeardType
<1>2. now \in Nat /\ Expiry(answer) \in Nat
  BY Amounts DEF Types, Expiry
<1>3. Least(Expiry(answer), now + NegativeCap) \in Nat
  BY <1>2, Amounts DEF Least
<1>4. KeyOf(q, answer) \in {"TXT", "CNAME", "ANY"}
  BY DEF KeyOf
<1>5. \A t \in Nat : {[answer |-> kept, until |-> t]} \in SUBSET [answer : Answers, until : Nat]
  BY <1>1
<1>6. \A t \in Nat, k \in {"TXT", "CNAME", "ANY"} :
        [cache EXCEPT ![k] = {[answer |-> kept, until |-> t]}]
          \in [{"TXT", "CNAME", "ANY"} -> SUBSET [answer : Answers, until : Nat]]
  BY <1>5 DEF Types
<1>7. cache \in [{"TXT", "CNAME", "ANY"} -> SUBSET [answer : Answers, until : Nat]]
  BY DEF Types
<1>8. CASE answer.value # Absent
  <2>1. Put(q, answer) =
          [cache EXCEPT ![KeyOf(q, answer)] = {[answer |-> kept, until |-> Expiry(answer)]}]
    BY <1>8 DEF Put
  <2>2. QED
    BY <1>2, <1>4, <1>6, <2>1
<1>9. CASE answer.value = Absent /\ KeyOf(q, answer) = "ANY"
  BY <1>7, <1>9 DEF Put
<1>10. CASE answer.value = Absent /\ KeyOf(q, answer) # "ANY"
  <2>1. Put(q, answer) =
          [cache EXCEPT ![KeyOf(q, answer)] =
             {[answer |-> kept, until |-> Least(Expiry(answer), now + NegativeCap)]}]
    BY <1>10 DEF Put
  <2>2. QED
    BY <1>3, <1>4, <1>6, <2>1
<1>11. QED
  BY <1>8, <1>9, <1>10

LEMMA TypedTick == Typed /\ Tick => Typed'
<1> SUFFICES ASSUME Typed, Tick PROVE Typed'
  OBVIOUS
<1> USE Amounts
<1>1. now \in Nat /\ now' = now + 1
  BY DEF Tick, Typed, Types
<1>2. Types'
  <2>1. cache' \in [{"TXT", "CNAME", "ANY"} -> SUBSET [answer : Answers, until : Nat]]
    BY DEF Tick, Typed, Types
  <2>2. memo' \in SUBSET [answer : Answers, from : Nat]
    BY DEF Tick, Typed, Types
  <2>3. results' \in [Scopes -> SUBSET [at : Nat]]
    BY DEF Tick, Typed, Types
  <2>4. QED
    BY <1>1, <2>1, <2>2, <2>3 DEF Tick, Typed, Types
<1>3. TasksInv' /\ Stages' /\ Beside'
  BY DEF Tick, Typed, TasksInv, Stages, Beside, Running
<1>4. Clock'
  <2>1. (\A a \in Audits : born[a] <= now)'
    BY <1>1 DEF Tick, Typed, Types, Clock
  <2>2. (\A s \in Scopes : \A r \in results[s] : r.at <= now)'
    <3>1. \A s \in Scopes : results'[s] \subseteq results[s]
      BY DEF Tick
    <3>2. \A s \in Scopes : \A r \in results[s] : r.at \in Nat /\ r.at <= now
      BY DEF Typed, Types, Clock
    <3>3. QED
      BY <1>1, <3>1, <3>2
  <2>3. ASSUME NEW a \in Audits, NEW q \in Questions, probe[a][q].state = "asked"
        PROVE  /\ probe[a][q].answer.by = a /\ probe[a][q].answer.at <= now'
               /\ now' <= probe[a][q].answer.at + QueryTime
    <3>1. probe[a][q].answer.at \in Nat
      BY DEF Typed, Types, Probes, Answers
    <3>2. probe[a][q].answer.by = a /\ probe[a][q].answer.at <= now
      BY <2>3 DEF Typed, Clock
    <3>3. now - probe[a][q].answer.at < QueryTime
      BY <2>3 DEF Tick, Waiting
    <3>4. QED
      BY <1>1, <3>1, <3>2, <3>3
  <2>4. UNCHANGED probe
    BY DEF Tick
  <2>5. QED
    BY <2>1, <2>2, <2>3, <2>4 DEF Clock
<1>5. QED
  BY <1>2, <1>3, <1>4 DEF Typed

\* The steps that touch no audit.
LEMMA TypedIdle ==
  ASSUME Typed, UNCHANGED <<now, pc, scope, born, met, queue, busy, probe, cache, memo, results,
                            rows, latest>>,
         record' \in Records, changes' \in Nat
  PROVE  Typed'
<1>1. Types'
  BY DEF Typed, Types
<1>2. TasksInv' /\ Stages' /\ Beside' /\ Clock'
  BY DEF Typed, TasksInv, Stages, Beside, Clock, Running
<1>3. QED
  BY <1>1, <1>2 DEF Typed

\* Whom an audit meets when it begins.
LEMMA BeginMet ==
  ASSUME Types, NEW a \in Audits, Begin(a)
  PROVE  /\ \A b \in Audits : b # a => met[b] \subseteq met'[b]
         /\ results[scope[a]] # {} => met' = [met EXCEPT ![a] = {}]
         /\ results[scope[a]] = {} =>
              /\ met'[a] = {b \in Audits : Running(b)}
              /\ \A b \in Audits : b # a /\ Running(b) => met'[b] = met[b] \cup {a}
         /\ \A b \in Audits : b # a /\ ~Running(b) => met'[b] = met[b]
         /\ met' \in [Audits -> SUBSET Audits]
<1> DEFINE beside == IF results[scope[a]] # {} THEN {} ELSE {b \in Audits : Running(b)}
<1>1. met' = [b \in Audits |-> IF b = a THEN beside
                               ELSE IF b \in beside THEN met[b] \cup {a} ELSE met[b]]
  BY DEF Begin
<1>2. met \in [Audits -> SUBSET Audits] /\ beside \subseteq Audits
  BY DEF Types
<1>3. CASE results[scope[a]] # {}
  <2>1. beside = {}
    BY <1>3
  <2>2. met' = [b \in Audits |-> IF b = a THEN {} ELSE met[b]]
    BY <1>1, <2>1
  <2>3. QED
    BY <1>2, <1>3, <2>2
<1>4. CASE results[scope[a]] = {}
  <2>1. beside = {b \in Audits : Running(b)}
    BY <1>4
  <2>2. QED
    BY <1>1, <1>2, <1>4, <2>1
<1>5. QED
  BY <1>3, <1>4

LEMMA TypedBegin ==
  ASSUME Typed, NEW a \in Audits, Begin(a)
  PROVE  Typed'
<1> USE DEF Typed, Types
<1>1. /\ pc[a] = "idle" /\ pc' = [pc EXCEPT ![a] = pc'[a]] /\ pc'[a] \in {"replayed", "checking"}
      /\ \A b \in Audits : b # a => pc'[b] = pc[b]
      /\ UNCHANGED <<now, record, changes, scope, busy, probe, cache, memo, results, rows, latest>>
  BY DEF Begin
<1>2. \A q \in Questions : probe[a][q].state = "none"
  BY <1>1 DEF Stages
<1>3. <<a, "check">> \in Tasks /\ <<a, "check">> \notin In(queue.shared)
  BY <1>1 DEF Tasks, TasksInv
<1>4. \/ UNCHANGED <<queue, born>>
      \/ /\ pc'[a] = "checking" /\ born' = [born EXCEPT ![a] = now]
         /\ queue' = [queue EXCEPT !.shared = Append(@, <<a, "check">>)]
  BY DEF Begin
<1>5. queue.shared \in Seq(Tasks) /\ queue.probe \in Seq(Tasks) /\ Distinct(queue.shared)
  BY DEF TasksInv, Pools
<1>6. /\ queue' \in [Pools -> Seq(Tasks)] /\ Distinct(queue'.shared) /\ queue'.probe = queue.probe
      /\ \A t \in In(queue'.shared) :
           t \in In(queue.shared) \/ (t = <<a, "check">> /\ pc'[a] = "checking")
  <2>1. CASE UNCHANGED <<queue, born>>
    BY <1>5, <2>1
  <2>2. CASE /\ pc'[a] = "checking"
             /\ queue' = [queue EXCEPT !.shared = Append(@, <<a, "check">>)]
    <3>1. /\ Append(queue.shared, <<a, "check">>) \in Seq(Tasks)
          /\ Distinct(Append(queue.shared, <<a, "check">>))
          /\ In(Append(queue.shared, <<a, "check">>)) \subseteq In(queue.shared) \cup {<<a, "check">>}
      BY <1>3, <1>5, AppendIn
    <3>2. queue'.shared = Append(queue.shared, <<a, "check">>) /\ queue'.probe = queue.probe
      BY <2>2 DEF Pools
    <3>3. queue' \in [Pools -> Seq(Tasks)]
      BY <2>2, <3>1
    <3>4. QED
      BY <2>2, <3>1, <3>2, <3>3
  <2>3. QED
    BY <1>4, <2>1, <2>2
<1>7. TasksInv'
  <2>1. ASSUME NEW t \in In(queue'.shared)
        PROVE  \E b \in Audits : /\ t = <<b, "check">> /\ pc'[b] = "checking"
                                 /\ \A q \in Questions : probe'[b][q].state = "none"
    <3>1. CASE t = <<a, "check">> /\ pc'[a] = "checking"
      BY <1>1, <1>2, <3>1
    <3>2. CASE t \in In(queue.shared)
      <4>1. PICK b \in Audits : /\ t = <<b, "check">> /\ pc[b] = "checking"
                                /\ \A q \in Questions : probe[b][q].state = "none"
        BY <3>2 DEF TasksInv
      <4>2. b # a
        BY <1>1, <4>1
      <4>3. QED
        BY <1>1, <4>1, <4>2
    <3>3. QED
      BY <1>6, <3>1, <3>2
  <2>2. (\A t \in In(queue.probe) :
           \E b \in Audits, q \in Questions : t = <<b, q>> /\ probe[b][q].state = "queued")'
    BY <1>1, <1>6 DEF TasksInv
  <2>3. (\A b \in Audits : <<b, "check">> \in busy.shared =>
           pc[b] = "checking" /\ \A q \in Questions : probe[b][q].state # "none")'
    BY <1>1 DEF TasksInv
  <2>4. QED
    BY <1>6, <2>1, <2>2, <2>3 DEF TasksInv, Distinct
<1>8. Stages'
  BY <1>1, <1>2 DEF Stages
<1>9. Beside'
  <2> HIDE DEF Typed, Types
  <2>0. /\ \A b \in Audits : b # a => met[b] \subseteq met'[b]
        /\ results[scope[a]] = {} =>
             /\ met'[a] = {b \in Audits : Running(b)}
             /\ \A b \in Audits : b # a /\ Running(b) => met'[b] = met[b] \cup {a}
        /\ \A b \in Audits : b # a /\ ~Running(b) => met'[b] = met[b]
    BY BeginMet DEF Typed
  <2>1. (\A b \in Audits : pc[b] = "idle" => met[b] = {})'
    <3>1. ASSUME NEW b \in Audits, pc'[b] = "idle" PROVE met'[b] = {}
      <4>1. b # a /\ pc[b] = "idle"
        BY <1>1, <3>1
      <4>2. QED
        BY <2>0, <4>1 DEF Beside, Running, Typed
    <3>2. QED
      BY <3>1
  <2>2. ASSUME NEW b \in Audits, NEW c \in Audits, Running(b)', Running(c)', b # c
        PROVE  c \in met'[b]
    <3>1. CASE pc'[a] = "replayed"
      <4>1. Running(b) /\ Running(c) /\ b # a
        BY <1>1, <2>2, <3>1 DEF Running
      <4>2. QED
        BY <2>0, <2>2, <4>1 DEF Beside, Typed
    <3>2. CASE pc'[a] = "checking"
      <4>1. results[scope[a]] = {}
        BY <1>1, <3>2 DEF Begin, Typed, Types
      <4>2. CASE b = a
        <5>1. Running(c)
          BY <1>1, <2>2, <4>2 DEF Running
        <5>2. QED
          BY <2>0, <4>1, <4>2, <5>1
      <4>3. CASE c = a
        <5>1. Running(b)
          BY <1>1, <2>2, <4>3 DEF Running
        <5>2. QED
          BY <2>0, <2>2, <4>1, <4>3, <5>1
      <4>4. CASE b # a /\ c # a
        <5>1. Running(b) /\ Running(c)
          BY <1>1, <2>2, <4>4 DEF Running
        <5>2. QED
          BY <2>0, <2>2, <4>4, <5>1 DEF Beside, Typed
      <4>5. QED
        BY <4>2, <4>3, <4>4
    <3>3. QED
      BY <1>1, <3>1, <3>2
  <2>3. QED
    BY <2>1, <2>2 DEF Beside
<1>10. Clock' /\ born' \in [Audits -> Nat]
  <2>1. born' \in [Audits -> Nat] /\ \A b \in Audits : born'[b] <= now
    <3>1. now \in Nat /\ born \in [Audits -> Nat] /\ \A b \in Audits : born[b] <= now
      BY DEF Clock
    <3>2. CASE born' = born
      BY <3>1, <3>2
    <3>3. CASE born' = [born EXCEPT ![a] = now]
      <4>1. \A b \in Audits : born'[b] = IF b = a THEN now ELSE born[b]
        BY <3>1, <3>3
      <4>2. QED
        BY <3>1, <3>3, <4>1
    <3>4. QED
      BY <1>4, <3>2, <3>3
  <2>2. QED
    BY <1>1, <2>1 DEF Clock
<1>11. Types'
  <2>1. pc' \in [Audits -> {"idle", "replayed", "checking", "storing", "selected", "comparing", "done"}]
    BY <1>1
  <2>2. QED
    BY <1>1, <1>6, <1>10, <2>1, BeginMet
<1>12. QED
  BY <1>7, <1>8, <1>9, <1>10, <1>11

LEMMA TypedCheckStarts ==
  ASSUME Typed, NEW a \in Audits, CheckStarts(a)
  PROVE  Typed'
<1> USE DEF Typed, Types
<1> DEFINE tasks == SetToSeq({<<a, q>> : q \in Questions})
<1>1. /\ queue.shared \in Seq(Tasks) /\ queue.probe \in Seq(Tasks) /\ queue.shared # <<>>
      /\ Distinct(queue.shared) /\ Distinct(queue.probe) /\ Head(queue.shared) = <<a, "check">>
  BY DEF TasksInv, Pools, CheckStarts
<1>2. /\ tasks \in Seq(Tasks) /\ Distinct(tasks) /\ In(tasks) \subseteq {<<a, q>> : q \in Questions}
  BY LookupsOnce
<1> HIDE DEF tasks
<1>3. /\ Tail(queue.shared) \in Seq(Tasks) /\ Distinct(Tail(queue.shared))
      /\ <<a, "check">> \in In(queue.shared)
      /\ In(Tail(queue.shared)) \subseteq In(queue.shared) \ {<<a, "check">>}
  <2> HIDE DEF Typed, Types
  <2>1. /\ Tail(queue.shared) \in Seq(Tasks) /\ Distinct(Tail(queue.shared))
        /\ Head(queue.shared) \in In(queue.shared)
        /\ In(Tail(queue.shared)) \subseteq In(queue.shared) \ {Head(queue.shared)}
    BY <1>1, TailIn
  <2>2. QED
    BY <1>1, <2>1
<1>4. pc[a] = "checking" /\ \A q \in Questions : probe[a][q].state = "none"
  BY <1>3 DEF TasksInv
<1>5. In(queue.probe) \cap In(tasks) = {}
  <2>1. ASSUME NEW t \in In(queue.probe), t \in In(tasks) PROVE FALSE
    <3>1. PICK b \in Audits, r \in Questions : t = <<b, r>> /\ probe[b][r].state = "queued"
      BY DEF TasksInv
    <3>2. PICK q \in Questions : t = <<a, q>>
      BY <1>2, <2>1
    <3>3. b = a
      BY <3>1, <3>2
    <3>4. QED
      BY <1>4, <3>1, <3>3
  <2>2. QED
    BY <2>1
<1>6. /\ queue.probe \o tasks \in Seq(Tasks) /\ Distinct(queue.probe \o tasks)
      /\ In(queue.probe \o tasks) \subseteq In(queue.probe) \cup In(tasks)
  BY <1>1, <1>2, <1>5, ConcatIn
<1>7. /\ queue' = [[queue EXCEPT !.shared = Tail(@)] EXCEPT !["probe"] = @ \o tasks]
      /\ busy' = [busy EXCEPT !.shared = @ \cup {<<a, "check">>}]
      /\ probe' = [probe EXCEPT ![a] = [q \in Questions |-> [@[q] EXCEPT !.state = "queued"]]]
      /\ UNCHANGED <<now, record, changes, pc, scope, born, met, cache, memo, results, rows,
                     latest>>
  BY DEF CheckStarts, ProbePool, tasks
<1>8. queue'.shared = Tail(queue.shared) /\ queue'.probe = queue.probe \o tasks
  BY <1>7 DEF Pools
<1>9. queue' \in [Pools -> Seq(Tasks)] /\ busy' \in [Pools -> SUBSET Tasks]
  <2>1. queue' \in [Pools -> Seq(Tasks)]
    BY <1>3, <1>6, <1>7
  <2>2. <<a, "check">> \in Tasks
    BY DEF Tasks
  <2>3. QED
    BY <1>7, <2>1, <2>2
<1>10. /\ probe' \in [Audits -> [Questions -> Probes]]
       /\ \A q \in Questions : probe'[a][q].state = "queued"
       /\ \A b \in Audits : b # a => probe'[b] = probe[b]
  <2>1. \A x \in Probes : [x EXCEPT !.state = "queued"] \in Probes
    BY DEF Probes
  <2>2. probe \in [Audits -> [Questions -> Probes]]
    OBVIOUS
  <2>3. \A q \in Questions : probe[a][q] \in Probes
    BY <2>2
  <2>4. [q \in Questions |-> [probe[a][q] EXCEPT !.state = "queued"]] \in [Questions -> Probes]
    BY <2>1, <2>3
  <2>5. probe'[a] = [q \in Questions |-> [probe[a][q] EXCEPT !.state = "queued"]]
    BY <1>7, <2>2
  <2>6. \A b \in Audits : b # a => probe'[b] = probe[b]
    BY <1>7, <2>2
  <2>7. probe' \in [Audits -> [Questions -> Probes]]
    BY <1>7, <2>2, <2>4
  <2>8. \A q \in Questions : probe'[a][q].state = "queued"
    <3>1. ASSUME NEW q \in Questions PROVE probe'[a][q].state = "queued"
      <4>1. probe'[a][q] = [probe[a][q] EXCEPT !.state = "queued"]
        BY <2>5
      <4>2. probe[a][q] \in Probes
        BY <2>3
      <4>3. QED
        BY <4>1, <4>2 DEF Probes
    <3>2. QED
      BY <3>1
  <2>9. QED
    BY <2>6, <2>7, <2>8
<1>11. TasksInv'
  <2>1. ASSUME NEW t \in In(queue'.shared)
        PROVE  \E b \in Audits : /\ t = <<b, "check">> /\ pc'[b] = "checking"
                                 /\ \A q \in Questions : probe'[b][q].state = "none"
    <3>1. t \in In(queue.shared) /\ t # <<a, "check">>
      BY <1>3, <1>8
    <3>2. PICK b \in Audits : /\ t = <<b, "check">> /\ pc[b] = "checking"
                              /\ \A q \in Questions : probe[b][q].state = "none"
      BY <3>1 DEF TasksInv
    <3>3. QED
      BY <1>7, <1>10, <3>1, <3>2
  <2>2. ASSUME NEW t \in In(queue'.probe)
        PROVE  \E b \in Audits, q \in Questions : t = <<b, q>> /\ probe'[b][q].state = "queued"
    <3>1. CASE t \in In(tasks)
      BY <1>2, <1>10, <3>1
    <3>2. CASE t \in In(queue.probe)
      <4>1. PICK b \in Audits, q \in Questions : t = <<b, q>> /\ probe[b][q].state = "queued"
        BY <3>2 DEF TasksInv
      <4>2. b # a
        BY <1>4, <4>1
      <4>3. QED
        BY <1>10, <4>1, <4>2
    <3>3. QED
      BY <1>6, <1>8, <3>1, <3>2
  <2>3. (\A b \in Audits : <<b, "check">> \in busy.shared =>
           pc[b] = "checking" /\ \A q \in Questions : probe[b][q].state # "none")'
    <3>1. busy'.shared = busy.shared \cup {<<a, "check">>}
      BY <1>7 DEF Pools
    <3>2. QED
      BY <1>4, <1>7, <1>10, <3>1 DEF TasksInv
  <2>4. Distinct(queue'.shared) /\ Distinct(queue'.probe)
    BY <1>3, <1>6, <1>8
  <2>5. QED
    BY <2>1, <2>2, <2>3, <2>4 DEF TasksInv, Distinct
<1>12. Stages' /\ Beside' /\ Clock'
  BY <1>4, <1>7, <1>10 DEF Stages, Beside, Clock, Running
<1>13. QED
  BY <1>7, <1>9, <1>10, <1>11, <1>12

\* A lookup that waits, or is asked, is one of an audit whose check runs.
LEMMA WorkIsChecking ==
  ASSUME Typed, NEW a \in Audits, NEW q \in Questions, probe[a][q].state \in {"queued", "asked"}
  PROVE  pc[a] = "checking"
BY DEF Typed, Types, Stages

\* The lookup that a worker takes waited in the queue of the probes, once.
LEMMA Taken ==
  ASSUME Typed, NEW a \in Audits, NEW q \in Questions, NEW pool \in Pools,
         ProbeStarts(pool, a, q)
  PROVE  /\ pool = "probe" /\ probe[a][q].state = "queued" /\ pc[a] = "checking"
         /\ queue' \in [Pools -> Seq(Tasks)] /\ queue'.shared = queue.shared
         /\ Distinct(queue'.probe) /\ In(queue'.probe) \subseteq In(queue.probe) \ {<<a, q>>}
<1>1. /\ queue \in [Pools -> Seq(Tasks)]
      /\ queue.shared \in Seq(Tasks) /\ queue.probe \in Seq(Tasks)
      /\ Distinct(queue.shared) /\ Distinct(queue.probe)
  BY DEF Typed, Types, TasksInv, Pools
<1>2. pool = "probe"
  <2>1. SUFFICES ASSUME pool = "shared" PROVE FALSE
    BY DEF Pools
  <2>2. queue.shared # <<>> /\ Head(queue.shared) = <<a, q>>
    BY <2>1 DEF ProbeStarts
  <2>3. <<a, q>> \in In(queue.shared)
    BY <1>1, <2>2, TailIn
  <2>4. PICK b \in Audits : <<a, q>> = <<b, "check">>
    BY <2>3 DEF Typed, TasksInv
  <2>5. QED
    BY <2>4 DEF Questions
<1>3. queue.probe # <<>> /\ Head(queue.probe) = <<a, q>>
  BY <1>2 DEF ProbeStarts
<1>4. /\ Tail(queue.probe) \in Seq(Tasks) /\ Distinct(Tail(queue.probe))
      /\ <<a, q>> \in In(queue.probe) /\ In(Tail(queue.probe)) \subseteq In(queue.probe) \ {<<a, q>>}
  BY <1>1, <1>3, TailIn
<1>5. probe[a][q].state = "queued"
  <2>1. PICK b \in Audits, r \in Questions : <<a, q>> = <<b, r>> /\ probe[b][r].state = "queued"
    BY <1>4 DEF Typed, TasksInv
  <2>2. QED
    BY <2>1
<1>6. queue' = [queue EXCEPT !["probe"] = Tail(queue.probe)]
  BY <1>2 DEF ProbeStarts
<1>7. queue'.shared = queue.shared /\ queue'.probe = Tail(queue.probe)
  BY <1>1, <1>6 DEF Pools
<1>8. queue' \in [Pools -> Seq(Tasks)]
  BY <1>1, <1>4, <1>6
<1>9. QED
  BY <1>2, <1>4, <1>5, <1>7, <1>8, WorkIsChecking

\* A worker answers a lookup or asks it: nothing else of the audits changes.
LEMMA TypedLookup ==
  ASSUME Typed, NEW a \in Audits, NEW q \in Questions, NEW x \in Probes,
         probe' = [probe EXCEPT ![a][q] = x], pc[a] = "checking",
         probe[a][q].state \in {"queued", "asked"}, x.state \in {"asked", "done"},
         x.state = "asked" => x.answer.by = a /\ x.answer.at = now,
         queue' \in [Pools -> Seq(Tasks)], queue'.shared = queue.shared,
         Distinct(queue'.probe), In(queue'.probe) \subseteq In(queue.probe),
         probe[a][q].state = "queued" => <<a, q>> \notin In(queue'.probe),
         busy' \in [Pools -> SUBSET Tasks],
         \A b \in Audits : <<b, "check">> \in busy'.shared => <<b, "check">> \in busy.shared,
         cache' \in [{"TXT", "CNAME", "ANY"} -> SUBSET [answer : Answers, until : Nat]],
         memo' \in SUBSET [answer : Answers, from : Nat],
         UNCHANGED <<now, record, changes, pc, scope, born, met, results, rows, latest>>
  PROVE  Typed'
<1>1. /\ probe' \in [Audits -> [Questions -> Probes]] /\ probe'[a][q] = x
      /\ \A b \in Audits, r \in Questions : b # a \/ r # q => probe'[b][r] = probe[b][r]
  BY DEF Typed, Types
<1>2. Types'
  BY <1>1 DEF Typed, Types
<1>3. TasksInv'
  <2>1. ASSUME NEW t \in In(queue'.shared)
        PROVE  \E b \in Audits : /\ t = <<b, "check">> /\ pc'[b] = "checking"
                                 /\ \A r \in Questions : probe'[b][r].state = "none"
    <3>1. PICK b \in Audits : /\ t = <<b, "check">> /\ pc[b] = "checking"
                              /\ \A r \in Questions : probe[b][r].state = "none"
      BY DEF Typed, TasksInv
    <3>2. b # a
      BY <3>1
    <3>3. QED
      BY <1>1, <3>1, <3>2
  <2>2. ASSUME NEW t \in In(queue'.probe)
        PROVE  \E b \in Audits, r \in Questions : t = <<b, r>> /\ probe'[b][r].state = "queued"
    <3>1. PICK b \in Audits, r \in Questions : t = <<b, r>> /\ probe[b][r].state = "queued"
      BY DEF Typed, TasksInv
    <3>2. b # a \/ r # q
      BY <3>1, <2>2
    <3>3. QED
      BY <1>1, <3>1, <3>2
  <2>3. ASSUME NEW b \in Audits, <<b, "check">> \in busy'.shared
        PROVE  pc'[b] = "checking" /\ \A r \in Questions : probe'[b][r].state # "none"
    BY <1>1, <2>3 DEF Typed, TasksInv
  <2>4. Distinct(queue'.shared)
    BY DEF Typed, TasksInv
  <2>5. QED
    BY <2>1, <2>2, <2>3, <2>4 DEF TasksInv, Distinct
<1>4. Stages'
  <2>1. ASSUME NEW b \in Audits, NEW r \in Questions
        PROVE  /\ pc'[b] \in {"idle", "replayed", "done"} => probe'[b][r].state = "none"
               /\ pc'[b] \in {"storing", "selected", "comparing"} => probe'[b][r].state = "done"
    BY <1>1 DEF Typed, Stages
  <2>2. QED
    BY <2>1 DEF Stages
<1>5. Beside'
  BY DEF Typed, Beside, Running
<1>6. Clock'
  <2>1. ASSUME NEW b \in Audits, NEW r \in Questions, probe'[b][r].state = "asked"
        PROVE  /\ probe'[b][r].answer.by = b /\ probe'[b][r].answer.at <= now
               /\ now <= probe'[b][r].answer.at + QueryTime
    <3>1. CASE b = a /\ r = q
      <4>1. now \in Nat /\ now <= now /\ now <= now + QueryTime
        BY Amounts DEF Typed, Types
      <4>2. QED
        BY <1>1, <2>1, <3>1, <4>1
    <3>2. CASE b # a \/ r # q
      BY <1>1, <2>1, <3>2 DEF Typed, Clock
    <3>3. QED
      BY <3>1, <3>2
  <2>2. (\A b \in Audits : born[b] <= now)' /\ (\A s \in Scopes : \A m \in results[s] : m.at <= now)'
    BY DEF Typed, Clock
  <2>3. QED
    BY <2>1, <2>2 DEF Clock
<1>7. QED
  BY <1>2, <1>3, <1>4, <1>5, <1>6 DEF Typed

LEMMA TypedProbeStarts ==
  ASSUME Typed, NEW a \in Audits, NEW q \in Questions, NEW pool \in Pools,
         ProbeStarts(pool, a, q)
  PROVE  Typed'
<1>1. /\ pool = "probe" /\ probe[a][q].state = "queued" /\ pc[a] = "checking"
      /\ queue' \in [Pools -> Seq(Tasks)] /\ queue'.shared = queue.shared
      /\ Distinct(queue'.probe) /\ In(queue'.probe) \subseteq In(queue.probe)
      /\ <<a, q>> \notin In(queue'.probe)
  BY Taken
<1>2. UNCHANGED <<now, record, changes, pc, scope, born, met, cache, memo, results, rows, latest>>
  BY DEF ProbeStarts
<1>3. CASE Remembered(q) # {}
  <2>1. PICK answer \in Remembered(q) :
          probe' = [probe EXCEPT ![a][q] = [state |-> "done", answer |-> Heard(q, answer)]]
    BY <1>3 DEF ProbeStarts
  <2>2. [state |-> "done", answer |-> Heard(q, answer)] \in Probes
    BY RememberedType, HeardType DEF Typed, Probes
  <2>3. UNCHANGED busy
    BY <1>3 DEF ProbeStarts
  <2>4. QED
    BY <1>1, <1>2, <2>1, <2>2, <2>3, TypedLookup DEF Typed, Types
<1>4. CASE Remembered(q) = {}
  <2>1. PICK answer \in Replies(a, q) :
          probe' = [probe EXCEPT ![a][q] = [state |-> "asked", answer |-> answer]]
    BY <1>4 DEF ProbeStarts
  <2>2. [state |-> "asked", answer |-> answer] \in Probes
    BY RepliesType DEF Typed, Probes
  <2>3. answer.by = a /\ answer.at = now
    BY DEF Replies
  <2>4. busy' = [busy EXCEPT !["probe"] = @ \cup {<<a, q>>}] /\ <<a, q>> \in Tasks
    BY <1>1, <1>4 DEF ProbeStarts, Tasks
  <2>5. busy' \in [Pools -> SUBSET Tasks] /\ busy'.shared = busy.shared
    BY <2>4 DEF Typed, Types, Pools
  <2>6. QED
    BY <1>1, <1>2, <2>1, <2>2, <2>3, <2>5, TypedLookup DEF Typed, Types
<1>5. QED
  BY <1>3, <1>4

\* What the end of a lookup does.
LEMMA Ended ==
  ASSUME Typed, NEW a \in Audits, NEW q \in Questions, NEW pool \in Pools,
         ProbeEnds(pool, a, q)
  PROVE  /\ probe[a][q].state = "asked" /\ pc[a] = "checking"
         /\ probe[a][q].answer \in Answers /\ Heard(q, probe[a][q].answer) \in Answers
         /\ probe' = [probe EXCEPT ![a][q] =
                        [state |-> "done", answer |-> Heard(q, probe[a][q].answer)]]
         /\ UNCHANGED <<now, record, changes, pc, scope, born, met, queue, results, rows, latest>>
<1>1. probe[a][q].state = "asked" /\ probe[a][q] \in Probes
  BY DEF ProbeEnds, Typed, Types
<1>2. probe[a][q].answer \in Answers
  BY <1>1 DEF Probes
<1>3. QED
  BY <1>1, <1>2, HeardType, WorkIsChecking DEF ProbeEnds

LEMMA TypedProbeEnds ==
  ASSUME Typed, NEW a \in Audits, NEW q \in Questions, NEW pool \in Pools,
         ProbeEnds(pool, a, q)
  PROVE  Typed'
<1> DEFINE x == [state |-> "done", answer |-> Heard(q, probe[a][q].answer)]
<1>1. /\ probe[a][q].state = "asked" /\ pc[a] = "checking" /\ probe' = [probe EXCEPT ![a][q] = x]
      /\ UNCHANGED <<now, record, changes, pc, scope, born, met, queue, results, rows, latest>>
      /\ x \in Probes /\ x.state = "done" /\ probe[a][q].answer \in Answers
  BY Ended DEF Probes
<1> HIDE DEF x
<1>2. /\ busy' \in [Pools -> SUBSET Tasks]
      /\ \A b \in Audits : <<b, "check">> \in busy'.shared => <<b, "check">> \in busy.shared
  <2>1. busy' = [busy EXCEPT ![pool] = @ \ {<<a, q>>}]
    BY DEF ProbeEnds
  <2>2. QED
    BY <2>1 DEF Typed, Types, Pools
<1>3. cache' \in [{"TXT", "CNAME", "ANY"} -> SUBSET [answer : Answers, until : Nat]]
      /\ memo' \in SUBSET [answer : Answers, from : Nat]
  <2>1. CASE q = "DKIM"
    <3>1. /\ memo' = {[answer |-> probe[a][q].answer, from |-> probe[a][q].answer.at]}
          /\ UNCHANGED cache
      BY <2>1 DEF ProbeEnds
    <3>2. probe[a][q].answer.at \in Nat
      BY <1>1 DEF Answers
    <3>3. QED
      BY <1>1, <3>1, <3>2 DEF Typed, Types
  <2>2. CASE q \in {"TXT", "CNAME"}
    <3>1. cache' = Put(q, probe[a][q].answer) /\ UNCHANGED memo
      BY <2>2 DEF ProbeEnds
    <3>2. QED
      BY <1>1, <2>2, <3>1, PutType DEF Typed, Types
  <2>3. QED
    BY <2>1, <2>2 DEF Questions
<1>4. /\ queue' \in [Pools -> Seq(Tasks)] /\ queue'.shared = queue.shared
      /\ Distinct(queue'.probe) /\ In(queue'.probe) \subseteq In(queue.probe)
  BY <1>1 DEF Typed, Types, TasksInv
<1>5. QED
  BY <1>1, <1>2, <1>3, <1>4, TypedLookup

LEMMA TypedCheckEnds ==
  ASSUME Typed, NEW a \in Audits, CheckEnds(a)
  PROVE  /\ Typed' /\ pc[a] = "checking" /\ \A q \in Questions : probe[a][q].state = "done"
<1> USE DEF Typed, Types
<1>1. /\ pc[a] = "checking" /\ pc' = [pc EXCEPT ![a] = "storing"]
      /\ \A q \in Questions : probe[a][q].state = "done"
      /\ UNCHANGED <<now, record, changes, scope, born, met, queue, probe, cache, memo, results,
                     rows, latest>>
  BY DEF CheckEnds, TasksInv, Answered
<1>2. busy' = [busy EXCEPT !["shared"] = @ \ {<<a, "check">>}]
  BY DEF CheckEnds
<1>3. busy' \in [Pools -> SUBSET Tasks] /\ busy'.shared = busy.shared \ {<<a, "check">>}
  BY <1>2 DEF Pools
<1>4. Types'
  BY <1>1, <1>3
<1>5. TasksInv'
  <2>1. ASSUME NEW t \in In(queue.shared)
        PROVE  \E b \in Audits : /\ t = <<b, "check">> /\ pc'[b] = "checking"
                                 /\ \A q \in Questions : probe[b][q].state = "none"
    <3>1. PICK b \in Audits : /\ t = <<b, "check">> /\ pc[b] = "checking"
                              /\ \A q \in Questions : probe[b][q].state = "none"
      BY DEF TasksInv
    <3>2. b # a
      BY <1>1, <3>1 DEF Questions
    <3>3. QED
      BY <1>1, <3>1, <3>2
  <2>2. ASSUME NEW b \in Audits, <<b, "check">> \in busy'.shared
        PROVE  pc'[b] = "checking" /\ \A q \in Questions : probe[b][q].state # "none"
    <3>1. b # a /\ <<b, "check">> \in busy.shared
      BY <1>3, <2>2
    <3>2. QED
      BY <1>1, <3>1 DEF TasksInv
  <2>3. \A t \in In(queue.probe) :
          \E b \in Audits, q \in Questions : t = <<b, q>> /\ probe[b][q].state = "queued"
    BY DEF TasksInv
  <2>4. Distinct(queue.shared) /\ Distinct(queue.probe)
    BY DEF TasksInv
  <2>5. UNCHANGED <<queue, probe>>
    BY <1>1
  <2>6. QED
    BY <2>1, <2>2, <2>3, <2>4, <2>5 DEF TasksInv
<1>6. Stages'
  BY <1>1 DEF Stages
<1>7. Beside'
  BY <1>1 DEF Beside, Running
<1>8. Clock'
  BY <1>1 DEF Clock
<1>9. QED
  BY <1>1, <1>4, <1>5, <1>6, <1>7, <1>8

\* A step of an audit that has its answers and no task in the pools.
LEMMA TypedAfter ==
  ASSUME Typed, NEW a \in Audits, pc[a] \in {"storing", "selected", "comparing"},
         pc' = [pc EXCEPT ![a] = pc'[a]], pc'[a] \in {"selected", "comparing"},
         rows' \in Seq(Rows), latest' \in [Audits -> SUBSET Records],
         UNCHANGED <<now, record, changes, scope, born, met, queue, busy, probe, cache, memo,
                     results>>
  PROVE  Typed'
<1>1. \A b \in Audits : b # a => pc'[b] = pc[b]
  BY DEF Typed, Types
<1>2. Types'
  BY DEF Typed, Types
<1>3. \A q \in Questions : probe[a][q].state = "done"
  BY DEF Typed, Stages
<1>4. TasksInv'
  <2>1. ASSUME NEW t \in In(queue.shared)
        PROVE  \E b \in Audits : /\ t = <<b, "check">> /\ pc'[b] = "checking"
                                 /\ \A q \in Questions : probe[b][q].state = "none"
    <3>1. PICK b \in Audits : /\ t = <<b, "check">> /\ pc[b] = "checking"
                              /\ \A q \in Questions : probe[b][q].state = "none"
      BY DEF Typed, TasksInv
    <3>2. QED
      BY <1>1, <3>1
  <2>2. ASSUME NEW b \in Audits, <<b, "check">> \in busy.shared
        PROVE  pc'[b] = "checking" /\ \A q \in Questions : probe[b][q].state # "none"
    <3>1. pc[b] = "checking" /\ \A q \in Questions : probe[b][q].state # "none"
      BY <2>2 DEF Typed, TasksInv
    <3>2. QED
      BY <1>1, <3>1
  <2>3. \A t \in In(queue.probe) :
          \E b \in Audits, q \in Questions : t = <<b, q>> /\ probe[b][q].state = "queued"
    BY DEF Typed, TasksInv
  <2>4. Distinct(queue.shared) /\ Distinct(queue.probe)
    BY DEF Typed, TasksInv
  <2>5. QED
    BY <2>1, <2>2, <2>3, <2>4 DEF TasksInv
<1>5. Stages'
  BY <1>1, <1>3 DEF Typed, Stages
<1>6. Beside'
  BY <1>1 DEF Typed, Beside, Running
<1>7. Clock'
  BY DEF Typed, Clock
<1>8. QED
  BY <1>2, <1>4, <1>5, <1>6, <1>7 DEF Typed

LEMMA AnswerType ==
  ASSUME Typed, NEW a \in Audits
  PROVE  probe[a]["TXT"].answer \in Answers
BY DEF Typed, Types, Probes, Questions

LEMMA TypedSelectLatest ==
  ASSUME Typed, NEW a \in Audits, SelectLatest(a)
  PROVE  Typed'
<1>1. rows # <<>> => Last(rows).value \in Records
  <2>1. rows \in Seq(Rows)
    BY DEF Typed, Types
  <2>2. rows # <<>> => Len(rows) \in 1..Len(rows)
    BY <2>1, EmptySeq
  <2>3. rows # <<>> => rows[Len(rows)] \in Rows
    BY <2>1, <2>2, ElementOfSeq
  <2>4. QED
    BY <2>3 DEF Last, Rows
<1>2. latest' \in [Audits -> SUBSET Records]
  BY <1>1 DEF SelectLatest, Typed, Types
<1>3. /\ pc[a] = "storing" /\ pc' = [pc EXCEPT ![a] = pc'[a]]
      /\ pc'[a] \in {"selected", "comparing"}
  BY DEF SelectLatest, Typed, Types
<1>4. QED
  BY <1>2, <1>3, TypedAfter DEF SelectLatest, Typed, Types

LEMMA TypedInsertRow ==
  ASSUME Typed, NEW a \in Audits, InsertRow(a)
  PROVE  Typed'
<1>1. rows' \in Seq(Rows)
  <2>1. RowOf(a) \in Rows
    BY AnswerType DEF RowOf, Rows, Answers
  <2>2. rows \in Seq(Rows)
    BY DEF Typed, Types
  <2>3. QED
    BY <2>1, <2>2, AppendProperties DEF InsertRow
<1>2. latest' \in [Audits -> SUBSET Records]
  BY DEF InsertRow, Typed, Types
<1>3. /\ pc[a] = "selected" /\ pc' = [pc EXCEPT ![a] = pc'[a]] /\ pc'[a] = "comparing"
  BY DEF InsertRow, Typed, Types
<1>4. QED
  BY <1>1, <1>2, <1>3, TypedAfter DEF InsertRow

LEMMA TypedFinish ==
  ASSUME Typed, NEW a \in Audits, Finish(a)
  PROVE  Typed'
<1> USE DEF Typed, Types
<1>1. /\ pc[a] = "comparing" /\ pc' = [pc EXCEPT ![a] = "done"]
      /\ results' = [results EXCEPT ![scope[a]] = {[at |-> now]}]
      /\ probe' = [probe EXCEPT ![a] = NothingAsked] /\ born' = [born EXCEPT ![a] = 0]
      /\ UNCHANGED <<now, record, changes, scope, met, queue, busy, cache, memo, rows, latest>>
  BY DEF Finish
<1>2. /\ \A b \in Audits : b # a => pc'[b] = pc[b] /\ probe'[b] = probe[b] /\ born'[b] = born[b]
      /\ pc'[a] = "done" /\ born'[a] = 0
      /\ \A q \in Questions : probe'[a][q].state = "none"
  BY <1>1 DEF NothingAsked
<1>3. \A q \in Questions : probe[a][q].state = "done"
  BY <1>1 DEF Stages
<1>4. Types'
  <2>1. NothingAsked \in [Questions -> Probes]
    <3>1. (CHOOSE b \in Audits : TRUE) \in Audits
      OBVIOUS
    <3>2. NoAnswerYet \in Answers
      BY <3>1 DEF NoAnswerYet, Answers, Records
    <3>3. QED
      BY <3>2 DEF NothingAsked, Probes
  <2>2. probe' \in [Audits -> [Questions -> Probes]]
    BY <1>1, <2>1
  <2>3. results' \in [Scopes -> SUBSET [at : Nat]]
    BY <1>1
  <2>4. born' \in [Audits -> Nat]
    BY <1>1
  <2>5. QED
    BY <1>1, <2>2, <2>3, <2>4
<1>5. TasksInv'
  <2>1. ASSUME NEW t \in In(queue.shared)
        PROVE  \E b \in Audits : /\ t = <<b, "check">> /\ pc'[b] = "checking"
                                 /\ \A q \in Questions : probe'[b][q].state = "none"
    <3>1. PICK b \in Audits : /\ t = <<b, "check">> /\ pc[b] = "checking"
                              /\ \A q \in Questions : probe[b][q].state = "none"
      BY DEF TasksInv
    <3>2. QED
      BY <1>1, <1>2, <3>1
  <2>2. ASSUME NEW b \in Audits, <<b, "check">> \in busy.shared
        PROVE  pc'[b] = "checking" /\ \A q \in Questions : probe'[b][q].state # "none"
    <3>1. pc[b] = "checking" /\ \A q \in Questions : probe[b][q].state # "none"
      BY <2>2 DEF TasksInv
    <3>2. QED
      BY <1>1, <1>2, <3>1
  <2>3. ASSUME NEW t \in In(queue.probe)
        PROVE  \E b \in Audits, q \in Questions : t = <<b, q>> /\ probe'[b][q].state = "queued"
    <3>1. PICK b \in Audits, q \in Questions : t = <<b, q>> /\ probe[b][q].state = "queued"
      BY DEF TasksInv
    <3>2. b # a
      BY <1>3, <3>1
    <3>3. QED
      BY <1>2, <3>1, <3>2
  <2>4. Distinct(queue.shared) /\ Distinct(queue.probe) /\ UNCHANGED <<queue, busy>>
    BY <1>1 DEF TasksInv
  <2>5. QED
    BY <2>1, <2>2, <2>3, <2>4 DEF TasksInv
<1>6. Stages'
  <2>1. ASSUME NEW b \in Audits, NEW q \in Questions
        PROVE  /\ pc'[b] \in {"idle", "replayed", "done"} => probe'[b][q].state = "none"
               /\ pc'[b] \in {"storing", "selected", "comparing"} => probe'[b][q].state = "done"
    <3>1. CASE b = a
      BY <1>2, <3>1
    <3>2. CASE b # a
      BY <1>2, <3>2 DEF Stages
    <3>3. QED
      BY <3>1, <3>2
  <2>2. QED
    BY <2>1 DEF Stages
<1>7. Beside'
  BY <1>1, <1>2 DEF Beside, Running
<1>8. Clock'
  <2>1. ASSUME NEW b \in Audits PROVE born'[b] <= now
    <3>1. CASE b = a
      <4>1. now \in Nat /\ born'[b] = 0
        BY <1>2, <3>1
      <4>2. QED
        BY <4>1
    <3>2. CASE b # a
      BY <1>2, <3>2 DEF Clock
    <3>3. QED
      BY <3>1, <3>2
  <2>2. ASSUME NEW s \in Scopes, NEW r \in results'[s] PROVE r.at <= now
    <3>1. r \in results[s] \/ r = [at |-> now]
      BY <1>1
    <3>2. QED
      BY <3>1 DEF Clock
  <2>3. ASSUME NEW b \in Audits, NEW q \in Questions, probe'[b][q].state = "asked"
        PROVE  /\ probe'[b][q].answer.by = b /\ probe'[b][q].answer.at <= now
               /\ now <= probe'[b][q].answer.at + QueryTime
    BY <1>2, <2>3 DEF Clock
  <2>4. now' = now
    BY <1>1
  <2>5. QED
    BY <2>1, <2>2, <2>3, <2>4 DEF Clock
<1>9. QED
  BY <1>4, <1>5, <1>6, <1>7, <1>8

\* Every step keeps the pools, the stages of the audits and the clock in order.
LEMMA TypedStep == Typed /\ [Next]_vars => Typed'
<1> SUFFICES ASSUME Typed, [Next]_vars PROVE Typed'
  OBVIOUS
<1>1. CASE Tick
  BY <1>1, TypedTick
<1>2. ASSUME NEW value \in Records, Publish(value) PROVE Typed'
  BY <1>2, TypedIdle DEF Publish, Typed, Types
<1>3. CASE UNCHANGED vars
  BY <1>3, TypedIdle DEF vars, Typed, Types
<1>4. ASSUME NEW a \in Audits, Work(a) PROVE Typed'
  BY <1>4, TypedCheckStarts, TypedCheckEnds, TypedProbeStarts, TypedProbeEnds,
     TypedSelectLatest, TypedInsertRow, TypedFinish DEF Work
<1>5. QED
  BY <1>1, <1>2, <1>3, <1>4, TypedBegin DEF Next, Records

\* The table as the audits find it.
LEMMA PastRows ==
  ASSUME Init
  PROVE  /\ rows \in Seq(Rows)
         /\ \A i \in 1..Len(rows) : rows[i].at = 0 /\ rows[i].by = Earlier
<1>1. PICK past \in Past : rows = [i \in 1..Len(past) |-> EarlierRow(past[i])]
  BY DEF Init
<1>2. past \in Seq(Values) /\ Len(past) \in Nat
  BY LookupsAssumption, LenProperties
<1>3. \A i \in 1..Len(past) : EarlierRow(past[i]) \in Rows
  BY <1>2, ElementOfSeq DEF EarlierRow, Rows, Records
<1>4. rows \in Seq(Rows) /\ Len(rows) = Len(past)
  BY <1>1, <1>2, <1>3
<1>5. QED
  BY <1>1, <1>4 DEF EarlierRow

LEMMA TypedInit == Init => Typed
<1> SUFFICES ASSUME Init PROVE Typed
  OBVIOUS
<1> USE DEF Init
<1>1. Types
  <2>1. probe \in [Audits -> [Questions -> Probes]]
    <3>1. ASSUME NEW a \in Audits PROVE NothingAsked \in [Questions -> Probes]
      <4>1. (CHOOSE b \in Audits : TRUE) \in Audits
        OBVIOUS
      <4>2. NoAnswerYet \in Answers
        BY <4>1 DEF NoAnswerYet, Answers, Records
      <4>3. QED
        BY <4>2 DEF NothingAsked, Probes
    <3>2. QED
      BY <3>1
  <2>2. /\ now \in Nat /\ record \in Records /\ changes \in Nat /\ scope \in [Audits -> Scopes]
        /\ rows \in Seq(Rows)
    BY PastRows, LookupsAssumption DEF Records
  <2>3. /\ pc \in [Audits -> {"idle", "replayed", "checking", "storing", "selected", "comparing", "done"}]
        /\ born \in [Audits -> Nat] /\ met \in [Audits -> SUBSET Audits]
        /\ latest \in [Audits -> SUBSET Records]
    OBVIOUS
  <2>4. queue \in [Pools -> Seq(Tasks)] /\ busy \in [Pools -> SUBSET Tasks]
    BY EmptySeq
  <2>5. /\ cache \in [{"TXT", "CNAME", "ANY"} -> SUBSET [answer : Answers, until : Nat]]
        /\ memo \in SUBSET [answer : Answers, from : Nat]
        /\ results \in [Scopes -> SUBSET [at : Nat]]
    OBVIOUS
  <2>6. QED
    BY <2>1, <2>2, <2>3, <2>4, <2>5 DEF Types
<1>2. \A a \in Audits, q \in Questions : probe[a][q].state = "none"
  BY DEF NothingAsked
<1>3. TasksInv
  <2>1. queue.shared = <<>> /\ queue.probe = <<>> /\ busy.shared = {}
    BY DEF Pools
  <2>2. In(<<>>) = {} /\ Distinct(<<>>)
    BY DEF In, Distinct
  <2>3. QED
    BY <2>1, <2>2 DEF TasksInv
<1>4. Stages /\ Beside
  BY <1>2 DEF Stages, Beside, Running
<1>5. Clock
  BY <1>2 DEF Clock
<1>6. QED
  BY <1>1, <1>3, <1>4, <1>5 DEF Typed

LEMMA TypedHolds == Spec => []Typed
BY TypedInit, TypedStep, PTL DEF Spec

-----------------------------------------------------------------------------
(* No pool waits for itself.                                                *)

\* What is handed in is in its queue until a worker has it.
LEMMA TailAll ==
  ASSUME NEW S, NEW s \in Seq(S), s # <<>>
  PROVE  In(s) \subseteq In(Tail(s)) \cup {Head(s)}
<1>1. /\ Len(Tail(s)) = Len(s) - 1 /\ Len(s) \in Nat \ {0} /\ Head(s) = s[1]
      /\ \A i \in 1..Len(Tail(s)) : Tail(s)[i] = s[i + 1]
  BY HeadTailProperties, EmptySeq
<1>2. ASSUME NEW i \in 1..Len(s), i # 1 PROVE s[i] \in In(Tail(s))
  <2>1. i - 1 \in 1..Len(Tail(s)) /\ (i - 1) + 1 = i
    BY <1>1, <1>2
  <2>2. Tail(s)[i - 1] = s[i]
    BY <1>1, <2>1
  <2>3. QED
    BY <2>1, <2>2 DEF In
<1>3. QED
  BY <1>1, <1>2 DEF In

LEMMA AppendAll ==
  ASSUME NEW S, NEW s \in Seq(S), NEW t \in S
  PROVE  In(s) \cup {t} \subseteq In(Append(s, t))
<1>1. /\ Len(Append(s, t)) = Len(s) + 1 /\ Len(s) \in Nat
      /\ \A i \in 1..Len(s) : Append(s, t)[i] = s[i]
      /\ Append(s, t)[Len(s) + 1] = t
  BY AppendProperties, LenProperties
<1>2. Len(s) + 1 \in 1..(Len(s) + 1) /\ \A i \in 1..Len(s) : i \in 1..(Len(s) + 1)
  BY <1>1
<1>3. QED
  BY <1>1, <1>2 DEF In

LEMMA ConcatAll ==
  ASSUME NEW S, NEW s \in Seq(S), NEW t \in Seq(S)
  PROVE  In(s) \cup In(t) \subseteq In(s \o t)
<1>1. /\ Len(s \o t) = Len(s) + Len(t) /\ Len(s) \in Nat /\ Len(t) \in Nat
      /\ \A i \in 1..(Len(s) + Len(t)) :
           (s \o t)[i] = IF i <= Len(s) THEN s[i] ELSE t[i - Len(s)]
  BY ConcatProperties, LenProperties
<1>2. \A i \in 1..Len(s) : i \in 1..Len(s \o t) /\ (s \o t)[i] = s[i]
  BY <1>1
<1>3. \A i \in 1..Len(t) : Len(s) + i \in 1..Len(s \o t) /\ (s \o t)[Len(s) + i] = t[i]
  BY <1>1
<1>4. QED
  BY <1>2, <1>3 DEF In

LEMMA LookupsAll ==
  ASSUME NEW a \in Audits, NEW q \in Questions
  PROVE  <<a, q>> \in In(SetToSeq({<<a, x>> : x \in Questions}))
<1> DEFINE S == {<<a, x>> : x \in Questions}
           n == Cardinality(S)
<1>1. IsFiniteSet(S)
  BY LookupsFinite
<1>2. n \in Nat /\ ExistsBijection(1..n, S) /\ <<a, q>> \in S
  BY <1>1, FS_CardinalityType
<1> HIDE DEF S
<1>3. \E f \in [1..n -> S] : IsInjective(f)
  BY <1>2 DEF ExistsBijection, Bijection, Injection
<1>4. SetToSeq(S) \in [1..n -> S] /\ IsInjective(SetToSeq(S))
  BY <1>3 DEF SetToSeq
<1>5. SetToSeq(S) \in Injection(1..n, S)
  BY <1>4 DEF Injection, IsInjective
<1>6. IsFiniteSet(1..n) /\ Cardinality(1..n) = n
  BY <1>2, FS_Interval
<1>7. SetToSeq(S) \in Surjection(1..n, S)
  BY <1>1, <1>5, <1>6, FS_Injection
<1>8. \E i \in 1..n : SetToSeq(S)[i] = <<a, q>>
  BY <1>2, <1>7 DEF Surjection
<1>9. Len(SetToSeq(S)) = n
  BY <1>2, <1>4
<1>10. QED
  BY <1>8, <1>9 DEF In, S

\* A check that is under way waits in its queue or runs, and so does each of its lookups;
\* no worker has anything else.
Placed ==
  /\ \A a \in Audits : pc[a] = "checking" => <<a, "check">> \in In(queue.shared) \cup busy.shared
  /\ \A a \in Audits, q \in Questions :
       /\ probe[a][q].state = "queued" => <<a, q>> \in In(queue.probe)
       /\ probe[a][q].state = "asked"  => <<a, q>> \in busy.probe
  /\ \A t \in busy.shared : \E a \in Audits : t = <<a, "check">>
  /\ \A t \in busy.probe :
       \E a \in Audits, q \in Questions : t = <<a, q>> /\ probe[a][q].state = "asked"

\* The program can take a step for an audit: what the actions of Work ask for.
Ready(b) ==
  \/ pc[b] \in {"storing", "selected", "comparing"}
  \/ queue.shared # <<>> /\ Head(queue.shared) = <<b, "check">> /\ Free("shared")
  \/ <<b, "check">> \in busy.shared /\ \A q \in Questions : Answered(probe[b][q])
  \/ \E q \in Questions :
       \/ queue.probe # <<>> /\ Head(queue.probe) = <<b, q>> /\ Free("probe")
       \/ probe[b][q].state = "asked" /\ <<b, q>> \in busy.probe

\* "No task may submit into the pool it is running on": whenever a check is not over,
\* the program can go on with it or with one that it waits for. This is the part of
\* ChecksEnd that no fairness gives.
NoPoolWaits ==
  \A a \in Audits : pc[a] = "checking" => \E b \in Audits : Ready(b)

LEMMA PlacedIdle ==
  ASSUME Placed, UNCHANGED <<queue, busy, probe>>,
         \A a \in Audits : pc'[a] = "checking" => pc[a] = "checking"
  PROVE  Placed'
BY DEF Placed

LEMMA PlacedBegin ==
  ASSUME Typed, Placed, NEW a \in Audits, Begin(a)
  PROVE  Placed'
<1>1. UNCHANGED <<busy, probe>> /\ \A b \in Audits : b # a => pc'[b] = pc[b]
  BY DEF Begin, Typed, Types
<1>2. CASE results[scope[a]] # {}
  <2>1. queue' = queue /\ pc'[a] = "replayed"
    BY <1>2 DEF Begin, Typed, Types
  <2>2. QED
    BY <1>1, <2>1, PlacedIdle
<1>3. CASE results[scope[a]] = {}
  <2>1. /\ queue.shared \in Seq(Tasks) /\ <<a, "check">> \in Tasks
        /\ queue' = [queue EXCEPT !.shared = Append(@, <<a, "check">>)]
    BY <1>3 DEF Begin, Typed, Types, Tasks, Pools
  <2>2. queue'.shared = Append(queue.shared, <<a, "check">>) /\ queue'.probe = queue.probe
    BY <2>1 DEF Typed, Types, Pools
  <2>3. In(queue.shared) \cup {<<a, "check">>} \subseteq In(queue'.shared)
    BY <2>1, <2>2, AppendAll
  <2>4. QED
    BY <1>1, <2>2, <2>3 DEF Placed
<1>4. QED
  BY <1>2, <1>3

LEMMA PlacedCheckStarts ==
  ASSUME Typed, Placed, NEW a \in Audits, CheckStarts(a)
  PROVE  Placed'
<1> DEFINE tasks == SetToSeq({<<a, x>> : x \in Questions})
<1>1. /\ queue.shared \in Seq(Tasks) /\ queue.probe \in Seq(Tasks) /\ queue.shared # <<>>
      /\ Distinct(queue.shared) /\ Head(queue.shared) = <<a, "check">> /\ tasks \in Seq(Tasks)
  BY LookupsOnce DEF Typed, Types, TasksInv, Pools, CheckStarts
<1>2. \A q \in Questions : <<a, q>> \in In(tasks)
  BY LookupsAll
<1>3. \A q \in Questions : probe[a][q].state = "none"
  <2>1. Head(queue.shared) \in In(queue.shared)
    BY <1>1, TailIn
  <2>2. QED
    BY <1>1, <2>1 DEF Typed, TasksInv
<1>4. /\ queue' = [[queue EXCEPT !.shared = Tail(@)] EXCEPT !["probe"] = @ \o tasks]
      /\ busy' = [busy EXCEPT !.shared = @ \cup {<<a, "check">>}]
      /\ probe' = [probe EXCEPT ![a] = [q \in Questions |-> [@[q] EXCEPT !.state = "queued"]]]
      /\ pc' = pc
  BY DEF CheckStarts, ProbePool
<1> HIDE DEF tasks
<1>5. /\ queue'.shared = Tail(queue.shared) /\ queue'.probe = queue.probe \o tasks
      /\ busy'.shared = busy.shared \cup {<<a, "check">>} /\ busy'.probe = busy.probe
  BY <1>4 DEF Typed, Types, Pools
<1>6. /\ In(queue.shared) \subseteq In(queue'.shared) \cup {<<a, "check">>}
      /\ In(queue.probe) \cup In(tasks) \subseteq In(queue'.probe)
  BY <1>1, <1>5, TailAll, ConcatAll
<1>7. \A b \in Audits : b # a => probe'[b] = probe[b]
  BY <1>4 DEF Typed, Types
<1>8. ASSUME NEW q \in Questions PROVE probe'[a][q].state = "queued"
  <2>1. probe[a][q] \in Probes /\ probe'[a][q] = [probe[a][q] EXCEPT !.state = "queued"]
    BY <1>4 DEF Typed, Types
  <2>2. QED
    BY <2>1 DEF Probes
<1>9. ASSUME NEW b \in Audits, pc'[b] = "checking"
      PROVE  <<b, "check">> \in In(queue'.shared) \cup busy'.shared
  BY <1>4, <1>5, <1>6, <1>9 DEF Placed
<1>10. ASSUME NEW b \in Audits, NEW q \in Questions
       PROVE  /\ probe'[b][q].state = "queued" => <<b, q>> \in In(queue'.probe)
              /\ probe'[b][q].state = "asked"  => <<b, q>> \in busy'.probe
  <2>1. CASE b = a
    BY <1>2, <1>6, <1>8, <2>1
  <2>2. CASE b # a
    BY <1>5, <1>6, <1>7, <2>2 DEF Placed
  <2>3. QED
    BY <2>1, <2>2
<1>11. ASSUME NEW t \in busy'.probe
       PROVE  \E b \in Audits, q \in Questions : t = <<b, q>> /\ probe'[b][q].state = "asked"
  <2>1. PICK b \in Audits, q \in Questions : t = <<b, q>> /\ probe[b][q].state = "asked"
    BY <1>5 DEF Placed
  <2>2. b # a
    BY <1>3, <2>1
  <2>3. QED
    BY <1>7, <2>1, <2>2
<1>12. \A t \in busy'.shared : \E b \in Audits : t = <<b, "check">>
  BY <1>5 DEF Placed
<1>13. QED
  BY <1>9, <1>10, <1>11, <1>12 DEF Placed

\* One lookup goes on: it leaves the queue, or the worker that had it.
LEMMA PlacedLookup ==
  ASSUME Typed, Placed, NEW a \in Audits, NEW q \in Questions, NEW x,
         probe' = [probe EXCEPT ![a][q] = x], UNCHANGED pc,
         queue'.shared = queue.shared, busy'.shared = busy.shared,
         In(queue.probe) \subseteq In(queue'.probe) \cup {<<a, q>>},
         x.state # "queued",
         x.state = "asked" => busy'.probe = busy.probe \cup {<<a, q>>},
         x.state # "asked" => busy'.probe = busy.probe \ {<<a, q>>}
  PROVE  Placed'
<1>1. /\ probe'[a][q] = x
      /\ \A b \in Audits, r \in Questions : <<b, r>> # <<a, q>> => probe'[b][r] = probe[b][r]
  BY DEF Typed, Types
<1>2. ASSUME NEW b \in Audits, NEW r \in Questions
      PROVE  /\ probe'[b][r].state = "queued" => <<b, r>> \in In(queue'.probe)
             /\ probe'[b][r].state = "asked"  => <<b, r>> \in busy'.probe
  <2>1. CASE <<b, r>> = <<a, q>>
    BY <1>1, <2>1
  <2>2. CASE <<b, r>> # <<a, q>>
    BY <1>1, <2>2 DEF Placed
  <2>3. QED
    BY <2>1, <2>2
<1>3. ASSUME NEW t \in busy'.probe
      PROVE  \E b \in Audits, r \in Questions : t = <<b, r>> /\ probe'[b][r].state = "asked"
  <2>1. CASE t = <<a, q>>
    BY <1>1, <1>3, <2>1
  <2>2. CASE t # <<a, q>>
    <3>1. PICK b \in Audits, r \in Questions : t = <<b, r>> /\ probe[b][r].state = "asked"
      BY <1>3, <2>2 DEF Placed
    <3>2. QED
      BY <1>1, <2>2, <3>1
  <2>3. QED
    BY <2>1, <2>2
<1>4. QED
  BY <1>2, <1>3 DEF Placed

LEMMA PlacedProbeStarts ==
  ASSUME Typed, Placed, NEW a \in Audits, NEW q \in Questions, NEW pool \in Pools,
         ProbeStarts(pool, a, q)
  PROVE  Placed'
<1>1. pool = "probe" /\ probe[a][q].state = "queued" /\ queue'.shared = queue.shared
  BY Taken
<1>2. /\ queue.probe # <<>> /\ Head(queue.probe) = <<a, q>> /\ queue.probe \in Seq(Tasks)
      /\ queue'.probe = Tail(queue.probe) /\ UNCHANGED pc
  BY <1>1 DEF ProbeStarts, Typed, Types, Pools
<1>3. In(queue.probe) \subseteq In(queue'.probe) \cup {<<a, q>>}
  BY <1>2, TailAll
<1>4. <<a, q>> \notin busy.probe
  BY <1>1 DEF Placed
<1>5. CASE Remembered(q) # {}
  <2>1. PICK answer \in Remembered(q) :
          probe' = [probe EXCEPT ![a][q] = [state |-> "done", answer |-> Heard(q, answer)]]
    BY <1>1, <1>5 DEF ProbeStarts
  <2>2. busy' = busy
    BY <1>1, <1>5 DEF ProbeStarts
  <2>3. [state |-> "done", answer |-> Heard(q, answer)].state = "done"
    OBVIOUS
  <2>4. QED
    BY <1>1, <1>2, <1>3, <1>4, <2>1, <2>2, <2>3, PlacedLookup
<1>6. CASE Remembered(q) = {}
  <2>1. PICK answer \in Replies(a, q) :
          probe' = [probe EXCEPT ![a][q] = [state |-> "asked", answer |-> answer]]
    BY <1>1, <1>6 DEF ProbeStarts
  <2>2. busy'.shared = busy.shared /\ busy'.probe = busy.probe \cup {<<a, q>>}
    BY <1>1, <1>6 DEF ProbeStarts, Typed, Types, Pools
  <2>3. [state |-> "asked", answer |-> answer].state = "asked"
    OBVIOUS
  <2>4. QED
    BY <1>1, <1>2, <1>3, <2>1, <2>2, <2>3, PlacedLookup
<1>7. QED
  BY <1>5, <1>6

LEMMA PlacedProbeEnds ==
  ASSUME Typed, Placed, NEW a \in Audits, NEW q \in Questions, NEW pool \in Pools,
         ProbeEnds(pool, a, q)
  PROVE  Placed'
<1> DEFINE x == [state |-> "done", answer |-> Heard(q, probe[a][q].answer)]
<1>1. pool = "probe"
  <2>1. "check" \notin Questions
    BY DEF Questions
  <2>2. <<a, q>> \notin busy.shared
    BY <2>1 DEF Placed
  <2>3. QED
    BY <2>2 DEF ProbeEnds, Pools
<1>2. probe' = [probe EXCEPT ![a][q] = x] /\ UNCHANGED <<pc, queue>>
  BY Ended DEF ProbeEnds
<1>3. busy'.shared = busy.shared /\ busy'.probe = busy.probe \ {<<a, q>>}
  BY <1>1 DEF ProbeEnds, Typed, Types, Pools
<1>4. x.state = "done"
  OBVIOUS
<1>5. QED
  BY <1>2, <1>3, <1>4, PlacedLookup

LEMMA PlacedCheckEnds ==
  ASSUME Typed, Placed, NEW a \in Audits, CheckEnds(a)
  PROVE  Placed'
<1>1. /\ pc'[a] = "storing" /\ \A b \in Audits : b # a => pc'[b] = pc[b]
      /\ UNCHANGED <<queue, probe>>
      /\ busy'.shared = busy.shared \ {<<a, "check">>} /\ busy'.probe = busy.probe
  BY DEF CheckEnds, Typed, Types, Pools
<1>2. QED
  BY <1>1 DEF Placed

LEMMA PlacedFinish ==
  ASSUME Typed, Placed, NEW a \in Audits, Finish(a)
  PROVE  Placed'
<1>1. /\ pc[a] = "comparing" /\ pc'[a] = "done" /\ \A b \in Audits : b # a => pc'[b] = pc[b]
      /\ UNCHANGED <<queue, busy>> /\ probe'[a] = NothingAsked
      /\ \A b \in Audits : b # a => probe'[b] = probe[b]
  BY DEF Finish, Typed, Types
<1>2. \A q \in Questions : probe'[a][q].state = "none"
  BY <1>1 DEF NothingAsked
<1>3. \A q \in Questions : probe[a][q].state = "done"
  BY <1>1 DEF Typed, Stages
<1>4. ASSUME NEW t \in busy'.probe
      PROVE  \E b \in Audits, q \in Questions : t = <<b, q>> /\ probe'[b][q].state = "asked"
  <2>1. PICK b \in Audits, q \in Questions : t = <<b, q>> /\ probe[b][q].state = "asked"
    BY <1>1 DEF Placed
  <2>2. b # a
    BY <1>3, <2>1
  <2>3. QED
    BY <1>1, <2>1, <2>2
<1>5. ASSUME NEW b \in Audits, NEW q \in Questions
      PROVE  /\ probe'[b][q].state = "queued" => <<b, q>> \in In(queue'.probe)
             /\ probe'[b][q].state = "asked"  => <<b, q>> \in busy'.probe
  BY <1>1, <1>2 DEF Placed
<1>6. QED
  BY <1>1, <1>4, <1>5 DEF Placed

LEMMA PlacedStep == Typed /\ Placed /\ [Next]_vars => Placed'
<1> SUFFICES ASSUME Typed, Placed, [Next]_vars PROVE Placed'
  OBVIOUS
<1>1. CASE Tick \/ UNCHANGED vars
  BY <1>1, PlacedIdle DEF Tick, vars
<1>2. ASSUME NEW value \in Values \cup {Absent}, Publish(value) PROVE Placed'
  BY <1>2, PlacedIdle DEF Publish
<1>3. ASSUME NEW a \in Audits, SelectLatest(a) \/ InsertRow(a) PROVE Placed'
  <2>1. UNCHANGED <<queue, busy, probe>> /\ pc' = [pc EXCEPT ![a] = pc'[a]]
        /\ pc'[a] \in {"comparing", "selected"}
    BY <1>3 DEF SelectLatest, InsertRow, Typed, Types
  <2>2. \A b \in Audits : pc'[b] = "checking" => pc[b] = "checking"
    BY <2>1 DEF Typed, Types
  <2>3. QED
    BY <2>1, <2>2, PlacedIdle
<1>4. ASSUME NEW a \in Audits, NEW q \in Questions, NEW pool \in Pools,
             ProbeStarts(pool, a, q) \/ ProbeEnds(pool, a, q)
      PROVE  Placed'
  BY <1>4, PlacedProbeStarts, PlacedProbeEnds
<1>5. ASSUME NEW a \in Audits, Begin(a) \/ Work(a) PROVE Placed'
  BY <1>3, <1>4, <1>5, PlacedBegin, PlacedCheckStarts, PlacedCheckEnds, PlacedFinish DEF Work
<1>6. QED
  BY <1>1, <1>2, <1>5 DEF Next

LEMMA PlacedInit == Init => Placed
<1> SUFFICES ASSUME Init PROVE Placed
  OBVIOUS
<1>1. \A a \in Audits, q \in Questions : probe[a][q].state = "none"
  BY DEF Init, NothingAsked
<1>2. \A a \in Audits : pc[a] = "idle"
  BY DEF Init
<1>3. busy.shared = {} /\ busy.probe = {}
  BY DEF Init, Pools
<1>4. QED
  BY <1>1, <1>2, <1>3 DEF Placed

\* A pool with no free worker has a task on one.
LEMMA FullIsBusy ==
  ASSUME NEW p \in Pools, busy[p] = {}
  PROVE  Free(p)
<1>1. Cardinality({}) = 0
  BY FS_EmptySet
<1>2. Workers[p] \in Nat \ {0}
  BY LookupsAssumption DEF Workers, Pools
<1>3. QED
  BY <1>1, <1>2 DEF Free

\* Whoever waits, waits in the end for a worker that only waits for a reply.
LEMMA RunningGoesOn ==
  ASSUME Typed, Placed, NEW a \in Audits, <<a, "check">> \in busy.shared
  PROVE  \E b \in Audits : Ready(b)
<1>1. CASE \A q \in Questions : Answered(probe[a][q])
  BY <1>1 DEF Ready
<1>2. CASE busy.probe # {}
  BY <1>2 DEF Ready, Placed
<1>3. ASSUME NEW q \in Questions, ~Answered(probe[a][q]), busy.probe = {}
      PROVE  \E b \in Audits : Ready(b)
  <2>1. probe[a][q].state = "queued"
    <3>1. probe[a][q].state \in {"queued", "asked", "done"}
      BY DEF Typed, Types, TasksInv, Probes
    <3>2. QED
      BY <1>3, <3>1 DEF Placed, Answered
  <2>2. <<a, q>> \in In(queue.probe) /\ queue.probe \in Seq(Tasks) /\ Distinct(queue.probe)
    BY <2>1 DEF Placed, Typed, Types, Pools, TasksInv
  <2>3. queue.probe # <<>>
    BY <2>2 DEF In
  <2>4. Head(queue.probe) \in In(queue.probe)
    BY <2>2, <2>3, TailIn
  <2>5. PICK b \in Audits, r \in Questions : Head(queue.probe) = <<b, r>>
    BY <2>4 DEF Typed, TasksInv
  <2>6. Free("probe")
    BY <1>3, FullIsBusy DEF Pools
  <2>7. QED
    BY <2>3, <2>5, <2>6 DEF Ready
<1>4. QED
  BY <1>1, <1>2, <1>3

LEMMA PlacedGoesOn == Typed /\ Placed => NoPoolWaits
<1> SUFFICES ASSUME Typed, Placed, NEW a \in Audits, pc[a] = "checking"
             PROVE  \E b \in Audits : Ready(b)
  BY DEF NoPoolWaits
<1>1. CASE busy.shared # {}
  <2>1. PICK b \in Audits : <<b, "check">> \in busy.shared
    BY <1>1 DEF Placed
  <2>2. QED
    BY <2>1, RunningGoesOn
<1>2. CASE busy.shared = {}
  <2>1. <<a, "check">> \in In(queue.shared) /\ queue.shared \in Seq(Tasks) /\ Distinct(queue.shared)
    BY <1>2 DEF Placed, Typed, Types, Pools, TasksInv
  <2>2. queue.shared # <<>>
    BY <2>1 DEF In
  <2>3. Head(queue.shared) \in In(queue.shared)
    BY <2>1, <2>2, TailIn
  <2>4. PICK b \in Audits : Head(queue.shared) = <<b, "check">>
    BY <2>3 DEF Typed, TasksInv
  <2>5. Free("shared")
    BY <1>2, FullIsBusy DEF Pools
  <2>6. QED
    BY <2>2, <2>4, <2>5 DEF Ready
<1>3. QED
  BY <1>1, <1>2

\* However many checks are queued and however few workers there are, there is always one
\* the pools can go on with.
THEOREM NoPoolWaitsHolds == Spec => []NoPoolWaits
<1>1. Spec => []Placed
  BY PlacedInit, PlacedStep, TypedHolds, PTL DEF Spec
<1>2. QED
  BY <1>1, PlacedGoesOn, TypedHolds, PTL

-----------------------------------------------------------------------------
(* Answers and how long they last.                                          *)

Stated == {"TXT", "DKIM"}

\* What is kept for a question, with the time until which it is.
Kept(q) == IF q = "DKIM" THEN {[answer |-> m.answer, until |-> m.from + MemoTtl] : m \in memo}
                         ELSE cache["TXT"]

\* An absent answer that is kept is genuine, and goes before the result of the audit that
\* got it does; whoever runs now and would be told has met that audit.
Stays(e) ==
  LET b == e.answer.by
  IN /\ now <= e.answer.at + NegativeCap + QueryTime
     /\ e.until <= e.answer.at + NegativeCap + QueryTime
     /\ Running(b) \/ pc[b] = "done"
     /\ Running(b) => e.until <= now + NegativeCap
     /\ pc[b] = "done" => \E r \in results[scope[b]] : e.until <= r.at + NegativeCap
     /\ \A a \in Audits : Running(a) /\ a # b /\ scope[a] = scope[b] => b \in met[a]

Memory ==
  /\ cache["ANY"] = {}
  /\ \A q \in Stated : \A e \in Kept(q) :
       e.answer.was = e.answer.value /\ (e.answer.value = Absent => Stays(e))

\* An absent answer that an audit goes by is genuine, recent and not a stale one of its scope.
Fresh(a, answer) ==
  /\ answer.was = answer.value /\ (answer.nx => answer.value = Absent)
  /\ answer.value = Absent =>
       /\ answer.at + NegativeCap + QueryTime >= born[a]
       /\ answer.by # a /\ scope[answer.by] = scope[a] => answer.by \in met[a]

Told ==
  \A a \in Audits :
    /\ \A q \in Stated :
         probe[a][q].state \in {"asked", "done"} => Fresh(a, probe[a][q].answer)
    /\ probe[a]["CNAME"].state = "asked" => probe[a]["CNAME"].answer.value = Absent

LEMMA KeptType ==
  ASSUME Types, NEW q \in Stated, NEW e \in Kept(q)
  PROVE  e.answer \in Answers /\ e.until \in Nat
<1>1. CASE q = "DKIM"
  <2>1. PICK m \in memo : e = [answer |-> m.answer, until |-> m.from + MemoTtl]
    BY <1>1 DEF Kept
  <2>2. m.answer \in Answers /\ m.from \in Nat
    BY DEF Types
  <2>3. QED
    BY <2>1, <2>2, Amounts
<1>2. CASE q = "TXT"
  BY <1>2 DEF Kept, Types
<1>3. QED
  BY <1>1, <1>2 DEF Stated

\* A step that lets no time pass, and neither starts nor finishes an audit.
LEMMA StaysKept ==
  ASSUME UNCHANGED <<now, scope, results, met>>, NEW e, Stays(e), e.answer.by \in Audits,
         \A b \in Audits : /\ Running(b)' <=> Running(b)
                           /\ pc'[b] = "done" <=> pc[b] = "done"
  PROVE  Stays(e)'
BY DEF Stays

LEMMA MemoryKept ==
  ASSUME Types, Memory, UNCHANGED <<now, scope, results, met, memo>>,
         cache'["TXT"] = cache["TXT"], cache'["ANY"] = cache["ANY"],
         \A b \in Audits : /\ Running(b)' <=> Running(b)
                           /\ pc'[b] = "done" <=> pc[b] = "done"
  PROVE  Memory'
<1>1. ASSUME NEW q \in Stated, NEW e \in Kept(q)'
      PROVE  e.answer.was = e.answer.value /\ (e.answer.value = Absent => Stays(e)')
  <2>1. e \in Kept(q)
    BY DEF Kept
  <2>2. e.answer.by \in Audits
    BY <2>1, KeptType DEF Answers
  <2>3. QED
    BY <2>1, <2>2, StaysKept DEF Memory
<1>2. QED
  BY <1>1 DEF Memory

\* What has expired is gone, and a result outlives the answers it was made from.
LEMMA MemoryTick == Typed /\ Memory /\ Tick => Memory'
<1> SUFFICES ASSUME Typed, Memory, Tick PROVE Memory'
  OBVIOUS
<1> USE Amounts
<1>1. /\ now \in Nat /\ now' = now + 1 /\ UNCHANGED <<pc, scope, met>>
      /\ \A s \in Scopes : results'[s] = {r \in results[s] : now' - r.at < ResultTtl}
  BY DEF Tick, Typed, Types
<1>2. cache'["ANY"] = {}
  BY DEF Tick, Typed, Types, Memory
<1>3. ASSUME NEW q \in Stated, NEW e \in Kept(q)'
      PROVE  e \in Kept(q) /\ now' < e.until
  <2>1. CASE q = "DKIM"
    <3>1. PICK m \in memo : /\ e = [answer |-> m.answer, until |-> m.from + MemoTtl]
                            /\ now' - m.from < MemoTtl
      BY <1>3, <2>1 DEF Kept, Tick
    <3>2. m.from \in Nat
      BY DEF Typed, Types
    <3>3. QED
      BY <1>1, <2>1, <3>1, <3>2 DEF Kept
  <2>2. CASE q = "TXT"
    BY <1>3, <2>2 DEF Kept, Tick, Typed, Types
  <2>3. QED
    BY <2>1, <2>2 DEF Stated
<1>4. ASSUME NEW q \in Stated, NEW e \in Kept(q)', e.answer.value = Absent
      PROVE  Stays(e)'
  <2> DEFINE b == e.answer.by
  <2>1. e \in Kept(q) /\ now' < e.until
    BY <1>3
  <2>2. Stays(e) /\ e.until \in Nat /\ e.answer.at \in Nat /\ b \in Audits
    BY <1>4, <2>1, KeptType DEF Memory, Typed, Answers
  <2>3. now' <= e.answer.at + NegativeCap + QueryTime
    BY <1>1, <2>1, <2>2 DEF Stays
  <2>4. Running(b)' => e.until <= now' + NegativeCap
    <3>1. Running(b) => e.until <= now + NegativeCap
      BY <2>2 DEF Stays
    <3>2. now + NegativeCap <= now' + NegativeCap
      BY <1>1
    <3>3. QED
      BY <1>1, <2>2, <3>1, <3>2 DEF Running
  <2>5. pc'[b] = "done" => \E r \in results'[scope[b]] : e.until <= r.at + NegativeCap
    <3>1. SUFFICES ASSUME pc[b] = "done"
                   PROVE  \E r \in results'[scope[b]] : e.until <= r.at + NegativeCap
      BY <1>1
    <3>2. PICK r \in results[scope[b]] : e.until <= r.at + NegativeCap
      BY <2>2, <3>1 DEF Stays
    <3>3. scope[b] \in Scopes /\ r.at \in Nat
      BY <2>2 DEF Typed, Types
    <3>4. now' - r.at < ResultTtl
      BY <1>1, <2>1, <2>2, <3>2, <3>3
    <3>5. QED
      BY <1>1, <3>2, <3>3, <3>4
  <2>6. QED
    BY <1>1, <2>2, <2>3, <2>4, <2>5 DEF Stays, Running
<1>5. \A q \in Stated : \A e \in Kept(q)' : e.answer.was = e.answer.value
  BY <1>3 DEF Memory
<1>6. QED
  BY <1>2, <1>4, <1>5 DEF Memory

\* An audit that has to ask begins when no answer of a finished one of its scope is left.
LEMMA MemoryBegin ==
  ASSUME Typed, Memory, NEW a \in Audits, Begin(a)
  PROVE  Memory'
<1>1. /\ pc[a] = "idle" /\ \A b \in Audits : b # a => pc'[b] = pc[b]
      /\ pc'[a] = (IF results[scope[a]] # {} THEN "replayed" ELSE "checking")
      /\ UNCHANGED <<now, scope, cache, memo, results>>
  BY DEF Begin, Typed, Types
<1>2. /\ \A b \in Audits : b # a => met[b] \subseteq met'[b]
      /\ results[scope[a]] = {} => met'[a] = {b \in Audits : Running(b)}
  BY BeginMet DEF Typed
<1>3. ASSUME NEW q \in Stated, NEW e \in Kept(q), e.answer.value = Absent
      PROVE  Stays(e)'
  <2> DEFINE b == e.answer.by
  <2>1. Stays(e) /\ b \in Audits
    BY <1>3, KeptType DEF Memory, Typed, Answers
  <2>2. b # a /\ pc'[b] = pc[b]
    BY <1>1, <2>1 DEF Stays, Running
  <2>3. ASSUME NEW c \in Audits, Running(c)', c # b, scope[c] = scope[b]
        PROVE  b \in met'[c]
    <3>1. CASE c = a
      <4>1. results[scope[a]] = {}
        BY <1>1, <2>3, <3>1 DEF Running
      <4>2. pc[b] # "done"
        BY <2>1, <2>3, <3>1, <4>1 DEF Stays
      <4>3. Running(b)
        BY <2>1, <4>2 DEF Stays
      <4>4. QED
        BY <1>2, <2>1, <3>1, <4>1, <4>3
    <3>2. CASE c # a
      <4>1. Running(c)
        BY <1>1, <2>3, <3>2 DEF Running
      <4>2. QED
        BY <1>2, <2>1, <2>3, <3>2, <4>1 DEF Stays
    <3>3. QED
      BY <3>1, <3>2
  <2>4. QED
    BY <1>1, <2>1, <2>2, <2>3 DEF Stays, Running
<1>4. \A q \in Stated : Kept(q)' = Kept(q)
  BY <1>1 DEF Kept
<1>5. QED
  BY <1>1, <1>3, <1>4 DEF Memory

\* A result that is cached is the newest of its scope.
LEMMA MemoryFinish ==
  ASSUME Typed, Memory, NEW a \in Audits, Finish(a)
  PROVE  Memory'
<1>1. /\ pc[a] = "comparing" /\ pc' = [pc EXCEPT ![a] = "done"]
      /\ results' = [results EXCEPT ![scope[a]] = {[at |-> now]}]
      /\ UNCHANGED <<now, scope, met, cache, memo>>
  BY DEF Finish
<1>2. /\ now \in Nat /\ pc'[a] = "done" /\ \A b \in Audits : b # a => pc'[b] = pc[b]
      /\ scope \in [Audits -> Scopes] /\ results'[scope[a]] = {[at |-> now]}
      /\ \A s \in Scopes : s # scope[a] => results'[s] = results[s]
  BY <1>1 DEF Typed, Types
<1>3. ASSUME NEW q \in Stated, NEW e \in Kept(q), e.answer.value = Absent
      PROVE  Stays(e)'
  <2> DEFINE b == e.answer.by
  <2>1. Stays(e) /\ b \in Audits /\ e.until \in Nat
    BY <1>3, KeptType DEF Memory, Typed, Answers
  <2>2. pc'[b] = "done" => \E r \in results'[scope[b]] : e.until <= r.at + NegativeCap
    <3>1. CASE b = a
      <4>1. e.until <= now + NegativeCap
        BY <1>1, <2>1, <3>1 DEF Stays, Running
      <4>2. [at |-> now] \in results'[scope[b]] /\ [at |-> now].at = now
        BY <1>2, <3>1
      <4>3. QED
        BY <4>1, <4>2
    <3>2. CASE b # a /\ scope[b] # scope[a]
      BY <1>2, <2>1, <3>2 DEF Stays
    <3>3. CASE b # a /\ scope[b] = scope[a]
      <4>1. SUFFICES ASSUME pc[b] = "done"
                     PROVE  \E r \in results'[scope[b]] : e.until <= r.at + NegativeCap
        BY <1>2, <2>1, <3>3
      <4>2. PICK r \in results[scope[b]] : e.until <= r.at + NegativeCap
        BY <2>1, <4>1 DEF Stays
      <4>3. r.at \in Nat /\ r.at <= now
        BY <1>2, <2>1 DEF Typed, Types, Clock
      <4>4. e.until <= now + NegativeCap
        BY <1>2, <2>1, <4>2, <4>3, Amounts
      <4>5. [at |-> now] \in results'[scope[b]] /\ [at |-> now].at = now
        BY <1>2, <3>3
      <4>6. QED
        BY <4>4, <4>5
    <3>4. QED
      BY <3>1, <3>2, <3>3
  <2>3. /\ \A c \in Audits : Running(c)' => Running(c)
        /\ Running(b) => Running(b)' \/ pc'[b] = "done"
        /\ pc[b] = "done" => pc'[b] = "done"
    BY <1>1, <1>2, <2>1 DEF Running
  <2>4. QED
    BY <1>1, <2>1, <2>2, <2>3 DEF Stays
<1>4. \A q \in Stated : Kept(q)' = Kept(q)
  BY <1>1 DEF Kept
<1>5. QED
  BY <1>1, <1>3, <1>4 DEF Memory

\* What a running audit has just been told is kept no longer than the cap allows.
LEMMA StaysNew ==
  ASSUME Typed, NEW a \in Audits, NEW q \in Questions, probe[a][q].state = "asked", NEW e,
         e.answer.by = a, e.answer.at = probe[a][q].answer.at,
         e.until \in Nat, e.until <= now + NegativeCap,
         UNCHANGED <<now, pc, scope, results, met>>
  PROVE  Stays(e)'
<1>1. pc[a] = "checking"
  BY WorkIsChecking
<1>2. /\ now \in Nat /\ e.answer.at \in Nat /\ e.answer.at <= now
      /\ now <= e.answer.at + QueryTime
  BY DEF Typed, Types, Clock, Probes, Answers
<1>3. /\ now <= e.answer.at + NegativeCap + QueryTime
      /\ e.until <= e.answer.at + NegativeCap + QueryTime
  BY <1>2, Amounts
<1>4. \A c \in Audits : Running(c) /\ c # a => a \in met[c]
  BY <1>1 DEF Typed, Beside, Running
<1>5. QED
  BY <1>1, <1>3, <1>4 DEF Stays, Running

LEMMA MemoryProbeEnds ==
  ASSUME Typed, Memory, Told, NEW a \in Audits, NEW q \in Questions, NEW pool \in Pools,
         ProbeEnds(pool, a, q)
  PROVE  Memory'
<1> DEFINE answer == probe[a][q].answer
<1>1. /\ probe[a][q].state = "asked" /\ answer \in Answers
      /\ UNCHANGED <<now, pc, scope, results, met>> /\ now \in Nat
  BY Ended DEF Typed, Types
<1>2. answer.by = a /\ answer.at \in Nat /\ answer.at <= now
  BY <1>1 DEF Typed, Clock, Answers
<1>3. ASSUME NEW r \in Stated, NEW e \in Kept(r)
      PROVE  e.answer.was = e.answer.value /\ (e.answer.value = Absent => Stays(e)')
  <2>1. e.answer.by \in Audits
    BY KeptType DEF Typed, Answers
  <2>2. QED
    BY <1>1, <2>1, StaysKept DEF Memory, Running
<1>4. CASE q = "DKIM"
  <2>1. memo' = {[answer |-> answer, from |-> answer.at]} /\ UNCHANGED cache
    BY <1>4 DEF ProbeEnds
  <2>2. answer.was = answer.value
    BY <1>1, <1>4 DEF Told, Fresh, Stated
  <2>3. ASSUME NEW e \in Kept("DKIM")'
        PROVE  e.answer.was = e.answer.value /\ Stays(e)'
    <3>1. e = [answer |-> answer, until |-> answer.at + MemoTtl]
      BY <2>1, <2>3 DEF Kept
    <3>2. e.until \in Nat /\ e.until <= now + NegativeCap
      BY <1>1, <1>2, <3>1, Amounts
    <3>3. QED
      BY <1>1, <1>2, <2>2, <3>1, <3>2, StaysNew
  <2>4. Kept("TXT")' = Kept("TXT")
    BY <2>1 DEF Kept
  <2>5. QED
    BY <1>3, <2>1, <2>3, <2>4 DEF Memory, Stated
<1>5. CASE q = "CNAME"
  <2>1. cache' = Put(q, answer) /\ UNCHANGED memo
    BY <1>5 DEF ProbeEnds
  <2>2. answer.value = Absent
    BY <1>1, <1>5 DEF Told
  <2>3. cache'["TXT"] = cache["TXT"] /\ cache'["ANY"] = cache["ANY"]
    BY <1>5, <2>1, <2>2 DEF Put, KeyOf, Typed, Types
  <2>4. \A r \in Stated : Kept(r)' = Kept(r)
    BY <2>1, <2>3 DEF Kept
  <2>5. QED
    BY <1>3, <2>3, <2>4 DEF Memory
<1>6. CASE q = "TXT"
  <2> DEFINE kept == [answer EXCEPT !.nx = FALSE]
  <2>1. cache' = Put(q, answer) /\ UNCHANGED memo
    BY <1>6 DEF ProbeEnds
  <2>2. answer.was = answer.value /\ (answer.nx => answer.value = Absent)
    BY <1>1, <1>6 DEF Told, Fresh, Stated
  <2>3. /\ kept.value = answer.value /\ kept.was = answer.was /\ kept.at = answer.at
        /\ kept.by = answer.by
    BY <1>1 DEF Answers
  <2>4. Heard(q, answer) = kept
    BY <1>6 DEF Heard
  <2>5. Kept("DKIM")' = Kept("DKIM")
    BY <2>1 DEF Kept
  <2>6. CASE answer.value = Absent /\ answer.nx
    <3>1. cache' = cache
      BY <2>1, <2>6 DEF Put, KeyOf
    <3>2. Kept("TXT")' = Kept("TXT")
      BY <3>1 DEF Kept
    <3>3. QED
      BY <1>3, <2>5, <3>1, <3>2 DEF Memory, Stated
  <2>7. CASE answer.value = Absent /\ ~answer.nx
    <3> DEFINE until == Least(Expiry(answer), now + NegativeCap)
    <3>1. cache' = [cache EXCEPT !["TXT"] = {[answer |-> kept, until |-> until]}]
      BY <1>6, <2>1, <2>4, <2>7 DEF Put, KeyOf
    <3>2. Expiry(answer) \in Nat
      BY <1>1, Amounts DEF Expiry
    <3>3. until \in Nat /\ until <= now + NegativeCap
      BY <1>1, <3>2, Amounts DEF Least
    <3> HIDE DEF until
    <3>4. cache'["TXT"] = {[answer |-> kept, until |-> until]} /\ cache'["ANY"] = cache["ANY"]
      BY <3>1 DEF Typed, Types
    <3>5. ASSUME NEW e \in Kept("TXT")'
          PROVE  e.answer.was = e.answer.value /\ Stays(e)'
      <4>1. e.answer = kept /\ e.until = until
        BY <3>4, <3>5 DEF Kept
      <4>2. e.answer.by = a /\ e.answer.at = answer.at
        BY <1>2, <2>3, <4>1
      <4>3. QED
        BY <1>1, <1>6, <2>2, <2>3, <3>3, <4>1, <4>2, StaysNew
    <3>6. QED
      BY <1>3, <2>5, <3>4, <3>5 DEF Memory, Stated
  <2>8. CASE answer.value # Absent
    <3>1. cache' = [cache EXCEPT !["TXT"] = {[answer |-> kept, until |-> Expiry(answer)]}]
      BY <1>6, <2>1, <2>2, <2>4, <2>8 DEF Put, KeyOf
    <3>2. /\ cache'["TXT"] = {[answer |-> kept, until |-> Expiry(answer)]}
          /\ cache'["ANY"] = cache["ANY"]
      BY <3>1 DEF Typed, Types
    <3>3. ASSUME NEW e \in Kept("TXT")'
          PROVE  e.answer.was = e.answer.value /\ e.answer.value # Absent
      <4>1. e.answer = kept
        BY <3>2, <3>3 DEF Kept
      <4>2. QED
        BY <2>2, <2>3, <2>8, <4>1
    <3>4. QED
      BY <1>3, <2>5, <3>2, <3>3 DEF Memory, Stated
  <2>9. QED
    BY <2>6, <2>7, <2>8
<1>7. QED
  BY <1>4, <1>5, <1>6 DEF Questions

LEMMA MemoryStep == Typed /\ Memory /\ Told /\ [Next]_vars => Memory'
<1> SUFFICES ASSUME Typed, Memory, Told, [Next]_vars PROVE Memory'
  OBVIOUS
<1>1. CASE Tick
  BY <1>1, MemoryTick
<1>2. ASSUME UNCHANGED <<now, scope, results, met, memo, cache>>,
             \A b \in Audits : /\ Running(b)' <=> Running(b)
                               /\ pc'[b] = "done" <=> pc[b] = "done"
      PROVE  Memory'
  BY <1>2, MemoryKept DEF Typed
<1>3. ASSUME NEW value, Publish(value) PROVE Memory'
  BY <1>2, <1>3 DEF Publish, Running
<1>4. CASE UNCHANGED vars
  BY <1>2, <1>4 DEF vars, Running
<1>5. ASSUME NEW a \in Audits, Begin(a) PROVE Memory'
  BY <1>5, MemoryBegin
<1>6. ASSUME NEW a \in Audits, CheckStarts(a) PROVE Memory'
  BY <1>2, <1>6 DEF CheckStarts, Running
<1>7. ASSUME NEW a \in Audits, NEW q \in Questions, NEW pool \in Pools, ProbeStarts(pool, a, q)
      PROVE  Memory'
  BY <1>2, <1>7 DEF ProbeStarts, Running
<1>8. ASSUME NEW a \in Audits, NEW q \in Questions, NEW pool \in Pools, ProbeEnds(pool, a, q)
      PROVE  Memory'
  BY <1>8, MemoryProbeEnds
<1>9. ASSUME NEW a \in Audits, Running(a), pc'[a] \in {"storing", "selected", "comparing"},
             pc' = [pc EXCEPT ![a] = pc'[a]],
             UNCHANGED <<now, scope, results, met, memo, cache>>
      PROVE  Memory'
  <2>1. \A b \in Audits : b # a => pc'[b] = pc[b]
    BY <1>9 DEF Typed, Types
  <2>2. \A b \in Audits : /\ Running(b)' <=> Running(b)
                          /\ pc'[b] = "done" <=> pc[b] = "done"
    BY <1>9, <2>1 DEF Running
  <2>3. QED
    BY <1>2, <1>9, <2>2
<1>10. ASSUME NEW a \in Audits, CheckEnds(a) PROVE Memory'
  <2>1. Running(a)
    BY <1>10, TypedCheckEnds DEF Running
  <2>2. QED
    BY <1>9, <1>10, <2>1 DEF CheckEnds, Typed, Types
<1>11. ASSUME NEW a \in Audits, SelectLatest(a) PROVE Memory'
  BY <1>9, <1>11 DEF SelectLatest, Running, Typed, Types
<1>12. ASSUME NEW a \in Audits, InsertRow(a) PROVE Memory'
  BY <1>9, <1>12 DEF InsertRow, Running, Typed, Types
<1>13. ASSUME NEW a \in Audits, Finish(a) PROVE Memory'
  BY <1>13, MemoryFinish
<1>14. QED
  BY <1>1, <1>3, <1>4, <1>5, <1>6, <1>7, <1>8, <1>10, <1>11, <1>12, <1>13 DEF Next, Work

\* What an audit goes by stays fresh while it meets others.
LEMMA ToldKept ==
  ASSUME Told, scope' = scope,
         \A a \in Audits :
           \/ \A q \in Questions : probe'[a][q].state \notin {"asked", "done"}
           \/ /\ born'[a] = born[a] /\ met[a] \subseteq met'[a]
              /\ \A q \in Questions : probe'[a][q] = probe[a][q]
  PROVE  Told'
<1>1. ASSUME NEW a \in Audits, NEW q \in Stated, probe'[a][q].state \in {"asked", "done"}
      PROVE  Fresh(a, probe[a][q].answer)'
  <2>1. /\ born'[a] = born[a] /\ met[a] \subseteq met'[a] /\ probe'[a][q] = probe[a][q]
    BY <1>1 DEF Questions, Stated
  <2>2. Fresh(a, probe[a][q].answer)
    BY <1>1, <2>1 DEF Told
  <2>3. QED
    BY <2>1, <2>2 DEF Fresh
<1>2. ASSUME NEW a \in Audits, probe'[a]["CNAME"].state = "asked"
      PROVE  probe'[a]["CNAME"].answer.value = Absent
  BY <1>2 DEF Told, Questions
<1>3. QED
  BY <1>1, <1>2 DEF Told

\* What a worker finds is no older than the cap, and no stale one of the scope.
LEMMA FoundFresh ==
  ASSUME Typed, Memory, NEW a \in Audits, pc[a] = "checking", NEW q \in Stated,
         NEW x \in Remembered(q)
  PROVE  Fresh(a, Heard(q, x))
<1>1. PICK e \in Kept(q) : e.answer = x
  <2>1. CASE q = "DKIM"
    <3>1. PICK m \in memo : m.answer = x
      BY <2>1 DEF Remembered
    <3>2. [answer |-> m.answer, until |-> m.from + MemoTtl] \in Kept(q)
      BY <2>1 DEF Kept
    <3>3. QED
      BY <3>1, <3>2
  <2>2. CASE q = "TXT"
    <3>1. PICK e \in cache["TXT"] \cup cache["ANY"] : e.answer = x
      BY <2>2 DEF Remembered
    <3>2. QED
      BY <2>2, <3>1 DEF Kept, Memory
  <2>3. QED
    BY <2>1, <2>2 DEF Stated
<1>2. x \in Answers
  BY <1>1, KeptType DEF Typed
<1>3. Heard(q, x) = [x EXCEPT !.nx = FALSE]
  BY DEF Heard, Stated
<1>4. /\ Heard(q, x).value = x.value /\ Heard(q, x).was = x.was /\ Heard(q, x).at = x.at
      /\ Heard(q, x).by = x.by /\ Heard(q, x).nx = FALSE
  BY <1>2, <1>3 DEF Answers
<1>5. x.was = x.value /\ (x.value = Absent => Stays(e))
  BY <1>1 DEF Memory
<1>6. born[a] \in Nat /\ born[a] <= now /\ now \in Nat /\ x.at \in Nat
  BY <1>2 DEF Typed, Types, Clock, Answers
<1>7. x.value = Absent =>
        /\ x.at + NegativeCap + QueryTime >= born[a]
        /\ x.by # a /\ scope[x.by] = scope[a] => x.by \in met[a]
  BY <1>1, <1>5, <1>6, Amounts DEF Stays, Running
<1>8. QED
  BY <1>4, <1>5, <1>7 DEF Fresh

\* What a worker hears is what the record says.
LEMMA ReplyFresh ==
  ASSUME Typed, NEW a \in Audits, NEW q \in Stated, NEW x \in Replies(a, q)
  PROVE  Fresh(a, x)
<1>1. x.value = record /\ x.was = record /\ x.at = now /\ x.by = a /\ (x.nx => x.value = Absent)
  BY DEF Replies, Stated
<1>2. born[a] \in Nat /\ born[a] <= now /\ now \in Nat
  BY DEF Typed, Types, Clock
<1>3. QED
  BY <1>1, <1>2, Amounts DEF Fresh

\* One lookup moves on, with an answer that its audit may go by.
LEMMA ToldLookup ==
  ASSUME Typed, Told, NEW a \in Audits, NEW q \in Questions, NEW x \in Probes,
         probe' = [probe EXCEPT ![a][q] = x], q \in Stated => Fresh(a, x.answer),
         q = "CNAME" /\ x.state = "asked" => x.answer.value = Absent,
         UNCHANGED <<born, met, scope>>
  PROVE  Told'
<1>1. /\ probe'[a][q] = x
      /\ \A b \in Audits, r \in Questions : b # a \/ r # q => probe'[b][r] = probe[b][r]
  BY DEF Typed, Types
<1>2. ASSUME NEW b \in Audits, NEW r \in Stated, probe'[b][r].state \in {"asked", "done"}
      PROVE  Fresh(b, probe[b][r].answer)'
  <2>1. CASE b = a /\ r = q
    BY <1>1, <2>1 DEF Fresh
  <2>2. CASE b # a \/ r # q
    <3>1. probe'[b][r] = probe[b][r]
      BY <1>1, <2>2 DEF Questions, Stated
    <3>2. Fresh(b, probe[b][r].answer)
      BY <1>2, <3>1 DEF Told
    <3>3. QED
      BY <3>1, <3>2 DEF Fresh
  <2>3. QED
    BY <2>1, <2>2
<1>3. ASSUME NEW b \in Audits, probe'[b]["CNAME"].state = "asked"
      PROVE  probe'[b]["CNAME"].answer.value = Absent
  <2>1. CASE b = a /\ q = "CNAME"
    BY <1>1, <1>3, <2>1
  <2>2. CASE b # a \/ q # "CNAME"
    <3>1. probe'[b]["CNAME"] = probe[b]["CNAME"]
      BY <1>1, <2>2 DEF Questions
    <3>2. QED
      BY <1>3, <3>1 DEF Told
  <2>3. QED
    BY <2>1, <2>2
<1>4. QED
  BY <1>2, <1>3 DEF Told

LEMMA ToldProbeStarts ==
  ASSUME Typed, Memory, Told, NEW a \in Audits, NEW q \in Questions, NEW pool \in Pools,
         ProbeStarts(pool, a, q)
  PROVE  Told'
<1>1. pc[a] = "checking" /\ UNCHANGED <<born, met, scope>>
  BY Taken DEF ProbeStarts
<1>2. q \in Stated \/ q = "CNAME"
  BY DEF Questions, Stated
<1>3. CASE Remembered(q) # {}
  <2>1. PICK x \in Remembered(q) :
          probe' = [probe EXCEPT ![a][q] = [state |-> "done", answer |-> Heard(q, x)]]
    BY <1>3 DEF ProbeStarts
  <2>2. [state |-> "done", answer |-> Heard(q, x)] \in Probes
    BY RememberedType, HeardType DEF Typed, Probes
  <2>3. q \in Stated => Fresh(a, Heard(q, x))
    BY <1>1, FoundFresh
  <2>4. QED
    BY <1>1, <2>1, <2>2, <2>3, ToldLookup
<1>4. CASE Remembered(q) = {}
  <2>1. PICK x \in Replies(a, q) :
          probe' = [probe EXCEPT ![a][q] = [state |-> "asked", answer |-> x]]
    BY <1>4 DEF ProbeStarts
  <2>2. [state |-> "asked", answer |-> x] \in Probes
    BY RepliesType DEF Typed, Probes
  <2>3. q \in Stated => Fresh(a, x)
    BY ReplyFresh
  <2>4. q = "CNAME" => x.value = Absent
    BY DEF Replies
  <2>5. QED
    BY <1>1, <2>1, <2>2, <2>3, <2>4, ToldLookup
<1>5. QED
  BY <1>3, <1>4

LEMMA ToldProbeEnds ==
  ASSUME Typed, Told, NEW a \in Audits, NEW q \in Questions, NEW pool \in Pools,
         ProbeEnds(pool, a, q)
  PROVE  Told'
<1> DEFINE answer == probe[a][q].answer
           x == [state |-> "done", answer |-> Heard(q, answer)]
<1>1. /\ probe[a][q].state = "asked" /\ answer \in Answers /\ Heard(q, answer) \in Answers
      /\ probe' = [probe EXCEPT ![a][q] = x] /\ UNCHANGED <<born, met, scope>>
  BY Ended
<1>2. x \in Probes /\ x.answer = Heard(q, answer) /\ x.state = "done"
  BY <1>1 DEF Probes
<1>3. q \in Stated => Fresh(a, Heard(q, answer))
  <2>1. SUFFICES ASSUME q \in Stated PROVE Fresh(a, Heard(q, answer))
    OBVIOUS
  <2>2. Fresh(a, answer)
    BY <1>1, <2>1 DEF Told
  <2>3. Heard(q, answer) = [answer EXCEPT !.nx = FALSE]
    BY <2>1 DEF Heard, Stated
  <2>4. /\ Heard(q, answer).value = answer.value /\ Heard(q, answer).was = answer.was
        /\ Heard(q, answer).at = answer.at /\ Heard(q, answer).by = answer.by
        /\ Heard(q, answer).nx = FALSE
    BY <1>1, <2>3 DEF Answers
  <2>5. QED
    BY <2>2, <2>4 DEF Fresh
<1> HIDE DEF x
<1>4. QED
  BY <1>1, <1>2, <1>3, ToldLookup

LEMMA ToldStep == Typed /\ Typed' /\ Memory /\ Told /\ [Next]_vars => Told'
<1> SUFFICES ASSUME Typed, Typed', Memory, Told, [Next]_vars PROVE Told'
  OBVIOUS
<1>1. ASSUME UNCHANGED <<born, scope, met, probe>> PROVE Told'
  BY <1>1, ToldKept
<1>2. CASE Tick \/ (\E value \in Records : Publish(value)) \/ UNCHANGED vars
  BY <1>1, <1>2 DEF Tick, Publish, vars
<1>3. ASSUME NEW a \in Audits, Begin(a) PROVE Told'
  <2>1. /\ pc[a] = "idle" /\ UNCHANGED <<probe, scope>>
        /\ \A b \in Audits : b # a => born'[b] = born[b]
    BY <1>3 DEF Begin, Typed, Types
  <2>2. \A q \in Questions : probe'[a][q].state \notin {"asked", "done"}
    BY <2>1 DEF Typed, Stages
  <2>3. \A b \in Audits : b # a => met[b] \subseteq met'[b]
    BY <1>3, BeginMet DEF Typed
  <2>4. QED
    BY <2>1, <2>2, <2>3, ToldKept
<1>4. ASSUME NEW a \in Audits, CheckStarts(a) PROVE Told'
  <2>1. /\ probe' = [probe EXCEPT ![a] = [q \in Questions |-> [@[q] EXCEPT !.state = "queued"]]]
        /\ UNCHANGED <<born, scope, met>>
    BY <1>4 DEF CheckStarts
  <2>2. \A b \in Audits : b # a => probe'[b] = probe[b]
    BY <2>1 DEF Typed, Types
  <2>3. ASSUME NEW q \in Questions PROVE probe'[a][q].state \notin {"asked", "done"}
    <3>1. probe'[a][q] = [probe[a][q] EXCEPT !.state = "queued"]
      BY <2>1 DEF Typed, Types
    <3>2. probe[a][q] \in Probes
      BY DEF Typed, Types
    <3>3. QED
      BY <3>1, <3>2 DEF Probes
  <2>4. QED
    BY <2>1, <2>2, <2>3, ToldKept
<1>5. ASSUME NEW a \in Audits, CheckEnds(a) \/ SelectLatest(a) \/ InsertRow(a) PROVE Told'
  BY <1>1, <1>5 DEF CheckEnds, SelectLatest, InsertRow
<1>6. ASSUME NEW a \in Audits, Finish(a) PROVE Told'
  <2>1. /\ probe' = [probe EXCEPT ![a] = NothingAsked] /\ born' = [born EXCEPT ![a] = 0]
        /\ UNCHANGED <<scope, met>>
    BY <1>6 DEF Finish
  <2>2. \A b \in Audits : b # a => probe'[b] = probe[b] /\ born'[b] = born[b]
    BY <2>1 DEF Typed, Types
  <2>3. \A q \in Questions : probe'[a][q].state \notin {"asked", "done"}
    BY <2>1 DEF Typed, Types, NothingAsked
  <2>4. QED
    BY <2>1, <2>2, <2>3, ToldKept
<1>7. QED
  BY <1>2, <1>3, <1>4, <1>5, <1>6, ToldProbeStarts, ToldProbeEnds DEF Next, Work, Records

LEMMA MemoryToldInit == Init => Memory /\ Told
<1> SUFFICES ASSUME Init PROVE Memory /\ Told
  OBVIOUS
<1>1. cache["ANY"] = {} /\ cache["TXT"] = {} /\ memo = {}
  BY DEF Init
<1>2. \A q \in Stated : Kept(q) = {}
  BY <1>1 DEF Kept
<1>3. \A a \in Audits, q \in Questions : probe[a][q].state = "none"
  BY DEF Init, NothingAsked
<1>4. Told
  BY <1>3 DEF Told, Stated, Questions
<1>5. QED
  BY <1>1, <1>2, <1>4 DEF Memory

\* However audits of one domain overlap, whatever the cache and the memo hold and whenever
\* the operator publishes, an audit that says "absent" has it from a recent reply of a time
\* when the record was absent, and not from what an audit of its own scope that was over
\* before it began had left behind.
THEOREM FixIsSeenHolds == Spec => []FixIsSeen
<1>1. Init => Memory /\ Told
  BY MemoryToldInit
<1>2. Typed /\ Told => FixIsSeen
  <2>1. SUFFICES ASSUME Typed, Told, NEW a \in Audits, NEW q \in Stated, pc[a] = "comparing",
                        probe[a][q].answer.value = Absent
                 PROVE  /\ probe[a][q].answer.was = Absent
                        /\ probe[a][q].answer.at + NegativeCap + QueryTime >= born[a]
                        /\ (/\ probe[a][q].answer.by # a
                            /\ scope[probe[a][q].answer.by] = scope[a])
                             => probe[a][q].answer.by \in met[a]
    BY DEF FixIsSeen, Stated
  <2>2. Fresh(a, probe[a][q].answer)
    BY <2>1 DEF Typed, Stages, Told, Stated, Questions
  <2>3. QED
    BY <2>1, <2>2 DEF Fresh
<1>3. QED
  BY <1>1, <1>2, TypedHolds, MemoryStep, ToldStep, PTL DEF Spec

-----------------------------------------------------------------------------
(* The history.                                                             *)

Askers == Audits \cup {Earlier}

\* What an audit was told of the text record, or is being told.
Asked(a) == probe[a]["TXT"].state \in {"asked", "done"}
Reply(a) == probe[a]["TXT"].answer

\* There is a trace of a reply that was sent at s to audit x.
Known(s, x) ==
  \/ \E a \in Audits : Asked(a) /\ Reply(a).at = s /\ Reply(a).by = x
  \/ \E e \in cache["TXT"] : e.answer.at = s /\ e.answer.by = x
  \/ \E i \in 1..Len(rows) : rows[i].at = s /\ rows[i].asker = x

\* Whoever got a reply after t ran beside one of S.
After(t, S) == \A s \in Nat, x \in Askers : Known(s, x) /\ s > t => \E y \in S : <<x, y>> \in Met

\* No reply is from the future. Whoever got a later one than what is cached, or than what an
\* audit goes by, ran beside the audit that had asked, or the one that goes by it.
Order ==
  /\ \A s \in Nat, x \in Askers : Known(s, x) => s <= now
  /\ \A e \in cache["TXT"] : After(e.answer.at, {e.answer.by})
  /\ \A a \in Audits : Asked(a) => After(Reply(a).at, {Reply(a).by, a})

\* All rows after the i-th are of audits that a ran beside.
Since(a, i) == \A j \in (i + 1)..Len(rows) : <<rows[j].by, a>> \in Met

\* An audit about to insert saw the row that was the last one then, and one that has
\* stored its record can point to a row that says it.
Saw(a) ==
  /\ Found(a) # Absent
  /\ \/ latest[a] = {} /\ Since(a, 0)
     \/ \E i \in 1..Len(rows) : latest[a] = {rows[i].value} /\ Since(a, i)
Left(a) == Found(a) # Absent => \E i \in 1..Len(rows) : rows[i].value = Found(a) /\ Since(a, i)
Tells(i) ==
  rows[i + 1].by \in Audits =>
    /\ rows[i].value = rows[i + 1].value => <<rows[i].by, rows[i + 1].by>> \in Met
    /\ rows[i].at > rows[i + 1].at =>
         ({rows[i].by, rows[i].asker} \X {rows[i + 1].by, rows[i + 1].asker}) \cap Met # {}
Stored ==
  /\ \A i \in 1..(Len(rows) - 1) : Tells(i)
  /\ \A a \in Audits : /\ pc[a] = "selected" => Saw(a)
                       /\ pc[a] = "comparing" => Left(a)

\* What is remembered of the text record when a lookup of any type ends.
LEMMA PutEntry ==
  ASSUME Types, NEW q \in {"TXT", "CNAME"}, NEW x \in Answers, cache' = Put(q, x)
  PROVE  \/ cache'["TXT"] = cache["TXT"]
         \/ q = "TXT" /\ \E t : cache'["TXT"] = {[answer |-> Heard(q, x), until |-> t]}
<1>1. \A v : \A k \in {"TXT", "CNAME", "ANY"} :
        /\ k # "TXT" => [cache EXCEPT ![k] = v]["TXT"] = cache["TXT"]
        /\ k = "TXT" => [cache EXCEPT ![k] = v]["TXT"] = v
  BY DEF Types
<1>2. KeyOf(q, x) \in {"TXT", "CNAME", "ANY"} /\ (KeyOf(q, x) = "TXT" => q = "TXT")
  BY DEF KeyOf
<1>3. CASE x.value # Absent
  <2>1. cache' = [cache EXCEPT ![KeyOf(q, x)] = {[answer |-> Heard(q, x), until |-> Expiry(x)]}]
    BY <1>3 DEF Put
  <2>2. QED
    BY <1>1, <1>2, <2>1
<1>4. CASE x.value = Absent /\ KeyOf(q, x) = "ANY"
  BY <1>4 DEF Put
<1>5. CASE x.value = Absent /\ KeyOf(q, x) # "ANY"
  <2>1. cache' = [cache EXCEPT ![KeyOf(q, x)] =
                    {[answer |-> Heard(q, x), until |-> Least(Expiry(x), now + NegativeCap)]}]
    BY <1>5 DEF Put
  <2>2. QED
    BY <1>1, <1>2, <2>1
<1>6. QED
  BY <1>3, <1>4, <1>5

\* What is found for the text record is what is cached for it.
LEMMA FoundText ==
  ASSUME Typed, Memory, NEW x \in Remembered("TXT")
  PROVE  x \in Answers /\ \E e \in cache["TXT"] : e.answer = x
<1>1. PICK e \in cache["TXT"] \cup cache["ANY"] : e.answer = x
  BY DEF Remembered
<1>2. e \in cache["TXT"] /\ x \in Answers
  BY <1>1 DEF Memory, Typed, Types
<1>3. QED
  BY <1>1, <1>2

LEMMA HeardText ==
  ASSUME NEW x \in Answers
  PROVE  /\ Heard("TXT", x) \in Answers
         /\ Heard("TXT", x).at = x.at /\ Heard("TXT", x).by = x.by
<1>1. Heard("TXT", x) = [x EXCEPT !.nx = FALSE]
  BY DEF Heard
<1>2. QED
  BY <1>1 DEF Answers

LEMMA ReplyTypes ==
  ASSUME Types
  PROVE  /\ now \in Nat
         /\ \A a \in Audits : Reply(a) \in Answers /\ Reply(a).at \in Nat /\ Reply(a).by \in Audits
         /\ \A e \in cache["TXT"] :
              e.answer \in Answers /\ e.answer.at \in Nat /\ e.answer.by \in Audits
         /\ rows \in Seq(Rows) /\ Len(rows) \in Nat
         /\ \A i \in 1..Len(rows) : rows[i].at \in Nat /\ rows[i].asker \in Askers
<1>1. \A a \in Audits : Reply(a) \in Answers
  BY DEF Types, Reply, Probes, Questions
<1>2. \A e \in cache["TXT"] : e.answer \in Answers
  BY DEF Types
<1>3. rows \in Seq(Rows) /\ Len(rows) \in Nat
  BY LenProperties DEF Types
<1>4. \A i \in 1..Len(rows) : rows[i] \in Rows
  BY <1>3, ElementOfSeq
<1>5. \A i \in 1..Len(rows) : rows[i].at \in Nat /\ rows[i].asker \in Askers
  BY <1>4 DEF Rows, Askers
<1>6. QED
  BY <1>1, <1>2, <1>3, <1>5 DEF Types, Answers

LEMMA AppendedRow ==
  ASSUME NEW S, NEW s \in Seq(S), NEW r \in S
  PROVE  /\ Len(s) \in Nat /\ Len(Append(s, r)) = Len(s) + 1 /\ Append(s, r)[Len(s) + 1] = r
         /\ \A i \in 1..Len(s) : Append(s, r)[i] = s[i]
         /\ \A i \in 1..Len(Append(s, r)) : i \in 1..Len(s) \/ i = Len(s) + 1
         /\ \A i \in 1..Len(Append(s, r)) :
              Append(s, r)[i] = r \/ (i \in 1..Len(s) /\ Append(s, r)[i] = s[i])
<1>1. /\ Len(s) \in Nat /\ Len(Append(s, r)) = Len(s) + 1 /\ Append(s, r)[Len(s) + 1] = r
      /\ \A i \in 1..Len(s) : Append(s, r)[i] = s[i]
  BY AppendProperties, LenProperties
<1>2. \A i \in 1..(Len(s) + 1) : i \in 1..Len(s) \/ i = Len(s) + 1
  BY <1>1
<1>3. QED
  BY <1>1, <1>2

\* No audit ever forgets another.
LEMMA MetGrows ==
  ASSUME Typed, [Next]_vars, NEW b \in Audits
  PROVE  met[b] \subseteq met'[b]
<1>1. CASE UNCHANGED met
  BY <1>1
<1>2. ASSUME NEW a \in Audits, Begin(a) PROVE met[b] \subseteq met'[b]
  <2>1. \A c \in Audits : c # a => met[c] \subseteq met'[c]
    BY <1>2, BeginMet DEF Typed
  <2>2. met[a] = {}
    BY <1>2 DEF Begin, Typed, Beside
  <2>3. QED
    BY <2>1, <2>2
<1>3. ASSUME NEW a \in Audits, Work(a) PROVE UNCHANGED met
  <2>1. CASE \E q \in Questions : \E pool \in Pools :
               ProbeStarts(pool, a, q) \/ ProbeEnds(pool, a, q)
    BY <2>1 DEF ProbeStarts, ProbeEnds
  <2>2. CASE CheckStarts(a) \/ CheckEnds(a)
    BY <2>2 DEF CheckStarts, CheckEnds
  <2>3. CASE SelectLatest(a) \/ InsertRow(a) \/ Finish(a)
    BY <2>3 DEF SelectLatest, InsertRow, Finish
  <2>4. QED
    BY <1>3, <2>1, <2>2, <2>3 DEF Work
<1>4. CASE Tick \/ (\E value \in Values \cup {Absent} : Publish(value)) \/ UNCHANGED vars
  BY <1>1, <1>4 DEF Tick, Publish, vars
<1>5. QED
  BY <1>1, <1>2, <1>3, <1>4 DEF Next

LEMMA MetKept ==
  ASSUME \A b \in Audits : met[b] \subseteq met'[b]
  PROVE  Met \subseteq Met'
BY DEF Met

\* A step after which no reply is known that was not before.
LEMMA OrderKept ==
  ASSUME Types, Order, now' \in Nat, now <= now',
         \A b \in Audits : met[b] \subseteq met'[b],
         \A s \in Nat, x \in Askers : Known(s, x)' => Known(s, x),
         \A e \in cache'["TXT"] : After(e.answer.at, {e.answer.by}),
         \A a \in Audits : Asked(a)' => After(Reply(a)'.at, {Reply(a)'.by, a})
  PROVE  Order'
<1>1. now \in Nat /\ Met \subseteq Met'
  BY MetKept DEF Types
<1>2. ASSUME NEW s \in Nat, NEW x \in Askers, Known(s, x)' PROVE s <= now'
  BY <1>1, <1>2 DEF Order
<1>3. \A t, S : After(t, S) => After(t, S)'
  BY <1>1 DEF After
<1>4. \A e \in cache'["TXT"] : After(e.answer.at, {e.answer.by})'
  BY <1>3
<1>5. ASSUME NEW a \in Audits, Asked(a)' PROVE After(Reply(a).at, {Reply(a).by, a})'
  <2> DEFINE t == Reply(a)'.at
             S == {Reply(a)'.by, a}
  <2>1. After(t, S)
    BY <1>5
  <2>2. QED
    BY <1>3, <2>1
<1>6. QED
  BY <1>2, <1>4, <1>5 DEF Order
\* A step that leaves what is known of the text record as it is, but for what is dropped.
LEMMA OrderSame ==
  ASSUME Types, Order, now' \in Nat, now <= now',
         \A b \in Audits : met[b] \subseteq met'[b],
         rows' = rows, cache'["TXT"] \subseteq cache["TXT"],
         \A a \in Audits : Asked(a)' => Asked(a) /\ Reply(a)' = Reply(a)
  PROVE  Order'
<1>1. \A s \in Nat, x \in Askers : Known(s, x)' => Known(s, x)
  BY DEF Known
<1>2. \A e \in cache'["TXT"] : After(e.answer.at, {e.answer.by})
  BY DEF Order
<1>3. ASSUME NEW a \in Audits, Asked(a)' PROVE After(Reply(a)'.at, {Reply(a)'.by, a})
  <2>1. After(Reply(a).at, {Reply(a).by, a}) /\ Reply(a)' = Reply(a)
    BY <1>3 DEF Order
  <2>2. QED
    BY <2>1
<1>4. QED
  BY <1>1, <1>2, <1>3, OrderKept

\* A lookup of the text record is answered from the cache, or asked.
LEMMA OrderProbeStarts ==
  ASSUME Typed, Typed', Memory, Order, NEW a \in Audits, NEW pool \in Pools,
         ProbeStarts(pool, a, "TXT")
  PROVE  Order'
<1>1. /\ pc[a] = "checking" /\ probe[a]["TXT"].state = "queued"
      /\ UNCHANGED <<now, pc, met, cache, rows>> /\ "TXT" \in Questions
  BY Taken DEF ProbeStarts, Questions
<1>2. ASSUME NEW x, probe' = [probe EXCEPT ![a]["TXT"] = x]
      PROVE  /\ probe'[a]["TXT"] = x
             /\ \A b \in Audits : b # a => (Asked(b)' => Asked(b)) /\ Reply(b)' = Reply(b)
  <2>1. /\ probe'[a]["TXT"] = x
        /\ \A b \in Audits : b # a => probe'[b]["TXT"] = probe[b]["TXT"]
    BY <1>2 DEF Typed, Types, Questions
  <2>2. QED
    BY <2>1 DEF Reply, Asked
<1>3. now \in Nat /\ now <= now /\ Types /\ Types'
  BY DEF Typed, Types
<1>4. CASE Remembered("TXT") # {}
  <2>1. PICK x \in Remembered("TXT") :
          probe' = [probe EXCEPT ![a]["TXT"] = [state |-> "done", answer |-> Heard("TXT", x)]]
    BY <1>4 DEF ProbeStarts
  <2>2. PICK e \in cache["TXT"] : e.answer = x /\ x \in Answers
    BY FoundText
  <2>3. /\ Reply(a)'.at = x.at /\ Reply(a)'.by = x.by
        /\ \A b \in Audits : b # a => (Asked(b)' => Asked(b)) /\ Reply(b)' = Reply(b)
    <3>1. /\ probe'[a]["TXT"] = [state |-> "done", answer |-> Heard("TXT", x)]
          /\ \A b \in Audits : b # a => (Asked(b)' => Asked(b)) /\ Reply(b)' = Reply(b)
      BY <1>2, <2>1
    <3>2. Reply(a)' = Heard("TXT", x)
      BY <3>1 DEF Reply
    <3>3. QED
      BY <2>2, <3>1, <3>2, HeardText
  <2>4. After(x.at, {x.by})
    BY <2>2 DEF Order
  <2>5. After(x.at, {x.by, a})
    BY <2>4 DEF After
  <2>6. \A s \in Nat, y \in Askers : Known(s, y)' => Known(s, y)
    BY <1>1, <2>2, <2>3 DEF Known
  <2>7. \A b \in Audits : Asked(b)' => After(Reply(b)'.at, {Reply(b)'.by, b})
    <3>1. ASSUME NEW b \in Audits, Asked(b)' PROVE After(Reply(b)'.at, {Reply(b)'.by, b})
      <4>1. CASE b = a
        BY <2>3, <2>5, <4>1
      <4>2. CASE b # a
        <5>1. Reply(b)' = Reply(b) /\ After(Reply(b).at, {Reply(b).by, b})
          BY <2>3, <3>1, <4>2 DEF Order
        <5>2. QED
          BY <5>1
      <4>3. QED
        BY <4>1, <4>2
    <3>2. QED
      BY <3>1
  <2>8. \A f \in cache'["TXT"] : After(f.answer.at, {f.answer.by})
    BY <1>1 DEF Order
  <2>9. QED
    BY <1>1, <1>3, <2>6, <2>7, <2>8, OrderKept
<1>5. CASE Remembered("TXT") = {}
  <2>1. PICK x \in Replies(a, "TXT") :
          probe' = [probe EXCEPT ![a]["TXT"] = [state |-> "asked", answer |-> x]]
    BY <1>5 DEF ProbeStarts
  <2>2. x.at = now /\ x.by = a
    BY DEF Replies
  <2>3. /\ Reply(a)'.at = now /\ Reply(a)'.by = a
        /\ \A b \in Audits : b # a => (Asked(b)' => Asked(b)) /\ Reply(b)' = Reply(b)
    <3>1. /\ probe'[a]["TXT"] = [state |-> "asked", answer |-> x]
          /\ \A b \in Audits : b # a => (Asked(b)' => Asked(b)) /\ Reply(b)' = Reply(b)
      BY <1>2, <2>1
    <3>2. Reply(a)' = x
      BY <3>1 DEF Reply
    <3>3. QED
      BY <2>2, <3>1, <3>2
  <2>4. cache'["TXT"] = {}
    BY <1>1, <1>5 DEF Remembered
  <2>5. \A s \in Nat, y \in Askers : Known(s, y)' => Known(s, y) \/ (s = now /\ y = a)
    BY <1>1, <2>3, <2>4 DEF Known
  <2>6. \A s \in Nat, y \in Askers : Known(s, y)' => s <= now'
    BY <1>1, <1>3, <2>5 DEF Order
  <2>7. ASSUME NEW b \in Audits, Asked(b)' PROVE After(Reply(b).at, {Reply(b).by, b})'
    <3> DEFINE t == Reply(b)'.at
               S == {Reply(b)'.by, b}
    <3> SUFFICES ASSUME NEW s \in Nat, NEW y \in Askers, Known(s, y)', s > t
                 PROVE  \E z \in S : <<y, z>> \in Met
      BY <1>1 DEF After, Met
    <3>1. CASE b = a
      <4>1. t = now
        BY <2>3, <3>1
      <4>2. QED
        BY <1>1, <1>3, <2>6, <4>1
    <3>2. CASE b # a
      <4>1. Asked(b) /\ t = Reply(b).at /\ S = {Reply(b).by, b} /\ t \in Nat
        BY <1>3, <2>3, <2>7, <3>2, ReplyTypes
      <4>2. CASE Known(s, y)
        <5>1. After(Reply(b).at, {Reply(b).by, b})
          BY <4>1 DEF Order
        <5>2. QED
          BY <4>1, <4>2, <5>1 DEF After
      <4>3. CASE s = now /\ y = a
        <5>1. pc[b] \notin {"idle", "replayed", "done"}
          BY <1>1, <4>1 DEF Typed, Stages, Asked
        <5>2. pc[b] \in {"checking", "storing", "selected", "comparing"}
          BY <1>3, <5>1 DEF Types
        <5>3. Running(a) /\ Running(b)
          BY <1>1, <5>2 DEF Running
        <5>4. <<a, b>> \in Met
          BY <3>2, <5>3 DEF Typed, Beside, Met
        <5>5. QED
          BY <4>1, <4>3, <5>4
      <4>4. QED
        BY <2>5, <4>2, <4>3
    <3>3. QED
      BY <3>1, <3>2
  <2>8. QED
    BY <2>4, <2>6, <2>7 DEF Order
<1>6. QED
  BY <1>4, <1>5

LEMMA OrderProbeEnds ==
  ASSUME Typed, Order, NEW a \in Audits, NEW pool \in Pools, ProbeEnds(pool, a, "TXT")
  PROVE  Order'
<1> DEFINE answer == Reply(a)
<1>1. /\ probe[a]["TXT"].state = "asked" /\ pc[a] = "checking" /\ answer \in Answers
      /\ probe' = [probe EXCEPT ![a]["TXT"] = [state |-> "done", answer |-> Heard("TXT", answer)]]
      /\ UNCHANGED <<now, pc, met, rows>>
  BY Ended DEF Questions, Reply
<1>2. Asked(a) /\ answer.by = a /\ now \in Nat /\ now <= now /\ Types
  BY <1>1 DEF Typed, Types, Clock, Questions, Asked, Reply
<1>3. /\ probe'[a]["TXT"] = [state |-> "done", answer |-> Heard("TXT", answer)]
      /\ \A b \in Audits : b # a => probe'[b]["TXT"] = probe[b]["TXT"]
  BY <1>1 DEF Typed, Types, Questions
<1>4. /\ Reply(a)'.at = answer.at /\ Reply(a)'.by = answer.by
      /\ \A b \in Audits : b # a => (Asked(b)' => Asked(b)) /\ Reply(b)' = Reply(b)
  BY <1>1, <1>3, HeardText DEF Reply, Asked
<1>5. cache' = Put("TXT", answer)
  BY DEF ProbeEnds, Reply
<1>6. \/ cache'["TXT"] = cache["TXT"]
      \/ \E t : cache'["TXT"] = {[answer |-> Heard("TXT", answer), until |-> t]}
  BY <1>1, <1>2, <1>5, PutEntry
<1>7. \A e \in cache'["TXT"] :
        \/ e \in cache["TXT"]
        \/ e.answer.at = answer.at /\ e.answer.by = answer.by
  <2>1. ASSUME NEW t, NEW e, e = [answer |-> Heard("TXT", answer), until |-> t]
        PROVE  e.answer.at = answer.at /\ e.answer.by = answer.by
    <3>1. e.answer = Heard("TXT", answer)
      BY <2>1
    <3>2. QED
      BY <1>1, <3>1, HeardText
  <2>2. CASE cache'["TXT"] = cache["TXT"]
    BY <2>2
  <2>3. ASSUME NEW t, cache'["TXT"] = {[answer |-> Heard("TXT", answer), until |-> t]}
        PROVE  \A e \in cache'["TXT"] : e.answer.at = answer.at /\ e.answer.by = answer.by
    <3>1. \A e \in cache'["TXT"] : e = [answer |-> Heard("TXT", answer), until |-> t]
      BY <2>3
    <3>2. QED
      BY <2>1, <3>1
  <2>4. QED
    BY <1>6, <2>2, <2>3
<1>8. \A s \in Nat, x \in Askers : Known(s, x)' => Known(s, x)
  BY <1>1, <1>2, <1>4, <1>7 DEF Known
<1>9. After(answer.at, {answer.by})
  <2>1. After(answer.at, {answer.by, a}) /\ {answer.by, a} = {answer.by}
    BY <1>2 DEF Order
  <2>2. QED
    BY <2>1
<1>10. ASSUME NEW e \in cache'["TXT"] PROVE After(e.answer.at, {e.answer.by})
  BY <1>7, <1>9 DEF Order
<1>11. ASSUME NEW b \in Audits, Asked(b)' PROVE After(Reply(b)'.at, {Reply(b)'.by, b})
  <2>1. CASE b = a
    <3>1. After(answer.at, {answer.by, a})
      BY <1>2 DEF Order
    <3>2. QED
      BY <1>4, <2>1, <3>1
  <2>2. CASE b # a
    <3>1. Reply(b)' = Reply(b) /\ After(Reply(b).at, {Reply(b).by, b})
      BY <1>4, <1>11, <2>2 DEF Order
    <3>2. QED
      BY <3>1
  <2>3. QED
    BY <2>1, <2>2
<1>12. QED
  BY <1>1, <1>2, <1>8, <1>10, <1>11, OrderKept

LEMMA OrderInsertRow ==
  ASSUME Typed, Order, NEW a \in Audits, InsertRow(a)
  PROVE  Order'
<1>1. /\ pc[a] = "selected" /\ rows' = IF Differs(a) THEN Append(rows, RowOf(a)) ELSE rows
      /\ UNCHANGED <<now, met, cache, probe>>
  BY DEF InsertRow
<1>2. now \in Nat /\ now <= now /\ Types /\ Asked(a)
  BY <1>1 DEF Typed, Types, Stages, Asked, Questions
<1>3. CASE ~Differs(a)
  BY <1>1, <1>2, <1>3, OrderSame DEF Asked, Reply
<1>4. CASE Differs(a)
  <2>1. /\ RowOf(a).at = Reply(a).at /\ RowOf(a).asker = Reply(a).by
        /\ rows' = Append(rows, RowOf(a)) /\ rows \in Seq(Rows) /\ RowOf(a) \in Rows
    BY <1>1, <1>2, <1>4, AnswerType DEF RowOf, Reply, Types, Rows, Answers
  <2>2. \A i \in 1..Len(rows') : rows'[i] = RowOf(a) \/ (i \in 1..Len(rows) /\ rows'[i] = rows[i])
    BY <2>1, AppendedRow
  <2>3. \A s \in Nat, x \in Askers : Known(s, x)' => Known(s, x)
    BY <1>1, <1>2, <2>1, <2>2 DEF Known, Asked, Reply
  <2>4. \A e \in cache'["TXT"] : After(e.answer.at, {e.answer.by})
    BY <1>1 DEF Order
  <2>5. ASSUME NEW b \in Audits, Asked(b)' PROVE After(Reply(b)'.at, {Reply(b)'.by, b})
    <3>1. Asked(b) /\ Reply(b)' = Reply(b)
      BY <1>1, <2>5 DEF Asked, Reply
    <3>2. QED
      BY <3>1 DEF Order
  <2>6. QED
    BY <1>1, <1>2, <2>3, <2>4, <2>5, OrderKept
<1>5. QED
  BY <1>3, <1>4

LEMMA OrderStep == Typed /\ Typed' /\ Memory /\ Order /\ [Next]_vars => Order'
<1> SUFFICES ASSUME Typed, Typed', Memory, Order, [Next]_vars PROVE Order'
  OBVIOUS
<1>1. /\ Types /\ now \in Nat /\ now' \in Nat /\ now <= now
      /\ \A b \in Audits : met[b] \subseteq met'[b]
  BY MetGrows DEF Typed, Types
<1>2. ASSUME UNCHANGED <<now, rows>>, cache'["TXT"] = cache["TXT"],
             \A a \in Audits : probe'[a]["TXT"].state \in {"asked", "done"} =>
               probe'[a]["TXT"] = probe[a]["TXT"]
      PROVE  Order'
  <2>1. \A a \in Audits : Asked(a)' => Asked(a) /\ Reply(a)' = Reply(a)
    BY <1>2 DEF Asked, Reply
  <2>2. QED
    BY <1>1, <1>2, <2>1, OrderSame
<1>3. CASE (\E value \in Values \cup {Absent} : Publish(value)) \/ UNCHANGED vars
  BY <1>2, <1>3 DEF Publish, vars
<1>4. CASE Tick
  <2>1. /\ now' = now + 1 /\ UNCHANGED <<probe, rows>> /\ cache'["TXT"] \subseteq cache["TXT"]
    BY <1>4 DEF Tick, Typed, Types
  <2>2. now <= now'
    BY <1>1, <2>1
  <2>3. QED
    BY <1>1, <2>1, <2>2, OrderSame DEF Asked, Reply
<1>5. ASSUME NEW a \in Audits, Begin(a) \/ CheckEnds(a) \/ SelectLatest(a) PROVE Order'
  <2>1. UNCHANGED <<now, probe, cache, rows>>
    BY <1>5 DEF Begin, CheckEnds, SelectLatest
  <2>2. QED
    BY <1>2, <2>1
<1>6. ASSUME NEW a \in Audits, CheckStarts(a) PROVE Order'
  <2>1. probe' = [probe EXCEPT ![a] = [q \in Questions |-> [@[q] EXCEPT !.state = "queued"]]]
    BY <1>6 DEF CheckStarts
  <2>2. probe[a]["TXT"] \in Probes /\ \A b \in Audits : b # a => probe'[b] = probe[b]
    BY <2>1 DEF Typed, Types, Questions
  <2>3. probe'[a]["TXT"] = [probe[a]["TXT"] EXCEPT !.state = "queued"]
    BY <2>1 DEF Typed, Types, Questions
  <2>4. probe'[a]["TXT"].state = "queued"
    BY <2>2, <2>3 DEF Probes
  <2>5. UNCHANGED <<now, cache, rows>>
    BY <1>6 DEF CheckStarts
  <2>6. QED
    BY <1>2, <2>2, <2>4, <2>5
<1>7. ASSUME NEW a \in Audits, NEW q \in Questions, NEW pool \in Pools, ProbeStarts(pool, a, q)
      PROVE  Order'
  <2>1. CASE q = "TXT"
    BY <1>7, <2>1, OrderProbeStarts
  <2>2. CASE q # "TXT"
    <3>1. UNCHANGED <<now, cache, rows>>
      BY <1>7 DEF ProbeStarts
    <3>2. \E x : probe' = [probe EXCEPT ![a][q] = x]
      BY <1>7 DEF ProbeStarts
    <3>3. \A b \in Audits : probe'[b]["TXT"] = probe[b]["TXT"]
      BY <2>2, <3>2 DEF Typed, Types, Questions
    <3>4. QED
      BY <1>2, <3>1, <3>3
  <2>3. QED
    BY <2>1, <2>2
<1>8. ASSUME NEW a \in Audits, NEW q \in Questions, NEW pool \in Pools, ProbeEnds(pool, a, q)
      PROVE  Order'
  <2>1. CASE q = "TXT"
    BY <1>8, <2>1, OrderProbeEnds
  <2>2. CASE q # "TXT"
    <3> DEFINE x == probe[a][q].answer
    <3>1. /\ UNCHANGED <<now, rows>> /\ x \in Answers
          /\ probe' = [probe EXCEPT ![a][q] = [state |-> "done", answer |-> Heard(q, x)]]
      BY <1>8, Ended
    <3>2. cache'["TXT"] = cache["TXT"]
      <4>1. CASE q = "DKIM"
        BY <1>8, <4>1 DEF ProbeEnds
      <4>2. CASE q = "CNAME"
        <5>1. cache' = Put(q, x)
          BY <1>8, <4>2 DEF ProbeEnds
        <5>2. QED
          BY <2>2, <3>1, <4>2, <5>1, PutEntry DEF Typed
      <4>3. QED
        BY <2>2, <4>1, <4>2 DEF Questions
    <3>3. \A b \in Audits : probe'[b]["TXT"] = probe[b]["TXT"]
      BY <2>2, <3>1 DEF Typed, Types, Questions
    <3>4. QED
      BY <1>2, <3>1, <3>2, <3>3
  <2>3. QED
    BY <2>1, <2>2
<1>9. ASSUME NEW a \in Audits, Finish(a) PROVE Order'
  <2>1. probe' = [probe EXCEPT ![a] = NothingAsked] /\ UNCHANGED <<now, cache, rows>>
    BY <1>9 DEF Finish
  <2>2. /\ probe'[a]["TXT"].state = "none"
        /\ \A b \in Audits : b # a => probe'[b] = probe[b]
    BY <2>1 DEF Typed, Types, NothingAsked, Questions
  <2>3. \A b \in Audits : probe'[b]["TXT"].state \in {"asked", "done"} =>
          probe'[b]["TXT"] = probe[b]["TXT"]
    BY <2>2
  <2>4. QED
    BY <1>2, <2>1, <2>3
<1>10. QED
  BY <1>3, <1>4, <1>5, <1>6, <1>7, <1>8, <1>9, OrderInsertRow DEF Next, Work

\* A step that adds no row, and neither selects nor inserts.
LEMMA StoredKept ==
  ASSUME Stored, rows' = rows, \A b \in Audits : met[b] \subseteq met'[b],
         \A a \in Audits : pc'[a] = "selected" =>
           \/ Saw(a)'
           \/ pc[a] = "selected" /\ latest'[a] = latest[a] /\ Found(a)' = Found(a),
         \A a \in Audits : pc'[a] = "comparing" =>
           Left(a)' \/ (pc[a] = "comparing" /\ Found(a)' = Found(a))
  PROVE  Stored'
<1>1. Met \subseteq Met'
  BY MetKept
<1>2. \A i \in 1..(Len(rows) - 1) : Tells(i)'
  BY <1>1 DEF Stored, Tells
<1>3. \A a \in Audits, i \in 0..Len(rows) : Since(a, i) => Since(a, i)'
  BY <1>1 DEF Since
<1>4. ASSUME NEW a \in Audits, pc'[a] = "selected" PROVE Saw(a)'
  <2>1. CASE pc[a] = "selected" /\ latest'[a] = latest[a] /\ Found(a)' = Found(a)
    <3>1. Saw(a)
      BY <2>1 DEF Stored
    <3>2. QED
      BY <1>1, <2>1, <3>1 DEF Saw, Since
  <2>2. QED
    BY <1>4, <2>1
<1>5. ASSUME NEW a \in Audits, pc'[a] = "comparing" PROVE Left(a)'
  <2>1. CASE pc[a] = "comparing" /\ Found(a)' = Found(a)
    <3>1. Left(a)
      BY <2>1 DEF Stored
    <3>2. QED
      BY <1>1, <2>1, <3>1 DEF Left, Since
  <2>2. QED
    BY <1>5, <2>1
<1>6. QED
  BY <1>2, <1>4, <1>5 DEF Stored

LEMMA StoredSelectLatest ==
  ASSUME Typed, Stored, NEW a \in Audits, SelectLatest(a)
  PROVE  Stored'
<1>1. /\ pc[a] = "storing" /\ pc'[a] = (IF Found(a) = Absent THEN "comparing" ELSE "selected")
      /\ latest'[a] = IF rows = <<>> THEN {} ELSE {Last(rows).value}
      /\ \A b \in Audits : b # a => pc'[b] = pc[b] /\ latest'[b] = latest[b]
      /\ UNCHANGED <<met, probe, rows>>
  BY DEF SelectLatest, Typed, Types
<1>2. \A b \in Audits : Found(b)' = Found(b)
  BY <1>1 DEF Found
<1>3. rows \in Seq(Rows) /\ Len(rows) \in Nat
  BY ReplyTypes DEF Typed
<1>4. ASSUME pc'[a] = "selected" PROVE Saw(a)'
  <2>1. Found(a)' # Absent
    BY <1>1, <1>2, <1>4
  <2>2. CASE rows = <<>>
    <3>1. latest'[a] = {} /\ Len(rows') = 0
      BY <1>1, <2>2
    <3>2. QED
      BY <2>1, <3>1 DEF Saw, Since
  <2>3. CASE rows # <<>>
    <3>1. Len(rows) \in 1..Len(rows) /\ latest'[a] = {rows'[Len(rows)].value}
      BY <1>1, <1>3, <2>3, EmptySeq DEF Last
    <3>2. Since(a, Len(rows))'
      BY <1>1, <1>3 DEF Since
    <3>3. QED
      BY <1>1, <2>1, <3>1, <3>2 DEF Saw
  <2>4. QED
    BY <2>2, <2>3
<1>5. ASSUME pc'[a] = "comparing" PROVE Left(a)'
  BY <1>1, <1>2, <1>5 DEF Left
<1>6. QED
  BY <1>1, <1>2, <1>4, <1>5, StoredKept

\* The row that is added, against the last one and for those who look on.
LEMMA StoredInsertRow ==
  ASSUME Typed, Order, Stored, NEW a \in Audits, InsertRow(a)
  PROVE  Stored'
<1>1. /\ pc[a] = "selected" /\ pc'[a] = "comparing"
      /\ \A b \in Audits : b # a => pc'[b] = pc[b] /\ latest'[b] = latest[b]
      /\ rows' = IF Differs(a) THEN Append(rows, RowOf(a)) ELSE rows
      /\ UNCHANGED <<met, probe>>
  BY DEF InsertRow, Typed, Types
<1>2. /\ Saw(a) /\ Asked(a) /\ Types /\ Met' = Met
      /\ \A b \in Audits : Found(b)' = Found(b)
  BY <1>1 DEF Stored, Typed, Stages, Asked, Questions, Met, Found
<1>3. CASE ~Differs(a)
  <2>1. rows' = rows /\ latest[a] = {Found(a)}
    BY <1>1, <1>3 DEF Differs
  <2>2. PICK i \in 1..Len(rows) : latest[a] = {rows[i].value} /\ Since(a, i)
    BY <1>2, <2>1 DEF Saw
  <2>3. rows[i].value = Found(a)
    BY <2>1, <2>2
  <2>4. Left(a)'
    BY <1>2, <2>1, <2>2, <2>3 DEF Left, Since
  <2>5. QED
    BY <1>1, <1>2, <2>1, <2>4, StoredKept
<1>4. CASE Differs(a)
  <2> DEFINE row == RowOf(a)
  <2>0. PICK n \in Nat : n = Len(rows)
    BY <1>2, ReplyTypes
  <2>1. /\ row.value = Found(a) /\ row.at = Reply(a).at /\ row.by = a /\ row.asker = Reply(a).by
        /\ rows' = Append(rows, row) /\ rows \in Seq(Rows) /\ row \in Rows
    BY <1>1, <1>2, <1>4, AnswerType DEF RowOf, Reply, Found, Types, Rows, Answers
  <2>2. /\ n \in Nat /\ Len(rows') = n + 1 /\ rows'[n + 1] = row
        /\ \A i \in 1..n : rows'[i] = rows[i]
        /\ \A i \in 1..Len(rows') : i \in 1..n \/ i = n + 1
    BY <2>0, <2>1, AppendedRow
  <2> HIDE DEF row
  <2>3. ASSUME NEW b \in Audits, b # a, pc[b] \in {"selected", "comparing"}, NEW i \in 0..n,
               Since(b, i)
        PROVE  Since(b, i)'
    <3>1. Running(a) /\ Running(b)
      BY <1>1, <2>3 DEF Running
    <3>2. <<a, b>> \in Met
      BY <2>3, <3>1 DEF Typed, Beside, Met
    <3>3. ASSUME NEW j \in (i + 1)..Len(rows') PROVE <<rows'[j].by, b>> \in Met
      <4>1. CASE j = n + 1
        BY <2>1, <2>2, <3>2, <4>1
      <4>2. CASE j # n + 1
        <5>1. j \in (i + 1)..n /\ j \in 1..n
          BY <2>2, <3>3, <4>2
        <5>2. QED
          BY <2>0, <2>2, <2>3, <5>1 DEF Since
      <4>3. QED
        BY <4>1, <4>2
    <3>4. QED
      BY <1>2, <3>3 DEF Since
  <2>4. ASSUME NEW b \in Audits, pc'[b] = "selected" PROVE Saw(b)'
    <3>1. b # a /\ pc[b] = "selected" /\ latest'[b] = latest[b] /\ Saw(b)
      BY <1>1, <2>4 DEF Stored
    <3>2. Found(b)' # Absent
      BY <1>2, <3>1 DEF Saw
    <3>3. CASE latest[b] = {} /\ Since(b, 0)
      <4>1. Since(b, 0)'
        BY <2>2, <2>3, <3>1, <3>3
      <4>2. QED
        BY <3>1, <3>2, <3>3, <4>1 DEF Saw
    <3>4. CASE \E i \in 1..n : latest[b] = {rows[i].value} /\ Since(b, i)
      <4>1. PICK i \in 1..n : latest[b] = {rows[i].value} /\ Since(b, i)
        BY <3>4
      <4>2. Since(b, i)' /\ i \in 1..Len(rows') /\ latest'[b] = {rows'[i].value}
        BY <2>2, <2>3, <3>1, <4>1
      <4>3. QED
        BY <3>2, <4>2 DEF Saw
    <3>5. QED
      BY <2>0, <3>1, <3>3, <3>4 DEF Saw
  <2>5. ASSUME NEW b \in Audits, pc'[b] = "comparing", Found(b) # Absent
        PROVE  \E i \in 1..Len(rows') : rows'[i].value = Found(b) /\ Since(b, i)'
    <3>1. CASE b = a
      <4>1. Since(a, n + 1)' /\ n + 1 \in 1..Len(rows')
        BY <2>2 DEF Since
      <4>2. QED
        BY <2>1, <2>2, <3>1, <4>1
    <3>2. CASE b # a
      <4>1. pc[b] = "comparing" /\ Left(b)
        BY <1>1, <2>5, <3>2 DEF Stored
      <4>2. PICK i \in 1..n : rows[i].value = Found(b) /\ Since(b, i)
        BY <2>0, <2>5, <4>1 DEF Left
      <4>3. Since(b, i)' /\ i \in 1..Len(rows') /\ rows'[i].value = Found(b)
        BY <2>2, <2>3, <3>2, <4>1, <4>2
      <4>4. QED
        BY <4>3
    <3>3. QED
      BY <3>1, <3>2
  <2>6. ASSUME n # 0 PROVE Tells(n)'
    <3>1. n \in 1..n /\ rows'[n] = rows[n] /\ rows'[n + 1] = row
      BY <2>2, <2>6
    <3>2. ASSUME rows[n].value = Found(a) PROVE <<rows[n].by, a>> \in Met
      <4>1. CASE Since(a, 0)
        BY <2>0, <3>1, <4>1 DEF Since
      <4>2. ASSUME NEW i \in 1..n, latest[a] = {rows[i].value}, Since(a, i)
            PROVE  <<rows[n].by, a>> \in Met
        <5>1. i # n
          BY <1>4, <3>2, <4>2 DEF Differs
        <5>2. n \in (i + 1)..n
          BY <2>2, <4>2, <5>1
        <5>3. QED
          BY <2>0, <4>2, <5>2 DEF Since
      <4>3. QED
        BY <1>2, <2>0, <4>1, <4>2 DEF Saw
    <3>3. ASSUME rows[n].at > Reply(a).at
          PROVE  \E y \in {Reply(a).by, a} : <<rows[n].asker, y>> \in Met
      <4>1. rows[n].at \in Nat /\ rows[n].asker \in Askers
        BY <1>2, <2>0, <3>1, ReplyTypes
      <4>2. Known(rows[n].at, rows[n].asker)
        BY <2>0, <3>1 DEF Known
      <4>3. After(Reply(a).at, {Reply(a).by, a})
        BY <1>2 DEF Order
      <4>4. QED
        BY <3>3, <4>1, <4>2, <4>3 DEF After
    <3>4. rows[n].at > Reply(a).at =>
            ({rows[n].by, rows[n].asker} \X {a, Reply(a).by}) \cap Met # {}
      BY <3>3
    <3>5. QED
      BY <1>2, <2>1, <3>1, <3>2, <3>4 DEF Tells
  <2>7. ASSUME NEW i \in 1..(Len(rows') - 1) PROVE Tells(i)'
    <3>1. CASE i = n
      BY <2>2, <2>6, <2>7, <3>1
    <3>2. CASE i # n
      <4>1. i \in 1..(n - 1) /\ rows'[i] = rows[i] /\ rows'[i + 1] = rows[i + 1]
        BY <2>2, <2>7, <3>2
      <4>2. Tells(i)
        BY <2>0, <4>1 DEF Stored
      <4>3. QED
        BY <1>2, <4>1, <4>2 DEF Tells
    <3>3. QED
      BY <3>1, <3>2
  <2>8. \A b \in Audits : pc'[b] = "comparing" => Left(b)'
    BY <1>2, <2>5 DEF Left
  <2>9. QED
    BY <2>4, <2>7, <2>8 DEF Stored
<1>5. QED
  BY <1>3, <1>4

LEMMA StoredStep == Typed /\ Order /\ Stored /\ [Next]_vars => Stored'
<1> SUFFICES ASSUME Typed, Order, Stored, [Next]_vars PROVE Stored'
  OBVIOUS
<1>1. \A b \in Audits : met[b] \subseteq met'[b]
  BY MetGrows
<1>2. ASSUME rows' = rows,
             \A b \in Audits : pc'[b] \in {"selected", "comparing"} =>
               /\ pc'[b] = pc[b] /\ latest'[b] = latest[b]
               /\ probe'[b]["TXT"] = probe[b]["TXT"]
      PROVE  Stored'
  BY <1>1, <1>2, StoredKept DEF Found
<1>3. CASE Tick \/ (\E value \in Values \cup {Absent} : Publish(value)) \/ UNCHANGED vars
  BY <1>2, <1>3 DEF Tick, Publish, vars
<1>4. ASSUME NEW a \in Audits, Begin(a) PROVE Stored'
  <2>1. /\ pc'[a] \in {"replayed", "checking"} /\ \A b \in Audits : b # a => pc'[b] = pc[b]
        /\ UNCHANGED <<probe, rows, latest>>
    BY <1>4 DEF Begin, Typed, Types
  <2>2. QED
    BY <1>2, <2>1
<1>5. ASSUME NEW a \in Audits, CheckStarts(a) PROVE Stored'
  <2>1. /\ UNCHANGED <<pc, rows, latest>>
        /\ \A b \in Audits : b # a => probe'[b] = probe[b]
    BY <1>5 DEF CheckStarts, Typed, Types
  <2>2. /\ queue.shared \in Seq(Tasks) /\ queue.shared # <<>> /\ Distinct(queue.shared)
        /\ Head(queue.shared) = <<a, "check">>
    BY <1>5 DEF CheckStarts, Typed, Types, TasksInv, Pools
  <2>3. <<a, "check">> \in In(queue.shared)
    BY <2>2, TailIn
  <2>4. pc[a] = "checking"
    BY <2>3 DEF Typed, TasksInv
  <2>5. QED
    BY <1>2, <2>1, <2>4
<1>6. ASSUME NEW a \in Audits, NEW q \in Questions, NEW pool \in Pools,
             ProbeStarts(pool, a, q) \/ ProbeEnds(pool, a, q)
      PROVE  Stored'
  <2>1. pc[a] = "checking" /\ UNCHANGED <<pc, rows, latest>>
    BY <1>6, Taken, Ended DEF ProbeStarts
  <2>2. \E x : probe' = [probe EXCEPT ![a][q] = x]
    BY <1>6, Ended DEF ProbeStarts
  <2>3. \A b \in Audits : b # a => probe'[b] = probe[b]
    BY <2>2 DEF Typed, Types
  <2>4. QED
    BY <1>2, <2>1, <2>3
<1>7. ASSUME NEW a \in Audits, CheckEnds(a) PROVE Stored'
  <2>1. /\ pc'[a] = "storing" /\ \A b \in Audits : b # a => pc'[b] = pc[b]
        /\ UNCHANGED <<probe, rows, latest>>
    BY <1>7 DEF CheckEnds, Typed, Types
  <2>2. QED
    BY <1>2, <2>1
<1>8. ASSUME NEW a \in Audits, Finish(a) PROVE Stored'
  <2>1. /\ pc'[a] = "done" /\ \A b \in Audits : b # a => pc'[b] = pc[b] /\ probe'[b] = probe[b]
        /\ UNCHANGED <<rows, latest>>
    BY <1>8 DEF Finish, Typed, Types
  <2>2. QED
    BY <1>2, <2>1
<1>9. QED
  BY <1>3, <1>4, <1>5, <1>6, <1>7, <1>8, StoredSelectLatest, StoredInsertRow DEF Next, Work

\* What audits do to the history when they run at once: a row that says nothing new, or goes
\* back to an older reply, is of audits that ran beside those of the row before, and none
\* but they can come after the row that says what an audit found.
THEOREM HistoryTellsHolds == Spec => []HistoryTells
<1>1. Init => Memory /\ Told /\ Order /\ Stored
  <2> SUFFICES ASSUME Init PROVE Memory /\ Told /\ Order /\ Stored
    OBVIOUS
  <2>1. /\ rows \in Seq(Rows) /\ cache["TXT"] = {} /\ now = 0
        /\ \A i \in 1..Len(rows) : rows[i].at = 0 /\ rows[i].by = Earlier
    BY PastRows DEF Init
  <2>2. \A a \in Audits : ~Asked(a) /\ pc[a] = "idle"
    BY DEF Init, NothingAsked, Questions, Asked
  <2>3. Order
    BY <2>1, <2>2 DEF Order, Known
  <2>4. \A i \in 1..(Len(rows) - 1) : Tells(i)
    <3>1. Len(rows) \in Nat /\ \A i \in 1..(Len(rows) - 1) : i + 1 \in 1..Len(rows)
      BY <2>1, LenProperties
    <3>2. \A i \in 1..(Len(rows) - 1) : rows[i + 1].by \notin Audits
      BY <2>1, <3>1, LookupsAssumption
    <3>3. QED
      BY <3>2 DEF Tells
  <2>5. Stored
    BY <2>2, <2>4 DEF Stored
  <2>6. QED
    BY <2>3, <2>5, MemoryToldInit
<1>2. Stored => HistoryTells
  BY DEF Stored, HistoryTells, Tells, Left, Since
<1>3. QED
  BY <1>1, <1>2, TypedHolds, MemoryStep, ToldStep, OrderStep, StoredStep, PTL DEF Spec

=============================================================================
