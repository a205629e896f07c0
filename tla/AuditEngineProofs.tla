--------------------------- MODULE AuditEngineProofs ---------------------------
(***************************************************************************)
(* One audit, for every set of scopes, every deadline, timeout and bound.   *)
(***************************************************************************)
EXTENDS AuditEngine, FiniteSetTheorems, TLAPS

\* Where the card of check c is still to be drawn.
Early == {"start", "tree_walk", "dmarc", "report_auth"}
InPhase1 == Early \cup {"mx", "spf", "dnssec_raw"}
Undrawn(c) ==
  IF c = "dmarc" THEN Early
  ELSE IF c = "mx" THEN Early \cup {"mx"}
  ELSE IF c = "spf" THEN Early \cup {"mx", "spf"}
  ELSE InPhase1 \cup {"batch", "collect", "draw", "map", "assemble"}

\* A check has at most one card, drawn in its turn unless time was up by then.
CardOf(c) ==
  /\ cards[c] = <<>> \/ \E k \in Kinds : cards[c] = <<k>>
  /\ cards[c] # <<>> => c \in scope
  /\ pc \in Undrawn(c) => cards[c] = <<>>
  /\ pc \notin Undrawn(c) \cup {"interrupted"} /\ c \in scope => cards[c] # <<>> \/ TimeUp
  /\ pc = "done" /\ c \in scope => cards[c] # <<>>
BatchOf(c) ==
  /\ batch[c] # "none" => c \in scope
  /\ pc \in InPhase1 \cup {"batch"} => batch[c] = "none"
  /\ pc \in {"draw", "map", "assemble"} /\ c \in scope => batch[c] # "none" \/ TimeUp
CardInv == (\A c \in Checks : CardOf(c)) /\ (\A c \in Batch : BatchOf(c))

\* What a card says is so: an answer for a verdict, a note in errors for a failure.
CardTrue(c) ==
  /\ cards[c] = <<"verdict">> => raw[c] = "answer"
  /\ cards[c] \in {<<"timeout">>, <<"error">>} => c \in errors
BatchTrue(c) ==
  /\ batch[c] = "verdict" => raw[c] = "answer"
  /\ batch[c] \in {"timeout", "error"} => c \in errors
CardsTrue == (\A c \in Checks : CardTrue(c)) /\ (\A c \in Batch : BatchTrue(c))

\* DNSSEC is settled when the batch is submitted, unless there is no time for it.
Settled ==
  /\ DaneKnowsDnssec
  /\ pc = "report_auth" => raw["dmarc"] = "answer"
  /\ pc = "batch" /\ NeedsDnssec => raw["dnssec"] # "absent" \/ TimeUp
  /\ pc = "collect" /\ "dane" \in scope => task["dane"] # "idle"

\* Phase 1 has one limit for all of its waits but that for the reports, instead of which it
\* may ask for the policy of the organizational domain, and asks for one CNAME; a later
\* wait ends no later than a batch that was started just in time.
MostOfPhase1 == CheckTimeout + Max2(ReportTimeout, OrgTimeout)
OneCname == IF cname THEN CnameTimeout ELSE 0
TimeInv ==
  /\ pc = "start" => now = 0 /\ ~cname
  /\ pc \in {"tree_walk", "dmarc"} => now <= CheckTimeout
  /\ pc \in {"tree_walk", "dmarc", "report_auth"} => ~cname
  /\ pc \in {"tree_walk", "dmarc", "mx", "spf", "dnssec_raw"} => limit <= CheckTimeout
  /\ pc = "report_auth" => limit <= CheckTimeout + ReportTimeout
  /\ pc \in InPhase1 => now <= MostOfPhase1 + OneCname
  /\ pc \in {"collect", "map", "aprf", "include", "subdomains"} => limit <= deadline + BatchTimeout
  /\ BoundedOverrun

\* The steps of Phase 1, of the batch and of the map; past the deadline some are skipped.
DmarcSteps == 2 * Count(NeedsDmarc)
MxSteps == DmarcSteps + Count(NeedsMx)
Phase1Steps == MxSteps + Count(NeedsSpf)
BatchSteps == Phase1Steps + Cardinality(InBatch)
MapSteps == BatchSteps + Count(MapInScope)
Steps(n) == completed <= n /\ (completed = n \/ TimeUp)

AfterMap == {"assemble", "aprf", "waive", "hints", "include", "scoring"}
Counted ==
  /\ pc = "start" => completed = 0
  /\ pc = "tree_walk" => completed = 0 /\ NeedsDmarc
  /\ pc \in {"dmarc", "report_auth"} => completed = 1 /\ NeedsDmarc
  /\ pc = "mx" => completed = DmarcSteps /\ NeedsMx
  /\ pc = "spf" => completed = MxSteps /\ NeedsSpf
  /\ pc = "dnssec_raw" => completed = Phase1Steps
  /\ pc = "batch" => Steps(Phase1Steps)
  /\ pc = "collect" => completed + Cardinality(Uncollected) = BatchSteps
  /\ pc \in {"draw", "map"} => Steps(BatchSteps)
  /\ pc = "map" => MapInScope
  /\ pc \in AfterMap => Steps(MapSteps)
  /\ pc \in {"probe", "subdomains", "final", "done"} => Steps(TotalChecks)
  /\ completed <= TotalChecks

\* The tasks whose futures will still be looked at: no other is pending.
Ahead ==
  IF pc = "tree_walk" THEN Submitted
  ELSE IF pc = "dmarc" THEN Submitted \ {"tree_walk"}
  ELSE IF pc = "report_auth" THEN (Submitted \ {"tree_walk"}) \cup {"report_auth"}
  ELSE IF pc = "mx" THEN Submitted \cap {"mx", "spf", "dnssec_raw"}
  ELSE IF pc = "spf" THEN Submitted \cap {"spf", "dnssec_raw"}
  ELSE IF pc = "collect" THEN Uncollected
  ELSE IF pc \in {"dnssec_raw", "map", "aprf", "include", "subdomains"} THEN {pc}
  ELSE {}
Clean == pc # "interrupted" => \A t \in Tasks : task[t] = "pending" => t \in Ahead

-----------------------------------------------------------------------------
(* Types.                                                                    *)

PCs == Waits \cup Segments \cup {"done", "interrupted"}
TaskStates == {"idle", "pending", "ok", "failed", "gone"}

LEMMA Names ==
  /\ Batch \subseteq Checks /\ Checks \subseteq Tasks /\ Phase1 \subseteq Tasks
  /\ {"dmarc", "mx", "spf"} \subseteq Checks \ Batch
  /\ {"dnssec", "dane", "dkim"} \subseteq Batch
  /\ Waits \subseteq Tasks /\ Submitted \subseteq Phase1
  /\ {"tree_walk", "dmarc", "mx", "spf", "dnssec_raw", "report_auth", "map", "aprf", "include",
      "subdomains"} \subseteq Waits
BY DEF Batch, Checks, Tasks, Phase1, Waits, Submitted

LEMMA Followers ==
  /\ AfterSpf \in {"dnssec_raw", "batch"}
  /\ AfterMx \in {"spf", "dnssec_raw", "batch"}
  /\ AfterDmarc \in {"mx", "spf", "dnssec_raw", "batch"}
  /\ First \in {"tree_walk", "mx", "spf", "dnssec_raw", "batch"}
BY DEF AfterSpf, AfterMx, AfterDmarc, First

LEMMA SubmitTyped ==
  ASSUME TypeOK, NEW S, Submit(S)
  PROVE  task' \in [Tasks -> TaskStates]
BY DEF TypeOK, Submit, TaskStates

LEMMA GiveUpTyped ==
  ASSUME TypeOK, NEW S, GiveUp(S)
  PROVE  task' \in [Tasks -> TaskStates]
BY DEF TypeOK, GiveUp, TaskStates

LEMMA Amounts ==
  /\ {CheckTimeout, BatchTimeout, ReportTimeout, OrgTimeout, CnameTimeout, HostTimeout,
      MapBudget, MapGrace, MaxIncludes} \subseteq Nat
  /\ CheckTimeout <= BatchTimeout /\ MapGrace <= BatchTimeout
  /\ TypeOK => now \in Nat /\ limit \in Nat /\ deadline \in Nat /\ completed \in Nat
BY EngineAssumption DEF TypeOK

LEMMA Phase1Length ==
  /\ MostOfPhase1 \in Nat /\ LongestPhase1 \in Nat
  /\ Closing \in Nat /\ OneCname \in 0..CnameTimeout
  /\ CheckTimeout + ReportTimeout <= MostOfPhase1
  /\ CheckTimeout + OrgTimeout <= MostOfPhase1
  /\ LongestPhase1 = MostOfPhase1 + CnameTimeout
BY Amounts DEF MostOfPhase1, LongestPhase1, Max2, Closing, OneCname

LEMMA NextAmounts ==
  ASSUME TypeOK'
  PROVE  /\ now' \in Nat /\ limit' \in Nat /\ deadline' \in Nat
         /\ Closing' \in Nat /\ OneCname' \in 0..CnameTimeout
<1>1. now' \in Nat /\ limit' \in Nat /\ deadline' \in Nat
  BY EngineAssumption DEF TypeOK
<1>2. Closing' = HostTimeout \/ Closing' = 0
  BY DEF Closing
<1>3. OneCname' = CnameTimeout \/ OneCname' = 0
  BY DEF OneCname
<1> QED
  BY <1>1, <1>2, <1>3, Amounts

LEMMA SameAmounts ==
  /\ LongestPhase1' = LongestPhase1 /\ MostOfPhase1' = MostOfPhase1
  /\ cname' = cname => OneCname' = OneCname
BY DEF LongestPhase1, MostOfPhase1, OneCname

LEMMA PauseGoes ==
  ASSUME TypeOK, NEW budget \in Nat, Pause(budget)
  PROVE  now' \in Nat /\ now <= now' /\ now' <= now + budget
<1>1. PICK wait \in 0..budget : now' = now + wait
  BY DEF Pause
<1> QED
  BY <1>1, Amounts

\* What is left of the time, or less.
LEMMA Budgets ==
  ASSUME TypeOK, ~TimeUp, NEW a \in Nat
  PROVE  Min2(a, deadline - now) \in Nat /\ Min2(a, deadline - now) <= deadline - now
BY Amounts DEF TimeUp, Min2

LEMMA WaitForTyped ==
  ASSUME TypeOK, NEW t \in Waits, NEW budget \in Nat, WaitFor(t, budget)
  PROVE  task' \in [Tasks -> TaskStates] /\ limit' \in Nat /\ pc' \in PCs
<1>1. limit' \in Nat
  BY Amounts DEF WaitFor
<1> QED
  BY <1>1, SubmitTyped DEF WaitFor, PCs

LEMMA NotifyTyped ==
  ASSUME TypeOK, NEW n \in Nat, NEW next \in PCs, Notify(n, next)
  PROVE  completed' \in Nat /\ pc' \in PCs
BY DEF TypeOK, Notify, PCs

LEMMA OutcomesTyped ==
  ASSUME NEW c
  PROVE  /\ Outcomes(c) \subseteq {"verdict", "error", "timeout"}
         /\ "verdict" \in Outcomes(c) => task[c] = "ok"
BY DEF Outcomes

LEMMA CardTyped ==
  ASSUME TypeOK, NEW c \in Checks, NEW k \in Kinds, AddCard(c, k)
  PROVE  cards' \in [Checks -> Seq(Kinds)]
BY DEF TypeOK, AddCard

LEMMA NoteTyped ==
  ASSUME TypeOK, NEW c \in Checks, NEW k, Note(c, k)
  PROVE  errors' \subseteq Checks \cup {"tree_walk"}
BY DEF TypeOK, Note

LEMMA RecordTyped ==
  ASSUME TypeOK, NEW c \in Checks, Record(c)
  PROVE  raw' \in [Checks -> {"absent", "answer", "blank"}]
BY DEF TypeOK, Record

LEMMA BatchFinite == IsFiniteSet(Batch)
<1> DEFINE P == {"mta_sts", "tls_rpt", "bimi"}
           Q == {"dnssec", "caa", "nameservers"}
           R == {"dane", "dkim", "ct"}
<1>1. \A x, y, z : IsFiniteSet({x, y, z})
  <2> TAKE x, y, z
  <2>1. IsFiniteSet({} \cup {x}) /\ IsFiniteSet(({} \cup {x}) \cup {y})
    BY FS_EmptySet, FS_AddElement
  <2>2. IsFiniteSet((({} \cup {x}) \cup {y}) \cup {z})
    BY <2>1, FS_AddElement
  <2> QED
    BY <2>2
<1>2. IsFiniteSet(P) /\ IsFiniteSet(Q) /\ IsFiniteSet(R)
  BY <1>1
<1>3. IsFiniteSet((P \cup Q) \cup R)
  BY <1>2, FS_Union
<1>4. Batch = (P \cup Q) \cup R
  BY DEF Batch
<1> QED
  BY <1>3, <1>4

LEMMA TypeHolds ==
  ASSUME TypeOK, [Next]_vars
  PROVE  TypeOK'
<1> USE Names, Followers, EngineAssumption
<1>0. Waits \cup Segments \subseteq PCs /\ {"done", "interrupted"} \subseteq PCs
  BY DEF PCs
<1>1. CASE SubmitPhase1
  BY <1>1, SubmitTyped DEF SubmitPhase1, TypeOK, inputs, results, Segments, TaskStates
<1>2. CASE TreeWalk
  <2>1. completed' \in Nat /\ pc' \in PCs
    BY <1>2, <1>0, NotifyTyped DEF TreeWalk
  <2> QED
    BY <1>2, <2>1, GiveUpTyped DEF TreeWalk, Awaited, TypeOK, inputs, PCs, TaskStates
<1>3. CASE Dmarc
  <2>1. completed' \in Nat /\ pc' \in PCs
    BY <1>3, <1>0, NotifyTyped DEF Dmarc, Segments
  <2>2. cards' \in [Checks -> Seq(Kinds)] /\ errors' \subseteq Checks \cup {"tree_walk"}
    BY <1>3, CardTyped, NoteTyped, OutcomesTyped DEF Dmarc, Kinds
  <2>3. now' \in Nat
    BY <1>3, PauseGoes, Amounts DEF Dmarc, AskOrgDomain
  <2> QED
    BY <1>3, <2>1, <2>2, <2>3, GiveUpTyped, RecordTyped DEF Dmarc, Awaited, TypeOK, inputs, PCs, TaskStates
<1>4. CASE DmarcReports
  BY <1>4, WaitForTyped, RecordTyped, Amounts DEF DmarcReports, TypeOK, inputs, PCs, TaskStates
<1>5. CASE ReportAuth
  <2>1. completed' \in Nat /\ pc' \in PCs
    BY <1>5, <1>0, NotifyTyped DEF ReportAuth, Segments
  <2>2. cards' \in [Checks -> Seq(Kinds)] /\ errors' \subseteq Checks \cup {"tree_walk"}
    BY <1>5, CardTyped, NoteTyped, OutcomesTyped DEF ReportAuth, Kinds
  <2> QED
    BY <1>5, <2>1, <2>2, GiveUpTyped DEF ReportAuth, TypeOK, inputs, PCs, TaskStates
<1>6. ASSUME NEW c \in Checks, NEW next \in PCs, MailCheck(c, next)
      PROVE  TypeOK'
  <2>1. completed' \in Nat /\ pc' \in PCs
    BY <1>6, NotifyTyped DEF MailCheck
  <2>2. cards' \in [Checks -> Seq(Kinds)] /\ errors' \subseteq Checks \cup {"tree_walk"}
    BY <1>6, CardTyped, NoteTyped, OutcomesTyped DEF MailCheck, Kinds
  <2>3. now' \in Nat /\ cname' \in BOOLEAN
    <3>1. CASE UNCHANGED <<cname, now>>
      BY <3>1 DEF TypeOK
    <3>2. CASE AskCname
      BY <3>2, PauseGoes, Amounts DEF AskCname
    <3> QED
      BY <1>6, <3>1, <3>2 DEF MailCheck
  <2> QED
    BY <1>6, <2>1, <2>2, <2>3, GiveUpTyped, RecordTyped DEF MailCheck, Awaited, TypeOK, inputs, PCs, TaskStates
<1>7. CASE Mx \/ Spf
  BY <1>7, <1>6, <1>0 DEF Mx, Spf, Segments
<1>8. CASE DnssecRaw
  BY <1>8, GiveUpTyped DEF DnssecRaw, Awaited, TypeOK, inputs, Segments, TaskStates
<1>9. CASE SubmitBatch
  <2>1. now + BatchTimeout \in Nat
    BY Amounts
  <2> QED
    BY <1>9, <2>1, SubmitTyped DEF SubmitBatch, TypeOK, inputs, results, Segments, TaskStates
<1>10. ASSUME NEW c \in Batch, Collect(c)
       PROVE  TypeOK'
  <2>1. completed' \in Nat /\ pc' \in PCs
    BY <1>10, <1>0, NotifyTyped DEF Collect, Segments
  <2>2. batch' \in [Batch -> {"none", "verdict", "timeout", "error"}]
    BY <1>10, OutcomesTyped DEF Collect, TypeOK
  <2>3. errors' \subseteq Checks \cup {"tree_walk"}
    BY <1>10, NoteTyped DEF Collect
  <2>4. raw' \in [Checks -> {"absent", "answer", "blank"}]
    BY <1>10, RecordTyped DEF Collect, TypeOK
  <2> QED
    BY <1>10, <2>1, <2>2, <2>3, <2>4, GiveUpTyped DEF Collect, TypeOK, inputs, PCs, TaskStates
<1>11. CASE Collected
  BY <1>11 DEF Collected, TypeOK, inputs, results, Segments
<1>12. CASE BatchExpires
  <2>1. IsFiniteSet(Uncollected) /\ Cardinality(Uncollected) \in Nat /\ Uncollected \subseteq Batch
    BY BatchFinite, FS_Subset, FS_CardinalityType DEF Uncollected, InBatch
  <2>2. completed' \in Nat /\ pc' \in PCs
    BY <1>12, <2>1, <1>0, NotifyTyped DEF BatchExpires, Segments
  <2>3. PICK S \in SUBSET Uncollected :
          /\ GiveUp(S)
          /\ batch' = [c \in Batch |-> IF c \in S THEN "timeout" ELSE batch[c]]
          /\ errors' = errors \cup S
          /\ raw' = IF "dkim" \in S THEN [raw EXCEPT !["dkim"] = "blank"] ELSE raw
    BY <1>12 DEF BatchExpires
  <2> QED
    BY <1>12, <2>1, <2>2, <2>3, GiveUpTyped DEF BatchExpires, TypeOK, inputs, PCs, TaskStates
<1>13. CASE DrawMap
  <2>1. Min2(MapBudget, deadline - now) + MapGrace \in Nat
    BY <1>13, Amounts, Budgets DEF DrawMap
  <2> QED
    BY <1>13, <2>1, WaitForTyped DEF DrawMap, TypeOK, inputs, results, PCs, TaskStates
<1>14. CASE SkipMap
  <2>1. completed' \in Nat /\ pc' \in PCs
    BY <1>14, <1>0, NotifyTyped DEF SkipMap, Segments, Count
  <2> QED
    BY <1>14, <2>1 DEF SkipMap, TypeOK, inputs, results, PCs
<1>15. CASE MapDone
  <2>1. completed' \in Nat /\ pc' \in PCs
    BY <1>15, <1>0, NotifyTyped DEF MapDone, Segments
  <2> QED
    BY <1>15, <2>1, GiveUpTyped DEF MapDone, Awaited, TypeOK, inputs, PCs, TaskStates
<1>16. CASE Assemble
  <2>1. cards' \in [Checks -> Seq(Kinds)]
    BY <1>16 DEF Assemble, TypeOK, Kinds
  <2> QED
    BY <1>16, <2>1, WaitForTyped, Budgets, Amounts
    DEF Assemble, TypeOK, inputs, Segments, PCs, TaskStates
<1>17. CASE Aprf
  BY <1>17, GiveUpTyped DEF Aprf, Awaited, TypeOK, inputs, results, Segments, TaskStates
<1>18. CASE Waive
  <2>1. cards' \in [Checks -> Seq(Kinds)]
    <3>1. <<"waived">> \in Seq(Kinds) /\ <<"verdict">> \in Seq(Kinds)
      BY DEF Kinds
    <3>2. cards \in [Checks -> Seq(Kinds)]
      BY DEF TypeOK
    <3> QED
      BY <1>18, <3>1, <3>2 DEF Waive
  <2> QED
    BY <1>18, <2>1 DEF Waive, TypeOK, inputs, Segments
<1>19. CASE NotDefensive
  BY <1>19 DEF NotDefensive, TypeOK, inputs, results, Segments
<1>20. CASE Hints
  <2>1. CASE pc' = "scoring" /\ UNCHANGED <<task, limit, includes>>
    BY <1>20, <2>1 DEF Hints, TypeOK, inputs, results, Segments
  <2>2. ASSUME NEW n \in 0..MaxIncludes, ~TimeUp, includes' = n,
               WaitFor("include", Min2(CheckTimeout, deadline - now))
        PROVE  TypeOK'
    <3>1. task' \in [Tasks -> TaskStates] /\ limit' \in Nat /\ pc' \in PCs
      BY <2>2, WaitForTyped, Budgets, Amounts
    <3> QED
      BY <1>20, <2>2, <3>1 DEF Hints, TypeOK, inputs, results, PCs, TaskStates
  <2> QED
    BY <1>20, <2>1, <2>2 DEF Hints
<1>21. CASE Include
  <2>1. CASE ~TimeUp /\ includes > 1 /\ includes' = includes - 1
                    /\ WaitFor("include", Min2(CheckTimeout, deadline - now))
    <3>1. includes' \in 0..MaxIncludes
      <4>1. MaxIncludes \in Nat /\ includes \in 0..MaxIncludes
        BY Amounts DEF TypeOK
      <4> QED
        BY <2>1, <4>1
    <3>2. task' \in [Tasks -> TaskStates] /\ limit' \in Nat /\ pc' \in PCs
      <4>1. Min2(CheckTimeout, deadline - now) \in Nat /\ "include" \in Waits
        BY <2>1, Budgets, Amounts
      <4> QED
        BY <2>1, <4>1, WaitForTyped
    <3> QED
      BY <1>21, <3>1, <3>2 DEF Include, TypeOK, inputs, results, PCs, TaskStates
  <2>2. CASE includes' = 0 /\ GiveUp({"include"}) /\ pc' = "scoring" /\ UNCHANGED limit
    <3>1. includes' \in 0..MaxIncludes
      BY <2>2, Amounts
    <3> QED
      BY <1>21, <2>2, <3>1, GiveUpTyped DEF Include, TypeOK, inputs, results, Segments, TaskStates
  <2> QED
    BY <1>21, <2>1, <2>2 DEF Include
<1>22. CASE Scoring
  <2>1. completed' \in Nat /\ pc' \in PCs
    BY <1>22, <1>0, NotifyTyped DEF Scoring, Segments
  <2> QED
    BY <1>22, <2>1 DEF Scoring, TypeOK, inputs, results, PCs
<1>23. CASE ProbeSubdomains
  <2>1. task' \in [Tasks -> TaskStates] /\ limit' \in Nat /\ pc' \in PCs
    BY <1>23, WaitForTyped, Amounts DEF ProbeSubdomains
  <2> QED
    BY <1>23, <2>1 DEF ProbeSubdomains, TypeOK, inputs, results, PCs, TaskStates
<1>24. CASE SkipProbe
  BY <1>24 DEF SkipProbe, TypeOK, inputs, results, Segments
<1>25. CASE Subdomains
  BY <1>25, GiveUpTyped DEF Subdomains, Awaited, TypeOK, inputs, results, Segments, TaskStates
<1>26. CASE Final
  <2>1. cards' \in [Checks -> Seq(Kinds)]
    <3>1. <<"stub">> \in Seq(Kinds)
      BY DEF Kinds
    <3> QED
      BY <1>26, <3>1 DEF Final, TypeOK
  <2>2. now' \in Nat
    BY <1>26, PauseGoes, Amounts DEF Final, AskHost
  <2> QED
    BY <1>26, <2>1, <2>2 DEF Final, TypeOK, inputs
<1>27. CASE \E t \in Tasks : End(t)
  BY <1>27 DEF End, TypeOK, inputs, results
<1>28. CASE Stop \/ Tick
  <2>1. now + 1 \in Nat
    BY Amounts
  <2> QED
    BY <1>28, <2>1 DEF Stop, Tick, TypeOK, inputs, results
<1>29. CASE UNCHANGED vars
  BY <1>29 DEF vars, TypeOK, inputs, results
<1> QED
  BY <1>1, <1>2, <1>3, <1>4, <1>5, <1>7, <1>8, <1>9, <1>10, <1>11, <1>12, <1>13, <1>14, <1>15, <1>16,
     <1>17, <1>18, <1>19, <1>20, <1>21, <1>22, <1>23, <1>24, <1>25, <1>26, <1>27, <1>28, <1>29
  DEF Next, AuditThread

-----------------------------------------------------------------------------
(* Time.                                                                     *)

LateWaits == {"collect", "map", "aprf", "include", "subdomains"}

LEMMA NotifyGoes ==
  ASSUME NEW n, NEW next, Notify(n, next)
  PROVE  pc' \in {next, "interrupted"}
BY DEF Notify

\* Before its end, an audit is within the bound without the closing lookup.
LEMMA BeforeTheEnd ==
  ASSUME TypeOK, BoundedOverrun, pc # "done"
  PROVE  now <= LongestPhase1 \/ now <= deadline + BatchTimeout
BY Amounts, Phase1Length DEF BoundedOverrun, Closing

LEMMA WithinBound ==
  ASSUME TypeOK', now' <= LongestPhase1 \/ now' <= (deadline + BatchTimeout)'
  PROVE  BoundedOverrun'
<1> QED
  BY SameAmounts, NextAmounts, Amounts, Phase1Length DEF BoundedOverrun

\* A step past Phase 1 that starts no wait.
LEMMA TimeOnward ==
  ASSUME TypeOK, TypeOK', TimeInv, UNCHANGED <<deadline, now>>, pc # "done",
         pc' \notin InPhase1 \cup LateWaits
  PROVE  TimeInv'
<1>1. BoundedOverrun'
  BY BeforeTheEnd, WithinBound DEF TimeInv
<1> QED
  BY <1>1 DEF TimeInv, InPhase1, Early, LateWaits

\* A step on to the next check of Phase 1, or out of it.
LEMMA TimeInPhase1 ==
  ASSUME TypeOK, TypeOK', UNCHANGED deadline, pc' \in {"mx", "spf", "dnssec_raw", "batch", "interrupted"},
         limit' <= CheckTimeout,
         now' <= MostOfPhase1 + OneCname'
  PROVE  TimeInv'
<1>1. now' <= LongestPhase1
  BY NextAmounts, Amounts, Phase1Length
<1>2. BoundedOverrun'
  BY <1>1, WithinBound
<1> QED
  BY <1>2, SameAmounts DEF TimeInv, InPhase1, Early

\* A step that starts a wait, or goes on with one, past Phase 1.
LEMMA TimeInWait ==
  ASSUME TypeOK, TypeOK', TimeInv, UNCHANGED <<deadline, now>>, pc # "done", pc' \in LateWaits,
         limit' <= deadline + BatchTimeout
  PROVE  TimeInv'
<1>1. BoundedOverrun'
  BY BeforeTheEnd, WithinBound DEF TimeInv
<1> QED
  BY <1>1 DEF TimeInv, InPhase1, Early, LateWaits

\* A step of Phase 1 that takes no time, to a wait for t.
LEMMA TimeEarly ==
  ASSUME TypeOK, TypeOK', TimeInv, pc \in InPhase1, UNCHANGED <<deadline, now, cname>>,
         pc' \in Early \ {"start"}, ~cname,
         pc' # "report_auth" => limit' <= CheckTimeout /\ now <= CheckTimeout,
         pc' = "report_auth" => limit' <= CheckTimeout + ReportTimeout
  PROVE  TimeInv'
<1>1. BoundedOverrun'
  BY BeforeTheEnd, WithinBound DEF TimeInv, InPhase1, Early
<1>2. now' <= MostOfPhase1' + OneCname'
  BY SameAmounts DEF TimeInv
<1> QED
  BY <1>1, <1>2, SameAmounts DEF TimeInv, InPhase1, Early

LEMMA TimeHolds ==
  ASSUME TypeOK, TypeOK', TimeInv, [Next]_vars
  PROVE  TimeInv'
<1> USE Followers, Amounts
<1>1. CASE SubmitPhase1
  <2>0. pc = "start" /\ now = 0 /\ ~cname /\ UNCHANGED <<deadline, now, cname>>
    BY <1>1 DEF SubmitPhase1, TimeInv, inputs
  <2>1. CASE pc' = "batch" /\ limit' = limit
    BY <2>0, <2>1, TimeOnward DEF InPhase1, Early, LateWaits
  <2>2. CASE limit' = CheckTimeout /\ pc' = First
    <3>1. CASE First = "tree_walk"
      BY <2>0, <2>2, <3>1, TimeEarly DEF InPhase1, Early
    <3>2. CASE First # "tree_walk"
      BY <2>0, <2>2, <3>2, TimeInPhase1, Phase1Length, SameAmounts
    <3> QED
      BY <3>1, <3>2
  <2> QED
    BY <1>1, <2>1, <2>2 DEF SubmitPhase1
<1>2. CASE TreeWalk
  <2>1. pc = "tree_walk" /\ pc' \in {"dmarc", "interrupted"} /\ UNCHANGED <<deadline, now, limit, cname>>
    BY <1>2, NotifyGoes DEF TreeWalk, Awaited, inputs
  <2>2. CASE pc' = "dmarc"
    BY <2>1, <2>2, TimeEarly DEF TimeInv, InPhase1, Early
  <2>3. CASE pc' = "interrupted"
    BY <2>1, <2>3, TimeOnward DEF InPhase1, Early, LateWaits
  <2> QED
    BY <2>1, <2>2, <2>3
<1>3. CASE Dmarc
  <2>1. pc = "dmarc" /\ pc' \in {AfterDmarc, "interrupted"} /\ UNCHANGED <<deadline, limit, cname>>
    BY <1>3, NotifyGoes DEF Dmarc, Awaited, inputs
  <2>2. now' <= now + OrgTimeout
    BY <1>3, PauseGoes DEF Dmarc, AskOrgDomain
  <2>3. now <= CheckTimeout /\ ~cname /\ limit <= CheckTimeout
    BY <2>1 DEF TimeInv
  <2>4. now' <= MostOfPhase1 + OneCname'
    BY <2>2, <2>3, NextAmounts, Phase1Length
  <2> QED
    BY <2>1, <2>3, <2>4, TimeInPhase1
<1>4. CASE DmarcReports
  <2>1. /\ pc = "dmarc" /\ pc' = "report_auth" /\ limit' = now + ReportTimeout
        /\ UNCHANGED <<deadline, now, cname>>
    BY <1>4 DEF DmarcReports, WaitFor, inputs
  <2> QED
    BY <2>1, TimeEarly DEF TimeInv, InPhase1, Early
<1>5. CASE ReportAuth
  <2>1. /\ pc = "report_auth" /\ pc' \in {AfterDmarc, "interrupted"} /\ limit' = CheckTimeout
        /\ UNCHANGED <<deadline, now, cname>>
    BY <1>5, NotifyGoes DEF ReportAuth, inputs
  <2> QED
    BY <2>1, TimeInPhase1, SameAmounts DEF TimeInv, InPhase1, Early
<1>6. ASSUME NEW c \in {"mx", "spf"}, NEW next \in {"spf", "dnssec_raw", "batch"}, MailCheck(c, next)
      PROVE  TimeInv'
  <2>1. pc = c /\ pc' \in {next, "interrupted"} /\ UNCHANGED <<deadline, limit>>
    BY <1>6, NotifyGoes DEF MailCheck, Awaited, inputs
  <2>2. now' <= MostOfPhase1 + OneCname'
    <3>1. now <= MostOfPhase1 + OneCname
      BY <2>1 DEF TimeInv, InPhase1
    <3>2. CASE UNCHANGED <<cname, now>>
      BY <3>1, <3>2 DEF OneCname
    <3>3. CASE AskCname
      <4>1. cname' = TRUE /\ (cname => now' = now) /\ now' <= now + CnameTimeout
        BY <3>3, PauseGoes DEF AskCname
      <4>2. OneCname' = CnameTimeout /\ OneCname \in 0..CnameTimeout /\ (~cname => OneCname = 0)
        BY <4>1, Phase1Length DEF OneCname
      <4>3. (cname => OneCname = CnameTimeout)
        BY DEF OneCname
      <4>4. CASE cname
        BY <3>1, <4>1, <4>2, <4>3, <4>4
      <4>5. CASE ~cname
        BY <3>1, <4>1, <4>2, <4>5, NextAmounts, Phase1Length
      <4> QED
        BY <4>4, <4>5
    <3> QED
      BY <1>6, <3>2, <3>3 DEF MailCheck
  <2> QED
    BY <2>1, <2>2, TimeInPhase1 DEF TimeInv
<1>7. CASE Mx \/ Spf
  BY <1>7, <1>6 DEF Mx, Spf
<1>8. CASE DnssecRaw
  BY <1>8, TimeInPhase1, SameAmounts DEF DnssecRaw, Awaited, TimeInv, InPhase1, inputs
<1>9. CASE SubmitBatch
  <2>1. CASE pc' = "draw"
    BY <1>9, <2>1, TimeOnward DEF SubmitBatch, InPhase1, Early, LateWaits, inputs
  <2>2. CASE ~TimeUp /\ limit' = now + BatchTimeout /\ pc' = "collect"
    BY <1>9, <2>2, TimeInWait DEF SubmitBatch, TimeUp, LateWaits, inputs
  <2> QED
    BY <1>9, <2>1, <2>2 DEF SubmitBatch
<1>10. ASSUME NEW c \in Batch, Collect(c)
       PROVE  TimeInv'
  <2>1. pc = "collect" /\ pc' \in {"collect", "interrupted"} /\ UNCHANGED <<deadline, now, limit>>
    BY <1>10, NotifyGoes DEF Collect, inputs
  <2> QED
    BY <2>1, TimeInWait, TimeOnward DEF TimeInv, InPhase1, Early, LateWaits
<1>11. CASE Collected
  BY <1>11, TimeOnward DEF Collected, InPhase1, Early, LateWaits, inputs
<1>12. CASE BatchExpires
  <2>1. pc = "collect" /\ pc' \in {"draw", "interrupted"} /\ UNCHANGED <<deadline, now>>
    BY <1>12, NotifyGoes DEF BatchExpires, inputs
  <2> QED
    BY <2>1, TimeOnward DEF InPhase1, Early, LateWaits
<1>13. CASE DrawMap
  <2>1. Min2(MapBudget, deadline - now) + MapGrace <= deadline - now + BatchTimeout
    BY <1>13, Budgets DEF DrawMap
  <2>2. limit' <= deadline + BatchTimeout
    BY <1>13, <2>1, Budgets DEF DrawMap, WaitFor
  <2> QED
    BY <1>13, <2>2, TimeInWait DEF DrawMap, WaitFor, LateWaits, inputs
<1>14. CASE SkipMap \/ MapDone
  <2>1. pc \in {"draw", "map"} /\ pc' \in {"assemble", "interrupted"} /\ UNCHANGED <<deadline, now>>
    BY <1>14, NotifyGoes DEF SkipMap, MapDone, Awaited, inputs
  <2> QED
    BY <2>1, TimeOnward DEF InPhase1, Early, LateWaits
\* A wait that ends within the deadline.
<1>15. ASSUME NEW t \in {"aprf", "include"}, pc # "done", ~TimeUp, WaitFor(t, Min2(CheckTimeout, deadline - now)),
              UNCHANGED <<deadline, now>>
       PROVE  TimeInv'
  <2>1. limit' <= deadline
    BY <1>15, Budgets DEF WaitFor
  <2>2. limit' <= deadline + BatchTimeout
    BY <2>1, NextAmounts
  <2> QED
    BY <1>15, <2>2, TimeInWait DEF WaitFor, LateWaits
<1>16. CASE Assemble
  BY <1>16, <1>15, TimeOnward DEF Assemble, InPhase1, Early, LateWaits, inputs
<1>17. CASE Hints
  BY <1>17, <1>15, TimeOnward DEF Hints, InPhase1, Early, LateWaits, inputs
<1>18. CASE Include
  BY <1>18, <1>15, TimeOnward DEF Include, InPhase1, Early, LateWaits, inputs
<1>19. CASE Aprf \/ Waive \/ NotDefensive \/ SkipProbe \/ Subdomains
  <2>1. pc # "done" /\ pc' \in {"waive", "hints", "final"} /\ UNCHANGED <<deadline, now>>
    BY <1>19 DEF Aprf, Waive, NotDefensive, SkipProbe, Subdomains, Awaited, inputs
  <2> QED
    BY <2>1, TimeOnward DEF InPhase1, Early, LateWaits
\* The closing lookup.
<1>24. CASE Final
  <2>1. pc = "final" /\ pc' = "done" /\ UNCHANGED deadline /\ now' <= now + HostTimeout
    BY <1>24, PauseGoes DEF Final, AskHost, inputs
  <2>2. now <= LongestPhase1 \/ now <= deadline + BatchTimeout
    BY <2>1, BeforeTheEnd DEF TimeInv
  <2>3. now' <= LongestPhase1 + HostTimeout \/ now' <= deadline + BatchTimeout + HostTimeout
    BY <2>1, <2>2, NextAmounts, Phase1Length
  <2>4. BoundedOverrun'
    <3>1. Closing' = HostTimeout /\ LongestPhase1' = LongestPhase1
      BY <2>1 DEF Closing, LongestPhase1
    <3> QED
      BY <2>1, <2>3, <3>1 DEF BoundedOverrun
  <2> QED
    BY <2>1, <2>4 DEF TimeInv, InPhase1, Early
<1>20. CASE Scoring
  <2>1. pc = "scoring" /\ pc' \in {"probe", "interrupted"} /\ UNCHANGED <<deadline, now>>
    BY <1>20, NotifyGoes DEF Scoring, inputs
  <2> QED
    BY <2>1, TimeOnward DEF InPhase1, Early, LateWaits
<1>21. CASE ProbeSubdomains
  <2>1. limit' <= deadline + BatchTimeout
    BY <1>21 DEF ProbeSubdomains, WaitFor, TimeUp
  <2> QED
    BY <1>21, <2>1, TimeInWait DEF ProbeSubdomains, WaitFor, LateWaits, inputs
<1>22. CASE (\E t \in Tasks : End(t)) \/ Stop \/ UNCHANGED vars
  <2>1. UNCHANGED <<deadline, now, limit, pc, cname>>
    BY <1>22 DEF End, Stop, vars, inputs
  <2> QED
    BY <2>1, SameAmounts DEF TimeInv, BoundedOverrun, Closing
<1>23. CASE Tick
  <2>1. /\ now' = now + 1 /\ now < limit /\ UNCHANGED <<deadline, limit, pc, cname>>
        /\ pc \in {"tree_walk", "dmarc", "mx", "spf", "dnssec_raw", "report_auth"} \cup LateWaits
    BY <1>23 DEF Tick, inputs, Waits, Phase1, LateWaits
  <2>2. CASE pc \in LateWaits
    <3>1. now' <= deadline + BatchTimeout /\ limit <= deadline + BatchTimeout
      BY <2>1, <2>2 DEF TimeInv, LateWaits
    <3>2. BoundedOverrun'
      BY <2>1, <3>1, WithinBound
    <3> QED
      BY <2>1, <2>2, <3>1, <3>2 DEF TimeInv, LateWaits, InPhase1, Early
  <2>3. CASE pc \in {"tree_walk", "dmarc", "mx", "spf", "dnssec_raw", "report_auth"}
    <3>1. now' <= MostOfPhase1 /\ now' <= limit
      BY <2>1, <2>3, Phase1Length DEF TimeInv
    <3>2. BoundedOverrun'
      BY <3>1, Phase1Length, NextAmounts, Amounts, WithinBound
    <3>3. now' <= MostOfPhase1' + OneCname'
      BY <3>1, SameAmounts, NextAmounts, Phase1Length
    <3> QED
      BY <2>1, <2>3, <3>1, <3>2, <3>3 DEF TimeInv, LateWaits, InPhase1, Early
  <2> QED
    BY <2>1, <2>2, <2>3 DEF LateWaits
<1> QED
  BY <1>1, <1>2, <1>3, <1>4, <1>5, <1>7, <1>8, <1>9, <1>10, <1>11, <1>12, <1>13, <1>14, <1>16,
     <1>17, <1>18, <1>19, <1>20, <1>21, <1>22, <1>23, <1>24
  DEF Next, AuditThread

-----------------------------------------------------------------------------
(* Cards.                                                                    *)

LEMMA ScopeFollowed ==
  /\ First # "tree_walk" => "dmarc" \notin scope
  /\ First \notin {"tree_walk", "mx"} => "mx" \notin scope
  /\ First \notin {"tree_walk", "mx", "spf"} => "spf" \notin scope
  /\ AfterDmarc # "mx" => "mx" \notin scope
  /\ AfterDmarc \notin {"mx", "spf"} => "spf" \notin scope
  /\ AfterMx # "spf" => "spf" \notin scope
<1>1. /\ "dmarc" \in scope => "tree_walk" \in Submitted
      /\ "mx" \in scope => "mx" \in Submitted
      /\ "spf" \in scope => "spf" \in Submitted
  BY DEF Submitted, Phase1, NeedsDmarc, NeedsMx, NeedsSpf
<1> QED
  BY <1>1 DEF First, AfterDmarc, AfterMx

LEMMA ClockRuns ==
  ASSUME TypeOK, [Next]_vars
  PROVE  UNCHANGED inputs /\ now' >= now /\ now' \in Nat
<1> USE Amounts
<1>1. ASSUME NEW c, NEW next, MailCheck(c, next)
      PROVE  UNCHANGED inputs /\ now' >= now /\ now' \in Nat
  <2>1. CASE UNCHANGED <<cname, now>>
    BY <1>1, <2>1 DEF MailCheck
  <2>2. CASE AskCname
    BY <1>1, <2>2, PauseGoes DEF MailCheck, AskCname
  <2> QED
    BY <1>1, <2>1, <2>2 DEF MailCheck
<1>2. CASE Mx \/ Spf
  BY <1>1, <1>2 DEF Mx, Spf
<1>3. CASE Tick
  BY <1>3 DEF Tick
<1>8. CASE Dmarc \/ Final
  BY <1>8, PauseGoes DEF Dmarc, AskOrgDomain, Final, AskHost
<1>4. CASE SubmitPhase1 \/ TreeWalk \/ DmarcReports \/ ReportAuth \/ DnssecRaw
  <2>1. UNCHANGED inputs /\ UNCHANGED now
    BY <1>4 DEF SubmitPhase1, TreeWalk, DmarcReports, ReportAuth, DnssecRaw
  <2> QED
    BY <2>1
<1>5. CASE SubmitBatch \/ (\E c \in Batch : Collect(c)) \/ Collected \/ BatchExpires \/ DrawMap \/ SkipMap
  <2>1. UNCHANGED inputs /\ UNCHANGED now
    BY <1>5 DEF SubmitBatch, Collect, Collected, BatchExpires, DrawMap, SkipMap
  <2> QED
    BY <2>1
<1>6. CASE MapDone \/ Assemble \/ Aprf \/ Waive \/ NotDefensive \/ Hints \/ Include \/ Scoring
           \/ ProbeSubdomains \/ SkipProbe \/ Subdomains
  <2>1. UNCHANGED inputs /\ UNCHANGED now
    BY <1>6 DEF MapDone, Assemble, Aprf, Waive, NotDefensive, Hints, Include, Scoring,
                ProbeSubdomains, SkipProbe, Subdomains
  <2> QED
    BY <2>1
<1>7. CASE (\E t \in Tasks : End(t)) \/ Stop \/ UNCHANGED vars
  <2>1. UNCHANGED inputs /\ UNCHANGED now
    BY <1>7 DEF End, Stop, vars
  <2> QED
    BY <2>1
<1> QED
  BY <1>2, <1>3, <1>4, <1>5, <1>6, <1>7, <1>8 DEF Next, AuditThread

LEMMA TimeStaysUp ==
  ASSUME TypeOK, [Next]_vars, TimeUp
  PROVE  TimeUp'
BY ClockRuns, Amounts DEF TimeUp, inputs

\* A step that draws no card of c does not pass where it is due, unless time is up.
Passes(c) ==
  /\ pc' \in Undrawn(c) => pc \in Undrawn(c)
  /\ c \in scope /\ pc' \notin Undrawn(c) \cup {"interrupted"} =>
       pc \notin Undrawn(c) \cup {"interrupted"} \/ TimeUp

LEMMA CardStays ==
  ASSUME NEW c, CardOf(c), cards'[c] = cards[c], scope' = scope, TimeUp => TimeUp',
         pc' # "done", Passes(c)
  PROVE  CardOf(c)'
BY DEF CardOf, Passes

LEMMA CardAdded ==
  ASSUME TypeOK, NEW c \in Checks, NEW k \in Kinds, CardOf(c), pc \in Undrawn(c), AddCard(c, k)
  PROVE  /\ cards'[c] = IF c \in scope THEN <<k>> ELSE <<>>
         /\ \A d \in Checks \ {c} : cards'[d] = cards[d]
BY DEF TypeOK, AddCard, CardOf

LEMMA CardDrawn ==
  ASSUME NEW c, NEW k \in Kinds, cards'[c] = (IF c \in scope THEN <<k>> ELSE <<>>),
         scope' = scope, pc' \notin Undrawn(c)
  PROVE  CardOf(c)'
BY DEF CardOf

\* The batch is as it was, and still or no longer to be collected.
BatchPasses ==
  /\ UNCHANGED batch
  /\ pc' \in InPhase1 \cup {"batch"} => pc \in InPhase1 \cup {"batch"}
  /\ pc' \in {"draw", "map", "assemble"} => pc \in {"draw", "map", "assemble"} \/ TimeUp

LEMMA BatchStays ==
  ASSUME CardInv, BatchPasses, scope' = scope, TimeUp => TimeUp'
  PROVE  \A c \in Batch : BatchOf(c)'
BY DEF CardInv, BatchOf, BatchPasses

\* The end of the wait for a check of Phase 1.
LEMMA Phase1Card ==
  ASSUME TypeOK, CardInv, NEW c \in {"dmarc", "mx", "spf"}, NEW k \in Kinds, AddCard(c, k),
         pc \in Undrawn(c), pc' \in {"mx", "spf", "dnssec_raw", "batch", "interrupted"} \ Undrawn(c),
         \A d \in Checks \ {c} : Passes(d), UNCHANGED <<scope, batch>>, TimeUp => TimeUp'
  PROVE  CardInv'
<1>1. pc \in InPhase1 /\ pc' \notin {"draw", "map", "assemble", "done"} /\ c \in Checks
  BY Names DEF Undrawn, InPhase1, Early
<1>2. CardOf(c)'
  BY <1>1, CardAdded, CardDrawn DEF CardInv
<1>3. ASSUME NEW d \in Checks \ {c} PROVE CardOf(d)'
  BY <1>1, <1>3, CardAdded, CardStays DEF CardInv
<1> QED
  BY <1>1, <1>2, <1>3, BatchStays DEF CardInv, BatchPasses

\* Any other step short of the end that leaves the cards alone.
LEMMA CardsStay ==
  ASSUME CardInv, UNCHANGED <<scope, cards>>, pc' # "done", TimeUp => TimeUp',
         \A c \in Checks : Passes(c), \A c \in Batch : BatchOf(c)'
  PROVE  CardInv'
BY CardStays DEF CardInv

LEMMA CardHolds ==
  ASSUME TypeOK, TypeOK', CardInv, [Next]_vars
  PROVE  CardInv'
<1> USE Names, ScopeFollowed, Followers
<1>a. UNCHANGED scope /\ (TimeUp => TimeUp')
  BY TimeStaysUp, ClockRuns DEF inputs
<1>b. \A c \in Checks : Undrawn(c) =
         IF c = "dmarc" THEN {"start", "tree_walk", "dmarc", "report_auth"}
         ELSE IF c = "mx" THEN {"start", "tree_walk", "dmarc", "report_auth", "mx"}
         ELSE IF c = "spf" THEN {"start", "tree_walk", "dmarc", "report_auth", "mx", "spf"}
         ELSE {"start", "tree_walk", "dmarc", "report_auth", "mx", "spf", "dnssec_raw",
               "batch", "collect", "draw", "map", "assemble"}
  BY DEF Undrawn, InPhase1, Early
<1>1. CASE SubmitPhase1
  <2>1. /\ pc = "start" /\ UNCHANGED <<cards, batch>>
        /\ (pc' = First \/ (pc' = "batch" /\ TimeUp))
    BY <1>1 DEF SubmitPhase1, results
  <2>2. \A c \in Checks : Passes(c)
    BY <2>1, <1>b DEF Passes
  <2> QED
    BY <1>a, <2>1, <2>2, CardsStay, BatchStays DEF BatchPasses, InPhase1, Early
<1>2. CASE TreeWalk
  <2>1. pc = "tree_walk" /\ pc' \in {"dmarc", "interrupted"} /\ UNCHANGED <<cards, batch>>
    BY <1>2, NotifyGoes DEF TreeWalk, Awaited
  <2>2. \A c \in Checks : Passes(c)
    BY <2>1, <1>b DEF Passes
  <2> QED
    BY <1>a, <2>1, <2>2, CardsStay, BatchStays DEF BatchPasses, InPhase1, Early
<1>3. CASE Dmarc \/ ReportAuth
  <2>1. /\ pc \in {"dmarc", "report_auth"} /\ pc' \in {AfterDmarc, "interrupted"} /\ UNCHANGED batch
        /\ \E k \in Kinds : AddCard("dmarc", k)
    BY <1>3, NotifyGoes, OutcomesTyped DEF Dmarc, ReportAuth, Awaited, Kinds
  <2>2. \A c \in Checks \ {"dmarc"} : Passes(c)
    BY <2>1, <1>b DEF Passes
  <2> QED
    BY <1>a, <1>b, <2>1, <2>2, Phase1Card
<1>4. CASE DmarcReports
  <2>1. pc = "dmarc" /\ pc' = "report_auth" /\ UNCHANGED <<cards, batch>>
    BY <1>4 DEF DmarcReports, WaitFor
  <2>2. \A c \in Checks : Passes(c)
    BY <2>1, <1>b DEF Passes
  <2> QED
    BY <1>a, <2>1, <2>2, CardsStay, BatchStays DEF BatchPasses, InPhase1, Early
<1>5. CASE Mx
  <2>1. /\ pc = "mx" /\ pc' \in {AfterMx, "interrupted"} /\ UNCHANGED batch
        /\ \E k \in Kinds : AddCard("mx", k)
    BY <1>5, NotifyGoes, OutcomesTyped DEF Mx, MailCheck, Awaited, Kinds
  <2>2. \A c \in Checks \ {"mx"} : Passes(c)
    BY <2>1, <1>b DEF Passes
  <2> QED
    BY <1>a, <1>b, <2>1, <2>2, Phase1Card
<1>6. CASE Spf
  <2>1. /\ pc = "spf" /\ pc' \in {AfterSpf, "interrupted"} /\ UNCHANGED batch
        /\ \E k \in Kinds : AddCard("spf", k)
    BY <1>6, NotifyGoes, OutcomesTyped DEF Spf, MailCheck, Awaited, Kinds
  <2>2. \A c \in Checks \ {"spf"} : Passes(c)
    BY <2>1, <1>b DEF Passes
  <2> QED
    BY <1>a, <1>b, <2>1, <2>2, Phase1Card
<1>7. CASE DnssecRaw
  <2>1. pc = "dnssec_raw" /\ pc' = "batch" /\ UNCHANGED <<cards, batch>>
    BY <1>7 DEF DnssecRaw, Awaited
  <2>2. \A c \in Checks : Passes(c)
    BY <2>1, <1>b DEF Passes
  <2> QED
    BY <1>a, <2>1, <2>2, CardsStay, BatchStays DEF BatchPasses, InPhase1, Early
<1>8. CASE SubmitBatch
  <2>1. /\ pc = "batch" /\ UNCHANGED <<cards, batch>>
        /\ (pc' = "collect" \/ (pc' = "draw" /\ TimeUp))
    BY <1>8 DEF SubmitBatch, results
  <2>2. \A c \in Checks : Passes(c)
    BY <2>1, <1>b DEF Passes
  <2> QED
    BY <1>a, <2>1, <2>2, CardsStay, BatchStays DEF BatchPasses, InPhase1, Early
<1>9. CASE Collected
  <2>1. pc = "collect" /\ pc' = "draw" /\ UNCHANGED <<cards, batch>> /\ Uncollected = {}
    BY <1>9 DEF Collected, results
  <2>2. \A c \in Checks : Passes(c)
    BY <2>1, <1>b DEF Passes
  <2>3. \A c \in Batch : BatchOf(c)'
    BY <1>a, <2>1 DEF CardInv, BatchOf, Uncollected, InBatch, InPhase1, Early
  <2> QED
    BY <1>a, <2>1, <2>2, <2>3, CardsStay
<1>10. ASSUME NEW c \in Batch, Collect(c)
       PROVE  CardInv'
  <2>1. pc = "collect" /\ pc' \in {"collect", "interrupted"} /\ UNCHANGED cards /\ c \in scope
    BY <1>10, NotifyGoes DEF Collect, Uncollected, InBatch
  <2>2. \A d \in Batch : batch'[d] = batch[d] \/ d = c
    BY <1>10 DEF Collect, TypeOK
  <2>3. \A d \in Checks : Passes(d)
    BY <2>1, <1>b DEF Passes
  <2>4. \A d \in Batch : BatchOf(d)'
    BY <1>a, <2>1, <2>2 DEF CardInv, BatchOf, InPhase1, Early
  <2> QED
    BY <1>a, <2>1, <2>3, <2>4, CardsStay
<1>11. CASE BatchExpires
  <2>1. pc = "collect" /\ UNCHANGED cards
    BY <1>11 DEF BatchExpires
  <2>2. PICK S \in SUBSET Uncollected :
          /\ stopped \/ S = Uncollected
          /\ batch' = [c \in Batch |-> IF c \in S THEN "timeout" ELSE batch[c]]
    BY <1>11 DEF BatchExpires
  <2>3. pc' = IF stopped THEN "interrupted" ELSE "draw"
    <3>1. Cardinality(Uncollected) > 0
      <4>1. IsFiniteSet(Uncollected) /\ Uncollected # {}
        BY <1>11, BatchFinite, FS_Subset DEF BatchExpires, Uncollected, InBatch
      <4>2. Cardinality(Uncollected) \in Nat /\ Cardinality(Uncollected) # 0
        BY <4>1, FS_CardinalityType, FS_EmptySet
      <4> QED
        BY <4>2
    <3> QED
      BY <1>11, <3>1 DEF BatchExpires, Notify
  <2>4. \A d \in Checks : Passes(d)
    BY <2>1, <2>3, <1>b DEF Passes
  <2>5. \A d \in Batch : BatchOf(d)'
    BY <1>a, <2>1, <2>2, <2>3 DEF CardInv, BatchOf, Uncollected, InBatch, InPhase1, Early
  <2> QED
    BY <1>a, <2>1, <2>3, <2>4, <2>5, CardsStay
<1>12. CASE DrawMap \/ SkipMap \/ MapDone
  <2>1. /\ pc \in {"draw", "map"} /\ pc' \in {"map", "assemble", "interrupted"}
        /\ UNCHANGED <<cards, batch>>
    BY <1>12, NotifyGoes DEF DrawMap, SkipMap, MapDone, WaitFor, Awaited, results
  <2>2. \A c \in Checks : Passes(c)
    BY <2>1, <1>b DEF Passes
  <2> QED
    BY <1>a, <2>1, <2>2, CardsStay, BatchStays DEF BatchPasses, InPhase1, Early
<1>13. CASE Assemble
  <2>1. pc = "assemble" /\ pc' \in {"aprf", "waive"} /\ UNCHANGED batch
    BY <1>13 DEF Assemble, WaitFor
  <2>2. \A c \in Checks : Passes(c) \/ c \in Batch
    BY <2>1, <1>b DEF Passes, Checks
  <2>3. ASSUME NEW c \in Checks PROVE CardOf(c)'
    <3>1. CASE c \in Batch /\ batch[c] # "none"
      <4>1. cards[c] = <<>> /\ c \in scope
        BY <2>1, <3>1, <1>b DEF CardInv, CardOf, BatchOf
      <4>2. batch[c] \in Kinds /\ cards'[c] = <<batch[c]>>
        BY <1>13, <3>1, <4>1 DEF Assemble, TypeOK, Kinds
      <4> QED
        BY <1>a, <2>1, <4>1, <4>2, <1>b, CardDrawn
    <3>2. CASE ~(c \in Batch /\ batch[c] # "none")
      <4>1. cards'[c] = cards[c]
        BY <1>13, <3>2 DEF Assemble
      <4>2. c \in Batch /\ c \in scope => TimeUp
        BY <2>1, <3>2 DEF CardInv, BatchOf
      <4>3. Passes(c)
        BY <2>1, <2>2, <4>2, <1>b DEF Passes
      <4> QED
        BY <1>a, <2>1, <4>1, <4>3, CardStays DEF CardInv
    <3> QED
      BY <3>1, <3>2
  <2>4. \A c \in Batch : BatchOf(c)'
    BY <1>a, <2>1, BatchStays DEF BatchPasses, InPhase1, Early
  <2> QED
    BY <2>3, <2>4 DEF CardInv
<1>14. CASE Waive
  <2>1. pc = "waive" /\ pc' = "hints" /\ UNCHANGED batch
    BY <1>14 DEF Waive
  <2>2. ASSUME NEW c \in Checks PROVE CardOf(c)'
    <3>1. cards'[c] = cards[c] \/ (cards[c] # <<>> /\ \E k \in Kinds : cards'[c] = <<k>>)
      BY <1>14 DEF Waive, Kinds
    <3> QED
      BY <1>a, <1>b, <2>1, <3>1 DEF CardInv, CardOf
  <2>3. \A c \in Batch : BatchOf(c)'
    BY <1>a, <2>1, BatchStays DEF BatchPasses, InPhase1, Early
  <2> QED
    BY <2>2, <2>3 DEF CardInv
\* What is left after the cards of the batch are drawn.
<1>15. ASSUME UNCHANGED <<cards, batch>>,
              pc \in {"aprf", "waive", "hints", "include", "scoring", "probe", "subdomains"},
              pc' \in {"waive", "hints", "include", "scoring", "probe", "subdomains", "final", "interrupted"}
       PROVE  CardInv'
  <2>1. \A c \in Checks : Passes(c)
    BY <1>15, <1>b DEF Passes
  <2> QED
    BY <1>a, <1>15, <2>1, CardsStay, BatchStays DEF BatchPasses, InPhase1, Early
<1>16. CASE Aprf \/ NotDefensive \/ Hints \/ Include
  BY <1>15, <1>16 DEF Aprf, NotDefensive, Hints, Include, Awaited, WaitFor, results
<1>17. CASE Scoring \/ ProbeSubdomains \/ SkipProbe \/ Subdomains
  BY <1>15, <1>17, NotifyGoes DEF Scoring, ProbeSubdomains, SkipProbe, Subdomains, Awaited, WaitFor, results
<1>18. CASE Final
  <2>1. pc = "final" /\ pc' = "done" /\ UNCHANGED <<batch, inputs>>
    BY <1>18 DEF Final
  <2>2. ASSUME NEW c \in Checks PROVE CardOf(c)'
    <3>1. cards'[c] = IF TimeUp /\ c \in scope /\ cards[c] = <<>> THEN <<"stub">> ELSE cards[c]
      BY <1>18 DEF Final
    <3>2. c \in scope => cards[c] # <<>> \/ TimeUp
      BY <2>1, <1>b DEF CardInv, CardOf
    <3> QED
      BY <1>a, <1>b, <2>1, <3>1, <3>2 DEF CardInv, CardOf, Kinds
  <2>3. \A c \in Batch : BatchOf(c)'
    BY <1>a, <2>1, BatchStays DEF BatchPasses, InPhase1, Early
  <2> QED
    BY <2>2, <2>3 DEF CardInv
<1>19. CASE (\E t \in Tasks : End(t)) \/ Stop \/ Tick \/ UNCHANGED vars
  <2>1. UNCHANGED <<pc, cards, batch>>
    BY <1>19 DEF End, Stop, Tick, vars, results
  <2> QED
    BY <1>a, <2>1 DEF CardInv, CardOf, BatchOf
<1> QED
  BY <1>1, <1>2, <1>3, <1>4, <1>5, <1>6, <1>7, <1>8, <1>9, <1>10, <1>11, <1>12, <1>13, <1>14, <1>16,
     <1>17, <1>18, <1>19
  DEF Next, AuditThread

-----------------------------------------------------------------------------
(* Truth.                                                                    *)

LEMMA Recorded ==
  ASSUME TypeOK, NEW c \in Checks, Record(c)
  PROVE  /\ task[c] = "ok" => raw'[c] = "answer"
         /\ raw[c] = "answer" => raw'[c] = "answer"
         /\ raw[c] # "absent" => raw'[c] # "absent"
         /\ \A d \in Checks \ {c} : raw'[d] = raw[d]
BY DEF TypeOK, Record

\* What was received or noted is not lost: DNSSEC is recorded once, and a batch that
\* gives up on DKIM records that.
Keeps(d) ==
  /\ raw[d] # "absent" => raw'[d] # "absent"
  /\ raw[d] = "answer" =>
       \/ raw'[d] = "answer"
       \/ d = "dnssec" /\ pc = "dnssec_raw" /\ UNCHANGED <<cards, batch>>
       \/ d = "dkim" /\ pc = "collect" /\ batch'[d] = "timeout" /\ UNCHANGED cards

LEMMA ResultsKept ==
  ASSUME TypeOK, [Next]_vars
  PROVE  (\A d \in Checks : Keeps(d)) /\ errors \subseteq errors'
<1> USE Names
<1>1. ASSUME UNCHANGED raw
      PROVE  \A d \in Checks : Keeps(d)
  BY <1>1 DEF Keeps
<1>2. ASSUME NEW c \in Checks, Record(c)
      PROVE  \A d \in Checks : Keeps(d)
  BY <1>2, Recorded DEF Keeps
<1>3. ASSUME NEW c, NEW k, Note(c, k)
      PROVE  errors \subseteq errors'
  BY <1>3 DEF Note
<1>4. CASE SubmitPhase1 \/ SubmitBatch \/ Collected \/ DrawMap \/ SkipMap \/ Aprf
  BY <1>1, <1>4 DEF SubmitPhase1, SubmitBatch, Collected, DrawMap, SkipMap, Aprf, results
<1>5. CASE TreeWalk \/ MapDone \/ Assemble \/ Waive \/ Final
  BY <1>1, <1>5 DEF TreeWalk, MapDone, Assemble, Waive, Final
<1>6. CASE NotDefensive \/ Hints \/ Include \/ Scoring \/ ProbeSubdomains \/ SkipProbe \/ Subdomains
  BY <1>1, <1>6 DEF NotDefensive, Hints, Include, Scoring, ProbeSubdomains, SkipProbe, Subdomains, results
<1>7. CASE (\E t \in Tasks : End(t)) \/ Stop \/ Tick \/ UNCHANGED vars
  BY <1>1, <1>7 DEF End, Stop, Tick, vars, results
<1>8. CASE Dmarc \/ DmarcReports
  BY <1>2, <1>3, <1>8 DEF Dmarc, DmarcReports
<1>9. CASE ReportAuth
  BY <1>1, <1>3, <1>9 DEF ReportAuth
<1>10. CASE Mx \/ Spf
  BY <1>2, <1>3, <1>10 DEF Mx, Spf, MailCheck
<1>11. CASE DnssecRaw
  BY <1>11 DEF DnssecRaw, Awaited, Keeps, TypeOK
<1>12. ASSUME NEW c \in Batch, Collect(c)
       PROVE  (\A d \in Checks : Keeps(d)) /\ errors \subseteq errors'
  <2>1. PICK k : /\ batch' = [batch EXCEPT ![c] = k]
                 /\ Note(c, k)
                 /\ IF task[c] = "failed" /\ c = "dkim" /\ k = "timeout"
                    THEN raw' = [raw EXCEPT ![c] = "blank"]
                    ELSE Record(c)
    BY <1>12 DEF Collect
  <2>2. CASE c = "dkim" /\ k = "timeout" /\ raw' = [raw EXCEPT ![c] = "blank"]
    BY <1>12, <2>1, <2>2, <1>3 DEF Collect, Keeps, TypeOK
  <2>3. CASE Record(c)
    BY <2>1, <2>3, <1>2, <1>3
  <2> QED
    BY <2>1, <2>2, <2>3
<1>13. CASE BatchExpires
  <2>1. PICK S \in SUBSET Uncollected :
          /\ batch' = [c \in Batch |-> IF c \in S THEN "timeout" ELSE batch[c]]
          /\ errors' = errors \cup S
          /\ raw' = IF "dkim" \in S THEN [raw EXCEPT !["dkim"] = "blank"] ELSE raw
    BY <1>13 DEF BatchExpires
  <2> QED
    BY <1>13, <2>1 DEF BatchExpires, Keeps, TypeOK
<1> QED
  BY <1>4, <1>5, <1>6, <1>7, <1>8, <1>9, <1>10, <1>11, <1>12, <1>13 DEF Next, AuditThread

LEMMA CardStaysTrue ==
  ASSUME CardInv, CardsTrue, NEW c \in Checks, Keeps(c), errors \subseteq errors', cards'[c] = cards[c]
  PROVE  CardTrue(c)'
<1>1. \/ raw[c] = "answer" => raw'[c] = "answer"
      \/ cards[c] = <<>>
  BY DEF Keeps, CardInv, CardOf, Undrawn, InPhase1, Early
<1> QED
  BY <1>1 DEF CardsTrue, CardTrue

LEMMA BatchStaysTrue ==
  ASSUME CardInv, CardsTrue, NEW c \in Batch, Keeps(c), errors \subseteq errors', batch'[c] = batch[c]
  PROVE  BatchTrue(c)'
<1>1. \/ raw[c] = "answer" => raw'[c] = "answer"
      \/ batch'[c] \in {"none", "timeout"}
  BY DEF Keeps, CardInv, BatchOf, InPhase1, Early
<1> QED
  BY <1>1 DEF CardsTrue, BatchTrue

\* A card drawn from what the future of its check came to.
LEMMA DrawnTrue ==
  ASSUME TypeOK, CardInv, CardsTrue, NEW c \in Checks \ Batch, NEW k \in Outcomes(c),
         pc \in Undrawn(c), AddCard(c, k), Note(c, k), k = "verdict" => raw'[c] = "answer",
         UNCHANGED batch, \A d \in Checks : Keeps(d)
  PROVE  CardsTrue'
<1>1. k \in Kinds /\ errors \subseteq errors'
  BY OutcomesTyped DEF Kinds, Note
<1>2. CardTrue(c)'
  <2>1. cards'[c] = IF c \in scope THEN <<k>> ELSE <<>>
    BY <1>1, CardAdded DEF CardInv
  <2>2. k \in {"timeout", "error"} => c \in errors'
    BY DEF Note
  <2> QED
    BY <2>1, <2>2 DEF CardTrue
<1>3. ASSUME NEW d \in Checks \ {c} PROVE CardTrue(d)'
  BY <1>1, <1>3, CardAdded, CardStaysTrue DEF CardInv
<1> QED
  BY <1>1, <1>2, <1>3, BatchStaysTrue, Names DEF CardsTrue

LEMMA CardsStayTrue ==
  ASSUME CardInv, CardsTrue, UNCHANGED <<cards, batch>>, \A d \in Checks : Keeps(d), errors \subseteq errors'
  PROVE  CardsTrue'
BY CardStaysTrue, BatchStaysTrue, Names DEF CardsTrue

LEMMA TruthHolds ==
  ASSUME TypeOK, CardInv, CardsTrue, Settled, [Next]_vars
  PROVE  CardsTrue'
<1> USE Names, ResultsKept
<1>1. CASE SubmitPhase1 \/ SubmitBatch \/ Collected \/ DrawMap \/ SkipMap \/ Aprf
  BY <1>1, CardsStayTrue DEF SubmitPhase1, SubmitBatch, Collected, DrawMap, SkipMap, Aprf, results
<1>2. CASE TreeWalk \/ DmarcReports \/ DnssecRaw \/ MapDone
  BY <1>2, CardsStayTrue DEF TreeWalk, DmarcReports, DnssecRaw, MapDone
<1>3. CASE NotDefensive \/ Hints \/ Include \/ Scoring \/ ProbeSubdomains \/ SkipProbe \/ Subdomains
  BY <1>3, CardsStayTrue
  DEF NotDefensive, Hints, Include, Scoring, ProbeSubdomains, SkipProbe, Subdomains, results
<1>4. CASE (\E t \in Tasks : End(t)) \/ Stop \/ Tick \/ UNCHANGED vars
  BY <1>4, CardsStayTrue DEF End, Stop, Tick, vars, results
<1>5. CASE Dmarc
  <2>1. PICK k \in Outcomes("dmarc") : AddCard("dmarc", k) /\ Note("dmarc", k)
    BY <1>5 DEF Dmarc
  <2>2. k = "verdict" => raw'["dmarc"] = "answer"
    BY <1>5, OutcomesTyped, Recorded DEF Dmarc
  <2> QED
    BY <1>5, <2>1, <2>2, DrawnTrue DEF Dmarc, Awaited, Undrawn, Early
<1>6. CASE ReportAuth
  <2>1. PICK k \in Outcomes("dmarc") : AddCard("dmarc", k) /\ Note("dmarc", k)
    BY <1>6 DEF ReportAuth
  <2>2. raw'["dmarc"] = "answer"
    BY <1>6 DEF ReportAuth, Settled
  <2> QED
    BY <1>6, <2>1, <2>2, DrawnTrue DEF ReportAuth, Undrawn, Early
<1>7. ASSUME NEW c \in {"mx", "spf"}, NEW next, MailCheck(c, next)
      PROVE  CardsTrue'
  <2>1. PICK k \in Outcomes(c) : AddCard(c, k) /\ Note(c, k)
    BY <1>7 DEF MailCheck
  <2>2. k = "verdict" => raw'[c] = "answer"
    BY <1>7, OutcomesTyped, Recorded DEF MailCheck
  <2>3. pc \in Undrawn(c)
    BY <1>7 DEF MailCheck, Awaited, Undrawn
  <2> QED
    BY <1>7, <2>1, <2>2, <2>3, DrawnTrue DEF MailCheck
<1>8. CASE Mx \/ Spf
  BY <1>7, <1>8 DEF Mx, Spf
<1>9. ASSUME NEW c \in Batch, Collect(c)
      PROVE  CardsTrue'
  <2>1. PICK k \in Outcomes(c) :
          /\ batch' = [batch EXCEPT ![c] = k]
          /\ Note(c, k)
          /\ IF task[c] = "failed" /\ c = "dkim" /\ k = "timeout"
             THEN raw' = [raw EXCEPT ![c] = "blank"]
             ELSE Record(c)
    BY <1>9 DEF Collect
  <2>2. BatchTrue(c)'
    <3>1. batch'[c] = k
      BY <2>1 DEF TypeOK
    <3>2. k = "verdict" => raw'[c] = "answer"
      BY <2>1, OutcomesTyped, Recorded
    <3>3. k \in {"timeout", "error"} => c \in errors'
      BY <2>1 DEF Note
    <3> QED
      BY <3>1, <3>2, <3>3 DEF BatchTrue
  <2>3. \A d \in Batch \ {c} : BatchTrue(d)'
    BY <2>1, BatchStaysTrue DEF TypeOK
  <2>4. \A d \in Checks : CardTrue(d)'
    BY <1>9, CardStaysTrue DEF Collect
  <2> QED
    BY <2>2, <2>3, <2>4 DEF CardsTrue
<1>10. CASE BatchExpires
  <2>1. PICK S \in SUBSET Uncollected :
          /\ batch' = [c \in Batch |-> IF c \in S THEN "timeout" ELSE batch[c]]
          /\ errors' = errors \cup S
    BY <1>10 DEF BatchExpires
  <2>2. ASSUME NEW c \in Batch PROVE BatchTrue(c)'
    <3>1. CASE c \in S
      BY <2>1, <3>1 DEF BatchTrue
    <3>2. CASE c \notin S
      BY <2>1, <3>2, BatchStaysTrue
    <3> QED
      BY <3>1, <3>2
  <2>3. \A d \in Checks : CardTrue(d)'
    BY <1>10, CardStaysTrue DEF BatchExpires
  <2> QED
    BY <2>2, <2>3 DEF CardsTrue
<1>11. CASE Assemble
  <2>1. UNCHANGED <<raw, batch, errors>>
    BY <1>11 DEF Assemble
  <2>2. ASSUME NEW c \in Checks PROVE CardTrue(c)'
    <3>1. CASE c \in Batch /\ batch[c] # "none"
      <4>1. cards[c] = <<>>
        BY <1>11, <3>1 DEF Assemble, CardInv, CardOf, Undrawn
      <4>2. cards'[c] = Append(cards[c], batch[c])
        BY <1>11, <3>1 DEF Assemble
      <4>3. cards'[c] = <<batch[c]>>
        BY <4>1, <4>2
      <4> QED
        BY <2>1, <3>1, <4>3 DEF CardTrue, CardsTrue, BatchTrue
    <3>2. CASE ~(c \in Batch /\ batch[c] # "none")
      BY <1>11, <3>2, CardStaysTrue DEF Assemble
    <3> QED
      BY <3>1, <3>2
  <2> QED
    BY <2>1, <2>2, BatchStaysTrue DEF CardsTrue
<1>12. CASE Waive
  <2>1. UNCHANGED <<raw, batch, errors>> /\ raw["dmarc"] = "answer"
    BY <1>12 DEF Waive
  <2>2. ASSUME NEW c \in Checks PROVE CardTrue(c)'
    <3>1. \/ cards'[c] = cards[c] \/ cards'[c] = <<"waived">>
          \/ c = "dmarc" /\ cards'[c] = <<"verdict">>
      BY <1>12 DEF Waive
    <3> QED
      BY <2>1, <3>1 DEF CardTrue, CardsTrue
  <2> QED
    BY <2>1, <2>2, BatchStaysTrue DEF CardsTrue
<1>13. CASE Final
  <2>1. UNCHANGED <<raw, batch, errors>>
    BY <1>13 DEF Final
  <2>2. ASSUME NEW c \in Checks PROVE CardTrue(c)'
    <3>1. cards'[c] = cards[c] \/ cards'[c] = <<"stub">>
      BY <1>13 DEF Final
    <3> QED
      BY <2>1, <3>1 DEF CardTrue, CardsTrue
  <2> QED
    BY <2>1, <2>2, BatchStaysTrue DEF CardsTrue
<1> QED
  BY <1>1, <1>2, <1>3, <1>4, <1>5, <1>6, <1>8, <1>9, <1>10, <1>11, <1>12, <1>13 DEF Next, AuditThread

-----------------------------------------------------------------------------
(* DNSSEC before DANE.                                                       *)

LEMMA DnssecFollowed ==
  "batch" \in {First, AfterDmarc, AfterMx, AfterSpf} => ~NeedsDnssec
BY DEF First, AfterDmarc, AfterMx, AfterSpf, Submitted, Phase1

LEMMA OthersTasks ==
  ASSUME NEW S, Submit(S) \/ GiveUp(S), NEW t \in Tasks, t \notin S
  PROVE  task'[t] = task[t]
BY DEF Submit, GiveUp

LEMMA WaitTask ==
  ASSUME NEW t, NEW budget, WaitFor(t, budget), t # "dane"
  PROVE  pc' = t /\ task'["dane"] = task["dane"]
BY OthersTasks, Names DEF WaitFor

\* A step that leaves DANE alone.
LEMMA StaysSettled ==
  ASSUME Settled, Keeps("dnssec"), scope' = scope, task'["dane"] = task["dane"],
         pc' = "report_auth" => raw'["dmarc"] = "answer",
         pc' = "batch" /\ NeedsDnssec => raw'["dnssec"] # "absent" \/ TimeUp',
         pc' = "collect" => pc = "collect"
  PROVE  Settled'
BY DEF Settled, DaneKnowsDnssec, Keeps, NeedsDnssec

LEMMA SettledHolds ==
  ASSUME TypeOK, Settled, [Next]_vars
  PROVE  Settled'
<1> USE Names, ResultsKept, Followers, DnssecFollowed
<1>a. UNCHANGED scope /\ (TimeUp => TimeUp')
  BY TimeStaysUp, ClockRuns DEF inputs
<1>1. CASE SubmitPhase1
  <2>1. task'["dane"] = task["dane"]
    BY <1>1, OthersTasks DEF SubmitPhase1, Phase1
  <2> QED
    BY <1>a, <1>1, <2>1, StaysSettled DEF SubmitPhase1
\* A check of Phase 1 is over.
<1>2. ASSUME NEW S \in SUBSET (Phase1 \cup {"report_auth"}), GiveUp(S),
             pc' \in {"dmarc", AfterDmarc, AfterMx, AfterSpf, "interrupted"}
      PROVE  Settled'
  <2>1. task'["dane"] = task["dane"]
    BY <1>2, OthersTasks DEF Phase1
  <2> QED
    BY <1>a, <1>2, <2>1, StaysSettled
<1>3. CASE TreeWalk \/ Dmarc
  BY <1>2, <1>3, NotifyGoes DEF TreeWalk, Dmarc, Awaited, Phase1
<1>4. CASE ReportAuth
  BY <1>2, <1>4, NotifyGoes DEF ReportAuth, Phase1
<1>5. CASE Mx \/ Spf
  BY <1>2, <1>5, NotifyGoes DEF Mx, Spf, MailCheck, Awaited, Phase1
<1>6. CASE DmarcReports
  <2>1. raw'["dmarc"] = "answer"
    BY <1>6, Recorded DEF DmarcReports
  <2> QED
    BY <1>a, <1>6, <2>1, WaitTask, StaysSettled DEF DmarcReports
<1>7. CASE DnssecRaw
  <2>1. raw'["dnssec"] # "absent" /\ task'["dane"] = task["dane"]
    BY <1>7, OthersTasks DEF DnssecRaw, Awaited, TypeOK
  <2> QED
    BY <1>a, <1>7, <2>1, StaysSettled DEF DnssecRaw
<1>8. CASE SubmitBatch
  <2>1. CASE UNCHANGED task /\ pc' = "draw"
    BY <1>a, <2>1, StaysSettled
  <2>2. CASE ~TimeUp /\ Submit(InBatch) /\ pc' = "collect"
    <3>1. pc = "batch" /\ raw' = raw
      BY <1>8 DEF SubmitBatch, results
    <3>2. CASE "dane" \in scope
      <4>1. raw["dnssec"] # "absent"
        BY <2>2, <3>1, <3>2 DEF Settled, NeedsDnssec
      <4>2. task'["dane"] = "pending"
        BY <2>2, <3>2 DEF Submit, InBatch
      <4> QED
        BY <2>2, <3>1, <4>1, <4>2 DEF Settled, DaneKnowsDnssec
    <3>3. CASE "dane" \notin scope
      <4>1. task'["dane"] = task["dane"]
        BY <2>2, <3>3, OthersTasks DEF InBatch
      <4> QED
        BY <1>a, <2>2, <3>1, <3>3, <4>1 DEF Settled, DaneKnowsDnssec
    <3> QED
      BY <3>2, <3>3
  <2> QED
    BY <1>8, <2>1, <2>2 DEF SubmitBatch
\* A check of the batch is over.
<1>9. ASSUME NEW S \in SUBSET InBatch, GiveUp(S), pc = "collect", pc' \in {"collect", "draw", "interrupted"}
      PROVE  Settled'
  <2>1. "dane" \in S => task["dane"] # "idle"
    BY <1>9 DEF Settled, InBatch
  <2>2. task'["dane"] = task["dane"] \/ (task["dane"] # "idle" /\ task'["dane"] = "gone")
    BY <1>9, <2>1 DEF GiveUp
  <2> QED
    BY <1>a, <1>9, <2>2 DEF Settled, DaneKnowsDnssec, Keeps
<1>10. CASE \E c \in Batch : Collect(c)
  BY <1>9, <1>10, NotifyGoes DEF Collect, Uncollected
<1>11. CASE BatchExpires
  BY <1>9, <1>11, NotifyGoes DEF BatchExpires, Uncollected
\* Past the batch.
<1>12. ASSUME task'["dane"] = task["dane"],
              pc' \in {"draw", "map", "assemble", "aprf", "waive", "hints", "include", "scoring", "probe",
                       "subdomains", "final", "done", "interrupted"}
       PROVE  Settled'
  BY <1>a, <1>12, StaysSettled
<1>13. CASE Collected \/ SkipMap \/ Waive \/ NotDefensive \/ Scoring \/ SkipProbe \/ Final
  BY <1>12, <1>13, NotifyGoes DEF Collected, SkipMap, Waive, NotDefensive, Scoring, SkipProbe, Final
<1>14. CASE DrawMap \/ ProbeSubdomains
  BY <1>12, <1>14, WaitTask DEF DrawMap, ProbeSubdomains
<1>15. CASE MapDone \/ Aprf \/ Subdomains
  BY <1>12, <1>15, NotifyGoes, OthersTasks DEF MapDone, Aprf, Subdomains, Awaited
<1>16. CASE Assemble
  BY <1>12, <1>16, WaitTask DEF Assemble
<1>17. CASE Hints
  BY <1>12, <1>17, WaitTask DEF Hints
<1>18. CASE Include
  BY <1>12, <1>18, WaitTask, OthersTasks DEF Include
<1>19. CASE \E t \in Tasks : End(t)
  <2>1. PICK t \in Tasks : End(t)
    BY <1>19
  <2>2. UNCHANGED pc /\ UNCHANGED raw
    BY <2>1 DEF End, results
  <2>3. task'["dane"] # "idle" <=> task["dane"] # "idle"
    BY <2>1 DEF End, TypeOK
  <2> QED
    BY <1>a, <2>2, <2>3 DEF Settled, DaneKnowsDnssec, NeedsDnssec
<1>20. CASE Stop \/ Tick \/ UNCHANGED vars
  <2>1. UNCHANGED pc /\ UNCHANGED raw /\ UNCHANGED task
    BY <1>20 DEF Stop, Tick, vars, results
  <2> QED
    BY <1>a, <2>1 DEF Settled, DaneKnowsDnssec, NeedsDnssec
<1> QED
  BY <1>1, <1>3, <1>4, <1>5, <1>6, <1>7, <1>8, <1>10, <1>11, <1>13, <1>14, <1>15, <1>16, <1>17, <1>18,
     <1>19, <1>20
  DEF Next, AuditThread

-----------------------------------------------------------------------------
(* Progress.                                                                 *)

LEMMA BatchCounts ==
  /\ IsFiniteSet(InBatch) /\ IsFiniteSet(Uncollected)
  /\ Cardinality(InBatch) \in Nat /\ Cardinality(Uncollected) \in Nat
  /\ Uncollected # {} => Cardinality(Uncollected) > 0
<1>1. IsFiniteSet(InBatch) /\ IsFiniteSet(Uncollected)
  BY BatchFinite, FS_Subset DEF Uncollected, InBatch
<1>2. /\ Cardinality(InBatch) \in Nat /\ Cardinality(Uncollected) \in Nat
      /\ Uncollected # {} => Cardinality(Uncollected) # 0
  BY <1>1, FS_CardinalityType, FS_EmptySet
<1> QED
  BY <1>1, <1>2

LEMMA Sums ==
  /\ {DmarcSteps, MxSteps, Phase1Steps, BatchSteps, MapSteps, TotalChecks} \subseteq Nat
  /\ DmarcSteps = (IF NeedsDmarc THEN 2 ELSE 0)
  /\ MxSteps = DmarcSteps + (IF NeedsMx THEN 1 ELSE 0)
  /\ Phase1Steps = MxSteps + (IF NeedsSpf THEN 1 ELSE 0)
  /\ Phase1Steps <= BatchSteps
  /\ MapSteps = BatchSteps + (IF MapInScope THEN 1 ELSE 0)
  /\ TotalChecks = MapSteps + 1
<1>1. \A b : Count(b) = IF b THEN 1 ELSE 0
  BY DEF Count
<1>2. Cardinality(InBatch) \in Nat /\ TotalChecks = MapSteps + 1
  BY BatchCounts, <1>1 DEF TotalChecks, MapSteps, BatchSteps, Phase1Steps, MxSteps, DmarcSteps, InBatch
<1> QED
  BY <1>1, <1>2 DEF MapSteps, BatchSteps, Phase1Steps, MxSteps, DmarcSteps

LEMMA SumsStay ==
  ASSUME UNCHANGED scope
  PROVE  /\ UNCHANGED DmarcSteps /\ UNCHANGED MxSteps /\ UNCHANGED Phase1Steps
         /\ UNCHANGED BatchSteps /\ UNCHANGED MapSteps /\ UNCHANGED TotalChecks
         /\ NeedsDmarc' = NeedsDmarc /\ NeedsMx' = NeedsMx /\ NeedsSpf' = NeedsSpf
         /\ MapInScope' = MapInScope /\ UNCHANGED InBatch /\ UNCHANGED Submitted
BY DEF DmarcSteps, MxSteps, Phase1Steps, BatchSteps, MapSteps, TotalChecks, NeedsDmarc, NeedsMx, NeedsSpf,
       NeedsDnssec, MapInScope, InBatch, Submitted, Count

LEMMA Notified ==
  ASSUME TypeOK, NEW n \in Nat, NEW next, Notify(n, next)
  PROVE  \/ pc' = next /\ completed' = completed + n
         \/ pc' = "interrupted" /\ completed' = completed + 1 /\ n > 0
BY DEF Notify

\* The check that follows in Phase 1 starts at its count.
LEMMA CountFollows ==
  /\ First = "tree_walk" => NeedsDmarc
  /\ First # "tree_walk" => ~NeedsDmarc
  /\ First = "mx" => NeedsMx
  /\ First = "spf" => NeedsSpf /\ ~NeedsMx
  /\ First \in {"dnssec_raw", "batch"} => ~NeedsMx /\ ~NeedsSpf
  /\ AfterDmarc = "mx" => NeedsMx
  /\ AfterDmarc = "spf" => NeedsSpf /\ ~NeedsMx
  /\ AfterDmarc \in {"dnssec_raw", "batch"} => ~NeedsMx /\ ~NeedsSpf
  /\ AfterMx = "spf" => NeedsSpf
  /\ AfterMx \in {"dnssec_raw", "batch"} => ~NeedsSpf
<1>1. /\ "tree_walk" \in Submitted <=> NeedsDmarc
      /\ "mx" \in Submitted <=> NeedsMx
      /\ "spf" \in Submitted <=> NeedsSpf
  BY DEF Submitted, Phase1
<1> QED
  BY <1>1 DEF First, AfterDmarc, AfterMx, AfterSpf

LEMMA CountedHolds ==
  ASSUME TypeOK, TypeOK', CardInv, Counted, [Next]_vars
  PROVE  Counted'
<1> USE Followers, CountFollows, Sums, SumsStay, Amounts
<1>a. UNCHANGED scope /\ (TimeUp => TimeUp')
  BY TimeStaysUp, ClockRuns DEF inputs
<1>b. completed' \in Nat
  BY DEF TypeOK
<1>1. CASE SubmitPhase1
  <2>1. /\ pc = "start" /\ UNCHANGED completed
        /\ (pc' = First \/ (pc' = "batch" /\ TimeUp))
    BY <1>1 DEF SubmitPhase1
  <2> QED
    BY <1>a, <2>1 DEF Counted, Steps, AfterMap
<1>2. CASE TreeWalk
  <2>1. pc = "tree_walk" /\ pc' \in {"dmarc", "interrupted"} /\ completed' = completed + 1
    BY <1>2, Notified DEF TreeWalk, Awaited
  <2> QED
    BY <1>a, <2>1 DEF Counted, AfterMap
<1>3. CASE Dmarc \/ ReportAuth
  <2>1. /\ pc \in {"dmarc", "report_auth"} /\ pc' \in {AfterDmarc, "interrupted"}
        /\ completed' = completed + 1
    BY <1>3, Notified DEF Dmarc, ReportAuth, Awaited
  <2> QED
    BY <1>a, <2>1 DEF Counted, Steps, AfterMap
<1>4. CASE DmarcReports
  BY <1>a, <1>4 DEF DmarcReports, WaitFor, Counted, AfterMap
<1>5. CASE Mx
  <2>1. pc = "mx" /\ pc' \in {AfterMx, "interrupted"} /\ completed' = completed + 1
    BY <1>5, Notified DEF Mx, MailCheck, Awaited
  <2> QED
    BY <1>a, <2>1 DEF Counted, Steps, AfterMap
<1>6. CASE Spf
  <2>1. pc = "spf" /\ pc' \in {AfterSpf, "interrupted"} /\ completed' = completed + 1
    BY <1>6, Notified DEF Spf, MailCheck, Awaited
  <2> QED
    BY <1>a, <2>1 DEF Counted, Steps, AfterMap
<1>7. CASE DnssecRaw
  BY <1>a, <1>7 DEF DnssecRaw, Awaited, Counted, Steps, AfterMap
<1>8. CASE SubmitBatch
  <2>1. /\ pc = "batch" /\ UNCHANGED <<completed, batch>>
        /\ (pc' = "draw" /\ TimeUp) \/ (pc' = "collect" /\ ~TimeUp)
    BY <1>8 DEF SubmitBatch, results
  <2>2. Uncollected' = InBatch
    BY <1>a, <2>1 DEF Uncollected, InBatch, CardInv, BatchOf
  <2> QED
    BY <1>a, <2>1, <2>2 DEF Counted, Steps, AfterMap, BatchSteps
<1>9. ASSUME NEW c \in Batch, Collect(c)
      PROVE  Counted'
  <2>1. pc = "collect" /\ pc' \in {"collect", "interrupted"} /\ completed' = completed + 1
    BY <1>9, Notified DEF Collect
  <2>2. c \in Uncollected /\ Uncollected' = Uncollected \ {c}
    <3>1. PICK k \in Outcomes(c) : batch' = [batch EXCEPT ![c] = k]
      BY <1>9 DEF Collect
    <3>2. k # "none"
      BY OutcomesTyped
    <3>3. \A d \in Batch : batch'[d] = IF d = c THEN k ELSE batch[d]
      BY <3>1 DEF TypeOK
    <3>4. c \in Uncollected
      BY <1>9 DEF Collect
    <3> QED
      BY <1>a, <3>2, <3>3, <3>4 DEF Uncollected, InBatch
  <2>3. Cardinality(Uncollected') = Cardinality(Uncollected) - 1 /\ Cardinality(Uncollected) \in Nat
    BY <2>2, BatchCounts, FS_RemoveElement
  <2>4. Cardinality(Uncollected) > 0
    BY <2>2, BatchCounts
  <2> QED
    BY <1>a, <2>1, <2>3, <2>4 DEF Counted, AfterMap
<1>10. CASE Collected
  <2>1. pc = "collect" /\ pc' = "draw" /\ UNCHANGED completed /\ Cardinality(Uncollected) = 0
    BY <1>10, FS_EmptySet DEF Collected
  <2> QED
    BY <1>a, <2>1 DEF Counted, Steps, AfterMap
<1>11. CASE BatchExpires
  <2>1. Cardinality(Uncollected) \in Nat /\ Cardinality(Uncollected) > 0
    BY <1>11, BatchCounts DEF BatchExpires
  <2>2. /\ pc = "collect"
        /\ \/ pc' = "draw" /\ completed' = completed + Cardinality(Uncollected)
           \/ pc' = "interrupted" /\ completed' = completed + 1
    BY <1>11, <2>1, Notified DEF BatchExpires
  <2> QED
    BY <1>a, <2>1, <2>2 DEF Counted, Steps, AfterMap
<1>12. CASE DrawMap
  BY <1>a, <1>12 DEF DrawMap, WaitFor, Counted, Steps, AfterMap
<1>13. CASE SkipMap
  <2>1. Count(MapInScope) = IF MapInScope THEN 1 ELSE 0
    BY DEF Count
  <2>2. /\ pc = "draw"
        /\ \/ pc' = "assemble" /\ completed' = completed + (IF MapInScope THEN 1 ELSE 0)
           \/ pc' = "interrupted" /\ completed' = completed + 1 /\ MapInScope
    BY <1>13, <2>1, Notified DEF SkipMap
  <2> QED
    BY <1>a, <2>2 DEF Counted, Steps, AfterMap
<1>14. CASE MapDone
  <2>1. pc = "map" /\ pc' \in {"assemble", "interrupted"} /\ completed' = completed + 1
    BY <1>14, Notified DEF MapDone, Awaited
  <2> QED
    BY <1>a, <2>1 DEF Counted, Steps, AfterMap
\* After the map, up to the last step.
<1>15. ASSUME UNCHANGED completed, pc \in AfterMap, pc' \in AfterMap
       PROVE  Counted'
  BY <1>a, <1>15 DEF Counted, Steps, AfterMap
<1>16. CASE Assemble \/ Aprf \/ Waive \/ NotDefensive
  BY <1>15, <1>16 DEF Assemble, Aprf, Waive, NotDefensive, Awaited, WaitFor, AfterMap
<1>17. CASE Hints \/ Include
  BY <1>15, <1>17 DEF Hints, Include, WaitFor, AfterMap
<1>18. CASE Scoring
  <2>1. pc = "scoring" /\ pc' \in {"probe", "interrupted"} /\ completed' = completed + 1
    BY <1>18, Notified DEF Scoring
  <2> QED
    BY <1>a, <2>1 DEF Counted, Steps, AfterMap
<1>19. CASE ProbeSubdomains \/ SkipProbe \/ Subdomains \/ Final
  <2>1. /\ pc \in {"probe", "subdomains", "final"} /\ pc' \in {"subdomains", "final", "done"}
        /\ UNCHANGED completed
    BY <1>19 DEF ProbeSubdomains, SkipProbe, Subdomains, Final, Awaited, WaitFor
  <2> QED
    BY <1>a, <2>1 DEF Counted, Steps, AfterMap
<1>20. CASE (\E t \in Tasks : End(t)) \/ Stop \/ Tick \/ UNCHANGED vars
  <2>1. UNCHANGED <<pc, completed, batch>>
    BY <1>20 DEF End, Stop, Tick, vars, results
  <2>2. Uncollected' = Uncollected
    BY <1>a, <2>1 DEF Uncollected, InBatch
  <2> QED
    BY <1>a, <2>1, <2>2 DEF Counted, Steps, AfterMap
<1> QED
  BY <1>1, <1>2, <1>3, <1>4, <1>5, <1>6, <1>7, <1>8, <1>9, <1>10, <1>11, <1>12, <1>13, <1>14, <1>16,
     <1>17, <1>18, <1>19, <1>20
  DEF Next, AuditThread

\* What is no longer pending after a step that gives up S, or submits it.
LEMMA GivenUp ==
  ASSUME NEW S, GiveUp(S), NEW t \in Tasks, task'[t] = "pending"
  PROVE  task[t] = "pending" /\ t \notin S
BY DEF GiveUp

LEMMA WaitedFor ==
  ASSUME NEW w, NEW budget, WaitFor(w, budget), NEW t \in Tasks, task'[t] = "pending"
  PROVE  task[t] = "pending" \/ t = w
BY DEF WaitFor, Submit

LEMMA NothingDropped ==
  /\ Submitted \subseteq {"tree_walk", "dmarc", "mx", "spf", "dnssec_raw"}
  /\ First # "tree_walk" => "tree_walk" \notin Submitted /\ "dmarc" \notin Submitted
  /\ First \notin {"tree_walk", "mx"} => "mx" \notin Submitted
  /\ First \notin {"tree_walk", "mx", "spf"} => "spf" \notin Submitted
  /\ First = "batch" => "dnssec_raw" \notin Submitted
  /\ AfterDmarc # "mx" => "mx" \notin Submitted
  /\ AfterDmarc \notin {"mx", "spf"} => "spf" \notin Submitted
  /\ AfterMx # "spf" => "spf" \notin Submitted
  /\ "batch" \in {AfterDmarc, AfterMx, AfterSpf} => "dnssec_raw" \notin Submitted
BY DEF First, AfterDmarc, AfterMx, AfterSpf, Submitted, Phase1

LEMMA CleanHolds ==
  ASSUME TypeOK, CardInv, Clean, [Next]_vars
  PROVE  Clean'
<1> USE Names, Followers, NothingDropped, SumsStay
<1>a. UNCHANGED scope
  BY ClockRuns DEF inputs
\* A step that only drops tasks, and what is ahead of it stays so.
<1>b. ASSUME pc # "interrupted", NEW S, GiveUp(S) \/ (UNCHANGED task /\ S = {}),
             pc' # "interrupted" => Ahead \ S \subseteq Ahead'
      PROVE  Clean'
  BY <1>b, GivenUp DEF Clean
\* A step that starts the wait for w.
<1>c. ASSUME pc # "interrupted", NEW w, NEW budget, WaitFor(w, budget),
             w \in Ahead' /\ Ahead \subseteq Ahead'
      PROVE  Clean'
  BY <1>c, WaitedFor DEF Clean
<1>1. CASE SubmitPhase1
  <2>1. CASE pc' = "batch" /\ UNCHANGED task
    BY <1>1, <2>1 DEF SubmitPhase1, Clean, Ahead
  <2>2. CASE Submit(Submitted) /\ pc' = First
    <3>1. \A t \in Tasks : task'[t] = "pending" => t \in Submitted
      BY <1>1, <2>2 DEF SubmitPhase1, Submit, Clean, Ahead
    <3>2. pc' # "interrupted" => Submitted \subseteq Ahead'
      BY <1>a, <2>2 DEF Ahead
    <3> QED
      BY <3>1, <3>2 DEF Clean
  <2> QED
    BY <1>1, <2>1, <2>2 DEF SubmitPhase1
<1>2. CASE TreeWalk
  <2>1. pc = "tree_walk" /\ GiveUp({"tree_walk"}) /\ pc' \in {"dmarc", "interrupted"}
    BY <1>2, NotifyGoes DEF TreeWalk, Awaited
  <2> QED
    BY <1>a, <1>b, <2>1 DEF Ahead
<1>3. CASE Dmarc
  <2>1. pc = "dmarc" /\ GiveUp({"dmarc"}) /\ pc' \in {AfterDmarc, "interrupted"}
    BY <1>3, NotifyGoes DEF Dmarc, Awaited
  <2> QED
    BY <1>a, <1>b, <2>1 DEF Ahead
<1>4. CASE DmarcReports
  <2>1. pc = "dmarc" /\ WaitFor("report_auth", ReportTimeout) /\ pc' = "report_auth"
    BY <1>4 DEF DmarcReports, WaitFor
  <2> QED
    BY <1>a, <1>c, <2>1 DEF Ahead
<1>5. CASE ReportAuth
  <2>1. pc = "report_auth" /\ GiveUp({"report_auth", "dmarc"}) /\ pc' \in {AfterDmarc, "interrupted"}
    BY <1>5, NotifyGoes DEF ReportAuth
  <2> QED
    BY <1>a, <1>b, <2>1 DEF Ahead
<1>6. CASE Mx
  <2>1. pc = "mx" /\ GiveUp({"mx"}) /\ pc' \in {AfterMx, "interrupted"}
    BY <1>6, NotifyGoes DEF Mx, MailCheck, Awaited
  <2> QED
    BY <1>a, <1>b, <2>1 DEF Ahead
<1>7. CASE Spf
  <2>1. pc = "spf" /\ GiveUp({"spf"}) /\ pc' \in {AfterSpf, "interrupted"}
    BY <1>7, NotifyGoes DEF Spf, MailCheck, Awaited
  <2> QED
    BY <1>a, <1>b, <2>1 DEF Ahead
<1>8. CASE SubmitBatch
  <2>1. CASE pc' = "draw" /\ UNCHANGED task
    BY <1>8, <2>1 DEF SubmitBatch, Clean, Ahead
  <2>2. CASE Submit(InBatch) /\ pc' = "collect"
    <3>1. \A t \in Tasks : task'[t] = "pending" => t \in InBatch
      BY <1>8, <2>2 DEF SubmitBatch, Submit, Clean, Ahead
    <3>2. InBatch \subseteq Uncollected'
      BY <1>a, <1>8 DEF SubmitBatch, results, Uncollected, CardInv, BatchOf, InBatch
    <3> QED
      BY <2>2, <3>1, <3>2 DEF Clean, Ahead
  <2> QED
    BY <1>8, <2>1, <2>2 DEF SubmitBatch
<1>9. ASSUME NEW c \in Batch, Collect(c)
      PROVE  Clean'
  <2>1. pc = "collect" /\ GiveUp({c}) /\ pc' \in {"collect", "interrupted"}
    BY <1>9, NotifyGoes DEF Collect
  <2>2. Uncollected \ {c} \subseteq Uncollected'
    BY <1>a, <1>9 DEF Collect, Uncollected, InBatch, TypeOK
  <2> QED
    BY <1>b, <2>1, <2>2 DEF Ahead
<1>10. CASE Collected
  BY <1>b, <1>10 DEF Collected, Ahead
<1>11. CASE BatchExpires
  <2>1. PICK S \in SUBSET Uncollected : GiveUp(S) /\ (stopped \/ S = Uncollected)
    BY <1>11 DEF BatchExpires
  <2>2. pc' = IF stopped THEN "interrupted" ELSE "draw"
    BY <1>11, BatchCounts DEF BatchExpires, Notify
  <2> QED
    BY <1>b, <1>11, <2>1, <2>2 DEF BatchExpires, Ahead
\* Past the batch a task is pending only while it is waited for.
<1>12. ASSUME pc \in {"draw", "map", "assemble", "aprf", "waive", "hints", "include", "scoring", "probe",
                      "subdomains", "final"},
              \/ UNCHANGED task /\ pc \notin {"map", "aprf", "include", "subdomains"}
              \/ GiveUp({pc})
       PROVE  Clean'
  BY <1>12, <1>b DEF Ahead
<1>13. ASSUME NEW w \in {"map", "aprf", "include", "subdomains"}, NEW budget, WaitFor(w, budget),
              pc \in {"draw", "assemble", "hints", "probe"} \/ pc = w
       PROVE  Clean'
  <2>1. pc' = w /\ (Ahead = {} \/ Ahead = {w}) /\ Ahead' = {w}
    BY <1>13 DEF WaitFor, Ahead
  <2> QED
    BY <1>13, <1>c, <2>1
<1>14. CASE SkipMap \/ Waive \/ NotDefensive \/ Scoring \/ SkipProbe \/ Final
  BY <1>12, <1>14 DEF SkipMap, Waive, NotDefensive, Scoring, SkipProbe, Final
<1>15. CASE MapDone \/ Aprf \/ Subdomains
  BY <1>12, <1>15 DEF MapDone, Aprf, Subdomains, Awaited
<1>16. CASE DrawMap \/ ProbeSubdomains
  BY <1>13, <1>16 DEF DrawMap, ProbeSubdomains
<1>17. CASE Assemble
  BY <1>12, <1>13, <1>17 DEF Assemble
<1>18. CASE Hints
  BY <1>12, <1>13, <1>18 DEF Hints
<1>19. CASE Include
  BY <1>12, <1>13, <1>19 DEF Include
<1>20. CASE (\E t \in Tasks : End(t)) \/ Stop \/ Tick \/ UNCHANGED vars
  <2>1. UNCHANGED <<pc, batch>> /\ \A t \in Tasks : task'[t] = "pending" => task[t] = "pending"
    BY <1>20 DEF End, Stop, Tick, vars, results, TypeOK
  <2>2. Ahead' = Ahead
    BY <1>a, <2>1 DEF Ahead, Uncollected, InBatch
  <2> QED
    BY <2>1, <2>2 DEF Clean
<1>21. CASE DnssecRaw
  BY <1>b, <1>21 DEF DnssecRaw, Awaited, Ahead
<1> QED
  BY <1>1, <1>2, <1>3, <1>4, <1>5, <1>6, <1>7, <1>8, <1>9, <1>10, <1>11, <1>14, <1>15, <1>16,
     <1>17, <1>18, <1>19, <1>20, <1>21
  DEF Next, AuditThread

-----------------------------------------------------------------------------

EngineInv == TypeOK /\ CardInv /\ CardsTrue /\ Settled /\ TimeInv /\ Counted /\ Clean

LEMMA EngineInvariant == Spec => []EngineInv
<1>1. Init => EngineInv
  <2> SUFFICES ASSUME Init PROVE EngineInv
    OBVIOUS
  <2>1. TypeOK
    <3>1. 0 \in 0..MaxIncludes /\ <<>> \in Seq(Kinds)
      BY Amounts
    <3> QED
      BY <3>1 DEF Init, TypeOK, Segments
  <2>2. CardInv
    BY DEF Init, CardInv, CardOf, BatchOf, Undrawn, InPhase1, Early
  <2>3. CardsTrue /\ Settled
    BY Names DEF Init, CardsTrue, CardTrue, BatchTrue, Settled, DaneKnowsDnssec
  <2>4. TimeInv
    BY Phase1Length DEF Init, TimeInv, InPhase1, Early, Segments, BoundedOverrun
  <2>5. Counted /\ Clean
    BY Sums DEF Init, Counted, AfterMap, Clean
  <2> QED
    BY <2>1, <2>2, <2>3, <2>4, <2>5 DEF EngineInv
<1>2. EngineInv /\ [Next]_vars => EngineInv'
  BY TypeHolds, CardHolds, TruthHolds, SettledHolds, TimeHolds, CountedHolds, CleanHolds DEF EngineInv
<1> QED
  BY <1>1, <1>2, PTL DEF Spec

\* The state of one audit is always well typed.
THEOREM Typed == Spec => []TypeOK
BY EngineInvariant, PTL DEF EngineInv

\* Whatever times out, fails, is skipped or waived, the report that run_full_audit
\* returns has one card for each check of its scope and none for another.
THEOREM OneCard == Spec => []OneCardEach
<1>1. EngineInv => OneCardEach
  <2> SUFFICES ASSUME EngineInv, pc = "done", NEW c \in Checks
               PROVE  Len(cards[c]) = IF c \in scope THEN 1 ELSE 0
    BY DEF OneCardEach
  <2>1. CardOf(c)
    BY DEF EngineInv, CardInv
  <2>2. CASE cards[c] = <<>>
    BY <2>1, <2>2 DEF CardOf
  <2>3. CASE \E k \in Kinds : cards[c] = <<k>>
    BY <2>1, <2>3 DEF CardOf
  <2> QED
    BY <2>1, <2>2, <2>3 DEF CardOf
<1> QED
  BY <1>1, EngineInvariant, PTL

\* No card that run_full_audit draws grades a check whose answer it did not receive.
THEOREM VerdictsRestOnAnswers == Spec => []VerdictMeansAnswer
<1>1. EngineInv => VerdictMeansAnswer
  BY DEF EngineInv, CardsTrue, CardTrue, VerdictMeansAnswer
<1> QED
  BY <1>1, EngineInvariant, PTL

\* The DANE check finds the outcome of DNSSEC in the raw results.
THEOREM DnssecFirst == Spec => []DaneKnowsDnssec
<1>1. EngineInv => DaneKnowsDnssec
  BY DEF EngineInv, Settled
<1> QED
  BY <1>1, EngineInvariant, PTL

\* A report with a timeout or error card lists that check among its errors.
THEOREM FailuresAreListed == Spec => []IncompleteIsSaid
<1>1. EngineInv => IncompleteIsSaid
  BY DEF EngineInv, CardsTrue, CardTrue, IncompleteIsSaid
<1> QED
  BY <1>1, EngineInvariant, PTL

\* An audit outlasts its deadline by no more than the phase it is in and the lookup of the
\* name servers that run_full_audit makes whatever the time.
THEOREM Overrun == Spec => []BoundedOverrun
<1>1. EngineInv => BoundedOverrun
  BY DEF EngineInv, TimeInv
<1> QED
  BY <1>1, EngineInvariant, PTL

\* An audit never reports more steps than it announced; one that is done has reported
\* them all unless its time was up, and has left the pool nothing to run for nobody.
THEOREM LeavesNothing == Spec => []EndsClean
<1>1. EngineInv => EndsClean
  <2> SUFFICES ASSUME EngineInv PROVE EndsClean
    OBVIOUS
  <2>1. completed <= TotalChecks
    BY DEF EngineInv, Counted
  <2>2. pc = "done" => completed = TotalChecks \/ now >= deadline
    BY DEF EngineInv, Counted, Steps, TimeUp
  <2>3. pc = "done" => \A t \in Tasks : task[t] # "pending"
    BY DEF EngineInv, Clean, Ahead
  <2> QED
    BY <2>1, <2>2, <2>3 DEF EndsClean
<1> QED
  BY <1>1, EngineInvariant, PTL

=============================================================================
