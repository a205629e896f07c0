------------------------------ MODULE AuditEngine ------------------------------
(***************************************************************************)
(* One audit: run_full_audit of audit_engine.py. A single thread submits    *)
(* checks to a thread pool, waits for each with a timeout, and turns what   *)
(* it gets into the cards of the report. Past its deadline it starts no     *)
(* further phase.                                                           *)
(*                                                                         *)
(* The pool is shared by all audits, so when a submitted task gets a worker *)
(* is arbitrary, and a running task may hang: a pending task is one that is *)
(* queued or running. Time passes while the audit thread waits, and while   *)
(* it asks the DNS itself, three questions; its own computation takes none. *)
(* What it computes from the raw results after the cards are drawn is taken *)
(* not to raise.                                                            *)
(***************************************************************************)
EXTENDS Integers, Sequences, FiniteSets

CONSTANTS Scopes,         \* the sets of checks a caller may ask for (SCOPE_CHECKS)
          Deadlines,      \* the deadlines of a caller, in ticks from the start
          CheckTimeout,   \* CHECK_TIMEOUT
          BatchTimeout,   \* CHECK_TIMEOUT + 5
          ReportTimeout,  \* the timeout of the report authorization check
          OrgTimeout,     \* how long the lookups of the audit thread may take: of the
          CnameTimeout,   \* policy at the organizational domain, of a CNAME, and
          HostTimeout,    \* of the name servers
          MapBudget,      \* SENDER_MAP_BUDGET
          MapGrace,       \* what the audit waits for the map beyond its budget
          MaxIncludes,    \* bound on the vendor includes whose lookups are counted
          MaxFaults       \* bound on the checks that fail, and on the transforms that do

Batch == {"mta_sts", "tls_rpt", "bimi", "dnssec", "caa", "nameservers", "dane", "dkim", "ct"}
Checks == Batch \cup {"dmarc", "mx", "spf"}
Phase1 == {"tree_walk", "dmarc", "mx", "spf", "dnssec_raw"}
Tasks == Checks \cup Phase1 \cup {"report_auth", "map", "aprf", "include", "subdomains"}
Kinds == {"verdict", "timeout", "error", "stub", "waived"}

ASSUME EngineAssumption ==
  /\ Scopes \subseteq SUBSET Checks
  /\ Deadlines \subseteq Nat
  /\ {CheckTimeout, BatchTimeout, ReportTimeout, OrgTimeout, CnameTimeout, HostTimeout,
      MapBudget, MapGrace, MaxIncludes, MaxFaults} \subseteq Nat
  /\ CheckTimeout <= BatchTimeout /\ MapGrace <= BatchTimeout

VARIABLES
  scope,      \* the checks whose cards are asked for
  deadline,   \* the caller's deadline
  now,        \* time.monotonic(), from the start of the audit
  limit,      \* until when the current wait lasts
  pc,         \* where the audit thread is: the task it waits for, or a segment to run
  task,       \* task[t]: the future of t in the pool
  raw,        \* raw_results: raw[c] is "answer", a "blank" that records a failed lookup, or "absent"
  cname,      \* _cname_memo is filled
  batch,      \* _p2_cards: the kind of the card of a check of the batch, or "none"
  cards,      \* checks: the cards of the report, by check, in the order they were added
  errors,     \* errors: what timed out or failed
  completed,  \* steps notified so far
  stopped,    \* the progress callback raises: the client has gone
  vendors,    \* the sender map finished
  includes    \* vendor includes that are still to be counted

inputs == <<scope, deadline>>
results == <<raw, batch, cards, errors, vendors>>
vars == <<inputs, now, limit, pc, task, cname, results, completed, stopped, includes>>

-----------------------------------------------------------------------------
(* What a scope asks for.                                                    *)

NeedsDmarc == "dmarc" \in scope
NeedsMx == scope \cap {"mx", "spf", "dkim", "mta_sts", "tls_rpt", "bimi", "dane"} # {}
NeedsSpf == scope \cap {"spf", "dkim"} # {}
NeedsDnssec == scope \cap {"dnssec", "dane"} # {}
MapInScope == scope \cap {"dmarc", "spf", "dkim", "mx"} # {}
AprfInScope == "mx" \in scope   \* APRF_SCOPES: the scopes with an MX card

Submitted == {t \in Phase1 :
  CASE t \in {"tree_walk", "dmarc"} -> NeedsDmarc
    [] t = "mx" -> NeedsMx
    [] t = "spf" -> NeedsSpf
    [] OTHER -> NeedsDnssec}

AfterSpf == IF "dnssec_raw" \in Submitted THEN "dnssec_raw" ELSE "batch"
AfterMx == IF "spf" \in Submitted THEN "spf" ELSE AfterSpf
AfterDmarc == IF "mx" \in Submitted THEN "mx" ELSE AfterMx
First == IF "tree_walk" \in Submitted THEN "tree_walk" ELSE AfterDmarc

\* _count_checks_for_scope.
Count(condition) == IF condition THEN 1 ELSE 0
TotalChecks == 2 * Count(NeedsDmarc) + Count(NeedsMx) + Count(NeedsSpf)
               + Cardinality(scope \cap Batch) + Count(MapInScope) + 1

-----------------------------------------------------------------------------

Waits == Phase1 \cup {"report_auth", "map", "aprf", "include", "subdomains"}
Segments == {"start", "batch", "collect", "draw", "assemble", "waive", "hints",
             "scoring", "probe", "final"}
Over == pc \in {"done", "interrupted"}

TypeOK ==
  /\ scope \in Scopes /\ deadline \in Deadlines
  /\ now \in Nat /\ limit \in Nat
  /\ pc \in Waits \cup Segments \cup {"done", "interrupted"}
  /\ task \in [Tasks -> {"idle", "pending", "ok", "failed", "gone"}]
  /\ raw \in [Checks -> {"absent", "answer", "blank"}]
  /\ batch \in [Batch -> {"none", "verdict", "timeout", "error"}]
  /\ cards \in [Checks -> Seq(Kinds)]
  /\ errors \subseteq Checks \cup {"tree_walk"}
  /\ completed \in Nat /\ includes \in 0..MaxIncludes
  /\ cname \in BOOLEAN /\ stopped \in BOOLEAN /\ vendors \in BOOLEAN

Init ==
  /\ scope \in Scopes /\ deadline \in Deadlines
  /\ now = 0 /\ limit = 0
  /\ pc = "start"
  /\ task = [t \in Tasks |-> "idle"]
  /\ raw = [c \in Checks |-> "absent"]
  /\ batch = [c \in Batch |-> "none"]
  /\ cards = [c \in Checks |-> <<>>]
  /\ errors = {}
  /\ completed = 0 /\ includes = 0
  /\ cname = FALSE /\ stopped = FALSE /\ vendors = FALSE

-----------------------------------------------------------------------------

TimeUp == now >= deadline
Min2(a, b) == IF a <= b THEN a ELSE b
Max2(a, b) == IF a <= b THEN b ELSE a

\* The audit thread asks the DNS itself.
Pause(budget) == \E wait \in 0..budget: now' = now + wait

Finished(t) == task[t] \in {"ok", "failed"}
Expired(t) == task[t] = "pending" /\ now >= limit

Submit(S) == task' = [t \in Tasks |-> IF t \in S THEN "pending" ELSE task[t]]
\* The futures of S are no longer looked at. Those still pending are cancelled: a
\* queued task never runs, a running one goes on for nobody.
GiveUp(S) == task' = [t \in Tasks |-> IF t \in S THEN "gone" ELSE task[t]]

WaitFor(t, budget) == /\ Submit({t})
                      /\ limit' = now + budget
                      /\ pc' = t

\* n calls of _notify on the way to next: the first one raises if the client is gone.
Notify(n, next) == IF stopped /\ n > 0 THEN completed' = completed + 1 /\ pc' = "interrupted"
                   ELSE completed' = completed + n /\ pc' = next

Faults == Cardinality(errors \cup {t \in Tasks : task[t] = "failed"})
\* The card a future of check c comes to: what it returned may still fail to
\* transform, and what it raised may be a TimeoutError.
Outcomes(c) == CASE task[c] = "ok"     -> {"verdict"} \cup (IF Faults < MaxFaults THEN {"error"} ELSE {})
                 [] task[c] = "failed" -> {"error", "timeout"}
                 [] OTHER              -> {"timeout"}

\* Mutant: what the future came to is kept as it is, an exception too.
RecordOutcome(c) == raw' = [raw EXCEPT ![c] = task[c]]
Record(c) == raw' = IF task[c] = "ok" THEN [raw EXCEPT ![c] = "answer"] ELSE raw
AddCard(c, k) == cards' = IF c \in scope THEN [cards EXCEPT ![c] = Append(@, k)] ELSE cards
\* Mutant: only failures are recorded.
NoteFailuresOnly(c, k) == errors' = IF k = "error" THEN errors \cup {c} ELSE errors
Note(c, k) == errors' = IF k \in {"timeout", "error"} THEN errors \cup {c} ELSE errors

-----------------------------------------------------------------------------
(* Phase 1: the checks of Submitted run together and are awaited in order.   *)

SubmitPhase1 ==
  /\ pc = "start"
  /\ IF TimeUp THEN pc' = "batch" /\ UNCHANGED <<task, limit>>
     ELSE Submit(Submitted) /\ limit' = CheckTimeout /\ pc' = First
  /\ UNCHANGED <<inputs, now, cname, results, completed, stopped, includes>>

\* _await returns what the future came to, or cancels it.
Awaited(t) == pc = t /\ (Finished(t) \/ Expired(t)) /\ GiveUp({t})

TreeWalk ==
  /\ Awaited("tree_walk")
  /\ errors' = IF task["tree_walk"] = "ok" THEN errors ELSE errors \cup {"tree_walk"}
  /\ Notify(1, "dmarc")
  /\ UNCHANGED <<inputs, now, limit, cname, raw, batch, cards, vendors, stopped, includes>>

\* A subdomain that the tree walk found no policy for takes its organizational domain's.
AskOrgDomain == Pause(OrgTimeout)

\* Only a domain without a record inherits.
Dmarc ==
  /\ Awaited("dmarc")
  /\ Record("dmarc")
  /\ \E k \in Outcomes("dmarc"): AddCard("dmarc", k) /\ Note("dmarc", k)
  /\ \/ UNCHANGED now
     \/ task["dmarc"] = "ok" /\ AskOrgDomain
  /\ Notify(1, AfterDmarc)
  /\ UNCHANGED <<inputs, limit, cname, batch, vendors, stopped, includes>>

\* Mutant: the raw result is kept only once the reports are checked, and then forgotten.
DmarcReportsFirst ==
  /\ pc = "dmarc" /\ task["dmarc"] = "ok"
  /\ WaitFor("report_auth", ReportTimeout)
  /\ UNCHANGED <<inputs, now, cname, results, completed, stopped, includes>>
\* The record names report destinations: they are checked before the card is drawn.
DmarcReports ==
  /\ pc = "dmarc" /\ task["dmarc"] = "ok"
  /\ Record("dmarc")
  /\ WaitFor("report_auth", ReportTimeout)
  /\ UNCHANGED <<inputs, now, cname, batch, cards, errors, completed, vendors, stopped, includes>>

\* A report check that failed or ran out of time only marks the card.
ReportAuth ==
  /\ pc = "report_auth" /\ (Finished("report_auth") \/ Expired("report_auth"))
  /\ GiveUp({"report_auth", "dmarc"})
  /\ \E k \in Outcomes("dmarc"): AddCard("dmarc", k) /\ Note("dmarc", k)
  /\ limit' = CheckTimeout
  /\ Notify(1, AfterDmarc)
  /\ UNCHANGED <<inputs, now, cname, raw, batch, vendors, stopped, includes>>

\* Mutant: every card asks for the CNAME again.
AskCnameAgain == cname' = TRUE /\ Pause(CnameTimeout)
\* _domain_cname: asked on the audit thread, once.
AskCname == cname' = TRUE /\ IF cname THEN UNCHANGED now ELSE Pause(CnameTimeout)

MailCheck(c, next) ==
  /\ Awaited(c)
  /\ Record(c)
  /\ \E k \in Outcomes(c): AddCard(c, k) /\ Note(c, k)
  /\ \/ UNCHANGED <<cname, now>>
     \/ task[c] = "ok" /\ AskCname
  /\ Notify(1, next)
  /\ UNCHANGED <<inputs, limit, batch, vendors, stopped, includes>>

Mx == MailCheck("mx", AfterMx)
Spf == MailCheck("spf", AfterSpf)

\* Mutant: a failure leaves the raw result absent.
DnssecRawUnrecorded ==
  /\ Awaited("dnssec_raw")
  /\ raw' = [raw EXCEPT !["dnssec"] = IF task["dnssec_raw"] = "ok" THEN "answer" ELSE @]
  /\ pc' = "batch"
  /\ UNCHANGED <<inputs, now, limit, cname, batch, cards, errors, completed, vendors, stopped, includes>>
\* DNSSEC is awaited here because DANE reads it. A failure is recorded, so that DANE
\* does not run the check again; its card comes with the batch.
DnssecRaw ==
  /\ Awaited("dnssec_raw")
  /\ raw' = [raw EXCEPT !["dnssec"] = IF task["dnssec_raw"] = "ok" THEN "answer" ELSE "blank"]
  /\ pc' = "batch"
  /\ UNCHANGED <<inputs, now, limit, cname, batch, cards, errors, completed, vendors, stopped, includes>>

-----------------------------------------------------------------------------
(* Phase 2: the other checks of the scope, collected as they finish.         *)

InBatch == scope \cap Batch

\* Mutant: a batch that could not use all of its time is not started.
SubmitWholeBatch ==
  /\ pc = "batch"
  /\ IF now + BatchTimeout > deadline THEN pc' = "draw" /\ UNCHANGED <<task, limit>>
     ELSE Submit(InBatch) /\ limit' = now + BatchTimeout /\ pc' = "collect"
  /\ UNCHANGED <<inputs, now, cname, results, completed, stopped, includes>>
SubmitBatch ==
  /\ pc = "batch"
  /\ IF TimeUp THEN pc' = "draw" /\ UNCHANGED <<task, limit>>
     ELSE Submit(InBatch) /\ limit' = now + BatchTimeout /\ pc' = "collect"
  /\ UNCHANGED <<inputs, now, cname, results, completed, stopped, includes>>

Uncollected == {c \in InBatch : batch[c] = "none"}

Collect(c) ==
  /\ pc = "collect" /\ c \in Uncollected /\ Finished(c)
  /\ \E k \in Outcomes(c):
       /\ batch' = [batch EXCEPT ![c] = k]
       /\ Note(c, k)
       /\ IF task[c] = "failed" /\ c = "dkim" /\ k = "timeout"
          THEN raw' = [raw EXCEPT ![c] = "blank"]
          ELSE Record(c)
  /\ GiveUp({c})
  /\ Notify(1, "collect")
  /\ UNCHANGED <<inputs, now, limit, cname, cards, vendors, stopped, includes>>

Collected ==
  /\ pc = "collect" /\ Uncollected = {}
  /\ pc' = "draw"
  /\ UNCHANGED <<inputs, now, limit, task, cname, results, completed, stopped, includes>>

\* Mutant: as before the budget was put on as_completed, the batch waits for its slowest check.
BatchWaits == FALSE
\* The batch's time is up: every check still without a card gets a timeout card. If
\* the client is gone the first of them ends the audit, the others are left as they are.
BatchExpires ==
  /\ pc = "collect" /\ Uncollected # {} /\ now >= limit
  /\ LET hit == IF stopped THEN {{c} : c \in Uncollected} ELSE {Uncollected} IN
     \E S \in hit:
       /\ GiveUp(S)
       /\ batch' = [c \in Batch |-> IF c \in S THEN "timeout" ELSE batch[c]]
       /\ errors' = errors \cup S
       /\ raw' = IF "dkim" \in S THEN [raw EXCEPT !["dkim"] = "blank"] ELSE raw
  /\ Notify(Cardinality(Uncollected), "draw")
  /\ UNCHANGED <<inputs, now, limit, cname, cards, vendors, stopped, includes>>

-----------------------------------------------------------------------------
(* The sender map, then the cards of the batch.                              *)

DrawMap ==
  /\ pc = "draw" /\ MapInScope /\ ~TimeUp
  /\ WaitFor("map", Min2(MapBudget, deadline - now) + MapGrace)
  /\ UNCHANGED <<inputs, now, cname, results, completed, stopped, includes>>

\* Mutant: a map that is not drawn is no step.
SkipMapQuietly ==
  /\ pc = "draw" /\ (~MapInScope \/ TimeUp \/ raw["dkim"] = "answer")
  /\ pc' = "assemble"
  /\ UNCHANGED <<inputs, now, limit, task, cname, results, completed, stopped, includes>>
\* Not drawn: out of scope, out of time, or the zone dropped the queries of the DKIM sweep.
SkipMap ==
  /\ pc = "draw" /\ (~MapInScope \/ TimeUp \/ raw["dkim"] = "answer")
  /\ Notify(Count(MapInScope), "assemble")
  /\ UNCHANGED <<inputs, now, limit, task, cname, results, stopped, includes>>

MapDone ==
  /\ Awaited("map")
  /\ vendors' = (task["map"] = "ok")
  /\ Notify(1, "assemble")
  /\ UNCHANGED <<inputs, now, limit, cname, raw, batch, cards, errors, stopped, includes>>

\* The cards of the batch join the report, and the APRF draft is looked up if there is
\* time; without an answer its section says so.
Assemble ==
  /\ pc = "assemble"
  /\ cards' = [c \in Checks |-> IF c \in Batch /\ batch[c] # "none" THEN Append(cards[c], batch[c]) ELSE cards[c]]
  /\ IF AprfInScope /\ ~TimeUp
     THEN WaitFor("aprf", Min2(CheckTimeout, deadline - now))
     ELSE pc' = "waive" /\ UNCHANGED <<task, limit>>
  /\ UNCHANGED <<inputs, now, cname, raw, batch, errors, vendors, completed, stopped, includes>>

Aprf ==
  /\ Awaited("aprf")
  /\ pc' = "waive"
  /\ UNCHANGED <<inputs, now, limit, cname, results, completed, stopped, includes>>

-----------------------------------------------------------------------------
(* What the raw results change in the cards, and the last lookups.           *)

Inbound == {"mta_sts", "tls_rpt", "dane"}
Outbound == {"bimi", "dkim"}

\* A domain known not to send or receive mail: its mail cards that found trouble do
\* not apply, and the DMARC card is drawn again from the record.
Waive ==
  /\ pc = "waive"
  /\ \A c \in {"dmarc", "mx", "spf"}: raw[c] = "answer"
  /\ \E S \in {Inbound, Outbound, Inbound \cup Outbound}:
       cards' = [c \in Checks |->
         IF c \in S /\ cards[c] \in {<<"timeout">>, <<"error">>} THEN <<"waived">>
         ELSE IF c = "dmarc" /\ cards[c] # <<>> THEN <<"verdict">>
         ELSE cards[c]]
  /\ pc' = "hints"
  /\ UNCHANGED <<inputs, now, limit, task, cname, raw, batch, errors, vendors, completed, stopped, includes>>

NotDefensive ==
  /\ pc = "waive"
  /\ pc' = "hints"
  /\ UNCHANGED <<inputs, now, limit, task, cname, results, completed, stopped, includes>>

\* Vendors that the SPF record misses, if the map found any.
Hints ==
  /\ pc = "hints"
  /\ \E n \in 0..MaxIncludes:
       /\ n > 0 => vendors
       /\ IF n = 0 \/ TimeUp
          THEN pc' = "scoring" /\ UNCHANGED <<task, limit, includes>>
          ELSE includes' = n /\ WaitFor("include", Min2(CheckTimeout, deadline - now))
  /\ UNCHANGED <<inputs, now, cname, results, completed, stopped>>

\* A count that fails or runs out of time makes the rest pointless.
Include ==
  /\ pc = "include" /\ (Finished("include") \/ Expired("include"))
  /\ IF task["include"] = "ok" /\ includes > 1 /\ ~TimeUp
     THEN includes' = includes - 1 /\ WaitFor("include", Min2(CheckTimeout, deadline - now))
     ELSE includes' = 0 /\ GiveUp({"include"}) /\ pc' = "scoring" /\ UNCHANGED limit
  /\ UNCHANGED <<inputs, now, cname, results, completed, stopped>>

Scoring ==
  /\ pc = "scoring"
  /\ Notify(1, "probe")
  /\ UNCHANGED <<inputs, now, limit, task, cname, results, stopped, includes>>

ProbeSubdomains ==
  /\ pc = "probe" /\ NeedsDmarc /\ ~TimeUp
  /\ WaitFor("subdomains", CheckTimeout)
  /\ UNCHANGED <<inputs, now, cname, results, completed, stopped, includes>>

\* raw["dmarc"] may say that the domain is itself a subdomain.
SkipProbe ==
  /\ pc = "probe" /\ (~NeedsDmarc \/ TimeUp \/ raw["dmarc"] = "answer")
  /\ pc' = "final"
  /\ UNCHANGED <<inputs, now, limit, task, cname, results, completed, stopped, includes>>

Subdomains ==
  /\ Awaited("subdomains")
  /\ pc' = "final"
  /\ UNCHANGED <<inputs, now, limit, cname, results, completed, stopped, includes>>

\* _dns_host: the name servers are asked for, if no check knows them.
AskHost == Pause(HostTimeout)

\* Past the deadline, a check of the scope that never ran gets its card here.
Final ==
  /\ pc = "final"
  /\ cards' = [c \in Checks |-> IF TimeUp /\ c \in scope /\ cards[c] = <<>> THEN <<"stub">> ELSE cards[c]]
  /\ AskHost
  /\ pc' = "done"
  /\ UNCHANGED <<inputs, limit, task, cname, raw, batch, errors, vendors, completed, stopped, includes>>

-----------------------------------------------------------------------------
(* The pool, the client and the clock.                                       *)

\* A task ends, at the latest when it is awaited: nothing looks at a future before. The
\* DNSSEC task of the batch hands over the answer of Phase 1, or raises what it raised.
End(t) ==
  /\ task[t] = "pending"
  /\ pc = t \/ pc = "collect"
  /\ \/ /\ t = "dnssec" => raw["dnssec"] = "answer"
        /\ task' = [task EXCEPT ![t] = "ok"]
     \/ /\ t = "dnssec" => raw["dnssec"] = "blank"
        /\ t \in (Checks \cup Phase1) \ {"dnssec"} => Faults < MaxFaults
        /\ task' = [task EXCEPT ![t] = "failed"]
  /\ UNCHANGED <<inputs, now, limit, pc, cname, results, completed, stopped, includes>>

Stop ==
  /\ ~stopped /\ ~Over
  /\ stopped' = TRUE
  /\ UNCHANGED <<inputs, now, limit, pc, task, cname, results, completed, includes>>

\* No wait outlasts its limit, and a wait whose answer is there is over.
Tick ==
  /\ now < limit
  /\ \/ pc \in Waits /\ task[pc] = "pending"
     \/ pc = "collect" /\ Uncollected # {} /\ \A c \in Uncollected: ~Finished(c)
  /\ now' = now + 1
  /\ UNCHANGED <<inputs, limit, pc, task, cname, results, completed, stopped, includes>>

AuditThread ==
  \/ SubmitPhase1 \/ TreeWalk \/ Dmarc \/ DmarcReports \/ ReportAuth \/ Mx \/ Spf \/ DnssecRaw
  \/ SubmitBatch \/ (\E c \in Batch: Collect(c)) \/ Collected \/ BatchExpires
  \/ DrawMap \/ SkipMap \/ MapDone \/ Assemble \/ Aprf \/ Waive \/ NotDefensive
  \/ Hints \/ Include \/ Scoring \/ ProbeSubdomains \/ SkipProbe \/ Subdomains \/ Final

Next == AuditThread \/ (\E t \in Tasks: End(t)) \/ Stop \/ Tick

Spec == Init /\ [][Next]_vars
\* The audit thread runs and the clock ticks; no task has to end.
FairSpec == Spec /\ WF_vars(AuditThread) /\ WF_vars(Tick)

-----------------------------------------------------------------------------
(* Properties.                                                               *)

\* The report of an audit that is done has exactly one card for each check of its
\* scope and none for another, whatever timed out, failed, was skipped or was waived.
OneCardEach == pc = "done" => \A c \in Checks: Len(cards[c]) = IF c \in scope THEN 1 ELSE 0

\* A card with a verdict rests on an answer that was received: no failed, late or
\* skipped check is graded.
VerdictMeansAnswer == \A c \in Checks: cards[c] = <<"verdict">> => raw[c] = "answer"

\* DANE starts only once the outcome of DNSSEC is settled, so it never runs it again.
DaneKnowsDnssec == task["dane"] # "idle" => raw["dnssec"] # "absent"

\* An audit ends with nothing outstanding: progress never passed its total and, before
\* the deadline, has reached it, and no task that a cancel could still stop is left for
\* the pool to run for nobody.
EndsClean ==
  /\ completed <= TotalChecks
  /\ pc = "done" =>
       /\ completed = TotalChecks \/ now >= deadline
       /\ \A t \in Tasks: task[t] # "pending"

\* A report in which a check timed out or failed says that it is incomplete.
IncompleteIsSaid ==
  pc = "done" => \A c \in Checks: cards[c] \in {<<"timeout">>, <<"error">>} => c \in errors

\* An audit outlasts its deadline by at most one phase, which is Phase 1 with the lookups
\* it makes on the way, for that is not cut short, or the batch; and then by the lookup
\* of the name servers, which is made whatever the time.
LongestPhase1 == CheckTimeout + Max2(ReportTimeout, OrgTimeout) + CnameTimeout
Closing == IF pc = "done" THEN HostTimeout ELSE 0
BoundedOverrun == now <= LongestPhase1 + Closing \/ now <= deadline + BatchTimeout + Closing

\* Every audit ends, even when none of its checks does.
AuditEnds == <>Over

=============================================================================
