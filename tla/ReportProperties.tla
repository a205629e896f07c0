-------------------------- MODULE ReportProperties --------------------------
(***************************************************************************)
(* What must hold of a report, however many lookups behind it were lost.   *)
(* Most of it compares the report with the one the same zone would have    *)
(* had over a network that loses nothing, or with the one of the next      *)
(* audit, after the advice was followed.                                   *)
(***************************************************************************)
EXTENDS Report

Done == phase = "done"
Seen == Answers(zone, lost)
View == ViewOf(zone, raw, cards)

(* The same audit without the losses. *)
CardsOf(r) == Corrected(zone, r, DrawnCards(zone, r))
TrueRaw    == RawResults(zone, Answers(zone, <<>>))

-----------------------------------------------------------------------------
(* A lookup that does not complete is unknown, never a finding. *)

(* Which mail a domain has is read off three records.  Without one of them  *)
(* the corrections of run_full_audit judge by the others.                   *)
DirectionKnown == "unavailable" \notin {raw.mx.status, raw.spf.status, raw.dmarc.status}

(* A name without a record of its own inherits what the parents say, and    *)
(* whether it exists decides by which tag.  The cross-check and the BIMI    *)
(* check go by what the walk got hold of, or by nothing.                    *)
InheritanceRead ==
  raw.dmarc.found \/ ~(raw.walk.incomplete \/ raw.dmarc.lost \/ IsLost(Seen[<<"SOA", "exists">>]))

(* A loss can send a check on to what it would not have asked: the sweep to *)
(* the generic selectors, and the delegation check to a server whose other  *)
(* address is private.  What it finds there is no less true.                *)
SameSweep(fullRaw) ==
  raw.dkim.tested \cup raw.dkim.unanswered = fullRaw.dkim.tested \cup fullRaw.dkim.unanswered
SameServers(fullRaw) ==
  \A p \in raw.ns.probes, q \in fullRaw.ns.probes : p.host = q.host /\ p.answered => q.answered

(* The cards that a loss must not turn red.  A name without NS records of   *)
(* which the SOA is lost is judged by what it looks like.                   *)
Judged(fullRaw) ==
       {"MX Records", "MTA-STS", "TLS-RPT", "DNSSEC", "CAA", "DANE", "CT"}
  \cup (IF DirectionKnown /\ InheritanceRead THEN {"DMARC", "BIMI"} ELSE {})
  \cup (IF DirectionKnown /\ SameSweep(fullRaw) THEN {"DKIM"} ELSE {})
  \cup (IF SameServers(fullRaw) /\ ~(raw.ns.probes = {} /\ IsLost(Seen[<<"SOA", "domain">>]))
        THEN {"Nameservers"} ELSE {})
Wrong(card) == card.status = "fail" \/ Severe(card.details, "error")

RedIsDeserved(names, full) ==
  \A c \in names : cards[c].status = "fail" => Wrong(full[c])
ExpiryIsReal(full) == cards["CT"].label = "Expiring" => full["CT"].label = "Expiring"
AbsenceIsReal(fullRaw) ==
  \A d \in draft :
    d.label = "Not published" /\ d.details = {} /\ Live(raw.dkim.found) = Live(fullRaw.dkim.found)
      => DraftCard(fullRaw, Answers(zone, <<>>)).label \in {"Not published", "Not applicable"}

\* "A failed lookup is not a finding" (docs/decisions): a card is red only if it would be
\* with every answer in, but where a loss had it ask something else.
LossIsNoFinding == Done => RedIsDeserved(Judged(TrueRaw), CardsOf(TrueRaw))

(* A term like a:host/0 lets everyone in, but for a host that has no        *)
(* address.  When the lookup of such a host is lost, the walk lists the     *)
(* term as open all the same.                                               *)
OpenedByLoss(fullRaw) ==
  /\ raw.spf.open /\ ~fullRaw.spf.open
  /\ \E q \in DOMAIN lost : q[1] \in {"A", "AAAA", "MX"} /\ Answers(zone, <<>>)[q].rr = {}

\* Nor is what is left of many answers when some are lost: SPF is red only if it would be
\* with every answer in, unless the lookups of the walk did not suffice even then or the
\* lost lookup is what keeps a term from letting everyone in, a certificate expiring only
\* if it is by the whole log, and an APRF record absent only if it is.
Told(fullRaw, full) ==
  /\ ~fullRaw.spf.unknown /\ ~OpenedByLoss(fullRaw) => RedIsDeserved({"SPF"}, full)
  /\ ExpiryIsReal(full) /\ AbsenceIsReal(fullRaw)
RestIsNoFinding == Done => Told(TrueRaw, CardsOf(TrueRaw))

\* The same of a card that goes by the record of another check, as the decision says it of
\* everything downstream: BIMI is not red for a DMARC record that nobody could read.
LossNeverFails == Done => RedIsDeserved({"BIMI"}, CardsOf(TrueRaw))

\* The count of SPF lookups is never shown lower than it is: a card that gives a count
\* within the limit, and does not say that it is not known, gives the count of a walk
\* that had all its answers and no budget.
Unbudgeted == 1000
CountIsExact ==
  Done /\ raw.spf.found /\ ~raw.spf.unknown /\ raw.spf.lookups <= SpfLookupLimit =>
    Walk(Answers(zone, <<>>), Unbudgeted).total = raw.spf.lookups

-----------------------------------------------------------------------------
(* The plan and the summary. *)

\* No row of the plan is about a card that says it was not read, and no record of the
\* plan is lost in the change set, which publishes the DMARC record once, TLS-RPT no
\* later than MTA-STS and no step marked as enforcing before one about senders.
PlanIsCarriedOut ==
  Done =>
    LET rows == ToSet(plan.rows)
        ch   == plan.changes
    IN /\ \A row \in rows : ~Unread(cards[row.proto])
       /\ \A row \in rows : PublishesRecord(View, row) =>
            \E e \in ToSet(ch) : e.proto = row.proto /\ e.kind = IF IsEdit(row) THEN "edit" ELSE row.kind
       /\ Cardinality({i \in DOMAIN ch : ch[i].kind = "edit"}) <= 1
       /\ \A i, j \in DOMAIN ch : i < j =>
            /\ ~(ch[i].proto = "MTA-STS" /\ ch[j].proto = "TLS-RPT")
            /\ ~(ch[i].enforcing /\ ch[j].proto \in {"SPF", "DKIM"})

(* The next audit, when the domain has published r in place of its record.  *)
Own == raw.dmarc.found /\ ~raw.dmarc.multiple
NextAnswers(r) == [Seen EXCEPT ![<<"TXT", "_dmarc">>] = Ok({r}), ![<<"DMARC", zone.n>>] = Ok({r})]
ViewWith(r)  == ViewOf(zone, r, CardsOf(r))
NextPlan(r)  == Roadmap(ViewWith(RawResults(zone, NextAnswers(r))))
EditKinds(rows) == {row.kind : row \in {x \in ToSet(rows) : IsEdit(x)}}

(* An edit that raises p can leave sp and np below it: the plan then asks   *)
(* for them in the next audit.                                              *)
Followers == {"sp", "np"}
EditSettles(edit) ==
  LET old   == raw.dmarc.record
      new   == CHOOSE r \in edit.value : TRUE
      again == EditKinds(NextPlan(new))
  IN /\ \A k \in 1..3 : PolicyLevels(new)[k] >= PolicyLevels(old)[k]
     /\ again \cap EditKinds(plan.rows) \subseteq IF edit.enforcing THEN Followers ELSE {}

IsLeftAlone(end) ==
  /\ EndState(end, View.noMail) = end
  /\ Has(end.rua) => Health(end, View.noMail) = "ready"
  /\ EditKinds(NextPlan(end)) = {}
EndStateSettles == IsLeftAlone(EndState(raw.dmarc.record, View.noMail))

(* The target repeats psd=y, with which no record is ready, and a           *)
(* np=quarantine beside its p=reject, which the next plan raises.           *)
Unsettled(r) == r.psd = "y" \/ r.np = "quarantine"

(* The policies of the steps from here to there.  A record that is ready    *)
(* has no way to go, at quarantine too.                                     *)
Rises(path) ==
  /\ \A i \in 1..(Len(path) - 1) : PolicyLevels(path[i])[1] <= PolicyLevels(path[i + 1])[1]
  /\ raw.dmarc.record.p \in Policies /\ Health(raw.dmarc.record, View.noMail) # "ready" =>
       path[Len(path)].p = "reject"
PathRises == Rises(MigrationPath(raw.dmarc.record, View.noMail))

\* Advice that is followed comes to an end: a record published as the plan edits it is
\* no weaker for any name and is not sent back for the same edit, the record shown as
\* the target is one the next audit leaves alone, but for two values that it repeats, and
\* the way to it only goes up.
AdviceSettles ==
  Done /\ Own =>
    /\ \A e \in ToSet(plan.changes) : e.kind = "edit" => EditSettles(e)
    /\ ~Unsettled(raw.dmarc.record) => EndStateSettles
    /\ PathRises

(* The headline reads an inherited policy without the tags for subdomains,  *)
(* and skips the broken record where a route is open: a policy that is      *)
(* inherited with np=none or sp=none hides a red SPF or DKIM card from it.  *)
Overlooked == View.inherited /\ RoutesWith(View, "exposed") # {}

(* The DKIM card of a defensive domain that sends no mail is waived, red or *)
(* not, while the rows about its selectors stay in the plan.                *)
DkimWaived == IsDefensive(raw) /\ SendsNoMail(raw)
HeadedBy(names) == names \ IF DkimWaived THEN {"DKIM"} ELSE {}

\* A green headline is backed by the rest of the report: no card it speaks of is red,
\* no row of the plan about them is critical, but for a waived DKIM card, the senders'
\* requirements are not failed, no route a forged message can take is open, and the box
\* beside it agrees. It speaks of the DMARC record alone in the scope of delivery, where
\* p=none is enough for it, and where it overlooks the others.
HeadlineHonest ==
  Done /\ plan.headline = "pass" =>
    LET spoken == IF ~DefensiveClean(View) /\ (zone.delivery \/ Overlooked) THEN {"DMARC"} ELSE Auth
    IN /\ \A c \in spoken : cards[c].status # "fail"
       /\ \A row \in ToSet(plan.rows) : row.proto \in HeadedBy(spoken) => row.pri # "critical"
       /\ spoken = Auth => plan.requirements # "fail"
       /\ spoken = Auth /\ ~DefensiveClean(View) => RoutesWith(View, "exposed") = {}
       /\ spoken = Auth /\ ~View.noMail => plan.spoofing \in {"Full", "Strong", "Partial", "Weak"}

\* "An enforcing policy never comes before the steps that cover the senders"
\* (src/plan_records.py): no edit of the record raises what receivers apply, its pct
\* and its test mode counted, ahead of a step about SPF or DKIM.
Applied(r) ==
  IF r.t = "y" \/ r.p \notin Policies THEN 0 ELSE Rank[AtPct(r, r.p)]
EnforcementIsHeld ==
  Done /\ Own =>
    \A i, j \in DOMAIN plan.changes :
      i < j /\ plan.changes[i].kind = "edit" /\ plan.changes[j].proto \in {"SPF", "DKIM"} =>
        \A r \in plan.changes[i].value : Applied(r) <= Applied(raw.dmarc.record)
=============================================================================
