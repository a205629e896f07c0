------------------------------- MODULE Report -------------------------------
(***************************************************************************)
(* One audit of one zone over a network that loses answers: the checks,    *)
(* the cards made of them, the corrections run_full_audit makes when it    *)
(* sees them together, and the plan and the summary of the whole.          *)
(*                                                                         *)
(* `zone' is what the domain publishes, `lost' the lookups that do not     *)
(* complete.  AuditEngine models when each check runs and what a timeout   *)
(* of the check itself does; here every check finishes, and what it        *)
(* concludes from the answers that reach it is the subject.                *)
(***************************************************************************)
EXTENDS ZoneChecks, PolicyChecks, SpfCheck, CertChecks, Plan

CONSTANTS
  Background, \* the answers of the zone that publishes everything
  Zones,      \* the zones audited, each by how it differs from it
  MaxLost     \* bound: lookups of one audit that do not complete

(* What an audit of z asks, of a network that says dns: of the names every  *)
(* audit knows, of those it makes of its own name, and of the hosts that    *)
(* the answers name.                                                        *)
MailHosts(dns) == {r.host : r \in {x \in dns[<<"MX", "domain">>].rr : ~MxNull(x) /\ ~x.ip}}
AlwaysAsked ==
       {"MX"} \X {"domain", "mta-sts", "reports"} \cup {<<"SPF", "domain">>}
  \cup {"TXT"} \X {"_dmarc", "_dmarc.org", "_report._dmarc", "_mta-sts", "mta-sts beside",
                   "_smtp._tls", "default._bimi"}
  \cup {"fetch"} \X {"mta-sts", "logo"} \cup {"time"} \X {"report-auth", "dkim"}
  \cup {"NS"} \X {"domain", "target"} \cup {"SOA"} \X {"domain", "exists"}
  \cup {"DNSKEY"} \X {"first", "retry", "again"}
  \cup {"DS"} \X {"first", "second", "parent", "again1", "again2"}
  \cup {"validating", "unvalidating"} \X {"A", "SOA"}
Selectors(z) == IF z.selector = "" THEN {"wildcard"} \cup z.priority \cup z.fallback ELSE {z.selector}
AskedOf(z) ==
  {"DMARC"} \X ({z.n} \cup {WalkedNames(z.n)[i] : i \in DOMAIN WalkedNames(z.n)})
  \cup {"DKIM"} \X Selectors(z) \cup {"CAA"} \X (0..z.depth)
AskedOfHosts(dns) ==
  LET servers == dns[<<"NS", "domain">>].rr
  IN {"A", "AAAA"} \X (MailHosts(dns) \cup servers) \cup {"authority"} \X servers
Asked(z, dns) == AlwaysAsked \cup AskedOf(z) \cup AskedOfHosts(dns)

(* Every question has an answer, the same one when it is asked again, or it *)
(* is lost; and a DMARC record is one by the tags it has.                   *)
ASSUME ZonesAssumption ==
  \A z \in Zones :
    LET dns == Over(z.dns, Background)
    IN /\ z.n \in Nat \ {0} /\ z.depth \in Nat
       /\ Asked(z, dns) \subseteq DOMAIN dns
       /\ dns[<<"DNSKEY", "first">>] = dns[<<"DNSKEY", "retry">>]
       /\ dns[<<"DS", "again1">>] = dns[<<"DS", "again2">>]
       /\ \A q \in Asked(z, dns) \cap DOMAIN z.asks : z.asks[q] \subseteq LossCodes
       /\ \A r \in dns[<<"TXT", "_dmarc">>].rr : r.kind = "good" => r \in DmarcRecord

VARIABLES
  zone,   \* the audited zone
  lost,   \* the lookups that do not complete, each with how it ends
  phase,  \* how far the audit is
  raw,    \* the raw results of its checks
  cards,  \* the cards of the report, by name
  draft,  \* the APRF card, which stands apart from them
  plan    \* the plan and the summary
vars == <<zone, lost, phase, raw, cards, draft, plan>>

-----------------------------------------------------------------------------
(* run_full_audit: the checks, each given what the earlier ones found.      *)

(* The answers that arrive: those of the zone, but for the lost ones. *)
Answers(z, gone) ==
  Over([q \in DOMAIN gone |-> Lost(gone[q])], Over(z.dns, Background))

(* Certificate transparency is handed a copy of the results made before the *)
(* CAA check ran, so no issuer is ever named to it.                         *)
IssuersKnown == {}

ResultsWith(z, dns, mx, walk, dmarc, dnssec) ==
     [ mx |-> mx, spf |-> RawSpf(dns), dmarc |-> dmarc, walk |-> walk,
       dnssec |-> dnssec, ns |-> RawNameservers(dns, z.group, z.providers),
       caa |-> RawCaa(dns, z.depth), dane |-> RawDane(dns, mx, dnssec),
       sts |-> CheckMtaSts(dns), rpt |-> CheckTlsRpt(dns),
       bimi |-> CheckBimi(dns, ForBimi(dmarc)),
       dkim |-> IF z.selector = "" THEN SweepDkim(dns, z.priority, z.fallback)
                                   ELSE QueryDkim(dns, z.selector),
       ct |-> RawCt(dns, IssuersKnown) ]
ResultsOf(z, dns, walk) ==
  ResultsWith(z, dns, CheckMx(dns), walk, AuditDmarc(dns, walk, z.n, z.psl, z.external),
              RawDnssec(dns))
RawResults(z, dns) == ResultsOf(z, dns, TreeWalk(dns, z.n, z.psl))

(* _publishes_null_mx ... _sends_no_mail: each null record speaks for one   *)
(* direction, and for the other one only when nothing is published there.   *)
HasMx(r) == r.mx.records # {}
HasWorkingMx(r) == ~r.mx.null_mx /\ HasMx(r)
HasSendingSpf(r) == r.spf.found /\ ~r.spf.null
ReceivesNoMail(r) ==
  r.mx.null_mx \/ (r.spf.null /\ r.mx.status # "unavailable" /\ ~HasWorkingMx(r))
SendsNoMail(r) == r.spf.null \/ (r.mx.null_mx /\ ~HasSendingSpf(r))

CardNames == {"DMARC", "MX Records", "SPF", "DKIM", "MTA-STS", "TLS-RPT", "BIMI", "DNSSEC",
              "CAA", "Nameservers", "DANE", "CT"}
DrawnCard(z, r, name) ==
  CASE name = "DMARC"       -> TransformDmarc(r.dmarc, r.walk.atOrg, FALSE, z.delivery)
    [] name = "MX Records"  -> TransformMx(r.mx)
    [] name = "SPF"         -> TransformSpf(r.spf, HasMx(r))
    [] name = "DKIM"        -> TransformDkim(r.dkim, SendsNoMail(r))
    [] name = "MTA-STS"     -> TransformMtaSts(r.sts, HasMx(r), ReceivesNoMail(r))
    [] name = "TLS-RPT"     -> TransformTlsRpt(r.rpt, HasMx(r), ReceivesNoMail(r))
    [] name = "BIMI"        -> TransformBimi(r.bimi, SendsNoMail(r))
    [] name = "DNSSEC"      -> TransformDnssec(r.dnssec)
    [] name = "CAA"         -> TransformCaa(r.caa)
    [] name = "Nameservers" -> TransformNameservers(r.ns, z.belowOrg)
    [] name = "DANE"        -> TransformDane(r.dane)
    [] name = "CT"          -> TransformCt(r.ct)
DrawnCards(z, r) == [name \in CardNames |-> DrawnCard(z, r, name)]

(* The APRF record has a card of its own, apart from the twelve. *)
DraftCard(r, dns) ==
  TransformAprf(RawAprf(dns, {s.sel : s \in Live(r.dkim.found)},
                        r.dkim.timedOut \/ r.dkim.status = "unavailable"),
                SendsNoMail(r))

-----------------------------------------------------------------------------
(* The corrections. *)

(* A defensive domain says so itself, and at least twice. *)
OwnRecord(r) == r.dmarc.found /\ ~r.dmarc.multiple
OwnReject(r) == OwnRecord(r) /\ Policy(r.dmarc.record) = "reject"
IsDefensive(r) ==
  /\ r.mx.null_mx \/ r.spf.null
  /\ Cardinality({x \in {"null mx", "null spf", "reject"} :
        CASE x = "null mx" -> r.mx.null_mx [] x = "null spf" -> r.spf.null
          [] OTHER -> OwnReject(r)}) >= 2

Waived(r) ==
  (IF ReceivesNoMail(r) THEN {"MTA-STS", "TLS-RPT", "DANE"} ELSE {})
  \cup (IF SendsNoMail(r) THEN {"BIMI", "DKIM"} ELSE {})

(* The cards that do not apply, and the absent ones, whose warnings are     *)
(* facts; then the DMARC card once more.                                    *)
WaiveCard(r, name, card) ==
  IF ~IsDefensive(r) \/ name \notin Waived(r) \/ card.status \in {"pass", "absent"} THEN card
  ELSE [card EXCEPT !.status = IF name = "DKIM" THEN "pass" ELSE "absent",
                    !.label = "Not applicable"]
Soften(card) ==
  IF card.status # "absent" THEN card
  ELSE [card EXCEPT !.details = {IF d.sev = "warning" THEN Issue("info", d.about) ELSE d :
                                   d \in card.details}]
Waive(z, r, cs) ==
  [name \in DOMAIN cs |->
     IF name = "DMARC" /\ IsDefensive(r)
     THEN TransformDmarc(r.dmarc, r.walk.atOrg, TRUE, z.delivery)
     ELSE Soften(WaiveCard(r, name, cs[name]))]

(* The cross-check: a DMARC policy that SPF and DKIM do not carry. *)
XcInherited(r) == ~OwnRecord(r) /\ r.walk.isSubdomain
XcApplies(r) ==
  /\ OwnRecord(r) \/ XcInherited(r)
  /\ r.spf.status # "unavailable"
  /\ ~(r.mx.null_mx /\ ~HasSendingSpf(r))
  /\ ~(r.spf.null /\ Live(r.dkim.found) = {})
XcFinding(r) ==
  LET tags      == IF XcInherited(r) THEN NoTags ELSE r.dmarc.record
      enforcing == (IF XcInherited(r) THEN r.walk.policy ELSE Policy(tags)) \in Enforcing
      hasSpf    == r.spf.found
      live      == Live(r.dkim.found) # {}
  IN IF enforcing /\ ~hasSpf /\ r.dkim.notFound               THEN "fail"
     ELSE IF tags.adkim = "s" /\ r.dkim.notFound              THEN "warn"
     ELSE IF tags.aspf = "s" /\ ~hasSpf                       THEN "warn"
     ELSE IF enforcing /\ live /\ ~hasSpf                     THEN "warn"
     ELSE "pass"
XcRank(status) == CASE status = "warn" -> 1 [] status = "fail" -> 2 [] OTHER -> 0
CrossCheck(r, cs) ==
  IF XcApplies(r) /\ XcRank(XcFinding(r)) > XcRank(cs["DMARC"].status)
  THEN [cs EXCEPT !["DMARC"].status = XcFinding(r)]
  ELSE cs

Corrected(z, r, cs) == CrossCheck(r, Waive(z, r, cs))

-----------------------------------------------------------------------------
(* What the plan and the summary read. *)

ViewOf(z, r, cs) ==
  LET above  == AboveRegistry(r.dmarc, r.walk.atOrg)
      force  == RecordInForce(r.dmarc, r.walk.atOrg)
  IN [ cards |-> cs, dmarc |-> above, dkim |-> r.dkim, ns |-> r.ns, force |-> force,
       shown |-> IF r.dmarc.malformed THEN {r.dmarc.record} ELSE force,
       policy |-> EffectivePolicy(r.dmarc, r.walk.atOrg), inherited |-> Inherits(above),
       spf |-> [ band |-> IF HasSendingSpf(r) THEN Band(r.spf.lookups, r.spf.unknown) ELSE "ok",
                 open |-> HasSendingSpf(r) /\ (r.spf.all = "+" \/ r.spf.open),
                 configured |-> r.spf.found ],
       hasMx |-> HasMx(r), noMail |-> IsDefensive(r), null |-> r.mx.null_mx /\ r.spf.null,
       delivery |-> z.delivery ]

AdviceOn(v, rows) ==
     [ rows |-> rows, changes |-> ChangeSet(v, rows), headline |-> Headline(v),
       verdict |-> Verdict(v), spoofing |-> Spoofing(v), risk |-> BiggestRisk(v, rows),
       first |-> DoFirst(v, rows), delivery |-> Delivery(v),
       requirements |-> IF v.noMail THEN "none" ELSE Requirements(v),
       summary |-> RoadmapSummary(v, rows) ]
Advice(v) == AdviceOn(v, Roadmap(v))
NoPlan == [rows |-> <<>>]

-----------------------------------------------------------------------------
Init ==
  /\ zone \in Zones
  /\ lost = <<>>
  /\ phase = "asking"
  /\ raw = <<>> /\ cards = <<>> /\ draft = {} /\ plan = NoPlan

(* The network: one more lookup does not complete. *)
Lose(q, rc) ==
  /\ phase = "asking"
  /\ q \notin DOMAIN lost
  /\ Cardinality(DOMAIN lost) < MaxLost
  /\ lost' = Over([x \in {q} |-> rc], lost)
  /\ UNCHANGED <<zone, phase, raw, cards, draft, plan>>

RunChecks ==
  /\ phase = "asking"
  /\ raw' = RawResults(zone, Answers(zone, lost))
  /\ phase' = "checked"
  /\ UNCHANGED <<zone, lost, cards, draft, plan>>

DrawCards ==
  /\ phase = "checked"
  /\ cards' = DrawnCards(zone, raw)
  /\ draft' = {DraftCard(raw, Answers(zone, lost))}
  /\ phase' = "drawn"
  /\ UNCHANGED <<zone, lost, raw, plan>>

Correct ==
  /\ phase = "drawn"
  /\ cards' = Corrected(zone, raw, cards)
  /\ phase' = "corrected"
  /\ UNCHANGED <<zone, lost, raw, draft, plan>>

Advise ==
  /\ phase = "corrected"
  /\ plan' = Advice(ViewOf(zone, raw, cards))
  /\ phase' = "done"
  /\ UNCHANGED <<zone, lost, raw, cards, draft>>

Next ==
  \/ \E q \in DOMAIN zone.asks : \E rc \in zone.asks[q] : Lose(q, rc)
  \/ RunChecks \/ DrawCards \/ Correct \/ Advise

Spec == Init /\ [][Next]_vars
=============================================================================
