-------------------------------- MODULE Plan --------------------------------
(***************************************************************************)
(* What the report makes of all its cards together: the plan (the roadmap  *)
(* and its change set), the summary at the top, and the table of sender    *)
(* requirements (src/result_transformer.py, src/plan_records.py).          *)
(*                                                                         *)
(* They read a view `v' of the audit: v.cards, the cards by name; v.dmarc, *)
(* v.dkim and v.ns, the raw results behind three of them; v.force and      *)
(* v.shown, the record whose policy applies and the record the DMARC card  *)
(* shows (sets of at most one); v.policy and v.inherited; v.spf (the band  *)
(* of the count, and whether everyone may send); v.hasMx, v.noMail, v.null *)
(* (null MX and null SPF), and v.delivery, the scope without a DMARC rule. *)
(***************************************************************************)
EXTENDS DmarcCard, DkimCheck, SequencesExt

Unconfirmed(c) == c.status = "unavailable" /\ c.label = "Not confirmed"
Unread(c)      == c.status = "unavailable" /\ ~Unconfirmed(c)

-----------------------------------------------------------------------------
(* A sort that leaves alone what it does not tell apart: the elements of s  *)
(* at the places in I, by key and, of one key, as they stand in s.          *)

NotAfter(key, i, j) == key[i] < key[j] \/ (key[i] = key[j] /\ i <= j)
Place(I, key, i)    == Cardinality({j \in I : NotAfter(key, j, i)})
Order(I, key) ==
  LET place == [i \in I |-> Place(I, key, i)]
  IN [k \in 1..Cardinality(I) |-> CHOOSE i \in I : place[i] = k]
Taken(s, I, key) ==
  LET order == Order(I, key) IN [k \in 1..Cardinality(I) |-> s[order[k]]]

Reordered(s, key) == Taken(s, DOMAIN s, key)
Kept(s, I)        == Taken(s, I, [i \in I |-> 0])

-----------------------------------------------------------------------------
(* The rows of the plan.  A DMARC row may carry an edit of the record: the  *)
(* tags it sets and the tags it removes.                                    *)

Row(pri, proto, kind) ==
  [ pri |-> pri, proto |-> proto, kind |-> kind, set |-> <<>>, remove |-> {},
    exact |-> FALSE, hold |-> FALSE ]
RowIf(cond, row) == IF cond THEN <<row>> ELSE <<>>
EditRow(pri, kind, set, remove) ==
  [Row(pri, "DMARC", kind) EXCEPT !.set = set, !.remove = remove, !.exact = TRUE]

(* Edit that carries every tag it is not told to remove, the retired too. *)
EditKeepsRetired(r, set, remove) ==
  [tag \in DOMAIN r |->
     IF tag \in DOMAIN set THEN set[tag]
     ELSE IF tag \in remove \ {"pct"} THEN "absent" ELSE r[tag]]

(* _edit_dmarc_record: the retired tags go, but a pct below 100 stays       *)
(* unless it is what the edit removes.                                      *)
Edit(r, set, remove) ==
  LET pct == IF "pct" \notin remove /\ r.pct \in {"zero", "half"} THEN r.pct ELSE "absent"
  IN [tag \in DOMAIN r |->
        IF tag \in DOMAIN set      THEN set[tag]
        ELSE IF tag = "pct"        THEN pct
        ELSE IF tag = "odd"        THEN r.odd \ RetiredOdd
        ELSE IF tag \in remove     THEN "absent"
        ELSE r[tag] ]

HealthOf(v) ==
  IF v.force = {} THEN "none"
  ELSE CardHealth(CHOOSE r \in v.force : TRUE, v.noMail, v.cards["DMARC"].status)
WarningsOf(v) == UNION {AdvisoryWarnings(r, v.noMail) : r \in v.force}

(* Rows about the policy of a published record. *)
PolicyRows(v, r) ==
  LET lift(tag) == Weaker(r, tag)
      covered   == r.p \in Enforcing
      lowers    == \E x \in v.force : Health(x, v.noMail) = "attention"
  IN RowIf(Retired(r), EditRow(CASE r.pct = "zero" -> "high" [] r.pct = "half" -> "medium"
                                 [] OTHER -> "low", "retired tags", <<>>,
                               {t \in {"pct"} : Has(r.pct)}))
     \o RowIf(lowers /\ "Test mode weakens reject" \in WarningsOf(v),
              EditRow("medium", "test mode", <<>>, {"t"}))
     \o RowIf(lowers /\ "Test mode weakens np=reject" \in WarningsOf(v),
              EditRow("medium", "test mode of np", <<>>, {"t"}))
     \o RowIf(lift("sp"), EditRow("high", "sp", [sp |-> r.p], {}))
     \o RowIf(lift("np"), EditRow("high", "np", [np |-> r.p], {}))
     \o RowIf(~lift("sp") /\ covered /\ ~Has(r.np),
              EditRow("low", "add np", [np |-> IF r.sp \in Policies THEN r.sp ELSE r.p], {}))

DmarcRows(v) ==
  LET card   == v.cards["DMARC"]
      r      == CHOOSE x \in v.shown : TRUE
      shown  == v.shown # {} /\ card.status # "unavailable"
      health == HealthOf(v)
      staged == IF v.inherited \/ ~shown THEN "none of its own"
                ELSE StagedPolicy(card, v.dmarc, v.shown, v.delivery)
      pNone  == shown /\ r.p = "none"
      move(pri, kind, p) ==
        IF staged = p THEN [EditRow(pri, kind, [p |-> p], {}) EXCEPT !.hold = TRUE]
        ELSE [Row(pri, "DMARC", kind) EXCEPT !.hold = TRUE]
  IN RowIf(card.status = "fail" /\ card.label = "Missing",
           [Row("critical", "DMARC", "missing") EXCEPT !.exact = TRUE])
     \o RowIf(card.label = "Multiple records", Row("critical", "DMARC", "several records"))
     \o RowIf("No aggregate reporting" \in WarningsOf(v) /\ shown,
              EditRow("high", "rua", [rua |-> "mail"], {}))
     \o RowIf("Missing p= tag" \in WarningsOf(v) /\ shown, EditRow("high", "p", [p |-> "none"], {}))
     \o RowIf(\E d \in v.dmarc.destinations : d.authorized = "no",
              Row("high", "DMARC", "unauthorized destination"))
     \o RowIf(~v.delivery /\ (health = "monitoring" \/ (health = "attention" /\ pNone)),
              move("high", "enforce", "quarantine"))
     \o RowIf(staged = "reject", move("low", "reject", "reject"))
     \o (IF shown THEN PolicyRows(v, r) ELSE <<>>)

SpfRows(v) ==
  LET card == v.cards["SPF"]
  IN RowIf(card.status = "fail" /\ card.label = "Missing", Row("critical", "SPF", "missing"))
     \o RowIf(card.label = "Multiple records", Row("critical", "SPF", "several records"))
     \o RowIf(v.spf.open, Row("critical", "SPF", "open"))
     \o RowIf(v.spf.band = "over", Row("critical", "SPF", "lookups"))
     \o RowIf(v.spf.band = "near", Row("medium", "SPF", "lookups"))

(* A row for each kind of flaw among the live keys. *)
DkimFlaws == << "duplicate tag", "version", "key type", "not for email", "sha1",
                "test mode", "version order" >>
DkimRows(v) ==
  LET keys  == {s.record : s \in Live(v.dkim.found)}
      flaws == UNION {r.flaws : r \in keys}
      seen  == Kept(DkimFlaws, {i \in DOMAIN DkimFlaws : DkimFlaws[i] \in flaws})
      flaw(d) == Row(IF d \in UnusableFlaws THEN "critical" ELSE "medium", "DKIM", d)
  IN RowIf("unregistered" \in v.dkim.dangling, Row("critical", "DKIM", "unregistered"))
     \o [i \in DOMAIN seen |-> flaw(seen[i])]
     \o RowIf(\E r \in keys : Strength(r) = "invalid", Row("critical", "DKIM", "invalid key"))
     \o RowIf(\E r \in keys : Strength(r) = "weak", Row("high", "DKIM", "weak key"))

(* Rows for optional protocols that are not set up, and the rest by card.   *)
OptionalRows(v) ==
  LET absent(name) == v.hasMx /\ v.cards[name].status = "absent"
                      /\ v.cards[name].label = "Not configured"
      ns == v.cards["Nameservers"].status
      bimi == v.cards["BIMI"]
  IN RowIf(ns = "fail", Row("high", "Nameservers", "nameservers"))
     \o RowIf(ns = "warn", Row("medium", "Nameservers", "nameservers"))
     \o RowIf(absent("MTA-STS"), Row("medium", "MTA-STS", "absent"))
     \o RowIf(absent("TLS-RPT"), Row("medium", "TLS-RPT", "absent"))
     \o RowIf(v.hasMx /\ v.cards["TLS-RPT"].status = "fail", Row("medium", "TLS-RPT", "broken"))
     \o RowIf(absent("DANE"), Row("medium", "DANE", "absent"))
     \o RowIf(bimi.label = "published" /\ bimi.status # "pass", Row("low", "BIMI", "bimi"))

(* "Every card that fails or warns gets a row": where none of the rules     *)
(* made one for the protocol, the card's own fix.                           *)
Protocols ==
  << "DMARC", "SPF", "DKIM", "MX Records", "MTA-STS", "TLS-RPT", "DANE", "DNSSEC", "CAA",
     "Nameservers", "BIMI", "CT" >>
CardRows(v, rows) ==
  LET covered == {rows[i].proto : i \in DOMAIN rows}
      bare(name) == name \notin covered /\ v.cards[name].status \in {"fail", "warn"}
      row(name)  == Row(IF v.cards[name].status = "fail" THEN "high" ELSE "low", name, "card")
      names == Kept(Protocols, {i \in DOMAIN Protocols : bare(Protocols[i])})
  IN [i \in DOMAIN names |-> row(names[i])]

(* A name whose policy is its parent's, and already reject, has one row.    *)
Inheritance(v, rows) ==
  LET others == {i \in DOMAIN rows : rows[i].proto # "DMARC"}
  IN IF v.inherited /\ v.policy = "reject" /\ others # DOMAIN rows
     THEN Kept(rows, others) \o <<Row("low", "DMARC", "change it at the parent")>>
     ELSE rows

-----------------------------------------------------------------------------
(* The order of the plan. *)

PriorityRank(pri) ==
  CASE pri = "critical" -> 0 [] pri = "high" -> 1 [] pri = "medium" -> 2 [] pri = "low" -> 3 [] OTHER -> 4
StatusRank(status) ==
  CASE status = "fail" -> 0 [] status = "warn" -> 1 [] status = "absent" -> 3 [] OTHER -> 2
ProtocolRank(name) == CASE name = "DMARC" -> 0 [] name = "SPF" -> 1 [] name = "DKIM" -> 2 [] OTHER -> 3

(* Serials that differ by one change pass by themselves; far apart, they    *)
(* do not (_soa_mismatch_persistent).                                       *)
BadDetails(card) == {d \in card.details : d.sev \in {"error", "warning"}}
SerialOnly(card) == BadDetails(card) # {} /\ \A d \in BadDetails(card) : d.about = "serials differ"
Persistent(ns)   == \E p, q \in ns.probes : 0 < q.serial /\ p.serial - q.serial > 10000

Transient(v, row) ==
  row.proto = "Nameservers" /\ v.cards[row.proto].status = "warn" /\ SerialOnly(v.cards[row.proto])

(* The four ranks as the digits of one number. *)
SortKey(v, row) ==
  ((PriorityRank(row.pri) * 2 + IF Transient(v, row) THEN 1 ELSE 0) * 4
     + StatusRank(v.cards[row.proto].status)) * 4 + ProtocolRank(row.proto)
Sorted(v, rows) == Reordered(rows, [i \in DOMAIN rows |-> SortKey(v, rows[i])])

Optional(v, row)     == v.cards[row.proto].status = "absent"
SelfClearing(v, row) == row.proto = "Nameservers" /\ SerialOnly(v.cards["Nameservers"])
                        /\ ~Persistent(v.ns)

(* build_security_roadmap *)
RowsOfRules(v) == DmarcRows(v) \o SpfRows(v) \o DkimRows(v) \o OptionalRows(v)
WithCardRows(v, rules) == Inheritance(v, rules \o CardRows(v, rules))
Roadmap(v) == Sorted(v, WithCardRows(v, RowsOfRules(v)))

(* The line over an empty plan. *)
RoadmapSummary(v, plan) ==
  LET names == {"DMARC", "SPF", "DKIM", "MTA-STS", "TLS-RPT", "DANE", "BIMI"}
  IN IF plan # <<>>                                   THEN "recommendations"
     ELSE IF \E n \in names : Unread(v.cards[n])      THEN "not all clear: not read"
     ELSE IF \E n \in names : Unconfirmed(v.cards[n]) THEN "not all clear: not confirmed"
     ELSE "no action items"

-----------------------------------------------------------------------------
(* build_change_set: one entry for each record to publish.  Every edit of   *)
(* the DMARC record goes into one entry.                                    *)

PolicyLevels(r) ==
  LET level(value, fallback) == IF value \in Policies THEN Rank[value] ELSE fallback
      p  == level(r.p, 0)
      sp == level(r.sp, p)
  IN << p, sp, level(r.np, sp) >>
MakesEnforcing(before, after) ==
  \E k \in 1..3 : PolicyLevels(after)[k] > PolicyLevels(before)[k]

Entry(row, value) ==
  [ proto |-> row.proto, kind |-> row.kind, value |-> value, enforcing |-> row.hold ]

IsEdit(row) == row.proto = "DMARC" /\ row.exact /\ row.kind # "missing"

(* The merged edit, at the place of the first row that edits the record: of *)
(* a tag that two rows set, the value of the later one.                     *)
MergedSet(rows, edits) ==
  LET setting(tag) == {i \in edits : tag \in DOMAIN rows[i].set}
      last(tag)    == CHOOSE i \in setting(tag) : \A k \in setting(tag) : k <= i
  IN [tag \in UNION {DOMAIN rows[i].set : i \in edits} |-> rows[last(tag)].set[tag]]
DmarcEntry(v, rows) ==
  LET edits == {i \in DOMAIN rows : IsEdit(rows[i])}
      r     == CHOOSE x \in v.shown : TRUE
      value == Edit(r, MergedSet(rows, edits), UNION {rows[i].remove : i \in edits})
  IN [ proto |-> "DMARC", kind |-> "edit", value |-> {value},
       enforcing |-> (\E i \in edits : rows[i].hold) \/ MakesEnforcing(r, value) ]

(* The rows whose fix is a record to publish; the others are only rows.     *)
PublishesRecord(v, row) ==
  LET card == v.cards[row.proto]
      says(about) == \E d \in card.details : d.about = about
      ready == card.label = "testing" /\ BadDetails(card) = {}
  IN CASE row.kind = "change it at the parent" -> FALSE
       [] row.kind = "card" -> \/ card.label = "No mail"
                               \/ row.proto = "SPF" /\ says("neutral")
                               \/ row.proto = "MTA-STS" /\ ready
       [] OTHER -> row.proto \in {"DMARC", "SPF", "DKIM", "MTA-STS", "TLS-RPT", "BIMI"}

(* The rows that give an entry: of those that edit the record, the first.   *)
Publishing(v, rows) ==
  LET all   == {i \in DOMAIN rows : PublishesRecord(v, rows[i])}
      later == {i \in all : IsEdit(rows[i]) /\ \E k \in all : k < i /\ IsEdit(rows[k])}
  IN all \ later
Entries(v, rows) ==
  LET kept == Kept(rows, Publishing(v, rows))
  IN [k \in DOMAIN kept |-> IF IsEdit(kept[k]) THEN DmarcEntry(v, rows) ELSE Entry(kept[k], {})]

(* A change of the DMARC record that is the owner's call goes after the     *)
(* exact edit of it.                                                        *)
OwnersCall(e) == e.proto = "DMARC" /\ e.kind \in {"enforce", "reject", "several records"}
OwnersCallLast(entries) ==
  LET edits == {i \in DOMAIN entries : entries[i].kind = "edit"}
      class(i) == IF \E k \in edits : k < i           THEN 2
                  ELSE IF edits # {} /\ OwnersCall(entries[i]) THEN 1 ELSE 0
  IN Reordered(entries, [i \in DOMAIN entries |-> class(i)])

(* TLS-RPT goes ahead of MTA-STS, and the steps that enforce after every    *)
(* step of a protocol that says who sends.                                  *)
ReportsFirst(entries) ==
  LET fromSts(i) == \E k \in DOMAIN entries : k <= i /\ entries[k].proto = "MTA-STS"
      class(i)   == IF ~fromSts(i) THEN 0 ELSE IF entries[i].proto = "TLS-RPT" THEN 1 ELSE 2
  IN Reordered(entries, [i \in DOMAIN entries |-> class(i)])

SendersAsListed(entries) == entries
SendersFirst(entries) ==
  LET toSender(i) == \E k \in DOMAIN entries : i <= k /\ entries[k].proto \in {"SPF", "DKIM"}
      class(i)    == IF ~toSender(i) THEN 2 ELSE IF entries[i].enforcing THEN 1 ELSE 0
  IN Reordered(entries, [i \in DOMAIN entries |-> class(i)])

ChangeSet(v, plan) ==
  LET rows == Reordered(plan, [i \in DOMAIN plan |-> IF Optional(v, plan[i]) THEN 1 ELSE 0])
  IN SendersFirst(ReportsFirst(OwnersCallLast(Entries(v, rows))))

-----------------------------------------------------------------------------
(* build_executive_summary *)

Auth == {"DMARC", "SPF", "DKIM"}

(* The routes a forged message can take; reporting is not one of them. *)
Vectors(v) ==
  LET routes == Routes(CHOOSE r \in v.force : TRUE, v.dmarc, v.noMail,
                       IF v.inherited THEN v.policy ELSE "absent")
  IN IF v.force = {} THEN <<>>
     ELSE [x \in {"direct", "subdomain", "nonexistent"} |-> routes[x]]
RoutesWith(v, grade) == {x \in DOMAIN Vectors(v) : Vectors(v)[x] = grade}

Broken(v) == {n \in Auth : v.cards[n].status = "fail"}
Record(v) == IF v.shown = {} THEN NoTags ELSE CHOOSE r \in v.shown : TRUE
QuarantineNone(v) == v.policy = "quarantine" /\ Record(v).pct = "zero" /\ v.cards["DMARC"].status # "fail"
Testing(v) == Record(v).t = "y" /\ v.policy \in Enforcing /\ v.cards["DMARC"].status # "fail"
DefensiveClean(v) ==
  v.noMail /\ v.null /\ v.policy = "reject" /\ \A n \in DOMAIN v.cards : v.cards[n].status # "fail"

(* The verdict on forging, by the first case that holds. *)
Verdict(v) ==
  IF \E n \in Auth : Unread(v.cards[n])          THEN "not assessed"
  ELSE IF DefensiveClean(v)                      THEN "no mail"
  ELSE IF v.cards["DMARC"].label \in {"Missing", "Multiple records"} THEN "no policy"
  ELSE IF HealthOf(v) = "monitoring" /\ v.policy \in {"absent", "none"} THEN "not enforced"
  ELSE IF HealthOf(v) = "attention" /\ v.policy = "none" THEN "not enforced"
  ELSE IF Broken(v) # {} /\ RoutesWith(v, "exposed") = {} THEN "broken record"
  ELSE IF QuarantineNone(v)                      THEN "covers nothing"
  ELSE IF Testing(v)                             THEN "test mode"
  ELSE IF v.force # {} /\ Cardinality(RoutesWith(v, "protected")) = 3 THEN "refused"
  ELSE IF Cardinality(RoutesWith(v, "exposed")) >= 2 THEN "several routes open"
  ELSE IF RoutesWith(v, "exposed") # {}          THEN "a route open"
  ELSE IF RoutesWith(v, "partial") # {}          THEN "weak"
  ELSE "configured"

(* Subdomains without those that do not exist. *)
SubdomainsBySp(v) ==
  LET r == Record(v)
  IN {IF Has(r.sp) /\ ~v.inherited THEN r.sp ELSE v.policy}

(* The headline's state: green, amber, red or neither. *)
Subdomains(v) ==
  LET r  == Record(v)
      sp == IF Has(r.sp) /\ ~v.inherited THEN r.sp ELSE v.policy
      np == IF Has(r.np) /\ ~v.inherited THEN r.np ELSE sp
  IN {sp, np}
Headline(v) ==
  LET dmarc == v.cards["DMARC"]
  IN IF \E n \in Auth : Unread(v.cards[n])                    THEN "neutral"
     ELSE IF DefensiveClean(v)                                THEN "pass"
     ELSE IF dmarc.status = "fail"                            THEN "fail"
     ELSE IF Broken(v) # {} /\ RoutesWith(v, "exposed") = {}  THEN "fail"
     ELSE IF QuarantineNone(v)                                THEN "warn"
     ELSE IF (\E d \in v.dmarc.destinations : d.authorized = "no") /\ dmarc.status = "warn"
          /\ (v.policy # "none" \/ v.delivery) THEN "warn"
     ELSE IF v.policy = "none" THEN IF v.delivery /\ dmarc.status = "pass" THEN "pass" ELSE "warn"
     ELSE IF v.policy \notin Enforcing THEN "neutral"
     ELSE IF Record(v).pct \notin {"absent", "full", "over"} \/ Testing(v) THEN "warn"
     ELSE IF Subdomains(v) \cap {"none"} # {} \/ ~(Subdomains(v) \subseteq Enforcing) THEN "warn"
     ELSE IF v.policy = "reject" THEN "pass"
     ELSE "warn"

(* The box "spoofing protection". *)
Spoofing(v) ==
  LET n    == Cardinality(RoutesWith(v, "protected"))
      base == IF v.force = {}                              THEN "None"
              ELSE IF n = 3                                THEN "Full"
              ELSE IF n = 2                                THEN "Strong"
              ELSE IF RoutesWith(v, "partial") # {}        THEN "Partial"
              ELSE IF n = 1                                THEN "Weak"
              ELSE "None"
  IN IF Unread(v.cards["DMARC"])                              THEN "Not assessed"
     ELSE IF v.spf.open                                       THEN "Bypassed"
     ELSE IF Testing(v) /\ base \in {"Full", "Strong"}        THEN "Partial"
     ELSE IF base = "None" /\ v.cards["DMARC"].status # "fail" THEN "Monitoring only"
     ELSE base

(* The rows shown as the risk and under "do first". *)
Pressing(v, plan) ==
  SelectSeq(plan, LAMBDA row : row.pri # "low" /\ ~Optional(v, row) /\ ~SelfClearing(v, row))
Urgent(v, plan) ==
  \E row \in ToSet(plan) : /\ row.pri \in {"critical", "high"}
     /\ ~((\E n \in Auth : Unread(v.cards[n])) /\ row.proto = "Nameservers")
BiggestRisk(v, plan) ==
  IF (\E n \in Auth : Unread(v.cards[n])) /\ ~Urgent(v, plan) THEN "unknown"
  ELSE IF Pressing(v, plan) # <<>> THEN Pressing(v, plan)[1].pri
  ELSE IF plan # <<>>              THEN "no urgent problems"
  ELSE "nothing to fix"
DoFirst(v, plan) ==
  IF BiggestRisk(v, plan) = "unknown" THEN <<>>
  ELSE SubSeq(Pressing(v, plan), 1, IF Len(Pressing(v, plan)) > 3 THEN 3 ELSE Len(Pressing(v, plan)))

(* The line on delivery: the first issue, or what the three cards say.      *)
Delivery(v) ==
  LET dmarc == v.cards["DMARC"]
      spf   == v.cards["SPF"]
  IN IF v.noMail                                             THEN "no mail"
     ELSE IF dmarc.label \in {"Missing", "Multiple records"} THEN "dmarc issue"
     ELSE IF HealthOf(v) = "monitoring" /\ ~v.delivery       THEN "monitoring only"
     ELSE IF spf.status = "fail" /\ spf.label = "Missing"    THEN "no spf"
     ELSE IF v.spf.band \in {"over", "near"}                 THEN "spf count"
     ELSE IF \E n \in Auth : Unread(v.cards[n])              THEN "not read"
     ELSE IF \E n \in Auth : v.cards[n].status = "unavailable" THEN "not confirmed"
     ELSE IF \A n \in Auth : v.cards[n].status = "pass" THEN "set up correctly"
     ELSE "all in place"

-----------------------------------------------------------------------------
(* build_sender_requirements: what mailbox providers ask of a sender, as    *)
(* far as DNS shows it.                                                     *)
Requirement(card, configured) ==
  IF Unread(card)                                            THEN "unknown"
  ELSE IF card.status = "fail"                               THEN "not met"
  ELSE IF configured /\ card.status \in {"pass", "warn"}     THEN "met"
  ELSE "unknown"
Requirements(v) ==
  LET rows == [ SPF   |-> Requirement(v.cards["SPF"], v.spf.configured),
                DKIM  |-> Requirement(v.cards["DKIM"], Live(v.dkim.found) # {} \/ v.dkim.noKey # {}),
                DMARC |-> Requirement(v.cards["DMARC"], v.shown # {}) ]
      all  == {rows[n] : n \in DOMAIN rows}
  IN IF "not met" \in all THEN "fail" ELSE IF all = {"met"} THEN "pass" ELSE "neutral"
=============================================================================
