----------------------------- MODULE LossProofs -----------------------------
(***************************************************************************)
(* That a lookup that does not complete turns no card red, for every zone  *)
(* and any number of lost lookups: check by check, what an audit over the  *)
(* answers that arrive finds wrong, the audit over all of them finds too.  *)
(***************************************************************************)
EXTENDS ReportProofs

-----------------------------------------------------------------------------
(* Answers and issues. *)

(* b's answer to q as a hears it: as it is, or not at all. *)
Heard(a, b, q) == a[q] = b[q] \/ (IsLost(a[q]) /\ a[q].rr = {})

LEMMA IssuesAre ==
  /\ \A S, T, sev : Severe(S \cup T, sev) <=> (Severe(S, sev) \/ Severe(T, sev))
  /\ \A s, about, sev : Severe({Issue(s, about)}, sev) <=> s = sev
  /\ \A sev : ~Severe({}, sev)
  /\ \A S : Severe(S, "error") => Severe(Details(S), "error")
  /\ \A S, T, sev : S \subseteq T /\ Severe(S, sev) => Severe(T, sev)
  /\ \A S : RawStatus(S) \in {"error", "warning", "ok"} /\ (RawStatus(S) = "error" <=> Severe(S, "error"))
<1>1. \A s, about : Issue(s, about).sev = s /\ Issue(s, about).about = about
  BY DEF Issue
<1>2. ASSUME NEW S, Severe(S, "error") PROVE Severe(Details(S), "error")
  <2>1. PICK i \in S : i.sev = "error"
    BY <1>2 DEF Severe
  <2>2. Issue(DetailType(i.sev), i.about) \in Details(S)
    BY DEF Details
  <2>3. DetailType(i.sev) = "error"
    BY <2>1 DEF DetailType
  <2> QED BY <1>1, <2>2, <2>3 DEF Severe
<1>3. \A S, T, sev : Severe(S \cup T, sev) <=> (Severe(S, sev) \/ Severe(T, sev))
  BY DEF Severe
<1>4. /\ \A s, about, sev : Severe({Issue(s, about)}, sev) <=> s = sev
      /\ \A sev : ~Severe({}, sev)
  BY <1>1 DEF Severe
<1>6. \A S, T, sev : S \subseteq T /\ Severe(S, sev) => Severe(T, sev)
  BY DEF Severe
<1>7. \A S : RawStatus(S) \in {"error", "warning", "ok"} /\ (RawStatus(S) = "error" <=> Severe(S, "error"))
  BY DEF RawStatus
<1> QED BY <1>2, <1>3, <1>4, <1>6, <1>7

\* An issue that is raised under a condition.
LEMMA IfSevere ==
  \A c, s, about : /\ c /\ s = "error" => Severe(IssueIf(c, s, about), "error")
                   /\ ~c => ~Severe(IssueIf(c, s, about), "error")
                   /\ s # "error" => ~Severe(IssueIf(c, s, about), "error")
BY IssuesAre, Zenon DEF IssueIf

LEMMA MildIs ==
  \A c, about : /\ ~Severe(IssueIf(c, "warning", about), "error")
                /\ ~Severe(IssueIf(c, "info", about), "error")
<1>1. "warning" # "error" /\ "info" # "error"
  OBVIOUS
<1> QED BY <1>1, IfSevere, Zenon

\* The two ends of a status: a raw error is red, nothing else is.
LEMMA MapStatusRed ==
  \A S : MapStatus(RawStatus(S)) = "fail" <=> Severe(S, "error")
BY IssuesAre DEF MapStatus

\* A wrong card that is drawn stays wrong, and one that is red was drawn red.
LEMMA RedSurvives ==
  ASSUME NEW r, NEW name, NEW card, IsCard(card)
  PROVE  LET left == Soften(WaiveCard(r, name, card))
         IN /\ left.status = "fail" => card.status = "fail" /\ ~(IsDefensive(r) /\ name \in Waived(r))
            /\ ~(IsDefensive(r) /\ name \in Waived(r)) => left.status = card.status
            /\ Severe(card.details, "error") => Severe(left.details, "error")
<1> DEFINE waived == WaiveCard(r, name, card)
           left   == Soften(waived)
           due    == IsDefensive(r) /\ name \in Waived(r)
<1>1. /\ IsCard(waived) /\ (~due => waived = card)
      /\ \/ waived = card
         \/ waived.status = IF name = "DKIM" THEN "pass" ELSE "absent"
  BY WaiverIs
<1>2. due /\ waived = card => card.status # "fail"
  <2> SUFFICES ASSUME due, waived = card, card.status = "fail" PROVE FALSE
    OBVIOUS
  <2> DEFINE status == IF name = "DKIM" THEN "pass" ELSE "absent"
  <2>1. waived = [card EXCEPT !.status = status, !.label = "Not applicable"]
    BY DEF WaiveCard
  <2> HIDE DEF waived
  <2>2. waived.status = status
    BY <2>1 DEF IsCard
  <2> QED BY <2>2
<1>3. waived.details = card.details
  <2> DEFINE status == IF name = "DKIM" THEN "pass" ELSE "absent"
  <2>1. waived = card \/ waived = [card EXCEPT !.status = status, !.label = "Not applicable"]
    BY DEF WaiveCard
  <2> HIDE DEF waived, status
  <2> QED BY <2>1 DEF IsCard
<1> HIDE DEF waived
<1>4. left.status = waived.status
  BY <1>1, SoftenKeeps
<1>5. Severe(waived.details, "error") => Severe(left.details, "error")
  <2> SUFFICES ASSUME NEW d \in waived.details, d.sev = "error" PROVE Severe(left.details, "error")
    BY DEF Severe
  <2> DEFINE soft == {IF x.sev = "warning" THEN Issue("info", x.about) ELSE x : x \in waived.details}
  <2>1. d \in soft
    OBVIOUS
  <2>2. left = IF waived.status # "absent" THEN waived ELSE [waived EXCEPT !.details = soft]
    BY DEF Soften
  <2> HIDE DEF left, soft
  <2>3. d \in left.details
    BY <1>1, <2>1, <2>2 DEF IsCard
  <2> QED BY <2>3 DEF Severe
<1> HIDE DEF left
<1> QED BY <1>1, <1>2, <1>3, <1>4, <1>5 DEF left, waived

-----------------------------------------------------------------------------
(* Cards. *)

(* A card is red, and a card has a line that says what is wrong. *)
Red(c) == c.status = "fail"
Faulty(c) == Severe(c.details, "error")

LEMMA CardTells ==
  /\ \A status, label, details :
       /\ Red(Card(status, label, details)) <=> status = "fail"
       /\ Faulty(Card(status, label, details)) <=> Severe(details, "error")
  /\ \A label : ~Red(Unavailable(label))
<1>1. ASSUME NEW status, NEW label, NEW details
      PROVE  Card(status, label, details).status = status /\ Card(status, label, details).details = details
  BY DEF Card
<1>2. \A label : Unavailable(label).status = "unavailable"
  BY <1>1 DEF Unavailable
<1> QED BY <1>1, <1>2 DEF Red, Faulty

\* What is not red.
LEMMA NotRed ==
  /\ \A label, details : /\ ~Red(Card("pass", label, details)) /\ ~Red(Card("warn", label, details))
                         /\ ~Red(Card("absent", label, details)) /\ Red(Card("fail", label, details))
  /\ \A label : ~Red(Unavailable(label))
<1>1. \A label, details : ~Red(Card("pass", label, details))
  BY CardTells
<1>2. \A label, details : ~Red(Card("warn", label, details))
  BY CardTells
<1>3. \A label, details : ~Red(Card("absent", label, details))
  BY CardTells
<1>4. \A label, details : Red(Card("fail", label, details))
  BY CardTells
<1>5. \A label : ~Red(Unavailable(label))
  BY CardTells
<1> QED BY <1>1, <1>2, <1>3, <1>4, <1>5, Zenon

-----------------------------------------------------------------------------
(* The checks of the zone and of its mail hosts. *)

\* What is wrong with the MX records of two audits that hear of the same.
LEMMA MxHostsAre ==
  ASSUME NEW dns, NEW real
  PROVE  Severe(MxHostIssues(dns, real), "error") <=>
           (\E r \in real : r.ip) \/ (\E r \in real : ~r.ip /\ MxResolved(dns, r) = "no")
<1> DEFINE ip      == \E r \in real : r.ip
           unknown == \E r \in real : ~r.ip /\ MxResolved(dns, r) = "unknown"
           no      == \E r \in real : ~r.ip /\ MxResolved(dns, r) = "no"
           single  == \E r \in real : Cardinality(real) = 1 /\ r.provider = "none"
           Ip  == IssueIf(ip, "error", "mx is an address")
           Un  == IssueIf(unknown, "info", "host not checked")
           No  == IssueIf(no, "error", "dangling mx")
           One == IssueIf(single, "warning", "single mx")
<1>1. MxHostIssues(dns, real) = Ip \cup Un \cup No \cup One
  BY DEF MxHostIssues
<1>2. /\ Severe(Ip, "error") <=> ip
      /\ Severe(No, "error") <=> no
  BY IfSevere, Zenon
<1>4. ~Severe(Un, "error")
  BY MildIs, Zenon
<1>5. ~Severe(One, "error")
  BY MildIs, Zenon
<1> HIDE DEF ip, unknown, no, single, Ip, Un, No, One
<1>6. Severe(MxHostIssues(dns, real), "error") <=> ip \/ no
  BY <1>1, <1>2, <1>4, <1>5 DEF Severe
<1> QED BY <1>6 DEF ip, no

\* An MX record that a finds wrong is wrong: it is an address, or its host does not
\* resolve by two answers that both arrived (check_mx).
LEMMA MxIsTold ==
  ASSUME NEW a, NEW b, Heard(a, b, <<"MX", "domain">>),
         \A h \in MailHosts(b), t \in {"A", "AAAA"} : Heard(a, b, <<t, h>>),
         Red(TransformMx(CheckMx(a)))
  PROVE  Faulty(TransformMx(CheckMx(b)))
<1> DEFINE mx    == a[<<"MX", "domain">>]
           nulls == {r \in mx.rr : MxNull(r)}
           real  == mx.rr \ nulls
           isNull == Cardinality(mx.rr) = 1 /\ \E r \in nulls : r.pref = 0
           about == IF real # {} THEN "null mx beside others" ELSE "null mx preference"
           Null == IssueIf(nulls # {}, "error", about)
           issues(dns) == Null \cup MxHostIssues(dns, real)
           details(dns) == {[host |-> r.host, provider |-> r.provider,
                             resolved |-> MxResolved(dns, r)] : r \in real}
           null == [ status |-> "info", records |-> mx.rr, null_mx |-> TRUE,
                     misconfigured |-> FALSE, details |-> {}, issues |-> {Issue("info", "null mx")} ]
           found(dns) == [ status |-> RawStatus(issues(dns)), records |-> mx.rr,
                           null_mx |-> FALSE, misconfigured |-> nulls # {},
                           details |-> details(dns), issues |-> issues(dns) ]
<1>1. ASSUME NEW m
      PROVE  /\ m.null_mx = TRUE \/ m.records = {} => ~Red(TransformMx(m))
             /\ m.null_mx = FALSE /\ m.status # "unavailable" /\ m.records # {} =>
                  /\ Red(TransformMx(m)) => MapStatus(m.status) = "fail"
                  /\ Severe(Details(m.issues), "error") => Faulty(TransformMx(m))
  <2> DEFINE hosts == {Issue(IF d.resolved = "yes" THEN "good" ELSE "error",
                             IF d.resolved = "yes" THEN "resolves" ELSE "dangling mx") : d \in m.details}
             label == IF m.misconfigured THEN "null mx misconfigured"
                      ELSE IF \E d \in m.details : d.provider # "none" THEN "provider"
                      ELSE "hosts"
             lines == hosts \cup Details(m.issues)
             status == MapStatus(m.status)
  <2>1. TransformMx(m) = IF m.status = "unavailable" THEN Unavailable("Not checked")
                         ELSE IF m.null_mx      THEN Card("pass", "Null MX", Details(m.issues))
                         ELSE IF m.records = {} THEN Card("warn", "None", Details(m.issues))
                         ELSE Card(status, label, lines)
    BY DEF TransformMx
  <2>2. Severe(Details(m.issues), "error") => Severe(lines, "error")
    <3> HIDE DEF hosts
    <3> QED BY IssuesAre
  <2> HIDE DEF label, lines, status
  <2> DEFINE lines1 == Details(m.issues)
  <2>3. m.null_mx = TRUE \/ m.records = {} => ~Red(TransformMx(m))
    <3> HIDE DEF lines1
    <3>1. m.null_mx = TRUE \/ m.records = {} =>
            \/ TransformMx(m) = Unavailable("Not checked")
            \/ TransformMx(m) = Card("pass", "Null MX", lines1)
            \/ TransformMx(m) = Card("warn", "None", lines1)
      BY <2>1 DEF lines1
    <3>2. /\ ~Red(Unavailable("Not checked"))
          /\ ~Red(Card("pass", "Null MX", lines1)) /\ ~Red(Card("warn", "None", lines1))
      BY NotRed, Zenon
    <3> QED BY <3>1, <3>2, Zenon
  <2>4. m.null_mx = FALSE /\ m.status # "unavailable" /\ m.records # {} =>
          TransformMx(m) = Card(status, label, lines)
    BY <2>1
  <2>5. m.null_mx = FALSE /\ m.status # "unavailable" /\ m.records # {} =>
          /\ Red(TransformMx(m)) => status = "fail"
          /\ Severe(Details(m.issues), "error") => Faulty(TransformMx(m))
    BY <2>2, <2>4, CardTells
  <2> QED BY <2>3, <2>5 DEF status
<1>2. ~Red(TransformMx(null)) /\ \A s, i : ~Red(TransformMx(MxEmpty(s, i)))
  <2>1. null.null_mx = TRUE
    OBVIOUS
  <2>2. \A s, i : MxEmpty(s, i).records = {}
    BY DEF MxEmpty
  <2> HIDE DEF null
  <2> QED BY <1>1, <2>1, <2>2
<1>3. ~IsLost(mx) /\ mx.rc # "nx" /\ mx.rr # {} /\ ~isNull /\ CheckMx(a) = found(a)
  <2> DEFINE lostMx == MxEmpty("unavailable", {Issue("info", "mx lookup failed")})
             noSuch == MxEmpty("error", {Issue("error", "no such domain")})
             noMx   == MxEmpty("warning", {Issue("warning", "no mx records")})
  <2>1. CheckMx(a) = IF IsLost(mx)       THEN lostMx
                     ELSE IF mx.rc = "nx" THEN noSuch
                     ELSE IF mx.rr = {}  THEN noMx
                     ELSE IF isNull      THEN null ELSE found(a)
    BY DEF CheckMx
  <2>2. ~Red(TransformMx(lostMx)) /\ ~Red(TransformMx(noSuch)) /\ ~Red(TransformMx(noMx))
    BY <1>2
  <2> HIDE DEF isNull, null, found, lostMx, noSuch, noMx
  <2> QED BY <1>2, <2>1, <2>2
<1>4. b[<<"MX", "domain">>] = mx
  BY <1>3 DEF Heard
<1>5. CheckMx(b) = found(b)
  BY <1>3, <1>4 DEF CheckMx
<1>6. ASSUME NEW dns
      PROVE  /\ Red(TransformMx(found(dns))) => Severe(issues(dns), "error")
             /\ Severe(issues(dns), "error") => Faulty(TransformMx(found(dns)))
  <2> DEFINE m == found(dns)
             i == issues(dns)
  <2>1. m.status = RawStatus(i) /\ m.null_mx = FALSE /\ m.records # {} /\ m.issues = i
    BY <1>3
  <2> HIDE DEF m, i
  <2>2. m.status # "unavailable"
    BY <2>1, IssuesAre
  <2>3. /\ Red(TransformMx(m)) => MapStatus(RawStatus(i)) = "fail"
        /\ Severe(Details(i), "error") => Faulty(TransformMx(m))
    BY <1>1, <2>1, <2>2
  <2> QED BY <2>3, MapStatusRed, IssuesAre DEF i, m
<1>7. ASSUME NEW r \in real, ~r.ip, MxResolved(a, r) = "no" PROVE MxResolved(b, r) = "no"
  <2>1. r.host \in MailHosts(b)
    BY <1>4, <1>7 DEF MailHosts
  <2>2. Heard(a, b, <<"A", r.host>>) /\ Heard(a, b, <<"AAAA", r.host>>)
    BY <2>1
  <2> QED BY <1>7, <2>2 DEF MxResolved, Heard
<1> HIDE DEF isNull, null, found, real, Null
<1>8. Severe(issues(a), "error") => Severe(issues(b), "error")
  <2>1. \A dns : Severe(issues(dns), "error") <=>
          Severe(Null, "error") \/ Severe(MxHostIssues(dns, real), "error")
    BY IssuesAre
  <2>2. Severe(MxHostIssues(a, real), "error") => Severe(MxHostIssues(b, real), "error")
    BY <1>7, MxHostsAre
  <2> QED BY <2>1, <2>2
<1> HIDE DEF issues
<1> QED BY <1>3, <1>5, <1>6, <1>8

\* What a graded check says of its card: red for an error, and the error in a line of it.
LEMMA GradedTells ==
  \A I, label, lines :
    Details(I) \subseteq lines =>
      /\ Red(Card(MapStatus(RawStatus(I)), label, lines)) <=> Severe(I, "error")
      /\ \A status : Severe(I, "error") => Faulty(Card(status, label, lines))
<1> SUFFICES ASSUME NEW I, NEW label, NEW lines, Details(I) \subseteq lines
             PROVE  /\ Red(Card(MapStatus(RawStatus(I)), label, lines)) <=> Severe(I, "error")
                    /\ \A status : Severe(I, "error") => Faulty(Card(status, label, lines))
  OBVIOUS
<1>1. Red(Card(MapStatus(RawStatus(I)), label, lines)) <=> Severe(I, "error")
  BY CardTells, MapStatusRed
<1>2. Severe(I, "error") => Severe(lines, "error")
  BY IssuesAre
<1> QED BY <1>1, <1>2, CardTells

-----------------------------------------------------------------------------
(* DNSSEC *)

\* The key set of a, if it has one, is what b has.
LEMMA KeysAreHeard ==
  ASSUME NEW a, NEW b, Heard(a, b, <<"DNSKEY", "first">>), Heard(a, b, <<"DNSKEY", "retry">>),
         b[<<"DNSKEY", "first">>] = b[<<"DNSKEY", "retry">>], ~IsLost(DnskeyHeard(a))
  PROVE  DnskeyHeard(b) = DnskeyHeard(a)
<1> DEFINE first == a[<<"DNSKEY", "first">>]
           retry == a[<<"DNSKEY", "retry">>]
<1>1. \A x : IsLost(x) <=> x.rc = "timeout" \/ x.rc = "failed"
  BY DEF IsLost, LossCodes
<1>2. CASE first.rc # "timeout"
  <2>1. DnskeyHeard(a) = first
    BY <1>2 DEF DnskeyHeard
  <2>2. b[<<"DNSKEY", "first">>] = first
    BY <2>1 DEF Heard
  <2> QED BY <1>2, <2>1, <2>2 DEF DnskeyHeard
<1>3. CASE first.rc = "timeout"
  <2>1. DnskeyHeard(a) = IF Got(retry) THEN retry ELSE Lost("timeout")
    BY <1>3 DEF DnskeyHeard
  <2>2. IsLost(Lost("timeout"))
    BY DEF IsLost, LossCodes, Lost
  <2>3. Got(retry) /\ DnskeyHeard(a) = retry
    BY <2>1, <2>2
  <2>4. b[<<"DNSKEY", "first">>] = retry
    BY <1>1, <2>3 DEF Heard, Got
  <2>5. retry.rc # "timeout"
    BY <2>3 DEF Got
  <2> QED BY <2>3, <2>4, <2>5 DEF DnskeyHeard
<1> QED BY <1>2, <1>3

\* What the DNSSEC check finds wrong, and what its card says of it.
LEMMA DnssecIs ==
  ASSUME NEW dns
  PROVE  LET heard == DnskeyHeard(dns)
             faulty == \/ \E k \in heard.rr : k.alg = "deprecated"
                       \/ heard.rc = "nx"
                       \/ ~Got(heard) /\ ProbeBogus(dns)
                       \/ DsFound(dns) /\ Got(heard) /\ ChainValid(dns) = "no"
         IN /\ Red(TransformDnssec(RawDnssec(dns))) => ~IsLost(heard) /\ faulty
            /\ ~IsLost(heard) /\ faulty => Faulty(TransformDnssec(RawDnssec(dns)))
<1> DEFINE heard  == DnskeyHeard(dns)
           signed == Got(heard)
           ad     == signed /\ heard.ad
           bogus  == ~signed /\ ProbeBogus(dns)
           ds     == DsFound(dns)
           chain  == IF ds /\ signed THEN ChainValid(dns) ELSE "unknown"
           old    == \E k \in heard.rr : k.alg = "deprecated"
           legacy == \E k \in heard.rr : k.alg = "legacy"
           none   == heard.rc = "nx"
           mismatch == chain = "no"
           Old    == IssueIf(old, "error", "algorithm deprecated")
           Legacy == IssueIf(legacy, "warning", "algorithm legacy")
           None   == IssueIf(none, "error", "no such domain")
           NotAsked == IssueIf(IsLost(heard), "warning", "dnskey lookup failed")
           Bogus  == IssueIf(bogus, "error", "bogus")
           noDs   == signed /\ ~ds
           mild   == IF ad THEN "info" ELSE "warning"
           NoDs   == IssueIf(noDs, mild, "no ds")
           Mismatch == IssueIf(mismatch, "error", "ds mismatch")
           issues == DnskeyIssues(heard) \cup Bogus \cup NoDs \cup Mismatch
           raw_   == RawDnssec(dns)
           faulty == old \/ none \/ bogus \/ mismatch
<1>1. /\ Severe(Old, "error") <=> old
      /\ Severe(None, "error") <=> none
  BY IfSevere, Zenon
<1>2. /\ Severe(Bogus, "error") <=> bogus
      /\ Severe(Mismatch, "error") <=> mismatch
  BY IfSevere, Zenon
<1>4. ~Severe(Legacy, "error")
  BY MildIs, Zenon
<1>5. ~Severe(NotAsked, "error")
  BY MildIs, Zenon
<1>6. ~Severe(NoDs, "error")
  <2>1. CASE ad
    <3>1. mild = "info"
      BY <2>1
    <3> QED BY <3>1, MildIs
  <2>2. CASE ~ad
    <3>1. mild = "warning"
      BY <2>2
    <3> QED BY <3>1, MildIs
  <2> QED BY <2>1, <2>2
<1>7. DnskeyIssues(heard) = Old \cup Legacy \cup None \cup NotAsked
  BY DEF DnskeyIssues
<1>8. /\ raw_.has_dnssec = signed /\ raw_.lookup_failed = IsLost(heard) /\ raw_.deprecated = old
      /\ raw_.chain_valid = chain /\ raw_.issues = issues /\ raw_.status = RawStatus(issues)
      /\ raw_.state = DnssecState(bogus, signed, ds)
  BY DEF RawDnssec
<1> HIDE DEF Old, Legacy, None, NotAsked, Bogus, NoDs, Mismatch
<1>9. Severe(issues, "error") <=> faulty
  <2>1. Severe(issues, "error") <=> Severe(DnskeyIssues(heard), "error") \/ Severe(Bogus, "error")
                                    \/ Severe(NoDs, "error") \/ Severe(Mismatch, "error")
    BY DEF Severe
  <2>2. Severe(DnskeyIssues(heard), "error") <=> Severe(Old, "error") \/ Severe(Legacy, "error")
                                    \/ Severe(None, "error") \/ Severe(NotAsked, "error")
    BY <1>7 DEF Severe
  <2> HIDE DEF issues, old, legacy, none, bogus, mismatch, heard
  <2> QED BY <1>1, <1>2, <1>4, <1>5, <1>6, <2>1, <2>2
<1>10. raw_.state = "bogus" => bogus
  <2> HIDE DEF bogus, signed, ds
  <2> QED BY <1>8 DEF DnssecState
<1> DEFINE lines == Details(raw_.issues)
           label == IF raw_.state = "signed_unanchored" THEN "Signed but unanchored" ELSE "signed"
           status == DnssecStatus(raw_)
           card  == TransformDnssec(raw_)
<1>11. card = IF raw_.lookup_failed        THEN Unavailable("Not confirmed")
              ELSE IF raw_.state = "bogus" THEN Card("fail", "Bogus", lines)
              ELSE IF ~raw_.has_dnssec     THEN Card("absent", "Not configured", lines)
              ELSE Card(status, label, lines)
  BY DEF TransformDnssec
<1>12. status = "fail" => faulty
  <2>1. status = IF raw_.deprecated                         THEN "fail"
                 ELSE IF raw_.chain_valid = "no"            THEN "fail"
                 ELSE IF raw_.state = "signed_unanchored"   THEN "warn"
                 ELSE IF ~raw_.has_ds /\ ~raw_.validated    THEN "warn"
                 ELSE MapStatus(raw_.status)
    BY DEF DnssecStatus
  <2>2. MapStatus(raw_.status) = "fail" <=> Severe(issues, "error")
    BY <1>8, MapStatusRed
  <2> HIDE DEF status, raw_, issues, old, none, bogus
  <2>3. CASE raw_.deprecated
    BY <1>8, <2>3
  <2>4. CASE raw_.chain_valid = "no"
    BY <1>8, <2>4
  <2>5. CASE MapStatus(raw_.status) = "fail"
    BY <1>9, <2>2, <2>5
  <2> QED BY <2>1, <2>3, <2>4, <2>5
<1>13. Severe(issues, "error") => Severe(lines, "error")
  BY <1>8, IssuesAre
<1> HIDE DEF card, lines, label, status, raw_, issues, bogus, old, none, mismatch, heard, signed
<1>14. Red(card) => ~IsLost(heard) /\ faulty
  <2>1. Red(card) => ~raw_.lookup_failed
    BY <1>11, NotRed
  <2>2. raw_.state = "bogus" => faulty
    BY <1>10
  <2>3. Red(card) /\ raw_.state # "bogus" => card = Card(status, label, lines)
    BY <1>11, NotRed
  <2>4. Red(card) /\ raw_.state # "bogus" => status = "fail"
    BY <2>3, CardTells
  <2> QED BY <1>8, <1>12, <2>1, <2>2, <2>4
<1>15. ~IsLost(heard) /\ faulty => Faulty(card)
  <2> SUFFICES ASSUME ~IsLost(heard), faulty PROVE Faulty(card)
    OBVIOUS
  <2>1. \E s, l : card = Card(s, l, lines)
    BY <1>8, <1>11
  <2> QED BY <1>9, <1>13, <2>1, CardTells
<1> QED BY <1>14, <1>15 DEF card, raw_, bogus, old, none, mismatch, heard, signed

\* A red DNSSEC card is red by what arrived: keys that are old, a name that is not there,
\* an answer that does not validate, or a DS that matches none of the keys.
LEMMA DnssecIsTold ==
  ASSUME NEW a, NEW b,
         \A i \in {"first", "retry", "again"} : Heard(a, b, <<"DNSKEY", i>>),
         \A i \in {"first", "second", "parent", "again1", "again2"} : Heard(a, b, <<"DS", i>>),
         \A who \in {"validating", "unvalidating"}, t \in {"A", "SOA"} : Heard(a, b, <<who, t>>),
         b[<<"DNSKEY", "first">>] = b[<<"DNSKEY", "retry">>],
         b[<<"DS", "again1">>] = b[<<"DS", "again2">>],
         Red(TransformDnssec(RawDnssec(a)))
  PROVE  Faulty(TransformDnssec(RawDnssec(b)))
<1> DEFINE heard == DnskeyHeard(a)
           faulty(dns) == \/ \E k \in heard.rr : k.alg = "deprecated"
                          \/ heard.rc = "nx"
                          \/ ~Got(heard) /\ ProbeBogus(dns)
                          \/ DsFound(dns) /\ Got(heard) /\ ChainValid(dns) = "no"
<1>1. \A x : IsLost(x) <=> x.rc = "timeout" \/ x.rc = "failed"
  BY DEF IsLost, LossCodes
<1>2. ~IsLost(heard) /\ faulty(a)
  BY DnssecIs
<1>3. DnskeyHeard(b) = heard
  BY <1>2, KeysAreHeard
<1>4. ProbeBogus(a) => ProbeBogus(b)
  <2> SUFFICES ASSUME ProbeBogus(a) PROVE ProbeBogus(b)
    OBVIOUS
  <2> DEFINE qtype == IF a[<<"validating", "A">>].rc = "nx" THEN "SOA" ELSE "A"
  <2>1. a[<<"validating", qtype>>].rc = "servfail" /\ Got(a[<<"unvalidating", qtype>>])
    BY DEF ProbeBogus
  <2>2. qtype \in {"A", "SOA"}
    OBVIOUS
  <2>3. b[<<"validating", qtype>>] = a[<<"validating", qtype>>]
        /\ b[<<"unvalidating", qtype>>] = a[<<"unvalidating", qtype>>]
    BY <1>1, <2>1, <2>2 DEF Heard, Got
  <2>4. b[<<"validating", "A">>] = a[<<"validating", "A">>]
    BY <1>1, <2>3 DEF Heard
  <2> QED BY <2>1, <2>3, <2>4 DEF ProbeBogus
<1>5. \A i \in {"first", "second", "parent", "again1", "again2"} :
        Got(a[<<"DS", i>>]) => b[<<"DS", i>>] = a[<<"DS", i>>]
  BY <1>1 DEF Heard, Got
<1>6. DsFound(a) => DsFound(b)
  BY <1>5 DEF DsFound
<1>7. ChainValid(a) = "no" => ChainValid(b) = "no"
  <2> SUFFICES ASSUME ChainValid(a) = "no" PROVE ChainValid(b) = "no"
    OBVIOUS
  <2> DEFINE ds(dns) == IF Got(dns[<<"DS", "again1">>]) THEN dns[<<"DS", "again1">>]
                                                        ELSE dns[<<"DS", "again2">>]
             key(dns) == dns[<<"DNSKEY", "again">>]
  <2>1. Got(ds(a)) /\ Got(key(a)) /\ ~\E d \in ds(a).rr, k \in key(a).rr : d.tag = k.tag
    BY DEF ChainValid
  <2>2. key(b) = key(a)
    BY <1>1, <2>1 DEF Heard, Got
  <2>3. ds(b) = ds(a)
    BY <1>5, <2>1
  <2> QED BY <2>1, <2>2, <2>3 DEF ChainValid
<1> HIDE DEF heard
<1>8. faulty(b)
  BY <1>2, <1>4, <1>6, <1>7
<1> QED BY <1>2, <1>3, <1>8, DnssecIs

-----------------------------------------------------------------------------
(* CAA *)

\* The records themselves are never an error.
LEMMA CaaRecordsAre == \A rs : ~Severe(CaaRecordIssues(rs), "error")
<1> SUFFICES ASSUME NEW rs PROVE ~Severe(CaaRecordIssues(rs), "error")
  OBVIOUS
<1> DEFINE issue == Tagged(rs, "issue") # {}
           wild  == Tagged(rs, "issuewild") # {}
           c1 == \E r \in rs : r.critical /\ r.tag = "other"
           c2 == issue /\ ~Names(rs, "issue")
           c4 == issue /\ ~wild
           c5 == issue /\ Tagged(rs, "iodef") = {}
           I1 == IssueIf(c1, "warning", "unknown critical tag")
           I2 == IssueIf(c2, "info", "issuance blocked")
           I3 == IssueIf(~issue, "warning", "no issuer named")
           I4 == IssueIf(c4, "info", "no issuewild")
           I5 == IssueIf(c5, "info", "no iodef")
<1>1. CaaRecordIssues(rs) = I1 \cup I2 \cup I3 \cup I4 \cup I5
  BY DEF CaaRecordIssues
<1>2. /\ ~Severe(I1, "error") /\ ~Severe(I2, "error") /\ ~Severe(I3, "error")
      /\ ~Severe(I4, "error") /\ ~Severe(I5, "error")
  BY MildIs, Zenon
<1> HIDE DEF I1, I2, I3, I4, I5
<1> QED BY <1>1, <1>2 DEF Severe

\* What the CAA check finds wrong is that the name is not there.
LEMMA CaaIs ==
  ASSUME NEW walk
  PROVE  LET none == walk.found = FALSE /\ walk.anyFailed
         IN /\ Red(TransformCaa(RawCaaOf(walk))) =>
                 walk.noDomain /\ walk.records # {}
            /\ walk.noDomain /\ ~(~walk.found /\ walk.anyFailed) => Faulty(TransformCaa(RawCaaOf(walk)))
<1> DEFINE raw_ == RawCaaOf(walk)
           issues == CaaIssues(walk)
           inherits == walk.found /\ walk.source # 1
           empty == walk.records = {}
           said == IF walk.found THEN CaaRecordIssues(walk.records) ELSE {}
           NoDomain == IssueIf(walk.noDomain, "error", "no such domain")
           Inherited_ == IssueIf(inherits, "info", "inherited")
           Empty == IssueIf(empty, "warning", "no caa records")
<1>1. issues = NoDomain \cup said \cup Inherited_ \cup Empty
  BY DEF CaaIssues
<1>2. /\ walk.noDomain => Severe(NoDomain, "error")
      /\ ~walk.noDomain => ~Severe(NoDomain, "error")
  BY IssuesAre DEF IssueIf
<1>3. ~Severe(Inherited_, "error") /\ ~Severe(Empty, "error")
  BY MildIs, Zenon
<1>4. ~Severe(said, "error")
  BY CaaRecordsAre, IssuesAre
<1> HIDE DEF NoDomain, Inherited_, Empty, said, issues
<1>5. Severe(issues, "error") <=> walk.noDomain
  BY <1>1, <1>2, <1>3, <1>4 DEF Severe
<1>6. /\ raw_.lookup_failed <=> (~walk.found /\ walk.anyFailed)
      /\ raw_.records = walk.records /\ raw_.issues = issues /\ raw_.status = RawStatus(issues)
  BY DEF RawCaaOf, CaaFound, issues
<1> DEFINE lines == Details(issues)
           mapped == MapStatus(RawStatus(issues))
           status == IF Severe(issues, "error") THEN "fail"
                     ELSE IF raw_.has_issue THEN "pass" ELSE mapped
           card == TransformCaa(raw_)
<1>7. \E verdict :
        card = IF raw_.lookup_failed        THEN Unavailable("Not checked")
               ELSE IF raw_.records = {}    THEN Card("absent", "Not configured", lines)
               ELSE Card(status, verdict, lines)
  BY <1>6 DEF TransformCaa
<1>8. status = "fail" => Severe(issues, "error")
  BY MapStatusRed
<1>9. Severe(issues, "error") => Severe(lines, "error")
  BY IssuesAre
<1> HIDE DEF card, lines, status, mapped, raw_
<1>10. PICK verdict :
        card = IF raw_.lookup_failed        THEN Unavailable("Not checked")
               ELSE IF raw_.records = {}    THEN Card("absent", "Not configured", lines)
               ELSE Card(status, verdict, lines)
  BY <1>7
<1>11. Red(card) => walk.noDomain /\ walk.records # {}
  <2>1. Red(card) => ~raw_.lookup_failed /\ raw_.records # {}
    BY <1>10, NotRed
  <2>2. Red(card) => card = Card(status, verdict, lines)
    BY <1>10, <2>1
  <2>3. Red(card) => status = "fail"
    BY <2>2, CardTells
  <2> QED BY <1>5, <1>6, <1>8, <2>1, <2>3
<1>12. walk.noDomain /\ ~(~walk.found /\ walk.anyFailed) => Faulty(card)
  <2> SUFFICES ASSUME walk.noDomain, ~(~walk.found /\ walk.anyFailed) PROVE Faulty(card)
    OBVIOUS
  <2>1. \E s, l : card = Card(s, l, lines)
    BY <1>6, <1>10
  <2> QED BY <1>5, <1>9, <2>1, CardTells
<1> QED BY <1>11, <1>12 DEF card, raw_

\* A red CAA card is about a name that is not there, which is said by its own answer.
LEMMA CaaIsTold ==
  ASSUME NEW a, NEW b, NEW depth \in Nat, Heard(a, b, <<"CAA", depth>>),
         Red(TransformCaa(RawCaa(a, depth)))
  PROVE  Faulty(TransformCaa(RawCaa(b, depth)))
<1> DEFINE tree == CaaTree(depth)
           walk(dns) == CaaWalk(dns, tree)
<1>1. /\ DOMAIN tree = 1..(depth + 1) /\ Len(tree) = depth + 1 /\ tree[1] = <<"CAA", depth>>
      /\ 1 \in DOMAIN tree
  <2>1. tree = [i \in 1..(depth + 1) |-> <<"CAA", depth + 1 - i>>]
    BY DEF CaaTree
  <2>2. DOMAIN tree = 1..(depth + 1) /\ 1 \in 1..(depth + 1) /\ tree[1] = <<"CAA", depth + 1 - 1>>
    BY <2>1
  <2>3. depth + 1 - 1 = depth
    OBVIOUS
  <2>4. tree \in Seq({"CAA"} \X Nat)
    <3>1. \A i \in 1..(depth + 1) : <<"CAA", depth + 1 - i>> \in {"CAA"} \X Nat
      OBVIOUS
    <3> QED BY <2>1, <3>1
  <2>5. Len(tree) = depth + 1
    BY <2>2, <2>4
  <2> QED BY <2>2, <2>3, <2>5
<1> HIDE DEF tree
<1>2. \A dns : RawCaa(dns, depth) = RawCaaOf(walk(dns))
  BY DEF RawCaa, tree
<1>3. \A dns : LET final == CaaEnd(dns, tree)
               IN /\ walk(dns).noDomain <=> final = 1 /\ dns[tree[1]].rc = "nx"
                  /\ walk(dns).records = dns[tree[final]].rr
                  /\ walk(dns).anyFailed <=> \E i \in 1..final : IsLost(dns[tree[i]])
  BY DEF CaaWalk, CaaUpTo
<1>4. a[tree[1]].rc = "nx"
  BY <1>2, <1>3, CaaIs
<1>5. b[tree[1]] = a[tree[1]]
  BY <1>1, <1>4 DEF Heard, IsLost, LossCodes
<1>6. CaaEnd(b, tree) = 1
  <2> DEFINE ends == {i \in DOMAIN tree : CaaStops(b[tree[i]], i)}
             least(i) == i \in ends /\ \A k \in ends : i <= k
  <2>1. 1 \in ends
    BY <1>1, <1>4, <1>5 DEF CaaStops
  <2>2. \A i \in ends : i \in Nat /\ 1 <= i
    BY <1>1
  <2>3. CaaEnd(b, tree) = CHOOSE i \in ends : \A k \in ends : i <= k
    BY <2>1 DEF CaaEnd
  <2> HIDE DEF ends
  <2>4. \E i \in ends : \A k \in ends : i <= k
    BY <2>1, <2>2
  <2>5. CaaEnd(b, tree) \in ends /\ \A k \in ends : CaaEnd(b, tree) <= k
    BY <2>3, <2>4
  <2> QED BY <2>1, <2>2, <2>5
<1>7. walk(b).noDomain /\ ~walk(b).anyFailed
  <2>1. ~IsLost(b[tree[1]])
    BY <1>4, <1>5 DEF IsLost, LossCodes
  <2>2. \A i \in 1..1 : i = 1
    OBVIOUS
  <2>3. ~\E i \in 1..CaaEnd(b, tree) : IsLost(b[tree[i]])
    BY <1>6, <2>1, <2>2
  <2> HIDE DEF walk
  <2> QED BY <1>3, <1>4, <1>5, <1>6, <2>3
<1> QED BY <1>2, <1>7, CaaIs

-----------------------------------------------------------------------------
(* Nameservers *)

\* What the check of a delegation finds wrong.
LEMMA NsIssuesAre ==
  ASSUME NEW probes, NEW group, NEW providers
  PROVE  Severe(NsIssues(probes, group, providers), "error") <=>
           \/ \E p \in probes : p.answered /\ ~p.authoritative
           \/ \A p, q \in probes : p = q
           \/ \E p \in probes : ~p.resolves /\ ~p.lookup_failed
<1> DEFINE detected == {group[p.host] : p \in probes} \cap providers
           resolving == {p \in probes : p.resolves}
           foreign == \E p \in probes : p.answered /\ ~p.authoritative
           alone   == \A p, q \in probes : p = q
           lame    == \E p \in probes : ~p.resolves /\ ~p.lookup_failed
           differ  == SerialMismatch(probes, group)
           near    == Cardinality(Networks(probes)) = 1 /\ Cardinality(resolving) >= 2
           oneProvider == Cardinality(detected) = 1 /\ Cardinality(probes) >= 2
           noV6    == \A p \in probes : p.v6 = {}
           Foreign == IssueIf(foreign, "error", "not authoritative")
           Differ  == IssueIf(differ, "warning", "serials differ")
           Alone   == IssueIf(alone, "error", "only one nameserver")
           Lame    == IssueIf(lame, "error", "lame delegation")
           Near_   == IssueIf(near, "warning", "one network")
           OneProvider == IssueIf(oneProvider, "info", "one provider")
           NoV6    == IssueIf(noV6, "info", "no ipv6")
<1>1. NsIssues(probes, group, providers)
        = Foreign \cup Differ \cup Alone \cup Lame \cup Near_ \cup OneProvider \cup NoV6
  BY DEF NsIssues
<1>2. /\ Severe(Foreign, "error") <=> foreign
      /\ Severe(Alone, "error") <=> alone
      /\ Severe(Lame, "error") <=> lame
  BY IfSevere, Zenon
<1>3. /\ ~Severe(Differ, "error") /\ ~Severe(Near_, "error")
      /\ ~Severe(OneProvider, "error") /\ ~Severe(NoV6, "error")
  BY MildIs, Zenon
<1> HIDE DEF foreign, alone, lame, Foreign, Differ, Alone, Lame, Near_, OneProvider, NoV6
<1>4. Severe(NsIssues(probes, group, providers), "error") <=>
        Severe(Foreign, "error") \/ Severe(Alone, "error") \/ Severe(Lame, "error")
  BY <1>1, <1>3 DEF Severe
<1> QED BY <1>2, <1>4 DEF foreign, alone, lame

\* What a probe of a server tells of it.
LEMMA ProbeIs ==
  \A dns, h :
    LET p   == NsProbe(dns, h)
        v4  == dns[<<"A", h>>]
        v6  == dns[<<"AAAA", h>>]
        soa == dns[<<"authority", h>>]
    IN /\ p.host = h
       /\ p.resolves <=> v4.rr \cup v6.rr # {}
       /\ p.lookup_failed <=> ~p.resolves /\ (IsLost(v4) \/ IsLost(v6))
       /\ p.answered => ~IsLost(soa)
       /\ p.authoritative <=> p.answered /\ \E r \in soa.rr : r.aa
<1> SUFFICES ASSUME NEW dns, NEW h
             PROVE  LET p   == NsProbe(dns, h)
                        v4  == dns[<<"A", h>>]
                        v6  == dns[<<"AAAA", h>>]
                        soa == dns[<<"authority", h>>]
                    IN /\ p.host = h
                       /\ p.resolves <=> v4.rr \cup v6.rr # {}
                       /\ p.lookup_failed <=> ~p.resolves /\ (IsLost(v4) \/ IsLost(v6))
                       /\ p.answered => ~IsLost(soa)
                       /\ p.authoritative <=> p.answered /\ \E r \in soa.rr : r.aa
  OBVIOUS
<1> QED BY DEF NsProbe

LEMMA ProbeNames == \A dns, h : NsProbe(dns, h).host = h
BY ProbeIs, Zenon

\* A delegation that a finds red is one that b finds wrong too: no server says more to b
\* than to a, and none less.
LEMMA NameserversAreTold ==
  ASSUME NEW a, NEW b, NEW group, NEW providers, NEW below,
         Heard(a, b, <<"NS", "domain">>), Heard(a, b, <<"SOA", "domain">>),
         \A h \in b[<<"NS", "domain">>].rr, t \in {"A", "AAAA", "authority"} : Heard(a, b, <<t, h>>),
         LET ra == RawNameservers(a, group, providers)
             rb == RawNameservers(b, group, providers)
         IN /\ \A p \in ra.probes, q \in rb.probes : p.host = q.host /\ p.answered => q.answered
            /\ ~(ra.probes = {} /\ IsLost(a[<<"SOA", "domain">>]))
            /\ Red(TransformNameservers(ra, below))
  PROVE  LET card == TransformNameservers(RawNameservers(b, group, providers), below)
         IN Red(card) \/ Faulty(card)
<1> DEFINE ns == a[<<"NS", "domain">>]
           apex(dns) == ZoneApex(dns[<<"SOA", "domain">>])
           probes(dns) == {NsProbe(dns, h) : h \in ns.rr}
           issues(dns) == NsIssues(probes(dns), group, providers)
           none(dns) == IssueIf(apex(dns) # "no", "error", "no ns records")
           raw_(dns) == RawNameservers(dns, group, providers)
           card(dns) == TransformNameservers(raw_(dns), below)
           full(dns) == [ lookup_failed |-> FALSE, zone_apex |-> "unknown", probes |-> probes(dns),
                          issues |-> issues(dns), status |-> RawStatus(issues(dns)) ]
<1>1. ~IsLost(ns)
  <2> SUFFICES ASSUME IsLost(ns) PROVE FALSE
    OBVIOUS
  <2>1. ns.rc # "none" /\ ns.rc # "nx"
    BY DEF IsLost, LossCodes
  <2>2. raw_(a) = NsEmpty("unknown", TRUE, {Issue("error", "ns lookup failed")})
    BY <2>1 DEF RawNameservers
  <2> HIDE DEF raw_
  <2>3. raw_(a).lookup_failed = TRUE
    <3>1. \A x, i : NsEmpty(x, TRUE, i).lookup_failed = TRUE
      BY DEF NsEmpty
    <3> QED BY <2>2, <3>1
  <2>4. card(a) = Unavailable("Not checked")
    BY <2>3 DEF TransformNameservers
  <2> QED BY <2>4, NotRed DEF raw_
<1>2. b[<<"NS", "domain">>] = ns
  BY <1>1 DEF Heard
<1>3. CASE raw_(a).probes = {}
  <2>1. a[<<"SOA", "domain">>] = b[<<"SOA", "domain">>]
    BY <1>3 DEF Heard
  <2>2. CASE ns.rc = "none" \/ ns.rc = "nx"
    <3>1. raw_(b) = raw_(a)
      BY <1>2, <2>1, <2>2 DEF RawNameservers
    <3> QED BY <3>1
  <2>3. CASE ~(ns.rc = "none" \/ ns.rc = "nx")
    <3>1. raw_(a) = full(a) /\ raw_(b) = full(b)
      BY <1>1, <1>2, <2>3 DEF RawNameservers
    <3>2. probes(a) = {}
      BY <1>3, <3>1
    <3>3. ns.rr = {}
      BY <3>2
    <3>4. probes(b) = probes(a)
      BY <3>2, <3>3
    <3> HIDE DEF probes
    <3>5. raw_(b) = raw_(a)
      BY <3>1, <3>4
    <3> QED BY <3>5
  <2> QED BY <2>2, <2>3
<1>4. CASE raw_(a).probes # {}
  <2>1. ~(ns.rc = "none" \/ ns.rc = "nx")
    <3>1. \A x, f, i : NsEmpty(x, f, i).probes = {}
      BY DEF NsEmpty
    <3>2. ns.rc = "none" => raw_(a) = NsEmpty(apex(a), FALSE, none(a))
      BY DEF RawNameservers
    <3>3. ns.rc = "nx" => raw_(a) = NsEmpty("unknown", FALSE, {Issue("error", "no such domain")})
      BY DEF RawNameservers
    <3> HIDE DEF raw_, apex, none
    <3> QED BY <1>4, <3>1, <3>2, <3>3
  <2>2. raw_(a) = full(a) /\ raw_(b) = full(b)
    BY <1>1, <1>2, <2>1 DEF RawNameservers
  <2>3. ns.rr # {} /\ probes(a) # {} /\ probes(b) # {}
    BY <1>4, <2>2
  <2>4. ASSUME NEW dns, raw_(dns) = full(dns), probes(dns) # {}
        PROVE  /\ Red(card(dns)) => Severe(issues(dns), "error")
               /\ Severe(issues(dns), "error") => Faulty(card(dns))
    <3> DEFINE r == raw_(dns)
               failed == IssueIf(\E p \in r.probes : p.lookup_failed, "info", "host not checked")
               lines == Details(r.issues) \cup failed
    <3>1. /\ r.lookup_failed = FALSE /\ r.probes # {} /\ r.issues = issues(dns)
          /\ r.status = RawStatus(issues(dns))
      BY <2>4
    <3> HIDE DEF r, issues
    <3>2. card(dns) = Card(MapStatus(r.status), "nameservers", lines)
      BY <3>1 DEF TransformNameservers, r
    <3>3. Details(issues(dns)) \subseteq lines
      BY <3>1
    <3> HIDE DEF card, lines
    <3> QED BY <3>1, <3>2, <3>3, GradedTells
  <2>5. Severe(issues(a), "error")
    BY <2>2, <2>3, <2>4
  <2> DEFINE foreign(ps) == \E p \in ps : p.answered /\ ~p.authoritative
             alone(ps)   == \A p, q \in ps : p = q
             lame(ps)    == \E p \in ps : ~p.resolves /\ ~p.lookup_failed
  <2>6. foreign(probes(a)) => foreign(probes(b))
    <3> SUFFICES ASSUME NEW h \in ns.rr, NsProbe(a, h).answered, ~NsProbe(a, h).authoritative
                 PROVE  foreign(probes(b))
      OBVIOUS
    <3> DEFINE p == NsProbe(a, h)
               q == NsProbe(b, h)
    <3>1. p \in raw_(a).probes /\ q \in raw_(b).probes
      BY <2>2
    <3>2. p.host = q.host
      BY ProbeNames
    <3>3. q.answered
      BY <3>1, <3>2
    <3>4. b[<<"authority", h>>] = a[<<"authority", h>>]
      BY <1>2, ProbeIs DEF Heard
    <3>5. ~q.authoritative
      BY <3>4, ProbeIs, Zenon
    <3> QED BY <3>3, <3>5
  <2>7. alone(probes(a)) => alone(probes(b))
    <3> SUFFICES ASSUME alone(probes(a)), NEW g \in ns.rr, NEW h \in ns.rr
                 PROVE  NsProbe(b, g) = NsProbe(b, h)
      OBVIOUS
    <3>1. NsProbe(a, g) = NsProbe(a, h)
      OBVIOUS
    <3>2. g = h
      BY <3>1, ProbeNames
    <3> QED BY <3>2
  <2>8. lame(probes(a)) => lame(probes(b))
    <3> SUFFICES ASSUME NEW h \in ns.rr, ~NsProbe(a, h).resolves, ~NsProbe(a, h).lookup_failed
                 PROVE  lame(probes(b))
      OBVIOUS
    <3>1. /\ ~IsLost(a[<<"A", h>>]) /\ ~IsLost(a[<<"AAAA", h>>])
          /\ a[<<"A", h>>].rr \cup a[<<"AAAA", h>>].rr = {}
      BY ProbeIs
    <3>2. b[<<"A", h>>] = a[<<"A", h>>] /\ b[<<"AAAA", h>>] = a[<<"AAAA", h>>]
      BY <1>2, <3>1 DEF Heard
    <3>3. ~NsProbe(b, h).resolves /\ ~NsProbe(b, h).lookup_failed
      BY <3>1, <3>2, ProbeIs
    <3> QED BY <3>3
  <2>9. Severe(issues(b), "error")
    <3> HIDE DEF probes
    <3> QED BY <2>5, <2>6, <2>7, <2>8, NsIssuesAre
  <2> QED BY <2>2, <2>3, <2>4, <2>9
<1> QED BY <1>3, <1>4

-----------------------------------------------------------------------------
(* Published policies *)

\* What no record says: nothing red, whoever the domain is.
LEMMA NoRecordIsNotRed == \A noMail, hasMx, issues : ~Red(NoRecordCard(noMail, hasMx, issues))
<1> SUFFICES ASSUME NEW noMail, NEW hasMx, NEW issues PROVE ~Red(NoRecordCard(noMail, hasMx, issues))
  OBVIOUS
<1> DEFINE l1 == {Issue("info", "no mail")}
           l2 == Details(issues)
<1>1. NoRecordCard(noMail, hasMx, issues) = IF noMail \/ ~hasMx THEN Card("absent", "Not applicable", l1)
                                                               ELSE Card("absent", "Not configured", l2)
  BY DEF NoRecordCard
<1> HIDE DEF l1, l2
<1> QED BY <1>1, NotRed

\* An MTA-STS policy file that could not be fetched is a warning, and the MX hosts it is
\* held against are none.
LEMMA StsPolicyIsTold ==
  ASSUME NEW a, NEW b, Heard(a, b, <<"fetch", "mta-sts">>), Severe(StsPolicyIssues(a), "error")
  PROVE  Severe(StsPolicyIssues(b), "error")
<1> DEFINE file == a[<<"fetch", "mta-sts">>]
           policy == CHOOSE p \in file.rr : TRUE
           Plain == IssueIf(~policy.plain, "warning", "content type")
           Field == Defects(StsFileDefects, policy.defects)
           Mode == StsModeIssues(policy.mode)
           Hosts(dns) == StsMxIssues(policy, dns[<<"MX", "mta-sts">>])
           noLines == policy.mx = {} /\ policy.mode # "none"
<1>1. ~IsLost(file)
  <2> SUFFICES ASSUME IsLost(file) PROVE FALSE
    OBVIOUS
  <2>1. file.rc = "timeout" \/ file.rc = "failed"
    BY DEF IsLost, LossCodes
  <2>2. StsPolicyIssues(a) = {Issue(StsFetchIssue[file.rc], file.rc)}
    BY <2>1 DEF StsPolicyIssues, Got
  <2>3. StsFetchIssue["timeout"] = "warning" /\ StsFetchIssue["failed"] = "warning"
    BY DEF StsFetchIssue
  <2> QED BY <2>1, <2>2, <2>3, IssuesAre
<1>2. b[<<"fetch", "mta-sts">>] = file
  BY <1>1 DEF Heard
<1>3. CASE ~Got(file)
  BY <1>2, <1>3 DEF StsPolicyIssues
<1>4. CASE Got(file)
  <2>1. \A dns : dns[<<"fetch", "mta-sts">>] = file =>
          StsPolicyIssues(dns) = Plain \cup Field \cup Mode \cup Hosts(dns)
    BY <1>4 DEF StsPolicyIssues
  <2>2. ASSUME NEW dns PROVE Severe(Hosts(dns), "error") <=> noLines
    <3> DEFINE hosts == {r.host : r \in dns[<<"MX", "mta-sts">>].rr}
               open == policy.mx # {} /\ hosts \ policy.mx # {}
               unused == policy.mx \ hosts # {} /\ hosts # {}
               NoLines == IssueIf(noLines, "error", "no mx lines")
               Open == IssueIf(open, "warning", "mx not covered")
               Unused == IssueIf(unused, "info", "mx line unused")
    <3>1. Hosts(dns) = NoLines \cup Open \cup Unused
      BY DEF StsMxIssues
    <3>2. Severe(NoLines, "error") <=> noLines
      BY IfSevere, Zenon
    <3>3. ~Severe(Open, "error") /\ ~Severe(Unused, "error")
      BY MildIs, Zenon
    <3> HIDE DEF Hosts, NoLines, Open, Unused, noLines
    <3> QED BY <3>1, <3>2, <3>3 DEF Severe
  <2>3. StsPolicyIssues(a) = Plain \cup Field \cup Mode \cup Hosts(a)
    BY <2>1
  <2>4. StsPolicyIssues(b) = Plain \cup Field \cup Mode \cup Hosts(b)
    BY <1>2, <2>1
  <2>5. Severe(Hosts(a), "error") <=> Severe(Hosts(b), "error")
    BY <2>2
  <2> HIDE DEF Plain, Field, Mode, Hosts
  <2> QED BY <2>3, <2>4, <2>5 DEF Severe
<1> QED BY <1>3, <1>4

\* A record that is not one: only a version tag that is nearly right is red.
LEMMA NoneTells ==
  \A hasMx, noMail, i :
    /\ ~Red(TransformMtaSts(StsNone("unavailable", FALSE, i), hasMx, noMail))
    /\ ~Red(TransformMtaSts(StsNone("warning", FALSE, i), hasMx, noMail))
    /\ Severe(i, "error") => Faulty(TransformMtaSts(StsNone("error", TRUE, i), hasMx, noMail))
    /\ ~Red(TransformTlsRpt(StsNone("unavailable", FALSE, i), hasMx, noMail))
    /\ ~Red(TransformTlsRpt(StsNone("warning", FALSE, i), hasMx, noMail))
    /\ Severe(i, "error") => Faulty(TransformTlsRpt(StsNone("error", TRUE, i), hasMx, noMail))
<1> SUFFICES ASSUME NEW hasMx, NEW noMail, NEW i
             PROVE  /\ ~Red(TransformMtaSts(StsNone("unavailable", FALSE, i), hasMx, noMail))
                    /\ ~Red(TransformMtaSts(StsNone("warning", FALSE, i), hasMx, noMail))
                    /\ Severe(i, "error") => Faulty(TransformMtaSts(StsNone("error", TRUE, i), hasMx, noMail))
                    /\ ~Red(TransformTlsRpt(StsNone("unavailable", FALSE, i), hasMx, noMail))
                    /\ ~Red(TransformTlsRpt(StsNone("warning", FALSE, i), hasMx, noMail))
                    /\ Severe(i, "error") => Faulty(TransformTlsRpt(StsNone("error", TRUE, i), hasMx, noMail))
  OBVIOUS
<1>1. \A s, m : /\ StsNone(s, m, i).status = s /\ StsNone(s, m, i).malformed = m
                /\ StsNone(s, m, i).found = FALSE /\ StsNone(s, m, i).issues = i
  BY DEF StsNone
<1>2. ASSUME NEW r, r.status = "unavailable"
      PROVE  ~Red(TransformMtaSts(r, hasMx, noMail)) /\ ~Red(TransformTlsRpt(r, hasMx, noMail))
  <2>1. /\ TransformMtaSts(r, hasMx, noMail) = Unavailable("Not checked")
        /\ TransformTlsRpt(r, hasMx, noMail) = Unavailable("Not checked")
    BY <1>2 DEF TransformMtaSts, TransformTlsRpt
  <2> QED BY <2>1, NotRed
<1>3. ASSUME NEW r, r.status = "warning", r.malformed = FALSE, r.found = FALSE
      PROVE  ~Red(TransformMtaSts(r, hasMx, noMail)) /\ ~Red(TransformTlsRpt(r, hasMx, noMail))
  <2>1. /\ TransformMtaSts(r, hasMx, noMail) = NoRecordCard(noMail, hasMx, r.issues)
        /\ TransformTlsRpt(r, hasMx, noMail) = NoRecordCard(noMail, hasMx, r.issues)
    BY <1>3 DEF TransformMtaSts, TransformTlsRpt
  <2> QED BY <2>1, NoRecordIsNotRed
<1>4. ASSUME NEW r, r.status = "error", r.malformed = TRUE, r.issues = i, Severe(i, "error")
      PROVE  Faulty(TransformMtaSts(r, hasMx, noMail)) /\ Faulty(TransformTlsRpt(r, hasMx, noMail))
  <2>1. /\ TransformMtaSts(r, hasMx, noMail) = Card("fail", "Malformed", Details(r.issues))
        /\ TransformTlsRpt(r, hasMx, noMail) = Card("fail", "Malformed", Details(r.issues))
    BY <1>4 DEF TransformMtaSts, TransformTlsRpt
  <2>2. Severe(Details(r.issues), "error")
    BY <1>4, IssuesAre
  <2> QED BY <2>1, <2>2, CardTells
<1> QED BY <1>1, <1>2, <1>3, <1>4

\* A red MTA-STS card is red by the record and the policy file that arrived.
LEMMA MtaStsIsTold ==
  ASSUME NEW a, NEW b, NEW hasMx, NEW noMail, NEW hasMxB, NEW noMailB,
         Heard(a, b, <<"TXT", "_mta-sts">>), Heard(a, b, <<"fetch", "mta-sts">>),
         Red(TransformMtaSts(CheckMtaSts(a), hasMx, noMail))
  PROVE  Faulty(TransformMtaSts(CheckMtaSts(b), hasMxB, noMailB))
<1> DEFINE txt == a[<<"TXT", "_mta-sts">>]
           Several == IssueIf(Cardinality(Good(txt)) > 1, "error", "several records")
           Field == Defects(StsTxtDefects, TheRecord(txt).defects)
           issues(dns) == Several \cup Field \cup StsPolicyIssues(dns)
           status(dns) == IF dns[<<"fetch", "mta-sts">>].rc = "private" THEN "warning"
                          ELSE RawStatus(issues(dns))
           mode(dns) == IF Got(dns[<<"fetch", "mta-sts">>])
                        THEN (CHOOSE p \in dns[<<"fetch", "mta-sts">>].rr : TRUE).mode ELSE "unread"
           found(dns) == [ status |-> status(dns), malformed |-> FALSE, found |-> TRUE,
                           issues |-> issues(dns), mode |-> mode(dns) ]
           tag == {Issue("error", "malformed version tag")}
           raw_(dns) == CheckMtaSts(dns)
<1>1. \A dns : dns[<<"TXT", "_mta-sts">>] = txt =>
        raw_(dns) = IF IsLost(txt) THEN StsNone("unavailable", FALSE, {})
                    ELSE IF Good(txt) = {} /\ Near(txt) # {} THEN StsNone("error", TRUE, tag)
                    ELSE IF Good(txt) = {} THEN StsNone("warning", FALSE, {Issue("warning", "no record")})
                    ELSE found(dns)
  BY DEF CheckMtaSts
<1>2. Severe(tag, "error")
  BY IssuesAre
<1>3. ASSUME NEW dns, NEW hm, NEW nm
      PROVE  LET card == TransformMtaSts(found(dns), hm, nm)
             IN /\ Red(card) => Severe(issues(dns), "error")
                /\ Severe(issues(dns), "error") => Faulty(card)
  <2> DEFINE r == found(dns)
             lines == Details(r.issues)
             label == IF StsStatus(r) = "absent" THEN "Turned off" ELSE r.mode
             verdict == StsStatus(r)
  <2>1. /\ r.status \in {"warning", RawStatus(issues(dns))} /\ r.malformed = FALSE /\ r.found = TRUE
        /\ r.issues = issues(dns)
    OBVIOUS
  <2> HIDE DEF r, issues
  <2>2. r.status # "unavailable"
    BY <2>1, IssuesAre
  <2>3. TransformMtaSts(r, hm, nm) = Card(verdict, label, lines)
    BY <2>1, <2>2 DEF TransformMtaSts
  <2>4. verdict = "fail" => MapStatus(r.status) = "fail"
    BY DEF StsStatus
  <2>5. MapStatus("warning") # "fail"
    BY DEF MapStatus
  <2>6. verdict = "fail" => Severe(issues(dns), "error")
    BY <2>1, <2>4, <2>5, MapStatusRed
  <2>7. Severe(issues(dns), "error") => Severe(lines, "error")
    BY <2>1, IssuesAre
  <2> HIDE DEF verdict, label, lines
  <2> QED BY <2>3, <2>6, <2>7, CardTells DEF r
<1> HIDE DEF found, raw_, issues, tag
<1>4. ~IsLost(txt)
  <2>1. IsLost(txt) => raw_(a) = StsNone("unavailable", FALSE, {})
    BY <1>1
  <2> QED BY <2>1, NoneTells DEF raw_
<1>5. b[<<"TXT", "_mta-sts">>] = txt
  BY <1>4 DEF Heard
<1>6. CASE Good(txt) = {} /\ Near(txt) # {}
  <2>1. raw_(b) = StsNone("error", TRUE, tag)
    BY <1>1, <1>4, <1>5, <1>6
  <2> QED BY <1>2, <2>1, NoneTells DEF raw_
<1>7. CASE Good(txt) = {} /\ Near(txt) = {}
  <2>1. raw_(a) = StsNone("warning", FALSE, {Issue("warning", "no record")})
    BY <1>1, <1>4, <1>7
  <2> QED BY <2>1, NoneTells DEF raw_
<1>8. CASE Good(txt) # {}
  <2>1. raw_(a) = found(a) /\ raw_(b) = found(b)
    BY <1>1, <1>4, <1>5, <1>8
  <2>2. Severe(issues(a), "error")
    BY <1>3, <2>1 DEF raw_
  <2>3. Severe(issues(b), "error")
    <3>1. \A dns : Severe(issues(dns), "error") <=>
            Severe(Several, "error") \/ Severe(Field, "error") \/ Severe(StsPolicyIssues(dns), "error")
      <4> HIDE DEF Several, Field
      <4> QED BY DEF Severe, issues
    <3> QED BY <2>2, <3>1, StsPolicyIsTold
  <2> QED BY <1>3, <2>1, <2>3 DEF raw_
<1> QED BY <1>6, <1>7, <1>8

\* A red TLS-RPT card is red by the record alone.
LEMMA TlsRptIsTold ==
  ASSUME NEW a, NEW b, NEW hasMx, NEW noMail, NEW hasMxB, NEW noMailB,
         Heard(a, b, <<"TXT", "_smtp._tls">>),
         Red(TransformTlsRpt(CheckTlsRpt(a), hasMx, noMail))
  PROVE  Faulty(TransformTlsRpt(CheckTlsRpt(b), hasMxB, noMailB))
<1> DEFINE txt == a[<<"TXT", "_smtp._tls">>]
           Several == IssueIf(Cardinality(Good(txt)) > 1, "error", "several records")
           Field == Defects(TlsRptDefects, TheRecord(txt).defects)
           Beside(dns) == IssueIf(~HasMtaSts(dns), "info", "no mta-sts beside it")
           issues(dns) == Several \cup Field \cup Beside(dns)
           found(dns) == [ status |-> RawStatus(issues(dns)), malformed |-> FALSE, found |-> TRUE,
                           mode |-> "unread", issues |-> issues(dns) ]
           tag == {Issue("error", "malformed version tag")}
           raw_(dns) == CheckTlsRpt(dns)
<1>1. \A dns : dns[<<"TXT", "_smtp._tls">>] = txt =>
        raw_(dns) = IF IsLost(txt) THEN StsNone("unavailable", FALSE, {})
                    ELSE IF Good(txt) = {} /\ Near(txt) # {} THEN StsNone("error", TRUE, tag)
                    ELSE IF Good(txt) = {} THEN StsNone("warning", FALSE, {Issue("warning", "no record")})
                    ELSE found(dns)
  BY DEF CheckTlsRpt
<1>2. Severe(tag, "error")
  BY IssuesAre
<1>3. ASSUME NEW dns, NEW hm, NEW nm
      PROVE  LET card == TransformTlsRpt(found(dns), hm, nm)
             IN /\ Red(card) => Severe(issues(dns), "error")
                /\ Severe(issues(dns), "error") => Faulty(card)
  <2> DEFINE r == found(dns)
             i == issues(dns)
  <2>1. r.status = RawStatus(i) /\ r.malformed = FALSE /\ r.found = TRUE /\ r.issues = i
    OBVIOUS
  <2> HIDE DEF r, i
  <2>2. r.status # "unavailable"
    BY <2>1, IssuesAre
  <2>3. TransformTlsRpt(r, hm, nm) = Card(MapStatus(RawStatus(i)), "reports", Details(i))
    BY <2>1, <2>2 DEF TransformTlsRpt
  <2>4. Details(i) \subseteq Details(i)
    OBVIOUS
  <2>5. /\ Red(TransformTlsRpt(r, hm, nm)) => Severe(i, "error")
        /\ Severe(i, "error") => Faulty(TransformTlsRpt(r, hm, nm))
    BY <2>3, <2>4, GradedTells
  <2> QED BY <2>5 DEF r, i
<1> HIDE DEF found, raw_, issues, tag
<1>4. ~IsLost(txt)
  <2>1. IsLost(txt) => raw_(a) = StsNone("unavailable", FALSE, {})
    BY <1>1
  <2> QED BY <2>1, NoneTells DEF raw_
<1>5. b[<<"TXT", "_smtp._tls">>] = txt
  BY <1>4 DEF Heard
<1>6. CASE Good(txt) = {} /\ Near(txt) # {}
  <2>1. raw_(b) = StsNone("error", TRUE, tag)
    BY <1>1, <1>4, <1>5, <1>6
  <2> QED BY <1>2, <2>1, NoneTells DEF raw_
<1>7. CASE Good(txt) = {} /\ Near(txt) = {}
  <2>1. raw_(a) = StsNone("warning", FALSE, {Issue("warning", "no record")})
    BY <1>1, <1>4, <1>7
  <2> QED BY <2>1, NoneTells DEF raw_
<1>8. CASE Good(txt) # {}
  <2>1. raw_(a) = found(a) /\ raw_(b) = found(b)
    BY <1>1, <1>4, <1>5, <1>8
  <2>2. Severe(issues(a), "error")
    BY <1>3, <2>1 DEF raw_
  <2>3. Severe(issues(b), "error")
    <3>1. \A dns : ~Severe(Beside(dns), "error")
      BY MildIs, Zenon
    <3>2. \A dns : Severe(issues(dns), "error") <=> Severe(Several, "error") \/ Severe(Field, "error")
      <4> HIDE DEF Several, Field, Beside
      <4> QED BY <3>1 DEF Severe, issues
    <3> QED BY <2>2, <3>2
  <2> QED BY <1>3, <2>1, <2>3 DEF raw_
<1> QED BY <1>6, <1>7, <1>8

-----------------------------------------------------------------------------
(* Certificates and TLSA *)

\* Neither card is ever red.
LEMMA CtIsNotRed == \A r : ~Red(TransformCt(r))
<1> SUFFICES ASSUME NEW r PROVE ~Red(TransformCt(r))
  OBVIOUS
<1>1. \/ \E l : TransformCt(r) = Unavailable(l)
      \/ \E l, d : TransformCt(r) = Card("pass", l, d)
      \/ \E l, d : TransformCt(r) = Card("warn", l, d)
  BY Zenon DEF TransformCt
<1> QED BY <1>1, NotRed

LEMMA DaneIsNotRed == \A r : ~Red(TransformDane(r))
<1> SUFFICES ASSUME NEW r PROVE ~Red(TransformDane(r))
  OBVIOUS
<1>1. ~Red(DaneProtectedCard(r))
  <2>1. \E l, d : \/ DaneProtectedCard(r) = Card("warn", l, d)
                  \/ DaneProtectedCard(r) = Card("pass", l, d)
    BY Zenon DEF DaneProtectedCard
  <2> QED BY <2>1, NotRed
<1>2. ~Red(DaneAbsentCard(r))
  BY NotRed DEF DaneAbsentCard
<1>3. \/ TransformDane(r) = DaneProtectedCard(r) \/ TransformDane(r) = DaneAbsentCard(r)
      \/ \E l : TransformDane(r) = Unavailable(l)
      \/ \E l, d : TransformDane(r) = Card("absent", l, d)
  BY Zenon DEF TransformDane
<1> QED BY <1>1, <1>2, <1>3, NotRed

-----------------------------------------------------------------------------
(* The cards of a report beside those that are drawn. *)

\* Whatever a check found, what is drawn of it is a card.
LEMMA CardsAreCards ==
  /\ \A r : IsCard(TransformMx(r)) /\ IsCard(TransformDnssec(r)) /\ IsCard(TransformCaa(r))
  /\ \A r : IsCard(TransformCt(r)) /\ IsCard(TransformDane(r))
  /\ \A r, below : IsCard(TransformNameservers(r, below))
  /\ \A r, hasMx, noMail : IsCard(TransformMtaSts(r, hasMx, noMail))
                           /\ IsCard(TransformTlsRpt(r, hasMx, noMail))
<1> DEFINE Drawn(c) == \/ \E l : c = Unavailable(l)
                       \/ \E s, l, d : c = Card(s, l, d)
<1>1. \A c : Drawn(c) => IsCard(c)
  BY CardIs
<1>2. \A r : Drawn(TransformMx(r))
  BY Zenon DEF TransformMx
<1>3. \A r : Drawn(TransformDnssec(r))
  BY Zenon DEF TransformDnssec
<1>4. \A r : Drawn(TransformCaa(r))
  BY Zenon DEF TransformCaa
<1>5. \A r : Drawn(TransformCt(r))
  BY Zenon DEF TransformCt
<1>6. \A r : Drawn(TransformDane(r))
  <2>1. \A r : Drawn(DaneProtectedCard(r))
    BY Zenon DEF DaneProtectedCard
  <2>2. \A r : Drawn(DaneAbsentCard(r))
    BY Zenon DEF DaneAbsentCard
  <2>3. ASSUME NEW r
        PROVE  \/ TransformDane(r) = DaneProtectedCard(r) \/ TransformDane(r) = DaneAbsentCard(r)
               \/ Drawn(TransformDane(r))
    BY Zenon DEF TransformDane
  <2> HIDE DEF Drawn
  <2> QED BY <2>1, <2>2, <2>3
<1>7. \A r, below : Drawn(TransformNameservers(r, below))
  BY Zenon DEF TransformNameservers
<1>8. \A issues, hasMx, noMail : Drawn(NoRecordCard(noMail, hasMx, issues))
  BY Zenon DEF NoRecordCard
<1>9. ASSUME NEW r, NEW hasMx, NEW noMail
      PROVE  Drawn(TransformMtaSts(r, hasMx, noMail)) /\ Drawn(TransformTlsRpt(r, hasMx, noMail))
  <2>1. \/ TransformMtaSts(r, hasMx, noMail) = NoRecordCard(noMail, hasMx, r.issues)
        \/ Drawn(TransformMtaSts(r, hasMx, noMail))
    BY Zenon DEF TransformMtaSts
  <2>2. \/ TransformTlsRpt(r, hasMx, noMail) = NoRecordCard(noMail, hasMx, r.issues)
        \/ Drawn(TransformTlsRpt(r, hasMx, noMail))
    BY Zenon DEF TransformTlsRpt
  <2> HIDE DEF Drawn
  <2> QED BY <1>8, <2>1, <2>2
<1> HIDE DEF Drawn
<1> QED BY <1>1, <1>2, <1>3, <1>4, <1>5, <1>6, <1>7, <1>9

\* Every card but that of DMARC is the drawn one, waived and softened.
LEMMA LeftIs ==
  ASSUME NEW z, NEW r, NEW name \in CardNames \ {"DMARC"}
  PROVE  Corrected(z, r, DrawnCards(z, r))[name] = Soften(WaiveCard(r, name, DrawnCard(z, r, name)))
<1> DEFINE cs   == DrawnCards(z, r)
           left == Waive(z, r, cs)
           found == XcFinding(r)
<1>1. DOMAIN cs = CardNames /\ cs[name] = DrawnCard(z, r, name)
  BY DEF DrawnCards
<1>2. name \in DOMAIN left /\ left[name] = Soften(WaiveCard(r, name, DrawnCard(z, r, name)))
  BY <1>1 DEF Waive
<1> HIDE DEF left, cs
<1>3. CrossCheck(r, left) = left \/ CrossCheck(r, left) = [left EXCEPT !["DMARC"].status = found]
  BY DEF CrossCheck
<1> HIDE DEF found
<1>4. CrossCheck(r, left)[name] = left[name]
  BY <1>2, <1>3
<1> QED BY <1>2, <1>4 DEF Corrected, left, cs

\* What the audit is told, and what it would be told: the same, or nothing.
LEMMA AllIsHeard ==
  ASSUME NEW z \in Zones, NEW gone,
         \A q \in DOMAIN gone : q \in DOMAIN z.asks /\ gone[q] \in z.asks[q]
  PROVE  LET a == Answers(z, gone)
             b == Answers(z, <<>>)
         IN /\ b = Over(z.dns, Background)
            /\ \A q \in Asked(z, b) : Heard(a, b, q)
            /\ b[<<"DNSKEY", "first">>] = b[<<"DNSKEY", "retry">>]
            /\ b[<<"DS", "again1">>] = b[<<"DS", "again2">>]
            /\ z.depth \in Nat
<1> DEFINE dns  == Over(z.dns, Background)
           a    == Answers(z, gone)
           b    == Answers(z, <<>>)
           away == [q \in DOMAIN gone |-> Lost(gone[q])]
           none == [q \in DOMAIN <<>> |-> Lost(<<>>[q])]
<1>1. dns = [q \in DOMAIN dns |-> dns[q]]
  BY DEF Over
<1> HIDE DEF dns
<1>2. a = [q \in DOMAIN away \cup DOMAIN dns |-> IF q \in DOMAIN away THEN away[q] ELSE dns[q]]
  BY DEF Answers, Over, dns
<1>3. b = [q \in DOMAIN none \cup DOMAIN dns |-> IF q \in DOMAIN none THEN none[q] ELSE dns[q]]
  BY DEF Answers, Over, dns
<1>4. DOMAIN none = {}
  OBVIOUS
<1>5. DOMAIN away = DOMAIN gone
  OBVIOUS
<1> HIDE DEF a, b, none
<1>6. b = dns
  BY <1>1, <1>3, <1>4
<1>7. /\ Asked(z, dns) \subseteq DOMAIN dns
      /\ dns[<<"DNSKEY", "first">>] = dns[<<"DNSKEY", "retry">>]
      /\ dns[<<"DS", "again1">>] = dns[<<"DS", "again2">>]
      /\ \A q \in Asked(z, dns) \cap DOMAIN z.asks : z.asks[q] \subseteq LossCodes
      /\ z.depth \in Nat
  BY ZonesAssumption DEF dns
<1>8. ASSUME NEW q \in Asked(z, dns) PROVE Heard(a, dns, q)
  <2>1. a[q] = IF q \in DOMAIN gone THEN Lost(gone[q]) ELSE dns[q]
    BY <1>2, <1>5, <1>7
  <2>2. q \in DOMAIN gone => gone[q] \in LossCodes
    BY <1>7
  <2>3. \A rc \in LossCodes : IsLost(Lost(rc)) /\ Lost(rc).rr = {}
    BY DEF IsLost, Lost
  <2> QED BY <2>1, <2>2, <2>3 DEF Heard
<1> QED BY <1>6, <1>7, <1>8 DEF a, b, dns

-----------------------------------------------------------------------------
(* What an audit reads, and which mail it takes the domain to have. *)

\* Every check of an audit, by what it is given.
LEMMA ChecksAre ==
  ASSUME NEW z, NEW dns, NEW r, r = RawResults(z, dns)
  PROVE  /\ r.mx = CheckMx(dns) /\ r.spf = RawSpf(dns) /\ r.walk = TreeWalk(dns, z.n, z.psl)
         /\ r.dmarc = AuditDmarc(dns, r.walk, z.n, z.psl, z.external)
         /\ r.dnssec = RawDnssec(dns) /\ r.ns = RawNameservers(dns, z.group, z.providers)
         /\ r.caa = RawCaa(dns, z.depth) /\ r.sts = CheckMtaSts(dns) /\ r.rpt = CheckTlsRpt(dns)
         /\ r.bimi = CheckBimi(dns, ForBimi(r.dmarc))
         /\ r.dkim = IF z.selector = "" THEN SweepDkim(dns, z.priority, z.fallback)
                                        ELSE QueryDkim(dns, z.selector)
<1> DEFINE walk  == TreeWalk(dns, z.n, z.psl)
           mx    == CheckMx(dns)
           dmarc == AuditDmarc(dns, walk, z.n, z.psl, z.external)
           dnssec == RawDnssec(dns)
           spf   == RawSpf(dns)
           ns    == RawNameservers(dns, z.group, z.providers)
           caa   == RawCaa(dns, z.depth)
           dane  == RawDane(dns, mx, dnssec)
           sts   == CheckMtaSts(dns)
           rpt   == CheckTlsRpt(dns)
           bimi  == CheckBimi(dns, ForBimi(dmarc))
           dkim  == IF z.selector = "" THEN SweepDkim(dns, z.priority, z.fallback)
                                       ELSE QueryDkim(dns, z.selector)
           ct    == RawCt(dns, IssuersKnown)
<1>1. r = [ mx |-> mx, spf |-> spf, dmarc |-> dmarc, walk |-> walk, dnssec |-> dnssec,
            ns |-> ns, caa |-> caa, dane |-> dane, sts |-> sts, rpt |-> rpt, bimi |-> bimi,
            dkim |-> dkim, ct |-> ct ]
  BY DEF RawResults, ResultsOf, ResultsWith
<1> HIDE DEF mx, spf, dmarc, walk, dnssec, ns, caa, dane, sts, rpt, bimi, dkim, ct
<1>2. /\ r.mx = mx /\ r.spf = spf /\ r.dmarc = dmarc /\ r.walk = walk /\ r.dnssec = dnssec
      /\ r.ns = ns /\ r.caa = caa /\ r.sts = sts /\ r.rpt = rpt /\ r.bimi = bimi /\ r.dkim = dkim
  BY <1>1
<1>3. /\ dmarc = AuditDmarc(dns, r.walk, z.n, z.psl, z.external)
      /\ bimi = CheckBimi(dns, ForBimi(r.dmarc))
  BY <1>2 DEF dmarc, bimi
<1> QED BY <1>2, <1>3 DEF mx, spf, walk, dnssec, ns, caa, sts, rpt, dkim

\* The BIMI check goes by the DMARC results of its audit.
LEMMA BimiIsChecked ==
  \A z, dns : RawResults(z, dns).bimi = CheckBimi(dns, ForBimi(RawResults(z, dns).dmarc))
<1> SUFFICES ASSUME NEW z, NEW dns
             PROVE  RawResults(z, dns).bimi = CheckBimi(dns, ForBimi(RawResults(z, dns).dmarc))
  OBVIOUS
<1> DEFINE walk  == TreeWalk(dns, z.n, z.psl)
           mx    == CheckMx(dns)
           d     == AuditDmarc(dns, walk, z.n, z.psl, z.external)
           keys  == RawDnssec(dns)
           r     == RawResults(z, dns)
<1>1. r = ResultsWith(z, dns, mx, walk, d, keys)
  BY DEF RawResults, ResultsOf
<1> HIDE DEF walk, mx, d, keys, r
<1>2. r.dmarc = d /\ r.bimi = CheckBimi(dns, ForBimi(d))
  BY <1>1 DEF ResultsWith
<1>3. r.bimi = CheckBimi(dns, ForBimi(r.dmarc))
  BY <1>2
<1> QED BY <1>3 DEF r

LEMMA MxIsChecked == \A z, dns : RawResults(z, dns).mx = CheckMx(dns)
BY ChecksAre

\* An MX check that was read had its answer.
LEMMA MxIsRead ==
  ASSUME NEW dns, IsLost(dns[<<"MX", "domain">>])
  PROVE  CheckMx(dns).status = "unavailable"
<1> DEFINE i == {Issue("info", "mx lookup failed")}
<1>1. CheckMx(dns) = MxEmpty("unavailable", i)
  BY DEF CheckMx
<1> HIDE DEF i
<1> QED BY <1>1 DEF MxEmpty

\* The SPF record: whether it was read, and whether there is one, is in one answer.
LEMMA SpfIsRead ==
  ASSUME NEW dns
  PROVE  LET s == RawSpf(dns)
             good == {x \in dns[<<"SPF", "domain">>].rr : x.kind = "good"}
             gone == IsLost(dns[<<"SPF", "domain">>])
         IN /\ s.status = "unavailable" <=> gone
            /\ s.found <=> ~gone /\ good # {} /\ ~(Cardinality(good) > 1)
            /\ s.null => s.found
<1> DEFINE txt  == dns[<<"SPF", "domain">>]
           good == {x \in txt.rr : x.kind = "good"}
           one  == CHOOSE x \in good : TRUE
           gone == IsLost(txt)
           near == \E x \in txt.rr : x.kind = "near"
           many == Cardinality(good) > 1
           count == CountSpfLookups(dns)
           issues == SpfIssues(one, count)
           found == FoundSpf(one, count, issues)
           s     == RawSpf(dns)
<1>1. s = IF gone THEN NoSpf("unavailable", FALSE, FALSE, {})
          ELSE IF good = {} /\ near THEN NoSpf("error", TRUE, FALSE, {Issue("error", "malformed version tag")})
          ELSE IF good = {} THEN NoSpf("error", FALSE, FALSE, {Issue("error", "no record")})
          ELSE IF many THEN NoSpf("error", FALSE, TRUE, {Issue("error", "several records")})
          ELSE found
  BY DEF RawSpf, OneSpf
<1>2. found.found /\ found.status # "unavailable"
  <2> HIDE DEF one, count, issues
  <2>1. found.found /\ found.status = RawStatus(issues)
    BY DEF FoundSpf
  <2>2. RawStatus(issues) # "unavailable"
    BY IssuesAre
  <2> QED BY <2>1, <2>2
<1>3. /\ s.status = "unavailable" <=> gone
      /\ s.found <=> ~gone /\ good # {} /\ ~many
      /\ s.null => s.found
  <2>1. ASSUME NEW status, NEW malformed, NEW multiple, NEW i, s = NoSpf(status, malformed, multiple, i)
        PROVE  s.found = FALSE /\ s.null = FALSE /\ s.status = status
    BY <2>1 DEF NoSpf
  <2> HIDE DEF s, found, gone, good, near, many
  <2>2. CASE gone
    <3>1. s = NoSpf("unavailable", FALSE, FALSE, {})
      BY <1>1, <2>2
    <3> QED BY <2>1, <2>2, <3>1
  <2>3. CASE ~gone /\ (good = {} \/ many)
    <3>1. \E malformed, multiple, i : s = NoSpf("error", malformed, multiple, i)
      <4> HIDE DEF NoSpf
      <4> QED BY <1>1, <2>3, Zenon
    <3>2. s.found = FALSE /\ s.null = FALSE /\ s.status = "error"
      BY <2>1, <3>1
    <3> QED BY <2>3, <3>2
  <2>4. CASE ~gone /\ good # {} /\ ~many
    <3>1. s = found
      BY <1>1, <2>4
    <3> QED BY <1>2, <2>4, <3>1
  <2> QED BY <2>2, <2>3, <2>4
<1> HIDE DEF s, gone, good
<1> QED BY <1>3 DEF s, gone, good

-----------------------------------------------------------------------------
(* DMARC *)

(* A line that does not make a DMARC card red: a report destination that did *)
(* not agree is a warning on it.                                             *)
Harmless(i) == \E s, about : i = Issue(s, about) /\ (s # "error" \/ about = "destination not authorized")

(* Two readings of one record, the second with all that is wrong in the first. *)
Alike(d, e) ==
  /\ e.found = d.found /\ e.malformed = d.malformed /\ e.multiple = d.multiple
  /\ e.record = d.record /\ e.syntax = d.syntax /\ e.lost = d.lost
  /\ e.inherited = d.inherited /\ e.parent = d.parent /\ e.isSubdomain = d.isSubdomain
  /\ e.registry = d.registry
  /\ (e.status = "unavailable") = (d.status = "unavailable")
  /\ \A i \in d.issues : i \in e.issues \/ Harmless(i)

LEMMA HarmlessAre ==
  /\ \A about : Harmless(Issue("info", about)) /\ Harmless(Issue("warning", about))
  /\ \A s : Harmless(Issue(s, "destination not authorized"))
<1>1. "info" # "error" /\ "warning" # "error"
  OBVIOUS
<1> QED BY <1>1, Zenon DEF Harmless

\* The check reads the record from one answer, but for a remark on a CNAME.
LEMMA RawDmarcTells ==
  ASSUME NEW a, NEW b, a[<<"TXT", "_dmarc">>] = b[<<"TXT", "_dmarc">>]
  PROVE  Alike(RawDmarc(a), RawDmarc(b))
<1> DEFINE txt   == a[<<"TXT", "_dmarc">>]
           good  == {x \in txt.rr : x.kind = "good"}
           near  == {x \in txt.rr : x.kind = "near"}
           other == IssueIf(\E x \in txt.rr : x.kind = "other", "info", "other txt")
           cname(dns) == IssueIf(Got(dns[<<"CNAME", "_dmarc">>]), "info", "cname")
           aside(dns) == other \cup cname(dns)
           r     == CHOOSE x \in good : TRUE
           almost == CHOOSE x \in near : TRUE
           syntax == Syntax(r) \cup FatalPolicy(r)
                     \cup IssueIf(near # {}, "error", "lowercase version")
           one(dns)    == aside(dns) \cup {Issue("error", "malformed version tag")}
           none(dns)   == aside(dns) \cup {Issue("error", "no record")}
           many(dns)   == aside(dns) \cup {Issue("error", "several records")}
           issues(dns) == aside(dns) \cup RecordIssues(r) \cup syntax
           status(dns) == RawStatus(issues(dns))
           ready(dns)  == Readiness(r, status(dns))
           several == Cardinality(good) > 1
           gone == IsLost(txt)
<1>1. ASSUME NEW dns, dns[<<"TXT", "_dmarc">>] = txt
      PROVE  RawDmarc(dns) =
               IF gone THEN NoDmarc("unavailable", FALSE, FALSE, {})
               ELSE IF good = {} /\ near # {}
                    THEN [NoDmarc("error", TRUE, FALSE, one(dns)) EXCEPT !.record = almost]
               ELSE IF good = {} THEN NoDmarc("error", FALSE, FALSE, none(dns))
               ELSE IF several
                    THEN [NoDmarc("error", FALSE, TRUE, many(dns)) EXCEPT !.found = TRUE, !.record = r]
               ELSE [NoDmarc(status(dns), FALSE, FALSE, issues(dns))
                       EXCEPT !.found = TRUE, !.record = r, !.syntax = syntax, !.readiness = ready(dns)]
  BY <1>1 DEF RawDmarc, OneDmarc, FoundDmarc
<1>2. \A dns : status(dns) # "unavailable"
  BY IssuesAre
<1>3. ASSUME NEW i \in cname(a) PROVE Harmless(i)
  <2>1. i = Issue("info", "cname")
    BY <1>3 DEF IssueIf
  <2> QED BY <2>1, HarmlessAre
<1>4. /\ \A i \in one(a) : i \in one(b) \/ Harmless(i)
      /\ \A i \in none(a) : i \in none(b) \/ Harmless(i)
      /\ \A i \in many(a) : i \in many(b) \/ Harmless(i)
      /\ \A i \in issues(a) : i \in issues(b) \/ Harmless(i)
  <2> HIDE DEF cname, other, syntax, r
  <2> QED BY <1>3
<1> HIDE DEF gone, good, near, almost, r, syntax, one, none, many, issues, status, ready, several
<1> DEFINE d == RawDmarc(a)
           e == RawDmarc(b)
<1>5. \A dns : dns \in {a, b} => dns[<<"TXT", "_dmarc">>] = txt
  OBVIOUS
<1> HIDE DEF txt, d, e
<1>6. CASE gone
  <2>1. d = NoDmarc("unavailable", FALSE, FALSE, {}) /\ e = NoDmarc("unavailable", FALSE, FALSE, {})
    BY <1>1, <1>5, <1>6 DEF d, e
  <2>2. \A i \in d.issues : i \in e.issues
    BY <2>1
  <2> QED BY <2>1, <2>2 DEF NoDmarc, Alike, d, e
<1>7. CASE ~gone /\ good = {} /\ near # {}
  <2>1. /\ d = [NoDmarc("error", TRUE, FALSE, one(a)) EXCEPT !.record = almost]
        /\ e = [NoDmarc("error", TRUE, FALSE, one(b)) EXCEPT !.record = almost]
    BY <1>1, <1>5, <1>7 DEF d, e
  <2>2. d.issues = one(a) /\ e.issues = one(b)
    BY <2>1 DEF NoDmarc
  <2> QED BY <1>4, <2>1, <2>2 DEF NoDmarc, Alike, d, e
<1>8. CASE ~gone /\ good = {} /\ ~(near # {})
  <2>1. d = NoDmarc("error", FALSE, FALSE, none(a)) /\ e = NoDmarc("error", FALSE, FALSE, none(b))
    BY <1>1, <1>5, <1>8 DEF d, e
  <2>2. d.issues = none(a) /\ e.issues = none(b)
    BY <2>1 DEF NoDmarc
  <2> QED BY <1>4, <2>1, <2>2 DEF NoDmarc, Alike, d, e
<1>9. CASE ~gone /\ good # {} /\ several
  <2>1. /\ d = [NoDmarc("error", FALSE, TRUE, many(a)) EXCEPT !.found = TRUE, !.record = r]
        /\ e = [NoDmarc("error", FALSE, TRUE, many(b)) EXCEPT !.found = TRUE, !.record = r]
    BY <1>1, <1>5, <1>9 DEF d, e
  <2>2. d.issues = many(a) /\ e.issues = many(b)
    BY <2>1 DEF NoDmarc
  <2> QED BY <1>4, <2>1, <2>2 DEF NoDmarc, Alike, d, e
<1>10. CASE ~gone /\ good # {} /\ ~several
  <2> DEFINE found(dns) == [NoDmarc(status(dns), FALSE, FALSE, issues(dns))
               EXCEPT !.found = TRUE, !.record = r, !.syntax = syntax, !.readiness = ready(dns)]
  <2>1. d = found(a) /\ e = found(b)
    BY <1>1, <1>5, <1>10 DEF d, e
  <2>2. d.issues = issues(a) /\ e.issues = issues(b)
    BY <2>1 DEF NoDmarc
  <2>3. d.status = status(a) /\ e.status = status(b)
    BY <2>1 DEF NoDmarc
  <2>4. (e.status = "unavailable") = (d.status = "unavailable")
    BY <1>2, <2>3
  <2> QED BY <1>4, <2>1, <2>2, <2>4 DEF NoDmarc, Alike, d, e
<1> QED BY <1>6, <1>7, <1>8, <1>9, <1>10

\* What is inherited is the same when the walk is and the answer of the parent is.
LEMMA InheritanceTells ==
  ASSUME NEW a, NEW b, NEW n, NEW psl, NEW walk, NEW walkB, NEW d, NEW e,
         Alike(d, e), DmarcSound(d), DmarcSound(e),
         LET x == EnrichInheritance(d, a, walk, n, psl)
         IN d.found \/ (~walk.incomplete /\ walkB = walk /\ ~x.lost),
         Heard(a, b, <<"TXT", "_dmarc.org">>)
  PROVE  Alike(EnrichInheritance(d, a, walk, n, psl), EnrichInheritance(e, b, walkB, n, psl))
<1> DEFINE inherited == RecoveredPolicy(walk.policy, walk.record)
           source    == walk.source
           parent    == walk.record
           registry  == walk.source < psl
           below     == ~(walk.source < psl /\ psl = n)
           dd        == EnrichInheritance(d, a, walk, n, psl)
           ee        == EnrichInheritance(e, b, walkB, n, psl)
<1>1. CASE d.found
  <2>1. dd = d /\ ee = e
    BY <1>1 DEF EnrichInheritance, Alike
  <2> QED BY <2>1
<1>2. CASE ~d.found /\ walk.isSubdomain
  <2>1. /\ dd = [d EXCEPT !.inherited = inherited, !.source = source, !.parent = parent,
                          !.registry = registry, !.isSubdomain = below]
        /\ ee = [e EXCEPT !.inherited = inherited, !.source = source, !.parent = parent,
                          !.registry = registry, !.isSubdomain = below]
    BY <1>2 DEF EnrichInheritance, Alike
  <2> HIDE DEF dd, ee, inherited, source, parent, registry, below
  <2>2. dd.issues = d.issues /\ ee.issues = e.issues
    BY <2>1 DEF DmarcSound, DmarcFields
  <2>3. Alike(dd, ee)
    BY <2>1, <2>2 DEF DmarcSound, DmarcFields, Alike
  <2> QED BY <2>3 DEF dd, ee
<1>3. CASE ~d.found /\ ~walk.isSubdomain
  <2> DEFINE org(dns) == dns[<<"TXT", "_dmarc.org">>]
             record == OneRecord(org(a))
             r      == CHOOSE x \in record : TRUE
             policy == IF Has(r.sp) THEN r.sp ELSE r.p
             theirs == RecoveredPolicy(policy, r)
             none   == record = {} \/ ~Has(policy)
  <2>1. dd = FromPsl(d, a, n, psl) /\ ee = FromPsl(e, b, n, psl)
    BY <1>3 DEF EnrichInheritance, Alike
  <2>2. CASE psl = n
    BY <2>1, <2>2 DEF FromPsl
  <2>3. CASE psl # n
    <3>1. dd = IF IsLost(org(a)) THEN [d EXCEPT !.lost = TRUE]
               ELSE IF none THEN d
               ELSE [d EXCEPT !.inherited = theirs, !.source = psl, !.parent = r, !.isSubdomain = TRUE]
      BY <2>1, <2>3 DEF FromPsl
    <3>2. ~IsLost(org(a))
      <4> SUFFICES ASSUME IsLost(org(a)) PROVE FALSE
        OBVIOUS
      <4>1. dd = [d EXCEPT !.lost = TRUE]
        BY <3>1
      <4>2. ~dd.lost
        BY <1>3
      <4> HIDE DEF dd
      <4> QED BY <4>1, <4>2 DEF DmarcSound, DmarcFields
    <3>3. org(b) = org(a)
      BY <3>2 DEF Heard
    <3>4. ee = IF none THEN e
               ELSE [e EXCEPT !.inherited = theirs, !.source = psl, !.parent = r, !.isSubdomain = TRUE]
      BY <2>1, <2>3, <3>2, <3>3 DEF FromPsl
    <3> HIDE DEF dd, ee, theirs, r
    <3>5. CASE none
      <4>1. dd = d /\ ee = e
        BY <3>1, <3>2, <3>4, <3>5
      <4> QED BY <4>1 DEF dd, ee
    <3>6. CASE ~none
      <4>1. /\ dd = [d EXCEPT !.inherited = theirs, !.source = psl, !.parent = r, !.isSubdomain = TRUE]
            /\ ee = [e EXCEPT !.inherited = theirs, !.source = psl, !.parent = r, !.isSubdomain = TRUE]
        BY <3>1, <3>2, <3>4, <3>6
      <4>2. dd.issues = d.issues /\ ee.issues = e.issues
        BY <4>1 DEF DmarcSound, DmarcFields
      <4>3. Alike(dd, ee)
        BY <4>1, <4>2 DEF DmarcSound, DmarcFields, Alike
      <4> QED BY <4>3 DEF dd, ee
    <3> QED BY <3>5, <3>6
  <2> QED BY <2>2, <2>3
<1> QED BY <1>1, <1>2, <1>3

\* What the check of the report destinations adds never makes the card red.
LEMMA ReportAuthTells ==
  ASSUME NEW a, NEW b, NEW external, NEW d, NEW e, Alike(d, e), DmarcSound(d), DmarcSound(e)
  PROVE  Alike(WithReportAuth(d, a, external), WithReportAuth(e, b, external))
<1> DEFINE tags  == {t \in {"rua", "ruf"} : Has(d.record[t])}
           dests(dns) == {Destination(dns, t, external) : t \in tags}
           away(dns) == {x \in dests(dns) : x.external}
           added(dns) ==
                  IssueIf(\E x \in away(dns) : x.authorized = "no", "error", "destination not authorized")
             \cup IssueIf(\E x \in away(dns) : x.unchecked, "warning", "authorization not checked")
             \cup IssueIf(\E x \in away(dns) : x.hasMx = "no", "warning", "destination without mx")
             \cup IssueIf("ruf" \in tags, "info", "ruf")
           dd == WithReportAuth(d, a, external)
           ee == WithReportAuth(e, b, external)
<1>1. ASSUME NEW dns, NEW x, x.found = d.found, x.multiple = d.multiple, x.record = d.record
      PROVE  WithReportAuth(x, dns, external) =
               IF ~d.found \/ d.multiple \/ tags = {} THEN x
               ELSE IF IsLost(dns[<<"time", "report-auth">>]) THEN [x EXCEPT !.authUnknown = TRUE]
               ELSE [x EXCEPT !.destinations = dests(dns), !.issues = x.issues \cup added(dns)]
  BY <1>1 DEF WithReportAuth
<1>2. ASSUME NEW dns, NEW i \in added(dns) PROVE Harmless(i)
  <2>1. \/ i = Issue("error", "destination not authorized")
        \/ i = Issue("warning", "authorization not checked")
        \/ i = Issue("warning", "destination without mx")
        \/ i = Issue("info", "ruf")
    BY <1>2 DEF IssueIf
  <2> QED BY <2>1, HarmlessAre
<1>3. e.found = d.found /\ e.multiple = d.multiple /\ e.record = d.record
  BY DEF Alike
<1> HIDE DEF tags, dests, added
<1> DEFINE extra == IF ~d.found \/ d.multiple \/ tags = {} \/ IsLost(a[<<"time", "report-auth">>])
                    THEN {} ELSE added(a)
<1>4. DmarcFields \subseteq DOMAIN d /\ DmarcFields \subseteq DOMAIN e
  BY DEF DmarcSound
<1>5. ASSUME NEW dns, NEW x, x.found = d.found, x.multiple = d.multiple, x.record = d.record,
             DmarcFields \subseteq DOMAIN x
      PROVE  LET y == WithReportAuth(x, dns, external)
             IN /\ y.found = x.found /\ y.malformed = x.malformed /\ y.multiple = x.multiple
                /\ y.record = x.record /\ y.syntax = x.syntax /\ y.lost = x.lost
                /\ y.inherited = x.inherited /\ y.parent = x.parent
                /\ y.isSubdomain = x.isSubdomain /\ y.registry = x.registry
                /\ y.status = x.status
                /\ y.issues = x.issues \/ y.issues = x.issues \cup added(dns)
  <2> DEFINE y == WithReportAuth(x, dns, external)
             more == x.issues \cup added(dns)
             there == dests(dns)
  <2>1. \/ y = x \/ y = [x EXCEPT !.authUnknown = TRUE]
        \/ y = [x EXCEPT !.destinations = there, !.issues = more]
    BY <1>1, <1>5
  <2> HIDE DEF y, more, there
  <2>2. y.issues = x.issues \/ y.issues = more
    BY <1>5, <2>1 DEF DmarcFields
  <2>3. /\ y.found = x.found /\ y.malformed = x.malformed /\ y.multiple = x.multiple
        /\ y.record = x.record /\ y.syntax = x.syntax /\ y.lost = x.lost
        /\ y.inherited = x.inherited /\ y.parent = x.parent
        /\ y.isSubdomain = x.isSubdomain /\ y.registry = x.registry
        /\ y.status = x.status
    BY <1>5, <2>1 DEF DmarcFields
  <2> QED BY <2>2, <2>3 DEF y, more
<1> HIDE DEF dd, ee
<1>6. /\ dd.issues = d.issues \/ dd.issues = d.issues \cup added(a)
      /\ e.issues \subseteq ee.issues
  BY <1>3, <1>4, <1>5 DEF dd, ee
<1>7. \A i \in dd.issues : i \in ee.issues \/ Harmless(i)
  BY <1>2, <1>6 DEF Alike
<1>8. /\ dd.found = d.found /\ dd.malformed = d.malformed /\ dd.multiple = d.multiple
      /\ dd.record = d.record /\ dd.syntax = d.syntax /\ dd.lost = d.lost
      /\ dd.inherited = d.inherited /\ dd.parent = d.parent
      /\ dd.isSubdomain = d.isSubdomain /\ dd.registry = d.registry /\ dd.status = d.status
  BY <1>4, <1>5 DEF dd
<1>9. /\ ee.found = e.found /\ ee.malformed = e.malformed /\ ee.multiple = e.multiple
      /\ ee.record = e.record /\ ee.syntax = e.syntax /\ ee.lost = e.lost
      /\ ee.inherited = e.inherited /\ ee.parent = e.parent
      /\ ee.isSubdomain = e.isSubdomain /\ ee.registry = e.registry /\ ee.status = e.status
  BY <1>3, <1>4, <1>5 DEF ee
<1>10. Alike(dd, ee)
  BY <1>7, <1>8, <1>9 DEF Alike
<1> QED BY <1>10 DEF dd, ee

\* A walk that lost no answer goes the same way when none is lost.
LEMMA StepsTell ==
  ASSUME NEW a, NEW b, NEW n \in Nat \ {0},
         \A i \in DOMAIN WalkedNames(n) : Heard(a, b, <<"DMARC", WalkedNames(n)[i]>>),
         \A i \in DOMAIN WalkSteps(a, n) : ~WalkSteps(a, n)[i].lost
  PROVE  WalkSteps(b, n) = WalkSteps(a, n)
<1> DEFINE names == WalkedNames(n)
           m     == IF n > MaxTreeWalkQueries THEN MaxTreeWalkQueries ELSE n - 1
           at(dns, i) == dns[<<"DMARC", names[i]>>]
           lev(dns, i) == Level(names[i], at(dns, i), OneRecord(at(dns, i)))
           L(dns) == Levels(dns, names)
           stops(dns) == {i \in 1..m : L(dns)[i].stop}
           first(dns) == CHOOSE i \in stops(dns) : \A k \in stops(dns) : i <= k
           K(dns) == IF stops(dns) = {} THEN m ELSE first(dns)
<1>1. m \in Nat /\ DOMAIN names = 1..m
  BY DEF WalkedNames, MaxTreeWalkQueries
<1>2. ASSUME NEW dns
      PROVE  /\ L(dns) = [i \in 1..m |-> lev(dns, i)]
             /\ Len(L(dns)) = m /\ DOMAIN L(dns) = 1..m
             /\ \A i \in 1..m : L(dns)[i] = lev(dns, i)
  <2>1. L(dns) = [i \in 1..m |-> lev(dns, i)]
    BY <1>1 DEF Levels
  <2> HIDE DEF L, m, lev
  <2> QED BY <1>1, <2>1
<1> HIDE DEF names, m
<1>3. ASSUME NEW dns
      PROVE  WalkSteps(dns, n) = SubSeq(L(dns), 1, K(dns))
  <2>1. WalkSteps(dns, n) = UpToStop(L(dns))
    BY DEF WalkSteps, names
  <2> HIDE DEF L
  <2> QED BY <1>2, <2>1 DEF UpToStop
<1>4. ASSUME NEW dns
      PROVE  /\ K(dns) \in 0..m
             /\ stops(dns) # {} => K(dns) \in stops(dns) /\ \A k \in stops(dns) : K(dns) <= k
  <2>1. CASE stops(dns) = {}
    BY <1>1, <2>1
  <2>2. CASE stops(dns) # {}
    <3>1. \E i \in stops(dns) : \A k \in stops(dns) : i <= k
      <4> HIDE DEF L
      <4>1. stops(dns) \subseteq 1..m
        OBVIOUS
      <4>2. IsFiniteSet(stops(dns)) /\ stops(dns) \subseteq Nat
        <5> HIDE DEF stops
        <5>1. IsFiniteSet(1..m)
          BY <1>1, FS_Interval
        <5> QED BY <1>1, <4>1, <5>1, FS_Subset
      <4> HIDE DEF stops
      <4> QED BY <2>2, <4>2, FirstPlace
    <3>2. stops(dns) \subseteq 1..m
      OBVIOUS
    <3> HIDE DEF stops, L
    <3>3. first(dns) \in stops(dns) /\ \A k \in stops(dns) : first(dns) <= k
      BY <3>1
    <3> HIDE DEF first
    <3> QED BY <1>1, <2>2, <3>2, <3>3
  <2> QED BY <2>1, <2>2
<1>5. ASSUME NEW dns, NEW T, \A i \in 1..K(dns) : L(dns)[i] \in T
      PROVE  /\ SubSeq(L(dns), 1, K(dns)) \in Seq(T)
             /\ Len(SubSeq(L(dns), 1, K(dns))) = K(dns)
             /\ \A i \in 1..K(dns) : SubSeq(L(dns), 1, K(dns))[i] = L(dns)[i]
  <2> HIDE DEF L, K
  <2>1. K(dns) \in Int /\ K(dns) >= 0
    BY <1>1, <1>4
  <2>2. /\ SubSeq(L(dns), 1, K(dns)) \in Seq(T)
        /\ Len(SubSeq(L(dns), 1, K(dns))) = IF 1 <= K(dns) THEN K(dns) - 1 + 1 ELSE 0
        /\ \A i \in 1..K(dns) - 1 + 1 : SubSeq(L(dns), 1, K(dns))[i] = L(dns)[1 + i - 1]
    BY <1>5, <2>1, SubSeqProperties
  <2>3. Len(SubSeq(L(dns), 1, K(dns))) = K(dns)
    BY <2>1, <2>2
  <2>4. ASSUME NEW i \in 1..K(dns) PROVE SubSeq(L(dns), 1, K(dns))[i] = L(dns)[i]
    <3>1. i \in 1..K(dns) - 1 + 1 /\ 1 + i - 1 = i
      BY <2>1
    <3> QED BY <2>2, <3>1
  <2> QED BY <2>2, <2>3, <2>4
<1> HIDE DEF K, L
<1>6. ASSUME NEW i \in 1..K(a) PROVE L(b)[i] = L(a)[i]
  <2> DEFINE T == {L(a)[k] : k \in 1..K(a)}
  <2>1. WalkSteps(a, n) \in Seq(T) /\ Len(WalkSteps(a, n)) = K(a) /\ WalkSteps(a, n)[i] = L(a)[i]
    <3>1. \A k \in 1..K(a) : L(a)[k] \in T
      OBVIOUS
    <3> HIDE DEF T
    <3> QED BY <1>3, <1>5, <3>1
  <2> HIDE DEF T
  <2>2. ~L(a)[i].lost
    <3>1. i \in DOMAIN WalkSteps(a, n)
      BY <2>1
    <3> QED BY <2>1, <3>1
  <2>3. i \in 1..m
    BY <1>1, <1>4
  <2>4. ~IsLost(at(a, i))
    BY <1>2, <2>2, <2>3 DEF Level
  <2>5. at(b, i) = at(a, i)
    BY <1>1, <2>3, <2>4 DEF Heard, names
  <2> QED BY <1>2, <2>3, <2>5
<1>7. K(b) = K(a)
  <2>1. \A i \in 1..K(a) : i \in stops(a) <=> i \in stops(b)
    <3>1. \A i \in 1..K(a) : i \in 1..m
      BY <1>1, <1>4
    <3> QED BY <1>6, <3>1
  <2>2. \A k \in stops(a) : k \in 1..m
    OBVIOUS
  <2>3. \A k \in stops(b) : k \in 1..m
    OBVIOUS
  <2>4. /\ stops(a) = {} => K(a) = m
        /\ stops(b) = {} => K(b) = m
    BY DEF K
  <2> HIDE DEF stops
  <2>5. CASE stops(a) = {}
    <3>1. stops(b) = {}
      BY <2>1, <2>3, <2>4, <2>5
    <3> QED BY <2>4, <2>5, <3>1
  <2>6. CASE stops(a) # {}
    <3>1. K(a) \in stops(a) /\ K(a) \in stops(b)
      BY <1>1, <1>4, <2>1, <2>2, <2>6
    <3>2. K(b) \in stops(b) /\ K(b) <= K(a)
      BY <1>4, <3>1
    <3>3. K(b) \in stops(a)
      BY <1>1, <1>4, <2>1, <2>3, <3>2
    <3>4. K(a) <= K(b)
      BY <1>4, <3>3
    <3> QED BY <1>1, <1>4, <3>2, <3>4
  <2> QED BY <2>5, <2>6
<1>8. SubSeq(L(b), 1, K(b)) = SubSeq(L(a), 1, K(a))
  <2> DEFINE T == {L(a)[k] : k \in 1..K(a)}
             s == SubSeq(L(a), 1, K(a))
             t == SubSeq(L(b), 1, K(b))
  <2>1. \A k \in 1..K(a) : L(a)[k] \in T /\ L(b)[k] \in T
    BY <1>6
  <2> HIDE DEF T
  <2>2. s \in Seq(T) /\ Len(s) = K(a) /\ \A i \in 1..K(a) : s[i] = L(a)[i]
    BY <1>5, <2>1
  <2>3. t \in Seq(T) /\ Len(t) = K(a) /\ \A i \in 1..K(a) : t[i] = L(b)[i]
    BY <1>5, <1>7, <2>1
  <2> HIDE DEF s, t
  <2>4. \A i \in 1..K(a) : t[i] = s[i]
    BY <1>6, <2>2, <2>3
  <2>5. t = s
    BY <2>2, <2>3, <2>4
  <2> QED BY <2>5 DEF s, t
<1> QED BY <1>3, <1>8

\* So is all that it says.
LEMMA WalkTells ==
  ASSUME NEW a, NEW b, NEW n \in Nat \ {0}, NEW psl,
         Heard(a, b, <<"DMARC", n>>), Heard(a, b, <<"SOA", "exists">>),
         \A i \in DOMAIN WalkedNames(n) : Heard(a, b, <<"DMARC", WalkedNames(n)[i]>>),
         ~TreeWalk(a, n, psl).incomplete, ~IsLost(a[<<"SOA", "exists">>])
  PROVE  TreeWalk(b, n, psl) = TreeWalk(a, n, psl)
<1> DEFINE author(dns) == OneRecord(dns[<<"DMARC", n>>])
           steps(dns)  == Walked(dns, n, author(dns))
           base(dns)   == IF author(dns) # {}
                          THEN OwnPolicy(steps(dns), n, CHOOSE r \in author(dns) : TRUE, psl)
                          ELSE FromParents(steps(dns), WalkPolicy(steps(dns)),
                                           dns[<<"SOA", "exists">>].rc # "nx")
           missed(dns) == IsLost(dns[<<"DMARC", n>>]) \/ \E i \in DOMAIN steps(dns) : steps(dns)[i].lost
           above(dns)  == UNION {steps(dns)[i].found :
                                   i \in {k \in DOMAIN steps(dns) : steps(dns)[k].name = psl}}
<1> DEFINE more(dns) == [incomplete |-> missed(dns), atOrg |-> above(dns)]
<1>1. \A dns : TreeWalk(dns, n, psl) = Over(more(dns), base(dns))
  BY DEF TreeWalk, WalkResult
<1>3. ~missed(a)
  <2> DEFINE w == TreeWalk(a, n, psl)
  <2>1. w = Over(more(a), base(a))
    BY <1>1
  <2> HIDE DEF w, base, missed, above
  <2>2. w.incomplete = missed(a)
    BY <2>1 DEF Over
  <2> QED BY <2>2 DEF w
<1>4. b[<<"DMARC", n>>] = a[<<"DMARC", n>>]
  BY <1>3 DEF Heard
<1>5. b[<<"SOA", "exists">>] = a[<<"SOA", "exists">>]
  BY DEF Heard
<1>6. author(b) = author(a)
  BY <1>4
<1>7. steps(b) = steps(a)
  <2>1. CASE \E own \in author(a) : own.psd \in {"y", "n"} \/ n = 2
    BY <1>6, <2>1 DEF Walked
  <2>2. CASE ~(\E own \in author(a) : own.psd \in {"y", "n"} \/ n = 2)
    <3>1. steps(a) = WalkSteps(a, n) /\ steps(b) = WalkSteps(b, n)
      BY <1>6, <2>2 DEF Walked
    <3>2. \A i \in DOMAIN WalkSteps(a, n) : ~WalkSteps(a, n)[i].lost
      BY <1>3, <3>1
    <3> HIDE DEF steps
    <3> QED BY <3>1, <3>2, StepsTell
  <2> QED BY <2>1, <2>2
<1> HIDE DEF author, steps
<1>8. base(b) = base(a) /\ missed(b) = missed(a) /\ above(b) = above(a)
  BY <1>4, <1>5, <1>6, <1>7
<1> HIDE DEF base, missed, above
<1> QED BY <1>1, <1>8

\* Nothing harmless reddens a card.
LEMMA IssuesTell ==
  ASSUME NEW d, NEW e, NEW noMail, NEW delivery,
         \A i \in d.issues : i \in e.issues \/ Harmless(i),
         Severe(CardIssues(d, noMail, delivery), "error")
  PROVE  Severe(CardIssues(e, noMail, delivery), "error")
<1> DEFINE seen(i) == IF i.about = "destination not authorized"      THEN [i EXCEPT !.sev = "warning"]
                      ELSE IF i.about = "p=none" /\ delivery         THEN [i EXCEPT !.sev = "info"]
                      ELSE i
           kept(x) == {i \in x.issues : ~(noMail /\ i.about = "no rua")}
<1>1. \A x : CardIssues(x, noMail, delivery) = {seen(i) : i \in kept(x)}
  BY DEF CardIssues
<1>2. ASSUME NEW i, Harmless(i) PROVE seen(i).sev # "error"
  <2>1. PICK s, about : i = Issue(s, about) /\ (s # "error" \/ about = "destination not authorized")
    BY <1>2 DEF Harmless
  <2>2. i = [sev |-> s, about |-> about]
    BY <2>1 DEF Issue
  <2>3. i.sev = s /\ i.about = about /\ [i EXCEPT !.sev = "warning"].sev = "warning"
        /\ [i EXCEPT !.sev = "info"].sev = "info"
    BY <2>2
  <2>4. CASE i.about = "destination not authorized"
    BY <2>3, <2>4
  <2>5. CASE i.about # "destination not authorized" /\ i.about = "p=none" /\ delivery
    BY <2>3, <2>5
  <2>6. CASE i.about # "destination not authorized" /\ ~(i.about = "p=none" /\ delivery)
    BY <2>1, <2>3, <2>6
  <2> QED BY <2>4, <2>5, <2>6
<1> HIDE DEF seen
<1>3. PICK j \in CardIssues(d, noMail, delivery) : j.sev = "error"
  BY DEF Severe
<1>4. \E i \in kept(d) : j = seen(i)
  <2> HIDE DEF kept
  <2>1. j \in {seen(i) : i \in kept(d)}
    BY <1>1
  <2> QED BY <2>1
<1>5. PICK i \in kept(d) : j = seen(i)
  BY <1>4
<1>6. i \in kept(e)
  <2>1. i \in e.issues
    BY <1>2, <1>3, <1>5
  <2> QED BY <1>5, <2>1
<1>7. j \in CardIssues(e, noMail, delivery)
  <2> HIDE DEF kept
  <2> QED BY <1>1, <1>5, <1>6
<1> QED BY <1>3, <1>7 DEF Severe

\* Above the registry the two readings are still alike.
LEMMA AboveRegistryTells ==
  ASSUME NEW d, NEW e, NEW atOrgD, NEW atOrgE, Alike(d, e), DmarcSound(d), DmarcSound(e),
         d.registry => atOrgE = atOrgD
  PROVE  LET x == AboveRegistry(d, atOrgD)
             y == AboveRegistry(e, atOrgE)
         IN /\ y.found = x.found /\ y.lost = x.lost /\ y.record = x.record /\ y.syntax = x.syntax
            /\ y.inherited = x.inherited /\ y.parent = x.parent /\ y.isSubdomain = x.isSubdomain
            /\ x.issues = d.issues /\ y.issues = e.issues
<1> DEFINE usable == {r \in atOrgD : TagValue(r, IF Has(r.sp) THEN "sp" ELSE "p") \in Policies}
           r == CHOOSE x \in usable : TRUE
           inherited == TagValue(r, IF Has(r.sp) THEN "sp" ELSE "p")
           x == AboveRegistry(d, atOrgD)
           y == AboveRegistry(e, atOrgE)
<1>1. \/ /\ x = [d EXCEPT !.inherited = inherited, !.parent = r]
         /\ y = [e EXCEPT !.inherited = inherited, !.parent = r]
      \/ /\ x = [d EXCEPT !.inherited = "no", !.isSubdomain = FALSE]
         /\ y = [e EXCEPT !.inherited = "no", !.isSubdomain = FALSE]
      \/ x = d /\ y = e
  <2>1. e.registry = d.registry /\ e.isSubdomain = d.isSubdomain
    BY DEF Alike
  <2>2. CASE ~d.registry
    BY <2>1, <2>2 DEF AboveRegistry
  <2>3. CASE d.registry
    <3>1. atOrgE = atOrgD
      BY <2>3
    <3>2. CASE d.isSubdomain /\ usable # {}
      BY <2>1, <2>3, <3>1, <3>2 DEF AboveRegistry
    <3>3. CASE ~(d.isSubdomain /\ usable # {})
      BY <2>1, <2>3, <3>1, <3>3 DEF AboveRegistry
    <3> QED BY <3>2, <3>3
  <2> QED BY <2>2, <2>3
<1> HIDE DEF usable, r, inherited, x, y
<1>2. DmarcFields \subseteq DOMAIN d /\ DmarcFields \subseteq DOMAIN e
  BY DEF DmarcSound
<1>3. x.issues = d.issues /\ y.issues = e.issues
  BY <1>1, <1>2 DEF DmarcFields
<1>4. /\ y.found = x.found /\ y.lost = x.lost /\ y.record = x.record /\ y.syntax = x.syntax
      /\ y.inherited = x.inherited /\ y.parent = x.parent /\ y.isSubdomain = x.isSubdomain
  <2>1. /\ e.found = d.found /\ e.lost = d.lost /\ e.record = d.record /\ e.syntax = d.syntax
        /\ e.inherited = d.inherited /\ e.parent = d.parent /\ e.isSubdomain = d.isSubdomain
    BY DEF Alike
  <2>2. /\ y.found = x.found /\ y.lost = x.lost /\ y.record = x.record /\ y.syntax = x.syntax
    BY <1>1, <1>2, <2>1 DEF DmarcFields
  <2>3. y.inherited = x.inherited
    BY <1>1, <1>2, <2>1 DEF DmarcFields
  <2>4. y.parent = x.parent
    BY <1>1, <1>2, <2>1 DEF DmarcFields
  <2>5. y.isSubdomain = x.isSubdomain
    BY <1>1, <1>2, <2>1 DEF DmarcFields
  <2> QED BY <2>2, <2>3, <2>4, <2>5
<1> QED BY <1>3, <1>4 DEF x, y

\* The second reading's card is red whenever the first one's is.
LEMMA DmarcCardTells ==
  ASSUME NEW d, NEW e, NEW atOrgD, NEW atOrgE, Alike(d, e), DmarcSound(d), DmarcSound(e),
         d.registry => atOrgE = atOrgD, NEW noMail, NEW delivery,
         Red(TransformDmarc(d, atOrgD, noMail, delivery))
  PROVE  Red(TransformDmarc(e, atOrgE, noMail, delivery))
<1> DEFINE x == AboveRegistry(d, atOrgD)
           y == AboveRegistry(e, atOrgE)
           above(r) == r.malformed /\ r.isSubdomain /\ r.inherited # "no"
           several(r) == Details(r.issues)
           missing(r) == Details(CardIssues(r, noMail, delivery))
           own(r)    == OwnStatus(r, noMail, delivery)
           theirs(r) == InheritedStatus(r, noMail, delivery)
           label(r)  == IF Recovered(r.record) THEN "Recovery" ELSE "own"
           lines(r)  == OwnDetails(r, noMail, delivery)
           up(r)     == InheritedDetails(r, delivery)
           drawn(g, r) == CardOfRecord(g, r, noMail, delivery)
           card(g, at) == TransformDmarc(g, at, noMail, delivery)
<1>1. /\ y.found = x.found /\ y.lost = x.lost /\ y.record = x.record /\ y.syntax = x.syntax
      /\ y.inherited = x.inherited /\ y.parent = x.parent /\ y.isSubdomain = x.isSubdomain
      /\ x.issues = d.issues /\ y.issues = e.issues
  BY AboveRegistryTells
<1>2. /\ e.malformed = d.malformed /\ e.multiple = d.multiple
      /\ e.inherited = d.inherited /\ e.isSubdomain = d.isSubdomain
      /\ (e.status = "unavailable") = (d.status = "unavailable")
      /\ \A i \in d.issues : i \in e.issues \/ Harmless(i)
  BY DEF Alike
<1> HIDE DEF x, y
<1>3. Inherits(y) = Inherits(x) /\ theirs(y) = theirs(x)
  BY <1>1 DEF Inherits, InheritedStatus
<1>4. own(x) = "fail" => own(y) = "fail"
  <2> DEFINE base(r) == PolicyStatus(r.record, noMail, delivery)
             wrong(r) == Severe(CardIssues(r, noMail, delivery) \cup r.syntax, "error")
             weak(r)  == Weakened(r, noMail) \/ Recovered(r.record)
  <2>1. ASSUME NEW r
        PROVE own(r) = IF base(r) = "fail" \/ wrong(r) THEN "fail" ELSE IF weak(r) THEN "warn" ELSE base(r)
    BY DEF OwnStatus
  <2>2. base(y) = base(x)
    BY <1>1
  <2>3. wrong(x) => wrong(y)
    <3>1. Severe(CardIssues(x, noMail, delivery), "error") => Severe(CardIssues(y, noMail, delivery), "error")
      BY <1>1, <1>2, IssuesTell
    <3> QED BY <1>1, <3>1, IssuesAre
  <2> HIDE DEF own, base, wrong, weak
  <2> QED BY <2>1, <2>2, <2>3
<1>5. ASSUME NEW g, NEW r
      PROVE  drawn(g, r) =
               IF g.multiple THEN Card("fail", "Multiple records", several(g))
               ELSE IF ~r.found /\ r.lost THEN Unavailable("Not checked")
               ELSE IF Inherits(r) THEN Card(theirs(r), "Inherited", up(r))
               ELSE IF ~r.found THEN Card("fail", "Missing", missing(r))
               ELSE Card(own(r), label(r), lines(r))
  BY DEF CardOfRecord
<1>6. /\ card(d, atOrgD) = IF d.status = "unavailable" THEN Unavailable("Not checked")
                           ELSE IF above(d) THEN [drawn(d, x) EXCEPT !.status = "fail", !.label = "Malformed"]
                           ELSE IF d.malformed THEN Card("fail", "Malformed", several(d))
                           ELSE drawn(d, x)
      /\ card(e, atOrgE) = IF e.status = "unavailable" THEN Unavailable("Not checked")
                           ELSE IF above(e) THEN [drawn(e, y) EXCEPT !.status = "fail", !.label = "Malformed"]
                           ELSE IF e.malformed THEN Card("fail", "Malformed", several(e))
                           ELSE drawn(e, y)
  BY DEF TransformDmarc, x, y
<1> HIDE DEF several, missing, own, theirs, label, lines, up, card
<1>7. d.status # "unavailable" /\ e.status # "unavailable"
  <2> HIDE DEF above, drawn
  <2> SUFFICES ASSUME d.status = "unavailable" PROVE FALSE
    BY <1>2
  <2>1. card(d, atOrgD) = Unavailable("Not checked")
    BY <1>6
  <2> QED BY <2>1, NotRed DEF card
<1>8. CASE d.malformed
  <2>1. IsCard(drawn(e, y))
    <3>1. \/ \E l : drawn(e, y) = Unavailable(l)
          \/ \E s, l, c : drawn(e, y) = Card(s, l, c)
      <4> HIDE DEF drawn
      <4> QED BY <1>5, Zenon
    <3> QED BY <3>1, CardIs
  <2>2. \A c : IsCard(c) => Red([c EXCEPT !.status = "fail", !.label = "Malformed"])
    BY DEF IsCard, Red
  <2> HIDE DEF drawn
  <2>3. Red(card(e, atOrgE))
    <3>1. CASE above(e)
      BY <1>6, <1>7, <2>1, <2>2, <3>1
    <3>2. CASE ~above(e)
      <4>1. card(e, atOrgE) = Card("fail", "Malformed", several(e))
        BY <1>2, <1>6, <1>7, <1>8, <3>2
      <4> QED BY <4>1, NotRed
    <3> QED BY <3>1, <3>2
  <2> QED BY <2>3 DEF card
<1>9. CASE ~d.malformed
  <2>1. card(d, atOrgD) = drawn(d, x) /\ card(e, atOrgE) = drawn(e, y)
    BY <1>2, <1>6, <1>7, <1>9
  <2>2. Red(drawn(d, x))
    BY <2>1 DEF card
  <2> HIDE DEF drawn
  <2>3. CASE d.multiple
    <3>1. drawn(e, y) = Card("fail", "Multiple records", several(e))
      BY <1>2, <1>5, <2>3
    <3> QED BY <2>1, <3>1, NotRed DEF card
  <2>4. CASE ~d.multiple /\ ~x.found /\ x.lost
    <3>1. drawn(d, x) = Unavailable("Not checked")
      BY <1>5, <2>4
    <3> QED BY <2>2, <3>1, NotRed
  <2>5. CASE ~d.multiple /\ ~(~x.found /\ x.lost) /\ Inherits(x)
    <3>1. /\ drawn(d, x) = Card(theirs(x), "Inherited", up(x))
          /\ drawn(e, y) = Card(theirs(y), "Inherited", up(y))
      BY <1>1, <1>2, <1>3, <1>5, <2>5
    <3> QED BY <1>3, <2>1, <2>2, <3>1, CardTells DEF card
  <2>6. CASE ~d.multiple /\ ~(~x.found /\ x.lost) /\ ~Inherits(x) /\ ~x.found
    <3>1. drawn(e, y) = Card("fail", "Missing", missing(y))
      BY <1>1, <1>2, <1>3, <1>5, <2>6
    <3> QED BY <2>1, <3>1, NotRed DEF card
  <2>7. CASE ~d.multiple /\ ~Inherits(x) /\ x.found
    <3>1. /\ drawn(d, x) = Card(own(x), label(x), lines(x))
          /\ drawn(e, y) = Card(own(y), label(y), lines(y))
      BY <1>1, <1>2, <1>3, <1>5, <2>7
    <3>2. own(y) = "fail"
      BY <1>4, <2>2, <3>1, CardTells
    <3> QED BY <2>1, <3>1, <3>2, CardTells DEF card
  <2> QED BY <2>3, <2>4, <2>5, <2>6, <2>7
<1> QED BY <1>8, <1>9

\* What the audit adds to the check of the record leaves the record alone.
LEMMA AuditKeeps ==
  ASSUME NEW dns, NEW walk, NEW n, NEW psl, NEW external,
         NEW d, d = AuditDmarc(dns, walk, n, psl, external)
  PROVE  LET first == RawDmarc(dns)
         IN /\ d.found = first.found /\ d.multiple = first.multiple /\ d.record = first.record
            /\ d.status = first.status
            /\ d.lost = EnrichInheritance(first, dns, walk, n, psl).lost
<1> DEFINE first == RawDmarc(dns)
           mid   == EnrichInheritance(first, dns, walk, n, psl)
<1>1. DmarcSound(first)
  BY RawDmarcIs
<1>2. DmarcSound(mid)
  BY RawDmarcIs, InheritanceIs
<1>3. /\ mid.found = first.found /\ mid.multiple = first.multiple /\ mid.record = first.record
      /\ mid.status = first.status
  <2> DEFINE inherited == RecoveredPolicy(walk.policy, walk.record)
             source    == walk.source
             parent    == walk.record
             registry  == walk.source < psl
             below     == ~(walk.source < psl /\ psl = n)
             r         == CHOOSE x \in OneRecord(dns[<<"TXT", "_dmarc.org">>]) : TRUE
             theirs    == RecoveredPolicy(IF Has(r.sp) THEN r.sp ELSE r.p, r)
  <2>1. \/ mid = [first EXCEPT !.lost = TRUE]
        \/ mid = [first EXCEPT !.inherited = inherited, !.source = source, !.parent = parent,
                              !.registry = registry, !.isSubdomain = below]
        \/ mid = first
        \/ mid = [first EXCEPT !.inherited = theirs, !.source = psl, !.parent = r, !.isSubdomain = TRUE]
    BY DEF EnrichInheritance, FromPsl
  <2> HIDE DEF first, mid, inherited, source, parent, registry, below, r, theirs
  <2> QED BY <1>1, <2>1 DEF DmarcSound, DmarcFields
<1>4. d = WithReportAuth(mid, dns, external)
  BY DEF AuditDmarc
<1> HIDE DEF first, mid
<1> DEFINE tags  == {t \in {"rua", "ruf"} : Has(mid.record[t])}
           dests == {Destination(dns, t, external) : t \in tags}
           away  == {x \in dests : x.external}
           issues == mid.issues \cup (
                  IssueIf(\E x \in away : x.authorized = "no", "error", "destination not authorized")
             \cup IssueIf(\E x \in away : x.unchecked, "warning", "authorization not checked")
             \cup IssueIf(\E x \in away : x.hasMx = "no", "warning", "destination without mx")
             \cup IssueIf("ruf" \in tags, "info", "ruf"))
<1>5. \/ d = mid \/ d = [mid EXCEPT !.authUnknown = TRUE]
      \/ d = [mid EXCEPT !.destinations = dests, !.issues = issues]
  <2>1. d = IF ~mid.found \/ mid.multiple \/ tags = {} THEN mid
            ELSE IF IsLost(dns[<<"time", "report-auth">>]) THEN [mid EXCEPT !.authUnknown = TRUE]
            ELSE [mid EXCEPT !.destinations = dests, !.issues = issues]
    BY <1>4 DEF WithReportAuth
  <2> HIDE DEF tags, dests, issues
  <2> QED BY <2>1
<1> HIDE DEF tags, dests, issues
<1>6. /\ d.found = mid.found /\ d.multiple = mid.multiple /\ d.record = mid.record
      /\ d.status = mid.status /\ d.lost = mid.lost
  BY <1>2, <1>5 DEF DmarcSound, DmarcFields
<1> QED BY <1>3, <1>6 DEF first, mid

(* The answers that the reading of a name's DMARC policy rests on. *)
PolicyHeard(a, b, n) ==
  /\ Heard(a, b, <<"TXT", "_dmarc">>) /\ Heard(a, b, <<"TXT", "_dmarc.org">>)
  /\ Heard(a, b, <<"SOA", "exists">>) /\ Heard(a, b, <<"DMARC", n>>)
  /\ \A i \in DOMAIN WalkedNames(n) : Heard(a, b, <<"DMARC", WalkedNames(n)[i]>>)

\* A record that was read, and a policy that was inherited with nothing lost on the way,
\* is what the audit with every answer has.
LEMMA AuditTells ==
  ASSUME NEW a, NEW b, NEW n \in Nat \ {0}, NEW psl, NEW external, PolicyHeard(a, b, n),
         NEW walk, walk = TreeWalk(a, n, psl), NEW walkB, walkB = TreeWalk(b, n, psl),
         NEW d, d = AuditDmarc(a, walk, n, psl, external),
         NEW e, e = AuditDmarc(b, walkB, n, psl, external),
         d.status # "unavailable"
  PROVE  /\ e.found = d.found /\ e.multiple = d.multiple /\ e.record = d.record
         /\ d.found \/ ~(walk.incomplete \/ d.lost \/ IsLost(a[<<"SOA", "exists">>])) =>
              Alike(d, e) /\ (~d.found => walkB = walk)
         /\ d.found => ~d.registry
<1> DEFINE first == RawDmarc(a)
           second == RawDmarc(b)
           mid   == EnrichInheritance(first, a, walk, n, psl)
           mid2  == EnrichInheritance(second, b, walkB, n, psl)
<1>1. /\ d.found = first.found /\ d.multiple = first.multiple /\ d.record = first.record
      /\ d.status = first.status /\ d.lost = mid.lost
      /\ e.found = second.found /\ e.multiple = second.multiple /\ e.record = second.record
  BY AuditKeeps
<1>2. a[<<"TXT", "_dmarc">>] = b[<<"TXT", "_dmarc">>]
  <2>1. IsLost(a[<<"TXT", "_dmarc">>]) => first = NoDmarc("unavailable", FALSE, FALSE, {})
    BY DEF RawDmarc
  <2>2. first.status # "unavailable"
    BY <1>1
  <2> HIDE DEF first
  <2>3. ~IsLost(a[<<"TXT", "_dmarc">>])
    BY <2>1, <2>2 DEF NoDmarc
  <2> QED BY <2>3 DEF PolicyHeard, Heard
<1>3. Alike(first, second) /\ DmarcSound(first) /\ DmarcSound(second)
  BY <1>2, RawDmarcTells, RawDmarcIs
<1>4. ASSUME d.found \/ ~(walk.incomplete \/ d.lost \/ IsLost(a[<<"SOA", "exists">>]))
      PROVE  Alike(d, e) /\ (~d.found => walkB = walk)
  <2>1. ~d.found => walkB = walk
    BY <1>4, WalkTells DEF PolicyHeard
  <2> HIDE DEF first, second
  <2>2. first.found \/ (~walk.incomplete /\ walkB = walk /\ ~mid.lost)
    BY <1>1, <1>4, <2>1
  <2>3. Alike(mid, mid2)
    BY <1>3, <2>2, InheritanceTells DEF PolicyHeard
  <2>4. DmarcSound(mid) /\ DmarcSound(mid2)
    BY RawDmarcIs, InheritanceIs DEF first, second
  <2> HIDE DEF mid, mid2
  <2>5. Alike(WithReportAuth(mid, a, external), WithReportAuth(mid2, b, external))
    BY <2>3, <2>4, ReportAuthTells
  <2> QED BY <2>1, <2>5 DEF AuditDmarc, mid, mid2, first, second
<1>5. d.found => ~d.registry
  <2> SUFFICES ASSUME d.found PROVE ~d.registry
    OBVIOUS
  <2>1. mid = first
    BY <1>1 DEF EnrichInheritance
  <2>2. first.registry = FALSE
    BY RawDmarcIs
  <2> HIDE DEF first
  <2>3. d = WithReportAuth(first, a, external)
    <3>1. d = WithReportAuth(mid, a, external)
      BY DEF AuditDmarc, first
    <3> QED BY <2>1, <3>1
  <2> DEFINE dests == {Destination(a, t, external) : t \in {t \in {"rua", "ruf"} : Has(first.record[t])}}
             away  == {x \in dests : x.external}
             more  == first.issues \cup (
                  IssueIf(\E x \in away : x.authorized = "no", "error", "destination not authorized")
             \cup IssueIf(\E x \in away : x.unchecked, "warning", "authorization not checked")
             \cup IssueIf(\E x \in away : x.hasMx = "no", "warning", "destination without mx")
             \cup IssueIf("ruf" \in {t \in {"rua", "ruf"} : Has(first.record[t])}, "info", "ruf"))
  <2>4. \/ d = first \/ d = [first EXCEPT !.authUnknown = TRUE]
        \/ d = [first EXCEPT !.destinations = dests, !.issues = more]
    BY <2>3 DEF WithReportAuth
  <2> HIDE DEF dests, more
  <2>5. d.registry = first.registry
    BY <1>3, <2>4 DEF DmarcSound, DmarcFields
  <2> QED BY <2>2, <2>5
<1>6. e.found = d.found /\ e.multiple = d.multiple /\ e.record = d.record
  BY <1>1, <1>3 DEF Alike
<1> QED BY <1>4, <1>5, <1>6

LEMMA SpfFoundIs == \A dns : RawSpf(dns).found \in BOOLEAN
<1> SUFFICES ASSUME NEW dns PROVE RawSpf(dns).found \in BOOLEAN
  OBVIOUS
<1> DEFINE s == RawSpf(dns)
<1>1. \/ \E status, malformed, multiple, i : s = NoSpf(status, malformed, multiple, i)
      \/ \E one, count, issues : s = FoundSpf(one, count, issues)
  BY Zenon DEF RawSpf, OneSpf
<1>2. \A status, malformed, multiple, i : NoSpf(status, malformed, multiple, i).found = FALSE
  BY DEF NoSpf
<1>3. \A one, count, issues : FoundSpf(one, count, issues).found = TRUE
  BY DEF FoundSpf
<1> HIDE DEF s
<1>4. s.found \in BOOLEAN
  BY <1>1, <1>2, <1>3
<1> QED BY <1>4 DEF s

-----------------------------------------------------------------------------
(* Which mail a domain has *)

(* DirectionKnown, of the results of any audit. *)
Known(r) == "unavailable" \notin {r.mx.status, r.spf.status, r.dmarc.status}

(* The results r of an audit of z, and the results s with every answer. *)
Beside(z, a, b, r, s) ==
  /\ r = RawResults(z, a) /\ s = RawResults(z, b)
  /\ z.n \in Nat \ {0}
  /\ Heard(a, b, <<"MX", "domain">>) /\ Heard(a, b, <<"SPF", "domain">>)
  /\ PolicyHeard(a, b, z.n)

(* The same mail, by all that the corrections read of it. *)
SameMail(r, s) ==
  /\ s.mx.null_mx = r.mx.null_mx /\ s.spf.null = r.spf.null /\ s.spf.found = r.spf.found
  /\ s.spf.status # "unavailable" /\ (s.spf.null => s.spf.found)
  /\ s.dmarc.found = r.dmarc.found /\ s.dmarc.multiple = r.dmarc.multiple
  /\ s.dmarc.record = r.dmarc.record
  /\ IsDefensive(s) = IsDefensive(r) /\ SendsNoMail(s) = SendsNoMail(r)

\* When the three records were read, they say the same of the domain as with every answer.
LEMMA DirectionTells ==
  ASSUME NEW z, NEW a, NEW b, NEW r, NEW s, Beside(z, a, b, r, s), Known(r)
  PROVE  SameMail(r, s)
<1>1. /\ r.mx = CheckMx(a) /\ r.spf = RawSpf(a) /\ r.walk = TreeWalk(a, z.n, z.psl)
      /\ r.dmarc = AuditDmarc(a, r.walk, z.n, z.psl, z.external)
  BY ChecksAre DEF Beside
<1>2. /\ s.mx = CheckMx(b) /\ s.spf = RawSpf(b) /\ s.walk = TreeWalk(b, z.n, z.psl)
      /\ s.dmarc = AuditDmarc(b, s.walk, z.n, z.psl, z.external)
  BY ChecksAre DEF Beside
<1>3. b[<<"MX", "domain">>] = a[<<"MX", "domain">>]
  BY <1>1, MxIsRead DEF Known, Heard, Beside
<1>4. s.mx.null_mx = r.mx.null_mx
  BY <1>1, <1>2, <1>3, NullMxIs
<1>5. b[<<"SPF", "domain">>] = a[<<"SPF", "domain">>] /\ ~IsLost(a[<<"SPF", "domain">>])
  BY <1>1, SpfIsRead DEF Known, Heard, Beside
<1>6. s.spf.null = r.spf.null
  BY <1>1, <1>2, <1>5, NullSpfIs
<1>7. s.spf.found = r.spf.found /\ s.spf.status # "unavailable" /\ (s.spf.null => s.spf.found)
  <2> DEFINE good == {x \in a[<<"SPF", "domain">>].rr : x.kind = "good"}
             here == good # {} /\ ~(Cardinality(good) > 1)
  <2>1. (r.spf.found <=> here) /\ (s.spf.found <=> here)
    BY <1>1, <1>2, <1>5, SpfIsRead
  <2>2. s.spf.status # "unavailable" /\ (s.spf.null => s.spf.found)
    BY <1>2, <1>5, SpfIsRead
  <2>3. r.spf.found \in BOOLEAN /\ s.spf.found \in BOOLEAN
    BY <1>1, <1>2, SpfFoundIs
  <2> HIDE DEF here
  <2> QED BY <2>1, <2>2, <2>3
<1>8. /\ s.dmarc.found = r.dmarc.found /\ s.dmarc.multiple = r.dmarc.multiple
      /\ s.dmarc.record = r.dmarc.record
  BY <1>1, <1>2, AuditTells DEF Known, Beside
<1>9. OwnReject(s) = OwnReject(r)
  BY <1>8 DEF OwnReject, OwnRecord
<1>10. IsDefensive(s) = IsDefensive(r)
  BY <1>4, <1>6, <1>9 DEF IsDefensive
<1>11. SendsNoMail(s) = SendsNoMail(r)
  BY <1>4, <1>6, <1>7 DEF SendsNoMail, HasSendingSpf
<1> QED BY <1>4, <1>6, <1>7, <1>8, <1>10, <1>11 DEF SameMail

-----------------------------------------------------------------------------
(* DKIM *)

\* The red card of a sweep, and the red card of the one selector a user named.
LEMMA DkimRed ==
  ASSUME NEW raw_, NEW nonMail
  PROVE  LET card == TransformDkim(raw_, nonMail)
             free == "unregistered" \in raw_.dangling
             bad  == \E s \in Live(raw_.found) : Strength(s.record) = "invalid" \/ IsUnusable(s.record)
         IN /\ free => Red(card)
            /\ raw_.status # "unavailable" /\ bad => Red(card)
            /\ raw_.status = "unavailable" /\ Red(card) => free
            /\ /\ raw_.status # "unavailable" /\ ~raw_.notFound /\ raw_.noKey = {}
               /\ Severe(raw_.issues, "error") => free
               /\ Red(card)
               => free \/ bad
<1> DEFINE drawn == IF raw_.status = "unavailable"  THEN Unavailable("Not checked")
                    ELSE IF Live(raw_.found) = {}   THEN NoKeyCard(raw_, nonMail)
                    ELSE KeysCard(raw_)
           free  == "unregistered" \in raw_.dangling
           bad   == \E s \in Live(raw_.found) : Strength(s.record) = "invalid" \/ IsUnusable(s.record)
           lines == DanglingIssues(raw_.dangling)
           card  == TransformDkim(raw_, nonMail)
           wrong == Severe(raw_.issues, "error")
           none  == Live(raw_.found) = {}
<1>1. card = [drawn EXCEPT !.status  = IF free THEN "fail" ELSE @, !.details = @ \cup lines]
  BY DEF TransformDkim
<1>2. \/ \E l : NoKeyCard(raw_, nonMail) = Unavailable(l)
      \/ \E s, l, d : NoKeyCard(raw_, nonMail) = Card(s, l, d)
  BY Zenon DEF NoKeyCard
<1>3. \E l, d : KeysCard(raw_) = Card(KeysStatus(raw_), l, d)
  BY Zenon DEF KeysCard
<1>4. IsCard(drawn)
  <2>1. IsCard(NoKeyCard(raw_, nonMail))
    BY <1>2, CardIs
  <2>2. IsCard(KeysCard(raw_))
    BY <1>3, CardIs
  <2>3. IsCard(Unavailable("Not checked"))
    BY CardIs
  <2> QED BY <2>1, <2>2, <2>3
<1>5. Red(card) <=> free \/ Red(drawn)
  <2> HIDE DEF drawn, free, lines, card
  <2>1. card.status = IF free THEN "fail" ELSE drawn.status
    BY <1>1, <1>4 DEF IsCard
  <2> QED BY <2>1 DEF Red
<1>6. bad => KeysStatus(raw_) = "fail"
  <2> DEFINE records == {s.record : s \in Live(raw_.found)}
  <2>1. bad => \E x \in records : Strength(x) = "invalid" \/ IsUnusable(x)
    OBVIOUS
  <2> HIDE DEF bad
  <2> QED BY <2>1, Zenon DEF KeysStatus
<1>7. KeysStatus(raw_) = "fail" => bad \/ wrong
  <2> DEFINE records == {s.record : s \in Live(raw_.found)}
             ill  == \E x \in records : Strength(x) = "invalid" \/ IsUnusable(x)
             weak == \E x \in records : Strength(x) = "weak" \/ x.flaws # {}
             poor == Severe(raw_.issues, "warning")
  <2>1. KeysStatus(raw_) = IF ill THEN "fail" ELSE IF wrong THEN "fail" ELSE IF weak THEN "warn"
                           ELSE IF poor THEN "warn" ELSE "pass"
    BY DEF KeysStatus
  <2>2. ill => bad
    OBVIOUS
  <2> HIDE DEF ill, weak, poor, wrong, bad
  <2> QED BY <2>1, <2>2
<1>8. Red(KeysCard(raw_)) <=> KeysStatus(raw_) = "fail"
  BY <1>3, CardTells
<1>9. ~raw_.notFound /\ raw_.noKey = {} => ~Red(NoKeyCard(raw_, nonMail))
  <2> SUFFICES ASSUME ~raw_.notFound, raw_.noKey = {} PROVE ~Red(NoKeyCard(raw_, nonMail))
    OBVIOUS
  <2>1. \E l, d : \/ NoKeyCard(raw_, nonMail) = Card("pass", l, d)
                  \/ NoKeyCard(raw_, nonMail) = Card("warn", l, d)
                  \/ NoKeyCard(raw_, nonMail) = Card("unavailable", l, d)
    BY Zenon DEF NoKeyCard
  <2>2. \A l, d : ~Red(Card("unavailable", l, d))
    BY CardTells
  <2> QED BY <2>1, <2>2, NotRed
<1>10. bad => ~none
  OBVIOUS
<1>11. /\ raw_.status = "unavailable" => ~Red(drawn)
       /\ raw_.status # "unavailable" /\ none => (Red(drawn) <=> Red(NoKeyCard(raw_, nonMail)))
       /\ raw_.status # "unavailable" /\ ~none => (Red(drawn) <=> Red(KeysCard(raw_)))
  BY NotRed
<1> HIDE DEF drawn, free, bad, card, none, wrong
<1>12. /\ free => Red(card)
       /\ raw_.status # "unavailable" /\ bad => Red(card)
       /\ raw_.status = "unavailable" /\ Red(card) => free
       /\ raw_.status # "unavailable" /\ ~raw_.notFound /\ raw_.noKey = {} /\ (wrong => free)
            /\ Red(card) => free \/ bad
  BY <1>5, <1>6, <1>7, <1>8, <1>9, <1>10, <1>11
<1> QED BY <1>12 DEF card, free, bad, wrong

\* What the sweep has, and what a free domain among its selectors rests on.
DanglingAt(dns, sels) == {s \in sels : dns[<<"DKIM", s>>].rc = "dangling"}
Swept(dns, d, probed) ==
  /\ d.status # "unavailable" /\ d.notFound = FALSE /\ d.noKey = {}
  /\ Got(dns[<<"DKIM", "wildcard">>]) => d.found = {} /\ d.dangling = {} /\ probed = {}
  /\ ~Got(dns[<<"DKIM", "wildcard">>]) =>
       /\ d.found = UNION {KeysAt(dns, s) : s \in probed}
       /\ d.dangling = Dangling(dns, DanglingAt(dns, probed), d.found)
  /\ Severe(d.issues, "error") => "unregistered" \in d.dangling

LEMMA SweepIs ==
  ASSUME NEW dns, NEW priority, NEW fallback, NEW d, d = SweepDkim(dns, priority, fallback)
  PROVE  /\ Swept(dns, d, d.tested \cup d.unanswered)
         /\ d.tested \cup d.unanswered \subseteq priority \cup fallback
<1> DEFINE inTime   == ~IsLost(dns[<<"time", "dkim">>])
           first    == UNION {KeysAt(dns, s) : s \in priority}
           dropping == Cardinality(Unanswered(dns, priority)) >= DkimDropThreshold
           asked    == IF first = {} /\ ~dropping /\ inTime THEN priority \cup fallback ELSE priority
           found    == UNION {KeysAt(dns, s) : s \in asked}
           late     == Unanswered(dns, asked)
           dangling == Dangling(dns, DanglingAt(dns, asked), found)
           dropped  == inTime /\ found = {} /\ Cardinality(late) >= DkimDropThreshold
           timedOut == ~inTime \/ dropped
           tested   == asked \ late
           some     == {Issue("warning", "wildcard")}
           issues   == DanglingIssues(dangling)
           wild     == Got(dns[<<"DKIM", "wildcard">>])
<1>1. d = IF wild THEN [NoDkim("warning") EXCEPT !.issues = some]
          ELSE [NoDkim("none") EXCEPT !.found = found, !.tested = tested, !.unanswered = late,
                                      !.dangling = dangling, !.issues = issues,
                                      !.timedOut = timedOut, !.dropped = dropped]
  BY DEF SweepDkim, DanglingAt
<1>2. late \subseteq asked
  BY DEF Unanswered
<1>3. Severe(issues, "error") => "unregistered" \in dangling
  <2> HIDE DEF dangling
  <2> SUFFICES ASSUME Severe(issues, "error") PROVE "unregistered" \in dangling
    OBVIOUS
  <2>1. PICK i \in issues : i.sev = "error"
    BY DEF Severe
  <2>2. PICK x \in dangling : i = Issue(IF x = "unregistered" THEN "error" ELSE "info", "dangling selector")
    BY <2>1 DEF DanglingIssues
  <2>3. x = "unregistered"
    BY <2>1, <2>2 DEF Issue
  <2> QED BY <2>3
<1>4. asked \subseteq priority \cup fallback
  OBVIOUS
<1>5. ~Severe(some, "error")
  BY IssuesAre
<1>6. CASE wild
  <2> HIDE DEF some
  <2>1. d = [NoDkim("warning") EXCEPT !.issues = some]
    BY <1>1, <1>6
  <2>2. /\ d.status = "warning" /\ d.notFound = FALSE /\ d.noKey = {} /\ d.found = {}
        /\ d.dangling = {} /\ d.tested = {} /\ d.unanswered = {} /\ d.issues = some
    BY <2>1 DEF NoDkim
  <2>3. d.tested \cup d.unanswered = {} /\ ~Severe(d.issues, "error")
    BY <1>5, <2>2
  <2> QED BY <1>6, <2>2, <2>3 DEF Swept
<1>7. CASE ~wild
  <2> HIDE DEF found, tested, late, dangling, issues, timedOut, dropped, wild
  <2>1. d = [NoDkim("none") EXCEPT !.found = found, !.tested = tested, !.unanswered = late,
                                   !.dangling = dangling, !.issues = issues,
                                   !.timedOut = timedOut, !.dropped = dropped]
    BY <1>1, <1>7
  <2>2. /\ d.status = "none" /\ d.notFound = FALSE /\ d.noKey = {} /\ d.found = found
        /\ d.dangling = dangling /\ d.tested = tested /\ d.unanswered = late /\ d.issues = issues
    BY <2>1 DEF NoDkim
  <2> HIDE DEF asked
  <2>3. d.tested \cup d.unanswered = asked
    BY <1>2, <2>2 DEF tested
  <2>4. Severe(d.issues, "error") => "unregistered" \in d.dangling
    BY <1>3, <2>2
  <2> QED BY <1>4, <1>7, <2>2, <2>3, <2>4 DEF wild, found, dangling, Swept
<1> QED BY <1>6, <1>7

\* The sweep of the same selectors finds every flawed key again, and the free domain.
LEMMA SweepIsTold ==
  ASSUME NEW a, NEW b, NEW priority, NEW fallback, NEW nonMail,
         Heard(a, b, <<"NS", "target">>), Heard(a, b, <<"DKIM", "wildcard">>),
         \A s \in priority \cup fallback : Heard(a, b, <<"DKIM", s>>),
         NEW d, d = SweepDkim(a, priority, fallback),
         NEW e, e = SweepDkim(b, priority, fallback),
         d.tested \cup d.unanswered = e.tested \cup e.unanswered,
         Red(TransformDkim(d, nonMail))
  PROVE  Red(TransformDkim(e, nonMail))
<1> DEFINE probed == d.tested \cup d.unanswered
           ill(x) == Strength(x) = "invalid" \/ IsUnusable(x)
           sels(dns) == DanglingAt(dns, probed)
<1>0. /\ Swept(a, d, probed) /\ Swept(b, e, probed)
      /\ probed \subseteq priority \cup fallback
  BY SweepIs
<1> HIDE DEF probed
<1>1. /\ d.status # "unavailable" /\ d.notFound = FALSE /\ d.noKey = {}
      /\ Severe(d.issues, "error") => "unregistered" \in d.dangling
      /\ e.status # "unavailable"
  BY <1>0 DEF Swept
<1>2. "unregistered" \in d.dangling \/ \E s \in Live(d.found) : ill(s.record)
  BY <1>1, DkimRed
<1>3. ~Got(a[<<"DKIM", "wildcard">>])
  <2> SUFFICES ASSUME Got(a[<<"DKIM", "wildcard">>]) PROVE FALSE
    OBVIOUS
  <2>1. d.found = {} /\ d.dangling = {}
    BY <1>0 DEF Swept
  <2> QED BY <1>2, <2>1 DEF Live
<1>4. /\ d.found = UNION {KeysAt(a, s) : s \in probed}
      /\ d.dangling = Dangling(a, sels(a), d.found)
  BY <1>0, <1>3 DEF Swept
<1> HIDE DEF ill
<1>5. probed # {}
  <2> SUFFICES ASSUME probed = {} PROVE FALSE
    OBVIOUS
  <2>1. d.found = {} /\ sels(a) = {}
    BY <1>4 DEF DanglingAt
  <2> DEFINE at(vendor) == {s \in {} : \E r \in a[<<"DKIM", s>>].rr : r.vendor = vendor}
  <2>2. at("microsoft") = {} /\ ~(Cardinality(at("microsoft")) >= 2)
    <3>1. at("microsoft") = {}
      OBVIOUS
    <3> HIDE DEF at
    <3> QED BY <3>1, FS_EmptySet
  <2>3. Dangling(a, {}, {}) = {}
    <3>1. Dangling(a, {}, {}) =
            (IF Cardinality(at("microsoft")) >= 2 /\ ~(\E s \in {} : s.record.vendor = "microsoft")
             THEN {"microsoft_unfilled"} ELSE {})
            \cup (IF at("microsoft") # {} THEN {DanglingStatus(a)} ELSE {})
      BY DEF Dangling
    <3> HIDE DEF at
    <3> QED BY <2>2, <3>1
  <2>4. d.dangling = {}
    <3> HIDE DEF sels, probed
    <3> QED BY <1>4, <2>1, <2>3
  <2> QED BY <1>2, <2>1, <2>4 DEF Live
<1>6. ~Got(b[<<"DKIM", "wildcard">>])
  BY <1>0, <1>5 DEF Swept
<1>7. /\ e.found = UNION {KeysAt(b, s) : s \in probed}
      /\ e.dangling = Dangling(b, sels(b), e.found)
  BY <1>0, <1>6 DEF Swept
<1>8. \A x : IsLost(x) => ~Got(x) /\ x.rc # "dangling" /\ x.rc # "nx"
  BY DEF IsLost, Got, LossCodes
<1>9. ASSUME NEW s \in probed, ~IsLost(a[<<"DKIM", s>>]) PROVE b[<<"DKIM", s>>] = a[<<"DKIM", s>>]
  <2>1. s \in priority \cup fallback
    BY <1>0
  <2> QED BY <1>9, <2>1 DEF Heard
<1>10. CASE \E s \in Live(d.found) : ill(s.record)
  <2>1. PICK k \in Live(d.found) : ill(k.record)
    BY <1>10
  <2>2. PICK s \in probed : k \in KeysAt(a, s)
    BY <1>4, <2>1 DEF Live
  <2>3. Got(a[<<"DKIM", s>>])
    BY <2>2 DEF KeysAt
  <2>4. k \in KeysAt(b, s)
    BY <1>8, <1>9, <2>2, <2>3 DEF KeysAt
  <2>5. k \in e.found
    BY <1>7, <2>4
  <2>6. k \in Live(e.found)
    BY <2>1, <2>5 DEF Live, Revoked
  <2>7. \E x \in Live(e.found) : ill(x.record)
    BY <2>1, <2>6
  <2> QED BY <1>1, <2>7, DkimRed DEF ill
<1>11. CASE "unregistered" \in d.dangling
  <2> DEFINE at(dns, vendor) == {s \in sels(dns) : \E r \in dns[<<"DKIM", s>>].rr : r.vendor = vendor}
             live(f) == \E s \in f : s.record.vendor = "microsoft"
             two(dns) == Cardinality(at(dns, "microsoft")) >= 2
  <2>1. ASSUME NEW dns, NEW f
        PROVE  Dangling(dns, sels(dns), f) =
                 (IF two(dns) /\ ~live(f) THEN {"microsoft_unfilled"} ELSE {})
                 \cup (IF at(dns, "microsoft") # sels(dns) THEN {DanglingStatus(dns)} ELSE {})
    BY DEF Dangling
  <2> HIDE DEF live, two
  <2>2. at(a, "microsoft") # sels(a) /\ DanglingStatus(a) = "unregistered"
    <3> HIDE DEF at, sels
    <3>1. "unregistered" \in (IF two(a) /\ ~live(d.found) THEN {"microsoft_unfilled"} ELSE {})
                 \cup (IF at(a, "microsoft") # sels(a) THEN {DanglingStatus(a)} ELSE {})
      BY <1>4, <1>11, <2>1
    <3> QED BY <3>1
  <2>3. PICK s \in sels(a) : ~\E r \in a[<<"DKIM", s>>].rr : r.vendor = "microsoft"
    BY <2>2
  <2>4. b[<<"DKIM", s>>] = a[<<"DKIM", s>>]
    BY <1>8, <1>9, <2>3 DEF DanglingAt
  <2>5. at(b, "microsoft") # sels(b)
    BY <2>3, <2>4 DEF DanglingAt
  <2>6. DanglingStatus(b) = "unregistered"
    <3>1. a[<<"NS", "target">>].rc = "nx"
      BY <2>2 DEF DanglingStatus
    <3>2. b[<<"NS", "target">>] = a[<<"NS", "target">>]
      BY <1>8, <3>1 DEF Heard
    <3> QED BY <2>2, <3>2 DEF DanglingStatus
  <2>7. "unregistered" \in e.dangling
    <3> HIDE DEF at, sels
    <3> QED BY <1>7, <2>1, <2>5, <2>6
  <2> QED BY <2>7, DkimRed
<1> QED BY <1>2, <1>10, <1>11

\* The selector a user named: a card that is red read its answer.
LEMMA QueryIsTold ==
  ASSUME NEW a, NEW b, NEW s, Heard(a, b, <<"DKIM", s>>)
  PROVE  /\ \A nonMail : Red(TransformDkim(QueryDkim(a, s), nonMail)) => QueryDkim(b, s) = QueryDkim(a, s)
         /\ QueryDkim(a, s).notFound => QueryDkim(b, s) = QueryDkim(a, s)
<1>1. CASE IsLost(a[<<"DKIM", s>>])
  <2> DEFINE base == [NoDkim("none") EXCEPT !.queried = TRUE, !.tested = {s}]
             d == QueryDkim(a, s)
  <2>1. ~Got(a[<<"DKIM", s>>])
    BY <1>1 DEF Got, IsLost, LossCodes
  <2>2. d = [base EXCEPT !.status = "unavailable"]
    BY <1>1, <2>1 DEF QueryDkim
  <2> HIDE DEF d
  <2>3. d.status = "unavailable" /\ d.dangling = {} /\ d.notFound = FALSE
    BY <2>2 DEF NoDkim
  <2>4. \A nonMail : ~Red(TransformDkim(d, nonMail))
    BY <2>3, DkimRed
  <2> QED BY <2>3, <2>4 DEF d
<1>2. CASE ~IsLost(a[<<"DKIM", s>>])
  <2>1. b[<<"DKIM", s>>] = a[<<"DKIM", s>>]
    BY <1>2 DEF Heard
  <2> QED BY <2>1 DEF QueryDkim
<1> QED BY <1>1, <1>2

-----------------------------------------------------------------------------
(* BIMI *)

\* A logo that cannot be had is no fault of the record.
LEMMA BimiIsTold ==
  ASSUME NEW a, NEW b, NEW da, NEW db, NEW nonMail, NEW nonMailB,
         Heard(a, b, <<"TXT", "default._bimi">>), Heard(a, b, <<"fetch", "logo">>),
         ~da.found => ~db.found,
         Red(TransformBimi(CheckBimi(a, da), nonMail))
  PROVE  LET card == TransformBimi(CheckBimi(b, db), nonMailB) IN Red(card) \/ Faulty(card)
<1> DEFINE txt    == a[<<"TXT", "default._bimi">>]
           record == TheRecord(txt)
           logo(dns) == dns[<<"fetch", "logo">>]
           several == IssueIf(Cardinality(Good(txt)) > 1, "error", "several records")
           flaws  == Defects(BimiDefects, record.defects)
           pics(dns) == IF LogoFetched(record) THEN LogoIssues(logo(dns)) ELSE {}
           issues(dns, x) == several \cup flaws \cup BimiDmarcIssues(x) \cup pics(dns)
           invalid(dns) == LogoFetched(record) /\ Got(logo(dns))
                 /\ \E svg \in logo(dns).rr : svg.defects \cap LogoInvalid # {}
           gone == [ status |-> "unavailable", found |-> FALSE, invalid |-> FALSE, issues |-> {} ]
           none == [ status |-> "info", found |-> FALSE, invalid |-> FALSE,
                     issues |-> {Issue("info", "no record at the default selector")} ]
           full(dns, x) == [ status |-> RawStatus(issues(dns, x)), found |-> TRUE,
                             invalid |-> invalid(dns), issues |-> issues(dns, x) ]
           raw_(dns, x) == CheckBimi(dns, x)
           card(dns, x, nm) == TransformBimi(raw_(dns, x), nm)
<1>1. ASSUME NEW dns, NEW x, dns[<<"TXT", "default._bimi">>] = txt
      PROVE  raw_(dns, x) = IF IsLost(txt) THEN gone ELSE IF Good(txt) = {} THEN none ELSE full(dns, x)
  BY <1>1 DEF CheckBimi
<1>2. ASSUME NEW r, NEW nm, r.status = "unavailable" \/ r.found = FALSE
      PROVE  ~Red(TransformBimi(r, nm))
  <2>1. \/ \E l : TransformBimi(r, nm) = Unavailable(l)
        \/ \E l, lines : TransformBimi(r, nm) = Card("absent", l, lines)
    BY <1>2, Zenon DEF TransformBimi
  <2> QED BY <2>1, NotRed
<1>3. gone.found = FALSE /\ none.found = FALSE
  OBVIOUS
<1> HIDE DEF gone, none
<1>4. ~IsLost(txt) /\ Good(txt) # {}
  <2> SUFFICES ASSUME IsLost(txt) \/ Good(txt) = {} PROVE FALSE
    OBVIOUS
  <2> HIDE DEF full
  <2>1. raw_(a, da) = gone \/ raw_(a, da) = none
    BY <1>1
  <2> HIDE DEF raw_
  <2>2. raw_(a, da).found = FALSE
    BY <1>3, <2>1
  <2> QED BY <1>2, <2>2 DEF raw_
<1>5. b[<<"TXT", "default._bimi">>] = txt
  BY <1>4 DEF Heard
<1> HIDE DEF txt, record
<1>6. raw_(a, da) = full(a, da) /\ raw_(b, db) = full(b, db)
  <2> HIDE DEF full, raw_
  <2> QED BY <1>1, <1>4, <1>5 DEF txt
<1> HIDE DEF several, flaws
<1>7. ASSUME NEW dns, NEW x, NEW nm, raw_(dns, x) = full(dns, x)
      PROVE  card(dns, x, nm) = Card(IF invalid(dns) THEN "fail" ELSE MapStatus(RawStatus(issues(dns, x))),
                                     "published", Details(issues(dns, x)))
  <2> DEFINE status == RawStatus(issues(dns, x))
             bad == invalid(dns)
             I == issues(dns, x)
  <2>1. status # "unavailable"
    BY IssuesAre
  <2> HIDE DEF status, bad, I
  <2>2. full(dns, x) = [status |-> status, found |-> TRUE, invalid |-> bad, issues |-> I]
    BY DEF status, bad, I
  <2> HIDE DEF full, raw_
  <2>3. /\ raw_(dns, x).status = status /\ raw_(dns, x).found = TRUE
        /\ raw_(dns, x).invalid = bad /\ raw_(dns, x).issues = I
    BY <1>7, <2>2
  <2>4. card(dns, x, nm) = Card(IF bad THEN "fail" ELSE MapStatus(status), "published", Details(I))
    BY <2>1, <2>3 DEF TransformBimi
  <2> QED BY <2>4 DEF status, bad, I
<1>8. CASE invalid(a)
  <2>1. logo(b) = logo(a)
    BY <1>8 DEF Heard, IsLost, Got, LossCodes
  <2>2. invalid(b)
    BY <1>8, <2>1
  <2> HIDE DEF invalid, issues
  <2>3. card(b, db, nonMailB) = Card("fail", "published", Details(issues(b, db)))
    BY <1>6, <1>7, <2>2
  <2> HIDE DEF card
  <2>4. Red(card(b, db, nonMailB))
    BY <2>3, NotRed
  <2> QED BY <2>4 DEF card
<1>9. CASE ~invalid(a)
  <2> HIDE DEF invalid
  <2>1. Severe(issues(a, da), "error")
    <3> HIDE DEF issues
    <3>1. card(a, da, nonMail) = Card(MapStatus(RawStatus(issues(a, da))), "published", Details(issues(a, da)))
      BY <1>6, <1>7, <1>9
    <3>2. MapStatus(RawStatus(issues(a, da))) = "fail"
      <4> DEFINE lines == Details(issues(a, da))
      <4> HIDE DEF lines
      <4> QED BY <3>1, CardTells
    <3> QED BY <3>2, MapStatusRed
  <2>2. Severe(several \cup flaws, "error") \/ Severe(BimiDmarcIssues(da), "error") \/ Severe(pics(a), "error")
    <3> HIDE DEF pics
    <3> QED BY <2>1 DEF Severe
  <2>3. Severe(BimiDmarcIssues(da), "error") => Severe(BimiDmarcIssues(db), "error")
    <3>1. "warning" # "error"
      OBVIOUS
    <3>2. Severe(BimiDmarcIssues(da), "error") => ~da.found
      BY <3>1, IssuesAre, Zenon DEF BimiDmarcIssues
    <3>3. ~db.found => Severe(BimiDmarcIssues(db), "error")
      BY IssuesAre, Zenon DEF BimiDmarcIssues
    <3> QED BY <3>2, <3>3
  <2>4. Severe(pics(a), "error") => Severe(pics(b), "error")
    <3> SUFFICES ASSUME Severe(pics(a), "error") PROVE Severe(pics(b), "error")
      OBVIOUS
    <3>1. LogoFetched(record) /\ Severe(LogoIssues(logo(a)), "error")
      BY IssuesAre, Zenon
    <3>2. ~IsLost(logo(a))
      <4> SUFFICES ASSUME IsLost(logo(a)) PROVE FALSE
        OBVIOUS
      <4>1. ~Got(logo(a)) /\ logo(a).rc \in {"timeout", "failed"}
        BY DEF Got, IsLost, LossCodes
      <4>2. LogoFetchIssue[logo(a).rc] = "info"
        BY <4>1 DEF LogoFetchIssue
      <4>3. LogoIssues(logo(a)) = {Issue("info", logo(a).rc)}
        BY <4>1, <4>2 DEF LogoIssues
      <4>4. "info" # "error"
        OBVIOUS
      <4>5. ~Severe({Issue("info", logo(a).rc)}, "error")
        BY <4>4, IssuesAre, Zenon
      <4> QED BY <3>1, <4>3, <4>5
    <3>3. logo(b) = logo(a)
      BY <3>2 DEF Heard
    <3> QED BY <3>1, <3>3
  <2> HIDE DEF pics
  <2>5. Severe(issues(b, db), "error")
    BY <2>2, <2>3, <2>4 DEF Severe
  <2> HIDE DEF issues, card
  <2>6. Severe(Details(issues(b, db)), "error")
    BY <2>5, IssuesAre
  <2>7. Faulty(card(b, db, nonMailB))
    <3> DEFINE lines == Details(issues(b, db))
               status == IF invalid(b) THEN "fail" ELSE MapStatus(RawStatus(issues(b, db)))
    <3>1. card(b, db, nonMailB) = Card(status, "published", lines)
      BY <1>6, <1>7 DEF card
    <3> HIDE DEF lines, status
    <3> QED BY <2>6, <3>1, CardTells DEF lines
  <2> QED BY <2>7 DEF card
<1> QED BY <1>8, <1>9

-----------------------------------------------------------------------------
(* The DMARC card *)

\* Several records are red, whatever else the report says.
LEMMA SeveralAreRed ==
  ASSUME NEW d, NEW atOrg, NEW noMail, NEW delivery, DmarcSound(d), d.found, d.multiple
  PROVE  Red(TransformDmarc(d, atOrg, noMail, delivery))
<1> DEFINE raw_  == AboveRegistry(d, atOrg)
           lines == Details(d.issues)
           drawn == CardOfRecord(d, raw_, noMail, delivery)
           both  == d.malformed /\ d.isSubdomain /\ d.inherited # "no"
           card  == TransformDmarc(d, atOrg, noMail, delivery)
<1>1. drawn = Card("fail", "Multiple records", lines)
  BY DEF CardOfRecord
<1>2. card = IF d.status = "unavailable" THEN Unavailable("Not checked")
             ELSE IF both THEN [drawn EXCEPT !.status = "fail", !.label = "Malformed"]
             ELSE IF d.malformed THEN Card("fail", "Malformed", lines)
             ELSE drawn
  BY DEF TransformDmarc
<1>3. d.status # "unavailable"
  BY DEF DmarcSound
<1> HIDE DEF lines, drawn, both, card
<1>4. \/ card = [drawn EXCEPT !.status = "fail", !.label = "Malformed"]
      \/ card = Card("fail", "Malformed", lines)
      \/ card = drawn
  BY <1>2, <1>3
<1>5. IsCard(drawn)
  BY <1>1, CardIs
<1>6. [drawn EXCEPT !.status = "fail", !.label = "Malformed"].status = "fail"
  BY <1>5 DEF IsCard
<1>7. Red(card)
  <2>1. CASE card = [drawn EXCEPT !.status = "fail", !.label = "Malformed"]
    BY <1>6, <2>1 DEF Red
  <2>2. CASE card = Card("fail", "Malformed", lines)
    BY <2>2, NotRed
  <2>3. CASE card = drawn
    BY <1>1, <2>3, NotRed
  <2> QED BY <1>4, <2>1, <2>2, <2>3
<1> QED BY <1>7 DEF card

\* The DMARC card of a report is red by the record or by the cross-check.
LEMMA DmarcIsCorrected ==
  ASSUME NEW z, NEW r, DmarcSound(r.dmarc)
  PROVE  LET drawn  == TransformDmarc(r.dmarc, r.walk.atOrg, IsDefensive(r), z.delivery)
             card   == Corrected(z, r, DrawnCards(z, r))["DMARC"]
             raised == XcApplies(r) /\ XcFinding(r) = "fail"
         IN Red(card) <=> Red(drawn) \/ raised
<1> DEFINE cs    == DrawnCards(z, r)
           left  == Waive(z, r, cs)
           drawn == TransformDmarc(r.dmarc, r.walk.atOrg, IsDefensive(r), z.delivery)
           found == XcFinding(r)
           softened == Soften(WaiveCard(r, "DMARC", DrawnCard(z, r, "DMARC")))
<1>1. DOMAIN cs = CardNames /\ "DMARC" \in CardNames /\ cs["DMARC"] = DrawnCard(z, r, "DMARC")
  BY DEF DrawnCards, CardNames
<1>2. left = [name \in CardNames |->
                IF name = "DMARC" /\ IsDefensive(r)
                THEN TransformDmarc(r.dmarc, r.walk.atOrg, TRUE, z.delivery)
                ELSE Soften(WaiveCard(r, name, cs[name]))]
  BY <1>1 DEF Waive
<1>3. /\ DOMAIN left = CardNames
      /\ IsDefensive(r) => left["DMARC"] = TransformDmarc(r.dmarc, r.walk.atOrg, TRUE, z.delivery)
      /\ ~IsDefensive(r) => left["DMARC"] = softened
  BY <1>1, <1>2
<1>4. IsCard(left["DMARC"]) /\ left["DMARC"].status = drawn.status
  <2>1. CASE IsDefensive(r)
    <3>1. IsDefensive(r) = TRUE
      BY <2>1 DEF IsDefensive
    <3>2. left["DMARC"] = drawn
      BY <1>3, <2>1, <3>1
    <3>3. IsCard(drawn)
      BY DmarcCardIs
    <3> HIDE DEF left, drawn
    <3> QED BY <3>2, <3>3
  <2>2. CASE ~IsDefensive(r)
    <3> DEFINE plain == TransformDmarc(r.dmarc, r.walk.atOrg, FALSE, z.delivery)
               soft  == {IF d.sev = "warning" THEN Issue("info", d.about) ELSE d : d \in plain.details}
    <3>1. IsDefensive(r) = FALSE
      BY <2>2 DEF IsDefensive
    <3>2. drawn = plain
      BY <3>1
    <3>3. DrawnCard(z, r, "DMARC") = plain
      BY DEF DrawnCard
    <3>4. left["DMARC"] = Soften(plain)
      BY <1>3, <2>2, <3>3 DEF WaiveCard
    <3>5. IsCard(plain)
      BY DmarcCardIs
    <3>6. Soften(plain) = IF plain.status # "absent" THEN plain ELSE [plain EXCEPT !.details = soft]
      BY DEF Soften
    <3> HIDE DEF plain, soft, drawn, left
    <3>7. IsCard(Soften(plain))
      BY <3>5, <3>6 DEF IsCard
    <3> QED BY <3>2, <3>4, <3>5, <3>7, SoftenKeeps
  <2> QED BY <2>1, <2>2
<1> HIDE DEF left, cs, softened
<1> DEFINE raised == XcApplies(r) /\ XcRank(found) > XcRank(left["DMARC"].status)
           checked == CrossCheck(r, left)
<1>5. checked = IF raised THEN [left EXCEPT !["DMARC"].status = found] ELSE left
  BY DEF CrossCheck
<1>6. Red(checked["DMARC"]) <=> Red(left["DMARC"]) \/ (XcApplies(r) /\ found = "fail")
  <2>1. CASE raised
    <3>1. checked["DMARC"].status = found
      BY <1>1, <1>3, <1>4, <1>5, <2>1 DEF IsCard
    <3>2. left["DMARC"].status # "fail"
      BY <2>1, FindingIs DEF XcRank
    <3> QED BY <2>1, <3>1, <3>2 DEF Red
  <2>2. CASE ~raised
    <3>1. checked = left
      BY <1>5, <2>2
    <3>2. XcApplies(r) /\ found = "fail" => left["DMARC"].status = "fail"
      BY <2>2 DEF XcRank
    <3> QED BY <3>1, <3>2 DEF Red
  <2> QED BY <2>1, <2>2
<1>7. Corrected(z, r, DrawnCards(z, r)) = checked
  BY DEF Corrected, left, cs
<1> QED BY <1>4, <1>6, <1>7 DEF Red

(* The policy was read: the name has a record, or none and all that it can  *)
(* inherit was seen.                                                        *)
PolicyRead(r, dns) ==
  r.dmarc.found \/ ~(r.walk.incomplete \/ r.dmarc.lost \/ IsLost(dns[<<"SOA", "exists">>]))

\* The record that was read is the one with every answer, and so is the walk of a name
\* that has none.
LEMMA PolicyIsTold ==
  ASSUME NEW z, NEW a, NEW b, NEW r, NEW s, Beside(z, a, b, r, s), Known(r), PolicyRead(r, a)
  PROVE  /\ Alike(r.dmarc, s.dmarc) /\ (~r.dmarc.found => s.walk = r.walk)
         /\ r.dmarc.found => ~r.dmarc.registry
         /\ DmarcSound(r.dmarc) /\ DmarcSound(s.dmarc)
<1> DEFINE n == z.n
           psl == z.psl
           external == z.external
           walk == r.walk
           walkB == s.walk
           d == r.dmarc
           e == s.dmarc
<1>1. walk = TreeWalk(a, n, psl) /\ d = AuditDmarc(a, walk, n, psl, external)
  BY ChecksAre DEF Beside
<1>2. walkB = TreeWalk(b, n, psl) /\ e = AuditDmarc(b, walkB, n, psl, external)
  BY ChecksAre DEF Beside
<1>3. d.status # "unavailable" /\ n \in Nat \ {0} /\ PolicyHeard(a, b, n)
  BY DEF Known, Beside
<1>4. d.found \/ ~(walk.incomplete \/ d.lost \/ IsLost(a[<<"SOA", "exists">>]))
  BY DEF PolicyRead
<1>5. DmarcSound(d) /\ DmarcSound(e)
  BY <1>1, <1>2, AuditDmarcSound
<1> HIDE DEF n, psl, external, walk, walkB, d, e
<1>6. Alike(d, e) /\ (~d.found => walkB = walk) /\ (d.found => ~d.registry)
  BY <1>1, <1>2, <1>3, <1>4, AuditTells
<1> QED BY <1>5, <1>6 DEF walk, walkB, d, e

\* What the cross-check holds against a policy that was read, it would hold against it
\* with every answer, but of several records, which are red without it.
LEMMA CrossCheckIsTold ==
  ASSUME NEW z, NEW a, NEW b, NEW r, NEW s, Beside(z, a, b, r, s), Known(r), PolicyRead(r, a),
         z.selector # "" => Heard(a, b, <<"DKIM", z.selector>>),
         XcApplies(r), XcFinding(r) = "fail"
  PROVE  (XcApplies(s) /\ XcFinding(s) = "fail") \/ (s.dmarc.found /\ s.dmarc.multiple)
<1> DEFINE tags(x) == IF XcInherited(x) THEN NoTags ELSE x.dmarc.record
           enforcing(x) == (IF XcInherited(x) THEN x.walk.policy ELSE Policy(tags(x))) \in Enforcing
<1>1. ASSUME NEW x PROVE XcFinding(x) = "fail" <=> enforcing(x) /\ ~x.spf.found /\ x.dkim.notFound
  BY DEF XcFinding
<1>2. SameMail(r, s)
  BY DirectionTells
<1>3. ~r.spf.found /\ r.dkim.notFound /\ enforcing(r)
  BY <1>1
<1>4. s.dkim.notFound
  <2>1. /\ r.dkim = IF z.selector = "" THEN SweepDkim(a, z.priority, z.fallback)
                                       ELSE QueryDkim(a, z.selector)
        /\ s.dkim = IF z.selector = "" THEN SweepDkim(b, z.priority, z.fallback)
                                       ELSE QueryDkim(b, z.selector)
    BY ChecksAre DEF Beside
  <2>2. CASE z.selector = ""
    <3> DEFINE dkim == r.dkim
    <3>1. dkim = SweepDkim(a, z.priority, z.fallback)
      BY <2>1, <2>2
    <3> HIDE DEF dkim
    <3>2. Swept(a, dkim, dkim.tested \cup dkim.unanswered)
      BY <3>1, SweepIs
    <3>3. dkim.notFound = FALSE
      BY <3>2 DEF Swept
    <3> QED BY <1>3, <3>3 DEF dkim
  <2>3. CASE z.selector # ""
    <3>1. r.dkim = QueryDkim(a, z.selector) /\ s.dkim = QueryDkim(b, z.selector)
      BY <2>1, <2>3
    <3>2. QueryDkim(a, z.selector).notFound => QueryDkim(b, z.selector) = QueryDkim(a, z.selector)
      BY <2>3, QueryIsTold, Zenon
    <3>3. QueryDkim(a, z.selector).notFound
      BY <1>3, <3>1
    <3>4. s.dkim = QueryDkim(a, z.selector)
      BY <3>1, <3>2, <3>3, Zenon
    <3> QED BY <3>3, <3>4
  <2> QED BY <2>2, <2>3
<1>5. CASE OwnRecord(r)
  <2>1. OwnRecord(s) /\ ~XcInherited(r) /\ ~XcInherited(s)
    BY <1>2, <1>5 DEF SameMail, OwnRecord, XcInherited
  <2>2. enforcing(s)
    BY <1>2, <1>3, <2>1 DEF SameMail
  <2>3. XcApplies(s)
    BY <1>2, <1>3, <2>1 DEF SameMail, XcApplies, HasSendingSpf
  <2> QED BY <1>1, <1>2, <1>3, <1>4, <2>2, <2>3 DEF SameMail
<1>6. CASE ~OwnRecord(r) /\ r.dmarc.found
  BY <1>2, <1>6 DEF SameMail, OwnRecord
<1>7. CASE ~r.dmarc.found
  <2>2. Known(r) /\ PolicyRead(r, a) /\ Beside(z, a, b, r, s)
    OBVIOUS
  <2>3. /\ Alike(r.dmarc, s.dmarc) /\ (~r.dmarc.found => s.walk = r.walk)
        /\ r.dmarc.found => ~r.dmarc.registry
        /\ DmarcSound(r.dmarc) /\ DmarcSound(s.dmarc)
    BY ONLY <2>2, PolicyIsTold
  <2>4. s.walk = r.walk
    BY <1>7, <2>3
  <2>5. ~OwnRecord(r) /\ ~OwnRecord(s)
    BY <1>2, <1>7 DEF SameMail, OwnRecord
  <2>6. XcInherited(r) /\ XcInherited(s)
    BY <2>4, <2>5 DEF XcApplies, XcInherited
  <2>7. enforcing(s)
    BY <1>3, <2>4, <2>6
  <2>8. XcApplies(s)
    BY <1>2, <1>3, <2>6 DEF SameMail, XcApplies, HasSendingSpf
  <2> QED BY <1>1, <1>2, <1>3, <1>4, <2>7, <2>8 DEF SameMail
<1> QED BY <1>5, <1>6, <1>7

\* A red DMARC card, of a policy that was read, would be red with every answer.
LEMMA DmarcIsTold ==
  ASSUME NEW z, NEW a, NEW b, NEW r, NEW s, Beside(z, a, b, r, s), Known(r), PolicyRead(r, a),
         z.selector # "" => Heard(a, b, <<"DKIM", z.selector>>),
         Red(Corrected(z, r, DrawnCards(z, r))["DMARC"])
  PROVE  Red(Corrected(z, s, DrawnCards(z, s))["DMARC"])
<1> DEFINE drawn(x)  == TransformDmarc(x.dmarc, x.walk.atOrg, IsDefensive(x), z.delivery)
           raised(x) == XcApplies(x) /\ XcFinding(x) = "fail"
           card(x)   == Corrected(z, x, DrawnCards(z, x))["DMARC"]
<1>1. /\ Alike(r.dmarc, s.dmarc) /\ (~r.dmarc.found => s.walk = r.walk)
      /\ r.dmarc.found => ~r.dmarc.registry
      /\ DmarcSound(r.dmarc) /\ DmarcSound(s.dmarc)
  BY PolicyIsTold
<1>2. \A x \in {r, s} : Red(card(x)) <=> Red(drawn(x)) \/ raised(x)
  BY <1>1, DmarcIsCorrected
<1>3. CASE Red(drawn(r))
  <2> DEFINE noMail == IsDefensive(r)
             d == r.dmarc
             e == s.dmarc
             atOrgD == r.walk.atOrg
             atOrgE == s.walk.atOrg
  <2>1. SameMail(r, s)
    BY DirectionTells
  <2>6. IsDefensive(s) = noMail
    BY <2>1 DEF SameMail
  <2>2. d.registry => atOrgE = atOrgD
    BY <1>1
  <2>3. Alike(d, e) /\ DmarcSound(d) /\ DmarcSound(e) /\ Red(TransformDmarc(d, atOrgD, noMail, z.delivery))
    BY <1>1, <1>3
  <2> HIDE DEF noMail, d, e, atOrgD, atOrgE
  <2>4. Red(TransformDmarc(e, atOrgE, noMail, z.delivery))
    BY <2>2, <2>3, DmarcCardTells
  <2>5. Red(drawn(s))
    BY <2>4, <2>6 DEF e, atOrgE
  <2> QED BY <1>2, <2>5
<1>4. CASE raised(r)
  <2>1. raised(s) \/ (s.dmarc.found /\ s.dmarc.multiple)
    BY <1>4, CrossCheckIsTold
  <2>2. CASE s.dmarc.found /\ s.dmarc.multiple
    <3>1. Red(drawn(s))
      BY <1>1, <2>2, SeveralAreRed
    <3> QED BY <1>2, <3>1
  <2> QED BY <1>2, <2>1, <2>2
<1> QED BY <1>2, <1>3, <1>4

-----------------------------------------------------------------------------
(* The cards of a finished report *)

(* The corrections take a card out of the report. *)
IsWaived(r, name) == IsDefensive(r) /\ name \in Waived(r)

\* A card that is told to the audit with every answer is wrong there after the
\* corrections too, when they waive no card that they had left in the other report.
LEMMA CardIsTold ==
  ASSUME NEW z, NEW r, NEW s, NEW name \in CardNames \ {"DMARC"},
         NEW mine, mine = DrawnCard(z, r, name), IsCard(mine),
         NEW full, full = DrawnCard(z, s, name), IsCard(full),
         Red(mine) => Faulty(full) \/ (Red(full) /\ (IsWaived(s, name) => IsWaived(r, name))),
         Red(Corrected(z, r, DrawnCards(z, r))[name])
  PROVE  Wrong(Corrected(z, s, DrawnCards(z, s))[name])
<1> DEFINE left  == Soften(WaiveCard(r, name, mine))
           after == Soften(WaiveCard(s, name, full))
<1>1. Corrected(z, r, DrawnCards(z, r))[name] = left /\ Corrected(z, s, DrawnCards(z, s))[name] = after
  BY LeftIs
<1>2. left.status = "fail" => mine.status = "fail" /\ ~IsWaived(r, name)
  BY RedSurvives DEF IsWaived
<1>3. /\ ~IsWaived(s, name) => after.status = full.status
      /\ Severe(full.details, "error") => Severe(after.details, "error")
  BY RedSurvives DEF IsWaived
<1> HIDE DEF left, after
<1>4. Red(mine) /\ ~IsWaived(r, name)
  BY <1>1, <1>2 DEF Red
<1>5. CASE Faulty(full)
  BY <1>1, <1>3, <1>5 DEF Wrong, Faulty
<1>6. CASE Red(full) /\ (IsWaived(s, name) => IsWaived(r, name))
  BY <1>1, <1>3, <1>4, <1>6 DEF Wrong, Red
<1> QED BY <1>4, <1>5, <1>6

\* Of the cards that no correction takes out, and of the two that one takes out of a
\* domain without mail.
LEMMA WaivedAre ==
  /\ \A r, name : IsWaived(r, name) => name \in {"MTA-STS", "TLS-RPT", "DANE", "BIMI", "DKIM"}
  /\ \A r, s, name : /\ IsDefensive(s) = IsDefensive(r) /\ SendsNoMail(s) = SendsNoMail(r)
                     /\ name \in {"BIMI", "DKIM"} /\ IsWaived(s, name)
                     => IsWaived(r, name)
BY DEF IsWaived, Waived

\* A red BIMI card, of a policy that was read, would be wrong with every answer.
LEMMA BimiIsWrong ==
  ASSUME NEW z, NEW a, NEW b, NEW r, NEW s, Beside(z, a, b, r, s), Known(r), PolicyRead(r, a),
         Heard(a, b, <<"TXT", "default._bimi">>), Heard(a, b, <<"fetch", "logo">>),
         Red(Corrected(z, r, DrawnCards(z, r))["BIMI"])
  PROVE  Wrong(Corrected(z, s, DrawnCards(z, s))["BIMI"])
<1> DEFINE da   == ForBimi(r.dmarc)
           db   == ForBimi(s.dmarc)
           mine == TransformBimi(CheckBimi(a, da), SendsNoMail(r))
           full == TransformBimi(CheckBimi(b, db), SendsNoMail(s))
<1>1. SameMail(r, s)
  BY DirectionTells
<1>2. Alike(r.dmarc, s.dmarc)
  BY PolicyIsTold
<1>3. ~da.found => ~db.found
  BY <1>2 DEF ForBimi, Alike
<1>4. r.bimi = CheckBimi(a, da)
  <2>1. r = RawResults(z, a)
    BY DEF Beside
  <2>2. RawResults(z, a).bimi = CheckBimi(a, ForBimi(RawResults(z, a).dmarc))
    BY BimiIsChecked
  <2> QED BY <2>1, <2>2
<1>5. s.bimi = CheckBimi(b, db)
  <2>1. s = RawResults(z, b)
    BY DEF Beside
  <2>2. RawResults(z, b).bimi = CheckBimi(b, ForBimi(RawResults(z, b).dmarc))
    BY BimiIsChecked
  <2> QED BY <2>1, <2>2
<1>6. mine = DrawnCard(z, r, "BIMI") /\ full = DrawnCard(z, s, "BIMI")
  BY <1>4, <1>5 DEF DrawnCard
<1> HIDE DEF da, db
<1>7. IsCard(mine) /\ IsCard(full)
  BY BimiCardIs
<1>8. Red(mine) => Red(full) \/ Faulty(full)
  BY <1>3, BimiIsTold
<1>9. IsWaived(s, "BIMI") => IsWaived(r, "BIMI")
  BY <1>1, WaivedAre DEF SameMail
<1>10. "BIMI" \in CardNames \ {"DMARC"}
  BY DEF CardNames
<1> HIDE DEF mine, full
<1> QED BY <1>6, <1>7, <1>8, <1>9, <1>10, CardIsTold

\* A red DKIM card would be red with every answer, when the sweep is the same.
LEMMA DkimIsWrong ==
  ASSUME NEW z, NEW a, NEW b, NEW r, NEW s, Beside(z, a, b, r, s), Known(r),
         Heard(a, b, <<"NS", "target">>),
         \A x \in Selectors(z) : Heard(a, b, <<"DKIM", x>>),
         r.dkim.tested \cup r.dkim.unanswered = s.dkim.tested \cup s.dkim.unanswered,
         Red(Corrected(z, r, DrawnCards(z, r))["DKIM"])
  PROVE  Wrong(Corrected(z, s, DrawnCards(z, s))["DKIM"])
<1> DEFINE nonMail == SendsNoMail(r)
           d    == r.dkim
           e    == s.dkim
           mine == TransformDkim(d, nonMail)
           full == TransformDkim(e, nonMail)
<1>1. SameMail(r, s)
  BY DirectionTells
<1>2. d = IF z.selector = "" THEN SweepDkim(a, z.priority, z.fallback) ELSE QueryDkim(a, z.selector)
  BY ChecksAre DEF Beside
<1>3. e = IF z.selector = "" THEN SweepDkim(b, z.priority, z.fallback) ELSE QueryDkim(b, z.selector)
  BY ChecksAre DEF Beside
<1>4. mine = DrawnCard(z, r, "DKIM")
  BY DEF DrawnCard
<1>5. full = DrawnCard(z, s, "DKIM")
  <2>1. SendsNoMail(s) = nonMail
    BY <1>1 DEF SameMail
  <2>2. DrawnCard(z, s, "DKIM") = TransformDkim(e, SendsNoMail(s))
    BY DEF DrawnCard
  <2> QED BY <2>1, <2>2
<1>6. IsCard(mine) /\ IsCard(full)
  BY DkimCardIs
<1>7. Red(mine) => Red(full)
  <2>1. CASE z.selector = ""
    <3> DEFINE priority == z.priority
               fallback == z.fallback
    <3>1. d = SweepDkim(a, priority, fallback) /\ e = SweepDkim(b, priority, fallback)
      BY <1>2, <1>3, <2>1
    <3>2. d.tested \cup d.unanswered = e.tested \cup e.unanswered
      OBVIOUS
    <3>3. Heard(a, b, <<"DKIM", "wildcard">>) /\ \A x \in priority \cup fallback : Heard(a, b, <<"DKIM", x>>)
      BY <2>1 DEF Selectors
    <3> HIDE DEF d, e, priority, fallback, nonMail
    <3> QED BY <3>1, <3>2, <3>3, SweepIsTold
  <2>2. CASE z.selector # ""
    <3> DEFINE x == z.selector
    <3>1. d = QueryDkim(a, x) /\ e = QueryDkim(b, x)
      BY <1>2, <1>3, <2>2
    <3>2. Heard(a, b, <<"DKIM", x>>)
      BY <2>2 DEF Selectors
    <3> HIDE DEF d, e, x, nonMail
    <3>3. Red(TransformDkim(QueryDkim(a, x), nonMail)) => QueryDkim(b, x) = QueryDkim(a, x)
      BY <3>2, QueryIsTold
    <3> QED BY <3>1, <3>3
  <2> QED BY <2>1, <2>2
<1>8. IsWaived(s, "DKIM") => IsWaived(r, "DKIM")
  BY <1>1, WaivedAre DEF SameMail
<1>9. "DKIM" \in CardNames \ {"DMARC"}
  BY DEF CardNames
<1> HIDE DEF mine, full
<1> QED BY <1>4, <1>5, <1>6, <1>7, <1>8, <1>9, CardIsTold

\* The questions of every audit, those of its own name and those of the hosts it finds.
LEMMA AlwaysAre ==
  /\ <<"MX", "domain">> \in AlwaysAsked /\ <<"SPF", "domain">> \in AlwaysAsked
  /\ \A x \in {"_dmarc", "_dmarc.org", "_mta-sts", "_smtp._tls", "default._bimi"} :
       <<"TXT", x>> \in AlwaysAsked
  /\ \A x \in {"mta-sts", "logo"} : <<"fetch", x>> \in AlwaysAsked
  /\ \A x \in {"domain", "target"} : <<"NS", x>> \in AlwaysAsked
  /\ \A x \in {"domain", "exists"} : <<"SOA", x>> \in AlwaysAsked
  /\ \A x \in {"first", "retry", "again"} : <<"DNSKEY", x>> \in AlwaysAsked
  /\ \A x \in {"first", "second", "parent", "again1", "again2"} : <<"DS", x>> \in AlwaysAsked
  /\ \A who \in {"validating", "unvalidating"}, t \in {"A", "SOA"} : <<who, t>> \in AlwaysAsked
BY DEF AlwaysAsked

LEMMA OwnAre ==
  ASSUME NEW z
  PROVE  /\ <<"DMARC", z.n>> \in AskedOf(z)
         /\ \A i \in DOMAIN WalkedNames(z.n) : <<"DMARC", WalkedNames(z.n)[i]>> \in AskedOf(z)
         /\ \A x \in Selectors(z) : <<"DKIM", x>> \in AskedOf(z)
         /\ z.depth \in Nat => <<"CAA", z.depth>> \in AskedOf(z)
<1> DEFINE names == {WalkedNames(z.n)[i] : i \in DOMAIN WalkedNames(z.n)}
           sels  == Selectors(z)
           depth == z.depth
           n     == z.n
<1>1. AskedOf(z) = {"DMARC"} \X ({n} \cup names) \cup {"DKIM"} \X sels \cup {"CAA"} \X (0..depth)
  BY DEF AskedOf
<1>2. \A i \in DOMAIN WalkedNames(n) : WalkedNames(n)[i] \in names
  OBVIOUS
<1>3. depth \in Nat => depth \in 0..depth
  OBVIOUS
<1> HIDE DEF names, sels, depth, n
<1>4. /\ <<"DMARC", n>> \in AskedOf(z)
      /\ \A x \in names : <<"DMARC", x>> \in AskedOf(z)
      /\ \A x \in sels : <<"DKIM", x>> \in AskedOf(z)
      /\ depth \in 0..depth => <<"CAA", depth>> \in AskedOf(z)
  BY <1>1
<1>5. \A i \in DOMAIN WalkedNames(n) : <<"DMARC", WalkedNames(n)[i]>> \in AskedOf(z)
  BY <1>2, <1>4
<1> QED BY <1>3, <1>4, <1>5 DEF sels, depth, n

LEMMA HostsAre ==
  ASSUME NEW dns
  PROVE  /\ \A h \in MailHosts(dns), t \in {"A", "AAAA"} : <<t, h>> \in AskedOfHosts(dns)
         /\ \A h \in dns[<<"NS", "domain">>].rr, t \in {"A", "AAAA", "authority"} :
              <<t, h>> \in AskedOfHosts(dns)
<1> DEFINE servers == dns[<<"NS", "domain">>].rr
           hosts   == MailHosts(dns)
<1>1. AskedOfHosts(dns) = {"A", "AAAA"} \X (hosts \cup servers) \cup {"authority"} \X servers
  BY DEF AskedOfHosts
<1> HIDE DEF servers, hosts
<1>2. /\ \A h \in hosts, t \in {"A", "AAAA"} : <<t, h>> \in AskedOfHosts(dns)
      /\ \A h \in servers, t \in {"A", "AAAA", "authority"} : <<t, h>> \in AskedOfHosts(dns)
  BY <1>1
<1> QED BY <1>2 DEF servers, hosts

(* The losses of an audit are of questions it asks, and end as those can.   *)
LossesFit(z, gone) == \A q \in DOMAIN gone : q \in DOMAIN z.asks /\ gone[q] \in z.asks[q]

\* Every question of an audit has in it the answer it has without losses, or none.
LEMMA EachIsHeard ==
  ASSUME NEW z \in Zones, NEW gone, LossesFit(z, gone),
         NEW a, a = Answers(z, gone), NEW b, b = Answers(z, <<>>)
  PROVE  /\ \A q \in AlwaysAsked \cup AskedOf(z) \cup AskedOfHosts(b) : Heard(a, b, q)
         /\ b[<<"DNSKEY", "first">>] = b[<<"DNSKEY", "retry">>]
         /\ b[<<"DS", "again1">>] = b[<<"DS", "again2">>]
         /\ z.depth \in Nat
<1>1. \A q \in DOMAIN gone : q \in DOMAIN z.asks /\ gone[q] \in z.asks[q]
  BY DEF LossesFit
<1> DEFINE x == Answers(z, gone)
           y == Answers(z, <<>>)
<1>2. /\ \A q \in Asked(z, y) : Heard(x, y, q)
      /\ y[<<"DNSKEY", "first">>] = y[<<"DNSKEY", "retry">>]
      /\ y[<<"DS", "again1">>] = y[<<"DS", "again2">>]
      /\ z.depth \in Nat
  BY <1>1, AllIsHeard
<1>3. Asked(z, b) = AlwaysAsked \cup AskedOf(z) \cup AskedOfHosts(b)
  BY DEF Asked
<1>4. a = x /\ b = y
  OBVIOUS
<1> HIDE DEF x, y
<1> QED BY <1>2, <1>3, <1>4

\* The results of an audit beside those with every answer.
LEMMA AuditsAreBeside ==
  ASSUME NEW z \in Zones, NEW gone, LossesFit(z, gone),
         NEW a, a = Answers(z, gone), NEW b, b = Answers(z, <<>>),
         NEW r, r = RawResults(z, a), NEW s, s = RawResults(z, b)
  PROVE  Beside(z, a, b, r, s)
<1>1. \A q \in AlwaysAsked \cup AskedOf(z) \cup AskedOfHosts(b) : Heard(a, b, q)
  BY EachIsHeard
<1>2. z.n \in Nat \ {0}
  BY ZonesAssumption
<1>3. Heard(a, b, <<"MX", "domain">>) /\ Heard(a, b, <<"SPF", "domain">>)
  BY <1>1, AlwaysAre
<1>4. PolicyHeard(a, b, z.n)
  <2>1. Heard(a, b, <<"TXT", "_dmarc">>) /\ Heard(a, b, <<"TXT", "_dmarc.org">>) /\ Heard(a, b, <<"SOA", "exists">>)
    BY <1>1, AlwaysAre
  <2>2. /\ Heard(a, b, <<"DMARC", z.n>>)
        /\ \A i \in DOMAIN WalkedNames(z.n) : Heard(a, b, <<"DMARC", WalkedNames(z.n)[i]>>)
    BY <1>1, OwnAre
  <2> QED BY <2>1, <2>2 DEF PolicyHeard
<1> QED BY <1>2, <1>3, <1>4 DEF Beside

\* The cards that nothing but their own answers decides.
LEMMA PlainIsTold ==
  ASSUME NEW z \in Zones, NEW gone, LossesFit(z, gone),
         NEW a, a = Answers(z, gone), NEW b, b = Answers(z, <<>>),
         NEW r, r = RawResults(z, a), NEW s, s = RawResults(z, b),
         NEW name \in {"MX Records", "MTA-STS", "TLS-RPT", "DNSSEC", "CAA", "DANE", "CT"}
  PROVE  /\ IsCard(DrawnCard(z, r, name)) /\ IsCard(DrawnCard(z, s, name))
         /\ Red(DrawnCard(z, r, name)) => Faulty(DrawnCard(z, s, name))
<1>1. /\ \A q \in AlwaysAsked \cup AskedOf(z) \cup AskedOfHosts(b) : Heard(a, b, q)
      /\ b[<<"DNSKEY", "first">>] = b[<<"DNSKEY", "retry">>]
      /\ b[<<"DS", "again1">>] = b[<<"DS", "again2">>]
      /\ z.depth \in Nat
  BY EachIsHeard
<1>2. /\ r.mx = CheckMx(a) /\ r.dnssec = RawDnssec(a) /\ r.caa = RawCaa(a, z.depth)
      /\ r.sts = CheckMtaSts(a) /\ r.rpt = CheckTlsRpt(a)
  <2>1. r.mx = CheckMx(a)
    BY MxIsChecked
  <2>2. r.dnssec = RawDnssec(a) /\ r.ns = RawNameservers(a, z.group, z.providers)
    BY ChecksAre
  <2>3. r.caa = RawCaa(a, z.depth)
    BY ChecksAre
  <2>4. r.sts = CheckMtaSts(a) /\ r.rpt = CheckTlsRpt(a)
    BY ChecksAre
  <2> QED BY <2>1, <2>2, <2>3, <2>4
<1>3. /\ s.mx = CheckMx(b) /\ s.dnssec = RawDnssec(b) /\ s.caa = RawCaa(b, z.depth)
      /\ s.sts = CheckMtaSts(b) /\ s.rpt = CheckTlsRpt(b)
  <2>1. s.mx = CheckMx(b)
    BY MxIsChecked
  <2>2. s.dnssec = RawDnssec(b) /\ s.ns = RawNameservers(b, z.group, z.providers)
    BY ChecksAre
  <2>3. s.caa = RawCaa(b, z.depth)
    BY ChecksAre
  <2>4. s.sts = CheckMtaSts(b) /\ s.rpt = CheckTlsRpt(b)
    BY ChecksAre
  <2> QED BY <2>1, <2>2, <2>3, <2>4
<1>4. CASE name = "MX Records"
  <2>1. DrawnCard(z, r, name) = TransformMx(CheckMx(a)) /\ DrawnCard(z, s, name) = TransformMx(CheckMx(b))
    BY <1>2, <1>3, <1>4 DEF DrawnCard
  <2>2. Heard(a, b, <<"MX", "domain">>)
    BY <1>1, AlwaysAre
  <2>3. \A h \in MailHosts(b), t \in {"A", "AAAA"} : Heard(a, b, <<t, h>>)
    BY <1>1, HostsAre
  <2>4. Red(TransformMx(CheckMx(a))) => Faulty(TransformMx(CheckMx(b)))
    BY <2>2, <2>3, MxIsTold
  <2> QED BY <2>1, <2>4, CardsAreCards
<1>5. CASE name = "MTA-STS"
  <2> DEFINE hasMx  == HasMx(r)
             noMail == ReceivesNoMail(r)
             hasMxB == HasMx(s)
             noMailB == ReceivesNoMail(s)
  <2>1. /\ DrawnCard(z, r, name) = TransformMtaSts(CheckMtaSts(a), hasMx, noMail)
        /\ DrawnCard(z, s, name) = TransformMtaSts(CheckMtaSts(b), hasMxB, noMailB)
    BY <1>2, <1>3, <1>5 DEF DrawnCard
  <2> HIDE DEF hasMx, noMail, hasMxB, noMailB
  <2>2. Heard(a, b, <<"TXT", "_mta-sts">>) /\ Heard(a, b, <<"fetch", "mta-sts">>)
    BY <1>1, AlwaysAre
  <2>3. Red(TransformMtaSts(CheckMtaSts(a), hasMx, noMail)) => Faulty(TransformMtaSts(CheckMtaSts(b), hasMxB, noMailB))
    BY <2>2, MtaStsIsTold
  <2> QED BY <2>1, <2>3, CardsAreCards
<1>6. CASE name = "TLS-RPT"
  <2> DEFINE hasMx  == HasMx(r)
             noMail == ReceivesNoMail(r)
             hasMxB == HasMx(s)
             noMailB == ReceivesNoMail(s)
  <2>1. /\ DrawnCard(z, r, name) = TransformTlsRpt(CheckTlsRpt(a), hasMx, noMail)
        /\ DrawnCard(z, s, name) = TransformTlsRpt(CheckTlsRpt(b), hasMxB, noMailB)
    BY <1>2, <1>3, <1>6 DEF DrawnCard
  <2> HIDE DEF hasMx, noMail, hasMxB, noMailB
  <2>2. Heard(a, b, <<"TXT", "_smtp._tls">>)
    BY <1>1, AlwaysAre
  <2>3. Red(TransformTlsRpt(CheckTlsRpt(a), hasMx, noMail)) => Faulty(TransformTlsRpt(CheckTlsRpt(b), hasMxB, noMailB))
    BY <2>2, TlsRptIsTold
  <2> QED BY <2>1, <2>3, CardsAreCards
<1>7. CASE name = "DNSSEC"
  <2>1. DrawnCard(z, r, name) = TransformDnssec(RawDnssec(a)) /\ DrawnCard(z, s, name) = TransformDnssec(RawDnssec(b))
    BY <1>2, <1>3, <1>7 DEF DrawnCard
  <2>2. /\ \A i \in {"first", "retry", "again"} : Heard(a, b, <<"DNSKEY", i>>)
        /\ \A i \in {"first", "second", "parent", "again1", "again2"} : Heard(a, b, <<"DS", i>>)
        /\ \A who \in {"validating", "unvalidating"}, t \in {"A", "SOA"} : Heard(a, b, <<who, t>>)
    BY <1>1, AlwaysAre
  <2>3. Red(TransformDnssec(RawDnssec(a))) => Faulty(TransformDnssec(RawDnssec(b)))
    BY <1>1, <2>2, DnssecIsTold
  <2> QED BY <2>1, <2>3, CardsAreCards
<1>8. CASE name = "CAA"
  <2> DEFINE depth == z.depth
  <2>1. DrawnCard(z, r, name) = TransformCaa(RawCaa(a, depth)) /\ DrawnCard(z, s, name) = TransformCaa(RawCaa(b, depth))
    BY <1>2, <1>3, <1>8 DEF DrawnCard
  <2>2. Heard(a, b, <<"CAA", depth>>) /\ depth \in Nat
    BY <1>1, OwnAre
  <2> HIDE DEF depth
  <2>3. Red(TransformCaa(RawCaa(a, depth))) => Faulty(TransformCaa(RawCaa(b, depth)))
    BY <2>2, CaaIsTold
  <2> QED BY <2>1, <2>3, CardsAreCards
<1>9. CASE name = "DANE"
  <2>1. DrawnCard(z, r, name) = TransformDane(r.dane) /\ DrawnCard(z, s, name) = TransformDane(s.dane)
    BY <1>9 DEF DrawnCard
  <2> QED BY <2>1, DaneIsNotRed, CardsAreCards
<1>10. CASE name = "CT"
  <2>1. DrawnCard(z, r, name) = TransformCt(r.ct) /\ DrawnCard(z, s, name) = TransformCt(s.ct)
    BY <1>10 DEF DrawnCard
  <2> QED BY <2>1, CtIsNotRed, CardsAreCards
<1> QED BY <1>4, <1>5, <1>6, <1>7, <1>8, <1>9, <1>10

\* A red card of these is wrong with every answer.
LEMMA PlainIsWrong ==
  ASSUME NEW z \in Zones, NEW gone, LossesFit(z, gone),
         NEW a, a = Answers(z, gone), NEW b, b = Answers(z, <<>>),
         NEW r, r = RawResults(z, a), NEW s, s = RawResults(z, b),
         NEW name \in {"MX Records", "MTA-STS", "TLS-RPT", "DNSSEC", "CAA", "DANE", "CT"},
         Red(Corrected(z, r, DrawnCards(z, r))[name])
  PROVE  Wrong(Corrected(z, s, DrawnCards(z, s))[name])
<1> DEFINE mine == DrawnCard(z, r, name)
           full == DrawnCard(z, s, name)
<1>1. IsCard(mine) /\ IsCard(full) /\ (Red(mine) => Faulty(full))
  BY PlainIsTold
<1>2. name \in CardNames \ {"DMARC"}
  BY DEF CardNames
<1>3. mine = DrawnCard(z, r, name) /\ full = DrawnCard(z, s, name)
  OBVIOUS
<1> HIDE DEF mine, full
<1> QED BY <1>1, <1>2, <1>3, CardIsTold

\* A delegation that is red is wrong with every answer, when the servers that a loss had it
\* ask answer all the same.
LEMMA DelegationIsWrong ==
  ASSUME NEW z \in Zones, NEW gone, LossesFit(z, gone),
         NEW a, a = Answers(z, gone), NEW b, b = Answers(z, <<>>),
         NEW r, r = RawResults(z, a), NEW s, s = RawResults(z, b),
         \A p \in r.ns.probes, q \in s.ns.probes : p.host = q.host /\ p.answered => q.answered,
         ~(r.ns.probes = {} /\ IsLost(a[<<"SOA", "domain">>])),
         Red(Corrected(z, r, DrawnCards(z, r))["Nameservers"])
  PROVE  Wrong(Corrected(z, s, DrawnCards(z, s))["Nameservers"])
<1> DEFINE group == z.group
           providers == z.providers
           below == z.belowOrg
           mine == TransformNameservers(RawNameservers(a, group, providers), below)
           full == TransformNameservers(RawNameservers(b, group, providers), below)
<1>1. \A q \in AlwaysAsked \cup AskedOf(z) \cup AskedOfHosts(b) : Heard(a, b, q)
  BY EachIsHeard
<1>2. Heard(a, b, <<"NS", "domain">>) /\ Heard(a, b, <<"SOA", "domain">>)
  BY <1>1, AlwaysAre
<1>3. \A h \in b[<<"NS", "domain">>].rr, t \in {"A", "AAAA", "authority"} : Heard(a, b, <<t, h>>)
  BY <1>1, HostsAre
<1>4. r.ns = RawNameservers(a, group, providers)
  BY ChecksAre
<1>5. s.ns = RawNameservers(b, group, providers)
  BY ChecksAre
<1>6. mine = DrawnCard(z, r, "Nameservers")
  BY <1>4 DEF DrawnCard
<1>7. full = DrawnCard(z, s, "Nameservers")
  BY <1>5 DEF DrawnCard
<1> HIDE DEF group, providers, below
<1>8. Red(mine) => Red(full) \/ Faulty(full)
  BY <1>2, <1>3, <1>4, <1>5, NameserversAreTold
<1>9. IsCard(mine) /\ IsCard(full)
  BY CardsAreCards
<1>10. ~IsWaived(s, "Nameservers") /\ "Nameservers" \in CardNames \ {"DMARC"}
  BY WaivedAre DEF CardNames
<1> HIDE DEF mine, full
<1> QED BY <1>6, <1>7, <1>8, <1>9, <1>10, CardIsTold

\* So no loss alone turns a card red that an audit can judge.
LEMMA LossIsTold ==
  ASSUME NEW z \in Zones, NEW gone, LossesFit(z, gone),
         NEW a, a = Answers(z, gone), NEW b, b = Answers(z, <<>>),
         NEW r, r = RawResults(z, a), NEW s, s = RawResults(z, b),
         NEW name \in CardNames \ {"SPF"}, Red(Corrected(z, r, DrawnCards(z, r))[name]),
         name \in {"DMARC", "BIMI"} => Known(r) /\ PolicyRead(r, a),
         name = "DKIM" =>
           /\ Known(r)
           /\ r.dkim.tested \cup r.dkim.unanswered = s.dkim.tested \cup s.dkim.unanswered,
         name = "Nameservers" =>
           /\ \A p \in r.ns.probes, q \in s.ns.probes : p.host = q.host /\ p.answered => q.answered
           /\ ~(r.ns.probes = {} /\ IsLost(a[<<"SOA", "domain">>]))
  PROVE  Wrong(Corrected(z, s, DrawnCards(z, s))[name])
<1> DEFINE mine(x) == Corrected(z, r, DrawnCards(z, r))[x]
           full(x) == Corrected(z, s, DrawnCards(z, s))[x]
<1>1. \A q \in AlwaysAsked \cup AskedOf(z) \cup AskedOfHosts(b) : Heard(a, b, q)
  BY EachIsHeard
<1>2. Beside(z, a, b, r, s)
  BY AuditsAreBeside
<1>3. \A x \in Selectors(z) : Heard(a, b, <<"DKIM", x>>)
  BY <1>1, OwnAre
<1>4. CASE name = "DMARC"
  <2>1. z.selector # "" => Heard(a, b, <<"DKIM", z.selector>>)
    BY <1>3 DEF Selectors
  <2>2. Red(full("DMARC"))
    BY <1>2, <1>4, <2>1, DmarcIsTold
  <2> QED BY <1>4, <2>2 DEF Wrong, Red
<1>5. CASE name = "BIMI"
  <2>1. Heard(a, b, <<"TXT", "default._bimi">>) /\ Heard(a, b, <<"fetch", "logo">>)
    BY <1>1, AlwaysAre
  <2> QED BY <1>2, <1>5, <2>1, BimiIsWrong
<1>6. CASE name = "DKIM"
  <2>1. Heard(a, b, <<"NS", "target">>)
    BY <1>1, AlwaysAre
  <2> QED BY <1>2, <1>3, <1>6, <2>1, DkimIsWrong
<1>7. CASE name = "Nameservers"
  BY <1>7, DelegationIsWrong
<1>8. CASE name \in {"MX Records", "MTA-STS", "TLS-RPT", "DNSSEC", "CAA", "DANE", "CT"}
  BY <1>8, PlainIsWrong
<1> QED BY <1>4, <1>5, <1>6, <1>7, <1>8 DEF CardNames

-----------------------------------------------------------------------------
(* The theorem *)

\* The losses of an audit are always of its own zone's questions: the inductive
\* invariant beside Stages, without which an answer could be missing that the zone has to
\* every audit.
LostAreAsked == LossesFit(zone, lost)

LEMMA LossesInit == Init => LostAreAsked
BY DEF Init, LostAreAsked, LossesFit

LEMMA LossesStep == LostAreAsked /\ [Next]_vars => LostAreAsked'
<1> SUFFICES ASSUME LostAreAsked, [Next]_vars PROVE LostAreAsked'
  OBVIOUS
<1>1. ASSUME NEW q \in DOMAIN zone.asks, NEW rc \in zone.asks[q], Lose(q, rc) PROVE LostAreAsked'
  <2> DEFINE one == [x \in {q} |-> rc]
  <2>1. lost' = Over(one, lost) /\ zone' = zone
    BY <1>1 DEF Lose
  <2>2. DOMAIN one = {q} /\ one[q] = rc
    OBVIOUS
  <2> HIDE DEF one
  <2>3. lost' = [x \in DOMAIN one \cup DOMAIN lost |-> IF x \in DOMAIN one THEN one[x] ELSE lost[x]]
    BY <2>1 DEF Over
  <2>4. \A x \in DOMAIN lost' : (x = q /\ lost'[x] = rc) \/ (x \in DOMAIN lost /\ lost'[x] = lost[x])
    BY <2>2, <2>3
  <2> QED BY <1>1, <2>1, <2>4 DEF LostAreAsked, LossesFit
<1>2. CASE zone' = zone /\ lost' = lost
  BY <1>2 DEF LostAreAsked, LossesFit
<1>3. RunChecks \/ DrawCards \/ Correct \/ Advise \/ UNCHANGED vars => zone' = zone /\ lost' = lost
  BY DEF RunChecks, DrawCards, Correct, Advise, vars
<1> QED BY <1>1, <1>2, <1>3 DEF Next

\* Of a finished audit with losses, every red card that it can judge is wrong with every
\* answer too.
LEMMA NoFinding ==
  ASSUME Stages, LostAreAsked, Done
  PROVE  RedIsDeserved(Judged(TrueRaw), CardsOf(TrueRaw))
<1> DEFINE full == TrueRaw
           a == Answers(zone, lost)
           b == Answers(zone, <<>>)
<1>1. /\ zone \in Zones /\ raw = RawResults(zone, a) /\ cards = Corrected(zone, raw, DrawnCards(zone, raw))
      /\ LossesFit(zone, lost)
  BY DEF Stages, Done, Seen, CardsOf, LostAreAsked
<1>2. full = RawResults(zone, b) /\ a = Seen
  BY DEF TrueRaw, Seen
<1>3. CardsOf(full) = Corrected(zone, full, DrawnCards(zone, full))
  BY DEF CardsOf
<1> HIDE DEF full
<1>4. SUFFICES ASSUME NEW c \in Judged(full), cards[c].status = "fail"
               PROVE  Wrong(CardsOf(full)[c])
  BY DEF RedIsDeserved, full
<1>5. /\ c \in CardNames \ {"SPF"}
      /\ c \in {"DMARC", "BIMI"} => DirectionKnown /\ InheritanceRead
      /\ c = "DKIM" => DirectionKnown /\ SameSweep(full)
      /\ c = "Nameservers" => SameServers(full) /\ ~(raw.ns.probes = {} /\ IsLost(Seen[<<"SOA", "domain">>]))
  BY DEF Judged, CardNames
<1>6. DirectionKnown => Known(raw)
  BY DEF DirectionKnown, Known
<1>7. InheritanceRead => PolicyRead(raw, a)
  BY <1>2 DEF InheritanceRead, PolicyRead
<1>8. SameSweep(full) =>
        raw.dkim.tested \cup raw.dkim.unanswered = full.dkim.tested \cup full.dkim.unanswered
  BY DEF SameSweep
<1>9. SameServers(full) =>
        \A p \in raw.ns.probes, q \in full.ns.probes : p.host = q.host /\ p.answered => q.answered
  BY DEF SameServers
<1>10. Red(Corrected(zone, raw, DrawnCards(zone, raw))[c])
  BY <1>1, <1>4 DEF Red
<1>11. c = "Nameservers" => ~(raw.ns.probes = {} /\ IsLost(a[<<"SOA", "domain">>]))
  BY <1>2, <1>5
<1> DEFINE z == zone
           r == raw
           gone == lost
<1>12. /\ z \in Zones /\ LossesFit(z, gone) /\ a = Answers(z, gone) /\ b = Answers(z, <<>>)
       /\ r = RawResults(z, a) /\ full = RawResults(z, b)
       /\ Red(Corrected(z, r, DrawnCards(z, r))[c])
  BY <1>1, <1>2, <1>10
<1>13. /\ c \in {"DMARC", "BIMI"} => Known(r) /\ PolicyRead(r, a)
       /\ c = "DKIM" =>
            /\ Known(r)
            /\ r.dkim.tested \cup r.dkim.unanswered = full.dkim.tested \cup full.dkim.unanswered
       /\ c = "Nameservers" =>
            /\ \A p \in r.ns.probes, q \in full.ns.probes : p.host = q.host /\ p.answered => q.answered
            /\ ~(r.ns.probes = {} /\ IsLost(a[<<"SOA", "domain">>]))
  BY <1>5, <1>6, <1>7, <1>8, <1>9, <1>11
<1> HIDE DEF a, b, z, r, gone
<1>14. Wrong(Corrected(z, full, DrawnCards(z, full))[c])
  BY <1>5, <1>12, <1>13, LossIsTold
<1> QED BY <1>3, <1>14 DEF z

\* A lookup that does not complete is no finding: a card that the audit can judge is red
\* only if it would be wrong with every answer in (the _LOOKUP_FAILED sentinels that the
\* checks carry into "unavailable", and the cards that grade by it).
THEOREM LossesAreNoFinding == Spec => []LossIsNoFinding
<1>1. Spec => Init /\ [][Next]_vars
  BY DEF Spec
<1>2. Stages /\ LostAreAsked => LossIsNoFinding
  BY NoFinding DEF LossIsNoFinding
<1> QED BY <1>1, <1>2, StagesInit, StagesStep, LossesInit, LossesStep, PTL
=============================================================================
