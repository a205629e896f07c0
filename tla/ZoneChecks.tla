----------------------------- MODULE ZoneChecks -----------------------------
(***************************************************************************)
(* The checks of the zone itself and of its mail hosts: CAA, Nameservers,  *)
(* DNSSEC, MX and DANE.  For each: the raw check over the answers it hears *)
(* and the card made of it.                                                *)
(*                                                                         *)
(* `dns' is a function from questions to answers; a question is a pair of  *)
(* a type and a name (or which of several attempts it is).                 *)
(***************************************************************************)
EXTENDS Grades, Sequences

-----------------------------------------------------------------------------
(* CAA *)
(* Names are numbered by the labels they have below the organizational     *)
(* domain: the audited name is `depth', the organizational domain is 0.    *)
(* _caa_tree climbs one label at a time.                                   *)
CaaTree(depth) == [i \in 1..(depth + 1) |-> <<"CAA", depth + 1 - i>>]

(* The walk: the first answer ends it; "no such name" ends it at the       *)
(* audited name only; a lookup that fails is remembered and passed over.   *)
CaaStops(a, i) == Got(a) \/ (a.rc = "nx" /\ i = 1)
CaaEnd(dns, tree) ==
  LET ends == {i \in DOMAIN tree : CaaStops(dns[tree[i]], i)}
  IN IF ends = {} THEN Len(tree) ELSE CHOOSE i \in ends : \A k \in ends : i <= k
CaaUpTo(dns, tree, final) ==
  [ found     |-> Got(dns[tree[final]]),
    source    |-> final,
    records   |-> dns[tree[final]].rr,
    noDomain  |-> final = 1 /\ dns[tree[1]].rc = "nx",
    anyFailed |-> \E i \in 1..final : IsLost(dns[tree[i]]) ]
CaaWalk(dns, tree) == CaaUpTo(dns, tree, CaaEnd(dns, tree))

Tagged(records, tag) == {r \in records : r.tag = tag}
Names(records, tag) == \E r \in Tagged(records, tag) : r.value = "ca"

CaaRecordIssues(rs) ==
  LET issue == Tagged(rs, "issue") # {}
      wild  == Tagged(rs, "issuewild") # {}
  IN      IssueIf(\E r \in rs : r.critical /\ r.tag = "other", "warning", "unknown critical tag")
     \cup IssueIf(issue /\ ~Names(rs, "issue"), "info", "issuance blocked")
     \cup IssueIf(~issue, "warning", "no issuer named")
     \cup IssueIf(issue /\ ~wild, "info", "no issuewild")
     \cup IssueIf(issue /\ Tagged(rs, "iodef") = {}, "info", "no iodef")

CaaIssues(walk) ==
       IssueIf(walk.noDomain, "error", "no such domain")
  \cup (IF walk.found THEN CaaRecordIssues(walk.records) ELSE {})
  \cup IssueIf(walk.found /\ walk.source # 1, "info", "inherited")
  \cup IssueIf(walk.records = {}, "warning", "no caa records")
CaaFound(walk, issues) ==
  [ lookup_failed |-> ~walk.found /\ walk.anyFailed,
    records |-> walk.records, has_issue |-> Tagged(walk.records, "issue") # {},
    inherited |-> walk.found /\ walk.source # 1, issues |-> issues, status |-> RawStatus(issues) ]
RawCaaOf(walk) == CaaFound(walk, CaaIssues(walk))
RawCaa(dns, depth) == RawCaaOf(CaaWalk(dns, CaaTree(depth)))

TransformCaa(raw) ==
  LET named == Names(raw.records, "issue")
      wild  == Tagged(raw.records, "issuewild") # {}
      verdict == IF named THEN "restricted to named CAs"
                 ELSE IF ~raw.has_issue /\ wild THEN "only wildcards restricted"
                 ELSE IF ~raw.has_issue THEN "any CA may issue"
                 ELSE "issuance restricted"
      status == IF Severe(raw.issues, "error") THEN "fail"
                ELSE IF raw.has_issue THEN "pass"
                ELSE MapStatus(raw.status)
  IN IF raw.lookup_failed        THEN Unavailable("Not checked")
     ELSE IF raw.records = {}    THEN Card("absent", "Not configured", Details(raw.issues))
     ELSE Card(status, verdict, Details(raw.issues))

-----------------------------------------------------------------------------
(* Nameservers *)
(* A host of the delegation: its addresses (the network each is in, or     *)
(* "private"), what it answers itself about the zone, and who runs it.     *)
NsProbe(dns, host) ==
  LET v4 == dns[<<"A", host>>]
      v6 == dns[<<"AAAA", host>>]
      soa == dns[<<"authority", host>>]
      resolves == v4.rr \cup v6.rr # {}
      asked == resolves /\ ~(IF v4.rr # {} THEN "private" \in v4.rr ELSE "private" \in v6.rr)
               /\ ~IsLost(soa)
  IN [ host |-> host, resolves |-> resolves, v4 |-> v4.rr, v6 |-> v6.rr,
       lookup_failed |-> ~resolves /\ (IsLost(v4) \/ IsLost(v6)),
       answered |-> asked,
       authoritative |-> asked /\ \E r \in soa.rr : r.aa,
       serial |-> IF asked /\ soa.rr # {} THEN (CHOOSE r \in soa.rr : TRUE).serial ELSE 0 ]

(* Serials differ only where one operator's servers disagree (_ns_group). *)
SerialMismatch(probes, group) ==
  \E p, q \in {x \in probes : x.serial # 0} :
     group[p.host] = group[q.host] /\ p.serial # q.serial

Networks(probes) == UNION {p.v4 : p \in probes}

NsIssues(probes, group, providers) ==
  LET detected == {group[p.host] : p \in probes} \cap providers
      resolving == {p \in probes : p.resolves}
  IN      IssueIf(\E p \in probes : p.answered /\ ~p.authoritative, "error", "not authoritative")
     \cup IssueIf(SerialMismatch(probes, group), "warning", "serials differ")
     \cup IssueIf(\A p, q \in probes : p = q, "error", "only one nameserver")
     \cup IssueIf(\E p \in probes : ~p.resolves /\ ~p.lookup_failed, "error", "lame delegation")
     \cup IssueIf(Cardinality(Networks(probes)) = 1 /\ Cardinality(resolving) >= 2,
                  "warning", "one network")
     \cup IssueIf(Cardinality(detected) = 1 /\ Cardinality(probes) >= 2, "info", "one provider")
     \cup IssueIf(\A p \in probes : p.v6 = {}, "info", "no ipv6")

(* No NS records: whether the name is a zone apex decides, and the SOA      *)
(* lookup that tells may itself fail ("unknown").                           *)
ZoneApex(soa) ==
  IF Got(soa)         THEN IF "owner" \in soa.rr THEN "yes" ELSE "no"
  ELSE IF IsLost(soa) THEN "unknown"
  ELSE "no"

NsEmpty(apex, failed, issues) ==
  [ lookup_failed |-> failed, zone_apex |-> apex, probes |-> {}, issues |-> issues,
    status |-> RawStatus(issues) ]

RawNameservers(dns, group, providers) ==
  LET ns     == dns[<<"NS", "domain">>]
      apex   == ZoneApex(dns[<<"SOA", "domain">>])
      probes == {NsProbe(dns, h) : h \in ns.rr}
      issues == NsIssues(probes, group, providers)
  IN IF ns.rc = "none"      THEN
          NsEmpty(apex, FALSE, IssueIf(apex # "no", "error", "no ns records"))
     ELSE IF ns.rc = "nx"   THEN NsEmpty("unknown", FALSE, {Issue("error", "no such domain")})
     ELSE IF IsLost(ns)     THEN NsEmpty("unknown", TRUE, {Issue("error", "ns lookup failed")})
     ELSE [ lookup_failed |-> FALSE, zone_apex |-> "unknown",
            probes |-> probes, issues |-> issues,
            status |-> RawStatus(issues) ]

(* _is_subdomain: what the SOA said, else what the name looks like. *)
IsSubdomain(apex, belowOrg) == IF apex = "unknown" THEN belowOrg ELSE apex = "no"

TransformNameservers(raw, belowOrg) ==
  IF raw.lookup_failed THEN Unavailable("Not checked")
  ELSE IF raw.probes = {} /\ IsSubdomain(raw.zone_apex, belowOrg) THEN
       Card("pass", "Inherited", {Issue("info", "not a zone apex")})
  ELSE IF raw.probes = {} THEN Card("fail", "Missing", Details(raw.issues))
  ELSE
         Card(MapStatus(raw.status), "nameservers",
              Details(raw.issues)
              \cup IssueIf(\E p \in raw.probes : p.lookup_failed, "info", "host not checked"))

-----------------------------------------------------------------------------
(* DNSSEC *)

(* _probe_dnssec_bogus: bogus when a strict validating resolver refuses     *)
(* what an unvalidating one answers.  The first answer is for A, or for SOA *)
(* when the name has no A; anything that does not answer settles nothing.   *)
ProbeBogus(dns) ==
  LET first == dns[<<"validating", "A">>]
      qtype == IF first.rc = "nx" THEN "SOA" ELSE "A"
      refused == dns[<<"validating", qtype>>].rc = "servfail"
  IN refused /\ Got(dns[<<"unvalidating", qtype>>])

(* The DNSKEY lookup: a timeout is retried once with more patience, and     *)
(* then nothing but keys is taken for an answer.                            *)
DnskeyHeard(dns) ==
  LET first == dns[<<"DNSKEY", "first">>]
      retry == dns[<<"DNSKEY", "retry">>]
  IN IF first.rc # "timeout"      THEN first
     ELSE IF Got(retry)           THEN retry
     ELSE Lost("timeout")

(* The DS record is asked of two resolvers and then of the parent's own     *)
(* servers; any of them suffices, and no failure among them is remembered.  *)
DsFound(dns) == \E way \in {"first", "second", "parent"} : Got(dns[<<"DS", way>>])

(* The chain is verified on a second pair of answers; without both nothing  *)
(* is said.                                                                 *)
ChainValid(dns) ==
  LET ds  == IF Got(dns[<<"DS", "again1">>]) THEN dns[<<"DS", "again1">>]
                                             ELSE dns[<<"DS", "again2">>]
      key == dns[<<"DNSKEY", "again">>]
  IN IF ~(Got(ds) /\ Got(key)) THEN "unknown"
     ELSE IF \E d \in ds.rr, k \in key.rr : d.tag = k.tag THEN "yes"
     ELSE "no"

DnskeyIssues(heard) ==
       IssueIf(\E k \in heard.rr : k.alg = "deprecated", "error", "algorithm deprecated")
  \cup IssueIf(\E k \in heard.rr : k.alg = "legacy", "warning", "algorithm legacy")
  \cup IssueIf(heard.rc = "nx", "error", "no such domain")
  \cup IssueIf(IsLost(heard), "warning", "dnskey lookup failed")

(* dnssec_state, in the order the code settles it. *)
DnssecState(bogus, signed, ds) ==
  IF bogus        THEN "bogus"
  ELSE IF ~signed THEN "insecure"
  ELSE IF ds      THEN "secure"
  ELSE "signed_unanchored"

RawDnssec(dns) ==
  LET heard  == DnskeyHeard(dns)
      signed == Got(heard)
      ad     == signed /\ heard.ad
      bogus  == ~signed /\ ProbeBogus(dns)
      ds     == DsFound(dns)
      chain  == IF ds /\ signed THEN ChainValid(dns) ELSE "unknown"
      issues == DnskeyIssues(heard)
           \cup IssueIf(bogus, "error", "bogus")
           \cup IssueIf(signed /\ ~ds, IF ad THEN "info" ELSE "warning", "no ds")
           \cup IssueIf(chain = "no", "error", "ds mismatch")
  IN [ has_dnssec |-> signed, lookup_failed |-> IsLost(heard), validated |-> ad,
       deprecated |-> \E k \in heard.rr : k.alg = "deprecated", has_ds |-> ds,
       chain_valid |-> chain, state |-> DnssecState(bogus, signed, ds),
       issues |-> issues, status |-> RawStatus(issues) ]

DnssecStatus(raw) ==
  IF raw.deprecated                         THEN "fail"
  ELSE IF raw.chain_valid = "no"            THEN "fail"
  ELSE IF raw.state = "signed_unanchored"   THEN "warn"
  ELSE IF ~raw.has_ds /\ ~raw.validated     THEN "warn"
  ELSE MapStatus(raw.status)

(* transform_dnssec: a lookup that failed is asked about first, then bogus. *)
TransformDnssec(raw) ==
  IF raw.lookup_failed         THEN Unavailable("Not confirmed")
  ELSE IF raw.state = "bogus"  THEN Card("fail", "Bogus", Details(raw.issues))
  ELSE IF ~raw.has_dnssec      THEN Card("absent", "Not configured", Details(raw.issues))
  ELSE Card(DnssecStatus(raw),
            IF raw.state = "signed_unanchored" THEN "Signed but unanchored" ELSE "signed",
            Details(raw.issues))

-----------------------------------------------------------------------------
(* MX *)

(* A record of the MX set: its preference, its host ("." for the null MX,   *)
(* an address literal is a host with `ip'), the provider the host's name    *)
(* shows, and whether the host lies under the audited domain.               *)
MxNull(r) == r.host = "."

(* resolved: TRUE, FALSE, or unknown when a lookup did not complete. *)
MxResolved(dns, r) ==
  LET a == dns[<<"A", r.host>>]
      b == dns[<<"AAAA", r.host>>]
  IN IF r.ip                         THEN "no"
     ELSE IF a.rr \cup b.rr # {}     THEN "yes"
     ELSE IF IsLost(a) \/ IsLost(b)  THEN "unknown"
     ELSE "no"

MxHostIssues(dns, real) ==
       IssueIf(\E r \in real : r.ip, "error", "mx is an address")
  \cup IssueIf(\E r \in real : ~r.ip /\ MxResolved(dns, r) = "unknown", "info", "host not checked")
  \cup IssueIf(\E r \in real : ~r.ip /\ MxResolved(dns, r) = "no", "error", "dangling mx")
  \cup IssueIf(\E r \in real : Cardinality(real) = 1 /\ r.provider = "none",
               "warning", "single mx")

MxEmpty(status, issues) ==
  [ status |-> status, records |-> {}, null_mx |-> FALSE, misconfigured |-> FALSE,
    details |-> {}, issues |-> issues ]

CheckMx(dns) ==
  LET mx   == dns[<<"MX", "domain">>]
      nulls == {r \in mx.rr : MxNull(r)}
      real == mx.rr \ nulls
      isNull == Cardinality(mx.rr) = 1 /\ \E r \in nulls : r.pref = 0
      issues == IssueIf(nulls # {}, "error",
                        IF real # {} THEN "null mx beside others" ELSE "null mx preference")
                \cup MxHostIssues(dns, real)
  IN IF IsLost(mx)         THEN MxEmpty("unavailable", {Issue("info", "mx lookup failed")})
     ELSE IF mx.rc = "nx"  THEN MxEmpty("error", {Issue("error", "no such domain")})
     ELSE IF mx.rr = {}    THEN MxEmpty("warning", {Issue("warning", "no mx records")})
     ELSE IF isNull        THEN [ status |-> "info", records |-> mx.rr, null_mx |-> TRUE,
                                  misconfigured |-> FALSE, details |-> {},
                                  issues |-> {Issue("info", "null mx")} ]
     ELSE [ status |-> RawStatus(issues), records |-> mx.rr,
            null_mx |-> FALSE, misconfigured |-> nulls # {},
            details |-> {[host |-> r.host, provider |-> r.provider,
                          resolved |-> MxResolved(dns, r)] : r \in real},
            issues |-> issues ]

(* transform_mx; a host line is green when the host resolves and says       *)
(* "does not resolve (dangling MX)" otherwise.                              *)
TransformMx(raw) ==
  LET hosts == {Issue(IF d.resolved = "yes" THEN "good" ELSE "error",
                      IF d.resolved = "yes" THEN "resolves" ELSE "dangling mx") : d \in raw.details}
      label == IF raw.misconfigured THEN "null mx misconfigured"
               ELSE IF \E d \in raw.details : d.provider # "none" THEN "provider"
               ELSE "hosts"
  IN IF raw.status = "unavailable" THEN Unavailable("Not checked")
     ELSE IF raw.null_mx      THEN Card("pass", "Null MX", Details(raw.issues))
     ELSE IF raw.records = {} THEN Card("warn", "None", Details(raw.issues))
     ELSE Card(MapStatus(raw.status), label,
               hosts \cup Details(raw.issues))

-----------------------------------------------------------------------------
(* DANE: keyed on the MX hosts that resolve, or on the hosts of the records *)
(* when none did.                                                           *)
DaneHosts(mx) ==
  LET resolved == {d.host : d \in {x \in mx.details : x.resolved = "yes"}}
  IN IF resolved # {} THEN resolved ELSE {r.host : r \in mx.records} \ {"."}

TlsaAt(dns, host) ==
  LET a == dns[<<"TLSA", host>>]
  IN [ host |-> host, found |-> a.rr # {}, error |-> IsLost(a), records |-> a.rr,
       validated |-> Got(a) /\ a.ad ]

DaneIssues(hosts) ==
  LET found   == {h \in hosts : h.found}
      records == UNION {h.records : h \in hosts}
  IN      IssueIf(\E r \in records : r.usage = "pkix", "warning", "pkix usage")
     \cup IssueIf(\E r \in records : r.matching = "exact", "warning", "exact match")
     \cup IssueIf(\E h \in found : ~h.validated, "warning", "tlsa not validated")
     \cup IssueIf(found # {} /\ found # hosts, "warning", "tlsa missing on some hosts")

RawDane(dns, mx, dnssec) ==
  LET hosts  == {TlsaAt(dns, h) : h \in DaneHosts(mx)}
      issues == DaneIssues(hosts)
      ok     == IF dnssec.lookup_failed THEN "unknown"
                ELSE IF dnssec.has_dnssec /\ dnssec.has_ds /\ dnssec.chain_valid # "no" THEN "yes"
                ELSE "no"
  IN [ mx_unavailable |-> mx.status = "unavailable", hosts |-> hosts,
       providers |-> {d.provider : d \in mx.details}, dnssec_ok |-> ok,
       state |-> dnssec.state, issues |-> issues, status |-> RawStatus(issues) ]

(* The card of hosts with TLSA: red never, amber as soon as one host is not *)
(* validated, misses its records, or carries a warning.                     *)
DaneProtectedCard(raw) ==
  LET found   == {h \in raw.hosts : h.found}
      unvalidated == {h \in found : ~h.validated}
      missing == {h \in raw.hosts : ~h.found /\ ~h.error}
      zone    == IF raw.dnssec_ok = "no" THEN {Issue("info", "mx records can be forged")} ELSE {}
  IN IF unvalidated = found      THEN Card("warn", "not validated", Details(raw.issues) \cup zone)
     ELSE IF unvalidated # {}    THEN Card("warn", "partly validated", Details(raw.issues) \cup zone)
     ELSE Card(IF Severe(raw.issues, "warning") \/ found # raw.hosts THEN "warn" ELSE "pass",
               "protected",
               Details(raw.issues) \cup zone
                 \cup IssueIf(missing # {}, "warning", "missing on hosts"))

DaneAbsentCard(raw) ==
  Card("absent", "Not configured",
       Details(raw.issues) \cup {Issue("warning", "no tlsa records")}
       \cup IssueIf(raw.dnssec_ok = "no", "info", "dnssec prerequisite")
       \cup IssueIf(raw.dnssec_ok = "unknown", "info", "dnssec not confirmed"))

TransformDane(raw) ==
  IF raw.mx_unavailable THEN Unavailable("Not checked")
  ELSE IF raw.hosts = {} THEN Card("absent", "Not applicable", {})
  ELSE IF \E h \in raw.hosts : h.found THEN DaneProtectedCard(raw)
  ELSE IF raw.providers = {"Google Workspace"} THEN Card("absent", "Not applicable", {})
  ELSE IF raw.providers = {"Microsoft 365"} THEN Card("absent", "Available, not enabled", {})
  ELSE IF \A h \in raw.hosts : h.error      THEN Unavailable("Not checked")
  ELSE DaneAbsentCard(raw)
=============================================================================
