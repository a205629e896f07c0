----------------------------- MODULE CertChecks -----------------------------
(***************************************************************************)
(* Certificate Transparency and APRF (src/audit_engine.py) and their cards *)
(* (src/result_transformer.py).                                            *)
(*                                                                         *)
(* A certificate has its names, the day it ends (0 is today, an expired    *)
(* one ends before), whether it has begun, and its issuer.                 *)
(***************************************************************************)
EXTENDS Integers, Grades

CONSTANTS
  CertCap,            \* certificates kept of what the log returns (200)
  ExpiringDays,       \* CT_EXPIRING_DAYS
  SpotterPages,       \* CT_SPOTTER_MAX_PAGES
  AprfSelectorCap     \* APRF_SELECTOR_CAP: selectors whose APRF name is asked

ASSUME CertAssumption ==
  /\ CertCap \in Nat \ {0} /\ ExpiringDays \in Nat
  /\ SpotterPages \in Nat \ {0} /\ AprfSelectorCap \in Nat

-----------------------------------------------------------------------------
(* _from_cert_spotter: pages until one has no next ("none"), one is lost,   *)
(* the time is up, or the last page allowed is read.                        *)
PagesRead(dns) ==
  LET ends == {i \in 1..SpotterPages : ~Got(dns[<<"spotter", i>>])
                 \/ (i > 1 /\ IsLost(dns[<<"time", "spotter">>]))}
      first == CHOOSE i \in ends : \A k \in ends : i <= k
  IN IF ends = {} THEN SpotterPages ELSE first - 1

(* The same, with what was read taken for the whole log. *)
SpotterAsWhole(dns, n) ==
  [ certs   |-> UNION {dns[<<"spotter", i>>].rr : i \in 1..n},
    failed  |-> n = 0 /\ IsLost(dns[<<"spotter", 1>>]),
    partial |-> FALSE ]

SpotterUpTo(dns, n) ==
  [ certs   |-> UNION {dns[<<"spotter", i>>].rr : i \in 1..n},
    failed  |-> n = 0 /\ IsLost(dns[<<"spotter", 1>>]),
    partial |-> n > 0 /\ (n = SpotterPages \/ dns[<<"spotter", n + 1>>].rc # "none") ]
CertSpotter(dns) == SpotterUpTo(dns, PagesRead(dns))

(* The newest of the certificates, by the day they end. *)
Newest(certs) == {c \in certs : Cardinality({d \in certs : d.ends > c.ends}) < CertCap}

(* _ct_renewed: every name of the certificate is on one that ends later.    *)
(* A wildcard covers the host under it, not the other way round.            *)
Covered(name, names) == name \in names \/ (name = "host" /\ "*" \in names)
Renewed(c, certs) ==
  \A name \in c.names : \E d \in certs : d.ends > c.ends /\ d.ends > 0 /\ Covered(name, d.names)

Active(c) == c.ends > 0 /\ c.begun
Expiring(certs) == {c \in certs : Active(c) /\ c.ends <= ExpiringDays /\ ~Renewed(c, certs)}

CtUnavailable(reason) ==
  [ reason |-> reason, total |-> 0, active |-> 0, expiring |-> {}, mismatched |-> {},
    partial |-> FALSE, source |-> "none" ]

(* _raw_check_ct_uncached.  `allowed' are the issuers the CAA records it    *)
(* was handed name.                                                         *)
CtFound(certs, partial, allowed, source) ==
  [ reason |-> "none", total |-> Cardinality(certs),
    active |-> Cardinality({c \in certs : Active(c)}),
    expiring |-> IF partial THEN {} ELSE Expiring(certs),
    mismatched |-> IF allowed = {} THEN {} ELSE {c.issuer : c \in certs} \ allowed,
    partial |-> partial, source |-> source ]
FromSpotter(spotter, allowed) ==
  IF spotter.failed THEN CtUnavailable("no source")
  ELSE CtFound(Newest(spotter.certs), spotter.partial, allowed, "Cert Spotter")
RawCt(dns, allowed) ==
  LET log == dns[<<"fetch", "crt.sh">>]
  IN IF log.rc = "toolarge"      THEN CtUnavailable("response_too_large")
     ELSE IF IsLost(log)         THEN FromSpotter(CertSpotter(dns), allowed)
     ELSE CtFound(Newest(log.rr), FALSE, allowed, "crt.sh")

TransformCt(raw) ==
  LET details == {Issue(IF raw.active > 0 THEN "good" ELSE "warning", "active certificates")}
                 \cup IssueIf(raw.partial, "info", "only part of the log read")
                 \cup IssueIf(raw.mismatched # {}, "warning", "not allowed by caa")
                 \cup IssueIf(raw.expiring # {}, "warning", "expiring")
  IN IF raw.reason # "none"          THEN Unavailable("Not checked")
     ELSE IF raw.total = 0           THEN Card("pass", "No certs", {})
     ELSE IF raw.mismatched # {}     THEN Card("warn", "CAA mismatch", details)
     ELSE IF raw.expiring # {}       THEN Card("warn", "Expiring", details)
     ELSE IF raw.active = 0          THEN Card("warn", "No active certs", details)
     ELSE Card("pass", "certs", details)

-----------------------------------------------------------------------------
(* APRF.  A record under a name is what it parses to: `valid' and the       *)
(* destinations outside the domain it names.                                *)

AprfAt(dns, name) == dns[<<"APRF", name>>]

(* The selectors asked about: those with a live key, when the DKIM check    *)
(* finished.                                                                *)
AprfSelectors(live, incomplete) == IF incomplete THEN {} ELSE live

(* _raw_check_aprf: one failed lookup and nothing is known; a selector that *)
(* answers what the wildcard answers has no record of its own.              *)
RawAprf(dns, live, incomplete) ==
  LET selectors == AprfSelectors(live, incomplete)
      asked == CHOOSE s \in SUBSET selectors :
                 Cardinality(s) = IF Cardinality(selectors) > AprfSelectorCap
                                  THEN AprfSelectorCap ELSE Cardinality(selectors)
      names == {"bare", "wildcard"} \cup asked
      wild  == AprfAt(dns, "wildcard").rr
      own   == {n \in names : AprfAt(dns, n).rr # {}
                              /\ (n \in asked => AprfAt(dns, n).rr # wild)}
      records == UNION {AprfAt(dns, n).rr : n \in own}
      away  == {r \in records : r.valid /\ r.external}
  IN [ lookup_failed |-> \E n \in names : IsLost(AprfAt(dns, n)),
       records |-> records,
       skipped |-> IF incomplete             THEN "dkim_incomplete"
                   ELSE IF selectors = {}    THEN "no_live_selectors"
                   ELSE IF asked # selectors THEN "capped"
                   ELSE "none",
       authorized |-> IF away = {} THEN "own"
                      ELSE IF IsLost(AprfAt(dns, "destination")) THEN "unknown"
                      ELSE IF Got(AprfAt(dns, "destination"))    THEN "yes"
                      ELSE "no" ]

TransformAprf(raw, nonMail) ==
  LET valid == {r \in raw.records : r.valid}
      pill  == IF raw.records = {} /\ nonMail      THEN "Not applicable"
               ELSE IF raw.records = {}            THEN "Not published"
               ELSE IF valid = {}                  THEN "Ignored"
               ELSE "Published"
      gap   == ~(nonMail /\ raw.records = {}) /\ raw.skipped # "none"
  IN IF raw.lookup_failed THEN Unavailable("Not checked")
     ELSE Card("absent", pill, IssueIf(gap, "info", raw.skipped)
                               \cup IssueIf(valid # {} /\ raw.authorized # "own", "info", raw.authorized))
=============================================================================
