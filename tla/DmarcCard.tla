------------------------------ MODULE DmarcCard ------------------------------
(***************************************************************************)
(* The DMARC card of src/result_transformer.py: its status, the risks it   *)
(* names, the readiness it grades, and the records it advises publishing.  *)
(***************************************************************************)
EXTENDS DmarcCheck

-----------------------------------------------------------------------------
(* transform_dmarc *)

(* A domain that sends no mail is not asked for reports, and reports going  *)
(* to a destination that did not agree are a warning on the card.           *)
CardIssues(raw, noMail, delivery) ==
  {IF i.about = "destination not authorized"      THEN [i EXCEPT !.sev = "warning"]
   ELSE IF i.about = "p=none" /\ delivery         THEN [i EXCEPT !.sev = "info"]
   ELSE i : i \in {x \in raw.issues : ~(noMail /\ x.about = "no rua")}}

(* The inherited policy, as the parent's record weakens it. *)
InheritedStatus(raw, noMail, delivery) ==
  IF raw.inherited \in Enforcing THEN
       IF raw.parent.t = "y" \/ Pct(raw.parent) < 100 THEN "warn" ELSE "pass"
  ELSE IF raw.inherited = "none" THEN
       IF delivery /\ (RuaValid(raw.parent) \/ noMail) THEN "pass" ELSE "warn"
  ELSE "fail"

(* The ladder of a record's own policy ... *)
PolicyStatus(r, noMail, delivery) ==
  IF Policy(r) \in Enforcing THEN
       IF Pct(r) < 100 \/ (~Has(r.rua) /\ ~noMail) THEN "warn" ELSE "pass"
  ELSE IF Policy(r) = "none" THEN
       IF delivery /\ (noMail \/ (Has(r.rua) /\ ~Unusable(r))) THEN "pass" ELSE "warn"
  ELSE "fail"

(* ... and what takes a green one down again. *)
Weakened(raw, noMail) ==
  LET r == raw.record
  IN \/ raw.syntax # {} \/ Unusable(r)
     \/ \E i \in raw.issues : i.about = "destination not authorized"
     \/ r.t = "y" /\ Policy(r) \in Enforcing
     \/ Policy(r) \in Policies
        /\ \E t \in {"sp", "np"} : r[t] \in Policies /\ Rank[r[t]] < Rank[Policy(r)]

OwnStatus(raw, noMail, delivery) ==
  LET base   == PolicyStatus(raw.record, noMail, delivery)
      issues == CardIssues(raw, noMail, delivery) \cup raw.syntax
  IN IF base = "fail" \/ Severe(issues, "error") THEN "fail"
     ELSE IF Weakened(raw, noMail) \/ Recovered(raw.record) THEN "warn"
     ELSE base

InheritedDetails(raw, delivery) ==
  {Issue(IF raw.inherited \in Enforcing THEN "good"
         ELSE IF raw.inherited = "none" THEN IF delivery THEN "info" ELSE "warning"
         ELSE "info", "inherited")}

OwnDetails(raw, noMail, delivery) ==
  LET r == raw.record
      dropped == \E d \in raw.destinations : d.tag = "rua" /\ d.authorized = "no"
  IN Details({i \in CardIssues(raw, noMail, delivery) : ~(Policy(r) \in Enforcing /\ i.about = "no rua")})
     \cup IssueIf(Policy(r) \in Enforcing /\ ~Recovered(r), "good", "enforced")
     \cup IssueIf(Has(r.rua) /\ ~dropped, IF raw.authUnknown THEN "info" ELSE "good", "rua")
     \cup IssueIf(r.sp = "none" /\ Policy(r) \in Enforcing, "warning", "sp contradicts p")
     \cup IssueIf(Pct(r) \in 0..99, "warning", "pct")

(* A name below a public suffix does not inherit the registry's policy: the *)
(* organizational domain's record, if the walk saw one, applies instead.    *)
AboveRegistry(raw, atOrg) ==
  LET usable == {r \in atOrg : TagValue(r, IF Has(r.sp) THEN "sp" ELSE "p") \in Policies}
      r == CHOOSE x \in usable : TRUE
  IN IF raw.registry /\ raw.isSubdomain /\ usable # {}
     THEN [raw EXCEPT !.inherited = TagValue(r, IF Has(r.sp) THEN "sp" ELSE "p"), !.parent = r]
     ELSE IF raw.registry THEN [raw EXCEPT !.inherited = "no", !.isSubdomain = FALSE]
     ELSE raw

Inherits(raw) == ~raw.found /\ raw.isSubdomain /\ raw.inherited # "no"

CardOfRecord(given, raw, noMail, delivery) ==
  IF given.multiple THEN Card("fail", "Multiple records", Details(given.issues))
  ELSE IF ~raw.found /\ raw.lost THEN Unavailable("Not checked")
  ELSE IF Inherits(raw) THEN Card(InheritedStatus(raw, noMail, delivery), "Inherited",
                                  InheritedDetails(raw, delivery))
  ELSE IF ~raw.found THEN Card("fail", "Missing", Details(CardIssues(raw, noMail, delivery)))
  ELSE Card(OwnStatus(raw, noMail, delivery),
            IF Recovered(raw.record) THEN "Recovery" ELSE "own",
            OwnDetails(raw, noMail, delivery))

(* A record with a malformed version tag is red, but what the parents say   *)
(* still applies and stays on the card.                                     *)
TransformDmarc(given, atOrg, noMail, delivery) ==
  LET raw == AboveRegistry(given, atOrg)
  IN IF given.status = "unavailable" THEN Unavailable("Not checked")
     ELSE IF given.malformed /\ given.isSubdomain /\ given.inherited # "no" THEN
          [CardOfRecord(given, raw, noMail, delivery) EXCEPT !.status = "fail", !.label = "Malformed"]
     ELSE IF given.malformed THEN Card("fail", "Malformed", Details(given.issues))
     ELSE CardOfRecord(given, raw, noMail, delivery)

(* effective_policy, and the record the card's advice is made from: its own *)
(* or the parent's.                                                         *)
EffectivePolicy(given, atOrg) ==
  LET raw == AboveRegistry(given, atOrg)
  IN IF given.multiple \/ given.status = "unavailable" THEN "absent"
     ELSE IF raw.found     THEN Policy(raw.record)
     ELSE IF Inherits(raw) THEN raw.inherited
     ELSE "absent"

RecordInForce(given, atOrg) ==
  LET raw == AboveRegistry(given, atOrg)
  IN IF given.multiple \/ given.status = "unavailable" THEN {}
     ELSE IF raw.found     THEN {raw.record}
     ELSE IF Inherits(raw) THEN {raw.parent}
     ELSE {}

-----------------------------------------------------------------------------
(* _build_attack_surface: the routes a forged message can take. *)

(* pct=0 applies the policy one step down. *)
AtPct(r, policy) ==
  IF Pct(r) > 0 THEN policy
  ELSE IF policy = "reject" THEN "quarantine" ELSE IF policy = "quarantine" THEN "none" ELSE policy

Exposure(policy) ==
  CASE policy = "reject" -> "protected" [] policy = "quarantine" -> "partial" [] OTHER -> "exposed"

FallBack(tags, r) ==
  IF "np" \in tags /\ Has(r.np) THEN r.np ELSE IF Has(r.sp) THEN r.sp ELSE r.p

DirectRoute(r, direct) ==
  LET policy == IF direct # "absent" THEN direct ELSE r.p
  IN IF policy = "reject" THEN IF Pct(r) >= 100 THEN "protected" ELSE "partial"
     ELSE IF policy = "quarantine" /\ Pct(r) > 0 THEN "partial"
     ELSE "exposed"

ReportRoute(r, raw, noMail) ==
  IF ~Has(r.rua) THEN IF noMail THEN "protected" ELSE "partial"
  ELSE IF raw.authUnknown THEN "partial"
  ELSE IF \E d \in raw.destinations : d.authorized = "no" THEN "exposed"
  ELSE "protected"

Routes(r, raw, noMail, direct) ==
  [ direct      |-> DirectRoute(r, direct),
    subdomain   |-> Exposure(AtPct(r, FallBack({"sp"}, r))),
    nonexistent |-> Exposure(AtPct(r, FallBack({"sp", "np"}, r))),
    reports     |-> ReportRoute(r, raw, noMail) ]

Risk(routes, usable) ==
  LET exposed == {x \in DOMAIN routes : routes[x] = "exposed"}
  IN IF exposed # {} /\ usable             THEN "moderate"
     ELSE IF Cardinality(exposed) >= 2     THEN "critical"
     ELSE IF Cardinality(exposed) = 1      THEN "high"
     ELSE IF \E x \in DOMAIN routes : routes[x] = "partial" THEN "moderate"
     ELSE "low"

-----------------------------------------------------------------------------
(* _detect_dangerous_combinations *)

Retired(r) == Has(r.pct) \/ r.odd \cap RetiredOdd # {}
Weaker(r, tag) == r.p \in Enforcing /\ r[tag] \in Policies /\ Rank[r[tag]] < Rank[r.p]

CriticalWarnings(r) ==
       {w \in {"Subdomain policy gap"} : Weaker(r, "sp") /\ r.sp = "none"}
  \cup {w \in {"Non-existent subdomain gap"} : Weaker(r, "np") /\ r.np = "none"}
  \cup {w \in {"Double policy gap"} : ~Has(r.np) /\ r.sp = "none" /\ r.p \in Enforcing}
  \cup {w \in {"Public Suffix declaration"} : r.psd = "y"}
  \cup {w \in {"Contradictory np vs p policy"} : r.np = "reject" /\ r.p = "none"}
  \cup {w \in {"Contradictory sp vs p policy"} : r.sp = "reject" /\ r.p = "none"}

AdvisoryWarnings(r, noMail) ==
       {w \in {"Missing p= tag"} : ~Has(r.p) /\ Has(r.rua)}
  \cup {w \in {"No aggregate reporting"} : ~Has(r.rua) /\ ~noMail}
  \cup {w \in {"Weaker subdomain policy"} : Weaker(r, "sp") /\ r.sp # "none"}
  \cup {w \in {"Weaker non-existent subdomain policy"} : Weaker(r, "np") /\ r.np # "none"}
  \cup {w \in {"Test mode weakens reject"} : r.t = "y" /\ r.p = "reject"}
  \cup {w \in {"Test mode weakens np=reject"} : r.t = "y" /\ r.np = "reject"}
  \cup {w \in {"Test mode on p=none"} : r.t = "y" /\ r.p = "none"}
  \cup {w \in {"Removed tags present"} : Retired(r)}
  \cup {w \in {"Implicit subdomain policy"} : ~Has(r.sp) /\ r.p = "reject"}
  \cup {w \in {"No explicit np= policy"} : ~Has(r.np) /\ r.p \in Enforcing}
  \cup {w \in {"Monitoring mode"} : r.p = "none" /\ Has(r.rua)}

(* _calculate_dmarcbis_health *)
LowersEnforcement ==
  {"Test mode weakens reject", "Test mode weakens np=reject", "Weaker subdomain policy",
   "Weaker non-existent subdomain policy"}

Health(r, noMail) ==
  IF CriticalWarnings(r) # {}              THEN "misconfigured"
  ELSE IF r.p = "none"                     THEN IF Has(r.rua) THEN "monitoring" ELSE "attention"
  ELSE IF r.p \in Enforcing /\ AdvisoryWarnings(r, noMail) \cap LowersEnforcement # {} THEN "attention"
  ELSE IF r.p \in Enforcing /\ ~Retired(r) /\ r.t # "y" /\ Has(r.rua) THEN "ready"
  ELSE "compatible"

(* The card does not call a record misconfigured that it does not fail. *)
CardHealth(r, noMail, status) ==
  IF Health(r, noMail) = "misconfigured" /\ status # "fail" THEN "attention" ELSE Health(r, noMail)

-----------------------------------------------------------------------------
(* The records the card advises. *)

WithoutRetired(r) == [r EXCEPT !.pct = "absent", !.odd = @ \ RetiredOdd]
Reporting(r, noMail) == IF Has(r.rua) \/ noMail THEN r ELSE [r EXCEPT !.rua = "mail"]

(* _dmarc_end_state *)
EndState(r, noMail) ==
  LET fo == IF ~Has(r.ruf) THEN "absent" ELSE "one"
      np == IF r.np \in {"absent", "none"} THEN "reject" ELSE r.np
      t  == IF r.t = "y" THEN "absent" ELSE r.t
  IN [WithoutRetired(Reporting(r, noMail)) EXCEPT
        !.p = "reject", !.sp = "reject", !.np = np, !.fo = fo, !.t = t]

(* _build_migration_path: each step edits the record the step before left.  *)
Latest(records) == records[Len(records)]
Step(records, applies, next) == IF applies THEN Append(records, next) ELSE records

TestThenEnforce(records, applies, policy) ==
  LET testing == Step(records, applies, [Latest(records) EXCEPT !.p = policy, !.t = "y"])
  IN Step(testing, applies, [Latest(testing) EXCEPT !.t = "absent"])

SubdomainSteps(records, r) ==
  LET fixed == Step(records, r.sp \in {"none", "quarantine"}, [Latest(records) EXCEPT !.sp = "reject"])
      told  == Step(fixed, Has(r.ruf) /\ r.fo \in {"absent", "zero"}, [Latest(fixed) EXCEPT !.fo = "one"])
  IN Step(told, ~Has(r.sp) \/ ~Has(r.np),
          [Latest(told) EXCEPT !.sp = IF Has(r.sp) THEN @ ELSE "reject",
                               !.np = IF Has(r.np) THEN @ ELSE "reject"])

MigrationPath(r, noMail) ==
  LET cleaned    == Step(<<r>>, Retired(r), WithoutRetired(r))
      reporting  == Step(cleaned, ~Has(r.rua) /\ ~noMail,
                         [Latest(cleaned) EXCEPT !.p = IF Has(@) THEN @ ELSE "none", !.rua = "mail"])
      quarantine == TestThenEnforce(reporting, r.p = "none", "quarantine")
      reject     == TestThenEnforce(quarantine, r.p \in {"none", "quarantine"}, "reject")
  IN IF Health(r, noMail) = "ready" THEN <<r>> ELSE SubdomainSteps(reject, r)

(* src/staged_path.py: the next p= to publish over the record the card      *)
(* shows, if any.                                                           *)
StagedPolicy(card, raw, shown, delivery) ==
  LET r == CHOOSE x \in shown : TRUE
  IN IF card.status = "unavailable" \/ Inherits(raw) \/ raw.registry THEN "none of its own"
     ELSE IF shown = {} THEN IF card.label = "Missing" THEN "report" ELSE "none of its own"
     ELSE IF r.p = "none" /\ ~RuaValid(r) THEN "report"
     ELSE IF delivery THEN "none of its own"
     ELSE IF r.p = "none" THEN "quarantine"
     ELSE IF r.p = "quarantine" /\ r.pct \in {"absent", "full"} THEN "reject"
     ELSE "none of its own"
=============================================================================
