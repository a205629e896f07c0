------------------------------ MODULE DkimCheck ------------------------------
(***************************************************************************)
(* DKIM: the sweep of selectors of src/spf_intelligence.py, the lookup of  *)
(* one selector a user names, the reading of a key record in               *)
(* src/dkim_formatter.py, and the card.                                    *)
(*                                                                         *)
(* A TXT record under a selector is of kind "key" when it has a p= tag;    *)
(* `key' is what the tag holds, `flaws' what else is wrong with the record *)
(* and `vendor' whose it is.  A selector whose CNAME leads nowhere answers *)
(* "dangling".                                                             *)
(***************************************************************************)
EXTENDS Grades

CONSTANT
  DkimDropThreshold  \* DKIM_DROP_THRESHOLD: unanswered probes that end the sweep

ASSUME DkimAssumption == DkimDropThreshold \in Nat \ {0}

-----------------------------------------------------------------------------
(* analyze_dkim_key_strength, dkim_record_problems *)

Strength(r) ==
  CASE r.key \in {"revoked", "no key", "undecodable"} -> "invalid"
    [] r.key \in {"tiny", "short"}                    -> "weak"
    [] OTHER                                          -> "strong"

(* Flaws for which a receiver ignores the record. *)
UnusableFlaws == {"duplicate tag", "version", "key type", "not for email", "sha1"}
IsUnusable(r) == r.flaws \cap UnusableFlaws # {}

Revoked(found) == {s \in found : s.record.key = "revoked"}
Live(found)    == found \ Revoked(found)

-----------------------------------------------------------------------------
(* smart_dkim_check *)

(* A selector whose name ends in a CNAME to nothing: two of Microsoft's are *)
(* a tenant not yet enabled; of the others, whether the target's domain     *)
(* still has an owner is asked (_classify_dangling).                        *)
DanglingStatus(dns) ==
  LET ns == dns[<<"NS", "target">>]
  IN IF Got(ns) THEN "stale" ELSE IF ns.rc = "nx" THEN "unregistered" ELSE "unknown"

Dangling(dns, sels, found) ==
  LET at(vendor) == {s \in sels : \E r \in dns[<<"DKIM", s>>].rr : r.vendor = vendor}
      liveMicrosoft == \E s \in found : s.record.vendor = "microsoft"
  IN (IF Cardinality(at("microsoft")) >= 2 /\ ~liveMicrosoft THEN {"microsoft_unfilled"} ELSE {})
     \cup (IF at("microsoft") # sels THEN {DanglingStatus(dns)} ELSE {})

DanglingIssues(dangling) ==
  {Issue(IF d = "unregistered" THEN "error" ELSE "info", "dangling selector") : d \in dangling}

(* One probe: the key it finds, if any.                                     *)
KeysAt(dns, s) ==
  {[sel |-> s, record |-> r] : r \in {x \in dns[<<"DKIM", s>>].rr :
                                         Got(dns[<<"DKIM", s>>]) /\ x.kind = "key"}}
Unanswered(dns, sels) == {s \in sels : dns[<<"DKIM", s>>].rc = "timeout"}

NoDkim(status) ==
  [ status |-> status, queried |-> FALSE, found |-> {}, notFound |-> FALSE, noKey |-> {},
    tested |-> {}, unanswered |-> {}, timedOut |-> FALSE, dropped |-> FALSE,
    dangling |-> {}, issues |-> {} ]

(* The sweep: the selectors that fit the senders first, the generic ones    *)
(* only when those found nothing and the zone still answers.  The generic   *)
(* ones fit one chunk, and no zone has the DKIM_MAX_FOUND keys that end a   *)
(* sweep early.                                                             *)
SweepDkim(dns, priority, fallback) ==
  LET inTime   == ~IsLost(dns[<<"time", "dkim">>])
      first    == UNION {KeysAt(dns, s) : s \in priority}
      dropping == Cardinality(Unanswered(dns, priority)) >= DkimDropThreshold
      probed   == IF first = {} /\ ~dropping /\ inTime THEN priority \cup fallback ELSE priority
      found    == UNION {KeysAt(dns, s) : s \in probed}
      late     == Unanswered(dns, probed)
      dangling == Dangling(dns, {s \in probed : dns[<<"DKIM", s>>].rc = "dangling"}, found)
      dropped  == inTime /\ found = {} /\ Cardinality(late) >= DkimDropThreshold
  IN IF Got(dns[<<"DKIM", "wildcard">>])
     THEN [NoDkim("warning") EXCEPT !.issues = {Issue("warning", "wildcard")}]
     ELSE [NoDkim("none") EXCEPT !.found = found, !.tested = probed \ late, !.unanswered = late,
                                 !.dangling = dangling, !.issues = DanglingIssues(dangling),
                                 !.timedOut = ~inTime \/ dropped, !.dropped = dropped]

(* _run_dkim_direct: the one selector the user names. *)
QueryDkim(dns, s) ==
  LET txt  == dns[<<"DKIM", s>>]
      keys == {r \in txt.rr : r.kind = "key"}
      raw  == [NoDkim("none") EXCEPT !.queried = TRUE, !.tested = {s}]
  IN IF Got(txt) /\ keys # {} THEN
          [raw EXCEPT !.found = {[sel |-> s, record |-> CHOOSE r \in keys : TRUE]},
                      !.issues = IssueIf(Cardinality(keys) > 1, "warning", "several keys")]
     ELSE IF Got(txt)    THEN [raw EXCEPT !.noKey = txt.rr]
     ELSE IF IsLost(txt) THEN [raw EXCEPT !.status = "unavailable"]
     ELSE [raw EXCEPT !.notFound = TRUE]

-----------------------------------------------------------------------------
(* _transform_dkim_card *)

(* Without a live key.  Probing proves nothing: only a selector the user    *)
(* named can be missing.                                                    *)
NoKeyCard(raw, nonMail) ==
  LET revoked == Revoked(raw.found)
      details == Details(raw.issues)
  IN IF nonMail                               THEN Card("pass", "Not applicable", {Issue("info", "no mail")})
     ELSE IF raw.notFound                     THEN Card("fail", "Not found", details)
     ELSE IF raw.noKey # {} /\ revoked = {}   THEN Card("fail", "Not a key", details)
     ELSE IF revoked # {} /\ raw.queried      THEN Card("warn", "Retired", details)
     ELSE Card("unavailable", "Not confirmed",
               details \cup IssueIf(raw.timedOut, "warning", "sweep not finished"))

KeyDetails(r) ==
  LET strong == IF IsUnusable(r) THEN "info" ELSE "good"
  IN {IF r.key = "revoked"              THEN Issue("info", "retired key")
      ELSE IF Strength(r) = "invalid"   THEN Issue("error", "invalid key")
      ELSE IF Strength(r) = "weak"      THEN Issue("warning", "weak key")
      ELSE Issue(strong, "strong key")}
     \cup (IF r.key = "revoked" THEN {}
           ELSE {Issue(IF f \in UnusableFlaws THEN "error" ELSE "warning", f) : f \in r.flaws})

KeysStatus(raw) ==
  LET records == {s.record : s \in Live(raw.found)}
  IN IF \E r \in records : Strength(r) = "invalid" \/ IsUnusable(r) THEN "fail"
     ELSE IF Severe(raw.issues, "error") THEN "fail"
     ELSE IF \E r \in records : Strength(r) = "weak" \/ r.flaws # {} THEN "warn"
     ELSE IF Severe(raw.issues, "warning") THEN "warn"
     ELSE "pass"

KeysCard(raw) ==
  Card(KeysStatus(raw), "keys",
       UNION {KeyDetails(s.record) : s \in raw.found} \cup Details(raw.issues)
       \cup IssueIf(raw.timedOut, "warning", "sweep not finished"))

(* transform_dkim: a selector whose target's domain is free to register is  *)
(* red on any card.                                                         *)
TransformDkim(raw, nonMail) ==
  LET card == IF raw.status = "unavailable"       THEN Unavailable("Not checked")
              ELSE IF Live(raw.found) = {}        THEN NoKeyCard(raw, nonMail)
              ELSE KeysCard(raw)
      free == "unregistered" \in raw.dangling
  IN [card EXCEPT !.status  = IF free THEN "fail" ELSE @,
                  !.details = @ \cup DanglingIssues(raw.dangling)]

-----------------------------------------------------------------------------
(* _build_dkim_key_analysis: the keys once more, as advice on rotation.     *)

KeyRating(r) ==
  IF IsUnusable(r) /\ Strength(r) # "invalid" THEN "red"
  ELSE IF r.key = "revoked" THEN "neutral"
  ELSE IF Strength(r) = "invalid" \/ r.key = "tiny" THEN "red"
  ELSE IF Strength(r) = "weak" THEN "amber"
  ELSE "green"

RotationStatus(r) ==
  IF r.key = "revoked"                              THEN "Revoked"
  ELSE IF Strength(r) = "invalid" \/ IsUnusable(r)  THEN "Replace"
  ELSE IF KeyRating(r) \in {"red", "amber"}         THEN "Rotate"
  ELSE "Current"

RotationGuidance(found) ==
  LET records == {s.record : s \in found}
      live    == {s.record : s \in Live(found)}
  IN IF live = {}                                                  THEN "nothing live"
     ELSE IF \A r \in live : KeyRating(r) = "green"                THEN "standards met"
     ELSE IF \E r \in live : Strength(r) = "invalid"               THEN "broken"
     ELSE IF \E r \in records : IsUnusable(r)                      THEN "unusable"
     ELSE "weak"
=============================================================================
