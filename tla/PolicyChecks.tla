---------------------------- MODULE PolicyChecks ----------------------------
(***************************************************************************)
(* The checks of published policies other than DMARC: MTA-STS, TLS-RPT and *)
(* BIMI (src/checks_extra.py) and their cards (src/result_transformer.py). *)
(*                                                                         *)
(* A TXT record is what it parses to: its `kind' ("good" carries the exact *)
(* version tag, "near" almost does, "other" is not of this protocol) and   *)
(* its `defects'.  The severity the validator gives each defect is a table.*)
(***************************************************************************)
EXTENDS Grades

Good(a) == {r \in a.rr : r.kind = "good"}
Near(a) == {r \in a.rr : r.kind = "near"}
Defects(table, defects) == {Issue(table[d], d) : d \in defects}
TheRecord(a) == CHOOSE r \in Good(a) : TRUE

(* Every one of these cards: a status "unavailable", a malformed version    *)
(* tag, no record at a domain that declares no mail, no record without MX.  *)
NoRecordCard(nonMail, hasMx, issues) ==
  IF nonMail \/ ~hasMx THEN Card("absent", "Not applicable", {Issue("info", "no mail")})
                       ELSE Card("absent", "Not configured", Details(issues))

-----------------------------------------------------------------------------
(* MTA-STS *)

(* _validate_mta_sts_txt *)
StsTxtDefects ==
  [ malformed_tag |-> "warning", duplicate_tag |-> "warning", id_missing |-> "error",
    id_empty |-> "error", id_grammar |-> "error", unknown_tag |-> "info" ]

(* _validate_mta_sts_policy, line by line of the file. *)
StsFileDefects ==
  [ malformed_line |-> "warning", duplicate_field |-> "warning", bad_version |-> "error",
    no_version |-> "error", unknown_field |-> "info", bad_mode |-> "error",
    no_mode |-> "error", max_age_short |-> "warning", max_age_long |-> "error",
    max_age_text |-> "error", no_max_age |-> "error" ]

(* The policy against the MX hosts, which it looks up itself; a lookup that *)
(* fails leaves no hosts, so nothing is uncovered and nothing unused.       *)
StsMxIssues(policy, mx) ==
  LET hosts == {r.host : r \in mx.rr}
  IN      IssueIf(policy.mx = {} /\ policy.mode # "none", "error", "no mx lines")
     \cup IssueIf(policy.mx # {} /\ hosts \ policy.mx # {}, "warning", "mx not covered")
     \cup IssueIf(policy.mx \ hosts # {} /\ hosts # {}, "info", "mx line unused")

StsModeIssues(mode) ==
  IF mode = "none" THEN {Issue("info", "mode none")}
  ELSE IF mode = "testing" THEN {Issue("info", "mode testing")} ELSE {}

(* How the fetch of the policy file ends, and what each end is graded. *)
StsFetchIssue ==
  [ nohost |-> "error", hosttemp |-> "warning", private |-> "warning", http404 |-> "error",
    httperror |-> "error", ssl |-> "error", connection |-> "error", timeout |-> "warning",
    failed |-> "warning", toolarge |-> "error" ]

StsPolicyIssues(dns) ==
  LET file == dns[<<"fetch", "mta-sts">>]
      policy == CHOOSE p \in file.rr : TRUE
  IN IF ~Got(file) THEN {Issue(StsFetchIssue[file.rc], file.rc)}
     ELSE IssueIf(~policy.plain, "warning", "content type")
          \cup Defects(StsFileDefects, policy.defects)
          \cup StsModeIssues(policy.mode)
          \cup StsMxIssues(policy, dns[<<"MX", "mta-sts">>])

StsNone(status, malformed, issues) ==
  [ status |-> status, malformed |-> malformed, found |-> FALSE, mode |-> "unread",
    issues |-> issues ]

(* check_mta_sts.  A private address ends the check at "warning", whatever  *)
(* was found in the record before.                                          *)
CheckMtaSts(dns) ==
  LET txt    == dns[<<"TXT", "_mta-sts">>]
      file   == dns[<<"fetch", "mta-sts">>]
      issues == IssueIf(Cardinality(Good(txt)) > 1, "error", "several records")
                \cup Defects(StsTxtDefects, TheRecord(txt).defects)
                \cup StsPolicyIssues(dns)
  IN IF IsLost(txt) THEN StsNone("unavailable", FALSE, {})
     ELSE IF Good(txt) = {} /\ Near(txt) # {} THEN
          StsNone("error", TRUE, {Issue("error", "malformed version tag")})
     ELSE IF Good(txt) = {} THEN StsNone("warning", FALSE, {Issue("warning", "no record")})
     ELSE [ status |-> IF file.rc = "private" THEN "warning" ELSE RawStatus(issues),
            malformed |-> FALSE, found |-> TRUE, issues |-> issues,
            mode |-> IF Got(file) THEN (CHOOSE p \in file.rr : TRUE).mode ELSE "unread" ]

(* transform_mta_sts: testing is amber, a withdrawn policy grey. *)
StsStatus(raw) ==
  LET mapped == MapStatus(raw.status)
  IN IF raw.mode = "testing" /\ mapped = "pass"      THEN "warn"
     ELSE IF raw.mode = "none" /\ mapped # "fail"    THEN "absent"
     ELSE mapped

TransformMtaSts(raw, hasMx, nonMail) ==
  IF raw.status = "unavailable" THEN Unavailable("Not checked")
  ELSE IF raw.malformed THEN Card("fail", "Malformed", Details(raw.issues))
  ELSE IF ~raw.found    THEN NoRecordCard(nonMail, hasMx, raw.issues)
  ELSE Card(StsStatus(raw),
            IF StsStatus(raw) = "absent" THEN "Turned off" ELSE raw.mode,
            Details(raw.issues))

-----------------------------------------------------------------------------
(* TLS-RPT *)

TlsRptDefects ==
  [ malformed_tag |-> "warning", duplicate_tag |-> "warning", unknown_tag |-> "info",
    no_rua |-> "error", bad_mail |-> "error", bad_https |-> "error", bad_scheme |-> "error" ]

(* Looked for without asking whether the lookup succeeded. *)
HasMtaSts(dns) == Good(dns[<<"TXT", "mta-sts beside">>]) # {}

CheckTlsRpt(dns) ==
  LET txt    == dns[<<"TXT", "_smtp._tls">>]
      issues == IssueIf(Cardinality(Good(txt)) > 1, "error", "several records")
                \cup Defects(TlsRptDefects, TheRecord(txt).defects)
                \cup IssueIf(~HasMtaSts(dns), "info", "no mta-sts beside it")
  IN IF IsLost(txt) THEN StsNone("unavailable", FALSE, {})
     ELSE IF Good(txt) = {} /\ Near(txt) # {} THEN
          StsNone("error", TRUE, {Issue("error", "malformed version tag")})
     ELSE IF Good(txt) = {} THEN StsNone("warning", FALSE, {Issue("warning", "no record")})
     ELSE [ status |-> RawStatus(issues), malformed |-> FALSE, found |-> TRUE,
            mode |-> "unread", issues |-> issues ]

TransformTlsRpt(raw, hasMx, nonMail) ==
  IF raw.status = "unavailable" THEN Unavailable("Not checked")
  ELSE IF raw.malformed THEN Card("fail", "Malformed", Details(raw.issues))
  ELSE IF ~raw.found    THEN NoRecordCard(nonMail, hasMx, raw.issues)
  ELSE Card(MapStatus(raw.status), "reports", Details(raw.issues))

-----------------------------------------------------------------------------
(* BIMI *)

(* _validate_bimi_record *)
BimiDefects ==
  [ malformed_tag |-> "warning", duplicate_tag |-> "warning", unknown_tag |-> "info",
    no_logo |-> "info", logo_not_uri |-> "error", logo_not_https |-> "error",
    logo_not_svg |-> "warning", vmc_not_uri |-> "error", vmc_not_https |-> "error" ]

(* The logo: how the fetch ends, and what the document is. *)
LogoFetchIssue ==
  [ hosttemp |-> "warning", nohost |-> "warning", private |-> "warning",
    httperror |-> "warning", failed |-> "info", timeout |-> "info" ]

LogoDefects ==
  [ content_type |-> "warning", too_large |-> "warning", not_svg |-> "error",
    profile |-> "warning", no_viewbox |-> "warning", relative_size |-> "warning",
    small |-> "warning", script |-> "error", external_ref |-> "warning",
    not_xml |-> "warning", entities |-> "warning" ]
LogoInvalid == {"not_svg", "script", "not_xml", "entities"}

LogoFetched(record) == record.defects \cap {"no_logo", "logo_not_uri"} = {}
LogoIssues(logo) ==
  IF Got(logo) THEN UNION {Defects(LogoDefects, svg.defects) : svg \in logo.rr}
               ELSE {Issue(LogoFetchIssue[logo.rc], logo.rc)}

(* What the audit's DMARC result means for BIMI. *)
BimiDmarcIssues(dmarc) ==
  IF ~dmarc.found          THEN {Issue("error", "bimi requires dmarc")}
  ELSE IF ~dmarc.enforcing THEN {Issue("warning", "dmarc not enforcing")}
  ELSE IF dmarc.partial    THEN {Issue("warning", "dmarc pct")}
  ELSE {}

(* check_bimi, as the audit calls it: with what it knows of DMARC. *)
CheckBimi(dns, dmarc) ==
  LET txt    == dns[<<"TXT", "default._bimi">>]
      record == TheRecord(txt)
      logo   == dns[<<"fetch", "logo">>]
      issues == IssueIf(Cardinality(Good(txt)) > 1, "error", "several records")
                \cup Defects(BimiDefects, record.defects)
                \cup BimiDmarcIssues(dmarc)
                \cup (IF LogoFetched(record) THEN LogoIssues(logo) ELSE {})
      invalid == LogoFetched(record) /\ Got(logo)
                 /\ \E svg \in logo.rr : svg.defects \cap LogoInvalid # {}
  IN IF IsLost(txt)         THEN [ status |-> "unavailable", found |-> FALSE, invalid |-> FALSE,
                                   issues |-> {} ]
     ELSE IF Good(txt) = {} THEN [ status |-> "info", found |-> FALSE, invalid |-> FALSE,
                                   issues |-> {Issue("info", "no record at the default selector")} ]
     ELSE [ status |-> RawStatus(issues), found |-> TRUE, invalid |-> invalid,
            issues |-> issues ]

TransformBimi(raw, nonMail) ==
  IF raw.status = "unavailable" THEN Unavailable("Not checked")
  ELSE IF ~raw.found /\ nonMail THEN Card("absent", "Not applicable", {Issue("info", "no mail")})
  ELSE IF ~raw.found THEN Card("absent", "Not configured", {})
  ELSE Card(IF raw.invalid THEN "fail" ELSE MapStatus(raw.status), "published",
            Details(raw.issues))
=============================================================================
