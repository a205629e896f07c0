------------------------------- MODULE Grades -------------------------------
(***************************************************************************)
(* What the checks of src/audit_engine.py, src/checks_extra.py and         *)
(* src/mx_check.py share with the cards src/result_transformer.py makes of *)
(* them: answers of the DNS and of web servers, issues with a severity,    *)
(* and the status of a card.                                               *)
(*                                                                         *)
(* An answer has a return code and the records it brought.  "none" and     *)
(* "nx" are answers (the name has no such record, the name does not        *)
(* exist); "timeout" and "failed" are lookups that did not complete.       *)
(***************************************************************************)
EXTENDS Naturals, FiniteSets

Ok(rr)   == [rc |-> "ok", rr |-> rr]
NoAnswer == [rc |-> "none", rr |-> {}]
NxDomain == [rc |-> "nx", rr |-> {}]
Lost(rc) == [rc |-> rc, rr |-> {}]

LossCodes == {"timeout", "failed"}
IsLost(a) == a.rc \in LossCodes
Got(a)    == a.rc = "ok"

(* What f says and, where it says nothing, what g does. *)
Over(f, g) == [x \in DOMAIN f \cup DOMAIN g |-> IF x \in DOMAIN f THEN f[x] ELSE g[x]]

(* An issue: how bad, and what about.  A finding's words are left out. *)
Issue(sev, about) == [sev |-> sev, about |-> about]
IssueIf(cond, sev, about) == IF cond THEN {Issue(sev, about)} ELSE {}
Severe(issues, sev) == \E i \in issues : i.sev = sev

(* The end of every raw check: the worst severity among its issues. *)
RawStatus(issues) ==
  IF Severe(issues, "error")        THEN "error"
  ELSE IF Severe(issues, "warning") THEN "warning"
  ELSE "ok"

(* _map_status *)
MapStatus(status) ==
  CASE status \in {"ok", "pass", "good", "info"}     -> "pass"
    [] status \in {"error", "fail", "critical"}      -> "fail"
    [] OTHER                                         -> "warn"

(* A card: its status, the pill or verdict that tells two cards of one     *)
(* status apart, and what its details say.                                 *)
Statuses == {"pass", "warn", "fail", "absent", "info", "unavailable"}
Card(status, label, details) == [status |-> status, label |-> label, details |-> details]

(* _issue_to_detail: an issue as a line of a card. *)
DetailType(sev) == IF sev = "critical" THEN "error" ELSE IF sev = "warn" THEN "warning" ELSE sev
Details(issues) == {Issue(DetailType(i.sev), i.about) : i \in issues}

(* A lookup that does not complete, read as a record that is not there. *)
LostIsMissing(label) == Card("fail", "Missing", {})

(* _lookup_unavailable_card *)
Unavailable(label) == Card("unavailable", label, {})
=============================================================================
