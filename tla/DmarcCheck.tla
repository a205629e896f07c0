----------------------------- MODULE DmarcCheck -----------------------------
(***************************************************************************)
(* DMARC: the raw check of the record, the validators beside it, the tree  *)
(* walk of src/dmarc_tree_walk.py and the policy a name inherits.          *)
(*                                                                         *)
(* A TXT record is what it parses to: `kind' as in PolicyChecks, the value *)
(* of each policy tag ("absent" when there is no such tag, "bad" when the  *)
(* value is not one of the tag's), and the set `odd' of its other defects. *)
(***************************************************************************)
EXTENDS Grades, Sequences, TLC

Policies  == {"none", "quarantine", "reject"}
Enforcing == {"quarantine", "reject"}
Rank      == [none |-> 0, quarantine |-> 1, reject |-> 2]

(* rua= and ruf=: "mail" is a mailto: URI, "size" one with a size modifier, *)
(* "bare" an address without mailto:.                                       *)
RuaValid(r)  == r.rua \in {"mail", "size"}
Unusable(r)  == "bare" \in {r.rua, r.ruf}
Has(v)       == v # "absent"

(* pct: 100 unless the record says an integer, in range or not. *)
PctOf == [ absent |-> 100, text |-> 100, zero |-> 0, half |-> 50, full |-> 100,
           over |-> 150, negative |-> 0 - 1 ]
Pct(r) == PctOf[r.pct]

-----------------------------------------------------------------------------
(* The syntax of one record. *)

FatalOdd   == {"colon", "slash", "no semicolons", "comma", "duplicate tag", "v not first"}
WarningOdd == {"quotes", "unknown tag", "bare mailto", "bad adkim", "bad aspf", "bad rf", "bad ri"}
RetiredOdd == {"rf", "ri", "bad rf", "bad ri"}

(* syntax_errors: the fatal ones are graded error, the others warning. *)
Syntax(r) ==
  {Issue("error", d) : d \in r.odd \cap FatalOdd}
  \cup {Issue("warning", d) : d \in r.odd \cap WarningOdd}
  \cup IssueIf(r.p = "bad", "warning", "bad p") \cup IssueIf(r.sp = "bad", "warning", "bad sp")
  \cup IssueIf(r.np = "bad", "warning", "bad np") \cup IssueIf(r.t = "bad", "warning", "bad t")
  \cup IssueIf(r.psd = "bad", "warning", "bad psd") \cup IssueIf(r.fo = "bad", "warning", "bad fo")
  \cup IssueIf(r.pct \in {"text", "over", "negative"}, "warning", "bad pct")

(* RFC 9989 section 4.10.1: a policy that is missing or not valid is read   *)
(* as p=none when a valid rua is there to receive reports.                  *)
NeedsRecovery(r) == r.p \in {"absent", "bad"} \/ r.sp = "bad" \/ r.np = "bad"
Recovered(r)     == NeedsRecovery(r) /\ RuaValid(r)
Policy(r)        == IF Recovered(r) THEN "none" ELSE r.p
FatalPolicy(r)   == IssueIf(r.p = "absent" /\ ~RuaValid(r), "error", "p missing")

RecoveryIssues(r) ==
  IssueIf(Recovered(r), "warning", "policy recovery")
  \cup IssueIf(NeedsRecovery(r) /\ r.p # "absent" /\ ~RuaValid(r), "error", "policy invalid")

RecordIssues(r) ==
       IssueIf("long" \in r.odd, "warning", "long record")
  \cup IssueIf(Has(r.pct), "warning", "pct removed")
  \cup IssueIf(r.odd \cap RetiredOdd # {}, "info", "retired tags")
  \cup RecoveryIssues(r)
  \cup IssueIf(r.rua = "bare", "warning", "rua without mailto")
  \cup IssueIf(r.ruf = "bare", "warning", "ruf without mailto")
  \cup IssueIf("size" \in {r.rua, r.ruf}, "info", "size modifier")
  \cup IssueIf(Policy(r) = "none", "warning", "p=none")
  \cup IssueIf(Policy(r) \in Enforcing /\ Pct(r) < 100, "warning", "pct low")
  \cup IssueIf(Policy(r) \in Enforcing /\ r.t = "y", "warning", "test mode")
  \cup IssueIf(~Has(r.rua), "warning", "no rua")

-----------------------------------------------------------------------------
(* A record that is one, by what its tags can say.                          *)
DmarcRecord ==
  LET policies == {"absent", "bad"} \cup Policies
      uris     == {"absent", "mail", "size", "bare"}
  IN [ kind : {"good"}, p : policies, sp : policies, np : policies,
       t : {"absent", "bad", "n", "y"}, psd : {"absent", "bad", "n", "u", "y"},
       pct : DOMAIN PctOf, fo : {"absent", "bad", "zero", "one", "other"}, rua : uris, ruf : uris,
       adkim : {"r", "s"}, aspf : {"r", "s"},
       odd : SUBSET (FatalOdd \cup WarningOdd \cup RetiredOdd \cup {"long"}) ]

-----------------------------------------------------------------------------
(* _validate_dmarc_strict, _validate_dmarc_legacy: what each RFC's parser   *)
(* would fail and warn about.                                               *)

StrictFails(r, count) ==
       {c \in {"several records"} : count > 1}
  \cup {d \in r.odd : d \in {"v not first", "colon", "duplicate tag", "bare mailto"}}
  \cup {c \in {"p missing"} : r.p = "absent" /\ ~RuaValid(r)}
  \cup {t \in {"p", "sp", "np"} : r[t] = "bad" /\ ~RuaValid(r)}
  \cup {t \in {"rua", "ruf"} : r[t] = "bare"}

StrictWarns(r) ==
       {d \in r.odd : d \in {"unknown tag", "bad adkim", "bad aspf"} \cup RetiredOdd}
  \cup {c \in {"p missing"} : r.p = "absent" /\ RuaValid(r)}
  \cup {t \in {"p", "sp", "np"} : r[t] = "bad" /\ RuaValid(r)}
  \cup {t \in {"t", "psd", "fo"} : r[t] = "bad"} \cup {c \in {"pct"} : Has(r.pct)}
  \cup {t \in {"rua", "ruf"} : r[t] = "size"}

(* RFC 7489 knows neither np nor t nor psd, and a missing p always fails. *)
LegacyFails(r, count) ==
       {c \in {"several records"} : count > 1}
  \cup {d \in r.odd : d \in {"bare mailto", "colon", "bad adkim", "bad aspf"}}
  \cup {c \in {"p missing"} : r.p = "absent"}
  \cup {t \in {"p", "sp", "fo"} : r[t] = "bad"}
  \cup {c \in {"pct"} : r.pct \in {"text", "over", "negative"}}

LegacyOnlyPass(r, count) == LegacyFails(r, count) = {} /\ StrictFails(r, count) # {}

(* _assess_dmarcbis_readiness *)
Readiness(r, status) ==
  IF status = "error" \/ Recovered(r) THEN "invalid"
  ELSE IF Has(r.pct) \/ r.odd \cap RetiredOdd # {} THEN "needs_update"
  ELSE IF Has(r.np) THEN "ready"
  ELSE "compatible"

-----------------------------------------------------------------------------
(* _raw_check_dmarc *)

NoTags == [ kind |-> "good", p |-> "absent", sp |-> "absent", np |-> "absent", t |-> "absent",
            psd |-> "absent", pct |-> "absent", fo |-> "absent", rua |-> "absent",
            ruf |-> "absent", adkim |-> "r", aspf |-> "r", odd |-> {} ]

NoDmarc(status, malformed, multiple, issues) ==
  [ status |-> status, found |-> FALSE, malformed |-> malformed, multiple |-> multiple,
    record |-> NoTags, syntax |-> {}, issues |-> issues, readiness |-> "none",
    inherited |-> "no", source |-> 0, parent |-> NoTags, isSubdomain |-> FALSE,
    lost |-> FALSE, registry |-> FALSE, destinations |-> {}, authUnknown |-> FALSE ]

FoundDmarc(r, syntax, issues) ==
  [NoDmarc(RawStatus(issues), FALSE, FALSE, issues)
     EXCEPT !.found = TRUE, !.record = r, !.syntax = syntax,
            !.readiness = Readiness(r, RawStatus(issues))]
OneDmarc(r, syntax, aside) == FoundDmarc(r, syntax, aside \cup RecordIssues(r) \cup syntax)

RawDmarc(dns) ==
  LET txt  == dns[<<"TXT", "_dmarc">>]
      good == {r \in txt.rr : r.kind = "good"}
      near == {r \in txt.rr : r.kind = "near"}
      aside == IssueIf(\E r \in txt.rr : r.kind = "other", "info", "other txt")
               \cup IssueIf(Got(dns[<<"CNAME", "_dmarc">>]), "info", "cname")
      r      == CHOOSE x \in good : TRUE
  IN IF IsLost(txt) THEN NoDmarc("unavailable", FALSE, FALSE, {})
     ELSE IF good = {} /\ near # {} THEN
          [NoDmarc("error", TRUE, FALSE, aside \cup {Issue("error", "malformed version tag")})
             EXCEPT !.record = CHOOSE x \in near : TRUE]
     ELSE IF good = {} THEN NoDmarc("error", FALSE, FALSE, aside \cup {Issue("error", "no record")})
     ELSE IF Cardinality(good) > 1 THEN
          [NoDmarc("error", FALSE, TRUE, aside \cup {Issue("error", "several records")})
             EXCEPT !.found = TRUE, !.record = r]
     ELSE
            OneDmarc(r, Syntax(r) \cup FatalPolicy(r)
                          \cup IssueIf(near # {}, "error", "lowercase version"), aside)

-----------------------------------------------------------------------------
(* dmarc_tree_walk.  A name is the number of its labels: the audited one    *)
(* has n, its parents fewer.                                                *)

MaxTreeWalkQueries == 7
WalkedNames(n) ==
  LET first == IF n > MaxTreeWalkQueries THEN MaxTreeWalkQueries ELSE n - 1
  IN [i \in 1..first |-> first + 1 - i]

(* _query_dmarc: the one valid record of a name, if there is exactly one. *)
OneRecord(a) ==
  LET good == {r \in a.rr : r.kind = "good"}
  IN IF Cardinality(good) = 1 THEN good ELSE {}

(* The levels the walk asks, up to the first that declares psd=n or psd=y. *)
Level(name, answer, found) ==
  [ name |-> name, found |-> found, lost |-> IsLost(answer),
    stop |-> \E r \in found : r.psd \in {"y", "n"} ]
Levels(dns, names) ==
  [i \in DOMAIN names |->
     Level(names[i], dns[<<"DMARC", names[i]>>], OneRecord(dns[<<"DMARC", names[i]>>]))]
UpToStop(levels) ==
  LET stops == {i \in DOMAIN levels : levels[i].stop}
  IN SubSeq(levels, 1, IF stops = {} THEN Len(levels)
                       ELSE CHOOSE i \in stops : \A k \in stops : i <= k)
WalkSteps(dns, n) == UpToStop(Levels(dns, WalkedNames(n)))

NoPolicy == [ source |-> 0, policy |-> "absent", record |-> NoTags, tag |-> "p",
              isSubdomain |-> FALSE, org |-> 0 ]

(* The record the walk settles on, and the organizational domain: psd=n is  *)
(* itself, psd=y the name one label below, else the shortest name seen.     *)
Collected(steps) == {steps[i] : i \in {k \in DOMAIN steps : steps[k].found # {} /\ ~steps[k].stop}}
WalkPolicy(steps) ==
  LET collected == Collected(steps)
      stop      == IF steps # <<>> /\ steps[Len(steps)].stop THEN {steps[Len(steps)]} ELSE {}
      below(s)  == {c \in collected : c.name = s.name + 1}
      psd(s)    == (CHOOSE r \in s.found : TRUE).psd
  IN IF stop # {} /\ (\E s \in stop : psd(s) = "n" \/ below(s) = {}) THEN stop
     ELSE IF stop # {} THEN UNION {below(s) : s \in stop}
     ELSE {c \in collected : \A d \in collected : c.name <= d.name}

WalkOrg(steps, chosen) ==
  LET s == steps[Len(steps)]
  IN IF s.stop /\ (CHOOSE r \in s.found : TRUE).psd = "y" THEN s.name + 1 ELSE chosen.name

(* np= counts only for a name that does not exist, sp= before p=.           *)
AppliedTag(r, exists) ==
  IF ~exists /\ Has(r.np) THEN "np" ELSE IF Has(r.sp) THEN "sp" ELSE "p"
TagValue(r, tag) == IF tag = "p" /\ ~Has(r.p) THEN "none" ELSE r[tag]

(* _walk_after_author_hit: with a record of its own the walk only looks for *)
(* the organizational domain (psl_fallback when no parent has a record).    *)
OrgAfterHit(steps, n, own, psl) ==
  LET stop   == steps # <<>> /\ steps[Len(steps)].stop
      s      == steps[Len(steps)]
      walked == {x.name : x \in Collected(steps)}
  IN IF own.psd \in {"y", "n"} \/ n = 2 THEN n
     ELSE IF stop THEN IF (CHOOSE r \in s.found : TRUE).psd = "y" THEN s.name + 1 ELSE s.name
     ELSE IF walked = {} /\ n > 2 /\ psl # n THEN psl
     ELSE CHOOSE k \in walked \cup {n} : \A m \in walked \cup {n} : k <= m
OwnPolicy(steps, n, own, psl) ==
  [ source |-> n, policy |-> TagValue(own, "p"), record |-> own, tag |-> "p",
    isSubdomain |-> FALSE, org |-> OrgAfterHit(steps, n, own, psl) ]

ParentPolicy(steps, s, r, tag) ==
  [ source |-> s.name, policy |-> TagValue(r, tag), record |-> r, tag |-> tag,
    isSubdomain |-> TRUE, org |-> WalkOrg(steps, s) ]
FromParents(steps, chosen, exists) ==
  LET s == CHOOSE x \in chosen : TRUE
      r == CHOOSE x \in s.found : TRUE
  IN IF chosen = {} THEN NoPolicy ELSE ParentPolicy(steps, s, r, AppliedTag(r, exists))

(* The parents are not walked for a name that declares what it is.          *)
Walked(dns, n, author) ==
  IF \E own \in author : own.psd \in {"y", "n"} \/ n = 2 THEN <<>> ELSE WalkSteps(dns, n)
WalkResult(dns, n, psl, author, steps) ==
  Over([ incomplete |-> IsLost(dns[<<"DMARC", n>>]) \/ \E i \in DOMAIN steps : steps[i].lost,
         atOrg |-> UNION {steps[i].found : i \in {k \in DOMAIN steps : steps[k].name = psl}} ],
       IF author # {} THEN OwnPolicy(steps, n, CHOOSE r \in author : TRUE, psl)
       ELSE FromParents(steps, WalkPolicy(steps), dns[<<"SOA", "exists">>].rc # "nx"))
TreeWalk(dns, n, psl) ==
  LET author == OneRecord(dns[<<"DMARC", n>>])
  IN WalkResult(dns, n, psl, author, Walked(dns, n, author))

-----------------------------------------------------------------------------
(* _enrich_dmarc_inheritance: the policy of a name with no record of its    *)
(* own; psl is the organizational domain by the Public Suffix List.  A walk *)
(* with a level unread says nothing; a policy that is not one is recovered  *)
(* as p=none when the parent's rua is valid (_recover_inherited_policy).    *)
RecoveredPolicy(policy, r) ==
  IF policy \notin Policies /\ RuaValid(r) THEN "none" ELSE policy

FromPsl(raw, dns, n, psl) ==
  LET org    == dns[<<"TXT", "_dmarc.org">>]
      record == OneRecord(org)
      r      == CHOOSE x \in record : TRUE
      policy == IF Has(r.sp) THEN r.sp ELSE r.p
  IN IF psl = n                 THEN raw
     ELSE IF IsLost(org)        THEN [raw EXCEPT !.lost = TRUE]
     ELSE IF record = {} \/ ~Has(policy) THEN raw
     ELSE [raw EXCEPT !.inherited = RecoveredPolicy(policy, r), !.source = psl,
                      !.parent = r, !.isSubdomain = TRUE]

EnrichInheritance(raw, dns, tw, n, psl) ==
  IF raw.found           THEN raw
  ELSE IF tw.incomplete  THEN [raw EXCEPT !.lost = TRUE]
  ELSE IF tw.isSubdomain THEN
       [raw EXCEPT !.inherited = RecoveredPolicy(tw.policy, tw.record), !.source = tw.source,
                   !.parent = tw.record, !.registry = tw.source < psl,
                   !.isSubdomain = ~(tw.source < psl /\ psl = n)]
  ELSE FromPsl(raw, dns, n, psl)

(* _check_report_authorization: each destination of rua= and ruf= outside   *)
(* the organizational domain must say it takes this domain's reports.       *)
Destination(dns, tag, external) ==
  LET says == dns[<<"TXT", "_report._dmarc">>]
      mx   == dns[<<"MX", "reports">>]
  IN [ tag |-> tag,
       authorized |-> IF ~external \/ IsLost(says) THEN "unknown"
                      ELSE IF \E r \in says.rr : r.kind = "good" THEN "yes" ELSE "no",
       unchecked |-> external /\ IsLost(says),
       hasMx |-> IF IsLost(mx) THEN "unknown" ELSE IF Got(mx) THEN "yes" ELSE "no",
       external |-> external ]

WithReportAuth(raw, dns, external) ==
  LET tags  == {t \in {"rua", "ruf"} : Has(raw.record[t])}
      dests == {Destination(dns, t, external) : t \in tags}
      away  == {d \in dests : d.external}
      issues ==
             IssueIf(\E d \in away : d.authorized = "no", "error", "destination not authorized")
        \cup IssueIf(\E d \in away : d.unchecked, "warning", "authorization not checked")
        \cup IssueIf(\E d \in away : d.hasMx = "no", "warning", "destination without mx")
        \cup IssueIf("ruf" \in tags, "info", "ruf")
  IN IF ~raw.found \/ raw.multiple \/ tags = {} THEN raw
     ELSE IF IsLost(dns[<<"time", "report-auth">>]) THEN [raw EXCEPT !.authUnknown = TRUE]
     ELSE [raw EXCEPT !.destinations = dests, !.issues = raw.issues \cup issues]

(* What the audit knows of DMARC when the card is made, and the part of it  *)
(* it hands to the BIMI check.                                              *)
AuditDmarc(dns, walk, n, psl, external) ==
  WithReportAuth(EnrichInheritance(RawDmarc(dns), dns, walk, n, psl), dns, external)

ForBimi(raw) ==
  LET policy == IF raw.multiple THEN "absent"
                ELSE IF raw.found THEN Policy(raw.record) ELSE raw.inherited
      pct    == IF raw.found /\ ~raw.multiple THEN Pct(raw.record) ELSE 100
  IN [ found |-> raw.found \/ raw.inherited # "no",
       enforcing |-> policy \in Enforcing, partial |-> pct < 100 ]
=============================================================================
