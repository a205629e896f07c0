------------------------------ MODULE SpfCheck ------------------------------
(***************************************************************************)
(* SPF: the walk of src/spf_recursive.py over the include tree, the raw    *)
(* check that uses it and the card.                                        *)
(*                                                                         *)
(* A record is the sequence of its terms and the set `odd' of its defects. *)
(* A term has a type, a target ("" none, "%" one with a macro), a          *)
(* qualifier and how much of the Internet it names.                        *)
(***************************************************************************)
EXTENDS Grades, Sequences, SequencesExt

CONSTANTS
  WalkQueryBudget,    \* SPF_WALK_QUERY_BUDGET: queries of one walk
  SpfLookupLimit,     \* SPF_LOOKUP_LIMIT: lookups a receiver makes
  MxHostLimit,        \* SPF_MX_HOST_LIMIT: hosts of one mx term
  MaxDepth            \* max_depth of the recursion

ASSUME SpfAssumption ==
  /\ WalkQueryBudget \in Nat /\ SpfLookupLimit \in Nat \ {0}
  /\ MxHostLimit \in Nat /\ MaxDepth \in Nat

-----------------------------------------------------------------------------
(* _count_recursive: one walk adds up over the whole chain.  `budget' is    *)
(* what is left of its queries, shared by every branch; `facts' is what the *)
(* chain's entries say about it.                                            *)

(* Sum with what an included record says of itself left behind. *)
SumForgetsFacts(w, s) == [ total |-> w.total + s.total, voids |-> w.voids + s.voids,
                           truncated |-> w.truncated \/ s.truncated, facts |-> w.facts,
                           budget |-> s.budget ]

Sum(w, s) == [ total |-> w.total + s.total, voids |-> w.voids + s.voids,
               truncated |-> w.truncated \/ s.truncated, facts |-> w.facts \cup s.facts,
               budget |-> s.budget ]
Leaf(fact, budget) == [ total |-> 0, voids |-> 0, truncated |-> FALSE, facts |-> fact,
                        budget |-> budget ]
Spent(budget) == IF budget = 0 THEN 0 ELSE budget - 1

(* _query_answer_status *)
AnswerStatus(answer) ==
  IF IsLost(answer) THEN "error" ELSE IF answer.rr = {} THEN "void" ELSE "ok"

(* _address_status: A, and AAAA when A is void; each query costs one.       *)
AddressStatus(dns, host, budget) ==
  LET a == AnswerStatus(dns[<<"A", host>>])
  IN IF a # "void"      THEN [status |-> a, budget |-> budget]
     ELSE IF budget = 0 THEN [status |-> "spent", budget |-> 0]
     ELSE [status |-> AnswerStatus(dns[<<"AAAA", host>>]), budget |-> budget - 1]

(* The hosts of an mx term, each looked up until the budget is gone. *)
MxHosts(dns, hosts, budget) ==
  LET step(acc, host) ==
        IF acc.status = "spent" THEN acc
        ELSE IF acc.budget = 0 THEN [acc EXCEPT !.status = "spent"]
        ELSE LET got == AddressStatus(dns, host, acc.budget - 1)
             IN [ status |-> IF got.status = "spent" THEN "spent" ELSE acc.status,
                  budget |-> got.budget,
                  voids  |-> acc.voids + IF got.status = "void" THEN 1 ELSE 0 ]
  IN FoldLeft(step, [status |-> "ok", budget |-> budget, voids |-> 0], SetToSeq(hosts))

(* _mechanism_lookup_status, as what it adds to the walk; "void here" says  *)
(* that the term itself is void.                                            *)
HostTerm(dns, term, target, budget) ==
  LET mx    == dns[<<"MX", target>>]
      many  == Cardinality(mx.rr) > MxHostLimit
      hosts == MxHosts(dns, {r.host : r \in mx.rr} \ {"."}, budget)
      addr  == AddressStatus(dns, target, budget)
      one(fact, voids, cut, left) ==
        [ total |-> 0, voids |-> voids, truncated |-> cut, facts |-> fact, budget |-> left ]
      plain(status, left) ==
        CASE status = "void"  -> one({"void here"}, 1, FALSE, left)
          [] status = "error" -> one({"indeterminate"}, 0, FALSE, left)
          [] status = "spent" -> one({}, 0, TRUE, left)
          [] OTHER            -> one({}, 0, FALSE, left)
  IN IF target = "%"               THEN one({}, 0, FALSE, budget)
     ELSE IF term.type = "exists"  THEN plain(AnswerStatus(dns[<<"A", target>>]), budget)
     ELSE IF term.type # "mx"      THEN plain(addr.status, addr.budget)
     ELSE IF IsLost(mx)            THEN plain("error", budget)
     ELSE IF mx.rr = {}            THEN plain("void", budget)
     ELSE IF many                  THEN one({"mx over limit"}, 0, FALSE, budget)
     ELSE one(IF hosts.voids > 0 THEN {"mx void host"} ELSE {}, hosts.voids,
              hosts.status = "spent", hosts.budget)

HasAll(record) == \E i \in DOMAIN record.terms : record.terms[i].type = "all"

(* What a term of an authorizing record lets in (term_breadth), unless its  *)
(* lookup is void (open_authorizations).                                    *)
Breadth(term, auth, atRoot) ==
  IF ~auth \/ term.qual # "+" THEN {}
  ELSE IF term.type = "all" THEN (IF atRoot THEN {} ELSE {"open"})
  ELSE {f \in {"open", "wide"} : term.type \in {"ip", "a", "mx"} /\ f = term.breadth}

(* The walk of the records from the root.  walk[...] is the walk of the     *)
(* record of one name: `visited' the names above it, `auth' whether what it *)
(* lets in counts.                                                          *)
Walk(dns, limit) ==
  LET counted(w, term) == [w EXCEPT !.total = @ + 1,
                                    !.facts = @ \cup IF term.type = "ptr" THEN {"ptr"} ELSE {}]
      looked(w, term, got, lets) ==
        [Sum(counted(w, term), got)
           EXCEPT !.facts = (@ \ {"void here"})
                            \cup IF "void here" \in got.facts THEN {} ELSE lets]
      host(w, term, name, lets) ==
        IF term.type = "ptr" THEN counted(w, term)
        ELSE IF w.budget = 0 THEN
             [counted(w, term) EXCEPT !.truncated = TRUE, !.facts = @ \cup lets]
        ELSE looked(w, term,
                    HostTerm(dns, term, IF term.value = "" THEN name ELSE term.value, w.budget - 1),
                    lets)
      below(w, term, child) ==
        [Sum(counted(w, term), child)
           EXCEPT !.voids = @ + IF "nx here" \in child.facts THEN 1 ELSE 0,
                  !.facts = (@ \ {"nx here", "no record here"})
                            \cup (IF "nx here" \in child.facts THEN {"nx"} ELSE {})
                            \cup (IF "no record here" \in child.facts THEN {"no record"} ELSE {})]
      walk[name \in STRING, visited \in SUBSET STRING, depth \in Nat, budget \in Nat,
           auth \in BOOLEAN] ==
        LET answer  == dns[<<"SPF", name>>]
            records == {r \in answer.rr : r.kind = "good"}
            record  == CHOOSE r \in records : TRUE
            child(w, term) ==
              IF term.value = "%" THEN [counted(w, term) EXCEPT !.facts = @ \cup {"macro"}]
              ELSE IF w.budget = 0 THEN [counted(w, term) EXCEPT !.truncated = TRUE]
              ELSE below(w, term, walk[term.value, visited \cup {name}, depth + 1, w.budget,
                                       auth /\ term.qual = "+"])
            step(acc, term) ==
              LET lets == Breadth(term, auth, depth = 0)
                  w    == [acc.walk EXCEPT !.facts = @ \cup lets]
              IN IF acc.done THEN acc
                 ELSE IF term.type = "all" THEN [walk |-> w, done |-> TRUE]
                 ELSE IF term.type \in {"a", "mx", "ptr", "exists"} THEN
                      [acc EXCEPT !.walk = host(acc.walk, term, name, lets)]
                 ELSE IF term.type = "include" \/ (term.type = "redirect" /\ ~HasAll(record)) THEN
                      [acc EXCEPT !.walk = child(acc.walk, term)]
                 ELSE [acc EXCEPT !.walk = w]
        IN IF name \in visited               THEN Leaf({"loop"}, budget)
           ELSE IF depth > MaxDepth          THEN Leaf({}, budget)
           ELSE IF IsLost(answer)            THEN Leaf({"indeterminate"}, Spent(budget))
           ELSE IF answer.rc = "nx"          THEN Leaf({"nx here"}, Spent(budget))
           ELSE IF records = {}              THEN Leaf({"no record here"}, Spent(budget))
           ELSE IF Cardinality(records) > 1  THEN Leaf({"multiple"}, Spent(budget))
           ELSE FoldLeft(step, [walk |-> Leaf({}, Spent(budget)), done |-> FALSE],
                         record.terms).walk
  IN walk["root", {}, 0, limit, TRUE]

-----------------------------------------------------------------------------
(* count_spf_lookups, spf_lookup_band *)

Band(total, unknown) ==
  IF total > SpfLookupLimit           THEN "over"
  ELSE IF total > SpfLookupLimit - 2  THEN "near"
  ELSE IF unknown                     THEN "unknown"
  ELSE "ok"

CountOf(walk) ==
  LET incomplete == walk.truncated /\ walk.total <= SpfLookupLimit
      issues ==
             IssueIf(walk.total > SpfLookupLimit, "error", "over the limit")
        \cup IssueIf(Band(walk.total, FALSE) = "near", "warning", "near the limit")
        \cup IssueIf(incomplete, "warning", "walk cut short")
        \cup IssueIf("indeterminate" \in walk.facts, "warning", "lookup not complete")
        \cup {Issue("error", f) : f \in walk.facts \cap
                 {"no record", "nx", "loop", "multiple", "mx over limit"}}
        \cup {Issue("info", f) : f \in walk.facts \cap {"mx void host", "macro"}}
        \cup IssueIf("ptr" \in walk.facts, "warning", "ptr")
  IN [ total |-> walk.total, voids |-> walk.voids, truncated |-> walk.truncated,
       unknown |-> "indeterminate" \in walk.facts \/ incomplete,
       facts |-> walk.facts, budget |-> walk.budget, issues |-> issues ]
CountSpfLookups(dns) == CountOf(Walk(dns, WalkQueryBudget))

-----------------------------------------------------------------------------
(* _raw_check_spf *)

SpfSyntax == {"empty value", "duplicate modifier", "bad address", "unknown mechanism"}

AllTerms(record) == SelectSeq(record.terms, LAMBDA t : t.type = "all")
AllMechanism(record) == IF AllTerms(record) = <<>> THEN "none" ELSE AllTerms(record)[1].qual
HasRedirect(record) == \E i \in DOMAIN record.terms : record.terms[i].type = "redirect"
AfterAll(record) ==
  \E i, j \in DOMAIN record.terms :
     i < j /\ record.terms[i].type = "all" /\ record.terms[j].type # "redirect"
IsNullSpf(record) == /\ Len(record.terms) = 1 /\ record.terms[1].type = "all"
                     /\ record.terms[1].qual = "-"

NoSpf(status, malformed, multiple, issues) ==
  [ status |-> status, found |-> FALSE, malformed |-> malformed, multiple |-> multiple,
    null |-> FALSE, all |-> "none", redirect |-> FALSE, lookups |-> 0, unknown |-> FALSE,
    open |-> FALSE, loose |-> FALSE, issues |-> issues ]

SpfIssues(record, count) ==
       count.issues
  \cup {Issue("error", d) : d \in record.odd \cap SpfSyntax}
  \cup IssueIf("no space" \in record.odd, "warning", "missing spaces")
  \cup IssueIf("unknown modifier" \in record.odd, "info", "unknown modifier")
  \cup IssueIf("wide range" \in record.odd, "warning", "wide range")
  \cup IssueIf(HasRedirect(record) /\ HasAll(record), "warning", "redirect beside all")
  \cup IssueIf(count.voids > 2, "error", "void lookups")
  \cup IssueIf(AllMechanism(record) = "+", "error", "+all")
  \cup IssueIf(AllMechanism(record) = "?", "warning", "?all")
  \cup IssueIf(~HasAll(record) /\ ~HasRedirect(record), "warning", "no all")
  \cup IssueIf("open" \in count.facts, "error", "open to everyone")
  \cup IssueIf("wide" \in count.facts, "warning", "very wide")
  \cup IssueIf(AfterAll(record), "warning", "terms after all")

FoundSpf(record, count, issues) ==
  [ status |-> RawStatus(issues), found |-> TRUE, malformed |-> FALSE, multiple |-> FALSE,
    null |-> IsNullSpf(record), all |-> AllMechanism(record), redirect |-> HasRedirect(record),
    lookups |-> count.total, unknown |-> count.unknown, open |-> "open" \in count.facts,
    loose |-> "wide" \in count.facts \/ AfterAll(record), issues |-> issues ]
OneSpf(record, count) == FoundSpf(record, count, SpfIssues(record, count))

RawSpf(dns) ==
  LET txt  == dns[<<"SPF", "domain">>]
      good == {r \in txt.rr : r.kind = "good"}
  IN IF IsLost(txt) THEN NoSpf("unavailable", FALSE, FALSE, {})
     ELSE IF good = {} /\ (\E r \in txt.rr : r.kind = "near") THEN
          NoSpf("error", TRUE, FALSE, {Issue("error", "malformed version tag")})
     ELSE IF good = {} THEN NoSpf("error", FALSE, FALSE, {Issue("error", "no record")})
     ELSE IF Cardinality(good) > 1 THEN
          NoSpf("error", FALSE, TRUE, {Issue("error", "several records")})
     ELSE OneSpf(CHOOSE r \in good : TRUE, CountSpfLookups(dns))

-----------------------------------------------------------------------------
(* transform_spf *)

SpfStatus(raw) ==
  IF raw.all = "+" \/ raw.open                THEN "fail"
  ELSE IF raw.lookups > SpfLookupLimit        THEN "fail"
  ELSE IF Severe(raw.issues, "error")         THEN "fail"
  ELSE IF raw.loose \/ raw.unknown            THEN "warn"
  ELSE IF raw.all \in {"-", "~"} \/ (raw.all = "none" /\ raw.redirect) THEN "pass"
  ELSE MapStatus(raw.status)

(* The line about the count; the count's own issue stands in for it. *)
CountDetail(raw) ==
  LET band == Band(raw.lookups, raw.unknown)
  IN IF \E i \in raw.issues : i.about \in {"over the limit", "near the limit", "walk cut short"} THEN {}
     ELSE IF band = "unknown" THEN {Issue("info", "count not known")}
     ELSE IF band = "ok"      THEN {Issue("good", "within the limit")}
     ELSE {Issue("warning", "near the limit")}

AllDetail(raw) ==
  IF raw.open /\ raw.all # "+"      THEN {Issue("error", "all comes too late")}
  ELSE IF raw.all \in {"-", "~"}    THEN {Issue("good", "closed")}
  ELSE IF raw.all = "?"             THEN {Issue("warning", "neutral")}
  ELSE IF raw.all = "+"             THEN {Issue("error", "+all")}
  ELSE {}

TransformSpf(raw, hasMx) ==
  IF raw.status = "unavailable" THEN Unavailable("Not checked")
  ELSE IF raw.malformed THEN Card("fail", "Malformed", Details(raw.issues))
  ELSE IF raw.multiple  THEN Card("fail", "Multiple records", Details(raw.issues))
  ELSE IF raw.null      THEN Card("pass", "No mail", {Issue("good", "null spf")})
  ELSE IF ~raw.found /\ ~hasMx THEN Card("warn", "No mail", {Issue("info", "no record")})
  ELSE IF ~raw.found THEN Card("fail", "Missing", Details(raw.issues))
  ELSE Card(SpfStatus(raw), "record",
            CountDetail(raw) \cup AllDetail(raw) \cup Details(raw.issues))
=============================================================================
