# dns-audit in TLA+

dns-audit is a web service that audits the DNS and mail security of a domain: a
FastAPI process (`server.py`) takes requests, an engine (`audit_engine.py`) runs a
dozen checks against the DNS and a few HTTP services on thread pools, transformers
turn raw results into cards, and a page (`static/app.js`) shows them as they arrive.
This directory holds TLA+ models of the parts of it where steps of several actors,
timeouts and failures meet, the TLC runs that check them, and TLAPS proofs.
Line numbers of every definition are in `PROJECT.json` under `map`.

## 1. Inventory

| Component | State it keeps | Operations | Hard behaviour | What makes it correct | Model |
|---|---|---|---|---|---|
| Audit endpoints (`server.py` 1055-1665) | `_active_audits`, `_inflight` (futures by cache key), `_cache`, per stream `cancel_event` and `progress_q` | `/api/audit`, `/api/audit/stream`, `/api/audit/{domain}/pdf` | state read before an await and used after it; cancellation at an await; audit threads that outlive their handler; late results; who writes the log line | slots balance; one leader per key; followers are resolved, and with the truth; the cache holds finished audits only; one log line that says what happened | `AuditServer`, `AuditService` |
| Rate limiter (`server.py` 680-735) | `_rate_limits`, under `_rate_lock` | `_check_rate_limit` | window edges, refusals, eviction of addresses | no window holds more than the cap; nobody refused early; bounded table | `RateLimiter` |
| Audit engine (`run_full_audit`, `audit_engine.py` 5450-6670) | raw results, cards, error list, step counter, futures | one audit in phases with a deadline | timeouts of phases adding up, futures that never end, cancellation by an exception out of the progress callback, the deadline looked at in many places | exactly one card per check in scope; no verdict without an answer; bounded overrun; nothing left in the pool | `AuditEngine` |
| Certificate transparency cache (`audit_engine.py` 43-124, 4259-4316) | `_ct_cache`, `_ct_timeout_cache`, under `_ct_cache_lock` | `_raw_check_ct`, `retry_ct_card` | check-then-act between lock sections, two time limits, eviction, stale fallback | failures are never stored as results; a real result wins; old results only after a failure | `CtCache` |
| Thread pools, DKIM sweep (`audit_engine.py` 4959-5250, `spf_intelligence.py` 162-580) | four executors; none in the sweep | submit, wait, a sweep of selectors | a task that waits for its own pool; probes that go unanswered; a wildcard that answers every selector | no circular wait; a key is not reported missing because a probe was lost | `SharedLookups`, `DkimCheck` |
| DNS resolvers (`dns_tools.py`) | shared resolvers, `BoundedNegativeCache`, probe memo | `get_resolver`, `put`, `resolve_probe` | negative answers of one type deciding another, TTL caps, a memo shared by threads | a new record is seen after the cap; no cross-type negatives | `SharedLookups` |
| DMARC tree walk (`dmarc_tree_walk.py`) | none | walk of the parents, at most 8 queries | a failed lookup on the way; psd= stops; a record of a registry above the organization | the policy found is the one the discovery rule names; a failure is never "no record" | `DmarcCheck` |
| SPF lookup counter (`spf_recursive.py`) | visited set per path, query budget | recursive count | loops, wide trees, lookups that fail | a count shown is the count, or is said not to be known | `SpfCheck` |
| DNS snapshots (`dns_snapshots.py`) | a SQLite table | insert if changed, history, purge | select and insert without a transaction | rows tell changes, in order of time, unless audits ran at once; what was stored stays | `SharedLookups` |
| Sender map adapter (`sendermap_adapter.py`) | two futures | `build` with a budget | a late half of the result | partial results say so | the task `map` of `AuditEngine` |
| Browser client (`static/app.js` 225-324, 515-870, 1515-1564) | abort controller, `auditSeq`, in-flight flag, watchdog, last results, scope pills, retry timer | `runAudit`, `renderResults`, `retryCt`, the pills | a run aborted at any await unwinding beside a newer one; a silent stream; a delayed reveal; late answers | what is shown belongs to the newest audit; loading ends; a refusal is asked once | `Client` |
| Checks (`_raw_check_*`, `checks_extra.py`, `mx_check.py`, `dkim_formatter.py`) | none | asking the DNS and web servers, grading what they say | lookups that do not complete, one or several of a check's; answers of one check that steer another | a lost lookup is unknown, never a finding | `ZoneChecks`, `PolicyChecks`, `DmarcCheck`, `SpfCheck`, `DkimCheck`, `CertChecks` |
| Cards, summary, plan (`result_transformer.py`, `plan_records.py`, `staged_path.py`, `run_full_audit` 6092-6700) | none | cards of raw results, corrections of cards, the plan, the change set, the summary | a dozen places that judge the same facts from different fields; merged edits; order of steps | the parts agree; advice that is followed comes to an end | `DmarcCard`, `Plan`, `Report`, and the card of each check beside it |
| Step check, PDF layout, configuration, logging, nightly tools | none | | none | | no |

How they interact. A handler runs on the one event loop and is undisturbed from one
await to the next. It starts `run_full_audit` on a thread with a deadline. That
thread calls back with progress: for a stream this puts a message on its queue, and
raises when `cancel_event` is set. The engine submits checks to executors that all
audits share. The checks read the shared resolvers and, in the case of certificates,
the two tables of the CT cache.

When the futures are in, the rest is sequential: raw results become cards, the cards
are corrected (a domain that declares that it has no mail is not asked for mail
records; a DMARC policy that SPF and DKIM do not carry is a finding), and roadmap,
change set and summary are made of the cards and of some raw results beside them.

## 2. Modules

| Module | What it is |
|---|---|
| `AuditService` | The abstract specification: a counting semaphore of requests and one leader per key. |
| `AuditServer` | The three handlers, their audit threads and their shared state. |
| `AuditServerProofs` | Its types, slots and single flight, as theorems, that it implements `AuditService`, and that clients, the cache and the audit log are told what happened. |
| `RateLimiter`, `RateLimiterProofs` | The sliding window, and its theorems. |
| `AuditEngine`, `AuditEngineProofs` | One `run_full_audit`, and its safety as theorems. |
| `CtCache`, `CtCacheProofs` | Any number of concurrent certificate lookups and retries, and theorems about their tables. |
| `Client`, `ClientProofs` | The page's runs of `runAudit` and what they share, and its theorems. |
| `Grades` | Answers, issues, severities and cards, which all checks share. |
| `ZoneChecks` | CAA, nameservers, DNSSEC, MX and DANE: raw check and card. |
| `PolicyChecks` | MTA-STS, TLS-RPT and BIMI. |
| `DmarcCheck`, `DmarcCard` | The DMARC record, the tree walk and inheritance; the card, its attack surface, its health, and the records it advises. |
| `SpfCheck` | The recursive count, the check and the card. |
| `DkimCheck` | The sweep, the named selector, keys and their card. |
| `CertChecks` | Certificates (crt.sh, then Cert Spotter) and APRF. |
| `Plan` | Roadmap, change set, headline, verdict and the boxes of the summary. |
| `Report` | One audit: its lookups, of which some are lost, then checks, cards, corrections, plan. |
| `ReportProperties` | What a report must satisfy. |
| `ReportProofs` | That the plan is carried out, a green headline is backed and advice that is followed comes to an end, for every zone. |
| `LossProofs` | That no lookup that is lost turns a card red, for every zone and any number of losses. |
| `SharedLookups`, `SharedLookupsProofs` | Concurrent audits over pools, caches, the result cache and the snapshot table, and theorems about what they say. |
| `MC*` | Values of constants, the symmetry and the orderings that make the runs small. |

Operators whose name says how they differ from the one beside them (`PutEveryType` for
`Put`) are plausible bugs, one for each property. They are not part of a specification;
each replaces a definition to show that the property can fail.

### AuditServer

One action is a segment of a handler from one `await` to the next, with the `finally`
blocks that run in it. `pc[r]` is the await at which the handler of request r is
suspended:

| `pc` | `await` in the code |
|---|---|
| `preflight` | the DNS preflight, in a thread |
| `audit` | `run_full_audit` in a thread (json and pdf) |
| `follow` | the leader's future (json: shielded) |
| `render` | the PDF being drawn, in a thread |
| `stream` | the loop of `_event_stream` |
| `closing` | the yield of the last event, before the generator's `finally` |

`future[r]` is the future that r made as a leader, `joined[r]` the one its handler
holds. A result is represented by the request whose audit it came from, which is all
that its followers, the cache and the report need. `ReleaseInflight` is
`_release_inflight`: it pops the key only if it still names the same future, and
resolves the future only if it is unresolved. `CancelPoints` says at which awaits a
handler may be cancelled. Nothing in the models takes a cancelled handler's audit
thread with it, as nothing does in the code. The wording of answers, validation
(`TurnAway`) and the data of reports are abstracted. `CacheDrops` stands for the
expiry and the eviction of cached results: any entry may go at any time.

### RateLimiter

One action for a call of `_check_rate_limit`, which holds a lock throughout, and a
clock. A list of timestamps is the set of the admitted requests that left them, so
two requests of one instant are still two. `forgotten` is history: addresses that
were evicted while they had live timestamps, for which no bound can be claimed.

### AuditEngine

`pc` names the future for which the audit thread waits, or a segment to run. `task[t]`
is a future: `pending` is queued or running, since a shared pool may start it at any
time and a running task may hang, and `gone` is one that nobody looks at any more.
`End(t)` lets a task end only when it is awaited: a future that ended earlier cannot be
told from one that ends at the moment it is looked at. `now` advances only while the
thread waits, up to the `limit` of that wait, and during the three lookups that the
thread makes itself: the policy of the organizational domain, when the tree walk found
none (`AskOrgDomain`), the CNAME of a domain without SPF, and at the end, whatever the
time, the name servers (`AskHost`). The last computations on raw results are taken not to
raise.
An audit whose client has gone leaves by the exception out of its next callback, and
leaves its queued tasks to the pool; the code has no step that cancels them.

### CtCache

Each access to a table takes the lock by itself, so a call is split there: look up,
recall the timeout, ask, remember, fall back, store, forget. An entry is the call
whose answer it is and the time. `at`, `age` and `covered` are history. A result the
services refused to send whole (`response_too_large`) is stored like a real one, as
in the code.

### Client

`pc[r]` is the await of run r in `runAudit`; run numbers are values of `auditSeq`.

| `pc` | `await` in the code |
|---|---|
| `connect` | `fetch` of the stream |
| `refused`, `broken` | the body of an HTTP error of the stream, final or worth a fallback |
| `read` | `reader.read()` |
| `fallback`, `body` | `fetch` of the JSON endpoint, and its result |
| `failure` | the body of an HTTP error of the JSON endpoint |

An aborted await rejects in a microtask, before the page takes another event, so
every step but `Unwind` waits for the aborted runs to unwind (`Settled`). A reader
that a newer run cancels reports the end of its stream instead, and the run then meets
the abort at the fallback's `fetch`; both ways end without a word, as `Unwind` has it.
`AbortPoints` names the awaits during which an audit may be started.
`loading` is the one card that shows progress and errors, and says of which run.
`asked[r]` is the scope of r's latest request, since the fallback asks for the pill
that is lit by then. `requests` and `turnedDown` are history; `touched` says whether
the visitor has moved a pill since a result set them. Progress messages, which change
only the bar of the run they belong to, the drawing of cards, the address bar and the
check of the input are abstracted. Drawing is taken not to raise.

The stream is what `AuditServer` specifies: it ends with a result, a bare error or
nothing, and what arrives depends on the network, so every outcome is possible at
every await and the two modules need no shared state.

### Report and the checks

A zone is a function `dns` from questions to answers; a question is a type and a name,
or which of several attempts at it it is. An answer has a return code and the set of
records it brought. A record is what it parses to: the version tag it has, the values of
the tags that some later step reads, and a set of defects, which the module of its
check turns into issues by a table of severities. A domain, a host or a vendor is a
value. So each raw check is an operator from `dns` to a record of the fields that cards
and plan read, and each card one from that record to a status, a label and a set of
issues, both as in the code: every lookup in its order, every early return, which
attempt decides, what is tried when the first one fails, and which of the exceptions is
caught where.

`Report` has the steps of `run_full_audit` that change something: `Lose` (the network
loses a lookup, as a timeout or as a failure, before the checks have heard it),
`RunChecks`, `DrawCards`, `Correct`, `Advise`. That the checks run concurrently and may
be cut off is the subject of `AuditEngine`; here each gets what it asks for, or does
not. The certificate check is handed the results before the CAA check ran, as in the
code (`IssuersKnown`).

`SpfCheck.Walk` returns the lookups counted, those that found nothing, the queries spent
and what is not known, which is what the code threads through its mutable `budget` and
`visited`. It is a recursive function on the name, the names above it, the depth and
what is left of the budget.

### SharedLookups

An audit is a task of the shared pool that puts its lookups into the pool of probes and
holds its worker until they are in. A lookup takes a worker there unless a cache
answers it. The answer cache is keyed as dnspython's `LRUCache` is: NXDOMAIN under the
name alone, which is why `BoundedNegativeCache` does not keep it. The DKIM probes bypass
that cache and have a memo, counted from the asking. Then the audit stores its snapshot
in two statements, and its result is cached by scope, whose next audit is then a replay.
The operator publishes or removes the record at any time. The time of a tick is spent
waiting for replies only, since the program's own steps take next to none. The table may
start with rows of audits that are over (`Past`, written by `Earlier`). `Scopings` are the
ways the audits share scopes. `was`, `by` and `met` are history: what the record was when a
reply was sent, for whom, and which audits overlapped; so are the writer and the asker
(`by`, `asker`) of a row.

## 3. Runs

| Run | Bounds | Shows |
|---|---|---|
| `server` | 3 requests of any kinds, 2 keys, 2 slots, 1 queued progress message | all safety properties of the endpoints, and that they implement `AuditService` |
| `server_live` | 3 requests, 1 key, 2 slots | every request gets to its end |
| `limiter` | 6 requests, 4 addresses, budget 2 in a window of 2, table cap 2, clock 4 | the window bound, refusals, the table bound |
| `engine` | the scopes `deliverability` and `dns_security`, deadlines 0, 1 and 5 ticks of about 7 s, lookups of the audit thread of 1 tick, 1 fault beside any number of timeouts, 2 includes | the properties of a report's bookkeeping, the overrun, termination |
| `ct` | 3 calls, 2 domains | the properties of both tables |
| `client` | 3 audits, 2 pills; started at any await but the body of an error | the properties of the page, and that loading ends |
| `report` | 3,488 zones, 1 lost lookup each, of those the zone's family is about, and 2 in the families of `PairZones`; SPF limit 4 and budget 8, sweep stop at 2, certificate cap 2 | what a loss may change, the count, the plan, the advice, the headline |
| `lookups` | 2 audits of one scope or of two, a record of 2 values or none, a table with two rows, 1 change, 2 workers in each pool; cap 1, memo 1, TTL 2, result cache 3, 3 ticks | the fix is seen, the history, no pool waits for itself |
| `pdf_follower_cancelled`, `client_error_body`, `loss_fails`, `unheld_enforcement` | as above | the four findings of section 6 |

Why the bounds are enough. *Endpoints*: the hazards are between a leader, a follower and
a third request that leads after the first or wants its slot; two keys let a release hit
the wrong key, two slots make the cap reachable while one is held by a pdf follower. A
second queued message adds nothing, since the stream reads them one at a time and treats
them alike. *Limiter*: with a window of 2 and a clock of 4 all positions of a request
against a window edge occur, and six requests fill one address and overfill the table,
with and without stale addresses. *Engine*: the two scopes contain each kind of
dependency (two awaited mail checks with the DKIM dependence on SPF; the DNSSEC result
shared by Phase 1, the batch and DANE) and between them take every action. The deadlines
fall before the start, before Phase 1 ends, and late enough for everything. One *fault*
(an exception, or a transform that fails) is enough because the handling of each check
is separate, while the number of timeouts is not bounded. *CT*: two calls race in one
domain while the third fills the table to its cap with the other. *Client*: the page
keeps only the last audit started and the last result drawn, so two runs make every
overlap, and the third is started while one of them has unwound, shown or scheduled
something the other has not. *Report*: the checks are functions of disjoint parts of the
DNS, so the families vary one area each (records at the apex and below it, parents,
report destinations, which mail there is, policies held back, SPF trees, keys, DNSSEC,
mail hosts, nameservers, CAA, policies, BIMI, certificates) over one zone that publishes
everything, and families that cross areas exist where the code does (BIMI reads DMARC,
DANE reads MX and DNSSEC, the corrections and the summary read MX, SPF, DKIM and DMARC
together). Two losses meet where a check asks again what it was not told or goes on to
another answer: in the families of `PairZones` (`LossSpec`). For the others, and for
more losses, `LossesAreNoFinding` speaks of any number. The limit of SPF lookups is 4
rather than 10 so that small trees pass it, and the budget 8 so that some of them
exhaust it. SPF terms that name a host (`HostTree`) do so with a narrow, a wide and an open
range, for hosts with an address, with an IPv6 one only, and with none. *Lookups*: with
two workers in each pool, two audits fill both, and the second finds what the first left
in each cache before, at and after its expiry. One change of the record gives an absent
record that appears, a record that disappears and one that is changed to another value;
with two audits, one may still go by the old value while the other stores the new one. The
table's two rows hold both values, so an audit finds the latest row, the one before it, or
neither; a table that begins empty is left to `HistoryTellsHolds`.
The result cache outlives the negative answers, as `CACHE_TTL` does
(`LookupsAssumption`). The longest run takes about three minutes.

Deadlock is checked in the `server` runs, where `Idle` is the one state in which
nothing is left to do. In the others the behaviour ends when the calls or the audit
end.

Reductions. The `server` runs use symmetry of requests and keys; the refinement checked
there is a safety property, for which it is sound. `server_live` uses none and orders
requests by kind instead. `limiter` numbers the requests in order of arrival.

### Fairness

`FairSpec` of `AuditServer` assumes that the event loop resumes handlers whose await is
over, that a preflight answers (it has a DNS lifetime), that the wall clock reaches a
stream's budget (`server.py` 1240), and that an audit started by a json or pdf handler
ends, which is what `AuditEnds` says of the engine under its deadline. It assumes
nothing of a stream's audit thread, and nobody has to arrive, leave or be cancelled.
`FairSpec` of `AuditEngine` assumes that the thread runs and time passes, and of the
tasks in the pool nothing at all. `FairSpec` of `Client` assumes that timers fire, that an
abort unwinds, and that a JSON request is answered or fails: the code has no watchdog
there, so a connection that hangs in the fallback is ended by the browser or by nobody.
It assumes nothing of the stream, which may be silent for good. `Spec` of `SharedLookups`
assumes that some worker or audit that can take a step does: the threads of a pool run, and
every query ends, because the resolvers have a lifetime. The clock, the operator and
visitors need do nothing.

## 4. Properties

Each stands with its statement in words above its definition. The ones to read first:

- `NobodyStranded`, `SingleFlight`: the single-flight registry never strands a
  follower, and a late leader's cleanup never pops its successor. The json handler
  joins before it reserves and the pdf handler after, and the preflight lies between
  the pdf handler's reading of the cache and its reading of the registry.
- `ToldWhatHappened`: what a client is told of another request's audit is what became
  of that audit.
- `CacheHoldsAudits`: the cache holds finished audits only, and what an interrupted
  thread computes reaches no one.
- `LogTellsOutcome`: four ways to end a stream, one line, the right one.
- `ImplementsService`: with the handlers, awaits and futures taken away, what remains
  is a semaphore and a leader election.
- `OneCardEach`: eight places of the engine look at the deadline, at different times,
  and the end of it fills what is missing. `EndsClean`: the steps announced are the steps
  made, and no task is left in a pool.
- `BoundedOverrun`: the deadline is not a hard limit. What the code guarantees is that
  an audit gets to its end within Phase 1 and its lookups, or one batch timeout after the
  deadline, and then asks for the name servers, which nothing cuts short.
- `RealResultWins`: holds however calls of a domain interleave with evictions, and
  `OldOnlyAfterFailure` its converse.
- `NewestOwnsPage`, `NewestOwnsState`: an aborted run of the page unwinds after its
  successor has claimed the controller, the flag and the loading card, and its
  results may wait in a timer. `OutcomeShown` is their converse: the newest audit is
  never the one that is dropped.
- `TryAgainIsDue`: three kinds of failure look alike to `fetch`, and only some may be
  tried again without doubling the load of a server that is full.
- `LossIsNoFinding`: every card that an audit with losses can judge (`Judged`) is compared
  with the card the same zone has when no lookup is lost. A loss may make it unavailable,
  weaker or silent, but not red. `RestIsNoFinding` says so of what is left of many answers:
  an SPF walk with gaps, some pages of certificates, some selectors of APRF.
- `CountIsExact`: the walk of an SPF tree with budget, depth, loops and losses against
  the walk without them.
- `PlanIsCarriedOut`: rows pass through sorting, the note of inheritance, merging and
  three moves; none is lost or out of order.
- `AdviceSettles`: the record a plan leads to is published, the next audit is run, and
  its plan does not ask for the same again, or for the way back.
- `HeadlineHonest`: the headline, cards, plan rows, sender requirements, attack routes
  and the spoofing box, each computed from other fields, agree where the headline is
  green.
- `FixIsSeen`: an audit says "absent" only from a reply that was true when it was sent,
  no older than the cap, and not left behind by an earlier audit of its scope.
- `ChecksEnd`: no pool waits for itself. `HistoryTells`: what audits that overlap may do to
  the history, and no others. A row that repeats the one before is of an audit that ran
  beside the writer of that; a row that goes back to an older reply is of audits (writer or
  asker, since a cached reply is another's) that ran beside those of the row before; and
  when an audit has stored its record, a row says it, with only rows of audits it ran
  beside after it.

## 5. Proofs

The theorems hold for every number of requests, keys, slots, addresses, audits, scopes,
certificate calls and domains, for every past of the snapshot table and way to share scopes,
for every zone and set of lost lookups, and for every
lifetime and cap that the assumptions named in the modules (`ServerAssumption`,
`LimiterAssumption`, `EngineAssumption`, `CtAssumption`, `ClientAssumption`,
`LookupsAssumption`, `ZonesAssumption`) allow. `ZonesAssumption` says what a zone is: the
questions an audit asks of it (`Asked`) have answers, the same when the same is asked
again; they may be lost only as a lookup can be (`LossCodes`); a name has at least one label; and what
counts as a DMARC record has the tags of one, each with a value of its kind or a bad one.
`AdviceIsSettled` and `LossesAreNoFinding` use it.
`LookupsAssumption` asks that the result cache outlives a negative answer with the time its query took (`CACHE_TTL` is five minutes,
`NEGATIVE_TTL_CAP` two), and that the probe memo does not outlive one (`PROBE_MEMO_TTL`
is 20 seconds, `dns_tools.py` 317).

| Theorem | States | Rests on |
|---|---|---|
| `TypeCorrect` | `Spec => []TypeOK` (server) | `Typed`: what each `pc` says of the kind and of the future held |
| `SlotAccounting` | `Spec => []SlotsAccounted` | assumes `<<"sse", "preflight">>` is not in `CancelPoints` |
| `SingleFlightHolds` | `Spec => []SingleFlight` | `FlightInv`; assumes `<<"pdf", "follow">>` is not in `CancelPoints` |
| `NobodyIsStranded` | `Spec => []NobodyStranded` | the same invariant and assumption |
| `Implementation` | `Spec => ImplementsService` | `SlotAccounting`, `SingleFlightHolds`, and both their assumptions |
| `TruthIsTold` | `Spec => []ToldWhatHappened` | `TruthInv`; assumes `<<"pdf", "follow">>` is not in `CancelPoints` |
| `CacheIsSound` | `Spec => []CacheHoldsAudits` | the same |
| `LogIsTrue` | `Spec => []LogTellsOutcome` | `LogInv` on top of `TruthInv`, and the same assumption |
| `LimiterTyped` | `Spec => []TypeOK` (limiter) | inductive: `recent` holds admitted requests only |
| `WindowBoundHolds` | `Spec => []WindowBound` | `Records`, with the bound itself |
| `RefusalsJustified` | `Spec => RefusedOnlyWhenSpent` | `Records` |
| `TableBoundHolds` | `Spec => []TableBounded` | an eviction leaves at most the cap, since the half of at most one more is no more than it |
| `Typed` | `Spec => []TypeOK` (engine) | inductive |
| `OneCard` | `Spec => []OneCardEach` | `CardInv`: where the card of each check is due |
| `VerdictsRestOnAnswers` | `Spec => []VerdictMeansAnswer` | `CardsTrue`, with `CardInv` and `Settled` |
| `DnssecFirst` | `Spec => []DaneKnowsDnssec` | `Settled` |
| `FailuresAreListed` | `Spec => []IncompleteIsSaid` | `CardsTrue` |
| `Overrun` | `Spec => []BoundedOverrun` | `TimeInv`: the limit of each wait, and one lookup of each kind |
| `LeavesNothing` | `Spec => []EndsClean` | `Counted` and `Clean`, with `CardInv` |
| `CtTyped` | `Spec => []TypeOK` (CT cache) | the tables may be of any size: an eviction always has a set to take |
| `AnswersStored` | `Spec => []OnlyAnswersStored` | `Entered` |
| `RealWins` | `Spec => []RealResultWins` | `Covering` |
| `OldAfterFailure` | `Spec => []OldOnlyAfterFailure` | `Justified` |
| `ClientTyped` | `Spec => []TypeOK` (client) | `Answered`: how many requests of a run have been answered by each await |
| `NewestOwnsStateHolds` | `Spec => []NewestOwnsState` | `Order`: an older run is aborted or over |
| `NewestOwnsPageHolds` | `Spec => []NewestOwnsPage` | `Owned`; assumes `QuietBodies` |
| `OutcomeShownHolds` | `Spec => []OutcomeShown` | `Shown` on top of `Owned`; assumes `QuietBodies` |
| `PillsTellQuestionHolds` | `Spec => []PillsTellQuestion` | `Lit` |
| `TryAgainIsDueHolds` | `Spec => []TryAgainIsDue` | `Refusals` and `Retries` |
| `FixIsSeenHolds` | `Spec => []FixIsSeen` | `Memory` and `Told`, on top of `Typed` |
| `NoPoolWaitsHolds` | `Spec => []NoPoolWaits`, what `ChecksEnd` needs beside fairness | `Placed`, on top of `Typed` |
| `HistoryTellsHolds` | `Spec => []HistoryTells` | `Order` and `Stored`, with `Memory` and `Told`, on top of `Typed` |
| `PlanCarriesOut` | `Spec => []PlanIsCarriedOut` | `Stages`, and the lemmas about the sort, the rows and the change set |
| `GreenIsBacked` | `Spec => []HeadlineHonest` | `Stages`, and the lemmas about the cards and the headline |
| `AdviceIsSettled` | `Spec => []AdviceSettles` | `Stages`, `RowsFit`, and the lemmas about the edit, the next audit, the target and the way to it; uses `ZonesAssumption` |
| `LossesAreNoFinding` | `Spec => []LossIsNoFinding` | `Stages` and `LostAreAsked`, and one lemma for each card; uses `ZonesAssumption` |

*Slots.* `active = Cardinality(Holders)` is inductive with the typing: every action
adds its request to `Holders` and one to the counter, removes both, or touches neither.
The lemmas state what adding and removing one element does to the cardinality. The
assumption is needed: a stream's handler that is cancelled during its preflight runs
no `except Exception` and leaves its slot taken (`CancelSsePreflight`).

*Single flight.* `SingleFlight` and `NobodyStranded` are inductive only together and with
`Typed`, which adds who may hold which future: a leader holds its own, a follower some
request's, and a request that has not started none. Without it a handler's cleanup
could pop an entry that is not its own. A pdf follower that is cancelled does just
that: hence the assumption, and the first finding below.

*Refinement.* Every action of `AuditServer` is a step of `AuditService` under the mapping
`Service`, or changes none of its variables. Arrivals, the four ways to a slot, and every
way out of a handler are service steps; audit threads, the cache and the body of a stream
stutter. `SlotsAccounted` gives the semaphore's bound, and `SingleFlight` that the one
who leaves drops its own key and nobody else's.

*Truth.* `Told(e, f, k)` says what outcome e of the audit of f under key k means, in facts
that last: an audit thread that ended stays as it ended, and so does a request that is
over (`Lasting`). So whatever is `Told` stays so (`ToldStays`), and the result can be
handed from thread to queue, future, follower and client, or into the cache, at any time
later. `Honest(r)` says of each place in which r can hold a result that it is `Told`;
each action moves one request (`OneMoves`) and has to show it for that one alone.
The assumption is that of single flight: a pdf follower that is cancelled resolves its
leader's future with an error that did not happen.

*Log.* `Logged(r)` says how many lines r has left by each await, and that the line agrees
with the answer (`Says`). A follower logs what it reads from its leader's payload, so
`Logged` adds that a payload is marked as refused just if its error is one of the
preflight's; that it means what it says comes from `TruthInv`.

*Limiter.* `WindowBound` speaks of windows that have passed, while the code knows only
timestamps it still keeps. `Records` says that every admitted request of an
address that was never forgotten is still in `recent` as long as it is within a window
of now, and that nothing else is. An admission then adds one to windows that end now,
whose count is that of `Live`, and a tick only slides them on.

*Engine.* One invariant by the audit thread's place. `CardInv` says of each check that it has
no card before the place where its card is drawn (`Undrawn`) and one after it, unless the
time was up; so no place draws a second card, and the last one, past the deadline,
fills in what is missing. Without it `CardsTrue` would not be inductive: the batch may
replace a DKIM answer by the mark of a timeout, which is sound only because DKIM has no
card by then (`Keeps`). `TimeInv` bounds the limit of each wait by the phase it belongs to:
the waits of Phase 1 share one limit but for the reports or the organizational domain, of
which an audit asks for one, and one CNAME (`MostOfPhase1`, `OneCname`); the others end no
later than a batch that was started just in time; and the name servers are asked for once,
by the step that ends the audit (`Closing`). `Counted` gives the step
counter's value at each place, exactly until the batch and from there unless the time was
up; while the batch is collected it is the counter and the number of the uncollected
together that stay the same. `Clean` says which futures will still be looked at from each
place (`Ahead`) and that no other is pending.

*CT cache.* No entry is newer than now (`Times`), what a call has learnt changes only when it
asks (`Progressed`), and an entry names a call of its domain that answered, or fell silent,
just so (`Entered`). A call is `covered` as long as a real result has been stored for
its domain ever since it began: an eviction or an overwriting by another call ends that, and
nothing else does, so whenever the call looks there is a real result to serve
(`Covering`). `Justified` keeps the failure a call falls back on: its own, or that of a call
of the domain whose silence was still remembered.

*Client.* `Order` says that only the newest run can be at work without being aborted, so
whoever takes an event owns the state (`OnlyNewestMoves`), and whoever ends without
owning it is unwinding. `Owned` adds that such a run was not stopped by its watchdog and is
not at the body of an error, so it says nothing; and that a timer that would still
show a result belongs to a newest run that is over. `QuietBodies` keeps visitors from
starting an audit during the body of an error, which is the second finding.

`Shown` says what each way out of the newest run leaves on the page: an error, or results
that are visible or will be by a timer; the timer is the run's own, and only its watchdog
can have aborted it. `Lit` ties the pills to the result that is drawn, or to the visitor
who has touched them since. `Refusals` counts the requests of a run that was turned away,
one, and `Retries` says that the retries of a certificate card come one after another, the
automatic one first, and that the note of a card that is asked for again says so.

*Shared lookups.* `Typed` carries what the pools are about: a task is handed in once and
runs once (`TasksInv`), lookups belong to a check that is under way (`Stages`), two audits
that run have met (`Beside`), and no entry comes from the future (`Clock`). `Placed`
adds that a check under way is queued or runs, that each of its lookups is too, and that
no worker has anything else: so a check that waits for a worker waits for one that waits
for lookups, and these for workers that wait for nothing but a reply. An absent
answer is the dangerous one, for it may outlive the fix. `Stays(e)` says of one that is kept
that it goes before the result of the audit that got it does: while that audit runs, in
no more than the cap of negative answers from now, and when it is done, no later than
the cap after its result was stored. That result is what makes an audit of the same
scope begin without a lookup, so an audit that does look has met the one whose answer it
is given, or began after the answer had gone; `Fresh` says so of every absent answer an
audit goes by. The two lifetimes of `LookupsAssumption` are what this argument needs.

`HistoryTells` needs no audit to be alone. `Known` are the times of the replies that an
audit goes by, the cache keeps or a row rests on, each with the audit that asked. `Order` says
that whoever got a later reply than one that is cached ran beside the audit that got that
one, and whoever got a later one than an audit goes by, beside that audit or the one that
asked: so when an audit finds an older reply in the cache than one of its predecessors got,
the two that asked had run at once. `Stored`
carries the rows through the two statements: an audit between them remembers a row after
which only audits it ran beside have added others (`Saw`, `Since`), so that what it inserts, or
finds already there, stays with only theirs after it (`Left`).

*Report.* Nothing runs beside a report's steps, so `Stages` only says which function of the
zone each variable is by each phase; the work is in those functions. The sort is stated over sets: an element goes to the place that is
the number of those that do not come after it (`Place`), which `OrderSorts` shows to be a
bijection that respects the keys, so that a sorted list has the same elements
(`ReorderedIs`) and a filtered one the elements kept, in their order (`KeptIs`). Every
move in the change set is such a sort: `ReorderKeeps`, then one lemma for each of the
orders it makes, and that the later moves keep the earlier ones.

What rows rest on is `Fits`: a row is about a card that could be read, only DMARC's are
held back, and a critical one is about a red card. It has to be shown for each rule of the
roadmap (`DmarcRowsFit` to `InheritanceFits`), and it follows only if the view those rules
read is consistent with the cards, which is `Backed`: the rules look at raw results, at
labels and at flags computed for another panel, and whether a red result can go with
a green card is settled by the card and by the corrections that come after it.
`ResultsAre` and the lemmas before it say so of each card the rules read, `CorrectedIs` of
the corrections, and `ReportIsBacked` of the report. This is where the waived DKIM card of
section 6 came to light: without the condition on it, the lemma is false. `RowsFit` and
the change set give `PlanCarriesOut`. For the headline, `GreenSays` spells out what a green
one means for the record, the routes and the cards; `RejectCloses` and `ClosedIsProtected`
tie that to the box beside it, and `RequirementsFail` to the requirements of senders.

The advice is about two audits, the one that gives it and the next. `Fits` says of
a row that edits the record which defect of the record calls for it (`CalledFor`), and
that the value it gives a tag depends on the record and the tag alone (`Wanted`): so rows
that set the same tag agree, and their merging loses none of them (`MergedIs`,
`EditIsMerged`). The record published then has the values of `EditedAs`; `LevelsRise`
says that no policy of it is weaker, and `EditIsDone` that it no longer calls for a row of the
same kind, but for sp and np (`Followers`) after a p that was raised above them. Whether
the next audit reads that record at all is `NextAuditIs`: the checks of the domain's mail
do not look at it, a domain with one record of its own has a view of its own
(`OwnViewIs`), and one that was defensive stays so (`DefenseStays`). `EndStateRests` says
the same of the target, and `StepClimbs` of each step of the way: a list of records in which
no policy is below the one before stays such a list.

*Losses.* `LostAreAsked`, inductive beside `Stages`, says that what is lost are questions
of the zone at hand. So each question of the audit has the answer it has without losses,
or none (`EachIsHeard`), and the rest is about two functions from zone to cards, whatever
the number of losses. For each check a lemma says that what makes its card red can be read
off answers that did arrive, and so is there with every answer in (`MxIsTold` to
`BimiIsTold`); a check that stops early or asks on because of a loss is where this is
hard: the sweep of DKIM selectors (`SweepIsTold`), the servers of a name (`QueryIsTold`),
and the tree walk, which with losses sees a part of what it sees without (`WalkTells`), so
that a policy it inherits is the same one (`PolicyIsTold`). The corrections judge a card
by other cards: `DirectionTells` says that both audits take the domain for the same kind
of sender, and `CrossCheckIsTold` that a policy held against SPF and DKIM is held against
them in both. Each condition of `Judged` is one that a lemma here is false without.

Only model-checked:

- `EveryRequestEnds`, `AuditEnds`, `LoadingEnds` and `ChecksEnd`: liveness under fairness is
  out of the prover's reach. `NoPoolWaits`, of `ChecksEnd`, is the part that is not: for a
  check that is not over, the guard of some action of `Work` holds (`Ready` spells the
  guards out, since ENABLED is out of reach too).
- `CountIsExact` and `RestIsNoFinding`: they are about what the recursive `Walk` computes for
  every SPF tree, and about the pages of certificates and the selectors of APRF that are added up one by one,
  inductions over data, which the provers cannot instantiate.

## 6. Where the code and its words differ

Shown by runs:

1. `ToldWhatHappened` in `pdf_follower_cancelled`: a pdf follower that is cancelled
   while it waits still holds the leader's future, so its `finally` pops the registry
   entry and resolves that future with an error, while the leader works on. Other
   followers are told that the audit failed, and the next request starts a second one.
   The json handler shields the future, the pdf handler does not tell its own from
   another's.
2. `NewestOwnsPage` in `client_error_body`: an audit started while the body of the last
   one's error response is on its way aborts it, `.json().catch(() => ({}))` takes the
   abort for an empty body, and the old run shows its error over the new one's progress
   (`app.js` 564 and 642). The page recovers when the new audit ends.
3. `LossNeverFails` in `loss_fails`: BIMI is told that there is no DMARC record when the
   audit could not read it (`audit_engine.py` 5732), and its card is red.
4. `EnforcementIsHeld` in `unheld_enforcement`: dropping `pct=0` or `t=y` makes a policy
   apply, but `makes_enforcing` (`plan_records.py` 300) looks at p, sp and np only, so
   the step is neither held back nor moved behind those about senders.

Met while modelling, and modelled as the code has them:

- The cross-check takes `effective_policy` from the tree walk without looking at
  `walk_incomplete` (`audit_engine.py` 6199 and 6223). A DMARC card that says "Not checked",
  because a level of the walk could not be read, is then taken to red or amber (6355) by the
  policy from beyond that level, although `dmarc_tree_walk.py` 208 says that a "consumer must
  not state an inherited policy across a level the walk could not see".
- A stream that times out gives its slot back while its audit thread runs to its next
  callback, so more audits run than `MAX_CONCURRENT_AUDITS` (`server.py` 1322; `README.md`
  154 says "Audits running at once").
- A pdf request that joined a leader refused for a DNS timeout gets a 400, while a
  leader gets a 503 (`server.py` 1524 and 1499).
- `response_too_large` is stored for a day like a real result, and a retry serves it
  without asking (`audit_engine.py` 4287 and 4294).
- The certificate check never compares its issuers with CAA in an audit, since it gets a
  copy of the results made before CAA ran (`audit_engine.py` 5954); only the retry does.
- A null MX beside an SPF record that could not be read counts as sending no mail, and
  DKIM passes as "Not applicable".
- With an inherited policy and a malformed record of its own, the plan edits the record
  of the name and gives the parent's host for it.
- The way to p=reject starts from `p` as written and does not end at reject when p is
  missing or not a policy. An edit that raises p can leave sp or np behind, for which
  the plan asks in the next audit (`Followers`).
- The record shown as "the one enforcement end state" keeps `np=quarantine` beside its
  `p=reject` (`result_transformer.py` 5896 raises `none` only), and the next audit has a
  row that asks for `np=reject` (2406). One that declares `psd=y` is never ready.
- The DKIM card of a defensive domain that has no mail becomes "Not applicable" and green
  whatever it said (`audit_engine.py` 6134). A selector that points at a name nobody has
  registered stays in the plan as a critical row, under a green headline, although
  `result_transformer.py` 7018 and `tests/test_dkim_dangling_cname.py` 76 say that such a
  card is red for a domain that sends no mail too.
- A DNSKEY or DS lookup that is lost can show as "Signed but unanchored"; a lost address of
  a mail host as a dangling MX; a lost CAA lookup at a nearer name as the parent's policy;
  DANE as absent when TLSA was lost at one host.
- MTA-STS is "Not applicable" when the MX records were lost; a policy host at a private
  address hides an error of the `id`.
- Nameservers are red as "Missing" when a name without NS records loses its SOA lookup.
- A name that inherits `p=reject` with `np=none`, and whose SPF record authorizes everybody,
  is told in green "Your domain is protected against spoofing" beside a red SPF card, a
  critical row of the plan and a box that says "Bypassed": `_headline` looks at
  broken records only when no route is exposed (`result_transformer.py` 901), and reads an
  inherited policy without its subdomain tags (931). The verdict names the open route
  instead of the broken record, and `tests/test_verdict_names_broken_records.py` 1 says that
  it "agrees with the DMARC, SPF and DKIM cards".
- A domain that declares that it has no mail keeps a green headline with `sp=none`,
  `t=y` or `pct=0`, and so does one that inherits a policy whose sp is not valid.
- "All in place" may be said while SPF is red for a reason that only has a medium row.
- An SPF term that lets everyone in, like `a:host/0`, is not listed as open when its host has
  no address (`spf_recursive.py` 441, 620). When the lookup of that host is lost, its
  status is "error", the term is listed, and the card is red (`audit_engine.py` 2905),
  although `docs/decisions/2026-09-02-failed-lookup-is-not-a-finding.md` says that a failed
  lookup is not a finding.
- The name servers are asked for after the deadline, by the audit thread and with no look
  at the time (`audit_engine.py` 6709): `BoundedOverrun` has to grant them.
- Two audits at once may each insert the same change, or the older answer last
  (`dns_snapshots.py` 75).

Hence the conditions in `LossIsNoFinding` (`Judged`: the direction of mail is known, an
inherited policy was read to its end, the sweep and the delegation check asked what they
would have asked), `RestIsNoFinding` (`Told`, with `OpenedByLoss` for the term above),
`AdviceSettles` (`Unsettled`), `HeadlineHonest` (`Overlooked`, `DkimWaived`) and
`HistoryTells`.

## 7. Not modelled

- Parsing, wording and layout: a record is what it parses to. Vendor tables, the sender
  map, the PDF, static pages, configuration and operator tools are input and output.
- Panels that restate a card or describe it: the SPF execution table and its drawing,
  the change panel, anomalies, resilience and consistency notes, the subdomain audit,
  provider intelligence, the suggested SPF record, key rotation advice beyond its grade.
- Step check asks one question, afresh and without the caches, and compares.
- Of the resolvers, the upstream caches; of the snapshots, the purge after 90 days and
  statements the database refuses, which cost the history a row; of the DKIM sweep, its
  waves, which bound how many probes are sent before it stops.
- Of the page, the title, although a late answer of a certificate retry may set it
  while a newer audit runs.
- Vendor evidence in the DMARC plan: whether the senders of the sender map are covered
  decides the wording of a stage, not the stage.

## 8. Plan

Done: `AuditServer` with `AuditService`, `RateLimiter`, `AuditEngine`, `CtCache`, `Client`;
the checks, cards and the plan (`Report`); `SharedLookups`. What would add most next:

1. The panels beside the cards (anomalies, changes, resilience), each of which draws a
   conclusion from several raw results.
2. The waves of the DKIM sweep, with the pool split by size, beside zombie audits.
