------------------------------ MODULE AuditServer ------------------------------
(***************************************************************************)
(* The audit endpoints of server.py: GET /api/audit (json), its PDF report  *)
(* (pdf) and the server-sent event stream (sse), with the state they share  *)
(* in the one worker process: the concurrency budget _active_audits, the    *)
(* single-flight registry _inflight and the result cache _cache.            *)
(*                                                                         *)
(* The handlers are coroutines of one event loop, so a handler runs         *)
(* undisturbed from one await to the next: an action is such a segment.     *)
(* Audits run on threads beside the loop, and a thread is not stopped when  *)
(* the handler that started it goes away.                                   *)
(***************************************************************************)
EXTENDS Integers, Sequences, FiniteSets

CONSTANTS Requests,      \* the requests of a behaviour, each made at most once
          Keys,          \* cache keys "domain:selector:scope"
          MaxAudits,     \* MAX_CONCURRENT_AUDITS
          NoOne,         \* no request: an empty registry or cache entry
          Pending,       \* a future that holds no result yet
          CancelPoints,  \* the <<kind, pc>> awaits at which a handler task may be cancelled
          QueueBound     \* bound on the progress messages waiting in one stream's queue

Kinds == {"json", "pdf", "sse"}
Awaits == {"preflight", "audit", "follow", "render", "stream", "closing"}

VARIABLES
  pc,        \* pc[r]: where the handler of r is suspended
  kind,      \* kind[r]: which endpoint r called
  key,       \* key[r]: its cache key
  active,    \* _active_audits
  inflight,  \* _inflight: the request whose future is registered under a key
  future,    \* future[r]: the asyncio.Future r created as leader
  joined,    \* joined[r]: the future r's handler holds, by its creator
  source,    \* source[r]: the audit whose data a pdf request renders
  cache,     \* _cache: the audit whose result is cached under a key
  worker,    \* worker[r]: the audit thread r started
  stop,      \* stop[r]: cancel_event of a stream is set
  queue,     \* queue[r]: progress_q of a stream
  answer,    \* answer[r]: what the client of r was told
  logs       \* logs[r]: the statuses of the audit-log lines of r

request == <<kind, key>>
threads == <<worker, stop, queue>>
vars == <<pc, kind, key, active, inflight, future, joined, source, cache,
          worker, stop, queue, answer, logs>>

PreflightErrors == {"domain_not_found", "dns_broken", "timeout"}
ErrorCodes == PreflightErrors \cup {"server_error", "cancelled"}

\* A result dict as the followers see it: its "error" (or "none"), the
\* _refused marker, and the audit it came from.
Payloads == [error : ErrorCodes \cup {"none"}, refused : BOOLEAN, from : Requests]
Result(r) == [error |-> "none", refused |-> FALSE, from |-> r]
\* Mutant: no payload is handed over as an empty result, which reads as an audit
\* that found nothing.
FailedAsEmpty(r) == [error |-> "none", refused |-> FALSE, from |-> r]
Failed(r) == [error |-> "server_error", refused |-> FALSE, from |-> r]
Refused(r, e) == [error |-> e, refused |-> TRUE, from |-> r]

ASSUME ServerAssumption ==
  /\ IsFiniteSet(Requests) /\ NoOne \notin Requests
  /\ MaxAudits \in Nat \ {0}
  /\ CancelPoints \subseteq Kinds \X Awaits
  /\ QueueBound \in Nat
  /\ Pending \notin Payloads

\* status 0: nothing was delivered, the client or the task is gone.
NoAnswer == [status |-> 0, error |-> "none", from |-> NoOne]
Answers == [status : {0, 200, 400, 429, 500, 503},
            error : ErrorCodes \cup {"none", "server_busy"},
            from : Requests \cup {NoOne}]
Reply(status, error, from) == [status |-> status, error |-> error, from |-> from]
Messages == {"step", "ok", "failed", "interrupted"}
LogStatuses == {"ok", "error", "refused", "timeout", "abandoned"}

TypeOK ==
  /\ pc \in [Requests -> Awaits \cup {"new", "done"}]
  /\ kind \in [Requests -> Kinds]
  /\ key \in [Requests -> Keys]
  /\ active \in Int
  /\ inflight \in [Keys -> Requests \cup {NoOne}]
  /\ future \in [Requests -> Payloads \cup {Pending}]
  /\ joined \in [Requests -> Requests \cup {NoOne}]
  /\ source \in [Requests -> Requests \cup {NoOne}]
  /\ cache \in [Keys -> Requests \cup {NoOne}]
  /\ worker \in [Requests -> {"none", "running", "ok", "failed", "interrupted"}]
  /\ stop \in [Requests -> BOOLEAN]
  /\ queue \in [Requests -> Seq(Messages)]
  /\ answer \in [Requests -> Answers]
  /\ logs \in [Requests -> Seq(LogStatuses)]

Init ==
  /\ pc = [r \in Requests |-> "new"]
  /\ kind \in [Requests -> Kinds]
  /\ key \in [Requests -> Keys]
  /\ active = 0
  /\ inflight = [k \in Keys |-> NoOne]
  /\ future = [r \in Requests |-> Pending]
  /\ joined = [r \in Requests |-> NoOne]
  /\ source = [r \in Requests |-> NoOne]
  /\ cache = [k \in Keys |-> NoOne]
  /\ worker = [r \in Requests |-> "none"]
  /\ stop = [r \in Requests |-> FALSE]
  /\ queue = [r \in Requests |-> <<>>]
  /\ answer = [r \in Requests |-> NoAnswer]
  /\ logs = [r \in Requests |-> <<>>]

-----------------------------------------------------------------------------

Go(r, p) == pc' = [pc EXCEPT ![r] = p]
Tell(r, a) == answer' = [answer EXCEPT ![r] = a]
Log(r, status) == logs' = [logs EXCEPT ![r] = Append(@, status)]
Transient(e) == e \in {"timeout", "dns_broken"}

\* _release_inflight(key[r], f, payload): pop the key if it still names f, and
\* resolve f unless it is resolved already.
ReleaseInflight(r, f, payload) ==
  /\ inflight' = IF inflight[key[r]] = f THEN [inflight EXCEPT ![key[r]] = NoOne] ELSE inflight
  /\ future' = IF future[f] = Pending THEN [future EXCEPT ![f] = payload] ELSE future

\* Mutant: nothing usable to hand over, so the future is forgotten.
LeaveUnresolved(r, payload) ==
  IF joined[r] = NoOne \/ payload.error = "server_error"
  THEN UNCHANGED <<inflight, future>> ELSE ReleaseInflight(r, joined[r], payload)

\* The finally block of a handler that may hold a future (its own when it leads).
LeaveInflight(r, payload) ==
  IF joined[r] = NoOne THEN UNCHANGED <<inflight, future>>
                       ELSE ReleaseInflight(r, joined[r], payload)

\* Mutant: the result's code goes to the log as it is.
AuditStatusRaw(error) == error
\* _audit_status and _joined_status: the audit-log status of a result dict.
AuditStatus(error) ==
  CASE error = "none" -> "ok"
    [] error = "timeout" -> "timeout"
    [] error = "cancelled" -> "abandoned"
    [] OTHER -> "error"
\* Mutant: the _refused marker is ignored.
JoinedStatusUnmarked(p) == AuditStatus(p.error)
JoinedStatus(p) == IF p.refused THEN "refused" ELSE AuditStatus(p.error)

-----------------------------------------------------------------------------
(* A request arrives: everything up to the first await of its handler.       *)

\* The rate limit (429) or a validator (400) turns the request away. A stream
\* peeks at the budget first and words its refusal as an event.
TurnAway(r) ==
  /\ pc[r] = "new"
  /\ kind[r] = "sse" => active < MaxAudits
  /\ \E status \in {400, 429} : Tell(r, Reply(status, "none", NoOne))
  /\ Go(r, "done")
  /\ UNCHANGED <<request, active, inflight, future, joined, source, cache, threads, logs>>

\* The budget is spent. A json request leads and resolves its own future within
\* the segment, so nobody can have joined it; a stream says so as an event.
Busy(r) ==
  /\ pc[r] = "new" /\ active >= MaxAudits
  /\ kind[r] = "json" => cache[key[r]] = NoOne /\ inflight[key[r]] = NoOne
  /\ Tell(r, Reply(503, "server_busy", NoOne))
  /\ Go(r, "done")
  /\ UNCHANGED <<request, active, inflight, future, joined, source, cache, threads, logs>>

CacheHit(r) ==
  /\ pc[r] = "new" /\ kind[r] \in {"json", "sse"}
  /\ kind[r] = "sse" => active < MaxAudits
  /\ cache[key[r]] # NoOne
  /\ Tell(r, Reply(200, "none", cache[key[r]]))
  /\ Log(r, "ok")
  /\ Go(r, "done")
  /\ UNCHANGED <<request, active, inflight, future, joined, source, cache, threads>>

JsonJoins(r) ==
  /\ pc[r] = "new" /\ kind[r] = "json"
  /\ cache[key[r]] = NoOne /\ inflight[key[r]] # NoOne
  /\ joined' = [joined EXCEPT ![r] = inflight[key[r]]]
  /\ Go(r, "follow")
  /\ UNCHANGED <<request, active, inflight, future, source, cache, threads, answer, logs>>

JsonLeads(r) ==
  /\ pc[r] = "new" /\ kind[r] = "json"
  /\ cache[key[r]] = NoOne /\ inflight[key[r]] = NoOne
  /\ active < MaxAudits
  /\ active' = active + 1
  /\ inflight' = [inflight EXCEPT ![key[r]] = r]
  /\ joined' = [joined EXCEPT ![r] = r]
  /\ Go(r, "preflight")
  /\ UNCHANGED <<request, future, source, cache, threads, answer, logs>>

\* Mutant: off by one at the cap.
SseReservesOneMore(r) ==
  /\ pc[r] = "new" /\ kind[r] = "sse"
  /\ cache[key[r]] = NoOne /\ active <= MaxAudits
  /\ active' = active + 1
  /\ Go(r, "preflight")
  /\ UNCHANGED <<request, inflight, future, joined, source, cache, threads, answer, logs>>

SseReserves(r) ==
  /\ pc[r] = "new" /\ kind[r] = "sse"
  /\ cache[key[r]] = NoOne /\ active < MaxAudits
  /\ active' = active + 1
  /\ Go(r, "preflight")
  /\ UNCHANGED <<request, inflight, future, joined, source, cache, threads, answer, logs>>

\* A pdf request reserves before it reads the cache: rendering costs a slot too.
PdfReserves(r) ==
  /\ pc[r] = "new" /\ kind[r] = "pdf"
  /\ active < MaxAudits
  /\ active' = active + 1
  /\ \/ /\ cache[key[r]] # NoOne
        /\ source' = [source EXCEPT ![r] = cache[key[r]]]
        /\ Log(r, "ok")
        /\ Go(r, "render")
     \/ /\ cache[key[r]] = NoOne
        /\ Go(r, "preflight")
        /\ UNCHANGED <<source, logs>>
  /\ UNCHANGED <<request, inflight, future, joined, cache, threads, answer>>

-----------------------------------------------------------------------------
(* The preflight DNS check answers.                                          *)

PreflightRefuses(r) ==
  /\ pc[r] = "preflight"
  /\ \E e \in PreflightErrors :
       /\ LeaveInflight(r, Refused(r, e))
       /\ Tell(r, Reply(IF kind[r] # "pdf"      THEN 200
                        ELSE IF Transient(e)    THEN 503
                        ELSE 400, e, NoOne))
  /\ active' = active - 1
  /\ Log(r, "refused")
  /\ Go(r, "done")
  /\ UNCHANGED <<request, joined, source, cache, threads>>

\* The check raises something that is not a DNS error, or the stream's audit
\* thread cannot be started.
PreflightRaises(r) ==
  /\ pc[r] = "preflight"
  /\ LeaveInflight(r, Failed(r))
  /\ Tell(r, Reply(IF kind[r] = "sse" THEN 200 ELSE 500, "server_error", NoOne))
  /\ active' = active - 1
  /\ Go(r, "done")
  /\ UNCHANGED <<request, joined, source, cache, threads, logs>>

JsonAudits(r) ==
  /\ pc[r] = "preflight" /\ kind[r] = "json"
  /\ worker' = [worker EXCEPT ![r] = "running"]
  /\ Go(r, "audit")
  /\ UNCHANGED <<request, active, inflight, future, joined, source, cache, stop, queue, answer, logs>>

SseStreams(r) ==
  /\ pc[r] = "preflight" /\ kind[r] = "sse"
  /\ worker' = [worker EXCEPT ![r] = "running"]
  /\ Go(r, "stream")
  /\ UNCHANGED <<request, active, inflight, future, joined, source, cache, stop, queue, answer, logs>>

\* Mutant: a pdf request always runs its own audit.
PdfAlwaysLeads(r) ==
  /\ pc[r] = "preflight" /\ kind[r] = "pdf"
  /\ inflight' = [inflight EXCEPT ![key[r]] = r]
  /\ joined' = [joined EXCEPT ![r] = r]
  /\ worker' = [worker EXCEPT ![r] = "running"]
  /\ Go(r, "audit")
  /\ UNCHANGED <<request, active, future, source, cache, stop, queue, answer, logs>>

\* The cache was read before the preflight await and is not read again.
PdfLeads(r) ==
  /\ pc[r] = "preflight" /\ kind[r] = "pdf"
  /\ inflight[key[r]] = NoOne
  /\ inflight' = [inflight EXCEPT ![key[r]] = r]
  /\ joined' = [joined EXCEPT ![r] = r]
  /\ worker' = [worker EXCEPT ![r] = "running"]
  /\ Go(r, "audit")
  /\ UNCHANGED <<request, active, future, source, cache, stop, queue, answer, logs>>

PdfJoins(r) ==
  /\ pc[r] = "preflight" /\ kind[r] = "pdf"
  /\ inflight[key[r]] # NoOne
  /\ joined' = [joined EXCEPT ![r] = inflight[key[r]]]
  /\ Go(r, "follow")
  /\ UNCHANGED <<request, active, inflight, future, source, cache, threads, answer, logs>>

-----------------------------------------------------------------------------
(* The audit thread: run_full_audit and, for a stream, _run_audit around it. *)

\* A progress callback. It is the only point at which a thread notices that its
\* stream has gone.
WorkerReports(r) ==
  /\ worker[r] = "running" /\ kind[r] = "sse"
  /\ \/ /\ ~stop[r] /\ Len(queue[r]) < QueueBound
        /\ queue' = [queue EXCEPT ![r] = Append(@, "step")]
        /\ UNCHANGED worker
     \/ /\ stop[r]
        /\ queue' = [queue EXCEPT ![r] = Append(@, "interrupted")]
        /\ worker' = [worker EXCEPT ![r] = "interrupted"]
  /\ UNCHANGED <<pc, request, active, inflight, future, joined, source, cache, stop, answer, logs>>

WorkerFinishes(r) ==
  /\ worker[r] = "running"
  /\ \E outcome \in {"ok", "failed"} :
       /\ worker' = [worker EXCEPT ![r] = outcome]
       /\ queue' = IF kind[r] = "sse" THEN [queue EXCEPT ![r] = Append(@, outcome)] ELSE queue
  /\ UNCHANGED <<pc, request, active, inflight, future, joined, source, cache, stop, answer, logs>>

-----------------------------------------------------------------------------
(* The handlers resume.                                                      *)

JsonFinishes(r) ==
  /\ pc[r] = "audit" /\ kind[r] = "json" /\ worker[r] \in {"ok", "failed"}
  /\ LET payload == IF worker[r] = "ok" THEN Result(r) ELSE Failed(r)
     IN  /\ ReleaseInflight(r, r, payload)
         /\ Log(r, AuditStatus(payload.error))
         /\ Tell(r, Reply(200, payload.error, r))
  /\ cache' = IF worker[r] = "ok" THEN [cache EXCEPT ![key[r]] = r] ELSE cache
  /\ active' = active - 1
  /\ Go(r, "done")
  /\ UNCHANGED <<request, joined, source, threads>>

JsonFollows(r) ==
  /\ pc[r] = "follow" /\ kind[r] = "json" /\ future[joined[r]] # Pending
  /\ LET payload == future[joined[r]]
     IN  /\ Log(r, JoinedStatus(payload))
         /\ Tell(r, Reply(200, payload.error, payload.from))
  /\ Go(r, "done")
  /\ UNCHANGED <<request, active, inflight, future, joined, source, cache, threads>>

PdfAudited(r) ==
  /\ pc[r] = "audit" /\ kind[r] = "pdf" /\ worker[r] = "ok"
  /\ cache' = [cache EXCEPT ![key[r]] = r]
  /\ source' = [source EXCEPT ![r] = r]
  /\ Log(r, "ok")
  /\ Go(r, "render")
  /\ UNCHANGED <<request, active, inflight, future, joined, threads, answer>>

PdfAuditFails(r) ==
  /\ pc[r] = "audit" /\ kind[r] = "pdf" /\ worker[r] = "failed"
  /\ LeaveInflight(r, Failed(r))
  /\ active' = active - 1
  /\ Log(r, "error")
  /\ Tell(r, Reply(500, "server_error", r))
  /\ Go(r, "done")
  /\ UNCHANGED <<request, joined, source, cache, threads>>

\* A pdf follower drops the future, so that its finally leaves it alone, and
\* keeps its slot for the rendering.
PdfFollows(r) ==
  /\ pc[r] = "follow" /\ kind[r] = "pdf" /\ future[joined[r]] # Pending
  /\ joined' = [joined EXCEPT ![r] = NoOne]
  /\ LET payload == future[joined[r]]
     IN  /\ Log(r, JoinedStatus(payload))
         /\ \/ /\ payload.error = "none"
               /\ source' = [source EXCEPT ![r] = payload.from]
               /\ Go(r, "render")
               /\ UNCHANGED <<active, answer>>
            \/ /\ payload.error # "none"
               /\ Tell(r, Reply(400, payload.error, payload.from))
               /\ active' = active - 1
               /\ Go(r, "done")
               /\ UNCHANGED source
  /\ UNCHANGED <<request, inflight, future, cache, threads>>

\* A leader's followers get the audit only now, when its own rendering is over.
PdfRenders(r) ==
  /\ pc[r] = "render"
  /\ LeaveInflight(r, Result(source[r]))
  /\ \/ Tell(r, Reply(200, "none", source[r]))
     \/ Tell(r, Reply(500, "server_error", NoOne))
  /\ active' = active - 1
  /\ Go(r, "done")
  /\ UNCHANGED <<request, joined, source, cache, threads, logs>>

-----------------------------------------------------------------------------
(* The stream: the loop of _event_stream, and its finally.                   *)

StreamStep(r) ==
  /\ pc[r] = "stream" /\ queue[r] # <<>> /\ Head(queue[r]) = "step"
  /\ queue' = [queue EXCEPT ![r] = Tail(@)]
  /\ UNCHANGED <<pc, request, active, inflight, future, joined, source, cache, worker, stop, answer, logs>>

\* The error code of the result a _done message carries.
DoneError(message) ==
  CASE message = "ok" -> "none" [] message = "failed" -> "server_error" [] OTHER -> "cancelled"

\* Mutant: failed audits are cached like any other.
StreamResultAlwaysCached(r) ==
  /\ pc[r] = "stream" /\ queue[r] # <<>> /\ Head(queue[r]) # "step"
  /\ queue' = [queue EXCEPT ![r] = Tail(@)]
  /\ cache' = [cache EXCEPT ![key[r]] = r]
  /\ Log(r, AuditStatus(DoneError(Head(queue[r]))))
  /\ Tell(r, Reply(200, DoneError(Head(queue[r])), r))
  /\ Go(r, "closing")
  /\ UNCHANGED <<request, active, inflight, future, joined, source, worker, stop>>

StreamResult(r) ==
  /\ pc[r] = "stream" /\ queue[r] # <<>> /\ Head(queue[r]) # "step"
  /\ queue' = [queue EXCEPT ![r] = Tail(@)]
  /\ cache' = IF Head(queue[r]) = "ok" THEN [cache EXCEPT ![key[r]] = r] ELSE cache
  /\ Log(r, AuditStatus(DoneError(Head(queue[r]))))
  /\ Tell(r, Reply(200, DoneError(Head(queue[r])), r))
  /\ Go(r, "closing")
  /\ UNCHANGED <<request, active, inflight, future, joined, source, worker, stop>>

\* AUDIT_WALL_CLOCK_BUDGET has passed. The audit thread may still be running.
StreamTimesOut(r) ==
  /\ pc[r] = "stream"
  /\ stop' = [stop EXCEPT ![r] = TRUE]
  /\ Log(r, "timeout")
  /\ Tell(r, Reply(200, "timeout", NoOne))
  /\ Go(r, "closing")
  /\ UNCHANGED <<request, active, inflight, future, joined, source, cache, worker, queue>>

StreamFindsClientGone(r) ==
  /\ pc[r] = "stream" /\ queue[r] = <<>>
  /\ stop' = [stop EXCEPT ![r] = TRUE]
  /\ Log(r, "abandoned")
  /\ active' = active - 1
  /\ Go(r, "done")
  /\ UNCHANGED <<request, inflight, future, joined, source, cache, worker, queue, answer>>

\* Mutant: the slot stays with the audit thread.
StreamClosesHolding(r) ==
  /\ pc[r] = "closing"
  /\ stop' = [stop EXCEPT ![r] = TRUE]
  /\ Go(r, "done")
  /\ UNCHANGED <<request, active, inflight, future, joined, source, cache, worker, queue, answer, logs>>

StreamCloses(r) ==
  /\ pc[r] = "closing"
  /\ stop' = [stop EXCEPT ![r] = TRUE]
  /\ active' = active - 1
  /\ Go(r, "done")
  /\ UNCHANGED <<request, inflight, future, joined, source, cache, worker, queue, answer, logs>>

-----------------------------------------------------------------------------
(* A handler task is cancelled at an await: only its finally blocks run.      *)

Cancellable(r) == <<kind[r], pc[r]>> \in CancelPoints

\* A leader, or a pdf request: the slot and whatever future it holds.
CancelAudit(r) ==
  /\ Cancellable(r)
  /\ \/ kind[r] = "json" /\ pc[r] \in {"preflight", "audit"}
     \/ kind[r] = "pdf"
  /\ LeaveInflight(r, IF pc[r] = "render" THEN Result(source[r]) ELSE Failed(joined[r]))
  /\ active' = active - 1
  /\ Go(r, "done")
  /\ UNCHANGED <<request, joined, source, cache, threads, answer, logs>>

\* asyncio.shield keeps the shared future out of it.
CancelJsonFollower(r) ==
  /\ Cancellable(r) /\ kind[r] = "json" /\ pc[r] = "follow"
  /\ Go(r, "done")
  /\ UNCHANGED <<request, active, inflight, future, joined, source, cache, threads, answer, logs>>

\* Before the generator exists only "except Exception" stands guard, and a
\* CancelledError is not an Exception.
CancelSsePreflight(r) ==
  /\ Cancellable(r) /\ kind[r] = "sse" /\ pc[r] = "preflight"
  /\ Go(r, "done")
  /\ UNCHANGED <<request, active, inflight, future, joined, source, cache, threads, answer, logs>>

CancelStream(r) ==
  /\ Cancellable(r) /\ pc[r] \in {"stream", "closing"}
  /\ stop' = [stop EXCEPT ![r] = TRUE]
  /\ IF pc[r] = "stream" THEN Log(r, "abandoned") ELSE UNCHANGED logs
  /\ active' = active - 1
  /\ Go(r, "done")
  /\ UNCHANGED <<request, inflight, future, joined, source, cache, worker, queue, answer>>

-----------------------------------------------------------------------------
\* An entry outlives CACHE_TTL, or is among the oldest evicted from a full cache.
CacheDrops(k) ==
  /\ cache[k] # NoOne
  /\ cache' = [cache EXCEPT ![k] = NoOne]
  /\ UNCHANGED <<pc, request, active, inflight, future, joined, source, threads, answer, logs>>

Arrive(r) == TurnAway(r) \/ Busy(r) \/ CacheHit(r) \/ JsonJoins(r) \/ JsonLeads(r)
             \/ SseReserves(r) \/ PdfReserves(r)
Preflighted(r) == PreflightRefuses(r) \/ PreflightRaises(r) \/ JsonAudits(r)
                  \/ SseStreams(r) \/ PdfLeads(r) \/ PdfJoins(r)
Resume(r) == JsonFinishes(r) \/ JsonFollows(r) \/ PdfAudited(r) \/ PdfAuditFails(r)
             \/ PdfFollows(r) \/ PdfRenders(r)
Stream(r) == StreamStep(r) \/ StreamResult(r) \/ StreamTimesOut(r) \/ StreamCloses(r)
Cancel(r) == CancelAudit(r) \/ CancelJsonFollower(r) \/ CancelSsePreflight(r) \/ CancelStream(r)
Worker(r) == WorkerReports(r) \/ WorkerFinishes(r)

\* Every request is over and no thread is left: the server is idle.
Idle == /\ \A r \in Requests : pc[r] = "done" /\ worker[r] # "running"
        /\ UNCHANGED vars

Next == \/ \E r \in Requests : Arrive(r) \/ Preflighted(r) \/ Worker(r) \/ Resume(r)
                               \/ Stream(r) \/ StreamFindsClientGone(r) \/ Cancel(r)
        \/ \E k \in Keys : CacheDrops(k)
        \/ Idle

Spec == Init /\ [][Next]_vars

\* Handlers are resumed by the event loop, and the clock reaches a stream's
\* budget. An awaited audit ends by its deadline; nothing is assumed of a
\* stream's audit thread, and nobody has to arrive, leave or be cancelled.
Fairness ==
  \A r \in Requests :
    /\ WF_vars(Preflighted(r)) /\ WF_vars(Resume(r))
    /\ WF_vars(StreamTimesOut(r)) /\ WF_vars(StreamCloses(r))
    /\ WF_vars(kind[r] # "sse" /\ WorkerFinishes(r))
FairSpec == Spec /\ Fairness

-----------------------------------------------------------------------------
(* Properties                                                                *)

HoldsSlot(r) == \/ pc[r] \in {"preflight", "audit", "render", "stream", "closing"}
                \/ pc[r] = "follow" /\ kind[r] = "pdf"
Holders == {r \in Requests : HoldsSlot(r)}
Leads(r) == joined[r] = r /\ pc[r] \in {"preflight", "audit", "render"}

\* The counter _active_audits is the number of requests that are really being
\* worked on, and never passes the cap: every return, exception and cancellation
\* of the three handlers releases the slot once, and only if it took one.
SlotsAccounted == active = Cardinality(Holders) /\ active <= MaxAudits

\* _inflight names exactly the running leaders, each under its own key: a key is
\* popped by its own leader and only once, so no two leaders audit one key, and
\* a late leader's cleanup never removes its successor's entry.
SingleFlight ==
  /\ \A r \in Requests : Leads(r) => inflight[key[r]] = r
  /\ \A k \in Keys : inflight[k] # NoOne => Leads(inflight[k]) /\ key[inflight[k]] = k

\* "so a follower is never left waiting on a future nobody resolves": whoever
\* waits on an unresolved future waits on a leader that is still at work.
NobodyStranded ==
  \A r \in Requests : pc[r] = "follow" /\ future[joined[r]] = Pending => Leads(joined[r])

\* What a client is told of another request's audit is what became of it: a
\* report only of a finished audit of its own key, a refusal only as the leader
\* was refused, and an error only if that audit failed or its leader was cut off.
ToldWhatHappened ==
  \A r \in Requests : LET l == answer[r].from IN
    l # NoOne =>
      /\ key[l] = key[r]
      /\ answer[r].error = "none" => worker[l] = "ok"
      /\ answer[r].error \in PreflightErrors => answer[l].error = answer[r].error
      /\ answer[r].error = "server_error" =>
           worker[l] = "failed" \/ (pc[l] = "done" /\ answer[l].status \in {0, 500})

\* Only a finished audit of the same key is ever cached: no error, no refusal, and
\* nothing of a stream that gave up on its audit. The result of an interrupted audit
\* ("cancelled") reaches neither the cache nor a client: its stream has always ended
\* before its thread can notice the cancel_event.
CacheHoldsAudits ==
  /\ \A k \in Keys : cache[k] # NoOne =>
       /\ key[cache[k]] = k /\ worker[cache[k]] = "ok"
       /\ answer[cache[k]].error # "timeout"
  /\ \A r \in Requests : answer[r].error # "cancelled"

\* "A failed audit must not read as ordinary healthy usage": the line of a request
\* that was answered says what the client was told, for leaders and followers
\* alike. (A report that was audited but could not be rendered still says ok.) And a
\* request is at most one line, a stream that ran exactly one, whichever way it ended:
\* result, cutoff, disconnect or cancellation.
LogTellsOutcome ==
  \A r \in Requests :
    /\ Len(logs[r]) <= 1
    /\ kind[r] = "sse" /\ worker[r] # "none" /\ pc[r] \in {"closing", "done"} => Len(logs[r]) = 1
    /\ answer[r].status # 0 /\ logs[r] # <<>> =>
         IF answer[r].error = "none"                    THEN logs[r][1] = "ok"
         ELSE IF kind[r] = "sse" /\ worker[r] # "none"  THEN logs[r][1] \in {"timeout", "error"}
         ELSE IF answer[r].error \in PreflightErrors    THEN logs[r][1] = "refused"
         ELSE logs[r][1] = "error" \/ (answer[r].status = 500 /\ source[r] # NoOne)

\* A registered leader already holds a slot ("the registry is joined after the
\* reservation on purpose"), the budget is a counting semaphore and a key has one
\* leader: the handlers implement AuditService.
Service == INSTANCE AuditService WITH
  phase   <- [r \in Requests |-> CASE pc[r] = "new" -> "new" [] pc[r] = "done" -> "over" [] OTHER -> "served"],
  holders <- Holders,
  leader  <- inflight
ImplementsService == Service!Spec

\* Everyone who made a request gets to the end of it, followers too, even when a
\* stream's audit thread hangs for good.
EveryRequestEnds == \A r \in Requests : pc[r] # "new" ~> pc[r] = "done"

=============================================================================
