------------------------- MODULE AuditServerProofs -------------------------
(***************************************************************************)
(* The invariants of AuditServer, for any number of requests, keys and      *)
(* slots, that its endpoints implement AuditService, and that what they     *)
(* tell of an audit, cache of it and log of it is what became of it.        *)
(***************************************************************************)
EXTENDS AuditServer, FiniteSetTheorems, TLAPS

(* What the helpers do to the types.                                         *)

LEMMA ReplyType ==
  ASSUME NEW status \in {0, 200, 400, 429, 500, 503},
         NEW error \in ErrorCodes \cup {"none", "server_busy"},
         NEW from \in Requests \cup {NoOne}
  PROVE  Reply(status, error, from) \in Answers
BY DEF Reply, Answers

LEMMA PayloadType ==
  ASSUME NEW r \in Requests
  PROVE  /\ Result(r) \in Payloads /\ Failed(r) \in Payloads
         /\ \A e \in PreflightErrors : Refused(r, e) \in Payloads
BY DEF Result, Failed, Refused, Payloads, ErrorCodes

LEMMA PayloadFields ==
  ASSUME NEW p \in Payloads
  PROVE  /\ p.error \in ErrorCodes \cup {"none"} /\ p.from \in Requests
         /\ AuditStatus(p.error) \in LogStatuses /\ JoinedStatus(p) \in LogStatuses
BY DEF Payloads, AuditStatus, JoinedStatus, LogStatuses

LEMMA PassedOn ==
  ASSUME NEW p \in Payloads
  PROVE  /\ Reply(200, p.error, p.from) \in Answers
         /\ Reply(400, p.error, p.from) \in Answers
<1>1. p.error \in ErrorCodes \cup {"none", "server_busy"} /\ p.from \in Requests \cup {NoOne}
  BY PayloadFields
<1>2. QED
  BY <1>1, ReplyType

LEMMA StatusType ==
  /\ \A e \in ErrorCodes \cup {"none"} : AuditStatus(e) \in LogStatuses
  /\ \A m \in Messages : DoneError(m) \in ErrorCodes \cup {"none"}
BY DEF AuditStatus, LogStatuses, DoneError, ErrorCodes, Messages

LEMMA GoType ==
  ASSUME TypeOK, NEW r \in Requests, NEW p \in Awaits \cup {"new", "done"}, Go(r, p)
  PROVE  pc' \in [Requests -> Awaits \cup {"new", "done"}]
BY DEF TypeOK, Go

LEMMA TellType ==
  ASSUME TypeOK, NEW r \in Requests, NEW a \in Answers, Tell(r, a)
  PROVE  answer' \in [Requests -> Answers]
BY DEF TypeOK, Tell

LEMMA LogType ==
  ASSUME TypeOK, NEW r \in Requests, NEW s \in LogStatuses, Log(r, s)
  PROVE  logs' \in [Requests -> Seq(LogStatuses)]
<1>1. Append(logs[r], s) \in Seq(LogStatuses)
  BY DEF TypeOK
<1>2. QED
  BY <1>1 DEF TypeOK, Log

LEMMA ReleaseType ==
  ASSUME TypeOK, NEW r \in Requests, NEW f \in Requests, NEW p \in Payloads, ReleaseInflight(r, f, p)
  PROVE  /\ inflight' \in [Keys -> Requests \cup {NoOne}]
         /\ future' \in [Requests -> Payloads \cup {Pending}]
BY DEF TypeOK, ReleaseInflight

LEMMA LeaveType ==
  ASSUME TypeOK, NEW r \in Requests, NEW p \in Payloads, LeaveInflight(r, p)
  PROVE  /\ inflight' \in [Keys -> Requests \cup {NoOne}]
         /\ future' \in [Requests -> Payloads \cup {Pending}]
<1>1. CASE joined[r] = NoOne
  BY <1>1 DEF TypeOK, LeaveInflight
<1>2. CASE joined[r] # NoOne
  BY <1>2, ReleaseType DEF TypeOK, LeaveInflight
<1>3. QED
  BY <1>1, <1>2

-----------------------------------------------------------------------------
(* Where a handler is suspended tells what it holds.                         *)

HandlerInv ==
  \A r \in Requests :
    /\ pc[r] = "new" => joined[r] = NoOne
    /\ pc[r] = "preflight" => joined[r] = IF kind[r] = "json" THEN r ELSE NoOne
    /\ pc[r] = "audit" => kind[r] # "sse" /\ joined[r] = r
    /\ pc[r] = "follow" => kind[r] # "sse" /\ joined[r] \in Requests
    /\ pc[r] = "render" => kind[r] = "pdf" /\ joined[r] \in {NoOne, r} /\ source[r] \in Requests
    /\ pc[r] \in {"stream", "closing"} => kind[r] = "sse"

Typed == TypeOK /\ HandlerInv

LEMMA TypeStep == Typed /\ [Next]_vars => TypeOK'
<1> USE ServerAssumption
<1> SUFFICES ASSUME TypeOK, HandlerInv, [Next]_vars PROVE TypeOK'
  BY DEF Typed
<1> USE DEF request, threads, Awaits
<1>1. ASSUME NEW r \in Requests, TurnAway(r) PROVE TypeOK'
  <2>1. PICK status \in {400, 429} : Tell(r, Reply(status, "none", NoOne))
    BY <1>1 DEF TurnAway
  <2>2. Reply(status, "none", NoOne) \in Answers
    BY ReplyType
  <2>3. answer' \in [Requests -> Answers]
    BY <2>1, <2>2, TellType
  <2>4. QED
    BY <1>1, <2>3, GoType DEF TurnAway, TypeOK
<1>2. ASSUME NEW r \in Requests, Busy(r) PROVE TypeOK'
  <2>1. Reply(503, "server_busy", NoOne) \in Answers
    BY ReplyType
  <2>2. answer' \in [Requests -> Answers]
    BY <1>2, <2>1, TellType DEF Busy
  <2>3. QED
    BY <1>2, <2>2, GoType DEF Busy, TypeOK
<1>3. ASSUME NEW r \in Requests, CacheHit(r) PROVE TypeOK'
  <2>1. cache[key[r]] \in Requests \cup {NoOne}
    BY DEF TypeOK
  <2>2. Reply(200, "none", cache[key[r]]) \in Answers
    BY <2>1, ReplyType
  <2>3. answer' \in [Requests -> Answers]
    BY <1>3, <2>2, TellType DEF CacheHit
  <2>4. logs' \in [Requests -> Seq(LogStatuses)]
    BY <1>3, LogType DEF CacheHit, LogStatuses
  <2>5. QED
    BY <1>3, <2>3, <2>4, GoType DEF CacheHit, TypeOK
<1>4. ASSUME NEW r \in Requests, JsonJoins(r) PROVE TypeOK'
  BY <1>4, GoType DEF JsonJoins, TypeOK
<1>5. ASSUME NEW r \in Requests, JsonLeads(r) PROVE TypeOK'
  BY <1>5, GoType DEF JsonLeads, TypeOK
<1>6. ASSUME NEW r \in Requests, SseReserves(r) PROVE TypeOK'
  BY <1>6, GoType DEF SseReserves, TypeOK
<1>7. ASSUME NEW r \in Requests, PdfReserves(r) PROVE TypeOK'
  <2>1. logs' \in [Requests -> Seq(LogStatuses)]
    BY <1>7, LogType DEF PdfReserves, LogStatuses, TypeOK
  <2>2. pc' \in [Requests -> Awaits \cup {"new", "done"}]
    BY <1>7, GoType DEF PdfReserves
  <2>3. source' \in [Requests -> Requests \cup {NoOne}]
    BY <1>7 DEF PdfReserves, TypeOK
  <2>4. active' \in Int
    BY <1>7 DEF PdfReserves, TypeOK
  <2>5. QED
    BY <1>7, <2>1, <2>2, <2>3, <2>4 DEF PdfReserves, TypeOK
<1>8. ASSUME NEW r \in Requests, PreflightRefuses(r) PROVE TypeOK'
  <2> DEFINE code(e) == IF kind[r] # "pdf" THEN 200 ELSE IF Transient(e) THEN 503 ELSE 400
  <2>1. PICK e \in PreflightErrors :
          LeaveInflight(r, Refused(r, e)) /\ Tell(r, Reply(code(e), e, NoOne))
    BY <1>8 DEF PreflightRefuses
  <2>2. code(e) \in {0, 200, 400, 429, 500, 503}
    OBVIOUS
  <2>3. Reply(code(e), e, NoOne) \in Answers
    BY <2>2, ReplyType DEF ErrorCodes
  <2>4. answer' \in [Requests -> Answers]
    BY <2>1, <2>3, TellType
  <2>5. /\ inflight' \in [Keys -> Requests \cup {NoOne}]
        /\ future' \in [Requests -> Payloads \cup {Pending}]
    BY <2>1, LeaveType, PayloadType
  <2>6. logs' \in [Requests -> Seq(LogStatuses)]
    BY <1>8, LogType DEF PreflightRefuses, LogStatuses
  <2>7. QED
    BY <1>8, <2>4, <2>5, <2>6, GoType DEF PreflightRefuses, TypeOK
<1>9. ASSUME NEW r \in Requests, PreflightRaises(r) PROVE TypeOK'
  <2> DEFINE code == IF kind[r] = "sse" THEN 200 ELSE 500
  <2>1. Reply(code, "server_error", NoOne) \in Answers
    BY ReplyType DEF ErrorCodes
  <2>2. answer' \in [Requests -> Answers]
    BY <1>9, <2>1, TellType DEF PreflightRaises
  <2>3. /\ inflight' \in [Keys -> Requests \cup {NoOne}]
        /\ future' \in [Requests -> Payloads \cup {Pending}]
    BY <1>9, LeaveType, PayloadType DEF PreflightRaises
  <2>4. QED
    BY <1>9, <2>2, <2>3, GoType DEF PreflightRaises, TypeOK
<1>10. ASSUME NEW r \in Requests, JsonAudits(r) PROVE TypeOK'
  BY <1>10, GoType DEF JsonAudits, TypeOK
<1>11. ASSUME NEW r \in Requests, SseStreams(r) PROVE TypeOK'
  BY <1>11, GoType DEF SseStreams, TypeOK
<1>12. ASSUME NEW r \in Requests, PdfLeads(r) PROVE TypeOK'
  BY <1>12, GoType DEF PdfLeads, TypeOK
<1>13. ASSUME NEW r \in Requests, PdfJoins(r) PROVE TypeOK'
  BY <1>13, GoType DEF PdfJoins, TypeOK
<1>14. ASSUME NEW r \in Requests, WorkerReports(r) PROVE TypeOK'
  <2>1. \A m \in {"step", "interrupted"} : Append(queue[r], m) \in Seq(Messages)
    BY DEF TypeOK, Messages
  <2>2. queue' \in [Requests -> Seq(Messages)]
    BY <1>14, <2>1 DEF WorkerReports, TypeOK
  <2>3. worker' \in [Requests -> {"none", "running", "ok", "failed", "interrupted"}]
    <3>1. worker' = worker \/ worker' = [worker EXCEPT ![r] = "interrupted"]
      BY <1>14 DEF WorkerReports
    <3>2. QED
      BY <3>1 DEF TypeOK
  <2>4. QED
    BY <1>14, <2>2, <2>3 DEF WorkerReports, TypeOK
<1>15. ASSUME NEW r \in Requests, WorkerFinishes(r) PROVE TypeOK'
  <2>1. \A m \in {"ok", "failed"} : Append(queue[r], m) \in Seq(Messages)
    BY DEF TypeOK, Messages
  <2>2. QED
    BY <1>15, <2>1 DEF WorkerFinishes, TypeOK
<1>16. ASSUME NEW r \in Requests, JsonFinishes(r) PROVE TypeOK'
  <2> DEFINE payload == IF worker[r] = "ok" THEN Result(r) ELSE Failed(r)
  <2>1. payload \in Payloads
    BY PayloadType
  <2>2. /\ ReleaseInflight(r, r, payload)
        /\ Log(r, AuditStatus(payload.error))
        /\ Tell(r, Reply(200, payload.error, r))
    BY <1>16 DEF JsonFinishes
  <2> HIDE DEF payload
  <2>3. Reply(200, payload.error, r) \in Answers
    <3>1. payload.error \in ErrorCodes \cup {"none", "server_busy"}
      BY <2>1, PayloadFields
    <3>2. QED
      BY <3>1, ReplyType
  <2>4. answer' \in [Requests -> Answers] /\ logs' \in [Requests -> Seq(LogStatuses)]
    BY <2>1, <2>2, <2>3, TellType, LogType, PayloadFields
  <2>5. /\ inflight' \in [Keys -> Requests \cup {NoOne}]
        /\ future' \in [Requests -> Payloads \cup {Pending}]
    BY <2>1, <2>2, ReleaseType
  <2>6. QED
    BY <1>16, <2>4, <2>5, GoType DEF JsonFinishes, TypeOK
<1>17. ASSUME NEW r \in Requests, JsonFollows(r) PROVE TypeOK'
  <2> DEFINE payload == future[joined[r]]
  <2>1. /\ payload # Pending
        /\ Log(r, JoinedStatus(payload))
        /\ Tell(r, Reply(200, payload.error, payload.from))
    BY <1>17 DEF JsonFollows
  <2>2. payload \in Payloads
    BY <1>17, <2>1 DEF JsonFollows, TypeOK, HandlerInv
  <2> HIDE DEF payload
  <2>3. Reply(200, payload.error, payload.from) \in Answers
    BY <2>2, PassedOn
  <2>4. answer' \in [Requests -> Answers] /\ logs' \in [Requests -> Seq(LogStatuses)]
    BY <2>1, <2>2, <2>3, TellType, LogType, PayloadFields
  <2>5. QED
    BY <1>17, <2>4, GoType DEF JsonFollows, TypeOK
<1>18. ASSUME NEW r \in Requests, PdfAudited(r) PROVE TypeOK'
  <2>1. logs' \in [Requests -> Seq(LogStatuses)]
    BY <1>18, LogType DEF PdfAudited, LogStatuses
  <2>2. QED
    BY <1>18, <2>1, GoType DEF PdfAudited, TypeOK
<1>19. ASSUME NEW r \in Requests, PdfAuditFails(r) PROVE TypeOK'
  <2>1. Reply(500, "server_error", r) \in Answers
    BY ReplyType DEF ErrorCodes
  <2>2. answer' \in [Requests -> Answers]
    BY <1>19, <2>1, TellType DEF PdfAuditFails
  <2>3. logs' \in [Requests -> Seq(LogStatuses)]
    BY <1>19, LogType DEF PdfAuditFails, LogStatuses
  <2>4. /\ inflight' \in [Keys -> Requests \cup {NoOne}]
        /\ future' \in [Requests -> Payloads \cup {Pending}]
    BY <1>19, LeaveType, PayloadType DEF PdfAuditFails
  <2>5. QED
    BY <1>19, <2>2, <2>3, <2>4, GoType DEF PdfAuditFails, TypeOK
<1>20. ASSUME NEW r \in Requests, PdfFollows(r) PROVE TypeOK'
  <2> DEFINE payload == future[joined[r]]
  <2>1. /\ payload # Pending
        /\ Log(r, JoinedStatus(payload))
        /\ \/ /\ source' = [source EXCEPT ![r] = payload.from]
              /\ Go(r, "render")
              /\ UNCHANGED <<active, answer>>
           \/ /\ Tell(r, Reply(400, payload.error, payload.from))
              /\ active' = active - 1
              /\ Go(r, "done")
              /\ UNCHANGED source
    BY <1>20 DEF PdfFollows
  <2>2. payload \in Payloads
    BY <1>20, <2>1 DEF PdfFollows, TypeOK, HandlerInv
  <2> HIDE DEF payload
  <2>3. Reply(400, payload.error, payload.from) \in Answers
    BY <2>2, PassedOn
  <2>4. answer' \in [Requests -> Answers]
    BY <2>1, <2>3, TellType DEF TypeOK
  <2>5. logs' \in [Requests -> Seq(LogStatuses)]
    BY <2>1, <2>2, LogType, PayloadFields
  <2>6. pc' \in [Requests -> Awaits \cup {"new", "done"}]
    BY <2>1, GoType
  <2>7. source' \in [Requests -> Requests \cup {NoOne}] /\ active' \in Int
    <3>1. payload.from \in Requests
      BY <2>2, PayloadFields
    <3>2. CASE UNCHANGED source
      BY <2>1, <3>2 DEF TypeOK
    <3>3. CASE source' = [source EXCEPT ![r] = payload.from]
      BY <2>1, <3>1, <3>3 DEF TypeOK
    <3>4. QED
      BY <2>1, <3>2, <3>3
  <2>8. QED
    BY <1>20, <2>4, <2>5, <2>6, <2>7 DEF PdfFollows, TypeOK
<1>21. ASSUME NEW r \in Requests, PdfRenders(r) PROVE TypeOK'
  <2>1. Reply(200, "none", source[r]) \in Answers /\ Reply(500, "server_error", NoOne) \in Answers
    <3>1. source[r] \in Requests \cup {NoOne}
      BY DEF TypeOK
    <3>2. Reply(200, "none", source[r]) \in Answers
      BY <3>1, ReplyType
    <3>3. Reply(500, "server_error", NoOne) \in Answers
      BY ReplyType DEF ErrorCodes
    <3>4. QED
      BY <3>2, <3>3
  <2>2. answer' \in [Requests -> Answers]
    BY <1>21, <2>1, TellType DEF PdfRenders
  <2>3. Result(source[r]) \in Payloads
    BY <1>21, PayloadType DEF PdfRenders, HandlerInv
  <2>4. /\ inflight' \in [Keys -> Requests \cup {NoOne}]
        /\ future' \in [Requests -> Payloads \cup {Pending}]
    BY <1>21, <2>3, LeaveType DEF PdfRenders
  <2>5. QED
    BY <1>21, <2>2, <2>4, GoType DEF PdfRenders, TypeOK
<1>22. ASSUME NEW r \in Requests, StreamStep(r) PROVE TypeOK'
  <2>1. Tail(queue[r]) \in Seq(Messages)
    BY <1>22 DEF StreamStep, TypeOK
  <2>2. QED
    BY <1>22, <2>1 DEF StreamStep, TypeOK
<1>23. ASSUME NEW r \in Requests, StreamResult(r) PROVE TypeOK'
  <2> DEFINE error == DoneError(Head(queue[r]))
  <2>1. Head(queue[r]) \in Messages /\ Tail(queue[r]) \in Seq(Messages)
    BY <1>23 DEF StreamResult, TypeOK
  <2>2. error \in ErrorCodes \cup {"none"} /\ AuditStatus(error) \in LogStatuses
    BY <2>1, StatusType
  <2>3. Log(r, AuditStatus(error)) /\ Tell(r, Reply(200, error, r))
    BY <1>23 DEF StreamResult
  <2> HIDE DEF error
  <2>4. Reply(200, error, r) \in Answers
    BY <2>2, ReplyType
  <2>5. answer' \in [Requests -> Answers] /\ logs' \in [Requests -> Seq(LogStatuses)]
    BY <2>2, <2>3, <2>4, TellType, LogType
  <2>6. QED
    BY <1>23, <2>1, <2>5, GoType DEF StreamResult, TypeOK
<1>24. ASSUME NEW r \in Requests, StreamTimesOut(r) PROVE TypeOK'
  <2>1. Reply(200, "timeout", NoOne) \in Answers
    BY ReplyType DEF ErrorCodes, PreflightErrors
  <2>2. answer' \in [Requests -> Answers]
    BY <1>24, <2>1, TellType DEF StreamTimesOut
  <2>3. logs' \in [Requests -> Seq(LogStatuses)]
    BY <1>24, LogType DEF StreamTimesOut, LogStatuses
  <2>4. QED
    BY <1>24, <2>2, <2>3, GoType DEF StreamTimesOut, TypeOK
<1>25. ASSUME NEW r \in Requests, StreamFindsClientGone(r) PROVE TypeOK'
  <2>1. logs' \in [Requests -> Seq(LogStatuses)]
    BY <1>25, LogType DEF StreamFindsClientGone, LogStatuses
  <2>2. stop' \in [Requests -> BOOLEAN]
    BY <1>25 DEF StreamFindsClientGone, TypeOK
  <2>3. pc' \in [Requests -> Awaits \cup {"new", "done"}]
    BY <1>25, GoType DEF StreamFindsClientGone
  <2>4. QED
    BY <1>25, <2>1, <2>2, <2>3 DEF StreamFindsClientGone, TypeOK
<1>26. ASSUME NEW r \in Requests, StreamCloses(r) PROVE TypeOK'
  BY <1>26, GoType DEF StreamCloses, TypeOK
<1>27. ASSUME NEW r \in Requests, CancelAudit(r) PROVE TypeOK'
  <2> DEFINE payload == IF pc[r] = "render" THEN Result(source[r]) ELSE Failed(joined[r])
  <2>1. LeaveInflight(r, payload)
    BY <1>27 DEF CancelAudit
  <2>2. CASE joined[r] = NoOne
    BY <1>27, <2>1, <2>2, GoType DEF CancelAudit, LeaveInflight, TypeOK
  <2>3. CASE joined[r] # NoOne
    <3>1. payload \in Payloads
      BY <2>3, PayloadType DEF HandlerInv, TypeOK
    <3>2. /\ inflight' \in [Keys -> Requests \cup {NoOne}]
          /\ future' \in [Requests -> Payloads \cup {Pending}]
      BY <2>1, <3>1, LeaveType
    <3>3. QED
      BY <1>27, <3>2, GoType DEF CancelAudit, TypeOK
  <2>4. QED
    BY <2>2, <2>3
<1>28. ASSUME NEW r \in Requests, CancelJsonFollower(r) PROVE TypeOK'
  BY <1>28, GoType DEF CancelJsonFollower, TypeOK
<1>29. ASSUME NEW r \in Requests, CancelSsePreflight(r) PROVE TypeOK'
  BY <1>29, GoType DEF CancelSsePreflight, TypeOK
<1>30. ASSUME NEW r \in Requests, CancelStream(r) PROVE TypeOK'
  <2>1. logs' \in [Requests -> Seq(LogStatuses)]
    BY <1>30, LogType DEF CancelStream, LogStatuses, TypeOK
  <2>2. stop' \in [Requests -> BOOLEAN]
    BY <1>30 DEF CancelStream, TypeOK
  <2>3. pc' \in [Requests -> Awaits \cup {"new", "done"}]
    BY <1>30, GoType DEF CancelStream
  <2>4. active' \in Int
    BY <1>30 DEF CancelStream, TypeOK
  <2>5. QED
    BY <1>30, <2>1, <2>2, <2>3, <2>4 DEF CancelStream, TypeOK
<1>31. ASSUME NEW k \in Keys, CacheDrops(k) PROVE TypeOK'
  BY <1>31 DEF CacheDrops, TypeOK
<1>32. CASE Idle \/ UNCHANGED vars
  BY <1>32 DEF Idle, vars, TypeOK
<1>33. QED
  BY <1>1, <1>2, <1>3, <1>4, <1>5, <1>6, <1>7, <1>8, <1>9, <1>10, <1>11, <1>12, <1>13,
     <1>14, <1>15, <1>16, <1>17, <1>18, <1>19, <1>20, <1>21, <1>22, <1>23, <1>24, <1>25,
     <1>26, <1>27, <1>28, <1>29, <1>30, <1>31, <1>32
     DEF Next, Arrive, Preflighted, Worker, Resume, Stream, Cancel

\* Each handler keeps to its part of the protocol, whatever the other requests do.
LEMMA HandlerStep == Typed /\ [Next]_vars => HandlerInv'
<1> USE ServerAssumption
<1> SUFFICES ASSUME TypeOK, HandlerInv, [Next]_vars PROVE HandlerInv'
  BY DEF Typed
<1> USE DEF TypeOK, HandlerInv, request, threads, Go, Awaits, Kinds
<1>1. ASSUME NEW r \in Requests, TurnAway(r) PROVE HandlerInv'
  BY <1>1 DEF TurnAway
<1>2. ASSUME NEW r \in Requests, Busy(r) PROVE HandlerInv'
  BY <1>2 DEF Busy
<1>3. ASSUME NEW r \in Requests, CacheHit(r) PROVE HandlerInv'
  BY <1>3 DEF CacheHit
<1>4. ASSUME NEW r \in Requests, JsonJoins(r) PROVE HandlerInv'
  BY <1>4 DEF JsonJoins
<1>5. ASSUME NEW r \in Requests, JsonLeads(r) PROVE HandlerInv'
  BY <1>5 DEF JsonLeads
<1>6. ASSUME NEW r \in Requests, SseReserves(r) PROVE HandlerInv'
  BY <1>6 DEF SseReserves
<1>7. ASSUME NEW r \in Requests, PdfReserves(r) PROVE HandlerInv'
  BY <1>7 DEF PdfReserves
<1>8. ASSUME NEW r \in Requests, PreflightRefuses(r) PROVE HandlerInv'
  BY <1>8 DEF PreflightRefuses
<1>9. ASSUME NEW r \in Requests, PreflightRaises(r) PROVE HandlerInv'
  BY <1>9 DEF PreflightRaises
<1>10. ASSUME NEW r \in Requests, JsonAudits(r) PROVE HandlerInv'
  BY <1>10 DEF JsonAudits
<1>11. ASSUME NEW r \in Requests, SseStreams(r) PROVE HandlerInv'
  BY <1>11 DEF SseStreams
<1>12. ASSUME NEW r \in Requests, PdfLeads(r) PROVE HandlerInv'
  BY <1>12 DEF PdfLeads
<1>13. ASSUME NEW r \in Requests, PdfJoins(r) PROVE HandlerInv'
  BY <1>13 DEF PdfJoins
<1>14. ASSUME NEW r \in Requests, WorkerReports(r) PROVE HandlerInv'
  BY <1>14 DEF WorkerReports
<1>15. ASSUME NEW r \in Requests, WorkerFinishes(r) PROVE HandlerInv'
  BY <1>15 DEF WorkerFinishes
<1>16. ASSUME NEW r \in Requests, JsonFinishes(r) PROVE HandlerInv'
  BY <1>16 DEF JsonFinishes
<1>17. ASSUME NEW r \in Requests, JsonFollows(r) PROVE HandlerInv'
  BY <1>17 DEF JsonFollows
<1>18. ASSUME NEW r \in Requests, PdfAudited(r) PROVE HandlerInv'
  BY <1>18 DEF PdfAudited
<1>19. ASSUME NEW r \in Requests, PdfAuditFails(r) PROVE HandlerInv'
  BY <1>19 DEF PdfAuditFails
<1>20. ASSUME NEW r \in Requests, PdfFollows(r) PROVE HandlerInv'
  <2>1. future[joined[r]] \in Payloads
    BY <1>20 DEF PdfFollows
  <2>2. future[joined[r]].from \in Requests
    BY <2>1, PayloadFields
  <2>3. QED
    BY <1>20, <2>2 DEF PdfFollows
<1>21. ASSUME NEW r \in Requests, PdfRenders(r) PROVE HandlerInv'
  BY <1>21 DEF PdfRenders
<1>22. ASSUME NEW r \in Requests, StreamStep(r) PROVE HandlerInv'
  BY <1>22 DEF StreamStep
<1>23. ASSUME NEW r \in Requests, StreamResult(r) PROVE HandlerInv'
  BY <1>23 DEF StreamResult
<1>24. ASSUME NEW r \in Requests, StreamTimesOut(r) PROVE HandlerInv'
  BY <1>24 DEF StreamTimesOut
<1>25. ASSUME NEW r \in Requests, StreamFindsClientGone(r) PROVE HandlerInv'
  BY <1>25 DEF StreamFindsClientGone
<1>26. ASSUME NEW r \in Requests, StreamCloses(r) PROVE HandlerInv'
  BY <1>26 DEF StreamCloses
<1>27. ASSUME NEW r \in Requests, CancelAudit(r) PROVE HandlerInv'
  BY <1>27 DEF CancelAudit
<1>28. ASSUME NEW r \in Requests, CancelJsonFollower(r) PROVE HandlerInv'
  BY <1>28 DEF CancelJsonFollower
<1>29. ASSUME NEW r \in Requests, CancelSsePreflight(r) PROVE HandlerInv'
  BY <1>29 DEF CancelSsePreflight
<1>30. ASSUME NEW r \in Requests, CancelStream(r) PROVE HandlerInv'
  BY <1>30 DEF CancelStream
<1>31. ASSUME NEW k \in Keys, CacheDrops(k) PROVE HandlerInv'
  BY <1>31 DEF CacheDrops
<1>32. CASE Idle \/ UNCHANGED vars
  BY <1>32 DEF Idle, vars
<1>33. QED
  BY <1>1, <1>2, <1>3, <1>4, <1>5, <1>6, <1>7, <1>8, <1>9, <1>10, <1>11, <1>12, <1>13, <1>14, <1>15, <1>16, <1>17, <1>18, <1>19, <1>20, <1>21, <1>22, <1>23, <1>24, <1>25, <1>26, <1>27, <1>28, <1>29, <1>30, <1>31, <1>32
     DEF Next, Arrive, Preflighted, Worker, Resume, Stream, Cancel

LEMMA TypedAlways == Spec => []Typed
<1>1. Init => Typed
  BY ServerAssumption DEF Init, Typed, TypeOK, HandlerInv, Answers, NoAnswer, Kinds
<1>2. Typed /\ [Next]_vars => Typed'
  BY TypeStep, HandlerStep DEF Typed
<1>3. QED
  BY <1>1, <1>2, PTL DEF Spec

\* TypeOK, for every number of requests, keys and slots.
THEOREM TypeCorrect == Spec => []TypeOK
<1>1. Typed => TypeOK
  BY DEF Typed
<1>2. QED
  BY <1>1, TypedAlways, PTL

-----------------------------------------------------------------------------
(* The concurrency budget.                                                   *)

Keeps == active' = active /\ Holders' = Holders
Takes(r) == /\ r \notin Holders /\ Holders' = Holders \cup {r}
            /\ active < MaxAudits /\ active' = active + 1
Returns(r) == /\ r \in Holders /\ Holders' = Holders \ {r}
              /\ active' = active - 1

LEMMA HoldersFinite == IsFiniteSet(Holders)
BY ServerAssumption, FS_Subset DEF Holders

LEMMA KeepsSlots == SlotsAccounted /\ Keeps => SlotsAccounted'
BY DEF SlotsAccounted, Keeps

LEMMA TakesSlot ==
  ASSUME TypeOK, SlotsAccounted, NEW r \in Requests, Takes(r)
  PROVE  SlotsAccounted'
<1>1. Cardinality(Holders \cup {r}) = Cardinality(Holders) + 1
  BY HoldersFinite, FS_AddElement DEF Takes
<1>2. QED
  BY <1>1, ServerAssumption DEF SlotsAccounted, Takes, TypeOK

LEMMA ReturnsSlot ==
  ASSUME TypeOK, SlotsAccounted, NEW r \in Requests, Returns(r)
  PROVE  SlotsAccounted'
<1>1. Cardinality(Holders \ {r}) = Cardinality(Holders) - 1
  BY HoldersFinite, FS_RemoveElement DEF Returns
<1>2. QED
  BY <1>1, ServerAssumption DEF SlotsAccounted, Returns, TypeOK

\* Every step keeps the slots, takes one that is free or returns one that is held.
LEMMA SlotStep ==
  ASSUME <<"sse", "preflight">> \notin CancelPoints, Typed, SlotsAccounted, [Next]_vars
  PROVE  SlotsAccounted'
<1> USE ServerAssumption
<1> USE DEF Typed, TypeOK, HandlerInv, request, threads, Go, Awaits, Kinds, Holders, HoldsSlot
<1>1. ASSUME NEW r \in Requests, TurnAway(r) PROVE Keeps
  BY <1>1 DEF TurnAway, Keeps
<1>2. ASSUME NEW r \in Requests, Busy(r) PROVE Keeps
  BY <1>2 DEF Busy, Keeps
<1>3. ASSUME NEW r \in Requests, CacheHit(r) PROVE Keeps
  BY <1>3 DEF CacheHit, Keeps
<1>4. ASSUME NEW r \in Requests, JsonJoins(r) PROVE Keeps
  BY <1>4 DEF JsonJoins, Keeps
<1>5. ASSUME NEW r \in Requests, JsonAudits(r) PROVE Keeps
  BY <1>5 DEF JsonAudits, Keeps
<1>6. ASSUME NEW r \in Requests, SseStreams(r) PROVE Keeps
  BY <1>6 DEF SseStreams, Keeps
<1>7. ASSUME NEW r \in Requests, PdfLeads(r) PROVE Keeps
  BY <1>7 DEF PdfLeads, Keeps
<1>8. ASSUME NEW r \in Requests, PdfJoins(r) PROVE Keeps
  BY <1>8 DEF PdfJoins, Keeps
<1>9. ASSUME NEW r \in Requests, WorkerReports(r) PROVE Keeps
  BY <1>9 DEF WorkerReports, Keeps
<1>10. ASSUME NEW r \in Requests, WorkerFinishes(r) PROVE Keeps
  BY <1>10 DEF WorkerFinishes, Keeps
<1>11. ASSUME NEW r \in Requests, JsonFollows(r) PROVE Keeps
  BY <1>11 DEF JsonFollows, Keeps
<1>12. ASSUME NEW r \in Requests, PdfAudited(r) PROVE Keeps
  BY <1>12 DEF PdfAudited, Keeps
<1>13. ASSUME NEW r \in Requests, StreamStep(r) PROVE Keeps
  BY <1>13 DEF StreamStep, Keeps
<1>14. ASSUME NEW r \in Requests, StreamResult(r) PROVE Keeps
  BY <1>14 DEF StreamResult, Keeps
<1>15. ASSUME NEW r \in Requests, StreamTimesOut(r) PROVE Keeps
  BY <1>15 DEF StreamTimesOut, Keeps
<1>16. ASSUME NEW r \in Requests, CancelJsonFollower(r) PROVE Keeps
  BY <1>16 DEF CancelJsonFollower, Keeps
<1>17. ASSUME NEW r \in Requests, JsonLeads(r) PROVE Takes(r)
  BY <1>17 DEF JsonLeads, Takes
<1>18. ASSUME NEW r \in Requests, SseReserves(r) PROVE Takes(r)
  BY <1>18 DEF SseReserves, Takes
<1>19. ASSUME NEW r \in Requests, PdfReserves(r) PROVE Takes(r)
  BY <1>19 DEF PdfReserves, Takes
<1>20. ASSUME NEW r \in Requests, PreflightRefuses(r) PROVE Returns(r)
  BY <1>20 DEF PreflightRefuses, Returns
<1>21. ASSUME NEW r \in Requests, PreflightRaises(r) PROVE Returns(r)
  BY <1>21 DEF PreflightRaises, Returns
<1>22. ASSUME NEW r \in Requests, JsonFinishes(r) PROVE Returns(r)
  BY <1>22 DEF JsonFinishes, Returns
<1>23. ASSUME NEW r \in Requests, PdfAuditFails(r) PROVE Returns(r)
  BY <1>23 DEF PdfAuditFails, Returns
<1>24. ASSUME NEW r \in Requests, PdfRenders(r) PROVE Returns(r)
  BY <1>24 DEF PdfRenders, Returns
<1>25. ASSUME NEW r \in Requests, StreamFindsClientGone(r) PROVE Returns(r)
  BY <1>25 DEF StreamFindsClientGone, Returns
<1>26. ASSUME NEW r \in Requests, StreamCloses(r) PROVE Returns(r)
  BY <1>26 DEF StreamCloses, Returns
<1>27. ASSUME NEW r \in Requests, CancelAudit(r) PROVE Returns(r)
  BY <1>27 DEF CancelAudit, Returns, Cancellable
<1>28. ASSUME NEW r \in Requests, CancelStream(r) PROVE Returns(r)
  BY <1>28 DEF CancelStream, Returns, Cancellable
<1>29. ASSUME NEW r \in Requests, PdfFollows(r) PROVE Keeps \/ Returns(r)
  BY <1>29 DEF PdfFollows, Keeps, Returns
<1>30. ASSUME NEW r \in Requests, CancelSsePreflight(r) PROVE FALSE
  BY <1>30 DEF CancelSsePreflight, Cancellable
<1>31. ASSUME NEW k \in Keys, CacheDrops(k) PROVE Keeps
  BY <1>31 DEF CacheDrops, Keeps
<1>32. ASSUME Idle \/ UNCHANGED vars PROVE Keeps
  BY <1>32 DEF Idle, vars, Keeps
<1>33. Keeps \/ \E r \in Requests : Takes(r) \/ Returns(r)
  BY <1>1, <1>2, <1>3, <1>4, <1>5, <1>6, <1>7, <1>8, <1>9, <1>10, <1>11, <1>12, <1>13, <1>14, <1>15, <1>16, <1>17, <1>18, <1>19, <1>20, <1>21, <1>22, <1>23, <1>24, <1>25, <1>26, <1>27, <1>28, <1>29, <1>30, <1>31, <1>32
     DEF Next, Arrive, Preflighted, Worker, Resume, Stream, Cancel
<1>34. QED
  BY <1>33, KeepsSlots, TakesSlot, ReturnsSlot

\* SlotsAccounted: whatever else is cancelled, the budget is exact and respected
\* as long as no stream is cancelled during its preflight.
THEOREM SlotAccounting ==
  ASSUME <<"sse", "preflight">> \notin CancelPoints
  PROVE  Spec => []SlotsAccounted
<1>1. Init => Typed /\ SlotsAccounted
  <2> SUFFICES ASSUME Init PROVE Typed /\ SlotsAccounted
    OBVIOUS
  <2>1. Typed
    BY ServerAssumption DEF Init, Typed, TypeOK, HandlerInv, Answers, NoAnswer, Kinds
  <2>2. Holders = {}
    BY DEF Init, Holders, HoldsSlot
  <2>3. QED
    BY <2>1, <2>2, ServerAssumption, FS_EmptySet DEF Init, SlotsAccounted
<1>2. Typed /\ SlotsAccounted /\ [Next]_vars => Typed' /\ SlotsAccounted'
  BY TypeStep, HandlerStep, SlotStep DEF Typed
<1>3. QED
  BY <1>1, <1>2, PTL DEF Spec

-----------------------------------------------------------------------------
(* The single-flight registry.                                               *)

FlightInv == SingleFlight /\ NobodyStranded

\* A leader that resolves its future and goes leaves nothing behind.
LEMMA LeaderLeaves ==
  ASSUME Typed, FlightInv, NEW r \in Requests, Leads(r),
         NEW p \in Payloads, ReleaseInflight(r, r, p), Go(r, "done"), UNCHANGED <<key, kind, joined>>
  PROVE  FlightInv'
<1> USE ServerAssumption DEF Typed, TypeOK, FlightInv, Leads, Go, ReleaseInflight, Awaits
<1>1. inflight' = [inflight EXCEPT ![key[r]] = NoOne]
  BY DEF SingleFlight
<1>2. future'[r] # Pending /\ \A f \in Requests \ {r} : future'[f] = future[f]
  OBVIOUS
<1>3. \A s \in Requests : (Leads(s) <=> Leads(s)' \/ s = r) /\ ~Leads(r)'
  OBVIOUS
<1>4. SingleFlight'
  BY <1>1, <1>3 DEF SingleFlight
<1>5. NobodyStranded'
  BY <1>2, <1>3 DEF NobodyStranded, HandlerInv
<1>6. QED
  BY <1>4, <1>5

\* Anybody else who goes leaves the registry and the futures alone.
LEMMA OthersLeave ==
  ASSUME Typed, FlightInv, NEW r \in Requests, joined[r] = NoOne,
         Go(r, "done"), UNCHANGED <<key, kind, joined, inflight, future>>
  PROVE  FlightInv'
BY ServerAssumption DEF Typed, TypeOK, FlightInv, Leads, Go, SingleFlight, NobodyStranded, HandlerInv

\* What the finally block of a handler does that leads, or holds no future.
LEMMA HandlerLeaves ==
  ASSUME Typed, FlightInv, NEW r \in Requests, joined[r] = NoOne \/ Leads(r),
         NEW p, joined[r] # NoOne => p \in Payloads,
         LeaveInflight(r, p), Go(r, "done"), UNCHANGED <<key, kind, joined>>
  PROVE  FlightInv'
<1>1. CASE joined[r] = NoOne
  BY <1>1, OthersLeave DEF LeaveInflight
<1>2. CASE joined[r] # NoOne
  BY <1>2, LeaderLeaves DEF LeaveInflight, Leads
<1>3. QED
  BY <1>1, <1>2

\* A handler that never leads moves on.
LEMMA BystanderMoves ==
  ASSUME Typed, FlightInv, NEW r \in Requests, ~Leads(r), ~Leads(r)',
         NEW p \in Awaits \cup {"done"}, p # "follow", Go(r, p),
         UNCHANGED <<key, inflight, future>>,
         \A s \in Requests \ {r} : joined'[s] = joined[s]
  PROVE  FlightInv'
<1> USE ServerAssumption DEF Typed, TypeOK, Go
<1>1. \A s \in Requests : Leads(s)' <=> Leads(s)
  BY DEF Leads
<1>2. SingleFlight'
  BY <1>1 DEF FlightInv, SingleFlight
<1>3. NobodyStranded'
  BY <1>1 DEF FlightInv, NobodyStranded, HandlerInv
<1>4. QED
  BY <1>2, <1>3 DEF FlightInv

LEMMA FlightStep ==
  ASSUME <<"pdf", "follow">> \notin CancelPoints, Typed, FlightInv, [Next]_vars
  PROVE  FlightInv'
<1> USE ServerAssumption
<1> USE DEF request, threads, Awaits, Kinds
<1>1. ASSUME NEW r \in Requests, TurnAway(r) PROVE FlightInv'
  BY <1>1 DEF TurnAway, Typed, TypeOK, HandlerInv, FlightInv, SingleFlight, NobodyStranded, Leads, Go
<1>2. ASSUME NEW r \in Requests, Busy(r) PROVE FlightInv'
  BY <1>2 DEF Busy, Typed, TypeOK, HandlerInv, FlightInv, SingleFlight, NobodyStranded, Leads, Go
<1>3. ASSUME NEW r \in Requests, CacheHit(r) PROVE FlightInv'
  BY <1>3 DEF CacheHit, Typed, TypeOK, HandlerInv, FlightInv, SingleFlight, NobodyStranded, Leads, Go
<1>4. ASSUME NEW r \in Requests, JsonJoins(r) PROVE FlightInv'
  BY <1>4 DEF JsonJoins, Typed, TypeOK, HandlerInv, FlightInv, SingleFlight, NobodyStranded, Leads, Go
<1>5. ASSUME NEW r \in Requests, JsonLeads(r) PROVE FlightInv'
  BY <1>5 DEF JsonLeads, Typed, TypeOK, HandlerInv, FlightInv, SingleFlight, NobodyStranded, Leads, Go
<1>6. ASSUME NEW r \in Requests, SseReserves(r) PROVE FlightInv'
  BY <1>6 DEF SseReserves, Typed, TypeOK, HandlerInv, FlightInv, SingleFlight, NobodyStranded, Leads, Go
<1>7. ASSUME NEW r \in Requests, PdfReserves(r) PROVE FlightInv'
  <2>1. ~Leads(r) /\ ~Leads(r)'
    BY <1>7 DEF PdfReserves, Typed, TypeOK, HandlerInv, Leads, Go
  <2>2. QED
    BY <1>7, <2>1, BystanderMoves DEF PdfReserves, Typed, TypeOK
<1>8. ASSUME NEW r \in Requests, JsonAudits(r) PROVE FlightInv'
  BY <1>8 DEF JsonAudits, Typed, TypeOK, HandlerInv, FlightInv, SingleFlight, NobodyStranded, Leads, Go
<1>9. ASSUME NEW r \in Requests, SseStreams(r) PROVE FlightInv'
  <2>1. ~Leads(r) /\ ~Leads(r)'
    BY <1>9 DEF SseStreams, Typed, TypeOK, HandlerInv, Leads, Go
  <2>2. QED
    BY <1>9, <2>1, BystanderMoves DEF SseStreams, Typed, TypeOK
<1>10. ASSUME NEW r \in Requests, PdfLeads(r) PROVE FlightInv'
  BY <1>10 DEF PdfLeads, Typed, TypeOK, HandlerInv, FlightInv, SingleFlight, NobodyStranded, Leads, Go
<1>11. ASSUME NEW r \in Requests, PdfJoins(r) PROVE FlightInv'
  BY <1>11 DEF PdfJoins, Typed, TypeOK, HandlerInv, FlightInv, SingleFlight, NobodyStranded, Leads, Go
<1>12. ASSUME NEW r \in Requests, WorkerReports(r) PROVE FlightInv'
  BY <1>12 DEF WorkerReports, Typed, TypeOK, HandlerInv, FlightInv, SingleFlight, NobodyStranded, Leads, Go
<1>13. ASSUME NEW r \in Requests, WorkerFinishes(r) PROVE FlightInv'
  BY <1>13 DEF WorkerFinishes, Typed, TypeOK, HandlerInv, FlightInv, SingleFlight, NobodyStranded, Leads, Go
<1>14. ASSUME NEW r \in Requests, JsonFollows(r) PROVE FlightInv'
  BY <1>14 DEF JsonFollows, Typed, TypeOK, HandlerInv, FlightInv, SingleFlight, NobodyStranded, Leads, Go
<1>15. ASSUME NEW r \in Requests, PdfAudited(r) PROVE FlightInv'
  BY <1>15 DEF PdfAudited, Typed, TypeOK, HandlerInv, FlightInv, SingleFlight, NobodyStranded, Leads, Go
<1>16. ASSUME NEW r \in Requests, PdfFollows(r) PROVE FlightInv'
  <2>1. ~Leads(r) /\ ~Leads(r)'
    BY <1>16 DEF PdfFollows, Typed, TypeOK, HandlerInv, Leads, Go
  <2>2. QED
    BY <1>16, <2>1, BystanderMoves DEF PdfFollows, Typed, TypeOK
<1>17. ASSUME NEW r \in Requests, StreamStep(r) PROVE FlightInv'
  BY <1>17 DEF StreamStep, Typed, TypeOK, HandlerInv, FlightInv, SingleFlight, NobodyStranded, Leads, Go
<1>18. ASSUME NEW r \in Requests, StreamResult(r) PROVE FlightInv'
  BY <1>18 DEF StreamResult, Typed, TypeOK, HandlerInv, FlightInv, SingleFlight, NobodyStranded, Leads, Go
<1>19. ASSUME NEW r \in Requests, StreamTimesOut(r) PROVE FlightInv'
  BY <1>19 DEF StreamTimesOut, Typed, TypeOK, HandlerInv, FlightInv, SingleFlight, NobodyStranded, Leads, Go
<1>20. ASSUME NEW r \in Requests, StreamFindsClientGone(r) PROVE FlightInv'
  BY <1>20 DEF StreamFindsClientGone, Typed, TypeOK, HandlerInv, FlightInv, SingleFlight, NobodyStranded, Leads, Go
<1>21. ASSUME NEW r \in Requests, StreamCloses(r) PROVE FlightInv'
  BY <1>21 DEF StreamCloses, Typed, TypeOK, HandlerInv, FlightInv, SingleFlight, NobodyStranded, Leads, Go
<1>22. ASSUME NEW r \in Requests, CancelJsonFollower(r) PROVE FlightInv'
  BY <1>22 DEF CancelJsonFollower, Typed, TypeOK, HandlerInv, FlightInv, SingleFlight, NobodyStranded, Leads, Go
<1>23. ASSUME NEW r \in Requests, CancelSsePreflight(r) PROVE FlightInv'
  <2>1. Go(r, "done") /\ UNCHANGED <<key, joined, inflight, future>>
    BY <1>23 DEF CancelSsePreflight
  <2>2. joined[r] = NoOne /\ joined'[r] = NoOne
    BY <1>23, <2>1 DEF CancelSsePreflight, Typed, HandlerInv
  <2>3. ~Leads(r) /\ ~Leads(r)'
    BY <2>2 DEF Leads
  <2>4. QED
    BY <2>1, <2>3, BystanderMoves
<1>24. ASSUME NEW r \in Requests, CancelStream(r) PROVE FlightInv'
  BY <1>24 DEF CancelStream, Typed, TypeOK, HandlerInv, FlightInv, SingleFlight, NobodyStranded, Leads, Go
<1>25. ASSUME NEW r \in Requests, PreflightRefuses(r) PROVE FlightInv'
  <2>1. PICK e \in PreflightErrors : LeaveInflight(r, Refused(r, e))
    BY <1>25 DEF PreflightRefuses
  <2>2. joined[r] = NoOne \/ Leads(r)
    BY <1>25 DEF PreflightRefuses, Typed, HandlerInv, Leads
  <2>3. QED
    BY <1>25, <2>1, <2>2, PayloadType, HandlerLeaves DEF PreflightRefuses
<1>26. ASSUME NEW r \in Requests, PreflightRaises(r) PROVE FlightInv'
  <2>1. joined[r] = NoOne \/ Leads(r)
    BY <1>26 DEF PreflightRaises, Typed, HandlerInv, Leads
  <2>2. QED
    BY <1>26, <2>1, PayloadType, HandlerLeaves DEF PreflightRaises
<1>27. ASSUME NEW r \in Requests, JsonFinishes(r) PROVE FlightInv'
  <2>1. Leads(r)
    BY <1>27 DEF JsonFinishes, Typed, HandlerInv, Leads
  <2>2. PICK p \in Payloads : ReleaseInflight(r, r, p)
    BY <1>27, PayloadType DEF JsonFinishes
  <2>3. QED
    BY <1>27, <2>1, <2>2, LeaderLeaves DEF JsonFinishes
<1>28. ASSUME NEW r \in Requests, PdfAuditFails(r) PROVE FlightInv'
  <2>1. Leads(r)
    BY <1>28 DEF PdfAuditFails, Typed, HandlerInv, Leads
  <2>2. QED
    BY <1>28, <2>1, PayloadType, HandlerLeaves DEF PdfAuditFails
<1>29. ASSUME NEW r \in Requests, PdfRenders(r) PROVE FlightInv'
  <2>1. (joined[r] = NoOne \/ Leads(r)) /\ source[r] \in Requests
    BY <1>29 DEF PdfRenders, Typed, HandlerInv, Leads
  <2>2. QED
    BY <1>29, <2>1, PayloadType, HandlerLeaves DEF PdfRenders
<1>30. ASSUME NEW r \in Requests, CancelAudit(r) PROVE FlightInv'
  <2> DEFINE payload == IF pc[r] = "render" THEN Result(source[r]) ELSE Failed(joined[r])
  <2>1. pc[r] \in {"preflight", "audit", "render"}
    <3>1. /\ <<kind[r], pc[r]>> \in Kinds \X Awaits /\ <<kind[r], pc[r]>> # <<"pdf", "follow">>
          /\ \/ kind[r] = "json" /\ pc[r] \in {"preflight", "audit"}
             \/ kind[r] = "pdf"
      BY <1>30 DEF CancelAudit, Cancellable
    <3>2. pc[r] \in {"preflight", "audit", "follow", "render", "stream", "closing"}
      BY <3>1
    <3>3. pc[r] \notin {"stream", "closing"}
      BY <3>1 DEF Typed, HandlerInv
    <3>4. QED
      BY <3>1, <3>2, <3>3
  <2>2. joined[r] = NoOne \/ Leads(r)
    BY <1>30, <2>1 DEF CancelAudit, Typed, HandlerInv, Leads
  <2>3. joined[r] # NoOne => payload \in Payloads
    BY <2>2, PayloadType DEF Typed, HandlerInv, Leads
  <2>4. LeaveInflight(r, payload)
    BY <1>30 DEF CancelAudit
  <2> HIDE DEF payload
  <2>5. QED
    BY <1>30, <2>2, <2>3, <2>4, HandlerLeaves DEF CancelAudit
<1>31. ASSUME NEW k \in Keys, CacheDrops(k) PROVE FlightInv'
  BY <1>31 DEF CacheDrops, FlightInv, SingleFlight, NobodyStranded, Leads
<1>32. CASE Idle \/ UNCHANGED vars
  BY <1>32 DEF Idle, vars, FlightInv, SingleFlight, NobodyStranded, Leads
<1>33. QED
  BY <1>1, <1>2, <1>3, <1>4, <1>5, <1>6, <1>7, <1>8, <1>9, <1>10, <1>11, <1>12, <1>13, <1>14, <1>15, <1>16, <1>17, <1>18, <1>19, <1>20, <1>21, <1>22, <1>23, <1>24, <1>25, <1>26, <1>27, <1>28, <1>29, <1>30, <1>31, <1>32
     DEF Next, Arrive, Preflighted, Worker, Resume, Stream, Cancel

LEMMA FlightInvariance ==
  ASSUME <<"pdf", "follow">> \notin CancelPoints
  PROVE  Spec => []FlightInv
<1>1. Init => Typed /\ FlightInv
  BY ServerAssumption DEF Init, Typed, TypeOK, HandlerInv, Answers, NoAnswer, Kinds,
     FlightInv, SingleFlight, NobodyStranded, Leads
<1>2. Typed /\ FlightInv /\ [Next]_vars => Typed' /\ FlightInv'
  BY TypeStep, HandlerStep, FlightStep DEF Typed
<1>3. QED
  BY <1>1, <1>2, PTL DEF Spec

\* SingleFlight, as long as no pdf follower is cancelled: the registry names exactly
\* the running leaders, and no cleanup removes another leader's entry.
THEOREM SingleFlightHolds ==
  ASSUME <<"pdf", "follow">> \notin CancelPoints
  PROVE  Spec => []SingleFlight
<1>1. FlightInv => SingleFlight
  BY DEF FlightInv
<1>2. QED
  BY <1>1, FlightInvariance, PTL

\* NobodyStranded, under the same condition: whoever waits on a future waits on a
\* leader that is still at work and will resolve it.
THEOREM NobodyIsStranded ==
  ASSUME <<"pdf", "follow">> \notin CancelPoints
  PROVE  Spec => []NobodyStranded
<1>1. FlightInv => NobodyStranded
  BY DEF FlightInv
<1>2. QED
  BY <1>1, FlightInvariance, PTL

-----------------------------------------------------------------------------
(* The audit endpoints implement AuditService: every step of a handler is a *)
(* step of the service, or leaves what the service is about as it is.       *)

Phase(p) == CASE p = "new" -> "new" [] p = "done" -> "over" [] OTHER -> "served"
Phases == [r \in Requests |-> Phase(pc[r])]
Kept == Phases' = Phases /\ Holders' = Holders /\ inflight' = inflight

\* The entries of a request that goes are dropped, and no others.
Dropped(r) == inflight' = [k \in Keys |-> IF inflight[k] = r THEN NoOne ELSE inflight[k]]

LEMMA PhaseMap ==
  [r \in Requests |-> CASE pc[r] = "new" -> "new" [] pc[r] = "done" -> "over" [] OTHER -> "served"]
    = Phases
BY DEF Phases, Phase

LEMMA KeptStutters == Kept => UNCHANGED Service!vars
BY PhaseMap DEF Kept, Service!vars, Phases, Phase

LEMMA WhoGoes ==
  ASSUME Typed, NEW r \in Requests, NEW p \in Awaits \cup {"done"}, Go(r, p), kind' = kind
  PROVE  /\ Phases' = [Phases EXCEPT ![r] = Phase(p)]
         /\ \A s \in Requests \ {r} : s \in Holders' <=> s \in Holders
         /\ r \in Holders' <=> \/ p \in {"preflight", "audit", "render", "stream", "closing"}
                               \/ p = "follow" /\ kind[r] = "pdf"
BY DEF Typed, TypeOK, Go, Phases, Phase, Holders, HoldsSlot

LEMMA Finishes ==
  ASSUME Typed, NEW r \in Requests, pc[r] \notin {"new", "done"}, Go(r, "done"), kind' = kind,
         Dropped(r)
  PROVE  Service!Next
<1>1. Phases' = [Phases EXCEPT ![r] = "over"] /\ Holders' = Holders \ {r}
  BY WhoGoes DEF Phase, Holders
<1>2. Phases[r] = "served"
  BY DEF Phases, Phase, Typed, TypeOK, Awaits
<1>3. Service!Finish(r)
  BY <1>1, <1>2 DEF Service!Finish, Phases, Phase, Dropped
<1>4. QED
  BY <1>3 DEF Service!Next

\* Whoever goes without leading has no entry to drop.
LEMMA NothingToDrop ==
  ASSUME SingleFlight, TypeOK, NEW r \in Requests, ~Leads(r), UNCHANGED inflight
  PROVE  Dropped(r)
<1>1. \A k \in Keys : inflight[k] # r
  BY ServerAssumption DEF SingleFlight
<1>2. QED
  BY <1>1 DEF Dropped, TypeOK

\* The finally block of a leader pops its own entry.
LEMMA LeaverDrops ==
  ASSUME SingleFlight, TypeOK, NEW r \in Requests, NEW p, joined[r] = NoOne \/ Leads(r),
         LeaveInflight(r, p)
  PROVE  Dropped(r)
<1>1. CASE joined[r] = NoOne
  BY <1>1, NothingToDrop, ServerAssumption DEF LeaveInflight, Leads
<1>2. CASE Leads(r)
  <2>1. joined[r] = r /\ inflight[key[r]] = r /\ r # NoOne
    BY <1>2, ServerAssumption DEF Leads, SingleFlight
  <2>2. inflight' = [inflight EXCEPT ![key[r]] = NoOne]
    BY <2>1 DEF LeaveInflight, ReleaseInflight
  <2>3. \A k \in Keys : inflight[k] = r => k = key[r]
    BY <2>1 DEF SingleFlight
  <2>4. QED
    BY <2>1, <2>2, <2>3 DEF Dropped, TypeOK
<1>3. QED
  BY <1>1, <1>2

LEMMA Refuses ==
  ASSUME Typed, NEW r \in Requests, pc[r] = "new", Go(r, "done"), UNCHANGED <<kind, inflight>>
  PROVE  Service!Next
<1>1. Phases' = [Phases EXCEPT ![r] = "over"] /\ Holders' = Holders
  BY WhoGoes DEF Phase, Holders, HoldsSlot
<1>2. Phases[r] = "new"
  BY DEF Phases, Phase
<1>3. Service!Refuse(r)
  BY <1>1, <1>2 DEF Service!Refuse, Phases, Phase
<1>4. QED
  BY <1>3 DEF Service!Next

LEMMA SameCardinality == \A S : Service!Cardinality(S) = Cardinality(S)
BY DEF Service!Cardinality, Cardinality

\* A slot that is free goes to a request that may lead from the start.
LEMMA Admits ==
  ASSUME Typed, SlotsAccounted, NEW r \in Requests, pc[r] = "new", active < MaxAudits,
         NEW p \in {"preflight", "render"}, Go(r, p), kind' = kind,
         Service!Lead(r) \/ UNCHANGED inflight
  PROVE  Service!Next
<1>1. Phases' = [Phases EXCEPT ![r] = "served"] /\ Holders' = Holders \cup {r}
  BY WhoGoes DEF Phase, Holders, Awaits
<1>2. Phases[r] = "new" /\ Cardinality(Holders) < MaxAudits
  BY DEF Phases, Phase, SlotsAccounted
<1>3. Service!Admit(r)
  BY <1>1, <1>2, SameCardinality DEF Service!Admit, Phases, Phase
<1>4. QED
  BY <1>3 DEF Service!Next

LEMMA Registers ==
  ASSUME Typed, SingleFlight, NEW r \in Requests, ~Leads(r), inflight[key[r]] = NoOne,
         inflight' = [inflight EXCEPT ![key[r]] = r]
  PROVE  Service!Lead(r)
<1>1. r \notin {inflight[k] : k \in Keys}
  BY ServerAssumption DEF SingleFlight
<1>2. key[r] \in Keys
  BY DEF Typed, TypeOK
<1>3. QED
  BY <1>1, <1>2 DEF Service!Lead

\* A request that is served moves from one await to another.
LEMMA Moves ==
  ASSUME Typed, NEW r \in Requests, pc[r] \notin {"new", "done"}, NEW p \in Awaits, Go(r, p),
         HoldsSlot(r) <=> (p # "follow" \/ kind[r] = "pdf"), UNCHANGED <<kind, inflight>>
  PROVE  Kept
<1>1. Phases' = [Phases EXCEPT ![r] = "served"] /\ Holders' = Holders
  BY WhoGoes DEF Phase, Holders, HoldsSlot, Awaits
<1>2. Phases[r] = "served"
  BY DEF Phases, Phase, Typed, TypeOK, Awaits
<1>3. QED
  BY <1>1, <1>2 DEF Kept, Phases

LEMMA Undisturbed ==
  ASSUME UNCHANGED <<pc, kind, inflight>>
  PROVE  Kept
BY DEF Kept, Phases, Phase, Holders, HoldsSlot

LEMMA Step ==
  ASSUME <<"sse", "preflight">> \notin CancelPoints, <<"pdf", "follow">> \notin CancelPoints,
         Typed, SlotsAccounted, SingleFlight, [Next]_vars
  PROVE  Service!Next \/ Kept
<1> USE DEF request, threads
<1>0. TypeOK /\ NoOne \notin Requests
  BY ServerAssumption DEF Typed
<1>1. ASSUME NEW r \in Requests, TurnAway(r) PROVE Service!Next
  BY <1>1, Refuses DEF TurnAway
<1>2. ASSUME NEW r \in Requests, Busy(r) PROVE Service!Next
  BY <1>2, Refuses DEF Busy
<1>3. ASSUME NEW r \in Requests, CacheHit(r) PROVE Service!Next
  BY <1>3, Refuses DEF CacheHit
<1>4. ASSUME NEW r \in Requests, JsonJoins(r) PROVE Service!Next
  <2>1. /\ pc[r] = "new" /\ kind[r] = "json" /\ Go(r, "follow") /\ UNCHANGED <<kind, inflight>>
        /\ inflight[key[r]] # NoOne
    BY <1>4 DEF JsonJoins
  <2>2. Phases' = [Phases EXCEPT ![r] = "served"] /\ Holders' = Holders
    BY <2>1, WhoGoes DEF Phase, Holders, HoldsSlot, Awaits
  <2>3. Phases[r] = "new" /\ key[r] \in Keys
    BY <2>1 DEF Phases, Phase, Typed, TypeOK
  <2>4. Service!Wait(r)
    BY <2>1, <2>2, <2>3 DEF Service!Wait, Phases, Phase
  <2>5. QED
    BY <2>4 DEF Service!Next
<1>5. ASSUME NEW r \in Requests, JsonLeads(r) PROVE Service!Next
  <2>1. ~Leads(r)
    BY <1>5 DEF JsonLeads, Leads
  <2>2. Service!Lead(r)
    BY <1>5, <2>1, Registers DEF JsonLeads
  <2>3. QED
    BY <1>5, <2>2, Admits DEF JsonLeads
<1>6. ASSUME NEW r \in Requests, SseReserves(r) PROVE Service!Next
  BY <1>6, Admits DEF SseReserves
<1>7. ASSUME NEW r \in Requests, PdfReserves(r) PROVE Service!Next
  BY <1>7, Admits DEF PdfReserves
<1>8. ASSUME NEW r \in Requests, PreflightRefuses(r) PROVE Service!Next
  <2>1. joined[r] = NoOne \/ Leads(r)
    BY <1>8 DEF PreflightRefuses, Typed, HandlerInv, Leads
  <2>2. Dropped(r)
    BY <1>0, <1>8, <2>1, LeaverDrops DEF PreflightRefuses
  <2>3. QED
    BY <1>8, <2>2, Finishes DEF PreflightRefuses
<1>9. ASSUME NEW r \in Requests, PreflightRaises(r) PROVE Service!Next
  <2>1. joined[r] = NoOne \/ Leads(r)
    BY <1>9 DEF PreflightRaises, Typed, HandlerInv, Leads
  <2>2. Dropped(r)
    BY <1>0, <1>9, <2>1, LeaverDrops DEF PreflightRaises
  <2>3. QED
    BY <1>9, <2>2, Finishes DEF PreflightRaises
<1>10. ASSUME NEW r \in Requests, JsonAudits(r) PROVE Kept
  BY <1>10, Moves DEF JsonAudits, HoldsSlot, Awaits
<1>11. ASSUME NEW r \in Requests, SseStreams(r) PROVE Kept
  BY <1>11, Moves DEF SseStreams, HoldsSlot, Awaits
<1>12. ASSUME NEW r \in Requests, PdfLeads(r) PROVE Service!Next
  <2>1. ~Leads(r) /\ HoldsSlot(r)
    BY <1>0, <1>12 DEF PdfLeads, Typed, HandlerInv, Leads, HoldsSlot
  <2>2. Service!Lead(r)
    BY <1>12, <2>1, Registers DEF PdfLeads
  <2>3. Phases' = [Phases EXCEPT ![r] = "served"] /\ Holders' = Holders
    BY <1>12, WhoGoes DEF PdfLeads, Phase, Holders, HoldsSlot, Awaits
  <2>4. Phases[r] = "served"
    BY <1>12 DEF PdfLeads, Phases, Phase
  <2>5. Service!Promote(r)
    BY <2>1, <2>2, <2>3, <2>4 DEF Service!Promote, Phases, Phase, Holders
  <2>6. QED
    BY <2>5 DEF Service!Next
<1>13. ASSUME NEW r \in Requests, PdfJoins(r) PROVE Kept
  BY <1>13, Moves DEF PdfJoins, HoldsSlot, Awaits
<1>14. ASSUME NEW r \in Requests, WorkerReports(r) PROVE Kept
  BY <1>14, Undisturbed DEF WorkerReports
<1>15. ASSUME NEW r \in Requests, WorkerFinishes(r) PROVE Kept
  BY <1>15, Undisturbed DEF WorkerFinishes
<1>16. ASSUME NEW r \in Requests, StreamStep(r) PROVE Kept
  BY <1>16, Undisturbed DEF StreamStep
<1>17. ASSUME NEW r \in Requests, JsonFinishes(r) PROVE Service!Next
  <2>1. joined[r] = r /\ Leads(r)
    BY <1>17 DEF JsonFinishes, Typed, HandlerInv, Leads
  <2>2. PICK p : LeaveInflight(r, p)
    BY <1>0, <1>17, <2>1 DEF JsonFinishes, LeaveInflight
  <2>3. Dropped(r)
    BY <1>0, <2>1, <2>2, LeaverDrops
  <2>4. QED
    BY <1>17, <2>3, Finishes DEF JsonFinishes
<1>18. ASSUME NEW r \in Requests, JsonFollows(r) PROVE Service!Next
  <2>1. Dropped(r)
    BY <1>0, <1>18, NothingToDrop DEF JsonFollows, Leads
  <2>2. QED
    BY <1>18, <2>1, Finishes DEF JsonFollows
<1>19. ASSUME NEW r \in Requests, StreamFindsClientGone(r) PROVE Service!Next
  <2>1. Dropped(r)
    BY <1>0, <1>19, NothingToDrop DEF StreamFindsClientGone, Leads
  <2>2. QED
    BY <1>19, <2>1, Finishes DEF StreamFindsClientGone
<1>20. ASSUME NEW r \in Requests, StreamCloses(r) PROVE Service!Next
  <2>1. Dropped(r)
    BY <1>0, <1>20, NothingToDrop DEF StreamCloses, Leads
  <2>2. QED
    BY <1>20, <2>1, Finishes DEF StreamCloses
<1>21. ASSUME NEW r \in Requests, CancelJsonFollower(r) PROVE Service!Next
  <2>1. Dropped(r)
    BY <1>0, <1>21, NothingToDrop DEF CancelJsonFollower, Leads
  <2>2. QED
    BY <1>21, <2>1, Finishes DEF CancelJsonFollower
<1>22. ASSUME NEW r \in Requests, CancelStream(r) PROVE Service!Next
  <2>1. Dropped(r)
    BY <1>0, <1>22, NothingToDrop DEF CancelStream, Leads
  <2>2. QED
    BY <1>22, <2>1, Finishes DEF CancelStream
<1>23. ASSUME NEW r \in Requests, StreamResult(r) PROVE Kept
  BY <1>23, Moves DEF StreamResult, HoldsSlot, Awaits
<1>24. ASSUME NEW r \in Requests, StreamTimesOut(r) PROVE Kept
  BY <1>24, Moves DEF StreamTimesOut, HoldsSlot, Awaits
<1>25. ASSUME NEW r \in Requests, PdfAudited(r) PROVE Kept
  BY <1>25, Moves DEF PdfAudited, HoldsSlot, Awaits
<1>26. ASSUME NEW r \in Requests, PdfAuditFails(r) PROVE Service!Next
  <2>1. joined[r] = NoOne \/ Leads(r)
    BY <1>26 DEF PdfAuditFails, Typed, HandlerInv, Leads
  <2>2. Dropped(r)
    BY <1>0, <1>26, <2>1, LeaverDrops DEF PdfAuditFails
  <2>3. QED
    BY <1>26, <2>2, Finishes DEF PdfAuditFails
<1>27. ASSUME NEW r \in Requests, PdfRenders(r) PROVE Service!Next
  <2>1. joined[r] = NoOne \/ Leads(r)
    BY <1>27 DEF PdfRenders, Typed, HandlerInv, Leads
  <2>2. Dropped(r)
    BY <1>0, <1>27, <2>1, LeaverDrops DEF PdfRenders
  <2>3. QED
    BY <1>27, <2>2, Finishes DEF PdfRenders
<1>28. ASSUME NEW r \in Requests, PdfFollows(r) PROVE Service!Next \/ Kept
  <2>1. pc[r] = "follow" /\ kind[r] = "pdf" /\ UNCHANGED <<kind, inflight>>
    BY <1>28 DEF PdfFollows
  <2>2. CASE Go(r, "render")
    BY <2>1, <2>2, Moves DEF HoldsSlot, Awaits
  <2>3. CASE Go(r, "done")
    <3>1. Dropped(r)
      BY <1>0, <2>1, NothingToDrop DEF Leads
    <3>2. QED
      BY <2>1, <2>3, <3>1, Finishes
  <2>4. QED
    BY <1>28, <2>2, <2>3 DEF PdfFollows
<1>29. ASSUME NEW r \in Requests, CancelAudit(r) PROVE Service!Next
  <2>1. <<kind[r], pc[r]>> \in Kinds \X Awaits /\ <<kind[r], pc[r]>> # <<"pdf", "follow">>
    BY <1>29, ServerAssumption DEF CancelAudit, Cancellable
  <2>2. pc[r] \in {"preflight", "audit", "render"}
    <3>1. pc[r] \in Awaits /\ (kind[r] = "pdf" => pc[r] # "follow")
      BY <2>1
    <3>2. pc[r] \notin {"stream", "closing"} /\ pc[r] # "follow"
      BY <1>29, <3>1 DEF CancelAudit, Typed, HandlerInv
    <3>3. QED
      BY <3>1, <3>2 DEF Awaits
  <2>3. joined[r] = NoOne \/ Leads(r)
    BY <1>29, <2>2 DEF CancelAudit, Typed, HandlerInv, Leads
  <2>4. Dropped(r)
    BY <1>0, <1>29, <2>3, LeaverDrops DEF CancelAudit
  <2>5. QED
    BY <1>29, <2>2, <2>4, Finishes DEF CancelAudit
<1>30. ASSUME NEW r \in Requests, CancelSsePreflight(r) PROVE FALSE
  BY <1>30 DEF CancelSsePreflight, Cancellable
<1>31. ASSUME NEW k \in Keys, CacheDrops(k) PROVE Kept
  BY <1>31, Undisturbed DEF CacheDrops
<1>32. ASSUME Idle \/ UNCHANGED vars PROVE Kept
  BY <1>32, Undisturbed DEF Idle, vars
<1>33. QED
  BY <1>1, <1>2, <1>3, <1>4, <1>5, <1>6, <1>7, <1>8, <1>9, <1>10, <1>11, <1>12, <1>13,
     <1>14, <1>15, <1>16, <1>17, <1>18, <1>19, <1>20, <1>21, <1>22, <1>23, <1>24, <1>25,
     <1>26, <1>27, <1>28, <1>29, <1>30, <1>31, <1>32
     DEF Next, Arrive, Preflighted, Worker, Resume, Stream, Cancel

\* ImplementsService: the handlers behave as a counting semaphore with one leader per
\* key, unless a stream can be cancelled during its preflight or a pdf follower while it
\* waits. "The registry is joined after the reservation on purpose": a leader is a holder.
THEOREM Implementation ==
  ASSUME <<"sse", "preflight">> \notin CancelPoints, <<"pdf", "follow">> \notin CancelPoints
  PROVE  Spec => ImplementsService
<1>1. Init => Service!Init
  <2>1. Init => Phases = [r \in Requests |-> "new"] /\ Holders = {}
    BY DEF Init, Phases, Phase, Holders, HoldsSlot
  <2>2. Init => inflight = [k \in Keys |-> NoOne]
    BY DEF Init
  <2>3. QED
    BY <2>1, <2>2, PhaseMap DEF Service!Init
<1>2. Typed /\ SlotsAccounted /\ SingleFlight /\ [Next]_vars => [Service!Next]_Service!vars
  BY Step, KeptStutters
<1>3. QED
  BY <1>1, <1>2, TypedAlways, SlotAccounting, SingleFlightHolds, PTL DEF Spec, ImplementsService, Service!Spec

-----------------------------------------------------------------------------
(* What clients, the cache and the audit log are told. *)

\* Result e of f's audit may be told for the key k. Once told it stays true.
Told(e, f, k) ==
  /\ key[f] = k
  /\ e = "none" => worker[f] = "ok"
  /\ e \in PreflightErrors => pc[f] = "done" /\ answer[f].error = e
  /\ e = "server_error" => worker[f] = "failed" \/ (pc[f] = "done" /\ answer[f].status \in {0, 500})
  /\ e # "cancelled"

\* What the awaits of a request say of what it holds and was told.
Honest(r) ==
  /\ joined[r] # NoOne => key[joined[r]] = key[r]
  /\ future[r] # Pending => Told(future[r].error, future[r].from, key[r])
  /\ pc[r] \notin {"closing", "done"} => answer[r] = NoAnswer
  /\ pc[r] \in {"new", "preflight"} => worker[r] = "none"
  /\ pc[r] = "render" => Told("none", source[r], key[r])
  /\ answer[r].from # NoOne => Told(answer[r].error, answer[r].from, key[r])
  /\ answer[r].error # "cancelled"
  /\ stop[r] => pc[r] \in {"closing", "done"}
  /\ \A i \in 1..Len(queue[r]) :
       /\ queue[r][i] = "ok" => worker[r] = "ok"
       /\ queue[r][i] = "failed" => worker[r] = "failed"
       /\ queue[r][i] = "interrupted" => stop[r]

\* An audit that is cached is past its cutoff.
Cacheable(c, k) == /\ Told("none", c, k) /\ answer[c].error # "timeout"
                   /\ pc[c] \in {"render", "closing", "done"}

TruthInv == /\ \A r \in Requests : Honest(r)
            /\ \A k \in Keys : cache[k] # NoOne => Cacheable(cache[k], k)

\* What a step does not take back.
Lasting ==
  /\ key' = key
  /\ \A x \in Requests :
       /\ worker[x] \in {"ok", "failed"} => worker'[x] = worker[x]
       /\ pc[x] = "done" => pc'[x] = "done" /\ answer'[x] = answer[x]

LEMMA ToldStays ==
  ASSUME Lasting, NEW e, NEW f \in Requests, NEW k, Told(e, f, k)
  PROVE  Told(e, f, k)'
BY DEF Lasting, Told

\* Nothing of x changes.
Same(x) ==
  /\ pc'[x] = pc[x] /\ joined'[x] = joined[x] /\ future'[x] = future[x]
  /\ answer'[x] = answer[x] /\ source'[x] = source[x] /\ worker'[x] = worker[x]
  /\ queue'[x] = queue[x] /\ stop'[x] = stop[x]

LEMMA OthersStay ==
  ASSUME Typed, Typed', Lasting, NEW x \in Requests, Honest(x), Same(x)
  PROVE  Honest(x)'
<1>1. key' = key
  BY DEF Lasting
<1>2. (joined[x] # NoOne => key[joined[x]] = key[x])'
  BY <1>1 DEF Honest, Same
<1>3. (future[x] # Pending => Told(future[x].error, future[x].from, key[x]))'
  <2>1. future[x] # Pending => future[x].from \in Requests
    BY DEF Typed, TypeOK, Payloads
  <2>2. QED
    BY <1>1, <2>1, ToldStays DEF Honest, Same
<1>4. (pc[x] = "render" => Told("none", source[x], key[x]))'
  <2>1. pc[x] = "render" => source[x] \in Requests
    BY DEF Typed, HandlerInv
  <2>2. QED
    BY <1>1, <2>1, ToldStays DEF Honest, Same
<1>5. (answer[x].from # NoOne => Told(answer[x].error, answer[x].from, key[x]))'
  <2>1. answer[x].from # NoOne => answer[x].from \in Requests
    BY DEF Typed, TypeOK, Answers
  <2>2. QED
    BY <1>1, <2>1, ToldStays DEF Honest, Same
<1>6. QED
  BY <1>2, <1>3, <1>4, <1>5 DEF Honest, Same

\* A step of r that keeps r honest, and caches nothing or r's own audit.
LEMMA OneMoves ==
  ASSUME Typed, Typed', TruthInv, Lasting, NEW r \in Requests,
         \A x \in Requests \ {r} : Same(x), Honest(r)',
         pc[r] \in {"render", "closing", "done"} =>
           /\ pc'[r] \in {"render", "closing", "done"}
           /\ answer'[r] = answer[r] \/ answer'[r].error # "timeout",
         \A k \in Keys : cache'[k] \in {NoOne, cache[k]} \/ Cacheable(cache[k], k)'
  PROVE  TruthInv'
<1>1. \A x \in Requests : Honest(x)'
  BY OthersStay DEF TruthInv
<1>2. ASSUME NEW k \in Keys, cache'[k] # NoOne PROVE Cacheable(cache[k], k)'
  <2>1. CASE cache'[k] = cache[k]
    <3>1. cache[k] \in Requests /\ Cacheable(cache[k], k)
      <4>1. cache[k] \in Requests \cup {NoOne}
        BY DEF Typed, TypeOK
      <4>2. cache[k] # NoOne => Cacheable(cache[k], k)
        BY DEF TruthInv
      <4>3. QED
        BY <1>2, <2>1, <4>1, <4>2
    <3>2. Told("none", cache[k], k)'
      BY <2>1, <3>1, ToldStays DEF Cacheable, Told
    <3>3. QED
      BY <2>1, <3>1, <3>2 DEF Cacheable, Same
  <2>2. QED
    BY <1>2, <2>1
<1>3. QED
  BY <1>1, <1>2 DEF TruthInv

LEMMA StaysHonest ==
  ASSUME Typed, Typed', Lasting, NEW r \in Requests, Honest(r),
         joined'[r] \in {NoOne, joined[r]} \/ key[joined'[r]] = key[r],
         future'[r] = future[r] \/ Told(future[r].error, future[r].from, key[r])',
         pc'[r] = "render" => Told("none", source[r], key[r])',
         pc'[r] \notin {"closing", "done"} => pc[r] \notin {"closing", "done"} /\ answer'[r] = answer[r],
         \/ answer'[r] = answer[r]
         \/ /\ answer'[r].error # "cancelled"
            /\ (answer[r].from # NoOne => Told(answer[r].error, answer[r].from, key[r]))',
         stop'[r] => stop[r] \/ pc'[r] \in {"closing", "done"},
         stop[r] => stop'[r], pc[r] = "closing" => pc'[r] \in {"closing", "done"},
         pc'[r] \in {"new", "preflight"} => pc[r] \in {"new", "preflight"} /\ worker'[r] = worker[r],
         queue'[r] \in {queue[r], Tail(queue[r])} /\ (queue[r] = <<>> => queue'[r] = queue[r])
  PROVE  Honest(r)'
<1>1. key' = key /\ (worker[r] \in {"ok", "failed"} => worker'[r] = worker[r])
      /\ (pc[r] = "done" => pc'[r] = "done")
  BY DEF Lasting
<1>2. (joined[r] # NoOne => key[joined[r]] = key[r])'
  BY <1>1 DEF Honest
<1>3. (future[r] # Pending => Told(future[r].error, future[r].from, key[r]))'
  <2>1. future[r] # Pending => future[r].from \in Requests
    BY DEF Typed, TypeOK, Payloads
  <2>2. QED
    BY <1>1, <2>1, ToldStays DEF Honest
<1>4. (answer[r].from # NoOne => Told(answer[r].error, answer[r].from, key[r]))'
  <2>1. answer[r].from # NoOne => answer[r].from \in Requests
    BY DEF Typed, TypeOK, Answers
  <2>2. QED
    BY <1>1, <2>1, ToldStays DEF Honest
<1>5. ASSUME NEW i \in 1..Len(queue'[r])
      PROVE  /\ queue'[r][i] = "ok" => worker'[r] = "ok"
             /\ queue'[r][i] = "failed" => worker'[r] = "failed"
             /\ queue'[r][i] = "interrupted" => stop'[r]
  <2>1. queue[r] \in Seq(Messages)
    BY DEF Typed, TypeOK
  <2>2. PICK j \in 1..Len(queue[r]) : queue'[r][i] = queue[r][j]
    <3>1. CASE queue'[r] = queue[r]
      BY <3>1
    <3>2. CASE queue'[r] = Tail(queue[r]) /\ queue[r] # <<>>
      <4>1. i + 1 \in 1..Len(queue[r]) /\ queue'[r][i] = queue[r][i + 1]
        BY <2>1, <3>2
      <4>2. QED
        BY <4>1
    <3>3. QED
      BY <3>1, <3>2
  <2>3. QED
    BY <1>1, <2>2 DEF Honest
<1>6. (pc[r] \in {"new", "preflight"} => worker[r] = "none")'
  BY DEF Honest
<1>7. (pc[r] \notin {"closing", "done"} => answer[r] = NoAnswer)' /\ answer'[r].error # "cancelled"
      /\ (stop[r] => pc[r] \in {"closing", "done"})'
  BY <1>1 DEF Honest, NoAnswer
<1>8. QED
  BY <1>2, <1>3, <1>4, <1>5, <1>6, <1>7 DEF Honest

\* A handler goes from one await to the next without a word.
Moved(r, p) == /\ pc'[r] = p /\ answer'[r] = answer[r] /\ future'[r] = future[r]
               /\ stop'[r] = stop[r] /\ queue'[r] = queue[r]

LEMMA Quietly ==
  ASSUME Typed, Typed', Lasting, NEW r \in Requests, Honest(r), pc[r] \notin {"closing", "done"},
         NEW p \in {"preflight", "audit", "follow", "stream"}, Moved(r, p),
         joined'[r] \in {NoOne, joined[r]} \/ key[joined'[r]] = key[r],
         p = "preflight" => pc[r] = "new" /\ worker'[r] = worker[r]
  PROVE  Honest(r)'
BY StaysHonest DEF Moved

\* It ends, or begins to, with what it tells and leaves to its followers.
LEMMA EndsHonestly ==
  ASSUME Typed, Typed', Lasting, NEW r \in Requests, Honest(r), pc'[r] \in {"closing", "done"},
         joined'[r] \in {NoOne, joined[r]},
         future'[r] = future[r] \/ Told(future[r].error, future[r].from, key[r])',
         \/ answer'[r] = answer[r]
         \/ /\ answer'[r].error # "cancelled"
            /\ (answer[r].from # NoOne => Told(answer[r].error, answer[r].from, key[r]))',
         stop[r] => stop'[r],
         queue'[r] \in {queue[r], Tail(queue[r])} /\ (queue[r] = <<>> => queue'[r] = queue[r])
  PROVE  Honest(r)'
BY StaysHonest

\* It has an audit of its key to render.
LEMMA RendersHonestly ==
  ASSUME Typed, Typed', Lasting, NEW r \in Requests, Honest(r), pc[r] \notin {"closing", "done"},
         Moved(r, "render"), Told("none", source[r], key[r])', joined'[r] \in {NoOne, joined[r]}
  PROVE  Honest(r)'
BY StaysHonest DEF Moved

\* What the finally of a handler does to the futures.
LEMMA LeavesFuture ==
  ASSUME Typed, NEW r \in Requests, NEW p, joined[r] \in {NoOne, r}, LeaveInflight(r, p)
  PROVE  /\ \A x \in Requests \ {r} : future'[x] = future[x]
         /\ future'[r] = future[r] \/ (joined[r] = r /\ future'[r] = p)
BY ServerAssumption DEF Typed, TypeOK, LeaveInflight, ReleaseInflight

LEMMA TruthStep ==
  ASSUME <<"pdf", "follow">> \notin CancelPoints, Typed, Typed', FlightInv, TruthInv, [Next]_vars
  PROVE  TruthInv'
<1> USE ServerAssumption DEF request, threads, Awaits, Kinds
<1>1. ASSUME NEW r \in Requests, JsonJoins(r) PROVE TruthInv'
  <2>1. Honest(r)
    BY DEF TruthInv
  <2>2. Lasting
    BY <1>1, <2>1 DEF JsonJoins, Lasting, Honest, Typed, TypeOK, Go, Tell
  <2>3. \A x \in Requests \ {r} : Same(x)
    BY <1>1 DEF JsonJoins, Same, Typed, TypeOK, Go, Tell
  <2>6. pc[r] = "new" /\ Moved(r, "follow") /\ worker'[r] \in {worker[r], "running"}
        /\ ("follow" = "preflight" => worker'[r] = worker[r])
    BY <1>1 DEF JsonJoins, Moved, Typed, TypeOK, Go
  <2>7. joined'[r] \in {NoOne, joined[r]} \/ key[joined'[r]] = key[r]
    BY <1>1 DEF JsonJoins, Typed, TypeOK, FlightInv, SingleFlight
  <2>4. Honest(r)'
    BY <2>1, <2>2, <2>6, <2>7, Quietly
  <2>5. QED
    BY <1>1, <2>2, <2>3, <2>4, OneMoves DEF JsonJoins, Typed, TypeOK, Go, Tell
<1>2. ASSUME NEW r \in Requests, JsonLeads(r) PROVE TruthInv'
  <2>1. Honest(r)
    BY DEF TruthInv
  <2>2. Lasting
    BY <1>2, <2>1 DEF JsonLeads, Lasting, Honest, Typed, TypeOK, Go, Tell
  <2>3. \A x \in Requests \ {r} : Same(x)
    BY <1>2 DEF JsonLeads, Same, Typed, TypeOK, Go, Tell
  <2>6. pc[r] = "new" /\ Moved(r, "preflight") /\ worker'[r] \in {worker[r], "running"}
        /\ ("preflight" = "preflight" => worker'[r] = worker[r])
    BY <1>2 DEF JsonLeads, Moved, Typed, TypeOK, Go
  <2>7. joined'[r] \in {NoOne, joined[r]} \/ key[joined'[r]] = key[r]
    BY <1>2 DEF JsonLeads, Typed, TypeOK
  <2>4. Honest(r)'
    BY <2>1, <2>2, <2>6, <2>7, Quietly
  <2>5. QED
    BY <1>2, <2>2, <2>3, <2>4, OneMoves DEF JsonLeads, Typed, TypeOK, Go, Tell
<1>3. ASSUME NEW r \in Requests, SseReserves(r) PROVE TruthInv'
  <2>1. Honest(r)
    BY DEF TruthInv
  <2>2. Lasting
    BY <1>3, <2>1 DEF SseReserves, Lasting, Honest, Typed, TypeOK, Go, Tell
  <2>3. \A x \in Requests \ {r} : Same(x)
    BY <1>3 DEF SseReserves, Same, Typed, TypeOK, Go, Tell
  <2>6. pc[r] = "new" /\ Moved(r, "preflight") /\ worker'[r] \in {worker[r], "running"}
        /\ ("preflight" = "preflight" => worker'[r] = worker[r])
    BY <1>3 DEF SseReserves, Moved, Typed, TypeOK, Go
  <2>7. joined'[r] \in {NoOne, joined[r]} \/ key[joined'[r]] = key[r]
    BY <1>3 DEF SseReserves, Typed, TypeOK
  <2>4. Honest(r)'
    BY <2>1, <2>2, <2>6, <2>7, Quietly
  <2>5. QED
    BY <1>3, <2>2, <2>3, <2>4, OneMoves DEF SseReserves, Typed, TypeOK, Go, Tell
<1>4. ASSUME NEW r \in Requests, JsonAudits(r) PROVE TruthInv'
  <2>1. Honest(r)
    BY DEF TruthInv
  <2>2. Lasting
    BY <1>4, <2>1 DEF JsonAudits, Lasting, Honest, Typed, TypeOK, Go, Tell
  <2>3. \A x \in Requests \ {r} : Same(x)
    BY <1>4 DEF JsonAudits, Same, Typed, TypeOK, Go, Tell
  <2>6. pc[r] = "preflight" /\ Moved(r, "audit") /\ worker'[r] \in {worker[r], "running"}
        /\ ("audit" = "preflight" => worker'[r] = worker[r])
    BY <1>4 DEF JsonAudits, Moved, Typed, TypeOK, Go
  <2>7. joined'[r] \in {NoOne, joined[r]} \/ key[joined'[r]] = key[r]
    BY <1>4 DEF JsonAudits, Typed, TypeOK
  <2>4. Honest(r)'
    BY <2>1, <2>2, <2>6, <2>7, Quietly
  <2>5. QED
    BY <1>4, <2>2, <2>3, <2>4, OneMoves DEF JsonAudits, Typed, TypeOK, Go, Tell
<1>5. ASSUME NEW r \in Requests, SseStreams(r) PROVE TruthInv'
  <2>1. Honest(r)
    BY DEF TruthInv
  <2>2. Lasting
    BY <1>5, <2>1 DEF SseStreams, Lasting, Honest, Typed, TypeOK, Go, Tell
  <2>3. \A x \in Requests \ {r} : Same(x)
    BY <1>5 DEF SseStreams, Same, Typed, TypeOK, Go, Tell
  <2>6. pc[r] = "preflight" /\ Moved(r, "stream") /\ worker'[r] \in {worker[r], "running"}
        /\ ("stream" = "preflight" => worker'[r] = worker[r])
    BY <1>5 DEF SseStreams, Moved, Typed, TypeOK, Go
  <2>7. joined'[r] \in {NoOne, joined[r]} \/ key[joined'[r]] = key[r]
    BY <1>5 DEF SseStreams, Typed, TypeOK
  <2>4. Honest(r)'
    BY <2>1, <2>2, <2>6, <2>7, Quietly
  <2>5. QED
    BY <1>5, <2>2, <2>3, <2>4, OneMoves DEF SseStreams, Typed, TypeOK, Go, Tell
<1>6. ASSUME NEW r \in Requests, PdfLeads(r) PROVE TruthInv'
  <2>1. Honest(r)
    BY DEF TruthInv
  <2>2. Lasting
    BY <1>6, <2>1 DEF PdfLeads, Lasting, Honest, Typed, TypeOK, Go, Tell
  <2>3. \A x \in Requests \ {r} : Same(x)
    BY <1>6 DEF PdfLeads, Same, Typed, TypeOK, Go, Tell
  <2>6. pc[r] = "preflight" /\ Moved(r, "audit") /\ worker'[r] \in {worker[r], "running"}
        /\ ("audit" = "preflight" => worker'[r] = worker[r])
    BY <1>6 DEF PdfLeads, Moved, Typed, TypeOK, Go
  <2>7. joined'[r] \in {NoOne, joined[r]} \/ key[joined'[r]] = key[r]
    BY <1>6 DEF PdfLeads, Typed, TypeOK
  <2>4. Honest(r)'
    BY <2>1, <2>2, <2>6, <2>7, Quietly
  <2>5. QED
    BY <1>6, <2>2, <2>3, <2>4, OneMoves DEF PdfLeads, Typed, TypeOK, Go, Tell
<1>7. ASSUME NEW r \in Requests, PdfJoins(r) PROVE TruthInv'
  <2>1. Honest(r)
    BY DEF TruthInv
  <2>2. Lasting
    BY <1>7, <2>1 DEF PdfJoins, Lasting, Honest, Typed, TypeOK, Go, Tell
  <2>3. \A x \in Requests \ {r} : Same(x)
    BY <1>7 DEF PdfJoins, Same, Typed, TypeOK, Go, Tell
  <2>6. pc[r] = "preflight" /\ Moved(r, "follow") /\ worker'[r] \in {worker[r], "running"}
        /\ ("follow" = "preflight" => worker'[r] = worker[r])
    BY <1>7 DEF PdfJoins, Moved, Typed, TypeOK, Go
  <2>7. joined'[r] \in {NoOne, joined[r]} \/ key[joined'[r]] = key[r]
    BY <1>7 DEF PdfJoins, Typed, TypeOK, FlightInv, SingleFlight
  <2>4. Honest(r)'
    BY <2>1, <2>2, <2>6, <2>7, Quietly
  <2>5. QED
    BY <1>7, <2>2, <2>3, <2>4, OneMoves DEF PdfJoins, Typed, TypeOK, Go, Tell
<1>8. ASSUME NEW r \in Requests, StreamTimesOut(r) PROVE TruthInv'
  <2>1. Honest(r)
    BY DEF TruthInv
  <2>2. Lasting
    BY <1>8, <2>1 DEF StreamTimesOut, Lasting, Honest, Typed, TypeOK, Go, Tell
  <2>3. \A x \in Requests \ {r} : Same(x)
    BY <1>8 DEF StreamTimesOut, Same, Typed, TypeOK, Go, Tell
  <2>6. /\ pc'[r] = "closing" /\ joined'[r] = joined[r] /\ (stop[r] => stop'[r])
        /\ queue'[r] = queue[r]
        /\ future'[r] = future[r]
        /\ answer'[r].error # "cancelled" /\ answer'[r].from = NoOne
    BY <1>8 DEF StreamTimesOut, Typed, TypeOK, Go, Tell, Reply
  <2>4. Honest(r)'
    BY <2>1, <2>2, <2>6, EndsHonestly
  <2>5. QED
    BY <1>8, <2>2, <2>3, <2>4, OneMoves DEF StreamTimesOut, Typed, TypeOK, Go, Tell
<1>9. ASSUME NEW r \in Requests, StreamFindsClientGone(r) PROVE TruthInv'
  <2>1. Honest(r)
    BY DEF TruthInv
  <2>2. Lasting
    BY <1>9, <2>1 DEF StreamFindsClientGone, Lasting, Honest, Typed, TypeOK, Go, Tell
  <2>3. \A x \in Requests \ {r} : Same(x)
    BY <1>9 DEF StreamFindsClientGone, Same, Typed, TypeOK, Go, Tell
  <2>6. /\ pc'[r] = "done" /\ joined'[r] = joined[r] /\ (stop[r] => stop'[r])
        /\ queue'[r] = queue[r]
        /\ future'[r] = future[r]
        /\ answer'[r] = answer[r]
    BY <1>9 DEF StreamFindsClientGone, Typed, TypeOK, Go, Tell, Reply
  <2>4. Honest(r)'
    BY <2>1, <2>2, <2>6, EndsHonestly
  <2>5. QED
    BY <1>9, <2>2, <2>3, <2>4, OneMoves DEF StreamFindsClientGone, Typed, TypeOK, Go, Tell
<1>10. ASSUME NEW r \in Requests, StreamCloses(r) PROVE TruthInv'
  <2>1. Honest(r)
    BY DEF TruthInv
  <2>2. Lasting
    BY <1>10, <2>1 DEF StreamCloses, Lasting, Honest, Typed, TypeOK, Go, Tell
  <2>3. \A x \in Requests \ {r} : Same(x)
    BY <1>10 DEF StreamCloses, Same, Typed, TypeOK, Go, Tell
  <2>6. /\ pc'[r] = "done" /\ joined'[r] = joined[r] /\ (stop[r] => stop'[r])
        /\ queue'[r] = queue[r]
        /\ future'[r] = future[r]
        /\ answer'[r] = answer[r]
    BY <1>10 DEF StreamCloses, Typed, TypeOK, Go, Tell, Reply
  <2>4. Honest(r)'
    BY <2>1, <2>2, <2>6, EndsHonestly
  <2>5. QED
    BY <1>10, <2>2, <2>3, <2>4, OneMoves DEF StreamCloses, Typed, TypeOK, Go, Tell
<1>11. ASSUME NEW r \in Requests, CancelJsonFollower(r) PROVE TruthInv'
  <2>1. Honest(r)
    BY DEF TruthInv
  <2>2. Lasting
    BY <1>11, <2>1 DEF CancelJsonFollower, Lasting, Honest, Typed, TypeOK, Go, Tell
  <2>3. \A x \in Requests \ {r} : Same(x)
    BY <1>11 DEF CancelJsonFollower, Same, Typed, TypeOK, Go, Tell
  <2>6. /\ pc'[r] = "done" /\ joined'[r] = joined[r] /\ (stop[r] => stop'[r])
        /\ queue'[r] = queue[r]
        /\ future'[r] = future[r]
        /\ answer'[r] = answer[r]
    BY <1>11 DEF CancelJsonFollower, Typed, TypeOK, Go, Tell, Reply
  <2>4. Honest(r)'
    BY <2>1, <2>2, <2>6, EndsHonestly
  <2>5. QED
    BY <1>11, <2>2, <2>3, <2>4, OneMoves DEF CancelJsonFollower, Typed, TypeOK, Go, Tell
<1>12. ASSUME NEW r \in Requests, CancelSsePreflight(r) PROVE TruthInv'
  <2>1. Honest(r)
    BY DEF TruthInv
  <2>2. Lasting
    BY <1>12, <2>1 DEF CancelSsePreflight, Lasting, Honest, Typed, TypeOK, Go, Tell
  <2>3. \A x \in Requests \ {r} : Same(x)
    BY <1>12 DEF CancelSsePreflight, Same, Typed, TypeOK, Go, Tell
  <2>6. /\ pc'[r] = "done" /\ joined'[r] = joined[r] /\ (stop[r] => stop'[r])
        /\ queue'[r] = queue[r]
        /\ future'[r] = future[r]
        /\ answer'[r] = answer[r]
    BY <1>12 DEF CancelSsePreflight, Typed, TypeOK, Go, Tell, Reply
  <2>4. Honest(r)'
    BY <2>1, <2>2, <2>6, EndsHonestly
  <2>5. QED
    BY <1>12, <2>2, <2>3, <2>4, OneMoves DEF CancelSsePreflight, Typed, TypeOK, Go, Tell
<1>13. ASSUME NEW r \in Requests, CancelStream(r) PROVE TruthInv'
  <2>1. Honest(r)
    BY DEF TruthInv
  <2>2. Lasting
    BY <1>13, <2>1 DEF CancelStream, Lasting, Honest, Typed, TypeOK, Go, Tell
  <2>3. \A x \in Requests \ {r} : Same(x)
    BY <1>13 DEF CancelStream, Same, Typed, TypeOK, Go, Tell
  <2>6. /\ pc'[r] = "done" /\ joined'[r] = joined[r] /\ (stop[r] => stop'[r])
        /\ queue'[r] = queue[r]
        /\ future'[r] = future[r]
        /\ answer'[r] = answer[r]
    BY <1>13 DEF CancelStream, Typed, TypeOK, Go, Tell, Reply
  <2>4. Honest(r)'
    BY <2>1, <2>2, <2>6, EndsHonestly
  <2>5. QED
    BY <1>13, <2>2, <2>3, <2>4, OneMoves DEF CancelStream, Typed, TypeOK, Go, Tell
<1>14. ASSUME NEW r \in Requests, TurnAway(r) PROVE TruthInv'
  <2>1. Honest(r)
    BY DEF TruthInv
  <2>2. Lasting
    BY <1>14, <2>1 DEF TurnAway, Lasting, Honest, Typed, TypeOK, Go, Tell
  <2>3. \A x \in Requests \ {r} : Same(x)
    BY <1>14 DEF TurnAway, Same, Typed, TypeOK, Go, Tell
  <2>6. /\ pc'[r] = "done" /\ joined'[r] = joined[r] /\ (stop[r] => stop'[r])
        /\ queue'[r] = queue[r]
        /\ future'[r] = future[r]
        /\ answer'[r].error # "cancelled" /\ answer'[r].from = NoOne
    BY <1>14 DEF TurnAway, Typed, TypeOK, Go, Tell, Reply
  <2>4. Honest(r)'
    BY <2>1, <2>2, <2>6, EndsHonestly
  <2>5. QED
    BY <1>14, <2>2, <2>3, <2>4, OneMoves DEF TurnAway, Typed, TypeOK, Go, Tell
<1>15. ASSUME NEW r \in Requests, Busy(r) PROVE TruthInv'
  <2>1. Honest(r)
    BY DEF TruthInv
  <2>2. Lasting
    BY <1>15, <2>1 DEF Busy, Lasting, Honest, Typed, TypeOK, Go, Tell
  <2>3. \A x \in Requests \ {r} : Same(x)
    BY <1>15 DEF Busy, Same, Typed, TypeOK, Go, Tell
  <2>6. /\ pc'[r] = "done" /\ joined'[r] = joined[r] /\ (stop[r] => stop'[r])
        /\ queue'[r] = queue[r]
        /\ future'[r] = future[r]
        /\ answer'[r].error # "cancelled" /\ answer'[r].from = NoOne
    BY <1>15 DEF Busy, Typed, TypeOK, Go, Tell, Reply
  <2>4. Honest(r)'
    BY <2>1, <2>2, <2>6, EndsHonestly
  <2>5. QED
    BY <1>15, <2>2, <2>3, <2>4, OneMoves DEF Busy, Typed, TypeOK, Go, Tell
<1>16. ASSUME NEW r \in Requests, CacheHit(r) PROVE TruthInv'
  <2>1. Honest(r)
    BY DEF TruthInv
  <2>2. Lasting
    BY <1>16, <2>1 DEF CacheHit, Lasting, Honest, Typed, TypeOK, Go, Tell
  <2>3. \A x \in Requests \ {r} : Same(x)
    BY <1>16 DEF CacheHit, Same, Typed, TypeOK, Go, Tell
  <2>6. PICK c \in Requests : c = cache[key[r]]
    BY <1>16 DEF CacheHit, Typed, TypeOK
  <2>7. Told("none", c, key[r])
    BY <1>16, <2>6 DEF CacheHit, TruthInv, Cacheable, Typed, TypeOK
  <2>8. /\ answer'[r].error = "none" /\ answer'[r].from = c /\ key'[r] = key[r] /\ pc'[r] = "done"
        /\ joined' = joined /\ future' = future /\ stop' = stop /\ queue' = queue
    BY <1>16, <2>6 DEF CacheHit, Typed, TypeOK, Go, Tell, Reply
  <2>9. Told(answer[r].error, answer[r].from, key[r])'
    BY <2>2, <2>7, <2>8, ToldStays
  <2>4. Honest(r)'
    BY <2>1, <2>2, <2>8, <2>9, EndsHonestly
  <2>5. QED
    BY <1>16, <2>2, <2>3, <2>4, OneMoves DEF CacheHit, Typed, TypeOK, Go, Tell
<1>17. ASSUME NEW r \in Requests, JsonFollows(r) PROVE TruthInv'
  <2>1. Honest(r)
    BY DEF TruthInv
  <2>2. Lasting
    BY <1>17, <2>1 DEF JsonFollows, Lasting, Honest, Typed, TypeOK, Go, Tell
  <2>3. \A x \in Requests \ {r} : Same(x)
    BY <1>17 DEF JsonFollows, Same, Typed, TypeOK, Go, Tell
  <2>6. PICK p \in Payloads : p = future[joined[r]]
    BY <1>17 DEF JsonFollows, Typed, TypeOK, HandlerInv
  <2>7. Told(p.error, p.from, key[r]) /\ p.from \in Requests
    <3>1. joined[r] \in Requests /\ key[joined[r]] = key[r]
      BY <1>17, <2>1 DEF JsonFollows, Typed, HandlerInv, Honest
    <3>2. Honest(joined[r]) /\ future[joined[r]] # Pending
      BY <1>17, <3>1 DEF JsonFollows, TruthInv
    <3>3. QED
      BY <2>6, <3>1, <3>2 DEF Honest, Payloads
  <2>8. /\ answer'[r].error = p.error /\ answer'[r].from = p.from /\ key'[r] = key[r]
        /\ pc'[r] = "done"
        /\ joined' = joined /\ future' = future /\ stop' = stop /\ queue' = queue
    BY <1>17, <2>6 DEF JsonFollows, Typed, TypeOK, Go, Tell, Reply
  <2>9. Told(answer[r].error, answer[r].from, key[r])' /\ answer'[r].error # "cancelled"
    <3>1. Told(p.error, p.from, key[r])'
      BY <2>2, <2>7, <2>8, ToldStays
    <3>2. QED
      BY <2>7, <2>8, <3>1 DEF Told
  <2>4. Honest(r)'
    BY <2>1, <2>2, <2>8, <2>9, EndsHonestly
  <2>5. QED
    BY <1>17, <2>2, <2>3, <2>4, OneMoves DEF JsonFollows, Typed, TypeOK, Go, Tell
<1>18. ASSUME NEW r \in Requests, PdfFollows(r) PROVE TruthInv'
  <2>1. Honest(r)
    BY DEF TruthInv
  <2>2. Lasting
    BY <1>18, <2>1 DEF PdfFollows, Lasting, Honest, Typed, TypeOK, Go, Tell
  <2>3. \A x \in Requests \ {r} : Same(x)
    BY <1>18 DEF PdfFollows, Same, Typed, TypeOK, Go, Tell
  <2>6. PICK p \in Payloads : p = future[joined[r]]
    BY <1>18 DEF PdfFollows, Typed, TypeOK, HandlerInv
  <2>7. Told(p.error, p.from, key[r]) /\ p.from \in Requests
    <3>1. joined[r] \in Requests /\ key[joined[r]] = key[r]
      BY <1>18, <2>1 DEF PdfFollows, Typed, HandlerInv, Honest
    <3>2. Honest(joined[r]) /\ future[joined[r]] # Pending
      BY <1>18, <3>1 DEF PdfFollows, TruthInv
    <3>3. QED
      BY <2>6, <3>1, <3>2 DEF Honest, Payloads
  <2>8. /\ pc[r] = "follow" /\ key'[r] = key[r] /\ joined'[r] = NoOne
        /\ future' = future /\ stop' = stop /\ queue' = queue
    BY <1>18 DEF PdfFollows, Typed, TypeOK
  <2>9. Told(p.error, p.from, key[r])'
    BY <2>2, <2>7, <2>8, ToldStays
  <2>10. CASE p.error = "none"
    <3>1. pc'[r] = "render" /\ source'[r] = p.from /\ answer'[r] = answer[r]
      BY <1>18, <2>6, <2>10 DEF PdfFollows, Typed, TypeOK, Go
    <3>2. Honest(r)'
      BY <2>1, <2>2, <2>8, <2>9, <2>10, <3>1, RendersHonestly DEF Moved
    <3>3. QED
      BY <1>18, <2>2, <2>3, <2>8, <3>2, OneMoves DEF PdfFollows
  <2>11. CASE p.error # "none"
    <3>1. pc'[r] = "done" /\ answer'[r].error = p.error /\ answer'[r].from = p.from
      BY <1>18, <2>6, <2>11 DEF PdfFollows, Typed, TypeOK, Go, Tell, Reply
    <3>2. Told(answer[r].error, answer[r].from, key[r])' /\ answer'[r].error # "cancelled"
      BY <2>7, <2>9, <3>1 DEF Told
    <3>3. Honest(r)'
      BY <2>1, <2>2, <2>8, <3>1, <3>2, EndsHonestly
    <3>4. QED
      BY <1>18, <2>2, <2>3, <2>8, <3>3, OneMoves DEF PdfFollows
  <2>5. QED
    BY <2>10, <2>11
<1>19. ASSUME NEW r \in Requests, PdfReserves(r) PROVE TruthInv'
  <2>1. Honest(r)
    BY DEF TruthInv
  <2>2. Lasting
    BY <1>19, <2>1 DEF PdfReserves, Lasting, Honest, Typed, TypeOK, Go, Tell
  <2>3. \A x \in Requests \ {r} : Same(x)
    BY <1>19 DEF PdfReserves, Same, Typed, TypeOK, Go, Tell
  <2>6. CASE cache[key[r]] # NoOne
    <3>1. PICK c \in Requests : c = cache[key[r]]
      BY <2>6 DEF Typed, TypeOK
    <3>2. Told("none", c, key[r])
      BY <2>6, <3>1 DEF TruthInv, Cacheable, Typed, TypeOK
    <3>3. source'[r] = c /\ key'[r] = key[r] /\ pc[r] = "new" /\ Moved(r, "render") /\ joined' = joined
      BY <1>19, <2>6, <3>1 DEF PdfReserves, Moved, Typed, TypeOK, Go
    <3>4. Told("none", source[r], key[r])'
      BY <2>2, <3>2, <3>3, ToldStays
    <3>5. Honest(r)'
      BY <2>1, <2>2, <3>3, <3>4, RendersHonestly
    <3>6. QED
      BY <1>19, <2>2, <2>3, <3>3, <3>5, OneMoves DEF PdfReserves
  <2>7. CASE cache[key[r]] = NoOne
    <3>1. pc[r] = "new" /\ Moved(r, "preflight") /\ joined' = joined /\ worker' = worker
      BY <1>19, <2>7 DEF PdfReserves, Moved, Typed, TypeOK, Go
    <3>2. Honest(r)'
      BY <2>1, <2>2, <3>1, Quietly
    <3>3. QED
      BY <1>19, <2>2, <2>3, <3>1, <3>2, OneMoves DEF PdfReserves
  <2>5. QED
    BY <2>6, <2>7
<1>20. ASSUME NEW r \in Requests, PdfAudited(r) PROVE TruthInv'
  <2>1. Honest(r)
    BY DEF TruthInv
  <2>2. Lasting
    BY <1>20, <2>1 DEF PdfAudited, Lasting, Honest, Typed, TypeOK, Go, Tell
  <2>3. \A x \in Requests \ {r} : Same(x)
    BY <1>20 DEF PdfAudited, Same, Typed, TypeOK, Go, Tell
  <2>6. /\ pc[r] = "audit" /\ source'[r] = r /\ key'[r] = key[r] /\ Moved(r, "render") /\ joined' = joined
        /\ worker'[r] = "ok" /\ answer'[r] = answer[r]
        /\ \A k \in Keys : cache'[k] = cache[k] \/ (k = key[r] /\ cache'[k] = r)
    BY <1>20 DEF PdfAudited, Moved, Typed, TypeOK, Go
  <2>7. Told("none", r, key[r])'
    BY <2>6 DEF Told, PreflightErrors
  <2>4. Honest(r)'
    BY <2>1, <2>2, <2>6, <2>7, RendersHonestly
  <2>8. answer[r].error = "none"
    BY <2>1, <2>6 DEF Honest, NoAnswer
  <2>9. \A k \in Keys : cache'[k] \in {NoOne, cache[k]} \/ Cacheable(cache[k], k)'
    BY <2>6, <2>7, <2>8 DEF Cacheable, Moved
  <2>5. QED
    BY <2>2, <2>3, <2>4, <2>6, <2>9, OneMoves
<1>21. ASSUME NEW r \in Requests, PreflightRefuses(r) PROVE TruthInv'
  <2>1. Honest(r)
    BY DEF TruthInv
  <2>2. Lasting
    BY <1>21, <2>1 DEF PreflightRefuses, Lasting, Honest, Typed, TypeOK, Go, Tell
  <2>6. joined[r] \in {NoOne, r} /\ (joined[r] = r /\ pc[r] = "preflight" => kind[r] = "json")
    BY <1>21 DEF PreflightRefuses, Typed, HandlerInv
  <2>7. PICK p : /\ LeaveInflight(r, p)
                 /\ joined[r] = r => \E e \in PreflightErrors : p = Refused(r, e) /\ answer'[r].error = e
    BY <1>21, <2>6 DEF PreflightRefuses, Typed, TypeOK, Tell, Reply
  <2>8. (\A x \in Requests \ {r} : future'[x] = future[x])
        /\ (future'[r] = future[r] \/ (joined[r] = r /\ future'[r] = p))
    BY <2>6, <2>7, LeavesFuture
  <2>9. /\ pc'[r] = "done" /\ key'[r] = key[r] /\ joined' = joined /\ stop' = stop /\ queue' = queue
        /\ answer'[r].error \in PreflightErrors /\ answer'[r].from = NoOne
    BY <1>21 DEF PreflightRefuses, Typed, TypeOK, Go, Tell, Reply
  <2>3. \A x \in Requests \ {r} : Same(x)
    BY <1>21, <2>8 DEF PreflightRefuses, Same, Typed, TypeOK, Go, Tell
  <2>10. future'[r] = future[r] \/ Told(future[r].error, future[r].from, key[r])'
    BY <2>7, <2>8, <2>9 DEF Told, Refused, PreflightErrors
  <2>11. (answer[r].from # NoOne => Told(answer[r].error, answer[r].from, key[r]))' /\ answer'[r].error # "cancelled"
    BY <2>9 DEF Told, PreflightErrors
  <2>4. Honest(r)'
    BY <2>1, <2>2, <2>9, <2>10, <2>11, EndsHonestly
  <2>5. QED
    BY <1>21, <2>2, <2>3, <2>4, OneMoves DEF PreflightRefuses
<1>22. ASSUME NEW r \in Requests, PreflightRaises(r) PROVE TruthInv'
  <2>1. Honest(r)
    BY DEF TruthInv
  <2>2. Lasting
    BY <1>22, <2>1 DEF PreflightRaises, Lasting, Honest, Typed, TypeOK, Go, Tell
  <2>6. joined[r] \in {NoOne, r} /\ (joined[r] = r /\ pc[r] = "preflight" => kind[r] = "json")
    BY <1>22 DEF PreflightRaises, Typed, HandlerInv
  <2>7. PICK p : /\ LeaveInflight(r, p)
                 /\ joined[r] = r => p = Failed(r) /\ answer'[r].status = 500
    BY <1>22, <2>6 DEF PreflightRaises, Typed, TypeOK, Tell, Reply
  <2>8. (\A x \in Requests \ {r} : future'[x] = future[x])
        /\ (future'[r] = future[r] \/ (joined[r] = r /\ future'[r] = p))
    BY <2>6, <2>7, LeavesFuture
  <2>9. /\ pc'[r] = "done" /\ key'[r] = key[r] /\ joined' = joined /\ stop' = stop /\ queue' = queue
        /\ answer'[r].error = "server_error" /\ answer'[r].from = NoOne
    BY <1>22 DEF PreflightRaises, Typed, TypeOK, Go, Tell, Reply
  <2>3. \A x \in Requests \ {r} : Same(x)
    BY <1>22, <2>8 DEF PreflightRaises, Same, Typed, TypeOK, Go, Tell
  <2>10. future'[r] = future[r] \/ Told(future[r].error, future[r].from, key[r])'
    BY <2>7, <2>8, <2>9 DEF Told, Failed, PreflightErrors
  <2>11. (answer[r].from # NoOne => Told(answer[r].error, answer[r].from, key[r]))' /\ answer'[r].error # "cancelled"
    BY <2>9 DEF Told, PreflightErrors
  <2>4. Honest(r)'
    BY <2>1, <2>2, <2>9, <2>10, <2>11, EndsHonestly
  <2>5. QED
    BY <1>22, <2>2, <2>3, <2>4, OneMoves DEF PreflightRaises
<1>23. ASSUME NEW r \in Requests, PdfAuditFails(r) PROVE TruthInv'
  <2>1. Honest(r)
    BY DEF TruthInv
  <2>2. Lasting
    BY <1>23, <2>1 DEF PdfAuditFails, Lasting, Honest, Typed, TypeOK, Go, Tell
  <2>6. joined[r] \in {NoOne, r} /\ (joined[r] = r /\ pc[r] = "preflight" => kind[r] = "json")
    BY <1>23 DEF PdfAuditFails, Typed, HandlerInv
  <2>7. PICK p : /\ LeaveInflight(r, p)
                 /\ joined[r] = r => p = Failed(r) /\ worker'[r] = "failed"
    BY <1>23, <2>6 DEF PdfAuditFails, Typed, TypeOK, Tell, Reply
  <2>8. (\A x \in Requests \ {r} : future'[x] = future[x])
        /\ (future'[r] = future[r] \/ (joined[r] = r /\ future'[r] = p))
    BY <2>6, <2>7, LeavesFuture
  <2>9. /\ pc'[r] = "done" /\ key'[r] = key[r] /\ joined' = joined /\ stop' = stop /\ queue' = queue
        /\ answer'[r].error = "server_error" /\ answer'[r].from = r /\ worker'[r] = "failed"
    BY <1>23 DEF PdfAuditFails, Typed, TypeOK, Go, Tell, Reply
  <2>3. \A x \in Requests \ {r} : Same(x)
    BY <1>23, <2>8 DEF PdfAuditFails, Same, Typed, TypeOK, Go, Tell
  <2>10. future'[r] = future[r] \/ Told(future[r].error, future[r].from, key[r])'
    BY <2>7, <2>8, <2>9 DEF Told, Failed, PreflightErrors
  <2>11. (answer[r].from # NoOne => Told(answer[r].error, answer[r].from, key[r]))' /\ answer'[r].error # "cancelled"
    BY <2>9 DEF Told, PreflightErrors
  <2>4. Honest(r)'
    BY <2>1, <2>2, <2>9, <2>10, <2>11, EndsHonestly
  <2>5. QED
    BY <1>23, <2>2, <2>3, <2>4, OneMoves DEF PdfAuditFails
<1>24. ASSUME NEW r \in Requests, JsonFinishes(r) PROVE TruthInv'
  <2>1. Honest(r)
    BY DEF TruthInv
  <2>2. Lasting
    BY <1>24, <2>1 DEF JsonFinishes, Lasting, Honest, Typed, TypeOK, Go, Tell
  <2>6. /\ pc[r] = "audit" /\ joined[r] = r /\ worker[r] \in {"ok", "failed"}
    BY <1>24 DEF JsonFinishes, Typed, HandlerInv
  <2>7. PICK p : /\ LeaveInflight(r, p) /\ p = (IF worker[r] = "ok" THEN Result(r) ELSE Failed(r))
                 /\ answer'[r] = Reply(200, p.error, r)
    BY <1>24, <2>6 DEF JsonFinishes, LeaveInflight, Typed, TypeOK, Tell
  <2>8. (\A x \in Requests \ {r} : future'[x] = future[x]) /\ future'[r] \in {future[r], p}
    BY <2>6, <2>7, LeavesFuture
  <2>9. /\ pc'[r] = "done" /\ key'[r] = key[r] /\ joined' = joined /\ stop' = stop /\ queue' = queue
        /\ worker' = worker
        /\ \A k \in Keys : cache'[k] = cache[k] \/ (k = key[r] /\ cache'[k] = r /\ worker[r] = "ok")
    BY <1>24 DEF JsonFinishes, Typed, TypeOK, Go
  <2>3. \A x \in Requests \ {r} : Same(x)
    BY <1>24, <2>8 DEF JsonFinishes, Same, Typed, TypeOK, Go, Tell
  <2>10. /\ p.from = r /\ answer'[r].from = r /\ answer'[r].error = p.error
         /\ p.error = IF worker[r] = "ok" THEN "none" ELSE "server_error"
    BY <2>7 DEF Result, Failed, Reply
  <2>11. Told(p.error, r, key[r])'
    BY <2>6, <2>9, <2>10 DEF Told, PreflightErrors
  <2>12. Told(answer[r].error, answer[r].from, key[r])' /\ answer'[r].error \notin {"cancelled", "timeout"}
    BY <2>10, <2>11
  <2>13. future'[r] = future[r] \/ Told(future[r].error, future[r].from, key[r])'
    BY <2>8, <2>10, <2>11
  <2>4. Honest(r)'
    BY <2>1, <2>2, <2>9, <2>12, <2>13, EndsHonestly
  <2>14. \A k \in Keys : cache'[k] \in {NoOne, cache[k]} \/ Cacheable(cache[k], k)'
    BY <2>9, <2>10, <2>11, <2>12 DEF Cacheable
  <2>5. QED
    BY <2>2, <2>3, <2>4, <2>6, <2>14, OneMoves
<1>25. ASSUME NEW r \in Requests, PdfRenders(r) PROVE TruthInv'
  <2>1. Honest(r)
    BY DEF TruthInv
  <2>2. Lasting
    BY <1>25, <2>1 DEF PdfRenders, Lasting, Honest, Typed, TypeOK, Go, Tell
  <2>6. pc[r] = "render" /\ joined[r] \in {NoOne, r} /\ source[r] \in Requests
    BY <1>25 DEF PdfRenders, Typed, HandlerInv
  <2>7. LeaveInflight(r, Result(source[r]))
    BY <1>25 DEF PdfRenders
  <2>8. (\A x \in Requests \ {r} : future'[x] = future[x])
        /\ future'[r] \in {future[r], Result(source[r])}
    BY <2>6, <2>7, LeavesFuture
  <2>9. /\ pc'[r] = "done" /\ key'[r] = key[r] /\ joined' = joined /\ stop' = stop /\ queue' = queue
        /\ cache' = cache
        /\ \/ answer'[r].error = "none" /\ answer'[r].from = source[r]
           \/ answer'[r].error = "server_error" /\ answer'[r].from = NoOne
    BY <1>25 DEF PdfRenders, Typed, TypeOK, Go, Tell, Reply
  <2>3. \A x \in Requests \ {r} : Same(x)
    BY <1>25, <2>8 DEF PdfRenders, Same, Typed, TypeOK, Go, Tell
  <2>10. PICK s \in Requests : s = source[r] /\ Told("none", s, key[r])
    BY <2>1, <2>6 DEF Honest
  <2>11. Told("none", s, key[r])'
    BY <2>2, <2>9, <2>10, ToldStays
  <2>12. (answer[r].from # NoOne => Told(answer[r].error, answer[r].from, key[r]))' /\ answer'[r].error # "cancelled"
    BY <2>9, <2>10, <2>11
  <2>13. future'[r] = future[r] \/ Told(future[r].error, future[r].from, key[r])'
    BY <2>8, <2>10, <2>11 DEF Result
  <2>4. Honest(r)'
    BY <2>1, <2>2, <2>9, <2>12, <2>13, EndsHonestly
  <2>5. QED
    BY <2>2, <2>3, <2>4, <2>6, <2>9, OneMoves
<1>26. ASSUME NEW r \in Requests, CancelAudit(r) PROVE TruthInv'
  <2>1. Honest(r)
    BY DEF TruthInv
  <2>2. Lasting
    BY <1>26, <2>1 DEF CancelAudit, Lasting, Honest, Typed, TypeOK, Go, Tell
  <2>6. pc[r] \in {"preflight", "audit", "render"}
    <3>1. <<kind[r], pc[r]>> \in Kinds \X Awaits /\ <<kind[r], pc[r]>> # <<"pdf", "follow">>
      BY <1>26 DEF CancelAudit, Cancellable
    <3>2. pc[r] \in Awaits /\ (kind[r] = "pdf" => pc[r] # "follow")
      BY <3>1
    <3>3. pc[r] \notin {"stream", "closing", "follow"}
      BY <1>26, <3>2 DEF CancelAudit, Typed, HandlerInv
    <3>4. QED
      BY <3>2, <3>3
  <2>7. joined[r] \in {NoOne, r} /\ (pc[r] = "render" => source[r] \in Requests)
    BY <2>6 DEF Typed, HandlerInv
  <2>8. PICK p : LeaveInflight(r, p) /\ p = (IF pc[r] = "render" THEN Result(source[r]) ELSE Failed(joined[r]))
    BY <1>26 DEF CancelAudit
  <2>9. (\A x \in Requests \ {r} : future'[x] = future[x])
        /\ (future'[r] = future[r] \/ (joined[r] = r /\ future'[r] = p))
    BY <2>7, <2>8, LeavesFuture
  <2>10. /\ pc'[r] = "done" /\ key'[r] = key[r] /\ joined' = joined /\ stop' = stop /\ queue' = queue
         /\ cache' = cache /\ answer' = answer
    BY <1>26 DEF CancelAudit, Typed, TypeOK, Go
  <2>3. \A x \in Requests \ {r} : Same(x)
    BY <1>26, <2>9 DEF CancelAudit, Same, Typed, TypeOK, Go
  <2>11. answer'[r].status = 0
    BY <2>1, <2>6, <2>10 DEF Honest, NoAnswer
  <2>12. CASE pc[r] = "render"
    <3>1. PICK s \in Requests : s = source[r] /\ Told("none", s, key[r])
      BY <2>1, <2>7, <2>12 DEF Honest
    <3>2. Told("none", s, key[r])'
      BY <2>2, <2>10, <3>1, ToldStays
    <3>3. p.error = "none" /\ p.from = s
      BY <2>8, <2>12, <3>1 DEF Result
    <3>4. future'[r] = future[r] \/ Told(future[r].error, future[r].from, key[r])'
      BY <2>9, <3>2, <3>3
    <3>5. Honest(r)'
      BY <2>1, <2>2, <2>10, <3>4, EndsHonestly
    <3>6. QED
      BY <2>2, <2>3, <2>10, <3>5, OneMoves
  <2>13. CASE pc[r] # "render"
    <3>1. Told("server_error", r, key[r])'
      BY <2>10, <2>11 DEF Told, PreflightErrors
    <3>2. joined[r] = r => p.error = "server_error" /\ p.from = r
      BY <2>8, <2>13 DEF Failed
    <3>3. future'[r] = future[r] \/ Told(future[r].error, future[r].from, key[r])'
      BY <2>9, <3>1, <3>2
    <3>4. Honest(r)'
      BY <2>1, <2>2, <2>10, <3>3, EndsHonestly
    <3>5. QED
      BY <2>2, <2>3, <2>10, <3>4, OneMoves
  <2>5. QED
    BY <2>12, <2>13
<1>27. ASSUME NEW r \in Requests, StreamStep(r) PROVE TruthInv'
  <2>1. Honest(r)
    BY DEF TruthInv
  <2>2. Lasting
    BY <1>27, <2>1 DEF StreamStep, Lasting, Honest, Typed, TypeOK, Go, Tell
  <2>3. \A x \in Requests \ {r} : Same(x)
    BY <1>27 DEF StreamStep, Same, Typed, TypeOK, Go, Tell
  <2>6. /\ pc[r] = "stream" /\ pc' = pc /\ joined' = joined /\ future' = future /\ stop' = stop
        /\ answer' = answer /\ queue'[r] = Tail(queue[r]) /\ queue[r] # <<>>
    BY <1>27 DEF StreamStep, Typed, TypeOK
  <2>4. Honest(r)'
    BY <2>1, <2>2, <2>6, StaysHonest
  <2>5. QED
    BY <1>27, <2>2, <2>3, <2>4, <2>6, OneMoves DEF StreamStep
<1>28. ASSUME NEW r \in Requests, StreamResult(r) PROVE TruthInv'
  <2>1. Honest(r)
    BY DEF TruthInv
  <2>2. Lasting
    BY <1>28, <2>1 DEF StreamResult, Lasting, Honest, Typed, TypeOK, Go, Tell
  <2>3. \A x \in Requests \ {r} : Same(x)
    BY <1>28 DEF StreamResult, Same, Typed, TypeOK, Go, Tell
  <2>6. /\ pc[r] = "stream" /\ queue[r] # <<>> /\ queue[r] \in Seq(Messages) /\ worker' = worker
        /\ pc'[r] = "closing" /\ key'[r] = key[r] /\ joined' = joined /\ future' = future /\ stop' = stop
        /\ queue'[r] = Tail(queue[r])
    BY <1>28 DEF StreamResult, Typed, TypeOK, Go
  <2>7. PICK m \in Messages : m = Head(queue[r]) /\ m # "step"
    BY <1>28, <2>6 DEF StreamResult
  <2>8. m \in {"ok", "failed"} /\ worker[r] = m
    <3>1. 1 \in 1..Len(queue[r]) /\ queue[r][1] = m
      BY <2>6, <2>7
    <3>2. ~stop[r]
      BY <2>1, <2>6 DEF Honest
    <3>3. QED
      BY <2>1, <2>7, <3>1, <3>2 DEF Honest, Messages
  <2>9. /\ answer'[r].from = r /\ answer'[r].error = IF m = "ok" THEN "none" ELSE "server_error"
        /\ \A k \in Keys : cache'[k] = cache[k] \/ (k = key[r] /\ cache'[k] = r /\ m = "ok")
    BY <1>28, <2>7, <2>8 DEF StreamResult, Typed, TypeOK, Tell, Reply, DoneError
  <2>10. Told(answer[r].error, answer[r].from, key[r])' /\ answer'[r].error \notin {"cancelled", "timeout"}
    BY <2>6, <2>8, <2>9 DEF Told, PreflightErrors
  <2>4. Honest(r)'
    BY <2>1, <2>2, <2>6, <2>10, EndsHonestly
  <2>11. \A k \in Keys : cache'[k] \in {NoOne, cache[k]} \/ Cacheable(cache[k], k)'
    BY <2>6, <2>9, <2>10 DEF Cacheable
  <2>5. QED
    BY <2>2, <2>3, <2>4, <2>6, <2>11, OneMoves
<1>29. ASSUME NEW r \in Requests, WorkerReports(r) PROVE TruthInv'
  <2>1. Honest(r)
    BY DEF TruthInv
  <2>2. Lasting
    BY <1>29, <2>1 DEF WorkerReports, Lasting, Honest, Typed, TypeOK, Go, Tell
  <2>3. \A x \in Requests \ {r} : Same(x)
    BY <1>29 DEF WorkerReports, Same, Typed, TypeOK, Go, Tell
  <2>6. /\ pc' = pc /\ joined' = joined /\ future' = future /\ answer' = answer /\ source' = source /\ stop' = stop
        /\ key' = key /\ cache' = cache /\ worker[r] = "running" /\ queue[r] \in Seq(Messages)
    BY <1>29 DEF WorkerReports, Typed, TypeOK
  <2>7. \/ queue'[r] = queue[r]
        \/ \E m \in Messages : /\ queue'[r] = Append(queue[r], m)
                               /\ m \in {"ok", "failed"} => worker'[r] = m
                               /\ m = "interrupted" => stop[r]
    BY <1>29 DEF WorkerReports, Typed, TypeOK, Messages
  <2>8. \A i \in 1..Len(queue'[r]) :
          /\ queue'[r][i] = "ok" => worker'[r] = "ok"
          /\ queue'[r][i] = "failed" => worker'[r] = "failed"
          /\ queue'[r][i] = "interrupted" => stop'[r]
    <3>1. \A i \in 1..Len(queue[r]) : /\ queue[r][i] \notin {"ok", "failed"}
                                      /\ queue[r][i] = "interrupted" => stop[r]
      BY <2>1, <2>6 DEF Honest
    <3>2. CASE queue'[r] = queue[r]
      BY <2>6, <3>1, <3>2
    <3>3. ASSUME NEW m \in Messages, queue'[r] = Append(queue[r], m),
                 m \in {"ok", "failed"} => worker'[r] = m, m = "interrupted" => stop[r],
                 NEW i \in 1..Len(queue'[r])
          PROVE  /\ queue'[r][i] = "ok" => worker'[r] = "ok"
                 /\ queue'[r][i] = "failed" => worker'[r] = "failed"
                 /\ queue'[r][i] = "interrupted" => stop'[r]
      <4>1. \/ i \in 1..Len(queue[r]) /\ queue'[r][i] = queue[r][i]
            \/ queue'[r][i] = m
        BY <2>6, <3>3
      <4>2. QED
        BY <2>6, <3>1, <3>3, <4>1
    <3>4. QED
      BY <2>7, <3>2, <3>3
  <2>4. Honest(r)'
    <3>1. pc[r] \notin {"new", "preflight"}
      BY <2>1, <2>6 DEF Honest
    <3>2. (future[r] # Pending => Told(future[r].error, future[r].from, key[r]))'
      <4>1. future[r] # Pending => future[r].from \in Requests
        BY DEF Typed, TypeOK, Payloads
      <4>2. QED
        BY <2>1, <2>2, <2>6, <4>1, ToldStays DEF Honest
    <3>3. (answer[r].from # NoOne => Told(answer[r].error, answer[r].from, key[r]))'
      <4>1. answer[r].from # NoOne => answer[r].from \in Requests
        BY DEF Typed, TypeOK, Answers
      <4>2. QED
        BY <2>1, <2>2, <2>6, <4>1, ToldStays DEF Honest
    <3>4. (pc[r] = "render" => Told("none", source[r], key[r]))'
      <4>1. pc[r] = "render" => source[r] \in Requests
        BY DEF Typed, HandlerInv
      <4>2. QED
        BY <2>1, <2>2, <2>6, <4>1, ToldStays DEF Honest
    <3>5. QED
      BY <2>1, <2>6, <2>8, <3>1, <3>2, <3>3, <3>4 DEF Honest
  <2>5. QED
    BY <2>2, <2>3, <2>4, <2>6, OneMoves
<1>30. ASSUME NEW r \in Requests, WorkerFinishes(r) PROVE TruthInv'
  <2>1. Honest(r)
    BY DEF TruthInv
  <2>2. Lasting
    BY <1>30, <2>1 DEF WorkerFinishes, Lasting, Honest, Typed, TypeOK, Go, Tell
  <2>3. \A x \in Requests \ {r} : Same(x)
    BY <1>30 DEF WorkerFinishes, Same, Typed, TypeOK, Go, Tell
  <2>6. /\ pc' = pc /\ joined' = joined /\ future' = future /\ answer' = answer /\ source' = source /\ stop' = stop
        /\ key' = key /\ cache' = cache /\ worker[r] = "running" /\ queue[r] \in Seq(Messages)
    BY <1>30 DEF WorkerFinishes, Typed, TypeOK
  <2>7. \/ queue'[r] = queue[r]
        \/ \E m \in Messages : /\ queue'[r] = Append(queue[r], m)
                               /\ m \in {"ok", "failed"} => worker'[r] = m
                               /\ m = "interrupted" => stop[r]
    BY <1>30 DEF WorkerFinishes, Typed, TypeOK, Messages
  <2>8. \A i \in 1..Len(queue'[r]) :
          /\ queue'[r][i] = "ok" => worker'[r] = "ok"
          /\ queue'[r][i] = "failed" => worker'[r] = "failed"
          /\ queue'[r][i] = "interrupted" => stop'[r]
    <3>1. \A i \in 1..Len(queue[r]) : /\ queue[r][i] \notin {"ok", "failed"}
                                      /\ queue[r][i] = "interrupted" => stop[r]
      BY <2>1, <2>6 DEF Honest
    <3>2. CASE queue'[r] = queue[r]
      BY <2>6, <3>1, <3>2
    <3>3. ASSUME NEW m \in Messages, queue'[r] = Append(queue[r], m),
                 m \in {"ok", "failed"} => worker'[r] = m, m = "interrupted" => stop[r],
                 NEW i \in 1..Len(queue'[r])
          PROVE  /\ queue'[r][i] = "ok" => worker'[r] = "ok"
                 /\ queue'[r][i] = "failed" => worker'[r] = "failed"
                 /\ queue'[r][i] = "interrupted" => stop'[r]
      <4>1. \/ i \in 1..Len(queue[r]) /\ queue'[r][i] = queue[r][i]
            \/ queue'[r][i] = m
        BY <2>6, <3>3
      <4>2. QED
        BY <2>6, <3>1, <3>3, <4>1
    <3>4. QED
      BY <2>7, <3>2, <3>3
  <2>4. Honest(r)'
    <3>1. pc[r] \notin {"new", "preflight"}
      BY <2>1, <2>6 DEF Honest
    <3>2. (future[r] # Pending => Told(future[r].error, future[r].from, key[r]))'
      <4>1. future[r] # Pending => future[r].from \in Requests
        BY DEF Typed, TypeOK, Payloads
      <4>2. QED
        BY <2>1, <2>2, <2>6, <4>1, ToldStays DEF Honest
    <3>3. (answer[r].from # NoOne => Told(answer[r].error, answer[r].from, key[r]))'
      <4>1. answer[r].from # NoOne => answer[r].from \in Requests
        BY DEF Typed, TypeOK, Answers
      <4>2. QED
        BY <2>1, <2>2, <2>6, <4>1, ToldStays DEF Honest
    <3>4. (pc[r] = "render" => Told("none", source[r], key[r]))'
      <4>1. pc[r] = "render" => source[r] \in Requests
        BY DEF Typed, HandlerInv
      <4>2. QED
        BY <2>1, <2>2, <2>6, <4>1, ToldStays DEF Honest
    <3>5. QED
      BY <2>1, <2>6, <2>8, <3>1, <3>2, <3>3, <3>4 DEF Honest
  <2>5. QED
    BY <2>2, <2>3, <2>4, <2>6, OneMoves
<1>31. CASE UNCHANGED <<pc, kind, key, joined, source, future, threads, answer>> /\ \A k \in Keys : cache'[k] \in {NoOne, cache[k]}
  <2>1. Lasting /\ \A x \in Requests : Same(x)
    BY <1>31 DEF Lasting, Same
  <2>2. \A x \in Requests : Honest(x)'
    BY <2>1, OthersStay DEF TruthInv
  <2>3. \A k \in Keys : cache'[k] # NoOne => Cacheable(cache[k], k)'
    BY <1>31 DEF TruthInv, Cacheable, Told
  <2>4. QED
    BY <2>2, <2>3 DEF TruthInv
<1>32. ASSUME NEW k \in Keys, CacheDrops(k) PROVE TruthInv'
  BY <1>31, <1>32 DEF CacheDrops, Typed, TypeOK
<1>33. ASSUME Idle \/ UNCHANGED vars PROVE TruthInv'
  BY <1>31, <1>33 DEF Idle, vars
<1>34. QED
  BY <1>1, <1>2, <1>3, <1>4, <1>5, <1>6, <1>7, <1>8, <1>9, <1>10, <1>11, <1>12, <1>13,
     <1>14, <1>15, <1>16, <1>17, <1>18, <1>19, <1>20, <1>21, <1>22, <1>23, <1>24, <1>25,
     <1>26, <1>27, <1>28, <1>29, <1>30, <1>32, <1>33
     DEF Next, Arrive, Preflighted, Worker, Resume, Stream, Cancel

LEMMA TruthAlways ==
  ASSUME <<"pdf", "follow">> \notin CancelPoints
  PROVE  Spec => []TruthInv
<1>1. Init => TruthInv
  <2> SUFFICES ASSUME Init PROVE TruthInv
    OBVIOUS
  <2>1. \A r \in Requests : Honest(r)
    BY DEF Init, Honest, NoAnswer
  <2>2. QED
    BY <2>1 DEF Init, TruthInv
<1>2. Typed /\ Typed' /\ FlightInv /\ TruthInv /\ [Next]_vars => TruthInv'
  BY TruthStep
<1>3. QED
  BY <1>1, <1>2, TypedAlways, FlightInvariance, PTL DEF Spec

\* ToldWhatHappened, as long as no pdf follower is cancelled: whatever is handed from one
\* request to another, through a future, the cache or a rendering, is what became of the
\* audit it names.
THEOREM TruthIsTold ==
  ASSUME <<"pdf", "follow">> \notin CancelPoints
  PROVE  Spec => []ToldWhatHappened
<1>1. TypeOK /\ TruthInv => ToldWhatHappened
  BY DEF TruthInv, Honest, Told, ToldWhatHappened
<1>2. QED
  BY <1>1, TruthAlways, TypeCorrect, PTL

\* CacheHoldsAudits, under the same condition: a stream that gave up, an audit that
\* failed and a refusal are never cached, and nobody sees an interrupted audit's result.
THEOREM CacheIsSound ==
  ASSUME <<"pdf", "follow">> \notin CancelPoints
  PROVE  Spec => []CacheHoldsAudits
<1>1. TypeOK /\ TruthInv => CacheHoldsAudits
  BY DEF TruthInv, Honest, Cacheable, Told, CacheHoldsAudits
<1>2. QED
  BY <1>1, TruthAlways, TypeCorrect, PTL

-----------------------------------------------------------------------------
(* The audit log says what the clients were told.                           *)

Streamed(r) == kind[r] = "sse" /\ worker[r] # "none"

\* Line s says what the client of r was told.
Says(r, s) ==
  answer[r].status # 0 =>
    IF answer[r].error = "none" THEN s = "ok"
    ELSE IF Streamed(r) THEN s \in {"timeout", "error"}
    ELSE IF answer[r].error \in PreflightErrors THEN s = "refused"
    ELSE s = "error" \/ (answer[r].status = 500 /\ source[r] # NoOne)

\* The log of a request at each of its awaits.
Logged(r) ==
  /\ pc[r] \in {"new", "preflight", "audit", "follow", "stream"} => logs[r] = <<>>
  /\ pc[r] = "render" => logs[r] = <<"ok">>
  /\ pc[r] \in {"closing", "done"} => \/ logs[r] = <<>> /\ ~Streamed(r)
                                      \/ \E s \in LogStatuses : logs[r] = <<s>> /\ Says(r, s)
  /\ pc[r] \in {"stream", "closing"} => Streamed(r)
  /\ future[r] # Pending => (future[r].refused <=> future[r].error \in PreflightErrors)

LogInv == \A r \in Requests : Logged(r)

LEMMA OneLine == \A s : Append(<<>>, s) = <<s>> /\ Len(<<s>>) = 1 /\ <<s>>[1] = s
OBVIOUS

LEMMA LogsStay ==
  ASSUME NEW x \in Requests, Logged(x), Same(x), kind' = kind, logs'[x] = logs[x]
  PROVE  Logged(x)'
BY DEF Logged, Same, Says, Streamed

\* No line yet.
LEMMA NothingLogged ==
  ASSUME NEW r \in Requests, Logged(r), kind' = kind,
         pc[r] \in {"new", "preflight", "audit", "follow", "stream"},
         pc'[r] \in {"preflight", "audit", "follow", "stream"},
         logs'[r] = logs[r], future'[r] = future[r], pc'[r] = "stream" => Streamed(r)'
  PROVE  Logged(r)'
BY DEF Logged

\* The end of a request, with the line it leaves.
LEMMA LineLeft ==
  ASSUME NEW r \in Requests, Logged(r), pc'[r] \in {"closing", "done"},
         future'[r] = future[r] \/ (future[r].refused <=> future[r].error \in PreflightErrors)',
         pc'[r] = "closing" => Streamed(r)',
         \/ logs'[r] = <<>> /\ ~Streamed(r)'
         \/ \E s \in LogStatuses : logs'[r] = <<s>> /\ Says(r, s)'
  PROVE  Logged(r)'
BY DEF Logged

LEMMA LineSays ==
  ASSUME NEW r \in Requests, Logged(r), pc'[r] \in {"closing", "done"},
         future'[r] = future[r] \/ (future[r].refused <=> future[r].error \in PreflightErrors)',
         pc'[r] = "closing" => Streamed(r)',
         NEW s \in LogStatuses, logs'[r] = <<s>>, Says(r, s)'
  PROVE  Logged(r)'
BY LineLeft

LEMMA Appended ==
  ASSUME Typed, NEW r \in Requests, logs[r] = <<>>, NEW s, Log(r, s)
  PROVE  logs'[r] = <<s>> /\ \A x \in Requests \ {r} : logs'[x] = logs[x]
BY OneLine DEF Typed, TypeOK, Log

LEMMA OneLogs ==
  ASSUME LogInv, NEW r \in Requests, kind' = kind, Logged(r)',
         \A x \in Requests \ {r} : Same(x) /\ logs'[x] = logs[x]
  PROVE  LogInv'
BY LogsStay DEF LogInv

LEMMA RefusalMarked ==
  ASSUME NEW r \in Requests
  PROVE  /\ \A e \in PreflightErrors : Refused(r, e).refused /\ Refused(r, e).error = e
         /\ ~Failed(r).refused /\ Failed(r).error = "server_error"
         /\ ~Result(r).refused /\ Result(r).error = "none"
BY DEF Refused, Failed, Result

LEMMA LogStep ==
  ASSUME <<"pdf", "follow">> \notin CancelPoints, Typed, TruthInv, LogInv, [Next]_vars
  PROVE  LogInv'
<1> USE ServerAssumption DEF request, threads, Awaits, Kinds
<1>1. ASSUME NEW r \in Requests, JsonJoins(r) PROVE LogInv'
  <2>1. Logged(r) /\ Honest(r) /\ kind' = kind
    BY <1>1 DEF JsonJoins, LogInv, TruthInv
  <2>2. \A x \in Requests \ {r} : Same(x) /\ logs'[x] = logs[x]
    BY <1>1 DEF JsonJoins, Same, Typed, TypeOK, Go, Tell, Log
  <2>3. /\ pc[r] = "new" /\ pc'[r] \in {"preflight", "audit", "follow", "stream"}
        /\ logs' = logs /\ future' = future /\ (pc'[r] = "stream" => Streamed(r)')
    BY <1>1 DEF JsonJoins, Streamed, Typed, TypeOK, Go
  <2>8. Logged(r)'
    BY <2>1, <2>3, NothingLogged
  <2>9. QED
    BY <2>1, <2>2, <2>8, OneLogs
<1>2. ASSUME NEW r \in Requests, JsonLeads(r) PROVE LogInv'
  <2>1. Logged(r) /\ Honest(r) /\ kind' = kind
    BY <1>2 DEF JsonLeads, LogInv, TruthInv
  <2>2. \A x \in Requests \ {r} : Same(x) /\ logs'[x] = logs[x]
    BY <1>2 DEF JsonLeads, Same, Typed, TypeOK, Go, Tell, Log
  <2>3. /\ pc[r] = "new" /\ pc'[r] \in {"preflight", "audit", "follow", "stream"}
        /\ logs' = logs /\ future' = future /\ (pc'[r] = "stream" => Streamed(r)')
    BY <1>2 DEF JsonLeads, Streamed, Typed, TypeOK, Go
  <2>8. Logged(r)'
    BY <2>1, <2>3, NothingLogged
  <2>9. QED
    BY <2>1, <2>2, <2>8, OneLogs
<1>3. ASSUME NEW r \in Requests, SseReserves(r) PROVE LogInv'
  <2>1. Logged(r) /\ Honest(r) /\ kind' = kind
    BY <1>3 DEF SseReserves, LogInv, TruthInv
  <2>2. \A x \in Requests \ {r} : Same(x) /\ logs'[x] = logs[x]
    BY <1>3 DEF SseReserves, Same, Typed, TypeOK, Go, Tell, Log
  <2>3. /\ pc[r] = "new" /\ pc'[r] \in {"preflight", "audit", "follow", "stream"}
        /\ logs' = logs /\ future' = future /\ (pc'[r] = "stream" => Streamed(r)')
    BY <1>3 DEF SseReserves, Streamed, Typed, TypeOK, Go
  <2>8. Logged(r)'
    BY <2>1, <2>3, NothingLogged
  <2>9. QED
    BY <2>1, <2>2, <2>8, OneLogs
<1>4. ASSUME NEW r \in Requests, JsonAudits(r) PROVE LogInv'
  <2>1. Logged(r) /\ Honest(r) /\ kind' = kind
    BY <1>4 DEF JsonAudits, LogInv, TruthInv
  <2>2. \A x \in Requests \ {r} : Same(x) /\ logs'[x] = logs[x]
    BY <1>4 DEF JsonAudits, Same, Typed, TypeOK, Go, Tell, Log
  <2>3. /\ pc[r] = "preflight" /\ pc'[r] \in {"preflight", "audit", "follow", "stream"}
        /\ logs' = logs /\ future' = future /\ (pc'[r] = "stream" => Streamed(r)')
    BY <1>4 DEF JsonAudits, Streamed, Typed, TypeOK, Go
  <2>8. Logged(r)'
    BY <2>1, <2>3, NothingLogged
  <2>9. QED
    BY <2>1, <2>2, <2>8, OneLogs
<1>5. ASSUME NEW r \in Requests, SseStreams(r) PROVE LogInv'
  <2>1. Logged(r) /\ Honest(r) /\ kind' = kind
    BY <1>5 DEF SseStreams, LogInv, TruthInv
  <2>2. \A x \in Requests \ {r} : Same(x) /\ logs'[x] = logs[x]
    BY <1>5 DEF SseStreams, Same, Typed, TypeOK, Go, Tell, Log
  <2>3. /\ pc[r] = "preflight" /\ pc'[r] \in {"preflight", "audit", "follow", "stream"}
        /\ logs' = logs /\ future' = future /\ (pc'[r] = "stream" => Streamed(r)')
    BY <1>5 DEF SseStreams, Streamed, Typed, TypeOK, Go
  <2>8. Logged(r)'
    BY <2>1, <2>3, NothingLogged
  <2>9. QED
    BY <2>1, <2>2, <2>8, OneLogs
<1>6. ASSUME NEW r \in Requests, PdfLeads(r) PROVE LogInv'
  <2>1. Logged(r) /\ Honest(r) /\ kind' = kind
    BY <1>6 DEF PdfLeads, LogInv, TruthInv
  <2>2. \A x \in Requests \ {r} : Same(x) /\ logs'[x] = logs[x]
    BY <1>6 DEF PdfLeads, Same, Typed, TypeOK, Go, Tell, Log
  <2>3. /\ pc[r] = "preflight" /\ pc'[r] \in {"preflight", "audit", "follow", "stream"}
        /\ logs' = logs /\ future' = future /\ (pc'[r] = "stream" => Streamed(r)')
    BY <1>6 DEF PdfLeads, Streamed, Typed, TypeOK, Go
  <2>8. Logged(r)'
    BY <2>1, <2>3, NothingLogged
  <2>9. QED
    BY <2>1, <2>2, <2>8, OneLogs
<1>7. ASSUME NEW r \in Requests, PdfJoins(r) PROVE LogInv'
  <2>1. Logged(r) /\ Honest(r) /\ kind' = kind
    BY <1>7 DEF PdfJoins, LogInv, TruthInv
  <2>2. \A x \in Requests \ {r} : Same(x) /\ logs'[x] = logs[x]
    BY <1>7 DEF PdfJoins, Same, Typed, TypeOK, Go, Tell, Log
  <2>3. /\ pc[r] = "preflight" /\ pc'[r] \in {"preflight", "audit", "follow", "stream"}
        /\ logs' = logs /\ future' = future /\ (pc'[r] = "stream" => Streamed(r)')
    BY <1>7 DEF PdfJoins, Streamed, Typed, TypeOK, Go
  <2>8. Logged(r)'
    BY <2>1, <2>3, NothingLogged
  <2>9. QED
    BY <2>1, <2>2, <2>8, OneLogs
<1>8. ASSUME NEW r \in Requests, WorkerReports(r) PROVE LogInv'
  <2>1. Logged(r) /\ Honest(r) /\ kind' = kind
    BY <1>8 DEF WorkerReports, LogInv, TruthInv
  <2>2. \A x \in Requests \ {r} : Same(x) /\ logs'[x] = logs[x]
    BY <1>8 DEF WorkerReports, Same, Typed, TypeOK, Go, Tell, Log
  <2>3. /\ pc' = pc /\ logs' = logs /\ future' = future /\ answer' = answer /\ source' = source
        /\ worker'[r] = worker[r] \/ (worker[r] = "running" /\ worker'[r] # "none")
    BY <1>8 DEF WorkerReports, Typed, TypeOK
  <2>8. Logged(r)'
    BY <2>1, <2>3 DEF Logged, Says, Streamed
  <2>9. QED
    BY <2>1, <2>2, <2>8, OneLogs
<1>9. ASSUME NEW r \in Requests, WorkerFinishes(r) PROVE LogInv'
  <2>1. Logged(r) /\ Honest(r) /\ kind' = kind
    BY <1>9 DEF WorkerFinishes, LogInv, TruthInv
  <2>2. \A x \in Requests \ {r} : Same(x) /\ logs'[x] = logs[x]
    BY <1>9 DEF WorkerFinishes, Same, Typed, TypeOK, Go, Tell, Log
  <2>3. /\ pc' = pc /\ logs' = logs /\ future' = future /\ answer' = answer /\ source' = source
        /\ worker'[r] = worker[r] \/ (worker[r] = "running" /\ worker'[r] # "none")
    BY <1>9 DEF WorkerFinishes, Typed, TypeOK
  <2>8. Logged(r)'
    BY <2>1, <2>3 DEF Logged, Says, Streamed
  <2>9. QED
    BY <2>1, <2>2, <2>8, OneLogs
<1>10. ASSUME NEW r \in Requests, StreamStep(r) PROVE LogInv'
  <2>1. Logged(r) /\ Honest(r) /\ kind' = kind
    BY <1>10 DEF StreamStep, LogInv, TruthInv
  <2>2. \A x \in Requests \ {r} : Same(x) /\ logs'[x] = logs[x]
    BY <1>10 DEF StreamStep, Same, Typed, TypeOK, Go, Tell, Log
  <2>3. /\ pc' = pc /\ logs' = logs /\ future' = future /\ answer' = answer /\ source' = source
        /\ worker'[r] = worker[r] \/ (worker[r] = "running" /\ worker'[r] # "none")
    BY <1>10 DEF StreamStep, Typed, TypeOK
  <2>8. Logged(r)'
    BY <2>1, <2>3 DEF Logged, Says, Streamed
  <2>9. QED
    BY <2>1, <2>2, <2>8, OneLogs
<1>11. ASSUME NEW r \in Requests, TurnAway(r) PROVE LogInv'
  <2>1. Logged(r) /\ Honest(r) /\ kind' = kind
    BY <1>11 DEF TurnAway, LogInv, TruthInv
  <2>2. \A x \in Requests \ {r} : Same(x) /\ logs'[x] = logs[x]
    BY <1>11 DEF TurnAway, Same, Typed, TypeOK, Go, Tell, Log
  <2>3. /\ pc'[r] = "done" /\ logs[r] = <<>> /\ logs' = logs /\ future' = future /\ worker' = worker
        /\ kind[r] = "json" \/ worker[r] = "none"
    BY <1>11, <2>1 DEF TurnAway, Logged, Honest, Typed, TypeOK, Go
  <2>8. Logged(r)'
    BY <2>1, <2>3, LineLeft DEF Streamed
  <2>9. QED
    BY <2>1, <2>2, <2>8, OneLogs
<1>12. ASSUME NEW r \in Requests, Busy(r) PROVE LogInv'
  <2>1. Logged(r) /\ Honest(r) /\ kind' = kind
    BY <1>12 DEF Busy, LogInv, TruthInv
  <2>2. \A x \in Requests \ {r} : Same(x) /\ logs'[x] = logs[x]
    BY <1>12 DEF Busy, Same, Typed, TypeOK, Go, Tell, Log
  <2>3. /\ pc'[r] = "done" /\ logs[r] = <<>> /\ logs' = logs /\ future' = future /\ worker' = worker
        /\ kind[r] = "json" \/ worker[r] = "none"
    BY <1>12, <2>1 DEF Busy, Logged, Honest, Typed, TypeOK, Go
  <2>8. Logged(r)'
    BY <2>1, <2>3, LineLeft DEF Streamed
  <2>9. QED
    BY <2>1, <2>2, <2>8, OneLogs
<1>13. ASSUME NEW r \in Requests, CancelJsonFollower(r) PROVE LogInv'
  <2>1. Logged(r) /\ Honest(r) /\ kind' = kind
    BY <1>13 DEF CancelJsonFollower, LogInv, TruthInv
  <2>2. \A x \in Requests \ {r} : Same(x) /\ logs'[x] = logs[x]
    BY <1>13 DEF CancelJsonFollower, Same, Typed, TypeOK, Go, Tell, Log
  <2>3. /\ pc'[r] = "done" /\ logs[r] = <<>> /\ logs' = logs /\ future' = future /\ worker' = worker
        /\ kind[r] = "json" \/ worker[r] = "none"
    BY <1>13, <2>1 DEF CancelJsonFollower, Logged, Honest, Typed, TypeOK, Go
  <2>8. Logged(r)'
    BY <2>1, <2>3, LineLeft DEF Streamed
  <2>9. QED
    BY <2>1, <2>2, <2>8, OneLogs
<1>14. ASSUME NEW r \in Requests, CancelSsePreflight(r) PROVE LogInv'
  <2>1. Logged(r) /\ Honest(r) /\ kind' = kind
    BY <1>14 DEF CancelSsePreflight, LogInv, TruthInv
  <2>2. \A x \in Requests \ {r} : Same(x) /\ logs'[x] = logs[x]
    BY <1>14 DEF CancelSsePreflight, Same, Typed, TypeOK, Go, Tell, Log
  <2>3. /\ pc'[r] = "done" /\ logs[r] = <<>> /\ logs' = logs /\ future' = future /\ worker' = worker
        /\ kind[r] = "json" \/ worker[r] = "none"
    BY <1>14, <2>1 DEF CancelSsePreflight, Logged, Honest, Typed, TypeOK, Go
  <2>8. Logged(r)'
    BY <2>1, <2>3, LineLeft DEF Streamed
  <2>9. QED
    BY <2>1, <2>2, <2>8, OneLogs
<1>15. ASSUME NEW r \in Requests, PreflightRaises(r) PROVE LogInv'
  <2>1. Logged(r) /\ Honest(r) /\ kind' = kind
    BY <1>15 DEF PreflightRaises, LogInv, TruthInv
  <2>3. pc[r] = "preflight" /\ joined[r] \in {NoOne, r} /\ LeaveInflight(r, Failed(r))
    BY <1>15 DEF PreflightRaises, Typed, HandlerInv
  <2>4. (\A x \in Requests \ {r} : future'[x] = future[x]) /\ future'[r] \in {future[r], Failed(r)}
    BY <2>3, LeavesFuture
  <2>2. \A x \in Requests \ {r} : Same(x) /\ logs'[x] = logs[x]
    BY <1>15, <2>4 DEF PreflightRaises, Same, Typed, TypeOK, Go, Tell
  <2>5. pc'[r] = "done" /\ logs'[r] = <<>> /\ worker'[r] = "none"
    BY <1>15, <2>1 DEF PreflightRaises, Logged, Honest, Typed, TypeOK, Go
  <2>6. future'[r] = future[r] \/ (future[r].refused <=> future[r].error \in PreflightErrors)'
    BY <2>4, RefusalMarked DEF PreflightErrors
  <2>8. Logged(r)'
    BY <2>1, <2>5, <2>6, LineLeft DEF Streamed
  <2>9. QED
    BY <2>1, <2>2, <2>8, OneLogs
<1>16. ASSUME NEW r \in Requests, CancelAudit(r) PROVE LogInv'
  <2>1. Logged(r) /\ Honest(r) /\ kind' = kind
    BY <1>16 DEF CancelAudit, LogInv, TruthInv
  <2>3. joined[r] \in {NoOne, r} /\ pc[r] \in {"preflight", "audit", "render"}
    <3>1. /\ <<kind[r], pc[r]>> \in Kinds \X Awaits /\ <<kind[r], pc[r]>> # <<"pdf", "follow">>
      BY <1>16 DEF CancelAudit, Cancellable
    <3>2. pc[r] \in Awaits /\ (kind[r] = "pdf" => pc[r] # "follow")
      BY <3>1
    <3>3. pc[r] \notin {"stream", "closing", "follow"}
      BY <1>16, <3>2 DEF CancelAudit, Typed, HandlerInv
    <3>4. QED
      BY <3>2, <3>3 DEF Typed, HandlerInv
  <2>4. PICK p : LeaveInflight(r, p) /\ p = (IF pc[r] = "render" THEN Result(source[r]) ELSE Failed(joined[r]))
    BY <1>16 DEF CancelAudit
  <2>5. (\A x \in Requests \ {r} : future'[x] = future[x])
        /\ (future'[r] = future[r] \/ (joined[r] = r /\ future'[r] = p))
    BY <2>3, <2>4, LeavesFuture
  <2>2. \A x \in Requests \ {r} : Same(x) /\ logs'[x] = logs[x]
    BY <1>16, <2>5 DEF CancelAudit, Same, Typed, TypeOK, Go
  <2>6. /\ pc'[r] = "done" /\ logs'[r] = logs[r] /\ answer'[r].status = 0 /\ kind[r] # "sse"
        /\ logs[r] \in {<<>>, <<"ok">>}
    <3>1. pc'[r] = "done" /\ logs' = logs /\ answer' = answer /\ kind[r] \in {"json", "pdf"}
      BY <1>16, <2>3 DEF CancelAudit, Typed, TypeOK, Go
    <3>2. logs[r] \in {<<>>, <<"ok">>} /\ answer[r] = NoAnswer
      BY <2>1, <2>3 DEF Logged, Honest
    <3>3. QED
      BY <3>1, <3>2 DEF NoAnswer
  <2>7. future'[r] = future[r] \/ (future[r].refused <=> future[r].error \in PreflightErrors)'
    <3>1. pc[r] = "render" => source[r] \in Requests
      BY DEF Typed, HandlerInv
    <3>2. joined[r] = r => ~p.refused /\ p.error \notin PreflightErrors
      BY <2>4, <3>1, RefusalMarked DEF PreflightErrors
    <3>3. QED
      BY <2>5, <3>2
  <2>8. Logged(r)'
    <3>1. ~Streamed(r)'
      BY <2>1, <2>6 DEF Streamed
    <3>2. CASE logs[r] = <<>>
      BY <2>1, <2>6, <2>7, <3>1, <3>2, LineLeft
    <3>3. CASE logs[r] = <<"ok">>
      <4>1. Says(r, "ok")' /\ "ok" \in LogStatuses
        BY <2>6 DEF Says, LogStatuses
      <4>2. QED
        BY <2>1, <2>6, <2>7, <3>3, <4>1, LineSays
    <3>4. QED
      BY <2>6, <3>2, <3>3
  <2>9. QED
    BY <2>1, <2>2, <2>8, OneLogs
<1>17. ASSUME NEW r \in Requests, CacheHit(r) PROVE LogInv'
  <2>1. Logged(r) /\ Honest(r) /\ kind' = kind
    BY <1>17 DEF CacheHit, LogInv, TruthInv
  <2>2. \A x \in Requests \ {r} : Same(x) /\ logs'[x] = logs[x]
    BY <1>17 DEF CacheHit, Same, Typed, TypeOK, Go, Tell, Log
  <2>3. logs[r] = <<>> /\ Log(r, "ok") /\ pc'[r] = "done" /\ future' = future /\ answer'[r].error = "none"
    BY <1>17, <2>1 DEF CacheHit, Logged, Typed, TypeOK, Go, Tell, Reply
  <2>4. logs'[r] = <<"ok">>
    BY <2>3, Appended
  <2>5. Says(r, "ok")' /\ "ok" \in LogStatuses
    BY <2>3 DEF Says, LogStatuses
  <2>8. Logged(r)'
    BY <2>1, <2>3, <2>4, <2>5, LineSays
  <2>9. QED
    BY <2>1, <2>2, <2>8, OneLogs
<1>18. ASSUME NEW r \in Requests, PreflightRefuses(r) PROVE LogInv'
  <2>1. Logged(r) /\ Honest(r) /\ kind' = kind
    BY <1>18 DEF PreflightRefuses, LogInv, TruthInv
  <2>3. PICK e \in PreflightErrors :
          /\ LeaveInflight(r, Refused(r, e)) /\ answer'[r].error = e
    BY <1>18 DEF PreflightRefuses, Typed, TypeOK, Tell, Reply
  <2>4. joined[r] \in {NoOne, r} /\ logs[r] = <<>> /\ worker'[r] = "none"
    BY <1>18, <2>1 DEF PreflightRefuses, Typed, HandlerInv, Logged, Honest
  <2>5. (\A x \in Requests \ {r} : future'[x] = future[x]) /\ future'[r] \in {future[r], Refused(r, e)}
    BY <2>3, <2>4, LeavesFuture
  <2>2. \A x \in Requests \ {r} : Same(x) /\ logs'[x] = logs[x]
    BY <1>18, <2>5 DEF PreflightRefuses, Same, Typed, TypeOK, Go, Tell, Log
  <2>6. pc'[r] = "done" /\ logs'[r] = <<"refused">>
    BY <1>18, <2>4, Appended DEF PreflightRefuses, Typed, TypeOK, Go
  <2>7. future'[r] = future[r] \/ (future[r].refused <=> future[r].error \in PreflightErrors)'
    BY <2>5, RefusalMarked
  <2>10. Says(r, "refused")'
    BY <2>3, <2>4 DEF Says, Streamed, PreflightErrors
  <2>8. Logged(r)'
    BY <2>1, <2>6, <2>7, <2>10, LineLeft DEF LogStatuses
  <2>9. QED
    BY <2>1, <2>2, <2>8, OneLogs
<1>19. ASSUME NEW r \in Requests, JsonFinishes(r) PROVE LogInv'
  <2>1. Logged(r) /\ Honest(r) /\ kind' = kind
    BY <1>19 DEF JsonFinishes, LogInv, TruthInv
  <2>3. /\ pc[r] = "audit" /\ kind[r] = "json" /\ joined[r] = r /\ logs[r] = <<>> /\ worker[r] \in {"ok", "failed"}
    BY <1>19, <2>1 DEF JsonFinishes, Typed, HandlerInv, Logged
  <2>4. PICK p : /\ LeaveInflight(r, p) /\ p = (IF worker[r] = "ok" THEN Result(r) ELSE Failed(r))
                 /\ Log(r, AuditStatus(p.error)) /\ answer'[r].error = p.error
    BY <1>19, <2>3 DEF JsonFinishes, LeaveInflight, Typed, TypeOK, Tell, Reply
  <2>5. (\A x \in Requests \ {r} : future'[x] = future[x]) /\ future'[r] \in {future[r], p}
    BY <2>3, <2>4, LeavesFuture
  <2>2. \A x \in Requests \ {r} : Same(x) /\ logs'[x] = logs[x]
    BY <1>19, <2>5 DEF JsonFinishes, Same, Typed, TypeOK, Go, Tell, Log
  <2>6. pc'[r] = "done" /\ logs'[r] = <<AuditStatus(p.error)>>
    BY <1>19, <2>3, <2>4, Appended DEF JsonFinishes, Typed, TypeOK, Go
  <2>7. ~p.refused /\ p.error \in {"none", "server_error"}
    BY <2>4, RefusalMarked
  <2>10. Says(r, AuditStatus(p.error))' /\ AuditStatus(p.error) \in LogStatuses
    BY <2>1, <2>3, <2>4, <2>7 DEF Says, Streamed, AuditStatus, LogStatuses, PreflightErrors
  <2>8. Logged(r)'
    BY <2>1, <2>5, <2>6, <2>7, <2>10, LineLeft DEF PreflightErrors
  <2>9. QED
    BY <2>1, <2>2, <2>8, OneLogs
<1>20. ASSUME NEW r \in Requests, JsonFollows(r) PROVE LogInv'
  <2>1. Logged(r) /\ Honest(r) /\ kind' = kind
    BY <1>20 DEF JsonFollows, LogInv, TruthInv
  <2>2. \A x \in Requests \ {r} : Same(x) /\ logs'[x] = logs[x]
    BY <1>20 DEF JsonFollows, Same, Typed, TypeOK, Go, Tell, Log
  <2>3. /\ pc[r] = "follow" /\ logs[r] = <<>> /\ joined[r] \in Requests /\ kind[r] # "sse" /\ future' = future
    BY <1>20, <2>1 DEF JsonFollows, Typed, HandlerInv, Logged
  <2>4. PICK p \in Payloads : p = future[joined[r]] /\ Log(r, JoinedStatus(p))
    BY <1>20, <2>3 DEF JsonFollows, Typed, TypeOK
  <2>5. p.error # "cancelled" /\ (p.refused <=> p.error \in PreflightErrors)
    <3>1. Honest(joined[r]) /\ Logged(joined[r]) /\ future[joined[r]] # Pending
      BY <1>20, <2>3 DEF JsonFollows, TruthInv, LogInv
    <3>2. QED
      BY <2>4, <3>1 DEF Honest, Told, Logged
  <2>6. logs'[r] = <<JoinedStatus(p)>> /\ JoinedStatus(p) \in LogStatuses
    BY <2>3, <2>4, Appended, PayloadFields
  <2>10. JoinedStatus(p) = IF p.error = "none" THEN "ok"
                           ELSE IF p.error \in PreflightErrors THEN "refused" ELSE "error"
    <3>1. p.error \in ErrorCodes \cup {"none"}
      BY PayloadFields
    <3>2. QED
      BY <2>5, <3>1 DEF JoinedStatus, AuditStatus, ErrorCodes, PreflightErrors
  <2>7. pc'[r] = "done" /\ answer'[r].error = p.error
    BY <1>20, <2>4 DEF JsonFollows, Typed, TypeOK, Go, Tell, Reply
  <2>11. Says(r, JoinedStatus(p))'
    BY <2>1, <2>3, <2>7, <2>10 DEF Says, Streamed, PreflightErrors
  <2>8. Logged(r)'
    BY <2>1, <2>3, <2>6, <2>7, <2>11, LineSays
  <2>9. QED
    BY <2>1, <2>2, <2>8, OneLogs
<1>21. ASSUME NEW r \in Requests, PdfFollows(r) PROVE LogInv'
  <2>1. Logged(r) /\ Honest(r) /\ kind' = kind
    BY <1>21 DEF PdfFollows, LogInv, TruthInv
  <2>2. \A x \in Requests \ {r} : Same(x) /\ logs'[x] = logs[x]
    BY <1>21 DEF PdfFollows, Same, Typed, TypeOK, Go, Tell, Log
  <2>3. /\ pc[r] = "follow" /\ logs[r] = <<>> /\ joined[r] \in Requests /\ kind[r] # "sse" /\ future' = future
    BY <1>21, <2>1 DEF PdfFollows, Typed, HandlerInv, Logged
  <2>4. PICK p \in Payloads : p = future[joined[r]] /\ Log(r, JoinedStatus(p))
    BY <1>21, <2>3 DEF PdfFollows, Typed, TypeOK
  <2>5. p.error # "cancelled" /\ (p.refused <=> p.error \in PreflightErrors)
    <3>1. Honest(joined[r]) /\ Logged(joined[r]) /\ future[joined[r]] # Pending
      BY <1>21, <2>3 DEF PdfFollows, TruthInv, LogInv
    <3>2. QED
      BY <2>4, <3>1 DEF Honest, Told, Logged
  <2>6. logs'[r] = <<JoinedStatus(p)>> /\ JoinedStatus(p) \in LogStatuses
    BY <2>3, <2>4, Appended, PayloadFields
  <2>10. JoinedStatus(p) = IF p.error = "none" THEN "ok"
                           ELSE IF p.error \in PreflightErrors THEN "refused" ELSE "error"
    <3>1. p.error \in ErrorCodes \cup {"none"}
      BY PayloadFields
    <3>2. QED
      BY <2>5, <3>1 DEF JoinedStatus, AuditStatus, ErrorCodes, PreflightErrors
  <2>7. ASSUME p.error = "none" PROVE Logged(r)'
    <3>1. pc'[r] = "render"
      BY <1>21, <2>4, <2>7 DEF PdfFollows, Typed, TypeOK, Go
    <3>2. logs'[r] = <<"ok">>
      BY <2>6, <2>7, <2>10
    <3>3. QED
      BY <2>1, <2>3, <3>1, <3>2 DEF Logged
  <2>11. ASSUME p.error # "none" PROVE Logged(r)'
    <3>1. pc'[r] = "done" /\ answer'[r].error = p.error
      BY <1>21, <2>4, <2>11 DEF PdfFollows, Typed, TypeOK, Go, Tell, Reply
    <3>2. Says(r, JoinedStatus(p))'
      BY <2>1, <2>3, <2>10, <2>11, <3>1 DEF Says, Streamed, PreflightErrors
    <3>3. QED
      BY <2>1, <2>3, <2>6, <3>1, <3>2, LineSays
  <2>8. Logged(r)'
    BY <2>7, <2>11
  <2>9. QED
    BY <2>1, <2>2, <2>8, OneLogs
<1>22. ASSUME NEW r \in Requests, PdfAuditFails(r) PROVE LogInv'
  <2>1. Logged(r) /\ Honest(r) /\ kind' = kind
    BY <1>22 DEF PdfAuditFails, LogInv, TruthInv
  <2>3. /\ pc[r] = "audit" /\ kind[r] = "pdf" /\ joined[r] = r /\ logs[r] = <<>>
        /\ LeaveInflight(r, Failed(r)) /\ Log(r, "error") /\ answer'[r].error = "server_error"
    BY <1>22, <2>1 DEF PdfAuditFails, Typed, TypeOK, HandlerInv, Logged, Tell, Reply
  <2>5. (\A x \in Requests \ {r} : future'[x] = future[x]) /\ future'[r] \in {future[r], Failed(r)}
    BY <2>3, LeavesFuture
  <2>2. \A x \in Requests \ {r} : Same(x) /\ logs'[x] = logs[x]
    BY <1>22, <2>5 DEF PdfAuditFails, Same, Typed, TypeOK, Go, Tell, Log
  <2>6. pc'[r] = "done" /\ logs'[r] = <<"error">>
    BY <1>22, <2>3, Appended DEF PdfAuditFails, Typed, TypeOK, Go
  <2>7. Says(r, "error")' /\ "error" \in LogStatuses
    BY <2>1, <2>3 DEF Says, Streamed, LogStatuses, PreflightErrors
  <2>10. future'[r] = future[r] \/ (future[r].refused <=> future[r].error \in PreflightErrors)'
    BY <2>5, RefusalMarked DEF PreflightErrors
  <2>8. Logged(r)'
    BY <2>1, <2>6, <2>7, <2>10, LineSays
  <2>9. QED
    BY <2>1, <2>2, <2>8, OneLogs
<1>23. ASSUME NEW r \in Requests, PdfReserves(r) PROVE LogInv'
  <2>1. Logged(r) /\ Honest(r) /\ kind' = kind
    BY <1>23 DEF PdfReserves, LogInv, TruthInv
  <2>2. \A x \in Requests \ {r} : Same(x) /\ logs'[x] = logs[x]
    BY <1>23 DEF PdfReserves, Same, Typed, TypeOK, Go, Tell, Log
  <2>3. pc[r] = "new" /\ logs[r] = <<>> /\ future' = future
    BY <1>23, <2>1 DEF PdfReserves, Logged
  <2>4. ASSUME Log(r, "ok") /\ Go(r, "render") PROVE Logged(r)'
    <3>1. logs'[r] = <<"ok">> /\ pc'[r] = "render"
      BY <2>3, <2>4, Appended DEF Typed, TypeOK, Go
    <3>2. QED
      BY <2>1, <2>3, <3>1 DEF Logged
  <2>5. ASSUME logs' = logs /\ Go(r, "preflight") PROVE Logged(r)'
    <3>1. pc'[r] = "preflight"
      BY <2>5 DEF Typed, TypeOK, Go
    <3>2. QED
      BY <2>1, <2>3, <2>5, <3>1, NothingLogged
  <2>8. Logged(r)'
    BY <1>23, <2>4, <2>5 DEF PdfReserves
  <2>9. QED
    BY <2>1, <2>2, <2>8, OneLogs
<1>24. ASSUME NEW r \in Requests, PdfAudited(r) PROVE LogInv'
  <2>1. Logged(r) /\ Honest(r) /\ kind' = kind
    BY <1>24 DEF PdfAudited, LogInv, TruthInv
  <2>2. \A x \in Requests \ {r} : Same(x) /\ logs'[x] = logs[x]
    BY <1>24 DEF PdfAudited, Same, Typed, TypeOK, Go, Tell, Log
  <2>3. pc[r] = "audit" /\ logs[r] = <<>> /\ future' = future /\ pc'[r] = "render" /\ Log(r, "ok")
    BY <1>24, <2>1 DEF PdfAudited, Logged, Typed, TypeOK, Go
  <2>4. logs'[r] = <<"ok">>
    BY <2>3, Appended
  <2>8. Logged(r)'
    BY <2>1, <2>3, <2>4 DEF Logged
  <2>9. QED
    BY <2>1, <2>2, <2>8, OneLogs
<1>25. ASSUME NEW r \in Requests, PdfRenders(r) PROVE LogInv'
  <2>1. Logged(r) /\ Honest(r) /\ kind' = kind
    BY <1>25 DEF PdfRenders, LogInv, TruthInv
  <2>3. /\ pc[r] = "render" /\ kind[r] = "pdf" /\ joined[r] \in {NoOne, r} /\ source[r] \in Requests
        /\ LeaveInflight(r, Result(source[r])) /\ source' = source
        /\ \/ answer'[r].error = "none"
           \/ answer'[r].error = "server_error" /\ answer'[r].status = 500
    BY <1>25 DEF PdfRenders, Typed, TypeOK, HandlerInv, Tell, Reply
  <2>5. (\A x \in Requests \ {r} : future'[x] = future[x]) /\ future'[r] \in {future[r], Result(source[r])}
    BY <2>3, LeavesFuture
  <2>2. \A x \in Requests \ {r} : Same(x) /\ logs'[x] = logs[x]
    BY <1>25, <2>5 DEF PdfRenders, Same, Typed, TypeOK, Go, Tell
  <2>6. pc'[r] = "done" /\ logs'[r] = <<"ok">>
    BY <1>25, <2>1, <2>3 DEF PdfRenders, Typed, TypeOK, Go, Logged
  <2>7. Says(r, "ok")' /\ "ok" \in LogStatuses
    BY <2>1, <2>3 DEF Says, Streamed, LogStatuses, PreflightErrors
  <2>10. future'[r] = future[r] \/ (future[r].refused <=> future[r].error \in PreflightErrors)'
    BY <2>3, <2>5, RefusalMarked DEF PreflightErrors
  <2>8. Logged(r)'
    BY <2>1, <2>6, <2>7, <2>10, LineSays
  <2>9. QED
    BY <2>1, <2>2, <2>8, OneLogs
<1>26. ASSUME NEW r \in Requests, StreamResult(r) PROVE LogInv'
  <2>1. Logged(r) /\ Honest(r) /\ kind' = kind
    BY <1>26 DEF StreamResult, LogInv, TruthInv
  <2>2. \A x \in Requests \ {r} : Same(x) /\ logs'[x] = logs[x]
    BY <1>26 DEF StreamResult, Same, Typed, TypeOK, Go, Tell, Log
  <2>3. /\ pc[r] = "stream" /\ queue[r] # <<>> /\ queue[r] \in Seq(Messages) /\ worker' = worker
        /\ pc'[r] = "closing" /\ future' = future /\ logs[r] = <<>> /\ Streamed(r) /\ Streamed(r)'
    BY <1>26, <2>1 DEF StreamResult, Typed, TypeOK, Go, Logged, Streamed
  <2>4. PICK m \in Messages : m = Head(queue[r]) /\ m # "step"
    BY <1>26, <2>3 DEF StreamResult
  <2>5. m \in {"ok", "failed"}
    <3>1. 1 \in 1..Len(queue[r]) /\ queue[r][1] = m
      BY <2>3, <2>4
    <3>2. ~stop[r]
      BY <2>1, <2>3 DEF Honest
    <3>3. QED
      BY <2>1, <2>4, <3>1, <3>2 DEF Honest, Messages
  <2>6. Log(r, AuditStatus(DoneError(m))) /\ answer'[r].error = DoneError(m)
    BY <1>26, <2>4 DEF StreamResult, Typed, TypeOK, Tell, Reply
  <2>7. logs'[r] = <<AuditStatus(DoneError(m))>>
    BY <2>3, <2>6, Appended
  <2>10. Says(r, AuditStatus(DoneError(m)))' /\ AuditStatus(DoneError(m)) \in LogStatuses
    <3>1. /\ m = "ok" => DoneError(m) = "none" /\ AuditStatus(DoneError(m)) = "ok"
          /\ m = "failed" => DoneError(m) = "server_error" /\ AuditStatus(DoneError(m)) = "error"
      BY DEF DoneError, AuditStatus
    <3>2. QED
      BY <2>3, <2>5, <2>6, <3>1 DEF Says, LogStatuses
  <2>8. Logged(r)'
    BY <2>1, <2>3, <2>7, <2>10, LineSays
  <2>9. QED
    BY <2>1, <2>2, <2>8, OneLogs
<1>27. ASSUME NEW r \in Requests, StreamTimesOut(r) PROVE LogInv'
  <2>1. Logged(r) /\ Honest(r) /\ kind' = kind
    BY <1>27 DEF StreamTimesOut, LogInv, TruthInv
  <2>2. \A x \in Requests \ {r} : Same(x) /\ logs'[x] = logs[x]
    BY <1>27 DEF StreamTimesOut, Same, Typed, TypeOK, Go, Tell, Log
  <2>3. /\ pc[r] = "stream" /\ pc'[r] = "closing" /\ future' = future /\ logs[r] = <<>> /\ Streamed(r)'
        /\ Log(r, "timeout") /\ answer'[r].error = "timeout"
    BY <1>27, <2>1 DEF StreamTimesOut, Typed, TypeOK, Go, Logged, Streamed, Tell, Reply
  <2>4. logs'[r] = <<"timeout">>
    BY <2>3, Appended
  <2>5. Says(r, "timeout")' /\ "timeout" \in LogStatuses
    BY <2>3 DEF Says, LogStatuses, Streamed
  <2>8. Logged(r)'
    BY <2>1, <2>3, <2>4, <2>5, LineSays
  <2>9. QED
    BY <2>1, <2>2, <2>8, OneLogs
<1>28. ASSUME NEW r \in Requests, StreamFindsClientGone(r) PROVE LogInv'
  <2>1. Logged(r) /\ Honest(r) /\ kind' = kind
    BY <1>28 DEF StreamFindsClientGone, LogInv, TruthInv
  <2>2. \A x \in Requests \ {r} : Same(x) /\ logs'[x] = logs[x]
    BY <1>28 DEF StreamFindsClientGone, Same, Typed, TypeOK, Go, Tell, Log
  <2>3. /\ pc[r] = "stream" /\ pc'[r] = "done" /\ future' = future /\ logs[r] = <<>>
        /\ Log(r, "abandoned") /\ answer'[r].status = 0
    BY <1>28, <2>1 DEF StreamFindsClientGone, Typed, TypeOK, Go, Logged, Honest, NoAnswer
  <2>4. logs'[r] = <<"abandoned">>
    BY <2>3, Appended
  <2>5. Says(r, "abandoned")' /\ "abandoned" \in LogStatuses
    BY <2>3 DEF Says, LogStatuses
  <2>8. Logged(r)'
    BY <2>1, <2>3, <2>4, <2>5, LineSays
  <2>9. QED
    BY <2>1, <2>2, <2>8, OneLogs
<1>29. ASSUME NEW r \in Requests, StreamCloses(r) PROVE LogInv'
  <2>1. Logged(r) /\ Honest(r) /\ kind' = kind
    BY <1>29 DEF StreamCloses, LogInv, TruthInv
  <2>2. \A x \in Requests \ {r} : Same(x) /\ logs'[x] = logs[x]
    BY <1>29 DEF StreamCloses, Same, Typed, TypeOK, Go, Tell, Log
  <2>3. /\ pc[r] = "closing" /\ pc'[r] = "done" /\ future' = future /\ logs' = logs
        /\ answer' = answer /\ worker' = worker /\ source' = source
    BY <1>29 DEF StreamCloses, Typed, TypeOK, Go
  <2>8. Logged(r)'
    BY <2>1, <2>3 DEF Logged, Says, Streamed
  <2>9. QED
    BY <2>1, <2>2, <2>8, OneLogs
<1>30. ASSUME NEW r \in Requests, CancelStream(r) PROVE LogInv'
  <2>1. Logged(r) /\ Honest(r) /\ kind' = kind
    BY <1>30 DEF CancelStream, LogInv, TruthInv
  <2>2. \A x \in Requests \ {r} : Same(x) /\ logs'[x] = logs[x]
    BY <1>30 DEF CancelStream, Same, Typed, TypeOK, Go, Tell, Log
  <2>3. /\ pc'[r] = "done" /\ future' = future /\ answer' = answer /\ worker' = worker /\ source' = source
    BY <1>30 DEF CancelStream, Typed, TypeOK, Go
  <2>4. ASSUME pc[r] = "stream" PROVE Logged(r)'
    <3>1. logs[r] = <<>> /\ Log(r, "abandoned") /\ answer'[r].status = 0
      BY <1>30, <2>1, <2>3, <2>4 DEF CancelStream, Logged, Honest, NoAnswer
    <3>2. logs'[r] = <<"abandoned">>
      BY <3>1, Appended
    <3>3. Says(r, "abandoned")' /\ "abandoned" \in LogStatuses
      BY <3>1 DEF Says, LogStatuses
    <3>4. QED
      BY <2>1, <2>3, <3>2, <3>3, LineSays
  <2>5. ASSUME pc[r] # "stream" PROVE Logged(r)'
    <3>1. pc[r] = "closing" /\ logs' = logs
      BY <1>30, <2>5 DEF CancelStream
    <3>2. QED
      BY <2>1, <2>3, <3>1 DEF Logged, Says, Streamed
  <2>8. Logged(r)'
    BY <2>4, <2>5
  <2>9. QED
    BY <2>1, <2>2, <2>8, OneLogs
<1>31. ASSUME NEW k \in Keys, CacheDrops(k) PROVE LogInv'
  BY <1>31, LogsStay DEF CacheDrops, LogInv, Same
<1>32. ASSUME Idle \/ UNCHANGED vars PROVE LogInv'
  BY <1>32, LogsStay DEF Idle, vars, LogInv, Same
<1>33. QED
  BY <1>1, <1>2, <1>3, <1>4, <1>5, <1>6, <1>7, <1>8, <1>9, <1>10, <1>11, <1>12, <1>13,
     <1>14, <1>15, <1>16, <1>17, <1>18, <1>19, <1>20, <1>21, <1>22, <1>23, <1>24, <1>25,
     <1>26, <1>27, <1>28, <1>29, <1>30, <1>31, <1>32
     DEF Next, Arrive, Preflighted, Worker, Resume, Stream, Cancel

\* LogTellsOutcome, as long as no pdf follower is cancelled: every way a request can end
\* leaves at most one line, and the line agrees with what the client was told.
THEOREM LogIsTrue ==
  ASSUME <<"pdf", "follow">> \notin CancelPoints
  PROVE  Spec => []LogTellsOutcome
<1>1. Init => LogInv
  BY DEF Init, LogInv, Logged
<1>2. Typed /\ TruthInv /\ LogInv /\ [Next]_vars => LogInv'
  BY LogStep
<1>3. TypeOK /\ TruthInv /\ LogInv => LogTellsOutcome
  <2> SUFFICES ASSUME TypeOK, TruthInv, LogInv, NEW r \in Requests
               PROVE  /\ Len(logs[r]) <= 1
                      /\ kind[r] = "sse" /\ worker[r] # "none" /\ pc[r] \in {"closing", "done"} => Len(logs[r]) = 1
                      /\ answer[r].status # 0 /\ logs[r] # <<>> => Says(r, logs[r][1])
    BY DEF LogTellsOutcome, Says, Streamed
  <2>1. Logged(r) /\ Honest(r) /\ pc[r] \in Awaits \cup {"new", "done"}
    BY DEF LogInv, TruthInv, TypeOK
  <2>2. CASE logs[r] = <<>>
    BY <2>1, <2>2 DEF Logged, Streamed, Awaits
  <2>3. CASE pc[r] = "render"
    <3>1. logs[r] = <<"ok">> /\ answer[r] = NoAnswer
      BY <2>1, <2>3 DEF Logged, Honest
    <3>2. answer[r].status = 0
      BY <3>1 DEF NoAnswer
    <3>3. Len(logs[r]) = 1
      BY <3>1
    <3>4. QED
      BY <2>3, <3>2, <3>3
  <2>4. CASE pc[r] \in {"closing", "done"} /\ logs[r] # <<>>
    <3>1. PICK s \in LogStatuses : logs[r] = <<s>> /\ Says(r, s)
      BY <2>1, <2>4 DEF Logged
    <3>2. QED
      BY <3>1, OneLine
  <2>5. QED
    BY <2>1, <2>2, <2>3, <2>4 DEF Logged, Awaits
<1>4. QED
  BY <1>1, <1>2, <1>3, TypedAlways, TruthAlways, TypeCorrect, PTL DEF Spec

=============================================================================
