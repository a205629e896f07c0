------------------------------ MODULE ClientProofs ------------------------------
(***************************************************************************)
(* Which run of Client the page belongs to, what it shows once that run is  *)
(* over, and which audits the pills and the retries are about, for every    *)
(* number of runs.                                                          *)
(***************************************************************************)
EXTENDS Client, TLAPS

\* The runs that have started are the first seq. Of these only the newest may be at work
\* and not aborted, and it is the one that has the controller.
Order ==
  /\ \A r \in Runs : pc[r] = "new" <=> r > seq
  /\ \A r \in Runs : r < seq /\ pc[r] # "done" => aborted[r]
  /\ \A r \in Runs : aborted[r] \/ timer[r] => pc[r] # "new"
  /\ \A r \in Runs : timer[r] => pc[r] # "done"

\* How many requests of a run were answered by the time it gets to an await.
Answered ==
  \A r \in Runs : /\ pc[r] \in {"new", "connect"} => requests[r] = 0
                  /\ pc[r] \in {"read", "refused", "broken", "fallback"} => requests[r] <= 1

Typed == TypeOK /\ Order /\ NewestOwnsState /\ Answered

\* A run to which the page delivers an event is the newest one, which owns the state.
LEMMA OnlyNewestMoves ==
  ASSUME Typed, Settled, NEW r \in Runs, pc[r] \notin {"new", "done"}
  PROVE  r = seq /\ controller = r /\ inFlight /\ ~aborted[r]
BY DEF Typed, TypeOK, Order, NewestOwnsState, Settled, Runs, NoRun

\* The types of the variables that Leave and Render change.
LEMMA LeaveStep ==
  ASSUME Typed, NEW r \in Runs, pc[r] \notin {"new", "done"}, Leave(r), UNCHANGED requests
  PROVE  /\ Order' /\ NewestOwnsState' /\ Answered'
         /\ pc' \in [Runs -> Awaits \cup {"new", "done"}] /\ timer' \in [Runs -> BOOLEAN]
         /\ controller' \in 0..MaxRuns /\ inFlight' \in BOOLEAN
         /\ UNCHANGED <<seq, aborted, stalled>>
<1> USE ClientAssumption DEF Typed, TypeOK, Leave, Retire, Runs, NoRun
<1>1. Order'
  BY DEF Order
<1>2. NewestOwnsState'
  BY DEF NewestOwnsState, Order
<1>3. Answered'
  BY DEF Answered, Order
<1>4. /\ pc' \in [Runs -> Awaits \cup {"new", "done"}] /\ timer' \in [Runs -> BOOLEAN]
      /\ UNCHANGED <<seq, aborted, stalled>>
  OBVIOUS
<1>5. controller' \in 0..MaxRuns
  OBVIOUS
<1>6. inFlight' \in BOOLEAN
  BY Zenon
<1>7. QED
  BY <1>1, <1>2, <1>3, <1>4, <1>5, <1>6

LEMMA RenderStep ==
  ASSUME Typed, Settled, NEW r \in Runs, pc[r] \notin {"new", "done"}, Render(r), UNCHANGED history
  PROVE  Typed'
<1>1. /\ Order' /\ NewestOwnsState' /\ Answered'
      /\ pc' \in [Runs -> Awaits \cup {"new", "done"}] /\ timer' \in [Runs -> BOOLEAN]
      /\ controller' \in 0..MaxRuns /\ inFlight' \in BOOLEAN
      /\ UNCHANGED <<seq, aborted, stalled>>
  BY LeaveStep DEF Render, history
<1>2. seq = r
  BY OnlyNewestMoves
<1>3. /\ loading' \in {Hidden} \cup {Progress(q) : q \in Runs} \cup {Error(q) : q \in Runs}
      /\ results' \in BOOLEAN /\ drawn' \in 0..MaxRuns /\ data' \in 0..MaxRuns
      /\ reveals' \subseteq [of : Runs, at : Runs]
  BY <1>2 DEF Render, Typed, TypeOK, Runs
<1>4. scope' \in Scopes /\ asked' \in [Runs -> Scopes] /\ touched' \in BOOLEAN
  <2>1. asked[r] \in Scopes
    BY DEF Typed, TypeOK
  <2>2. \/ UNCHANGED <<scope, asked, touched>>
        \/ scope' = asked[r] /\ touched' = FALSE /\ UNCHANGED asked
    BY Zenon DEF Render, LightPill, pills
  <2>3. QED
    BY <2>1, <2>2, Zenon DEF Typed, TypeOK
<1>5. /\ card' \in [Runs -> {"checked", "unchecked"}] /\ ctTimer' \in 0..MaxRuns
      /\ retries' \in [Runs -> Nat] /\ note' \in {"none", "asking", "again"}
  <2>1. \/ UNCHANGED certificates
        \/ \E c \in {"checked", "unchecked"} : ScheduleRetry(r, c)
    BY Zenon DEF Render
  <2>2. CASE UNCHANGED certificates
    BY <2>2 DEF Typed, TypeOK, certificates
  <2>3. ASSUME NEW c \in {"checked", "unchecked"}, ScheduleRetry(r, c)
        PROVE  /\ card' = [card EXCEPT ![r] = c] /\ ctTimer' \in {r, NoRun}
               /\ UNCHANGED retries /\ note' = "none"
    BY <2>3 DEF ScheduleRetry
  <2>4. r \in 0..MaxRuns /\ NoRun \in 0..MaxRuns
    BY ClientAssumption DEF Runs, NoRun
  <2>5. QED
    BY <2>1, <2>2, <2>3, <2>4 DEF Typed, TypeOK
<1>6. QED
  BY <1>1, <1>3, <1>4, <1>5 DEF Typed, TypeOK, history

LEMMA FailStep ==
  ASSUME Typed, NEW r \in Runs, pc[r] \notin {"new", "done"}, Leave(r),
         ShowError(r) \/ UNCHANGED page, UNCHANGED <<requests, pills, certificates>>,
         turnedDown' \in [Runs -> BOOLEAN]
  PROVE  Typed'
<1>1. /\ Order' /\ NewestOwnsState' /\ Answered'
      /\ pc' \in [Runs -> Awaits \cup {"new", "done"}] /\ timer' \in [Runs -> BOOLEAN]
      /\ controller' \in 0..MaxRuns /\ inFlight' \in BOOLEAN
      /\ UNCHANGED <<seq, aborted, stalled>>
  BY LeaveStep
<1>2. /\ loading' \in {Hidden} \cup {Progress(q) : q \in Runs} \cup {Error(q) : q \in Runs}
      /\ UNCHANGED <<results, drawn, data, reveals>>
  BY DEF ShowError, page, Typed, TypeOK
<1>3. QED
  BY <1>1, <1>2 DEF Typed, TypeOK, pills, certificates

LEMMA StartStep ==
  ASSUME Typed, NEW s \in Scopes, RunAudit(s), scope' \in Scopes, touched' \in BOOLEAN
  PROVE  Typed'
<1> USE ClientAssumption DEF Typed, Runs, NoRun
<1>1. seq + 1 \in Runs /\ seq \in Nat
  BY DEF RunAudit, TypeOK
<1>2. TypeOK'
  <2>1. /\ seq' \in 0..MaxRuns /\ controller' \in 0..MaxRuns /\ inFlight' \in BOOLEAN
        /\ loading' = Progress(seq + 1) /\ results' = FALSE
    BY <1>1 DEF RunAudit
  <2>2. /\ pc' \in [Runs -> Awaits \cup {"new", "done"}] /\ timer' \in [Runs -> BOOLEAN]
        /\ aborted' \in [Runs -> BOOLEAN] /\ asked' \in [Runs -> Scopes]
    BY <1>1 DEF RunAudit, TypeOK, Awaits
  <2>3. UNCHANGED <<stalled, drawn, data, reveals, requests, turnedDown, card, ctTimer,
                    retries, note>>
    BY DEF RunAudit, history, certificates
  <2>4. loading' \in {Hidden} \cup {Progress(q) : q \in Runs} \cup {Error(q) : q \in Runs}
    BY <1>1, <2>1
  <2>5. results' \in BOOLEAN
    BY <2>1
  <2>6. QED
    BY <2>1, <2>2, <2>3, <2>4, <2>5 DEF TypeOK
<1>3. Order'
  BY <1>1 DEF RunAudit, Settled, TypeOK, Order, NewestOwnsState
<1>4. NewestOwnsState'
  BY <1>1 DEF RunAudit, TypeOK, Order, NewestOwnsState
<1>5. Answered'
  BY <1>1 DEF RunAudit, TypeOK, Order, Answered, history
<1>6. QED
  BY <1>2, <1>3, <1>4, <1>5

\* A step to another await of the same run, or of none.
LEMMA MoveStep ==
  ASSUME Typed, NEW r \in Runs, pc[r] \notin {"new", "done"}, NEW p \in Awaits, Go(r, p),
         UNCHANGED <<seq, controller, inFlight, aborted>>,
         timer' = timer \/ timer' = [timer EXCEPT ![r] = FALSE]
  PROVE  /\ Order' /\ NewestOwnsState' /\ pc' \in [Runs -> Awaits \cup {"new", "done"}]
         /\ timer' \in [Runs -> BOOLEAN]
<1> USE ClientAssumption DEF Typed, TypeOK, Go, Runs, NoRun, Awaits
<1>1. /\ pc' \in [Runs -> Awaits \cup {"new", "done"}] /\ timer' \in [Runs -> BOOLEAN]
      /\ \A q \in Runs : timer'[q] => timer[q]
      /\ \A q \in Runs : (pc'[q] = "new" <=> pc[q] = "new") /\ (pc'[q] = "done" <=> pc[q] = "done")
  OBVIOUS
<1>2. Order'
  BY <1>1 DEF Order
<1>3. NewestOwnsState'
  BY <1>1 DEF NewestOwnsState
<1>4. QED
  BY <1>1, <1>2, <1>3

\* A visitor's step that starts nothing.
LEMMA IdleStep ==
  ASSUME Typed, scope' \in Scopes, touched' \in BOOLEAN,
         UNCHANGED <<control, page, asked, history, certificates>>
  PROVE  Typed'
<1>1. TypeOK'
  BY DEF Typed, TypeOK, control, page, history, certificates
<1>2. Order' /\ NewestOwnsState' /\ Answered'
  BY DEF Typed, Order, NewestOwnsState, Answered, control, history
<1>3. QED
  BY <1>1, <1>2 DEF Typed

\* Every step keeps the types, the order of the runs and the owner of the state.
LEMMA TypedStep == Typed /\ [Next]_vars => Typed'
<1> SUFFICES ASSUME Typed, [Next]_vars PROVE Typed'
  OBVIOUS
<1> USE ClientAssumption
<1>1. CASE StartAudit
  BY <1>1, StartStep DEF StartAudit, Typed, TypeOK
<1>2. CASE MovePill
  BY <1>2, IdleStep DEF MovePill
<1>3. ASSUME NEW s \in Scopes, ClickPill(s) PROVE Typed'
  <2>1. scope' \in Scopes /\ touched' \in BOOLEAN
    BY <1>3, Zenon DEF ClickPill
  <2>2. RunAudit(s) \/ UNCHANGED <<control, page, asked, history, certificates>>
    BY <1>3, Zenon DEF ClickPill
  <2>3. QED
    BY <2>1, <2>2, StartStep, IdleStep
<1>4. ASSUME NEW r \in 0..MaxRuns, Retry(r), UNCHANGED <<control, page, pills, history, card>>,
             ctTimer' \in 0..MaxRuns
      PROVE  Typed'
  <2>1. retries' \in [Runs -> Nat] /\ note' \in {"none", "asking", "again"}
    BY <1>4 DEF Retry, Typed, TypeOK
  <2>2. TypeOK'
    BY <1>4, <2>1 DEF Typed, TypeOK, control, page, pills, history
  <2>3. Order' /\ NewestOwnsState' /\ Answered'
    BY <1>4 DEF Typed, Order, NewestOwnsState, Answered, control, history
  <2>4. QED
    BY <2>2, <2>3 DEF Typed
<1>5. CASE ClickTryAgain
  <2>1. data \in 0..MaxRuns
    BY DEF Typed, TypeOK
  <2>2. QED
    BY <1>5, <2>1, <1>4 DEF ClickTryAgain, Typed, TypeOK
<1>6. CASE RetryTimer
  <2>1. ctTimer \in 0..MaxRuns /\ ctTimer' \in 0..MaxRuns
    BY <1>6 DEF RetryTimer, Typed, TypeOK, NoRun
  <2>2. QED
    BY <1>6, <2>1, <1>4 DEF RetryTimer
<1>7. ASSUME NEW r \in Runs, RetryAnswers(r) PROVE Typed'
  <2>1. retries' \in [Runs -> Nat]
    BY <1>7 DEF RetryAnswers, Typed, TypeOK
  <2>2. card' \in [Runs -> {"checked", "unchecked"}] /\ note' \in {"none", "asking", "again"}
    BY <1>7 DEF RetryAnswers, Typed, TypeOK
  <2>3. TypeOK'
    BY <1>7, <2>1, <2>2 DEF RetryAnswers, Typed, TypeOK, control, page, pills, history
  <2>4. Order' /\ NewestOwnsState' /\ Answered'
    BY <1>7 DEF RetryAnswers, Typed, Order, NewestOwnsState, Answered, control, history
  <2>5. QED
    BY <2>3, <2>4 DEF Typed
<1>8. ASSUME NEW t \in reveals, Reveal(t) PROVE Typed'
  <2>1. /\ loading' \in {Hidden} \cup {Progress(q) : q \in Runs} \cup {Error(q) : q \in Runs}
        /\ reveals' \subseteq [of : Runs, at : Runs]
    BY <1>8 DEF Reveal, Typed, TypeOK
  <2>2. results' \in BOOLEAN
    BY <1>8, Zenon DEF Reveal, Typed, TypeOK
  <2>3. TypeOK'
    BY <1>8, <2>1, <2>2 DEF Reveal, Typed, TypeOK, control, pills, history, certificates
  <2>4. Order' /\ NewestOwnsState' /\ Answered'
    BY <1>8 DEF Reveal, Typed, Order, NewestOwnsState, Answered, control, history
  <2>5. QED
    BY <2>3, <2>4 DEF Typed
<1>9. ASSUME NEW r \in Runs, WatchdogFires(r) PROVE Typed'
  <2>1. /\ timer' \in [Runs -> BOOLEAN] /\ stalled' \in [Runs -> BOOLEAN]
        /\ aborted' \in [Runs -> BOOLEAN]
    BY <1>9 DEF WatchdogFires, Typed, TypeOK
  <2>2. TypeOK'
    BY <1>9, <2>1 DEF WatchdogFires, Typed, TypeOK, page, pills, history, certificates
  <2>3. Order'
    BY <1>9 DEF WatchdogFires, Typed, TypeOK, Order, Runs
  <2>4. NewestOwnsState' /\ Answered'
    BY <1>9 DEF WatchdogFires, Typed, NewestOwnsState, Answered, history
  <2>5. QED
    BY <2>2, <2>3, <2>4 DEF Typed
<1>10. ASSUME NEW r \in Runs, Unwind(r) PROVE Typed'
  BY <1>10, FailStep DEF Unwind, history, Typed, TypeOK
<1>11. ASSUME NEW r \in Runs, StreamAnswers(r) PROVE Typed'
  <2>1. PICK p \in {"read", "refused", "broken"} :
          Go(r, p) /\ turnedDown' = [turnedDown EXCEPT ![r] = (p = "refused")]
    BY <1>11 DEF StreamAnswers
  <2>2. /\ Order' /\ NewestOwnsState' /\ pc' \in [Runs -> Awaits \cup {"new", "done"}]
        /\ timer' \in [Runs -> BOOLEAN]
    BY <1>11, <2>1, MoveStep DEF StreamAnswers, Arrives, Awaits
  <2>3. turnedDown' \in [Runs -> BOOLEAN] /\ requests' \in [Runs -> 0..2] /\ Answered'
    BY <1>11, <2>1 DEF StreamAnswers, Arrives, OneMore, Go, Answered, Typed, TypeOK, Runs
  <2>4. TypeOK'
    BY <1>11, <2>2, <2>3 DEF StreamAnswers, Typed, TypeOK, page, pills, certificates
  <2>5. QED
    BY <2>2, <2>3, <2>4 DEF Typed
<1>12. ASSUME NEW r \in Runs, RefusalRead(r) PROVE Typed'
  BY <1>12, FailStep DEF RefusalRead, FailWith, Arrives, history, Typed, TypeOK
<1>13. ASSUME NEW r \in Runs, ErrorEvent(r) PROVE Typed'
  <2>1. turnedDown' \in [Runs -> BOOLEAN]
    BY <1>13 DEF ErrorEvent, Typed, TypeOK
  <2>2. QED
    BY <1>13, <2>1, FailStep DEF ErrorEvent, Arrives
<1>14. ASSUME NEW r \in Runs, DoneEvent(r) PROVE Typed'
  BY <1>14, RenderStep DEF DoneEvent, Arrives
<1>15. ASSUME NEW r \in Runs, FallBack(r) PROVE Typed'
  <2>1. /\ Order' /\ NewestOwnsState' /\ pc' \in [Runs -> Awaits \cup {"new", "done"}]
        /\ timer' \in [Runs -> BOOLEAN]
    BY <1>15, MoveStep DEF FallBack, Awaits
  <2>2. asked' \in [Runs -> Scopes]
    BY <1>15 DEF FallBack, Typed, TypeOK
  <2>3. TypeOK'
    BY <1>15, <2>1, <2>2 DEF FallBack, Typed, TypeOK, page, history, certificates
  <2>4. Answered'
    BY <1>15 DEF FallBack, Go, Answered, Typed, TypeOK, history, Runs
  <2>5. QED
    BY <2>1, <2>3, <2>4 DEF Typed
<1>16. ASSUME NEW r \in Runs, FallbackAnswers(r) PROVE Typed'
  <2>1. PICK p \in {"body", "failure"} : Go(r, p)
    BY <1>16 DEF FallbackAnswers
  <2>2. /\ Order' /\ NewestOwnsState' /\ pc' \in [Runs -> Awaits \cup {"new", "done"}]
        /\ timer' \in [Runs -> BOOLEAN]
    BY <1>16, <2>1, MoveStep DEF FallbackAnswers, Arrives, Awaits
  <2>3. requests' \in [Runs -> 0..2] /\ Answered'
    <3>1. /\ pc' = [pc EXCEPT ![r] = p]
          /\ requests' = [requests EXCEPT ![r] = @ + 1] /\ requests[r] <= 1
      BY <1>16, <2>1 DEF FallbackAnswers, Arrives, OneMore, Go, Answered, Typed
    <3>2. requests[r] + 1 \in 0..2
      BY <3>1 DEF Typed, TypeOK
    <3>3. pc \in [Runs -> Awaits \cup {"new", "done"}] /\ requests \in [Runs -> 0..2]
      BY DEF Typed, TypeOK
    <3>4. Answered'
      BY <3>1, <3>3 DEF Answered, Typed
    <3>5. QED
      BY <3>1, <3>2, <3>3, <3>4
  <2>4. TypeOK'
    BY <1>16, <2>2, <2>3 DEF FallbackAnswers, Typed, TypeOK, page, pills, certificates
  <2>5. QED
    BY <2>2, <2>3, <2>4 DEF Typed
<1>17. ASSUME NEW r \in Runs, FallbackRenders(r) PROVE Typed'
  BY <1>17, RenderStep DEF FallbackRenders, Arrives
<1>18. ASSUME NEW r \in Runs, FallbackFails(r) PROVE Typed'
  BY <1>18, FailStep DEF FallbackFails, FailWith, history, Typed, TypeOK
<1>19. CASE UNCHANGED vars
  <2>1. UNCHANGED <<control, page, asked, history, certificates>> /\ UNCHANGED <<scope, touched>>
    BY <1>19 DEF vars, pills
  <2>2. QED
    BY <2>1, IdleStep DEF Typed, TypeOK
<1>20. QED
  BY <1>1, <1>2, <1>3, <1>5, <1>6, <1>7, <1>8, <1>9, <1>10, <1>11, <1>12, <1>13, <1>14,
     <1>15, <1>16, <1>17, <1>18, <1>19
  DEF Next, Visitor, Stream, Json, Timers

LEMMA TypedInit == Init => Typed
<1> SUFFICES ASSUME Init PROVE Typed
  OBVIOUS
<1> USE ClientAssumption DEF Init, Runs, NoRun
<1>1. TypeOK
  <2>1. /\ inFlight \in BOOLEAN /\ results \in BOOLEAN /\ touched \in BOOLEAN
        /\ loading \in {Hidden} \cup {Progress(r) : r \in Runs} \cup {Error(r) : r \in Runs}
    BY Zenon
  <2>2. /\ aborted \in [Runs -> BOOLEAN] /\ stalled \in [Runs -> BOOLEAN]
        /\ timer \in [Runs -> BOOLEAN] /\ turnedDown \in [Runs -> BOOLEAN]
    OBVIOUS
  <2>3. QED
    BY <2>1, <2>2 DEF TypeOK
<1>2. Order
  BY DEF Order
<1>3. NewestOwnsState
  BY DEF NewestOwnsState
<1>4. Answered
  BY DEF Answered
<1>5. QED
  BY <1>1, <1>2, <1>3, <1>4 DEF Typed

LEMMA TypedHolds == Spec => []Typed
BY TypedInit, TypedStep, PTL DEF Spec

\* However runs of the page start, fail, are aborted and unwind, its variables keep
\* their types, and a run asks the server at most twice.
THEOREM ClientTyped == Spec => []TypeOK
<1>1. Typed => TypeOK
  BY DEF Typed
<1>2. QED
  BY <1>1, TypedHolds, PTL

\* The controller and the flag that blocks the form belong to the newest run for as long
\* as it is at work, and to nobody afterwards.
THEOREM NewestOwnsStateHolds == Spec => []NewestOwnsState
<1>1. Typed => NewestOwnsState
  BY DEF Typed
<1>2. QED
  BY <1>1, TypedHolds, PTL

-----------------------------------------------------------------------------
(* Who owns the page.                                                        *)

\* A visitor is not quick enough to start an audit while the body of an error response
\* of the last one is on its way.
QuietBodies == AbortPoints \cap {"refused", "failure"} = {}

\* An older run that is still at work has nothing to say when it unwinds, and a timer
\* that would still show results belongs to a newest run that is over.
Owned ==
  /\ \A r \in Runs : stalled[r] => aborted[r]
  /\ \A r \in Runs : r # seq /\ pc[r] \notin {"new", "done"} =>
                       ~stalled[r] /\ pc[r] \notin {"refused", "failure"}
  /\ \A t \in reveals : t.at <= seq /\ (t.at = seq => pc[seq] = "done")
  /\ NewestOwnsPage

\* The run that ends is an older one that says nothing, or the newest.
LEMMA OwnedLeave ==
  ASSUME Typed, Typed', Owned, NEW r \in Runs, pc[r] \notin {"new", "done"}, Leave(r),
         UNCHANGED page \/ r = seq,
         \A t \in reveals' : t \in reveals \/ (t.at = seq /\ r = seq)
  PROVE  Owned'
<1> USE DEF Typed, TypeOK, Leave, Runs, NoRun
<1>1. /\ pc' = [pc EXCEPT ![r] = "done"] /\ UNCHANGED <<seq, aborted, stalled>>
      /\ \A q \in Runs : q # r => pc'[q] = pc[q]
  OBVIOUS
<1>2. (\A q \in Runs : stalled[q] => aborted[q])'
  BY <1>1 DEF Owned
<1>3. (\A q \in Runs : q # seq /\ pc[q] \notin {"new", "done"} =>
                         ~stalled[q] /\ pc[q] \notin {"refused", "failure"})'
  BY <1>1 DEF Owned
<1>4. (\A t \in reveals : t.at <= seq /\ (t.at = seq => pc[seq] = "done"))'
  <2>1. r = seq => pc'[seq] = "done"
    BY <1>1
  <2>2. seq \in Nat /\ (pc[seq] = "done" => pc'[seq] = "done")
    BY <1>1
  <2>3. ASSUME NEW t \in reveals' PROVE t.at <= seq /\ (t.at = seq => pc'[seq] = "done")
    <3>1. CASE t \in reveals
      BY <3>1, <2>2 DEF Owned
    <3>2. CASE t.at = seq /\ r = seq
      BY <3>2, <2>1, <2>2
    <3>3. QED
      BY <3>1, <3>2
  <2>4. seq' = seq
    BY <1>1
  <2>5. QED
    BY <2>3, <2>4
<1>5. NewestOwnsPage'
  <2>1. CASE r = seq
    <3>1. controller' = NoRun
      BY <2>1, <1>1 DEF NewestOwnsState
    <3>2. QED
      BY <3>1 DEF NewestOwnsPage
  <2>2. CASE r # seq
    <3>1. controller = r => FALSE
      BY <2>2 DEF NewestOwnsState
    <3>2. UNCHANGED <<controller, loading, results>>
      BY <2>2, <3>1 DEF Retire, page
    <3>3. QED
      BY <3>2 DEF NewestOwnsPage, Owned
  <2>3. QED
    BY <2>1, <2>2
<1>6. QED
  BY <1>2, <1>3, <1>4, <1>5 DEF Owned

\* Renders by the newest run.
LEMMA OwnedRender ==
  ASSUME Typed, Typed', Owned, Settled, NEW r \in Runs, pc[r] \notin {"new", "done"}, Render(r)
  PROVE  Owned'
<1>1. r = seq
  BY OnlyNewestMoves
<1>2. \A t \in reveals' : t \in reveals \/ (t.at = seq /\ r = seq)
  BY <1>1 DEF Render
<1>3. QED
  BY <1>1, <1>2, OwnedLeave DEF Render

LEMMA OwnedStart ==
  ASSUME Typed, Owned, QuietBodies, NEW s \in Scopes, RunAudit(s)
  PROVE  Owned'
<1> USE ClientAssumption DEF Typed, TypeOK, Runs, NoRun
<1>1. /\ seq' = seq + 1 /\ seq \in Nat /\ seq' \in Runs
      /\ pc' = [pc EXCEPT ![seq + 1] = "connect"]
      /\ \A r \in Runs : r # seq + 1 => pc'[r] = pc[r]
      /\ UNCHANGED <<stalled, reveals>>
  BY DEF RunAudit
<1>2. \A r \in Runs : aborted[r] => aborted'[r]
  BY DEF RunAudit
<1>3. (\A r \in Runs : stalled[r] => aborted[r])'
  BY <1>1, <1>2 DEF Owned
<1>4. \A r \in Runs : r # seq + 1 /\ pc[r] \notin {"new", "done"} =>
                        ~stalled[r] /\ pc[r] \notin {"refused", "failure"}
  <2>1. \A r \in Runs : r # seq /\ r # seq + 1 => pc[r] \in {"new", "done"}
    BY <1>1 DEF Order, RunAudit, Settled
  <2>2. seq \in Runs /\ pc[seq] \notin {"new", "done"} =>
          pc[seq] \in AbortPoints /\ ~stalled[seq]
    BY <1>1 DEF RunAudit, Settled, NewestOwnsState, Owned
  <2>3. QED
    BY <2>1, <2>2 DEF QuietBodies
<1>5. (\A r \in Runs : r # seq /\ pc[r] \notin {"new", "done"} =>
                         ~stalled[r] /\ pc[r] \notin {"refused", "failure"})'
  BY <1>1, <1>4
<1>6. (\A t \in reveals : t.at <= seq /\ (t.at = seq => pc[seq] = "done"))'
  BY <1>1 DEF Owned
<1>7. NewestOwnsPage'
  BY <1>1 DEF RunAudit, NewestOwnsPage, Progress
<1>8. QED
  BY <1>3, <1>5, <1>6, <1>7 DEF Owned

\* A step that starts and ends no run, and shows nothing.
LEMMA OwnedIdle ==
  ASSUME Owned, UNCHANGED <<control, page>>
  PROVE  Owned'
BY DEF Owned, NewestOwnsPage, control, page

\* Every step leaves the page to its owner.
LEMMA OwnedStep == QuietBodies /\ Typed /\ Typed' /\ Owned /\ [Next]_vars => Owned'
<1> SUFFICES ASSUME QuietBodies, Typed, Typed', Owned, [Next]_vars PROVE Owned'
  OBVIOUS
<1>1. CASE StartAudit
  BY <1>1, OwnedStart DEF StartAudit, Typed, TypeOK
<1>2. CASE MovePill \/ ClickTryAgain \/ RetryTimer \/ UNCHANGED vars
  BY <1>2, OwnedIdle DEF MovePill, ClickTryAgain, RetryTimer, vars
<1>3. ASSUME NEW s \in Scopes, ClickPill(s) PROVE Owned'
  <2>1. RunAudit(s) \/ UNCHANGED <<control, page>>
    BY <1>3, Zenon DEF ClickPill
  <2>2. QED
    BY <2>1, OwnedStart, OwnedIdle
<1>4. ASSUME NEW r \in Runs, RetryAnswers(r) PROVE Owned'
  BY <1>4, OwnedIdle DEF RetryAnswers
<1>5. ASSUME NEW t \in reveals, Reveal(t) PROVE Owned'
  <2>1. /\ UNCHANGED control /\ reveals' \subseteq reveals
        /\ t.at = seq \/ UNCHANGED <<loading, results>>
    BY <1>5, Zenon DEF Reveal
  <2>2. t.at = seq => controller = NoRun
    BY DEF Owned, Typed, TypeOK, NewestOwnsState
  <2>3. QED
    BY <2>1, <2>2 DEF Owned, NewestOwnsPage, control
<1>6. ASSUME NEW r \in Runs, WatchdogFires(r) PROVE Owned'
  <2>1. r = seq
    BY <1>6, OnlyNewestMoves DEF WatchdogFires, Typed, Order
  <2>2. /\ stalled' = [stalled EXCEPT ![r] = TRUE] /\ aborted' = [aborted EXCEPT ![r] = TRUE]
        /\ UNCHANGED <<seq, pc, controller, loading, results, reveals>>
    BY <1>6 DEF WatchdogFires, page
  <2>3. \A q \in Runs : stalled'[q] => aborted'[q]
    BY <2>2 DEF Owned, Typed, TypeOK
  <2>4. \A q \in Runs : q # seq => stalled'[q] = stalled[q]
    BY <2>1, <2>2 DEF Typed, TypeOK
  <2>5. QED
    BY <2>2, <2>3, <2>4 DEF Owned, NewestOwnsPage
<1>7. ASSUME NEW r \in Runs, Unwind(r) PROVE Owned'
  <2>1. UNCHANGED page \/ r = seq
    BY <1>7 DEF Unwind, Owned
  <2>2. UNCHANGED reveals
    BY <1>7, Zenon DEF Unwind, ShowError, page
  <2>3. QED
    BY <1>7, <2>1, <2>2, OwnedLeave DEF Unwind
<1>8. ASSUME NEW r \in Runs, NEW p \in Awaits, Settled, pc[r] \notin {"new", "done"}, Go(r, p),
             UNCHANGED <<seq, controller, aborted, stalled, page>>
      PROVE  Owned'
  <2>1. r = seq /\ controller = r
    BY <1>8, OnlyNewestMoves
  <2>2. \A q \in Runs : q # seq => pc'[q] = pc[q]
    BY <1>8, <2>1 DEF Go, Typed, TypeOK
  <2>3. pc[seq] # "done"
    BY <1>8, <2>1
  <2>4. QED
    BY <1>8, <2>1, <2>2, <2>3 DEF Owned, NewestOwnsPage, page
<1>9. ASSUME NEW r \in Runs, StreamAnswers(r) \/ FallBack(r) \/ FallbackAnswers(r) PROVE Owned'
  BY <1>9, <1>8 DEF StreamAnswers, FallBack, FallbackAnswers, Arrives, Awaits
<1>10. ASSUME NEW r \in Runs, DoneEvent(r) \/ FallbackRenders(r) PROVE Owned'
  BY <1>10, OwnedRender DEF DoneEvent, FallbackRenders, Arrives
<1>11. ASSUME NEW r \in Runs, RefusalRead(r) \/ ErrorEvent(r) \/ FallbackFails(r) PROVE Owned'
  <2>1. Settled /\ pc[r] \notin {"new", "done"} /\ Leave(r) /\ ShowError(r)
    BY <1>11 DEF RefusalRead, ErrorEvent, FallbackFails, FailWith, Arrives
  <2>2. r = seq
    BY <2>1, OnlyNewestMoves
  <2>3. QED
    BY <2>1, <2>2, OwnedLeave DEF ShowError
<1>12. QED
  BY <1>1, <1>2, <1>3, <1>4, <1>5, <1>6, <1>7, <1>9, <1>10, <1>11
  DEF Next, Visitor, Stream, Json, Timers

\* Where no audit is started during the body of an error response, the page shows the
\* progress of the newest audit for as long as it is at work, and neither a result nor an
\* error of an older one.
THEOREM NewestOwnsPageHolds == QuietBodies => (Spec => []NewestOwnsPage)
<1>1. Init => Owned
  BY ClientAssumption DEF Init, Owned, NewestOwnsPage, Runs, NoRun
<1>2. QuietBodies /\ Typed /\ Typed' /\ Owned /\ [Next]_vars => Owned'
  BY OwnedStep
<1>3. Owned => NewestOwnsPage
  BY DEF Owned
<1>4. SUFFICES ASSUME QuietBodies PROVE Spec => []NewestOwnsPage
  OBVIOUS
<1>5. Typed /\ Typed' /\ Owned /\ [Next]_vars => Owned'
  BY <1>2, <1>4
<1>6. QED
  BY <1>1, <1>3, <1>5, TypedHolds, PTL DEF Spec

-----------------------------------------------------------------------------
(* What the page says once an audit is over.                                 *)

\* The newest audit that is over shows its error, or has its results drawn, and these are
\* shown or will be by the timer that is set. Only the watchdog has aborted the newest.
Shown ==
  /\ \A t \in reveals : t.of = t.at
  /\ seq # 0 /\ aborted[seq] => stalled[seq]
  /\ seq # 0 /\ pc[seq] = "done" =>
       \/ ~results /\ loading = Error(seq) /\ [of |-> seq, at |-> seq] \notin reveals
       \/ /\ drawn = seq /\ data = seq
          /\ \/ ~results /\ [of |-> seq, at |-> seq] \in reveals
             \/ results /\ loading = Hidden

\* What is drawn is the result of an audit that is over, and the pills are where its
\* result, or the visitor after it, has put them.
Lit ==
  /\ results \/ reveals # {} => drawn # NoRun
  /\ drawn # NoRun => pc[drawn] = "done"
  /\ drawn # NoRun /\ ~touched => scope = asked[drawn]

\* A refused audit has sent one request, and no other is sent for it.
Refusals ==
  \A r \in Runs : /\ turnedDown[r] => pc[r] \in {"refused", "done"} /\ requests[r] = 1
                  /\ pc[r] \in {"read", "refused", "broken"} => requests[r] = 1

\* The retries of a certificate card come one after another: the timer's before any
\* other, and each of the last audit's while its card says that it is asking.
Retries ==
  /\ \A r \in Runs : retries[r] <= 1 /\ (retries[r] > 0 => pc[r] = "done")
  /\ ctTimer # NoRun =>
       /\ drawn = ctTimer /\ card[ctTimer] = "unchecked" /\ retries[ctTimer] = 0
       /\ pc[ctTimer] = "done" /\ (ctTimer = data => note = "none")
  /\ data # NoRun => pc[data] = "done" /\ (retries[data] > 0 => note = "asking")
  /\ note # "none" => card[drawn] = "unchecked"

\* A step that ends no other run than one at work, and draws nothing.
LEMMA LitKept ==
  ASSUME Typed, Lit, NEW r \in Runs, pc[r] \notin {"new", "done"},
         UNCHANGED <<results, drawn, reveals, scope, touched>>,
         \A q \in Runs : q # r => pc'[q] = pc[q] /\ asked'[q] = asked[q]
  PROVE  Lit'
<1>1. drawn # NoRun => drawn \in Runs /\ drawn # r
  BY DEF Lit, Typed, TypeOK, Runs, NoRun
<1>2. (results \/ reveals # {} => drawn # NoRun)'
  BY DEF Lit
<1>3. (drawn # NoRun => pc[drawn] = "done")'
  BY <1>1 DEF Lit
<1>4. (drawn # NoRun /\ ~touched => scope = asked[drawn])'
  BY <1>1 DEF Lit
<1>5. QED
  BY <1>2, <1>3, <1>4 DEF Lit

\* A step that starts, ends and draws nothing.
LEMMA LitIdle ==
  ASSUME Lit, UNCHANGED <<control, page, asked>>, UNCHANGED <<scope, touched>> \/ touched'
  PROVE  Lit'
BY DEF Lit, control, page

LEMMA LitStart ==
  ASSUME Typed, Lit, NEW s \in Scopes, RunAudit(s),
         UNCHANGED <<scope, touched>> \/ touched'
  PROVE  Lit'
<1> USE ClientAssumption DEF Typed, TypeOK, Runs, NoRun
<1>1. /\ seq + 1 \in Runs /\ pc[seq + 1] = "new"
      /\ \A q \in Runs : q # seq + 1 => pc'[q] = pc[q] /\ asked'[q] = asked[q]
      /\ results' = FALSE /\ UNCHANGED <<drawn, reveals>>
  <2>1. seq + 1 \in Runs /\ pc[seq + 1] = "new"
    BY DEF RunAudit, Order
  <2>2. /\ pc' = [pc EXCEPT ![seq + 1] = "connect"] /\ asked' = [asked EXCEPT ![seq + 1] = s]
        /\ results' = FALSE /\ UNCHANGED <<drawn, reveals>>
    BY DEF RunAudit
  <2>3. \A q \in Runs : q # seq + 1 => pc'[q] = pc[q] /\ asked'[q] = asked[q]
    BY <2>2
  <2>4. QED
    BY <2>1, <2>2, <2>3
<1>2. drawn # NoRun => drawn \in Runs /\ drawn # seq + 1
  <2>1. drawn # NoRun => drawn \in Runs /\ pc[drawn] = "done"
    BY DEF Lit
  <2>2. QED
    BY <1>1, <2>1
<1>3. QED
  BY <1>1, <1>2 DEF Lit

LEMMA LitRender ==
  ASSUME Typed, Lit, NEW r \in Runs, pc[r] \notin {"new", "done"}, Render(r)
  PROVE  Lit'
<1>1. pc' = [pc EXCEPT ![r] = "done"] /\ pc'[r] = "done"
  BY DEF Render, Leave, Typed, TypeOK
<1>2. \/ UNCHANGED <<results, drawn, reveals, scope, touched, asked>>
      \/ drawn' = r /\ scope' = asked[r] /\ UNCHANGED asked
    BY DEF Render, LightPill, pills
<1>3. CASE UNCHANGED <<results, drawn, reveals, scope, touched, asked>>
  BY <1>1, <1>3, LitKept DEF Typed, TypeOK
<1>4. CASE drawn' = r /\ scope' = asked[r] /\ UNCHANGED asked
  BY <1>1, <1>4, ClientAssumption DEF Lit, Runs, NoRun
<1>5. QED
  BY <1>2, <1>3, <1>4

LEMMA LitStep == Typed /\ Lit /\ [Next]_vars => Lit'
<1> SUFFICES ASSUME Typed, Lit, [Next]_vars PROVE Lit'
  OBVIOUS
<1>1. CASE StartAudit
  BY <1>1, LitStart DEF StartAudit, Typed, TypeOK
<1>2. CASE MovePill \/ ClickTryAgain \/ RetryTimer \/ UNCHANGED vars
  BY <1>2, LitIdle, Zenon DEF MovePill, ClickTryAgain, RetryTimer, pills, vars
<1>3. ASSUME NEW s \in Scopes, ClickPill(s) PROVE Lit'
  <2>1. touched' /\ (RunAudit(s) \/ UNCHANGED <<control, page, asked>>)
    BY <1>3, Zenon DEF ClickPill
  <2>2. QED
    BY <2>1, LitStart, LitIdle
<1>4. ASSUME NEW r \in Runs, RetryAnswers(r) PROVE Lit'
  BY <1>4, LitIdle, Zenon DEF RetryAnswers, pills
<1>5. ASSUME NEW t \in reveals, Reveal(t) PROVE Lit'
  <2>1. drawn # NoRun /\ UNCHANGED <<control, drawn, pills>>
    BY <1>5 DEF Lit, Reveal
  <2>2. QED
    BY <2>1 DEF Lit, control, pills
<1>6. ASSUME NEW r \in Runs, WatchdogFires(r) PROVE Lit'
  BY <1>6 DEF Lit, WatchdogFires, page, pills
<1>7. ASSUME NEW r \in Runs, pc[r] \notin {"new", "done"}, NEW p, pc' = [pc EXCEPT ![r] = p],
             UNCHANGED <<results, drawn, reveals, scope, touched>>,
             asked' = asked \/ asked' = [asked EXCEPT ![r] = scope]
      PROVE  Lit'
  BY <1>7, LitKept DEF Typed, TypeOK
<1>8. ASSUME NEW r \in Runs,
             Unwind(r) \/ RefusalRead(r) \/ ErrorEvent(r) \/ FallbackFails(r)
      PROVE  Lit'
  <2>1. /\ pc[r] \notin {"new", "done"} /\ Leave(r) /\ UNCHANGED pills
        /\ ShowError(r) \/ UNCHANGED page
    BY <1>8 DEF Unwind, RefusalRead, ErrorEvent, FallbackFails, FailWith, Arrives
  <2>2. QED
    BY <2>1, <1>7 DEF Leave, ShowError, page, pills
<1>9. ASSUME NEW r \in Runs, StreamAnswers(r) \/ FallBack(r) \/ FallbackAnswers(r) PROVE Lit'
  <2>1. /\ pc[r] \notin {"new", "done"} /\ \E p \in Awaits : Go(r, p)
        /\ UNCHANGED <<page, scope, touched>>
        /\ asked' = asked \/ asked' = [asked EXCEPT ![r] = scope]
    BY <1>9 DEF StreamAnswers, FallBack, FallbackAnswers, Arrives, Awaits, pills
  <2>2. QED
    BY <2>1, <1>7 DEF Go, page
<1>10. ASSUME NEW r \in Runs, DoneEvent(r) \/ FallbackRenders(r) PROVE Lit'
  BY <1>10, LitRender DEF DoneEvent, FallbackRenders, Arrives
<1>11. QED
  BY <1>1, <1>2, <1>3, <1>4, <1>5, <1>6, <1>8, <1>9, <1>10
  DEF Next, Visitor, Stream, Json, Timers

\* Whichever pills are picked while audits run, and however these end, the pills show the
\* question that the visible results answer until the visitor moves them.
THEOREM PillsTellQuestionHolds == Spec => []PillsTellQuestion
<1>1. Init => Lit
  BY DEF Init, Lit
<1>2. Typed /\ Lit /\ [Next]_vars => Lit'
  BY LitStep
<1>3. Lit => PillsTellQuestion
  BY DEF Lit, PillsTellQuestion
<1>4. QED
  BY <1>1, <1>2, <1>3, TypedHolds, PTL DEF Spec

-----------------------------------------------------------------------------
(* What is asked again.                                                      *)

\* A step of a run at work to its next await or its end.
LEMMA RefusalsMove ==
  ASSUME Typed, Refusals, NEW r \in Runs, NEW p, pc' = [pc EXCEPT ![r] = p],
         \A q \in Runs : q # r => turnedDown'[q] = turnedDown[q] /\ requests'[q] = requests[q],
         turnedDown'[r] => p \in {"refused", "done"} /\ requests'[r] = 1,
         p \in {"read", "refused", "broken"} => requests'[r] = 1
  PROVE  Refusals'
BY DEF Refusals, Typed, TypeOK

LEMMA RefusalsStart ==
  ASSUME Typed, Refusals, NEW s \in Scopes, RunAudit(s)
  PROVE  Refusals'
<1> USE ClientAssumption DEF Typed, TypeOK, Runs
<1>1. seq + 1 \in Runs /\ pc[seq + 1] = "new"
  BY DEF RunAudit, Order
<1>2. pc' = [pc EXCEPT ![seq + 1] = "connect"] /\ UNCHANGED <<turnedDown, requests>>
  BY DEF RunAudit, history
<1>3. ~turnedDown[seq + 1]
  BY <1>1 DEF Refusals
<1>4. QED
  BY <1>1, <1>2, <1>3, RefusalsMove

LEMMA RefusalsStep == Typed /\ Refusals /\ [Next]_vars => Refusals'
<1> SUFFICES ASSUME Typed, Refusals, [Next]_vars PROVE Refusals'
  OBVIOUS
<1>1. ASSUME UNCHANGED <<pc, history>> PROVE Refusals'
  BY <1>1 DEF Refusals, history
<1>2. CASE StartAudit
  BY <1>2, RefusalsStart DEF StartAudit, Typed, TypeOK
<1>3. CASE MovePill \/ ClickTryAgain \/ RetryTimer \/ UNCHANGED vars
  BY <1>1, <1>3 DEF MovePill, ClickTryAgain, RetryTimer, control, vars
<1>4. ASSUME NEW s \in Scopes, ClickPill(s) PROVE Refusals'
  <2>1. RunAudit(s) \/ UNCHANGED <<pc, history>>
    BY <1>4, Zenon DEF ClickPill, control
  <2>2. QED
    BY <2>1, <1>1, RefusalsStart
<1>5. ASSUME NEW r \in Runs, RetryAnswers(r) \/ WatchdogFires(r) PROVE Refusals'
  BY <1>1, <1>5 DEF RetryAnswers, WatchdogFires, control
<1>6. ASSUME NEW t \in reveals, Reveal(t) PROVE Refusals'
  BY <1>1, <1>6 DEF Reveal, control
<1>7. ASSUME NEW r \in Runs,
             \/ Unwind(r) \/ RefusalRead(r) \/ FallbackFails(r)
             \/ DoneEvent(r) \/ FallbackRenders(r)
      PROVE  Refusals'
  <2>1. Leave(r) /\ UNCHANGED history /\ pc[r] # "new"
    BY <1>7 DEF Unwind, RefusalRead, FallbackFails, FailWith, DoneEvent, FallbackRenders, Render,
                Arrives
  <2>2. turnedDown[r] => requests[r] = 1
    BY DEF Refusals
  <2>3. QED
    BY <2>1, <2>2, RefusalsMove DEF Leave, history
<1>8. ASSUME NEW r \in Runs, ErrorEvent(r) PROVE Refusals'
  <2>1. /\ pc' = [pc EXCEPT ![r] = "done"] /\ turnedDown' = [turnedDown EXCEPT ![r] = TRUE]
        /\ UNCHANGED requests /\ requests[r] = 1
    BY <1>8 DEF ErrorEvent, Leave, Arrives, Refusals
  <2>2. QED
    BY <2>1, RefusalsMove DEF Typed, TypeOK
<1>9. ASSUME NEW r \in Runs, StreamAnswers(r) PROVE Refusals'
  <2>1. PICK p \in {"read", "refused", "broken"} :
          Go(r, p) /\ turnedDown' = [turnedDown EXCEPT ![r] = (p = "refused")]
    BY <1>9 DEF StreamAnswers
  <2>2. requests' = [requests EXCEPT ![r] = @ + 1] /\ requests[r] = 0
    BY <1>9 DEF StreamAnswers, OneMore, Arrives, Typed, Answered
  <2>3. requests'[r] = 1 /\ (turnedDown'[r] => p = "refused")
    <3>1. requests'[r] = requests[r] + 1 /\ requests[r] = 0
      BY <2>2 DEF Typed, TypeOK
    <3>2. turnedDown'[r] <=> p = "refused"
      BY <2>1, Zenon DEF Typed, TypeOK
    <3>3. QED
      BY <3>1, <3>2
  <2>4. \A q \in Runs : q # r => turnedDown'[q] = turnedDown[q] /\ requests'[q] = requests[q]
    BY <2>1, <2>2 DEF Typed, TypeOK
  <2>5. QED
    BY <2>1, <2>3, <2>4, RefusalsMove DEF Go
<1>10. ASSUME NEW r \in Runs, FallBack(r) PROVE Refusals'
  <2>1. pc' = [pc EXCEPT ![r] = "fallback"] /\ UNCHANGED history /\ ~turnedDown[r]
    BY <1>10 DEF FallBack, Go, Refusals
  <2>2. QED
    BY <2>1, RefusalsMove DEF history
<1>11. ASSUME NEW r \in Runs, FallbackAnswers(r) PROVE Refusals'
  <2>1. PICK p \in {"body", "failure"} : pc' = [pc EXCEPT ![r] = p]
    BY <1>11 DEF FallbackAnswers, Go
  <2>2. /\ UNCHANGED turnedDown /\ ~turnedDown[r]
        /\ requests' = [requests EXCEPT ![r] = @ + 1]
    BY <1>11 DEF FallbackAnswers, OneMore, Arrives, Refusals
  <2>3. \A q \in Runs : q # r => requests'[q] = requests[q]
    BY <2>2 DEF Typed, TypeOK
  <2>4. QED
    BY <2>1, <2>2, <2>3, RefusalsMove
<1>12. QED
  BY <1>2, <1>3, <1>4, <1>5, <1>6, <1>7, <1>8, <1>9, <1>10, <1>11
  DEF Next, Visitor, Stream, Json, Timers

\* A step that touches no card and no result.
LEMMA RetriesKept ==
  ASSUME Typed, Retries, UNCHANGED <<drawn, data, certificates>>,
         \A q \in Runs : pc[q] = "done" => pc'[q] = "done"
  PROVE  Retries'
BY DEF Retries, Typed, TypeOK, certificates, Runs, NoRun

LEMMA RetriesRender ==
  ASSUME Typed, Retries, NEW r \in Runs, pc[r] \notin {"new", "done"}, Render(r)
  PROVE  Retries'
<1> USE DEF Typed, TypeOK, Runs, NoRun
<1>1. /\ pc' = [pc EXCEPT ![r] = "done"] /\ \A q \in Runs : pc[q] = "done" => pc'[q] = "done"
      /\ pc'[r] = "done"
  BY DEF Render, Leave
<1>2. data' = r /\ retries[r] = 0 /\ ctTimer # r
  <2>1. \A q \in Runs : retries[q] > 0 => pc[q] = "done"
    BY DEF Retries
  <2>2. retries[r] \in Nat
    OBVIOUS
  <2>3. ctTimer # r
    BY DEF Retries
  <2>4. QED
    BY <2>1, <2>2, <2>3 DEF Render
<1>3. (\A q \in Runs : retries[q] <= 1 /\ (retries[q] > 0 => pc[q] = "done"))'
  <2>1. UNCHANGED retries
    BY DEF Render, ScheduleRetry, certificates
  <2>2. QED
    BY <1>1, <2>1 DEF Retries
<1>4. CASE UNCHANGED <<drawn, certificates>>
  BY <1>1, <1>2, <1>3, <1>4 DEF Retries, certificates
<1>5. ASSUME NEW c \in {"checked", "unchecked"}, ScheduleRetry(r, c), drawn' = r PROVE Retries'
  <2>1. /\ card' = [card EXCEPT ![r] = c] /\ note' = "none" /\ UNCHANGED retries
        /\ ctTimer' # NoRun => ctTimer' = r /\ c = "unchecked"
    BY <1>5 DEF ScheduleRetry
  <2>2. QED
    BY <1>1, <1>2, <1>3, <1>5, <2>1 DEF Retries
<1>6. QED
  BY <1>4, <1>5 DEF Render

\* The timer's retry, or the visitor's.
LEMMA RetriesAsk ==
  ASSUME Typed, Retries, NEW r \in 0..MaxRuns, Retry(r), UNCHANGED <<pc, drawn, data, card>>,
         data = r /\ r # NoRun => card[drawn] = "unchecked" /\ retries[r] = 0,
         r = NoRun => note # "none",
         ctTimer' = NoRun \/ (ctTimer' = ctTimer /\ (ctTimer # NoRun => ctTimer # data))
  PROVE  Retries'
<1> USE DEF Typed, TypeOK, Runs, NoRun
<1>1. CASE data # r
  <2>1. UNCHANGED <<note, retries>>
    BY <1>1 DEF Retry
  <2>2. QED
    BY <2>1 DEF Retries
<1>2. CASE data = r /\ r = NoRun
  <2>1. (\A q \in Runs : retries'[q] = retries[q]) /\ note # "none"
    <3>1. retries' = [retries EXCEPT ![r] = @ + 1] /\ note # "none"
      BY <1>2 DEF Retry
    <3>2. \A q \in Runs : q # r
      BY <1>2
    <3>3. QED
      BY <3>1, <3>2
  <2>2. ctTimer' # NoRun => ctTimer' = ctTimer /\ ctTimer # data /\ ctTimer \in Runs
    OBVIOUS
  <2>3. card[drawn] = "unchecked"
    BY <2>1 DEF Retries
  <2>4. QED
    BY <1>2, <2>1, <2>2, <2>3 DEF Retries
<1>3. CASE data = r /\ r # NoRun
  <2>1. /\ note' = "asking" /\ r \in Runs
        /\ retries'[r] = 1 /\ \A q \in Runs : q # r => retries'[q] = retries[q]
    <3>1. note' = "asking" /\ retries' = [retries EXCEPT ![r] = @ + 1]
      BY <1>3 DEF Retry
    <3>2. r \in Runs /\ retries[r] + 1 = 1
      BY <1>3
    <3>3. QED
      BY <3>1, <3>2
  <2>2. (\A q \in Runs : retries[q] <= 1 /\ (retries[q] > 0 => pc[q] = "done"))'
    BY <1>3, <2>1 DEF Retries
  <2>3. ctTimer' # NoRun => ctTimer' = ctTimer /\ ctTimer # r /\ ctTimer \in Runs
    BY <1>3
  <2>4. QED
    BY <1>3, <2>1, <2>2, <2>3 DEF Retries
<1>4. QED
  BY <1>1, <1>2, <1>3

LEMMA RetriesAnswered ==
  ASSUME Typed, Retries, NEW r \in Runs, RetryAnswers(r)
  PROVE  Retries'
<1> USE DEF Typed, TypeOK, Runs, NoRun
<1>1. /\ retries[r] = 1 /\ retries' = [retries EXCEPT ![r] = 0]
      /\ UNCHANGED <<pc, drawn, data, ctTimer>>
  <2>1. retries[r] = 1
    <3>1. retries[r] \in Nat /\ retries[r] > 0 /\ retries[r] <= 1
      BY DEF RetryAnswers, Retries
    <3>2. QED
      BY <3>1
  <2>2. retries' = [retries EXCEPT ![r] = @ - 1] /\ retries[r] - 1 = 0
    BY <2>1 DEF RetryAnswers
  <2>3. QED
    BY <2>1, <2>2 DEF RetryAnswers, control, page
<1>2. /\ retries'[r] = 0 /\ \A q \in Runs : q # r => retries'[q] = retries[q]
      /\ r # ctTimer
  BY <1>1 DEF Retries
<1>3. (\A q \in Runs : retries[q] <= 1 /\ (retries[q] > 0 => pc[q] = "done"))'
  BY <1>1, <1>2 DEF Retries
<1>4. CASE data # r
  <2>1. UNCHANGED <<card, note>>
    BY <1>4 DEF RetryAnswers
  <2>2. QED
    BY <1>1, <1>2, <1>3, <1>4, <2>1 DEF Retries
<1>5. CASE data = r
  <2>1. note = "asking"
    BY <1>1, <1>5 DEF Retries
  <2>2. \/ card' = [card EXCEPT ![r] = "checked"] /\ note' = "none"
        \/ UNCHANGED card /\ note' = "again"
    BY <1>5 DEF RetryAnswers
  <2>3. ctTimer # NoRun => ctTimer \in Runs /\ card'[ctTimer] = card[ctTimer]
    <3>1. ctTimer # NoRun => ctTimer \in Runs
      OBVIOUS
    <3>2. \A q \in Runs : q # r => card'[q] = card[q]
      BY <2>2
    <3>3. QED
      BY <1>2, <3>1, <3>2
  <2>4. (ctTimer # NoRun =>
           /\ drawn = ctTimer /\ card[ctTimer] = "unchecked" /\ retries[ctTimer] = 0
           /\ pc[ctTimer] = "done" /\ (ctTimer = data => note = "none"))'
    BY <1>1, <1>2, <1>5, <2>3 DEF Retries
  <2>5. (note # "none" => card[drawn] = "unchecked")'
    BY <1>1, <2>1, <2>2 DEF Retries
  <2>6. (data # NoRun => pc[data] = "done" /\ (retries[data] > 0 => note = "asking"))'
    BY <1>1, <1>2, <1>5 DEF Retries
  <2>7. QED
    BY <1>3, <2>4, <2>5, <2>6 DEF Retries
<1>6. QED
  BY <1>4, <1>5

LEMMA RetriesStep == Typed /\ Retries /\ [Next]_vars => Retries'
<1> SUFFICES ASSUME Typed, Retries, [Next]_vars PROVE Retries'
  OBVIOUS
<1>1. ASSUME UNCHANGED <<drawn, data, certificates>>, NEW r \in Runs, pc[r] # "done",
             NEW p, pc' = [pc EXCEPT ![r] = p]
      PROVE  Retries'
  BY <1>1, RetriesKept DEF Typed, TypeOK
<1>2. ASSUME UNCHANGED <<pc, drawn, data, certificates>> PROVE Retries'
  BY <1>2, RetriesKept
<1>3. ASSUME NEW s \in Scopes, RunAudit(s) PROVE Retries'
  <2>1. seq + 1 \in Runs /\ pc[seq + 1] = "new"
    BY <1>3, ClientAssumption DEF RunAudit, Order, Typed, TypeOK, Runs
  <2>2. QED
    BY <1>1, <1>3, <2>1 DEF RunAudit
<1>4. CASE StartAudit
  BY <1>3, <1>4 DEF StartAudit, Typed, TypeOK
<1>5. CASE MovePill \/ UNCHANGED vars
  BY <1>2, <1>5 DEF MovePill, vars, control, page
<1>6. ASSUME NEW s \in Scopes, ClickPill(s) PROVE Retries'
  <2>1. RunAudit(s) \/ UNCHANGED <<pc, drawn, data, certificates>>
    BY <1>6, Zenon DEF ClickPill, control, page
  <2>2. QED
    BY <2>1, <1>2, <1>3
<1>7. CASE ClickTryAgain
  <2>1. /\ Retry(data) /\ note = "again" /\ UNCHANGED <<pc, drawn, data, card, ctTimer>>
    BY <1>7 DEF ClickTryAgain, control, page
  <2>2. data # NoRun => retries[data] = 0 /\ card[drawn] = "unchecked"
    BY <2>1 DEF Retries, Typed, TypeOK, Runs, NoRun
  <2>3. ctTimer # NoRun => ctTimer # data
    BY <2>1 DEF Retries
  <2>4. data \in 0..MaxRuns
    BY DEF Typed, TypeOK
  <2>5. QED
    BY <2>1, <2>2, <2>3, <2>4, RetriesAsk
<1>8. CASE RetryTimer
  <2>1. /\ Retry(ctTimer) /\ ctTimer # NoRun /\ ctTimer' = NoRun
        /\ UNCHANGED <<pc, drawn, data, card>>
    BY <1>8 DEF RetryTimer, control, page
  <2>2. card[drawn] = "unchecked" /\ retries[ctTimer] = 0
    BY <2>1 DEF Retries
  <2>3. ctTimer \in 0..MaxRuns
    BY DEF Typed, TypeOK
  <2>4. QED
    BY <2>1, <2>2, <2>3, RetriesAsk
<1>9. ASSUME NEW r \in Runs, RetryAnswers(r) PROVE Retries'
  BY <1>9, RetriesAnswered
<1>10. ASSUME NEW r \in Runs, WatchdogFires(r) PROVE Retries'
  BY <1>2, <1>10 DEF WatchdogFires, page
<1>11. ASSUME NEW t \in reveals, Reveal(t) PROVE Retries'
  BY <1>2, <1>11 DEF Reveal, control
<1>12. ASSUME NEW r \in Runs,
              Unwind(r) \/ RefusalRead(r) \/ ErrorEvent(r) \/ FallbackFails(r)
       PROVE  Retries'
  <2>1. /\ pc[r] # "done" /\ Leave(r) /\ UNCHANGED certificates
        /\ ShowError(r) \/ UNCHANGED page
    BY <1>12 DEF Unwind, RefusalRead, ErrorEvent, FallbackFails, FailWith, Arrives
  <2>2. QED
    BY <2>1, <1>1 DEF Leave, ShowError, page
<1>13. ASSUME NEW r \in Runs, StreamAnswers(r) \/ FallBack(r) \/ FallbackAnswers(r)
       PROVE  Retries'
  <2>1. pc[r] # "done" /\ (\E p \in Awaits : Go(r, p)) /\ UNCHANGED <<page, certificates>>
    BY <1>13 DEF StreamAnswers, FallBack, FallbackAnswers, Arrives, Awaits
  <2>2. QED
    BY <2>1, <1>1 DEF Go, page
<1>14. ASSUME NEW r \in Runs, DoneEvent(r) \/ FallbackRenders(r) PROVE Retries'
  BY <1>14, RetriesRender DEF DoneEvent, FallbackRenders, Arrives
<1>15. QED
  BY <1>4, <1>5, <1>6, <1>7, <1>8, <1>9, <1>10, <1>11, <1>12, <1>13, <1>14
  DEF Next, Visitor, Stream, Json, Timers

\* However audits, their failures, the timer of a card, the visitor's Try again and late
\* answers follow one another, a refused audit has sent one request, a card is asked for by
\* one retry at a time, and Try again stands only on a card that is still unchecked.
THEOREM TryAgainIsDueHolds == Spec => []TryAgainIsDue
<1>1. Init => Refusals /\ Retries
  <2>1. Init => Refusals
    BY DEF Init, Refusals
  <2>2. Init => Retries
    BY DEF Init, Retries
  <2>3. QED
    BY <2>1, <2>2
<1>2. Refusals /\ Retries => TryAgainIsDue
  BY DEF Refusals, Retries, TryAgainIsDue
<1>3. QED
  BY <1>1, <1>2, RefusalsStep, RetriesStep, TypedHolds, PTL DEF Spec

-----------------------------------------------------------------------------
(* What is shown in the end.                                                 *)

\* The newest audit, while it is at work, shows its progress and has no timer set.
LEMMA AtWork ==
  ASSUME Typed, Owned, seq # 0, pc[seq] # "done"
  PROVE  ~results /\ loading = Progress(seq) /\ [of |-> seq, at |-> seq] \notin reveals
BY DEF Typed, NewestOwnsState, Owned, NewestOwnsPage

\* The newest audit ends with an error.
LEMMA ShownError ==
  ASSUME Typed, Owned, Shown, seq # 0, pc[seq] \notin {"new", "done"}, Leave(seq),
         loading' = Error(seq), UNCHANGED <<results, reveals>>
  PROVE  Shown'
BY AtWork DEF Shown, Leave

LEMMA ShownRender ==
  ASSUME Typed, Owned, Shown, Settled, NEW r \in Runs, pc[r] \notin {"new", "done"}, Render(r)
  PROVE  Shown'
<1>1. r = seq /\ seq # 0
  BY OnlyNewestMoves DEF Runs
<1>2. ~results /\ [of |-> seq, at |-> seq] \notin reveals
  BY <1>1, AtWork
<1>3. UNCHANGED <<seq, aborted, stalled>> /\ data' = seq
  BY <1>1 DEF Render, Leave
<1>4. CASE loading' = Error(seq) /\ UNCHANGED <<results, reveals>>
  BY <1>2, <1>3, <1>4 DEF Shown
<1>5. CASE /\ drawn' = seq /\ reveals' = reveals \cup {[of |-> seq, at |-> seq]}
           /\ UNCHANGED results
  BY <1>2, <1>3, <1>5 DEF Shown
<1>6. QED
  BY <1>1, <1>4, <1>5 DEF Render

LEMMA ShownStart ==
  ASSUME Typed, Shown, NEW s \in Scopes, RunAudit(s)
  PROVE  Shown'
<1> USE ClientAssumption DEF Typed, TypeOK, Runs, NoRun
<1>1. seq + 1 \in Runs /\ pc[seq + 1] = "new" /\ ~aborted[seq + 1] /\ controller # seq + 1
  <2>1. seq + 1 \in Runs /\ controller # seq + 1
    BY DEF RunAudit, NewestOwnsState
  <2>2. pc[seq + 1] = "new"
    BY <2>1 DEF Order
  <2>3. QED
    BY <2>1, <2>2 DEF Order
<1>2. /\ seq' = seq + 1 /\ pc' = [pc EXCEPT ![seq + 1] = "connect"]
      /\ UNCHANGED <<stalled, reveals>>
      /\ aborted' = aborted \/ aborted' = [aborted EXCEPT ![controller] = TRUE]
  BY DEF RunAudit
<1>3. pc'[seq'] = "connect" /\ ~aborted'[seq']
  BY <1>1, <1>2
<1>4. QED
  BY <1>2, <1>3 DEF Shown

LEMMA ShownStep == Typed /\ Owned /\ Shown /\ [Next]_vars => Shown'
<1> SUFFICES ASSUME Typed, Owned, Shown, [Next]_vars PROVE Shown'
  OBVIOUS
<1>1. ASSUME UNCHANGED <<control, page>> PROVE Shown'
  BY <1>1 DEF Shown, control, page
<1>2. CASE StartAudit
  BY <1>2, ShownStart DEF StartAudit, Typed, TypeOK
<1>3. CASE MovePill \/ ClickTryAgain \/ RetryTimer \/ UNCHANGED vars
  BY <1>1, <1>3 DEF MovePill, ClickTryAgain, RetryTimer, vars
<1>4. ASSUME NEW s \in Scopes, ClickPill(s) PROVE Shown'
  <2>1. RunAudit(s) \/ UNCHANGED <<control, page>>
    BY <1>4, Zenon DEF ClickPill
  <2>2. QED
    BY <2>1, <1>1, ShownStart
<1>5. ASSUME NEW r \in Runs, RetryAnswers(r) PROVE Shown'
  BY <1>1, <1>5 DEF RetryAnswers
<1>6. ASSUME NEW t \in reveals, Reveal(t) PROVE Shown'
  <2>1. /\ UNCHANGED <<seq, pc, aborted, stalled, drawn, data>> /\ reveals' = reveals \ {t}
        /\ t \in [of : Runs, at : Runs] /\ t.of = t.at
    BY <1>6 DEF Reveal, control, Shown, Typed, TypeOK
  <2>2. CASE t.at = seq
    <3>1. t = [of |-> seq, at |-> seq] /\ seq # 0 /\ pc[seq] = "done"
      BY <2>1, <2>2 DEF Owned, Runs
    <3>2. drawn = seq /\ data = seq
      BY <3>1 DEF Shown
    <3>3. results' /\ loading' = Hidden
      BY <1>6, <2>2 DEF Reveal
    <3>4. QED
      BY <2>1, <3>2, <3>3 DEF Shown
  <2>3. CASE t.at # seq
    <3>1. UNCHANGED <<loading, results>> /\ t # [of |-> seq, at |-> seq]
      BY <1>6, <2>3 DEF Reveal
    <3>2. QED
      BY <2>1, <3>1 DEF Shown
  <2>4. QED
    BY <2>2, <2>3
<1>7. ASSUME NEW r \in Runs, WatchdogFires(r) PROVE Shown'
  <2>1. /\ stalled' = [stalled EXCEPT ![r] = TRUE] /\ aborted' = [aborted EXCEPT ![r] = TRUE]
        /\ UNCHANGED <<seq, pc, page>>
    BY <1>7 DEF WatchdogFires
  <2>2. seq # 0 /\ aborted'[seq] => stalled'[seq]
    BY <2>1, ClientAssumption DEF Shown, Typed, TypeOK, Runs
  <2>3. QED
    BY <2>1, <2>2 DEF Shown, page
<1>8. ASSUME NEW r \in Runs, Unwind(r) PROVE Shown'
  <2>1. CASE r = seq
    <3>1. seq # 0 /\ stalled[seq]
      BY <1>8, <2>1 DEF Unwind, Shown, Runs
    <3>2. ShowError(seq)
      BY <1>8, <2>1, <3>1 DEF Unwind
    <3>3. QED
      BY <1>8, <2>1, <3>1, <3>2, ShownError DEF Unwind, ShowError
  <2>2. CASE r # seq
    <3>1. UNCHANGED page
      BY <1>8, <2>2 DEF Unwind, Owned
    <3>2. pc' = [pc EXCEPT ![r] = "done"] /\ UNCHANGED <<seq, aborted, stalled>>
      BY <1>8 DEF Unwind, Leave
    <3>3. pc'[seq] = pc[seq]
      BY <2>2, <3>2 DEF Typed, TypeOK
    <3>4. QED
      BY <3>1, <3>2, <3>3 DEF Shown, page
  <2>3. QED
    BY <2>1, <2>2
<1>9. ASSUME NEW r \in Runs, StreamAnswers(r) \/ FallBack(r) \/ FallbackAnswers(r) PROVE Shown'
  <2>1. /\ Settled /\ pc[r] \notin {"new", "done"} /\ \E p \in Awaits : Go(r, p)
        /\ UNCHANGED <<seq, aborted, stalled, page>>
    BY <1>9 DEF StreamAnswers, FallBack, FallbackAnswers, Arrives, Awaits
  <2>2. r = seq
    BY <2>1, OnlyNewestMoves
  <2>3. pc'[seq] # "done"
    BY <2>1, <2>2 DEF Go, Awaits, Typed, TypeOK
  <2>4. QED
    BY <2>1, <2>3 DEF Shown, page
<1>10. ASSUME NEW r \in Runs, DoneEvent(r) \/ FallbackRenders(r) PROVE Shown'
  BY <1>10, ShownRender DEF DoneEvent, FallbackRenders, Arrives
<1>11. ASSUME NEW r \in Runs, RefusalRead(r) \/ ErrorEvent(r) \/ FallbackFails(r) PROVE Shown'
  <2>1. Settled /\ pc[r] \notin {"new", "done"} /\ Leave(r) /\ ShowError(r)
    BY <1>11 DEF RefusalRead, ErrorEvent, FallbackFails, FailWith, Arrives
  <2>2. r = seq /\ seq # 0
    BY <2>1, OnlyNewestMoves DEF Runs
  <2>3. QED
    BY <2>1, <2>2, ShownError DEF ShowError
<1>12. QED
  BY <1>2, <1>3, <1>4, <1>5, <1>6, <1>7, <1>8, <1>9, <1>10, <1>11
  DEF Next, Visitor, Stream, Json, Timers

\* Where no audit is started during the body of an error response, the page shows the
\* newest audit's own result or error once it is over and its timer has fired: it is never
\* left loading, blank, or with the result of an older audit.
THEOREM OutcomeShownHolds == QuietBodies => (Spec => []OutcomeShown)
<1>1. Init => Owned /\ Shown
  <2>1. Init => Owned
    BY ClientAssumption DEF Init, Owned, NewestOwnsPage, Runs, NoRun
  <2>2. Init => Shown
    BY DEF Init, Shown
  <2>3. QED
    BY <2>1, <2>2
<1>2. Shown => OutcomeShown
  BY DEF Shown, OutcomeShown
<1>3. SUFFICES ASSUME QuietBodies PROVE Spec => []OutcomeShown
  OBVIOUS
<1>4. Typed /\ Typed' /\ Owned /\ [Next]_vars => Owned'
  BY <1>3, OwnedStep
<1>5. QED
  BY <1>1, <1>2, <1>4, ShownStep, TypedHolds, PTL DEF Spec

=============================================================================
