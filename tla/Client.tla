--------------------------------- MODULE Client ---------------------------------
(***************************************************************************)
(* The page's audit runner, runAudit of static/app.js, with what its runs   *)
(* share: the abort controller, the loading card, the results, the pills    *)
(* that pick a scope, and the retry of the certificate card. A run reads    *)
(* the audit's event stream and, if the stream itself fails, asks the JSON  *)
(* endpoint. A new run may start while an older one waits.                  *)
(*                                                                         *)
(* A run is undisturbed from one await to the next. An abort rejects what   *)
(* the aborted run waits for, and the run unwinds before the page takes     *)
(* another event (Settled). The answers of the server are any that          *)
(* AuditServer gives, and the network may fail or fall silent at any point. *)
(***************************************************************************)
EXTENDS Naturals

CONSTANTS MaxRuns,     \* bound on the audits the visitor starts
          Scopes,      \* the pills
          DefaultScope,
          AbortPoints  \* the awaits of a run at which another may be started

Runs == 1..MaxRuns
NoRun == 0
Awaits == {"connect", "refused", "broken", "read", "fallback", "body", "failure"}
ASSUME ClientAssumption == MaxRuns \in Nat /\ DefaultScope \in Scopes /\ AbortPoints \subseteq Awaits

VARIABLES
  seq,         \* auditSeq: the runs started so far, the last of which is the newest
  pc,          \* pc[r]: the await at which run r is suspended
  controller,  \* auditController: the run it belongs to
  inFlight,    \* auditInFlight
  aborted,     \* aborted[r]: the signal of r
  stalled,     \* stalled[r]: its watchdog fired
  timer,       \* timer[r]: its watchdog is set
  loading,     \* the loading card: hidden, or the progress or the error of a run
  results,     \* the results are visible
  drawn,       \* the run whose results are drawn, visible or not
  data,        \* lastAuditData, by its run
  reveals,     \* the timers that will show results: of which run, set at which auditSeq
  scope,       \* currentScope
  asked,       \* asked[r]: the scope of r's latest request, which its result is for
  touched,     \* a pill was picked since the pills were last set by a result
  requests,    \* requests[r]: how many requests of r the server answered with a refusal, or audited
  turnedDown,  \* turnedDown[r]: the server refused r
  card,        \* card[r]: r's certificate card, "checked" or "unchecked"
  ctTimer,     \* _ctRetryTimer: the run whose card it will ask for
  retries,     \* retries[r]: the retries of r's card that wait for their answer
  note         \* the note on the drawn certificate card

control == <<seq, pc, controller, inFlight, aborted, stalled, timer>>
page == <<loading, results, drawn, data, reveals>>
pills == <<scope, asked, touched>>
history == <<requests, turnedDown>>
certificates == <<card, ctTimer, retries, note>>
vars == <<control, page, pills, history, certificates>>

Progress(r) == [what |-> "progress", of |-> r]
Error(r) == [what |-> "error", of |-> r]
Hidden == [what |-> "hidden", of |-> NoRun]

TypeOK ==
  /\ seq \in 0..MaxRuns /\ controller \in 0..MaxRuns /\ inFlight \in BOOLEAN
  /\ pc \in [Runs -> Awaits \cup {"new", "done"}]
  /\ aborted \in [Runs -> BOOLEAN] /\ stalled \in [Runs -> BOOLEAN] /\ timer \in [Runs -> BOOLEAN]
  /\ loading \in {Hidden} \cup {Progress(r) : r \in Runs} \cup {Error(r) : r \in Runs}
  /\ results \in BOOLEAN /\ drawn \in 0..MaxRuns /\ data \in 0..MaxRuns
  /\ reveals \subseteq [of : Runs, at : Runs]
  /\ scope \in Scopes /\ asked \in [Runs -> Scopes] /\ touched \in BOOLEAN
  /\ requests \in [Runs -> 0..2] /\ turnedDown \in [Runs -> BOOLEAN]
  /\ card \in [Runs -> {"checked", "unchecked"}] /\ ctTimer \in 0..MaxRuns
  /\ retries \in [Runs -> Nat] /\ note \in {"none", "asking", "again"}

Init ==
  /\ seq = 0 /\ controller = NoRun /\ inFlight = FALSE
  /\ pc = [r \in Runs |-> "new"]
  /\ aborted = [r \in Runs |-> FALSE] /\ stalled = [r \in Runs |-> FALSE]
  /\ timer = [r \in Runs |-> FALSE]
  /\ loading = Hidden /\ results = FALSE /\ drawn = NoRun /\ data = NoRun /\ reveals = {}
  /\ scope = DefaultScope /\ asked = [r \in Runs |-> scope] /\ touched = FALSE
  /\ requests = [r \in Runs |-> 0] /\ turnedDown = [r \in Runs |-> FALSE]
  /\ card = [r \in Runs |-> "checked"] /\ ctTimer = NoRun
  /\ retries = [r \in Runs |-> 0] /\ note = "none"

-----------------------------------------------------------------------------
(* A run starts.                                                             *)

\* Whoever was aborted has unwound.
Settled == \A r \in Runs : aborted[r] => pc[r] = "done"

\* runAudit up to its first await, for scope s.
RunAudit(s) ==
  /\ Settled /\ seq < MaxRuns
  /\ controller # NoRun => pc[controller] \in AbortPoints
  /\ LET r == seq + 1 IN
       /\ seq' = r
       /\ aborted' = IF controller = NoRun THEN aborted ELSE [aborted EXCEPT ![controller] = TRUE]
       /\ controller' = r /\ inFlight' = TRUE
       /\ pc' = [pc EXCEPT ![r] = "connect"]
       /\ timer' = [timer EXCEPT ![r] = TRUE]
       /\ loading' = Progress(r) /\ results' = FALSE
       /\ asked' = [asked EXCEPT ![r] = s]
  /\ UNCHANGED <<stalled, drawn, data, reveals, history, certificates>>

\* A recent domain, a subdomain's Audit button, Try Again, or the form, which does
\* nothing while an audit is in flight.
StartAudit == RunAudit(scope) /\ UNCHANGED <<scope, touched>>

\* An arrow key moves the lit pill and runs nothing.
MovePill == /\ Settled
            /\ scope' \in Scopes \ {scope} /\ touched' = TRUE
            /\ UNCHANGED <<control, page, asked, history, certificates>>

\* A pill other than the one the last result was for runs it, unless an audit runs. A
\* result that is an error names no scope.
ClickPill(s) ==
  LET last == IF data = NoRun \/ drawn # data THEN scope ELSE asked[data]
  IN  /\ scope' = s /\ touched' = TRUE
      /\ IF data # NoRun /\ last # s /\ ~inFlight
         THEN RunAudit(s)
         ELSE Settled /\ UNCHANGED <<control, page, asked, history, certificates>>

-----------------------------------------------------------------------------
(* How a run ends.                                                           *)

\* Mutant: a run that unwinds retires whatever run is in flight.
RetireAny(r) == controller' = NoRun /\ inFlight' = FALSE
\* The finally block: only the state that run r owns.
Retire(r) == IF controller = r THEN controller' = NoRun /\ inFlight' = FALSE
                               ELSE UNCHANGED <<controller, inFlight>>

Leave(r) == /\ pc' = [pc EXCEPT ![r] = "done"]
            /\ timer' = [timer EXCEPT ![r] = FALSE]
            /\ Retire(r)
            /\ UNCHANGED <<seq, aborted, stalled>>

ShowError(r) == loading' = Error(r) /\ UNCHANGED <<results, drawn, data, reveals>>
FailWith(r) == /\ Leave(r) /\ ShowError(r)
               /\ UNCHANGED <<pills, history, certificates>>

\* Mutant: the pills are left as the visitor has moved them.
LitPillStays(s) == scope' = scope /\ touched' = FALSE
\* setActiveScope of the result's scope.
LightPill(s) == scope' = s /\ touched' = FALSE

\* scheduleCtRetry.
ScheduleRetry(r, c) ==
  /\ card' = [card EXCEPT ![r] = c] /\ note' = "none"
  /\ ctTimer' = IF c = "unchecked" THEN r ELSE NoRun
  /\ UNCHANGED retries

\* renderResults, and the end of the run. A result that is an error shows as one.
Render(r) ==
  /\ Leave(r)
  /\ data' = r
  /\ \/ /\ loading' = Error(r)
        /\ UNCHANGED <<results, drawn, reveals, pills, certificates>>
     \/ /\ drawn' = r
        /\ reveals' = reveals \cup {[of |-> r, at |-> seq]}
        /\ LightPill(asked[r])
        /\ \E c \in {"checked", "unchecked"} : ScheduleRetry(r, c)
        /\ UNCHANGED <<loading, results, asked>>

-----------------------------------------------------------------------------
(* The stream.                                                               *)

Arrives(r, await) == Settled /\ pc[r] = await
Go(r, p) == pc' = [pc EXCEPT ![r] = p]
OneMore(r) == requests' = [requests EXCEPT ![r] = @ + 1]

\* The stream opens, or an HTTP error does whose body is still to come: a 4xx or 503,
\* which the JSON endpoint would repeat, or another.
StreamAnswers(r) ==
  /\ Arrives(r, "connect")
  /\ \E p \in {"read", "refused", "broken"} :
       Go(r, p) /\ turnedDown' = [turnedDown EXCEPT ![r] = (p = "refused")]
  /\ OneMore(r)
  /\ UNCHANGED <<seq, controller, inFlight, aborted, stalled, timer, page, pills, certificates>>

RefusalRead(r) == Arrives(r, "refused") /\ FailWith(r)

\* A bare error event: capacity, or the rate limit.
ErrorEvent(r) ==
  /\ Arrives(r, "read")
  /\ Leave(r) /\ ShowError(r)
  /\ turnedDown' = [turnedDown EXCEPT ![r] = TRUE]
  /\ UNCHANGED <<requests, pills, certificates>>

DoneEvent(r) == Arrives(r, "read") /\ Render(r) /\ UNCHANGED history

\* The stream cannot be reached, fails, or ends without a result. The watchdog stops, and
\* the pill that is lit by now is asked for.
FallBack(r) ==
  /\ Settled /\ pc[r] \in {"connect", "broken", "read"}
  /\ Go(r, "fallback") /\ timer' = [timer EXCEPT ![r] = FALSE]
  /\ asked' = [asked EXCEPT ![r] = scope]
  /\ UNCHANGED <<seq, controller, inFlight, aborted, stalled, page, scope, touched, history, certificates>>

-----------------------------------------------------------------------------
(* The JSON endpoint.                                                        *)

\* Mutant: a failure of the endpoint is tried again.
FallbackTriesAgain(r) ==
  /\ Arrives(r, "fallback")
  /\ \E p \in {"body", "fallback"} : Go(r, p)
  /\ OneMore(r)
  /\ UNCHANGED <<seq, controller, inFlight, aborted, stalled, timer, page, pills, turnedDown, certificates>>
FallbackAnswers(r) ==
  /\ Arrives(r, "fallback")
  /\ \E p \in {"body", "failure"} : Go(r, p)
  /\ OneMore(r)
  /\ UNCHANGED <<seq, controller, inFlight, aborted, stalled, timer, page, pills, turnedDown, certificates>>

FallbackRenders(r) == Arrives(r, "body") /\ Render(r) /\ UNCHANGED history

\* It refuses, or the network fails.
FallbackFails(r) ==
  /\ Settled /\ pc[r] \in {"fallback", "body", "failure"}
  /\ FailWith(r)

-----------------------------------------------------------------------------
(* The watchdog, and what an abort does.                                     *)

\* Mutant: the flag is set, and a read that hangs never looks at it.
WatchdogOnlyNotes(r) ==
  /\ Settled /\ timer[r]
  /\ timer' = [timer EXCEPT ![r] = FALSE]
  /\ stalled' = [stalled EXCEPT ![r] = TRUE]
  /\ UNCHANGED <<seq, pc, controller, inFlight, aborted, page, pills, history, certificates>>
\* Nothing has come from the stream for STREAM_IDLE_TIMEOUT_MS.
WatchdogFires(r) ==
  /\ Settled /\ timer[r]
  /\ timer' = [timer EXCEPT ![r] = FALSE]
  /\ stalled' = [stalled EXCEPT ![r] = TRUE]
  /\ aborted' = [aborted EXCEPT ![r] = TRUE]
  /\ UNCHANGED <<seq, pc, controller, inFlight, page, pills, history, certificates>>

\* Mutant: an AbortError is an AbortError.
UnwindQuietly(r) ==
  /\ aborted[r] /\ pc[r] \notin {"new", "done"}
  /\ Leave(r)
  /\ IF pc[r] \in {"refused", "failure"} THEN ShowError(r) ELSE UNCHANGED page
  /\ UNCHANGED <<pills, history, certificates>>
\* The watchdog's abort is an error. Another one ends the run without a word, unless it
\* cuts short the body of an error response, which then reads as an empty one.
Unwind(r) ==
  /\ aborted[r] /\ pc[r] \notin {"new", "done"}
  /\ Leave(r)
  /\ IF stalled[r] \/ pc[r] \in {"refused", "failure"}
     THEN ShowError(r) ELSE UNCHANGED page
  /\ UNCHANGED <<pills, history, certificates>>

-----------------------------------------------------------------------------
(* The timer of a result, and the retry of its certificate card.             *)

\* Mutant: the timer does not ask who has started since.
RevealAlways(t) ==
  /\ Settled /\ t \in reveals
  /\ reveals' = reveals \ {t}
  /\ loading' = Hidden /\ results' = TRUE
  /\ UNCHANGED <<control, drawn, data, pills, history, certificates>>
Reveal(t) ==
  /\ Settled /\ t \in reveals
  /\ reveals' = reveals \ {t}
  /\ IF t.at = seq THEN loading' = Hidden /\ results' = TRUE
                   ELSE UNCHANGED <<loading, results>>
  /\ UNCHANGED <<control, drawn, data, pills, history, certificates>>

\* retryCt up to its await, for the result of run r.
Retry(r) == IF data = r THEN note' = "asking" /\ retries' = [retries EXCEPT ![r] = @ + 1]
                        ELSE UNCHANGED <<note, retries>>

RetryTimer ==
  /\ Settled /\ ctTimer # NoRun
  /\ Retry(ctTimer)
  /\ ctTimer' = NoRun
  /\ UNCHANGED <<control, page, pills, history, card>>

ClickTryAgain ==
  /\ Settled /\ results /\ note = "again"
  /\ Retry(data)
  /\ UNCHANGED <<control, page, pills, history, card, ctTimer>>

\* Mutant: the answer is taken for the audit on the page without looking again.
RetryAnswersAnyone(r) ==
  /\ Settled /\ retries[r] > 0
  /\ retries' = [retries EXCEPT ![r] = @ - 1]
  /\ \/ card' = [card EXCEPT ![r] = "checked"] /\ note' = "none"
     \/ note' = "again" /\ UNCHANGED card
  /\ UNCHANGED <<control, page, pills, history, ctTimer>>
\* The card is swapped, or offers Try again, if its audit is still the last one.
RetryAnswers(r) ==
  /\ Settled /\ retries[r] > 0
  /\ retries' = [retries EXCEPT ![r] = @ - 1]
  /\ IF data = r THEN \/ card' = [card EXCEPT ![r] = "checked"] /\ note' = "none"
                      \/ note' = "again" /\ UNCHANGED card
                 ELSE UNCHANGED <<card, note>>
  /\ UNCHANGED <<control, page, pills, history, ctTimer>>

-----------------------------------------------------------------------------

Visitor == StartAudit \/ MovePill \/ (\E s \in Scopes : ClickPill(s)) \/ ClickTryAgain
Stream(r) == StreamAnswers(r) \/ RefusalRead(r) \/ ErrorEvent(r) \/ DoneEvent(r) \/ FallBack(r)
Json(r) == FallbackAnswers(r) \/ FallbackRenders(r) \/ FallbackFails(r)
Timers == (\E r \in Runs : WatchdogFires(r)) \/ (\E t \in reveals : Reveal(t)) \/ RetryTimer

Next == \/ Visitor \/ Timers
        \/ \E r \in Runs : Stream(r) \/ Json(r) \/ Unwind(r) \/ RetryAnswers(r)

Spec == Init /\ [][Next]_vars

\* Timers fire, an abort unwinds, and a JSON request, which no watchdog guards, is
\* answered or fails. The stream may be silent for good.
FairSpec ==
  /\ Spec
  /\ WF_vars(\E t \in reveals : Reveal(t))
  /\ \A r \in Runs : WF_vars(WatchdogFires(r)) /\ WF_vars(Unwind(r)) /\ WF_vars(Json(r))

-----------------------------------------------------------------------------
(* Properties.                                                               *)

\* "that newer call has already claimed auditController": the controller and the flag
\* that blocks the form belong to the newest run for as long as it is at work, and to
\* nobody afterwards, however older runs unwind.
NewestOwnsState ==
  /\ inFlight <=> controller # NoRun
  /\ controller # NoRun <=> seq # 0 /\ pc[seq] # "done"
  /\ controller # NoRun => controller = seq

\* An audit that has started "owns the page": until it ends, the page shows its
\* progress, and no result or error of an older one.
NewestOwnsPage == controller # NoRun => loading = Progress(controller) /\ ~results

\* Once the newest audit is over and its result's timer has fired, the page shows its
\* result or its error: it is never left loading or with an older result.
OutcomeShown ==
  seq # 0 /\ pc[seq] = "done" /\ (\A t \in reveals : t.of # seq) =>
    \/ results /\ loading = Hidden /\ drawn = seq /\ data = seq
    \/ ~results /\ loading = Error(seq)

\* "The pills show the question these results answer", unless the visitor has moved them
\* since, whichever were picked while the audit ran.
PillsTellQuestion == results /\ ~touched => scope = asked[drawn]

\* Nothing is asked twice that need not be: an audit refused for capacity or by the rate
\* limit sends no second request (only a stream that failed does), a card is asked for by
\* one retry at a time, and Try again is offered only on a card that is still unchecked,
\* whenever the answers to retries of older audits come.
TryAgainIsDue ==
  /\ \A r \in Runs : (turnedDown[r] => requests[r] = 1) /\ retries[r] <= 1
  /\ note # "none" => card[drawn] = "unchecked"

\* No audit leaves the page loading for good, even if its stream falls silent.
LoadingEnds == [](loading.what = "progress" => <>(loading.what # "progress"))

=============================================================================
