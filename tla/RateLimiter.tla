------------------------------ MODULE RateLimiter ------------------------------
(***************************************************************************)
(* The per-address sliding window of server.py, _check_rate_limit, which    *)
(* every audit endpoint asks before anything else. A call is atomic: it     *)
(* runs under _rate_lock. A list of timestamps is the set of the admitted   *)
(* requests it stands for, so that two of one instant still count twice.    *)
(***************************************************************************)
EXTENDS Integers, FiniteSets

CONSTANTS Requests,  \* the requests of a behaviour, each made at most once
          IPs,       \* client addresses
          Max,       \* RATE_LIMIT_MAX
          Window,    \* RATE_LIMIT_WINDOW
          MaxIPs,    \* RATE_LIMIT_MAX_IPS
          MaxTime    \* bound on the clock

ASSUME LimiterAssumption ==
  /\ IsFiniteSet(Requests) /\ IsFiniteSet(IPs)
  /\ Max \in Nat /\ Window \in Nat /\ MaxTime \in Nat
  /\ MaxIPs \in Nat \ {0}

VARIABLES now,        \* time.time()
          known,      \* the addresses that are keys of _rate_limits
          recent,     \* recent[i]: the timestamps under address i
          ip, at,     \* who made request r, and when
          admitted,   \* the requests that were let through
          refused,    \* the requests that got a 429
          forgotten   \* addresses evicted while they still had live timestamps

vars == <<now, known, recent, ip, at, admitted, refused, forgotten>>

TypeOK ==
  /\ now \in 0..MaxTime
  /\ known \subseteq IPs /\ forgotten \subseteq IPs
  /\ admitted \subseteq Requests /\ refused \subseteq Requests
  /\ ip \in [Requests -> IPs] /\ at \in [Requests -> 0..MaxTime]
  /\ recent \in [IPs -> SUBSET admitted]

Init ==
  /\ now = 0
  /\ known = {} /\ forgotten = {}
  /\ admitted = {} /\ refused = {}
  /\ ip \in [Requests -> IPs] /\ at = [r \in Requests |-> 0]
  /\ recent = [i \in IPs |-> {}]

-----------------------------------------------------------------------------

\* Mutant: a timestamp is kept at the edge of the window.
LiveAtTheEdge(i) == {r \in recent[i] : now - at[r] <= Window}
\* The timestamps under i that are still inside the window.
Live(i) == {r \in recent[i] : now - at[r] < Window}
Stale(i) == \A r \in recent[i] : now - at[r] > Window
SeenNoLaterThan(i, j) == \E q \in recent[j] : \A r \in recent[i] : at[r] <= at[q]

\* Mutant: only the stale addresses are ever evicted.
StaleOnly == IF Cardinality(known) <= MaxIPs THEN {{}} ELSE {{i \in known : Stale(i)}}

\* What a call evicts first from a table that has grown too large: the stale
\* addresses, and if that is not enough the half seen longest ago.
Evictions ==
  LET stale == {i \in known : Stale(i)}
      left  == known \ stale
      Half(h) == /\ Cardinality(h) = Cardinality(left) \div 2
                 /\ \A i \in h, j \in left \ h : SeenNoLaterThan(i, j)
  IN  IF Cardinality(known) <= MaxIPs     THEN {{}}
      ELSE IF Cardinality(left) <= MaxIPs THEN {stale}
      ELSE {stale \cup h : h \in {h \in SUBSET left : Half(h)}}

\* Mutant: off by one at the cap.
AllowsOneMore(live) == Cardinality(live) <= Max
\* An address with nothing in the window is let through whatever the cap is.
Allows(live) == live = {} \/ Cardinality(live) < Max

Check(r) ==
  /\ r \notin admitted \cup refused
  /\ at' = [at EXCEPT ![r] = now]
  /\ \E gone \in Evictions :
       LET live == IF ip[r] \in gone THEN {} ELSE Live(ip[r])
           kept == IF Allows(live) THEN live \cup {r} ELSE live
       IN  /\ known' = (known \ gone) \cup {ip[r]}
           /\ forgotten' = forgotten \cup {i \in gone : Live(i) # {}}
           /\ recent' = [i \in IPs |-> IF i = ip[r] THEN kept
                                       ELSE IF i \in gone THEN {} ELSE recent[i]]
           /\ IF Allows(live) THEN admitted' = admitted \cup {r} /\ UNCHANGED refused
                              ELSE refused' = refused \cup {r} /\ UNCHANGED admitted
  /\ UNCHANGED <<now, ip>>

Tick == /\ now < MaxTime
        /\ now' = now + 1
        /\ UNCHANGED <<known, recent, ip, at, admitted, refused, forgotten>>

Next == Tick \/ \E r \in Requests : Check(r)

Spec == Init /\ [][Next]_vars

-----------------------------------------------------------------------------
(* Properties                                                                *)

\* What was let through for address i in the window that ends at t.
AdmittedIn(i, t) == {r \in admitted : ip[r] = i /\ at[r] <= t /\ t - at[r] < Window}
Budget == IF Max = 0 THEN 1 ELSE Max

\* "Requests per IP per window": however the calls fall against window edges and
\* prunings, no window of any position holds more than RATE_LIMIT_MAX admitted
\* requests of an address the table has never had to forget.
WindowBound ==
  \A i \in IPs \ forgotten, t \in 0..now : Cardinality(AdmittedIn(i, t)) <= Budget

\* Nobody is refused who has not used up the budget within the window that ends
\* now: refused attempts do not count, nor does anything older than the window.
RefusedOnlyWhenSpent ==
  [][\A r \in refused' \ refused : Cardinality(AdmittedIn(ip[r], now)) >= Budget]_vars

\* The table never holds more than one address above its cap.
TableBounded == Cardinality(known) <= MaxIPs + 1

=============================================================================
