-------------------------------- MODULE CtCache --------------------------------
(***************************************************************************)
(* The certificate transparency lookup of audit_engine.py: _raw_check_ct,   *)
(* which every audit runs, and retry_ct_card, which the page asks for when  *)
(* an audit's card came back Not checked. They share a cache of results     *)
(* that keeps expired entries to fall back on, and a shorter memory of the  *)
(* domains for which the log services timed out.                            *)
(*                                                                         *)
(* Each access to the two tables takes _ct_cache_lock by itself, and calls  *)
(* on different threads interleave between two accesses.                    *)
(***************************************************************************)
EXTENDS Integers, FiniteSets

CONSTANTS Calls,       \* the calls of a behaviour, each made at most once
          Domains,
          FreshFor,    \* CT_CACHE_TTL
          SilentFor,   \* CT_TIMEOUT_CACHE_TTL
          MaxEntries,  \* CT_CACHE_MAX_SIZE
          EvictCount,  \* how many of the oldest entries a full table drops
          NoCall,      \* no call: an empty entry
          MaxTime      \* bound on the clock

ASSUME CtAssumption ==
  /\ IsFiniteSet(Calls) /\ IsFiniteSet(Domains) /\ NoCall \notin Calls
  /\ FreshFor \in Nat \ {0} /\ {SilentFor, MaxTime} \subseteq Nat
  /\ MaxEntries \in Nat /\ EvictCount \in Nat \ {0}

VARIABLES
  now,       \* time.time()
  pc,        \* pc[c]: the next step of call c
  kind,      \* kind[c]: "audit" or "retry"
  domain,    \* domain[c]
  outcome,   \* outcome[c]: what the log services told c, if it asked
  cache,     \* _ct_cache: the call whose result is stored for a domain, and when it was
  silent,    \* _ct_timeout_cache: the call whose timeout is remembered, and since when
  served,    \* served[c]: whose result c returned
  at,        \* at[c]: when c began, or later when it had its timeout remembered
  age,       \* age[c]: how old the stored result was that c returned
  covered    \* covered[c]: a real result has been stored for its domain ever since c began

call == <<kind, domain>>
vars == <<now, pc, call, outcome, cache, silent, served, at, age, covered>>

Empty == [by |-> NoCall, at |-> 0]
Entries == [by : Calls \cup {NoCall}, at : 0..MaxTime]
Failures == {"timeout", "request_error"}
Outcomes == {"real", "response_too_large"} \cup Failures

Stored(table) == {d \in Domains : table[d].by # NoCall}

TypeOK ==
  /\ now \in 0..MaxTime
  /\ pc \in [Calls -> {"new", "memory", "ask", "remember", "stale", "store", "forget", "done"}]
  /\ kind \in [Calls -> {"audit", "retry"}] /\ domain \in [Calls -> Domains]
  /\ outcome \in [Calls -> Outcomes \cup {"unasked"}]
  /\ cache \in [Domains -> Entries] /\ silent \in [Domains -> Entries]
  /\ served \in [Calls -> Calls \cup {NoCall}]
  /\ at \in [Calls -> 0..MaxTime] /\ age \in [Calls -> 0..MaxTime]
  /\ covered \in [Calls -> BOOLEAN]
  /\ \A table \in {cache, silent} : Cardinality(Stored(table)) <= MaxEntries

Init ==
  /\ now = 0
  /\ pc = [c \in Calls |-> "new"]
  /\ kind \in [Calls -> {"audit", "retry"}] /\ domain \in [Calls -> Domains]
  /\ outcome = [c \in Calls |-> "unasked"]
  /\ cache = [d \in Domains |-> Empty] /\ silent = [d \in Domains |-> Empty]
  /\ served = [c \in Calls |-> NoCall]
  /\ at = [c \in Calls |-> 0] /\ age = [c \in Calls |-> 0]
  /\ covered = [c \in Calls |-> FALSE]

-----------------------------------------------------------------------------

Go(c, p) == pc' = [pc EXCEPT ![c] = p]
Here(table, c) == table[domain[c]]
Serve(c, by, howOld) == /\ served' = [served EXCEPT ![c] = by]
                        /\ age' = [age EXCEPT ![c] = howOld]
                        /\ Go(c, "done")

\* Mutant: the cap is tested before the new entry is in.
CappedEarly(table, d, c) ==
  LET old  == Stored(table)
      new  == [table EXCEPT ![d] = [by |-> c, at |-> now]]
  IN  IF Cardinality(old) <= MaxEntries THEN {new}
      ELSE {[e \in Domains |-> IF e \in gone THEN Empty ELSE new[e]] :
              gone \in {g \in SUBSET old : Cardinality(g) = EvictCount}}

\* What table may be once c's entry for domain d is in it: over the cap, the oldest
\* EvictCount entries leave, whichever come first among those of one instant.
Capped(table, d, c) ==
  LET new    == [table EXCEPT ![d] = [by |-> c, at |-> now]]
      full   == Stored(new)
      Oldest(g) == /\ Cardinality(g) = IF EvictCount <= Cardinality(full) THEN EvictCount ELSE Cardinality(full)
                   /\ \A e \in g, f \in full \ g : new[e].at <= new[f].at
  IN  IF Cardinality(full) <= MaxEntries THEN {new}
      ELSE {[e \in Domains |-> IF e \in gone THEN Empty ELSE new[e]] :
              gone \in {g \in SUBSET full : Oldest(g)}}

\* The expired entries of a full timeout memory go first.
Pruned(table) == IF Cardinality(Stored(table)) <= MaxEntries THEN table
                 ELSE [d \in Domains |-> IF now - table[d].at >= SilentFor THEN Empty ELSE table[d]]

IsReal(entry) == entry.by # NoCall /\ outcome[entry.by] = "real"

-----------------------------------------------------------------------------

\* Mutant: an entry is an answer however old it is.
LookupAny(c) ==
  /\ pc[c] = "new"
  /\ at' = [at EXCEPT ![c] = now]
  /\ covered' = [covered EXCEPT ![c] = IsReal(Here(cache, c))]
  /\ IF Here(cache, c).by # NoCall
     THEN Serve(c, Here(cache, c).by, now - Here(cache, c).at)
     ELSE Go(c, IF kind[c] = "audit" THEN "memory" ELSE "ask") /\ UNCHANGED <<served, age>>
  /\ UNCHANGED <<now, call, outcome, cache, silent>>

\* _get_cached_ct: a fresh entry is the answer, whatever it says.
Lookup(c) ==
  /\ pc[c] = "new"
  /\ at' = [at EXCEPT ![c] = now]
  /\ covered' = [covered EXCEPT ![c] = IsReal(Here(cache, c))]
  /\ IF Here(cache, c).by # NoCall /\ now - Here(cache, c).at < FreshFor
     THEN Serve(c, Here(cache, c).by, now - Here(cache, c).at)
     ELSE Go(c, IF kind[c] = "audit" THEN "memory" ELSE "ask") /\ UNCHANGED <<served, age>>
  /\ UNCHANGED <<now, call, outcome, cache, silent>>

\* Mutant: the remembered timeout is the answer, and no past result is looked for.
RecallAtOnce(c) ==
  /\ pc[c] = "memory"
  /\ IF Here(silent, c).by # NoCall /\ now - Here(silent, c).at < SilentFor
     THEN Serve(c, Here(silent, c).by, 0)
     ELSE Go(c, "ask") /\ UNCHANGED <<served, age>>
  /\ UNCHANGED <<now, call, outcome, cache, silent, at, covered>>

\* _get_cached_ct_timeout: the services are not asked again so soon.
Recall(c) ==
  /\ pc[c] = "memory"
  /\ IF Here(silent, c).by # NoCall /\ now - Here(silent, c).at < SilentFor
     THEN served' = [served EXCEPT ![c] = Here(silent, c).by] /\ Go(c, "stale")
     ELSE UNCHANGED served /\ Go(c, "ask")
  /\ UNCHANGED <<now, call, outcome, cache, silent, at, age, covered>>

\* Mutant: only a timeout counts as a failure.
AskedErrorsStored(c) ==
  /\ pc[c] = "ask"
  /\ \E o \in Outcomes :
       /\ outcome' = [outcome EXCEPT ![c] = o]
       /\ Go(c, IF kind[c] = "retry"      THEN IF o = "real" THEN "store" ELSE "done"
                ELSE IF o = "timeout"     THEN "remember"
                ELSE "store")
  /\ served' = [served EXCEPT ![c] = c]
  /\ UNCHANGED <<now, call, cache, silent, at, age, covered>>

\* _raw_check_ct_uncached answers. A retry stores nothing but a usable result.
Asked(c) ==
  /\ pc[c] = "ask"
  /\ \E o \in Outcomes :
       /\ outcome' = [outcome EXCEPT ![c] = o]
       /\ Go(c, IF kind[c] = "retry"          THEN IF o = "real" THEN "store" ELSE "done"
                ELSE IF o = "timeout"         THEN "remember"
                ELSE IF o = "request_error"   THEN "stale"
                ELSE "store")
  /\ served' = [served EXCEPT ![c] = c]
  /\ UNCHANGED <<now, call, cache, silent, at, age, covered>>

\* _set_cached_ct_timeout.
Remember(c) ==
  /\ pc[c] = "remember"
  /\ LET new == Pruned([silent EXCEPT ![domain[c]] = [by |-> c, at |-> now]])
     IN  silent' \in IF Cardinality(Stored(new)) <= MaxEntries THEN {new}
                     ELSE Capped(new, domain[c], c)
  /\ at' = [at EXCEPT ![c] = now]
  /\ Go(c, "stale")
  /\ UNCHANGED <<now, call, outcome, cache, served, age, covered>>

\* _get_stale_ct: after a failure any stored result will do, however old.
FallBack(c) ==
  /\ pc[c] = "stale"
  /\ IF Here(cache, c).by # NoCall
     THEN Serve(c, Here(cache, c).by, now - Here(cache, c).at)
     ELSE Go(c, "done") /\ UNCHANGED <<served, age>>
  /\ UNCHANGED <<now, call, outcome, cache, silent, at, covered>>

\* _set_cached_ct.
Store(c) ==
  /\ pc[c] = "store"
  /\ cache' \in Capped(cache, domain[c], c)
  /\ covered' = [x \in Calls |-> covered[x] /\ IsReal(cache'[domain[x]])]
  /\ Go(c, IF kind[c] = "retry" THEN "forget" ELSE "done")
  /\ UNCHANGED <<now, call, outcome, silent, served, at, age>>

\* A retry that got its answer clears the memory of the timeout.
Forget(c) ==
  /\ pc[c] = "forget"
  /\ silent' = [silent EXCEPT ![domain[c]] = Empty]
  /\ Go(c, "done")
  /\ UNCHANGED <<now, call, outcome, cache, served, at, age, covered>>

Tick == /\ now < MaxTime
        /\ now' = now + 1
        /\ UNCHANGED <<pc, call, outcome, cache, silent, served, at, age, covered>>

Call(c) == \/ Lookup(c) \/ Recall(c) \/ Asked(c) \/ Remember(c)
           \/ FallBack(c) \/ Store(c) \/ Forget(c)
Next == Tick \/ \E c \in Calls : Call(c)

Spec == Init /\ [][Next]_vars

-----------------------------------------------------------------------------
(* Properties                                                                *)

\* What is stored for a domain was answered for that domain, and a failure to reach
\* the services is never stored as a result; only timeouts are remembered as such.
OnlyAnswersStored ==
  \A d \in Domains :
    /\ cache[d].by # NoCall => domain[cache[d].by] = d /\ outcome[cache[d].by] \notin Failures
    /\ silent[d].by # NoCall => domain[silent[d].by] = d /\ outcome[silent[d].by] = "timeout"

\* "A real past result still wins over it": an audit never says Not checked if a real
\* result of the domain was there to be shown for as long as it ran.
RealResultWins ==
  \A c \in Calls : pc[c] = "done" /\ kind[c] = "audit" /\ covered[c] => outcome[served[c]] = "real"

\* A result that is no longer fresh is shown only when the services have just failed:
\* to a call that asked and failed, or to one that began less than the memory of a
\* timeout after it.
OldOnlyAfterFailure ==
  \A c \in Calls : pc[c] = "done" /\ age[c] >= FreshFor =>
    \/ outcome[c] \in Failures
    \/ \E f \in Calls : domain[f] = domain[c] /\ outcome[f] = "timeout" /\ at[c] - at[f] < SilentFor

=============================================================================
