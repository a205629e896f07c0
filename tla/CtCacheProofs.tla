----------------------------- MODULE CtCacheProofs -----------------------------
(***************************************************************************)
(* The two tables of CtCache, for any number of calls and domains, and      *)
(* every lifetime, cap and eviction.                                        *)
(***************************************************************************)
EXTENDS CtCache, FiniteSetTheorems, TLAPS

\* Nothing is stored, begun or remembered in the future.
Times ==
  /\ \A d \in Domains : cache[d].at <= now /\ silent[d].at <= now
  /\ \A c \in Calls : at[c] <= now

\* What each step says of the answer a call has had, which changes only once.
Progressed ==
  \A c \in Calls :
    /\ pc[c] \in {"new", "memory", "ask"} => outcome[c] = "unasked"
    /\ pc[c] = "remember" => outcome[c] = "timeout"
    /\ pc[c] = "store" => /\ outcome[c] \in {"real", "response_too_large"} /\ served[c] = c
                          /\ kind[c] = "retry" => outcome[c] = "real"
    /\ pc[c] = "forget" => outcome[c] = "real" /\ kind[c] = "retry"
    /\ pc[c] = "new" => ~covered[c]
    /\ pc[c] # "done" => age[c] = 0
    /\ pc[c] \notin {"new", "memory", "ask"} => served[c] \in Calls

\* Who wrote an entry has answered, and the memory of a timeout has its time.
Entered ==
  \A d \in Domains :
    /\ cache[d].by # NoCall => /\ domain[cache[d].by] = d
                               /\ outcome[cache[d].by] \in {"real", "response_too_large"}
    /\ silent[d].by # NoCall => /\ domain[silent[d].by] = d
                                /\ outcome[silent[d].by] = "timeout"
                                /\ pc[silent[d].by] \in {"stale", "done"}
                                /\ at[silent[d].by] = silent[d].at

\* A call that is covered finds a real result in the cache, whenever it looks.
Covering == \A c \in Calls : covered[c] => IsReal(cache[domain[c]])

\* Why a call falls back on what is old.
Failed(c) ==
  \/ outcome[c] \in Failures
  \/ \E f \in Calls : /\ domain[f] = domain[c] /\ outcome[f] = "timeout"
                      /\ pc[f] \in {"stale", "done"} /\ at[c] - at[f] < SilentFor
Justified ==
  \A c \in Calls : pc[c] = "stale" \/ (pc[c] = "done" /\ age[c] >= FreshFor) => Failed(c)

IInv == TypeOK /\ Times /\ Progressed /\ Entered /\ Covering /\ RealResultWins /\ Justified

-----------------------------------------------------------------------------
(* The tables. *)

LEMMA StoredFinite ==
  ASSUME NEW table
  PROVE  IsFiniteSet(Stored(table)) /\ Cardinality(Stored(table)) \in Nat
<1>1. Stored(table) \in SUBSET Domains
  BY DEF Stored
<1>2. QED
  BY <1>1, CtAssumption, FS_Subset, FS_CardinalityType

LEMMA WithOne ==
  ASSUME NEW S, IsFiniteSet(S), NEW x
  PROVE  /\ IsFiniteSet(S \cup {x})
         /\ Cardinality(S) \in Nat /\ Cardinality(S \cup {x}) \in Nat
         /\ Cardinality(S \cup {x}) <= Cardinality(S) + 1
<1>1. Cardinality(S) \in Nat
  BY FS_CardinalityType
<1>2. CASE x \in S
  <2>1. S \cup {x} = S
    BY <1>2
  <2>2. IsFiniteSet(S \cup {x}) /\ Cardinality(S \cup {x}) = Cardinality(S)
    BY <2>1, Zenon
  <2>3. QED
    BY <1>1, <2>2
<1>3. CASE x \notin S
  <2>1. IsFiniteSet(S \cup {x}) /\ Cardinality(S \cup {x}) = Cardinality(S) + 1
    BY <1>3, FS_AddElement, Zenon
  <2>2. QED
    BY <1>1, <2>1
<1>4. QED
  BY <1>2, <1>3

\* A capped table has the new entry or not, keeps or drops every other, and is within
\* the cap if it was before.
LEMMA CappedTable ==
  ASSUME NEW table \in [Domains -> Entries], NEW d \in Domains, NEW c \in Calls,
         now \in 0..MaxTime, NEW t \in Capped(table, d, c)
  PROVE  /\ t \in [Domains -> Entries]
         /\ t[d] \in {Empty, [by |-> c, at |-> now]}
         /\ \A e \in Domains \ {d} : t[e] \in {Empty, table[e]}
         /\ Cardinality(Stored(table) \cup {d}) <= MaxEntries + 1
              => Cardinality(Stored(t)) <= MaxEntries
<1> DEFINE new  == [table EXCEPT ![d] = [by |-> c, at |-> now]]
           full == Stored(new)
<1>1. new \in [Domains -> Entries] /\ new[d] = [by |-> c, at |-> now]
      /\ \A e \in Domains \ {d} : new[e] = table[e]
  BY DEF Entries
<1>2. Empty \in Entries /\ Empty.by = NoCall
  BY CtAssumption DEF Empty, Entries
<1>3. full = Stored(table) \cup {d}
  BY <1>1, CtAssumption DEF Stored
<1>4. IsFiniteSet(full) /\ Cardinality(full) \in Nat
  BY StoredFinite
<1>5. CASE t = new
  <2>1. Cardinality(full) <= MaxEntries
    <3>1. CASE Cardinality(full) <= MaxEntries
      BY <3>1
    <3>2. CASE ~(Cardinality(full) <= MaxEntries)
      <4>1. PICK gone \in SUBSET full :
              /\ Cardinality(gone) = IF EvictCount <= Cardinality(full) THEN EvictCount ELSE Cardinality(full)
              /\ t = [e \in Domains |-> IF e \in gone THEN Empty ELSE new[e]]
        BY <3>2 DEF Capped
      <4>2. gone # {}
        BY <4>1, <1>4, <3>2, CtAssumption, FS_EmptySet
      <4>3. PICK e \in gone : TRUE
        BY <4>2
      <4>4. e \in Domains /\ new[e].by # NoCall
        BY <4>1, <4>3 DEF Stored
      <4>5. t[e] = Empty
        BY <4>1, <4>3, <4>4
      <4>6. QED
        BY <1>2, <1>5, <4>4, <4>5
    <3>3. QED
      BY <3>1, <3>2
  <2>2. QED
    BY <1>1, <1>5, <2>1
<1>6. CASE t # new
  <2>1. ~(Cardinality(full) <= MaxEntries)
    BY <1>6 DEF Capped
  <2>2. PICK gone \in SUBSET full :
          /\ Cardinality(gone) = IF EvictCount <= Cardinality(full) THEN EvictCount ELSE Cardinality(full)
          /\ t = [e \in Domains |-> IF e \in gone THEN Empty ELSE new[e]]
    BY <2>1 DEF Capped
  <2>3. t \in [Domains -> Entries] /\ \A e \in Domains : t[e] \in {Empty, new[e]}
    BY <1>1, <1>2, <2>2
  <2>4. Stored(t) = full \ gone
    BY <1>2, <2>2 DEF Stored
  <2>5. Cardinality(Stored(t)) = Cardinality(full) - Cardinality(gone)
    <3>1. full \cap gone = gone
      BY <2>2
    <3>2. QED
      BY <1>4, <2>4, <3>1, FS_Difference
  <2>6. Cardinality(gone) \in Nat /\ (Cardinality(full) > 0 => Cardinality(gone) > 0)
    BY <1>4, <2>2, CtAssumption
  <2>7. Cardinality(full) <= MaxEntries + 1 => Cardinality(Stored(t)) <= MaxEntries
    <3> HIDE DEF full
    <3>1. QED
      BY <1>4, <2>1, <2>5, <2>6, CtAssumption
  <2>8. QED
    BY <1>1, <1>3, <2>3, <2>7
<1>7. QED
  BY <1>5, <1>6

\* What storing does to the cache, and remembering to the memory of timeouts.
LEMMA StoreTable ==
  ASSUME TypeOK, NEW c \in Calls, Store(c)
  PROVE  /\ cache' \in [Domains -> Entries]
         /\ cache'[domain[c]] \in {Empty, [by |-> c, at |-> now]}
         /\ \A e \in Domains \ {domain[c]} : cache'[e] \in {Empty, cache[e]}
         /\ Cardinality(Stored(cache')) <= MaxEntries
<1>1. cache \in [Domains -> Entries] /\ domain[c] \in Domains /\ now \in 0..MaxTime
      /\ Cardinality(Stored(cache)) <= MaxEntries
  BY DEF TypeOK
<1>2. cache' \in Capped(cache, domain[c], c)
  BY DEF Store
<1>3. Cardinality(Stored(cache) \cup {domain[c]}) <= MaxEntries + 1
  <2>1. IsFiniteSet(Stored(cache)) /\ Cardinality(Stored(cache)) \in Nat
    BY StoredFinite
  <2>2. Cardinality(Stored(cache) \cup {domain[c]}) <= Cardinality(Stored(cache)) + 1
        /\ Cardinality(Stored(cache) \cup {domain[c]}) \in Nat
    BY <2>1, WithOne
  <2>3. QED
    BY <1>1, <2>1, <2>2, CtAssumption
<1>4. QED
  BY <1>1, <1>2, <1>3, CappedTable

LEMMA RememberTable ==
  ASSUME TypeOK, NEW c \in Calls, Remember(c)
  PROVE  /\ silent' \in [Domains -> Entries]
         /\ silent'[domain[c]] \in {Empty, [by |-> c, at |-> now]}
         /\ \A e \in Domains \ {domain[c]} : silent'[e] \in {Empty, silent[e]}
         /\ Cardinality(Stored(silent')) <= MaxEntries
<1>1. /\ silent \in [Domains -> Entries] /\ domain[c] \in Domains /\ now \in 0..MaxTime
      /\ Cardinality(Stored(silent)) <= MaxEntries
  BY DEF TypeOK
<1>2. PICK new : new = [silent EXCEPT ![domain[c]] = [by |-> c, at |-> now]]
  OBVIOUS
<1>3. PICK p : p = Pruned(new)
  OBVIOUS
<1>4. silent' \in IF Cardinality(Stored(p)) <= MaxEntries THEN {p} ELSE Capped(p, domain[c], c)
  BY <1>2, <1>3, Zenon DEF Remember
<1>5. new \in [Domains -> Entries] /\ new[domain[c]] = [by |-> c, at |-> now]
      /\ \A e \in Domains \ {domain[c]} : new[e] = silent[e]
  BY <1>1, <1>2 DEF Entries
<1>6. Empty \in Entries /\ Empty.by = NoCall
  BY CtAssumption DEF Empty, Entries
<1>7. p \in [Domains -> Entries] /\ \A e \in Domains : p[e] \in {Empty, new[e]}
  <2>1. CASE p = new
    BY <1>5, <2>1
  <2>2. CASE p = [e \in Domains |-> IF now - new[e].at >= SilentFor THEN Empty ELSE new[e]]
    BY <1>5, <1>6, <2>2
  <2>3. QED
    BY <1>3, <2>1, <2>2 DEF Pruned
<1>8. Stored(p) \cup {domain[c]} \subseteq Stored(silent) \cup {domain[c]}
  BY <1>5, <1>6, <1>7 DEF Stored
<1>9. Cardinality(Stored(p) \cup {domain[c]}) <= MaxEntries + 1
  <2>1. /\ IsFiniteSet(Stored(silent) \cup {domain[c]})
        /\ Cardinality(Stored(silent)) \in Nat /\ Cardinality(Stored(silent) \cup {domain[c]}) \in Nat
        /\ Cardinality(Stored(silent) \cup {domain[c]}) <= Cardinality(Stored(silent)) + 1
    BY StoredFinite, WithOne
  <2>2. Cardinality(Stored(p) \cup {domain[c]}) <= Cardinality(Stored(silent) \cup {domain[c]})
    BY <1>8, <2>1, FS_Subset
  <2>3. Cardinality(Stored(p) \cup {domain[c]}) \in Nat
    BY StoredFinite, WithOne
  <2>4. QED
    BY <1>1, <2>1, <2>2, <2>3, CtAssumption
<1>10. CASE Cardinality(Stored(p)) <= MaxEntries
  <2>1. silent' = p
    BY <1>4, <1>10
  <2>2. QED
    BY <1>1, <1>5, <1>7, <1>10, <2>1
<1>11. CASE ~(Cardinality(Stored(p)) <= MaxEntries)
  <2>1. silent' \in Capped(p, domain[c], c)
    BY <1>4, <1>11
  <2>2. /\ silent' \in [Domains -> Entries]
        /\ silent'[domain[c]] \in {Empty, [by |-> c, at |-> now]}
        /\ \A e \in Domains \ {domain[c]} : silent'[e] \in {Empty, p[e]}
        /\ Cardinality(Stored(silent')) <= MaxEntries
    BY <1>1, <1>7, <1>9, <2>1, CappedTable
  <2>3. QED
    BY <1>5, <1>7, <2>2
<1>12. QED
  BY <1>10, <1>11

-----------------------------------------------------------------------------
(* The invariant. *)

LEMMA InitInv == Init => IInv
<1> SUFFICES ASSUME Init PROVE IInv
  OBVIOUS
<1>1. Empty \in Entries /\ Empty.by = NoCall /\ Empty.at = 0
  BY CtAssumption DEF Empty, Entries
<1>2. Stored(cache) = {} /\ Stored(silent) = {}
  BY <1>1 DEF Init, Stored
<1>3. TypeOK
  <2>1. Cardinality(Stored(cache)) = 0 /\ Cardinality(Stored(silent)) = 0
    BY <1>2, FS_EmptySet
  <2>2. \A table \in {cache, silent} : Cardinality(Stored(table)) <= MaxEntries
    BY <2>1, CtAssumption
  <2>3. cache \in [Domains -> Entries] /\ silent \in [Domains -> Entries]
    BY <1>1 DEF Init
  <2>4. now \in 0..MaxTime /\ at \in [Calls -> 0..MaxTime] /\ age \in [Calls -> 0..MaxTime]
    <3>1. 0 \in 0..MaxTime
      BY CtAssumption
    <3>2. QED
      BY <3>1 DEF Init
  <2>5. /\ pc \in [Calls -> {"new", "memory", "ask", "remember", "stale", "store", "forget", "done"}]
        /\ outcome \in [Calls -> Outcomes \cup {"unasked"}]
        /\ served \in [Calls -> Calls \cup {NoCall}]
        /\ covered \in [Calls -> BOOLEAN]
    BY DEF Init
  <2>6. QED
    BY <2>2, <2>3, <2>4, <2>5 DEF Init, TypeOK
<1>4. Times /\ Progressed /\ Entered /\ Covering /\ RealResultWins /\ Justified
  BY <1>1, CtAssumption DEF Init, Times, Progressed, Entered, Covering, RealResultWins, Justified
<1>5. QED
  BY <1>3, <1>4 DEF IInv

LEMMA TypeStep == TypeOK /\ Times /\ [Next]_vars => TypeOK'
<1> SUFFICES ASSUME TypeOK, Times, [Next]_vars PROVE TypeOK'
  OBVIOUS
<1>1. CASE Tick
  BY <1>1, CtAssumption DEF Tick, TypeOK, call, Entries, Stored
<1>2. ASSUME NEW c \in Calls, Lookup(c) PROVE TypeOK'
  <2>1. Here(cache, c).by # NoCall => Here(cache, c).by \in Calls
        /\ now - Here(cache, c).at \in 0..MaxTime
    BY CtAssumption DEF TypeOK, Times, Here, Entries
  <2>2. covered' \in [Calls -> BOOLEAN]
    BY <1>2, Zenon DEF Lookup, TypeOK, IsReal
  <2>3. QED
    BY <1>2, <2>1, <2>2 DEF Lookup, Serve, Go, TypeOK, call, Stored
<1>3. ASSUME NEW c \in Calls, Recall(c) PROVE TypeOK'
  <2>1. Here(silent, c).by # NoCall => Here(silent, c).by \in Calls
    BY DEF TypeOK, Here, Entries
  <2>2. QED
    BY <1>3, <2>1 DEF Recall, Go, TypeOK, call, Stored
<1>4. ASSUME NEW c \in Calls, Asked(c) PROVE TypeOK'
  BY <1>4 DEF Asked, Go, TypeOK, call, Outcomes, Failures, Stored
<1>5. ASSUME NEW c \in Calls, Remember(c) PROVE TypeOK'
  <2>1. silent' \in [Domains -> Entries] /\ Cardinality(Stored(silent')) <= MaxEntries
    BY <1>5, RememberTable
  <2>2. Stored(cache') = Stored(cache)
    BY <1>5 DEF Remember
  <2>3. QED
    BY <1>5, <2>1, <2>2 DEF Remember, Go, TypeOK, call
<1>6. ASSUME NEW c \in Calls, FallBack(c) PROVE TypeOK'
  <2>1. Here(cache, c).by # NoCall => Here(cache, c).by \in Calls
        /\ now - Here(cache, c).at \in 0..MaxTime
    BY CtAssumption DEF TypeOK, Times, Here, Entries
  <2>2. QED
    BY <1>6, <2>1 DEF FallBack, Serve, Go, TypeOK, call, Stored
<1>7. ASSUME NEW c \in Calls, Store(c) PROVE TypeOK'
  <2>1. cache' \in [Domains -> Entries] /\ Cardinality(Stored(cache')) <= MaxEntries
    BY <1>7, StoreTable
  <2>2. Stored(silent') = Stored(silent)
    BY <1>7 DEF Store
  <2>3. covered' \in [Calls -> BOOLEAN]
    BY <1>7, Zenon DEF Store, TypeOK, IsReal
  <2>4. QED
    BY <1>7, <2>1, <2>2, <2>3 DEF Store, Go, TypeOK, call
<1>8. ASSUME NEW c \in Calls, Forget(c) PROVE TypeOK'
  <2>1. Empty \in Entries /\ domain[c] \in Domains
    BY CtAssumption DEF Empty, Entries, TypeOK
  <2>2. Stored(silent') \in SUBSET Stored(silent)
    BY <1>8, <2>1 DEF Forget, Stored, Empty, TypeOK
  <2>3. Cardinality(Stored(silent')) <= Cardinality(Stored(silent))
    BY <2>2, StoredFinite, FS_Subset
  <2>4. Cardinality(Stored(silent')) <= MaxEntries
    <3>1. Cardinality(Stored(silent')) \in Nat /\ Cardinality(Stored(silent)) \in Nat
      BY StoredFinite
    <3>2. QED
      BY <2>3, <3>1, CtAssumption DEF TypeOK
  <2>5. Stored(cache') = Stored(cache)
    BY <1>8 DEF Forget
  <2>6. QED
    BY <1>8, <2>1, <2>4, <2>5 DEF Forget, Go, TypeOK, call
<1>9. CASE UNCHANGED vars
  BY <1>9 DEF vars, TypeOK, call, Stored
<1>10. QED
  BY <1>1, <1>2, <1>3, <1>4, <1>5, <1>6, <1>7, <1>8, <1>9 DEF Next, Call

\* What no step takes back: an answer, the end of a call, and when a timeout was seen.
Steadily ==
  /\ kind' = kind /\ domain' = domain
  /\ \A x \in Calls :
       /\ outcome[x] # "unasked" => outcome'[x] = outcome[x]
       /\ pc[x] \in {"stale", "done"} => pc'[x] \in {"stale", "done"} /\ at'[x] = at[x]
       /\ pc[x] = "done" => /\ pc'[x] = "done"
                           /\ age'[x] = age[x] /\ served'[x] = served[x]
                           /\ (covered'[x] => covered[x])

LEMMA Steady == TypeOK /\ Progressed /\ [Next]_vars => Steadily
<1> SUFFICES ASSUME TypeOK, Progressed, [Next]_vars PROVE Steadily
  OBVIOUS
<1>1. CASE Tick
  BY <1>1 DEF Tick, call, Steadily
<1>2. ASSUME NEW c \in Calls, Lookup(c) PROVE Steadily
  BY <1>2 DEF Lookup, Serve, Go, TypeOK, call, Progressed, Steadily
<1>3. ASSUME NEW c \in Calls, Recall(c) PROVE Steadily
  BY <1>3 DEF Recall, Serve, Go, TypeOK, call, Progressed, Steadily
<1>4. ASSUME NEW c \in Calls, Asked(c) PROVE Steadily
  BY <1>4 DEF Asked, Serve, Go, TypeOK, call, Progressed, Steadily
<1>5. ASSUME NEW c \in Calls, Remember(c) PROVE Steadily
  BY <1>5 DEF Remember, Serve, Go, TypeOK, call, Progressed, Steadily
<1>6. ASSUME NEW c \in Calls, FallBack(c) PROVE Steadily
  BY <1>6 DEF FallBack, Serve, Go, TypeOK, call, Progressed, Steadily
<1>7. ASSUME NEW c \in Calls, Store(c) PROVE Steadily
  BY <1>7 DEF Store, Serve, Go, TypeOK, call, Progressed, Steadily
<1>8. ASSUME NEW c \in Calls, Forget(c) PROVE Steadily
  BY <1>8 DEF Forget, Serve, Go, TypeOK, call, Progressed, Steadily
<1>9. CASE UNCHANGED vars
  BY <1>9 DEF vars, call, Steadily
<1>10. QED
  BY <1>1, <1>2, <1>3, <1>4, <1>5, <1>6, <1>7, <1>8, <1>9 DEF Next, Call

LEMMA TimesStep == TypeOK /\ Times /\ [Next]_vars => Times'
<1> SUFFICES ASSUME TypeOK, Times, [Next]_vars PROVE Times'
  OBVIOUS
<1>0. now \in Nat /\ Empty.at = 0
  BY CtAssumption DEF TypeOK, Empty
<1>1. CASE Tick
  BY <1>0, <1>1, CtAssumption DEF Tick, Times, TypeOK, Entries
<1>2. ASSUME NEW c \in Calls, Lookup(c) PROVE Times'
  BY <1>0, <1>2 DEF Lookup, Times, TypeOK
<1>3. ASSUME NEW c \in Calls, Recall(c) PROVE Times'
  BY <1>0, <1>3 DEF Recall, Times, TypeOK
<1>4. ASSUME NEW c \in Calls, Asked(c) PROVE Times'
  BY <1>0, <1>4 DEF Asked, Times, TypeOK
<1>5. ASSUME NEW c \in Calls, Remember(c) PROVE Times'
  <2>1. \A d \in Domains : silent'[d] \in {Empty, silent[d], [by |-> c, at |-> now]}
    BY <1>5, RememberTable DEF TypeOK
  <2>2. \A d \in Domains : silent'[d].at <= now
    BY <1>0, <2>1 DEF Times
  <2>3. QED
    BY <1>0, <1>5, <2>2 DEF Remember, Times, TypeOK
<1>6. ASSUME NEW c \in Calls, FallBack(c) PROVE Times'
  BY <1>0, <1>6 DEF FallBack, Times, TypeOK
<1>7. ASSUME NEW c \in Calls, Store(c) PROVE Times'
  BY <1>0, <1>7, StoreTable DEF Store, Times, TypeOK
<1>8. ASSUME NEW c \in Calls, Forget(c) PROVE Times'
  BY <1>0, <1>8 DEF Forget, Times, TypeOK
<1>9. CASE UNCHANGED vars
  BY <1>9 DEF vars, Times
<1>10. QED
  BY <1>1, <1>2, <1>3, <1>4, <1>5, <1>6, <1>7, <1>8, <1>9 DEF Next, Call

LEMMA ProgressedStep == TypeOK /\ Progressed /\ [Next]_vars => Progressed'
<1> SUFFICES ASSUME TypeOK, Progressed, [Next]_vars PROVE Progressed'
  OBVIOUS
<1>1. CASE Tick
  BY <1>1 DEF Tick, call, Progressed
<1>2. ASSUME NEW c \in Calls, Lookup(c) PROVE Progressed'
  <2>1. Here(cache, c).by # NoCall => Here(cache, c).by \in Calls
    BY DEF TypeOK, Here, Entries
  <2>2. QED
    BY <1>2, <2>1 DEF Lookup, Serve, Go, TypeOK, call, Progressed
<1>3. ASSUME NEW c \in Calls, Recall(c) PROVE Progressed'
  <2>1. Here(silent, c).by # NoCall => Here(silent, c).by \in Calls
    BY DEF TypeOK, Here, Entries
  <2>2. QED
    BY <1>3, <2>1 DEF Recall, Serve, Go, TypeOK, call, Progressed
<1>4. ASSUME NEW c \in Calls, Asked(c) PROVE Progressed'
  BY <1>4 DEF Asked, Serve, Go, TypeOK, call, Progressed, Outcomes, Failures
<1>5. ASSUME NEW c \in Calls, Remember(c) PROVE Progressed'
  BY <1>5 DEF Remember, Serve, Go, TypeOK, call, Progressed
<1>6. ASSUME NEW c \in Calls, FallBack(c) PROVE Progressed'
  <2>1. /\ pc' = [pc EXCEPT ![c] = "done"]
        /\ kind' = kind /\ outcome' = outcome /\ covered' = covered
        /\ \A x \in Calls \ {c} : served'[x] = served[x] /\ age'[x] = age[x]
    BY <1>6 DEF FallBack, Serve, Go, TypeOK, call
  <2>2. served'[c] \in Calls
    <3>1. Here(cache, c).by # NoCall => Here(cache, c).by \in Calls
      BY DEF TypeOK, Here, Entries
    <3>2. QED
      BY <1>6, <3>1 DEF FallBack, Serve, TypeOK, Progressed
  <2>3. QED
    BY <2>1, <2>2 DEF TypeOK, Progressed
<1>7. ASSUME NEW c \in Calls, Store(c) PROVE Progressed'
  <2>1. /\ pc' = [pc EXCEPT ![c] = IF kind[c] = "retry" THEN "forget" ELSE "done"]
        /\ kind' = kind /\ outcome' = outcome /\ served' = served /\ age' = age
        /\ \A x \in Calls : covered'[x] => covered[x]
    BY <1>7 DEF Store, Go, call
  <2>2. pc[c] = "store"
    BY <1>7 DEF Store
  <2>3. QED
    BY <2>1, <2>2 DEF TypeOK, Progressed
<1>8. ASSUME NEW c \in Calls, Forget(c) PROVE Progressed'
  BY <1>8 DEF Forget, Serve, Go, TypeOK, call, Progressed
<1>9. CASE UNCHANGED vars
  BY <1>9 DEF vars, call, Progressed
<1>10. QED
  BY <1>1, <1>2, <1>3, <1>4, <1>5, <1>6, <1>7, <1>8, <1>9 DEF Next, Call

LEMMA EnteredStep == TypeOK /\ Times /\ Progressed /\ Entered /\ [Next]_vars => Entered'
<1> SUFFICES ASSUME TypeOK, Progressed, Entered, [Next]_vars PROVE Entered'
  OBVIOUS
<1>1. Steadily
  BY Steady
<1>2. Empty.by = NoCall
  BY DEF Empty
<1>3. cache \in [Domains -> Entries] /\ silent \in [Domains -> Entries]
  BY DEF TypeOK
\* The entries a step leaves in place stay right.
<1>4. ASSUME NEW d \in Domains, cache[d].by # NoCall
      PROVE  domain'[cache[d].by] = d /\ outcome'[cache[d].by] \in {"real", "response_too_large"}
  BY <1>1, <1>3, <1>4 DEF Entered, Entries, Steadily
<1>5. ASSUME NEW d \in Domains, silent[d].by # NoCall
      PROVE  /\ domain'[silent[d].by] = d /\ outcome'[silent[d].by] = "timeout"
             /\ pc'[silent[d].by] \in {"stale", "done"} /\ at'[silent[d].by] = silent[d].at
  BY <1>1, <1>3, <1>5 DEF Entered, Entries, Steadily
<1>6. ASSUME NEW c \in Calls, Store(c) PROVE Entered'
  <2>1. \A d \in Domains : \/ cache'[d] \in {Empty, cache[d]}
                           \/ d = domain[c] /\ cache'[d] = [by |-> c, at |-> now]
    <3>1. /\ cache'[domain[c]] \in {Empty, [by |-> c, at |-> now]}
          /\ \A e \in Domains \ {domain[c]} : cache'[e] \in {Empty, cache[e]}
      BY <1>6, StoreTable
    <3>2. QED
      BY <3>1
  <2>2. domain'[c] = domain[c] /\ outcome'[c] \in {"real", "response_too_large"} /\ silent' = silent
    BY <1>6 DEF Store, Progressed, call
  <2>3. QED
    BY <1>2, <1>4, <1>5, <2>1, <2>2 DEF Entered
<1>7. ASSUME NEW c \in Calls, Remember(c) PROVE Entered'
  <2>1. \A d \in Domains : \/ silent'[d] \in {Empty, silent[d]}
                           \/ d = domain[c] /\ silent'[d] = [by |-> c, at |-> now]
    <3>1. /\ silent'[domain[c]] \in {Empty, [by |-> c, at |-> now]}
          /\ \A e \in Domains \ {domain[c]} : silent'[e] \in {Empty, silent[e]}
      BY <1>7, RememberTable
    <3>2. QED
      BY <3>1
  <2>2. /\ domain'[c] = domain[c] /\ outcome'[c] = "timeout" /\ pc'[c] = "stale" /\ at'[c] = now
        /\ cache' = cache
    BY <1>7 DEF Remember, Go, Progressed, TypeOK, call
  <2>3. QED
    BY <1>2, <1>4, <1>5, <2>1, <2>2 DEF Entered
<1>8. ASSUME NEW c \in Calls, Forget(c) PROVE Entered'
  <2>1. cache' = cache /\ \A d \in Domains : silent'[d] \in {Empty, silent[d]}
    BY <1>3, <1>8 DEF Forget
  <2>2. QED
    BY <1>2, <1>4, <1>5, <2>1 DEF Entered
<1>9. CASE cache' = cache /\ silent' = silent
  BY <1>4, <1>5, <1>9 DEF Entered
<1>10. QED
  BY <1>6, <1>7, <1>8, <1>9 DEF Next, Call, Tick, Lookup, Recall, Asked, FallBack, vars

LEMMA CoveringStep ==
  TypeOK /\ Progressed /\ Entered /\ Covering /\ [Next]_vars => Covering'
<1> SUFFICES ASSUME TypeOK, Progressed, Entered, Covering, [Next]_vars PROVE Covering'
  OBVIOUS
<1>1. Steadily
  BY Steady
\* A real result stays real.
<1>2. ASSUME NEW e \in Entries, IsReal(e) PROVE e.by # NoCall /\ outcome'[e.by] = "real"
  BY <1>1, <1>2 DEF IsReal, Entries, Steadily
<1>3. cache \in [Domains -> Entries] /\ domain \in [Calls -> Domains] /\ domain' = domain
  BY <1>1 DEF TypeOK, Steadily
<1>4. ASSUME NEW c \in Calls, Store(c) PROVE Covering'
  <2>1. cache' \in [Domains -> Entries]
    BY <1>4, StoreTable
  <2>2. \A x \in Calls : covered'[x] => IsReal(cache'[domain[x]])
    BY <1>4, Zenon DEF Store
  <2>3. outcome' = outcome
    BY <1>4 DEF Store
  <2>4. QED
    BY <1>3, <2>2, <2>3 DEF Covering, IsReal
<1>5. ASSUME cache' = cache,
             \A x \in Calls : covered'[x] => covered[x] \/ IsReal(cache[domain[x]])
      PROVE  Covering'
  <2>1. \A x \in Calls : covered'[x] => IsReal(cache[domain[x]])
    BY <1>5 DEF Covering
  <2>2. QED
    BY <1>2, <1>3, <1>5, <2>1 DEF Covering, IsReal
<1>6. ASSUME NEW c \in Calls, Lookup(c) PROVE Covering'
  <2>1. \A x \in Calls : covered'[x] => covered[x] \/ IsReal(cache[domain[x]])
    BY <1>6 DEF Lookup, Here, TypeOK
  <2>2. QED
    BY <1>5, <1>6, <2>1 DEF Lookup
<1>7. CASE cache' = cache /\ covered' = covered
  BY <1>5, <1>7
<1>8. QED
  BY <1>4, <1>6, <1>7 DEF Next, Call, Tick, Recall, Asked, Remember, FallBack, Forget, vars

LEMMA RealStep ==
  TypeOK /\ Progressed /\ Entered /\ Covering /\ RealResultWins /\ [Next]_vars => RealResultWins'
<1> SUFFICES ASSUME TypeOK, Progressed, Entered, Covering, RealResultWins, [Next]_vars,
                    NEW x \in Calls, pc'[x] = "done", kind'[x] = "audit", covered'[x]
             PROVE  outcome'[served'[x]] = "real"
  BY DEF RealResultWins
<1>1. Steadily
  BY Steady
<1>2. kind[x] = "audit"
  BY <1>1 DEF Steadily
<1>3. CASE pc[x] = "done"
  <2>1. outcome[served[x]] = "real" /\ served'[x] = served[x] /\ served[x] \in Calls
    BY <1>1, <1>2, <1>3 DEF RealResultWins, Progressed, Steadily
  <2>2. QED
    BY <1>1, <2>1 DEF Steadily
\* Otherwise this is the step that ends x.
<1>4. CASE pc[x] # "done"
  <2>1. /\ domain[x] \in Domains
        /\ Here(cache, x).by # NoCall => Here(cache, x).by \in Calls
    BY DEF TypeOK, Entries, Here
  <2>2. Lookup(x) \/ FallBack(x) \/ Store(x)
    <3>1. ASSUME NEW c \in Calls, Call(c), c # x PROVE FALSE
      BY <1>4, <3>1 DEF Call, Lookup, Recall, Asked, Remember, FallBack, Store, Forget, Serve, Go, TypeOK
    <3>2. ~Recall(x) /\ ~Remember(x)
      BY DEF Recall, Remember, Go, TypeOK
    <3>3. ~Asked(x) /\ ~Forget(x)
      BY <1>2 DEF Asked, Forget, Go, TypeOK, Progressed
    <3>4. ~Tick /\ vars' # vars
      BY <1>4 DEF Tick, vars
    <3>5. QED
      BY <3>1, <3>2, <3>3, <3>4, Zenon DEF Next, Call
  <2>3. CASE Lookup(x)
    <3>1. IsReal(Here(cache, x)) /\ outcome' = outcome
      BY <2>3 DEF Lookup, TypeOK
    <3>2. served'[x] = Here(cache, x).by
      BY <2>3 DEF Lookup, Serve, Go, TypeOK
    <3>3. QED
      BY <3>1, <3>2 DEF IsReal
  <2>4. CASE FallBack(x)
    <3>1. covered[x] /\ outcome' = outcome
      BY <2>4 DEF FallBack
    <3>2. IsReal(Here(cache, x))
      BY <3>1 DEF Covering, Here
    <3>3. served'[x] = Here(cache, x).by
      BY <2>4, <3>2 DEF FallBack, Serve, TypeOK, IsReal
    <3>4. QED
      BY <3>1, <3>2, <3>3 DEF IsReal
  <2>5. CASE Store(x)
    <3>1. cache'[domain[x]] \in {Empty, [by |-> x, at |-> now]}
      BY <2>5, StoreTable
    <3>2. IsReal(cache'[domain[x]])
      BY <2>5, Zenon DEF Store, TypeOK
    <3>3. outcome[x] = "real"
      BY <3>1, <3>2 DEF IsReal, Empty
    <3>4. QED
      BY <2>5, <3>3 DEF Store, Progressed
  <2>6. QED
    BY <2>2, <2>3, <2>4, <2>5
<1>5. QED
  BY <1>3, <1>4

LEMMA JustifiedStep ==
  TypeOK /\ Times /\ Progressed /\ Entered /\ Justified /\ [Next]_vars => Justified'
<1> SUFFICES ASSUME TypeOK, Times, Progressed, Entered, Justified, [Next]_vars,
                    NEW x \in Calls, pc'[x] = "stale" \/ (pc'[x] = "done" /\ age'[x] >= FreshFor)
             PROVE  Failed(x)'
  BY DEF Justified
<1>1. Steadily
  BY Steady
\* A call keeps the reason it had.
<1>2. ASSUME Failed(x), pc[x] \in {"stale", "done"} PROVE Failed(x)'
  BY <1>1, <1>2 DEF Failed, Failures, Steadily
<1>3. CASE pc[x] = "done"
  <2>1. Failed(x)
    BY <1>1, <1>3 DEF Justified, Steadily
  <2>2. QED
    BY <1>2, <1>3, <2>1
<1>4. CASE pc[x] = "stale"
  BY <1>2, <1>4 DEF Justified
\* Otherwise this step makes x fall back, or ends it with what is old.
<1>5. CASE pc[x] \notin {"stale", "done"}
  <2>1. PICK c \in Calls : Call(c)
    BY <1>5 DEF Next, Tick, vars
  <2>2. c = x
    BY <1>5, <2>1 DEF Call, Lookup, Recall, Asked, Remember, FallBack, Store, Forget, Serve, Go, TypeOK
  <2>3. ~Lookup(x)
    BY CtAssumption DEF Lookup, Serve, Go, TypeOK, Here, Entries
  <2>4. ~FallBack(x) /\ ~Store(x) /\ ~Forget(x)
    BY <1>5, CtAssumption DEF FallBack, Store, Forget, Go, TypeOK, Progressed
  <2>5. CASE Recall(x)
    <3>1. /\ silent[domain[x]].by # NoCall /\ now - silent[domain[x]].at < SilentFor
          /\ at' = at /\ domain' = domain
      BY <2>5, CtAssumption DEF Recall, Here, Go, TypeOK, Progressed, call
    <3>2. PICK f \in Calls : f = silent[domain[x]].by
      BY <3>1 DEF TypeOK, Entries
    <3>3. /\ domain[f] = domain[x] /\ outcome[f] = "timeout"
          /\ pc[f] \in {"stale", "done"} /\ at[f] = silent[domain[x]].at
      BY <3>1, <3>2 DEF Entered, TypeOK
    <3>4. at[x] - at[f] < SilentFor
      BY <3>1, <3>3, CtAssumption DEF Times, TypeOK
    <3>5. QED
      BY <1>1, <3>1, <3>3, <3>4 DEF Failed, Steadily
  <2>6. CASE Asked(x)
    BY <2>6, CtAssumption DEF Asked, Go, TypeOK, Progressed, Failed, Failures
  <2>7. CASE Remember(x)
    BY <2>7 DEF Remember, Progressed, Failed, Failures
  <2>8. QED
    BY <2>1, <2>2, <2>3, <2>4, <2>5, <2>6, <2>7 DEF Call
<1>6. QED
  BY <1>3, <1>4, <1>5

LEMMA StepInv == IInv /\ [Next]_vars => IInv'
  BY TypeStep, TimesStep, ProgressedStep, EnteredStep, CoveringStep, RealStep, JustifiedStep DEF IInv

LEMMA Inv == Spec => []IInv
  BY InitInv, StepInv, PTL DEF Spec

-----------------------------------------------------------------------------
(* The theorems. *)

\* The two tables never outgrow their cap, whichever entries each eviction drops.
THEOREM CtTyped == Spec => []TypeOK
<1>1. IInv => TypeOK
  BY DEF IInv
<1>2. QED
  BY <1>1, Inv, PTL

\* _set_cached_ct and _set_cached_ct_timeout: a result is stored for the domain it
\* answers, and a failure to reach the services is never stored as a result.
THEOREM AnswersStored == Spec => []OnlyAnswersStored
<1>1. IInv => OnlyAnswersStored
  BY DEF IInv, Entered, OnlyAnswersStored, Failures
<1>2. QED
  BY <1>1, Inv, PTL

\* _raw_check_ct: an audit shows the real result there was while it ran.
THEOREM RealWins == Spec => []RealResultWins
<1>1. IInv => RealResultWins
  BY DEF IInv
<1>2. QED
  BY <1>1, Inv, PTL

\* _get_stale_ct: what is no longer fresh is shown for a failure of the services.
THEOREM OldAfterFailure == Spec => []OldOnlyAfterFailure
<1>1. IInv => OldOnlyAfterFailure
  BY DEF IInv, Justified, Failed, OldOnlyAfterFailure
<1>2. QED
  BY <1>1, Inv, PTL

=============================================================================
