--------------------------- MODULE RateLimiterProofs ---------------------------
(***************************************************************************)
(* The window of RateLimiter, for every cap, window length and table size.  *)
(***************************************************************************)
EXTENDS RateLimiter, FiniteSetTheorems, TLAPS

\* What the table knows. Nothing but admitted requests of the address itself is
\* recorded, and of an address that was never forgotten every live one is.
Records ==
  /\ \A r \in admitted : at[r] <= now
  /\ \A i \in IPs : \A r \in recent[i] : ip[r] = i
  /\ \A i \in IPs \ forgotten : \A r \in admitted :
       ip[r] = i /\ now - at[r] < Window => r \in recent[i]

Inv == TypeOK /\ Records

LEMMA EvictionType == TypeOK => \A gone \in Evictions : gone \subseteq known
BY DEF Evictions, TypeOK

LEMMA FiniteTable ==
  ASSUME TypeOK
  PROVE  /\ IsFiniteSet(admitted) /\ IsFiniteSet(known)
         /\ \A i \in IPs : IsFiniteSet(recent[i])
<1>1. IsFiniteSet(admitted) /\ IsFiniteSet(known)
  BY LimiterAssumption, FS_Subset DEF TypeOK
<1>2. \A i \in IPs : recent[i] \in SUBSET admitted
  BY DEF TypeOK
<1>3. QED
  BY <1>1, <1>2, FS_Subset

LEMMA TypeStep == TypeOK /\ [Next]_vars => TypeOK'
<1> SUFFICES ASSUME TypeOK, [Next]_vars PROVE TypeOK'
  OBVIOUS
<1> USE LimiterAssumption DEF TypeOK
<1>1. CASE Tick
  BY <1>1 DEF Tick
<1>2. ASSUME NEW r \in Requests, Check(r) PROVE TypeOK'
  <2> DEFINE live(gone) == IF ip[r] \in gone THEN {} ELSE Live(ip[r])
             kept(gone) == IF Allows(live(gone)) THEN live(gone) \cup {r} ELSE live(gone)
  <2>1. PICK gone \in Evictions :
          /\ known' = (known \ gone) \cup {ip[r]}
          /\ forgotten' = forgotten \cup {i \in gone : Live(i) # {}}
          /\ recent' = [i \in IPs |-> IF i = ip[r] THEN kept(gone)
                                      ELSE IF i \in gone THEN {} ELSE recent[i]]
          /\ IF Allows(live(gone)) THEN admitted' = admitted \cup {r} /\ UNCHANGED refused
                                   ELSE refused' = refused \cup {r} /\ UNCHANGED admitted
    BY <1>2 DEF Check
  <2>2. gone \subseteq known
    BY EvictionType
  <2>3. live(gone) \subseteq admitted
    BY DEF Live
  <2>4. kept(gone) \subseteq admitted'
    BY <2>1, <2>3
  <2>5. admitted \subseteq admitted' /\ admitted' \subseteq Requests /\ refused' \subseteq Requests
    BY <2>1
  <2>6. recent' \in [IPs -> SUBSET admitted']
    <3> HIDE DEF kept, live
    <3>1. QED
      BY <2>1, <2>4, <2>5
  <2>7. known' \subseteq IPs /\ forgotten' \subseteq IPs
    BY <2>1, <2>2
  <2>8. now' = now /\ ip' = ip /\ at' \in [Requests -> 0..MaxTime]
    BY <1>2 DEF Check
  <2>9. QED
    BY <2>5, <2>6, <2>7, <2>8
<1>3. CASE UNCHANGED vars
  BY <1>3 DEF vars
<1>4. QED
  BY <1>1, <1>2, <1>3 DEF Next

LEMMA RecordsStep == Inv /\ [Next]_vars => Records'
<1> SUFFICES ASSUME TypeOK, Records, [Next]_vars PROVE Records'
  BY DEF Inv
<1> USE LimiterAssumption
<1>1. CASE Tick
  BY <1>1 DEF Tick, TypeOK, Records
<1>2. ASSUME NEW r \in Requests, Check(r) PROVE Records'
  <2> DEFINE live(gone) == IF ip[r] \in gone THEN {} ELSE Live(ip[r])
             kept(gone) == IF Allows(live(gone)) THEN live(gone) \cup {r} ELSE live(gone)
  <2>1. PICK gone \in Evictions :
          /\ forgotten' = forgotten \cup {i \in gone : Live(i) # {}}
          /\ recent' = [i \in IPs |-> IF i = ip[r] THEN kept(gone)
                                      ELSE IF i \in gone THEN {} ELSE recent[i]]
          /\ IF Allows(live(gone)) THEN admitted' = admitted \cup {r}
                                   ELSE admitted' = admitted
    BY <1>2 DEF Check
  <2>2. /\ now' = now /\ ip' = ip /\ r \notin admitted
        /\ at'[r] = now /\ \A q \in Requests \ {r} : at'[q] = at[q]
    BY <1>2 DEF Check, TypeOK
  <2>3. admitted \subseteq Requests /\ \A i \in IPs : recent[i] \subseteq admitted
    BY DEF TypeOK
  <2>4. gone \subseteq IPs
    BY EvictionType DEF TypeOK
  <2>5. \A q \in admitted' : at'[q] <= now'
    BY <2>1, <2>2, <2>3 DEF Records, TypeOK
  <2>6. \A i \in IPs : \A q \in recent'[i] : ip'[q] = i
    BY <2>1, <2>2 DEF Records, Live
  <2>7. ASSUME NEW i \in IPs \ forgotten', NEW q \in admitted',
               ip'[q] = i, now' - at'[q] < Window
        PROVE  q \in recent'[i]
    <3>1. i \notin forgotten /\ (i \in gone => Live(i) = {})
      BY <2>1
    <3>2. CASE q = r
      BY <2>1, <2>2, <2>7, <3>2
    <3>3. CASE q # r
      <4>1. q \in admitted /\ at'[q] = at[q] /\ ip[q] = i
        BY <2>1, <2>2, <2>3, <2>7, <3>3
      <4>2. q \in recent[i] /\ q \in Live(i)
        BY <2>2, <2>7, <3>1, <4>1 DEF Records, Live
      <4>3. i \notin gone
        BY <3>1, <4>2
      <4>4. i = ip[r] => q \in kept(gone)
        BY <4>2, <4>3
      <4> HIDE DEF kept, live
      <4>5. QED
        BY <2>1, <4>2, <4>3, <4>4
    <3>4. QED
      BY <3>2, <3>3
  <2>8. QED
    BY <2>5, <2>6, <2>7 DEF Records
<1>3. CASE UNCHANGED vars
  BY <1>3 DEF vars, TypeOK, Records
<1>4. QED
  BY <1>1, <1>2, <1>3 DEF Next

LEMMA Invariance == Spec => []Inv
<1>1. Init => Inv
  BY LimiterAssumption DEF Init, Inv, TypeOK, Records
<1>2. Inv /\ [Next]_vars => Inv'
  BY TypeStep, RecordsStep DEF Inv
<1>3. QED
  BY <1>1, <1>2, PTL DEF Spec

\* TypeOK: in particular, a refused request is never recorded.
THEOREM LimiterTyped == Spec => []TypeOK
BY Invariance, PTL DEF Inv

-----------------------------------------------------------------------------
(* Refusals.                                                                 *)

\* RefusedOnlyWhenSpent, for every cap, window and table.
THEOREM RefusalsJustified == Spec => RefusedOnlyWhenSpent
<1> DEFINE Justified == \A r \in refused' \ refused : Cardinality(AdmittedIn(ip[r], now)) >= Budget
<1>1. Inv /\ [Next]_vars => [Justified]_vars
  <2> SUFFICES ASSUME Inv, Next, NEW r \in refused' \ refused
               PROVE  Cardinality(AdmittedIn(ip[r], now)) >= Budget
    BY DEF vars
  <2> USE LimiterAssumption
  <2>1. Check(r)
    BY DEF Next, Tick, Check
  <2>2. r \in Requests
    BY DEF Next, Tick, Check
  <2> DEFINE i == ip[r]
  <2>3. Live(i) # {} /\ Cardinality(Live(i)) >= Max
    <3>1. PICK gone \in Evictions : ~Allows(IF i \in gone THEN {} ELSE Live(i))
      BY <2>1 DEF Check
    <3>2. i \notin gone
      BY <3>1 DEF Allows
    <3>3. IsFiniteSet(Live(i))
      BY <2>2, FiniteTable, FS_Subset DEF Inv, Live, TypeOK
    <3>4. QED
      BY <3>1, <3>2, <3>3, FS_CardinalityType DEF Allows
  <2>4. Live(i) \in SUBSET AdmittedIn(i, now)
    BY <2>2 DEF Live, AdmittedIn, Inv, TypeOK, Records
  <2>5. IsFiniteSet(AdmittedIn(i, now))
    BY FiniteTable, FS_Subset DEF AdmittedIn, Inv
  <2>6. Cardinality(Live(i)) <= Cardinality(AdmittedIn(i, now)) /\ IsFiniteSet(Live(i))
    BY <2>4, <2>5, FS_Subset
  <2>7. Cardinality(Live(i)) \in Nat \ {0} /\ Cardinality(AdmittedIn(i, now)) \in Nat
    BY <2>3, <2>5, <2>6, FS_CardinalityType, FS_EmptySet
  <2>8. QED
    BY <2>3, <2>6, <2>7 DEF Budget
<1>2. QED
  BY <1>1, Invariance, PTL DEF Spec, RefusedOnlyWhenSpent

-----------------------------------------------------------------------------
(* Admissions.                                                               *)

LEMMA AdmittedFinite ==
  ASSUME TypeOK, NEW i, NEW t
  PROVE  IsFiniteSet(AdmittedIn(i, t)) /\ Cardinality(AdmittedIn(i, t)) \in Nat
BY FiniteTable, FS_Subset, FS_CardinalityType DEF AdmittedIn

\* A window that has slid on has lost admissions, and gained none.
LEMMA WindowSlides ==
  ASSUME TypeOK, NEW i, NEW s \in 0..now, NEW t \in Int, s <= t,
         \A r \in admitted : at[r] <= t => at[r] <= s
  PROVE  Cardinality(AdmittedIn(i, t)) <= Cardinality(AdmittedIn(i, s))
<1>1. AdmittedIn(i, t) \in SUBSET AdmittedIn(i, s)
  BY LimiterAssumption DEF AdmittedIn, TypeOK
<1>2. QED
  BY <1>1, AdmittedFinite, FS_Subset

LEMMA WindowStep == Inv /\ WindowBound /\ [Next]_vars => WindowBound'
<1> SUFFICES ASSUME Inv, WindowBound, [Next]_vars PROVE WindowBound'
  OBVIOUS
<1> USE LimiterAssumption
<1>1. CASE Tick
  <2>1. /\ now' = now + 1 /\ admitted' = admitted /\ ip' = ip /\ at' = at
        /\ forgotten' = forgotten /\ now \in Nat
    BY <1>1 DEF Tick, Inv, TypeOK
  <2>2. ASSUME NEW i \in IPs \ forgotten, NEW t \in 0..now'
        PROVE  Cardinality(AdmittedIn(i, t)) <= Budget
    <3>1. CASE t \in 0..now
      BY <3>1 DEF WindowBound
    <3>2. CASE t = now + 1
      <4>1. Cardinality(AdmittedIn(i, t)) <= Cardinality(AdmittedIn(i, now))
        BY <2>1, <3>2, WindowSlides DEF Inv, Records
      <4>2. Cardinality(AdmittedIn(i, now)) <= Budget
        BY <2>1 DEF WindowBound
      <4>3. Budget \in Nat
        BY DEF Budget
      <4>4. QED
        BY <2>1, <4>1, <4>2, <4>3, AdmittedFinite DEF Inv
    <3>3. QED
      BY <2>1, <3>1, <3>2
  <2>3. \A i, t : AdmittedIn(i, t)' = AdmittedIn(i, t)
    BY <2>1 DEF AdmittedIn
  <2>4. QED
    BY <2>1, <2>2, <2>3 DEF WindowBound, Budget
<1>2. ASSUME NEW r \in Requests, Check(r) PROVE WindowBound'
  <2>1. /\ now' = now /\ ip' = ip /\ r \notin admitted
        /\ at'[r] = now /\ \A q \in Requests \ {r} : at'[q] = at[q]
    BY <1>2 DEF Check, Inv, TypeOK
  <2>2. admitted \subseteq Requests
    BY DEF Inv, TypeOK
  <2>3. PICK gone \in Evictions :
          /\ forgotten' = forgotten \cup {i \in gone : Live(i) # {}}
          /\ IF Allows(IF ip[r] \in gone THEN {} ELSE Live(ip[r]))
             THEN admitted' = admitted \cup {r} ELSE admitted' = admitted
    BY <1>2 DEF Check
  <2>4. ASSUME NEW i \in IPs \ forgotten', NEW t \in 0..now
        PROVE  Cardinality(AdmittedIn(i, t)') <= Budget
    <3>1. Cardinality(AdmittedIn(i, t)) <= Budget
      BY <2>3 DEF WindowBound
    <3>2. CASE ~(r \in admitted' /\ i = ip[r] /\ t = now)
      <4>1. AdmittedIn(i, t)' = AdmittedIn(i, t)
        BY <2>1, <2>2, <2>3, <3>2 DEF AdmittedIn, Inv, TypeOK
      <4>2. QED
        BY <3>1, <4>1
    <3>3. CASE r \in admitted' /\ i = ip[r] /\ t = now
      <4>1. Allows(IF i \in gone THEN {} ELSE Live(i)) /\ admitted' = admitted \cup {r}
        BY <2>1, <2>3, <3>3
      <4>2. AdmittedIn(i, now) = Live(i)
        BY <2>3, <3>3 DEF AdmittedIn, Live, Inv, TypeOK, Records
      <4>3. i \in gone => Live(i) = {}
        BY <2>3
      <4>4. Allows(Live(i))
        BY <4>1, <4>3
      <4>5. AdmittedIn(i, t)' \in SUBSET (Live(i) \cup {r})
        BY <2>1, <2>2, <3>3, <4>1, <4>2 DEF AdmittedIn
      <4>6. IsFiniteSet(Live(i)) /\ Cardinality(Live(i)) \in Nat
        BY <4>2, AdmittedFinite DEF Inv
      <4>7. Cardinality(Live(i) \cup {r}) <= Cardinality(Live(i)) + 1 /\ IsFiniteSet(Live(i) \cup {r})
            /\ Cardinality(Live(i) \cup {r}) \in Nat
        <5>1. IsFiniteSet(Live(i) \cup {r})
          BY <4>6, FS_AddElement
        <5>2. Cardinality(Live(i) \cup {r}) \in Nat
          BY <5>1, FS_CardinalityType
        <5>3. Cardinality(Live(i) \cup {r}) = IF r \in Live(i) THEN Cardinality(Live(i)) ELSE Cardinality(Live(i)) + 1
          BY <4>6, FS_AddElement
        <5>4. QED
          BY <4>6, <5>1, <5>2, <5>3
      <4>8. Cardinality(AdmittedIn(i, t)') <= Cardinality(Live(i) \cup {r})
            /\ Cardinality(AdmittedIn(i, t)') \in Nat
        BY <4>5, <4>7, FS_Subset, FS_CardinalityType
      <4>9. Cardinality(Live(i)) + 1 <= Budget
        BY <4>4, <4>6, FS_EmptySet DEF Allows, Budget
      <4>10. Budget \in Nat
        BY DEF Budget
      <4>11. QED
        BY <4>6, <4>7, <4>8, <4>9, <4>10
    <3>4. QED
      BY <3>2, <3>3
  <2>5. QED
    BY <2>1, <2>4 DEF WindowBound, Budget
<1>3. CASE UNCHANGED vars
  BY <1>3 DEF vars, WindowBound, AdmittedIn, Budget
<1>4. QED
  BY <1>1, <1>2, <1>3 DEF Next

\* WindowBound, for every cap, window and table: no window holds more admissions
\* of a remembered address than the cap.
THEOREM WindowBoundHolds == Spec => []WindowBound
<1>1. Init => WindowBound
  <2> SUFFICES ASSUME Init, NEW i \in IPs, NEW t \in 0..now
               PROVE  Cardinality(AdmittedIn(i, t)) <= Budget
    BY DEF WindowBound, Init
  <2>1. AdmittedIn(i, t) = {}
    BY DEF Init, AdmittedIn
  <2>2. QED
    BY <2>1, LimiterAssumption, FS_EmptySet DEF Budget
<1>2. QED
  BY <1>1, WindowStep, Invariance, PTL DEF Spec

-----------------------------------------------------------------------------
(* The size of the table.                                                    *)

\* What is left after an eviction fits under the cap.
LEMMA EvictionMakesRoom ==
  ASSUME TypeOK, TableBounded, NEW gone \in Evictions
  PROVE  Cardinality(known \ gone) <= MaxIPs
<1> USE LimiterAssumption
<1> DEFINE stale == {i \in known : Stale(i)}
           left  == known \ stale
<1>1. IsFiniteSet(known) /\ IsFiniteSet(left)
  BY FiniteTable, FS_Subset
<1>2. /\ Cardinality(known) \in Nat /\ Cardinality(left) \in Nat
      /\ Cardinality(left) <= Cardinality(known)
  BY <1>1, FS_CardinalityType, FS_Subset
<1>3. CASE Cardinality(known) <= MaxIPs
  <2>1. gone = {}
    BY <1>2, <1>3 DEF Evictions
  <2>2. QED
    BY <1>3, <2>1
<1>4. CASE Cardinality(known) > MaxIPs /\ Cardinality(left) <= MaxIPs
  <2>1. gone = stale
    BY <1>2, <1>4 DEF Evictions
  <2>2. QED
    BY <1>4, <2>1
<1>5. CASE Cardinality(known) > MaxIPs /\ Cardinality(left) > MaxIPs
  <2>1. PICK h \in SUBSET left : gone = stale \cup h /\ Cardinality(h) = Cardinality(left) \div 2
    BY <1>2, <1>5 DEF Evictions
  <2>2. known \ gone = left \ h /\ left \cap h = h
    BY <2>1
  <2>3. Cardinality(left \ h) = Cardinality(left) - Cardinality(h)
    BY <1>1, <2>2, FS_Difference
  <2> DEFINE n == Cardinality(left)
  <2>4. n \in Nat /\ n >= 2 /\ n <= MaxIPs + 1
    BY <1>2, <1>5 DEF TableBounded
  <2> HIDE DEF n
  <2>5. n - (n \div 2) <= MaxIPs
    BY <2>4
  <2>6. QED
    BY <2>1, <2>2, <2>3, <2>5 DEF n
<1>6. QED
  BY <1>2, <1>3, <1>4, <1>5

\* TableBounded, for every cap and any number of addresses.
THEOREM TableBoundHolds == Spec => []TableBounded
<1>1. Init => TableBounded
  BY LimiterAssumption, FS_EmptySet DEF Init, TableBounded
<1>2. Inv /\ TableBounded /\ [Next]_vars => TableBounded'
  <2> SUFFICES ASSUME Inv, TableBounded, [Next]_vars PROVE TableBounded'
    OBVIOUS
  <2>1. CASE UNCHANGED known
    BY <2>1 DEF TableBounded
  <2>2. ASSUME NEW r \in Requests, Check(r) PROVE TableBounded'
    <3>1. PICK gone \in Evictions : known' = (known \ gone) \cup {ip[r]}
      BY <2>2 DEF Check
    <3>2. Cardinality(known \ gone) <= MaxIPs
      BY EvictionMakesRoom DEF Inv
    <3>3. IsFiniteSet(known \ gone) /\ Cardinality(known \ gone) \in Nat
      BY FiniteTable, FS_Subset, FS_CardinalityType DEF Inv
    <3>4. Cardinality(known') <= Cardinality(known \ gone) + 1 /\ Cardinality(known') \in Nat
      <4> DEFINE rest == known \ gone
      <4> HIDE DEF rest
      <4>1. known' = rest \cup {ip[r]} /\ IsFiniteSet(rest) /\ Cardinality(rest) \in Nat
        BY <3>1, <3>3 DEF rest
      <4>2. /\ IsFiniteSet(rest \cup {ip[r]})
            /\ Cardinality(rest \cup {ip[r]}) = IF ip[r] \in rest THEN Cardinality(rest) ELSE Cardinality(rest) + 1
        BY <4>1, FS_AddElement
      <4>3. Cardinality(rest \cup {ip[r]}) \in Nat
        BY <4>2, FS_CardinalityType
      <4>4. QED
        BY <4>1, <4>2, <4>3 DEF rest
    <3>5. QED
      BY <3>2, <3>3, <3>4, LimiterAssumption DEF TableBounded
  <2>3. QED
    BY <2>1, <2>2 DEF Next, Tick, vars
<1>3. QED
  BY <1>1, <1>2, Invariance, PTL DEF Spec

=============================================================================
